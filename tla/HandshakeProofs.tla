--------------------------- MODULE HandshakeProofs ---------------------------
(***************************************************************************)
(* Proofs about Handshake for any hellos, connections, clock granularity,   *)
(* skew, delays and horizon: the types are preserved, and within the        *)
(* retention margin a hello authenticates at most one connection.           *)
(*                                                                          *)
(* The argument compares three instants of a hello h: sentAt[h], when it    *)
(* was stamped; Late(h), the first tick at which its timestamp is out of    *)
(* the window; and sentAt[h] + ReplayTTL, before which no cleanup can       *)
(* forget its nonce.  The margin puts Late(h), and the delays a goroutine   *)
(* may add, before the last.                                                *)
(***************************************************************************)
EXTENDS Handshake, TLAPS

\* The first tick at which the timestamp of h is too old.
Late(h) == TicksPerSec * (ts[h] + ClockSkew + 1)

\* The last tick at which the nonce of h is certainly remembered.
Retained(h) == sentAt[h] + ReplayTTL

\* A hello that was never written is not on its way.
Written ==
    \A c \in Conn : pc[c] # "idle" => carries[c] \in Hello /\ carries[c] \in written

\* A written hello is out of the window, delays included, while it is retained.
WindowInsideRetention ==
    \A h \in Hello :
        h \in written => sentAt[h] <= now /\ Late(h) + 2 * MaxDelay <= Retained(h)

\* A handshake between its checks and the lock is recent, and so is its hello.
DelayedIsRecent ==
    \A c \in Conn :
        pc[c] \in {"stamp", "lock"} =>
            /\ sentAt[carries[c]] <= clock[c]
            /\ clock[c] <= now /\ now <= clock[c] + MaxDelay
            /\ clock[c] < Late(carries[c]) + (IF pc[c] = "lock" THEN MaxDelay ELSE 0)

\* A recorded nonce is in the table, or its retention time is over.
RecordedIsRetained ==
    \A c \in Conn :
        pc[c] \in Remembered =>
            IF carries[c] \in seen THEN expiry[carries[c]] >= Retained(carries[c])
                                   ELSE now > Retained(carries[c])

IInv ==
    /\ TypeOK
    /\ Written
    /\ WindowInsideRetention
    /\ DelayedIsRecent
    /\ RecordedIsRetained
    /\ AtMostOnce

-----------------------------------------------------------------------------
(* Seconds and ticks.                                                       *)

\* Truncation to seconds loses less than a second.
LEMMA SecBounds ==
    ASSUME NEW t \in Nat
    PROVE  /\ Sec(t) \in Int
           /\ TicksPerSec * Sec(t) <= t
           /\ t < TicksPerSec * (Sec(t) + 1)
BY TimeAssumption DEF Sec

\* Whole seconds keep their order, and add up, when converted to ticks.
LEMMA Monotone ==
    ASSUME NEW a \in Int, NEW b \in Int, a <= b
    PROVE  /\ TicksPerSec * a \in Int
           /\ TicksPerSec * b \in Int
           /\ TicksPerSec * a <= TicksPerSec * b
BY TimeAssumption

LEMMA Additive ==
    ASSUME NEW a \in Int, NEW b \in Int
    PROVE  TicksPerSec * (a + b) = TicksPerSec * a + TicksPerSec * b
BY TimeAssumption

LEMMA TTLType == ReplayTTL \in Nat
BY TimeAssumption DEF ReplayTTL

LEMMA LateType ==
    ASSUME TypeOK, NEW h \in Hello
    PROVE  Late(h) \in Int
BY TimeAssumption DEF TypeOK, Late

\* A timestamp that passes the test is not late yet.
LEMMA InWindowNotLate ==
    ASSUME TypeOK, NEW h \in Hello, InWindow(h, now)
    PROVE  now < Late(h)
<1>1. /\ now \in Nat /\ ts[h] \in Int /\ ClockSkew \in Nat
  BY TimeAssumption DEF TypeOK
<1>2. /\ Sec(now) \in Int
      /\ now < TicksPerSec * (Sec(now) + 1)
  BY <1>1, SecBounds
<1>3. Sec(now) + 1 <= ts[h] + ClockSkew + 1
  BY <1>1, <1>2 DEF InWindow, Distance
<1>4. TicksPerSec * (Sec(now) + 1) <= TicksPerSec * (ts[h] + ClockSkew + 1)
      /\ TicksPerSec * (Sec(now) + 1) \in Int
      /\ TicksPerSec * (ts[h] + ClockSkew + 1) \in Int
  BY <1>1, <1>2, <1>3, Monotone
<1> QED
  BY <1>1, <1>2, <1>4 DEF Late

\* Within the margin, a hello stamped by a clock at most Ahead seconds ahead is
\* late, delays included, no later than its nonce may be forgotten.
LEMMA StampLeavesMargin ==
    ASSUME Margin, NEW t \in Nat, NEW o \in -Behind .. Ahead
    PROVE  TicksPerSec * (Sec(t) + o + ClockSkew + 1) + 2 * MaxDelay <= t + ReplayTTL
<1>1. /\ Sec(t) \in Int /\ TicksPerSec * Sec(t) <= t
  BY SecBounds
<1>2. /\ {ClockSkew, Ahead, Behind, MaxDelay} \subseteq Nat
      /\ TicksPerSec \in Nat \ {0}
      /\ o \in Int /\ o <= Ahead
  BY TimeAssumption
<1> DEFINE W == ClockSkew + Ahead + 1
           M == ClockSkew - Ahead - 1
<1>3. W \in Int /\ M \in Int /\ W + M = 2 * ClockSkew /\ Sec(t) + o + ClockSkew + 1 <= Sec(t) + W
  BY <1>1, <1>2
<1>4. TicksPerSec * (Sec(t) + o + ClockSkew + 1) <= TicksPerSec * (Sec(t) + W)
  BY <1>1, <1>2, <1>3, Monotone
<1>5. TicksPerSec * (Sec(t) + W) = TicksPerSec * Sec(t) + TicksPerSec * W
  BY <1>1, <1>3, Additive
<1>6. 2 * MaxDelay <= TicksPerSec * M
  BY DEF Margin
<1>7. TicksPerSec * W + TicksPerSec * M = ReplayTTL
  <2>1. TicksPerSec * (W + M) = TicksPerSec * W + TicksPerSec * M
    BY <1>3, Additive
  <2>2. TicksPerSec * (2 * ClockSkew) = 2 * ClockSkew * TicksPerSec
    BY <1>2
  <2> QED
    BY <1>3, <2>1, <2>2 DEF ReplayTTL
<1>8. /\ TicksPerSec * (Sec(t) + o + ClockSkew + 1) \in Int
      /\ TicksPerSec * (Sec(t) + W) \in Int
      /\ TicksPerSec * W \in Int /\ TicksPerSec * M \in Int
      /\ TicksPerSec * Sec(t) \in Int
  BY <1>1, <1>2, <1>3
<1> HIDE DEF W, M
<1> QED
  BY <1>1, <1>2, <1>4, <1>5, <1>6, <1>7, <1>8, TTLType

-----------------------------------------------------------------------------
(* Types, and what is on its way: no margin is needed.                      *)

LEMMA TypeInit == Init => TypeOK /\ Written
BY DEF Init, TypeOK, Written

LEMMA TypeStep == TypeOK /\ Written /\ [Next]_vars => (TypeOK /\ Written)'
<1> SUFFICES ASSUME TypeOK, Written, [Next]_vars
             PROVE  TypeOK' /\ Written'
  OBVIOUS
<1> USE NameAssumption
<1>1. ASSUME NEW h \in Hello, NEW c \in Conn, ClientHello(h, c)
      PROVE  TypeOK' /\ Written'
  <2>1. PICK o \in -Behind .. Ahead : ts' = [ts EXCEPT ![h] = Sec(now) + o]
    BY <1>1 DEF ClientHello
  <2>2. Sec(now) + o \in Int
    BY <2>1, SecBounds, TimeAssumption DEF TypeOK
  <2>3. TypeOK'
    BY <1>1, <2>1, <2>2 DEF ClientHello, TypeOK
  <2>4. Written'
    BY <1>1 DEF ClientHello, TypeOK, Written
  <2> QED BY <2>3, <2>4
<1>2. ASSUME NEW h \in Hello, NEW c \in Conn, DeliverAgain(h, c)
      PROVE  TypeOK' /\ Written'
  BY <1>2 DEF DeliverAgain, TypeOK, Written
<1>3. ASSUME NEW c \in Conn, ReadFail(c)
      PROVE  TypeOK' /\ Written'
  BY <1>3 DEF ReadFail, Goto, TypeOK, Written
<1>4. ASSUME NEW c \in Conn, Verify(c)
      PROVE  TypeOK' /\ Written'
  BY <1>4 DEF Verify, Goto, TypeOK, Written
<1>5. ASSUME NEW c \in Conn, Stamp(c)
      PROVE  TypeOK' /\ Written'
  BY <1>5 DEF Stamp, Goto, TypeOK, Written
<1>6. ASSUME NEW c \in Conn, RefuseDuplicate(c)
      PROVE  TypeOK' /\ Written'
  BY <1>6 DEF RefuseDuplicate, Goto, TypeOK, Written
<1>7. ASSUME NEW c \in Conn, Remember(c)
      PROVE  TypeOK' /\ Written'
  <2>1. ExpiresAt(clock[c]) \in Nat
    BY TTLType DEF TypeOK, ExpiresAt
  <2>2. carries[c] \in Hello
    BY <1>7 DEF Remember, Written
  <2>3. Kept(clock[c]) \subseteq Hello
    BY DEF Kept, TypeOK
  <2>4. TypeOK'
    BY <1>7, <2>1, <2>2, <2>3 DEF Remember, Goto, TypeOK, Remembered
  <2>5. Written'
    BY <1>7 DEF Remember, Goto, TypeOK, Written
  <2> QED BY <2>4, <2>5
<1>8. CASE Tick
  BY <1>8 DEF Tick, TypeOK, Written
<1>9. CASE UNCHANGED vars
  BY <1>9 DEF vars, TypeOK, Written
<1> QED
  BY <1>1, <1>2, <1>3, <1>4, <1>5, <1>6, <1>7, <1>8, <1>9 DEF Next

\* Type correctness of the handshake.
THEOREM TypeCorrect == Spec => []TypeOK
<1> QED BY TypeInit, TypeStep, PTL DEF Spec

-----------------------------------------------------------------------------
(* The inductive invariant, within the margin.                              *)

LEMMA InvInit == Init => IInv
<1> SUFFICES ASSUME Init PROVE IInv
  OBVIOUS
<1>1. TypeOK /\ Written
  BY TypeInit
<1>2. WindowInsideRetention
  BY NameAssumption DEF Init, WindowInsideRetention
<1>3. DelayedIsRecent /\ RecordedIsRetained /\ AtMostOnce
  BY DEF Init, DelayedIsRecent, RecordedIsRetained, AtMostOnce, Remembered
<1> QED BY <1>1, <1>2, <1>3 DEF IInv

\* A step that leaves clocks, timestamps and the table alone, and puts no
\* connection between its checks and its reply, keeps the invariant.
LEMMA QuietStep ==
    ASSUME IInv, TypeOK', Written',
           UNCHANGED <<now, ts, sentAt, clock, seen, expiry>>,
           \A h \in Hello : h \in written' => h \in written,
           \A c \in Conn :
               \/ pc'[c] = pc[c] /\ (pc[c] # "idle" => carries'[c] = carries[c])
               \/ pc'[c] \notin {"stamp", "lock"} \cup Remembered
               \/ pc[c] \in Remembered /\ pc'[c] \in Remembered /\ carries'[c] = carries[c]
    PROVE  IInv'
<1> USE DEF IInv
<1>1. \A h \in Hello : Late(h)' = Late(h) /\ Retained(h)' = Retained(h)
  BY DEF Late, Retained
<1>2. WindowInsideRetention'
  BY <1>1 DEF WindowInsideRetention
<1>3. \A c \in Conn : pc'[c] \in {"stamp", "lock"} => pc[c] = pc'[c] /\ carries'[c] = carries[c]
                                                      /\ carries[c] \in Hello
  BY DEF Remembered, Written
<1>4. DelayedIsRecent'
  BY <1>1, <1>3 DEF DelayedIsRecent
<1>5. \A c \in Conn : pc'[c] \in Remembered => pc[c] \in Remembered /\ carries'[c] = carries[c]
                                               /\ carries[c] \in Hello
  BY DEF Remembered, Written
<1>6. RecordedIsRetained'
  BY <1>1, <1>5 DEF RecordedIsRetained
<1>7. AtMostOnce'
  BY <1>5 DEF AtMostOnce
<1> QED BY <1>2, <1>4, <1>6, <1>7

\* Recording a nonce: the cleanup spares every nonce still retained, and the
\* nonce recorded here had no earlier connection.
LEMMA RememberStep ==
    ASSUME IInv, Margin, TypeOK', Written', NEW c \in Conn, Remember(c)
    PROVE  IInv'
<1> USE DEF IInv
<1> DEFINE h == carries[c]
<1>1. /\ pc[c] = "lock" /\ h \in Hello /\ h \notin seen /\ h \in written
      /\ pc' = [pc EXCEPT ![c] = "reply"]
      /\ seen' = Kept(clock[c]) \cup {h}
      /\ expiry' = [expiry EXCEPT ![h] = ExpiresAt(clock[c])]
      /\ UNCHANGED <<now, written, ts, sentAt, carries, clock>>
  BY DEF Remember, Goto, Duplicate, Written
<1>2. \A k \in Hello : /\ Late(k)' = Late(k) /\ Retained(k)' = Retained(k)
                       /\ Late(k) \in Int /\ Retained(k) \in Int
  BY <1>1, LateType, TTLType DEF Late, Retained, TypeOK
<1>3. /\ now \in Nat /\ MaxDelay \in Nat /\ clock[c] \in Nat /\ sentAt[h] \in Nat
      /\ sentAt[h] <= clock[c] /\ clock[c] <= now /\ now <= clock[c] + MaxDelay
      /\ clock[c] < Late(h) + MaxDelay
      /\ Late(h) + 2 * MaxDelay <= Retained(h)
  BY <1>1, TimeAssumption DEF DelayedIsRecent, WindowInsideRetention, TypeOK
<1>4. now <= Retained(h)
  BY <1>1, <1>2, <1>3
<1>5. \A d \in Conn : pc[d] \in Remembered => carries[d] # h
  BY <1>1, <1>2, <1>3, <1>4 DEF RecordedIsRetained
<1>6. WindowInsideRetention'
  BY <1>1, <1>2 DEF WindowInsideRetention
<1>7. DelayedIsRecent'
  <2> SUFFICES ASSUME NEW d \in Conn, pc'[d] \in {"stamp", "lock"}
               PROVE  /\ sentAt[carries[d]] <= clock[d]
                      /\ clock[d] <= now /\ now <= clock[d] + MaxDelay
                      /\ clock[d] < Late(carries[d]) + (IF pc'[d] = "lock" THEN MaxDelay ELSE 0)
                      /\ carries[d] \in Hello
    BY <1>1, <1>2 DEF DelayedIsRecent
  <2>1. pc'[d] = pc[d] /\ carries[d] \in Hello
    BY <1>1 DEF TypeOK, Written
  <2> QED BY <2>1 DEF DelayedIsRecent
<1>8. RecordedIsRetained'
  <2> SUFFICES ASSUME NEW d \in Conn, pc'[d] \in Remembered
               PROVE  IF carries[d] \in seen' THEN expiry'[carries[d]] >= Retained(carries[d])
                                              ELSE now > Retained(carries[d])
    BY <1>1, <1>2, Written' DEF RecordedIsRetained, Written, Remembered
  <2>1. CASE d = c
    <3>1. expiry'[h] = clock[c] + ReplayTTL
      BY <1>1 DEF ExpiresAt, TypeOK
    <3>2. carries[d] \in seen'
      BY <1>1, <2>1
    <3> QED BY <1>3, <2>1, <3>1, <3>2, TTLType DEF Retained
  <2>2. CASE d # c
    <3>1. pc[d] \in Remembered /\ carries[d] \in Hello /\ carries[d] # h
      BY <1>1, <1>5, <2>2 DEF TypeOK, Written, Remembered
    <3>2. expiry'[carries[d]] = expiry[carries[d]] /\ expiry[carries[d]] \in Nat
      BY <1>1, <3>1 DEF TypeOK
    <3>3. CASE carries[d] \in seen
      <4>1. expiry[carries[d]] >= Retained(carries[d])
        BY <3>1, <3>3 DEF RecordedIsRetained
      <4>2. CASE carries[d] \in seen'
        BY <3>2, <4>1, <4>2
      <4>3. CASE carries[d] \notin seen'
        <5>1. clock[c] > expiry[carries[d]]
          BY <1>1, <3>3, <4>3 DEF Kept, Expired
        <5> QED BY <1>2, <1>3, <3>1, <3>2, <4>1, <4>3, <5>1
      <4> QED BY <4>2, <4>3
    <3>4. CASE carries[d] \notin seen
      <4>1. carries[d] \notin seen'
        BY <1>1, <3>1, <3>4 DEF Kept
      <4> QED BY <3>1, <3>4, <4>1 DEF RecordedIsRetained
    <3> QED BY <3>3, <3>4
  <2> QED BY <2>1, <2>2
<1>9. AtMostOnce'
  BY <1>1, <1>5 DEF AtMostOnce, TypeOK, Remembered
<1> QED BY <1>6, <1>7, <1>8, <1>9

LEMMA InvStep == Margin /\ IInv /\ [Next]_vars => IInv'
<1> SUFFICES ASSUME Margin, IInv, [Next]_vars
             PROVE  IInv'
  OBVIOUS
<1> USE NameAssumption DEF IInv
<1>0. TypeOK' /\ Written'
  BY TypeStep
<1>1. ASSUME NEW h \in Hello, NEW c \in Conn, ClientHello(h, c)
      PROVE  IInv'
  <2>1. PICK o \in -Behind .. Ahead : ts' = [ts EXCEPT ![h] = Sec(now) + o]
    BY <1>1 DEF ClientHello
  <2>2. /\ h \notin written
        /\ ts'[h] = Sec(now) + o /\ sentAt'[h] = now
        /\ written' = written \cup {h} /\ sentAt' = [sentAt EXCEPT ![h] = now]
        /\ carries' = [carries EXCEPT ![c] = h] /\ pc' = [pc EXCEPT ![c] = "read"]
        /\ pc[c] = "idle" /\ UNCHANGED <<now, clock, seen, expiry>>
    BY <1>1, <2>1 DEF ClientHello, TypeOK, Written
  <2>3. \A k \in Hello \ {h} : ts'[k] = ts[k] /\ sentAt'[k] = sentAt[k] /\ (k \in written' <=> k \in written)
    BY <2>1, <2>2 DEF TypeOK
  <2>4. \A k \in Hello \ {h} : Late(k)' = Late(k) /\ Retained(k)' = Retained(k)
    BY <2>3 DEF Late, Retained
  <2>5. Late(h)' + 2 * MaxDelay <= Retained(h)'
    BY <2>1, <2>2, StampLeavesMargin DEF Late, Retained, TypeOK
  <2>6. WindowInsideRetention'
    BY <2>2, <2>3, <2>4, <2>5 DEF WindowInsideRetention, TypeOK
  <2>7. \A d \in Conn : pc'[d] # "read" /\ pc'[d] # "idle" =>
            /\ pc'[d] = pc[d] /\ carries'[d] = carries[d] /\ carries[d] \in Hello \ {h}
    BY <2>2 DEF TypeOK, Written
  <2>8. DelayedIsRecent'
    BY <2>2, <2>3, <2>4, <2>7 DEF DelayedIsRecent
  <2>9. RecordedIsRetained'
    BY <2>2, <2>4, <2>7 DEF RecordedIsRetained, Remembered
  <2>10. AtMostOnce'
    BY <2>2, <2>7 DEF AtMostOnce, Remembered
  <2> QED BY <1>0, <2>6, <2>8, <2>9, <2>10
<1>2. ASSUME NEW h \in Hello, NEW c \in Conn, DeliverAgain(h, c)
      PROVE  IInv'
  BY <1>0, <1>2, QuietStep DEF DeliverAgain, TypeOK, Remembered
<1>3. ASSUME NEW c \in Conn, ReadFail(c)
      PROVE  IInv'
  BY <1>0, <1>3, QuietStep DEF ReadFail, Goto, TypeOK, Remembered
<1>4. ASSUME NEW c \in Conn, Verify(c)
      PROVE  IInv'
  <2>1. CASE pc'[c] # "stamp"
    <3>1. /\ pc'[c] \in {"stale", "badmac"} /\ pc[c] = "read"
          /\ \A d \in Conn \ {c} : pc'[d] = pc[d] /\ clock'[d] = clock[d]
          /\ UNCHANGED <<now, written, ts, sentAt, carries, seen, expiry>>
      BY <1>4, <2>1 DEF Verify, Goto, TypeOK
    <3>2. \A k \in Hello : Late(k)' = Late(k) /\ Retained(k)' = Retained(k)
      BY <3>1 DEF Late, Retained
    <3>3. DelayedIsRecent'
      BY <3>1, <3>2 DEF DelayedIsRecent, Written
    <3>4. RecordedIsRetained' /\ AtMostOnce' /\ WindowInsideRetention'
      BY <3>1, <3>2 DEF RecordedIsRetained, AtMostOnce, WindowInsideRetention, Remembered, Written
    <3> QED BY <1>0, <3>3, <3>4
  <2>2. CASE pc'[c] = "stamp"
    <3>1. /\ pc[c] = "read" /\ InWindow(carries[c], now) /\ clock'[c] = now
          /\ \A d \in Conn \ {c} : pc'[d] = pc[d] /\ clock'[d] = clock[d]
          /\ UNCHANGED <<now, written, ts, sentAt, carries, seen, expiry>>
      BY <1>4, <2>2 DEF Verify, Goto, TypeOK
    <3>2. \A k \in Hello : Late(k)' = Late(k) /\ Retained(k)' = Retained(k)
      BY <3>1 DEF Late, Retained
    <3>3. carries[c] \in Hello /\ carries[c] \in written
      BY <3>1 DEF Written
    <3>4. now < Late(carries[c]) /\ sentAt[carries[c]] <= now /\ Late(carries[c]) \in Int
      BY <3>1, <3>3, InWindowNotLate, LateType DEF WindowInsideRetention
    <3>5. DelayedIsRecent'
      <4> SUFFICES ASSUME NEW d \in Conn, pc'[d] \in {"stamp", "lock"}
                   PROVE  /\ sentAt[carries[d]] <= clock'[d]
                          /\ clock'[d] <= now /\ now <= clock'[d] + MaxDelay
                          /\ clock'[d] < Late(carries[d]) + (IF pc'[d] = "lock" THEN MaxDelay ELSE 0)
                          /\ carries[d] \in Hello
        BY <3>1, <3>2 DEF DelayedIsRecent
      <4>1. CASE d = c
        BY <2>2, <3>1, <3>3, <3>4, <4>1, TimeAssumption DEF TypeOK
      <4>2. CASE d # c
        BY <3>1, <4>2 DEF DelayedIsRecent, Written
      <4> QED BY <4>1, <4>2
    <3>6. RecordedIsRetained' /\ AtMostOnce' /\ WindowInsideRetention'
      BY <2>2, <3>1, <3>2 DEF RecordedIsRetained, AtMostOnce, WindowInsideRetention, Remembered, Written
    <3> QED BY <1>0, <3>5, <3>6
  <2> QED BY <2>1, <2>2
<1>5. ASSUME NEW c \in Conn, Stamp(c)
      PROVE  IInv'
  <2>1. /\ pc[c] = "stamp" /\ pc'[c] = "lock" /\ clock'[c] = now
        /\ \A d \in Conn \ {c} : pc'[d] = pc[d] /\ clock'[d] = clock[d]
        /\ UNCHANGED <<now, written, ts, sentAt, carries, seen, expiry>>
    BY <1>5 DEF Stamp, Goto, TypeOK
  <2>2. \A k \in Hello : Late(k)' = Late(k) /\ Retained(k)' = Retained(k)
    BY <2>1 DEF Late, Retained
  <2>3. DelayedIsRecent'
    <3> SUFFICES ASSUME NEW d \in Conn, pc'[d] \in {"stamp", "lock"}
                 PROVE  /\ sentAt[carries[d]] <= clock'[d]
                        /\ clock'[d] <= now /\ now <= clock'[d] + MaxDelay
                        /\ clock'[d] < Late(carries[d]) + (IF pc'[d] = "lock" THEN MaxDelay ELSE 0)
                        /\ carries[d] \in Hello
      BY <2>1, <2>2 DEF DelayedIsRecent
    <3>1. CASE d = c
      <4>1. /\ carries[c] \in Hello /\ sentAt[carries[c]] \in Nat
            /\ sentAt[carries[c]] <= clock[c] /\ clock[c] <= now /\ now <= clock[c] + MaxDelay
            /\ clock[c] < Late(carries[c]) + 0
        BY <2>1 DEF DelayedIsRecent, Written, TypeOK
      <4>2. now \in Nat /\ clock[c] \in Nat /\ MaxDelay \in Nat /\ Late(carries[c]) \in Int
        BY <4>1, LateType, TimeAssumption DEF TypeOK
      <4> QED BY <2>1, <3>1, <4>1, <4>2
    <3>2. CASE d # c
      BY <2>1, <3>2 DEF DelayedIsRecent, Written
    <3> QED BY <3>1, <3>2
  <2>4. RecordedIsRetained' /\ AtMostOnce' /\ WindowInsideRetention'
    BY <2>1, <2>2 DEF RecordedIsRetained, AtMostOnce, WindowInsideRetention, Remembered, Written
  <2> QED BY <1>0, <2>3, <2>4
<1>6. ASSUME NEW c \in Conn, RefuseDuplicate(c)
      PROVE  IInv'
  BY <1>0, <1>6, QuietStep DEF RefuseDuplicate, Goto, TypeOK, Remembered
<1>7. ASSUME NEW c \in Conn, Remember(c)
      PROVE  IInv'
  BY <1>0, <1>7, RememberStep
<1>8. CASE Tick
  <2>1. /\ now' = now + 1 /\ now \in Nat
        /\ \A c \in Delayed : now < clock[c] + MaxDelay
        /\ UNCHANGED <<written, ts, sentAt, carries, pc, clock, seen, expiry>>
    BY <1>8 DEF Tick, TypeOK
  <2>2. \A k \in Hello : /\ Late(k)' = Late(k) /\ Retained(k)' = Retained(k)
                         /\ Retained(k) \in Nat
    BY <2>1, TTLType DEF Late, Retained, TypeOK
  <2>3. WindowInsideRetention'
    BY <2>1, <2>2 DEF WindowInsideRetention, TypeOK
  <2>4. DelayedIsRecent'
    <3> SUFFICES ASSUME NEW d \in Conn, pc[d] \in {"stamp", "lock"}
                 PROVE  /\ clock[d] <= now + 1 /\ now + 1 <= clock[d] + MaxDelay
                        /\ carries[d] \in Hello
      BY <2>1, <2>2 DEF DelayedIsRecent
    <3> QED BY <2>1, TimeAssumption DEF DelayedIsRecent, Delayed, TypeOK, Written
  <2>5. RecordedIsRetained'
    BY <2>1, <2>2 DEF RecordedIsRetained, Written, Remembered
  <2>6. AtMostOnce'
    BY <2>1 DEF AtMostOnce
  <2> QED BY <1>0, <2>3, <2>4, <2>5, <2>6
<1>9. CASE UNCHANGED vars
  BY <1>0, <1>9, QuietStep DEF vars
<1> QED
  BY <1>1, <1>2, <1>3, <1>4, <1>5, <1>6, <1>7, <1>8, <1>9 DEF Next

\* Within the margin, remember accepts every nonce at most once, whatever is
\* delivered again and however the handshakes interleave.
THEOREM NonceUsedOnce == Margin => (Spec => []AtMostOnce)
<1> SUFFICES ASSUME Margin PROVE Spec => []AtMostOnce
  OBVIOUS
<1>1. Init => IInv
  BY InvInit
<1>2. IInv /\ [Next]_vars => IInv'
  BY InvStep
<1>3. IInv => AtMostOnce
  BY DEF IInv
<1> QED BY <1>1, <1>2, <1>3, PTL DEF Spec

-----------------------------------------------------------------------------
(* What holds whatever the margin: the refusals and the cleanup.            *)

\* No reading of the clock is ahead of it, and one made before the lock is recent.
ClocksRead ==
    /\ \A c \in Conn : clock[c] <= now
    /\ \A c \in Conn : pc[c] \in {"stamp", "lock"} => now <= clock[c] + MaxDelay

\* A written hello was stamped by a clock within the tolerated offsets.
Stamped ==
    \A h \in Hello :
        h \in written => /\ sentAt[h] <= now
                          /\ Sec(sentAt[h]) - Behind <= ts[h]
                          /\ ts[h] <= Sec(sentAt[h]) + Ahead

OpenInv ==
    /\ TypeOK /\ Written
    /\ ClocksRead /\ Stamped
    /\ StaleOnlyIfLate /\ TableIsPruned

\* A refused hello of a client within the offsets has spent what they leave of the
\* window, the truncation of both readings to seconds included.
LEMMA RefusedIsLate ==
    ASSUME TypeOK, Stamped, NEW h \in Hello, h \in written, ~InWindow(h, now), Ahead <= ClockSkew
    PROVE  now - sentAt[h] > TicksPerSec * (ClockSkew - Behind)
<1> DEFINE S == Sec(sentAt[h])
           N == Sec(now)
           D == ClockSkew - Behind
<1>1. /\ now \in Nat /\ sentAt[h] \in Nat /\ ts[h] \in Int /\ sentAt[h] <= now
      /\ S - Behind <= ts[h] /\ ts[h] <= S + Ahead
  BY DEF TypeOK, Stamped
<1>2. /\ {ClockSkew, Ahead, Behind} \subseteq Nat /\ TicksPerSec \in Nat \ {0}
  BY TimeAssumption
<1>3. /\ S \in Int /\ sentAt[h] < TicksPerSec * (S + 1) /\ TicksPerSec * S <= sentAt[h]
      /\ N \in Int /\ TicksPerSec * N <= now /\ now < TicksPerSec * (N + 1)
  BY <1>1, SecBounds
<1>4. S <= N
  <2> SUFFICES ASSUME N + 1 <= S PROVE FALSE
    BY <1>3
  <2>1. /\ TicksPerSec * (N + 1) <= TicksPerSec * S
        /\ TicksPerSec * (N + 1) \in Int /\ TicksPerSec * S \in Int
    BY <1>3, Monotone
  <2> QED BY <1>1, <1>3, <2>1
<1>5. N >= S + 1 + D
  BY <1>1, <1>2, <1>3, <1>4 DEF InWindow, Distance
<1>6. /\ TicksPerSec * ((S + 1) + D) <= TicksPerSec * N
      /\ TicksPerSec * ((S + 1) + D) = TicksPerSec * (S + 1) + TicksPerSec * D
      /\ TicksPerSec * (S + 1) \in Int /\ TicksPerSec * D \in Int /\ TicksPerSec * N \in Int
  <2>1. (S + 1) + D \in Int /\ (S + 1) + D <= N /\ S + 1 \in Int /\ D \in Int /\ N \in Int
    BY <1>2, <1>3, <1>5
  <2> HIDE DEF S, N, D
  <2>2. TicksPerSec * ((S + 1) + D) = TicksPerSec * (S + 1) + TicksPerSec * D
    BY <2>1, Additive
  <2>3. /\ TicksPerSec * ((S + 1) + D) <= TicksPerSec * N /\ TicksPerSec * N \in Int
    BY <2>1, Monotone
  <2>4. TicksPerSec * (S + 1) \in Int /\ TicksPerSec * D \in Int
    BY <2>1, TimeAssumption
  <2> QED BY <2>2, <2>3, <2>4
<1> HIDE DEF S, N, D
<1>7. now - sentAt[h] > TicksPerSec * D
  BY <1>1, <1>3, <1>6
<1> QED BY <1>7 DEF D

LEMMA OpenInit == Init => OpenInv
<1> SUFFICES ASSUME Init PROVE OpenInv
  OBVIOUS
<1> QED
  BY TypeInit, NameAssumption DEF Init, OpenInv, ClocksRead, Stamped, StaleOnlyIfLate,
     TableIsPruned, Remembered

\* Steps that leave the clocks, the hellos and the table alone and refuse nobody.
LEMMA QuietOpenStep ==
    ASSUME OpenInv, TypeOK', Written',
           UNCHANGED <<now, written, ts, sentAt, clock, seen, expiry>>,
           \A c \in Conn :
               \/ pc'[c] = pc[c] /\ (pc[c] # "idle" => carries'[c] = carries[c])
               \/ /\ pc'[c] \notin {"stamp", "lock", "stale", "idle"}
                  /\ pc'[c] \in Remembered => pc[c] \in Remembered
                  /\ pc[c] # "idle" => carries'[c] = carries[c]
    PROVE  OpenInv'
<1> USE DEF OpenInv
<1>1. ClocksRead' /\ Stamped'
  BY DEF ClocksRead, Stamped, Sec
<1>2. StaleOnlyIfLate'
  BY DEF StaleOnlyIfLate
<1>3. TableIsPruned'
  BY DEF TableIsPruned, Expired, Remembered
<1> QED BY <1>1, <1>2, <1>3

LEMMA OpenStep == OpenInv /\ [Next]_vars => OpenInv'
<1> SUFFICES ASSUME OpenInv, [Next]_vars PROVE OpenInv'
  OBVIOUS
<1> USE NameAssumption DEF OpenInv
<1>0. TypeOK' /\ Written'
  BY TypeStep
<1>1. ASSUME NEW h \in Hello, NEW c \in Conn, ClientHello(h, c)
      PROVE  OpenInv'
  <2>1. PICK o \in -Behind .. Ahead : ts' = [ts EXCEPT ![h] = Sec(now) + o]
    BY <1>1 DEF ClientHello
  <2>2. /\ h \notin written /\ pc[c] = "idle"
        /\ written' = written \cup {h} /\ sentAt' = [sentAt EXCEPT ![h] = now]
        /\ carries' = [carries EXCEPT ![c] = h] /\ pc' = [pc EXCEPT ![c] = "read"]
        /\ UNCHANGED <<now, clock, seen, expiry>>
    BY <1>1 DEF ClientHello, TypeOK, Written
  <2>3. \A k \in Hello \ {h} : ts'[k] = ts[k] /\ sentAt'[k] = sentAt[k] /\ (k \in written' <=> k \in written)
    BY <2>1, <2>2 DEF TypeOK
  <2>4. ts'[h] = Sec(now) + o /\ sentAt'[h] = now /\ now \in Nat /\ Sec(now) \in Int /\ o \in Int
        /\ -Behind <= o /\ o <= Ahead /\ Behind \in Nat /\ Ahead \in Nat
    BY <2>1, <2>2, SecBounds, TimeAssumption DEF TypeOK
  <2>5. Stamped'
    <3> SUFFICES ASSUME NEW k \in Hello, k \in written'
                 PROVE  /\ sentAt'[k] <= now
                        /\ Sec(sentAt'[k]) - Behind <= ts'[k]
                        /\ ts'[k] <= Sec(sentAt'[k]) + Ahead
      BY <2>2 DEF Stamped, Sec
    <3>1. CASE k = h
      BY <2>4, <3>1
    <3>2. CASE k # h
      BY <2>3, <3>2 DEF Stamped
    <3> QED BY <3>1, <3>2
  <2>6. ClocksRead'
    BY <2>2 DEF ClocksRead, TypeOK
  <2>8. \A d \in Conn : pc'[d] # "read" /\ pc'[d] # "idle" =>
            /\ pc'[d] = pc[d] /\ carries'[d] = carries[d] /\ carries[d] \in Hello \ {h}
    BY <2>2 DEF TypeOK, Written
  <2>9. StaleOnlyIfLate'
    BY <2>2, <2>3, <2>8 DEF StaleOnlyIfLate
  <2>10. TableIsPruned'
    BY <2>2, <2>8 DEF TableIsPruned, Expired, Remembered
  <2> QED BY <1>0, <2>5, <2>6, <2>9, <2>10
<1>2. ASSUME NEW h \in Hello, NEW c \in Conn, DeliverAgain(h, c)
      PROVE  OpenInv'
  BY <1>0, <1>2, QuietOpenStep DEF DeliverAgain, TypeOK, Remembered
<1>3. ASSUME NEW c \in Conn, ReadFail(c) \/ RefuseDuplicate(c)
      PROVE  OpenInv'
  BY <1>0, <1>3, QuietOpenStep DEF ReadFail, RefuseDuplicate, Goto, TypeOK, Remembered
<1>4. ASSUME NEW c \in Conn, Verify(c)
      PROVE  OpenInv'
  <2>1. /\ pc[c] = "read" /\ pc'[c] \in {"stale", "badmac", "stamp"} /\ clock'[c] = now
        /\ pc'[c] = "stale" <=> ~InWindow(carries[c], now)
        /\ carries[c] \in Hello /\ carries[c] \in written
        /\ \A d \in Conn \ {c} : pc'[d] = pc[d] /\ clock'[d] = clock[d]
        /\ UNCHANGED <<now, written, ts, sentAt, carries, seen, expiry>>
    BY <1>4 DEF Verify, Goto, TypeOK, Written
  <2>2. ClocksRead'
    BY <2>1, TimeAssumption DEF ClocksRead, TypeOK
  <2>3. Stamped'
    BY <2>1 DEF Stamped, Sec
  <2>4. StaleOnlyIfLate'
    BY <2>1, RefusedIsLate DEF StaleOnlyIfLate
  <2>5. TableIsPruned'
    BY <2>1 DEF TableIsPruned, Expired, Remembered
  <2> QED BY <1>0, <2>2, <2>3, <2>4, <2>5
<1>5. ASSUME NEW c \in Conn, Stamp(c)
      PROVE  OpenInv'
  <2>1. /\ pc[c] = "stamp" /\ pc'[c] = "lock" /\ clock'[c] = now
        /\ \A d \in Conn \ {c} : pc'[d] = pc[d] /\ clock'[d] = clock[d]
        /\ UNCHANGED <<now, written, ts, sentAt, carries, seen, expiry>>
    BY <1>5 DEF Stamp, Goto, TypeOK
  <2>2. ClocksRead'
    BY <2>1, TimeAssumption DEF ClocksRead, TypeOK
  <2>3. Stamped'
    BY <2>1 DEF Stamped, Sec
  <2>4. StaleOnlyIfLate' /\ TableIsPruned'
    BY <2>1 DEF StaleOnlyIfLate, TableIsPruned, Expired, Remembered
  <2> QED BY <1>0, <2>2, <2>3, <2>4
<1>6. ASSUME NEW c \in Conn, Remember(c)
      PROVE  OpenInv'
  <2> DEFINE h == carries[c]
  <2>1. /\ pc[c] = "lock" /\ h \in Hello /\ h \notin seen
        /\ pc' = [pc EXCEPT ![c] = "reply"]
        /\ seen' = Kept(clock[c]) \cup {h}
        /\ expiry' = [expiry EXCEPT ![h] = clock[c] + ReplayTTL]
        /\ UNCHANGED <<now, written, ts, sentAt, carries, clock>>
    BY <1>6 DEF Remember, Goto, Duplicate, Written, ExpiresAt
  <2>1a. pc'[c] = "reply" /\ \A d \in Conn \ {c} : pc'[d] = pc[d]
    BY <2>1 DEF TypeOK
  <2>2a. ClocksRead' /\ StaleOnlyIfLate'
    BY <2>1, <2>1a DEF ClocksRead, StaleOnlyIfLate
  <2>2b. Stamped'
    BY <2>1 DEF Stamped, Sec
  <2>3. TableIsPruned'
    <3> SUFFICES ASSUME NEW d \in Conn, NEW k \in seen', pc'[d] \in Remembered, MaxDelay <= ReplayTTL
                 PROVE  ~(clock[d] > expiry'[k])
      BY <2>1 DEF TableIsPruned, Expired, Remembered
    <3>1. /\ clock[d] \in Nat /\ clock[c] \in Nat /\ now \in Nat
          /\ clock[d] <= now /\ now <= clock[c] + MaxDelay /\ MaxDelay \in Nat
      BY <2>1, TimeAssumption DEF ClocksRead, TypeOK
    <3>2. CASE k = h
      <4>1. expiry'[k] = clock[c] + ReplayTTL
        BY <2>1, <3>2 DEF TypeOK
      <4> QED BY <3>1, <4>1, TTLType
    <3>3. CASE k # h
      <4>1. k \in seen /\ ~(clock[c] > expiry[k]) /\ expiry'[k] = expiry[k]
        BY <2>1, <3>3 DEF Kept, Expired, TypeOK
      <4>2. CASE d = c
        BY <4>1, <4>2
      <4>3. CASE d # c
        BY <2>1, <4>1, <4>3 DEF TableIsPruned, Expired, TypeOK
      <4> QED BY <4>2, <4>3
    <3> QED BY <3>2, <3>3
  <2> QED BY <1>0, <2>2a, <2>2b, <2>3
<1>7. CASE Tick
  <2>1. /\ now' = now + 1 /\ now \in Nat
        /\ \A c \in Delayed : now < clock[c] + MaxDelay
        /\ UNCHANGED <<written, ts, sentAt, carries, pc, clock, seen, expiry>>
    BY <1>7 DEF Tick, TypeOK
  <2>2. ClocksRead'
    BY <2>1, TimeAssumption DEF ClocksRead, Delayed, TypeOK
  <2>3. Stamped'
    BY <2>1 DEF Stamped, Sec, TypeOK
  <2>4. StaleOnlyIfLate' /\ TableIsPruned'
    BY <2>1 DEF StaleOnlyIfLate, TableIsPruned, Expired
  <2> QED BY <1>0, <2>2, <2>3, <2>4
<1>8. CASE UNCHANGED vars
  BY <1>0, <1>8, QuietOpenStep DEF vars
<1> QED
  BY <1>1, <1>2, <1>3, <1>4, <1>5, <1>6, <1>7, <1>8 DEF Next

\* The truncation to seconds never costs a client its connection: it is refused as
\* out of window only when its hello was late by what the offsets leave of clockSkew.
THEOREM RefusedOnlyIfLate == Spec => []StaleOnlyIfLate
<1>1. OpenInv => StaleOnlyIfLate
  BY DEF OpenInv
<1> QED BY <1>1, OpenInit, OpenStep, PTL DEF Spec

\* After a cleanup nothing that had expired by then is left in the table, entries
\* inserted later by goroutines with older readings of the clock included.
THEOREM CleanupIsComplete == Spec => []TableIsPruned
<1>1. OpenInv => TableIsPruned
  BY DEF OpenInv
<1> QED BY <1>1, OpenInit, OpenStep, PTL DEF Spec
=============================================================================

------------------------------ MODULE Handshake ------------------------------
(***************************************************************************)
(* The authentication handshake of internal/protocol: the client hello     *)
(* (timestamp, nonce, MAC), the server's checks in the order the code makes *)
(* them, the table of remembered nonces with its opportunistic cleanup, and *)
(* the server hello.                                                        *)
(*                                                                          *)
(* Time.  `now' is the wall clock in ticks, the unit of time.Time.  The     *)
(* skew test compares Unix seconds, that is `now' truncated to seconds,     *)
(* whereas the nonce table keeps full precision: the two granularities are  *)
(* what makes the retention arithmetic delicate.  A client's clock is off   *)
(* by a whole number of seconds in -Behind .. Ahead.  A goroutine loses at  *)
(* most MaxDelay ticks between the skew test and reading the clock again in *)
(* remember, and as much again before it holds the lock.                    *)
(*                                                                          *)
(* Delivery.  A hello is written by its client on one connection; the bytes *)
(* may be delivered again later on other connections, in any                *)
(* order relative to the first delivery.  Nonces are 32 random bytes, so a  *)
(* hello stands for its own nonce; a MAC is right exactly for the hellos    *)
(* made with the server's token.  What the client does with the answer is   *)
(* its own: it looks at the MAC over its nonce and not at the connection    *)
(* (the answer may be a relayed one), and nothing here depends on it.       *)
(***************************************************************************)
EXTENDS Integers, FiniteSets

CONSTANTS
    Hello,         \* the client hellos; each one is its own nonce
    Authentic,     \* those whose MAC was made with the server's token
    Conn,          \* connections accepted by the server
    TicksPerSec,   \* ticks in a second
    ClockSkew,     \* clockSkew, in seconds
    Ahead,         \* a client's clock is at most this many seconds ahead
    Behind,        \* ... or this many seconds behind the server's
    MaxDelay,      \* ticks a goroutine may lose between two of its steps
    Horizon,       \* bound: the last tick explored
    None           \* no hello

ASSUME TimeAssumption ==
    /\ TicksPerSec \in Nat \ {0}
    /\ {ClockSkew, Ahead, Behind, MaxDelay, Horizon} \subseteq Nat

ASSUME NameAssumption == Authentic \subseteq Hello /\ None \notin Hello

VARIABLES
    now,        \* wall clock, in ticks
    written,    \* the hellos their clients have written
    ts,         \* the timestamp in the hello, in seconds of the client's clock
    sentAt,     \* when the hello was written
    carries,    \* the hello whose bytes arrive on the connection
    pc,         \* where ServerAuthenticator.Handshake stands on the connection
    clock,      \* the last reading of the wall clock made for the connection
    seen,       \* the nonces in ServerAuthenticator.seen ...
    expiry      \* ... and the instants they are mapped to

vars == <<now, written, ts, sentAt, carries, pc, clock, seen, expiry>>

\* time.Time.Unix: the seconds that have been completed.
Sec(t) == t \div TicksPerSec

(* A definition marked Slip is a plausible mistake in the code next to it: the *)
(* property it names notices when it takes that code's place.               *)

\* Slip (AtMostOnce): the retention covers one side of the window only.
KeptOneSkew(t) == t + ClockSkew * TicksPerSec

\* How long a nonce is kept, and the instant remember stores for it.
ReplayTTL == 2 * ClockSkew * TicksPerSec
ExpiresAt(t) == t + ReplayTTL

\* The timestamp test: at most clockSkew seconds away, on either side.
Distance(a, b) == IF a < b THEN b - a ELSE a - b
StrictWindow(h, t) == Distance(Sec(t), ts[h]) < ClockSkew \* Slip (StaleOnlyIfLate)
InWindow(h, t) == Distance(Sec(t), ts[h]) <= ClockSkew

Duplicate(h) == h \in seen

\* now.After(exp) is strict.
Expired(k, t) == t > expiry[k]

KeptAll(t) == seen \* Slip (TableIsPruned): no cleanup

\* The nonces the cleanup loop of remember keeps.
Kept(t) == {k \in seen : ~Expired(k, t)}

\* Connections on which the hello was authenticated and its nonce recorded; whether
\* the server hello can then be written changes nothing here.
Remembered == {"reply"}

\* Handshake calls that have passed their checks and not yet reached the lock.
Delayed == {c \in Conn : pc[c] \in {"stamp", "lock"}}

TypeOK ==
    /\ now \in Nat
    /\ written \subseteq Hello
    /\ ts \in [Hello -> Int]
    /\ sentAt \in [Hello -> Nat]
    /\ carries \in [Conn -> Hello \cup {None}]
    /\ pc \in [Conn -> {"idle", "read", "stamp", "lock", "stale", "badmac", "dup",
                        "closed"} \cup Remembered]
    /\ clock \in [Conn -> Nat]
    /\ seen \subseteq Hello
    /\ expiry \in [Hello -> Nat]

Init ==
    /\ now = 0
    /\ written = {}
    /\ ts = [h \in Hello |-> 0]
    /\ sentAt = [h \in Hello |-> 0]
    /\ carries = [c \in Conn |-> None]
    /\ pc = [c \in Conn |-> "idle"]
    /\ clock = [c \in Conn |-> 0]
    /\ seen = {}
    /\ expiry = [h \in Hello |-> 0]

-----------------------------------------------------------------------------
(* The client and the network.                                             *)

\* ClientHandshake writes a hello stamped with the client's own clock.
ClientHello(h, c) ==
    /\ h \notin written /\ pc[c] = "idle"
    /\ \E o \in -Behind .. Ahead : ts' = [ts EXCEPT ![h] = Sec(now) + o]
    /\ written' = written \cup {h}
    /\ sentAt' = [sentAt EXCEPT ![h] = now]
    /\ carries' = [carries EXCEPT ![c] = h]
    /\ pc' = [pc EXCEPT ![c] = "read"]
    /\ UNCHANGED <<now, clock, seen, expiry>>

\* The bytes of a hello already written are delivered again, elsewhere.
DeliverAgain(h, c) ==
    /\ h \in written /\ pc[c] = "idle"
    /\ carries' = [carries EXCEPT ![c] = h]
    /\ pc' = [pc EXCEPT ![c] = "read"]
    /\ UNCHANGED <<now, written, ts, sentAt, clock, seen, expiry>>

-----------------------------------------------------------------------------
(* ServerAuthenticator.Handshake.                                          *)

Goto(c, l) == pc' = [pc EXCEPT ![c] = l]

\* The read deadline passes, or the peer goes away before 72 bytes are in.
ReadFail(c) ==
    /\ pc[c] = "read"
    /\ Goto(c, "closed")
    /\ UNCHANGED <<now, written, ts, sentAt, carries, clock, seen, expiry>>

\* The hello is in: the timestamp window first, then the MAC.
Verify(c) ==
    /\ pc[c] = "read"
    /\ Goto(c, IF ~InWindow(carries[c], now) THEN "stale"
               ELSE IF carries[c] \notin Authentic THEN "badmac" ELSE "stamp")
    /\ clock' = [clock EXCEPT ![c] = now]
    /\ UNCHANGED <<now, written, ts, sentAt, carries, seen, expiry>>

\* remember reads the clock before it takes the lock.
Stamp(c) ==
    /\ pc[c] = "stamp"
    /\ Goto(c, "lock")
    /\ clock' = [clock EXCEPT ![c] = now]
    /\ UNCHANGED <<now, written, ts, sentAt, carries, seen, expiry>>

\* The critical section of remember: a known nonce is refused before any cleanup.
RefuseDuplicate(c) ==
    /\ pc[c] = "lock" /\ Duplicate(carries[c])
    /\ Goto(c, "dup")
    /\ UNCHANGED <<now, written, ts, sentAt, carries, clock, seen, expiry>>

\* Otherwise expired entries go and the nonce is recorded.
Remember(c) ==
    /\ pc[c] = "lock" /\ ~Duplicate(carries[c])
    /\ Goto(c, "reply")
    /\ seen' = Kept(clock[c]) \cup {carries[c]}
    /\ expiry' = [expiry EXCEPT ![carries[c]] = ExpiresAt(clock[c])]
    /\ UNCHANGED <<now, written, ts, sentAt, carries, clock>>

\* Time passes, but no goroutine loses more than MaxDelay at a time before the lock.
Tick ==
    /\ now < Horizon
    /\ \A c \in Delayed : now < clock[c] + MaxDelay
    /\ now' = now + 1
    /\ UNCHANGED <<written, ts, sentAt, carries, pc, clock, seen, expiry>>

-----------------------------------------------------------------------------
Next ==
    \/ \E h \in Hello, c \in Conn : ClientHello(h, c) \/ DeliverAgain(h, c)
    \/ \E c \in Conn : \/ ReadFail(c) \/ Verify(c) \/ Stamp(c)
                       \/ RefuseDuplicate(c) \/ Remember(c)
    \/ Tick

Spec == Init /\ [][Next]_vars

\* The retention margin: what the delays and the clocks must leave so that a
\* nonce outlives the window in which its timestamp is still acceptable.
Margin == 2 * MaxDelay <= TicksPerSec * (ClockSkew - Ahead - 1)

-----------------------------------------------------------------------------
(* Properties.                                                             *)

\* A hello authenticates at most one connection, whatever is delivered again,
\* however the handshakes interleave and whenever the cleanup of remember runs.
AtMostOnce ==
    \A c, d \in Conn :
        pc[c] \in Remembered /\ pc[d] \in Remembered /\ carries[c] = carries[d] => c = d

\* A client within the tolerated clock offset is refused as out of window only if
\* its hello was late by more than what the offset leaves of clockSkew: the
\* truncation to seconds never costs such a client its connection.
StaleOnlyIfLate ==
    \A c \in Conn :
        pc[c] = "stale" /\ Ahead <= ClockSkew =>
            clock[c] - sentAt[carries[c]] > TicksPerSec * (ClockSkew - Behind)

\* The nonce table stays small: once some handshake has run its cleanup with
\* clock value t, no entry that had expired at t is left, not even one inserted
\* afterwards by a handshake that read its clock earlier.
TableIsPruned ==
    \A c \in Conn : \A k \in seen :
        pc[c] \in Remembered /\ MaxDelay <= ReplayTTL => ~Expired(k, clock[c])
=============================================================================

---------------------------- MODULE DialerProofs ----------------------------
(***************************************************************************)
(* The timing of maintainSession (Reconnect), for every configuration with  *)
(* positive backoffs, also one whose minimum exceeds its maximum: a worker  *)
(* never dials twice within Spacing ticks, and the pause doubles with every *)
(* attempt until it is the maximum.  Distance carries what has passed since *)
(* the dial, with what is left to sleep, over the pause, and over the       *)
(* session, which has not been up longer than the dial is ago.              *)
(*                                                                         *)
(* The dialers in detail implement those attempts, for every number of      *)
(* connections: each step of Dialer is a step of Reconnect or leaves its    *)
(* variables alone, so the same holds of them.  And no connection they make *)
(* is without a goroutine that looks after it.                              *)
(***************************************************************************)
EXTENDS Dialer, WellFoundedInduction, TLAPS

Distance ==
    /\ backoff >= Smaller(MinBackoff, MaxBackoff)
    /\ pc = "top" => sinceDial >= Spacing
    /\ pc = "sleep" => sinceDial + left >= Spacing
    /\ pc \in {"up", "lost"} => sinceDial >= upFor

IInv == TypeOK /\ Distance

LEMMA ConstantTypes ==
    /\ MinBackoff \in Nat \ {0} /\ MaxBackoff \in Nat \ {0} /\ MaxFails \in Nat
    /\ MinStable \in Nat \ {0} /\ Spacing \in Nat \ {0} /\ Enough \in Nat
    /\ Spacing <= Enough /\ MinStable <= Enough /\ Spacing <= MinStable
    /\ Spacing <= MinBackoff /\ Spacing <= Smaller(MinBackoff, MaxBackoff)
<1>1. MinBackoff \in Nat \ {0} /\ MaxBackoff \in Nat \ {0} /\ StableFloor \in Nat \ {0}
      /\ MaxFails \in Nat
  BY BackoffAssumption
<1>2. (3 * MaxBackoff) \div 10 \in Nat
  BY <1>1
<1>3. MinStable \in Nat \ {0}
  BY <1>1, <1>2 DEF MinStable, Larger
<1> QED
  BY <1>1, <1>3 DEF Spacing, Enough, Smaller

LEMMA InvInit == Init => IInv
BY ConstantTypes DEF Init, IInv, TypeOK, Distance, Larger, Smaller

LEMMA InvStep == IInv /\ [Next]_vars => IInv'
<1> SUFFICES ASSUME IInv, [Next]_vars PROVE IInv'
  OBVIOUS
<1> USE ConstantTypes DEF IInv, TypeOK, Distance
<1>1. ASSUME Dial PROVE IInv'
  BY <1>1 DEF Dial
<1>2. ASSUME AttemptFails \/ LostQuickly PROVE IInv'
  BY <1>2 DEF AttemptFails, LostQuickly, Pause, Counted, Smaller, Larger
<1>3. ASSUME Established \/ Lost PROVE IInv'
  BY <1>3 DEF Established, Lost
<1>4. ASSUME LostStable PROVE IInv'
  BY <1>4 DEF LostStable, Stable, Smaller, Larger
<1>5. ASSUME Wake PROVE IInv'
  BY <1>5 DEF Wake, Grow, Smaller, Larger
<1>6. ASSUME Tick PROVE IInv'
  <2>1. Larger(MinBackoff, MaxBackoff) \in Nat
    BY DEF Larger
  <2>2. /\ left' = (IF left = 0 THEN 0 ELSE left - 1)
        /\ upFor' \in {upFor, Smaller(upFor + 1, MinStable)}
        /\ pc \notin {"up", "lost"} => upFor' = upFor
        /\ sinceDial' = Smaller(sinceDial + 1, Enough)
        /\ UNCHANGED <<pc, backoff, fails>>
    BY <1>6 DEF Tick
  <2>3. TypeOK'
    BY <2>1, <2>2 DEF Smaller
  <2>4. (backoff >= Smaller(MinBackoff, MaxBackoff))'
    BY <2>2 DEF Smaller
  <2>5. (pc = "top" => sinceDial >= Spacing)'
    BY <2>2 DEF Smaller
  <2>6. (pc = "sleep" => sinceDial + left >= Spacing)'
    BY <2>1, <2>2, <1>6 DEF Smaller, Tick
  <2>7. (pc \in {"up", "lost"} => sinceDial >= upFor)'
    BY <2>2 DEF Smaller
  <2> QED BY <2>3, <2>4, <2>5, <2>6, <2>7
<1>7. CASE UNCHANGED vars
  BY <1>7 DEF vars
<1> QED
  BY <1>1, <1>2, <1>3, <1>4, <1>5, <1>6, <1>7 DEF Next

\* Type correctness: in particular the backoff stays within its configured range.
THEOREM TypeCorrect == Spec => []TypeOK
<1>1. IInv => TypeOK
  BY DEF IInv
<1> QED BY <1>1, InvInit, InvStep, PTL DEF Spec

\* No two dials of a worker are closer than Spacing.
THEOREM NoTightLoop == Spec => DialsAreSpaced
<1>1. IInv /\ [Next]_vars => [Dial => sinceDial >= Spacing]_vars
  BY DEF IInv, Distance, Dial
<1> QED BY <1>1, InvInit, InvStep, PTL DEF Spec, DialsAreSpaced

-----------------------------------------------------------------------------
(* The backoff grows.                                                       *)

\* Every nonempty set of naturals has a least element.
LEMMA LeastNatural ==
    ASSUME NEW T \in SUBSET Nat, T # {} PROVE \E m \in T : \A n \in T : ~(n < m)
<1> DEFINE R == {p \in Nat \X Nat : p[1] < p[2]}
<1>1. IsWellFoundedOn(R, Nat)
  BY NatLessThanWellFounded DEF OpToRel
<1> HIDE DEF R
<1>2. PICK x \in T : \A y \in T : ~ (<<y, x>> \in R)
  BY <1>1, WFMin
<1>3. \A i, j \in Nat : i < j => <<i, j>> \in R
  BY DEF R
<1> QED BY <1>2, <1>3

IsDoubling(f, n) ==
    f \in [0 .. n -> Nat \ {0}] /\ f[0] = MinBackoff /\ \A k \in 1 .. n : f[k] = 2 * f[k - 1]

LEMMA DoublingExists == \A n \in Nat : \E f : IsDoubling(f, n)
<1> DEFINE Bad == {n \in Nat : ~\E f : IsDoubling(f, n)}
<1> SUFFICES ASSUME Bad # {} PROVE FALSE
  OBVIOUS
<1>1. PICK m \in Bad : \A n \in Bad : ~(n < m)
  BY LeastNatural
<1>2. m # 0
  <2> DEFINE f == [k \in 0 .. 0 |-> MinBackoff]
  <2>1. IsDoubling(f, 0)
    BY BackoffAssumption DEF IsDoubling
  <2> QED BY <2>1
<1>3. PICK g : IsDoubling(g, m - 1)
  BY <1>1, <1>2
<1> DEFINE f == [k \in 0 .. m |-> IF k = m THEN 2 * g[m - 1] ELSE g[k]]
<1>4. IsDoubling(f, m)
  BY <1>2, <1>3 DEF IsDoubling
<1> QED BY <1>4

\* The recursive definition of Doubled has a solution, so it is one: two solutions
\* have no least argument at which they differ.
LEMMA DoubledDoubles == IsDoubling(Doubled, MaxFails)
<1> DEFINE D(g) == [n \in 0 .. MaxFails |-> IF n = 0 THEN MinBackoff ELSE 2 * g[n - 1]]
<1>0. MaxFails \in Nat BY BackoffAssumption
<1>1. PICK f : IsDoubling(f, MaxFails)
  BY <1>0, DoublingExists
<1>2. f = D(f)
  BY <1>0, <1>1 DEF IsDoubling
<1>3. Doubled = D(Doubled)
  BY <1>2 DEF Doubled
<1> DEFINE Differ == {n \in 0 .. MaxFails : Doubled[n] # f[n]}
<1>4. Differ = {}
  <2> SUFFICES ASSUME Differ # {} PROVE FALSE
    OBVIOUS
  <2>1. Differ \in SUBSET Nat
    BY <1>0
  <2>2. PICK m \in Differ : \A n \in Differ : ~(n < m)
    BY <2>1, LeastNatural
  <2>3. m # 0
    BY <1>0, <1>3, <1>1 DEF IsDoubling
  <2>4. m - 1 \in 0 .. MaxFails /\ m - 1 < m
    BY <1>0, <2>3
  <2>5. Doubled[m - 1] = f[m - 1]
    BY <2>2, <2>4
  <2>6. Doubled[m] = 2 * Doubled[m - 1] /\ f[m] = 2 * f[m - 1]
    <3>1. m \in 1 .. MaxFails
      BY <1>0, <2>3
    <3> HIDE DEF Differ
    <3>2. Doubled[m] = D(Doubled)[m]
      BY <1>3
    <3> QED BY <3>1, <3>2, <1>1 DEF IsDoubling
  <2> QED BY <2>2, <2>5, <2>6
<1>5. Doubled = f
  <2>1. \A n \in 0 .. MaxFails : Doubled[n] = f[n]
    BY <1>4
  <2>2. Doubled = [n \in 0 .. MaxFails |-> Doubled[n]]
    BY <1>3
  <2>3. f = [n \in 0 .. MaxFails |-> f[n]]
    BY <1>1 DEF IsDoubling
  <2> QED BY <2>1, <2>2, <2>3
<1> QED BY <1>1, <1>5

\* What is left to sleep, with what has passed since the dial, makes up the pause
\* that the attempts so far call for.
Growth ==
    MinBackoff <= MaxBackoff =>
        /\ pc # "sleep" => backoff >= Smaller(MaxBackoff, Doubled[fails])
        /\ fails > 0 /\ pc = "sleep" =>
             /\ backoff >= Smaller(MaxBackoff, Doubled[fails - 1])
             /\ sinceDial + left >= Smaller(MaxBackoff, Doubled[fails - 1])
        /\ fails > 0 /\ pc = "top" => sinceDial >= Smaller(MaxBackoff, Doubled[fails - 1])

LEMMA GrowthInit == Init => Growth
BY ConstantTypes, DoubledDoubles DEF Init, Growth, IsDoubling, Smaller

LEMMA GrowthStep == IInv /\ Growth /\ [Next]_vars => Growth'
<1> SUFFICES ASSUME IInv, Growth, [Next]_vars, MinBackoff <= MaxBackoff PROVE Growth'
  BY DEF Growth
<1>1. /\ MinBackoff \in Nat \ {0} /\ MaxBackoff \in Nat \ {0} /\ MaxFails \in Nat
      /\ Enough \in Nat /\ Enough >= MaxBackoff
  BY ConstantTypes DEF Enough
<1>2. /\ Doubled[0] = MinBackoff
      /\ \A n \in 0 .. MaxFails : Doubled[n] \in Nat \ {0}
      /\ \A n \in 1 .. MaxFails : Doubled[n] = 2 * Doubled[n - 1]
  BY <1>1, DoubledDoubles DEF IsDoubling
<1>3. /\ fails \in 0 .. MaxFails /\ backoff \in Nat \ {0} /\ left \in Nat /\ sinceDial \in 0 .. Enough
      /\ backoff >= MinBackoff
  BY <1>1 DEF IInv, TypeOK, Distance, Smaller, Larger
<1> USE DEF Growth
<1>4. ASSUME Dial \/ Established \/ Lost PROVE Growth'
  BY <1>1, <1>2, <1>3, <1>4 DEF Dial, Established, Lost
<1>5. ASSUME pc \in {"attempt", "lost"}, Pause PROVE Growth'
  <2>1. /\ pc' = "sleep" /\ left' = backoff /\ backoff' = backoff /\ sinceDial' = sinceDial
        /\ fails' \in 0 .. MaxFails /\ (fails' = fails + 1 \/ fails' = fails)
    BY <1>1, <1>3, <1>5 DEF Pause, Counted, Smaller
  <2>2. backoff >= Smaller(MaxBackoff, Doubled[fails])
    BY <1>5
  <2>3. fails' > 0 => Smaller(MaxBackoff, Doubled[fails]) >= Smaller(MaxBackoff, Doubled[fails' - 1])
    BY <1>1, <1>2, <1>3, <2>1 DEF Smaller
  <2> QED BY <1>1, <1>2, <1>3, <2>1, <2>2, <2>3 DEF Smaller
<1>6. ASSUME LostStable PROVE Growth'
  BY <1>1, <1>2, <1>6 DEF LostStable, Smaller
<1>7. ASSUME Wake PROVE Growth'
  <2>1. /\ pc' = "top" /\ fails' = fails /\ sinceDial' = sinceDial /\ left = 0
        /\ pc = "sleep" /\ backoff' = Grow(backoff)
    BY <1>7 DEF Wake
  <2>2. CASE fails = 0
    BY <1>1, <1>2, <1>3, <2>1, <2>2 DEF Grow, Smaller
  <2>3. CASE fails > 0
    BY <1>1, <1>2, <1>3, <2>1, <2>3 DEF Grow, Smaller
  <2> QED BY <1>3, <2>2, <2>3
<1>8. ASSUME Tick PROVE Growth'
  <2>1. /\ UNCHANGED <<pc, backoff, fails>>
        /\ sinceDial' = Smaller(sinceDial + 1, Enough)
        /\ left' = (IF left = 0 THEN 0 ELSE left - 1)
        /\ pc = "sleep" => left > 0
    BY <1>1, <1>3, <1>8 DEF Tick
  <2>2. fails > 0 => Doubled[fails - 1] \in Nat /\ Doubled[fails'] = Doubled[fails]
    BY <1>1, <1>2, <1>3, <2>1
  <2> QED BY <1>1, <1>2, <1>3, <2>1, <2>2 DEF Smaller
<1>9. CASE UNCHANGED vars
  BY <1>9 DEF vars
<1> QED
  BY <1>4, <1>5, <1>6, <1>7, <1>8, <1>9 DEF Next, AttemptFails, LostQuickly

\* A flapping session is limited by a growing pause, for every configuration whose
\* minimum is not above its maximum: after n attempts none of which lasted, a dial
\* comes at least MinBackoff * 2^(n-1), or MaxBackoff, after the one before (grow).
THEOREM PausesDouble == Spec => []BackoffGrows
<1>1. IInv /\ Growth => BackoffGrows
  BY DEF Growth, BackoffGrows
<1> QED
  BY <1>1, InvInit, InvStep, GrowthInit, GrowthStep, PTL DEF Spec

-----------------------------------------------------------------------------
(* Refinement.                                                             *)

LEMMA StepRefines == [DialerNext]_allVars => [Next]_vars
<1> SUFFICES ASSUME [DialerNext]_allVars PROVE [Next]_vars
  OBVIOUS
<1>1. ASSUME StartDial \/ Up \/ Drops \/ Time \/ After PROVE [Next]_vars
  BY <1>1 DEF StartDial, Up, Drops, Time, After, Next
<1>2. ASSUME Interrupted \/ Abandon \/ SetupBreaks PROVE [Next]_vars
  BY <1>2 DEF Interrupted, Abandon, SetupBreaks, GiveUp, Next
<1>3. ASSUME Connected \/ SetupDone PROVE [Next]_vars
  BY <1>3 DEF Connected, SetupDone
<1>4. ASSUME NEW s \in Sock, Arrives(s) \/ Errs(s) \/ CloseLate(s) PROVE [Next]_vars
  BY <1>4 DEF Arrives, Errs, CloseLate, GiveUp, Next
<1>5. CASE UNCHANGED allVars
  BY <1>5 DEF allVars
<1> QED
  BY <1>1, <1>2, <1>3, <1>4, <1>5 DEF DialerNext

\* Every behaviour of the dialers is one of Reconnect (maintainSession).
THEOREM DialersImplementReconnect == DialerSpec => Spec
<1>1. DialerInit => Init
  BY DEF DialerInit
<1> QED BY <1>1, StepRefines, PTL DEF DialerSpec, Spec

\* So, with whatever carrier and however slowly its dials end, a worker's dials keep
\* their distance.
THEOREM DialersKeepTheirDistance == DialerSpec => DialsAreSpaced
BY DialersImplementReconnect, NoTightLoop

\* And their pauses double.
THEOREM DialersBackOff == DialerSpec => []BackoffGrows
BY DialersImplementReconnect, PausesDouble

-----------------------------------------------------------------------------
(* Connections.                                                            *)

\* What the code knows at each point of an attempt, and that cur is its connection.
Attended ==
    /\ owner \in [Sock -> {"worker", "closer", None}]
    /\ sock \in [Sock -> {"free", "dialling", "open"}]
    /\ carrier \in {"direct", "kcp"}
    /\ dial \in {"none", "connect", "setup", "held", "up"}
    /\ cur # None <=> dial # "none"
    /\ cur # None => cur \in Sock
    /\ dial \in {"setup", "held", "up"} => sock[cur] = "open"
    /\ pc = "up" <=> dial = "up"
    /\ pc = "attempt" <=> dial \in {"connect", "setup", "held"}
    /\ NoneUnattended

LEMMA AttendedInit == DialerInit => Attended
BY DialerAssumption DEF DialerInit, Init, Attended, NoneUnattended

LEMMA AttendedStep == Attended /\ [DialerNext]_allVars => Attended'
<1> SUFFICES ASSUME Attended, [DialerNext]_allVars PROVE Attended'
  OBVIOUS
<1> USE DialerAssumption DEF Attended, NoneUnattended
<1>1. ASSUME StartDial PROVE Attended'
  BY <1>1 DEF StartDial, Owned, Dial
<1>2. ASSUME Connected PROVE Attended'
  BY <1>2 DEF Connected, At, vars
<1>3. ASSUME Interrupted PROVE Attended'
  BY <1>3 DEF Interrupted, Owned, GiveUp, AttemptFails, Pause
<1>4. ASSUME Abandon PROVE Attended'
  BY <1>4 DEF Abandon, GiveUp, AttemptFails, Pause
<1>5. ASSUME SetupDone PROVE Attended'
  BY <1>5 DEF SetupDone, At, vars
<1>6. ASSUME SetupBreaks PROVE Attended'
  BY <1>6 DEF SetupBreaks, Owned, GiveUp, AttemptFails, Pause
<1>7. ASSUME Up PROVE Attended'
  BY <1>7 DEF Up, At, Established
<1>8. ASSUME Drops PROVE Attended'
  BY <1>8 DEF Drops, Owned, Lost
<1>9. ASSUME Time \/ After PROVE Attended'
  BY <1>9 DEF Time, After, dialVars, Tick, LostStable, LostQuickly, Wake, Pause
<1>10. ASSUME NEW s \in Sock, Arrives(s) PROVE Attended'
  BY <1>10 DEF Arrives, vars
<1>11. ASSUME NEW s \in Sock, Errs(s) PROVE Attended'
  BY <1>11 DEF Errs, Owned, GiveUp, AttemptFails, Pause, vars
<1>12. ASSUME NEW s \in Sock, CloseLate(s) PROVE Attended'
  BY <1>12 DEF CloseLate, Owned, vars
<1>13. CASE UNCHANGED allVars
  BY <1>13 DEF allVars, dialVars, vars
<1> QED
  BY <1>1, <1>2, <1>3, <1>4, <1>5, <1>6, <1>7, <1>8, <1>9, <1>10, <1>11, <1>12, <1>13
     DEF DialerNext

\* The session of an abandoned kcp dial is closed by somebody however late it comes,
\* and no failing attempt leaves its connection behind (kcpDialer.Dial).
THEOREM NoConnectionIsOrphaned == DialerSpec => []NoneUnattended
<1>1. Attended => NoneUnattended
  BY DEF Attended
<1> QED BY <1>1, AttendedInit, AttendedStep, PTL DEF DialerSpec
=============================================================================

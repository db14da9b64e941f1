------------------------------ MODULE Reconnect ------------------------------
(***************************************************************************)
(* The timing of maintainSession: how long one worker of the pool waits     *)
(* before it dials again.  Backoff doubles from MinBackoff up to MaxBackoff *)
(* with every attempt that fails or yields a session that drops quickly; a  *)
(* session that lasted resets it and is replaced at once.  What the attempt *)
(* does is in ClientPool; here it takes any time and ends in any way.       *)
(***************************************************************************)
EXTENDS Integers

CONSTANTS
    MinBackoff,   \* Reconnect.MinMillis, in ticks
    MaxBackoff,   \* Reconnect.MaxMillis, in ticks
    StableFloor,  \* the 5 s of minStable, in ticks
    MaxFails      \* bound: attempts counted by the history variable fails

ASSUME BackoffAssumption ==
    /\ {MinBackoff, MaxBackoff, StableFloor} \subseteq Nat \ {0}
    /\ MaxFails \in Nat

VARIABLES
    pc,         \* between attempts, attempting, with a session, or asleep
    backoff,    \* the current backoff
    left,       \* of c.sleep
    upFor,      \* how long the session has been up, counted to MinStable
    sinceDial,  \* history: ticks since the last dial, counted to Enough
    fails       \* history: attempts since the last one that lasted

vars == <<pc, backoff, left, upFor, sinceDial, fails>>

Larger(a, b) == IF a < b THEN b ELSE a
Smaller(a, b) == IF a < b THEN a ELSE b

\* minStable: the duration that makes a session count as good.
MinStable == Larger((3 * MaxBackoff) \div 10, StableFloor)

(* A definition marked Slip is a plausible mistake in the code next to it; the *)
(* property it names notices it.                                           *)

GrowNot(cur) == cur \* Slip (BackoffGrows)

\* grow
Grow(cur) == IF 2 * cur > MaxBackoff THEN MaxBackoff ELSE 2 * cur

AnyLength == TRUE \* Slip (DialsAreSpaced): every session counts as good

\* time.Since(upSince) >= minStable
Stable == upFor >= MinStable

\* The distance two dials always keep.
Spacing == Smaller(Smaller(MinBackoff, MaxBackoff), MinStable)
Enough == MinBackoff + MaxBackoff + MinStable

TypeOK ==
    /\ pc \in {"top", "attempt", "up", "lost", "sleep"}
    /\ backoff \in 1 .. Larger(MinBackoff, MaxBackoff)
    /\ left \in 0 .. Larger(MinBackoff, MaxBackoff)
    /\ upFor \in 0 .. MinStable
    /\ sinceDial \in 0 .. Enough
    /\ fails \in 0 .. MaxFails

Init ==
    /\ pc = "top"
    /\ backoff = MinBackoff
    /\ left = 0
    /\ upFor = 0
    /\ sinceDial = Enough
    /\ fails = 0

Counted(n) == Smaller(n + 1, MaxFails)

-----------------------------------------------------------------------------
Dial ==
    /\ pc = "top"
    /\ pc' = "attempt"
    /\ sinceDial' = 0
    /\ UNCHANGED <<backoff, left, upFor, fails>>

\* c.sleep is called with the backoff; it is grown afterwards.
Pause ==
    /\ pc' = "sleep"
    /\ left' = backoff
    /\ fails' = Counted(fails)
    /\ UNCHANGED <<backoff, sinceDial>>

\* Dial, handshake or mux.Client fails.
AttemptFails == pc = "attempt" /\ Pause /\ upFor' = upFor

Established ==
    /\ pc = "attempt"
    /\ pc' = "up"
    /\ upFor' = 0
    /\ UNCHANGED <<backoff, left, sinceDial, fails>>

\* acceptReverse returns.
Lost ==
    /\ pc = "up"
    /\ pc' = "lost"
    /\ UNCHANGED <<backoff, left, upFor, sinceDial, fails>>

LostStable ==
    /\ pc = "lost" /\ Stable
    /\ pc' = "top"
    /\ backoff' = MinBackoff
    /\ fails' = 0
    /\ UNCHANGED <<left, upFor, sinceDial>>

LostQuickly == pc = "lost" /\ ~Stable /\ Pause /\ upFor' = upFor

Wake ==
    /\ pc = "sleep" /\ left = 0
    /\ pc' = "top"
    /\ backoff' = Grow(backoff)
    /\ UNCHANGED <<left, upFor, sinceDial, fails>>

Tick ==
    /\ pc # "sleep" \/ left > 0
    /\ left' = IF left = 0 THEN 0 ELSE left - 1
    /\ upFor' = IF pc \in {"up", "lost"} THEN Smaller(upFor + 1, MinStable) ELSE upFor
    /\ sinceDial' = Smaller(sinceDial + 1, Enough)
    /\ UNCHANGED <<pc, backoff, fails>>

Next ==
    \/ Dial \/ AttemptFails \/ Established \/ Lost \/ LostStable \/ LostQuickly \/ Wake \/ Tick

Spec == Init /\ [][Next]_vars

-----------------------------------------------------------------------------
(* Properties.                                                             *)

\* Whatever the server does, drop every session at once included, a worker's dials
\* are at least Spacing apart: never a tight reconnect loop.
DialsAreSpaced == [][Dial => sinceDial >= Spacing]_vars

\* The pause that n attempts too many call for: MinBackoff * 2^n.
Doubled[n \in 0 .. MaxFails] == IF n = 0 THEN MinBackoff ELSE 2 * Doubled[n - 1]

\* A flapping session is limited by a growing backoff: after n attempts none of
\* which lasted, the worker has slept at least MinBackoff * 2^(n-1) (at most
\* MaxBackoff) before it dials again.
BackoffGrows ==
    pc = "top" /\ fails > 0 /\ MinBackoff <= MaxBackoff =>
        sinceDial >= Smaller(MaxBackoff, Doubled[fails - 1])
=============================================================================

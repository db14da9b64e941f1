---------------------------- MODULE ManageProofs ----------------------------
(***************************************************************************)
(* Proofs about Manage: tunnels that the pid file does not name, and what    *)
(* the configuration file can hold.                                         *)
(*                                                                          *)
(* NoneUntracked speaks of the moments when nobody is at work.  What holds   *)
(* between them (Tracked) grants every caller at work one tunnel, except one *)
(* caller: as long as the pid file names a tunnel and all those who have     *)
(* read a number have read that one (Respected), nobody spawns or removes,   *)
(* and otherwise a tunnel may be missing from the pid file that is not yet   *)
(* being recorded.                                                          *)
(*                                                                          *)
(* FileLoads needs to know what is about to be written (Sound): every draft  *)
(* is a configuration, and one that has passed the editor's or the wizard's  *)
(* last question would load.  The lemmas about Config say what               *)
(* normalisation does to a configuration: it stays one, and doing it twice   *)
(* changes nothing, so a draft that was loaded, edited and validated loads   *)
(* again.                                                                    *)
(***************************************************************************)
EXTENDS Manage, FiniteSetTheorems, SequenceTheorems, TLAPS

-----------------------------------------------------------------------------
(* Processes and the pid file.                                              *)

\* The steps of the commands.
Place ==
    {"idle", "load", "edit", "answer", "cut", "write"}
    \cup {"start_read", "stop_read", "restart_read", "status_read", "offer_read"}
    \cup {"start_alive", "stop_alive", "restart_alive", "status_alive", "offer_alive"}
    \cup {"spawn", "truncate", "record", "astray", "term", "poll", "remove"}

\* What the process numbers in the state are.
Numbers ==
    /\ proc \in [Pid -> {"free", "tunnel", "stopping", "zombie", "stranger"}]
    /\ pidfile \in Pid \cup {None, Blank, Odd}
    /\ want \in [Caller -> Pid \cup {None, Blank, Odd}]
    /\ pc \in [Caller -> Place]
    /\ mishaps \in Nat
    /\ \A i \in Caller : pc[i] \in {"truncate", "record"} => want[i] \in Pid

\* The callers at work, but for those whose number goes into a file that is removed.
Active == {i \in Caller : pc[i] \notin {"idle", "astray"}}

\* The children that a start is about to record.
Pending == {want[i] : i \in {j \in Caller : pc[j] \in {"truncate", "record"}}}

Untracked == Tunnels \ {pidfile}

\* The pid file names a tunnel, and every caller that has read a number since then
\* has read that one: nobody will spawn a second tunnel or remove the file.
Respected ==
    /\ pidfile \in Tunnels
    /\ \A i \in Caller :
         /\ pc[i] \notin {"spawn", "truncate", "record", "remove"}
         /\ pc[i] \in {"start_alive", "stop_alive", "term", "poll", "restart_alive", "offer_alive"} =>
              want[i] = pidfile

\* Every caller at work beyond the first may leave one tunnel untracked: the one it
\* spawned, or the one whose pid file it overwrote or removed.
Tracked ==
    /\ Active = {} => Cardinality(Untracked) <= mishaps
    /\ Active # {} => \/ Respected /\ Cardinality(Untracked) + Cardinality(Active) <= mishaps + 1
                      \/ Cardinality(Tunnels \ Pending) + Cardinality(Active) <= mishaps + 1

LEMMA Finite ==
    /\ IsFiniteSet(Active) /\ IsFiniteSet(Tunnels)
    /\ \A S \in SUBSET Tunnels : IsFiniteSet(S) /\ Cardinality(S) \in Nat
    /\ Cardinality(Active) \in Nat
<1>1. IsFiniteSet(Pid) /\ IsFiniteSet(Caller)
  BY ManageAssumption, FS_Union DEF ManageAssumption, Caller
<1>2. Tunnels \in SUBSET Pid /\ Active \in SUBSET Caller
  BY DEF Tunnels, Active
<1>3. IsFiniteSet(Tunnels) /\ IsFiniteSet(Active)
  BY <1>1, <1>2, FS_Subset
<1>4. ASSUME NEW S \in SUBSET Tunnels PROVE IsFiniteSet(S) /\ Cardinality(S) \in Nat
  BY <1>3, FS_Subset, FS_CardinalityType
<1> QED BY <1>3, <1>4, FS_CardinalityType

\* Of two sets of which one has at most one element more.
LEMMA AtMostOneMore ==
    ASSUME NEW S, NEW T, NEW x, IsFiniteSet(T), S \subseteq T \cup {x}
    PROVE  /\ IsFiniteSet(S) /\ Cardinality(S) \in Nat /\ Cardinality(T) \in Nat
           /\ Cardinality(S) <= Cardinality(T) + 1
<1>1. Cardinality(T) \in Nat
  BY FS_CardinalityType
<1>2. /\ IsFiniteSet(T \cup {x})
      /\ Cardinality(T \cup {x}) = IF x \in T THEN Cardinality(T) ELSE Cardinality(T) + 1
  BY FS_AddElement
<1>3. IsFiniteSet(S) /\ Cardinality(S) <= Cardinality(T \cup {x})
  BY <1>2, FS_Subset
<1>4. Cardinality(S) \in Nat
  BY <1>3, FS_CardinalityType
<1> QED BY <1>1, <1>2, <1>3, <1>4

LEMMA NoMoreThan ==
    ASSUME NEW S, NEW T, IsFiniteSet(T), S \subseteq T
    PROVE  /\ IsFiniteSet(S) /\ Cardinality(S) \in Nat /\ Cardinality(T) \in Nat
           /\ Cardinality(S) <= Cardinality(T)
BY FS_Subset, FS_CardinalityType

\* A caller leaves, or joins, those at work.
LEMMA OneLeaves ==
    ASSUME Numbers, NEW i \in Active, pc' = [pc EXCEPT ![i] = "idle"]
    PROVE  /\ Active' = Active \ {i} /\ Cardinality(Active') = Cardinality(Active) - 1
           /\ Cardinality(Active) >= 1
           /\ Active' = {} => Active = {i} /\ Cardinality(Active) = 1
<1>1. Active' = Active \ {i} /\ i \in Active
  BY DEF Active, Numbers
<1>2. Cardinality(Active') = Cardinality(Active) - 1 /\ Cardinality(Active') \in Nat
  BY <1>1, Finite, FS_RemoveElement, FS_CardinalityType
<1>3. Active' = {} => Active = {i}
  BY <1>1
<1>4. Cardinality({i}) = 1
  BY FS_Singleton
<1>5. Cardinality(Active) \in Nat
  BY Finite
<1> QED BY <1>1, <1>2, <1>3, <1>4, <1>5

LEMMA OneJoins ==
    ASSUME Numbers, NEW i \in Caller, pc[i] = "idle", NEW l \in Place \ {"idle", "astray"},
           pc' = [pc EXCEPT ![i] = l]
    PROVE  /\ Active' = Active \cup {i} /\ Cardinality(Active') = Cardinality(Active) + 1
           /\ Active' # {}
           /\ Active = {} => Cardinality(Active) = 0
<1>1. Active' = Active \cup {i} /\ i \notin Active
  BY DEF Active, Numbers
<1> QED BY <1>1, Finite, FS_AddElement, FS_EmptySet

\* The three kinds of steps: one that goes on, one with which a command ends, and one
\* of which no caller takes notice.
LEMMA GoesOn ==
    ASSUME Numbers, mishaps' = mishaps, Tracked, Active # {}, Active' = Active,
           Tunnels' \ Pending' \subseteq Tunnels \ Pending,
           Respected => \/ Respected' /\ Untracked' \subseteq Untracked
                        \/ Tunnels' \ Pending' \subseteq Untracked
    PROVE  Tracked'
<1>1. /\ Cardinality(Tunnels' \ Pending') <= Cardinality(Tunnels \ Pending)
      /\ Cardinality(Tunnels' \ Pending') \in Nat /\ Cardinality(Tunnels \ Pending) \in Nat
      /\ Cardinality(Active) \in Nat
  <2>1. IsFiniteSet(Tunnels \ Pending)
    BY Finite
  <2> QED BY <2>1, Finite, NoMoreThan
<1>2. ASSUME Respected, Untracked' \subseteq Untracked
      PROVE  Cardinality(Untracked') <= Cardinality(Untracked) /\ Cardinality(Untracked') \in Nat /\ Cardinality(Untracked) \in Nat
  <2>1. IsFiniteSet(Untracked)
    BY Finite DEF Untracked
  <2> QED BY <2>1, <1>2, NoMoreThan
<1>3. ASSUME Respected, Tunnels' \ Pending' \subseteq Untracked
      PROVE  Cardinality(Tunnels' \ Pending') <= Cardinality(Untracked) /\ Cardinality(Untracked) \in Nat
  <2>1. IsFiniteSet(Untracked)
    BY Finite DEF Untracked
  <2> QED BY <2>1, <1>3, NoMoreThan
<1>4. CASE Respected /\ Cardinality(Untracked) + Cardinality(Active) <= mishaps + 1
  BY <1>1, <1>2, <1>3, <1>4 DEF Tracked, Numbers
<1>5. CASE Cardinality(Tunnels \ Pending) + Cardinality(Active) <= mishaps + 1
  BY <1>1, <1>5 DEF Tracked, Numbers
<1> QED BY <1>4, <1>5 DEF Tracked

LEMMA Ends ==
    ASSUME Numbers, Tracked, NEW i \in Active, Finish(i), Tunnels' = Tunnels,
           \/ mishaps' = mishaps + 1 /\ (pidfile' = pidfile \/ ~Respected)
           \/ mishaps' = mishaps /\ pidfile' = pidfile /\ pc[i] \notin {"truncate", "record"}
           \/ mishaps' = mishaps /\ pidfile' = want[i] /\ pc[i] = "record"
    PROVE  Tracked'
<1>1. pc' = [pc EXCEPT ![i] = "idle"] /\ want' = [want EXCEPT ![i] = None]
  BY DEF Finish, Forget
<1>2. /\ Cardinality(Active') = Cardinality(Active) - 1 /\ Cardinality(Active) >= 1
      /\ Active' = {} => Active = {i} /\ Cardinality(Active) = 1
  BY <1>1, OneLeaves
<1>3. /\ Active # {} /\ Cardinality(Active) \in Nat /\ mishaps \in Nat
      /\ Cardinality(Untracked) \in Nat /\ Cardinality(Tunnels \ Pending) \in Nat
      /\ IsFiniteSet(Tunnels \ Pending)
  BY Finite DEF Numbers, Untracked
<1>4. CASE Respected /\ Cardinality(Untracked) + Cardinality(Active) <= mishaps + 1
  <2>1. pidfile' = pidfile /\ Untracked' = Untracked /\ mishaps' >= mishaps /\ mishaps' \in Nat
    BY <1>3, <1>4 DEF Respected, Untracked, Active
  <2>2. Respected'
    BY <1>1, <1>4, <2>1 DEF Respected, Numbers
  <2> QED BY <1>2, <1>3, <1>4, <2>1, <2>2 DEF Tracked
<1>5. CASE Cardinality(Tunnels \ Pending) + Cardinality(Active) <= mishaps + 1
  <2>1. Pending \subseteq Pending' \cup {want[i]}
    BY <1>1 DEF Pending, Numbers
  <2>2. CASE Active' # {}
    <3>1. Tunnels' \ Pending' \subseteq (Tunnels \ Pending) \cup {want[i]}
      BY <2>1
    <3>2. /\ Cardinality(Tunnels' \ Pending') <= Cardinality(Tunnels \ Pending) + 1
          /\ Cardinality(Tunnels' \ Pending') \in Nat
      BY <1>3, <3>1, AtMostOneMore
    <3>3. mishaps' >= mishaps /\ mishaps' \in Nat
      BY <1>3
    <3> QED BY <1>2, <1>3, <1>5, <2>2, <3>2, <3>3 DEF Tracked
  <2>3. CASE Active' = {}
    <3>1. Active = {i} /\ Cardinality(Tunnels \ Pending) <= mishaps
      BY <1>2, <1>3, <1>5, <2>3
    <3>2. Pending \subseteq {want[i]} /\ (pc[i] \notin {"truncate", "record"} => Pending = {})
      BY <3>1 DEF Active, Pending
    <3>3. CASE mishaps' = mishaps + 1
      <4>1. Untracked' \subseteq (Tunnels \ Pending) \cup {want[i]}
        BY <3>2 DEF Untracked
      <4>2. /\ Cardinality(Untracked') <= Cardinality(Tunnels \ Pending) + 1
            /\ Cardinality(Untracked') \in Nat
        BY <1>3, <4>1, AtMostOneMore
      <4> QED BY <1>3, <2>3, <3>1, <3>3, <4>2 DEF Tracked
    <3>4. CASE mishaps' = mishaps
      <4>1. Untracked' \subseteq Tunnels \ Pending
        BY <1>3, <3>2, <3>4 DEF Untracked
      <4>2. /\ Cardinality(Untracked') <= Cardinality(Tunnels \ Pending)
            /\ Cardinality(Untracked') \in Nat
        BY <1>3, <4>1, NoMoreThan
      <4> QED BY <1>3, <2>3, <3>1, <3>4, <4>2 DEF Tracked
    <3> QED BY <3>3, <3>4
  <2> QED BY <2>2, <2>3
<1> QED BY <1>3, <1>4, <1>5 DEF Tracked

\* The pid file is removed under the callers that are writing it: each of them leaves
\* those at work, with the tunnel it was going to record.
LEMMA Unlinks ==
    ASSUME Numbers, Tracked, ~Respected, NEW i \in Active, pc[i] \notin {"truncate", "record"},
           NEW l \in {"idle", "start_read"}, Unlink(i, l), Tunnels' = Tunnels, mishaps' = mishaps,
           \A j \in Caller : j # i => want'[j] = want[j]
    PROVE  Tracked'
<1> DEFINE W == {j \in Caller : pc[j] = "record"}
           A == IF l = "idle" THEN Active \ {i} ELSE Active
           Lost == {want[j] : j \in W}
<1>1. /\ pidfile' = None
      /\ \A j \in Caller : j # i => pc'[j] = IF pc[j] = "record" THEN "astray" ELSE pc[j]
      /\ pc'[i] = l
  BY DEF Unlink, Active
<1>2. Active' = A \ W /\ W \subseteq A /\ A \subseteq Active
  BY <1>1 DEF Active
<1>3. /\ IsFiniteSet(A) /\ IsFiniteSet(W) /\ IsFiniteSet(Active') /\ Cardinality(A) \in Nat
      /\ Cardinality(W) \in Nat /\ Cardinality(Active') \in Nat /\ Cardinality(Active) \in Nat
  <2>1. IsFiniteSet(A) /\ IsFiniteSet(W) /\ IsFiniteSet(Active')
    BY <1>2, Finite, FS_Subset
  <2> QED BY <2>1, Finite, FS_CardinalityType
<1>4. Cardinality(Active') = Cardinality(A) - Cardinality(W)
  <2>1. Cardinality(A \ W) = Cardinality(A) - Cardinality(A \cap W)
    BY <1>3, FS_Difference
  <2>2. A \cap W = W
    BY <1>2
  <2> QED BY <1>2, <2>1, <2>2
<1>5. Cardinality(A) = IF l = "idle" THEN Cardinality(Active) - 1 ELSE Cardinality(Active)
  BY Finite, FS_RemoveElement
<1>6. IsFiniteSet(Lost) /\ Cardinality(Lost) \in Nat /\ Cardinality(Lost) <= Cardinality(W)
  <2>1. want \in [Caller -> Pid \cup {None, Blank, Odd}]
    BY DEF Numbers
  <2> DEFINE f == [j \in W |-> want[j]]
  <2>2. f \in Surjection(W, Lost)
    BY DEF Surjection
  <2>3. IsFiniteSet(Lost) /\ Cardinality(Lost) <= Cardinality(W)
    BY <1>3, <2>2, FS_Surjection
  <2> QED BY <2>3, FS_CardinalityType
<1>7. Pending \subseteq Pending' \cup Lost
  BY <1>1 DEF Pending
<1> DEFINE T == Tunnels \ Pending
<1>8. /\ IsFiniteSet(T) /\ Cardinality(T) \in Nat /\ IsFiniteSet(T \cup Lost)
      /\ Cardinality(T \cup Lost) \in Nat /\ Cardinality(T \cup Lost) <= Cardinality(T) + Cardinality(Lost)
  <2>1. IsFiniteSet(T) /\ Cardinality(T) \in Nat
    BY Finite
  <2>2. IsFiniteSet(T \cup Lost)
    BY <1>6, <2>1, FS_Union
  <2>3. /\ Cardinality(T \cup Lost) = Cardinality(T) + Cardinality(Lost) - Cardinality(T \cap Lost)
        /\ IsFiniteSet(T \cap Lost)
    BY <1>6, <2>1, FS_Union, FS_Intersection
  <2>4. Cardinality(T \cap Lost) \in Nat /\ Cardinality(T \cup Lost) \in Nat
    BY <2>2, <2>3, FS_CardinalityType
  <2> QED BY <1>6, <2>1, <2>2, <2>3, <2>4
<1>9. Cardinality(T) + Cardinality(Active) <= mishaps + 1 /\ mishaps \in Nat
  BY DEF Tracked, Numbers
<1>10. Cardinality(T) + Cardinality(Lost) + Cardinality(A) <= mishaps + 1 + Cardinality(W)
  BY <1>3, <1>5, <1>6, <1>8, <1>9
<1>11. CASE Active' # {}
  <2>1. Tunnels' \ Pending' \subseteq T \cup Lost
    BY <1>7
  <2>2. Cardinality(Tunnels' \ Pending') <= Cardinality(T \cup Lost) /\ Cardinality(Tunnels' \ Pending') \in Nat
    BY <1>8, <2>1, NoMoreThan
  <2> HIDE DEF A, W, Lost, T
  <2>3. Cardinality(Tunnels' \ Pending') + Cardinality(Active') <= mishaps' + 1
    BY <1>3, <1>4, <1>6, <1>8, <1>9, <1>10, <2>2
  <2> QED BY <1>11, <2>3 DEF Tracked
<1>12. CASE Active' = {}
  <2>1. l = "idle" /\ Active = W \cup {i} /\ i \notin W
    BY <1>1, <1>12, <1>2 DEF Active
  <2>2. Pending \subseteq Lost
    BY <2>1 DEF Pending, Active
  <2>3. Untracked' \subseteq T \cup Lost
    BY <2>2 DEF Untracked
  <2>4. Cardinality(Untracked') <= Cardinality(T \cup Lost) /\ Cardinality(Untracked') \in Nat
    BY <1>8, <2>3, NoMoreThan
  <2>5. Cardinality(Active') = 0
    BY <1>12, FS_EmptySet
  <2>6. Cardinality(A) = Cardinality(Active) - 1
    BY <1>5, <2>1
  <2> HIDE DEF A, W, Lost, T
  <2>7. Cardinality(Untracked') <= mishaps'
    BY <1>3, <1>4, <1>6, <1>8, <1>9, <2>4, <2>5, <2>6
  <2> QED BY <1>12, <2>7 DEF Tracked
<1> QED BY <1>11, <1>12

LEMMA Unnoticed ==
    ASSUME Numbers, Tracked, Active' = Active, Pending' = Pending, Respected => Respected' \/ pidfile \notin Tunnels',
           pidfile' = pidfile, mishaps' \in Nat, mishaps' >= mishaps, Tunnels' \subseteq Tunnels
    PROVE  Tracked'
<1>1. /\ Untracked' \subseteq Untracked /\ IsFiniteSet(Untracked)
      /\ Tunnels' \ Pending' \subseteq Tunnels \ Pending /\ IsFiniteSet(Tunnels \ Pending)
  BY Finite DEF Untracked
<1>2. /\ Cardinality(Untracked') <= Cardinality(Untracked)
      /\ Cardinality(Untracked') \in Nat /\ Cardinality(Untracked) \in Nat
  BY <1>1, NoMoreThan
<1>3. /\ Cardinality(Tunnels' \ Pending') <= Cardinality(Tunnels \ Pending)
      /\ Cardinality(Tunnels' \ Pending') \in Nat /\ Cardinality(Tunnels \ Pending) \in Nat
  BY <1>1, NoMoreThan
<1>4. mishaps \in Nat /\ Cardinality(Active) \in Nat
  BY Finite DEF Numbers
<1>5. ASSUME Respected, pidfile \notin Tunnels'
      PROVE  /\ Cardinality(Tunnels' \ Pending') <= Cardinality(Untracked)
             /\ Cardinality(Tunnels' \ Pending') \in Nat
  <2>1. Tunnels' \ Pending' \subseteq Untracked
    BY <1>5 DEF Untracked
  <2> QED BY <1>1, <2>1, NoMoreThan
<1> QED BY <1>2, <1>3, <1>4, <1>5 DEF Tracked

\* Nothing but a set of tunnels that may shrink, and an account that may grow.
LEMMA Elsewhere ==
    ASSUME Numbers, Tracked, UNCHANGED <<pc, want, pidfile, mishaps>>, Tunnels' \subseteq Tunnels
    PROVE  Tracked'
<1>1. Active' = Active /\ Pending' = Pending
  BY DEF Active, Pending
<1>2. Respected => Respected' \/ pidfile \notin Tunnels'
  BY DEF Respected
<1> QED BY <1>1, <1>2, Unnoticed DEF Numbers

\* The one whose file was removed had left before.
LEMMA AstrayEnds ==
    ASSUME Numbers, Tracked, NEW i \in Caller, pc[i] = "astray", Finish(i), Tunnels' = Tunnels,
           pidfile' = pidfile, mishaps' \in {mishaps, mishaps + 1}
    PROVE  Tracked'
<1>1. pc' = [pc EXCEPT ![i] = "idle"] /\ want' = [want EXCEPT ![i] = None]
  BY DEF Finish, Forget
<1>2. Active' = Active
  BY <1>1 DEF Active, Numbers
<1>3. Pending' = Pending
  BY <1>1 DEF Pending, Numbers
<1>4. Respected => Respected'
  BY <1>1 DEF Respected, Numbers
<1>5. mishaps' \in Nat /\ mishaps' >= mishaps
  BY DEF Numbers
<1> QED BY <1>2, <1>3, <1>4, <1>5, Unnoticed

LEMMA OrphansAreNoTunnels == ASSUME Numbers, NEW i \in Caller, Leave(i) \/ Orphaned(i) PROVE Tunnels' = Tunnels
BY DEF Leave, Orphaned, Tunnels, Numbers

\* The caller stays at work, and its child, if it has one, stays pending.
LEMMA StaysAtWork ==
    ASSUME Numbers, NEW i \in Active, NEW l \in Place \ {"idle", "astray"},
           pc' = [pc EXCEPT ![i] = l],
           \A j \in Caller : j # i => want'[j] = want[j],
           pc[i] = "truncate" => l = "record" /\ want'[i] = want[i],
           pc[i] # "record"
    PROVE  /\ Active # {} /\ Active' = Active /\ Pending \subseteq Pending'
           /\ l \in {"truncate", "record"} => want'[i] \in Pending'
<1>1. Active # {} /\ Active' = Active
  BY DEF Active, Numbers
<1>2. Pending \subseteq Pending'
  <2> SUFFICES ASSUME NEW j \in Caller, pc[j] \in {"truncate", "record"} PROVE want[j] \in Pending'
    BY DEF Pending
  <2>1. pc'[j] \in {"truncate", "record"} /\ want'[j] = want[j]
    BY DEF Numbers
  <2> QED BY <2>1 DEF Pending
<1>3. l \in {"truncate", "record"} => want'[i] \in Pending'
  BY DEF Pending, Numbers, Active
<1> QED BY <1>1, <1>2, <1>3

LEMMA TrackedStep == Numbers /\ Tracked /\ [Next]_vars => Tracked'
<1> SUFFICES ASSUME Numbers, Tracked, [Next]_vars PROVE Tracked'
  OBVIOUS
<1>1. ASSUME NEW i \in Caller, Over(i), pc[i] \notin {"idle", "truncate", "record", "astray"} PROVE Tracked'
  BY <1>1, Ends, OrphansAreNoTunnels DEF Over, Active
<1>2. ASSUME NEW i \in Caller, NEW g \in Goals(i), Begin(i, g) PROVE Tracked'
  <2>1. /\ UNCHANGED <<pidfile, proc, want>> /\ pc[i] = "idle" /\ pc' = [pc EXCEPT ![i] = FirstStep(g)]
        /\ IF Idle THEN mishaps' = mishaps ELSE mishaps' = mishaps + 1
    BY <1>2 DEF Begin, Mishap, procvars
  <2>2. FirstStep(g) \in {"load", "stop_read", "status_read", "answer"} /\ FirstStep(g) \in Place \ {"idle", "astray"}
    BY DEF FirstStep, Place
  <2>3. /\ Cardinality(Active') = Cardinality(Active) + 1 /\ Active' # {}
        /\ Active = {} => Cardinality(Active) = 0
    BY <2>1, <2>2, OneJoins
  <2>4. Pending' = Pending /\ Tunnels' = Tunnels /\ Untracked' = Untracked /\ (Active = {} => Pending = {})
    BY <2>1, <2>2 DEF Pending, Tunnels, Untracked, Numbers, Active
  <2>5. Respected => Respected'
    BY <2>1, <2>2, <2>4 DEF Respected, Numbers
  <2>6. /\ mishaps \in Nat /\ Cardinality(Active) \in Nat
        /\ Cardinality(Untracked) \in Nat /\ Cardinality(Tunnels \ Pending) \in Nat
    BY Finite DEF Numbers, Untracked
  <2>7. CASE Active = {} /\ pidfile \in Tunnels
    <3>1. \A j \in Caller : pc[j] \in {"idle", "astray"}
      BY <2>7 DEF Active
    <3>2. Respected'
      BY <2>1, <2>2, <2>4, <2>7, <3>1 DEF Respected, Numbers
    <3> QED BY <2>1, <2>3, <2>4, <2>6, <2>7, <3>2 DEF Tracked
  <2>8. CASE Active = {} /\ pidfile \notin Tunnels
    <3>1. Untracked = Tunnels \ Pending
      BY <2>4, <2>8 DEF Untracked
    <3> QED BY <2>1, <2>3, <2>4, <2>6, <2>8, <3>1 DEF Tracked
  <2>9. CASE Active # {}
    <3>1. ~Idle
      BY <2>9 DEF Active, Idle
    <3> QED BY <2>1, <2>3, <2>4, <2>5, <2>6, <2>9, <3>1 DEF Tracked
  <2> QED BY <2>7, <2>8, <2>9
<1>3. ASSUME NEW i \in Caller, NEW l \in Place, l \notin {"idle", "spawn", "truncate", "record", "astray", "remove"},
             pc[i] \notin {"idle", "truncate", "record", "astray"}, Go(i, l), pidfile' = pidfile, Tunnels' = Tunnels,
             want' = want \/ want' = [want EXCEPT ![i] = pidfile],
             l \in {"start_alive", "stop_alive", "term", "poll", "restart_alive", "offer_alive"} =>
               want'[i] = pidfile \/ ~Respected \/ (l = "term" /\ pc[i] = "stop_alive" /\ want' = want)
                                               \/ (l = "poll" /\ pc[i] = "term" /\ want' = want)
      PROVE  Tracked'
  <2>1. pc' = [pc EXCEPT ![i] = l] /\ mishaps' = mishaps
    BY <1>3 DEF Go
  <2>2. \A j \in Caller : j # i => want'[j] = want[j]
    BY <1>3 DEF Numbers
  <2>3. Active # {} /\ Active' = Active /\ Pending \subseteq Pending'
    BY <1>3, <2>1, <2>2, StaysAtWork DEF Active
  <2>4. Untracked' = Untracked
    BY <1>3 DEF Untracked
  <2>5. Respected => Respected'
    BY <1>3, <2>1, <2>2, <2>4 DEF Respected, Numbers
  <2> QED BY <1>3, <2>1, <2>3, <2>4, <2>5, GoesOn
<1>4. ASSUME NEW i \in Caller, NEW l \in {"spawn", "remove"}, ~Respected \/ Tunnels' \subseteq Untracked,
             pc[i] \notin {"idle", "truncate", "record", "astray"}, Go(i, l), Tunnels' \subseteq Tunnels, want' = want
      PROVE  Tracked'
  <2>1. pc' = [pc EXCEPT ![i] = l] /\ mishaps' = mishaps
    BY <1>4 DEF Go
  <2>2. Active # {} /\ Active' = Active /\ Pending \subseteq Pending'
    BY <1>4, <2>1, StaysAtWork DEF Place, Active
  <2>3. Tunnels' \ Pending' \subseteq Tunnels \ Pending
    BY <1>4, <2>2
  <2> QED BY <1>4, <2>1, <2>2, <2>3, GoesOn
<1>5. ASSUME NEW i \in Caller, Load(i) PROVE Tracked'
  BY <1>1, <1>3, <1>5 DEF Load, procvars, Tunnels, Place
<1>6. ASSUME NEW i \in Caller, ReadPid(i) PROVE Tracked'
  <2>1. CASE Over(i)
    BY <1>1, <1>6, <2>1 DEF ReadPid
  <2>2. CASE ~Over(i)
    <3>1. /\ pc[i] \notin {"idle", "truncate", "record", "astray"}
          /\ want' = [want EXCEPT ![i] = pidfile] /\ UNCHANGED procvars
          /\ \E l \in {"start_alive", "stop_alive", "restart_alive", "status_alive", "offer_alive"} : Go(i, l)
      BY <1>6, <2>2 DEF ReadPid
    <3>2. want'[i] = pidfile /\ pidfile' = pidfile /\ Tunnels' = Tunnels
      BY <3>1 DEF Numbers, procvars, Tunnels
    <3> QED BY <1>3, <3>1, <3>2 DEF Place
  <2> QED BY <2>1, <2>2
<1>7. ASSUME NEW i \in Caller, Status(i) PROVE Tracked'
  BY <1>1, <1>7 DEF Status
<1>8. ASSUME NEW i \in Caller, Quit(i) PROVE Tracked'
  BY <1>8, OrphansAreNoTunnels, Elsewhere DEF Quit
<1>9. ASSUME NEW i \in Caller, Killed(i) PROVE Tracked'
  <2>1. pc[i] # "idle" /\ Finish(i) /\ Tunnels' = Tunnels /\ pidfile' = pidfile /\ mishaps' = mishaps + 1
    BY <1>9, OrphansAreNoTunnels DEF Killed, Mishap
  <2> QED BY <2>1, Ends, AstrayEnds DEF Active
<1>10. ASSUME NEW i \in Caller, CheckRunning(i) PROVE Tracked'
  <2>1. CASE Over(i)
    BY <1>1, <1>10, <2>1 DEF CheckRunning
  <2>2. CASE MaySpawn(i) /\ Go(i, "spawn") /\ UNCHANGED <<filevars, procvars, want, polls>>
    <3>1. ~Respected
      BY <1>10, <2>2 DEF CheckRunning, MaySpawn, Alive, Respected, Tunnels
    <3> QED BY <1>4, <1>10, <2>2, <3>1 DEF CheckRunning, procvars, Tunnels
  <2> QED BY <1>10, <2>1, <2>2 DEF CheckRunning
<1>11. ASSUME NEW i \in Caller, Spawn(i) PROVE Tracked'
  <2>1. CASE Over(i)
    BY <1>1, <1>11, <2>1 DEF Spawn
  <2>2. ASSUME NEW p \in Pid, proc[p] = "free", proc' = [proc EXCEPT ![p] = "tunnel"],
               want' = [want EXCEPT ![i] = p], Go(i, "truncate")
        PROVE  Tracked'
    <3>1. pc' = [pc EXCEPT ![i] = "truncate"] /\ mishaps' = mishaps /\ pc[i] = "spawn"
      BY <1>11, <2>2 DEF Go, Spawn
    <3>2. ~Respected
      BY <3>1 DEF Respected
    <3>3. Active # {} /\ Active' = Active /\ Pending \subseteq Pending' /\ p \in Pending'
      BY <2>2, <3>1, StaysAtWork DEF Numbers, Place, Active
    <3>4. Tunnels' \subseteq Tunnels \cup {p}
      BY <2>2 DEF Tunnels, Numbers
    <3>5. Tunnels' \ Pending' \subseteq Tunnels \ Pending
      BY <3>3, <3>4
    <3> QED BY <3>1, <3>2, <3>3, <3>5, GoesOn
  <2> QED BY <1>11, <2>1, <2>2 DEF Spawn
<1>12. ASSUME NEW i \in Caller, Truncate(i) PROVE Tracked'
  <2>1. CASE Mishap /\ Finish(i) /\ Leave(i) /\ UNCHANGED <<file, pidfile>>
    BY <1>12, <2>1, OrphansAreNoTunnels, Ends DEF Truncate, Mishap, Active
  <2>2. CASE pidfile' = Blank /\ Go(i, "record") /\ UNCHANGED <<filevars, proc, parent, want, polls>>
    <3>1. pc' = [pc EXCEPT ![i] = "record"] /\ mishaps' = mishaps /\ pc[i] = "truncate" /\ Tunnels' = Tunnels
      BY <1>12, <2>2 DEF Go, Truncate, Tunnels
    <3>2. ~Respected
      BY <3>1 DEF Respected
    <3>3. Active # {} /\ Active' = Active /\ Pending \subseteq Pending'
      BY <2>2, <3>1, StaysAtWork DEF Place, Active
    <3>4. Tunnels' \ Pending' \subseteq Tunnels \ Pending
      BY <3>1, <3>3
    <3> QED BY <3>1, <3>2, <3>3, <3>4, GoesOn
  <2> QED BY <1>12, <2>1, <2>2 DEF Truncate
<1>13. ASSUME NEW i \in Caller, Record(i) \/ RecordAstray(i) PROVE Tracked'
  <2>1. CASE RecordAstray(i)
    BY <2>1, OrphansAreNoTunnels, AstrayEnds DEF RecordAstray, Over
  <2>2. CASE Record(i)
    <3>1. pc[i] = "record" /\ i \in Active /\ ~Respected /\ Finish(i) /\ Tunnels' = Tunnels
      BY <2>2, OrphansAreNoTunnels DEF Record, Respected, Active
    <3>2. \/ mishaps' = mishaps + 1
          \/ mishaps' = mishaps /\ pidfile' = want[i]
      BY <2>2 DEF Record, Mishap
    <3> QED BY <3>1, <3>2, Ends
  <2> QED BY <1>13, <2>1, <2>2
<1>14. ASSUME NEW i \in Caller, CheckStale(i) PROVE Tracked'
  <2>1. CASE Alive(want[i]) /\ Go(i, "term") /\ UNCHANGED <<filevars, procvars, want, polls>>
    BY <1>3, <1>14, <2>1 DEF CheckStale, procvars, Tunnels, Place
  <2>2. CASE ~Alive(want[i]) /\ Unlink(i, "idle") /\ Forget(i) /\ Leave(i) /\ UNCHANGED <<file, mishaps>>
    <3>1. ~Respected /\ pc[i] = "stop_alive" /\ i \in Active
      BY <1>14, <2>2 DEF CheckStale, Alive, Respected, Tunnels, Active
    <3>2. Tunnels' = Tunnels /\ \A j \in Caller : j # i => want'[j] = want[j]
      BY <2>2, OrphansAreNoTunnels DEF Forget, Numbers
    <3> QED BY <2>2, <3>1, <3>2, Unlinks
  <2> QED BY <1>14, <2>1, <2>2 DEF CheckStale
<1>15. ASSUME NEW i \in Caller, Terminate(i) PROVE Tracked'
  <2>1. CASE Over(i)
    BY <1>1, <1>15, <2>1 DEF Terminate
  <2>2. CASE /\ proc' = [proc EXCEPT ![want[i]] = IF @ = "tunnel" THEN "stopping" ELSE @]
             /\ Go(i, "poll") /\ UNCHANGED <<filevars, pidfile, parent, want>>
    <3>1. Tunnels' = Tunnels
      BY <2>2 DEF Tunnels, Numbers
    <3> QED BY <1>3, <1>15, <2>2, <3>1 DEF Terminate, Place
  <2> QED BY <1>15, <2>1, <2>2 DEF Terminate
<1>16. ASSUME NEW i \in Caller, pc[i] \notin {"idle", "truncate", "record", "astray"}, ~Respected, Removed(i)
       PROVE  Tracked'
  <2>1. i \in Active /\ Tunnels' = Tunnels /\ mishaps' = mishaps
    BY <1>16, OrphansAreNoTunnels DEF Removed, Active, Tunnels
  <2>2. \A j \in Caller : j # i => want'[j] = want[j]
    BY <1>16 DEF Removed, Forget, Numbers
  <2> QED BY <1>16, <2>1, <2>2, Unlinks DEF Removed
<1>17. ASSUME NEW i \in Caller, Poll(i) PROVE Tracked'
  <2>1. CASE Gone(i) /\ Removed(i)
    <3>1. pc[i] = "poll" /\ ~Respected
      BY <1>17, <2>1 DEF Poll, Gone, Alive, Respected, Tunnels
    <3> QED BY <1>16, <2>1, <3>1
  <2>2. CASE UNCHANGED <<filevars, procvars, pc, goal, want, mishaps>>
    BY <2>2, Elsewhere DEF procvars, Tunnels
  <2> QED BY <1>17, <2>1, <2>2 DEF Poll
<1>18. ASSUME NEW i \in Caller, ForceKill(i) PROVE Tracked'
  <2>1. pc[i] = "poll" /\ Go(i, "remove") /\ want' = want /\ pidfile' = pidfile
    BY <1>18 DEF ForceKill
  <2>2. CASE want[i] \in Tunnels /\ proc' = Ended(want[i])
    <3>1. Tunnels' = Tunnels \ {want[i]}
      BY <2>2 DEF Tunnels, Ended, Numbers
    <3>2. Respected => Tunnels' \subseteq Untracked
      BY <2>1, <3>1 DEF Respected, Untracked
    <3> QED BY <1>4, <2>1, <3>1, <3>2
  <2>3. CASE want[i] \notin Tunnels /\ UNCHANGED proc
    <3>1. ~Respected /\ Tunnels' = Tunnels
      BY <2>1, <2>3 DEF Respected, Tunnels
    <3> QED BY <1>4, <2>1, <3>1
  <2> QED BY <1>18, <2>2, <2>3 DEF ForceKill
<1>19. ASSUME NEW i \in Caller, Remove(i) PROVE Tracked'
  BY <1>16, <1>19 DEF Remove, Respected
<1>20. ASSUME NEW i \in Caller, Restart(i) PROVE Tracked'
  BY <1>3, <1>20 DEF Restart, procvars, Tunnels, Place
<1>21. ASSUME NEW i \in Caller, Edit(i) PROVE Tracked'
  BY <1>21, Elsewhere DEF Edit, procvars, Tunnels
<1>22. ASSUME NEW i \in Caller, Save(i) \/ Answer(i) \/ Offer(i) PROVE Tracked'
  BY <1>1, <1>3, <1>22 DEF Save, Answer, Offer, procvars, Tunnels, Place
<1>23. ASSUME NEW i \in Caller, CutFile(i) \/ WriteFile(i) PROVE Tracked'
  <2>1. pc[i] \in {"cut", "write"}
    BY <1>23 DEF CutFile, WriteFile
  <2>2. CASE /\ Finish(i) /\ Leave(i) /\ pidfile' = pidfile
             /\ mishaps' \in {mishaps, mishaps + 1}
    BY <2>1, <2>2, OrphansAreNoTunnels, Ends DEF Active
  <2>3. CASE \E l \in {"write", "offer_read", "start_read"} :
               Go(i, l) /\ UNCHANGED <<procvars, want, polls>>
    BY <1>3, <2>1, <2>3 DEF procvars, Tunnels, Place
  <2> QED BY <1>23, <2>2, <2>3 DEF CutFile, WriteFile, Mishap
<1>24. ASSUME NEW p \in Pid, TunnelExits(p) \/ PidReused(p) \/ StrangerExits(p) PROVE Tracked'
  <2>1. Tunnels' \subseteq Tunnels
    BY <1>24 DEF TunnelExits, PidReused, StrangerExits, Ended, Tunnels, Numbers
  <2> QED BY <1>24, <2>1, Elsewhere DEF TunnelExits, PidReused, StrangerExits
<1>25. CASE UNCHANGED vars
  BY <1>25, Elsewhere DEF vars, Tunnels
<1> QED
  BY <1>2, <1>5, <1>6, <1>7, <1>8, <1>9, <1>10, <1>11, <1>12, <1>13, <1>14, <1>15, <1>17, <1>18,
     <1>19, <1>20, <1>21, <1>22, <1>23, <1>24, <1>25 DEF Next, Step

LEMMA NumbersInit == Init => Numbers
BY ManageAssumption DEF Init, Numbers, Place, ManageAssumption

LEMMA NumbersStep == Numbers /\ [Next]_vars => Numbers'
<1> SUFFICES ASSUME Numbers, [Next]_vars PROVE Numbers'
  OBVIOUS
<1>1. ASSUME NEW i \in Caller, Finish(i), Leave(i) \/ Orphaned(i),
             pidfile' \in Pid \cup {None, Blank, Odd},
             mishaps' \in {mishaps, mishaps + 1}
      PROVE  Numbers'
  <2>1. proc' \in [Pid -> {"free", "tunnel", "stopping", "zombie", "stranger"}]
    BY <1>1 DEF Leave, Orphaned, Numbers
  <2>2. pidfile' \in Pid \cup {None, Blank, Odd} /\ mishaps' \in Nat
    BY <1>1 DEF Numbers
  <2>3. pc' = [pc EXCEPT ![i] = "idle"] /\ want' = [want EXCEPT ![i] = None]
    BY <1>1 DEF Finish, Forget
  <2> QED BY <2>1, <2>2, <2>3 DEF Numbers, Place
<1>2. ASSUME NEW i \in Caller, NEW l \in Place \ {"truncate", "record"}, Go(i, l),
             UNCHANGED <<proc, pidfile>>,
             want' = want \/ want' = [want EXCEPT ![i] = pidfile]
      PROVE  Numbers'
  BY <1>2 DEF Go, Numbers
<1>3. ASSUME NEW i \in Caller, NEW g \in Goals(i), Begin(i, g) PROVE Numbers'
  <2>1. FirstStep(g) \in Place \ {"truncate", "record"}
    BY DEF FirstStep, Place
  <2> QED BY <1>3, <2>1 DEF Begin, Mishap, Numbers, procvars
<1>4. ASSUME NEW i \in Caller, Over(i) PROVE Numbers'
  BY <1>1, <1>4 DEF Over, Numbers
<1>5. ASSUME NEW i \in Caller, ReadPid(i) PROVE Numbers'
  <2>1. CASE ~Over(i)
    <3>1. /\ want' = [want EXCEPT ![i] = pidfile] /\ UNCHANGED procvars
          /\ \E l \in {"start_alive", "stop_alive", "restart_alive", "status_alive", "offer_alive"} : Go(i, l)
      BY <1>5, <2>1 DEF ReadPid
    <3> QED BY <1>2, <3>1 DEF procvars, Place
  <2> QED BY <1>4, <2>1
<1>6. ASSUME NEW i \in Caller, Spawn(i) PROVE Numbers'
  BY <1>4, <1>6 DEF Spawn, Go, Numbers, Place
<1>7. ASSUME NEW i \in Caller, Truncate(i) PROVE Numbers'
  <2>1. CASE pidfile' = Blank /\ Go(i, "record") /\ UNCHANGED <<filevars, proc, parent, want, polls>>
    BY <1>7, <2>1 DEF Truncate, Go, Numbers, Place
  <2> QED BY <1>1, <1>7, <2>1 DEF Truncate, Mishap, Numbers
<1>8. ASSUME NEW i \in Caller, Record(i) \/ RecordAstray(i) PROVE Numbers'
  <2>1. CASE Record(i)
    <3>1. pidfile' \in Pid \cup {None, Blank, Odd}
      BY <2>1 DEF Record, Overlaid, Numbers
    <3>2. mishaps' \in {mishaps, mishaps + 1}
      BY <2>1 DEF Record, Mishap
    <3> QED BY <1>1, <2>1, <3>1, <3>2 DEF Record
  <2> QED BY <1>4, <1>8, <2>1 DEF RecordAstray
<1>9. ASSUME NEW i \in Caller, CheckRunning(i) \/ Status(i) \/ Restart(i) \/ Offer(i) \/ Save(i) PROVE Numbers'
  BY <1>2, <1>4, <1>9 DEF CheckRunning, Status, Restart, Offer, Save, procvars, Place
<1>10. ASSUME NEW i \in Caller, Load(i) \/ Answer(i) PROVE Numbers'
  BY <1>2, <1>4, <1>10 DEF Load, Answer, procvars, Place
<1>11. ASSUME NEW i \in Caller, CutFile(i) \/ WriteFile(i) PROVE Numbers'
  <2>1. CASE /\ Finish(i) /\ Leave(i) /\ pidfile' = pidfile
             /\ mishaps' \in {mishaps, mishaps + 1}
    BY <1>1, <2>1 DEF Numbers
  <2>2. CASE \E l \in {"write", "offer_read", "start_read"} :
               Go(i, l) /\ UNCHANGED <<procvars, want, polls>>
    BY <1>2, <2>2 DEF procvars, Place
  <2> QED BY <1>11, <2>1, <2>2 DEF CutFile, WriteFile, Mishap
<1>12. ASSUME NEW i \in Caller, Quit(i) \/ Killed(i) PROVE Numbers'
  <2>1. CASE Killed(i)
    BY <1>1, <2>1 DEF Killed, Mishap, Numbers
  <2>2. CASE Quit(i)
    BY <2>2 DEF Quit, Orphaned, Numbers
  <2> QED BY <1>12, <2>1, <2>2
<1>13. ASSUME NEW i \in Caller, NEW l \in {"idle", "start_read"}, Unlink(i, l), Forget(i) \/ want' = want,
              Leave(i) \/ proc' = proc, mishaps' = mishaps
       PROVE  Numbers'
  <2>1. proc' \in [Pid -> {"free", "tunnel", "stopping", "zombie", "stranger"}]
    BY <1>13 DEF Leave, Orphaned, Numbers
  <2>2. /\ pidfile' = None /\ want' \in [Caller -> Pid \cup {None, Blank, Odd}]
        /\ \A j \in Caller : j # i => want'[j] = want[j]
    BY <1>13 DEF Unlink, Forget, Numbers
  <2>3. /\ pc' \in [Caller -> Place]
        /\ pc'[i] = l /\ \A j \in Caller : j # i => pc'[j] \in {pc[j], "astray"}
    BY <1>13 DEF Unlink, Numbers, Place
  <2> QED BY <1>13, <2>1, <2>2, <2>3 DEF Numbers
<1>14. ASSUME NEW i \in Caller, CheckStale(i) \/ Removed(i) PROVE Numbers'
  BY <1>2, <1>13, <1>14 DEF CheckStale, Removed, procvars, Place
<1>15. ASSUME NEW i \in Caller, Terminate(i) PROVE Numbers'
  <2>1. CASE ~Over(i)
    BY <1>15, <2>1 DEF Terminate, Go, Numbers, Place
  <2> QED BY <1>4, <2>1
<1>16. ASSUME NEW i \in Caller, Poll(i) \/ Remove(i) PROVE Numbers'
  <2>1. CASE UNCHANGED <<filevars, procvars, pc, goal, want, mishaps>>
    BY <2>1 DEF Numbers, procvars
  <2> QED BY <1>14, <1>16, <2>1 DEF Poll, Remove
<1>17. ASSUME NEW i \in Caller, ForceKill(i) PROVE Numbers'
  BY <1>17 DEF ForceKill, Ended, Go, Numbers, Place
<1>18. ASSUME NEW i \in Caller, Edit(i) PROVE Numbers'
  BY <1>18 DEF Edit, procvars, Numbers
<1>19. ASSUME NEW p \in Pid, TunnelExits(p) \/ PidReused(p) \/ StrangerExits(p) PROVE Numbers'
  BY <1>19 DEF TunnelExits, PidReused, StrangerExits, Ended, Numbers
<1>20. CASE UNCHANGED vars
  BY <1>20 DEF vars, Numbers
<1> QED
  BY <1>3, <1>5, <1>6, <1>7, <1>8, <1>9, <1>10, <1>11, <1>12, <1>14, <1>15, <1>16, <1>17, <1>18,
     <1>19, <1>20 DEF Next, Step

LEMMA TrackedInit == Init => Tracked
<1> SUFFICES ASSUME Init PROVE Tracked
  OBVIOUS
<1>1. Untracked = {} /\ Active = {} /\ mishaps = 0
  BY DEF Init, Untracked, Tunnels, Active
<1> QED BY <1>1, FS_EmptySet DEF Tracked

\* For any number of menus and commands, processes and mishaps: when nobody is at
\* work, at most as many tunnels run that the pid file does not name as callers were
\* killed, writes failed or commands overlapped (Instance.Start, Stop).
THEOREM UntrackedAreCounted == Spec => []NoneUntracked
<1>1. Tracked => NoneUntracked
  BY DEF Tracked, NoneUntracked, Untracked, Active, Idle
<1> QED
  BY <1>1, NumbersInit, NumbersStep, TrackedInit, TrackedStep, PTL DEF Spec

-----------------------------------------------------------------------------
(* What Load, the editor and the wizard make of a configuration.            *)

LEMMA Words == \A w \in {"", "tcp", "tls", "ws", "wss", "kcp", "udp", "/cando", "443", "no port", "fast3"} : w \in Text
BY TextAssumption DEF TextAssumption

LEMMA Texts ==
    /\ \A p \in Text : Lowered(p) \in Text /\ NormProto(p) \in Text
    /\ \A p \in Transports : Lowered(p) = p /\ p # "" /\ p \in Text
    /\ \A p \in Protos : NormProto(p) = p /\ p \in Text
    /\ \A p, q \in Text : NonEmpty(p, q) \in Text
<1>1. ASSUME NEW p \in Text PROVE Lowered(p) \in Text
  <2>1. "udp" \in Text /\ "tls" \in Text
    BY Words
  <2> QED BY <2>1, Zenon DEF Lowered
<1>2. \A p, q \in Text : NonEmpty(p, q) \in Text
  BY DEF NonEmpty
<1>3. \A p \in Text : NormProto(p) \in Text
  BY <1>1, <1>2, Words DEF NormProto
<1>4. ASSUME NEW p \in Transports PROVE Lowered(p) = p /\ p # "" /\ p \in Text
  <2>1. p \in {"tcp", "tls", "ws", "wss", "kcp"}
    BY DEF Transports
  <2>2. p \in Text /\ p # ""
    BY <2>1, Words
  <2>3. p # "UDP" /\ p # " udp" /\ p # "TLS"
    BY <2>1
  <2> QED BY <2>2, <2>3, Zenon DEF Lowered
<1>5. ASSUME NEW p \in Protos PROVE NormProto(p) = p /\ p \in Text
  <2>1. p \in {"tcp", "udp"}
    BY DEF Protos
  <2>2. p \in Text /\ p # ""
    BY <2>1, Words
  <2>3. p # "UDP" /\ p # " udp" /\ p # "TLS"
    BY <2>1
  <2>4. Lowered(p) = p
    BY <2>3, Zenon DEF Lowered
  <2> QED BY <2>2, <2>4 DEF NormProto, NonEmpty
<1> QED BY <1>1, <1>2, <1>3, <1>4, <1>5

LEMMA Numerals ==
    \A v, d \in Int : Positive(v, d) \in Int
BY DEF Positive

LEMMA Rows ==
    ASSUME NEW S, NEW n \in Nat, NEW f \in [1 .. n -> S]
    PROVE  f \in Seq(S) /\ Len(f) = n
<1>1. f \in Seq(S)
  BY SeqDef
<1>2. DOMAIN f = 1 .. Len(f) /\ Len(f) \in Nat /\ DOMAIN f = 1 .. n
  BY <1>1, LenProperties
<1> QED BY <1>1, <1>2

LEMMA MappedMappings ==
    ASSUME NEW ms \in Seq(Mapping)
    PROVE  /\ Mapped(ms) \in Seq(Mapping) /\ Len(Mapped(ms)) = Len(ms)
           /\ \A i \in 1 .. Len(ms) : /\ Mapped(ms)[i].name = ms[i].name
                                      /\ Mapped(ms)[i].proto = NormProto(ms[i].proto)
<1>1. DOMAIN ms = 1 .. Len(ms) /\ Len(ms) \in Nat
  BY LenProperties
<1>2. \A i \in 1 .. Len(ms) : ms[i] \in Mapping
  BY ElementOfSeq
<1>3. \A i \in 1 .. Len(ms) : [ms[i] EXCEPT !.proto = NormProto(@)] \in Mapping
  BY <1>2, Texts DEF Mapping
<1>4. Mapped(ms) \in [1 .. Len(ms) -> Mapping]
  BY <1>1, <1>3 DEF Mapped
<1>5. Mapped(ms) \in Seq(Mapping) /\ Len(Mapped(ms)) = Len(ms)
  BY <1>1, <1>4, Rows
<1> QED BY <1>1, <1>2, <1>5 DEF Mapped, Mapping

LEMMA Defaults == DefaultKCP \in KCP /\ DefaultMux \in Mux
<1>1. "fast3" \in Text
  BY Words
<1>2. DefaultKCP \in KCP
  BY <1>1 DEF KCP, DefaultKCP
<1>3. DefaultMux \in Mux
  BY DEF Mux, DefaultMux
<1> QED BY <1>2, <1>3

LEMMA Sections ==
    /\ \A k \in KCP : CoupleFEC(k) \in KCP /\ FillKCP(k) \in KCP
    /\ \A m \in Mux : NormMux(m) \in Mux
<1>1. ASSUME NEW k \in KCP, NEW m \in Text, NEW x \in Int, NEW y \in Int
      PROVE  /\ [k EXCEPT !.data = x, !.parity = y] \in KCP
             /\ [k EXCEPT !.mode = m, !.mtu = x, !.window = y] \in KCP
  BY Zenon DEF KCP
<1>2. ASSUME NEW k \in KCP PROVE CoupleFEC(k) \in KCP /\ FillKCP(k) \in KCP
  <2>1. DefaultKCP \in KCP
    BY Defaults
  <2>2. CoupleFEC(k) \in KCP
    <3>1. DefaultKCP.data \in Int /\ DefaultKCP.parity \in Int
      BY <2>1 DEF KCP
    <3>2. [k EXCEPT !.data = DefaultKCP.data, !.parity = DefaultKCP.parity] \in KCP
      BY <1>1, <3>1, Words, Zenon
    <3> QED BY <3>2, Zenon DEF CoupleFEC
  <2>3. /\ NonEmpty(CoupleFEC(k).mode, DefaultKCP.mode) \in Text
        /\ Positive(CoupleFEC(k).mtu, DefaultKCP.mtu) \in Int
        /\ Positive(CoupleFEC(k).window, DefaultKCP.window) \in Int
    BY <2>1, <2>2, Texts, Numerals DEF KCP
  <2>4. FillKCP(k) \in KCP
    BY <1>1, <2>2, <2>3, Zenon DEF FillKCP
  <2> QED BY <2>2, <2>4
<1>3. ASSUME NEW m \in Mux PROVE NormMux(m) \in Mux
  BY Defaults DEF NormMux
<1> QED BY <1>2, <1>3

LEMMA NormalizedServer ==
    ASSUME NEW c \in Server
    PROVE  LET n == Normalized(c)
           IN /\ n \in Server
              /\ n.addr = c.addr /\ n.token = c.token /\ n.obfs = c.obfs /\ n.allow = c.allow
              /\ n.transport = NonEmpty(Lowered(c.transport), "tls") /\ n.path = NonEmpty(c.path, "/cando")
              /\ n.mux = NormMux(c.mux) /\ n.services = Mapped(c.services)
              /\ n.kcp = IF n.transport = "kcp" THEN FillKCP(c.kcp) ELSE c.kcp
<1>1. /\ c.services \in Seq(Mapping) /\ c.kcp \in KCP /\ c.mux \in Mux
      /\ c.transport \in Text /\ c.path \in Text
  BY DEF Server
<1> DEFINE t == NonEmpty(Lowered(c.transport), "tls")
           p == NonEmpty(c.path, "/cando")
           m == NormMux(c.mux)
           k == IF t = "kcp" THEN FillKCP(c.kcp) ELSE c.kcp
           s == Mapped(c.services)
<1>2. t \in Text /\ p \in Text /\ m \in Mux /\ k \in KCP /\ s \in Seq(Mapping)
  BY <1>1, Words, Texts, Sections, MappedMappings
<1>3. Normalized(c) = [[c EXCEPT !.transport = t, !.path = p, !.mux = m, !.kcp = k] EXCEPT !.services = s]
  <2>1. Normalized(c) = NormServer(c)
    BY DEF Normalized, Server
  <2>2. NormTransport(c).services = c.services
    BY Zenon DEF NormTransport, Server
  <2>3. NormTransport(c) = [c EXCEPT !.transport = t, !.path = p, !.mux = m, !.kcp = k]
    BY Zenon DEF NormTransport
  <2> QED BY <2>1, <2>2, <2>3, Zenon DEF NormServer
<1> HIDE DEF t, p, m, k, s
<1>4. Normalized(c) \in Server
  BY <1>2, <1>3, Zenon DEF Server
<1> QED BY <1>3, <1>4, Zenon DEF Server, t, p, m, k, s

LEMMA NormalizedClient ==
    ASSUME NEW c \in Client
    PROVE  LET n == Normalized(c)
           IN /\ n \in Client
              /\ n.addr = c.addr /\ n.token = c.token /\ n.obfs = c.obfs /\ n.services = c.services
              /\ n.transport = NonEmpty(Lowered(c.transport), "tls") /\ n.path = NonEmpty(c.path, "/cando")
              /\ n.mux = NormMux(c.mux) /\ n.forwards = Mapped(c.forwards)
              /\ n.kcp = IF n.transport = "kcp" THEN FillKCP(c.kcp) ELSE c.kcp
<1>1. /\ c.forwards \in Seq(Mapping) /\ c.kcp \in KCP /\ c.mux \in Mux
      /\ c.transport \in Text /\ c.path \in Text
      /\ c.pool \in Int /\ c.reconnect \in [min: Int, max: Int]
  BY DEF Client
<1> DEFINE t == NonEmpty(Lowered(c.transport), "tls")
           p == NonEmpty(c.path, "/cando")
           m == NormMux(c.mux)
           k == IF t = "kcp" THEN FillKCP(c.kcp) ELSE c.kcp
           f == Mapped(c.forwards)
           w == Positive(c.pool, 2)
           r == NormReconnect(c.reconnect)
<1>2. /\ t \in Text /\ p \in Text /\ m \in Mux /\ k \in KCP /\ f \in Seq(Mapping)
      /\ w \in Int /\ r \in [min: Int, max: Int]
  <2>1. t \in Text /\ p \in Text /\ m \in Mux /\ k \in KCP /\ f \in Seq(Mapping)
    BY <1>1, Words, Texts, Sections, MappedMappings
  <2>3. w \in Int
    BY <1>1 DEF Positive
  <2>2. r \in [min: Int, max: Int]
    BY <1>1 DEF NormReconnect
  <2> QED BY <2>1, <2>2, <2>3
<1>3. Normalized(c) = [[c EXCEPT !.transport = t, !.path = p, !.mux = m, !.kcp = k]
                          EXCEPT !.pool = w, !.reconnect = r, !.forwards = f]
  <2>1. Normalized(c) = NormClient(c)
    BY DEF Normalized, Client
  <2>2. /\ NormTransport(c).forwards = c.forwards /\ NormTransport(c).pool = c.pool
        /\ NormTransport(c).reconnect = c.reconnect
    BY Zenon DEF NormTransport, Client
  <2>3. NormTransport(c) = [c EXCEPT !.transport = t, !.path = p, !.mux = m, !.kcp = k]
    BY Zenon DEF NormTransport
  <2> QED BY <2>1, <2>2, <2>3, Zenon DEF NormClient
<1> HIDE DEF t, p, m, k, f, w, r
<1>4. Normalized(c) \in Client
  BY <1>2, <1>3, Zenon DEF Client
<1> QED BY <1>3, <1>4, Zenon DEF Client, t, p, m, k, f

\* What passes Validate also passes it once it has been written and loaded.
LEMMA ValidLoads == ASSUME NEW c \in Server \cup Client, Valid(c) PROVE Loads(c)
<1>1. CASE c \in Server
  <2> DEFINE n == Normalized(c)
  <2>1. /\ n \in Server /\ n.role = "server" /\ c.role = "server" /\ n.addr = c.addr /\ n.token = c.token
        /\ n.transport = NonEmpty(Lowered(c.transport), "tls")
        /\ n.services = Mapped(c.services) /\ c.services \in Seq(Mapping)
    BY <1>1, NormalizedServer DEF Server
  <2>2. ValidServer(c)
    BY <2>1 DEF Valid
  <2>3. n.transport = c.transport
    BY <2>1, <2>2, Texts DEF ValidServer, ValidEnd, NonEmpty
  <2>4. /\ Len(n.services) = Len(c.services)
        /\ DOMAIN n.services = 1 .. Len(c.services) /\ DOMAIN c.services = 1 .. Len(c.services)
        /\ \A i \in 1 .. Len(c.services) : n.services[i].name = c.services[i].name
        /\ \A i \in 1 .. Len(c.services) : n.services[i].proto = NormProto(c.services[i].proto)
    BY <2>1, MappedMappings, LenProperties
  <2>5. ValidServer(n)
    <3>1. ValidEnd(n)
      BY <2>1, <2>2, <2>3 DEF ValidServer, ValidEnd
    <3>2. Distinct(n.services)
      BY <2>2, <2>4 DEF ValidServer, Distinct
    <3>3. \A i \in DOMAIN n.services : n.services[i].name # "" /\ n.services[i].proto \in Protos
      BY <2>2, <2>4, Texts DEF ValidServer
    <3> QED BY <3>1, <3>2, <3>3 DEF ValidServer
  <2> HIDE DEF n
  <2>6. Valid(n)
    BY <2>1, <2>5, Zenon DEF Valid
  <2> QED BY <2>1, <2>6 DEF Loads, n
<1>2. CASE c \in Client
  <2> DEFINE n == Normalized(c)
  <2>1. /\ n \in Client /\ n.role = "client" /\ c.role = "client" /\ n.addr = c.addr /\ n.token = c.token
        /\ n.transport = NonEmpty(Lowered(c.transport), "tls") /\ n.services = c.services
        /\ n.forwards = Mapped(c.forwards) /\ c.forwards \in Seq(Mapping) /\ c.services \in Seq(Mapping)
    BY <1>2, NormalizedClient DEF Client
  <2>2. ValidClient(c)
    BY <2>1 DEF Valid
  <2>3. n.transport = c.transport
    BY <2>1, <2>2, Texts DEF ValidClient, ValidEnd, NonEmpty
  <2>4. /\ n.forwards \in Seq(Mapping) /\ Len(n.forwards) = Len(c.forwards)
        /\ DOMAIN n.forwards = 1 .. Len(c.forwards) /\ DOMAIN c.forwards = 1 .. Len(c.forwards)
        /\ \A i \in 1 .. Len(c.forwards) : n.forwards[i].proto = NormProto(c.forwards[i].proto)
    BY <2>1, MappedMappings, LenProperties
  <2>5. ValidClient(n)
    <3>1. ValidEnd(n)
      BY <2>1, <2>2, <2>3 DEF ValidClient, ValidEnd
    <3>2. n.services \o n.forwards # <<>>
      <4> HIDE DEF n
      <4>0. ASSUME NEW v \in Seq(Mapping), NEW w \in Seq(Mapping) PROVE Len(v \o w) = Len(v) + Len(w)
        BY ConcatProperties
      <4>1. /\ Len(n.services \o n.forwards) = Len(n.services) + Len(n.forwards)
            /\ Len(c.services \o c.forwards) = Len(c.services) + Len(c.forwards)
        BY <2>1, <2>4, <4>0
      <4>2. c.services \o c.forwards \in Seq(Mapping) /\ c.services \o c.forwards # <<>>
        BY <2>1, <2>2, ConcatProperties DEF ValidClient
      <4> QED BY <2>1, <2>4, <4>1, <4>2, EmptySeq
    <3>3. \A i \in DOMAIN n.forwards : n.forwards[i].proto \in Protos
      BY <2>2, <2>4, Texts DEF ValidClient
    <3> QED BY <2>1, <2>2, <3>1, <3>2, <3>3 DEF ValidClient
  <2> HIDE DEF n
  <2>6. Valid(n)
    BY <2>1, <2>5, Zenon DEF Valid
  <2> QED BY <2>1, <2>6 DEF Loads, n
<1> QED BY <1>1, <1>2

LEMMA WithoutMappings ==
    ASSUME NEW ms \in Seq(Mapping), NEW i \in DOMAIN ms
    PROVE  Without(ms, i) \in Seq(Mapping)
<1>1. Len(ms) \in Nat /\ i \in 1 .. Len(ms) /\ \A j \in 1 .. Len(ms) : ms[j] \in Mapping
  BY LenProperties, ElementOfSeq
<1>2. SubSeq(ms, 1, i - 1) \in Seq(Mapping) /\ SubSeq(ms, i + 1, Len(ms)) \in Seq(Mapping)
  BY <1>1, SubSeqProperties
<1> QED BY <1>2, ConcatProperties DEF Without

\* The editor keeps a configuration what it was, a server's or a client's.
LEMMA EditsKeepSort ==
    ASSUME NEW c \in Server \cup Client, NEW e \in Edits(c, Names)
    PROVE  e \in Server \cup Client
<1>1. /\ c.services \in Seq(Mapping)
      /\ c \in Server => c.role = "server" /\ c.allow \in BOOLEAN
      /\ c \in Client => c.role = "client" /\ c.forwards \in Seq(Mapping)
  BY DEF Server, Client
<1>2. ASSUME NEW ms \in Seq(Mapping), NEW protos, protos = Protos \/ protos = {""}
      PROVE  Changed(ms, Names, protos) \subseteq Seq(Mapping)
  <2>1. [name: Names, proto: protos] \subseteq Mapping
    <3>1. Names \subseteq Text /\ protos \subseteq Text
      BY <1>2, AnswersAssumption, Texts, Words DEF AnswersAssumption
    <3> QED BY <3>1 DEF Mapping
  <2>2. \A m \in [name: Names, proto: protos] : Append(ms, m) \in Seq(Mapping)
    BY <2>1, AppendProperties
  <2>3. \A i \in DOMAIN ms : Without(ms, i) \in Seq(Mapping)
    BY WithoutMappings
  <2> QED BY <2>2, <2>3, Zenon DEF Changed
<1>3. CASE c \in Server
  <2>1. e \in EditServer(c, Names)
    BY <1>1, <1>3 DEF Edits
  <2>2. /\ \A ms \in Seq(Mapping) : [c EXCEPT !.services = ms] \in Server
        /\ [c EXCEPT !.allow = ~c.allow] \in Server
    BY <1>1, <1>3, Zenon DEF Server
  <2>3. Changed(c.services, Names, Protos) \subseteq Seq(Mapping)
    BY <1>1, <1>2
  <2> QED BY <2>1, <2>2, <2>3, Zenon DEF EditServer
<1>4. CASE c \in Client
  <2>1. e \in EditClient(c, Names)
    BY <1>1, <1>4 DEF Edits
  <2>2. /\ \A ms \in Seq(Mapping) : [c EXCEPT !.services = ms] \in Client
        /\ \A ms \in Seq(Mapping) : [c EXCEPT !.forwards = ms] \in Client
    BY <1>4, Zenon DEF Client
  <2>3. /\ Changed(c.services, Names, {""}) \subseteq Seq(Mapping)
        /\ Changed(c.forwards, Names, Protos) \subseteq Seq(Mapping)
    BY <1>1, <1>2, <1>4
  <2> QED BY <2>1, <2>2, <2>3, Zenon DEF EditClient
<1> QED BY <1>3, <1>4

\* The mappings of both files have the names of the answers.
LEMMA WizardNames == ASSUME NEW d \in Answers, NEW i \in 1 .. Len(d.mappings) PROVE d.mappings[i].name # ""
<1>1. d.mappings \in Seq([name: Text \ {""}, proto: Protos])
  BY AnswersAssumption DEF AnswersAssumption, WizardData
<1>2. d.mappings[i] \in [name: Text \ {""}, proto: Protos]
  BY <1>1, ElementOfSeq
<1> QED BY <1>2

LEMMA WizardMappings ==
    ASSUME NEW d \in Answers
    PROVE  LET ms == d.mappings
           IN /\ Len(ms) \in Nat \ {0} /\ DOMAIN ms = 1 .. Len(ms)
              /\ Written(ms) \in Seq(Mapping) /\ Len(Written(ms)) = Len(ms)
              /\ Targets(ms) \in Seq(Mapping) /\ Len(Targets(ms)) = Len(ms)
              /\ \A i \in 1 .. Len(ms) : /\ Written(ms)[i].name = ms[i].name
                                          /\ NormProto(Written(ms)[i].proto) \in Protos
                                          /\ Targets(ms)[i].name = ms[i].name
<1> DEFINE Row == [name: Text \ {""}, proto: Protos]
           ms == d.mappings
<1>1. ms \in Seq(Row) /\ ms # <<>>
  BY AnswersAssumption DEF AnswersAssumption, WizardData
<1> HIDE DEF ms
<1>2. /\ Len(ms) \in Nat \ {0} /\ DOMAIN ms = 1 .. Len(ms)
      /\ \A i \in 1 .. Len(ms) : ms[i] \in Row
  BY <1>1, LenProperties, EmptySeq, ElementOfSeq
<1> HIDE DEF Row
<1>3. \A w \in {"udp", ""} : w \in Text /\ NormProto(w) \in Protos
  <2>1. NormProto("") = "tcp" /\ NormProto("udp") = "udp"
    BY Zenon DEF NormProto, Lowered, NonEmpty
  <2> QED BY <2>1, Words DEF Protos
<1>4. /\ Written(ms) \in Seq(Mapping) /\ Len(Written(ms)) = Len(ms)
      /\ \A i \in 1 .. Len(ms) : /\ Written(ms)[i].name = ms[i].name
                                  /\ Written(ms)[i].proto \in {"udp", ""}
  <2>1. ASSUME NEW i \in 1 .. Len(ms), NEW w \in {"udp", ""}
        PROVE  /\ [ms[i] EXCEPT !.proto = w] \in Mapping
               /\ [ms[i] EXCEPT !.proto = w].name = ms[i].name
               /\ [ms[i] EXCEPT !.proto = w].proto = w
    BY <1>2, <1>3 DEF Row, Mapping
  <2>2. Written(ms) = [i \in 1 .. Len(ms) |->
                         [ms[i] EXCEPT !.proto = IF NormProto(ms[i].proto) = "udp" THEN "udp" ELSE ""]]
    BY <1>2, Zenon DEF Written
  <2>3. \A i \in 1 .. Len(ms) :
          /\ Written(ms)[i] \in Mapping /\ Written(ms)[i].name = ms[i].name
          /\ Written(ms)[i].proto \in {"udp", ""}
    <3> SUFFICES ASSUME NEW i \in 1 .. Len(ms)
                 PROVE  /\ Written(ms)[i] \in Mapping /\ Written(ms)[i].name = ms[i].name
                        /\ Written(ms)[i].proto \in {"udp", ""}
      OBVIOUS
    <3> DEFINE w == IF NormProto(ms[i].proto) = "udp" THEN "udp" ELSE ""
    <3>1. w \in {"udp", ""}
      OBVIOUS
    <3>2. Written(ms)[i] = [ms[i] EXCEPT !.proto = w]
      BY <2>2, Zenon
    <3> HIDE DEF w
    <3>3. /\ [ms[i] EXCEPT !.proto = w] \in Mapping
          /\ [ms[i] EXCEPT !.proto = w].name = ms[i].name
          /\ [ms[i] EXCEPT !.proto = w].proto = w
      BY <2>1, <3>1
    <3> QED BY <3>1, <3>2, <3>3
  <2>4. Written(ms) \in [1 .. Len(ms) -> Mapping]
    BY <2>2, <2>3, Zenon
  <2>5. Written(ms) \in Seq(Mapping) /\ Len(Written(ms)) = Len(ms)
    BY <1>2, <2>4, Rows
  <2> QED BY <2>3, <2>5
<1>5. /\ Targets(ms) \in Seq(Mapping) /\ Len(Targets(ms)) = Len(ms)
      /\ \A i \in 1 .. Len(ms) : Targets(ms)[i].name = ms[i].name
  <2>1. Targets(ms) = [i \in 1 .. Len(ms) |-> [name |-> ms[i].name, proto |-> ""]]
    BY <1>2, Zenon DEF Targets
  <2>2. \A i \in 1 .. Len(ms) : [name |-> ms[i].name, proto |-> ""] \in Mapping
    BY <1>2, <1>3 DEF Row, Mapping
  <2>3. Targets(ms) \in [1 .. Len(ms) -> Mapping]
    BY <2>1, <2>2, Zenon
  <2>4. Targets(ms) \in Seq(Mapping) /\ Len(Targets(ms)) = Len(ms)
    BY <1>2, <2>3, Rows
  <2>5. ASSUME NEW i \in 1 .. Len(ms) PROVE Targets(ms)[i].name = ms[i].name
    <3> DEFINE blank == ""
    <3>1. Targets(ms)[i] = [name |-> ms[i].name, proto |-> blank]
      BY <2>1, Zenon
    <3> HIDE DEF blank
    <3> QED BY <3>1
  <2> QED BY <2>4, <2>5
<1>7. \A i \in 1 .. Len(ms) : NormProto(Written(ms)[i].proto) \in Protos
  BY <1>3, <1>4
<1> QED BY <1>2, <1>4, <1>5, <1>7 DEF ms

\* The client's file of the wizard loads, the server's unless a name is repeated, and
\* the two ends fit together if the address and the path let them.
LEMMA WizardPair ==
    ASSUME NEW d \in Answers
    PROVE  LET s == BuildServer(d)
               c == BuildClient(d)
               w == NonEmpty(d.path, "/cando")
           IN /\ s \in Server /\ c \in Client /\ Loads(c)
              /\ Loads(s) <=> (d.scenario = 2 => Distinct(d.mappings))
              /\ Fit(Normalized(s), Normalized(c)) <=>
                    /\ d.addr.port # "" \/ d.transport = "wss"
                    /\ d.transport \in {"ws", "wss"} => Arrives(w) = w
<1> DEFINE ms == d.mappings
           s == BuildServer(d)
           c == BuildClient(d)
           ns == Normalized(s)
           nc == Normalized(c)
           k == WizardKCP(d)
           p == WizardPath(d)
           q == PortOf(d.addr)
           a == NonEmpty(d.addr.port, "no port")
<1>1. /\ d.scenario \in {1, 2} /\ d.transport \in Transports /\ d.token \in Text
      /\ d.addr.port \in Text /\ d.path \in Text /\ d.obfs \in BOOLEAN /\ d.pool \in Int
  BY AnswersAssumption DEF AnswersAssumption, WizardData
<1>20. d.token # "" /\ d.addr.port # "no port" /\ \A i \in 1 .. Len(ms) : ms[i].name # ""
  BY AnswersAssumption, WizardNames DEF AnswersAssumption, WizardData
<1>2. /\ Len(ms) \in Nat \ {0} /\ DOMAIN ms = 1 .. Len(ms)
      /\ Written(ms) \in Seq(Mapping) /\ Len(Written(ms)) = Len(ms)
      /\ Targets(ms) \in Seq(Mapping) /\ Len(Targets(ms)) = Len(ms)
      /\ \A i \in 1 .. Len(ms) : /\ Written(ms)[i].name = ms[i].name
                                  /\ NormProto(Written(ms)[i].proto) \in Protos
                                  /\ Targets(ms)[i].name = ms[i].name
  BY WizardMappings
<1> HIDE DEF ms
<1>3. q \in Text /\ a \in Text /\ q # "" /\ a # ""
  <2>1. q \in Text /\ a \in Text
    BY <1>1, Words, Texts DEF PortOf
  <2>2. ASSUME NEW u, NEW v, v # "" PROVE NonEmpty(u, v) # ""
    BY <2>2, Zenon DEF NonEmpty
  <2>3. q # "" /\ a # ""
    BY <2>2, Zenon DEF PortOf
  <2> QED BY <2>1, <2>3
<1>4. k \in KCP
  <2> DEFINE blank == ""
  <2>1. blank \in Text
    BY Words
  <2> HIDE DEF blank
  <2>2. [mode |-> blank, data |-> 0, parity |-> 0, mtu |-> 0, window |-> 0] \in KCP
    BY <2>1 DEF KCP
  <2> QED BY <2>2, Defaults, Zenon DEF WizardKCP, blank
<1>5. p \in Text
  BY <1>1, Words, Texts DEF WizardPath
<1>6. WizardMux \in Mux /\ WizardObfs(d) \in BOOLEAN /\ AllowForward(d) \in BOOLEAN
  BY <1>1, Defaults, Zenon DEF WizardMux, WizardObfs, AllowForward
<1>7. d.transport \in Text
  BY <1>1, Texts
<1>8. <<>> \in Seq(Mapping) /\ Len(<<>>) = 0
  BY EmptySeq
<1> DEFINE sv == IF d.scenario = 2 THEN Written(ms) ELSE <<>>
           cv == IF d.scenario = 2 THEN Targets(ms) ELSE <<>>
           fw == IF d.scenario = 1 THEN Written(ms) ELSE <<>>
<1>9. \/ d.scenario = 1 /\ sv = <<>> /\ cv = <<>> /\ fw = Written(ms)
      \/ d.scenario = 2 /\ sv = Written(ms) /\ cv = Targets(ms) /\ fw = <<>>
  <2>1. d.scenario = 1 \/ d.scenario = 2
    BY <1>1
  <2> QED BY <2>1
<1> HIDE DEF k, p, q, a, s, c, ns, nc, sv, cv, fw
<1>19. /\ sv \in Seq(Mapping) /\ Len(sv) \in Nat /\ cv \in Seq(Mapping) /\ Len(cv) \in Nat
       /\ fw \in Seq(Mapping) /\ Len(fw) \in Nat /\ Len(sv) = Len(cv) /\ Len(cv) + Len(fw) # 0
  <2>1. CASE d.scenario = 1 /\ sv = <<>> /\ cv = <<>> /\ fw = Written(ms)
    BY <1>2, <1>8, <2>1
  <2>2. CASE d.scenario = 2 /\ sv = Written(ms) /\ cv = Targets(ms) /\ fw = <<>>
    BY <1>2, <1>8, <2>2
  <2> QED BY <1>9, <2>1, <2>2
<1>10. /\ s \in Server /\ s.role = "server" /\ s.addr = q /\ s.transport = d.transport
       /\ s.token = d.token /\ s.path = p /\ s.obfs = WizardObfs(d) /\ s.kcp = k
       /\ s.allow = AllowForward(d) /\ s.services = sv
  <2>1. s = [role |-> "server", addr |-> q, transport |-> d.transport, token |-> d.token,
             path |-> p, obfs |-> WizardObfs(d), mux |-> WizardMux, kcp |-> k,
             allow |-> AllowForward(d), services |-> sv]
    BY Zenon DEF BuildServer, p, q, k, s, sv, ms
  <2>2. d.token \in Text
    BY <1>1
  <2> QED BY <1>1, <1>3, <1>4, <1>5, <1>6, <1>7, <1>19, <2>1, <2>2, Zenon DEF Server
<1>11. /\ c \in Client /\ c.role = "client" /\ c.addr = a /\ c.transport = d.transport
       /\ c.token = d.token /\ c.path = p /\ c.obfs = WizardObfs(d) /\ c.kcp = k
       /\ c.services = cv /\ c.forwards = fw
  <2> DEFINE r == [min |-> 500, max |-> 30000]
  <2>1. r \in [min: Int, max: Int]
    OBVIOUS
  <2>2. c = [role |-> "client", addr |-> a, transport |-> d.transport, token |-> d.token,
             path |-> p, obfs |-> WizardObfs(d), mux |-> WizardMux, kcp |-> k,
             pool |-> d.pool, reconnect |-> r, services |-> cv, forwards |-> fw]
    BY SMT DEF BuildClient, p, a, k, c, cv, fw, ms
  <2> HIDE DEF r
  <2>3. c \in Client
    BY <1>1, <1>3, <1>4, <1>5, <1>6, <1>7, <1>19, <2>1, <2>2 DEF Client
  <2> QED BY <2>2, <2>3
<1>12. /\ ns.role = "server" /\ ns.addr = q /\ ns.token = d.token /\ ns.obfs = WizardObfs(d)
       /\ ns.allow = AllowForward(d) /\ ns.transport = d.transport /\ ns.path = NonEmpty(p, "/cando")
       /\ ns.services = Mapped(sv) /\ ns.kcp = IF d.transport = "kcp" THEN FillKCP(k) ELSE k
  <2>1. NonEmpty(Lowered(d.transport), "tls") = d.transport
    BY <1>1, Texts DEF NonEmpty
  <2>2. ns \in Server
    BY <1>10, NormalizedServer DEF ns
  <2>3. ns.role = "server"
    BY <2>2 DEF Server
  <2> QED BY <1>10, <2>1, <2>3, NormalizedServer DEF ns
<1>13. /\ nc.role = "client" /\ nc.addr = a /\ nc.token = d.token /\ nc.obfs = WizardObfs(d)
       /\ nc.transport = d.transport /\ nc.path = NonEmpty(p, "/cando")
       /\ nc.services = cv /\ nc.forwards = Mapped(fw)
       /\ nc.kcp = IF d.transport = "kcp" THEN FillKCP(k) ELSE k
  <2>1. NonEmpty(Lowered(d.transport), "tls") = d.transport
    BY <1>1, Texts DEF NonEmpty
  <2>2. nc \in Client
    BY <1>11, NormalizedClient DEF nc
  <2>3. nc.role = "client"
    BY <2>2 DEF Client
  <2> QED BY <1>11, <2>1, <2>3, NormalizedClient DEF nc
<1>14. /\ Mapped(sv) \in Seq(Mapping) /\ DOMAIN Mapped(sv) = 1 .. Len(sv)
       /\ Mapped(fw) \in Seq(Mapping) /\ DOMAIN Mapped(fw) = 1 .. Len(fw) /\ Len(Mapped(fw)) = Len(fw)
       /\ DOMAIN cv = 1 .. Len(cv)
       /\ \A i \in 1 .. Len(sv) : Mapped(sv)[i].name = sv[i].name /\ Mapped(sv)[i].proto = NormProto(sv[i].proto)
       /\ \A i \in 1 .. Len(fw) : Mapped(fw)[i].proto = NormProto(fw[i].proto)
  BY <1>19, MappedMappings, LenProperties
<1>15. /\ \A i \in 1 .. Len(sv) : i \in 1 .. Len(ms) /\ sv[i].name = ms[i].name
       /\ \A i \in 1 .. Len(sv) : NormProto(sv[i].proto) \in Protos
       /\ \A i \in 1 .. Len(cv) : i \in 1 .. Len(ms) /\ cv[i].name = ms[i].name
       /\ \A i \in 1 .. Len(fw) : NormProto(fw[i].proto) \in Protos
       /\ Len(sv) # 0 => d.scenario = 2
       /\ Len(fw) # 0 => d.scenario = 1
  <2>1. CASE d.scenario = 1 /\ sv = <<>> /\ cv = <<>> /\ fw = Written(ms)
    BY <1>2, <1>8, <2>1
  <2>2. CASE d.scenario = 2 /\ sv = Written(ms) /\ cv = Targets(ms) /\ fw = <<>>
    BY <1>2, <1>8, <2>2
  <2> QED BY <1>9, <2>1, <2>2
<1>16. Loads(s) <=> (d.scenario = 2 => Distinct(ms))
  <2>1. ValidEnd(ns)
    BY <1>1, <1>3, <1>20, <1>12, Zenon DEF ValidEnd
  <2>2. Distinct(ns.services) <=> (d.scenario = 2 => Distinct(ms))
    <3>1. CASE d.scenario = 1 /\ sv = <<>> /\ cv = <<>> /\ fw = Written(ms)
      <4>1. DOMAIN ns.services = {}
        BY <1>8, <1>12, <1>14, <3>1
      <4>2. Distinct(ns.services)
        BY <4>1, Zenon DEF Distinct
      <4> QED BY <3>1, <4>2
    <3>2. CASE d.scenario = 2 /\ sv = Written(ms) /\ cv = Targets(ms) /\ fw = <<>>
      <4>1. /\ DOMAIN ns.services = DOMAIN ms
            /\ \A i \in DOMAIN ms : ns.services[i].name = ms[i].name
        BY <1>2, <1>12, <1>14, <1>15, <3>2
      <4>2. Distinct(ns.services) <=> Distinct(ms)
        BY <4>1, Zenon DEF Distinct
      <4> QED BY <3>2, <4>2
    <3> QED BY <1>9, <3>1, <3>2
  <2>3. \A i \in DOMAIN ns.services : ns.services[i].name # "" /\ ns.services[i].proto \in Protos
    <3> SUFFICES ASSUME NEW i \in 1 .. Len(sv) PROVE Mapped(sv)[i].name # "" /\ Mapped(sv)[i].proto \in Protos
      BY <1>12, <1>14, Zenon
    <3>1. ms[i].name # ""
      BY <1>20, <1>15, Zenon
    <3>2. Mapped(sv)[i].name = ms[i].name /\ Mapped(sv)[i].proto \in Protos
      BY <1>14, <1>15
    <3> QED BY <3>1, <3>2, Zenon
  <2>4. ValidServer(ns) <=> Distinct(ns.services)
    BY <2>1, <2>3 DEF ValidServer
  <2>5. Valid(ns) <=> ValidServer(ns)
    BY <1>12, Zenon DEF Valid
  <2> QED BY <1>10, <2>2, <2>4, <2>5 DEF Loads, ns
<1>17. Loads(c)
  <2>1. ValidEnd(nc)
    BY <1>1, <1>3, <1>20, <1>13, Zenon DEF ValidEnd
  <2>2. nc.services \o nc.forwards # <<>>
    <3>1. ASSUME NEW v \in Seq(Mapping), NEW w \in Seq(Mapping) PROVE Len(v \o w) = Len(v) + Len(w)
      BY ConcatProperties
    <3>2. Len(nc.services \o nc.forwards) = Len(cv) + Len(fw)
      BY <1>19, <1>13, <1>14, <3>1
    <3> QED BY <1>19, <1>8, <3>2
  <2>3. \A i \in DOMAIN nc.services : nc.services[i].name # ""
    <3>1. DOMAIN nc.services = 1 .. Len(cv) /\ nc.services = cv
      BY <1>13, <1>14
    <3> QED BY <1>15, <1>20, <3>1, Zenon
  <2>4. \A i \in DOMAIN nc.forwards : nc.forwards[i].proto \in Protos
    BY <1>13, <1>14, <1>15
  <2>5. ValidClient(nc)
    BY <2>1, <2>2, <2>3, <2>4 DEF ValidClient
  <2>6. Valid(nc)
    BY <1>13, <2>5, Zenon DEF Valid
  <2> QED BY <1>11, <2>6 DEF Loads, nc
<1>18. Fit(ns, nc) <=> q = DialPort(nc) /\ (d.transport \in {"ws", "wss"} => ns.path = Arrives(nc.path))
  <2>1. NormKCP(ns.kcp) = NormKCP(nc.kcp)
    BY <1>12, <1>13
  <2>2. \A i \in DOMAIN ns.services : \E j \in DOMAIN nc.services : ns.services[i].name = nc.services[j].name
    BY <1>19, <1>12, <1>13, <1>14, <1>15
  <2>3. nc.forwards # <<>> => ns.allow
    <3>1. nc.forwards # <<>> => Len(fw) # 0
      BY <1>13, <1>14, EmptySeq
    <3> QED BY <1>12, <1>15, <3>1 DEF AllowForward
  <2>4. /\ ns.transport = d.transport /\ ns.transport = nc.transport /\ ns.token = nc.token
        /\ ns.obfs = nc.obfs /\ ns.addr = q
    BY <1>12, <1>13
  <2> QED BY <2>1, <2>2, <2>3, <2>4, Zenon DEF Fit
<1>21. q = DialPort(nc) <=> d.addr.port # "" \/ d.transport = "wss"
  <2>1. nc.addr = a /\ nc.transport = d.transport
    BY <1>13
  <2>2. CASE d.addr.port # ""
    <3>1. a = d.addr.port /\ q = d.addr.port
      BY <2>2, Zenon DEF a, q, PortOf, NonEmpty
    <3>2. DialPort(nc) = a
      BY <1>20, <2>1, <3>1, Zenon DEF DialPort
    <3> QED BY <2>2, <3>1, <3>2
  <2>3. CASE d.addr.port = ""
    <3>1. a = "no port" /\ q = "443"
      BY <2>3, Zenon DEF a, q, PortOf, NonEmpty
    <3>2. DialPort(nc) = CASE d.transport = "wss" -> "443" [] d.transport = "ws" -> "80" [] OTHER -> ""
      <4>1. CASE d.transport = "wss"
        BY <2>1, <3>1, <4>1, Zenon DEF DialPort
      <4>2. CASE d.transport = "ws"
        BY <2>1, <3>1, <4>2, Zenon DEF DialPort
      <4>3. CASE d.transport # "wss" /\ d.transport # "ws"
        BY <2>1, <3>1, <4>3, Zenon DEF DialPort
      <4> QED BY <4>1, <4>2, <4>3
    <3>3. CASE d.transport = "wss"
      BY <2>3, <3>1, <3>2, <3>3, Zenon
    <3>4. CASE d.transport = "ws"
      BY <2>3, <3>1, <3>2, <3>4, Zenon
    <3>5. CASE d.transport # "wss" /\ d.transport # "ws"
      BY <2>3, <3>1, <3>2, <3>5, Zenon
    <3> QED BY <3>3, <3>4, <3>5
  <2> QED BY <2>2, <2>3
<1> DEFINE w == NonEmpty(d.path, "/cando")
<1>22. d.transport \in {"ws", "wss"} => ns.path = w /\ nc.path = w
  <2> SUFFICES ASSUME d.transport \in {"ws", "wss"} PROVE ns.path = w /\ nc.path = w
    OBVIOUS
  <2>1. p = w
    BY Zenon DEF p, WizardPath
  <2>2. p # ""
    BY <2>1, Zenon DEF NonEmpty
  <2>3. NonEmpty(p, "/cando") = p
    BY <2>2, Zenon DEF NonEmpty
  <2> QED BY <1>12, <1>13, <2>1, <2>3
<1> DEFINE reached == d.addr.port # "" \/ d.transport = "wss"
           web == d.transport \in {"ws", "wss"}
           dialled == q = DialPort(nc)
           arrives == ns.path = Arrives(nc.path)
           clean == Arrives(w) = w
<1>23. Fit(ns, nc) <=> reached /\ (web => clean)
  <2>1. web => (arrives <=> clean)
    BY <1>22, Zenon
  <2>2. Fit(ns, nc) <=> dialled /\ (web => arrives)
    BY <1>18, Zenon
  <2>3. dialled <=> reached
    BY <1>21, Zenon
  <2> HIDE DEF reached, web, dialled, arrives, clean
  <2> QED BY <2>1, <2>2, <2>3, Zenon
<1>24. Loads(c) /\ s \in Server /\ c \in Client
  BY <1>10, <1>11, <1>17
<1> QED BY <1>16, <1>23, <1>24, Zenon DEF s, c, ns, nc, ms

-----------------------------------------------------------------------------
(* What the carriers make of a file.                                       *)

LEMMA SmuxTakes ==
    ASSUME NEW x \in Mux
    PROVE  SmuxAccepts(MuxConfig(x)) <=> ~(x.stream >= 2048 /\ x.receive >= 2048)
<1> DEFINE interval == Positive(x.keepalive, 10)
           receive == Positive(x.receive, 32)
           stream == Clamp(Positive(x.stream, 8), receive)
<1>1. /\ interval \in Int /\ interval > 0 /\ 3 * interval >= interval
      /\ receive \in Int /\ receive > 0 /\ stream \in Int /\ stream > 0
      /\ stream <= receive /\ stream < 2048 <=> ~(x.stream >= 2048 /\ x.receive >= 2048)
  BY DEF Mux, Positive, Clamp
<1>2. MuxConfig(x) = [interval |-> interval, timeout |-> 3 * interval, receive |-> receive, stream |-> stream]
  BY DEF MuxConfig
<1> HIDE DEF interval, receive, stream
<1> QED BY <1>1, <1>2 DEF SmuxAccepts

LEMMA FilledFields ==
    ASSUME NEW k \in KCP
    PROVE  LET f == FillKCP(k) both == k.data > 0 /\ k.parity > 0
           IN /\ f \in KCP
              /\ f.mode = NonEmpty(k.mode, DefaultKCP.mode)
              /\ f.data = IF both THEN k.data ELSE 10
              /\ f.parity = IF both THEN k.parity ELSE 3
              /\ f.mtu = Positive(k.mtu, 1350)
              /\ f.window = Positive(k.window, 2048)
<1>1. FillKCP(k) \in KCP
  BY Sections
<1>2. DefaultKCP.data = 10 /\ DefaultKCP.parity = 3 /\ DefaultKCP.mtu = 1350 /\ DefaultKCP.window = 2048
  BY DEF DefaultKCP
<1>3. ASSUME NEW x \in KCP, NEW m, NEW u, NEW w
      PROVE  LET y == [x EXCEPT !.mode = m, !.mtu = u, !.window = w]
             IN y.mode = m /\ y.mtu = u /\ y.window = w /\ y.data = x.data /\ y.parity = x.parity
  BY Zenon DEF KCP
<1>4. ASSUME NEW d, NEW r
      PROVE  LET y == [k EXCEPT !.data = d, !.parity = r]
             IN y.data = d /\ y.parity = r /\ y.mode = k.mode /\ y.mtu = k.mtu /\ y.window = k.window
  BY Zenon DEF KCP
<1>5. /\ CoupleFEC(k) \in KCP
      /\ CoupleFEC(k).mode = k.mode /\ CoupleFEC(k).mtu = k.mtu /\ CoupleFEC(k).window = k.window
      /\ CoupleFEC(k).data = IF k.data > 0 /\ k.parity > 0 THEN k.data ELSE 10
      /\ CoupleFEC(k).parity = IF k.data > 0 /\ k.parity > 0 THEN k.parity ELSE 3
  <2>1. k.data \in Int /\ k.parity \in Int
    BY DEF KCP
  <2>2. CASE k.data <= 0 \/ k.parity <= 0
    <3>1. CoupleFEC(k) = [k EXCEPT !.data = 10, !.parity = 3]
      BY <1>2, <2>2 DEF CoupleFEC
    <3> QED BY <1>4, <2>1, <2>2, <3>1, Sections
  <2>3. CASE ~(k.data <= 0 \/ k.parity <= 0)
    <3>1. CoupleFEC(k) = k
      BY <2>3 DEF CoupleFEC
    <3> QED BY <2>1, <2>3, <3>1
  <2> QED BY <2>2, <2>3
<1>6. /\ FillKCP(k).mode = NonEmpty(CoupleFEC(k).mode, DefaultKCP.mode)
      /\ FillKCP(k).mtu = Positive(CoupleFEC(k).mtu, 1350)
      /\ FillKCP(k).window = Positive(CoupleFEC(k).window, 2048)
      /\ FillKCP(k).data = CoupleFEC(k).data /\ FillKCP(k).parity = CoupleFEC(k).parity
  <2> DEFINE x == CoupleFEC(k)
             m == NonEmpty(x.mode, DefaultKCP.mode)
             u == Positive(x.mtu, 1350)
             w == Positive(x.window, 2048)
  <2>1. x \in KCP /\ FillKCP(k) = [x EXCEPT !.mode = m, !.mtu = u, !.window = w]
    BY <1>2, <1>5 DEF FillKCP
  <2> HIDE DEF x, m, u, w
  <2>2. /\ FillKCP(k).mode = m /\ FillKCP(k).mtu = u /\ FillKCP(k).window = w
        /\ FillKCP(k).data = x.data /\ FillKCP(k).parity = x.parity
    BY <1>3, <2>1
  <2> QED BY <2>2 DEF x, m, u, w
<1> QED BY <1>1, <1>5, <1>6

\* What Load has filled in, normKCP leaves alone, but for the MTU.
LEMMA FilledOnce ==
    ASSUME NEW k \in KCP
    PROVE  FillKCP(FillKCP(k)) = FillKCP(k)
<1> DEFINE f == FillKCP(k)
           g == FillKCP(f)
<1>1. f \in KCP /\ g \in KCP
  BY Sections
<1>2. g.mode = f.mode
  <2>1. f.mode = NonEmpty(k.mode, DefaultKCP.mode) /\ g.mode = NonEmpty(f.mode, DefaultKCP.mode)
    BY <1>1, FilledFields
  <2> QED BY <2>1, Zenon DEF NonEmpty
<1>3. /\ f.data = IF k.data > 0 /\ k.parity > 0 THEN k.data ELSE 10
      /\ f.parity = IF k.data > 0 /\ k.parity > 0 THEN k.parity ELSE 3
      /\ f.mtu = Positive(k.mtu, 1350) /\ f.window = Positive(k.window, 2048)
  BY FilledFields
<1>4. /\ g.data = IF f.data > 0 /\ f.parity > 0 THEN f.data ELSE 10
      /\ g.parity = IF f.data > 0 /\ f.parity > 0 THEN f.parity ELSE 3
      /\ g.mtu = Positive(f.mtu, 1350) /\ g.window = Positive(f.window, 2048)
  BY <1>1, FilledFields
<1>5. k.data \in Int /\ k.parity \in Int /\ k.mtu \in Int /\ k.window \in Int
  BY DEF KCP
<1> HIDE DEF f, g
<1>6. g.data = f.data /\ g.parity = f.parity /\ g.mtu = f.mtu /\ g.window = f.window
  BY <1>3, <1>4, <1>5 DEF Positive
<1>7. f = g
  BY <1>1, <1>2, <1>6 DEF KCP
<1> QED BY <1>7 DEF f, g

LEMMA FecOfAnySection ==
    ASSUME NEW k \in KCP
    PROVE  LET f == FillKCP(k) n == NormKCP(f)
           IN /\ n.data > 0 /\ n.parity > 0 /\ n.mtu \in 512 .. 1400
              /\ <<n.data, n.parity>> \in {<<k.data, k.parity>>, <<DefaultKCP.data, DefaultKCP.parity>>}
              /\ n = NormKCP(k) /\ [n EXCEPT !.mtu = 0] = [f EXCEPT !.mtu = 0]
<1> DEFINE f == FillKCP(k)
           u == IF f.mtu > 1400 THEN 1400 ELSE IF f.mtu < 512 THEN 512 ELSE f.mtu
           n == NormKCP(f)
<1>1. f \in KCP /\ k.data \in Int /\ k.parity \in Int
  BY Sections DEF KCP
<1>2. n = [f EXCEPT !.mtu = u] /\ NormKCP(k) = [f EXCEPT !.mtu = u]
  <2>1. FillKCP(f) = f
    BY FilledOnce
  <2>2. NormKCP(k) = [f EXCEPT !.mtu = u]
    BY Zenon DEF NormKCP
  <2>3. n = [FillKCP(f) EXCEPT !.mtu = IF FillKCP(f).mtu > 1400 THEN 1400
                                       ELSE IF FillKCP(f).mtu < 512 THEN 512 ELSE FillKCP(f).mtu]
    BY Zenon DEF NormKCP
  <2>4. n = [f EXCEPT !.mtu = u]
    BY <2>1, <2>3
  <2> QED BY <2>2, <2>4
<1>3. /\ f.data = IF k.data > 0 /\ k.parity > 0 THEN k.data ELSE 10
      /\ f.parity = IF k.data > 0 /\ k.parity > 0 THEN k.parity ELSE 3
  BY FilledFields
<1>4. DefaultKCP.data = 10 /\ DefaultKCP.parity = 3
  BY DEF DefaultKCP
<1>5. u \in 512 .. 1400
  BY <1>1 DEF KCP
<1> HIDE DEF f, u, n
<1>6. /\ n.data = f.data /\ n.parity = f.parity /\ n.mtu = u
      /\ [n EXCEPT !.mtu = 0] = [f EXCEPT !.mtu = 0]
  <2>1. n.data = f.data /\ n.parity = f.parity /\ n.mtu = u
    BY <1>1, <1>2, Zenon DEF KCP
  <2>2. [n EXCEPT !.mtu = 0] = [f EXCEPT !.mtu = 0]
    BY <1>1, <1>2 DEF KCP
  <2> QED BY <2>1, <2>2
<1>7. /\ n.data > 0 /\ n.parity > 0 /\ n.mtu \in 512 .. 1400
      /\ <<n.data, n.parity>> \in {<<k.data, k.parity>>, <<DefaultKCP.data, DefaultKCP.parity>>}
  BY <1>1, <1>3, <1>4, <1>5, <1>6
<1> QED BY <1>2, <1>6, <1>7 DEF f, n

\* A MUX section of any numbers, put into any file.
LEMMA AnyMux ==
    ASSUME NEW c \in Server \cup Client, NEW m \in Mux
    PROVE  Normalized([c EXCEPT !.mux = m]).mux = NormMux(m)
<1>1. CASE c \in Server
  <2>1. [c EXCEPT !.mux = m] \in Server /\ [c EXCEPT !.mux = m].mux = m
    BY <1>1, Zenon DEF Server
  <2> QED BY <2>1, NormalizedServer
<1>2. CASE c \in Client
  <2>1. [c EXCEPT !.mux = m] \in Client /\ [c EXCEPT !.mux = m].mux = m
    BY <1>2, Zenon DEF Client
  <2> QED BY <2>1, NormalizedClient
<1> QED BY <1>1, <1>2

LEMMA AnyKCP ==
    ASSUME NEW c \in Server \cup Client, NEW k \in KCP
    PROVE  Normalized([c EXCEPT !.kcp = k, !.transport = "kcp"]).kcp = FillKCP(k)
<1> DEFINE e == [c EXCEPT !.kcp = k, !.transport = "kcp"]
<1>1. "kcp" \in Text /\ NonEmpty(Lowered("kcp"), "tls") = "kcp"
  <2>1. "kcp" \in Text /\ Lowered("kcp") = "kcp"
    BY Words, Texts DEF Transports
  <2> QED BY <2>1, Zenon DEF NonEmpty
<1>2. CASE c \in Server
  <2>1. e \in Server /\ e.kcp = k /\ e.transport = "kcp"
    BY <1>1, <1>2, Zenon DEF Server
  <2> HIDE DEF e
  <2>2. Normalized(e).kcp = FillKCP(k)
    BY <1>1, <2>1, NormalizedServer
  <2> QED BY <2>2 DEF e
<1>3. CASE c \in Client
  <2>1. e \in Client /\ e.kcp = k /\ e.transport = "kcp"
    BY <1>1, <1>3, Zenon DEF Client
  <2> HIDE DEF e
  <2>2. Normalized(e).kcp = FillKCP(k)
    BY <1>1, <2>1, NormalizedClient
  <2> QED BY <2>2 DEF e
<1> QED BY <1>2, <1>3

-----------------------------------------------------------------------------
(* Files.                                                                  *)

File == Server \cup Client

\* A draft that is being written would load, but for the wizard's with a name given
\* twice; one that is being edited need not.  Two callers are at work only after a mishap,
\* and so is a writer that finds the file it emptied written by another.
Sound ==
    /\ file \in File \cup {Cut, Torn}
    /\ FileLoads
    /\ \A i \in Caller : pc[i] = "edit" => draft[i] \in File
    /\ \A i \in Caller : pc[i] \in {"cut", "write"} =>
          draft[i] \in File /\ (Loads(draft[i]) \/ Repetitive(draft[i]))
    /\ draft = [i \in Caller |-> draft[i]]
    /\ \A i, j \in Caller : i # j /\ pc[i] # "idle" /\ pc[j] # "idle" => mishaps > 0
    /\ \A i \in Caller : pc[i] = "write" => file = Cut \/ mishaps > 0

LEMMA CutIsRefused == ~Loads(Cut) /\ ~Loads(Torn) /\ Cut # Torn
<1>1. Cut.role = "" /\ Torn.role = "torn"
  BY Zenon DEF Cut, Torn
<1>2. Cut.role # "server" /\ Cut.role # "client" /\ Torn.role # "server" /\ Torn.role # "client" /\ Cut.role # Torn.role
  BY <1>1, Zenon
<1> QED BY <1>2 DEF Loads

\* A step that leaves the file alone.  A caller that edits or writes went on or has
\* just begun to, with a draft fit for it; a writer that stops is a mishap, and so is a
\* caller that begins beside another.
LEMMA FileLeftAlone ==
    ASSUME Numbers, Sound, file' = file, mishaps' \in Nat, mishaps' >= mishaps, draft' = [i \in Caller |-> draft'[i]],
           \A i \in Caller : pc'[i] = "edit" => draft'[i] \in File,
           \A i \in Caller : pc'[i] \in {"cut", "write"} =>
               draft'[i] \in File /\ (Loads(draft'[i]) \/ Repetitive(draft'[i])),
           (\A i \in Caller : pc[i] = "write" => pc'[i] = "write") \/ mishaps' > 0,
           \A i \in Caller : pc'[i] = "write" => pc[i] = "write",
           \/ \A i \in Caller : pc'[i] # "idle" => pc[i] # "idle"
           \/ \E i \in Caller : \A j \in Caller : j # i => pc'[j] = "idle"
           \/ mishaps' > 0
    PROVE  Sound'
<1>0. mishaps \in Nat /\ (mishaps > 0 => mishaps' > 0)
  BY DEF Numbers
<1>1. FileLoads'
  <2>1. CASE file = Cut /\ (mishaps > 0 \/ \E i \in Caller : pc[i] = "write")
    BY <1>0, <2>1 DEF FileLoads
  <2>2. CASE file = Torn /\ mishaps > 0
    BY <1>0, <2>2 DEF FileLoads
  <2>3. CASE Repetitive(file)
    BY <2>3 DEF FileLoads
  <2>4. CASE Readable
    BY <2>4 DEF FileLoads, Readable
  <2> QED BY <2>1, <2>2, <2>3, <2>4 DEF Sound, FileLoads
<1>2. \A i, j \in Caller : i # j /\ pc'[i] # "idle" /\ pc'[j] # "idle" => mishaps' > 0
  BY <1>0 DEF Sound
<1>3. \A i \in Caller : pc'[i] = "write" => file' = Cut \/ mishaps' > 0
  BY <1>0 DEF Sound
<1> QED BY <1>1, <1>2, <1>3 DEF Sound

LEMMA SoundOver ==
    ASSUME Numbers, Sound, NEW i \in Caller, Finish(i), file' = file, mishaps' \in {mishaps, mishaps + 1},
           pc[i] # "write" \/ mishaps' = mishaps + 1
    PROVE  Sound'
<1>1. /\ pc' = [pc EXCEPT ![i] = "idle"] /\ draft' = [draft EXCEPT ![i] = None]
      /\ mishaps \in Nat
  BY DEF Finish, Forget, Numbers
<1>2. /\ \A j \in Caller : j # i => pc'[j] = pc[j] /\ draft'[j] = draft[j]
      /\ pc'[i] = "idle" /\ draft' = [j \in Caller |-> draft'[j]]
  BY <1>1 DEF Numbers, Sound
<1>3. mishaps' \in Nat /\ mishaps' >= mishaps
  BY <1>1
<1>4. (\A j \in Caller : pc[j] = "write" => pc'[j] = "write") \/ mishaps' > 0
  BY <1>1, <1>2
<1> QED BY <1>2, <1>3, <1>4, FileLeftAlone DEF Sound

LEMMA SoundGo ==
    ASSUME Numbers, Sound, NEW i \in Caller, NEW l \in Place \ {"write"}, Go(i, l), file' = file,
           pc[i] \notin {"idle", "write"},
           draft' = draft \/ \E d : draft' = [draft EXCEPT ![i] = d],
           l = "edit" => draft'[i] \in File,
           l = "cut" => draft'[i] \in File /\ (Loads(draft'[i]) \/ Repetitive(draft'[i]))
    PROVE  Sound'
<1>1. pc' = [pc EXCEPT ![i] = l] /\ mishaps' = mishaps /\ mishaps \in Nat
  BY DEF Go, Numbers
<1>2. /\ \A j \in Caller : j # i => pc'[j] = pc[j] /\ draft'[j] = draft[j]
      /\ pc'[i] = l /\ draft' = [j \in Caller |-> draft'[j]]
  BY <1>1 DEF Numbers, Sound
<1> QED BY <1>1, <1>2, FileLeftAlone DEF Sound

LEMMA SoundElsewhere ==
    ASSUME Numbers, Sound, UNCHANGED <<file, draft, pc>>, mishaps' = mishaps
    PROVE  Sound'
BY FileLeftAlone DEF Sound, Numbers

\* The pid file is removed.
LEMMA SoundUnlink ==
    ASSUME Numbers, Sound, NEW i \in Caller, pc[i] \notin {"idle", "write"}, NEW l \in {"idle", "start_read"},
           Unlink(i, l), Forget(i) \/ draft' = draft, file' = file, mishaps' = mishaps
    PROVE  Sound'
<1>1. /\ pc'[i] = l /\ mishaps \in Nat
      /\ \A j \in Caller : j # i => pc'[j] = IF pc[j] = "record" THEN "astray" ELSE pc[j]
  BY DEF Unlink, Numbers
<1>2. (\A j \in Caller : j # i => draft'[j] = draft[j]) /\ draft' = [j \in Caller |-> draft'[j]]
  BY DEF Forget, Sound
<1> QED BY <1>1, <1>2, FileLeftAlone DEF Sound

LEMMA SoundInit == Init => Sound
<1> SUFFICES ASSUME Init PROVE Sound
  OBVIOUS
<1>1. file \in File /\ Loads(file)
  BY FilesAssumption DEF FilesAssumption, Init, File
<1> QED BY <1>1 DEF Init, Sound, FileLoads, Readable

LEMMA NormalizedFile == ASSUME NEW c \in File PROVE Normalized(c) \in File
BY NormalizedServer, NormalizedClient DEF File

LEMMA SoundStep == Numbers /\ Sound /\ [Next]_vars => Sound'
<1> SUFFICES ASSUME Numbers, Sound, [Next]_vars PROVE Sound'
  OBVIOUS
<1>1. ASSUME NEW i \in Caller, pc[i] # "write", Over(i) PROVE Sound'
  BY <1>1, SoundOver DEF Over
<1>2. ASSUME NEW i \in Caller, NEW l \in Place \ {"edit", "cut", "write"}, Go(i, l), pc[i] \notin {"idle", "write"},
             UNCHANGED filevars
      PROVE  Sound'
  BY <1>2, SoundGo DEF filevars
<1>3. ASSUME NEW i \in Caller, NEW g \in Goals(i), Begin(i, g) PROVE Sound'
  <2>1. FirstStep(g) \in {"load", "stop_read", "status_read", "answer"}
    BY DEF FirstStep
  <2>2. /\ pc' = [pc EXCEPT ![i] = FirstStep(g)] /\ UNCHANGED <<file, draft>> /\ pc[i] = "idle"
        /\ mishaps' \in {mishaps, mishaps + 1} /\ mishaps \in Nat
    BY <1>3 DEF Begin, Mishap, filevars, Numbers
  <2>3. \A j \in Caller : pc'[j] \in {"edit", "cut", "write"} => pc'[j] = pc[j]
    BY <2>1, <2>2 DEF Numbers
  <2>4. \A j \in Caller : pc[j] = "write" => pc'[j] = "write"
    BY <2>1, <2>2 DEF Numbers
  <2>5. mishaps' > 0 \/ \A j \in Caller : j # i => pc'[j] = "idle"
    <3>1. CASE Idle
      BY <2>2, <3>1 DEF Idle, Numbers
    <3>2. CASE ~Idle
      <4>1. mishaps' = mishaps + 1
        BY <1>3, <3>2 DEF Begin, Mishap
      <4> QED BY <2>2, <4>1
    <3> QED BY <3>1, <3>2
  <2>6. mishaps' \in Nat /\ mishaps' >= mishaps
    BY <2>2
  <2> QED BY <2>2, <2>3, <2>4, <2>5, <2>6, FileLeftAlone DEF Sound
<1>4. ASSUME NEW i \in Caller, Load(i) PROVE Sound'
  <2>1. CASE Readable /\ draft' = [draft EXCEPT ![i] = Normalized(file)] /\ file' = file
             /\ \E l \in {"start_read", "restart_read", "edit"} : Go(i, l)
    <3>1. file \in File
      BY <2>1, CutIsRefused DEF Sound, Readable
    <3>2. draft'[i] \in File
      BY <2>1, <3>1, NormalizedFile DEF Sound
    <3> QED BY <1>4, <2>1, <3>2, SoundGo DEF Load, Place
  <2>2. CASE Over(i)
    BY <1>1, <1>4, <2>2 DEF Load
  <2> QED BY <1>4, <2>1, <2>2 DEF Load
<1>5. ASSUME NEW i \in Caller, ReadPid(i) PROVE Sound'
  <2>1. CASE ~Over(i)
    <3>1. /\ pc[i] \notin {"idle", "write"} /\ UNCHANGED filevars
          /\ \E l \in {"start_alive", "stop_alive", "restart_alive", "status_alive", "offer_alive"} : Go(i, l)
      BY <1>5, <2>1 DEF ReadPid
    <3> QED BY <1>2, <3>1 DEF Place
  <2> QED BY <1>1, <1>5, <2>1 DEF ReadPid
<1>6. ASSUME NEW i \in Caller, Status(i) \/ CheckRunning(i) \/ Spawn(i) \/ Restart(i) \/ Offer(i) \/ Terminate(i)
      PROVE  Sound'
  BY <1>1, <1>2, <1>6 DEF Status, CheckRunning, Spawn, Restart, Offer, Terminate, Place
<1>7. ASSUME NEW i \in Caller, pc[i] \notin {"idle", "write"}, Removed(i) PROVE Sound'
  BY <1>7, SoundUnlink DEF Removed, filevars
<1>8. ASSUME NEW i \in Caller, Truncate(i) \/ Record(i) \/ RecordAstray(i) PROVE Sound'
  BY <1>1, <1>2, <1>8, SoundOver DEF Truncate, Record, RecordAstray, Mishap, Place
<1>9. ASSUME NEW i \in Caller, CheckStale(i) \/ Poll(i) \/ Remove(i) \/ ForceKill(i) PROVE Sound'
  <2>1. CASE CheckStale(i)
    BY <1>2, <2>1, SoundUnlink DEF CheckStale, Place, filevars
  <2>2. CASE Poll(i) \/ Remove(i) \/ ForceKill(i)
    BY <1>2, <1>7, <2>2, SoundElsewhere DEF Poll, Remove, ForceKill, Place, filevars
  <2> QED BY <1>9, <2>1, <2>2
<1>10. ASSUME NEW i \in Caller, Quit(i) PROVE Sound'
  BY <1>10, SoundElsewhere DEF Quit, filevars
<1>11. ASSUME NEW i \in Caller, Killed(i) PROVE Sound'
  BY <1>11, SoundOver DEF Killed, Mishap
<1>12. ASSUME NEW i \in Caller, Edit(i) PROVE Sound'
  <2>1. PICK c \in Edits(draft[i], Names) : draft' = [draft EXCEPT ![i] = c]
    BY <1>12 DEF Edit
  <2>2. pc[i] = "edit" /\ draft[i] \in File /\ UNCHANGED <<file, pc, mishaps>>
    BY <1>12 DEF Edit, Sound
  <2>3. c \in File
    BY <2>2, EditsKeepSort DEF File
  <2>4. /\ \A j \in Caller : j # i => draft'[j] = draft[j]
        /\ draft'[i] = c /\ draft' = [j \in Caller |-> draft'[j]]
    BY <2>1 DEF Sound
  <2> QED BY <2>2, <2>3, <2>4, FileLeftAlone DEF Sound, Numbers
<1>13. ASSUME NEW i \in Caller, Save(i) PROVE Sound'
  <2>1. CASE MaySave(draft[i]) /\ Go(i, "cut") /\ UNCHANGED filevars
    <3>1. pc[i] = "edit" /\ draft[i] \in File
      BY <1>13 DEF Save, Sound
    <3>2. Loads(draft[i])
      BY <2>1, <3>1, ValidLoads DEF MaySave, File
    <3> QED BY <2>1, <3>1, <3>2, SoundGo DEF filevars, Place
  <2> QED BY <1>1, <1>13, <2>1 DEF Save
<1>14. ASSUME NEW i \in Caller, Answer(i) PROVE Sound'
  <2>1. ASSUME NEW d \in Given, NEW c \in {BuildServer(d), BuildClient(d)},
               draft' = [draft EXCEPT ![i] = c], Go(i, "cut"), file' = file
        PROVE  Sound'
    <3>1. d \in Answers
      BY AnswersAssumption DEF AnswersAssumption
    <3>2. d.scenario \in {1, 2}
      BY <3>1, AnswersAssumption DEF AnswersAssumption, WizardData
    <3>3. c \in File /\ (Loads(c) \/ Repetitive(c))
      BY <3>1, <3>2, WizardPair DEF File, Repetitive
    <3>4. draft'[i] = c
      BY <2>1 DEF Sound
    <3> QED BY <1>14, <2>1, <3>3, <3>4, SoundGo DEF Answer, Place
  <2> QED BY <1>1, <1>14, <2>1 DEF Answer
<1>15. ASSUME NEW i \in Caller, CutFile(i) PROVE Sound'
  <2>1. CASE file' = Cut /\ Go(i, "write") /\ UNCHANGED draft
    <3>1. pc[i] = "cut" /\ pc' = [pc EXCEPT ![i] = "write"] /\ mishaps' = mishaps
      BY <1>15, <2>1 DEF CutFile, Go
    <3>2. pc'[i] = "write" /\ \A j \in Caller : j # i => pc'[j] = pc[j]
      BY <3>1 DEF Numbers
    <3>3. FileLoads'
      BY <2>1, <3>2 DEF FileLoads
    <3> QED BY <2>1, <3>1, <3>2, <3>3 DEF Sound
  <2>2. CASE Mishap /\ Finish(i) /\ file' = file
    BY <2>2, SoundOver DEF Mishap
  <2> QED BY <1>15, <2>1, <2>2 DEF CutFile
<1>16. ASSUME NEW i \in Caller, WriteFile(i) PROVE Sound'
  <2>1. /\ pc[i] = "write" /\ draft[i] \in File /\ (Loads(draft[i]) \/ Repetitive(draft[i]))
        /\ file = Cut \/ mishaps > 0
    BY <1>16 DEF WriteFile, Sound
  <2>2. CASE /\ file' = draft[i] \/ (file # Cut /\ file' = Torn)
             /\ Finish(i) \/ \E l \in {"offer_read", "start_read"} : Go(i, l) /\ UNCHANGED draft
             /\ mishaps' = mishaps
    <3>1. FileLoads'
      BY <2>1, <2>2 DEF FileLoads, Readable
    <3>2. PICK l \in {"idle", "offer_read", "start_read"} : pc' = [pc EXCEPT ![i] = l]
      BY <2>2 DEF Finish, Go
    <3>3. draft' = draft \/ draft' = [draft EXCEPT ![i] = None]
      BY <2>2 DEF Finish, Forget
    <3>4. /\ \A j \in Caller : j # i => pc'[j] = pc[j] /\ draft'[j] = draft[j]
          /\ pc'[i] = l /\ draft' = [j \in Caller |-> draft'[j]]
      BY <3>2, <3>3 DEF Numbers, Sound
    <3>5. \A j \in Caller : pc'[j] = "write" => mishaps' > 0
      BY <2>1, <2>2, <3>4 DEF Sound
    <3>6. \A j, k \in Caller : j # k /\ pc'[j] # "idle" /\ pc'[k] # "idle" => mishaps' > 0
      BY <2>1, <2>2, <3>4 DEF Sound
    <3> QED BY <2>1, <2>2, <3>1, <3>4, <3>5, <3>6 DEF Sound
  <2>3. CASE Mishap /\ Finish(i) /\ file' = file
    BY <2>3, SoundOver DEF Mishap
  <2> QED BY <1>16, <2>2, <2>3 DEF WriteFile, Go
<1>17. ASSUME NEW p \in Pid, TunnelExits(p) \/ PidReused(p) \/ StrangerExits(p) PROVE Sound'
  BY <1>17, SoundElsewhere DEF TunnelExits, PidReused, StrangerExits, filevars
<1>18. CASE UNCHANGED vars
  BY <1>18, SoundElsewhere DEF vars
<1> QED
  BY <1>3, <1>4, <1>5, <1>6, <1>8, <1>9, <1>10, <1>11, <1>12, <1>13, <1>14, <1>15, <1>16, <1>17, <1>18
     DEF Next, Step

\* For any files, edits, answers and callers: the configuration file is cut short only
\* while somebody writes it or after a mishap, torn only after one, and otherwise loads or
\* is the wizard's with a name given twice (saveConfig, writeFile).
THEOREM FilesStayLoadable == Spec => []FileLoads
<1>1. Sound => FileLoads
  BY DEF Sound
<1> QED BY <1>1, NumbersInit, NumbersStep, SoundInit, SoundStep, PTL DEF Spec

\* For any answers to the wizard's questions: both files load and the two ends reach each
\* other exactly if public names differ, the address has the port that is dialled and the
\* path arrives as it was written (buildServerTOML, buildClientTOML).
THEOREM WizardPairsFit == Spec => []WizardPairFits
<1>1. WizardPairFits
  BY WizardPair DEF WizardPairFits, Sensible
<1> QED BY <1>1, PTL

\* For any numbers of a mux section: smux accepts what Config makes of them unless both
\* windows are 2 GiB or more (mux.Config, config.normalize).
THEOREM MuxSettingsAreAccepted == Spec => []MuxAccepted
<1>1. Sound => MuxAccepted
  <2> SUFFICES ASSUME Sound, Readable, NEW e \in BOOLEAN, NEW k \in MuxNumbers, NEW st \in MuxNumbers, NEW re \in MuxNumbers
               PROVE  LET m == [enable |-> e, keepalive |-> k, stream |-> st, receive |-> re]
                          n == Normalized([file EXCEPT !.mux = m]).mux
                      IN SmuxAccepts(MuxConfig(n)) <=> ~(n.stream >= 2048 /\ n.receive >= 2048)
    BY DEF MuxAccepted
  <2> DEFINE m == [enable |-> e, keepalive |-> k, stream |-> st, receive |-> re]
             n == Normalized([file EXCEPT !.mux = m]).mux
  <2>1. file \in File
    BY CutIsRefused DEF Sound, Readable
  <2>2. m \in Mux
    BY SectionsAssumption DEF SectionsAssumption, Mux
  <2> HIDE DEF m
  <2>3. n \in Mux
    BY <2>1, <2>2, AnyMux, Sections DEF File
  <2> HIDE DEF n
  <2>4. SmuxAccepts(MuxConfig(n)) <=> ~(n.stream >= 2048 /\ n.receive >= 2048)
    BY <2>3, SmuxTakes
  <2> QED BY <2>4 DEF m, n
<1> QED BY <1>1, NumbersInit, NumbersStep, SoundInit, SoundStep, PTL DEF Spec

\* For any numbers of a KCP section: both FEC numbers are the user's or both are the
\* defaults, and normKCP changes nothing that Load filled in but the MTU.
THEOREM FecIsCoupled == Spec => []FecAgrees
<1>1. Sound => FecAgrees
  <2> SUFFICES ASSUME Sound, file \notin {Cut, Torn}, NEW d \in KCPNumbers, NEW r \in KCPNumbers, NEW u \in KCPNumbers
               PROVE  LET k == [mode |-> "", data |-> d, parity |-> r, mtu |-> u, window |-> 0]
                          c == Normalized([file EXCEPT !.kcp = k, !.transport = "kcp"])
                          n == NormKCP(c.kcp)
                      IN /\ n.data > 0 /\ n.parity > 0 /\ n.mtu \in 512 .. 1400
                         /\ <<n.data, n.parity>> \in {<<d, r>>, <<DefaultKCP.data, DefaultKCP.parity>>}
                         /\ n = NormKCP(k) /\ [n EXCEPT !.mtu = 0] = [c.kcp EXCEPT !.mtu = 0]
    BY Zenon DEF FecAgrees
  <2> DEFINE blank == ""
             k == [mode |-> blank, data |-> d, parity |-> r, mtu |-> u, window |-> 0]
             f == Normalized([file EXCEPT !.kcp = k, !.transport = "kcp"]).kcp
  <2>1. file \in File /\ blank \in Text
    BY Words DEF Sound
  <2> HIDE DEF blank
  <2>2. k \in KCP /\ k.data = d /\ k.parity = r
    BY <2>1, SectionsAssumption DEF SectionsAssumption, KCP
  <2> HIDE DEF k
  <2>3. f = FillKCP(k)
    BY <2>1, <2>2, AnyKCP DEF File
  <2> HIDE DEF f
  <2>4. /\ NormKCP(f).data > 0 /\ NormKCP(f).parity > 0 /\ NormKCP(f).mtu \in 512 .. 1400
        /\ <<NormKCP(f).data, NormKCP(f).parity>> \in {<<d, r>>, <<DefaultKCP.data, DefaultKCP.parity>>}
        /\ NormKCP(f) = NormKCP(k) /\ [NormKCP(f) EXCEPT !.mtu = 0] = [f EXCEPT !.mtu = 0]
    BY <2>2, <2>3, FecOfAnySection
  <2> QED BY <2>4, Zenon DEF f, k, blank
<1> QED BY <1>1, NumbersInit, NumbersStep, SoundInit, SoundStep, PTL DEF Spec
====

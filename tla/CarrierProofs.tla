---------------------------- MODULE CarrierProofs ----------------------------
(***************************************************************************)
(* Proofs about the listeners of internal/transport for any number of        *)
(* connections, workers and any capacity of connCh: they keep their slots    *)
(* and connections, and each implements Listener.  The refinement compares   *)
(* the set of connections on their way and the set of those ready before and *)
(* after each step; the last lemmas on the abstract side turn sets into the  *)
(* numbers Listener counts with.                                             *)
(***************************************************************************)
EXTENDS Carrier, FiniteSetTheorems, TLAPS

Place == {"away", "queued", "hand", "setup", "offer", "ready", "given"}

Shape ==
    /\ kind \in {"async", "ws", "kcp"}
    /\ sock \in {"none", "open", "closed"}
    /\ done \in BOOLEAN
    /\ loop \in {"accept", "acquire", "backoff", "push", "failed", "exit"}
    /\ at \in [Conn -> Place]
    /\ sem \in Int
    /\ closer \in {"idle", "socket", "drain", "closed"}

\* What the accept loop and Close say of each other.
Stages ==
    /\ loop \in {"acquire", "backoff"} => kind = "async"
    /\ loop \in {"push", "failed"} => kind = "kcp"
    /\ done <=> closer # "idle"
    /\ sock = "none" => closer = "idle"
    /\ closer = "socket" => sock = "open"
    /\ closer \in {"drain", "closed"} => sock = "closed"
    /\ sock = "closed" => closer \in {"drain", "closed"}

IInv == Shape /\ Stages /\ NoneLost /\ SlotsOfWorkers /\ DrainedButLate

-----------------------------------------------------------------------------
(* Slots and connections.                                                  *)

Working == In("setup") \cup In("offer")

LEMMA Finite ==
    /\ IsFiniteSet(Conn) /\ IsFiniteSet(Working) /\ IsFiniteSet(Coming) /\ IsFiniteSet(In("ready"))
    /\ Cardinality(Conn) \in Nat /\ Cardinality(Working) \in Nat
    /\ Cardinality(Coming) \in Nat /\ Cardinality(In("ready")) \in Nat
<1>1. IsFiniteSet(Conn)
  BY CarrierAssumption
<1>2. Working \subseteq Conn /\ Coming \subseteq Conn /\ In("ready") \subseteq Conn
  BY DEF Working, In, Coming
<1> QED BY <1>1, <1>2, FS_Subset, FS_CardinalityType

\* One connection enters or leaves the hands of the goroutines, or none does.
LEMMA SlotsFollow ==
    ASSUME SlotsOfWorkers, kind' = kind, NEW c \in Conn,
           \/ Working' = Working /\ sem' = sem
           \/ kind # "async" /\ sem' = sem
           \/ kind = "async" /\ c \notin Working /\ Working' = Working \cup {c} /\ sem' = sem + 1
           \/ kind = "async" /\ c \in Working /\ Working' = Working \ {c} /\ sem' = sem - 1
    PROVE  SlotsOfWorkers'
<1>1. Cardinality(Working \cup {c}) = IF c \in Working THEN Cardinality(Working)
                                                       ELSE Cardinality(Working) + 1
  BY Finite, FS_AddElement
<1>2. Cardinality(Working \ {c}) = IF c \in Working THEN Cardinality(Working) - 1
                                                    ELSE Cardinality(Working)
  BY Finite, FS_RemoveElement
<1>3. kind = "async" => sem = Cardinality(Working)
  BY DEF SlotsOfWorkers, Working
<1>4. kind # "async" => sem = 0
  BY DEF SlotsOfWorkers
<1>5. SlotsOfWorkers' <=> sem' = IF kind = "async" THEN Cardinality(Working') ELSE 0
  BY DEF SlotsOfWorkers, Working
<1> QED BY <1>1, <1>2, <1>3, <1>4, <1>5

LEMMA InvInit == Init => IInv
<1> SUFFICES ASSUME Init PROVE IInv
  OBVIOUS
<1>1. Working = {} /\ In("ready") = {} /\ In("away") = Conn
  BY DEF Init, Working, In
<1>2. Shape /\ Stages
  <2>1. kind \in {"async", "ws", "kcp"}
    BY CarrierAssumption DEF Init
  <2>2. at \in [Conn -> Place] /\ sem \in Int
    BY DEF Init, Place
  <2> QED BY <2>1, <2>2 DEF Init, Shape, Stages
<1>3. NoneLost /\ SlotsOfWorkers /\ DrainedButLate
  <2>1. NoneLost /\ DrainedButLate
    BY <1>1 DEF Init, NoneLost, DrainedButLate
  <2>2. sem = 0 /\ Cardinality(Working) = 0
    BY <1>1, FS_EmptySet DEF Init
  <2> QED BY <2>1, <2>2 DEF SlotsOfWorkers, Working
<1> QED BY <1>2, <1>3 DEF IInv

\* Steps of the loop, of Close and of the caller that move no connection.
LEMMA StillStep ==
    ASSUME IInv, \/ Listen \/ LoopError \/ LoopBackoff \/ LoopEnds \/ LoopFails
                 \/ Call \/ AcceptErrClosed \/ Close \/ DrainEnds \/ UNCHANGED vars
    PROVE  IInv'
<1>1. UNCHANGED <<kind, at, open, sem, late>>
  BY DEF Listen, LoopError, LoopBackoff, LoopEnds, LoopFails, Call, AcceptErrClosed, Close,
     DrainEnds, vars
<1>2. Shape' /\ Stages'
  <2> USE DEF IInv, Shape, Stages
  <2>1. CASE Listen \/ Call \/ AcceptErrClosed \/ UNCHANGED vars
    BY <2>1 DEF Listen, Call, AcceptErrClosed, vars
  <2>2. CASE LoopError \/ LoopBackoff
    BY <2>2 DEF LoopError, LoopBackoff
  <2>2a. CASE LoopEnds
    BY <2>2a DEF LoopEnds
  <2>2b. CASE LoopFails
    BY <2>2b DEF LoopFails
  <2>3. CASE Close \/ DrainEnds
    BY <2>3 DEF Close, DrainEnds
  <2> QED BY <2>1, <2>2, <2>2a, <2>2b, <2>3
<1>3. NoneLost' /\ SlotsOfWorkers'
  BY <1>1 DEF IInv, NoneLost, SlotsOfWorkers, In
<1>4. closer' = "closed" => closer = "closed" \/ In("ready") = {}
  BY IInv, SMTT(30) DEF Listen, LoopError, LoopBackoff, LoopEnds, LoopFails, Call, AcceptErrClosed, Close,
     DrainEnds, vars
<1>5. DrainedButLate'
  BY <1>1, <1>4 DEF IInv, DrainedButLate, In
<1> QED BY <1>2, <1>3, <1>5 DEF IInv

\* Steps that move one connection to another place.
LEMMA MoveStep ==
    ASSUME IInv, NEW c \in Conn,
           \/ Arrive(c) \/ LoopAccept(c) \/ Acquire(c) \/ SetupOk(c) \/ Offered(c) \/ Pushed(c)
           \/ AcceptOne(c)
    PROVE  IInv'
<1> USE DEF IInv
<1>1. PICK p \in {"queued", "hand", "setup", "offer", "ready", "given"} :
          Put(c, p) /\ open' = open \cup (IF at[c] = "away" THEN {c} ELSE {})
  BY DEF Arrive, LoopAccept, Acquire, SetupOk, Offered, Pushed, AcceptOne, Enqueue
<1>2. at'[c] = p /\ \A d \in Conn \ {c} : at'[d] = at[d]
  BY <1>1 DEF Put, Shape
<1>3. Shape' /\ Stages'
  <2>1. at' \in [Conn -> Place]
    BY <1>1 DEF Put, Shape, Place
  <2> QED
    BY <2>1 DEF Shape, Stages, Arrive, LoopAccept, Acquire, SetupOk, Offered, Pushed, AcceptOne,
       Enqueue, LeaveSlot
<1>4. NoneLost'
  BY <1>1, <1>2 DEF NoneLost, In
<1>5. SlotsOfWorkers'
  <2>1. CASE Arrive(c) \/ Pushed(c) \/ AcceptOne(c) \/ SetupOk(c)
    <3>1. /\ UNCHANGED <<kind, sem>>
          /\ at[c] \in {"setup", "offer"} <=> at'[c] \in {"setup", "offer"}
      BY <2>1, <1>2 DEF Arrive, Pushed, AcceptOne, SetupOk, Enqueue, Put, Shape
    <3>2. Working' = Working
      BY <1>2, <3>1 DEF Working, In
    <3> QED BY <3>1, <3>2, SlotsFollow
  <2>2. CASE LoopAccept(c)
    <3>1. /\ UNCHANGED <<kind, sem>> /\ at[c] = "queued"
          /\ kind = "async" => at'[c] = "hand"
      BY <2>2 DEF LoopAccept, Put, Shape
    <3>2. kind = "async" => Working' = Working
      BY <1>2, <3>1 DEF Working, In
    <3> QED BY <3>1, <3>2, SlotsFollow
  <2>3. CASE Acquire(c)
    <3>1. kind = "async" /\ kind' = kind /\ sem' = sem + 1 /\ at[c] = "hand" /\ at'[c] = "setup"
      BY <2>3 DEF Acquire, Put, Shape, Stages
    <3>2. c \notin Working /\ Working' = Working \cup {c}
      BY <1>2, <3>1 DEF Working, In
    <3> QED BY <3>1, <3>2, SlotsFollow
  <2>4. CASE Offered(c)
    <3>1. /\ kind' = kind /\ sem' = (IF kind = "async" THEN sem - 1 ELSE sem)
          /\ at[c] = "offer" /\ at'[c] = "ready"
      BY <2>4 DEF Offered, Enqueue, LeaveSlot, Put, Shape
    <3>2. c \in Working /\ Working' = Working \ {c}
      BY <1>2, <3>1 DEF Working, In
    <3> QED BY <3>1, <3>2, SlotsFollow
  <2> QED BY <2>1, <2>2, <2>3, <2>4
<1>6. DrainedButLate'
  <2>1. CASE Offered(c) \/ Pushed(c)
    <3>1. /\ UNCHANGED <<kind, closer, done>> /\ In("ready")' \subseteq In("ready") \cup {c}
          /\ done => late' = late \cup {c}
      BY <2>1, <1>2 DEF Offered, Pushed, Enqueue, In
    <3> QED BY <3>1 DEF DrainedButLate, Stages
  <2>2. CASE Arrive(c) \/ LoopAccept(c) \/ Acquire(c) \/ SetupOk(c) \/ AcceptOne(c)
    <3>1. /\ UNCHANGED <<kind, closer>> /\ In("ready")' \subseteq In("ready") \ {c}
          /\ late \ {c} \subseteq late'
      <4>1. at'[c] # "ready"
        BY <2>2 DEF Arrive, LoopAccept, Acquire, SetupOk, AcceptOne, Put, Shape
      <4> QED BY <4>1, <1>2, <2>2 DEF Arrive, LoopAccept, Acquire, SetupOk, AcceptOne, In
    <3> QED BY <3>1 DEF DrainedButLate
  <2> QED BY <2>1, <2>2
<1> QED BY <1>3, <1>4, <1>5, <1>6

\* Steps that close connections.
LEMMA DropStep ==
    ASSUME IInv, NEW c \in Conn,
           \/ LoopStops(c) \/ SetupFails(c) \/ OfferEnds(c) \/ GivenEnds(c) \/ Drain(c)
    PROVE  IInv'
<1> USE DEF IInv
<1>1. Drop({c})
  BY DEF LoopStops, SetupFails, OfferEnds, GivenEnds, Drain
<1>2. at'[c] = "away" /\ (\A d \in Conn \ {c} : at'[d] = at[d]) /\ open' = open \ {c}
  BY <1>1 DEF Drop, Shape
<1>3. Shape' /\ Stages'
  <2>1. at' \in [Conn -> Place]
    BY <1>1 DEF Drop, Shape, Place
  <2> QED
    BY <2>1 DEF Shape, Stages, LoopStops, SetupFails, OfferEnds, GivenEnds, Drain, LeaveSlot
<1>4. NoneLost'
  BY <1>2 DEF NoneLost, In
<1>5. SlotsOfWorkers'
  <2>1. CASE LoopStops(c) \/ GivenEnds(c) \/ Drain(c)
    <3>1. UNCHANGED <<kind, sem>> /\ at[c] \notin {"setup", "offer"}
      BY <2>1 DEF LoopStops, GivenEnds, Drain
    <3>2. Working' = Working
      BY <1>2, <3>1 DEF Working, In
    <3> QED BY <3>1, <3>2, SlotsFollow
  <2>2. CASE SetupFails(c) \/ OfferEnds(c)
    <3>1. /\ kind' = kind /\ sem' = (IF kind = "async" THEN sem - 1 ELSE sem)
          /\ at[c] \in {"setup", "offer"}
      BY <2>2 DEF SetupFails, OfferEnds, LeaveSlot
    <3>2. c \in Working /\ Working' = Working \ {c}
      BY <1>2, <3>1 DEF Working, In
    <3> QED BY <3>1, <3>2, SlotsFollow
  <2> QED BY <2>1, <2>2
<1>6. DrainedButLate'
  <2>1. /\ UNCHANGED <<kind, closer>> /\ In("ready")' \subseteq In("ready") \ {c}
        /\ late \ {c} \subseteq late'
    BY <1>2 DEF LoopStops, SetupFails, OfferEnds, GivenEnds, Drain, In
  <2> QED BY <2>1 DEF DrainedButLate
<1> QED BY <1>3, <1>4, <1>5, <1>6

LEMMA CloseSocketStep == ASSUME IInv, CloseSocket PROVE IInv'
<1> USE DEF IInv
<1> DEFINE D == CASE kind = "async" -> In("queued") [] kind = "ws" -> In("queued") \cup In("setup")
                  [] kind = "kcp" -> {}
<1>1. /\ closer = "socket" /\ sock' = "closed" /\ Drop(D)
      /\ closer' = (IF kind = "kcp" THEN "drain" ELSE "closed")
      /\ UNCHANGED <<kind, done, loop, sem, late, caller>>
  BY DEF CloseSocket
<1>2. \A c \in Conn : at'[c] = IF c \in D THEN "away" ELSE at[c]
  BY <1>1 DEF Drop, Shape
<1>3. Shape' /\ Stages'
  <2>1. at' \in [Conn -> Place]
    BY <1>1 DEF Drop, Shape, Place
  <2> QED BY <1>1, <2>1 DEF Shape, Stages
<1>4. NoneLost'
  BY <1>1, <1>2 DEF NoneLost, In, Drop
<1>5. SlotsOfWorkers'
  <2>1. CASE kind = "async"
    <3>1. Working' = Working
      BY <1>2, <2>1 DEF Working, In
    <3> QED BY <1>1, <3>1, <2>1 DEF SlotsOfWorkers, Working
  <2>2. CASE kind # "async"
    BY <1>1, <2>2 DEF SlotsOfWorkers
  <2> QED BY <2>1, <2>2
<1>6. DrainedButLate'
  BY <1>1 DEF DrainedButLate
<1> QED BY <1>3, <1>4, <1>5, <1>6

LEMMA InvStep == IInv /\ [Next]_vars => IInv'
BY StillStep, MoveStep, DropStep, CloseSocketStep DEF Next

LEMMA Inductive == Spec => []IInv
<1> QED BY InvInit, InvStep, PTL DEF Spec

\* No error path of asyncListener keeps a slot of sem or gives one back twice.
THEOREM WorkersKeepTheirSlots == Spec => []SlotsOfWorkers
<1>1. IInv => SlotsOfWorkers
  BY DEF IInv
<1> QED BY <1>1, Inductive, PTL

\* A connection that leaves a listener's hands has been closed or handed to Accept.
THEOREM ConnectionsAreClosed == Spec => []NoneLost
<1>1. IInv => NoneLost
  BY DEF IInv
<1> QED BY <1>1, Inductive, PTL

\* Of the KCP sessions in connCh only those put there after done escape the drain.
THEOREM DrainMissesOnlyTheLate == Spec => []DrainedButLate
<1>1. IInv => DrainedButLate
  BY DEF IInv
<1> QED BY <1>1, Inductive, PTL

-----------------------------------------------------------------------------
(* Refinement: what a change of the two sets is to Listener.               *)

LEMMA SomeFewer ==
    ASSUME Coming' \subseteq Coming, In("ready")' = In("ready"), ListenerState' = ListenerState
    PROVE  [L!ListenerNext]_L!lnVars
<1>1. CASE Coming' = Coming
  BY <1>1 DEF L!lnVars
<1>2. CASE Coming' # Coming
  <2>1. /\ Cardinality(Coming') <= Cardinality(Coming)
        /\ Cardinality(Coming') # Cardinality(Coming)
        /\ IsFiniteSet(Coming')
    BY <1>2, Finite, FS_Subset
  <2>2. Cardinality(Coming') \in 0 .. (Cardinality(Coming) - 1) /\ Cardinality(Coming) > 0
    BY <2>1, Finite, FS_CardinalityType
  <2> QED BY <2>2 DEF L!ListenerNext, L!SetupsEnd, L!FewerComing
<1> QED BY <1>1, <1>2

LEMMA OneReady ==
    ASSUME NEW c \in Coming \ In("ready"), Coming' = Coming \ {c},
           In("ready")' = In("ready") \cup {c}, ListenerState' = ListenerState
    PROVE  [L!ListenerNext]_L!lnVars
<1>1. /\ Cardinality(Coming \ {c}) = Cardinality(Coming) - 1
      /\ Cardinality(In("ready") \cup {c}) = Cardinality(In("ready")) + 1
  BY Finite, FS_RemoveElement, FS_AddElement
<1>2. Cardinality(Coming) > 0
  BY Finite, FS_EmptySet
<1> QED BY <1>1, <1>2 DEF L!ListenerNext, L!SetUp

LEMMA OneTaken ==
    ASSUME NEW c \in In("ready"), In("ready")' = In("ready") \ {c}, Coming' = Coming,
           ListenerState' = ListenerState
    PROVE  [L!ListenerNext]_L!lnVars
<1>1. Cardinality(In("ready") \ {c}) = Cardinality(In("ready")) - 1
  BY Finite, FS_RemoveElement
<1>2. Cardinality(In("ready")) > 0
  BY Finite, FS_EmptySet
<1> QED BY <1>1, <1>2 DEF L!ListenerNext, L!AcceptReady

LEMMA OneMore ==
    ASSUME NEW c \in Conn \ (Coming \cup In("ready")), Coming' = Coming \cup {c},
           In("ready")' = In("ready"), ListenerState' = ListenerState,
           ListenerState \in {"open", "closing"}
    PROVE  [L!ListenerNext]_L!lnVars
<1>1. Cardinality(Coming \cup {c}) = Cardinality(Coming) + 1
  BY Finite, FS_AddElement
<1>2. Coming \cap In("ready") = {}
  BY DEF Coming, In
<1>3. Cardinality(Coming \cup In("ready")) = Cardinality(Coming) + Cardinality(In("ready"))
  <2>1. Cardinality(Coming \cup In("ready")) =
            Cardinality(Coming) + Cardinality(In("ready")) - Cardinality(Coming \cap In("ready"))
    BY Finite, FS_Union
  <2>2. Cardinality(Coming \cap In("ready")) = 0
    BY <1>2, FS_EmptySet
  <2>3. Cardinality(Coming) \in Nat /\ Cardinality(In("ready")) \in Nat
    BY Finite
  <2> QED BY <2>1, <2>2, <2>3
<1>4. Cardinality(Coming \cup In("ready")) < Cardinality(Conn)
  <2> DEFINE T == Coming \cup In("ready")
  <2>1. T \in SUBSET Conn /\ T # Conn
    BY DEF Coming, In
  <2> HIDE DEF T
  <2>2. IsFiniteSet(T) /\ Cardinality(T) <= Cardinality(Conn) /\ Cardinality(T) # Cardinality(Conn)
    BY <2>1, Finite, FS_Subset
  <2>3. Cardinality(T) \in Nat
    BY <2>2, FS_CardinalityType
  <2> QED BY <2>2, <2>3, Finite DEF T
<1> QED BY <1>1, <1>3, <1>4 DEF L!ListenerNext, L!Connect

LEMMA StateChanges ==
    ASSUME In("ready")' = In("ready"), Coming' \subseteq Coming,
           \/ ListenerState = "none" /\ ListenerState' = "open" /\ Coming' = Coming
           \/ ListenerState = "open" /\ ListenerState' = "closing" /\ Coming' = Coming
           \/ ListenerState = "closing" /\ ListenerState' = "closed"
    PROVE  [L!ListenerNext]_L!lnVars
<1>1. Cardinality(Coming') \in 0 .. Cardinality(Coming)
  BY Finite, FS_Subset, FS_CardinalityType
<1> QED BY <1>1 DEF L!ListenerNext, L!OpenListener, L!BeginClose, L!EndClose, L!FewerComing

-----------------------------------------------------------------------------
(* Refinement: what each step changes.                                     *)

LEMMA StepRefines == IInv /\ [Next]_vars => [L!ListenerNext]_L!lnVars
<1> SUFFICES ASSUME IInv, [Next]_vars PROVE [L!ListenerNext]_L!lnVars
  OBVIOUS
<1> USE DEF IInv
<1>1. CASE Listen \/ LoopFails \/ Close
  <2>1. /\ UNCHANGED at /\ (loop' = "exit" <=> loop = "exit")
        /\ \/ ListenerState = "none" /\ ListenerState' = "open"
           \/ ListenerState = "open" /\ ListenerState' = "closing"
    BY <1>1 DEF Listen, LoopFails, Close, ListenerState, Stages, Shape
  <2>2. Coming' = Coming /\ In("ready")' = In("ready")
    BY <2>1 DEF Coming, Stranded, In
  <2> QED BY <2>1, <2>2, StateChanges
<1>2. CASE CloseSocket
  <2>1. /\ \A c \in Conn : at'[c] \in {at[c], "away"} /\ (at[c] = "ready" => at'[c] = "ready")
        /\ loop' = loop
        /\ ListenerState = "closing" /\ ListenerState' = "closed"
    BY <1>2 DEF CloseSocket, Drop, In, ListenerState, Stages, Shape
  <2>2. Coming' \subseteq Coming /\ In("ready")' = In("ready")
    BY <2>1 DEF Coming, Stranded, In
  <2> QED BY <2>1, <2>2, StateChanges
<1>3. CASE LoopError \/ LoopBackoff \/ LoopEnds \/ Call \/ AcceptErrClosed \/ DrainEnds
  <2>1. UNCHANGED <<at, sock, done>> /\ (loop = "exit" => loop' = "exit")
    BY <1>3 DEF LoopError, LoopBackoff, LoopEnds, Call, AcceptErrClosed, DrainEnds
  <2>2. Coming' \subseteq Coming /\ In("ready")' = In("ready") /\ ListenerState' = ListenerState
    BY <2>1 DEF Coming, Stranded, In, ListenerState
  <2> QED BY <2>2, SomeFewer
<1>4. ASSUME NEW c \in Conn, Arrive(c)
      PROVE  [L!ListenerNext]_L!lnVars
  <2>1. /\ at[c] = "away" /\ at'[c] = "queued" /\ loop' = loop
        /\ \A d \in Conn \ {c} : at'[d] = at[d]
        /\ ListenerState' = ListenerState /\ ListenerState \in {"open", "closing"}
    BY <1>4 DEF Arrive, Put, Shape, ListenerState
  <2>2. c \notin Coming \cup In("ready") /\ In("ready")' = In("ready")
    BY <2>1 DEF Coming, In
  <2>3. CASE loop = "exit"
    <3>1. Coming' = Coming
      BY <2>1, <2>3 DEF Coming, Stranded
    <3> QED BY <2>1, <2>2, <3>1, SomeFewer
  <2>4. CASE loop # "exit"
    <3>1. Coming' = Coming \cup {c}
      BY <2>1, <2>4 DEF Coming, Stranded
    <3> QED BY <2>1, <2>2, <3>1, OneMore
  <2> QED BY <2>3, <2>4
<1>5. ASSUME NEW c \in Conn, LoopAccept(c) \/ Acquire(c) \/ SetupOk(c)
      PROVE  [L!ListenerNext]_L!lnVars
  <2>1. /\ at[c] \in {"queued", "hand", "setup"} /\ at'[c] \in {"hand", "setup", "offer"}
        /\ at[c] = "queued" => loop # "exit"
        /\ \A d \in Conn \ {c} : at'[d] = at[d]
        /\ (loop' = "exit" <=> loop = "exit") /\ UNCHANGED <<sock, done>>
    BY <1>5 DEF LoopAccept, Acquire, SetupOk, Put, Shape
  <2>2. Coming' = Coming /\ In("ready")' = In("ready") /\ ListenerState' = ListenerState
    BY <2>1 DEF Coming, Stranded, In, ListenerState
  <2> QED BY <2>2, SomeFewer
<1>6. ASSUME NEW c \in Conn, LoopStops(c) \/ SetupFails(c) \/ OfferEnds(c)
      PROVE  [L!ListenerNext]_L!lnVars
  <2>1. /\ at[c] \in {"hand", "setup", "offer"} /\ at'[c] = "away"
        /\ \A d \in Conn \ {c} : at'[d] = at[d]
        /\ (loop = "exit" => loop' = "exit") /\ UNCHANGED <<sock, done>>
    BY <1>6 DEF LoopStops, SetupFails, OfferEnds, Drop, Shape
  <2>2. Coming' \subseteq Coming /\ In("ready")' = In("ready") /\ ListenerState' = ListenerState
    BY <2>1 DEF Coming, Stranded, In, ListenerState
  <2> QED BY <2>2, SomeFewer
<1>7. ASSUME NEW c \in Conn, Offered(c) \/ Pushed(c)
      PROVE  [L!ListenerNext]_L!lnVars
  <2>1. /\ at[c] \in {"hand", "offer"} /\ at'[c] = "ready"
        /\ \A d \in Conn \ {c} : at'[d] = at[d]
        /\ (loop' = "exit" <=> loop = "exit") /\ UNCHANGED <<sock, done>>
    BY <1>7 DEF Offered, Pushed, Enqueue, Put, Shape
  <2>2. /\ c \in Coming \ In("ready") /\ Coming' = Coming \ {c}
        /\ In("ready")' = In("ready") \cup {c} /\ ListenerState' = ListenerState
    BY <2>1 DEF Coming, Stranded, In, ListenerState
  <2> QED BY <2>2, OneReady
<1>8. ASSUME NEW c \in Conn, AcceptOne(c) \/ Drain(c)
      PROVE  [L!ListenerNext]_L!lnVars
  <2>1. /\ at[c] = "ready" /\ at'[c] \in {"given", "away"}
        /\ \A d \in Conn \ {c} : at'[d] = at[d]
        /\ loop' = loop /\ UNCHANGED <<sock, done>>
    BY <1>8 DEF AcceptOne, Drain, Put, Drop, Shape
  <2>2. /\ c \in In("ready") /\ Coming' = Coming
        /\ In("ready")' = In("ready") \ {c} /\ ListenerState' = ListenerState
    BY <2>1 DEF Coming, Stranded, In, ListenerState
  <2> QED BY <2>2, OneTaken
<1>9. ASSUME NEW c \in Conn, GivenEnds(c)
      PROVE  [L!ListenerNext]_L!lnVars
  <2>1. /\ at[c] = "given" /\ at'[c] = "away"
        /\ \A d \in Conn \ {c} : at'[d] = at[d]
        /\ loop' = loop /\ UNCHANGED <<sock, done>>
    BY <1>9 DEF GivenEnds, Drop, Shape
  <2>2. Coming' = Coming /\ In("ready")' = In("ready") /\ ListenerState' = ListenerState
    BY <2>1 DEF Coming, Stranded, In, ListenerState
  <2> QED BY <2>2, SomeFewer
<1>10. CASE UNCHANGED vars
  <2>1. Coming' = Coming /\ In("ready")' = In("ready") /\ ListenerState' = ListenerState
    BY <1>10 DEF vars, Coming, Stranded, In, ListenerState
  <2> QED BY <2>1, SomeFewer
<1> QED
  BY <1>1, <1>2, <1>3, <1>4, <1>5, <1>6, <1>7, <1>8, <1>9, <1>10 DEF Next

\* However many connections, workers and however small connCh: each of the three
\* listeners behaves like the abstract one tunnel.Server is verified against.
THEOREM ListenersImplementListener == Spec => Implements
<1>1. Init => L!ListenerInit
  <2> SUFFICES ASSUME Init PROVE L!ListenerInit
    OBVIOUS
  <2>1. Coming = {} /\ In("ready") = {} /\ ListenerState = "none"
    BY DEF Init, Coming, In, ListenerState
  <2> QED BY <2>1, FS_EmptySet DEF L!ListenerInit
<1> QED BY <1>1, StepRefines, Inductive, PTL DEF Spec, Implements, L!ListenerSpec
=============================================================================

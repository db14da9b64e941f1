--------------------------- MODULE ClientPoolProofs ---------------------------
(***************************************************************************)
(* Proofs about tunnel.Client for every number of workers, sessions, user   *)
(* connections and forwards.  The argument: a worker holds a session name   *)
(* exactly between mux.Client and sess.Close (HoldsWhileServing), no two     *)
(* hold the same one (OneOwner), what is alive or registered is held        *)
(* (HeldWhileLive, RegisteredWhileServed), and a worker leaves its loop only *)
(* once done is closed (ExitMeansDone).                                      *)
(***************************************************************************)
EXTENDS ClientPool, DispatchProofs

Pc == {"unborn", "top", "dial", "shake", "mux", "add", "accept", "remove", "close", "check",
       "sleep", "exit"}
Serving == {"add", "accept", "remove", "close"}

PoolShape ==
    /\ done \in BOOLEAN
    /\ run \in {"listen", "wait", "returned", "failed"}
    /\ wpc \in [Worker -> Pc]
    /\ conn \in [Worker -> BOOLEAN]
    /\ own \in [Worker -> Sess \cup {None}]

HoldsWhileServing == \A w \in Worker : own[w] # None <=> wpc[w] \in Serving
OneOwner == \A v, w \in Worker : own[v] = own[w] /\ own[v] # None => v = w
HeldWhileLive == \A s \in Live : \E w \in Worker : own[w] = s
RegisteredWhileServed ==
    \A s \in registered : \E w \in Worker : own[w] = s /\ wpc[w] \in {"accept", "remove"}
ExitMeansDone == \A w \in Worker : wpc[w] = "exit" => done
RunWaits == /\ run = "listen" => \A w \in Worker : wpc[w] = "unborn"
            /\ run = "returned" => \A w \in Worker : wpc[w] = "exit"

PoolInv ==
    /\ PoolShape
    /\ HoldsWhileServing
    /\ OneOwner
    /\ HeldWhileLive
    /\ RegisteredWhileServed
    /\ ConnsOwned
    /\ ExitMeansDone
    /\ RunWaits

IInv == SetInv /\ DispatchInv /\ StreamsInv /\ PoolInv

-----------------------------------------------------------------------------
(* What the invariant gives.                                               *)

LEMMA PoolInvImplies ==
    ASSUME SetInv, PoolInv
    PROVE  SessionsOwned /\ NothingLeftOnReturn
<1>1. ASSUME NEW w \in Worker, own[w] # None
      PROVE  Owners(own[w]) = {w}
  BY <1>1 DEF PoolInv, OneOwner, Owners
<1>2. SessionsOwned
  <2>1. ASSUME NEW s \in Live
        PROVE  \E w \in Worker : Owners(s) = {w} /\ wpc[w] \in Serving
    BY <1>1, SessAssumption DEF PoolInv, HeldWhileLive, HoldsWhileServing, Live
  <2>2. ASSUME NEW s \in registered
        PROVE  \E w \in Worker : Owners(s) = {w} /\ wpc[w] \in {"accept", "remove"}
    BY <1>1 DEF PoolInv, RegisteredWhileServed, HoldsWhileServing, Serving
  <2> QED BY <2>1, <2>2 DEF SessionsOwned, Serving
<1>3. NothingLeftOnReturn
  <2> SUFFICES ASSUME run = "returned"
               PROVE  done /\ Live = {} /\ registered = {} /\ \A w \in Worker : ~conn[w]
    BY DEF NothingLeftOnReturn
  <2>1. \A w \in Worker : wpc[w] = "exit" /\ own[w] = None /\ ~conn[w]
    BY DEF PoolInv, RunWaits, HoldsWhileServing, Serving, ConnsOwned
  <2>2. done
    BY <2>1, PoolAssumption DEF PoolInv, ExitMeansDone
  <2>3. Live = {}
    BY <2>1, SessAssumption DEF PoolInv, HeldWhileLive, Live
  <2>4. registered = {}
    BY <2>1 DEF PoolInv, RegisteredWhileServed
  <2> QED BY <2>1, <2>2, <2>3, <2>4
<1> QED BY <1>2, <1>3

LEMMA InitIInv == Init => IInv
<1> SUFFICES ASSUME Init PROVE IInv
  OBVIOUS
<1>1. SetInv /\ DispatchInv /\ StreamsInv
  BY SetInvInit, DispatchInvInit, StreamsInvInit DEF Init
<1>2. done = FALSE /\ registered = {} /\ Live = {}
  BY DEF Init, SetInit, DispatchInit, Live, IsClosed
<1>3. PoolInv
  BY <1>2 DEF Init, PoolInv, PoolShape, HoldsWhileServing, OneOwner, HeldWhileLive,
     RegisteredWhileServed, ConnsOwned, ExitMeansDone, RunWaits, Pc, Serving
<1> QED BY <1>1, <1>3 DEF IInv

-----------------------------------------------------------------------------
(* Steps.                                                                  *)

\* A step that moves one worker and leaves the sessions alone: the worker neither
\* gains nor loses a session.
LEMMA WorkerMoves ==
    ASSUME PoolInv, NEW w \in Worker, NEW l \in Pc \ {"unborn", "exit"},
           wpc[w] \notin Serving \cup {"unborn", "exit"}, l \notin Serving,
           Goto(w, l), UNCHANGED <<status, registered, done, run, own>>,
           conn' \in [Worker -> BOOLEAN], conn'[w] <=> l \in {"shake", "mux"},
           \A v \in Worker \ {w} : conn'[v] = conn[v]
    PROVE  PoolInv'
<1>1. PoolShape'
  BY DEF PoolInv, PoolShape, Goto
<1>2. ConnsOwned'
  BY DEF PoolInv, PoolShape, ConnsOwned, Goto
<1>3. HoldsWhileServing' /\ OneOwner'
  BY DEF PoolInv, PoolShape, HoldsWhileServing, OneOwner, Goto
<1>4. HeldWhileLive' /\ RegisteredWhileServed'
  BY DEF PoolInv, PoolShape, HeldWhileLive, RegisteredWhileServed, Goto, Live, IsClosed, Serving
<1>5. ExitMeansDone' /\ RunWaits'
  BY DEF PoolInv, PoolShape, ExitMeansDone, RunWaits, Goto
<1> QED BY <1>1, <1>2, <1>3, <1>4, <1>5 DEF PoolInv

LEMMA WorkerExits ==
    ASSUME PoolInv, NEW w \in Worker, done,
           wpc[w] \in {"top", "check", "sleep"}, Goto(w, "exit"),
           UNCHANGED <<status, registered, done, run, own, conn>>
    PROVE  PoolInv'
BY DEF PoolInv, PoolShape, HoldsWhileServing, OneOwner, HeldWhileLive, RegisteredWhileServed,
   ConnsOwned, ExitMeansDone, RunWaits, Goto, Live, IsClosed, Serving, Pc

\* Sessions fail, are closed by CloseAll, or nothing about them changes.
LEMMA PoolUntouched ==
    ASSUME PoolInv, UNCHANGED <<run, wpc, conn, own>>,
           done' \in BOOLEAN, done => done', registered' \subseteq registered,
           \A s \in Sess : IsClosed(s) => IsClosed(s)'
    PROVE  PoolInv'
BY DEF PoolInv, PoolShape, HoldsWhileServing, OneOwner, HeldWhileLive, RegisteredWhileServed,
   ConnsOwned, ExitMeansDone, RunWaits, Live

LEMMA WorkerPoolInv ==
    ASSUME IInv, NEW w \in Worker, WorkerNext(w)
    PROVE  PoolInv'
<1> USE DEF IInv
<1>1. CASE Top(w) \/ Check(w) \/ Wake(w) \/ SleepInterrupted(w)
  <2>1. /\ wpc[w] \in {"top", "check", "sleep"}
        /\ UNCHANGED <<status, registered, done, run, own, conn>>
        /\ \/ done /\ Goto(w, "exit")
           \/ \E l \in {"top", "sleep", "dial"} : Goto(w, l)
    BY <1>1 DEF Top, Check, Wake, SleepInterrupted, Stopping, setVars
  <2>2. CASE done /\ Goto(w, "exit")
    BY <2>1, <2>2, WorkerExits
  <2>3. CASE \E l \in {"top", "sleep", "dial"} : Goto(w, l)
    <3>1. PICK l \in {"top", "sleep", "dial"} : Goto(w, l)
      BY <2>3
    <3>2. ~conn[w] /\ conn' = conn /\ conn' \in [Worker -> BOOLEAN]
      BY <2>1 DEF PoolInv, ConnsOwned, PoolShape
    <3> QED BY <2>1, <3>1, <3>2, WorkerMoves DEF Serving, Pc
  <2> QED BY <2>1, <2>2, <2>3
<1>2. CASE DialOk(w) \/ DialFails(w) \/ ShakeOk(w) \/ SetupFails(w)
  <2>1. PICK l \in {"shake", "sleep", "mux"} :
            /\ Goto(w, l) /\ wpc[w] \in {"dial", "shake", "mux"}
            /\ conn'[w] <=> l \in {"shake", "mux"}
            /\ \A v \in Worker \ {w} : conn'[v] = conn[v]
            /\ conn' \in [Worker -> BOOLEAN]
            /\ UNCHANGED <<status, registered, done, run, own>>
    BY <1>2 DEF DialOk, DialFails, ShakeOk, SetupFails, DropConn, setVars, PoolInv, PoolShape,
       ConnsOwned
  <2> QED BY <2>1, WorkerMoves DEF Serving, Pc
<1>3. CASE MuxOk(w)
  <2>1. PICK s \in Sess : Unused(s) /\ NewSession(s) /\ own' = [own EXCEPT ![w] = s]
    BY <1>3 DEF MuxOk
  <2>2. /\ wpc[w] = "mux" /\ wpc' = [wpc EXCEPT ![w] = "add"]
        /\ conn' = [conn EXCEPT ![w] = FALSE]
        /\ UNCHANGED <<done, run>>
    BY <1>3 DEF MuxOk, Goto
  <2>3. status' = [status EXCEPT ![s] = "open"] /\ UNCHANGED registered
    BY <2>1 DEF NewSession
  <2>4. own[w] = None /\ \A v \in Worker : own[v] # s
    BY <2>1, <2>2 DEF Unused, PoolInv, HoldsWhileServing, Serving
  <2>5. PoolShape' /\ ConnsOwned' /\ ExitMeansDone' /\ RunWaits'
    BY <2>1, <2>2 DEF PoolInv, PoolShape, ConnsOwned, ExitMeansDone, RunWaits, Pc
  <2>6. HoldsWhileServing' /\ OneOwner'
    BY <2>1, <2>2, <2>4, SessAssumption DEF PoolInv, PoolShape, HoldsWhileServing, OneOwner, Serving
  <2>7. HeldWhileLive'
    <3>1. \A t \in Sess \ {s} : status'[t] = status[t]
      BY <2>3 DEF SetInv, SetShape
    <3>2. \A t \in Live' : t = s \/ t \in Live
      BY <3>1 DEF Live, IsClosed
    <3>3. own'[w] = s /\ \A v \in Worker \ {w} : own'[v] = own[v]
      BY <2>1 DEF PoolInv, PoolShape
    <3>4. None \notin Live
      BY SessAssumption DEF Live
    <3> QED BY <2>4, <3>2, <3>3, <3>4 DEF PoolInv, HeldWhileLive
  <2>8. RegisteredWhileServed'
    BY <2>1, <2>2, <2>3, <2>4 DEF PoolInv, PoolShape, RegisteredWhileServed
  <2> QED BY <2>5, <2>6, <2>7, <2>8 DEF PoolInv
<1>4. CASE AddSession(w)
  <2>1. /\ wpc[w] = "add" /\ wpc' = [wpc EXCEPT ![w] = "accept"]
        /\ registered' = registered \cup {own[w]}
        /\ UNCHANGED <<status, done, run, own, conn>>
    BY <1>4 DEF AddSession, Add, Goto
  <2> QED
    BY <2>1 DEF PoolInv, PoolShape, HoldsWhileServing, OneOwner, HeldWhileLive,
       RegisteredWhileServed, ConnsOwned, ExitMeansDone, RunWaits, Live, IsClosed, Serving, Pc
<1>5. CASE AcceptReverse(w)
  BY <1>5, PoolUntouched DEF AcceptReverse, AcceptStream, poolVars, IsClosed, PoolInv, PoolShape
<1>6. CASE AcceptFails(w)
  <2>1. /\ wpc[w] = "accept" /\ wpc' = [wpc EXCEPT ![w] = "remove"]
        /\ UNCHANGED <<status, registered, done, run, own, conn>>
    BY <1>6 DEF AcceptFails, Goto, setVars
  <2> QED
    BY <2>1 DEF PoolInv, PoolShape, HoldsWhileServing, OneOwner, HeldWhileLive,
       RegisteredWhileServed, ConnsOwned, ExitMeansDone, RunWaits, Live, IsClosed, Serving, Pc
<1>7. CASE RemoveSession(w)
  <2>1. /\ wpc[w] = "remove" /\ wpc' = [wpc EXCEPT ![w] = "close"]
        /\ registered' = registered \ {own[w]}
        /\ UNCHANGED <<status, done, run, own, conn>>
    BY <1>7 DEF RemoveSession, Remove, Goto
  <2> QED
    BY <2>1 DEF PoolInv, PoolShape, HoldsWhileServing, OneOwner, HeldWhileLive,
       RegisteredWhileServed, ConnsOwned, ExitMeansDone, RunWaits, Live, IsClosed, Serving, Pc
<1>8. CASE CloseSession(w)
  <2>1. /\ wpc[w] = "close" /\ wpc' = [wpc EXCEPT ![w] = "check"]
        /\ status' = [status EXCEPT ![own[w]] = "closed"]
        /\ own' = [own EXCEPT ![w] = None]
        /\ UNCHANGED <<registered, done, run, conn>>
    BY <1>8 DEF CloseSession, Goto
  <2>2. own[w] \in Sess
    BY <2>1 DEF PoolInv, PoolShape, HoldsWhileServing, Serving
  <2>3. PoolShape' /\ ConnsOwned' /\ ExitMeansDone' /\ RunWaits' /\ HoldsWhileServing' /\ OneOwner'
    BY <2>1 DEF PoolInv, PoolShape, HoldsWhileServing, OneOwner, ConnsOwned, ExitMeansDone,
       RunWaits, Serving, Pc
  <2>4. HeldWhileLive'
    BY <2>1, <2>2 DEF PoolInv, PoolShape, HeldWhileLive, Live, IsClosed, SetInv, SetShape
  <2>5. RegisteredWhileServed'
    BY <2>1 DEF PoolInv, PoolShape, RegisteredWhileServed
  <2> QED BY <2>3, <2>4, <2>5 DEF PoolInv
<1> QED
  BY <1>1, <1>2, <1>3, <1>4, <1>5, <1>6, <1>7, <1>8 DEF WorkerNext

LEMMA WorkerSetInv ==
    ASSUME IInv, NEW w \in Worker, WorkerNext(w)
    PROVE  SetInv' /\ UNCHANGED <<scan, upc, user>>
<1> USE DEF IInv
<1>1. CASE MuxOk(w)
  <2>1. PICK s \in Sess : Unused(s) /\ NewSession(s)
    BY <1>1 DEF MuxOk
  <2>2. /\ s \notin registered /\ status' = [status EXCEPT ![s] = "open"]
        /\ inbound' = [inbound EXCEPT ![s] = 0]
        /\ UNCHANGED <<streams, registered, closing, scan>>
    BY <2>1 DEF Unused, NewSession
  <2> QED BY <1>1, <2>2, SessionStep DEF MuxOk, SetInv, SetShape, IsClosed, dispatchVars
<1>2. CASE AddSession(w)
  <2>1. own[w] \in Sess
    BY <1>2 DEF AddSession, PoolInv, PoolShape, HoldsWhileServing, Serving
  <2> QED BY <1>2, <2>1, WriteStep DEF AddSession, Add, SetInv, SetShape, dispatchVars
<1>3. CASE RemoveSession(w)
  BY <1>3, WriteStep DEF RemoveSession, Remove, SetInv, SetShape, dispatchVars
<1>4. CASE CloseSession(w)
  <2>1. /\ status' = [status EXCEPT ![own[w]] = "closed"]
        /\ UNCHANGED <<streams, inbound, registered, closing, scan, upc, user>>
    BY <1>4 DEF CloseSession, dispatchVars
  <2>2. own[w] \in Sess
    BY <1>4 DEF CloseSession, PoolInv, PoolShape, HoldsWhileServing, Serving
  <2> QED BY <2>1, <2>2, SessionStep DEF SetInv, SetShape, IsClosed
<1>5. CASE AcceptReverse(w)
  <2>1. /\ inbound' = [inbound EXCEPT ![own[w]] = @ + 1]
        /\ UNCHANGED <<status, streams, registered, closing, scan, upc, user>>
    BY <1>5 DEF AcceptReverse, AcceptStream, dispatchVars
  <2>2. own[w] \in Sess
    BY <1>5 DEF AcceptReverse, PoolInv, PoolShape, HoldsWhileServing, Serving
  <2> QED BY <2>1, <2>2, SessionStep DEF SetInv, SetShape, IsClosed
<1>6. CASE \/ Top(w) \/ DialOk(w) \/ DialFails(w) \/ ShakeOk(w) \/ SetupFails(w)
           \/ AcceptFails(w) \/ Check(w) \/ Wake(w) \/ SleepInterrupted(w)
  <2>1. UNCHANGED <<setVars, dispatchVars>>
    BY <1>6 DEF Top, DialOk, DialFails, ShakeOk, SetupFails, AcceptFails, Check, Wake,
       SleepInterrupted
  <2> QED BY <2>1, SessionStep DEF setVars, dispatchVars, SetInv, SetShape, IsClosed
<1> QED
  BY <1>1, <1>2, <1>3, <1>4, <1>5, <1>6 DEF WorkerNext

\* Run, the listeners, Close and the outside world.
LEMMA RestInv ==
    ASSUME IInv,
           \/ \E f \in Forward : Bind(f) \/ Track(f)
           \/ BindFails \/ StartWorkers \/ RunReturns
           \/ CloseDone \/ CloseListeners \/ CloseAllSessions
           \/ \E s \in Sess : Fails(s) \/ InboundEnds(s)
    PROVE  SetInv' /\ PoolInv' /\ UNCHANGED <<scan, upc, user>>
<1> USE DEF IInv
<1>1. CASE (\E f \in Forward : Bind(f) \/ Track(f)) \/ CloseListeners \/ CloseDone
  <2>1. /\ UNCHANGED <<setVars, dispatchVars, run, wpc, conn, own>>
        /\ done' \in BOOLEAN /\ (done => done')
    BY <1>1 DEF Bind, Track, CloseListeners, CloseDone, PoolInv, PoolShape
  <2>2. SetInv'
    BY <2>1, SessionStep DEF setVars, SetInv, SetShape, IsClosed
  <2> QED BY <2>1, <2>2, PoolUntouched DEF setVars, dispatchVars, IsClosed
<1>2. CASE BindFails \/ StartWorkers \/ RunReturns
  <2>1. UNCHANGED <<setVars, done, dispatchVars, conn, own>>
    BY <1>2 DEF BindFails, StartWorkers, RunReturns
  <2>2. SetInv'
    BY <2>1, SessionStep DEF setVars, SetInv, SetShape, IsClosed
  <2>3. PoolInv'
    BY <1>2, <2>1 DEF BindFails, StartWorkers, RunReturns, setVars, PoolInv, PoolShape,
       HoldsWhileServing, OneOwner, HeldWhileLive, RegisteredWhileServed, ConnsOwned,
       ExitMeansDone, RunWaits, Live, IsClosed, Serving, Pc
  <2> QED BY <2>1, <2>2, <2>3 DEF setVars, dispatchVars
<1>3. CASE CloseAllSessions
  <2>1. /\ UNCHANGED <<streams, inbound, scan, done, dispatchVars, run, wpc, conn, own>>
        /\ registered' \subseteq registered /\ closing' \in BOOLEAN
        /\ status' \in [Sess -> {"open", "broken", "closed"}]
        /\ \A s \in Sess : IsClosed(s) => IsClosed(s)'
    BY <1>3 DEF CloseAllSessions, CloseAllBegin, CloseAllStep, CloseAllEnd, SetInv, SetShape,
       IsClosed
  <2>2. PoolInv'
    BY <2>1, PoolUntouched DEF PoolInv, PoolShape
  <2>3. SetInv'
    <3>1. CASE closing
      BY <2>1, <3>1, CloseAllStepInv DEF SetInv, SetShape
    <3>2. CASE ~closing
      <4>1. CloseAllBegin
        BY <1>3, <3>2 DEF CloseAllSessions, CloseAllStep, CloseAllEnd
      <4> QED BY <4>1, WriteStep DEF CloseAllBegin, SetInv, SetShape
    <3> QED BY <3>1, <3>2
  <2> QED BY <2>1, <2>2, <2>3 DEF dispatchVars
<1>4. CASE \E s \in Sess : Fails(s) \/ InboundEnds(s)
  <2>1. /\ UNCHANGED <<streams, registered, closing, scan, done, dispatchVars, poolVars>>
        /\ status' \in [Sess -> {"open", "broken", "closed"}]
        /\ inbound' \in [Sess -> Int]
        /\ \A s \in Sess : IsClosed(s) => IsClosed(s)'
    BY <1>4 DEF Fails, InboundEnds, BreakSession, KeepaliveClose, EndStream, SetInv, SetShape,
       IsClosed
  <2>2. SetInv'
    BY <2>1, SessionStep DEF SetInv, SetShape
  <2>3. PoolInv'
    BY <2>1, PoolUntouched DEF PoolInv, PoolShape, poolVars
  <2> QED BY <2>1, <2>2, <2>3 DEF dispatchVars
<1> QED
  BY <1>1, <1>2, <1>3, <1>4

\* Only the goroutines of users open and close streams on this side.
LEMMA OthersKeepStreams ==
    ASSUME \/ \E w \in Worker : WorkerNext(w)
           \/ \E f \in Forward : Bind(f) \/ Track(f)
           \/ BindFails \/ StartWorkers \/ RunReturns
           \/ CloseDone \/ CloseListeners \/ CloseAllSessions
           \/ \E s \in Sess : Fails(s) \/ InboundEnds(s)
    PROVE  UNCHANGED <<streams, upc, got>>
<1>1. CASE \E w \in Worker : WorkerNext(w)
  BY <1>1 DEF WorkerNext, Top, DialOk, DialFails, ShakeOk, SetupFails, MuxOk, AddSession,
     AcceptReverse, AcceptFails, RemoveSession, CloseSession, Check, Wake, SleepInterrupted,
     NewSession, Add, AcceptStream, Remove, setVars, dispatchVars
<1>2. CASE (\E f \in Forward : Bind(f) \/ Track(f)) \/ BindFails \/ StartWorkers \/ RunReturns
  BY <1>2 DEF Bind, Track, BindFails, StartWorkers, RunReturns, setVars, dispatchVars
<1>3. CASE CloseDone \/ CloseListeners \/ CloseAllSessions
  BY <1>3 DEF CloseDone, CloseListeners, CloseAllSessions, CloseAllBegin, CloseAllStep,
     CloseAllEnd, setVars, dispatchVars
<1>4. CASE \E s \in Sess : Fails(s) \/ InboundEnds(s)
  BY <1>4 DEF Fails, InboundEnds, BreakSession, KeepaliveClose, EndStream, dispatchVars
<1> QED BY <1>1, <1>2, <1>3, <1>4

LEMMA NextIInv == IInv /\ [Next]_vars => IInv'
<1> SUFFICES ASSUME IInv, [Next]_vars PROVE IInv'
  OBVIOUS
<1> USE DEF IInv
<1>1. CASE UNCHANGED vars
  <2>1. SetInv'
    BY <1>1, SessionStep DEF vars, setVars, SetInv, SetShape, IsClosed
  <2>2. DispatchInv'
    BY <1>1, DispatchUntouched DEF vars, setVars, dispatchVars
  <2>3. PoolInv'
    BY <1>1, PoolUntouched DEF vars, setVars, poolVars, IsClosed, PoolInv, PoolShape
  <2>4. StreamsInv'
    BY <1>1, StreamsUntouched DEF vars, setVars, dispatchVars
  <2> QED BY <2>1, <2>2, <2>3, <2>4
<1>2. ASSUME NEW u \in User, AcceptUser(u)
      PROVE  IInv'
  <2>1. DispatchInv' /\ UNCHANGED <<setVars, done, poolVars>>
    BY <1>2, AcceptInv DEF AcceptUser
  <2>2. SetInv'
    BY <2>1, SessionStep DEF setVars, SetInv, SetShape, IsClosed
  <2>3. PoolInv'
    BY <2>1, PoolUntouched DEF setVars, poolVars, IsClosed, PoolInv, PoolShape
  <2>4. StreamsInv'
    BY <1>2, AcceptStreamsInv DEF AcceptUser
  <2> QED BY <2>1, <2>2, <2>3, <2>4
<1>3. ASSUME NEW u \in User, DispatchNext(u), UNCHANGED poolVars
      PROVE  IInv'
  <2>1. SetInv' /\ DispatchInv' /\ UNCHANGED <<status, registered, done>>
    BY <1>3, DispatchStep
  <2>2. PoolInv'
    BY <1>3, <2>1, PoolUntouched DEF poolVars, IsClosed, PoolInv, PoolShape
  <2>3. StreamsInv'
    BY <1>3, UserStreamsInv
  <2> QED BY <2>1, <2>2, <2>3
<1>4. ASSUME NEW w \in Worker, WorkerNext(w)
      PROVE  IInv'
  BY <1>4, WorkerPoolInv, WorkerSetInv, DispatchUntouched, OthersKeepStreams, StreamsUntouched
<1>5. ASSUME \/ \E f \in Forward : Bind(f) \/ Track(f)
             \/ BindFails \/ StartWorkers \/ RunReturns
             \/ CloseDone \/ CloseListeners \/ CloseAllSessions
             \/ \E s \in Sess : Fails(s) \/ InboundEnds(s)
      PROVE  IInv'
  BY <1>5, RestInv, DispatchUntouched, OthersKeepStreams, StreamsUntouched
<1> QED
  BY <1>1, <1>2, <1>3, <1>4, <1>5 DEF Next

-----------------------------------------------------------------------------
(* Theorems.                                                               *)

LEMMA Inductive == Spec => []IInv
<1>1. Init => IInv
  BY InitIInv
<1>2. IInv /\ [Next]_vars => IInv'
  BY NextIInv
<1> QED
  BY <1>1, <1>2, PTL DEF Spec

\* However many workers there are, and whenever connections fail and Close is
\* called: every session that is not closed, and every registered one, belongs to
\* exactly one worker that will remove and close it (maintainSession).
THEOREM EverySessionHasItsWorker == Spec => []SessionsOwned
<1>1. IInv => SessionsOwned
  BY PoolInvImplies DEF IInv
<1> QED
  BY <1>1, Inductive, PTL

\* When Run returns, no session, registration or connection of the pool is left.
THEOREM RunLeavesNothing == Spec => []NothingLeftOnReturn
<1>1. IInv => NothingLeftOnReturn
  BY PoolInvImplies DEF IInv
<1> QED
  BY <1>1, Inductive, PTL

\* Pick reports no session only when every registered one is closed at that very
\* moment, whatever happens to the sessions while it scans them.
THEOREM PickMissesNothing == Spec => []NilMeansNone
<1>1. IInv => NilMeansNone
  BY SetInvImplies DEF IInv
<1> QED
  BY <1>1, Inductive, PTL

\* Every return of dispatchForward has closed the user connection.
THEOREM NoUserLeaks == Spec => []UserOwned
<1>1. IInv => UserOwned
  BY DEF IInv, DispatchInv
<1> QED
  BY <1>1, Inductive, PTL

\* However users come and go and sessions break under them: the streams open on a
\* session are those of the goroutines between OpenStream and stream.Close.
THEOREM NoStreamLeaks == Spec => []StreamsOwned
<1>1. IInv => StreamsOwned
  BY DEF IInv, StreamsInv
<1> QED
  BY <1>1, Inductive, PTL
=============================================================================

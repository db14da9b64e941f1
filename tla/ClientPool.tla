----------------------------- MODULE ClientPool -----------------------------
(***************************************************************************)
(* tunnel.Client: Run binds the forward listeners and starts PoolSize       *)
(* goroutines that dial, authenticate, register a session, serve it until   *)
(* it dies and reconnect (maintainSession); user connections go through     *)
(* Dispatch; Close, called from the signal goroutine, shuts all of it down  *)
(* while everything else keeps running.                                     *)
(***************************************************************************)
EXTENDS Dispatch

CONSTANTS
    Worker,     \* the goroutines of maintainSession, PoolSize of them
    Forward     \* the configured forwards

ASSUME PoolAssumption == Worker # {} /\ IsFiniteSet(Worker)

VARIABLES
    run,    \* Client.Run: binding listeners, waiting for the workers, returned
    ln,     \* the listener of each forward
    wpc,    \* where each worker stands
    conn,   \* the worker holds a connection that is not yet a session
    own,    \* the session of the worker
    cpc     \* Client.Close

poolVars == <<run, ln, wpc, conn, own, cpc>>
vars == <<setVars, done, dispatchVars, poolVars>>

TypeOK ==
    /\ SetTypeOK /\ DispatchTypeOK
    /\ run \in {"listen", "wait", "returned", "failed"}
    /\ ln \in [Forward -> {"unbound", "bound", "tracked", "closed"}]
    /\ wpc \in [Worker -> {"unborn", "top", "dial", "shake", "mux", "add", "accept", "remove",
                           "close", "check", "sleep", "exit"}]
    /\ conn \in [Worker -> BOOLEAN]
    /\ own \in [Worker -> Sess \cup {None}]
    /\ cpc \in {"idle", "listeners", "sessions", "clearing", "closed"}

Init ==
    /\ SetInit /\ DispatchInit
    /\ run = "listen"
    /\ ln = [f \in Forward |-> "unbound"]
    /\ wpc = [w \in Worker |-> "unborn"]
    /\ conn = [w \in Worker |-> FALSE]
    /\ own = [w \in Worker |-> None]
    /\ cpc = "idle"

-----------------------------------------------------------------------------
(* Run and the forward listeners.                                          *)

\* serveForward binds one listener after the other ...
Bind(f) ==
    /\ run = "listen" /\ ln[f] = "unbound" /\ \A g \in Forward : ln[g] # "bound"
    /\ ln' = [ln EXCEPT ![f] = "bound"]
    /\ UNCHANGED <<setVars, done, dispatchVars, run, wpc, conn, own, cpc>>

\* ... and appends it under the mutex: only then can Close find it.
Track(f) ==
    /\ ln[f] = "bound"
    /\ ln' = [ln EXCEPT ![f] = "tracked"]
    /\ UNCHANGED <<setVars, done, dispatchVars, run, wpc, conn, own, cpc>>

\* An address that cannot be bound ends Run, and the process with it.
BindFails ==
    /\ run = "listen" /\ (\E f \in Forward : ln[f] = "unbound") /\ (\A f \in Forward : ln[f] # "bound")
    /\ run' = "failed"
    /\ UNCHANGED <<setVars, done, dispatchVars, ln, wpc, conn, own, cpc>>

StartWorkers ==
    /\ run = "listen" /\ \A f \in Forward : ln[f] \in {"tracked", "closed"}
    /\ run' = "wait"
    /\ wpc' = [w \in Worker |-> "top"]
    /\ UNCHANGED <<setVars, done, dispatchVars, ln, conn, own, cpc>>

\* Slip (NothingLeftOnReturn): Run waits for done instead of for the workers.
RunReturnsAtDone ==
    /\ run = "wait" /\ done
    /\ run' = "returned"
    /\ UNCHANGED <<setVars, done, dispatchVars, ln, wpc, conn, own, cpc>>

\* wg.Wait
RunReturns ==
    /\ run = "wait" /\ \A w \in Worker : wpc[w] = "exit"
    /\ run' = "returned"
    /\ UNCHANGED <<setVars, done, dispatchVars, ln, wpc, conn, own, cpc>>

\* The accept loop of a forward.
AcceptUser(u) ==
    /\ run # "failed" /\ \E f \in Forward : ln[f] = "tracked"
    /\ Accept(u)
    /\ UNCHANGED poolVars

-----------------------------------------------------------------------------
(* maintainSession.                                                        *)

Goto(w, l) == wpc' = [wpc EXCEPT ![w] = l]

\* The non-blocking select on done.
Stopping == done

Top(w) ==
    /\ wpc[w] = "top"
    /\ Goto(w, IF Stopping THEN "exit" ELSE "dial")
    /\ UNCHANGED <<setVars, done, dispatchVars, run, ln, conn, own, cpc>>

DialOk(w) ==
    /\ wpc[w] = "dial"
    /\ conn' = [conn EXCEPT ![w] = TRUE]
    /\ Goto(w, "shake")
    /\ UNCHANGED <<setVars, done, dispatchVars, run, ln, own, cpc>>

DialFails(w) ==
    /\ wpc[w] = "dial"
    /\ Goto(w, "sleep")
    /\ UNCHANGED <<setVars, done, dispatchVars, run, ln, conn, own, cpc>>

ShakeOk(w) ==
    /\ wpc[w] = "shake"
    /\ Goto(w, "mux")
    /\ UNCHANGED <<setVars, done, dispatchVars, run, ln, conn, own, cpc>>

\* A failed handshake or mux.Client: the connection is closed before the pause.
DropConn(w) == conn' = [conn EXCEPT ![w] = FALSE]
SetupFails(w) ==
    /\ wpc[w] \in {"shake", "mux"}
    /\ DropConn(w)
    /\ Goto(w, "sleep")
    /\ UNCHANGED <<setVars, done, dispatchVars, run, ln, own, cpc>>

\* A session name nothing refers to any more.
Unused(s) ==
    /\ s \notin registered
    /\ \A w \in Worker : own[w] # s
    /\ \A u \in User : got[u] # s

\* The session takes the connection over.
MuxOk(w) ==
    /\ wpc[w] = "mux"
    /\ \E s \in Sess : Unused(s) /\ NewSession(s) /\ own' = [own EXCEPT ![w] = s]
    /\ conn' = [conn EXCEPT ![w] = FALSE]
    /\ Goto(w, "add")
    /\ UNCHANGED <<done, dispatchVars, run, ln, cpc>>

AddSession(w) ==
    /\ wpc[w] = "add"
    /\ Add(own[w])
    /\ Goto(w, "accept")
    /\ UNCHANGED <<done, dispatchVars, run, ln, conn, own, cpc>>

\* acceptReverse: a stream of the server gets a goroutine; an error ends the loop.
AcceptReverse(w) ==
    /\ wpc[w] = "accept" /\ AcceptStream(own[w])
    /\ UNCHANGED <<done, dispatchVars, poolVars>>

AcceptFails(w) ==
    /\ wpc[w] = "accept" /\ status[own[w]] # "open"
    /\ Goto(w, "remove")
    /\ UNCHANGED <<setVars, done, dispatchVars, run, ln, conn, own, cpc>>

RemoveSession(w) ==
    /\ wpc[w] = "remove"
    /\ Remove(own[w])
    /\ Goto(w, "close")
    /\ UNCHANGED <<done, dispatchVars, run, ln, conn, own, cpc>>

\* Slip (SessionsOwned): the worker goes on without sess.Close.
ForgetSession(w) ==
    /\ wpc[w] = "close"
    /\ own' = [own EXCEPT ![w] = None]
    /\ Goto(w, "check")
    /\ UNCHANGED <<setVars, done, dispatchVars, run, ln, conn, cpc>>

\* sess.Close: the session may have been closed already, by smux or by CloseAll.
CloseSession(w) ==
    /\ wpc[w] = "close"
    /\ status' = [status EXCEPT ![own[w]] = "closed"]
    /\ own' = [own EXCEPT ![w] = None]
    /\ Goto(w, "check")
    /\ UNCHANGED <<streams, inbound, registered, closing, scan, done, dispatchVars, run, ln, conn, cpc>>

\* Slip (Heals): a worker that lost its session is done.
CheckAndLeave(w) ==
    /\ wpc[w] = "check"
    /\ Goto(w, "exit")
    /\ UNCHANGED <<setVars, done, dispatchVars, run, ln, conn, own, cpc>>

\* After a session that lasted the worker dials again at once; otherwise it
\* sleeps first (the delays themselves are in Reconnect).
Check(w) ==
    /\ wpc[w] = "check"
    /\ IF Stopping THEN Goto(w, "exit") ELSE \E l \in {"top", "sleep"} : Goto(w, l)
    /\ UNCHANGED <<setVars, done, dispatchVars, run, ln, conn, own, cpc>>

Wake(w) ==
    /\ wpc[w] = "sleep"
    /\ Goto(w, "top")
    /\ UNCHANGED <<setVars, done, dispatchVars, run, ln, conn, own, cpc>>

SleepInterrupted(w) ==
    /\ wpc[w] = "sleep" /\ Stopping
    /\ Goto(w, "exit")
    /\ UNCHANGED <<setVars, done, dispatchVars, run, ln, conn, own, cpc>>

-----------------------------------------------------------------------------
(* Close: done, then the listeners under the mutex, then the sessions.     *)

CloseDone ==
    /\ cpc = "idle"
    /\ cpc' = "listeners"
    /\ done' = TRUE
    /\ UNCHANGED <<setVars, dispatchVars, run, ln, wpc, conn, own>>

CloseListeners ==
    /\ cpc = "listeners"
    /\ cpc' = "sessions"
    /\ ln' = [f \in Forward |-> IF ln[f] = "tracked" THEN "closed" ELSE ln[f]]
    /\ UNCHANGED <<setVars, done, dispatchVars, run, wpc, conn, own>>

CloseAllSessions ==
    /\ \/ cpc = "sessions" /\ CloseAllBegin /\ cpc' = "clearing"
       \/ cpc = "clearing" /\ (\E s \in Sess : CloseAllStep(s)) /\ cpc' = cpc
       \/ cpc = "clearing" /\ CloseAllEnd /\ cpc' = "closed"
    /\ UNCHANGED <<done, dispatchVars, run, ln, wpc, conn, own>>

-----------------------------------------------------------------------------
\* Connections fail and peers go silent; handlers of inbound streams end.
Fails(s) == (BreakSession(s) \/ KeepaliveClose(s)) /\ UNCHANGED <<done, dispatchVars, poolVars>>
InboundEnds(s) == EndStream(s) /\ UNCHANGED <<done, dispatchVars, poolVars>>

WorkerNext(w) ==
    \/ Top(w) \/ DialOk(w) \/ DialFails(w) \/ ShakeOk(w) \/ SetupFails(w) \/ MuxOk(w)
    \/ AddSession(w) \/ AcceptReverse(w) \/ AcceptFails(w) \/ RemoveSession(w)
    \/ CloseSession(w) \/ Check(w) \/ Wake(w) \/ SleepInterrupted(w)

Next ==
    \/ \E f \in Forward : Bind(f) \/ Track(f)
    \/ BindFails \/ StartWorkers \/ RunReturns
    \/ \E u \in User : AcceptUser(u) \/ (DispatchNext(u) /\ UNCHANGED poolVars)
    \/ \E w \in Worker : WorkerNext(w)
    \/ CloseDone \/ CloseListeners \/ CloseAllSessions
    \/ \E s \in Sess : Fails(s) \/ InboundEnds(s)

Spec == Init /\ [][Next]_vars

-----------------------------------------------------------------------------
(* Fairness: goroutines that can step do; timers fire; an RWMutex does not  *)
(* starve a writer (Go's makes new readers wait once one does), hence SF    *)
(* for the steps that need the write lock; a peer that keeps being dialled  *)
(* answers in the end.  Nobody has to call Close, and a healthy session     *)
(* need not fail.                                                           *)

WorkerStep(w) ==
    \/ Top(w) \/ DialOk(w) \/ DialFails(w) \/ ShakeOk(w) \/ SetupFails(w) \/ MuxOk(w)
    \/ AcceptFails(w) \/ CloseSession(w) \/ Check(w) \/ Wake(w)

WorkerFairness(w) ==
    /\ WF_vars(WorkerStep(w)) /\ SF_vars(AddSession(w) \/ RemoveSession(w))
    /\ SF_vars(DialOk(w)) /\ SF_vars(ShakeOk(w)) /\ SF_vars(MuxOk(w))

Fairness ==
    /\ WF_vars((\E f \in Forward : Bind(f) \/ Track(f)) \/ BindFails \/ StartWorkers \/ RunReturns)
    /\ \A w \in Worker : WorkerFairness(w)
    /\ \A u \in User : DispatchFairness(u)
    /\ WF_vars(CloseListeners) /\ SF_vars(CloseAllSessions)

LiveSpec == Spec /\ Fairness

\* As above, where in addition a session that was added when CloseAll was already
\* over, which nothing closes, does not last for ever; those that CloseAll finds may.
FailsLate(s) == cpc = "closed" /\ s \in registered /\ Fails(s)
DropSpec == LiveSpec /\ \A s \in Sess : WF_vars(FailsLate(s))

-----------------------------------------------------------------------------
(* Properties.                                                             *)

Owners(s) == {w \in Worker : own[w] = s}

\* A session that is not closed belongs to exactly one worker, which is on its way
\* to register it, serves it or is on its way to close it; and the set holds only
\* sessions served or about to be removed.  So no path through maintainSession,
\* shutdown included, leaves a session behind or closes another worker's.
SessionsOwned ==
    /\ \A s \in Live : \E w \in Worker :
           Owners(s) = {w} /\ wpc[w] \in {"add", "accept", "remove", "close"}
    /\ \A s \in registered : \E w \in Worker :
           Owners(s) = {w} /\ wpc[w] \in {"accept", "remove"}

\* A connection that is not a session is held only while it is being set up.
ConnsOwned == \A w \in Worker : conn[w] <=> wpc[w] \in {"shake", "mux"}

\* When Run has returned, nothing of the pool is left open.
NothingLeftOnReturn ==
    run = "returned" =>
        done /\ Live = {} /\ registered = {} /\ \A w \in Worker : ~conn[w]

\* Until Close is called, every worker is connected again and again.
Heals == \A w \in Worker : []<>(wpc[w] = "accept" \/ run \in {"listen", "failed"} \/ done)

\* No user connection hangs in waitSession, OpenStream or the header.
Served == \A u \in User : upc[u] = "pick" ~> upc[u] \in {"pipe", "none"}

\* "Run starts forwarders and the session pool, blocking until Close": once Close
\* has been called, Run returns.
ShutdownCompletes == done ~> run \in {"returned", "failed"}

\* Once Close has been called, every user connection is closed, unless its user
\* stalls: nothing in pipe ends a copy that is blocked on such a user.
UsersReleased ==
    \A u \in User : (done /\ user[u] = "open") ~> (user[u] = "closed" \/ upc[u] = "stuck")
=============================================================================

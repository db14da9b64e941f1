------------------------------- MODULE Server -------------------------------
(***************************************************************************)
(* tunnel.Server: Run accepts carrier connections and gives each one a      *)
(* handshake slot and a goroutine (handleConn) that authenticates it,       *)
(* registers its session and serves it until it dies; every reverse service *)
(* binds a public listener whose users go through Dispatch; Close, called   *)
(* from the signal goroutine at any time, shuts all of it down.             *)
(***************************************************************************)
EXTENDS Dispatch, Listener

CONSTANTS
    Conn,        \* goroutines of handleConn; a name is taken again once it is free
    Slots,       \* maxInflightHandshakes
    Service      \* the configured reverse services

ASSUME ServerAssumption == Slots \in Nat \ {0} /\ IsFiniteSet(Conn)

VARIABLES
    run,      \* where Server.Run stands
    lnSet,    \* s.ln has been assigned
    slots,    \* handshake slots taken: len(s.hsSem)
    hpc,      \* where each handleConn stands
    released, \* slotReleased of each handleConn
    raw,      \* the connection of the goroutine is open and not yet a session
    own,      \* the session of the goroutine
    rpc,      \* where serveReverse stands for each service
    rln,      \* the public listener of each service
    cpc       \* Server.Close

serverVars == <<lnVars, run, lnSet, slots, released, hpc, raw, own, rpc, rln, cpc>>
vars == <<setVars, done, dispatchVars, serverVars>>

TypeOK ==
    /\ SetTypeOK /\ DispatchTypeOK /\ ListenerTypeOK
    /\ run \in {"listen", "set", "accept", "acquire", "returned", "failed"}
    /\ lnSet \in BOOLEAN
    /\ slots \in 0 .. Slots
    /\ hpc \in [Conn -> {"none", "auth", "mux", "established", "add", "accept", "remove",
                         "close", "return"}]
    /\ released \in [Conn -> BOOLEAN]
    /\ raw \in [Conn -> BOOLEAN]
    /\ own \in [Conn -> Sess \cup {None}]
    /\ rpc \in [Service -> {"none", "bind", "track", "serve", "exit"}]
    /\ rln \in [Service -> {"none", "open", "closed"}]
    /\ cpc \in {"idle", "listeners", "public", "sessions", "clearing", "closed"}

Init ==
    /\ SetInit /\ DispatchInit /\ ListenerInit
    /\ run = "listen"
    /\ lnSet = FALSE
    /\ slots = 0
    /\ hpc = [h \in Conn |-> "none"]
    /\ released = [h \in Conn |-> FALSE]
    /\ raw = [h \in Conn |-> FALSE]
    /\ own = [h \in Conn |-> None]
    /\ rpc = [v \in Service |-> "none"]
    /\ rln = [v \in Service |-> "none"]
    /\ cpc = "idle"

-----------------------------------------------------------------------------
(* Run.                                                                    *)

\* The listener is open before Close can know of it.
Listen ==
    /\ run = "listen"
    /\ \/ run' = "set" /\ OpenListener
       \/ run' = "failed" /\ UNCHANGED lnVars
    /\ UNCHANGED <<setVars, done, dispatchVars, lnSet, slots, released, hpc, raw, own, rpc, rln, cpc>>

\* s.ln is assigned under the mutex, and the reverse services are started.
SetListener ==
    /\ run = "set"
    /\ run' = "accept"
    /\ lnSet' = TRUE
    /\ rpc' = [v \in Service |-> "bind"]
    /\ UNCHANGED <<setVars, done, dispatchVars, lnVars, slots, released, hpc, raw, own, rln, cpc>>

\* Carrier connections come in and are set up, and the listener may fail for good.
ListenerWorks ==
    /\ Connect \/ SetUp \/ SetupsEnd \/ Discard \/ BeginClose \/ EndClose
    /\ UNCHANGED <<setVars, done, dispatchVars, run, lnSet, slots, released, hpc, raw, own, rpc, rln, cpc>>

\* Accept returns a ready connection, even from a closed listener, or its error.
AcceptConn ==
    /\ run = "accept" /\ AcceptReady
    /\ run' = "acquire"
    /\ UNCHANGED <<setVars, done, dispatchVars, lnSet, slots, released, hpc, raw, own, rpc, rln, cpc>>

AcceptClosed ==
    /\ run = "accept" /\ AcceptFailed
    /\ run' = "returned"
    /\ UNCHANGED <<setVars, done, dispatchVars, lnSet, slots, released, hpc, raw, own, rpc, rln, cpc>>

\* The slot is taken before the goroutine is started ...
Spawn(h) ==
    /\ run = "acquire" /\ slots < Slots /\ hpc[h] = "none"
    /\ run' = "accept"
    /\ slots' = slots + 1
    /\ released' = [released EXCEPT ![h] = FALSE]
    /\ hpc' = [hpc EXCEPT ![h] = "auth"]
    /\ raw' = [raw EXCEPT ![h] = TRUE]
    /\ UNCHANGED <<setVars, done, dispatchVars, lnVars, lnSet, own, rpc, rln, cpc>>

\* ... or shutdown wins the select: the connection is closed and Run returns.
AcquireAborted ==
    /\ run = "acquire" /\ done
    /\ run' = "returned"
    /\ UNCHANGED <<setVars, done, dispatchVars, lnVars, lnSet, slots, released, hpc, raw, own, rpc, rln, cpc>>

-----------------------------------------------------------------------------
(* handleConn.                                                             *)

Goto(h, l) == hpc' = [hpc EXCEPT ![h] = l]

\* Handshake ends within its deadline, one way or the other.
AuthOk(h) ==
    /\ hpc[h] = "auth"
    /\ Goto(h, "mux")
    /\ UNCHANGED <<setVars, done, dispatchVars, lnVars, run, lnSet, slots, released, raw, own, rpc, rln, cpc>>

\* A failed handshake or mux.Server: the connection is closed.
SetupFails(h) ==
    /\ hpc[h] \in {"auth", "mux"}
    /\ raw' = [raw EXCEPT ![h] = FALSE]
    /\ Goto(h, "return")
    /\ UNCHANGED <<setVars, done, dispatchVars, lnVars, run, lnSet, slots, released, own, rpc, rln, cpc>>

\* A session name nothing refers to any more.
Unused(s) ==
    /\ s \notin registered
    /\ \A h \in Conn : own[h] # s
    /\ \A u \in User : got[u] # s

MuxOk(h) ==
    /\ hpc[h] = "mux"
    /\ \E s \in Sess : Unused(s) /\ NewSession(s) /\ own' = [own EXCEPT ![h] = s]
    /\ raw' = [raw EXCEPT ![h] = FALSE]
    /\ Goto(h, "established")
    /\ UNCHANGED <<done, dispatchVars, lnVars, run, lnSet, slots, released, rpc, rln, cpc>>

\* releaseSlot: called when the session is established and, deferred, on every
\* return, it gives the slot back once.
ReleaseSlot(h) ==
    /\ slots' = IF released[h] THEN slots ELSE slots - 1
    /\ released' = [released EXCEPT ![h] = TRUE]

Established(h) ==
    /\ hpc[h] = "established"
    /\ ReleaseSlot(h)
    /\ Goto(h, "add")
    /\ UNCHANGED <<setVars, done, dispatchVars, lnVars, run, lnSet, raw, own, rpc, rln, cpc>>

AddSession(h) ==
    /\ hpc[h] = "add"
    /\ Add(own[h])
    /\ Goto(h, "accept")
    /\ UNCHANGED <<done, dispatchVars, lnVars, run, lnSet, slots, released, raw, own, rpc, rln, cpc>>

\* A forward stream of the client gets a goroutine; an error ends the loop.
AcceptForward(h) ==
    /\ hpc[h] = "accept" /\ AcceptStream(own[h])
    /\ UNCHANGED <<done, dispatchVars, serverVars>>

AcceptFails(h) ==
    /\ hpc[h] = "accept" /\ status[own[h]] # "open"
    /\ Goto(h, "remove")
    /\ UNCHANGED <<setVars, done, dispatchVars, lnVars, run, lnSet, slots, released, raw, own, rpc, rln, cpc>>

\* Slip (SessionsOwned): the session is closed but stays in the set.
SkipRemove(h) ==
    /\ hpc[h] = "remove"
    /\ Goto(h, "close")
    /\ UNCHANGED <<setVars, done, dispatchVars, lnVars, run, lnSet, slots, released, raw, own, rpc, rln, cpc>>

\* The deferred calls: Remove, Close, releaseSlot.
RemoveSession(h) ==
    /\ hpc[h] = "remove"
    /\ Remove(own[h])
    /\ Goto(h, "close")
    /\ UNCHANGED <<done, dispatchVars, lnVars, run, lnSet, slots, released, raw, own, rpc, rln, cpc>>

CloseSession(h) ==
    /\ hpc[h] = "close"
    /\ status' = [status EXCEPT ![own[h]] = "closed"]
    /\ Goto(h, "return")
    /\ UNCHANGED <<streams, inbound, registered, closing, scan, done, dispatchVars,
                   lnVars, run, lnSet, slots, released, raw, own, rpc, rln, cpc>>

\* Slip (SlotsExact, SlotsComeBack): releaseSlot is not deferred.
ReturnWithSlot(h) ==
    /\ hpc[h] = "return"
    /\ own' = [own EXCEPT ![h] = None]
    /\ Goto(h, "none")
    /\ UNCHANGED <<setVars, done, dispatchVars, lnVars, run, lnSet, slots, released, raw, rpc, rln, cpc>>

Return(h) ==
    /\ hpc[h] = "return"
    /\ ReleaseSlot(h)
    /\ own' = [own EXCEPT ![h] = None]
    /\ Goto(h, "none")
    /\ UNCHANGED <<setVars, done, dispatchVars, lnVars, run, lnSet, raw, rpc, rln, cpc>>

-----------------------------------------------------------------------------
(* serveReverse, for TCP and UDP services alike.                           *)

BindReverse(v) ==
    /\ rpc[v] = "bind"
    /\ \/ rpc' = [rpc EXCEPT ![v] = "track"] /\ rln' = [rln EXCEPT ![v] = "open"]
       \/ rpc' = [rpc EXCEPT ![v] = "exit"] /\ rln' = rln
    /\ UNCHANGED <<setVars, done, dispatchVars, lnVars, run, lnSet, slots, released, hpc, raw, own, cpc>>

TrackReverse(v) ==
    /\ rpc[v] = "track"
    /\ rpc' = [rpc EXCEPT ![v] = "serve"]
    /\ UNCHANGED <<setVars, done, dispatchVars, lnVars, run, lnSet, slots, released, hpc, raw, own, rln, cpc>>

AcceptUser(u) ==
    /\ \E v \in Service : rpc[v] = "serve" /\ rln[v] = "open"
    /\ Accept(u)
    /\ UNCHANGED serverVars

\* The accept loop ends when its listener is closed.
ReverseEnds(v) ==
    /\ rpc[v] = "serve" /\ rln[v] = "closed"
    /\ rpc' = [rpc EXCEPT ![v] = "exit"]
    /\ UNCHANGED <<setVars, done, dispatchVars, lnVars, run, lnSet, slots, released, hpc, raw, own, rln, cpc>>

-----------------------------------------------------------------------------
(* Close: done, then the listeners it knows under the mutex, then sessions. *)

CloseDone ==
    /\ cpc = "idle"
    /\ cpc' = "listeners"
    /\ done' = TRUE
    /\ UNCHANGED <<setVars, dispatchVars, lnVars, run, lnSet, slots, released, hpc, raw, own, rpc, rln>>

Tracked(v) == rpc[v] = "serve"

\* Slip (ShutdownOnceListening): the carrier listener is left open.
SkipListener ==
    /\ cpc = "listeners"
    /\ cpc' = "public"
    /\ UNCHANGED <<lnVars, setVars, done, dispatchVars, run, lnSet, slots, released, hpc, raw, own, rpc, rln>>

\* s.ln.Close, which does nothing to a listener that has failed already ...
CloseListener ==
    /\ cpc = "listeners"
    /\ cpc' = "public"
    /\ IF lnSet /\ ln = "open" THEN BeginClose ELSE UNCHANGED lnVars
    /\ UNCHANGED <<setVars, done, dispatchVars, run, lnSet, slots, released, hpc, raw, own, rpc, rln>>

\* ... and returns; then the public listeners.
ClosePublic ==
    /\ cpc = "public" /\ (lnSet => ln = "closed")
    /\ cpc' = "sessions"
    /\ rln' = [v \in Service |-> IF Tracked(v) THEN "closed" ELSE rln[v]]
    /\ UNCHANGED <<lnVars, setVars, done, dispatchVars, run, lnSet, slots, released, hpc, raw, own, rpc>>

CloseAllSessions ==
    /\ \/ cpc = "sessions" /\ CloseAllBegin /\ cpc' = "clearing"
       \/ cpc = "clearing" /\ (\E s \in Sess : CloseAllStep(s)) /\ cpc' = cpc
       \/ cpc = "clearing" /\ CloseAllEnd /\ cpc' = "closed"
    /\ UNCHANGED <<done, dispatchVars, lnVars, run, lnSet, slots, released, hpc, raw, own, rpc, rln>>

-----------------------------------------------------------------------------
Fails(s) == (BreakSession(s) \/ KeepaliveClose(s)) /\ UNCHANGED <<done, dispatchVars, serverVars>>
InboundEnds(s) == EndStream(s) /\ UNCHANGED <<done, dispatchVars, serverVars>>

RunNext == Listen \/ SetListener \/ AcceptConn \/ AcceptClosed \/ AcquireAborted

ConnNext(h) ==
    \/ Spawn(h) \/ AuthOk(h) \/ SetupFails(h) \/ MuxOk(h) \/ Established(h) \/ AddSession(h)
    \/ AcceptForward(h) \/ AcceptFails(h) \/ RemoveSession(h) \/ CloseSession(h) \/ Return(h)

Next ==
    \/ RunNext \/ ListenerWorks
    \/ \E h \in Conn : ConnNext(h)
    \/ \E v \in Service : BindReverse(v) \/ TrackReverse(v) \/ ReverseEnds(v)
    \/ \E u \in User : AcceptUser(u) \/ (DispatchNext(u) /\ UNCHANGED serverVars)
    \/ CloseDone \/ CloseListener \/ ClosePublic \/ CloseAllSessions
    \/ \E s \in Sess : Fails(s) \/ InboundEnds(s)

Spec == Init /\ [][Next]_vars

(* Fairness: as for the client.  A peer may stay silent in the handshake,   *)
(* but the deadline on the connection then makes it fail.  A listener that is *)
(* being closed settles (Listener.CloseSettles, which Carrier shows of each). *)
ListenerSettles ==
    /\ WF_vars(ListenerWorks /\ EndClose)
    /\ WF_vars(ListenerWorks /\ ln = "closed" /\ coming' < coming)

ConnStep(h) ==
    \/ AuthOk(h) \/ MuxOk(h) \/ SetupFails(h) \/ Established(h) \/ AcceptFails(h)
    \/ CloseSession(h) \/ Return(h)

ConnFairness(h) == WF_vars(ConnStep(h)) /\ SF_vars(AddSession(h) \/ RemoveSession(h))

Fairness ==
    /\ WF_vars(RunNext \/ \E h \in Conn : Spawn(h))
    /\ \A h \in Conn : ConnFairness(h)
    /\ \A v \in Service : WF_vars(BindReverse(v) \/ TrackReverse(v) \/ ReverseEnds(v))
    /\ \A u \in User : DispatchFairness(u)
    /\ ListenerSettles /\ WF_vars(CloseListener \/ ClosePublic) /\ SF_vars(CloseAllSessions)

LiveSpec == Spec /\ Fairness

\* As above, where in addition a session that was added when CloseAll was already
\* over, which nothing closes, does not last for ever; those that CloseAll finds may.
FailsLate(s) == cpc = "closed" /\ s \in registered /\ Fails(s)
DropSpec == LiveSpec /\ \A s \in Sess : WF_vars(FailsLate(s))

-----------------------------------------------------------------------------
(* Properties.                                                             *)

Owners(s) == {h \in Conn : own[h] = s}

\* Every session that is not closed has exactly one handleConn that will close it,
\* and the set holds only sessions served or about to be removed.
SessionsOwned ==
    /\ \A s \in Live : \E h \in Conn :
           Owners(s) = {h} /\ hpc[h] \in {"established", "add", "accept", "remove", "close"}
    /\ \A s \in registered : \E h \in Conn :
           Owners(s) = {h} /\ hpc[h] \in {"accept", "remove"}

\* The handshake slots taken are those of the goroutines still setting a session
\* up or returning without one: no path keeps a slot, none gives it back twice,
\* and established sessions hold none.
InHandshake(h) ==
    hpc[h] \in {"auth", "mux", "established"} \/ (hpc[h] = "return" /\ own[h] = None)
SlotsExact == slots = Cardinality({h \in Conn : InHandshake(h)})

\* Peers that connect and stay silent hold up the accept loop at most until their
\* handshakes time out: a free slot always comes back.
SlotsComeBack == slots = Slots ~> slots < Slots

\* Once Close has found the listener, Run returns.
ShutdownOnceListening == (cpc = "listeners" /\ lnSet) ~> run = "returned"

\* When Close has found the listener, the server ends without sessions, even if peers
\* keep theirs up for ever: CloseAll closes those it finds, and those set up while
\* it closes are closed by their goroutines, once their connections fail.
SessionsEnd == (cpc = "listeners" /\ lnSet) ~> [](Live = {})
=============================================================================

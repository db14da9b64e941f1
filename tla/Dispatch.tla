------------------------------ MODULE Dispatch ------------------------------
(***************************************************************************)
(* User connections on their way into the tunnel: Client.dispatchForward and *)
(* Server.dispatchReverse, which are the same code on the two sides, with   *)
(* the waitSession loop both use.  Each accepted connection has a goroutine *)
(* of its own; a name of User is taken again once its goroutine has ended.  *)
(***************************************************************************)
EXTENDS SessionSet

VARIABLES
    done,   \* the done channel of the Client or Server is closed
    upc,    \* where the goroutine of each user connection stands
    user,   \* the user connection itself
    got,    \* the session waitSession returned
    late    \* the deadline of waitSession has passed

User == Reader
dispatchVars == <<upc, user, got, late>>

\* Where a goroutine owns a stream of the session it got.
HasStream == {"header", "pipe", "stuck"}

DispatchTypeOK ==
    /\ done \in BOOLEAN
    /\ upc \in [User -> {"none", "pick", "scan", "wait", "open", "header", "pipe", "stuck"}]
    /\ user \in [User -> {"open", "closed"}]
    /\ got \in [User -> Sess \cup {None}]
    /\ late \in [User -> BOOLEAN]

DispatchInit ==
    /\ done = FALSE
    /\ upc = [u \in User |-> "none"]
    /\ user = [u \in User |-> "closed"]
    /\ got = [u \in User |-> None]
    /\ late = [u \in User |-> FALSE]

\* A listener hands over a new user connection.
Accept(u) ==
    /\ upc[u] = "none"
    /\ upc' = [upc EXCEPT ![u] = "pick"]
    /\ user' = [user EXCEPT ![u] = "open"]
    /\ UNCHANGED <<setVars, done, got, late>>

\* Slip (UsersReleased): user.Close is forgotten.
FinishKeepingUser(u) ==
    /\ upc' = [upc EXCEPT ![u] = "none"]
    /\ got' = [got EXCEPT ![u] = None]
    /\ late' = [late EXCEPT ![u] = FALSE]
    /\ user' = user

\* The goroutine returns after closing the user connection.
Finish(u) ==
    /\ upc' = [upc EXCEPT ![u] = "none"]
    /\ user' = [user EXCEPT ![u] = "closed"]
    /\ got' = [got EXCEPT ![u] = None]
    /\ late' = [late EXCEPT ![u] = FALSE]

\* waitSession: one Pick; a session ends the loop, otherwise the deadline is
\* looked at before the goroutine waits for the next poll or for done.
StartPick(u) ==
    /\ upc[u] = "pick"
    /\ PickBegin(u)
    /\ upc' = [upc EXCEPT ![u] = "scan"]
    /\ UNCHANGED <<done, user, got, late>>

Scan(u) ==
    /\ (\E s \in Sess : PickLook(u, s)) \/ PickCount(u)
    /\ UNCHANGED <<done, dispatchVars>>

Picked(u) ==
    /\ PickEnd(u) /\ scan[u].best # None
    /\ upc' = [upc EXCEPT ![u] = "open"]
    /\ got' = [got EXCEPT ![u] = scan[u].best]
    /\ UNCHANGED <<done, user, late>>

\* Slip (Served): the deadline is not looked at.
PickedNoneAgain(u) ==
    /\ PickEnd(u) /\ scan[u].best = None
    /\ upc' = [upc EXCEPT ![u] = "wait"]
    /\ UNCHANGED <<done, user, got, late>>

PickedNone(u) ==
    /\ PickEnd(u) /\ scan[u].best = None
    /\ IF late[u] THEN Finish(u)
       ELSE upc' = [upc EXCEPT ![u] = "wait"] /\ UNCHANGED <<user, got, late>>
    /\ UNCHANGED done

Poll(u) ==
    /\ upc[u] = "wait"
    /\ upc' = [upc EXCEPT ![u] = "pick"]
    /\ UNCHANGED <<setVars, done, user, got, late>>

GiveUp(u) ==
    /\ upc[u] = "wait" /\ done
    /\ Finish(u)
    /\ UNCHANGED <<setVars, done>>

DeadlinePasses(u) ==
    /\ upc[u] \in {"pick", "scan", "wait"} /\ ~late[u]
    /\ late' = [late EXCEPT ![u] = TRUE]
    /\ UNCHANGED <<setVars, done, upc, user, got>>

\* OpenStream works on an open session and may still fail there; it fails on a
\* session that broke or closed after Pick chose it.
OpenStream(u) ==
    /\ upc[u] = "open" /\ status[got[u]] = "open"
    /\ upc' = [upc EXCEPT ![u] = "header"]
    /\ streams' = [streams EXCEPT ![got[u]] = @ + 1]
    /\ UNCHANGED <<status, inbound, registered, closing, scan, done, user, got, late>>

OpenFails(u) ==
    /\ upc[u] = "open"
    /\ Finish(u)
    /\ UNCHANGED <<setVars, done>>

\* The header goes out, unless the write deadline or a dead session stops it.
WriteHeader(u) ==
    /\ upc[u] = "header" /\ status[got[u]] = "open"
    /\ upc' = [upc EXCEPT ![u] = "pipe"]
    /\ UNCHANGED <<setVars, done, user, got, late>>

\* stream.Close and user.Close, and the goroutine is gone.
CloseBoth(u) ==
    /\ streams' = [streams EXCEPT ![got[u]] = @ - 1]
    /\ Finish(u)
    /\ UNCHANGED <<status, inbound, registered, closing, scan, done>>

\* Slip (StreamsOwned): the error path returns without stream.Close.
HeaderFailsLeaking(u) == upc[u] = "header" /\ Finish(u) /\ UNCHANGED <<setVars, done>>

HeaderFails(u) == upc[u] = "header" /\ CloseBoth(u)

\* pipe copies both ways.  A user who no longer reads what waits for it, sends
\* nothing and does not close holds both copies, whatever becomes of the session
\* (one who comes back in time is only slow).
UserStalls(u) ==
    /\ upc[u] = "pipe"
    /\ upc' = [upc EXCEPT ![u] = "stuck"]
    /\ UNCHANGED <<setVars, done, user, got, late>>

\* pipe returns when the user or the peer ends the connection ...
PipeEnds(u) == upc[u] \in {"pipe", "stuck"} /\ CloseBoth(u)

\* ... and, unless it is held by its user, when the session under the stream is gone.
PipeFails(u) == upc[u] = "pipe" /\ status[got[u]] # "open" /\ CloseBoth(u)

DispatchNext(u) ==
    \/ StartPick(u) \/ Scan(u) \/ Picked(u) \/ PickedNone(u)
    \/ Poll(u) \/ GiveUp(u) \/ DeadlinePasses(u)
    \/ OpenStream(u) \/ OpenFails(u) \/ WriteHeader(u) \/ HeaderFails(u)
    \/ UserStalls(u) \/ PipeEnds(u)

\* Every step the goroutine takes by itself; a pipe may last for ever while its
\* session is open or its user stalls.
UserStep(u) ==
    \/ StartPick(u) \/ Scan(u) \/ Picked(u) \/ PickedNone(u) \/ Poll(u) \/ GiveUp(u)
    \/ OpenStream(u) \/ OpenFails(u) \/ WriteHeader(u) \/ HeaderFails(u) \/ PipeFails(u)

DispatchFairness(u) ==
    /\ WF_<<setVars, done, dispatchVars>>(UserStep(u))
    /\ WF_<<setVars, done, dispatchVars>>(DeadlinePasses(u))

-----------------------------------------------------------------------------
\* A session's stream count is the number of goroutines that own one of its
\* streams: no error path keeps a stream, none closes one twice.
StreamsOwned ==
    \A s \in Sess :
        streams[s] = Cardinality({u \in User : upc[u] \in HasStream /\ got[u] = s})

\* A user connection is open exactly as long as its goroutine: every return of
\* dispatch closes it.
UserOwned == \A u \in User : user[u] = "open" <=> upc[u] # "none"
=============================================================================

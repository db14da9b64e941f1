----------------------------- MODULE SessionSet -----------------------------
(***************************************************************************)
(* mux.SessionSet and the smux sessions it holds: the registered sessions   *)
(* behind a sync.RWMutex, least-loaded placement by Pick, and CloseAll.     *)
(* The client's pool and the server extend this module.                     *)
(*                                                                          *)
(* Pick reads the sessions one by one under the read lock.  The lock keeps  *)
(* the map still, not the sessions: they break, close and gain streams while *)
(* they are scanned, and even between IsClosed and NumStreams of the same   *)
(* session.  CloseAll closes them one by one under the write lock.          *)
(*                                                                          *)
(* A smux session (external) is open; or broken, when its connection has    *)
(* failed: AcceptStream and OpenStream then return errors but IsClosed is   *)
(* still false; or closed.  Sess is a pool of names: one that is closed and *)
(* no longer referenced stands for a session not yet created.               *)
(***************************************************************************)
EXTENDS Naturals, FiniteSets

CONSTANTS
    Sess,       \* session names
    Reader,     \* goroutines that call Pick
    MaxInbound, \* bound: streams the peer holds open on a session
    None        \* the nil session

ASSUME SessAssumption == None \notin Sess /\ MaxInbound \in Nat /\ IsFiniteSet(Reader)

VARIABLES
    status,      \* smux: the state of each session
    streams,     \* smux: the streams opened on this side of each session
    inbound,     \* smux: the streams the peer opened
    registered,  \* SessionSet.sessions
    closing,     \* CloseAll holds the write lock
    scan         \* Pick: the progress of each reader

setVars == <<status, streams, inbound, registered, closing, scan>>

\* A reader holds the read lock while it is active; todo are the sessions the
\* range loop has yet to visit, at the one between IsClosed and NumStreams.
ScanOf(active, todo) == [active |-> active, todo |-> todo, at |-> None, best |-> None, bestN |-> 0]
NoScan == ScanOf(FALSE, {})

IsClosed(s) == status[s] = "closed"
Live == {s \in Sess : ~IsClosed(s)}

\* NumStreams of a closed session is 0.
NumStreams(s) == IF IsClosed(s) THEN 0 ELSE streams[s] + inbound[s]

\* Slip (NilMeansNone): bestN starts at 0.  A definition marked Slip is a plausible
\* mistake in the code next to it; the property it names notices it.
BetterThanZero(r, n) == n < scan[r].bestN

\* n < bestN, where bestN starts as the largest int.
Better(r, n) == scan[r].best = None \/ n < scan[r].bestN

Scanning(r) == scan[r].active
CanWrite == ~closing /\ \A r \in Reader : ~Scanning(r)

SetTypeOK ==
    /\ status \in [Sess -> {"open", "broken", "closed"}]
    /\ streams \in [Sess -> Nat]
    /\ inbound \in [Sess -> 0 .. MaxInbound]
    /\ registered \subseteq Sess
    /\ closing \in BOOLEAN
    /\ scan \in [Reader -> [active : BOOLEAN, todo : SUBSET Sess, at : Sess \cup {None},
                            best : Sess \cup {None}, bestN : Nat]]

SetInit ==
    /\ status = [s \in Sess |-> "closed"]
    /\ streams = [s \in Sess |-> 0]
    /\ inbound = [s \in Sess |-> 0]
    /\ registered = {}
    /\ closing = FALSE
    /\ scan = [r \in Reader |-> NoScan]

-----------------------------------------------------------------------------
(* smux, as the code uses it.                                              *)

\* mux.Client or mux.Server wraps a connection; the session has no streams.  (The
\* peer's streams of the session that had the name before are counted no more.)
NewSession(s) ==
    /\ IsClosed(s) /\ streams[s] = 0
    /\ status' = [status EXCEPT ![s] = "open"]
    /\ inbound' = [inbound EXCEPT ![s] = 0]
    /\ UNCHANGED <<streams, registered, closing, scan>>

\* The carrier connection under the session fails.
BreakSession(s) ==
    /\ status[s] = "open"
    /\ status' = [status EXCEPT ![s] = "broken"]
    /\ UNCHANGED <<streams, inbound, registered, closing, scan>>

\* AcceptStream returns a stream of the peer, and a goroutine of its own serves
\* it until it closes the stream.
AcceptStream(s) ==
    /\ status[s] = "open" /\ inbound[s] < MaxInbound
    /\ inbound' = [inbound EXCEPT ![s] = @ + 1]
    /\ UNCHANGED <<status, streams, registered, closing, scan>>

EndStream(s) ==
    /\ inbound[s] > 0
    /\ inbound' = [inbound EXCEPT ![s] = @ - 1]
    /\ UNCHANGED <<status, streams, registered, closing, scan>>

\* smux's keepalive closes a session whose peer has been silent.
KeepaliveClose(s) ==
    /\ ~IsClosed(s)
    /\ status' = [status EXCEPT ![s] = "closed"]
    /\ UNCHANGED <<streams, inbound, registered, closing, scan>>

-----------------------------------------------------------------------------
(* The operations of SessionSet.                                           *)

Add(s) ==
    /\ CanWrite
    /\ registered' = registered \cup {s}
    /\ UNCHANGED <<status, streams, inbound, closing, scan>>

\* Dropping an id that CloseAll has already dropped is a no-op.
Remove(s) ==
    /\ CanWrite
    /\ registered' = registered \ {s}
    /\ UNCHANGED <<status, streams, inbound, closing, scan>>

\* Pick takes the read lock ...
PickBegin(r) ==
    /\ ~closing /\ ~Scanning(r)
    /\ scan' = [scan EXCEPT ![r] = ScanOf(TRUE, registered)]
    /\ UNCHANGED <<status, streams, inbound, registered, closing>>

\* ... skips the sessions that are closed when it comes to them ...
PickLook(r, s) ==
    /\ Scanning(r) /\ scan[r].at = None /\ s \in scan[r].todo
    /\ scan' = [scan EXCEPT ![r].todo = @ \ {s}, ![r].at = IF IsClosed(s) THEN None ELSE s]
    /\ UNCHANGED <<status, streams, inbound, registered, closing>>

\* ... compares the load of the others ...
PickCount(r) ==
    /\ Scanning(r) /\ scan[r].at # None
    /\ LET n == NumStreams(scan[r].at)
       IN scan' = IF Better(r, n)
                  THEN [scan EXCEPT ![r].at = None, ![r].best = scan[r].at, ![r].bestN = n]
                  ELSE [scan EXCEPT ![r].at = None]
    /\ UNCHANGED <<status, streams, inbound, registered, closing>>

\* ... and returns: the result is scan[r].best.
Scanned(r) == Scanning(r) /\ scan[r].todo = {} /\ scan[r].at = None
PickEnd(r) ==
    /\ Scanned(r)
    /\ scan' = [scan EXCEPT ![r] = NoScan]
    /\ UNCHANGED <<status, streams, inbound, registered, closing>>

\* Slip (SessionsEnd, ShutdownCompletes): the sessions are dropped, not closed.
CloseAllForgets(s) ==
    /\ closing /\ s \in registered
    /\ registered' = registered \ {s}
    /\ UNCHANGED <<status, streams, inbound, closing, scan>>

\* CloseAll takes the write lock, closes and forgets each session, and returns.
CloseAllBegin ==
    /\ CanWrite
    /\ closing' = TRUE
    /\ UNCHANGED <<status, streams, inbound, registered, scan>>

CloseAllStep(s) ==
    /\ closing /\ s \in registered
    /\ status' = [status EXCEPT ![s] = "closed"]
    /\ registered' = registered \ {s}
    /\ UNCHANGED <<streams, inbound, closing, scan>>

CloseAllEnd ==
    /\ closing /\ registered = {}
    /\ closing' = FALSE
    /\ UNCHANGED <<status, streams, inbound, registered, scan>>

-----------------------------------------------------------------------------
(* Properties of Pick, whoever composes the set with its users.            *)

\* Pick returns nil only if, at that moment, every registered session is closed:
\* a user connection is never turned away while a session could carry it, even
\* though sessions change while they are scanned.
NilMeansNone ==
    \A r \in Reader :
        Scanned(r) /\ scan[r].best = None => \A s \in registered : IsClosed(s)

\* The sessions of a scan are registered as long as it lasts: neither Remove nor
\* CloseAll takes one away under a reader's eyes.
ScanIsStable ==
    \A r \in Reader :
        Scanning(r) => scan[r].todo \cup ({scan[r].at, scan[r].best} \ {None}) \subseteq registered
=============================================================================

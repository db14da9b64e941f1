--------------------------- MODULE DispatchProofs ---------------------------
(***************************************************************************)
(* Facts about mux.SessionSet, and about the goroutines of Dispatch, that   *)
(* hold for every program built on them: what the lock of the set guarantees *)
(* to a Pick under way, and that a user connection is closed when its       *)
(* goroutine ends.  One lemma per kind of step; ClientPoolProofs cites them. *)
(***************************************************************************)
EXTENDS Dispatch, Integers, FiniteSetTheorems, TLAPS

\* Types, as far as the proofs need them.
ScanRec == [active : BOOLEAN, todo : SUBSET Sess, at : Sess \cup {None},
            best : Sess \cup {None}, bestN : Int]
SetShape ==
    /\ status \in [Sess -> {"open", "broken", "closed"}]
    /\ streams \in [Sess -> Int]
    /\ inbound \in [Sess -> Int]
    /\ registered \subseteq Sess
    /\ closing \in BOOLEAN
    /\ scan \in [Reader -> ScanRec]

\* The RWMutex: CloseAll and Pick exclude each other.
Exclusion == closing => \A r \in Reader : ~Scanning(r)

\* As long as Pick has found nothing, what it has looked at was closed and still is.
NothingMissed ==
    \A r \in Reader :
        Scanning(r) /\ scan[r].best = None =>
            \A s \in registered \ (scan[r].todo \cup {scan[r].at}) : IsClosed(s)

SetInv == SetShape /\ Exclusion /\ ScanIsStable /\ NothingMissed

LEMMA ScanOfType ==
    ASSUME NEW b \in BOOLEAN, NEW T \in SUBSET Sess
    PROVE  ScanOf(b, T) \in ScanRec
BY DEF ScanOf, ScanRec

LEMMA SetInvInit == SetInit => SetInv
<1> SUFFICES ASSUME SetInit PROVE SetInv
  OBVIOUS
<1>1. NoScan \in ScanRec
  BY ScanOfType DEF NoScan
<1>2. \A r \in Reader : scan[r] = NoScan /\ ~Scanning(r)
  BY DEF SetInit, Scanning, NoScan, ScanOf
<1>3. SetShape
  <2>1. scan \in [Reader -> ScanRec]
    BY <1>1 DEF SetInit
  <2>2. status \in [Sess -> {"open", "broken", "closed"}]
    BY DEF SetInit
  <2>3. streams \in [Sess -> Int] /\ inbound \in [Sess -> Int]
    BY SMT DEF SetInit
  <2>4. registered \subseteq Sess /\ closing \in BOOLEAN
    BY DEF SetInit
  <2> QED
    BY <2>1, <2>2, <2>3, <2>4 DEF SetShape
<1> QED
  BY <1>2, <1>3 DEF SetInv, Exclusion, ScanIsStable, NothingMissed

\* A finished scan without a result has looked at everything.
LEMMA SetInvImplies == SetInv => NilMeansNone
BY SessAssumption DEF SetInv, SetShape, NothingMissed, NilMeansNone, Scanned, Scanning

\* Sessions come, break, close and carry streams: no registered one reopens.
LEMMA SessionStep ==
    ASSUME SetInv, UNCHANGED <<registered, closing, scan>>,
           status' \in [Sess -> {"open", "broken", "closed"}],
           streams' \in [Sess -> Int], inbound' \in [Sess -> Int],
           \A s \in registered : IsClosed(s) => IsClosed(s)'
    PROVE  SetInv'
BY DEF SetInv, SetShape, Exclusion, ScanIsStable, NothingMissed, Scanning

\* Add, Remove and the start of CloseAll happen under the write lock.
LEMMA WriteStep ==
    ASSUME SetInv, CanWrite, UNCHANGED <<status, streams, inbound, scan>>,
           registered' \subseteq Sess, closing' \in BOOLEAN
    PROVE  SetInv'
BY DEF SetInv, SetShape, Exclusion, ScanIsStable, NothingMissed, CanWrite, Scanning

\* CloseAll keeps it while it closes and forgets the sessions.
LEMMA CloseAllStepInv ==
    ASSUME SetInv, closing, UNCHANGED <<streams, inbound, scan>>,
           status' \in [Sess -> {"open", "broken", "closed"}],
           registered' \subseteq Sess, closing' \in BOOLEAN
    PROVE  SetInv'
BY DEF SetInv, SetShape, Exclusion, ScanIsStable, NothingMissed, Scanning

LEMMA PickBeginInv ==
    ASSUME SetInv, NEW r \in Reader, PickBegin(r)
    PROVE  SetInv'
<1>1. /\ ~closing /\ UNCHANGED <<status, streams, inbound, registered, closing>>
      /\ scan' = [scan EXCEPT ![r] = ScanOf(TRUE, registered)]
  BY DEF PickBegin
<1>2. ScanOf(TRUE, registered) \in ScanRec
  BY ScanOfType DEF SetInv, SetShape
<1>3. SetShape'
  BY <1>1, <1>2 DEF SetInv, SetShape
<1>4. /\ \A q \in Reader \ {r} : scan'[q] = scan[q]
      /\ scan'[r].todo = registered /\ scan'[r].at = None /\ scan'[r].best = None
  BY <1>1 DEF SetInv, SetShape, ScanOf
<1>5. Exclusion'
  BY <1>1 DEF SetInv, Exclusion
<1>6. ScanIsStable' /\ NothingMissed'
  BY <1>1, <1>4 DEF SetInv, SetShape, ScanIsStable, NothingMissed, Scanning, IsClosed
<1> QED
  BY <1>3, <1>5, <1>6 DEF SetInv

LEMMA PickLookInv ==
    ASSUME SetInv, NEW r \in Reader, NEW s \in Sess, PickLook(r, s)
    PROVE  SetInv'
<1>1. /\ Scanning(r) /\ scan[r].at = None /\ s \in scan[r].todo
      /\ UNCHANGED <<status, streams, inbound, registered, closing>>
      /\ scan' = [scan EXCEPT ![r] = [scan[r] EXCEPT !.todo = scan[r].todo \ {s},
                                                     !.at = IF IsClosed(s) THEN None ELSE s]]
  BY SessAssumption DEF PickLook, SetInv, SetShape
<1>2a. [scan[r] EXCEPT !.todo = scan[r].todo \ {s}, !.at = IF IsClosed(s) THEN None ELSE s]
          \in ScanRec
  BY DEF SetInv, SetShape, ScanRec
<1>2. SetShape'
  BY <1>1, <1>2a DEF SetInv, SetShape
<1>3. \A q \in Reader \ {r} : scan'[q] = scan[q]
  BY <1>1 DEF SetInv, SetShape
<1>4. /\ scan'[r].active /\ scan'[r].todo = scan[r].todo \ {s}
      /\ scan'[r].at = (IF IsClosed(s) THEN None ELSE s) /\ scan'[r].best = scan[r].best
  BY <1>1 DEF SetInv, SetShape, Scanning
<1>5. Exclusion'
  BY <1>1 DEF SetInv, Exclusion, Scanning
<1>6. ScanIsStable' /\ NothingMissed'
  BY <1>1, <1>3, <1>4, SessAssumption DEF SetInv, SetShape, ScanIsStable, NothingMissed, Scanning,
     IsClosed
<1> QED BY <1>2, <1>5, <1>6 DEF SetInv

LEMMA PickCountInv ==
    ASSUME SetInv, NEW r \in Reader, PickCount(r)
    PROVE  SetInv'
<1> DEFINE n == NumStreams(scan[r].at)
<1>1. /\ Scanning(r) /\ scan[r].at # None
      /\ UNCHANGED <<status, streams, inbound, registered, closing>>
      /\ scan' = IF Better(r, n)
                 THEN [scan EXCEPT ![r] = [scan[r] EXCEPT !.at = None, !.best = scan[r].at,
                                                          !.bestN = n]]
                 ELSE [scan EXCEPT ![r] = [scan[r] EXCEPT !.at = None]]
  BY DEF PickCount, SetInv, SetShape
<1>2. n \in Int /\ scan[r].at \in Sess
  BY <1>1 DEF NumStreams, SetInv, SetShape, ScanRec
<1>2a. /\ [scan[r] EXCEPT !.at = None, !.best = scan[r].at, !.bestN = n] \in ScanRec
       /\ [scan[r] EXCEPT !.at = None] \in ScanRec
  BY <1>2 DEF SetInv, SetShape, ScanRec
<1>3. SetShape'
  BY <1>1, <1>2a DEF SetInv, SetShape
<1>4. \A q \in Reader \ {r} : scan'[q] = scan[q]
  BY <1>1 DEF SetInv, SetShape
<1>5. /\ scan'[r].active /\ scan'[r].todo = scan[r].todo /\ scan'[r].at = None
      /\ scan'[r].best \in {scan[r].best, scan[r].at} /\ scan'[r].best # None
  BY <1>1, <1>2, SessAssumption DEF SetInv, SetShape, Scanning, Better
<1>6. Exclusion'
  BY <1>1 DEF SetInv, Exclusion, Scanning
<1>7. ScanIsStable' /\ NothingMissed'
  BY <1>1, <1>2, <1>4, <1>5, SessAssumption DEF SetInv, SetShape, ScanIsStable, NothingMissed,
     Scanning, IsClosed
<1> QED BY <1>3, <1>6, <1>7 DEF SetInv

LEMMA PickEndInv ==
    ASSUME SetInv, NEW r \in Reader, PickEnd(r)
    PROVE  SetInv'
<1>1. /\ UNCHANGED <<status, streams, inbound, registered, closing>>
      /\ scan' = [scan EXCEPT ![r] = NoScan]
  BY DEF PickEnd
<1>2. NoScan \in ScanRec /\ ~NoScan.active
  BY ScanOfType DEF NoScan, ScanOf
<1> QED
  BY <1>1, <1>2 DEF SetInv, SetShape, Exclusion, ScanIsStable, NothingMissed, Scanning, IsClosed

-----------------------------------------------------------------------------
(* The goroutines of Dispatch.                                             *)

\* A goroutine is inside Pick exactly while it holds the read lock.
ScanHasReader == \A u \in User : Scanning(u) <=> upc[u] = "scan"

DispatchInv ==
    /\ upc \in [User -> {"none", "pick", "scan", "wait", "open", "header", "pipe", "stuck"}]
    /\ user \in [User -> {"open", "closed"}]
    /\ UserOwned
    /\ ScanHasReader

LEMMA CounterType ==
    ASSUME streams \in [Sess -> Int], NEW s,
           \/ streams' = [streams EXCEPT ![s] = @ + 1]
           \/ streams' = [streams EXCEPT ![s] = @ - 1]
    PROVE  streams' \in [Sess -> Int]
<1>1. CASE s \in Sess
  BY <1>1
<1>2. CASE s \notin Sess
  BY <1>2, streams' = streams
<1> QED BY <1>1, <1>2

LEMMA DispatchInvInit == SetInit /\ DispatchInit => DispatchInv
BY DEF SetInit, DispatchInit, DispatchInv, UserOwned, ScanHasReader, User, Scanning, NoScan, ScanOf

LEMMA AcceptInv ==
    ASSUME DispatchInv, NEW u \in User, Accept(u)
    PROVE  DispatchInv' /\ UNCHANGED <<setVars, done>>
BY DEF DispatchInv, UserOwned, ScanHasReader, Scanning, Accept, setVars

\* Steps of others.
LEMMA DispatchUntouched ==
    ASSUME DispatchInv, UNCHANGED <<scan, upc, user>>
    PROVE  DispatchInv'
BY DEF DispatchInv, UserOwned, ScanHasReader, Scanning

\* Whatever ends the goroutine goes through Finish.
LEMMA FinishInv ==
    ASSUME DispatchInv, NEW u \in User, Finish(u),
           \/ scan' = scan /\ upc[u] # "scan"
           \/ ~Scanning(u)' /\ (\A v \in User \ {u} : scan'[v] = scan[v])
    PROVE  DispatchInv'
BY DEF DispatchInv, UserOwned, ScanHasReader, Scanning, Finish

\* Picks in progress go on or end without touching the sessions.
LEMMA PickUnscans ==
    ASSUME SetInv, NEW u \in User, PickEnd(u)
    PROVE  /\ Scanning(u) /\ ~Scanning(u)'
           /\ \A v \in User \ {u} : scan'[v] = scan[v]
BY DEF SetInv, SetShape, PickEnd, Scanned, Scanning, NoScan, ScanOf, User

LEMMA PickStarts ==
    ASSUME SetInv, NEW u \in User, PickBegin(u)
    PROVE  /\ Scanning(u)'
           /\ \A v \in User \ {u} : scan'[v] = scan[v]
BY DEF SetInv, SetShape, PickBegin, Scanning, ScanOf, User

LEMMA PickGoesOn ==
    ASSUME SetInv, NEW u \in User, (\E s \in Sess : PickLook(u, s)) \/ PickCount(u)
    PROVE  \A v \in User : Scanning(v)' = Scanning(v)
<1>1. CASE \E s \in Sess : PickLook(u, s)
  <2>1. PICK s \in Sess : PickLook(u, s)
    BY <1>1
  <2>2. scan' = [scan EXCEPT ![u] = [scan[u] EXCEPT !.todo = scan[u].todo \ {s},
                                                    !.at = IF IsClosed(s) THEN None ELSE s]]
    BY <2>1 DEF PickLook, SetInv, SetShape, User
  <2> QED
    BY <2>2 DEF SetInv, SetShape, ScanRec, Scanning, User
<1>2. CASE PickCount(u)
  <2>1. \E b \in {scan[u].best, scan[u].at}, m \in {scan[u].bestN, NumStreams(scan[u].at)} :
            scan' = [scan EXCEPT ![u] = [scan[u] EXCEPT !.at = None, !.best = b, !.bestN = m]]
    BY <1>2 DEF PickCount, SetInv, SetShape, User, ScanRec
  <2> QED
    BY <2>1 DEF SetInv, SetShape, ScanRec, Scanning, User
<1> QED BY <1>1, <1>2

\* A step of a user goroutine leaves the sessions themselves alone.
LEMMA DispatchStep ==
    ASSUME SetInv, DispatchInv, NEW u \in User, DispatchNext(u)
    PROVE  SetInv' /\ DispatchInv' /\ UNCHANGED <<status, registered, done>>
<1>1. CASE StartPick(u)
  <2>1. SetInv'
    BY <1>1, PickBeginInv DEF StartPick, User
  <2>2. UNCHANGED <<status, registered, done>>
    BY <1>1 DEF StartPick, PickBegin
  <2>3. DispatchInv'
    BY <1>1, PickStarts DEF StartPick, DispatchInv, UserOwned, ScanHasReader, Scanning
  <2> QED BY <2>1, <2>2, <2>3
<1>2. CASE Scan(u)
  <2>1. SetInv'
    BY <1>2, PickLookInv, PickCountInv DEF Scan, User
  <2>2. UNCHANGED <<status, registered, done, upc, user>>
    BY <1>2 DEF Scan, PickLook, PickCount, dispatchVars
  <2>3. DispatchInv'
    BY <1>2, <2>2, PickGoesOn DEF Scan, DispatchInv, UserOwned, ScanHasReader
  <2> QED BY <2>1, <2>2, <2>3
<1>3. CASE Picked(u)
  <2>1. SetInv'
    BY <1>3, PickEndInv DEF Picked, User
  <2>2. UNCHANGED <<status, registered, done>>
    BY <1>3 DEF Picked, PickEnd
  <2>3. DispatchInv'
    BY <1>3, PickUnscans DEF Picked, DispatchInv, UserOwned, ScanHasReader, Scanning
  <2> QED BY <2>1, <2>2, <2>3
<1>4. CASE PickedNone(u)
  <2>1. SetInv'
    BY <1>4, PickEndInv DEF PickedNone, User
  <2>2. UNCHANGED <<status, registered, done>>
    BY <1>4 DEF PickedNone, PickEnd
  <2>3. late[u] => DispatchInv'
    BY <1>4, PickUnscans, FinishInv DEF PickedNone
  <2>4. ~late[u] => DispatchInv'
    BY <1>4, PickUnscans DEF PickedNone, DispatchInv, UserOwned, ScanHasReader, Scanning
  <2>5. DispatchInv'
    BY <2>1, <2>3, <2>4
  <2> QED BY <2>1, <2>2, <2>5
<1>5. CASE Poll(u) \/ DeadlinePasses(u) \/ WriteHeader(u) \/ UserStalls(u)
  <2>1. UNCHANGED <<setVars, done, user>> /\ upc[u] # "none"
    BY <1>5 DEF Poll, DeadlinePasses, WriteHeader, UserStalls
  <2>2. upc[u] = "scan" <=> upc'[u] = "scan"
    BY <1>5 DEF Poll, DeadlinePasses, WriteHeader, UserStalls, DispatchInv
  <2>3. upc'[u] # "none" /\ \A v \in User \ {u} : upc'[v] = upc[v]
    BY <1>5 DEF Poll, DeadlinePasses, WriteHeader, UserStalls, DispatchInv
  <2>4. upc' \in [User -> {"none", "pick", "scan", "wait", "open", "header", "pipe", "stuck"}]
    BY <1>5 DEF Poll, DeadlinePasses, WriteHeader, UserStalls, DispatchInv
  <2>5. DispatchInv'
    BY <2>1, <2>2, <2>3, <2>4 DEF DispatchInv, UserOwned, ScanHasReader, Scanning, setVars
  <2> QED BY <2>1, <2>5, SessionStep DEF setVars, SetInv, SetShape, IsClosed
<1>6. CASE OpenStream(u)
  <2>1. /\ UNCHANGED <<status, inbound, registered, closing, scan, done, user>>
        /\ upc[u] = "open" /\ upc' = [upc EXCEPT ![u] = "header"]
        /\ streams' = [streams EXCEPT ![got[u]] = @ + 1]
    BY <1>6 DEF OpenStream
  <2>2. streams' \in [Sess -> Int]
    BY <2>1, CounterType, Zenon DEF SetInv, SetShape
  <2>3. SetInv'
    BY <2>1, <2>2, SessionStep DEF SetInv, SetShape, IsClosed
  <2>4. DispatchInv'
    BY <2>1 DEF DispatchInv, UserOwned, ScanHasReader, Scanning
  <2> QED BY <2>1, <2>3, <2>4
<1>7. CASE GiveUp(u) \/ OpenFails(u)
  <2>1. Finish(u) /\ UNCHANGED <<setVars, done>> /\ upc[u] # "scan"
    BY <1>7 DEF GiveUp, OpenFails
  <2>2. DispatchInv'
    BY <2>1, FinishInv DEF setVars
  <2> QED BY <2>1, <2>2, SessionStep DEF setVars, SetInv, SetShape, IsClosed
<1>8. CASE HeaderFails(u) \/ PipeEnds(u)
  <2>1. /\ UNCHANGED <<status, inbound, registered, closing, scan, done>>
        /\ upc[u] # "scan" /\ Finish(u)
        /\ streams' = [streams EXCEPT ![got[u]] = @ - 1]
    BY <1>8 DEF HeaderFails, PipeEnds, CloseBoth
  <2>2. streams' \in [Sess -> Int]
    BY <2>1, CounterType, Zenon DEF SetInv, SetShape
  <2>3. SetInv'
    BY <2>1, <2>2, SessionStep DEF SetInv, SetShape, IsClosed
  <2>4. DispatchInv'
    BY <2>1, FinishInv
  <2> QED BY <2>1, <2>3, <2>4
<1> QED
  BY <1>1, <1>2, <1>3, <1>4, <1>5, <1>6, <1>7, <1>8 DEF DispatchNext

-----------------------------------------------------------------------------
(* The streams of a session and the goroutines that own them.              *)

HoldsStream(u, s) == upc[u] \in HasStream /\ got[u] = s
StreamUsers(s) == {u \in User : HoldsStream(u, s)}

\* From OpenStream on a goroutine has a session.
GotSession ==
    /\ got \in [User -> Sess \cup {None}]
    /\ \A u \in User : upc[u] \in {"open"} \cup HasStream => got[u] \in Sess

StreamsInv == GotSession /\ StreamsOwned

LEMMA StreamUsersFinite == ASSUME NEW s PROVE IsFiniteSet(StreamUsers(s))
BY SessAssumption, FS_Subset DEF StreamUsers, User

LEMMA StreamsInvInit == SetInit /\ DispatchInit => StreamsInv
<1> SUFFICES ASSUME SetInit, DispatchInit PROVE StreamsInv
  OBVIOUS
<1>1. \A s : StreamUsers(s) = {}
  BY DEF DispatchInit, StreamUsers, HoldsStream, HasStream
<1>2. StreamsOwned
  BY <1>1, FS_EmptySet DEF StreamsOwned, SetInit, StreamUsers, HoldsStream, HasStream
<1> QED BY <1>2 DEF DispatchInit, StreamsInv, GotSession, HasStream

\* A step after which the same goroutines hold the same streams.
LEMMA SameStreams ==
    ASSUME StreamsOwned, UNCHANGED streams,
           \A s \in Sess, v \in User : HoldsStream(v, s)' <=> HoldsStream(v, s)
    PROVE  StreamsOwned'
<1>1. \A s \in Sess : StreamUsers(s)' = StreamUsers(s)
  BY DEF StreamUsers
<1> QED BY <1>1 DEF StreamsOwned, StreamUsers, HoldsStream, HasStream

LEMMA StreamsUntouched ==
    ASSUME StreamsInv, UNCHANGED <<streams, upc, got>>
    PROVE  StreamsInv'
BY SameStreams DEF StreamsInv, GotSession, HoldsStream, HasStream

LEMMA AcceptStreamsInv ==
    ASSUME DispatchInv, StreamsInv, NEW u \in User, Accept(u)
    PROVE  StreamsInv'
BY SameStreams DEF StreamsInv, GotSession, HoldsStream, HasStream, Accept, setVars, DispatchInv

LEMMA UserStreamsInv ==
    ASSUME SetInv, DispatchInv, StreamsInv, NEW u \in User, DispatchNext(u)
    PROVE  StreamsInv'
<1> USE DEF StreamsInv, GotSession, HasStream
<1>0. upc \in [User -> {"none", "pick", "scan", "wait", "open", "header", "pipe", "stuck"}]
  BY DEF DispatchInv
<1>1. CASE StartPick(u) \/ Poll(u) \/ DeadlinePasses(u)
  <2>1. /\ UNCHANGED <<streams, got>>
        /\ \/ upc' = upc
           \/ upc[u] \in {"pick", "wait"} /\ \E l \in {"scan", "pick"} : upc' = [upc EXCEPT ![u] = l]
    BY <1>1 DEF StartPick, PickBegin, Poll, DeadlinePasses, setVars
  <2> QED BY <1>0, <2>1, SameStreams DEF HoldsStream, HasStream
<1>2. CASE Scan(u)
  <2>1. UNCHANGED <<streams, upc, got>>
    BY <1>2 DEF Scan, PickLook, PickCount, dispatchVars
  <2> QED BY <2>1, StreamsUntouched
<1>3. CASE Picked(u)
  <2>1. /\ upc[u] = "scan" /\ UNCHANGED streams
        /\ upc' = [upc EXCEPT ![u] = "open"]
        /\ got' = [got EXCEPT ![u] = scan[u].best]
        /\ scan[u].best \in Sess
    BY <1>3 DEF Picked, PickEnd, Scanned, DispatchInv, ScanHasReader, SetInv, SetShape, ScanRec, User
  <2> QED BY <1>0, <2>1, SameStreams DEF HoldsStream, HasStream
<1>4. CASE PickedNone(u) \/ GiveUp(u) \/ OpenFails(u)
  <2>1. /\ upc[u] \in {"scan", "wait", "open"} /\ UNCHANGED streams
        /\ \/ upc' = [upc EXCEPT ![u] = "none"] /\ got' = [got EXCEPT ![u] = None]
           \/ upc' = [upc EXCEPT ![u] = "wait"] /\ got' = got
    BY <1>4 DEF PickedNone, PickEnd, Scanned, DispatchInv, ScanHasReader, GiveUp, OpenFails,
       Finish, setVars
  <2> QED BY <1>0, <2>1, SameStreams, SessAssumption DEF HoldsStream, HasStream
<1>5. CASE WriteHeader(u) \/ UserStalls(u)
  <2>1. /\ upc[u] \in HasStream /\ UNCHANGED <<streams, got>>
        /\ \E l \in HasStream : upc' = [upc EXCEPT ![u] = l]
    BY <1>5 DEF WriteHeader, UserStalls, setVars
  <2> QED BY <1>0, <2>1, SameStreams DEF HoldsStream, HasStream
<1>6. CASE OpenStream(u)
  <2>1. /\ upc[u] = "open" /\ upc' = [upc EXCEPT ![u] = "header"] /\ got' = got
        /\ streams' = [streams EXCEPT ![got[u]] = @ + 1] /\ got[u] \in Sess
    BY <1>6 DEF OpenStream
  <2>2. ASSUME NEW s \in Sess
        PROVE  streams'[s] = Cardinality(StreamUsers(s)')
    <3>1. StreamUsers(s)' = IF s = got[u] THEN StreamUsers(s) \cup {u} ELSE StreamUsers(s)
      BY <1>0, <2>1 DEF StreamUsers, HoldsStream, HasStream
    <3>2. u \notin StreamUsers(s)
      BY <2>1 DEF StreamUsers, HoldsStream, HasStream
    <3>3. streams[s] = Cardinality(StreamUsers(s))
      BY DEF StreamsOwned, StreamUsers, HoldsStream, HasStream
    <3>4. streams'[s] = IF s = got[u] THEN streams[s] + 1 ELSE streams[s]
      BY <2>1 DEF SetInv, SetShape
    <3>5. Cardinality(StreamUsers(s) \cup {u}) = Cardinality(StreamUsers(s)) + 1
      BY <3>2, StreamUsersFinite, FS_AddElement
    <3> QED BY <3>1, <3>3, <3>4, <3>5
  <2>3. StreamsOwned'
    BY <2>2 DEF StreamsOwned, StreamUsers, HoldsStream, HasStream
  <2>4. GotSession'
    BY <1>0, <2>1 DEF GotSession
  <2> QED BY <2>3, <2>4
<1>7. CASE HeaderFails(u) \/ PipeEnds(u)
  <2>1. /\ upc[u] \in HasStream
        /\ upc' = [upc EXCEPT ![u] = "none"] /\ got' = [got EXCEPT ![u] = None]
        /\ streams' = [streams EXCEPT ![got[u]] = @ - 1] /\ got[u] \in Sess
    BY <1>7 DEF HeaderFails, PipeEnds, CloseBoth, Finish
  <2>2. ASSUME NEW s \in Sess
        PROVE  streams'[s] = Cardinality(StreamUsers(s)')
    <3>1. StreamUsers(s)' = IF s = got[u] THEN StreamUsers(s) \ {u} ELSE StreamUsers(s)
      BY <1>0, <2>1, SessAssumption DEF StreamUsers, HoldsStream, HasStream
    <3>2. s = got[u] => u \in StreamUsers(s)
      BY <2>1 DEF StreamUsers, HoldsStream, HasStream
    <3>3. streams[s] = Cardinality(StreamUsers(s))
      BY DEF StreamsOwned, StreamUsers, HoldsStream, HasStream
    <3>4. streams'[s] = IF s = got[u] THEN streams[s] - 1 ELSE streams[s]
      BY <2>1 DEF SetInv, SetShape
    <3>5. s = got[u] => Cardinality(StreamUsers(s) \ {u}) = Cardinality(StreamUsers(s)) - 1
      BY <3>2, StreamUsersFinite, FS_RemoveElement
    <3> QED BY <3>1, <3>3, <3>4, <3>5
  <2>3. StreamsOwned'
    BY <2>2 DEF StreamsOwned, StreamUsers, HoldsStream, HasStream
  <2> QED BY <1>0, <2>1, <2>3
<1> QED
  BY <1>1, <1>2, <1>3, <1>4, <1>5, <1>6, <1>7 DEF DispatchNext
=============================================================================

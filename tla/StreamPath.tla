----------------------------- MODULE StreamPath -----------------------------
(***************************************************************************)
(* One TCP connection of a user across both ends of the tunnel: the header   *)
(* its dispatcher writes, handleForwardStream or handleReverseStream at the  *)
(* other end, the dial to the target, and pipe on both sides.  Every link   *)
(* holds a bounded number of chunks, so that a writer whose reader has       *)
(* stopped is blocked.  near is the end that accepted the user.              *)
(***************************************************************************)
EXTENDS Integers

CONSTANTS
    Payloads,      \* service names and targets
    TooLong,       \* those over maxHeaderLen
    ServiceMap,    \* names with a local target on the client
    AllowForward,  \* the server's allow_forward
    Whitelist,     \* the server's forward_whitelist
    Blocked,       \* link-local, multicast, unspecified and malformed targets
    Room,          \* bound: chunks a link holds
    Chunks         \* bound: chunks a peer sends

StreamPathAssumption ==
    /\ TooLong \cup ServiceMap \cup Whitelist \cup Blocked \subseteq Payloads
    /\ AllowForward \in BOOLEAN /\ Room \in Nat \ {0} /\ Chunks \in Nat

ASSUME StreamPathAssumption

VARIABLES
    way,      \* "forward" or "reverse"
    payload,  \* the name or the target in the header
    header,   \* the header is in the stream
    session,  \* the session under the stream is alive
    conn,     \* what each peer did with its connection
    held,     \* the tunnel's end still holds the connection to its peer
    fin,      \* the end has closed its side of the stream
    at,       \* where each end's goroutine stands
    copying,  \* the copies of each end that still run
    link,     \* link[d][k]: chunks in the k-th link of direction d
    sent, got \* chunks per direction at the first and the last peer

pathVars == <<way, payload, header, session, conn, held, fin, at, copying, link, sent, got>>
data == <<link, sent, got>>
request == <<way, payload>>

Side == {"near", "far"}
Dir == {"up", "down"}
Other(x) == IF x = "near" THEN "far" ELSE "near"
Source(d) == IF d = "up" THEN "near" ELSE "far"   \* the end whose peer sends
Target(d) == Other(Source(d))
Back(d) == IF d = "up" THEN "down" ELSE "up"

PathInit ==
    /\ way \in {"forward", "reverse"} /\ payload \in Payloads
    /\ header = FALSE /\ session = TRUE
    /\ conn = [x \in Side |-> IF x = "near" THEN "open" ELSE "none"]
    /\ held = [x \in Side |-> x = "near"]
    /\ fin = [x \in Side |-> FALSE]
    /\ at = [x \in Side |-> "header"]
    /\ copying = [x \in Side |-> {}]
    /\ link = [d \in Dir |-> [k \in 1..3 |-> 0]]
    /\ sent = [d \in Dir |-> 0] /\ got = [d \in Dir |-> 0]

\* Stream and peer are closed.
Close(x) == fin' = [fin EXCEPT ![x] = TRUE] /\ held' = [held EXCEPT ![x] = FALSE]

\* The goroutine returns from an error path after closing what it has.
Abandon(x) ==
    /\ Close(x) /\ at' = [at EXCEPT ![x] = "done"]
    /\ UNCHANGED <<request, header, session, conn, copying, data>>

EnterPipe(x) == at' = [at EXCEPT ![x] = "pipe"] /\ copying' = [copying EXCEPT ![x] = Dir]

-----------------------------------------------------------------------------
(* The header, and what the far end makes of it.                           *)

WriteStreamHeader ==
    /\ at["near"] = "header" /\ session /\ payload \notin TooLong
    /\ header' = TRUE /\ EnterPipe("near")
    /\ UNCHANGED <<request, session, conn, held, fin, data>>

\* Too long a payload, the ten seconds of the deadline, or a dead session.
HeaderFails == at["near"] = "header" /\ Abandon("near")

\* Whom the far end dials for: the client its own services, the server what its
\* forward policy allows; a whitelist replaces the blocked ranges.
Allowed ==
    IF way = "reverse" THEN payload \in ServiceMap
    ELSE AllowForward /\ IF Whitelist # {} THEN payload \in Whitelist ELSE payload \notin Blocked

ReadStreamHeader ==
    /\ at["far"] = "header" /\ header
    /\ \/ /\ Allowed /\ at' = [at EXCEPT !["far"] = "dial"]
          /\ UNCHANGED <<request, header, session, conn, held, fin, copying, data>>
       \/ ~Allowed /\ Abandon("far")

\* The header is read without a deadline: only the end of the stream ends the wait.
NoHeader == at["far"] = "header" /\ (fin["near"] \/ ~session) /\ Abandon("far")

Dialed ==
    /\ at["far"] = "dial"
    /\ conn' = [conn EXCEPT !["far"] = "open"] /\ held' = [held EXCEPT !["far"] = TRUE]
    /\ EnterPipe("far")
    /\ UNCHANGED <<request, header, session, fin, data>>

\* Refused, or not answered within tcpDialWait.
DialFails == at["far"] = "dial" /\ Abandon("far")

-----------------------------------------------------------------------------
(* pipe: a copy per direction at each end.                                 *)

\* The links the copy of direction d at end x reads and writes.
From(x, d) == IF x = Source(d) THEN 1 ELSE 2
Onto(x, d) == From(x, d) + 1

\* No more chunks will come: a peer that shut or closed its connection, or the end
\* of the stream.
NoMore(x, d) ==
    \/ fin[x]
    \/ IF From(x, d) = 1 THEN conn[x] # "open" ELSE fin[Other(x)] \/ ~session

\* A write fails: the peer has closed, or the stream or the session has ended.
Broken(x, d) ==
    \/ fin[x]
    \/ IF Onto(x, d) = 3 THEN conn[x] = "gone" ELSE fin[Other(x)] \/ ~session

\* A chunk goes from the k-th link to the next.
Moved(row, k) == [row EXCEPT ![k] = row[k] - 1, ![k + 1] = row[k + 1] + 1]

Copy(x, d) ==
    /\ d \in copying[x] /\ ~fin[x]
    /\ link[d][From(x, d)] > 0 /\ link[d][Onto(x, d)] < Room
    /\ link' = [link EXCEPT ![d] = Moved(link[d], From(x, d))]
    /\ UNCHANGED <<request, header, session, conn, held, fin, at, copying, sent, got>>

EndsEarly(x, d) == NoMore(x, d) \* Slip (AllOfItArrives): what has arrived before the end is not read

\* A reader sees the end after everything that came before it; one whose own end has
\* closed, or whose session has died, may see it at once.
EndOfInput(x, d) ==
    /\ NoMore(x, d)
    /\ link[d][From(x, d)] = 0 \/ fin[x] \/ (~session /\ From(x, d) = 2)

CopyEnds(x, d) ==
    /\ d \in copying[x]
    /\ EndOfInput(x, d) \/ (link[d][From(x, d)] > 0 /\ Broken(x, d))
    /\ copying' = [copying EXCEPT ![x] = @ \ {d}]
    /\ UNCHANGED <<request, header, session, conn, held, fin, at, data>>

BothEnded(x) == copying[x] = {} \* Slip (BothEndsRelease): pipe waits for both directions

OneEnded(x) == copying[x] # Dir

\* The first copy to end closes both connections, which ends the other one.
PipeCloses(x) ==
    /\ at[x] = "pipe" /\ OneEnded(x) /\ ~fin[x]
    /\ Close(x)
    /\ UNCHANGED <<request, header, session, conn, at, copying, data>>

PipeReturns(x) ==
    /\ at[x] = "pipe" /\ fin[x] /\ copying[x] = {}
    /\ at' = [at EXCEPT ![x] = "done"]
    /\ UNCHANGED <<request, header, session, conn, held, fin, copying, data>>

-----------------------------------------------------------------------------
(* The peers and the session.                                              *)

Send(d) ==
    /\ held[Source(d)] /\ conn[Source(d)] = "open" /\ sent[d] < Chunks /\ link[d][1] < Room
    /\ sent' = [sent EXCEPT ![d] = @ + 1]
    /\ link' = [link EXCEPT ![d][1] = @ + 1]
    /\ UNCHANGED <<request, header, session, conn, held, fin, at, copying, got>>

Read(d) ==
    /\ conn[Target(d)] \in {"open", "shut"} /\ link[d][3] > 0
    /\ link' = [link EXCEPT ![d][3] = @ - 1]
    /\ got' = [got EXCEPT ![d] = @ + 1]
    /\ UNCHANGED <<request, header, session, conn, held, fin, at, copying, sent>>

\* A peer says that it will send no more, or closes.
Shut(x) ==
    /\ conn[x] = "open" /\ conn' = [conn EXCEPT ![x] = "shut"]
    /\ UNCHANGED <<request, header, session, held, fin, at, copying, data>>

Leave(x) ==
    /\ conn[x] \in {"open", "shut"} /\ conn' = [conn EXCEPT ![x] = "gone"]
    /\ UNCHANGED <<request, header, session, held, fin, at, copying, data>>

SessionDies ==
    /\ session /\ session' = FALSE
    /\ UNCHANGED <<request, header, conn, held, fin, at, copying, data>>

-----------------------------------------------------------------------------
End(x, d) == Copy(x, d) \/ CopyEnds(x, d)

PathNext ==
    \/ WriteStreamHeader \/ HeaderFails \/ ReadStreamHeader \/ NoHeader \/ Dialed \/ DialFails
    \/ \E x \in Side : PipeCloses(x) \/ PipeReturns(x) \/ Shut(x) \/ Leave(x) \/ \E d \in Dir : End(x, d)
    \/ \E d \in Dir : Send(d) \/ Read(d)
    \/ SessionDies

\* Every goroutine that can go on does, deadlines pass, and the peers read what is
\* sent to them.
PathFairness ==
    /\ WF_pathVars(WriteStreamHeader \/ HeaderFails)
    /\ WF_pathVars(ReadStreamHeader \/ NoHeader) /\ WF_pathVars(Dialed \/ DialFails)
    /\ \A x \in Side : WF_pathVars(PipeCloses(x) \/ PipeReturns(x)) /\ \A d \in Dir : WF_pathVars(End(x, d))
    /\ \A d \in Dir : WF_pathVars(Read(d))

PathSpec == PathInit /\ [][PathNext]_pathVars /\ PathFairness

-----------------------------------------------------------------------------
(* Properties.                                                             *)

\* When a peer half-closes after its last chunk, the other keeps its connection open
\* and the session lives, everything that was sent has reached the other's socket
\* before the tunnel closes it, unless what the other sent was cut off too: pipe
\* answers the half-close with a full close, and an answer under way at that time
\* is lost, but the teardown of the two pipes cuts off nothing else.
AllOfItArrives ==
    \A d \in Dir :
        /\ conn[Source(d)] = "shut" /\ conn[Target(d)] = "open" /\ ~held[Target(d)] /\ session
        /\ got[Back(d)] = sent[Back(d)]
        => got[d] + link[d][3] = sent[d]

\* Whatever ends a connection first (a peer, a refusal, a dial that fails, the
\* session), both goroutines return with both streams and both connections closed:
\* a dial that completes late included.
BothEndsRelease ==
    (\E x \in Side : conn[x] \in {"shut", "gone"} \/ at[x] = "done") \/ ~session
        ~> \A x \in Side : at[x] = "done" /\ fin[x] /\ ~held[x]
=============================================================================

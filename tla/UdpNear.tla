------------------------------- MODULE UdpNear -------------------------------
(***************************************************************************)
(* The near end of UDP tunnelling, serveUDPListener with its udpFlows map:  *)
(* one loop reads datagrams from the local socket and writes each to the    *)
(* stream of its source, opening a stream for a new source; one goroutine   *)
(* per stream carries the replies back and, when reading fails or the flow  *)
(* is idle, takes the flow out of the map.                                  *)
(*                                                                          *)
(* The hazard is that loop and readers change the map concurrently: a       *)
(* reader may reach del long after the loop has replaced its stream by a    *)
(* fresh one for the same source.  Timing is in UdpPath; here a reader may  *)
(* find its deadline passed at any time.                                    *)
(***************************************************************************)
EXTENDS Naturals, FiniteSets

CONSTANTS
    Key,      \* source addresses
    Stream,   \* stream names; one that is closed and unreferenced is free
    None      \* the nil stream

ASSUME NoneAssumption == None \notin Stream \cup Key

VARIABLES
    sock,     \* the UDP socket pc is open
    main,     \* where the loop of serveUDPListener stands
    cur,      \* its variable key
    strm,     \* its variable stream
    flows,    \* udpFlows.m
    st,       \* smux: the stream is open, dead (peer or session gone) or closed
    rd,       \* where the reader goroutine of each stream stands
    rkey      \* the key the goroutine was started with

vars == <<sock, main, cur, strm, flows, st, rd, rkey>>

TypeOK ==
    /\ sock \in BOOLEAN
    /\ main \in {"recv", "get", "open", "write", "del", "close", "closeAll", "returned"}
    /\ cur \in Key \cup {None}
    /\ strm \in Stream \cup {None}
    /\ flows \in [Key -> Stream \cup {None}]
    /\ st \in [Stream -> {"open", "dead", "closed"}]
    /\ rd \in [Stream -> {"none", "reading", "del", "close"}]
    /\ rkey \in [Stream -> Key \cup {None}]

Init ==
    /\ sock = TRUE
    /\ main = "recv"
    /\ cur = None
    /\ strm = None
    /\ flows = [k \in Key |-> None]
    /\ st = [s \in Stream |-> "closed"]
    /\ rd = [s \in Stream |-> "none"]
    /\ rkey = [s \in Stream |-> None]

-----------------------------------------------------------------------------
(* A definition marked Slip is a plausible mistake in the code next to it; the *)
(* property it names notices it.                                           *)
(*                                                                         *)
(* udpFlows: each is one critical section of the map's mutex.              *)

\* Slip (NoOrphan): no identity check.
UnmapKey(k, s) == flows' = [flows EXCEPT ![k] = None]

\* del, up to the unlock: the identity check protects a flow opened since.
Unmap(k, s) == flows' = IF flows[k] = s THEN [flows EXCEPT ![k] = None] ELSE flows

CloseStream(s) == st' = [st EXCEPT ![s] = "closed"]

-----------------------------------------------------------------------------
(* The loop.                                                               *)

Recv(k) ==
    /\ main = "recv" /\ sock
    /\ main' = "get"
    /\ cur' = k
    /\ UNCHANGED <<sock, strm, flows, st, rd, rkey>>

\* The socket has been closed: return, and closeAll on the way out.
RecvFails ==
    /\ main = "recv" /\ ~sock
    /\ main' = "closeAll"
    /\ UNCHANGED <<sock, cur, strm, flows, st, rd, rkey>>

\* Slip (NoCrossTalk): the key leaves out what tells two sources apart.
GetAnySource ==
    /\ main = "get"
    /\ \E k \in Key : /\ strm' = flows[k]
                     /\ main' = IF flows[k] = None THEN "open" ELSE "write"
    /\ UNCHANGED <<sock, cur, flows, st, rd, rkey>>

Get ==
    /\ main = "get"
    /\ strm' = flows[cur]
    /\ main' = IF flows[cur] = None THEN "open" ELSE "write"
    /\ UNCHANGED <<sock, cur, flows, st, rd, rkey>>

Free(s) == st[s] = "closed" /\ rd[s] = "none" /\ s # strm /\ \A k \in Key : flows[k] # s

\* Slip (MappedIsWatched): the reader is not started.
OpenUnread(s) ==
    /\ main = "open" /\ Free(s)
    /\ main' = "write"
    /\ strm' = s
    /\ st' = [st EXCEPT ![s] = "open"]
    /\ flows' = [flows EXCEPT ![cur] = s]
    /\ rkey' = [rkey EXCEPT ![s] = cur]
    /\ UNCHANGED <<sock, cur, rd>>

\* open waits for a session, opens a stream and writes its header; the flow is
\* put into the map and its reader started.  Nobody else puts.
OpenOk(s) ==
    /\ main = "open" /\ Free(s)
    /\ main' = "write"
    /\ strm' = s
    /\ st' = [st EXCEPT ![s] = "open"]
    /\ flows' = [flows EXCEPT ![cur] = s]
    /\ rd' = [rd EXCEPT ![s] = "reading"]
    /\ rkey' = [rkey EXCEPT ![s] = cur]
    /\ UNCHANGED <<sock, cur>>

\* No tunnel: the datagram is dropped.
OpenFails ==
    /\ main = "open"
    /\ main' = "recv"
    /\ UNCHANGED <<sock, cur, strm, flows, st, rd, rkey>>

\* The deadline is refreshed and the datagram written ...
WriteOk ==
    /\ main = "write" /\ st[strm] = "open"
    /\ main' = "recv"
    /\ strm' = None
    /\ UNCHANGED <<sock, cur, flows, st, rd, rkey>>

\* ... or the stream is no longer usable, and the flow is dropped.
WriteFails ==
    /\ main = "write" /\ st[strm] # "open"
    /\ main' = "del"
    /\ UNCHANGED <<sock, cur, strm, flows, st, rd, rkey>>

DropFlow ==
    /\ main = "del"
    /\ main' = "close"
    /\ Unmap(cur, strm)
    /\ UNCHANGED <<sock, cur, strm, st, rd, rkey>>

DropStream ==
    /\ main = "close"
    /\ main' = "recv"
    /\ CloseStream(strm)
    /\ strm' = None
    /\ UNCHANGED <<sock, cur, flows, rd, rkey>>

\* Slip (Drains): the map is emptied, the streams stay open.
ForgetAll ==
    /\ main = "closeAll"
    /\ main' = "returned"
    /\ flows' = [k \in Key |-> None]
    /\ UNCHANGED <<sock, cur, strm, st, rd, rkey>>

CloseAll ==
    /\ main = "closeAll"
    /\ main' = "returned"
    /\ st' = [s \in Stream |-> IF \E k \in Key : flows[k] = s THEN "closed" ELSE st[s]]
    /\ flows' = [k \in Key |-> None]
    /\ UNCHANGED <<sock, cur, strm, rd, rkey>>

-----------------------------------------------------------------------------
(* The reader goroutine of a stream.                                       *)

\* A read fails: the stream is gone, or the idle deadline has passed.
ReadFails(s) ==
    /\ rd[s] = "reading"
    /\ rd' = [rd EXCEPT ![s] = "del"]
    /\ UNCHANGED <<sock, main, cur, strm, flows, st, rkey>>

ReaderUnmaps(s) ==
    /\ rd[s] = "del"
    /\ rd' = [rd EXCEPT ![s] = "close"]
    /\ Unmap(rkey[s], s)
    /\ UNCHANGED <<sock, main, cur, strm, st, rkey>>

ReaderCloses(s) ==
    /\ rd[s] = "close"
    /\ rd' = [rd EXCEPT ![s] = "none"]
    /\ rkey' = [rkey EXCEPT ![s] = None]
    /\ CloseStream(s)
    /\ UNCHANGED <<sock, main, cur, strm, flows>>

\* The far end closes the stream, or the session under it dies.
StreamDies(s) ==
    /\ st[s] = "open"
    /\ st' = [st EXCEPT ![s] = "dead"]
    /\ UNCHANGED <<sock, main, cur, strm, flows, rd, rkey>>

\* Client.Close or Server.Close closes the socket.
SocketCloses ==
    /\ sock
    /\ sock' = FALSE
    /\ UNCHANGED <<main, cur, strm, flows, st, rd, rkey>>

-----------------------------------------------------------------------------
Loop ==
    \/ RecvFails \/ Get \/ OpenFails \/ (\E s \in Stream : OpenOk(s)) \/ WriteOk \/ WriteFails
    \/ DropFlow \/ DropStream \/ CloseAll

Next ==
    \/ \E k \in Key : Recv(k)
    \/ Loop
    \/ \E s \in Stream : ReadFails(s) \/ ReaderUnmaps(s) \/ ReaderCloses(s) \/ StreamDies(s)
    \/ SocketCloses

Spec == Init /\ [][Next]_vars

\* open and the stream write return in bounded time, and so does a read from a
\* stream that is dead or closed.
Fairness ==
    /\ WF_vars(Loop)
    /\ \A s \in Stream : /\ WF_vars(ReadFails(s) /\ st[s] # "open")
                         /\ WF_vars(ReaderUnmaps(s)) /\ WF_vars(ReaderCloses(s))

LiveSpec == Spec /\ Fairness

-----------------------------------------------------------------------------
(* Properties.                                                             *)

\* The loop is about to take the stream down.
LoopDrops(s) == strm = s /\ main = "close"

\* A flow in the map is the flow of that source and has a reader that will still
\* take it out: the map never keeps a stream nobody watches.
MappedIsWatched ==
    \A k \in Key : flows[k] # None => rkey[flows[k]] = k /\ rd[flows[k]] \in {"reading", "del"}

\* A stream with a reader at work is in the map, so the loop uses it and its replies
\* belong to a current flow; a reader left over from an earlier flow of the same
\* source never evicts the fresh one.
NoOrphan ==
    \A s \in Stream :
        rd[s] = "reading" /\ st[s] # "closed" => flows[rkey[s]] = s \/ LoopDrops(s)

\* Whatever the readers do meanwhile, the loop writes a source's datagram to a
\* stream opened for that source, or to one already closed, where writing fails.
NoCrossTalk ==
    main = "write" => rkey[strm] = cur \/ (st[strm] = "closed" /\ rd[strm] = "none")

\* After the socket has been closed every stream is closed, every reader has
\* returned and the map is empty.
Drains ==
    ~sock ~> /\ main = "returned"
             /\ \A s \in Stream : st[s] = "closed" /\ rd[s] = "none"
             /\ \A k \in Key : flows[k] = None
=============================================================================

----------------------------- MODULE PathProofs -----------------------------
(***************************************************************************)
(* What carries a user's data, for any number of sources, streams, chunks   *)
(* and ticks.                                                               *)
(*                                                                         *)
(* UdpNear: the map of flows and the reader goroutines stay in step.  The   *)
(* properties are inductive together with where the loop's variables point, *)
(* and with the fact the code relies on without saying: between get and put *)
(* nobody else maps the loop's source.                                      *)
(*                                                                         *)
(* UdpPath: the deadline of the near end's reader runs no faster than the   *)
(* silence in either direction.                                             *)
(*                                                                         *)
(* StreamPath: between a half-close and the close it provokes at the other  *)
(* end, the two pipes stop in an order that loses nothing.                  *)
(***************************************************************************)
EXTENDS UdpNear, UdpPath, StreamPath, TLAPS

-----------------------------------------------------------------------------
(* serveUDPListener and its readers.                                        *)

\* The loop's own variables.
LoopVars ==
    /\ main \in {"get", "open", "write", "del", "close"} => cur \in Key
    /\ main \in {"write", "del", "close"} <=> strm # None
    /\ main = "open" => flows[cur] = None

\* A reader knows its source; a stream without one is closed.
ReaderVars ==
    \A s \in Stream : /\ rd[s] # "none" => rkey[s] \in Key
                      /\ rd[s] = "none" => st[s] = "closed"

IInv ==
    /\ TypeOK
    /\ LoopVars
    /\ ReaderVars
    /\ MappedIsWatched
    /\ NoOrphan
    /\ NoCrossTalk

LEMMA InvInit == Init => IInv
BY NoneAssumption DEF Init, IInv, TypeOK, LoopVars, ReaderVars, MappedIsWatched, NoOrphan,
   NoCrossTalk, LoopDrops

\* Taking a flow out of the map only if it is the given stream.
LEMMA UnmapFacts ==
    ASSUME TypeOK, NEW k \in Key, NEW s \in Stream, Unmap(k, s)
    PROVE  /\ flows' \in [Key -> Stream \cup {None}]
           /\ \A j \in Key : flows'[j] = flows[j] \/ (j = k /\ flows[k] = s /\ flows'[j] = None)
           /\ flows'[k] # s
BY NoneAssumption DEF Unmap, TypeOK

LEMMA InvStep == IInv /\ [Next]_vars => IInv'
<1> SUFFICES ASSUME IInv, [Next]_vars PROVE IInv'
  OBVIOUS
<1> USE NoneAssumption DEF IInv
<1>1. ASSUME NEW k \in Key, Recv(k) PROVE IInv'
  BY <1>1 DEF Recv, TypeOK, LoopVars, ReaderVars, MappedIsWatched, NoOrphan, NoCrossTalk, LoopDrops
<1>2. ASSUME RecvFails PROVE IInv'
  BY <1>2 DEF RecvFails, TypeOK, LoopVars, ReaderVars, MappedIsWatched, NoOrphan, NoCrossTalk, LoopDrops
<1>3. ASSUME Get PROVE IInv'
  BY <1>3 DEF Get, TypeOK, LoopVars, ReaderVars, MappedIsWatched, NoOrphan, NoCrossTalk, LoopDrops
<1>4. ASSUME NEW s \in Stream, OpenOk(s) PROVE IInv'
  <2>1. /\ main = "open" /\ main' = "write" /\ strm' = s /\ UNCHANGED <<sock, cur>>
        /\ st' = [st EXCEPT ![s] = "open"] /\ flows' = [flows EXCEPT ![cur] = s]
        /\ rd' = [rd EXCEPT ![s] = "reading"] /\ rkey' = [rkey EXCEPT ![s] = cur]
        /\ rd[s] = "none" /\ \A k \in Key : flows[k] # s
        /\ cur \in Key /\ flows[cur] = None /\ strm = None
    BY <1>4 DEF OpenOk, Free, LoopVars
  <2>2. TypeOK' /\ LoopVars' /\ ReaderVars' /\ NoCrossTalk'
    BY <2>1 DEF TypeOK, LoopVars, ReaderVars, NoCrossTalk
  <2>3. MappedIsWatched'
    BY <2>1 DEF TypeOK, MappedIsWatched
  <2>4. NoOrphan'
    <3> SUFFICES ASSUME NEW t \in Stream, rd'[t] = "reading", st'[t] # "closed"
                 PROVE  flows'[rkey'[t]] = t
      BY DEF NoOrphan
    <3>1. CASE t = s
      BY <2>1, <3>1 DEF TypeOK
    <3>2. CASE t # s
      BY <2>1, <3>2 DEF TypeOK, NoOrphan, LoopDrops, ReaderVars
    <3> QED BY <3>1, <3>2
  <2> QED BY <2>2, <2>3, <2>4
<1>5. ASSUME OpenFails PROVE IInv'
  BY <1>5 DEF OpenFails, TypeOK, LoopVars, ReaderVars, MappedIsWatched, NoOrphan, NoCrossTalk, LoopDrops
<1>6. ASSUME WriteOk \/ WriteFails PROVE IInv'
  BY <1>6 DEF WriteOk, WriteFails, TypeOK, LoopVars, ReaderVars, MappedIsWatched, NoOrphan,
     NoCrossTalk, LoopDrops
<1>7. ASSUME DropFlow PROVE IInv'
  <2>1. /\ main = "del" /\ main' = "close" /\ cur \in Key /\ strm \in Stream
        /\ Unmap(cur, strm) /\ UNCHANGED <<sock, cur, strm, st, rd, rkey>>
    BY <1>7 DEF DropFlow, LoopVars, TypeOK
  <2>2. /\ flows' \in [Key -> Stream \cup {None}]
        /\ \A j \in Key : flows'[j] = flows[j]
                          \/ (j = cur /\ flows[cur] = strm /\ flows'[j] = None)
    BY <2>1, UnmapFacts
  <2>3. TypeOK' /\ LoopVars' /\ ReaderVars' /\ NoCrossTalk' /\ MappedIsWatched'
    BY <2>1, <2>2 DEF TypeOK, LoopVars, ReaderVars, NoCrossTalk, MappedIsWatched
  <2>4. NoOrphan'
    <3> SUFFICES ASSUME NEW t \in Stream, rd[t] = "reading", st[t] # "closed", t # strm
                 PROVE  flows'[rkey[t]] = t
      BY <2>1 DEF NoOrphan, LoopDrops
    <3> QED BY <2>1, <2>2 DEF NoOrphan, LoopDrops, ReaderVars
  <2> QED BY <2>3, <2>4
<1>8. ASSUME DropStream PROVE IInv'
  BY <1>8 DEF DropStream, CloseStream, TypeOK, LoopVars, ReaderVars, MappedIsWatched, NoOrphan,
     NoCrossTalk, LoopDrops
<1>9. ASSUME CloseAll PROVE IInv'
  BY <1>9 DEF CloseAll, TypeOK, LoopVars, ReaderVars, MappedIsWatched, NoOrphan, NoCrossTalk, LoopDrops
<1>10. ASSUME NEW s \in Stream, ReadFails(s) PROVE IInv'
  BY <1>10 DEF ReadFails, TypeOK, LoopVars, ReaderVars, MappedIsWatched, NoOrphan, NoCrossTalk, LoopDrops
<1>11. ASSUME NEW s \in Stream, ReaderUnmaps(s) PROVE IInv'
  <2>1. /\ rd[s] = "del" /\ rd' = [rd EXCEPT ![s] = "close"] /\ rkey[s] \in Key
        /\ Unmap(rkey[s], s) /\ UNCHANGED <<sock, main, cur, strm, st, rkey>>
    BY <1>11 DEF ReaderUnmaps, ReaderVars
  <2>2. /\ flows' \in [Key -> Stream \cup {None}]
        /\ \A j \in Key : flows'[j] = flows[j]
                          \/ (j = rkey[s] /\ flows[rkey[s]] = s /\ flows'[j] = None)
        /\ flows'[rkey[s]] # s
    BY <2>1, UnmapFacts
  <2>3. TypeOK' /\ LoopVars' /\ ReaderVars' /\ NoCrossTalk'
    BY <2>1, <2>2 DEF TypeOK, LoopVars, ReaderVars, NoCrossTalk
  <2>4. MappedIsWatched'
    BY <2>1, <2>2 DEF TypeOK, MappedIsWatched
  <2>5. NoOrphan'
    <3> SUFFICES ASSUME NEW t \in Stream, rd'[t] = "reading", st[t] # "closed"
                 PROVE  flows'[rkey[t]] = t \/ LoopDrops(t)
      BY <2>1 DEF NoOrphan, LoopDrops
    <3>1. t # s /\ rd[t] = "reading" /\ rkey[t] \in Key
      BY <2>1 DEF TypeOK, ReaderVars
    <3> QED BY <2>1, <2>2, <3>1 DEF NoOrphan
  <2> QED BY <2>3, <2>4, <2>5
<1>12. ASSUME NEW s \in Stream, ReaderCloses(s) PROVE IInv'
  <2>1. /\ rd[s] = "close" /\ rd' = [rd EXCEPT ![s] = "none"]
        /\ rkey' = [rkey EXCEPT ![s] = None] /\ st' = [st EXCEPT ![s] = "closed"]
        /\ UNCHANGED <<sock, main, cur, strm, flows>>
    BY <1>12 DEF ReaderCloses, CloseStream
  <2>2. TypeOK' /\ LoopVars' /\ ReaderVars' /\ MappedIsWatched'
    BY <2>1 DEF TypeOK, LoopVars, ReaderVars, MappedIsWatched
  <2>3. NoCrossTalk'
    BY <2>1 DEF TypeOK, LoopVars, NoCrossTalk
  <2>4. NoOrphan'
    BY <2>1 DEF TypeOK, NoOrphan, LoopDrops
  <2> QED BY <2>2, <2>3, <2>4
<1>13. ASSUME NEW s \in Stream, StreamDies(s) PROVE IInv'
  BY <1>13 DEF StreamDies, TypeOK, LoopVars, ReaderVars, MappedIsWatched, NoOrphan, NoCrossTalk, LoopDrops
<1>14. ASSUME SocketCloses PROVE IInv'
  BY <1>14 DEF SocketCloses, TypeOK, LoopVars, ReaderVars, MappedIsWatched, NoOrphan, NoCrossTalk, LoopDrops
<1>15. CASE UNCHANGED vars
  BY <1>15 DEF vars, TypeOK, LoopVars, ReaderVars, MappedIsWatched, NoOrphan, NoCrossTalk, LoopDrops
<1> QED
  BY <1>1, <1>2, <1>3, <1>4, <1>5, <1>6, <1>7, <1>8, <1>9, <1>10, <1>11, <1>12, <1>13, <1>14,
     <1>15 DEF Next, Loop

\* Type correctness of the near end.
THEOREM TypeCorrect == Spec => []TypeOK
<1>1. IInv => TypeOK
  BY DEF IInv
<1> QED BY <1>1, InvInit, InvStep, PTL DEF Spec

\* Every mapped flow is watched by a reader that will take it out again.
THEOREM FlowsAreWatched == Spec => []MappedIsWatched
<1>1. IInv => MappedIsWatched
  BY DEF IInv
<1> QED BY <1>1, InvInit, InvStep, PTL DEF Spec

\* No stale reader evicts a fresh flow: every stream being read is in the map, or
\* the loop is taking it down.
THEOREM NoFlowIsOrphaned == Spec => []NoOrphan
<1>1. IInv => NoOrphan
  BY DEF IInv
<1> QED BY <1>1, InvInit, InvStep, PTL DEF Spec

\* Datagrams of one source never go to the stream of another.
THEOREM SourcesAreSeparate == Spec => []NoCrossTalk
<1>1. IInv => NoCrossTalk
  BY DEF IInv
<1> QED BY <1>1, InvInit, InvStep, PTL DEF Spec

-----------------------------------------------------------------------------
(* The idle deadlines of a flow.                                            *)

\* The reader's deadline has run no longer than either direction has been silent.
Armed ==
    /\ nearDl \in 0 .. Idle /\ sinceUp \in 0 .. Idle /\ sinceDn \in 0 .. Idle
    /\ near = "up" => nearDl + sinceUp >= Idle /\ nearDl + sinceDn >= Idle

LEMMA ArmedInit == FlowInit => Armed
BY IdleAssumption DEF FlowInit, Armed

LEMMA ArmedStep == Armed /\ [FlowNext]_flowVars => Armed'
<1> SUFFICES ASSUME Armed, [FlowNext]_flowVars PROVE Armed'
  OBVIOUS
<1> USE IdleAssumption DEF Armed
<1>1. CASE UserSends
  BY <1>1 DEF UserSends, RefreshOnSend, ends
<1>2. CASE NearDelivers
  BY <1>2 DEF NearDelivers, ends
<1>3. CASE SendFails \/ NearReadFails \/ NearIdles \/ NearDel
  BY <1>3 DEF SendFails, NearReadFails, NearIdles, NearDel, NearEnds, timers, silence
<1>4. CASE Tick
  BY <1>4 DEF Tick, Down, Up, ends
<1>5. CASE UNCHANGED <<near, nearDl, sinceUp, sinceDn>>
  BY <1>5
<1> QED
  BY <1>1, <1>2, <1>3, <1>4, <1>5
     DEF FlowNext, FarRelays, FarUpFails, FarUpIdles, FarReturns, TargetSends, FarDnFails,
         FarDnIdles, FlowLosesSession, FarEnds, ends, timers, silence, flowVars

\* For any idle timeout and any buffer: the reader of a flow whose stream and session
\* are intact gives it up only when nothing has passed it for the whole timeout, up or
\* down (the deadline re-armed in serveUDPListener); what the loop sends after that,
\* before del, does not keep the flow.
THEOREM OnlySilentFlowsAreReaped == FlowSpec => NearReapsOnlySilent
<1>1. Armed /\ [FlowNext]_flowVars =>
        [near = "up" /\ near' # "up" /\ farOpen /\ ~dead =>
             sinceUp = Idle /\ sinceDn = Idle]_flowVars
  <2> SUFFICES ASSUME Armed, FlowNext, near = "up", near' # "up", farOpen, ~dead
               PROVE  sinceUp = Idle /\ sinceDn = Idle
    OBVIOUS
  <2>1. nearDl = 0
    BY DEF FlowNext, UserSends, SendFails, NearDelivers, NearReadFails, NearIdles, NearDel, Tick,
           FarRelays, FarUpFails, FarUpIdles, FarReturns, TargetSends, FarDnFails, FarDnIdles,
           FlowLosesSession, FarEnds, ends
  <2> QED BY <2>1, IdleAssumption DEF Armed
<1> QED BY <1>1, ArmedInit, ArmedStep, PTL DEF FlowSpec, NearReapsOnlySilent

-----------------------------------------------------------------------------
(* The two pipes of a connection.                                           *)

PathTypeOK ==
    /\ header \in BOOLEAN /\ session \in BOOLEAN
    /\ conn \in [Side -> {"none", "open", "shut", "gone"}]
    /\ held \in [Side -> BOOLEAN] /\ fin \in [Side -> BOOLEAN]
    /\ at \in [Side -> {"header", "dial", "pipe", "done"}]
    /\ copying \in [Side -> SUBSET Dir]
    /\ link \in [Dir -> [1..3 -> Nat]]
    /\ sent \in [Dir -> Nat] /\ got \in [Dir -> Nat]

\* No chunk appears or vanishes inside the tunnel.
Conserved == \A d \in Dir : sent[d] = got[d] + link[d][1] + link[d][2] + link[d][3]

\* Where the two goroutines stand, and what they hold there.
Stages ==
    /\ at["near"] = "header" => ~fin["near"]
    /\ at["near"] # "dial" /\ conn["near"] # "none"
    /\ header => at["near"] \in {"pipe", "done"}
    /\ ~header => copying["near"] = {} /\ conn["far"] = "none"
    /\ conn["far"] = "none" => ~held["far"] /\ copying["far"] = {}
    /\ conn["far"] # "none" => at["far"] \in {"pipe", "done"}
    /\ at["far"] = "dial" => header
    /\ at["far"] \in {"header", "dial"} => ~fin["far"] /\ conn["far"] = "none"
    /\ \A x \in Side : at[x] = "done" => fin[x] /\ copying[x] = {}
    /\ held["near"] = ~fin["near"]
    /\ conn["far"] # "none" => held["far"] = ~fin["far"]

\* The conditions of AllOfItArrives as long as they hold: the source has not left,
\* the target has not ended its side, or is still to be dialled.
Calm(d) ==
    /\ session /\ header
    /\ conn[Source(d)] \in {"open", "shut"}
    /\ conn[Target(d)] = "open" \/ (Target(d) = "far" /\ at["far"] \in {"header", "dial"})

\* What the ends have done with direction d, from s to t, and with its reverse b:
\* s closes its stream only after it has passed on all that its peer sent, t only
\* after it has passed on what came, unless its own peer's chunks were not read.
Orderly(d, s, t, b) ==
    /\ fin[t] => fin[s]
    /\ ~fin[s] => b \in copying[s]
    /\ d \notin copying[s] => link[d][1] = 0 /\ conn[s] = "shut"
    /\ fin[s] => link[d][1] = 0 /\ conn[s] = "shut"
    /\ at[t] = "pipe" /\ d \notin copying[t] => fin[t] \/ (fin[s] /\ link[d][2] = 0)
    /\ at[t] = "pipe" /\ b \notin copying[t] => fin[t] \/ (fin[s] /\ link[b][1] > 0)
    /\ fin[t] => link[d][2] = 0 \/ link[b][1] > 0

HalfClosed(d) == Calm(d) => Orderly(d, Source(d), Target(d), Back(d))

\* The inductive invariant.
PathInv == PathTypeOK /\ Conserved /\ Stages /\ \A d \in Dir : HalfClosed(d)

\* The two directions and the two ends mirror each other.
LEMMA Directions ==
    ASSUME NEW d \in Dir
    PROVE  /\ Source(d) \in Side /\ Target(d) \in Side /\ Source(d) # Target(d)
           /\ Side = {Source(d), Target(d)}
           /\ Back(d) # d /\ Dir = {d, Back(d)}
           /\ Source(Back(d)) = Target(d) /\ Target(Back(d)) = Source(d)
           /\ From(Source(d), d) = 1 /\ From(Target(d), d) = 2
           /\ From(Source(d), Back(d)) = 2 /\ From(Target(d), Back(d)) = 1
           /\ Other(Source(d)) = Target(d) /\ Other(Target(d)) = Source(d)
BY DEF Dir, Side, Source, Target, Other, Back, From

\* What a copy, and what a peer, does to the chunks.
LEMMA CopyMoves ==
    ASSUME PathTypeOK, NEW x \in Side, NEW d \in Dir, Copy(x, d)
    PROVE  /\ link' \in [Dir -> [1..3 -> Nat]]
           /\ From(x, d) \in 1..2 /\ Onto(x, d) = From(x, d) + 1
           /\ link[d][From(x, d)] > 0
           /\ link'[d][From(x, d)] = link[d][From(x, d)] - 1
           /\ link'[d][Onto(x, d)] = link[d][Onto(x, d)] + 1
           /\ \A k \in 1..3 : k # From(x, d) /\ k # Onto(x, d) => link'[d][k] = link[d][k]
           /\ \A e \in Dir : e # d => link'[e] = link[e]
<1> DEFINE f == From(x, d)  row == Moved(link[d], f)
<1>1. f \in 1..2 /\ Onto(x, d) = f + 1
  BY DEF From, Onto
<1>2. link[d] \in [1..3 -> Nat] /\ link \in [Dir -> [1..3 -> Nat]]
  BY DEF PathTypeOK
<1>3. link' = [link EXCEPT ![d] = row] /\ link[d][f] > 0
  BY DEF Copy
<1> HIDE DEF f
<1>4. /\ row \in [1..3 -> Nat]
      /\ row[f] = link[d][f] - 1
      /\ row[f + 1] = link[d][f + 1] + 1
      /\ \A k \in 1..3 : k # f /\ k # f + 1 => row[k] = link[d][k]
  BY <1>1, <1>2, <1>3 DEF Moved
<1> HIDE DEF row
<1>5. /\ link' \in [Dir -> [1..3 -> Nat]]
      /\ link'[d] = row
      /\ \A e \in Dir : e # d => link'[e] = link[e]
  BY <1>2, <1>3, <1>4
<1> QED BY <1>1, <1>3, <1>4, <1>5 DEF f

LEMMA PeersMove ==
    ASSUME PathTypeOK, NEW d \in Dir, Send(d) \/ Read(d)
    PROVE  /\ link' \in [Dir -> [1..3 -> Nat]] /\ sent' \in [Dir -> Nat] /\ got' \in [Dir -> Nat]
           /\ \A e \in Dir : e # d => link'[e] = link[e] /\ sent'[e] = sent[e] /\ got'[e] = got[e]
           /\ link'[d][2] = link[d][2]
           /\ Send(d) => /\ link'[d][1] = link[d][1] + 1 /\ link'[d][3] = link[d][3]
                         /\ sent'[d] = sent[d] + 1 /\ got'[d] = got[d]
           /\ Read(d) => /\ link'[d][3] = link[d][3] - 1 /\ link'[d][1] = link[d][1]
                         /\ got'[d] = got[d] + 1 /\ sent'[d] = sent[d]
<1>1. link[d] \in [1..3 -> Nat] /\ link \in [Dir -> [1..3 -> Nat]] /\ sent \in [Dir -> Nat] /\ got \in [Dir -> Nat]
  BY DEF PathTypeOK
<1>2. ASSUME Send(d) PROVE \E r \in [1..3 -> Nat] :
        link' = [link EXCEPT ![d] = r] /\ r[1] = link[d][1] + 1 /\ r[2] = link[d][2] /\ r[3] = link[d][3]
  <2> DEFINE r == [link[d] EXCEPT ![1] = link[d][1] + 1]
  <2>1. link' = [link EXCEPT ![d] = r]
    BY <1>2 DEF Send
  <2>2. r \in [1..3 -> Nat] /\ r[1] = link[d][1] + 1 /\ r[2] = link[d][2] /\ r[3] = link[d][3]
    BY <1>1
  <2> HIDE DEF r
  <2> QED BY <2>1, <2>2
<1>3. ASSUME Read(d) PROVE \E r \in [1..3 -> Nat] :
        link' = [link EXCEPT ![d] = r] /\ r[3] = link[d][3] - 1 /\ r[2] = link[d][2] /\ r[1] = link[d][1]
  <2> DEFINE r == [link[d] EXCEPT ![3] = link[d][3] - 1]
  <2>1. link' = [link EXCEPT ![d] = r] /\ link[d][3] > 0
    BY <1>3 DEF Read
  <2>2. r \in [1..3 -> Nat] /\ r[3] = link[d][3] - 1 /\ r[2] = link[d][2] /\ r[1] = link[d][1]
    BY <1>1, <2>1
  <2> HIDE DEF r
  <2> QED BY <2>1, <2>2
<1>4. CASE Send(d)
  <2>1. sent' = [sent EXCEPT ![d] = @ + 1] /\ got' = got
    BY <1>4 DEF Send
  <2>2. ~Read(d)
    BY <1>1, <2>1 DEF Read
  <2> QED BY <1>1, <1>2, <1>4, <2>1, <2>2
<1>5. CASE Read(d)
  <2>1. got' = [got EXCEPT ![d] = @ + 1] /\ sent' = sent
    BY <1>5 DEF Read
  <2>2. ~Send(d)
    BY <1>1, <2>1 DEF Send
  <2> QED BY <1>1, <1>3, <1>5, <2>1, <2>2
<1> QED BY <1>4, <1>5

LEMMA PathInvInit == PathInit => PathInv
<1> SUFFICES ASSUME PathInit PROVE PathInv
  OBVIOUS
<1> USE DEF PathInit, Side, Dir
<1>1. PathTypeOK
  BY DEF PathTypeOK
<1>2. Conserved
  BY DEF Conserved
<1>3. Stages
  BY DEF Stages
<1>4. ASSUME NEW d \in Dir PROVE HalfClosed(d)
  BY <1>4 DEF HalfClosed, Orderly, Calm, Source, Target, Other, Back
<1> QED BY <1>1, <1>2, <1>3, <1>4 DEF PathInv

\* Steps that leave the chunks alone.
LEMMA ChunksMove ==
    ASSUME PathInv, PathNext
    PROVE  \/ UNCHANGED data
           \/ \E x \in Side, d \in Dir : Copy(x, d)
           \/ \E d \in Dir : Send(d) \/ Read(d)
BY DEF PathNext, WriteStreamHeader, HeaderFails, ReadStreamHeader, NoHeader, Dialed, DialFails,
       Abandon, PipeCloses, PipeReturns, Shut, Leave, End, CopyEnds, SessionDies

LEMMA ConservedStep == PathInv /\ [PathNext]_pathVars => Conserved'
<1> SUFFICES ASSUME PathInv, [PathNext]_pathVars PROVE Conserved'
  OBVIOUS
<1>1. PathTypeOK /\ Conserved
  BY DEF PathInv
<1>2. ASSUME NEW x \in Side, NEW d \in Dir, Copy(x, d) PROVE Conserved'
  <2>1. UNCHANGED <<sent, got>>
    BY <1>2 DEF Copy
  <2>2. /\ \A e \in Dir : e # d => link'[e] = link[e]
        /\ link[d][1] + link[d][2] + link[d][3] = link'[d][1] + link'[d][2] + link'[d][3]
    <3>1. \A k \in 1..3 : link[d][k] \in Nat
      BY <1>1 DEF PathTypeOK
    <3> QED BY <1>1, <1>2, <3>1, CopyMoves
  <2>3. /\ \A e \in Dir, k \in 1..3 : link[e][k] \in Nat /\ link'[e][k] \in Nat
        /\ \A e \in Dir : got[e] \in Nat
    BY <1>1, <1>2, CopyMoves DEF PathTypeOK
  <2> SUFFICES ASSUME NEW e \in Dir
               PROVE  sent'[e] = got'[e] + link'[e][1] + link'[e][2] + link'[e][3]
    BY DEF Conserved
  <2>4. sent[e] = got[e] + link[e][1] + link[e][2] + link[e][3]
    BY <1>1 DEF Conserved
  <2>5. CASE e = d
    BY <2>1, <2>2, <2>3, <2>4, <2>5
  <2>6. CASE e # d
    BY <2>1, <2>2, <2>4, <2>6
  <2> QED BY <2>5, <2>6
<1>3. ASSUME NEW d \in Dir, Send(d) \/ Read(d) PROVE Conserved'
  <2>1. /\ \A e \in Dir, k \in 1..3 : link[e][k] \in Nat /\ link'[e][k] \in Nat
        /\ \A e \in Dir : got[e] \in Nat /\ sent[e] \in Nat
    BY <1>1, <1>3, PeersMove DEF PathTypeOK
  <2> QED BY <1>1, <1>3, <2>1, PeersMove DEF Conserved
<1>5. CASE UNCHANGED data
  BY <1>1, <1>5 DEF data, Conserved
<1> QED BY <1>2, <1>3, <1>5, ChunksMove DEF pathVars, data

LEMMA TypeStep == PathInv /\ [PathNext]_pathVars => PathTypeOK'
<1> SUFFICES ASSUME PathTypeOK, PathInv, [PathNext]_pathVars PROVE PathTypeOK'
  BY DEF PathInv
<1>1. ASSUME NEW x \in Side, NEW d \in Dir, Copy(x, d) PROVE PathTypeOK'
  BY <1>1, CopyMoves DEF Copy, PathTypeOK
<1>2. ASSUME NEW d \in Dir, Send(d) \/ Read(d) PROVE PathTypeOK'
  BY <1>2, PeersMove DEF Send, Read, PathTypeOK
<1>3. CASE UNCHANGED data
  <2>1. link' = link /\ sent' = sent /\ got' = got
    BY <1>3 DEF data
  <2>2. CASE UNCHANGED pathVars
    BY <2>2 DEF pathVars, PathTypeOK
  <2>3. ASSUME NEW x \in Side, NEW d \in Dir, CopyEnds(x, d) PROVE PathTypeOK'
    BY <2>1, <2>3 DEF CopyEnds, PathTypeOK
  <2>4. ASSUME NEW x \in Side, PipeCloses(x) \/ PipeReturns(x) \/ Shut(x) \/ Leave(x) PROVE PathTypeOK'
    BY <2>1, <2>4 DEF PipeCloses, PipeReturns, Shut, Leave, Close, PathTypeOK
  <2>5. ASSUME WriteStreamHeader \/ Dialed \/ SessionDies PROVE PathTypeOK'
    <3>1. CASE SessionDies
      BY <2>1, <3>1 DEF SessionDies, PathTypeOK
    <3>2. ASSUME NEW x \in Side, EnterPipe(x)
          PROVE  /\ at' \in [Side -> {"header", "dial", "pipe", "done"}]
                 /\ copying' \in [Side -> SUBSET Dir]
      <4>1. copying' = [copying EXCEPT ![x] = Dir] /\ at' = [at EXCEPT ![x] = "pipe"]
        BY <3>2 DEF EnterPipe
      <4> QED BY <4>1 DEF PathTypeOK
    <3>3. CASE WriteStreamHeader
      BY <2>1, <3>2, <3>3 DEF WriteStreamHeader, PathTypeOK, Side
    <3>4. CASE Dialed
      <4>1. /\ conn' = [conn EXCEPT !["far"] = "open"] /\ held' = [held EXCEPT !["far"] = TRUE]
            /\ EnterPipe("far") /\ UNCHANGED <<header, session, fin>>
        BY <3>4 DEF Dialed
      <4> QED BY <2>1, <3>2, <4>1 DEF PathTypeOK, Side
    <3> QED BY <2>5, <3>1, <3>3, <3>4
  <2>6. ASSUME HeaderFails \/ ReadStreamHeader \/ NoHeader \/ DialFails PROVE PathTypeOK'
    BY <2>1, <2>6 DEF HeaderFails, ReadStreamHeader, NoHeader, DialFails, Abandon, Close, PathTypeOK
  <2>7. ASSUME NEW x \in Side, NEW d \in Dir, Copy(x, d) PROVE PathTypeOK'
    BY <1>1, <2>7
  <2>8. ASSUME NEW d \in Dir, Send(d) \/ Read(d) PROVE PathTypeOK'
    BY <1>2, <2>8
  <2> QED BY <2>2, <2>3, <2>4, <2>5, <2>6, <2>7, <2>8 DEF PathNext, End
<1> QED BY <1>1, <1>2, <1>3, ChunksMove DEF pathVars, data

LEMMA StagesStep == PathInv /\ [PathNext]_pathVars => Stages'
<1> SUFFICES ASSUME PathTypeOK, Stages, PathInv, [PathNext]_pathVars PROVE Stages'
  BY DEF PathInv
<1> USE DEF Stages
<1>1. CASE UNCHANGED pathVars
  BY <1>1 DEF pathVars
<1>2. ASSUME NEW x \in Side, NEW d \in Dir, Copy(x, d) PROVE Stages'
  BY <1>2 DEF Copy
<1>12. ASSUME NEW d \in Dir, Send(d) \/ Read(d) PROVE Stages'
  BY <1>12 DEF Send, Read
<1>3. ASSUME NEW x \in Side, NEW d \in Dir, CopyEnds(x, d) PROVE Stages'
  BY <1>3 DEF CopyEnds, PathTypeOK, Side
<1>4. ASSUME NEW x \in Side, PipeCloses(x) PROVE Stages'
  BY <1>4 DEF PipeCloses, Close, PathTypeOK, Side, Dir
<1>5. ASSUME NEW x \in Side, PipeReturns(x) PROVE Stages'
  BY <1>5 DEF PipeReturns, PathTypeOK, Side
<1>6. ASSUME NEW x \in Side, Shut(x) \/ Leave(x) PROVE Stages'
  BY <1>6 DEF Shut, Leave, PathTypeOK, Side
<1>7. ASSUME SessionDies PROVE Stages'
  BY <1>7 DEF SessionDies
<1>8. ASSUME WriteStreamHeader PROVE Stages'
  BY <1>8 DEF WriteStreamHeader, EnterPipe, PathTypeOK, Side
<1>9. ASSUME Dialed PROVE Stages'
  BY <1>9 DEF Dialed, EnterPipe, PathTypeOK, Side
<1>10. ASSUME HeaderFails PROVE Stages'
  BY <1>10 DEF HeaderFails, Abandon, Close, PathTypeOK, Side
<1>11. ASSUME NoHeader \/ DialFails \/ ReadStreamHeader PROVE Stages'
  BY <1>11 DEF NoHeader, DialFails, ReadStreamHeader, Abandon, Close, PathTypeOK, Side
<1> QED
  BY <1>1, <1>2, <1>3, <1>4, <1>5, <1>6, <1>7, <1>8, <1>9, <1>10, <1>11, <1>12 DEF PathNext, End

LEMMA HalfClosedStep ==
    ASSUME PathInv, [PathNext]_pathVars, NEW d \in Dir, Calm(d)' PROVE HalfClosed(d)'
<1> DEFINE s == Source(d)  t == Target(d)  b == Back(d)
<1>1. PathTypeOK /\ Stages /\ HalfClosed(d)
  BY DEF PathInv
<1>2. /\ s \in Side /\ t \in Side /\ s # t /\ b \in Dir /\ b # d
      /\ \A x \in Side : x = s \/ x = t
      /\ \A e \in Dir : e = d \/ e = b
      /\ From(s, d) = 1 /\ From(t, d) = 2 /\ From(s, b) = 2 /\ From(t, b) = 1
      /\ Other(s) = t /\ Other(t) = s
  BY Directions
<1>3. /\ s \in {"near", "far"} /\ t \in {"near", "far"}
  BY DEF Source, Target, Other
<1>4. \A e \in Dir, k \in 1..3 : link[e][k] \in Nat
  BY <1>1 DEF PathTypeOK
<1>5. Calm(d)' <=> /\ session' /\ header'
                   /\ conn'[s] \in {"open", "shut"}
                   /\ conn'[t] = "open" \/ (t = "far" /\ at'["far"] \in {"header", "dial"})
  BY DEF Calm
<1>6. Calm(d) <=> /\ session /\ header
                  /\ conn[s] \in {"open", "shut"}
                  /\ conn[t] = "open" \/ (t = "far" /\ at["far"] \in {"header", "dial"})
  BY DEF Calm
<1>7. Calm(d) => Orderly(d, s, t, b)
  BY <1>1 DEF HalfClosed
<1> DEFINE Goal == Orderly(d, s, t, b)
<1>8. SUFFICES Goal'
  BY DEF HalfClosed
<1> USE DEF Orderly
<1> HIDE DEF s, t, b
<1>9. CASE UNCHANGED pathVars
  BY <1>5, <1>6, <1>7, <1>9 DEF pathVars
<1>10. ASSUME NEW x \in Side, NEW e \in Dir, Copy(x, e) PROVE Goal'
  <2>1. UNCHANGED <<session, header, conn, at, fin, copying>> /\ e \in copying[x] /\ ~fin[x]
    BY <1>10 DEF Copy
  <2>2. Calm(d)
    BY <1>5, <1>6, <2>1
  <2>3. /\ link'[e][From(x, e)] = link[e][From(x, e)] - 1
        /\ link'[e][From(x, e) + 1] = link[e][From(x, e) + 1] + 1
        /\ \A k \in 1..3 : k # From(x, e) /\ k # From(x, e) + 1 => link'[e][k] = link[e][k]
        /\ \A c \in Dir : c # e => link'[c] = link[c]
    BY <1>1, <1>10, CopyMoves
  <2>4. CASE x = s /\ e = d
    BY <1>2, <1>7, <2>1, <2>2, <2>3, <2>4
  <2>5. CASE x = t /\ e = d
    BY <1>2, <1>7, <2>1, <2>2, <2>3, <2>5
  <2>6. CASE x = s /\ e = b
    BY <1>2, <1>7, <2>1, <2>2, <2>3, <2>6
  <2>7. CASE x = t /\ e = b
    BY <1>2, <1>7, <2>1, <2>2, <2>3, <2>7
  <2> QED BY <1>2, <2>4, <2>5, <2>6, <2>7
<1>11. ASSUME NEW e \in Dir, Send(e) \/ Read(e) PROVE Goal'
  <2>1. UNCHANGED <<session, header, conn, at, fin, copying>>
    BY <1>11 DEF Send, Read
  <2>2. Calm(d)
    BY <1>5, <1>6, <2>1
  <2>3. \A c \in Dir : c # e => link'[c] = link[c]
    BY <1>1, <1>11, PeersMove
  <2>4. CASE Read(e)
    BY <1>1, <1>2, <1>7, <2>1, <2>2, <2>3, <2>4, PeersMove
  <2>5. CASE Send(e)
    <3>1. held[Source(e)] /\ conn[Source(e)] = "open"
      BY <2>5 DEF Send
    <3>2. /\ link'[e][1] = link[e][1] + 1 /\ link'[e][2] = link[e][2]
      BY <1>1, <2>5, PeersMove
    <3>3. CASE e = d
      <4>1. conn[s] = "open"
        BY <3>1, <3>3 DEF s
      <4>2. ~fin[s] /\ d \in copying[s] /\ ~fin[t]
        BY <1>7, <2>2, <4>1
      <4> QED BY <1>2, <1>7, <2>1, <2>2, <2>3, <3>2, <3>3, <4>2
    <3>4. CASE e = b
      BY <1>2, <1>4, <1>7, <2>1, <2>2, <2>3, <3>2, <3>4
    <3> QED BY <1>2, <3>3, <3>4
  <2> QED BY <1>11, <2>4, <2>5
<1>12. ASSUME NEW x \in Side, NEW e \in Dir, CopyEnds(x, e) PROVE Goal'
  <2>1. /\ UNCHANGED <<session, header, conn, at, fin, link>>
        /\ copying'[x] = copying[x] \ {e}
        /\ \A y \in Side : y # x => copying'[y] = copying[y]
        /\ e \in copying[x]
    BY <1>1, <1>12 DEF CopyEnds, data, PathTypeOK
  <2>2. Calm(d) /\ session
    BY <1>5, <1>6, <2>1
  <2>3. EndOfInput(x, e) \/ (link[e][From(x, e)] > 0 /\ Broken(x, e))
    BY <1>12 DEF CopyEnds
  <2>4. CASE x = s /\ e = d
    <3>1. /\ EndOfInput(s, d) => /\ fin[s] \/ conn[s] # "open"
                                 /\ link[d][1] = 0 \/ fin[s]
          /\ Broken(s, d) => fin[s] \/ fin[t]
      BY <1>2, <2>2 DEF EndOfInput, NoMore, Broken, Onto
    <3> QED BY <1>2, <1>6, <1>7, <2>1, <2>2, <2>3, <2>4, <3>1
  <2>5. CASE x = t /\ e = d
    <3>1. /\ EndOfInput(t, d) => /\ fin[t] \/ fin[s]
                                 /\ link[d][2] = 0 \/ fin[t]
          /\ Broken(t, d) => fin[t] \/ conn[t] = "gone"
      BY <1>2, <2>2 DEF EndOfInput, NoMore, Broken, Onto
    <3>2. at[t] = "pipe" => conn[t] = "open"
      BY <1>2, <1>6, <2>2, <1>3
    <3> QED BY <1>2, <1>6, <1>7, <2>1, <2>2, <2>3, <2>5, <3>1, <3>2
  <2>6. CASE x = s /\ e = b
    <3>1. /\ EndOfInput(s, b) => fin[s] \/ fin[t]
          /\ Broken(s, b) => fin[s] \/ conn[s] = "gone"
      BY <1>2, <2>2 DEF EndOfInput, NoMore, Broken, Onto
    <3> QED BY <1>2, <1>6, <1>7, <2>1, <2>2, <2>3, <2>6, <3>1
  <2>7. CASE x = t /\ e = b
    <3>1. /\ EndOfInput(t, b) => fin[t] \/ conn[t] # "open"
          /\ Broken(t, b) => fin[t] \/ fin[s]
      BY <1>2, <2>2 DEF EndOfInput, NoMore, Broken, Onto
    <3>2. at[t] = "pipe" => conn[t] = "open"
      BY <1>2, <1>6, <2>2, <1>3
    <3> QED BY <1>2, <1>6, <1>7, <2>1, <2>2, <2>3, <2>7, <3>1, <3>2
  <2> QED BY <1>2, <2>4, <2>5, <2>6, <2>7
<1>13. ASSUME NEW x \in Side, PipeCloses(x) PROVE Goal'
  <2>1. /\ UNCHANGED <<session, header, conn, at, copying, link>>
        /\ fin'[x] /\ \A y \in Side : y # x => fin'[y] = fin[y]
        /\ at[x] = "pipe" /\ copying[x] # Dir /\ ~fin[x] /\ copying[x] \subseteq Dir
    BY <1>1, <1>13 DEF PipeCloses, OneEnded, Close, PathTypeOK, data
  <2>2. Calm(d)
    BY <1>5, <1>6, <2>1
  <2>3. d \notin copying[x] \/ b \notin copying[x]
    BY <1>2, <2>1
  <2> QED BY <1>2, <1>7, <2>1, <2>2, <2>3
<1>14. ASSUME NEW x \in Side, PipeReturns(x) PROVE Goal'
  <2>1. /\ UNCHANGED <<session, header, conn, fin, copying, link>>
        /\ at'[x] = "done" /\ \A y \in Side : y # x => at'[y] = at[y]
        /\ at[x] = "pipe"
    BY <1>1, <1>14 DEF PipeReturns, PathTypeOK, data
  <2>2. Calm(d)
    BY <1>2, <1>3, <1>5, <1>6, <2>1 DEF Side
  <2> QED BY <1>2, <1>7, <2>1, <2>2
<1>15. ASSUME NEW x \in Side, Shut(x) \/ Leave(x) PROVE Goal'
  <2>1. /\ UNCHANGED <<session, header, at, fin, copying, link>>
        /\ conn'[x] \in {"shut", "gone"} /\ \A y \in Side : y # x => conn'[y] = conn[y]
        /\ conn[x] \in {"open", "shut"} /\ (conn[x] = "open" \/ conn'[x] = "gone")
    BY <1>1, <1>15 DEF Shut, Leave, PathTypeOK, data
  <2>2. Calm(d)
    BY <1>1, <1>2, <1>3, <1>5, <1>6, <2>1 DEF Stages
  <2> QED BY <1>2, <1>5, <1>7, <2>1, <2>2
<1>16. ASSUME SessionDies PROVE Goal'
  BY <1>5, <1>16 DEF SessionDies
<1>17. ASSUME WriteStreamHeader PROVE Goal'
  <2>1. /\ ~header /\ conn["far"] = "none" /\ ~fin["near"] /\ UNCHANGED <<conn, fin, link>>
        /\ copying'["near"] = Dir /\ at'["far"] = at["far"]
    BY <1>1, <1>17 DEF WriteStreamHeader, EnterPipe, Stages, PathTypeOK, Side, data
  <2>2. s = "near" /\ t = "far" /\ at["far"] \in {"header", "dial"}
    BY <1>2, <1>3, <1>5, <2>1
  <2>3. ~fin["far"]
    BY <1>1, <2>2 DEF Stages
  <2> QED BY <1>2, <2>1, <2>2, <2>3
<1>21. ASSUME Dialed PROVE Goal'
  <2>1. /\ UNCHANGED <<session, header, fin, link>> /\ at["far"] = "dial"
        /\ conn'["near"] = conn["near"] /\ conn'["far"] = "open"
        /\ copying'["far"] = Dir /\ copying'["near"] = copying["near"]
        /\ at'["near"] = at["near"] /\ ~fin["far"]
    BY <1>1, <1>21 DEF Dialed, EnterPipe, Stages, PathTypeOK, Side, data
  <2>2. CASE t = "far"
    <3>1. s = "near"
      BY <1>2, <1>3, <2>2
    <3>2. Calm(d)
      BY <1>5, <1>6, <2>1, <2>2, <3>1
    <3> QED BY <1>2, <1>7, <2>1, <2>2, <3>1, <3>2
  <2>3. CASE t = "near"
    <3>1. s = "far"
      BY <1>2, <1>3, <2>3
    <3>2. conn["near"] = "open" /\ session /\ header
      BY <1>5, <2>1, <2>3, <3>1
    <3>3. Source(b) = "near" /\ Target(b) = "far" /\ Back(b) = d
      <4>1. Source(b) = t /\ Target(b) = s /\ Back(b) # b
        BY Directions DEF s, t, b
      <4>2. Back(b) = d
        BY <1>2, <4>1, Directions
      <4> QED BY <2>3, <3>1, <4>1, <4>2
    <3>4. HalfClosed(b) /\ Calm(b)
      BY <1>2, <2>1, <3>2, <3>3 DEF PathInv, Calm
    <3>5. ~fin["near"] /\ d \in copying["near"] /\ b \in copying["near"]
      BY <3>2, <3>3, <3>4 DEF HalfClosed, Orderly
    <3> QED BY <1>2, <2>1, <2>3, <3>1, <3>5
  <2> QED BY <1>3, <2>2, <2>3
<1>18. ASSUME HeaderFails PROVE Goal'
  BY <1>1, <1>5, <1>18 DEF HeaderFails, Abandon, Stages
<1>19. ASSUME at["far"] \in {"header", "dial"}, Abandon("far") PROVE Goal'
  <2>1. conn'["far"] = "none" /\ at'["far"] = "done"
    BY <1>1, <1>19 DEF Abandon, Stages, PathTypeOK, Side
  <2> QED BY <1>2, <1>3, <1>5, <2>1
<1>20. ASSUME at["far"] = "header", at' = [at EXCEPT !["far"] = "dial"],
              UNCHANGED <<request, header, session, conn, held, fin, copying, data>>
       PROVE  Goal'
  <2>1. /\ UNCHANGED <<session, header, conn, fin, copying, link>>
        /\ at'["far"] = "dial" /\ at'["near"] = at["near"]
    BY <1>1, <1>20 DEF PathTypeOK, Side, data
  <2>2. Calm(d)
    BY <1>5, <1>6, <1>20, <2>1
  <2> QED BY <1>2, <1>3, <1>7, <2>1, <2>2
<1> QED
  BY <1>9, <1>10, <1>11, <1>12, <1>13, <1>14, <1>15, <1>16, <1>17, <1>18, <1>19, <1>20, <1>21
     DEF PathNext, End, NoHeader, DialFails, ReadStreamHeader

LEMMA PathInvStep == PathInv /\ [PathNext]_pathVars => PathInv'
<1> SUFFICES ASSUME PathInv, [PathNext]_pathVars PROVE PathInv'
  OBVIOUS
<1>1. ASSUME NEW d \in Dir PROVE HalfClosed(d)'
  <2>1. ~Calm(d)' => HalfClosed(d)'
    BY DEF HalfClosed
  <2> QED BY <2>1, HalfClosedStep
<1> QED BY <1>1, TypeStep, ConservedStep, StagesStep DEF PathInv

\* No chunk is invented, repeated or lost between the two peers' sockets.
THEOREM ChunksAreConserved == PathSpec => []Conserved
<1>1. PathInv => Conserved
  BY DEF PathInv
<1> QED BY <1>1, PathInvInit, PathInvStep, PTL DEF PathSpec

LEMMA PathInvHolds == PathInv => AllOfItArrives
<1> SUFFICES ASSUME PathInv, NEW d \in Dir, conn[Source(d)] = "shut", conn[Target(d)] = "open",
                    ~held[Target(d)], session, got[Back(d)] = sent[Back(d)]
             PROVE  got[d] + link[d][3] = sent[d]
  BY DEF AllOfItArrives
<1>1. /\ Back(d) \in Dir
      /\ \A e \in Dir, k \in 1..3 : link[e][k] \in Nat
      /\ \A e \in Dir : got[e] \in Nat /\ sent[e] \in Nat
      /\ \A e \in Dir : sent[e] = got[e] + link[e][1] + link[e][2] + link[e][3]
  BY Directions DEF PathInv, PathTypeOK, Conserved
<1>2. header /\ fin[Target(d)]
  BY DEF PathInv, Stages, PathTypeOK, Source, Target, Other, Side
<1>3. Calm(d) /\ HalfClosed(d)
  BY <1>2 DEF Calm, PathInv
<1>4. link[d][1] = 0 /\ (link[d][2] = 0 \/ link[Back(d)][1] > 0)
  BY <1>2, <1>3 DEF HalfClosed, Orderly
<1> QED BY <1>1, <1>4

\* After a half-close everything that was sent arrives, for any capacity of the links
\* and any number of chunks, unless what the other sent was cut off too (pipe).
THEOREM HalfCloseLosesNothing == PathSpec => []AllOfItArrives
BY PathInvInit, PathInvStep, PathInvHolds, PTL DEF PathSpec
=============================================================================

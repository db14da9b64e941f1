------------------------------- MODULE UdpPath -------------------------------
(***************************************************************************)
(* One UDP flow from end to end, with its idle timers: the near end's loop  *)
(* and reader (serveUDPListener), the stream between, and the two relay     *)
(* loops of the far end (bridgeUDP).  Each of the three readers has its own *)
(* deadline of Idle ticks, re-armed where the code re-arms it.              *)
(*                                                                          *)
(* A reader first takes what is buffered and only then looks at its         *)
(* deadline; time does not pass over a deadline that is due.  A flow lives  *)
(* here from its opening to its end; opening it again is UdpNear's matter.  *)
(***************************************************************************)
EXTENDS Integers

CONSTANTS
    Idle,   \* udpIdleTimeout, in ticks
    Cap     \* bound: datagrams buffered in the stream, in each direction

ASSUME IdleAssumption == Idle \in Nat \ {0} /\ Cap \in Nat \ {0}

VARIABLES
    near,      \* the near end's reader, and with it the flow in the map
    farUp,     \* bridgeUDP itself: stream -> uc
    farDn,     \* its goroutine: uc -> stream
    nearOpen,  \* the near end has not closed the stream
    farOpen,   \* the far end has not closed the stream
    uc,        \* the UDP socket towards the target is open
    dead,      \* the session under the stream is gone
    upQ, dnQ,  \* datagrams in the stream
    nearDl, upDl, dnDl,  \* ticks left to the three read deadlines
    sinceUp, sinceDn  \* history: ticks since a datagram passed the near end, up or
                      \* down, counted to Idle at most

ends == <<near, farUp, farDn>>
links == <<nearOpen, farOpen, uc, dead>>
queues == <<upQ, dnQ>>
timers == <<nearDl, upDl, dnDl>>
silence == <<sinceUp, sinceDn>>
flowVars == <<ends, links, queues, timers, silence>>

FlowTypeOK ==
    /\ near \in {"up", "leaving", "gone"} /\ farDn \in {"up", "gone"}
    /\ farUp \in {"up", "waiting", "gone"}
    /\ {nearOpen, farOpen, uc, dead} \subseteq BOOLEAN
    /\ {upQ, dnQ} \subseteq 0 .. Cap
    /\ {nearDl, upDl, dnDl} \subseteq 0 .. Idle
    /\ {sinceUp, sinceDn} \subseteq 0 .. Idle

FlowInit ==
    /\ near = "up" /\ farUp = "up" /\ farDn = "up"
    /\ nearOpen = TRUE /\ farOpen = TRUE /\ uc = TRUE /\ dead = FALSE
    /\ upQ = 0 /\ dnQ = 0
    /\ nearDl = Idle /\ upDl = Idle /\ dnDl = Idle
    /\ sinceUp = 0 /\ sinceDn = 0

-----------------------------------------------------------------------------
(* The near end.                                                           *)

(* A definition marked Slip is a plausible mistake in the code next to it; the *)
(* property it names notices it.                                           *)

\* Slip (NearReapsOnlySilent): upstream datagrams do not count.
RefreshNothing == nearDl' = nearDl

\* What an upstream datagram does to the reader's deadline.
RefreshOnSend == nearDl' = Idle

\* The stream is in the map, also when its reader is already on its way to del.
Mapped == near \in {"up", "leaving"}

\* A datagram of the source: the loop refreshes the reader's deadline and writes.
\* What is written towards an end that has closed the stream is lost.
UserSends ==
    /\ Mapped /\ ~dead /\ upQ < Cap
    /\ upQ' = IF farOpen THEN upQ + 1 ELSE upQ
    /\ RefreshOnSend
    /\ sinceUp' = 0
    /\ UNCHANGED <<ends, links, dnQ, upDl, dnDl, sinceDn>>

NearForgets == near' = "gone" /\ nearOpen' = nearOpen \* Slip (SilentFlowIsReclaimed)

\* The flow leaves the map and its stream is closed (udpFlows.del).
NearEnds == near' = "gone" /\ nearOpen' = FALSE

\* Writing to a stream that is gone ends the flow as well.
SendFails ==
    /\ Mapped /\ (dead \/ ~farOpen)
    /\ NearEnds
    /\ UNCHANGED <<farUp, farDn, farOpen, uc, dead, queues, timers, silence>>

NearDelivers ==
    /\ near = "up" /\ dnQ > 0 /\ ~dead
    /\ dnQ' = dnQ - 1
    /\ nearDl' = Idle
    /\ sinceDn' = 0
    /\ UNCHANGED <<ends, links, upQ, upDl, dnDl, sinceUp>>

\* The reader's read fails, or times out: from here it can only go to del ...
NearReadFails ==
    /\ near = "up" /\ (dead \/ (dnQ = 0 /\ ~farOpen))
    /\ near' = "leaving"
    /\ UNCHANGED <<farUp, farDn, links, queues, timers, silence>>

NearIdles ==
    /\ near = "up" /\ dnQ = 0 /\ nearDl = 0
    /\ near' = "leaving"
    /\ UNCHANGED <<farUp, farDn, links, queues, timers, silence>>

\* ... whatever the loop has sent on the stream in the meantime.
NearDel ==
    /\ near = "leaving"
    /\ NearEnds
    /\ UNCHANGED <<farUp, farDn, farOpen, uc, dead, queues, timers, silence>>

-----------------------------------------------------------------------------
(* The far end, stream -> uc.                                              *)

LeaveSocket == uc' = uc \* Slip (EndsTogether)

\* The loop is left: stream and socket are closed, then bridgeUDP waits for its
\* goroutine.
CloseSocket == uc' = FALSE
FarEnds == farUp' = "waiting" /\ farOpen' = FALSE /\ CloseSocket

FarRelays ==
    /\ farUp = "up" /\ upQ > 0 /\ ~dead
    /\ upQ' = upQ - 1
    /\ upDl' = Idle
    /\ UNCHANGED <<ends, links, dnQ, nearDl, dnDl, silence>>

\* The read fails, or the write to the target does.
FarUpFails ==
    /\ farUp = "up" /\ (dead \/ upQ > 0 \/ ~nearOpen)
    /\ FarEnds
    /\ UNCHANGED <<near, farDn, nearOpen, dead, queues, timers, silence>>

FarUpIdles ==
    /\ farUp = "up" /\ upQ = 0 /\ upDl = 0
    /\ FarEnds
    /\ UNCHANGED <<near, farDn, nearOpen, dead, queues, timers, silence>>

FarReturns ==
    /\ farUp = "waiting" /\ farDn = "gone"
    /\ farUp' = "gone"
    /\ UNCHANGED <<near, farDn, links, queues, timers, silence>>

-----------------------------------------------------------------------------
(* The far end, uc -> stream.                                              *)

\* A datagram of the target is read and written to the stream.
TargetSends ==
    /\ farDn = "up" /\ uc /\ farOpen /\ ~dead /\ dnQ < Cap
    /\ dnQ' = IF nearOpen THEN dnQ + 1 ELSE dnQ
    /\ dnDl' = Idle
    /\ UNCHANGED <<ends, links, upQ, nearDl, upDl, silence>>

FarDnEnds == farDn' = "gone"

\* The socket is closed or reports an error, or the stream cannot be written.
FarDnFails ==
    /\ farDn = "up"
    /\ FarDnEnds
    /\ UNCHANGED <<near, farUp, links, queues, timers, silence>>

FarDnIdles ==
    /\ farDn = "up" /\ dnDl = 0
    /\ FarDnEnds
    /\ UNCHANGED <<near, farUp, links, queues, timers, silence>>

-----------------------------------------------------------------------------
FlowLosesSession ==
    /\ ~dead
    /\ dead' = TRUE
    /\ UNCHANGED <<ends, nearOpen, farOpen, uc, queues, timers, silence>>

\* Of an armed deadline one tick has gone.
Due == (near = "up" /\ nearDl = 0) \/ (farUp = "up" /\ upDl = 0) \/ (farDn = "up" /\ dnDl = 0)
Down(x) == IF x = 0 THEN 0 ELSE x - 1
Up(x) == IF x = Idle THEN Idle ELSE x + 1

Tick ==
    /\ ~Due
    /\ nearDl' = Down(nearDl) /\ upDl' = Down(upDl) /\ dnDl' = Down(dnDl)
    /\ sinceUp' = Up(sinceUp) /\ sinceDn' = Up(sinceDn)
    /\ UNCHANGED <<ends, links, queues>>

FlowNext ==
    \/ UserSends \/ SendFails \/ NearDelivers \/ NearReadFails \/ NearIdles \/ NearDel
    \/ FarRelays \/ FarUpFails \/ FarUpIdles \/ FarReturns
    \/ TargetSends \/ FarDnFails \/ FarDnIdles
    \/ FlowLosesSession \/ Tick

FlowSpec == FlowInit /\ [][FlowNext]_flowVars

\* Readers run, deadlines fire, time passes; a closed socket fails its reader.
\* Nobody has to send, no socket has to fail.
FlowFairness ==
    /\ WF_flowVars(Tick)
    /\ WF_flowVars(NearDelivers \/ NearReadFails) /\ WF_flowVars(NearIdles) /\ WF_flowVars(NearDel)
    /\ WF_flowVars(FarRelays \/ FarUpFails) /\ WF_flowVars(FarUpIdles) /\ WF_flowVars(FarReturns)
    /\ WF_flowVars(FarDnFails /\ ~uc) /\ WF_flowVars(FarDnIdles)

FlowLiveSpec == FlowSpec /\ FlowFairness

-----------------------------------------------------------------------------
(* Properties.                                                             *)

AllGone == near = "gone" /\ farUp = "gone" /\ farDn = "gone" /\ ~uc /\ ~nearOpen /\ ~farOpen

\* The near end's reader gives a working flow up only when nothing has passed it for
\* Idle ticks, up or down: a flow that only sends is not given up while it is active.
\* (A datagram sent between that decision and del is lost with the flow.)
NearReapsOnlySilent ==
    [][near = "up" /\ near' # "up" /\ farOpen /\ ~dead =>
           sinceUp = Idle /\ sinceDn = Idle]_flowVars

\* One end's teardown reaches the other: when the flow ends at either end, stream
\* and socket are closed and all three readers return.
EndsTogether == (near # "up" \/ farUp = "waiting") ~> AllGone

\* A flow whose source sends no more is reclaimed at both ends, whatever the target
\* goes on sending, and also when one direction of the far end has ended before.
SilentFlowIsReclaimed == <>[][~UserSends]_flowVars => <>AllGone
=============================================================================

------------------------------ MODULE Listener ------------------------------
(***************************************************************************)
(* What tunnel.Server relies on from a transport.Listener, whichever of its *)
(* implementations carries the tunnel: connections are set up behind the    *)
(* scenes and handed out one by one by Accept; Close takes effect in two     *)
(* steps, between which Accept may already fail although connections still   *)
(* come in; and a connection that was under way may be ready, and be handed  *)
(* out, after Close has returned.  Server extends this module; Carrier shows *)
(* that the three implementations keep to it.                               *)
(***************************************************************************)
EXTENDS Naturals

CONSTANT MaxBacklog \* bound: connections being set up or ready

ASSUME ListenerAssumption == MaxBacklog \in Nat

VARIABLES
    ln,      \* the listener
    coming,  \* the number of connections being set up
    backlog  \* the number of those ready to be accepted

lnVars == <<ln, coming, backlog>>

ListenerTypeOK ==
    /\ ln \in {"none", "open", "closing", "closed"}
    /\ coming \in 0 .. MaxBacklog
    /\ backlog \in 0 .. MaxBacklog

ListenerInit == ln = "none" /\ coming = 0 /\ backlog = 0

OpenListener == ln = "none" /\ ln' = "open" /\ UNCHANGED <<coming, backlog>>

\* A peer connects.
Connect ==
    /\ ln \in {"open", "closing"} /\ coming + backlog < MaxBacklog
    /\ coming' = coming + 1
    /\ UNCHANGED <<ln, backlog>>

\* A connection is ready; or some of them never will be.
SetUp ==
    /\ coming > 0
    /\ coming' = coming - 1
    /\ backlog' = backlog + 1
    /\ UNCHANGED ln

FewerComing(n) == coming' \in 0 .. n
SetupsEnd ==
    /\ coming > 0 /\ FewerComing(coming - 1)
    /\ UNCHANGED <<ln, backlog>>

\* Accept returns a connection, or the error of a listener that is being closed.
AcceptReady == backlog > 0 /\ backlog' = backlog - 1 /\ UNCHANGED <<ln, coming>>
AcceptFailed == ln \in {"closing", "closed"} /\ UNCHANGED lnVars

\* Close, or the end of a listener whose socket has failed for good.
BeginClose == ln = "open" /\ ln' = "closing" /\ UNCHANGED <<coming, backlog>>
EndClose == ln = "closing" /\ ln' = "closed" /\ FewerComing(coming) /\ UNCHANGED backlog

\* Some implementations then close the connections that are ready.
Discard == ln = "closed" /\ AcceptReady

ListenerNext ==
    \/ OpenListener \/ Connect \/ SetUp \/ SetupsEnd \/ AcceptReady \/ AcceptFailed
    \/ BeginClose \/ EndClose \/ Discard

ListenerSpec == ListenerInit /\ [][ListenerNext]_lnVars

\* Close completes, and of the connections that were being set up none stays for
\* ever in between: the server ends only because of this.
CloseSettles == (ln = "closing") ~> (ln = "closed" /\ coming = 0)
=============================================================================

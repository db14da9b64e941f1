------------------------------- MODULE Dialer -------------------------------
(***************************************************************************)
(* An attempt of maintainSession in detail: Dial of the four carriers under  *)
(* the 20 s context, then the handshake and mux.Client on the connection.    *)
(* The TCP, TLS and web socket dialers connect and set up in the calling     *)
(* goroutine, which the context interrupts; kcpDialer dials in a goroutine   *)
(* of its own and leaves it behind when the context ends first.  Steps of    *)
(* Reconnect say what each outcome means for the next attempt.               *)
(***************************************************************************)
EXTENDS Reconnect

CONSTANTS
    Sock,       \* names of connections
    DialLimit,  \* the 20 s of the context, in ticks
    None

ASSUME DialerAssumption == DialLimit \in Nat /\ None \notin Sock \cup {"worker", "closer"}

VARIABLES
    carrier,  \* "kcp" or one of the others, "direct"
    dial,     \* where the worker stands within the attempt
    cur,      \* its connection
    timer,    \* what is left of the context
    sock,     \* each connection: being dialled, dialled, or not there
    owner     \* the goroutine that will close it or hand it on

dialVars == <<carrier, dial, cur, timer, sock, owner>>
allVars == <<vars, dialVars>>

DialerInit ==
    /\ Init
    /\ carrier \in {"direct", "kcp"}
    /\ dial = "none" /\ cur = None /\ timer = 0
    /\ sock = [s \in Sock |-> "free"] /\ owner = [s \in Sock |-> None]

Owned(s, st, o) == sock' = [sock EXCEPT ![s] = st] /\ owner' = [owner EXCEPT ![s] = o]
At(d) == dial' = d /\ UNCHANGED <<carrier, cur, timer>>

\* The connection is closed, and the attempt has failed.
GiveUp == dial' = "none" /\ cur' = None /\ UNCHANGED <<carrier, timer>> /\ AttemptFails

-----------------------------------------------------------------------------
StartDial ==
    /\ Dial
    /\ \E s \in Sock : sock[s] = "free" /\ cur' = s /\ Owned(s, "dialling", "worker")
    /\ dial' = "connect" /\ timer' = DialLimit
    /\ UNCHANGED carrier

\* The library has the connection.  kcpDialer's goroutine sends it on a channel with
\* room for it and ends, whoever receives it.
Arrives(s) ==
    /\ sock[s] = "dialling"
    /\ sock' = [sock EXCEPT ![s] = "open"]
    /\ UNCHANGED <<vars, carrier, dial, cur, timer, owner>>

\* It has an error instead; only a worker that still waits for it hears of it.
Errs(s) ==
    /\ sock[s] = "dialling"
    /\ Owned(s, "free", None)
    /\ IF s = cur THEN GiveUp ELSE UNCHANGED <<vars, carrier, dial, cur, timer>>

Connected ==
    /\ dial = "connect" /\ sock[cur] = "open"
    /\ At(IF carrier = "kcp" THEN "held" ELSE "setup")
    /\ UNCHANGED <<vars, sock, owner>>

\* The context ends while the dial is under way: a direct dial is interrupted ...
Interrupted ==
    /\ dial = "connect" /\ timer = 0 /\ carrier = "direct"
    /\ Owned(cur, "free", None)
    /\ GiveUp

\* Slip (NoneUnattended): nobody waits for the session that comes late.
AbandonAlone ==
    /\ dial = "connect" /\ timer = 0 /\ carrier = "kcp"
    /\ owner' = [owner EXCEPT ![cur] = None]
    /\ GiveUp /\ UNCHANGED sock

\* ... a kcp dial is left to a goroutine that closes what comes of it.
Abandon ==
    /\ dial = "connect" /\ timer = 0 /\ carrier = "kcp"
    /\ owner' = [owner EXCEPT ![cur] = "closer"]
    /\ GiveUp /\ UNCHANGED sock

CloseLate(s) ==
    /\ owner[s] = "closer" /\ sock[s] = "open"
    /\ Owned(s, "free", None)
    /\ UNCHANGED <<vars, carrier, dial, cur, timer>>

\* The uTLS handshake, the nonce of obfs, the upgrade: done, or failed in time.
SetupDone == dial = "setup" /\ At("held") /\ UNCHANGED <<vars, sock, owner>>

\* So is the handshake of the tunnel, or mux.Client, on the connection Dial returned.
SetupBreaks ==
    /\ dial \in {"setup", "held"}
    /\ Owned(cur, "free", None)
    /\ GiveUp

Up == dial = "held" /\ Established /\ At("up") /\ UNCHANGED <<sock, owner>>

Drops ==
    /\ dial = "up" /\ Lost
    /\ Owned(cur, "free", None)
    /\ dial' = "none" /\ cur' = None /\ UNCHANGED <<carrier, timer>>

\* A dial that waits for its context does not go on beyond it.
Time ==
    /\ Tick
    /\ dial = "connect" => timer > 0
    /\ timer' = IF timer = 0 THEN 0 ELSE timer - 1
    /\ UNCHANGED <<carrier, dial, cur, sock, owner>>

After == (LostStable \/ LostQuickly \/ Wake) /\ UNCHANGED dialVars

DialerNext ==
    \/ StartDial \/ Connected \/ Interrupted \/ Abandon \/ SetupDone \/ SetupBreaks
    \/ Up \/ Drops \/ Time \/ After
    \/ \E s \in Sock : Arrives(s) \/ Errs(s) \/ CloseLate(s)

DialerSpec == DialerInit /\ [][DialerNext]_allVars

-----------------------------------------------------------------------------
(* Properties.                                                             *)

\* Every connection that exists or may still come has somebody who will hand it on
\* or close it: the worker that waits for it, or the goroutine that an abandoned dial
\* leaves behind, however late it comes and however many attempts later.
NoneUnattended ==
    \A s \in Sock :
        /\ sock[s] # "free" => owner[s] \in {"worker", "closer"}
        /\ owner[s] = "worker" <=> (s = cur /\ cur # None)
=============================================================================

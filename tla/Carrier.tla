------------------------------- MODULE Carrier -------------------------------
(***************************************************************************)
(* The listeners of internal/transport: asyncListener (TCP, obfuscated TCP   *)
(* and TLS), wsListener (WS and WSS) and kcpListener.  Connections come from *)
(* the kernel's queue (or kcp-go's), pass through their setup, and wait in   *)
(* connCh for Accept.  asyncListener sets each one up in a goroutine that    *)
(* holds a slot of sem; net/http does so for wsListener, without a bound or  *)
(* a deadline; a KCP session needs no setup.                                 *)
(*                                                                          *)
(* Close may be called at any time: it closes done, then the socket, and     *)
(* kcpListener then drains connCh.  Every goroutine that waits for room in a *)
(* channel selects on done as well; when both are ready either may win.      *)
(***************************************************************************)
EXTENDS Naturals, FiniteSets

CONSTANTS
    Conn,       \* connections; a name is taken again once its connection is closed
    Silent,     \* those of peers that never complete their setup
    Workers,    \* maxHandshakeWorkers
    Capacity,   \* the capacity of connCh
    Kind        \* the implementations: a subset of "async", "ws", "kcp"

ASSUME CarrierAssumption ==
    /\ IsFiniteSet(Conn) /\ Silent \subseteq Conn
    /\ Workers \in Nat \ {0} /\ Capacity \in Nat \ {0}
    /\ Kind \subseteq {"async", "ws", "kcp"}

VARIABLES
    kind,   \* the implementation at hand
    sock,   \* the socket under the listener
    done,   \* the done channel is closed
    loop,   \* where the accept loop stands
    at,     \* where each connection is; "ready" is connCh
    open,   \* the connections that have not been closed on this side
    sem,    \* asyncListener.sem: the slots taken
    late,   \* of the connections in connCh, those put there after done
    closer, \* the body of Close, which runs once
    caller  \* Server.Run, which calls Accept

vars == <<kind, sock, done, loop, at, open, sem, late, closer, caller>>

In(place) == {c \in Conn : at[c] = place}

TypeOK ==
    /\ kind \in Kind
    /\ sock \in {"none", "open", "closed"}
    /\ done \in BOOLEAN
    /\ loop \in {"accept", "acquire", "backoff", "push", "failed", "exit"}
    /\ at \in [Conn -> {"away", "queued", "hand", "setup", "offer", "ready", "given"}]
    /\ open \subseteq Conn
    /\ sem \in 0 .. Workers
    /\ late \subseteq Conn
    /\ closer \in {"idle", "socket", "drain", "closed"}
    /\ caller \in {"busy", "waiting", "returned"}
    /\ Cardinality(In("ready")) <= Capacity

Init ==
    /\ kind \in Kind
    /\ sock = "none"
    /\ done = FALSE
    /\ loop = "accept"
    /\ at = [c \in Conn |-> "away"]
    /\ open = {}
    /\ sem = 0
    /\ late = {}
    /\ closer = "idle"
    /\ caller = "busy"

Put(c, place) == at' = [at EXCEPT ![c] = place]
Drop(cs) == at' = [c \in Conn |-> IF c \in cs THEN "away" ELSE at[c]] /\ open' = open \ cs

-----------------------------------------------------------------------------
(* The accept loop.                                                        *)

Listen ==
    /\ sock = "none"
    /\ sock' = "open"
    /\ UNCHANGED <<kind, done, loop, at, open, sem, late, closer, caller>>

Arrive(c) ==
    /\ sock = "open" /\ at[c] = "away"
    /\ Put(c, "queued")
    /\ open' = open \cup {c}
    /\ UNCHANGED <<kind, sock, done, loop, sem, late, closer, caller>>

\* ln.Accept returns a connection.  net/http starts its goroutine at once; kcp-go
\* may return a session even after Close.
LoopAccept(c) ==
    /\ loop = "accept" /\ at[c] = "queued" /\ (sock = "open" \/ kind = "kcp")
    /\ loop' = CASE kind = "async" -> "acquire" [] kind = "kcp" -> "push" [] OTHER -> loop
    /\ Put(c, IF kind = "ws" THEN "setup" ELSE "hand")
    /\ UNCHANGED <<kind, sock, done, open, sem, late, closer, caller>>

\* A transient error, for example no file descriptors left.
LoopError ==
    /\ loop = "accept" /\ kind = "async" /\ sock = "open"
    /\ loop' = "backoff"
    /\ UNCHANGED <<kind, sock, done, at, open, sem, late, closer, caller>>

LoopBackoff ==
    /\ loop = "backoff"
    /\ loop' = "accept" \/ (done /\ loop' = "exit")
    /\ UNCHANGED <<kind, sock, done, at, open, sem, late, closer, caller>>

LoopEnds ==
    /\ (loop = "accept" /\ sock = "closed") \/ (loop = "failed" /\ closer = "closed")
    /\ loop' = "exit"
    /\ UNCHANGED <<kind, sock, done, at, open, sem, late, closer, caller>>

\* kcp-go's errors are permanent: the loop shuts the listener down itself.
LoopFails ==
    /\ loop = "accept" /\ kind = "kcp" /\ sock = "open" /\ ~done
    /\ loop' = "failed"
    /\ done' = TRUE
    /\ closer' = "socket"
    /\ UNCHANGED <<kind, sock, at, open, sem, late, caller>>

\* A slot is taken before the goroutine is started ...
Acquire(c) ==
    /\ loop = "acquire" /\ at[c] = "hand" /\ sem < Workers
    /\ loop' = "accept"
    /\ sem' = sem + 1
    /\ Put(c, "setup")
    /\ UNCHANGED <<kind, sock, done, open, late, closer, caller>>

\* Slip (NoneLost): the loop returns without raw.Close.
ReturnHolding(c) ==
    /\ loop \in {"acquire", "push"} /\ at[c] = "hand" /\ done
    /\ loop' = "exit"
    /\ Put(c, "away")
    /\ UNCHANGED <<kind, sock, done, open, sem, late, closer, caller>>

\* ... or done wins, as it may over connCh in kcpListener's loop.
LoopStops(c) ==
    /\ loop \in {"acquire", "push"} /\ at[c] = "hand" /\ done
    /\ loop' = "exit"
    /\ Drop({c})
    /\ UNCHANGED <<kind, sock, done, sem, late, closer, caller>>

-----------------------------------------------------------------------------
(* Setting a connection up, and connCh.                                    *)

Room == Cardinality(In("ready")) < Capacity

\* Slip (SlotsOfWorkers, NotStalled): the slot is released on success only.
KeepSlot == sem' = sem

\* A goroutine of asyncListener ends, and with it its hold of a slot.
LeaveSlot == sem' = IF kind = "async" THEN sem - 1 ELSE sem

SetupOk(c) ==
    /\ at[c] = "setup" /\ c \notin Silent
    /\ Put(c, "offer")
    /\ UNCHANGED <<kind, sock, done, loop, open, sem, late, closer, caller>>

\* The TLS or obfs handshake fails, or its deadline passes; for a web socket the
\* peer leaves.  (A request that is no upgrade is answered and another may follow.)
SetupFails(c) ==
    /\ at[c] = "setup"
    /\ Drop({c})
    /\ LeaveSlot
    /\ UNCHANGED <<kind, sock, done, loop, late, closer, caller>>

\* connCh takes the connection ...
Enqueue(c) ==
    /\ Room
    /\ Put(c, "ready")
    /\ late' = IF done THEN late \cup {c} ELSE late

Offered(c) ==
    /\ at[c] = "offer" /\ Enqueue(c)
    /\ LeaveSlot
    /\ UNCHANGED <<kind, sock, done, loop, open, closer, caller>>

Pushed(c) ==
    /\ loop = "push" /\ at[c] = "hand" /\ Enqueue(c)
    /\ loop' = "accept"
    /\ UNCHANGED <<kind, sock, done, open, sem, closer, caller>>

\* Slip (CloseSettled): the goroutine waits for room only.
OfferForEver(c) == FALSE /\ UNCHANGED vars

\* ... or done wins.
OfferEnds(c) ==
    /\ at[c] = "offer" /\ done
    /\ Drop({c})
    /\ LeaveSlot
    /\ UNCHANGED <<kind, sock, done, loop, late, closer, caller>>

-----------------------------------------------------------------------------
(* Accept and Close.                                                       *)

Call ==
    /\ caller = "busy"
    /\ caller' = "waiting"
    /\ UNCHANGED <<kind, sock, done, loop, at, open, sem, late, closer>>

AcceptOne(c) ==
    /\ caller = "waiting" /\ at[c] = "ready"
    /\ caller' = "busy"
    /\ Put(c, "given")
    /\ late' = late \ {c}
    /\ UNCHANGED <<kind, sock, done, loop, open, sem, closer>>

AcceptErrClosed ==
    /\ caller = "waiting" /\ done
    /\ caller' = "returned"
    /\ UNCHANGED <<kind, sock, done, loop, at, open, sem, late, closer>>

\* The server is done with a connection.
GivenEnds(c) ==
    /\ at[c] = "given"
    /\ Drop({c})
    /\ UNCHANGED <<kind, sock, done, loop, sem, late, closer, caller>>

\* Slip (Implements): the socket is closed, but done is not.
CloseSilently ==
    /\ closer = "idle" /\ sock = "open"
    /\ sock' = "closed"
    /\ closer' = "closed"
    /\ UNCHANGED <<kind, done, loop, at, open, sem, late, caller>>

Close ==
    /\ closer = "idle" /\ sock = "open"
    /\ done' = TRUE
    /\ closer' = "socket"
    /\ UNCHANGED <<kind, sock, loop, at, open, sem, late, caller>>

\* Closing the socket resets what is queued in the kernel; http.Server.Close also
\* closes the connections no handler has taken over yet.
CloseSocket ==
    /\ closer = "socket"
    /\ sock' = "closed"
    /\ Drop(CASE kind = "async" -> In("queued") [] kind = "ws" -> In("queued") \cup In("setup")
            [] kind = "kcp" -> {})
    /\ closer' = IF kind = "kcp" THEN "drain" ELSE "closed"
    /\ UNCHANGED <<kind, done, loop, sem, late, caller>>

\* kcpListener empties connCh; whatever comes after that stays.
Drain(c) ==
    /\ closer = "drain" /\ at[c] = "ready"
    /\ Drop({c})
    /\ late' = late \ {c}
    /\ UNCHANGED <<kind, sock, done, loop, sem, closer, caller>>

\* Slip (DrainedButLate): connCh is left as it is.
LeaveUndrained ==
    /\ closer = "drain"
    /\ closer' = "closed"
    /\ UNCHANGED <<kind, sock, done, loop, at, open, sem, late, caller>>

DrainEnds ==
    /\ closer = "drain" /\ In("ready") = {}
    /\ closer' = "closed"
    /\ UNCHANGED <<kind, sock, done, loop, at, open, sem, late, caller>>

-----------------------------------------------------------------------------
Next ==
    \/ Listen \/ LoopError \/ LoopBackoff \/ LoopEnds \/ LoopFails
    \/ Call \/ AcceptErrClosed \/ Close \/ CloseSocket \/ DrainEnds
    \/ \E c \in Conn :
           \/ Arrive(c) \/ LoopAccept(c) \/ Acquire(c) \/ LoopStops(c)
           \/ SetupOk(c) \/ SetupFails(c) \/ Offered(c) \/ Pushed(c) \/ OfferEnds(c)
           \/ AcceptOne(c) \/ GivenEnds(c) \/ Drain(c)

(* Fairness.  Goroutines that can step do.  The kernel's queue and the       *)
(* senders waiting on a channel are served in order, hence SF for them; the  *)
(* errors of ln.Accept are transient.  A setup ends by its 15 s deadline,    *)
(* except in wsListener, where a silent peer is waited for as long as it     *)
(* stays.  The server keeps calling Accept; nobody has to call Close.        *)
SetupEnds(c) ==
    /\ SF_vars(SetupOk(c))
    /\ WF_vars(kind # "ws" /\ (SetupOk(c) \/ SetupFails(c)))

Fairness ==
    /\ WF_vars(LoopBackoff \/ LoopEnds \/ \E c \in Conn : Acquire(c) \/ Pushed(c) \/ LoopStops(c))
    /\ WF_vars(CloseSocket \/ DrainEnds \/ \E c \in Conn : Drain(c))
    /\ WF_vars(Call \/ AcceptErrClosed \/ \E c \in Conn : AcceptOne(c))
    /\ \A c \in Conn :
           SF_vars(LoopAccept(c)) /\ SetupEnds(c) /\ SF_vars(Offered(c) \/ OfferEnds(c))

Spec == Init /\ [][Next]_vars
LiveSpec == Spec /\ Fairness

-----------------------------------------------------------------------------
(* Properties.                                                             *)

\* Nobody will accept a session that kcp-go still holds when the loop has ended.
Stranded(c) == at[c] = "queued" /\ loop = "exit"

\* The abstract listener: a connection is coming from the moment it is queued until
\* it is ready or closed.
Coming == {c \in Conn : at[c] \in {"queued", "hand", "setup", "offer"} /\ ~Stranded(c)}
ListenerState ==
    CASE sock = "none" -> "none"
      [] sock = "closed" -> "closed"
      [] OTHER -> IF done THEN "closing" ELSE "open"

L == INSTANCE Listener WITH
        MaxBacklog <- Cardinality(Conn), ln <- ListenerState,
        coming <- Cardinality(Coming), backlog <- Cardinality(In("ready"))

\* Each of the three listeners implements the one the server is written against.
Implements == L!ListenerSpec

\* Close completes for each of them, however connections, workers and the accept
\* loop stand when it is called.
CloseSettled == L!CloseSettles

\* The slots of sem are those of the goroutines setting a connection up or offering
\* it: no error path keeps one, or gives one back twice.
SlotsOfWorkers ==
    sem = IF kind = "async" THEN Cardinality(In("setup") \cup In("offer")) ELSE 0

\* A connection is open exactly as long as somebody holds it: none is dropped without
\* being closed, on whichever path it is dropped, and none is handed over closed.
NoneLost == open = Conn \ In("away")

\* "Close any sessions accepted but not yet consumed, so they do not leak": of the
\* sessions in connCh only those put there after done can escape the drain.
DrainedButLate == (kind = "kcp" /\ closer = "closed") => In("ready") \subseteq late

\* "A single slow or silent peer cannot stall the accept loop": while the listener
\* is not closed, a peer that answers gets its connection to connCh.
NotStalled ==
    \A c \in Conn \ Silent : at[c] = "queued" ~> (at[c] \in {"ready", "away"} \/ done)
=============================================================================

---------------------------- MODULE ServerProofs ----------------------------
(***************************************************************************)
(* Proofs about tunnel.Server for every number of connections, handshake     *)
(* slots, sessions, users and reverse services.  The argument for sessions   *)
(* is the client's, with one difference: handleConn keeps the name of its    *)
(* session until it returns, after it has closed it.  The argument for the   *)
(* slots is that slotReleased tells exactly who still has one (SlotsKnown).  *)
(***************************************************************************)
EXTENDS Server, DispatchProofs

Pc == {"none", "auth", "mux", "established", "add", "accept", "remove", "close", "return"}
Serving == {"established", "add", "accept", "remove", "close"}

ServerShape ==
    /\ done \in BOOLEAN
    /\ hpc \in [Conn -> Pc]
    /\ released \in [Conn -> BOOLEAN]
    /\ own \in [Conn -> Sess \cup {None}]
    /\ slots \in Int

HoldsWhileServing ==
    \A h \in Conn : /\ hpc[h] \in Serving => own[h] # None
                    /\ hpc[h] \in {"none", "auth", "mux"} => own[h] = None
OneOwner == \A g, h \in Conn : own[g] = own[h] /\ own[g] # None => g = h
HeldWhileLive == \A s \in Live : \E h \in Conn : own[h] = s /\ hpc[h] \in Serving
RegisteredWhileServed ==
    \A s \in registered : \E h \in Conn : own[h] = s /\ hpc[h] \in {"accept", "remove"}

Owning == ServerShape /\ HoldsWhileServing /\ OneOwner /\ HeldWhileLive /\ RegisteredWhileServed

HasSlot(h) == hpc[h] # "none" /\ ~released[h]
SlotsKnown == \A h \in Conn : InHandshake(h) <=> HasSlot(h)

IInv == SetInv /\ DispatchInv /\ StreamsInv /\ Owning /\ SlotsKnown /\ SlotsExact

-----------------------------------------------------------------------------
(* What the invariant gives, and the initial states.                       *)

LEMMA OwningImplies == ASSUME Owning PROVE SessionsOwned
<1>1. ASSUME NEW h \in Conn, own[h] # None
      PROVE  Owners(own[h]) = {h}
  BY <1>1 DEF Owning, OneOwner, Owners
<1>2. ASSUME NEW s \in Live
      PROVE  \E h \in Conn : Owners(s) = {h} /\ hpc[h] \in Serving
  BY <1>1, SessAssumption DEF Owning, HeldWhileLive, HoldsWhileServing, Live
<1>3. ASSUME NEW s \in registered
      PROVE  \E h \in Conn : Owners(s) = {h} /\ hpc[h] \in {"accept", "remove"}
  BY <1>1 DEF Owning, RegisteredWhileServed, HoldsWhileServing, Serving
<1> QED BY <1>2, <1>3 DEF SessionsOwned, Serving

LEMMA InitIInv == Init => IInv
<1> SUFFICES ASSUME Init PROVE IInv
  OBVIOUS
<1>1. SetInv /\ DispatchInv /\ StreamsInv
  BY SetInvInit, DispatchInvInit, StreamsInvInit DEF Init
<1>2. done = FALSE /\ registered = {} /\ Live = {}
  BY DEF Init, SetInit, DispatchInit, Live, IsClosed
<1>3. Owning
  <2>1. done \in BOOLEAN
    BY <1>2
  <2>2. /\ hpc \in [Conn -> Pc] /\ released \in [Conn -> BOOLEAN]
        /\ own \in [Conn -> Sess \cup {None}] /\ slots \in Int
    BY DEF Init, Pc
  <2>3. HoldsWhileServing /\ OneOwner
    BY DEF Init, HoldsWhileServing, OneOwner, Serving
  <2> QED BY <1>2, <2>1, <2>2, <2>3 DEF Owning, ServerShape, HeldWhileLive, RegisteredWhileServed
<1>4. SlotsKnown
  BY DEF Init, SlotsKnown, HasSlot, InHandshake
<1>5. {h \in Conn : InHandshake(h)} = {}
  BY DEF Init, InHandshake
<1> QED BY <1>1, <1>3, <1>4, <1>5, FS_EmptySet DEF Init, SlotsExact, IInv

-----------------------------------------------------------------------------
(* Slots.                                                                  *)

HandshakeSet == {h \in Conn : InHandshake(h)}

LEMMA HandshakeFinite == IsFiniteSet(HandshakeSet)
BY ServerAssumption, FS_Subset DEF HandshakeSet

\* One goroutine enters, leaves or stays in the handshake; slots follows it.
LEMMA SlotsFollow ==
    ASSUME SlotsExact, NEW h \in Conn,
           \A g \in Conn \ {h} : InHandshake(g)' <=> InHandshake(g),
           \/ /\ (InHandshake(h)' <=> InHandshake(h)) /\ slots' = slots
           \/ /\ ~InHandshake(h) /\ InHandshake(h)' /\ slots' = slots + 1
           \/ /\ InHandshake(h) /\ ~InHandshake(h)' /\ slots' = slots - 1
    PROVE  SlotsExact'
<1>0. slots = Cardinality(HandshakeSet) /\ Cardinality(HandshakeSet) \in Nat
  BY HandshakeFinite, FS_CardinalityType DEF SlotsExact, HandshakeSet
<1>1. SlotsExact' <=> slots' = Cardinality(HandshakeSet')
  BY DEF SlotsExact, HandshakeSet
<1>2. CASE (InHandshake(h)' <=> InHandshake(h)) /\ slots' = slots
  <2>1. HandshakeSet' = HandshakeSet
    BY <1>2 DEF HandshakeSet
  <2> QED BY <1>0, <1>1, <1>2, <2>1
<1>3. CASE ~InHandshake(h) /\ InHandshake(h)' /\ slots' = slots + 1
  <2>1. HandshakeSet' = HandshakeSet \cup {h} /\ h \notin HandshakeSet
    BY <1>3 DEF HandshakeSet
  <2>2. Cardinality(HandshakeSet \cup {h}) = Cardinality(HandshakeSet) + 1
    BY <2>1, HandshakeFinite, FS_AddElement
  <2> QED BY <1>0, <1>1, <1>3, <2>1, <2>2
<1>4. CASE InHandshake(h) /\ ~InHandshake(h)' /\ slots' = slots - 1
  <2>1. HandshakeSet' = HandshakeSet \ {h} /\ h \in HandshakeSet
    BY <1>4 DEF HandshakeSet
  <2>2. Cardinality(HandshakeSet \ {h}) = Cardinality(HandshakeSet) - 1
    BY <2>1, HandshakeFinite, FS_RemoveElement
  <2> QED BY <1>0, <1>1, <1>4, <2>1, <2>2
<1> QED BY <1>2, <1>3, <1>4

LEMMA SlotsUntouched ==
    ASSUME SlotsKnown, SlotsExact, UNCHANGED <<slots, released, hpc, own>>
    PROVE  SlotsKnown' /\ SlotsExact'
BY DEF SlotsKnown, SlotsExact, HasSlot, InHandshake

LEMMA ConnSlots ==
    ASSUME Owning, SlotsKnown, SlotsExact, NEW h \in Conn, ConnNext(h)
    PROVE  SlotsKnown' /\ SlotsExact'
<1> USE DEF Owning, ServerShape
<1>1. CASE Spawn(h)
  <2>1. /\ hpc[h] = "none" /\ hpc' = [hpc EXCEPT ![h] = "auth"] /\ slots' = slots + 1
        /\ released' = [released EXCEPT ![h] = FALSE] /\ UNCHANGED own
    BY <1>1 DEF Spawn
  <2>2. /\ ~InHandshake(h) /\ InHandshake(h)'
        /\ \A g \in Conn \ {h} : InHandshake(g)' <=> InHandshake(g)
    BY <2>1 DEF InHandshake
  <2> QED BY <2>1, <2>2, SlotsFollow DEF SlotsKnown, HasSlot
<1>2. CASE Established(h) \/ Return(h)
  <2>1. /\ hpc[h] \in {"established", "return"}
        /\ slots' = (IF released[h] THEN slots ELSE slots - 1)
        /\ released' = [released EXCEPT ![h] = TRUE]
        /\ \/ hpc' = [hpc EXCEPT ![h] = "add"] /\ own' = own
           \/ hpc' = [hpc EXCEPT ![h] = "none"] /\ own' = [own EXCEPT ![h] = None]
    BY <1>2 DEF Established, Return, ReleaseSlot, Goto
  <2>2. InHandshake(h) <=> ~released[h]
    BY <2>1 DEF SlotsKnown, HasSlot
  <2>3. /\ ~InHandshake(h)'
        /\ \A g \in Conn \ {h} : InHandshake(g)' <=> InHandshake(g)
    BY <2>1 DEF InHandshake
  <2>4. SlotsExact'
    <3>1. CASE released[h]
      BY <2>1, <2>2, <2>3, <3>1, SlotsFollow
    <3>2. CASE ~released[h]
      BY <2>1, <2>2, <2>3, <3>2, SlotsFollow
    <3> QED BY <3>1, <3>2
  <2>5. SlotsKnown'
    BY <2>1, <2>3 DEF SlotsKnown, HasSlot
  <2> QED BY <2>4, <2>5
<1>3. CASE \/ AuthOk(h) \/ SetupFails(h) \/ MuxOk(h) \/ AddSession(h) \/ AcceptForward(h)
           \/ AcceptFails(h) \/ RemoveSession(h) \/ CloseSession(h)
  <2>1. /\ UNCHANGED <<slots, released>>
        /\ hpc[h] # "none" /\ hpc'[h] # "none"
        /\ \A g \in Conn \ {h} : hpc'[g] = hpc[g] /\ own'[g] = own[g]
    BY <1>3 DEF AuthOk, SetupFails, MuxOk, AddSession, AcceptForward, AcceptFails, RemoveSession,
       CloseSession, Goto, serverVars
  <2>2. InHandshake(h)' <=> InHandshake(h)
    <3>1. CASE SetupFails(h)
      BY <3>1 DEF SetupFails, Goto, InHandshake, HoldsWhileServing
    <3>2. CASE CloseSession(h)
      BY <3>2 DEF CloseSession, Goto, InHandshake, HoldsWhileServing, Serving
    <3>3. CASE \/ AuthOk(h) \/ MuxOk(h) \/ AddSession(h) \/ AcceptForward(h)
               \/ AcceptFails(h) \/ RemoveSession(h)
      BY <3>3 DEF AuthOk, MuxOk, AddSession, AcceptForward, AcceptFails, RemoveSession, Goto,
         InHandshake, serverVars
    <3> QED BY <1>3, <3>1, <3>2, <3>3
  <2>3. \A g \in Conn \ {h} : InHandshake(g)' <=> InHandshake(g)
    BY <2>1 DEF InHandshake
  <2>4. SlotsExact'
    BY <2>1, <2>2, <2>3, SlotsFollow
  <2>5. SlotsKnown'
    BY <2>1, <2>2, <2>3 DEF SlotsKnown, HasSlot
  <2> QED BY <2>4, <2>5
<1> QED BY <1>1, <1>2, <1>3 DEF ConnNext

-----------------------------------------------------------------------------
(* Sessions.                                                               *)

\* Sessions fail, are closed by CloseAll, or nothing about them changes.
LEMMA OwningUntouched ==
    ASSUME Owning, UNCHANGED <<hpc, own, released, slots>>,
           done' \in BOOLEAN, registered' \subseteq registered,
           \A s \in Sess : IsClosed(s) => IsClosed(s)'
    PROVE  Owning'
BY DEF Owning, ServerShape, HoldsWhileServing, OneOwner, HeldWhileLive, RegisteredWhileServed,
   Live

\* A goroutine that neither gains nor loses a session, nor registers one.
LEMMA ConnMoves ==
    ASSUME Owning, NEW h \in Conn, NEW l \in Pc, Goto(h, l),
           UNCHANGED <<status, registered, done, own>>,
           released' \in [Conn -> BOOLEAN], slots' \in Int,
           hpc[h] \in {"none", "auth", "mux"} => l \in {"auth", "mux", "return"},
           hpc[h] \in Serving => l \in Serving,
           hpc[h] \in {"accept", "remove"} => l = "remove",
           hpc[h] # "return"
    PROVE  Owning'
<1>1. ServerShape'
  BY DEF Owning, ServerShape, Goto
<1>2. hpc'[h] = l /\ \A g \in Conn \ {h} : hpc'[g] = hpc[g]
  BY DEF Owning, ServerShape, Goto
<1>3. HoldsWhileServing' /\ OneOwner'
  BY <1>2 DEF Owning, ServerShape, HoldsWhileServing, OneOwner, Serving, Pc
<1>4. HeldWhileLive'
  <2>1. Live' = Live
    BY DEF Live, IsClosed
  <2> QED BY <1>2, <2>1 DEF Owning, HeldWhileLive
<1>5. RegisteredWhileServed'
  BY <1>2 DEF Owning, RegisteredWhileServed
<1> QED BY <1>1, <1>3, <1>4, <1>5 DEF Owning

LEMMA ConnOwning ==
    ASSUME SetInv, Owning, NEW h \in Conn, ConnNext(h)
    PROVE  Owning'
<1> USE DEF Pc, Serving
<1>0. ServerShape
  BY DEF Owning
<1>1a. CASE Spawn(h)
  <2>1. /\ hpc[h] = "none" /\ Goto(h, "auth") /\ UNCHANGED <<status, registered, done, own>>
        /\ released' \in [Conn -> BOOLEAN] /\ slots' \in Int
    BY <1>0, <1>1a DEF Spawn, Goto, setVars, ServerShape
  <2> QED BY <2>1, ConnMoves
<1>1b. CASE AuthOk(h) \/ SetupFails(h)
  <2>1. /\ hpc[h] \in {"auth", "mux"} /\ \E l \in {"mux", "return"} : Goto(h, l)
        /\ UNCHANGED <<status, registered, done, own, released, slots>>
    BY <1>1b DEF AuthOk, SetupFails, setVars
  <2> QED BY <1>0, <2>1, ConnMoves DEF ServerShape
<1>1c. CASE Established(h)
  <2>1. /\ hpc[h] = "established" /\ Goto(h, "add") /\ UNCHANGED <<status, registered, done, own>>
        /\ released' \in [Conn -> BOOLEAN] /\ slots' \in Int
    BY <1>0, <1>1c DEF Established, ReleaseSlot, setVars, ServerShape
  <2> QED BY <2>1, ConnMoves
<1>1d. CASE AcceptFails(h)
  <2>1. /\ hpc[h] = "accept" /\ Goto(h, "remove")
        /\ UNCHANGED <<status, registered, done, own, released, slots>>
    BY <1>1d DEF AcceptFails, setVars
  <2> QED BY <1>0, <2>1, ConnMoves DEF ServerShape
<1>2. CASE MuxOk(h)
  <2>1. PICK s \in Sess : Unused(s) /\ NewSession(s) /\ own' = [own EXCEPT ![h] = s]
    BY <1>2 DEF MuxOk
  <2>2. /\ hpc[h] = "mux" /\ hpc' = [hpc EXCEPT ![h] = "established"]
        /\ UNCHANGED <<done, slots, released>>
    BY <1>2 DEF MuxOk, Goto
  <2>3. status' = [status EXCEPT ![s] = "open"] /\ UNCHANGED registered
    BY <2>1 DEF NewSession
  <2>4. own[h] = None /\ s \notin registered /\ \A g \in Conn : own[g] # s
    BY <2>1, <2>2 DEF Unused, Owning, HoldsWhileServing
  <2>5. own'[h] = s /\ \A g \in Conn \ {h} : own'[g] = own[g]
    BY <2>1 DEF Owning, ServerShape
  <2>6. hpc'[h] = "established" /\ \A g \in Conn \ {h} : hpc'[g] = hpc[g]
    BY <2>2 DEF Owning, ServerShape
  <2>7. ServerShape'
    BY <2>1, <2>2 DEF Owning, ServerShape, Pc
  <2>8. HoldsWhileServing' /\ OneOwner'
    BY <2>4, <2>5, <2>6, SessAssumption DEF Owning, HoldsWhileServing, OneOwner, Serving
  <2>9. HeldWhileLive'
    <3>1. \A t \in Live' : t = s \/ t \in Live
      BY <2>3 DEF Live, IsClosed, SetInv, SetShape
    <3>2. None \notin Live
      BY SessAssumption DEF Live
    <3> QED BY <2>4, <2>5, <2>6, <3>1, <3>2 DEF Owning, HeldWhileLive, Serving
  <2>10. RegisteredWhileServed'
    BY <2>2, <2>3, <2>4, <2>5, <2>6 DEF Owning, RegisteredWhileServed
  <2> QED BY <2>7, <2>8, <2>9, <2>10 DEF Owning
<1>3. CASE AddSession(h)
  <2>1. /\ hpc[h] = "add" /\ hpc' = [hpc EXCEPT ![h] = "accept"]
        /\ registered' = registered \cup {own[h]}
        /\ UNCHANGED <<status, done, slots, released, own>>
    BY <1>3 DEF AddSession, Add, Goto
  <2> QED
    BY <2>1 DEF Owning, ServerShape, HoldsWhileServing, OneOwner, HeldWhileLive,
       RegisteredWhileServed, Live, IsClosed, Serving, Pc
<1>4. CASE AcceptForward(h)
  BY <1>4, OwningUntouched DEF AcceptForward, AcceptStream, serverVars, IsClosed, Owning,
     ServerShape
<1>5. CASE RemoveSession(h)
  <2>1. /\ hpc[h] = "remove" /\ hpc' = [hpc EXCEPT ![h] = "close"]
        /\ registered' = registered \ {own[h]}
        /\ UNCHANGED <<status, done, slots, released, own>>
    BY <1>5 DEF RemoveSession, Remove, Goto
  <2> QED
    BY <2>1 DEF Owning, ServerShape, HoldsWhileServing, OneOwner, HeldWhileLive,
       RegisteredWhileServed, Live, IsClosed, Serving, Pc
<1>6. CASE CloseSession(h)
  <2>1. /\ hpc[h] = "close" /\ hpc' = [hpc EXCEPT ![h] = "return"]
        /\ status' = [status EXCEPT ![own[h]] = "closed"]
        /\ UNCHANGED <<registered, done, slots, released, own>>
    BY <1>6 DEF CloseSession, Goto
  <2>2. own[h] \in Sess
    BY <2>1 DEF Owning, ServerShape, HoldsWhileServing, Serving
  <2>3. Live' = Live \ {own[h]}
    BY <2>1, <2>2 DEF Live, IsClosed, SetInv, SetShape
  <2>4. hpc'[h] = "return" /\ \A g \in Conn \ {h} : hpc'[g] = hpc[g]
    BY <2>1 DEF Owning, ServerShape
  <2>5. ServerShape' /\ HoldsWhileServing' /\ OneOwner'
    BY <2>1, <2>4 DEF Owning, ServerShape, HoldsWhileServing, OneOwner, Serving, Pc
  <2>6. HeldWhileLive'
    BY <2>1, <2>3, <2>4 DEF Owning, HeldWhileLive
  <2>7. RegisteredWhileServed'
    BY <2>1, <2>4 DEF Owning, RegisteredWhileServed
  <2> QED BY <2>5, <2>6, <2>7 DEF Owning
<1>7. CASE Return(h)
  <2>1. /\ hpc[h] = "return" /\ hpc' = [hpc EXCEPT ![h] = "none"]
        /\ own' = [own EXCEPT ![h] = None]
        /\ released' = [released EXCEPT ![h] = TRUE]
        /\ slots' = (IF released[h] THEN slots ELSE slots - 1)
        /\ UNCHANGED <<status, registered, done>>
    BY <1>7 DEF Return, ReleaseSlot, Goto, setVars
  <2>2. /\ hpc'[h] = "none" /\ own'[h] = None
        /\ \A g \in Conn \ {h} : hpc'[g] = hpc[g] /\ own'[g] = own[g]
    BY <2>1 DEF Owning, ServerShape
  <2>3. ServerShape'
    BY <2>1 DEF Owning, ServerShape, Pc
  <2>4. HoldsWhileServing' /\ OneOwner'
    BY <2>2 DEF Owning, HoldsWhileServing, OneOwner, Serving
  <2>5. HeldWhileLive' /\ RegisteredWhileServed'
    BY <2>1, <2>2 DEF Owning, HeldWhileLive, RegisteredWhileServed, Live, IsClosed, Serving
  <2> QED BY <2>3, <2>4, <2>5 DEF Owning
<1> QED
  BY <1>1a, <1>1b, <1>1c, <1>1d, <1>2, <1>3, <1>4, <1>5, <1>6, <1>7 DEF ConnNext

LEMMA ConnSetInv ==
    ASSUME SetInv, Owning, NEW h \in Conn, ConnNext(h)
    PROVE  SetInv'
<1>1. CASE MuxOk(h)
  <2>1. PICK s \in Sess : Unused(s) /\ NewSession(s)
    BY <1>1 DEF MuxOk
  <2>2. /\ s \notin registered /\ status' = [status EXCEPT ![s] = "open"]
        /\ inbound' = [inbound EXCEPT ![s] = 0]
        /\ UNCHANGED <<streams, registered, closing, scan>>
    BY <2>1 DEF Unused, NewSession
  <2> QED BY <2>2, SessionStep DEF SetInv, SetShape, IsClosed
<1>2. CASE AddSession(h) \/ RemoveSession(h)
  <2>1. hpc[h] = "add" => own[h] \in Sess
    BY DEF Owning, ServerShape, HoldsWhileServing, Serving
  <2> QED BY <1>2, <2>1, WriteStep DEF AddSession, Add, RemoveSession, Remove, SetInv, SetShape
<1>3. CASE CloseSession(h)
  <2>1. /\ status' = [status EXCEPT ![own[h]] = "closed"]
        /\ UNCHANGED <<streams, inbound, registered, closing, scan>>
    BY <1>3 DEF CloseSession
  <2> QED BY <2>1, SessionStep DEF SetInv, SetShape, IsClosed
<1>4. CASE AcceptForward(h)
  <2>1. /\ inbound' = [inbound EXCEPT ![own[h]] = @ + 1]
        /\ UNCHANGED <<status, streams, registered, closing, scan>>
    BY <1>4 DEF AcceptForward, AcceptStream
  <2>2. own[h] \in Sess
    BY <1>4 DEF AcceptForward, Owning, ServerShape, HoldsWhileServing, Serving
  <2> QED BY <2>1, <2>2, SessionStep DEF SetInv, SetShape, IsClosed
<1>5. CASE Spawn(h) \/ AuthOk(h) \/ SetupFails(h) \/ Established(h) \/ AcceptFails(h) \/ Return(h)
  <2>1. UNCHANGED setVars
    BY <1>5 DEF Spawn, AuthOk, SetupFails, Established, AcceptFails, Return
  <2> QED BY <2>1, SessionStep DEF setVars, SetInv, SetShape, IsClosed
<1> QED
  BY <1>1, <1>2, <1>3, <1>4, <1>5 DEF ConnNext

LEMMA ConnKeepsUsers ==
    ASSUME NEW h \in Conn, ConnNext(h)
    PROVE  UNCHANGED <<scan, streams, upc, user, got>>
BY DEF ConnNext, Spawn, AuthOk, SetupFails, MuxOk, Established, AddSession, AcceptForward,
   AcceptFails, RemoveSession, CloseSession, Return, NewSession, Add, AcceptStream, Remove,
   setVars, dispatchVars

-----------------------------------------------------------------------------
(* Everything else: Run, the listeners, Close and the outside world.       *)

Rest ==
    \/ RunNext \/ ListenerWorks
    \/ \E v \in Service : BindReverse(v) \/ TrackReverse(v) \/ ReverseEnds(v)
    \/ CloseDone \/ CloseListener \/ ClosePublic \/ CloseAllSessions
    \/ \E s \in Sess : Fails(s) \/ InboundEnds(s)

LEMMA RestKeeps ==
    ASSUME Rest, done \in BOOLEAN
    PROVE  /\ UNCHANGED <<scan, streams, upc, user, got, hpc, own, released, slots>>
           /\ done' \in BOOLEAN
<1>1. CASE RunNext \/ ListenerWorks
  BY <1>1 DEF RunNext, Listen, SetListener, AcceptConn, AcceptClosed, AcquireAborted,
     ListenerWorks, setVars, dispatchVars
<1>2. CASE \E v \in Service : BindReverse(v) \/ TrackReverse(v) \/ ReverseEnds(v)
  BY <1>2 DEF BindReverse, TrackReverse, ReverseEnds, setVars, dispatchVars
<1>3. CASE CloseDone \/ CloseListener \/ ClosePublic
  BY <1>3 DEF CloseDone, CloseListener, ClosePublic, setVars, dispatchVars
<1>4. CASE CloseAllSessions
  BY <1>4 DEF CloseAllSessions, CloseAllBegin, CloseAllStep, CloseAllEnd, dispatchVars
<1>5. CASE \E s \in Sess : Fails(s) \/ InboundEnds(s)
  BY <1>5 DEF Fails, InboundEnds, BreakSession, KeepaliveClose, EndStream, dispatchVars,
     serverVars
<1> QED BY <1>1, <1>2, <1>3, <1>4, <1>5 DEF Rest

LEMMA RestSets ==
    ASSUME SetInv, Rest
    PROVE  /\ SetInv'
           /\ registered' \subseteq registered
           /\ \A s \in Sess : IsClosed(s) => IsClosed(s)'
<1>1. CASE \/ RunNext \/ ListenerWorks
           \/ \E v \in Service : BindReverse(v) \/ TrackReverse(v) \/ ReverseEnds(v)
           \/ CloseDone \/ CloseListener \/ ClosePublic
  <2>1. UNCHANGED setVars
    BY <1>1 DEF RunNext, Listen, SetListener, AcceptConn, AcceptClosed, AcquireAborted,
       ListenerWorks, BindReverse, TrackReverse, ReverseEnds, CloseDone, CloseListener, ClosePublic
  <2> QED BY <2>1, SessionStep DEF setVars, SetInv, SetShape, IsClosed
<1>2. CASE CloseAllSessions
  <2>1. /\ UNCHANGED <<streams, inbound, scan>>
        /\ registered' \subseteq registered /\ closing' \in BOOLEAN
        /\ status' \in [Sess -> {"open", "broken", "closed"}]
        /\ \A s \in Sess : IsClosed(s) => IsClosed(s)'
    BY <1>2 DEF CloseAllSessions, CloseAllBegin, CloseAllStep, CloseAllEnd, SetInv, SetShape,
       IsClosed
  <2>2. CASE closing
    BY <2>1, <2>2, CloseAllStepInv DEF SetInv, SetShape
  <2>3. CASE ~closing
    <3>1. CloseAllBegin
      BY <1>2, <2>3 DEF CloseAllSessions, CloseAllStep, CloseAllEnd
    <3> QED BY <2>1, <3>1, WriteStep DEF CloseAllBegin, SetInv, SetShape
  <2> QED BY <2>1, <2>2, <2>3
<1>3. CASE \E s \in Sess : Fails(s) \/ InboundEnds(s)
  <2>1. /\ UNCHANGED <<streams, registered, closing, scan>>
        /\ status' \in [Sess -> {"open", "broken", "closed"}]
        /\ inbound' \in [Sess -> Int]
        /\ \A s \in Sess : IsClosed(s) => IsClosed(s)'
    BY <1>3 DEF Fails, InboundEnds, BreakSession, KeepaliveClose, EndStream, SetInv, SetShape,
       IsClosed
  <2> QED BY <2>1, SessionStep DEF SetInv, SetShape
<1> QED BY <1>1, <1>2, <1>3 DEF Rest

LEMMA NextIInv == IInv /\ [Next]_vars => IInv'
<1> SUFFICES ASSUME IInv, [Next]_vars PROVE IInv'
  OBVIOUS
<1> USE DEF IInv
<1>1. CASE UNCHANGED vars
  <2>1. SetInv'
    BY <1>1, SessionStep DEF vars, setVars, SetInv, SetShape, IsClosed
  <2>2. DispatchInv' /\ StreamsInv'
    BY <1>1, DispatchUntouched, StreamsUntouched DEF vars, setVars, dispatchVars
  <2>3. Owning'
    BY <1>1, OwningUntouched DEF vars, setVars, serverVars, IsClosed, Owning, ServerShape
  <2>4. SlotsKnown' /\ SlotsExact'
    BY <1>1, SlotsUntouched DEF vars, serverVars
  <2> QED BY <2>1, <2>2, <2>3, <2>4
<1>2. ASSUME NEW u \in User, AcceptUser(u)
      PROVE  IInv'
  <2>1. DispatchInv' /\ StreamsInv' /\ UNCHANGED <<setVars, done, serverVars>>
    BY <1>2, AcceptInv, AcceptStreamsInv DEF AcceptUser
  <2>2. SetInv'
    BY <2>1, SessionStep DEF setVars, SetInv, SetShape, IsClosed
  <2>3. Owning'
    BY <2>1, OwningUntouched DEF setVars, serverVars, IsClosed, Owning, ServerShape
  <2>4. SlotsKnown' /\ SlotsExact'
    BY <2>1, SlotsUntouched DEF serverVars
  <2> QED BY <2>1, <2>2, <2>3, <2>4
<1>3. ASSUME NEW u \in User, DispatchNext(u), UNCHANGED serverVars
      PROVE  IInv'
  <2>1. SetInv' /\ DispatchInv' /\ StreamsInv' /\ UNCHANGED <<status, registered, done>>
    BY <1>3, DispatchStep, UserStreamsInv
  <2>2. Owning'
    BY <1>3, <2>1, OwningUntouched DEF serverVars, IsClosed, Owning, ServerShape
  <2>3. SlotsKnown' /\ SlotsExact'
    BY <1>3, SlotsUntouched DEF serverVars
  <2> QED BY <2>1, <2>2, <2>3
<1>4. ASSUME NEW h \in Conn, ConnNext(h)
      PROVE  IInv'
  <2>1. SetInv' /\ Owning'
    BY <1>4, ConnSetInv, ConnOwning
  <2>2. DispatchInv' /\ StreamsInv'
    BY <1>4, ConnKeepsUsers, DispatchUntouched, StreamsUntouched
  <2>3. SlotsKnown' /\ SlotsExact'
    BY <1>4, ConnSlots
  <2> QED BY <2>1, <2>2, <2>3
<1>5. ASSUME Rest
      PROVE  IInv'
  <2>1. /\ UNCHANGED <<scan, streams, upc, user, got, hpc, own, released, slots>>
        /\ done' \in BOOLEAN
    BY <1>5, RestKeeps DEF Owning, ServerShape
  <2>2. SetInv' /\ Owning'
    BY <1>5, <2>1, RestSets, OwningUntouched
  <2>3. DispatchInv' /\ StreamsInv'
    BY <2>1, DispatchUntouched, StreamsUntouched
  <2>4. SlotsKnown' /\ SlotsExact'
    BY <2>1, SlotsUntouched
  <2> QED BY <2>2, <2>3, <2>4
<1> QED
  BY <1>1, <1>2, <1>3, <1>4, <1>5 DEF Next, Rest

-----------------------------------------------------------------------------
(* Theorems.                                                               *)

LEMMA Inductive == Spec => []IInv
<1>1. Init => IInv
  BY InitIInv
<1>2. IInv /\ [Next]_vars => IInv'
  BY NextIInv
<1> QED
  BY <1>1, <1>2, PTL DEF Spec

\* Whatever connects, fails or shuts down, in whatever order: every session that is
\* not closed, and every registered one, has exactly one handleConn that will remove
\* and close it.
THEOREM EverySessionHasItsHandler == Spec => []SessionsOwned
<1>1. IInv => SessionsOwned
  BY OwningImplies DEF IInv
<1> QED BY <1>1, Inductive, PTL

\* releaseSlot is called twice for a connection that became a session and once for
\* any other, and yet no slot is kept and none given back twice.
THEOREM SlotsAreExact == Spec => []SlotsExact
<1>1. IInv => SlotsExact
  BY DEF IInv
<1> QED BY <1>1, Inductive, PTL

\* Reverse dispatch does not lose streams either (Server.dispatchReverse).
THEOREM NoReverseStreamLeaks == Spec => []StreamsOwned
<1>1. IInv => StreamsOwned
  BY DEF IInv, StreamsInv
<1> QED BY <1>1, Inductive, PTL

\* Pick is as exact for the server's users as for the client's.
THEOREM PickMissesNothing == Spec => []NilMeansNone
<1>1. IInv => NilMeansNone
  BY SetInvImplies DEF IInv
<1> QED BY <1>1, Inductive, PTL
=============================================================================

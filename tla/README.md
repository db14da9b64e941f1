# A verification of cando1's tunnel

cando1 carries TCP and UDP through a pool of multiplexed, authenticated
sessions between a client and a server. This directory holds TLA+ models of
the parts of it whose correctness depends on interleavings, timers, counters
and files, the TLC configurations that check them, and TLAPS proofs of what
matters most. Line numbers refer to the sources under `src/internal/`.

```
tlc -workers 2 -config MCServer_life.cfg MCServer.tla
tlapm ServerProofs.tla
```

`PROJECT.json` lists components, runs, the code lines behind every
definition, hazards and theorems.

## 1. The system

```
 users --> forward listener --> Client --+                       +--> Server --> target
                                |        |== smux sessions ======|
 target <-- Client <------------+        +  over tcp/tls/ws/kcp  +      <-- reverse listener <-- users
```

| Component | Code | State it keeps | Operations | Correct when |
|---|---|---|---|---|
| authentication handshake | `protocol/protocol.go` | nonce table with expiry instants, under a mutex | `ClientHandshake`, `ServerAuthenticator.Handshake`, `remember` | a hello authenticates once; honest clients are admitted; the table does not grow |
| stream header | `protocol/protocol.go` | none | write and read a header | the far end learns kind and payload, or the stream ends |
| session set | `mux/mux.go` | registered sessions under an RWMutex | `Add`, `Remove`, `Pick`, `CloseAll` | `Pick` finds a usable session when there is one |
| user dispatch | `tunnel/client.go:258-310`, `tunnel/server.go:245-302` | one goroutine, connection and stream per user | `dispatchForward`, `dispatchReverse`, `waitSession` | no path loses or doubles a stream or a connection; users do not hang |
| tunnel client | `tunnel/client.go` | worker goroutines, sessions, listeners, `done` | `Run`, `maintainSession`, `serveForward`, `Close` | every session has one owner; the pool heals; `Close` ends it |
| reconnect timing | `tunnel/client.go:65-150,318-344` | backoff, time of the last session | `grow`, `sleep`, `minStable` | no tight reconnect loop; backoff grows while sessions flap |
| carrier dialers | `transport/*.go` | the dial under way | `Dial` under its context | every connection that comes of a dial is used or closed |
| tunnel server | `tunnel/server.go` | handshake slots, sessions, listeners, `done` | `Run`, `handleConn`, `serveReverse`, `Close` | slots are exact; every session has one owner; `Close` ends it |
| carrier listeners | `transport/transport.go`, `ws.go`, `kcp.go` | `connCh`, `sem`, `done` | accept loops, `Accept`, `Close` | no connection is lost; `Close` settles; a silent peer stalls nobody |
| pipe and stream handlers | `tunnel/pipe.go`, `handleForwardStream`, `handleReverseStream` | two copy loops per end | header, dial, copy, close | what was sent arrives; both ends release everything |
| UDP near end | `tunnel/udp.go:99-195` | the flow map; one reader per flow | `get`, `put`, `del`, `closeAll`, `serveUDPListener` | flows are watched, not mixed up, not evicted by stale readers, and given up for silence only |
| UDP far end | `tunnel/udp.go:70-97` | two relay loops with idle deadlines | `bridgeUDP` | a flow ends at both ends; silent flows are reclaimed |
| process manager | `procmgr/*.go` | pid files, processes | `Start`, `Stop`, `Restart`, `Status` | no tunnel runs that no command can see |
| configuration | `config/config.go`, `mux/mux.go`, `transport/kcp.go` | the file | `normalize`, `Validate`, `Load`, `mux.Config`, `normKCP` | what loads is accepted by the carriers, and two ends agree |
| menu | `menu/*.go`, `main.go` | the draft being edited | editor, wizards, background commands | it leaves files that load, and pairs that fit for sensible answers |
| datagram and WebSocket framing, obfs, certificates, logging, examples, wiring, scripts | `udp.go:32-68`, `ws.go`, `obfs.go`, ... | none that outlives a call | - | see section 6 |

How they interact. `Client` and `Server` both own a `SessionSet`; their
goroutines share it with every user goroutine through `Pick`. The server takes
connections from a `transport.Listener`, of which there are three
implementations; the client's workers make them with one of four dialers. The
handshake runs on a carrier connection before a session is put on it. `done`
is a channel closed once by `Close`, which the signal goroutine of `app` calls
at any time, so everything else keeps running while it works. A UDP service
uses the same sessions and the same header, one stream per source address; the
flow map is shared by the listener loop and the readers of the flows. Menus and
commands share nothing but files and process numbers.

Hard behaviours: `Close` racing a reconnect, a new connection or a setup under
way; a dial that answers after its context has ended; sessions that
fail while `Pick` looks at them or after it chose one; slots handed
between goroutines; nonces expiring while handshakes are delayed; a stale UDP
reader meeting a fresh flow of the same source; three independent idle timers
per flow; a half-close crossing two pipes; backoff against sessions that come
up and fail at once; two commands writing one pid file or one configuration at the
same time, and a command killed between two of its steps. The list, with the line where each bites and the properties
that watch it, is `hazards` in `PROJECT.json`.

## 2. The modules

```
 SessionSet --> Dispatch --+--> ClientPool --> MCClientPool     Handshake --> MCHandshake
                           +--> Server ------> MCServer         UdpNear ----> MCUdpNear
              Listener ----+       ^                            UdpPath ----> MCUdpPath
                 ^                 |                            StreamPath -> MCStreamPath
                 : implements      +-- (sees Listener only)     Config --> Manage --> MCManage
              Carrier --> MCCarrier                             Reconnect --> Dialer --> MCDialer
                                                                   ^......... implements
```

An arrow is EXTENDS. Each `XProofs` module extends its `X` and holds the
theorems; `ClientPoolProofs` and `ServerProofs` also extend `DispatchProofs`,
and `PathProofs` is about the three modules UdpNear, UdpPath and StreamPath.

**SessionSet** is `mux.SessionSet` together with the part of smux the code
relies on. `status`, `streams` and `inbound` are smux's (external: modelled
from how the code uses it); `registered` is the map, `closing` says `CloseAll`
holds the write lock, and `scan[r]` is the progress of a reader in `Pick`. `Pick` is not
one step: it looks at one session after the other, and `IsClosed` and
`NumStreams` of the same session are two steps, because the read lock stops
only changes of the map. A session whose connection failed is "broken":
opening a stream on it fails while `IsClosed` is still false.

**Dispatch** is the goroutine of a user connection, the same code in
`dispatchForward` and `dispatchReverse`, with the loop of `waitSession`: pick,
look at the deadline, wait for the next poll or for `done`, open a stream,
write the header, pipe, and each error path. A pipe whose user neither reads what
waits for it nor sends nor closes (`UserStalls`) is "stuck": both copies are blocked on
the user's connection, and the end of the session does not reach them.

**ClientPool** composes Dispatch with `Client.Run` (binding listeners and
recording them are two steps), `maintainSession` (one action per call that
changes state, `wpc` naming the point between two of them) and `Close` (`done`,
then the listeners under the mutex, then `CloseAll`).

**Listener** is the abstract specification of `transport.Listener`: three
variables, connections being set up (`coming`), ready (`backlog`) and the state
of the listener, with `Close` in two steps between which `Accept` may already fail
although connections still come in.

**Server** composes Dispatch and Listener with `Server.Run` (creating the listener and storing
it are two steps), `handleConn` with its semaphore slot and its
`releaseSlot`, `serveReverse` and `Close`. The deferred calls run in
Go's order: Remove, Close, releaseSlot.

**Carrier** is what stands behind Listener: `asyncListener` (a slot of `sem`
per connection being set up), `wsListener` (net/http sets connections up,
without bound or deadline) and `kcpListener` (no setup, and a drain at the
end). `kind`, chosen initially, selects the implementation; `at[c]` says where a
connection is. Its refinement mapping counts the connections on their way and
those in `connCh`; `L!ListenerSpec` is checked (`Implements`) and proved. What the Server
model may assume of its listener is therefore exactly what the code provides.

**Handshake** has a clock of ticks, `TicksPerSec` to the second, since the
window test truncates to seconds and the nonce table does not. The clock is
read where the code reads it: for the window test, then again in `remember`
before the lock, so that the table sees readings out of order. A goroutine
loses at most `MaxDelay` ticks between such steps. The hello of a client may be
delivered again on other connections, before or after the original. The
window test comes before the MAC test as in the code. Cryptography is abstract: a hello
is its own nonce, and its MAC is right exactly when it is in `Authentic`. What the
client makes of the answer is left out: `ClientHandshake` looks at the MAC over its
nonce and not at the connection the server wrote it on, so that a relayed hello and a
relayed answer satisfy it, and nothing else in the program depends on its verdict.

**StreamPath** is one TCP connection of a user across both ends: the header,
`handleForwardStream` (with its policy) or `handleReverseStream`, the dial, and
the four copies of the two `pipe`s. Each direction has three links (peer to
end, end to end, end to peer) which hold `Room` chunks each, so that a writer whose
reader has stopped is blocked.

**UdpNear** is the concurrency of `serveUDPListener` with its flow map, without time: a
reader may find its deadline passed at any moment. **UdpPath** is the timing:
one flow, both ends, three deadlines, the datagrams between. A reader of the near end
whose read has failed or timed out is "leaving" until its deferred `del`; the flow
is still in the map then, so the loop may re-arm its deadline and write to it, in vain.

**Reconnect** is the timing of one worker: `maintainSession` between the points
ClientPool tells apart. ClientPool lets a lost session be followed by a pause or
by none; Reconnect says which. **Dialer** refines it: an attempt is a dial of
one of the four carriers, its setup, the handshake and the session, each with
its failure and its deadline, and the goroutine a KCP dial leaves behind when its
context ends first. Reconnect's variables are Dialer's, so the mapping is the
identity: each Dialer step is a Reconnect step or leaves its variables alone.

**Config** holds pure operators on a record of the fields that decide whether a
file loads and two ends fit: `normalize`, `Validate`, `mux.Config`, `normKCP`,
the editor's changes, the wizard's two files, and what the two ends need to connect (`Fit`):
the port an address without one is dialled at (`DialPort`), and the path with which a
request reaches the listener (`Arrives`, a parameter: net/url puts a slash before a path
that has none, the listener compares the path as it is configured). `Text` is what a quoted field may
hold, and `Server` and `Client` are the sets of all configurations. **Manage** composes them with the
configuration file, the pid file, the process table (numbers that are reused,
zombies) and several callers, each at a step `pc[i]` of a command. `os.WriteFile` is a
truncation when the file is opened and a write from its start: of two that overlap, the
one that writes last leaves the end of a longer text behind its own. For numbers that is `Overlaid`
(another number as long as the longer one, a process's or `Odd`, nobody's; `Digits`
gives lengths), for configurations `Torn`, a file that does not load. A pid file that is
removed while it is open takes the number with it (`Unlink`, `RecordAstray`). `Answers` are
the wizard's answers the pair of files is judged for, `Given` those that callers really give.

A definition with a comment "Slip" is not used by any specification. It is a
plausible mistake at that place of the code, and shows that the property named in the
comment would notice: putting its body in the place of the definition next to it
makes the run fail.

## 3. The runs

| Run | What it asks | Bounds |
|---|---|---|
| handshake_replay | `AtMostOnce`: a hello authenticates one connection; `TableIsPruned`; `StaleOnlyIfLate` | 2 hellos, 3 connections, half-second ticks, window 3 s, clients up to 1 s ahead or behind, delay 1 tick, clock to 13 ticks |
| handshake_ahead | finding F1 | 2 hellos, 3 connections, half-second ticks, window and offset 1 s, clock to 7 |
| client_life | `SessionsOwned`, `NilMeansNone`, `StreamsOwned`, `NothingLeftOnReturn`; `Heals`, `Served`, `UsersReleased`, `ShutdownCompletes` | 1 worker, 2 session names, 1 user, 1 forward, 1 inbound stream; a session added after `CloseAll` does not last for ever |
| client_shutdown | finding F2 | the same without inbound streams, sessions may last |
| server_life | `SessionsOwned`, `SlotsExact`; `SlotsComeBack`, `ShutdownOnceListening`, `SessionsEnd` | 1 connection at a time, 1 slot, 1 session, 1 service, 1 user, 1 inbound stream; as above |
| carrier | `Implements` (refinement of Listener), `SlotsOfWorkers`, `NoneLost`, `DrainedButLate`; `CloseSettled`, `NotStalled` | all three kinds, 3 connections, one of them of a silent peer, 1 slot, room for 1 |
| dialer | `BackoffGrows`, `DialsAreSpaced`, `NoneUnattended` | minimum 3, maximum 11, floor 5, 5 failures, 3 connections at a time, contexts of 2 ticks |
| udp_near | `MappedIsWatched`, `NoOrphan`, `NoCrossTalk`; `Drains` | 2 sources, 3 streams |
| udp_path | `NearReapsOnlySilent`, `EndsTogether`, `SilentFlowIsReclaimed` | deadlines of 3 ticks, 1 datagram buffered each way |
| stream_path | `AllOfItArrives`, `BothEndsRelease` | 2 chunks each way, room for 1 on each link, a payload that is served, one that is blocked and one too long |
| manage_life | `NoneUntracked`, `FileLoads`, `MuxAccepted`, `FecAgrees`, `WizardPairFits` | 2 menus, 1 command, 2 process numbers of different length (one also used by other programs), 1 mishap, 1 poll, 1 mapping, a server's or a client's file; two answers given to the wizard (a good one, a name twice) and seven judged (also a path without a slash, an address without a port); mux numbers -1, 0, 8, 33, 4096 and KCP numbers -1, 0, 20, 9000 in any combination |
| manage_zombie | finding F3 | 1 menu, 1 command, no mishaps, no other programs |

Why the bounds suffice for the questions asked.

- Handshake: the horizon passes the instant a nonce of the earliest hello
  expires (`ReplayTTL` is 12 ticks in handshake_replay), with three deliveries: the
  original, a repetition, and the handshake whose cleanup drops the entry. A window of
  3 s is the smallest that leaves a margin with a clock 1 s ahead and a delay.
  The theorems of HandshakeProofs cover every other size, offset and delay.
- Client and server: liveness with two workers or two connections is beyond
  TLC here, and one of each is enough for it: a user, an owner, `Pick` and
  `Close` interleave in every order, names are reused so that any number of
  reconnects happens, and a session can be replaced while its old name is still
  referenced. What more actors could break is ownership and counting, and that is
  proved for any number of them (`SessionsOwned`, `StreamsOwned`, `NilMeansNone`,
  `NothingLeftOnReturn`, `SlotsExact`).
- Carrier: with one slot and one place, a setup holds up the next connection and a
  ready one the setup behind it; three connections fill slot, queue and kernel at once.
  The safety and the refinement are proved for all sizes.
- Dialer: 3, 6, 11, 11: doubling, and being cut off; three connections: one in use and
  two late ones of abandoned dials.
- udp_near: three streams let a source have a fresh flow while two earlier
  readers are still on their way to `del` or to `Close`.
- udp_path: the deadline must exceed the distance between two re-arming events,
  and 3 ticks leave room for the three timers to be out of step in any way.
- stream_path: with two chunks and one place per link, writers block at each of the three
  links while the end of the input is already on its way.
- manage_life: two menus give every overlap of two commands, of two that write the
  configuration included, and the command one whose children are left behind; two numbers give a
  tunnel and its replacement, a shorter number laid over a longer one and the other way round;
  one mishap at a time, at every step. `MuxAccepted` and
  `FecAgrees` apply the operators to grids of values on both sides of
  each comparison. The theorems of ManageProofs cover every other number, file, answer and
  number of callers.

Bounds in guards: `MaxInbound` (streams the peer holds open), `MaxBacklog`
(connections coming or ready), `Horizon` (last tick), `Cap` (datagrams
buffered), `Room` and `Chunks`, `DialLimit`, `Polls`, `MaxMishaps`,
`MaxMappings`, and the saturation of history counters at `MaxFails`, `Enough`
and `Idle`. Symmetry is used in the handshake's runs and in manage_life (the two menus), which have
no liveness property. Deadlock checking is off where the system may stop: `Run` returned, the
flow or connection closed, the horizon reached, or, in dialer, all names taken by
dials that have not come back. Manage can always go on and is checked for it.

### Findings

- **F1** (handshake_ahead; `protocol/protocol.go:161` and `:18-20`). The comment promises that reused nonces
  are rejected within the acceptance window. The table keeps a nonce
  `2*clockSkew` from receipt, with full precision; the window compares whole
  seconds. A client whose clock is ahead by the whole window keeps a timestamp that
  is acceptable up to a second longer than its nonce is kept. The theorem says
  precisely when this cannot happen: `2*MaxDelay <= TicksPerSec*(ClockSkew-Ahead-1)`.
- **F2** (client_shutdown; `tunnel/client.go:120` and `:57`). A worker past its look at `done` may add its
  session after `CloseAll`; it then serves it until the peer goes away, and
  `Run` does not return. If such a late session does not last for ever `Run` does return
  (client_life), with nothing left open; all others `CloseAll` closes. On the server the
  same happens at `tunnel/server.go:121`, where `Run` returns and the session stays.
- **F3** (manage_zombie; `procmgr/procmgr.go:87` and `:43`). The comment says a pid
  file whose process has gone reads as not running. `Start` releases the child without
  ever waiting for it; a tunnel that ends while the menu that started it is open is a
  zombie, which signal 0 reaches: it reads as running, and
  `Start` refuses.

### Observations

Met while modelling; the models behave this way, and no run reports them.

- Server.Close called before `Run` has stored the listener (`tunnel/server.go:333`) finds
  nothing to close, so `ShutdownOnceListening` and `SessionsEnd` start from a listener that
  `Close` has found.
- A datagram that the loop of a UDP listener sends between a reader's timeout (`tunnel/udp.go:179`) and
  its `del` (`:175`) is lost with the flow, although it has just re-armed the deadline.
- A KCP session that takes the free place of `connCh` after the drain (`transport/kcp.go:192`) stays
  there, against the comment at `:213`; `DrainedButLate` shows that only such a session does.
- One direction of `bridgeUDP` may end alone (`tunnel/udp.go:83`, against `:72-73`): its goroutine
  closes nothing, and the other goes on while datagrams come. The far end re-arms its
  deadline for upstream datagrams only (`:94`), so a flow that only receives ends after the timeout.
- `pipe` answers a half-close with a full close: an answer under way at that time is lost,
  and then the tail of the request may be, too. A peer that neither reads nor closes pins
  its pipe beyond the end of the session. The far end reads the header without a deadline.
- Two starts at once both spawn (`procmgr/procmgr.go:67`); if the numbers differ in length their
  writes may leave a number that belongs to neither. A restart fails when the tunnel ends between
  its look and its stop (`:124-125`); a stop may remove the pid file another start has just
  written or is writing, and signal a number that has been reused. `NoneUntracked` bounds what comes
  of it by the number of such mishaps.
- Two menus that save at once may leave a file that begins with one configuration and
  ends with the tail of the other (`menu/manage.go:277`).
- `config.Validate` accepts negative `MinMillis` and `MaxMillis`, which makes pauses empty; Reconnect
  assumes positive values. It also accepts windows of 2 GiB and more, which smux refuses when the
  first session starts, unless the session buffer, to which the stream's is cut, is smaller:
  `MuxAccepted` says exactly when.
  A mux section with `enable` off and no keepalive loses its buffers.
- The wizard validates neither of its files. It accepts an address without a port (the server binds 443,
  the client dials 443 only over wss), a websocket path without its slash (net/url adds one, `transport/ws.go:227`
  compares without), and one public name twice, with which the server's file does not load:
  `WizardPairFits` says that the pair works exactly for the answers without these (`Sensible`).
  Its two files are written one after the other.
  An address is its port here: bare IPv6 addresses and `host:` are not told apart from those without
  one, and `Text` holds no quotes, which the wizard does not escape.
- A mixed pid file is taken to hold one number, a process's or nobody's, and a mixed configuration not to load; an
  ending that happens to continue the shorter text correctly is not told apart from a whole file.
- A connection that finished its setup while the listener was being closed may stay in `connCh`, and
  nobody closes it (`transport/transport.go:146`); `NoneLost` counts it as held by the queue.
- A broken session that smux has not closed yet has fewer streams than a good one, so `Pick`
  prefers it; the users sent there are closed, which is what `Served` and `StreamsOwned` watch.

## 4. Fairness

- Goroutines that can step do (WF): the Go scheduler is preemptive.
- Steps that need the write lock of the RWMutex have SF: a waiting writer stops
  new readers in Go, so it is not starved by an endless sequence of `Pick`s.
- Timers fire (the poll is among `UserStep`, its deadline is `DeadlinePasses`: WF on both).
- Dialling and the handshake have deadlines: one of success and failure
  happens (WF on the disjunction). For `Heals` a peer dialled again and
  again answers in the end (SF on `DialOk`, `ShakeOk`, `MuxOk`).
- `pipe` may last for ever on an open session. It ends when the session does, unless it is
  stuck: a user who stalls may hold it for ever, and `UsersReleased` says so.
- Streams the peer opened (`InboundEnds`) need not end: their pipes may be held the same way.
- `DropSpec` adds that a session registered when `CloseAll` was already over, which nothing
  closes, does not last for ever (`FailsLate`): its peer goes away, or the network does. Sessions that
  `CloseAll` finds may stay healthy for ever if nobody closes them, so `SessionsEnd` and
  `ShutdownCompletes` rest on `CloseAll`: they fail when it drops sessions without closing
  them (`CloseAllForgets`). client_life and server_life use `DropSpec`; client_shutdown is the run
  without it, and shows why it is needed.
- Server assumes that a listener that is being closed settles: `CloseSettles` of Listener,
  which the run carrier shows of each implementation.
- Carrier: the kernel's queue and senders waiting on a channel are served in order (SF);
  a setup ends by the 15 s deadline (`transport/tls.go:103`, `obfs.go:65`), except that
  `wsListener` has none and waits for a silent peer; the server keeps calling `Accept`.
- StreamPath: copies that can go on do, deadlines pass, and the peers read what is sent to
  them; they need not send, shut or close.
- UdpPath: time passes (WF on `Tick`), readers and relays step, a reader that is leaving reaches
  `del`; nobody has to send, and `SilentFlowIsReclaimed` asks only that the source stops: the target
  may send for ever.
- Nobody has to call `Close`, and no user has to come, in any model. Dialer and Manage
  check safety only and need no fairness.

## 5. The theorems

All are proved for every value of the constants, from the assumptions named in
the modules. Each invariant is obtained from an inductive one: `Init => IInv`,
`IInv /\ [Next]_vars => IInv'`, `IInv => P`.

- **HandshakeProofs**: `TypeCorrect`; `NonceUsedOnce` (`AtMostOnce`) under `Margin`; `RefusedOnlyIfLate` (`StaleOnlyIfLate`) and
  `CleanupIsComplete` (`TableIsPruned`) without it. `AtMostOnce` is not inductive: why a second delivery is refused
  depends on the entry still being in the table. The invariant adds that a
  recorded hello stays in `seen` until its timestamp has left the window for every
  handshake that could still reach the lock. `Margin` is what makes the
  arithmetic close: the nonce is kept `2*ClockSkew` seconds from a clock reading; the timestamp is
  acceptable for less than `ClockSkew + Ahead + 1` seconds after
  the hello; two delays may lie between. The other two rest on `OpenInv`:
  which clock readings a handshake holds at each of its points.
- **DispatchProofs** has the lemmas client and server share: every action of
  SessionSet and Dispatch preserves `SetInv` (scans see registered sessions only; a session a scan
  has passed over without taking is closed; a registered
  session stays while the lock is held), `DispatchInv` (program counter, user
  and chosen session agree) and `StreamsInv` (the number of streams open on a session
  is that of the users between `OpenStream` and `Close` on it).
- **ClientPoolProofs**: `EverySessionHasItsWorker` (`SessionsOwned`), `RunLeavesNothing`
  (`NothingLeftOnReturn`), `PickMissesNothing` (`NilMeansNone`), `NoStreamLeaks` (`StreamsOwned`),
  `NoUserLeaks`.
  The invariant adds to `SessionsOwned` that own sessions of different workers differ and
  that workers without a session own none; ownership alone is not inductive since
  `CloseAll` and `Remove` act on sessions by name.
- **ServerProofs**: `EverySessionHasItsHandler` (`SessionsOwned`), `SlotsAreExact`
  (`SlotsExact`), and `NoReverseStreamLeaks` and `PickMissesNothing` on this side. The slots need
  to know of each goroutine whether its `releaseSlot` has already run; then each step
  changes the set of holders by one element or not at all.
- **CarrierProofs**: `ListenersImplementListener` (`Implements`): `Spec => L!ListenerSpec`, every step of the
  three implementations is one of Listener or a stutter under the mapping. The steps are proved on the sets
  of connections coming and ready and carried to their cardinalities by a few
  lemmas. `WorkersKeepTheirSlots`, `ConnectionsAreClosed`, `DrainMissesOnlyTheLate` for
  `SlotsOfWorkers`, `NoneLost`, `DrainedButLate`.
- **PathProofs** follows what users send. `TypeCorrect`, `FlowsAreWatched` (`MappedIsWatched`), `SourcesAreSeparate`
  (`NoCrossTalk`), `NoFlowIsOrphaned` (`NoOrphan`): the invariant relates the point
  of the listener's loop, its local `stream`, the map and the point of each reader.
  `OnlySilentFlowsAreReaped` (`NearReapsOnlySilent`, for any idle timeout) says that the reader
  decides to leave only after a whole timeout of silence (not that nothing is sent before its `del`). It rests
  on `Armed`: while the near end works, its deadline is never less than what is missing of the timeout
  since the last datagram in either direction. `ChunksAreConserved` and `HalfCloseLosesNothing`
  (`AllOfItArrives`, for any number of chunks and any room) rest on `PathInv`: in each direction
  what was sent is what arrived and what the three links hold (`Conserved`); which sockets and copies
  exist at each point of the two handlers (`Stages`); and, as long as session and
  peers are there, the copies of a direction end in the order of its links, each
  after its link is empty or because the answer was cut off (`HalfClosed`). Without the order the property is not
  inductive: an empty link says nothing while the one before it is not.
- **DialerProofs**: `TypeCorrect`; `NoTightLoop` (`DialsAreSpaced`), whose invariant
  accounts for the time since the last dial: what has been slept, and how long the
  session was up; and `PausesDouble` (`BackoffGrows`), for every minimum not above the maximum: after `n`
  attempts none of which lasted the backoff is at least the minimum doubled `n` times, or the maximum,
  and the time since the dial, with what is left to sleep, at least what it was before the last of
  them (`Growth`). Doubling is a
  recursive function defined on the naturals (`Doubled`), which the library's theorem on
  well-founded recursion makes available to the prover. Then
  `DialersImplementReconnect` (`DialerSpec => Spec`), hence `DialersKeepTheirDistance` and `DialersBackOff`,
  the same two properties of the detailed model, and `NoConnectionIsOrphaned` (`NoneUnattended`).
- **ManageProofs**: `UntrackedAreCounted` (`NoneUntracked`), for any number of callers and process numbers.
  The property speaks of the moments when nobody is at work; between them each caller at work
  may be about to leave one tunnel untracked, and the first caller is no mishap. `Tracked`
  counts: either everybody respects the pid file (it names a tunnel, and whoever has read a number
  read that one), and the untracked tunnels with the callers at work are at most the
  mishaps plus one; or the tunnels nobody is recording at the moment are as few as that. A number laid over
  the end of a longer one is a mishap of its own, next to the overlap that led to it; a caller whose
  open file was removed is no longer counted among those who may record.
  `FilesStayLoadable` (`FileLoads`), for any files that load to begin with and any edits: the invariant
  `Sound` says that the drafts are configurations, that those being written would load or are a wizard's with
  a repeated name, and that a writer finds the file truncated unless there was a mishap, without which nobody
  else is at work. Its core is
  `ValidLoads`: a configuration that passes `Validate` passes it again after `normalize`, so what the
  editor validated in memory, having changed what `Load` had normalised, will load from the
  file. `WizardPairsFit` (`WizardPairFits`): for all answers the wizard takes, both files load and their ends connect
  if and only if the answers are `Sensible`.
  `MuxSettingsAreAccepted` (`MuxAccepted`) and `FecIsCoupled` (`FecAgrees`) for all numbers of a
  section. The last needs that filling a KCP section twice
  changes nothing (`FilledOnce`), which the mutant of `CoupleFEC` breaks.

The assumptions on constants are that sets of actors and names are finite where their
elements are counted, that capacities and delays are natural numbers (positive where zero would mean
that the component is off), that model values differ, and, in Manage, what the files,
answers and sections may hold: the files a user wrote load to begin with (`FilesAssumption`); the wizard insists
on an address, names and at least one mapping, as its prompts do (`AnswersAssumption`); the numbers of a section are
below 2^31, so that they fit the types the code puts them in (`SectionsAssumption`); and the default
websocket path arrives as it is written (`ArrivesAssumption`).

Every invariant, action property and refinement that a run checks is proved. Only
model-checked: the liveness properties (`Heals`, `Served`, `UsersReleased`, `ShutdownCompletes`, `SlotsComeBack`,
`ShutdownOnceListening`, `SessionsEnd`, `CloseSettled`, `NotStalled`, `Drains`, `EndsTogether`,
`SilentFlowIsReclaimed`, `BothEndsRelease`), which are beyond the prover.

## 6. Not modelled

- Datagram framing (`udp.go:32-68`) and WebSocket framing: length prefixes and messages
  around a byte stream, with no state that outlives a call.
- Ciphers of obfs, uTLS fingerprints, certificates: library calls. Their effect on a
  connection, set up or failed, is in Carrier and Dialer.
- KCP tuning: numbers handed to kcp-go. `normKCP` is in Config.
- Configuration fields that are only handed on (log level, host, SNI, fingerprint,
  certificates, the mappings' addresses).
- `procmgr_windows.go`: the same operations through another API.
- Running a tunnel in the foreground: no file tracks it. Wiring (`app`) starts one end and
  calls `Close` on the first signal, which ClientPool and Server take at any time.
- Prompts, help, examples, logging, installation scripts: text.
- smux beyond what the code sees of it; in particular that closing a stream lets data already
  written reach the other end first.
- How long one UDP source may hold up others while `open` waits (`udp.go:170`):
  the models let it take any time. That the wizard's two files are written together
  (`menu/wizard.go:132`): Manage follows one file.

## 7. Plan

1. Done: the pool on both sides, the handshake, UDP, the timing of reconnects; carriers with
   their refinements to what server and client assume of them; streams end to end; files and processes.
2. Next: a pool specification (a session is offered, serves, is gone) which
   ClientPool and Server implement; two worker names in a liveness run once the state space
   of ClientPool allows it; both of the wizard's files in Manage; framing as functions on sequences.
3. Theorems: the refinement of that pool specification by both sides; what a step of `Close` may
   still let through, as action properties of ClientPool and Server.

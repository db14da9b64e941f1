------------------------------- MODULE Config -------------------------------
(***************************************************************************)
(* What internal/config, mux.Config, normKCP and the wizard compute: how a  *)
(* configuration file is normalised and validated when it is loaded, what   *)
(* the multiplexer and KCP make of it, how the menu's editor changes it, and *)
(* the pair of files the wizard writes.  Pure operators; Manage composes    *)
(* them with the files and processes.                                       *)
(*                                                                          *)
(* A configuration is a record with the fields that decide whether it loads  *)
(* and whether two ends fit together; "" and 0 are a field that is left out, *)
(* and an address is its port, or "no port".                                *)
(***************************************************************************)
EXTENDS Integers, Sequences

CONSTANTS
    Text,       \* what may stand between two quotes, the program's own words included
    Arrives(_)  \* the path a request for a ws_path reaches the listener with: url.URL writes
                \* a "/" before one that has none, ServeMux redirects one that is not clean

TextAssumption ==
    {"", "tcp", "tls", "ws", "wss", "kcp", "udp", "/cando", "443", "no port", "fast3"} \subseteq Text
ArrivesAssumption == Arrives("/cando") = "/cando"

ASSUME TextAssumption
ASSUME ArrivesAssumption

-----------------------------------------------------------------------------
(* Files.  A mapping is a Service, a ClientTarget or a Forward.              *)

Mux == [enable: BOOLEAN, keepalive: Int, stream: Int, receive: Int]
KCP == [mode: Text, data: Int, parity: Int, mtu: Int, window: Int]
Mapping == [name: Text, proto: Text]

Server == [role: {"server"}, addr: Text, transport: Text, token: Text, path: Text, obfs: BOOLEAN,
           mux: Mux, kcp: KCP, allow: BOOLEAN, services: Seq(Mapping)]

Client == [role: {"client"}, addr: Text, transport: Text, token: Text, path: Text, obfs: BOOLEAN,
           mux: Mux, kcp: KCP, pool: Int, reconnect: [min: Int, max: Int],
           services: Seq(Mapping), forwards: Seq(Mapping)]

\* What an empty file is read as, and what one is read as that begins with one
\* configuration and ends with the tail of another.
Cut == [role |-> ""]
Torn == [role |-> "torn"]

-----------------------------------------------------------------------------
(* Normalisation.                                                          *)

Positive(v, default) == IF v > 0 THEN v ELSE default
NonEmpty(v, default) == IF v # "" THEN v ELSE default

\* strings.ToLower(strings.TrimSpace(p)), on the spellings used here.
Lowered(p) == CASE p \in {"UDP", " udp"} -> "udp" [] p = "TLS" -> "tls" [] OTHER -> p

NormProto(p) == NonEmpty(Lowered(p), "tcp")

DefaultMux == [enable |-> TRUE, keepalive |-> 10, stream |-> 8, receive |-> 32]
NormMux(m) == IF ~m.enable /\ m.keepalive = 0 THEN DefaultMux ELSE m

DefaultKCP == [mode |-> "fast3", data |-> 10, parity |-> 3, mtu |-> 1350, window |-> 2048]

HalfFEC(k) == [k EXCEPT !.data = Positive(@, DefaultKCP.data), !.parity = Positive(@, DefaultKCP.parity)] \* Slip (FecAgrees)

\* The two FEC numbers are kept or replaced together.
CoupleFEC(k) ==
    IF k.data <= 0 \/ k.parity <= 0
    THEN [k EXCEPT !.data = DefaultKCP.data, !.parity = DefaultKCP.parity] ELSE k

FillKCP(k) ==
    [CoupleFEC(k) EXCEPT !.mode = NonEmpty(@, DefaultKCP.mode), !.mtu = Positive(@, DefaultKCP.mtu),
                         !.window = Positive(@, DefaultKCP.window)]

Mapped(ms) == [i \in DOMAIN ms |-> [ms[i] EXCEPT !.proto = NormProto(@)]]

NormTransport(c) ==
    LET t == NonEmpty(Lowered(c.transport), "tls")
    IN [c EXCEPT !.transport = t, !.path = NonEmpty(@, "/cando"), !.mux = NormMux(@),
                 !.kcp = IF t = "kcp" THEN FillKCP(@) ELSE @]

NormServer(c) == [NormTransport(c) EXCEPT !.services = Mapped(@)]

\* Only zero is replaced in the reconnect section.
NormReconnect(r) ==
    [min |-> IF r.min = 0 THEN 500 ELSE r.min, max |-> IF r.max = 0 THEN 30000 ELSE r.max]

NormClient(c) ==
    [NormTransport(c) EXCEPT !.pool = Positive(@, 2), !.reconnect = NormReconnect(@),
                             !.forwards = Mapped(@)]

Normalized(c) == IF c.role = "server" THEN NormServer(c) ELSE NormClient(c)

-----------------------------------------------------------------------------
(* Validation.  A file without a role of the two is refused.                 *)

Transports == {"tcp", "tls", "ws", "wss", "kcp"}
Protos == {"tcp", "udp"}

Distinct(ms) == \A i, j \in DOMAIN ms : ms[i].name = ms[j].name => i = j

ValidEnd(c) == c.addr # "" /\ c.transport \in Transports /\ c.token # ""

ValidServer(c) ==
    /\ ValidEnd(c) /\ Distinct(c.services)
    /\ \A i \in DOMAIN c.services : c.services[i].name # "" /\ c.services[i].proto \in Protos

ValidClient(c) ==
    /\ ValidEnd(c) /\ c.services \o c.forwards # <<>>
    /\ \A i \in DOMAIN c.services : c.services[i].name # ""
    /\ \A i \in DOMAIN c.forwards : c.forwards[i].proto \in Protos

Valid(c) == CASE c.role = "server" -> ValidServer(c) [] c.role = "client" -> ValidClient(c) [] OTHER -> FALSE

\* Load: the file is accepted, and the configuration it stands for.
Loads(c) == c.role \in {"server", "client"} /\ Valid(Normalized(c))

-----------------------------------------------------------------------------
(* What the carriers make of it.                                           *)

Unclamped(stream, receive) == stream \* Slip (MuxAccepted)

\* MaxStreamBuffer is cut to MaxReceiveBuffer.
Clamp(stream, receive) == IF stream > receive THEN receive ELSE stream

MuxConfig(m) ==
    LET receive == Positive(m.receive, 32)
    IN [interval |-> Positive(m.keepalive, 10), timeout |-> 3 * Positive(m.keepalive, 10),
        receive |-> receive, stream |-> Clamp(Positive(m.stream, 8), receive)]

\* What smux.Client and smux.Server check before they start a session; the limit of
\* a stream's window is 2^31 - 1 bytes, here in MiB.
SmuxAccepts(x) ==
    /\ x.interval > 0 /\ x.timeout >= x.interval
    /\ x.receive > 0 /\ x.stream > 0 /\ x.stream <= x.receive /\ x.stream < 2048

\* normKCP repeats the defaults and clamps the MTU.
NormKCP(k) == [FillKCP(k) EXCEPT !.mtu = IF @ > 1400 THEN 1400 ELSE IF @ < 512 THEN 512 ELSE @]

-----------------------------------------------------------------------------
(* The menu's editor, on a configuration that has been loaded.              *)

Without(ms, i) == SubSeq(ms, 1, i - 1) \o SubSeq(ms, i + 1, Len(ms))

\* A mapping is added or deleted.
Changed(ms, names, protos) ==
    {Append(ms, m) : m \in [name: names, proto: protos]} \cup {Without(ms, i) : i \in DOMAIN ms}

\* editServer: a service, or the toggle allow_forward.
EditServer(c, names) ==
    {[c EXCEPT !.services = ms] : ms \in Changed(c.services, names, Protos)} \cup {[c EXCEPT !.allow = ~@]}

\* editClient: a forward, or the local target of a service.
EditClient(c, names) ==
    {[c EXCEPT !.forwards = ms] : ms \in Changed(c.forwards, names, Protos)}
    \cup {[c EXCEPT !.services = ms] : ms \in Changed(c.services, names, {""})}

Edits(c, names) == IF c.role = "server" THEN EditServer(c, names) ELSE EditClient(c, names)

-----------------------------------------------------------------------------
(* The wizard: both files are written from the same answers.                *)

PortOf(addr) == NonEmpty(addr.port, "443")
WizardMux == DefaultMux
WizardKCP(d) == IF d.transport = "kcp" THEN DefaultKCP
                ELSE [mode |-> "", data |-> 0, parity |-> 0, mtu |-> 0, window |-> 0]
WizardPath(d) == IF d.transport \in {"ws", "wss"} THEN NonEmpty(d.path, "/cando") ELSE ""

\* protocol is written for udp only.
Written(ms) == [i \in DOMAIN ms |-> [ms[i] EXCEPT !.proto = IF NormProto(@) = "udp" THEN "udp" ELSE ""]]

NeverAllow(d) == FALSE \* Slip (WizardPairFits)

AllowForward(d) == d.scenario = 1

WizardObfs(d) == d.transport = "tcp" /\ d.obfs

BuildServer(d) ==
    [role |-> "server", addr |-> PortOf(d.addr), transport |-> d.transport, token |-> d.token,
     path |-> WizardPath(d), obfs |-> WizardObfs(d), mux |-> WizardMux, kcp |-> WizardKCP(d),
     allow |-> AllowForward(d), services |-> IF d.scenario = 2 THEN Written(d.mappings) ELSE <<>>]

\* A local target has a name and no protocol.
Targets(ms) == [i \in DOMAIN ms |-> [name |-> ms[i].name, proto |-> ""]]

BuildClient(d) ==
    [role |-> "client", addr |-> NonEmpty(d.addr.port, "no port"), transport |-> d.transport, token |-> d.token,
     path |-> WizardPath(d), obfs |-> WizardObfs(d), mux |-> WizardMux, kcp |-> WizardKCP(d),
     pool |-> d.pool, reconnect |-> [min |-> 500, max |-> 30000],
     services |-> IF d.scenario = 2 THEN Targets(d.mappings) ELSE <<>>,
     forwards |-> IF d.scenario = 1 THEN Written(d.mappings) ELSE <<>>]

\* The port a client dials: an address without one has the scheme's for a websocket
\* and cannot be dialled otherwise.
DialPort(c) ==
    CASE c.addr # "no port" -> c.addr
      [] c.addr = "no port" /\ c.transport = "wss" -> "443"
      [] c.addr = "no port" /\ c.transport = "ws" -> "80"
      [] OTHER -> ""

\* The two ends can carry users: the client reaches the server's port and path with the
\* same carrier and secret, there is a local target for every public service, and leave
\* to forward if forwards are used.
Fit(s, c) ==
    /\ s.transport = c.transport /\ s.token = c.token /\ s.obfs = c.obfs
    /\ NormKCP(s.kcp) = NormKCP(c.kcp) /\ s.addr = DialPort(c)
    /\ s.transport \in {"ws", "wss"} => s.path = Arrives(c.path)
    /\ \A i \in DOMAIN s.services : \E j \in DOMAIN c.services : s.services[i].name = c.services[j].name
    /\ c.forwards # <<>> => s.allow

\* Answers the wizard takes and that make a pair: the names differ where they are public,
\* the address has the port that is dialled, and the path arrives as it was written.
Sensible(d) ==
    /\ d.scenario = 2 => Distinct(d.mappings)
    /\ d.addr.port # "" \/ d.transport = "wss"
    /\ d.transport \in {"ws", "wss"} => LET p == NonEmpty(d.path, "/cando") IN Arrives(p) = p
=============================================================================

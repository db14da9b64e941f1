------------------------------ MODULE MCManage ------------------------------
(* Instances of Manage: what is in the file, and the wizard's answers.      *)
EXTENDS Manage, TLC

CONSTANTS m1, m2, c1

Udp == [name |-> "a", proto |-> "udp"]
NoKCP == [mode |-> "", data |-> 0, parity |-> 0, mtu |-> 0, window |-> 0]
NoMux == [enable |-> FALSE, keepalive |-> 0, stream |-> 0, receive |-> 0]

\* Sparse files, which Load fills in with what the wizard writes.
AServer == [role |-> "server", addr |-> "443", transport |-> "ws", token |-> "t", path |-> "", obfs |-> FALSE,
            mux |-> NoMux, kcp |-> NoKCP, allow |-> FALSE, services |-> <<[Udp EXCEPT !.proto = "UDP"]>>]
AClient == [role |-> "client", addr |-> "443", transport |-> "ws", token |-> "t", path |-> "", obfs |-> FALSE,
            mux |-> NoMux, kcp |-> NoKCP, pool |-> 0, reconnect |-> [min |-> 0, max |-> 0],
            services |-> <<>>, forwards |-> <<[Udp EXCEPT !.proto = " udp"]>>]

TwoFiles == {AServer, AClient}

Answer1(scenario, transport, port, path, mappings) ==
    [scenario |-> scenario, transport |-> transport, token |-> "t", addr |-> [port |-> port],
     path |-> path, obfs |-> FALSE, pool |-> 2, mappings |-> mappings]

Texts == STRING
MuxGrid == {-1, 0, 8, 33, 4096}
KCPGrid == {-1, 0, 20, 9000}
TwoLengths == [p \in {1, 2} |-> p]
MCArrives(path) == IF path = "cando" THEN "/cando" ELSE path

\* A good pair, and one with a name given twice.
Good == Answer1(1, "ws", "443", "/cando", <<Udp>>)
Twice == Answer1(2, "ws", "443", "", <<Udp, Udp>>)
TwoAnswers == {Good, Twice}

\* Also a path without a slash, and no port where there is a default and where there is
\* none or another.
MoreAnswers ==
    TwoAnswers \cup {Answer1(1, "ws", "443", "cando", <<Udp>>), Answer1(1, "kcp", "443", "cando", <<Udp>>)}
    \cup {Answer1(2, t, "", "", <<Udp>>) : t \in {"wss", "ws", "tls"}}
TwoMenus == Permutations({m1, m2})
=============================================================================

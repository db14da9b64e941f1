----------------------------- MODULE MCHandshake -----------------------------
(* Small instances of Handshake for TLC: connections are interchangeable, and *)
(* so are the authentic hellos.                                               *)
EXTENDS Handshake, TLC

Symm == Permutations(Conn) \cup Permutations(Authentic)
=============================================================================

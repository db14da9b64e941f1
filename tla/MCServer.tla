------------------------------ MODULE MCServer ------------------------------
(* Small instances of Server for TLC.  Symm is used for safety only.          *)
EXTENDS Server, TLC

Symm == Permutations(Conn) \cup Permutations(Sess)
=============================================================================

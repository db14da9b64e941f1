---------------------------- MODULE MCClientPool ----------------------------
(* Small instances of ClientPool for TLC.                                     *)
EXTENDS ClientPool
=============================================================================

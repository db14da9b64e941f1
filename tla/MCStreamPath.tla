---------------------------- MODULE MCStreamPath ----------------------------
(* Instances of StreamPath.                                                 *)
EXTENDS StreamPath
=============================================================================

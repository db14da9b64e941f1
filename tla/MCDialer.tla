------------------------------ MODULE MCDialer ------------------------------
(* Small instances of Dialer, and with it Reconnect, for TLC.                 *)
EXTENDS Dialer
=============================================================================

------------------------------ MODULE MCCarrier ------------------------------
(* Small instances of Carrier for TLC.                                        *)
EXTENDS Carrier
=============================================================================

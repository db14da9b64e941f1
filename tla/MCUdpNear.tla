------------------------------ MODULE MCUdpNear ------------------------------
(* Small instances of UdpNear for TLC.                                        *)
EXTENDS UdpNear
=============================================================================

------------------------------ MODULE MCUdpPath ------------------------------
(* Small instances of UdpPath for TLC.                                        *)
EXTENDS UdpPath
=============================================================================

------------------------------ MODULE MCQueue ------------------------------
(* The octet queue for TLC.                                                 *)
EXTENDS Queue
=============================================================================

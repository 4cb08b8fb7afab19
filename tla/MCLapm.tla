------------------------------- MODULE MCLapm -------------------------------
(* Instances of Lapm for TLC: the configurations give the constants.        *)
EXTENDS Lapm
=============================================================================

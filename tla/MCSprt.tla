------------------------------- MODULE MCSprt -------------------------------
(* Two SPRT endpoints for TLC; each configuration gives its own bounds.     *)
EXTENDS Sprt
=============================================================================

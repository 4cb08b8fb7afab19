---------------------------- MODULE MCSprtTimers ----------------------------
(* The timers of an SPRT endpoint for TLC, with timeouts of a few ticks.    *)
EXTENDS SprtTimers
=============================================================================

------------------------------- MODULE MCV150 -------------------------------
(* A calling and an answering endpoint; the bounds are given by end.        *)
EXTENDS V150

E == {"near", "far"}

ByEnd(n, f) == [e \in E |-> IF e = "near" THEN n ELSE f]

SentPairs == {<<"MODEM_RELAY", "V32BIS_AA">>, <<"VOICE_BAND_DATA", "OTHER">>}
MCMaxSent == ByEnd(1, 1)
MCMaxSignals == ByEnd(1, 0)
MCMaxSprt == ByEnd(1, 0)
MCMaxLate == ByEnd(0, 1)
=============================================================================

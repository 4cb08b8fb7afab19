---------------------------- MODULE SprtChannel ----------------------------
(***************************************************************************)
(* What a reliable SPRT channel promises the applications at its ends:     *)
(* every message is handed over at most once, in the order of sending, and *)
(* never before it was sent.  Messages are numbered in the order in which  *)
(* sprt_tx accepts them.                                                   *)
(***************************************************************************)
EXTENDS Naturals, Sequences

CONSTANT Link       \* the one way streams: a sending end and a channel

VARIABLES sent,     \* how many messages sprt_tx has accepted, per stream
          got       \* what the far application has been handed, per stream

vars == <<sent, got>>

Init == /\ sent = [l \in Link |-> 0]
        /\ got = [l \in Link |-> <<>>]

Send(l) == /\ sent' = [sent EXCEPT ![l] = @ + 1]
           /\ UNCHANGED got

\* One packet may release a run of messages that were waiting for it.
HandOver == /\ \A l \in Link :
                  /\ Len(got[l]) <= Len(got'[l])
                  /\ Len(got'[l]) <= sent[l]
                  /\ got'[l] = [i \in 1 .. Len(got'[l]) |-> i]
            /\ UNCHANGED sent

Next == HandOver \/ \E l \in Link : Send(l)

Spec == Init /\ [][Next]_vars
=============================================================================

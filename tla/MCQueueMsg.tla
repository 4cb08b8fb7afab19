----------------------------- MODULE MCQueueMsg -----------------------------
(* The message queue for TLC: two octet values, so that a length has 2 bits.*)
EXTENDS QueueMsg

\* Every message of up to two octets, so that a queue of QLen = 6 holds one to
\* three of them and each part of a message meets the end of the ring.
ShortMessages == UNION {[1 .. n -> Octet] : n \in 0 .. 2}
=============================================================================

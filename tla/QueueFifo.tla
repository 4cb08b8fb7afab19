----------------------------- MODULE QueueFifo -----------------------------
(***************************************************************************)
(* What the octet queue promises its two users: a bounded FIFO of octets.  *)
(* The writer offers a block that fits and the queue takes it as a whole;  *)
(* a read takes a block off the front as a whole, a view copies a block    *)
(* without taking it, and a flush drops octets from the front.  Every      *)
(* operation happens at one instant.                                       *)
(***************************************************************************)
EXTENDS Naturals, Sequences

CONSTANTS Octet,      \* the values of an octet
          Capacity    \* the len that was given to queue_init

VARIABLES q,          \* the octets in the queue, oldest first
          offered,    \* the block the writer is handing over, <<>> between writes
          got         \* what the reader was given, <<>> while it is still asking

vars == <<q, offered, got>>

Init == /\ q = <<>>
        /\ offered = <<>>
        /\ got = <<>>

Offer == /\ offered = <<>>
         /\ offered' \in Seq(Octet)
         /\ Len(q) + Len(offered') <= Capacity
         /\ UNCHANGED <<q, got>>

Put == /\ q' = q \o offered
       /\ offered' = <<>>
       /\ UNCHANGED got

Ask == /\ got' = <<>>
       /\ UNCHANGED <<q, offered>>

Get == /\ got = <<>>
       /\ \E n \in 1 .. Len(q) :
             /\ got' = SubSeq(q, 1, n)
             /\ q' = SubSeq(q, n + 1, Len(q))
       /\ UNCHANGED offered

View == /\ got = <<>>
        /\ \E n \in 1 .. Len(q) : got' = SubSeq(q, 1, n)
        /\ UNCHANGED <<q, offered>>

Drop == /\ \E n \in 0 .. Len(q) : q' = SubSeq(q, n + 1, Len(q))
        /\ UNCHANGED <<offered, got>>

Next == Offer \/ Put \/ Ask \/ Get \/ View \/ Drop

Spec == Init /\ [][Next]_vars
=============================================================================

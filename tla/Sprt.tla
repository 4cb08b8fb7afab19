-------------------------------- MODULE Sprt --------------------------------
(***************************************************************************)
(* Two SPRT endpoints (src/sprt.c) and the packet network between them,    *)
(* which may lose, duplicate and reorder packets.  Reliable channels only: *)
(* the sending window, the receiving window, acknowledgements, the         *)
(* application's busy flag, retransmission.  Timers are abstract here: one *)
(* may expire in any state in which it is running (SprtTimers models when).*)
(* base_sequence_no of the far end is only ever stored, so packets do not  *)
(* carry it.  A message is the number of the sprt_tx call that sent it.    *)
(***************************************************************************)
EXTENDS Integers, Sequences, FiniteSets, SequencesExt, FiniteSetsExt

CONSTANTS End,          \* the two endpoints
          Chan,         \* the reliable channels in use
          Sender,       \* the endpoints whose application sends
          Window,       \* window_size of both ends
          MaxWindow,    \* SPRT_MAX_WINDOWS_SIZE
          SeqSpace,     \* SPRT_SEQ_NO_MASK + 1
          First,        \* sequence number of the first message (see Init)
          MaxTries,     \* max_tries
          MaxMsgs,      \* messages an application sends on a channel (a bound)
          NetCap,       \* packets under way to one end (a bound)
          Duplicates,   \* whether the network may duplicate packets
          BusyApp,      \* whether the application uses sprt_set_local_busy
          GiveUp        \* whether a message may reach its last try unanswered

ASSUME SprtAssumption ==
    /\ (\E a, b \in End : a # b /\ End = {a, b}) /\ Sender \subseteq End
    /\ {Window, MaxWindow} \subseteq Nat /\ Window >= 2 /\ Window <= MaxWindow
    /\ SeqSpace \in Nat /\ SeqSpace > 2 * MaxWindow + Window
    /\ First \in 0 .. SeqSpace - 1
    /\ MaxTries \in Nat \ {0} /\ MaxMsgs \in Nat /\ NetCap \in Nat

VARIABLES
    tx,     \* per end and channel, s->tx.chan[]
    rx,     \* per end and channel, s->rx.chan[]
    ackq,   \* per end, s->tx.ack_queue: acknowledgements not yet sent
    imm,    \* per end, s->tx.immediate_timer
    net,    \* per end, the packets under way to it
    sent,   \* history, per end and channel: messages its application has sent
    got     \* history, per end and channel: messages its application was handed

vars == <<tx, rx, ackq, imm, net, sent, got>>

Free    == 0             \* SPRT_LEN_SLOT_FREE: messages count from 1
Slot    == 0 .. Window - 1
Peer(e) == CHOOSE f \in End : f # e
Wrap(i) == i % Window
NumberOf(m) == (First + m - 1) % SeqSpace

TxInit == [q |-> First, in |-> 0, out |-> 0, buf |-> [s \in Slot |-> Free],
           tries |-> [s \in Slot |-> 0], timers |-> <<>>]
RxInit == [base |-> First, in |-> 0, buf |-> [s \in Slot |-> Free], busy |-> FALSE]

\* sprt_init, or with First # 0 a session whose earlier messages are all done
\* with, so that the numbers wrap within MaxMsgs.
Init ==
    /\ tx = [e \in End |-> [c \in Chan |-> TxInit]]
    /\ rx = [e \in End |-> [c \in Chan |-> RxInit]]
    /\ ackq = [e \in End |-> <<>>]
    /\ imm = [e \in End |-> FALSE]
    /\ net = [e \in End |-> {}]
    /\ sent = [e \in End |-> [c \in Chan |-> 0]]
    /\ got = [e \in End |-> [c \in Chan |-> <<>>]]

-----------------------------------------------------------------------------
(* Packets.  Only the fields that the far end acts on.                      *)

\* build_and_send_packet: whatever is sent takes the queued acknowledgements.
Packet(c, seq, msg, acks) == [ch |-> c, seq |-> seq, msg |-> msg, acks |-> acks]
AckPacket(c, acks)        == Packet(c, 0, Free, acks)

\* The packets p leave for to.  (They are lost if too many are under way.)
Carry(n, to, p) ==
    net' = IF Cardinality(n[to] \cup p) <= NetCap THEN [n EXCEPT ![to] = @ \cup p] ELSE n

\* A received packet leaves the network, or a copy of it is still to come.
Received(e, p) == {[net EXCEPT ![e] = @ \ {p}]} \cup (IF Duplicates THEN {net} ELSE {})

\* The network outlives no sequence number: a packet or an acknowledgement is
\* not delivered once its number is about to be used again.
Lifetime == SeqSpace - Window
InTime(e, p) ==
    /\ p.msg # Free => sent[Peer(e)][p.ch] - p.msg < Lifetime
    /\ \A i \in DOMAIN p.acks : sent[e][p.acks[i].ch] - p.acks[i].msg < Lifetime

-----------------------------------------------------------------------------
(* The sending side.                                                        *)

Room(t) == IF t.out - t.in - 1 < 0 THEN t.out - t.in - 1 + Window ELSE t.out - t.in - 1

sprt_tx(e, c) ==
    LET t == tx[e][c]
        m == sent[e][c] + 1
    IN  /\ e \in Sender /\ m <= MaxMsgs
        /\ Room(t) >= 1
        /\ tx' = [tx EXCEPT ![e][c] =
                     [q      |-> (t.q + 1) % SeqSpace,
                      in     |-> Wrap(t.in + 1),
                      out    |-> t.out,
                      buf    |-> [t.buf EXCEPT ![t.in] = m],
                      tries  |-> [t.tries EXCEPT ![t.in] = MaxTries],
                      timers |-> Append(t.timers, t.in)]]
        /\ sent' = [sent EXCEPT ![e][c] = m]
        /\ ackq' = [ackq EXCEPT ![e] = <<>>]
        /\ Carry(net, Peer(e), {Packet(c, t.q, m, ackq[e])})
        /\ UNCHANGED <<rx, imm, got>>

\* The timers in list that are of slots in s, in their order.
Among(list, s) ==
    LET kept[i \in 0 .. Len(list)] ==
            IF i = 0 THEN <<>>
            ELSE IF list[i] \in s THEN Append(kept[i - 1], list[i]) ELSE kept[i - 1]
    IN  kept[Len(list)]

\* Where buff_acked_out_ptr goes when the slot it points to is acknowledged.
NextUnacked(t) ==
    LET stops == {d \in 1 .. Window : Wrap(t.out + d) = t.in \/ t.buf[Wrap(t.out + d)] # Free}
    IN  Wrap(t.out + Min(stops))

\* One acknowledgement, for the message diff places before the next to be sent.
Acknowledge(t, seq) ==
    LET diff == (t.q - seq) % SeqSpace
        slot == Wrap(t.in - diff + Window)
        u    == [t EXCEPT !.buf[slot] = Free, !.timers = Among(@, Slot \ {slot})]
    IN  IF diff >= Window \/ t.buf[slot] = Free THEN t
        ELSE IF slot = t.out THEN [u EXCEPT !.out = NextUnacked(u)] ELSE u

\* Of the entries of a packet, which are at most three, the i-th.
AcknowledgeEntry(chans, acks, i) ==
    IF i \in DOMAIN acks
    THEN [chans EXCEPT ![acks[i].ch] = Acknowledge(@, acks[i].seq)] ELSE chans

process_acknowledgements(chans, acks) ==
    AcknowledgeEntry(AcknowledgeEntry(AcknowledgeEntry(chans, acks, 1), acks, 2), acks, 3)

-----------------------------------------------------------------------------
(* The receiving side.                                                      *)

\* queue_acknowledgement: no entry twice, and three of them are sent at once.
Queued(acks, a) == IF a \in ToSet(acks) THEN acks ELSE Append(acks, a)
Full(acks)      == Len(acks) >= 3

\* The messages stored next in sequence, from the head of the window.
Ready(r) == Max({n \in 0 .. Window : \A i \in 0 .. n - 1 : r.buf[Wrap(r.in + i)] # Free})
Run(r, n) == [i \in 1 .. n |-> r.buf[Wrap(r.in + i - 1)]]

\* Fault: the slots of what was handed over are not freed.
HandOverKeeping(r, n, b) ==
    [base |-> (r.base + n) % SeqSpace, in |-> Wrap(r.in + n), buf |-> r.buf, busy |-> b]

\* The application is handed the first n of them, and has by then set busy to b.
HandOver(r, n, b) ==
    [base |-> (r.base + n) % SeqSpace,
     in   |-> Wrap(r.in + n),
     buf  |-> [s \in Slot |-> IF \E i \in 0 .. n - 1 : s = Wrap(r.in + i)
                              THEN Free ELSE r.buf[s]],
     busy |-> b]

\* The outcomes of handing over what is ready: the application may become busy
\* at any message, and no further one is then handed over.
Deliveries(r) ==
    IF r.busy \/ Ready(r) = 0 THEN {<<0, r.busy>>}
    ELSE {d \in (1 .. Ready(r)) \X (IF BusyApp THEN BOOLEAN ELSE {FALSE}) :
              d[1] < Ready(r) => d[2]}

Store(r, d, m) == [r EXCEPT !.buf[Wrap(r.in + d)] = m]

\* Fault: no answer to repeats.
AcceptUnanswered(r, seq, m) ==
    LET diff == (seq - r.base) % SeqSpace
    IN  [r |-> IF diff < Window THEN Store(r, diff, m) ELSE r,
         ack |-> diff < Window, go |-> diff = 0]
\* Fault: an answer to what is dropped for being beyond the window.
AcceptAckingDropped(r, seq, m) ==
    LET diff == (seq - r.base) % SeqSpace
    IN  [r |-> IF diff < Window THEN Store(r, diff, m) ELSE r, ack |-> TRUE, go |-> diff = 0]

\* What a data packet does to its channel: r is the channel with the message
\* stored, ack whether it is acknowledged, go whether messages are handed over.
Accept(r, seq, m) ==
    LET diff == (seq - r.base) % SeqSpace
    IN  IF diff = 0 THEN [r |-> Store(r, 0, m), ack |-> TRUE, go |-> TRUE]
        ELSE IF diff < Window THEN [r |-> Store(r, diff, m), ack |-> TRUE, go |-> FALSE]
        ELSE [r |-> r, ack |-> diff > 2 * MaxWindow, go |-> FALSE]

RxData(e, p, n0) ==
    LET a  == Accept(rx[e][p.ch], p.seq, p.msg)
        q  == IF a.ack THEN Queued(ackq[e], [ch |-> p.ch, seq |-> p.seq, msg |-> p.msg])
                       ELSE ackq[e]
    IN  /\ IF Full(q)
           THEN ackq' = [ackq EXCEPT ![e] = <<>>] /\ Carry(n0, Peer(e), {AckPacket(p.ch, q)})
           ELSE ackq' = [ackq EXCEPT ![e] = q] /\ net' = n0
        /\ \E d \in IF a.go THEN Deliveries(a.r) ELSE {<<0, a.r.busy>>} :
              /\ rx' = [rx EXCEPT ![e][p.ch] = HandOver(a.r, d[1], d[2])]
              /\ got' = [got EXCEPT ![e][p.ch] = @ \o Run(a.r, d[1])]

sprt_rx_packet(e, p) ==
    /\ InTime(e, p)
    /\ tx' = [tx EXCEPT ![e] = process_acknowledgements(@, p.acks)]
    /\ \E n0 \in Received(e, p) :
          IF p.msg # Free
          THEN RxData(e, p, n0)
          ELSE net' = n0 /\ UNCHANGED <<rx, ackq, got>>
    /\ UNCHANGED <<imm, sent>>

\* Fault: what waits is left waiting when the application is no longer busy.
UnbusyWithoutTimer(e, c, b) ==
    /\ BusyApp /\ rx[e][c].busy # b
    /\ rx' = [rx EXCEPT ![e][c].busy = b]
    /\ UNCHANGED <<tx, ackq, imm, net, sent, got>>

sprt_set_local_busy(e, c, b) ==
    /\ BusyApp /\ rx[e][c].busy # b
    /\ rx' = [rx EXCEPT ![e][c].busy = b]
    /\ imm' = [imm EXCEPT ![e] = @ \/ ~b]
    /\ UNCHANGED <<tx, ackq, net, sent, got>>

-----------------------------------------------------------------------------
(* Timers.                                                                  *)

\* The slots whose retransmission timers have expired: the first k in order of
\* time.  Each is sent once more and goes to the end of the order, or is left
\* alone if that was its last try.
Resend(t, k) ==
    LET due  == SubSeq(t.timers, 1, k)
        left == [s \in Slot |-> IF s \in ToSet(due) THEN t.tries[s] - 1 ELSE t.tries[s]]
    IN  [t EXCEPT !.tries = left,
                  !.timers = SubSeq(t.timers, k + 1, Len(t.timers))
                                \o Among(due, {s \in Slot : left[s] > 0})]

\* Fault: the distance is not wrapped at the end of the window.
SeqInSlotUnwrapped(t, s) == (t.q - (t.in - s)) % SeqSpace

\* The sequence number of a slot, from its distance to the next one to be used.
SeqInSlot(t, s) == (t.q - (IF t.in - s < 0 THEN t.in - s + Window ELSE t.in - s)) % SeqSpace

Resent(t, c, k, acks) ==
    {Packet(c, SeqInSlot(t, t.timers[i]), t.buf[t.timers[i]], IF i = 1 THEN acks ELSE <<>>) :
        i \in 1 .. k}

\* Bound: unless GiveUp, the far end answers before the last try.
TriesLeft(t, k) == GiveUp \/ \A i \in 1 .. k : t.tries[t.timers[i]] > 1

\* What an expiry sends: k[c] retransmissions on each channel.  The first packet
\* takes the acknowledgements along: a retransmission, unless the keepalive of a
\* channel before it, or with nothing to send again any keepalive or the
\* acknowledgement holdoff, is due (push) and sends them alone.
TimerPackets(e, k, push) ==
    LET again     == {c \in Chan : k[c] > 0}
        alone     == push /\ ackq[e] # <<>> /\ (again = {} \/ Min(Chan) < Min(again))
        acksOn(c) == IF ~alone /\ c = Min(again) THEN ackq[e] ELSE <<>>
    IN  (UNION {Resent(tx[e][c], c, k[c], acksOn(c)) : c \in again})
           \cup (IF alone THEN {AckPacket(Min(Chan), ackq[e])} ELSE {})

\* sprt_timer_expired: the immediate timer first (sprt_deliver on every
\* channel), then what is due on each channel.  d is what gets delivered.
sprt_timer_expired(e, k, push, d) ==
    LET out == TimerPackets(e, k, push)
    IN  /\ \A c \in Chan : k[c] <= Len(tx[e][c].timers) /\ TriesLeft(tx[e][c], k[c])
        /\ imm[e] \/ out # {}
        /\ \A c \in Chan : d[c] \in IF imm[e] THEN Deliveries(rx[e][c])
                                              ELSE {<<0, rx[e][c].busy>>}
        /\ tx' = [tx EXCEPT ![e] = [c \in Chan |-> Resend(@[c], k[c])]]
        /\ rx' = [rx EXCEPT ![e] = [c \in Chan |-> HandOver(@[c], d[c][1], d[c][2])]]
        /\ got' = [got EXCEPT ![e] = [c \in Chan |-> @[c] \o Run(rx[e][c], d[c][1])]]
        /\ ackq' = IF out = {} THEN ackq ELSE [ackq EXCEPT ![e] = <<>>]
        /\ imm' = [imm EXCEPT ![e] = FALSE]
        /\ Carry(net, Peer(e), out)
        /\ UNCHANGED sent

TimerExpired(e) ==
    \E k \in [Chan -> 0 .. Window - 1], push \in BOOLEAN,
       d \in [Chan -> (0 .. Window) \X BOOLEAN] : sprt_timer_expired(e, k, push, d)

-----------------------------------------------------------------------------
Lose(e, p) ==
    /\ net' = [net EXCEPT ![e] = @ \ {p}]
    /\ UNCHANGED <<tx, rx, ackq, imm, sent, got>>

Next ==
    \E e \in End :
        \/ \E c \in Chan : sprt_tx(e, c)
        \/ \E c \in Chan, b \in BOOLEAN : sprt_set_local_busy(e, c, b)
        \/ \E p \in net[e] : sprt_rx_packet(e, p) \/ Lose(e, p)
        \/ TimerExpired(e)

Spec == Init /\ [][Next]_vars

-----------------------------------------------------------------------------
TypeOK ==
    /\ \A e \in End, c \in Chan :
          LET t == tx[e][c]
              r == rx[e][c]
          IN  /\ t.q \in 0 .. SeqSpace - 1 /\ t.in \in Slot /\ t.out \in Slot
              /\ t.buf \in [Slot -> 0 .. MaxMsgs] /\ t.tries \in [Slot -> 0 .. MaxTries]
              /\ t.timers \in Seq(Slot)
              /\ r.base \in 0 .. SeqSpace - 1 /\ r.in \in Slot
              /\ r.buf \in [Slot -> 0 .. MaxMsgs] /\ r.busy \in BOOLEAN
    /\ \A e \in End : Len(ackq[e]) <= 2 /\ imm[e] \in BOOLEAN
    /\ sent \in [End -> [Chan -> 0 .. MaxMsgs]]

Link == Sender \X Chan
Channel == INSTANCE SprtChannel
    WITH sent <- [l \in Link |-> sent[l[1]][l[2]]],
         got  <- [l \in Link |-> got[Peer(l[1])][l[2]]]

\* Whatever the network does within the life of a sequence number, the far
\* application is handed each message once, in order (sprt_rx_packet's window,
\* sprt_deliver, and the 14 bit sequence numbers).
ReliableChannel == Channel!Spec

\* An acknowledged message is not lost: every message accepted by sprt_tx has
\* been handed over, or waits in its place in the far window, or is still in
\* the sender's buffer.
NothingLost ==
    \A e \in Sender, c \in Chan, m \in 1 .. MaxMsgs :
        LET t == tx[e][c]
            r == rx[Peer(e)][c]
            n == Len(got[Peer(e)][c])
        IN  m <= sent[e][c] =>
               \/ m <= n
               \/ m <= n + Window /\ r.buf[Wrap(r.in + m - n - 1)] = m
               \/ \E s \in Slot : t.buf[s] = m

\* A retransmission is sent under the number its message was first sent with,
\* although the code stores no number with the message.
SameNumberAgain ==
    \A e \in Sender, c \in Chan, s \in Slot :
        LET t == tx[e][c] IN t.buf[s] # Free => SeqInSlot(t, s) = NumberOf(t.buf[s])

\* What waited for the application to stop being busy is on its way as soon as
\* it is not: the immediate timer runs.
NoStrandedMessage ==
    \A e \in End, c \in Chan :
        ~rx[e][c].busy /\ Ready(rx[e][c]) > 0 => imm[e]

-----------------------------------------------------------------------------
(* Liveness.                                                                *)

\* TR03 (500ms) is longer than TA01 (90ms) and a round trip: a message is only
\* sent again when the answer to its last copy is no longer under way.  An
\* application is not busy for as long as the far end tries: the last copy
\* finds it ready.
Quiet == \A e \in End : net[e] = {} /\ ackq[e] = <<>> /\ ~imm[e]
PromptTimer(e) ==
    \E k \in [Chan -> 0 .. Window - 1], push \in BOOLEAN,
       d \in [Chan -> (0 .. Window) \X BOOLEAN] :
        /\ (\E c \in Chan : k[c] > 0) => Quiet
        /\ \A c \in Chan : rx[Peer(e)][c].busy =>
              \A i \in 1 .. Min({k[c], Len(tx[e][c].timers)}) : tx[e][c].tries[tx[e][c].timers[i]] > 2
        /\ sprt_timer_expired(e, k, push, d)

\* Not every copy of a message, or of its acknowledgement, is lost: nothing is
\* lost while a message has been sent for the last time.
LoseSome(e, p) ==
    /\ \A f \in End, c \in Chan, s \in Slot : tx[f][c].buf[s] # Free => tx[f][c].tries[s] > 1
    /\ Lose(e, p)

\* The application becomes busy only while it is being handed messages.
LiveNext ==
    \E e \in End :
        \/ \E c \in Chan : sprt_tx(e, c) \/ sprt_set_local_busy(e, c, FALSE)
        \/ \E p \in net[e] : sprt_rx_packet(e, p) \/ LoseSome(e, p)
        \/ PromptTimer(e)

\* Fairness: the timer the endpoint asked for comes, a packet that is not lost
\* arrives, and an application does not stay busy for ever.
LiveSpec ==
    /\ Init /\ [][LiveNext]_vars
    /\ \A e \in End :
          /\ WF_vars(PromptTimer(e))
          /\ WF_vars(\E p \in net[e] : sprt_rx_packet(e, p))
          /\ \A c \in Chan : WF_vars(sprt_set_local_busy(e, c, FALSE))

\* Every message that sprt_tx accepts is handed over in the end, and its slot
\* in the sender's window is free again: lost packets are sent again, repeats
\* are acknowledged again, and what waited for a busy application is delivered.
\* (MaxMsgs ends the sending, and so there is an end to reach.)
EverythingArrives ==
    <>[](\A e \in Sender, c \in Chan :
            /\ Len(got[Peer(e)][c]) = sent[e][c]
            /\ \A s \in Slot : tx[e][c].buf[s] = Free)
=============================================================================

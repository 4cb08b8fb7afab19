----------------------------- MODULE T38Gateway -----------------------------
(***************************************************************************)
(* One direction of a FAX call through two T.38 gateways                   *)
(* (src/t38_gateway.c over src/t38_core.c and src/hdlc.c): a FAX machine   *)
(* signals, the first gateway turns what it hears into IFP packets, the    *)
(* packet network delays, loses and repeats them, and the second gateway   *)
(* queues what they say and plays it to the other machine.                 *)
(*                                                                         *)
(* The second gateway is a record and each function of the code an         *)
(* operator from the record it finds to the record it leaves.  Time is     *)
(* counted in chunks: what fills one data packet, and what a modem sends   *)
(* while one is filled.  Both lines advance by a chunk in each Tick, and   *)
(* every packet that is due arrives before the next one.                   *)
(* Left out: tones, TCF, the editing and monitoring of control messages,   *)
(* and what tells one speed or length of training from another.            *)
(***************************************************************************)
EXTENDS Integers, Sequences, FiniteSets, SequencesExt, FiniteSetsExt

CONSTANTS
    Calls,       \* what the machine may send: for each burst, its modem and
                 \* frames; whether image data are framed; and whether a T.38
                 \* terminal sends the packets, and no gateway hears a modem
    Preamble,    \* chunks of flags, or of training, that start a burst
    CrcLen,      \* HDLC_TRAMISSION_LAG_OCTETS, and the CRC of a frame
    Trail,       \* flags between the last frame and the end of the carrier
    Gap,         \* silence between bursts
    StartLevel,  \* HDLC_START_BUFFER_LEVEL
    Bufs,        \* T38_TX_HDLC_BUFS
    SeqSpace,    \* 0x10000
    SeqOffset,   \* ACCEPTABLE_SEQ_NO_OFFSET
    FirstSeq,    \* number of the first packet
    Jitter,      \* how much longer one packet may take than another
    MaxLost,     \* packets lost with all of their copies, or so late that they
                 \* are as good as lost, and
    MaxRepeated  \* packets that come twice (bounds)

Chunks == 1 .. 15
Fates  == {"ok", "bad", "abort", "drop"}

ASSUME T38GatewayAssumption ==
    /\ \A c \in Calls : c.ecm \in BOOLEAN /\ c.terminal \in BOOLEAN /\ c.script \in
          Seq([type : {"V21", "V17"}, frames : Seq([n : Chunks, fate : Fates])])
    /\ \A c \in Calls : c.terminal => \A b \in DOMAIN c.script : \A f \in Range(c.script[b].frames) : f.fate = "ok"
    /\ {Preamble, CrcLen, Gap, StartLevel} \subseteq Nat \ {0}
    /\ {Trail, Jitter, MaxLost, MaxRepeated, FirstSeq} \subseteq Nat
    /\ Bufs > 2 /\ 2 * SeqOffset < SeqSpace /\ FirstSeq < SeqSpace

VARIABLES
    call,    \* what the machine sends; ecm: image_data_mode and ecm_mode
    src,     \* the machine that sends, and what the first gateway hears of it
    emit,    \* packets the first gateway has for the network
    sent,    \* how many packets there were
    net,     \* packets under way, and the time they still take
    gw,      \* the second gateway
    heard,   \* frames the far machine has received
    image,   \* unframed image data it has received
    faults   \* what the network has done so far

vars == <<call, src, emit, sent, net, gw, heard, image, faults>>

-----------------------------------------------------------------------------
(* Packets.  A chunk of data is known by its burst, frame and place.  at is  *)
(* the frame a packet is about, which only the properties look at.          *)

ecm    == call.ecm
Script == call.script

Burst   == Script[src.burst]
Frame   == Burst.frames[src.frame]
Hdlc(t) == t = "V21" \/ ecm

Indicator(i) == [kind |-> "indicator", type |-> i, field |-> "-", data |-> <<>>, at |-> <<src.burst, src.frame>>]
Data(f, d)   == [kind |-> "data", type |-> Burst.type, field |-> f, data |-> d, at |-> <<src.burst, src.frame>>]

FrameEnds == {"FCS_OK", "FCS_BAD"}
JointEnds == {"FCS_OK_SIG_END", "FCS_BAD_SIG_END"}

-----------------------------------------------------------------------------
(* The transmitter of frames: hdlc_tx_state_t, progressive.  end is what    *)
(* tx_end is, crc the octets of the CRC that have gone, bad whether it will *)
(* be, or was, wrong.                                                       *)

HdlcTx == [flags |-> 0, report |-> FALSE, data |-> <<>>, pos |-> 0, crc |-> 0,
           bad |-> FALSE, end |-> FALSE]

hdlc_tx_init(g) == [g EXCEPT !.tx = HdlcTx]

hdlc_tx_frame(g, d) ==
    CASE d = <<>>       -> [g EXCEPT !.tx.end = TRUE]
      [] d # <<>> /\ g.tx.crc > 0 -> g
      [] OTHER          -> [g EXCEPT !.tx.data = @ \o d, !.tx.end = FALSE]

hdlc_tx_flags(g, n) ==
    IF g.tx.pos > 0 THEN g
    ELSE [g EXCEPT !.tx.flags = n, !.tx.report = TRUE, !.tx.end = FALSE]

hdlc_tx_corrupt_frame(g) ==
    IF g.tx.data = <<>> \/ g.tx.crc = CrcLen THEN g ELSE [g EXCEPT !.tx.bad = ~@]

-----------------------------------------------------------------------------
(* The queue of frames and indicators between the packets and the modem.    *)

NoContents == [is |-> "none", type |-> "-"]
FrameOf(t) == [is |-> "data", type |-> t]
ChangeTo(i) == [is |-> "indicator", type |-> i]
Blank == [contents |-> NoContents, data |-> <<>>, flags |-> {}]

Next1(i)  == (i + 1) % Bufs
InBuf(g)  == g.buf[g.in]
OutBuf(g) == g.buf[g.out]
Pop(g)    == [g EXCEPT !.buf[g.out] = Blank, !.out = Next1(@)]
Flag(g, f) == [g EXCEPT !.buf[g.in].flags = @ \cup {f}]

\* Fault: what follows is not told to go ahead.
hdlc_underflow_handler_late(g) ==
    LET h == Pop(g)
    IN  CASE "proceed" \notin OutBuf(g).flags   -> g
          [] "proceed" \in OutBuf(g).flags /\ OutBuf(h).contents.is = "data" -> h
          [] OTHER                              -> hdlc_tx_frame(h, <<>>)

\* The frame on the line is over, or the flags before it are, with nothing to
\* follow.
hdlc_underflow_handler(g) ==
    LET h == Pop(g)
        next == OutBuf(h)
        started == hdlc_tx_frame(h, next.data)
    IN  CASE "proceed" \notin OutBuf(g).flags   -> g
          [] "proceed" \in OutBuf(g).flags /\ next.contents.is = "indicator" -> hdlc_tx_frame(h, <<>>)
          [] "proceed" \in OutBuf(g).flags /\ next.contents.is = "data" /\ "proceed" \in next.flags
               -> IF "corrupt" \in next.flags THEN hdlc_tx_corrupt_frame(started) ELSE started
          [] OTHER                              -> h

finalise_hdlc_frame(g, good_fcs) ==
    LET a == IF ~good_fcs \/ "missing" \in InBuf(g).flags THEN Flag(g, "corrupt") ELSE g
        b == IF a.in = a.out /\ "proceed" \notin InBuf(a).flags THEN hdlc_tx_frame(a, InBuf(a).data) ELSE a
        c == IF a.in = a.out /\ "corrupt" \in InBuf(a).flags THEN hdlc_tx_corrupt_frame(b) ELSE b
        d == Flag(Flag(c, "proceed"), "finished")
    IN  [d EXCEPT !.in = Next1(@), !.buf[Next1(d.in)] = Blank]

process_rx_indicator(g, i) ==
    LET at == IF InBuf(g).contents.is # "none" THEN Next1(g.in) ELSE g.in
        a  == [g EXCEPT !.buf[at].contents = ChangeTo(i), !.in = Next1(at)]
        b  == IF g.in = g.out /\ g.class = "hdlc" THEN hdlc_tx_frame(a, <<>>) ELSE a
    IN  IF g.ind = i THEN g ELSE [b EXCEPT !.class = "none", !.ind = i]

\* Whichever training the data came with will do.
queue_missing_indicator(g, t) == process_rx_indicator(g, t)

\* Fault: a gap in the numbers goes unnoticed.
process_rx_missing_ignored(g) == g

process_rx_missing(g) == Flag(g, "missing")

Wanted(g, t) == IF InBuf(g).contents = FrameOf(t) THEN g ELSE queue_missing_indicator(g, t)

\* Control messages start out when enough has come to ride over the jitter.
\* Image frames wait for their end.
process_hdlc_data(g, t, d) ==
    LET a == [g EXCEPT !.buf[g.in].contents = FrameOf(t)]
        all == InBuf(a).data \o d
        b == IF a.in # a.out THEN a
             ELSE hdlc_tx_frame(a, IF "proceed" \in InBuf(a).flags THEN d ELSE all)
        c == IF t = "V21" /\ Len(all) >= StartLevel THEN Flag(b, "proceed") ELSE a
    IN  [c EXCEPT !.buf[g.in].data = all]

\* The first chunk of a frame is known by its address octet.
hdlc_data(g, p) ==
    LET h == [g EXCEPT !.class = "hdlc"]
        a == Wanted(h, p.type)
        b == IF InBuf(h).contents # FrameOf(p.type) /\ p.data[1][3] # 1 THEN Flag(a, "missing") ELSE a
    IN  process_hdlc_data(b, p.type, p.data)

\* A frame with nothing in it repeats the end of the one before.
frame_end(g, p) ==
    LET h == [g EXCEPT !.class = "hdlc"]
        a == Wanted(h, p.type)
        b == [a EXCEPT !.buf[a.in].contents = FrameOf(p.type)]
    IN  IF InBuf(h).data = <<>> THEN [h EXCEPT !.buf[h.in].contents = NoContents]
        ELSE finalise_hdlc_frame(b, p.field \in {"FCS_OK", "FCS_OK_SIG_END"})

Repeated(g, p) == g.dt = p.type /\ g.ft = p.field
no_signal(g)   == [queue_missing_indicator(g, "NO_SIGNAL") EXCEPT !.class = "none"]

push(g)        == [g EXCEPT !.ne.finished = TRUE]
inject(g, d)   == [g EXCEPT !.ne.data = @ \o d]
ClearFrame(g)  == [g EXCEPT !.buf[g.in] = Blank]

\* Fault: the modem is not told to stop.
signal_end_unqueued(g, p) ==
    IF Repeated(g, p) THEN g
    ELSE IF g.class = "non_ecm" THEN [g EXCEPT !.class = "none"] ELSE ClearFrame(g)

\* What the class is asked of: for frames, the state an indicator just queued
\* has left.
signal_end(g, p) ==
    LET a == Wanted(g, p.type)
        class == IF p.field = "HDLC_SIG_END" THEN a.class ELSE g.class
    IN  IF Repeated(g, p) THEN g
        ELSE no_signal(IF class = "non_ecm" THEN push(inject(a, p.data)) ELSE ClearFrame(a))

non_ecm_data(g, p) ==
    LET h == [g EXCEPT !.class = "non_ecm"] IN inject(Wanted(h, p.type), p.data)

process_rx_data(g, p) ==
    CASE p.field = "HDLC_DATA"   -> hdlc_data(g, p)
      [] p.field \in FrameEnds   -> frame_end(g, p)
      [] p.field \in JointEnds   -> IF Repeated(g, p) THEN frame_end(g, p) ELSE no_signal(frame_end(g, p))
      [] p.field \in {"HDLC_SIG_END", "T4_SIG_END"} -> signal_end(g, p)
      [] p.field = "T4_DATA"     -> non_ecm_data(g, p)

-----------------------------------------------------------------------------
(* t38_core_rx_ifp_packet and t38_core_rx_ifp_stream.                       *)

\* Fault: every number other than the expected one lies ahead.
classify_seq_no_offset_ahead(expected, actual) == IF expected = actual THEN 0 ELSE 1

classify_seq_no_offset(expected, actual) ==
    CASE expected > actual /\ expected > actual + SeqSpace - SeqOffset  -> 1
      [] expected > actual /\ expected < actual + SeqOffset           -> -1
      [] expected < actual /\ expected + SeqOffset > actual           -> 1
      [] expected < actual /\ expected + SeqSpace - SeqOffset < actual  -> -1
      [] OTHER                                                        -> 0

rx_ifp_stream(g, p) ==
    IF p.kind = "indicator"
    THEN [process_rx_indicator([g EXCEPT !.dt = "-", !.ft = "-"], p.type) EXCEPT !.ind = p.type]
    ELSE [process_rx_data(g, p) EXCEPT !.dt = p.type, !.ft = p.field]

rx_ifp_packet(g, seq, p) ==
    LET late == \/ (seq + 1) % SeqSpace = g.want
                \/ classify_seq_no_offset(g.want, seq) = -1
        a == IF g.want \in {-1, seq} THEN g ELSE process_rx_missing(g)
    IN  IF g.want \notin {-1, seq} /\ late THEN g
        ELSE rx_ifp_stream([a EXCEPT !.want = (seq + 1) % SeqSpace], p)

-----------------------------------------------------------------------------
(* t38_gateway_tx: what the second gateway plays.                           *)

set_next_tx_type(g) ==
    LET i == OutBuf(g).contents.type
        h == Pop(g)
        v21 == [hdlc_tx_flags(hdlc_tx_init(h), Preamble) EXCEPT !.buf[h.in].data = <<>>]
        v17 == IF ecm THEN hdlc_tx_flags(hdlc_tx_init(h), Preamble) ELSE h
    IN  CASE g.in = g.out \/ OutBuf(g).contents.is # "indicator" -> g
          [] g.in # g.out /\ OutBuf(g).contents = ChangeTo("NO_SIGNAL") -> [h EXCEPT !.modem = "silence"]
          [] g.in # g.out /\ OutBuf(g).contents = ChangeTo("V21") -> [v21 EXCEPT !.modem = "V21", !.lead = 1]
          [] g.in # g.out /\ OutBuf(g).contents = ChangeTo("V17") -> [v17 EXCEPT !.modem = "V17", !.lead = 1]

\* The handler left room in the buffer: the next one has a chance to fill it.
Short(g) ==
    LET a == set_next_tx_type(g)
    IN  IF a.out # g.out /\ a.modem = "silence" THEN set_next_tx_type(a) ELSE a

hdlc_tx_get_byte(g) ==
    LET x == g.tx
        flagged == [g EXCEPT !.tx.flags = @ - 1, !.tx.report = @ /\ x.flags > 1]
        over == hdlc_underflow_handler([g EXCEPT !.tx = [HdlcTx EXCEPT !.flags = 1, !.end = x.end]])
    IN  CASE x.flags > 0 -> IF x.flags = 1 /\ x.report /\ x.data = <<>>
                            THEN hdlc_underflow_handler(flagged) ELSE flagged
          [] x.flags = 0 /\ x.pos < Len(x.data) -> [g EXCEPT !.tx.pos = @ + 1]
          [] x.flags = 0 /\ x.data # <<>> /\ x.pos = Len(x.data) /\ x.crc < CrcLen -> [g EXCEPT !.tx.crc = @ + 1]
          [] x.flags = 0 /\ x.data # <<>> /\ x.crc = CrcLen
               -> IF over.tx.data = <<>> THEN [over EXCEPT !.tx.flags = 2] ELSE over
          [] x.flags = 0 /\ x.data = <<>> -> IF x.end THEN Short([g EXCEPT !.tx.end = FALSE]) ELSE g

\* t38_non_ecm_buffer_get_bit, for a chunk.
non_ecm_get_chunk(g) ==
    CASE g.ne.data # <<>>                  -> [g EXCEPT !.ne.data = Tail(@)]
      [] g.ne.data = <<>> /\ g.ne.finished -> Short([g EXCEPT !.ne.finished = FALSE])
      [] OTHER                             -> g

Framed(g) == g.modem = "V21" \/ (g.modem = "V17" /\ ecm)

t38_gateway_tx(g) ==
    CASE g.modem = "silence"                  -> Short(g)
      [] g.modem # "silence" /\ g.lead > 0    -> [g EXCEPT !.lead = @ - 1]
      [] g.modem # "silence" /\ g.lead = 0    -> IF Framed(g) THEN hdlc_tx_get_byte(g) ELSE non_ecm_get_chunk(g)

-----------------------------------------------------------------------------
(* The machine that sends, and the packets the first gateway makes of it:   *)
(* t38_hdlc_rx_put_bit, rx_flag_or_abort, hdlc_rx_status, non_ecm_put_bit,  *)
(* non_ecm_push_residue, non_ecm_rx_status, announce_training.              *)

\* Data go out CRC octets late, so that the CRC does not.
Sendable(n) == n > CrcLen /\ n - CrcLen <= Frame.n
Chunk(k)    == <<<<src.burst, src.frame, k>>>>
HdlcChunk(n) == IF Sendable(n) THEN <<Data("HDLC_DATA", Chunk(n - CrcLen))>> ELSE <<>>

LastFrame == src.frame = Len(Burst.frames)

\* A T.38 terminal says at once that its last frame and its signal have ended.
TerminalEnd == IF LastFrame THEN "FCS_OK_SIG_END" ELSE "FCS_OK"

\* At the flag, or the abort, that ends a frame.
FrameEnd ==
    LET end == IF call.terminal THEN TerminalEnd ELSE IF Frame.fate = "ok" THEN "FCS_OK" ELSE "FCS_BAD"
    IN  IF Frame.fate = "abort" /\ Frame.n <= CrcLen THEN <<>> ELSE <<Data(end, <<>>)>>

\* What is left of unframed data, less than a packet, goes with their end.
Left == ~Hdlc(Burst.type) /\ LastFrame
SignalEnd ==
    CASE Hdlc(Burst.type) /\ call.terminal -> <<>>
      [] Hdlc(Burst.type) /\ ~call.terminal -> <<Data("HDLC_SIG_END", <<>>)>>
      [] OTHER -> <<Data("T4_SIG_END", Chunk(Frame.n))>>

CarrierDown == SignalEnd \o <<Indicator("NO_SIGNAL")>>

\* How many chunks of the frame the gateway hears.
Heard == IF Frame.fate \in {"abort", "drop"} THEN Frame.n ELSE Frame.n + CrcLen

To(phase, n) == [src EXCEPT !.phase = phase, !.n = n]
Silent == [src EXCEPT !.phase = "gap", !.n = Gap, !.burst = @ + 1, !.frame = 1]
NextFrame == IF LastFrame THEN To("tail", Trail) ELSE [src EXCEPT !.frame = @ + 1, !.n = 0]

Step(s, packets) == src' = s /\ emit' = packets
During(phase) == src.burst <= Len(Script) /\ src.phase = phase

Source ==
    \/ src.burst > Len(Script) /\ Step(src, <<>>)
    \/ During("gap") /\ src.n > 0 /\ Step(To("gap", src.n - 1), <<>>)
    \/ During("gap") /\ src.n = 0 /\ Step(To("preamble", Preamble), <<Indicator(Burst.type)>>)
    \/ During("preamble") /\ src.n > 0 /\ Step(To("preamble", src.n - 1), <<>>)
    \/ During("preamble") /\ src.n = 0 /\ Step(To("frame", 0), <<>>)
    \/ /\ During("frame") /\ ~Hdlc(Burst.type)
       /\ Step(IF src.n + 1 < Frame.n THEN To("frame", src.n + 1) ELSE NextFrame,
               IF Left /\ src.n + 1 = Frame.n THEN <<>> ELSE <<Data("T4_DATA", Chunk(src.n + 1))>>)
    \/ /\ During("frame") /\ Hdlc(Burst.type) /\ src.n < Heard
       /\ Step(To("frame", src.n + 1), HdlcChunk(src.n + 1))
    \/ /\ During("frame") /\ Hdlc(Burst.type) /\ src.n = Heard
       /\ IF Frame.fate = "drop" THEN Step(Silent, CarrierDown) ELSE Step(NextFrame, FrameEnd)
    \/ During("tail") /\ src.n > 0 /\ Step(To("tail", src.n - 1), <<>>)
    \/ During("tail") /\ src.n = 0 /\ Step(Silent, CarrierDown)

-----------------------------------------------------------------------------

Gateway == [want |-> -1, ind |-> "NO_SIGNAL", dt |-> "-", ft |-> "-", class |-> "none",
            buf |-> [i \in 0 .. Bufs - 1 |-> Blank], in |-> 0, out |-> 0, tx |-> HdlcTx,
            ne |-> [data |-> <<>>, finished |-> FALSE], modem |-> "silence", lead |-> 0]

Init ==
    /\ call \in Calls
    /\ src = [burst |-> 1, phase |-> "gap", n |-> 0, frame |-> 1]
    /\ emit = <<>> /\ sent = 0 /\ net = {} /\ faults = [lost |-> {}, repeated |-> 0]
    /\ gw = Gateway
    /\ heard = <<>> /\ image = <<>>

\* Time goes on when the network has done what it had to do by now.  A frame
\* is heard with its CRC, an image chunk with the data it holds.
Tick ==
    /\ emit = <<>> /\ \A k \in net : k.due > 0
    /\ src.burst <= Len(Script) \/ net # {} \/ gw.modem # "silence" \/ gw.in # gw.out
    /\ Source
    /\ net' = {[k EXCEPT !.due = @ - 1] : k \in net}
    /\ gw' = t38_gateway_tx(gw)
    /\ heard' = IF gw.modem # "silence" /\ gw.lead = 0 /\ Framed(gw) /\ gw.tx.flags = 0 /\ gw.tx.crc = CrcLen
                THEN Append(heard, [modem |-> gw.modem, data |-> gw.tx.data, good |-> ~gw.tx.bad])
                ELSE heard
    /\ image' = IF gw.modem = "V17" /\ gw.lead = 0 /\ ~ecm /\ gw.ne.data # <<>>
                THEN Append(image, Head(gw.ne.data)) ELSE image
    /\ UNCHANGED <<call, sent, faults>>

Lost     == Cardinality(faults.lost) < MaxLost /\ faults' = [faults EXCEPT !.lost = @ \cup {Head(emit)}]
Doubled  == faults.repeated < MaxRepeated /\ faults' = [faults EXCEPT !.repeated = @ + 1]
Underway(d) == [n |-> sent, p |-> Head(emit), due |-> d, late |-> FALSE]
Late == [Underway(Jitter + 1) EXCEPT !.late = TRUE]

\* A packet takes its time and overtakes none; or is lost or late with all of
\* its copies; or comes a second time.
Send ==
    /\ emit # <<>>
    /\ emit' = Tail(emit) /\ sent' = sent + 1
    /\ \/ \E d \in 0 .. Jitter :
             /\ \A k \in net : k.late \/ k.due <= d
             /\ \/ net' = net \cup {Underway(d)} /\ UNCHANGED faults
                \/ net' = net \cup {Underway(d), Late} /\ Doubled
       \/ net' \in {net, net \cup {Late}} /\ Lost
    /\ UNCHANGED <<call, src, gw, heard, image>>

Receive ==
    /\ emit = <<>>
    /\ \E k \in net :
        /\ k.due = 0 /\ \A j \in net : j.due = 0 => k.n <= j.n
        /\ net' = net \ {k}
        /\ gw' = rx_ifp_packet(gw, (FirstSeq + k.n) % SeqSpace, k.p)
    /\ UNCHANGED <<call, src, emit, sent, heard, image, faults>>

Next == Tick \/ Send \/ Receive

Spec == Init /\ [][Next]_vars

\* Audio is asked for and packets arrive as time goes on.
FairSpec == Spec /\ WF_vars(Next)

-----------------------------------------------------------------------------
(* What the gateways promise.                                               *)

Whole(b, f) == [k \in 1 .. Script[b].frames[f].n |-> <<b, f, k>>]
ChunksOf(b) == FlattenSeq([f \in DOMAIN Script[b].frames |-> Whole(b, f)])
Fate(x)     == Script[x[1]].frames[x[2]].fate
Places      == {x \in (DOMAIN Script) \X Chunks : x[2] <= Len(Script[x[1]].frames)}

Good == SelectSeq(heard, LAMBDA h : h.good)
Before(c, d) == c[1] < d[1] \/ (c[1] = d[1] /\ (c[2] < d[2] \/ (c[2] = d[2] /\ c[3] < d[3])))

\* Bursts of V.21 of whose start the gateway was not told.
Unannounced == {p.at[1] : p \in {q \in faults.lost : q.kind = "indicator" /\ q.type = "V21"}}

\* Frames whose own end was lost, or never came.
EndLost == {p.at : p \in {q \in faults.lost : q.field \in FrameEnds \cup JointEnds}}
Endless == EndLost \cup {x \in Places : Fate(x) = "drop"}

\* What has come of a control frame is enough to start it.
Comes(x)   == Script[x[1]].frames[x[2]].n - (IF Fate(x) \in {"drop", "abort"} THEN CrcLen ELSE 0)
SetsOut(x) == Script[x[1]].type = "V21" /\ Comes(x) >= StartLevel

\* Bursts that leave the modem waiting for what will not come: the end of
\* unframed data was lost, or all that told of the end of a frame that had not
\* set out; or unframed data are so short, or so much of them was lost, that
\* their end finds no packet of them, or only one that had to stand in for the
\* indicator, and is taken for an end of framed data.
SpoiltImage == UNION {Range(p.data) : p \in faults.lost}
StoodIn(b) == Cardinality({p \in faults.lost : p.kind = "indicator" /\ p.type = "V17" /\ p.at[1] = b})
Stalled ==
    {p.at[1] : p \in {q \in faults.lost : \/ q.field = "T4_SIG_END"
                                          \/ q.field \in JointEnds /\ ~SetsOut(q.at)
                                          \/ q.field = "HDLC_SIG_END" /\ Fate(q.at) = "drop" /\ ~SetsOut(q.at)}}
    \cup {b \in DOMAIN Script : /\ ~Hdlc(Script[b].type)
                                /\ Cardinality(Range(Front(ChunksOf(b))) \ SpoiltImage) <= StoodIn(b)}

\* The queue, the transmitter and what was heard have their types.
TypeOK ==
    /\ {gw.in, gw.out} \subseteq 0 .. Bufs - 1 /\ gw.want \in -1 .. SeqSpace - 1
    /\ gw.class \in {"none", "hdlc", "non_ecm"} /\ gw.modem \in {"silence", "V21", "V17"}
    /\ gw.ind \in {"NO_SIGNAL", "V21", "V17"}
    /\ \A i \in 0 .. Bufs - 1 :
          /\ gw.buf[i].contents.is \in {"none", "indicator", "data"}
          /\ gw.buf[i].flags \subseteq {"missing", "proceed", "corrupt", "finished"}
    /\ gw.tx.flags \in 0 .. Preamble /\ gw.tx.pos \in 0 .. Len(gw.tx.data) /\ gw.tx.crc \in 0 .. CrcLen
    /\ \A k \in net : k.due \in 0 .. Jitter + 1

\* A control frame that set out before its end was known goes on to a good
\* CRC when the signal ends without it, whatever has come of it and of a frame
\* that ran into it.
StartedOn(d, x) ==
    /\ Script[x[1]].type = "V21" /\ x[2] = Len(Script[x[1]].frames)
    /\ Len(d) >= StartLevel /\ Last(d) \in Range(Whole(x[1], x[2]))
    /\ \A i, j \in DOMAIN d : i < j => d[i][1] = x[1] /\ Before(d[i], d[j])

\* What the far machine takes for a good frame is a frame that was good where
\* it came from, with all of its data and no other.  The gateway breaks this
\* in two ways: it plays on what it has started of the last control frame of a
\* burst when the end of that frame is lost or the carrier drops; and when an
\* indicator of V.21 is lost it throws away what has come of the first frame
\* as it starts the modem.
GoodFrameIsWhole ==
    \A i \in DOMAIN Good :
        LET d == Good[i].data
        IN  \/ \E x \in Places : Fate(x) = "ok" /\ d = Whole(x[1], x[2])
            \/ \E x \in Endless : StartedOn(d, x)
            \/ \E b \in Unannounced : IsSuffix(d, Whole(b, 1))

\* Frames come out in the order they went in, none twice, and each with the
\* modem it was sent with; so do unframed image data.
InOrderOnce ==
    /\ \A i, j \in DOMAIN Good : i < j => Before(Good[i].data[1], Good[j].data[1])
    /\ \A i, j \in DOMAIN image : i < j => Before(image[i], image[j])
    /\ \A i \in DOMAIN heard : Script[heard[i].data[1][1]].type = heard[i].modem

Frames(hdlc) == {x \in Places : Hdlc(Script[x[1]].type) = hdlc}
Missing == {x \in Frames(TRUE) : Fate(x) = "ok" /\ \A i \in DOMAIN Good : Good[i].data # Whole(x[1], x[2])}
MissingImage == UNION {Range(Whole(x[1], x[2])) : x \in Frames(FALSE)} \ Range(image)

\* What a lost packet touches: its frame and, when that was the end of it, the
\* one it runs into; with the indicator of V.21, the first frame; of unframed
\* data, its own chunk.
Spoilt ==
    UNION {{p.at} \cup (IF p.field = "HDLC_DATA" THEN {} ELSE {<<p.at[1], p.at[2] + 1>>}) :
             p \in {q \in faults.lost : q.field \in FrameEnds \cup {"HDLC_DATA"}}}
    \cup {<<b, 1>> : b \in Unannounced}

\* The damage a lost packet does is local: no frame and no image data are
\* missing at the end but those it touched.  An indicator of training or of
\* silence, and the end of a signal whose frames have ended, do no harm when
\* they are lost.  A burst that stalls the modem may take what follows along,
\* and nothing that came before.
DamageIsLocal ==
    <>[](/\ \A x \in Missing : x \in Spoilt \/ \E b \in Stalled : b <= x[1]
         /\ \A c \in MissingImage : c \in SpoiltImage \/ \E b \in Stalled : b <= c[1])

\* The gateway plays to the end what it was told, and then it is silent and
\* its queue empty, whichever packet is lost, unless a burst stalls its modem.
FallsSilent == <>[](Stalled # {} \/ (gw.modem = "silence" /\ gw.in = gw.out))
=============================================================================

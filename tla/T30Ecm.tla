------------------------------- MODULE T30Ecm -------------------------------
(***************************************************************************)
(* The image part of an error corrected FAX call (src/t30.c): a sender and *)
(* a receiver of T.30, from the CFR that starts the first page to the end  *)
(* of the call or the return to phase B after an EOM, and the half duplex  *)
(* line between them.                                                      *)
(*                                                                         *)
(* The line carries a frame in no time, or spoils it, or the other end     *)
(* does not notice the carrier at all.  Time passes while nobody signals,  *)
(* or while image data are sent, whose bursts may last minutes.            *)
(* The document is external: its frames are known by page, block, number.  *)
(* Left out: operator interrupts (PRI-x, PIN, PIP), FNV, SSL FAX, polling, *)
(* the frames before a DIS (NSF, CSI), statistics, frame lengths.          *)
(***************************************************************************)
EXTENDS T30Core

CONSTANTS Doc,           \* its pages: for each, the frames of its blocks
          EndSteps,      \* what may be said after the last page: EOP, EOM
          EcmFrames,     \* frames in a full block (256)
          PprLimit,      \* PPR_LIMIT_BEFORE_CTC_OR_EOR
          Fallbacks,     \* slower entries left in fallback_sequence
          Mod,           \* 0xFF + 1, for page and block numbers
          NotReady       \* argument of t30_set_receiver_not_ready; 0: no call

ASSUME T30EcmAssumption ==
    /\ EcmFrames \in Nat
    /\ Doc # <<>> /\ Doc \in Seq(Seq(1 .. EcmFrames)) /\ <<>> \notin {Doc[p] : p \in DOMAIN Doc}
    /\ EndSteps \subseteq {"EOP", "EOM"} /\ EndSteps # {}
    /\ {PprLimit, Fallbacks, NotReady} \subseteq Nat
    /\ Mod \in Nat \ {0, 1}

VARIABLE losses   \* of each kind, losses and calls of t30_set_receiver_not_ready

vars == <<t30, losses>>

Slots == 0 .. EcmFrames - 1
None  == <<>>
Empty == [i \in Slots |-> None]

start_receiving_document(x) == send_dis_or_dtc_sequence([x EXCEPT !.ecm_block = 0])

-----------------------------------------------------------------------------
(* The sender's blocks.  ecm_len holds, of the current block, the frames    *)
(* that are not yet known to have arrived; read counts the blocks taken     *)
(* from the page.                                                           *)

Blocks(x) == Doc[x.page + 1]
Content(x) == [i \in Slots |-> IF i < Blocks(x)[x.read + 1]
                               THEN <<x.page, x.read, i>> ELSE None]

get_partial_ecm_page(x) ==
    [x EXCEPT !.ppr_count = 0, !.progress = 0, !.ecm_len = Content(x),
              !.ecm_frames = Blocks(x)[x.read + 1], !.read = @ + 1,
              !.at_end = (x.read + 1 = Len(Blocks(x)))]

NextFrames(x) == {i \in x.cur .. x.ecm_frames - 1 : x.ecm_len[i] # None}
MoreEcmFrames(x) == NextFrames(x) # {} \/ x.cur < x.ecm_frames + 3

\* A frame that is still needed, or one of the three RCPs.
send_next_ecm_frame(x) ==
    IF NextFrames(x) # {}
    THEN LET i == Min(NextFrames(x))
         IN  [send_frame(x, [t |-> "FCD", no |-> i, data |-> x.ecm_len[i]])
                 EXCEPT !.cur = i + 1, !.burst = @ + 1]
    ELSE [send_simple_frame(x, "RCP")
             EXCEPT !.cur = Max({x.cur, x.ecm_frames}) + 1, !.short_train = TRUE]

send_first_ecm_frame(x) == send_next_ecm_frame([x EXCEPT !.cur = 0, !.burst = 0])
SendBlock(x) == send_first_ecm_frame(queue_phase(set_state(x, "IV"), "C_ECM_TX"))

send_pps_frame(x) ==
    send_frame(x, [t |-> "PPS", fcf2 |-> IF x.at_end THEN x.next_tx ELSE "NULL",
                   page |-> x.page % Mod, block |-> x.ecm_block % Mod, count |-> Max({1, x.burst})])

\* check_next_tx_step; more is what the application's document_handler says.
NextStep(x, more) == IF x.page + 1 < Len(Doc) THEN "MPS" ELSE more

send_rr(x) == IF x.status = "TX_T5EXP" THEN send_dcn(x) ELSE send_simple_frame(x, "RR")
SendRr(x, s) == send_rr(set_state(queue_phase(x, "D_TX"), s))

tx_end_page(x)   == [x EXCEPT !.retries = 0, !.page = @ + 1, !.ecm_block = 0]
tx_start_page(x) == [x EXCEPT !.ecm_block = 0, !.read = 0]

-----------------------------------------------------------------------------
(* Repetition and timers.                                                   *)

GiveUpStatus(x) == IF x.state \in {"IV_PPS_NULL", "IV_PPS_Q"} THEN "TX_PHDDEAD" ELSE "RETRYDCN"
SendPpr(x) == send_frame(x, [t |-> "PPR", map |-> x.map])

\* In the other states there is nothing to repeat.
Repetition(x) ==
    CASE x.state = "R" -> send_dis_or_dtc_sequence(queue_phase(x, "B_TX"))
      [] x.state \in {"IV_PPS_NULL", "IV_PPS_Q"} -> send_pps_frame(queue_phase(x, "D_TX"))
      [] x.state \in {"IV_PPS_RNR", "IV_EOR_RNR"} -> send_rr(queue_phase(x, "D_TX"))
      [] x.state = "F_POST_RCP_PPR" -> SendPpr(queue_phase(x, "D_TX"))
      [] x.state = "F_POST_RCP_MCF" -> send_simple_frame(queue_phase(x, "D_TX"), "MCF")
      [] OTHER -> x

\* Fault: repeats are not counted.
repeat_last_command_for_ever(x) == Repetition([x EXCEPT !.step = 0])
repeat_last_command(x) ==
    LET y == [x EXCEPT !.step = 0, !.retries = @ + 1]
    IN  IF y.t1 = 0 /\ y.retries >= MaxTries
        THEN send_dcn(set_status(y, GiveUpStatus(y))) ELSE Repetition(y)

T2Status(x) == CASE x.state = "F_DOC_ECM"      -> set_status(x, "RX_T2EXPFAX")
                 [] x.state = "F_POST_DOC_ECM" -> set_status(x, "RX_T2EXPMPS")
                 [] x.state \in {"IV_PPS_RNR", "IV_EOR_RNR"} -> set_status(x, "RX_T2EXPRR")
                 [] x.state = "R"              -> set_status(x, "RX_T2EXP")
                 [] OTHER                      -> x

\* After an EOM that was answered the call goes on in phase B.
timer_t2_expired(x) ==
    IF x.state \in {"F_POST_RCP_PPR", "F_POST_RCP_MCF"} /\ x.next_rx = "EOM"
    THEN BackToPhaseB(x)
    ELSE start_receiving_document(queue_phase(T2Status(x), "B_TX"))

t24_expired(x) ==
    LET y == [x EXCEPT !.t24 = 0, !.t24_is = "IDLE"]
    IN  CASE x.t24_is \in {"T2", "T2_DROPPED"} -> timer_t2_expired(y)
          [] x.t24_is \in {"T4", "T4_DROPPED"} -> repeat_last_command(y)
          [] OTHER -> terminate_call(set_status(y, "HDLC_CARRIER"))

timer_t5_expired(x) == set_status([x EXCEPT !.t5 = 0], "TX_T5EXP")

-----------------------------------------------------------------------------
(* What the sender does with an answer.                                     *)

NextPage(x) == SendBlock(get_partial_ecm_page(tx_start_page(tx_end_page(x))))

process_rx_mcf(x) ==
    LET y == [x EXCEPT !.retries = 0, !.t5 = 0]
    IN  CASE ~y.at_end -> SendBlock([get_partial_ecm_page(y) EXCEPT !.ecm_block = @ + 1])
          [] y.at_end /\ y.next_tx = "MPS" -> NextPage(y)
          [] y.at_end /\ y.next_tx = "EOM" -> return_to_phase_b(tx_end_page(y))
          [] y.at_end /\ y.next_tx = "EOP" -> send_dcn(tx_end_page(y))

SlowDown(x) ==
    LET y == [x EXCEPT !.fallback = @ + 1, !.progress = 0]
    IN  send_frame(set_state(queue_phase(y, "D_TX"), "IV_CTC"), [t |-> "CTC", fallback |-> y.fallback])

EndRetransmission(x) ==
    send_frame(queue_phase(set_state(x, "IV_EOR"), "D_TX"),
               [t |-> "EOR", fcf2 |-> IF x.at_end THEN x.next_tx ELSE "NULL"])

\* progress counts the frames that arrived since the block was first sent, or
\* since the last change of modem.
process_rx_ppr(x, f) ==
    LET done == {i \in Slots \ f.map : x.ecm_len[i] # None}
        y == [x EXCEPT !.retries = 0, !.progress = @ + Cardinality(done), !.ppr_count = @ + 1,
                       !.ecm_len = [i \in Slots |-> IF i \in f.map THEN @[i] ELSE None]]
        z == [y EXCEPT !.ppr_count = 0]
    IN  CASE y.ppr_count < PprLimit -> SendBlock(y)
          [] y.ppr_count >= PprLimit /\ y.progress > 0 /\ y.fallback < Fallbacks -> SlowDown(z)
          [] OTHER -> EndRetransmission(z)

process_rx_rnr(x, s) == SendRr(IF x.t5 = 0 THEN [x EXCEPT !.t5 = 1] ELSE x, s)

process_rx_err(x) == send_dcn([set_status(x, "RETRYDCN") EXCEPT !.t5 = 0])

process_state_iv_pps_null_or_q(x, f) ==
    CASE f.t = "MCF" -> process_rx_mcf(x)
      [] f.t = "RNR" -> process_rx_rnr(x, "IV_PPS_RNR")
      [] f.t = "PPR" -> process_rx_ppr(x, f)
      [] f.t = "DCN" -> terminate_call(set_status(x, "TX_BADPG"))
      [] OTHER       -> set_status(unexpected_final_frame(x), "TX_ECMPHD")

process_state_iv_pps_rnr(x, f) ==
    CASE f.t = "MCF" -> process_rx_mcf(x)
      [] f.t = "RNR" -> process_rx_rnr(x, "IV_PPS_RNR")
      [] f.t = "DCN" -> terminate_call(set_status(x, "RX_DCNRRD"))
      [] OTHER       -> unexpected_final_frame(x)

process_state_iv_ctc(x, f) ==
    IF f.t = "CTR" THEN SendBlock([x EXCEPT !.short_train = FALSE]) ELSE unexpected_final_frame(x)

process_state_iv_eor(x, f) ==
    CASE f.t = "RNR" -> process_rx_rnr(x, "IV_EOR_RNR")
      [] f.t = "ERR" -> process_rx_err(x)
      [] f.t = "DCN" /\ x.state = "IV_EOR_RNR" -> terminate_call(set_status(x, "RX_DCNRRD"))
      [] OTHER -> unexpected_final_frame(x)

\* A DIS takes the sender to the DCS of another phase B, where the model ends.
process_state_t(x, f) ==
    CASE f.t = "DIS" -> set_state(queue_phase(x, "B_TX"), "D")
      [] f.t = "DCN" -> terminate_call(set_status(x, "TX_GOTDCN"))
      [] OTHER       -> set_status(unexpected_final_frame(x), "TX_NODIS")

-----------------------------------------------------------------------------
(* What the receiver does with frames.  put is what it has handed to the    *)
(* T.4 decoder; page and ecm_block are what it expects next.                *)

\* Fault: the frames stay in the buffer.
ForgetCount(x) == [x EXCEPT !.ecm_frames = -1]
ClearBuffer(x) == [x EXCEPT !.ecm_len = Empty, !.ecm_frames = -1]

send_mcf(x) == send_simple_frame(set_state(queue_phase(x, "D_TX"), "F_POST_RCP_MCF"), "MCF")
send_rnr(x) ==
    send_simple_frame(set_state(queue_phase([x EXCEPT !.not_ready = @ - 1], "D_TX"),
                                "F_POST_RCP_RNR"), "RNR")

send_response_to_pps(x) ==
    IF x.block_ok THEN send_mcf([x EXCEPT !.eop = @ \/ x.last_pps = "EOP"])
    ELSE SendPpr(set_state(queue_phase(x, "D_TX"), "F_POST_RCP_PPR"))

Answer(x) == IF x.not_ready > 0 THEN send_rnr(x) ELSE send_response_to_pps(x)

\* Fault: a repeat is not expected after the last block of a page.
Previous_in_page(x, f) == f.page = x.page % Mod /\ f.block = (x.ecm_block - 1) % Mod
Expected(x, f) == f.page = x.page % Mod /\ f.block = x.ecm_block % Mod
Previous(x, f) == \/ f.page = x.page % Mod /\ f.block = (x.ecm_block - 1) % Mod
                  \/ f.page = (x.page - 1) % Mod /\ x.ecm_block = 0

\* The block is handed over, and after its last block the page ended.
Commit(x) ==
    LET y == ClearBuffer([x EXCEPT !.put = @ \o [i \in 1 .. x.ecm_frames |-> x.ecm_len[i - 1]],
                                   !.ecm_block = @ + 1])
    IN  IF y.last_pps = "NULL" THEN y
        ELSE [y EXCEPT !.next_rx = y.last_pps, !.page = @ + 1, !.ecm_block = 0]

\* The frame count of the first PPS of a block is believed.
process_rx_pps(x, f) ==
    LET y   == [x EXCEPT !.last_pps = f.fcf2, !.ecm_frames = IF @ < 0 THEN f.count ELSE @]
        bad == {i \in Slots : y.ecm_len[i] = None}
        z   == [y EXCEPT !.map = bad, !.block_ok = \A i \in bad : i >= y.ecm_frames]
    IN  CASE Expected(y, f) -> Answer(IF z.block_ok THEN Commit(z) ELSE z)
          [] ~Expected(y, f) /\ Previous(y, f) -> send_mcf(ClearBuffer(y))
          [] OTHER -> send_dcn(set_status(y, "RX_ECMPHD"))

process_rx_eor(x, f) ==
    send_simple_frame(set_state(queue_phase([x EXCEPT !.next_rx = f.fcf2], "D_TX"), "F_DOC_ECM"), "ERR")

\* Fault: the modem is not changed.
process_rx_ctc_same_modem(x, f) ==
    send_simple_frame(set_state(queue_phase([x EXCEPT !.short_train = FALSE], "D_TX"), "F_DOC_ECM"), "CTR")
process_rx_ctc(x, f) ==
    send_simple_frame(set_state(queue_phase([x EXCEPT !.fallback = f.fallback, !.short_train = FALSE],
                                            "D_TX"), "F_DOC_ECM"), "CTR")

process_state_f_doc_and_post_doc_ecm(x, f) ==
    CASE f.t = "PPS" -> process_rx_pps(x, f)
      [] f.t = "EOR" -> process_rx_eor(x, f)
      [] f.t = "CTC" -> process_rx_ctc(x, f)
      [] f.t = "RR"  -> x
      [] f.t = "DCN" -> terminate_call(set_status(x, "RX_DCNDATA"))
      [] OTHER       -> unexpected_final_frame(set_status(x, "RX_INVALCMD"))

process_state_f_post_rcp_mcf(x, f) ==
    IF f.t = "DCN" THEN terminate_call(x) ELSE unexpected_final_frame(x)

\* Fault: the deferred response is MCF whatever was received.
process_state_f_post_rcp_rnr_mcf(x, f) ==
    IF f.t = "RR" THEN send_mcf(x) ELSE unexpected_final_frame(x)
process_state_f_post_rcp_rnr(x, f) ==
    IF f.t = "RR" THEN Answer(x) ELSE unexpected_final_frame(x)

process_state_r(x, f) ==
    IF f.t = "DCN" THEN terminate_call(set_status(x, "RX_DCNWHY")) ELSE unexpected_final_frame(x)

process_state_b_or_c(x, f) == IF f.t = "DCN" THEN x ELSE unexpected_final_frame(x)

process_rx_fcd(x, f) ==
    IF x.state = "F_DOC_ECM"
    THEN CarrierFound([x EXCEPT !.ecm_len[f.no] = f.data, !.short_train = TRUE])
    ELSE unexpected(x)

EndOfBlock(x) == CarrierFound(start_timer(queue_phase(set_state(x, "F_POST_DOC_ECM"), "D_RX"), "T2"))

process_rx_rcp(x) ==
    CASE x.state = "F_DOC_ECM"      -> EndOfBlock(x)
      [] x.state = "F_POST_DOC_ECM" -> start_timer(x, "T2")
      [] OTHER                      -> unexpected(x)

-----------------------------------------------------------------------------
(* The calls of the front end.                                              *)

process_final_frame(x, f) ==
    IF f.t = "CRP" /\ x.state # "CALL_FINISHED" THEN repeat_last_command(x)
    ELSE CASE x.state \in {"F_DOC_ECM", "F_POST_DOC_ECM"} -> process_state_f_doc_and_post_doc_ecm(x, f)
           [] x.state = "F_POST_RCP_MCF" -> process_state_f_post_rcp_mcf(x, f)
           [] x.state = "F_POST_RCP_RNR" -> process_state_f_post_rcp_rnr(x, f)
           [] x.state = "R" -> process_state_r(x, f)
           [] x.state = "T" -> process_state_t(x, f)
           [] x.state \in {"B", "C"} -> process_state_b_or_c(x, f)
           [] x.state \in {"IV_PPS_NULL", "IV_PPS_Q"} -> process_state_iv_pps_null_or_q(x, f)
           [] x.state = "IV_PPS_RNR" -> process_state_iv_pps_rnr(x, f)
           [] x.state = "IV_CTC" -> process_state_iv_ctc(x, f)
           [] x.state \in {"IV_EOR", "IV_EOR_RNR"} -> process_state_iv_eor(x, f)
           [] x.state = "CALL_FINISHED" -> x
           [] x.state \in {"F_POST_RCP_PPR", "IV"} -> unexpected_final_frame(x)

\* t30_hdlc_accept, of a good frame.
hdlc_accept(x, f) ==
    LET y == timer_t2_t4_stop(x)
    IN  CASE f.t = "FCD" -> process_rx_fcd(y, f)
          [] f.t = "RCP" -> process_rx_rcp(y)
          [] OTHER       -> process_final_frame([y EXCEPT !.t1 = 0], f)

\* SIG_STATUS_CARRIER_DOWN.  Image data that ended without an RCP count as
\* ended if the modem had trained.
carrier_down(x) ==
    LET y == [x EXCEPT !.signal = "none"]
    IN  AfterCarrier(CASE x.state = "F_DOC_ECM" /\ x.signal = "trained" -> EndOfBlock(y)
                       [] x.state = "F_DOC_ECM" /\ x.signal # "trained" -> set_status(y, "RX_NOCARRIER")
                       [] OTHER -> y)

\* T30_FRONT_END_SEND_STEP_COMPLETE.  After its last frame a message takes one
\* more step, in which the HDLC transmitter is shut down.
OneFrame == {"IV_PPS_NULL", "IV_PPS_Q", "IV_PPS_RNR", "IV_EOR", "IV_EOR_RNR", "IV_CTC", "C", "R",
             "F_POST_RCP_RNR", "F_POST_RCP_PPR", "F_POST_RCP_MCF", "F_DOC_ECM"}
Handled == OneFrame \cup {"B", "IV"}

NextImage(x) == start_timer(queue_phase(set_state(x, "F_DOC_ECM"), "C_ECM_RX"), "T2")

MessageSent(x) ==
    CASE x.state = "R" -> Listen(x, "B_RX", "T4")
      [] x.state = "C" -> start_final_pause(x)
      [] x.state = "F_DOC_ECM" -> start_timer(queue_phase(x, "C_ECM_RX"), "T2")
      [] x.state \in {"F_POST_RCP_PPR", "F_POST_RCP_MCF"} ->
            CASE x.next_rx = "MPS" -> NextImage(x)
              [] x.next_rx = "EOM" -> Listen(x, "D_RX", "T2")
              [] x.next_rx = "EOP" -> Listen(x, "D_RX", "T4")
              [] OTHER -> terminate_call(x)
      [] OTHER -> Listen(x, "D_RX", "T4")

BlockSent(x, more) ==
    LET y == set_phase([x EXCEPT !.next_tx = IF x.at_end THEN NextStep(x, more) ELSE @], "D_TX")
    IN  set_state(send_pps_frame(y), IF y.at_end THEN "IV_PPS_Q" ELSE "IV_PPS_NULL")

send_step_complete(x, more) ==
    CASE x.state = "B" -> terminate_call(x)
      [] x.state = "IV" /\ x.step = 0 /\ MoreEcmFrames(x) -> send_next_ecm_frame(x)
      [] x.state = "IV" /\ x.step = 0 /\ ~MoreEcmFrames(x) -> [x EXCEPT !.step = 1]
      [] x.state = "IV" /\ x.step = 1 -> BlockSent(x, more)
      [] x.state \in OneFrame /\ x.step = 0 -> [x EXCEPT !.step = 1]
      [] x.state \in OneFrame /\ x.step # 0 -> MessageSent(x)

-----------------------------------------------------------------------------
(* The two ends as the CFR leaves them, and the line.                       *)

New == [state |-> "F_DOC_ECM", phase |-> "C_ECM_RX", next_phase |-> "IDLE", signal |-> "none",
        step |-> 0, t24 |-> T2, t24_is |-> "T2", t1 |-> 0, far |-> TRUE, t5 |-> 0, retries |-> 0,
        status |-> "OK", out |-> <<>>, ecm_len |-> Empty, ecm_frames |-> -1, ecm_block |-> 0,
        page |-> 0, read |-> 0, at_end |-> FALSE, burst |-> 0, cur |-> 0, ppr_count |-> 0,
        progress |-> 0, fallback |-> 0, short_train |-> TRUE, next_tx |-> "NULL",
        next_rx |-> "MPS", last_pps |-> "NULL", block_ok |-> FALSE, map |-> Slots,
        not_ready |-> 0, eop |-> FALSE, put |-> <<>>]

Init ==
    /\ t30 = [e \in {S, R} |->
                 IF e = R THEN New
                 ELSE SendBlock(timer_t2_t4_stop([get_partial_ecm_page(New) EXCEPT !.phase = "B_RX"]))]
    /\ losses = [image |-> 0, answer |-> 0, other |-> 0]

Over == t30[S].state = "D" \/ \A e \in {S, R} : t30[e].state = "CALL_FINISHED"

Class(k) == CASE k \in {"FCD", "RCP"} -> "image" [] k \in {"MCF", "PPR"} -> "answer" [] OTHER -> "other"
Lose(k) == /\ losses.image + losses.answer + losses.other < MaxLoss
           /\ losses' = [losses EXCEPT ![Class(k)] = @ + 1]

\* A carrier is noticed at its start or not at all.
Starts(x) == x.out # <<>> /\ (x.phase \in Slow \/ (Head(x.out).t = "FCD" /\ x.burst = 1))

SameModulation(x, p) == x.fallback = p.fallback /\ x.short_train = p.short_train

\* The start of a transmission is noticed.  The fast modem trains only if both
\* ends agree on the modem and on the kind of training.
CarrierUp(e) ==
    LET x == t30[e]  p == t30[Peer(e)]
    IN  /\ ~Over /\ Steady /\ Starts(x) /\ p.signal = "none" /\ Carrier(x) \in CanHear(p)
        /\ \/ /\ Carrier(x) = "slow"
              /\ t30' = [t30 EXCEPT ![Peer(e)] = framing_ok(carrier_up(p, "slow"))]
           \/ /\ Carrier(x) = "fast" /\ SameModulation(x, p)
              /\ t30' = [t30 EXCEPT ![Peer(e)] = framing_ok(carrier_up(p, "trained"))]
        /\ UNCHANGED losses

\* The image carrier comes, but the modem does not train to it.
TrainingFailed(e) ==
    LET x == t30[e]  p == t30[Peer(e)]
    IN  /\ ~Over /\ Steady /\ Starts(x) /\ p.signal = "none"
        /\ Carrier(x) = "fast" /\ "fast" \in CanHear(p)
        /\ t30' = [t30 EXCEPT ![Peer(e)] = carrier_up(p, "untrained")]
        /\ \/ ~SameModulation(x, p) /\ UNCHANGED losses
           \/ SameModulation(x, p) /\ "carrier" \in Lossy /\ Lose("carrier")

\* A frame goes over the line: it arrives, or is spoilt, or nobody listens.
Missed(x, p) == Starts(x) /\ Carrier(x) \in CanHear(p) /\ p.signal = "none"
Sent(e, p) == t30' = [t30 EXCEPT ![e].out = Tail(@), ![Peer(e)] = p]

Transmit(e) ==
    LET x == t30[e]  p == t30[Peer(e)]
    IN  /\ ~Over /\ Steady /\ Sending(x) /\ x.out # <<>>
        /\ \/ Listens(e) /\ Sent(e, hdlc_accept(p, Head(x.out))) /\ UNCHANGED losses
           \/ Listens(e) /\ Head(x.out).t \in Lossy /\ Sent(e, hdlc_accept_bad(p)) /\ Lose(Head(x.out).t)
           \/ ~Listens(e) /\ ~Missed(x, p) /\ Sent(e, p) /\ UNCHANGED losses
           \/ ~Listens(e) /\ Missed(x, p) /\ "carrier" \in Lossy /\ Sent(e, p) /\ Lose("carrier")

CarrierDown(e) ==
    /\ ~Over /\ Dropped(e)
    /\ t30' = [t30 EXCEPT ![e] = carrier_down(@)]
    /\ UNCHANGED losses

SendStepComplete(e) ==
    /\ ~Over /\ Steady /\ (Sending(t30[e]) \/ t30[e].phase = "E")
    /\ t30[e].out = <<>> /\ t30[e].state \in Handled
    /\ \E more \in EndSteps : t30' = [t30 EXCEPT ![e] = send_step_complete(@, more)]
    /\ UNCHANGED losses

FullBlockSent(x) == x.burst = EcmFrames /\ x.cur > x.ecm_frames

\* What an end sends is over before a timer could expire, except image data
\* that nobody hears, and a full block of which no frame has been good.
Signalling(e) ==
    LET x == t30[e]  p == t30[Peer(e)]
    IN  \/ x.phase \in Slow \cup {"E"} /\ (x.out # <<>> \/ x.state \in Handled)
        \/ x.phase = "C_ECM_TX" /\ Starts(x)
        \/ x.phase = "C_ECM_TX" /\ p.signal = "trained" /\ ~(p.t24_is = "T1A" /\ FullBlockSent(x))

Expire(e) ==
    LET x == Later(t30[e], NextExpiry)
        After(y) == t30' = [t30 EXCEPT ![e] = y, ![Peer(e)] = Later(@, NextExpiry)]
    IN  /\ ~Over /\ Steady /\ Running(t30[e]) # {} /\ ~\E i \in {S, R} : Signalling(i)
        /\ \/ x.t24 = 1 /\ After(t24_expired(x))
           \/ x.t1 = 1  /\ After(timer_t0_t1_expired(x))
        /\ UNCHANGED losses

ExpireT5(e) ==
    /\ ~Over /\ t30[e].t5 = 1
    /\ t30' = [t30 EXCEPT ![e] = timer_t5_expired(@)]
    /\ UNCHANGED losses

\* t30_set_receiver_not_ready.
SetNotReady ==
    /\ ~Over /\ NotReady > 0 /\ t30[R].not_ready = 0 /\ t30[R].state \in {"F_DOC_ECM", "F_POST_DOC_ECM"}
    /\ t30' = [t30 EXCEPT ![R].not_ready = NotReady]
    /\ Lose("busy")

HangUp(e) ==
    /\ ~Over /\ t30[Peer(e)].state = "CALL_FINISHED" /\ t30[e].state # "CALL_FINISHED"
    /\ t30' = [t30 EXCEPT ![e] = terminate(@)]
    /\ UNCHANGED losses

Next == \/ SetNotReady
        \/ \E e \in {S, R} :
            \/ CarrierUp(e) \/ TrainingFailed(e) \/ Transmit(e) \/ CarrierDown(e)
            \/ SendStepComplete(e) \/ Expire(e) \/ ExpireT5(e) \/ HangUp(e)

Spec == Init /\ [][Next]_vars

\* The front end runs whenever the line or a clock has something for it.
FairSpec == Spec /\ WF_vars(Next)

-----------------------------------------------------------------------------
(* What the code promises.                                                  *)

Block(p, b) == [i \in 1 .. Doc[p][b] |-> <<p - 1, b - 1, i - 1>>]
Page(p)     == FlattenSeq([b \in DOMAIN Doc[p] |-> Block(p, b)])
Document    == FlattenSeq([p \in DOMAIN Doc |-> Page(p)])

\* A page and block number, and those of the block that follows.
Place(x) == <<x.page, x.ecm_block>>
After(x) == IF x.ecm_block + 1 < Len(Blocks(x)) THEN <<x.page, x.ecm_block + 1>> ELSE <<x.page + 1, 0>>

Receiving(x) == x.state \in {"F_DOC_ECM", "F_POST_DOC_ECM", "F_POST_RCP_PPR",
                             "F_POST_RCP_RNR", "F_POST_RCP_MCF"}

Frames == Range(Document) \cup {None}

\* The ends keep to their states, buffers and counts.
TypeOK ==
    /\ losses \in [image : 0 .. MaxLoss, answer : 0 .. MaxLoss, other : 0 .. MaxLoss]
    /\ \A e \in {S, R} :
          LET x == t30[e]
          IN  /\ x.state \in Handled \cup {"F_POST_DOC_ECM", "T", "D", "CALL_FINISHED"}
              /\ {x.phase, x.next_phase} \subseteq Slow \cup
                    {"IDLE", "C_ECM_TX", "C_ECM_RX", "B_RX", "D_RX", "E", "CALL_FINISHED"}
              /\ x.signal \in {"none", "slow", "trained", "untrained"}
              /\ x.step \in 0 .. 1 /\ Len(x.out) <= 1
              /\ x.ecm_len \in [Slots -> Frames] /\ x.ecm_frames \in -1 .. EcmFrames
              /\ x.page \in 0 .. Len(Doc) /\ x.cur \in 0 .. EcmFrames + 3
              /\ x.retries \in Nat /\ x.ppr_count \in 0 .. PprLimit
              /\ x.fallback \in 0 .. Fallbacks /\ x.not_ready \in 0 .. NotReady
              /\ x.t24 \in 0 .. T1 /\ x.t1 \in 0 .. T1 /\ x.t5 \in 0 .. 1

\* What the T.4 decoder is given is the document as far as it goes: no frame
\* of an earlier block left in the buffer, none missing, none twice.
DeliveredInOrder == IsPrefix(t30[R].put, Document)

\* The ends agree on the block under way, except that the receiver may have
\* taken it while its answer is still to come.
SamePlace ==
    Receiving(t30[R]) => \/ Place(t30[R]) = Place(t30[S])
                         \/ t30[S].page < Len(Doc) /\ Place(t30[R]) = After(t30[S])

\* While both ends work on a block, what the receiver stored is of that block,
\* and what it lacks the sender still has: PPRs, repeats and changes of modem
\* never make a frame unobtainable.
NothingForgotten ==
    LET x == t30[S]  y == t30[R]
    IN  Receiving(y) /\ x.page < Len(Doc) /\ Place(x) = Place(y) =>
            \A i \in Slots :
                /\ y.ecm_len[i] \in {None, <<x.page, x.ecm_block, i>>}
                /\ y.ecm_len[i] = None /\ i < Doc[x.page + 1][x.ecm_block + 1] => x.ecm_len[i] # None

\* Image data are sent by the modem the receiver listens with, a CTC and all
\* that may be lost around it notwithstanding.
SameModem == t30[S].phase = "C_ECM_TX" /\ t30[R].phase = "C_ECM_RX" => t30[S].fallback = t30[R].fallback

\* The two ends never drift apart: no answer is taken for one to another
\* block, no frame stored for one of another, and both use the same modem.
LockStep == SamePlace /\ NothingForgotten /\ SameModem

\* An end that finishes without an error, and a sender that goes on to another
\* document, did so because the receiver has the whole of this one.
GoodEndMeansWhole ==
    \A e \in {S, R} :
        \/ t30[e].state = "CALL_FINISHED" /\ t30[e].status = "OK"
        \/ t30[e].state \in {"T", "D"}
        => t30[R].put = Document

\* Whatever is lost, no end waits for ever: the call ends, or goes on to the
\* next document.
CallEnds == <>Over

\* If the line spoils no more than one frame of image data and one answer to a
\* PPS, the whole document arrives.
Bearable == losses.image <= 1 /\ losses.answer <= 1 /\ losses.other = 0
WholeDocumentArrives == <>(t30[R].put = Document \/ ~Bearable)
=============================================================================

------------------------------ MODULE T30NonEcm ------------------------------
(***************************************************************************)
(* A FAX call without error correction (src/t30.c), from the dialled call  *)
(* to its end: phase A, the exchange of DIS and DCS, the trainability test *)
(* (TCF) with its fallback to slower modems, pages of judged quality with  *)
(* MCF, RTP and RTN, and the return to phase B where the format changes.   *)
(*                                                                         *)
(* The document is external: of a page its number and format are known,    *)
(* and how good the image that arrives of it is.  Left out: operator       *)
(* interrupts, polling, FNV, SSL FAX, the frames before a DIS or DCS, bad  *)
(* pages that are kept, echoes, calls without TCF, and clicks taken for    *)
(* the start of a training.                                                *)
(***************************************************************************)
EXTENDS T30Core

CONSTANTS Doc,           \* the formats of its pages
          Fallbacks,     \* slower entries left in fallback_sequence
          Capable        \* what t30_set_retransmit_capable may have said

ASSUME T30NonEcmAssumption ==
    Doc # <<>> /\ Fallbacks \in Nat /\ Capable \subseteq BOOLEAN /\ Capable # {}

VARIABLE losses   \* of each kind, how many

vars == <<t30, losses>>

None == <<>>

-----------------------------------------------------------------------------
(* Fast data: training, and then a TCF or the image of a page.  page counts *)
(* the pages before the one being sent, confirmed those that were ended,    *)
(* start is where the next document (t4_tx_init) begins.                    *)

SendData(x, d) == [x EXCEPT !.out = <<[t |-> "TRAIN"], d>>]
SendPage(x) == SendData(queue_phase(set_state(x, "I"), "C_NON_ECM_TX"), [t |-> "IMAGE", page |-> x.page])

send_dcs_sequence(x) == send_frame(set_state(x, "D"), [t |-> "DCS", fallback |-> x.fallback])

CanStepDown(x) == x.fallback < Fallbacks
step_fallback_entry(x) == [x EXCEPT !.fallback = IF CanStepDown(x) THEN @ + 1 ELSE 0]

\* Training with the next slower modem, or the end of the call.
restart_sending_document(x) == send_dcs_sequence([x EXCEPT !.retries = 0])
Retrain(x) == IF CanStepDown(x)
              THEN restart_sending_document(queue_phase(step_fallback_entry(x), "B_TX"))
              ELSE send_dcn(set_status(step_fallback_entry(x), "CANNOT_TRAIN"))

tx_end_page(x) == [x EXCEPT !.retries = 0, !.page = @ + 1, !.confirmed = @ + 1]

NextStep(x) == CASE x.page + 1 = Len(Doc) -> "EOP"
                 [] x.page + 1 < Len(Doc) /\ Doc[x.page + 1] = Doc[x.page + 2] -> "MPS"
                 [] OTHER -> "EOM"
check_next_tx_step(x) ==
    [x EXCEPT !.next_tx = NextStep(x), !.start = IF NextStep(x) = "EOM" THEN x.page + 1 ELSE @]

-----------------------------------------------------------------------------
(* Repetition and timers.                                                   *)

GiveUpStatus(x) == CASE x.state = "D_POST_TCF" -> "TX_PHBDEAD" [] x.state = "II_Q" -> "TX_PHDDEAD"
                     [] OTHER -> "RETRYDCN"

\* In the other states there is nothing to repeat.
Repetition(x) ==
    CASE x.state = "R"     -> send_dis_or_dtc_sequence(queue_phase(x, "B_TX"))
      [] x.state \in {"F_DOC_NON_ECM", "III_Q"} -> send_simple_frame(queue_phase(x, "D_TX"), x.last_result)
      [] x.state = "II_Q"  -> send_simple_frame(queue_phase(x, "D_TX"), x.next_tx)
      [] x.state \in {"D", "D_POST_TCF"} ->
            send_dcs_sequence(queue_phase(IF x.state = "D" THEN x ELSE [x EXCEPT !.short_train = FALSE], "B_TX"))
      [] x.state = "F_FTT" -> send_simple_frame(queue_phase(x, "B_TX"), "FTT")
      [] x.state = "F_CFR" -> send_simple_frame(queue_phase(x, "B_TX"), "CFR")
      [] OTHER -> x

\* Fault: repeats are not counted.
repeat_last_command_for_ever(x) == Repetition([x EXCEPT !.step = 0])
repeat_last_command(x) ==
    LET y == [x EXCEPT !.step = 0, !.retries = @ + 1]
    IN  IF y.t1 = 0 /\ y.retries >= MaxTries
        THEN send_dcn(set_status(y, GiveUpStatus(y))) ELSE Repetition(y)

RefuseTraining(x) == send_simple_frame(set_state(set_phase(x, "B_TX"), "F_FTT"), "FTT")

T2Status(x) == CASE x.state = "F_DOC_NON_ECM"      -> set_status(x, "RX_T2EXPFAX")
                 [] x.state = "F_POST_DOC_NON_ECM" -> set_status(x, "RX_T2EXPMPS")
                 [] x.state = "R"                  -> set_status(x, "RX_T2EXP")
                 [] OTHER                          -> x

timer_t2_expired(x) ==
    CASE x.state = "III_Q" /\ x.next_rx = "EOM" -> BackToPhaseB(x)
      [] x.state = "F_TCF" -> RefuseTraining(x)
      [] OTHER -> send_dis_or_dtc_sequence(queue_phase(T2Status(x), "B_TX"))

t24_expired(x) ==
    LET y == [x EXCEPT !.t24 = 0, !.t24_is = "IDLE"]
    IN  CASE x.t24_is \in {"T2", "T2_DROPPED"} -> timer_t2_expired(y)
          [] x.t24_is \in {"T4", "T4_DROPPED"} -> repeat_last_command(y)
          [] OTHER -> terminate_call(set_status(y, "HDLC_CARRIER"))

-----------------------------------------------------------------------------
(* What the sender does with a frame.                                       *)

\* The document is opened anew, at start.
process_rx_dis_dtc(x) ==
    send_dcs_sequence([queue_phase(x, "B_TX") EXCEPT !.fallback = 0, !.page = x.start, !.retries = 0])

process_state_t(x, f) ==
    CASE f.t = "DIS" -> process_rx_dis_dtc(x)
      [] f.t = "DCN" -> terminate_call(set_status(x, "TX_GOTDCN"))
      [] OTHER       -> set_status(unexpected_final_frame(x), "TX_NODIS")

\* The far end may not have seen the TCF, and send a DIS once more.
RetryDcs(x) ==
    LET y == [x EXCEPT !.retries = @ + 1]
    IN  IF y.retries >= MaxTries THEN send_dcn(set_status(y, "RETRYDCN"))
        ELSE send_dcs_sequence(queue_phase(y, "B_TX"))

process_state_d_post_tcf(x, f) ==
    CASE f.t = "CFR" -> SendPage([x EXCEPT !.retries = 0, !.short_train = TRUE])
      [] f.t = "FTT" -> Retrain([x EXCEPT !.retries = 0, !.short_train = FALSE])
      [] f.t = "DIS" -> RetryDcs(x)
      [] f.t = "DCN" -> terminate_call(set_status(x, "TX_BADDCS"))
      [] OTHER       -> unexpected_final_frame(x)

process_rx_mcf(x) ==
    LET y == tx_end_page(x)
    IN  CASE x.next_tx = "MPS" -> SendPage(y)
          [] x.next_tx = "EOM" -> return_to_phase_b(y)
          [] x.next_tx = "EOP" -> send_dcn(y)

\* The page is kept, but the modem was not good enough.
process_rx_rtp(x) ==
    LET y == tx_end_page(x)
    IN  CASE x.next_tx = "MPS" -> Retrain(y)
          [] x.next_tx = "EOM" -> return_to_phase_b(y)
          [] x.next_tx = "EOP" -> send_dcn(y)

\* The page was refused.  After an EOM a capable sender waits for a DIS.  The
\* page that tx_start_page starts, when it is not capable, is this one again.
\* Fault: the page counts as sent.
process_rx_rtn_ended(x) == process_rx_rtp(x)
process_rx_rtn(x) ==
    LET y == [x EXCEPT !.retries = 0]
    IN  CASE x.next_tx = "MPS" -> Retrain(y)
          [] x.next_tx = "EOM" -> IF x.retransmit THEN y ELSE return_to_phase_b(y)
          [] x.next_tx = "EOP" /\ x.retransmit -> Retrain(y)
          [] x.next_tx = "EOP" /\ ~x.retransmit ->
                send_dcn(IF x.confirmed = 0 THEN set_status(y, "RETRYDCN") ELSE y)

process_state_ii_q(x, f) ==
    CASE f.t = "MCF" -> process_rx_mcf(x)
      [] f.t = "RTP" -> process_rx_rtp(x)
      [] f.t = "RTN" -> process_rx_rtn(x)
      [] f.t = "DCN" -> terminate_call(set_status(x, IF x.next_tx = "EOP" THEN "TX_BADPG" ELSE "RX_DCNPHD"))
      [] OTHER       -> unexpected_final_frame(set_status(x, "TX_INVALRSP"))

process_state_d(x, f) ==
    IF f.t = "DCN" THEN terminate_call(set_status(x, "TX_BADDCS")) ELSE unexpected_final_frame(x)

-----------------------------------------------------------------------------
(* What the receiver does with a frame.                                     *)

process_rx_dcs(x, f) ==
    start_timer(queue_phase(set_state([x EXCEPT !.fallback = f.fallback, !.short_train = FALSE], "F_TCF"),
                            "C_NON_ECM_RX"), "T2")

\* A page of poor quality is kept, a bad one is not.
Quality(x)     == IF x.image = None THEN "bad" ELSE x.image[2]
rx_end_page(x) == [x EXCEPT !.pages = Append(@, x.image[1])]
rx_start_page(x) == [x EXCEPT !.image = None]
PageResult(x)  == CASE Quality(x) = "good" -> "MCF" [] Quality(x) = "poor" -> "RTP" [] OTHER -> "RTN"
SendResult(x, r) == send_simple_frame(set_state([x EXCEPT !.last_result = r], "III_Q"), r)

\* Fault: a bad page is kept too.
assess_copy_quality_keeping(x) ==
    SendResult(rx_start_page(IF x.image = None THEN x ELSE rx_end_page(x)), PageResult(x))
assess_copy_quality(x) ==
    SendResult(rx_start_page(IF Quality(x) = "bad" THEN x ELSE rx_end_page(x)), PageResult(x))

PageEnds    == {"MPS", "EOM", "EOP"}
AnswerPhase(f) == IF f.t = "EOM" THEN "B_TX" ELSE "D_TX"
EndOfPage(x, f) == queue_phase([x EXCEPT !.next_rx = f.t], AnswerPhase(f))

\* Without any image: the training failed, or the message is a repeat.
\* Fault: a repeat is taken for a page that did not come.
NoImage_assess(x, f) == SendResult(EndOfPage(x, f), "RTN")
\* Fault: a DCS, sent again because the CFR was lost, is refused.
process_state_f_doc_non_ecm_no_dcs(x, f) ==
    CASE f.t \in PageEnds -> IF x.attempted THEN SendResult(EndOfPage(x, f), "RTN") ELSE repeat_last_command(x)
      [] f.t = "DCN" -> terminate_call(set_status(x, "RX_DCNDATA"))
      [] OTHER       -> unexpected_final_frame(set_status(x, "RX_INVALCMD"))
NoImage(x, f) == IF x.attempted THEN SendResult(EndOfPage(x, f), "RTN") ELSE repeat_last_command(x)
process_state_f_doc_non_ecm(x, f) ==
    CASE f.t = "DCS" -> process_rx_dcs(x, f)
      [] f.t \in PageEnds -> NoImage(x, f)
      [] f.t = "DCN" -> terminate_call(set_status(x, "RX_DCNDATA"))
      [] OTHER       -> unexpected_final_frame(set_status(x, "RX_INVALCMD"))

process_state_f_post_doc_non_ecm(x, f) ==
    CASE f.t \in PageEnds -> assess_copy_quality(EndOfPage([x EXCEPT !.eop = @ \/ f.t = "EOP"], f))
      [] f.t = "DCS" -> process_rx_dcs(x, f)
      [] f.t = "DCN" -> terminate_call(set_status(x, "RX_DCNFAX"))
      [] OTHER       -> unexpected_final_frame(set_status(x, "RX_INVALCMD"))

process_state_iii_q(x, f) ==
    CASE f.t \in PageEnds -> SendResult(queue_phase(x, "D_TX"), x.last_result)
      [] f.t = "DCN" -> terminate_call(IF x.last_result = "RTN" THEN set_status(x, "RX_DCNNORTN") ELSE x)
      [] OTHER       -> unexpected_final_frame(x)

process_state_f_cfr_or_ftt(x, f) == IF f.t = "DCS" THEN process_rx_dcs(x, f) ELSE unexpected_final_frame(x)

process_state_r(x, f) ==
    CASE f.t = "DCS" -> process_rx_dcs(x, f)
      [] f.t = "DCN" -> terminate_call(set_status(x, "RX_DCNWHY"))
      [] OTHER       -> unexpected_final_frame(x)

process_state_b_or_c(x, f) == IF f.t = "DCN" THEN x ELSE unexpected_final_frame(x)

-----------------------------------------------------------------------------
(* The calls of the front end.                                              *)

process_final_frame(x, f) ==
    IF f.t = "CRP" /\ x.state # "CALL_FINISHED" THEN repeat_last_command(x)
    ELSE CASE x.state = "F_DOC_NON_ECM" -> process_state_f_doc_non_ecm(x, f)
           [] x.state = "F_POST_DOC_NON_ECM" -> process_state_f_post_doc_non_ecm(x, f)
           [] x.state = "III_Q" -> process_state_iii_q(x, f)
           [] x.state \in {"F_CFR", "F_FTT"} -> process_state_f_cfr_or_ftt(x, f)
           [] x.state = "R" -> process_state_r(x, f)
           [] x.state = "T" -> process_state_t(x, f)
           [] x.state = "D" -> process_state_d(x, f)
           [] x.state = "D_POST_TCF" -> process_state_d_post_tcf(x, f)
           [] x.state = "II_Q" -> process_state_ii_q(x, f)
           [] x.state \in {"B", "C"} -> process_state_b_or_c(x, f)
           [] x.state = "CALL_FINISHED" -> x
           [] x.state \in {"F_TCF", "D_TCF", "I"} -> unexpected_final_frame(x)

\* t30_hdlc_accept, of a good frame.
hdlc_accept(x, f) == process_final_frame([timer_t2_t4_stop(x) EXCEPT !.t1 = 0], f)

\* t30_non_ecm_rx_status: the modem trains, or fails to.
training_succeeded(x) == [timer_t2_t4_stop(x) EXCEPT !.signal = "trained", !.attempted = TRUE, !.tcf = FALSE]
training_failed(x)    == [x EXCEPT !.signal = "untrained", !.attempted = TRUE]

\* t30_non_ecm_put, of a TCF of which enough is zero or not, and of an image
\* in which the end of the page is recognised or not.
ImageEnded(x) == start_timer(queue_phase(set_state(x, "F_POST_DOC_NON_ECM"), "D_RX"), "T2")

put_tcf(x, good) == IF x.state = "F_TCF" THEN [x EXCEPT !.tcf = good] ELSE x
put_image(x, page, quality, ended) ==
    IF x.state # "F_DOC_NON_ECM" THEN x
    ELSE LET y == [x EXCEPT !.image = <<page, quality>>] IN IF ended THEN ImageEnded(y) ELSE y

\* Only a test that was seen is answered.
CfrStarts(x) == send_simple_frame(set_state(set_phase(x, "B_TX"), "F_CFR"), "CFR")
tcf_over(x, trained) ==
    CASE ~trained -> x
      [] trained /\ ~x.tcf -> RefuseTraining(x)
      [] trained /\ x.tcf  -> CfrStarts(rx_start_page([x EXCEPT !.short_train = TRUE]))

non_ecm_carrier_down(x) ==
    LET trained == x.signal = "trained"
        y == [x EXCEPT !.signal = "none"]
        z == CASE x.state = "F_TCF" -> tcf_over(y, trained)
               [] x.state = "F_POST_DOC_NON_ECM" -> CarrierFound(y)
               [] x.state \notin {"F_TCF", "F_POST_DOC_NON_ECM"} /\ trained ->
                     CarrierFound(Listen(set_state(y, "F_POST_DOC_NON_ECM"), "D_RX", "T2"))
               [] OTHER -> set_status(y, "RX_NOCARRIER")
    IN  IF z.next_phase # "IDLE" THEN set_phase(z, z.next_phase) ELSE z

carrier_down(x) == IF x.signal = "slow" THEN AfterCarrier([x EXCEPT !.signal = "none"])
                   ELSE non_ecm_carrier_down(x)

\* T30_FRONT_END_SEND_STEP_COMPLETE.  After its last frame a message takes one
\* more step, in which the HDLC transmitter is shut down.
OneFrame == {"R", "F_CFR", "F_FTT", "F_DOC_NON_ECM", "III_Q", "II_Q", "C", "D"}
Handled  == OneFrame \cup {"ANSWERING", "B", "D_TCF", "I"}

NextImage(x) == start_timer(queue_phase(set_state([x EXCEPT !.attempted = FALSE], "F_DOC_NON_ECM"),
                                        "C_NON_ECM_RX"), "T2")
CfrSent(x)   == [NextImage([x EXCEPT !.last_result = "none"]) EXCEPT !.next_rx = "MPS"]
DcsSent(x)   == SendData(set_phase(set_state([x EXCEPT !.short_train = FALSE], "D_TCF"), "C_NON_ECM_TX"), [t |-> "TCF"])
PageSent(x)  == LET y == set_state(set_phase(check_next_tx_step(x), "D_TX"), "II_Q")
                IN  send_simple_frame(y, y.next_tx)

MessageSent(x) ==
    CASE x.state = "R"     -> Listen(x, "B_RX", "T4")
      [] x.state = "C"     -> start_final_pause(x)
      [] x.state = "D"     -> DcsSent(x)
      [] x.state = "F_CFR" -> CfrSent(x)
      [] x.state = "F_FTT" -> Listen(x, "B_RX", "T2")
      [] x.state = "II_Q"  -> Listen(x, "D_RX", "T4")
      [] x.state \in {"F_DOC_NON_ECM", "III_Q"} ->
            CASE x.next_rx = "MPS" -> NextImage(x)
              [] x.next_rx = "EOM" -> Listen(x, "D_RX", "T2")
              [] x.next_rx = "EOP" -> Listen(x, "D_RX", "T4")

send_step_complete(x) ==
    CASE x.state = "ANSWERING" -> send_dis_or_dtc_sequence(start_timer(set_phase(x, "B_TX"), "T2"))
      [] x.state = "B"     -> terminate_call(x)
      [] x.state = "D_TCF" -> set_state(Listen(x, "B_RX", "T4"), "D_POST_TCF")
      [] x.state = "I"     -> PageSent(x)
      [] x.state \in OneFrame /\ x.step = 0 -> [x EXCEPT !.step = 1]
      [] x.state \in OneFrame /\ x.step # 0 -> MessageSent(x)

-----------------------------------------------------------------------------
(* The two ends as t30_restart leaves them, and the line.                   *)

New(state, phase, capable) ==
    [state |-> state, phase |-> phase, next_phase |-> "IDLE", signal |-> "none", step |-> 0,
     t24 |-> 0, t24_is |-> "IDLE", t1 |-> T0, far |-> FALSE, t5 |-> 0, retries |-> 0, status |-> "OK",
     out |-> <<>>, eop |-> FALSE, fallback |-> 0, short_train |-> FALSE, retransmit |-> capable,
     page |-> 0, start |-> 0, confirmed |-> 0, next_tx |-> "none", next_rx |-> "none",
     last_result |-> "none", attempted |-> FALSE, tcf |-> FALSE, image |-> None, pages |-> <<>>]

Init ==
    /\ \E c \in Capable : t30 = [e \in {S, R} |-> IF e = S THEN New("T", "A_CNG", c) ELSE New("ANSWERING", "A_CED", c)]
    /\ losses = [answer |-> 0, tcf |-> 0, image |-> 0, unseen |-> 0, other |-> 0]

Over == \A e \in {S, R} : t30[e].state = "CALL_FINISHED"

Lose(k) == /\ MapThenSumSet(LAMBDA i : losses[i], DOMAIN losses) < MaxLoss
           /\ losses' = [losses EXCEPT ![k] = @ + 1]

\* A loss the code should bear is counted apart: of an answer, of enough zeros,
\* of the quality of a page, if a poor one or one that can be sent again.
Answers  == {"CFR", "FTT", "MCF", "RTP", "RTN"}
Class(t) == IF t \in Answers THEN "answer" ELSE "other"
PageClass(x, quality) == IF quality = "poor" \/ NextStep(x) = "MPS" THEN "image" ELSE "other"
DataClass(x) == IF x.state = "I" THEN "unseen" ELSE "other"

\* A carrier is noticed at its start or not at all.
Starts(x) == x.out # <<>> /\ (x.phase \in Slow \/ Head(x.out).t = "TRAIN")
Noticeable(x, p) == Starts(x) /\ Carrier(x) \in CanHear(p) /\ p.signal = "none"

CarrierUp(e) ==
    LET x == t30[e]  p == t30[Peer(e)]
    IN  /\ ~Over /\ Steady /\ Noticeable(x, p)
        /\ \/ /\ Carrier(x) = "slow"
              /\ t30' = [t30 EXCEPT ![Peer(e)] = framing_ok(carrier_up(p, "slow"))]
           \/ /\ Carrier(x) = "fast" /\ x.fallback = p.fallback
              /\ t30' = [t30 EXCEPT ![Peer(e)] = training_succeeded(p)]
        /\ UNCHANGED losses

\* The modem does not train: it is another one, or another kind of training.
TrainingFailed(e) ==
    LET x == t30[e]  p == t30[Peer(e)]
        same == x.fallback = p.fallback /\ x.short_train = p.short_train
    IN  /\ ~Over /\ Steady /\ Noticeable(x, p) /\ Carrier(x) = "fast"
        /\ t30' = [t30 EXCEPT ![Peer(e)] = training_failed(p)]
        /\ \/ ~same /\ UNCHANGED losses
           \/ same /\ "carrier" \in Lossy /\ Lose("other")

\* A frame, a TCF or a page goes over the line, whole or spoilt, or nobody
\* listens.  What follows a carrier that was missed nobody hears.
Sent(e, p) == t30' = [t30 EXCEPT ![e].out = Tail(@), ![Peer(e)] = p]

TransmitFrame(e) ==
    LET x == t30[e]  p == t30[Peer(e)]  f == Head(x.out)
    IN  /\ ~Over /\ Steady /\ x.phase \in Slow /\ x.out # <<>> /\ Listens(e)
        /\ \/ Sent(e, hdlc_accept(p, f)) /\ UNCHANGED losses
           \/ f.t \in Lossy /\ Sent(e, hdlc_accept_bad(p)) /\ Lose(Class(f.t))

TransmitData(e) ==
    LET x == t30[e]  p == t30[Peer(e)]  d == Head(x.out)
    IN  /\ ~Over /\ Steady /\ x.phase = "C_NON_ECM_TX" /\ x.out # <<>> /\ Listens(e)
        /\ \/ d.t = "TRAIN" /\ Sent(e, p) /\ UNCHANGED losses
           \/ d.t = "TCF" /\ Sent(e, put_tcf(p, TRUE)) /\ UNCHANGED losses
           \/ d.t = "TCF" /\ "TCF" \in Lossy /\ p.state = "F_TCF" /\ Sent(e, put_tcf(p, FALSE)) /\ Lose("tcf")
           \/ d.t = "IMAGE" /\ Sent(e, put_image(p, d.page, "good", TRUE)) /\ UNCHANGED losses
           \/ /\ d.t = "IMAGE" /\ "IMAGE" \in Lossy
              /\ \E q \in {"poor", "bad"}, ended \in BOOLEAN :
                    Sent(e, put_image(p, d.page, q, ended)) /\ Lose(PageClass(x, q))

TransmitUnheard(e) ==
    LET x == t30[e]  p == t30[Peer(e)]
    IN  /\ ~Over /\ Steady /\ Sending(x) /\ x.out # <<>> /\ ~Listens(e)
        /\ \/ ~Noticeable(x, p) /\ Sent(e, p) /\ UNCHANGED losses
           \/ Noticeable(x, p) /\ "carrier" \in Lossy /\ Sent(e, p) /\ Lose(DataClass(x))

CarrierDown(e) ==
    /\ ~Over /\ Dropped(e)
    /\ t30' = [t30 EXCEPT ![e] = carrier_down(@)]
    /\ UNCHANGED losses

\* Sending, the tones of phase A and the last pause are over.
SendStepComplete(e) ==
    /\ ~Over /\ Steady /\ (Sending(t30[e]) \/ t30[e].phase \in {"A_CED", "E"})
    /\ t30[e].out = <<>> /\ t30[e].state \in Handled
    /\ t30' = [t30 EXCEPT ![e] = send_step_complete(@)]
    /\ UNCHANGED losses

\* What an end sends is over before a timer could expire, except an image that
\* nobody hears.
Signalling(e) ==
    LET x == t30[e]  p == t30[Peer(e)]
    IN  \/ x.phase \in Slow \cup {"A_CED", "E"} /\ (x.out # <<>> \/ x.state \in Handled)
        \/ x.phase = "C_NON_ECM_TX" /\ (x.state # "I" \/ Starts(x) \/ x.out = <<>> \/ p.signal = "trained")

Expire(e) ==
    LET x == Later(t30[e], NextExpiry)
        After(y) == t30' = [t30 EXCEPT ![e] = y, ![Peer(e)] = Later(@, NextExpiry)]
    IN  /\ ~Over /\ Steady /\ Running(t30[e]) # {} /\ ~\E i \in {S, R} : Signalling(i)
        /\ \/ x.t24 = 1 /\ After(t24_expired(x))
           \/ x.t1 = 1  /\ After(timer_t0_t1_expired(x))
        /\ UNCHANGED losses

HangUp(e) ==
    /\ ~Over /\ t30[Peer(e)].state = "CALL_FINISHED" /\ t30[e].state # "CALL_FINISHED"
    /\ t30' = [t30 EXCEPT ![e] = terminate(@)]
    /\ UNCHANGED losses

Next == \E e \in {S, R} :
            \/ CarrierUp(e) \/ TrainingFailed(e) \/ CarrierDown(e)
            \/ TransmitFrame(e) \/ TransmitData(e) \/ TransmitUnheard(e)
            \/ SendStepComplete(e) \/ Expire(e) \/ HangUp(e)

Spec == Init /\ [][Next]_vars

\* The front end runs whenever the line or a clock has something for it.
FairSpec == Spec /\ WF_vars(Next)

-----------------------------------------------------------------------------
(* What the code promises.                                                  *)

Results == {"none", "MCF", "RTP", "RTN"}

\* The ends keep to their states and counts.
TypeOK ==
    /\ losses \in [{"answer", "tcf", "image", "unseen", "other"} -> 0 .. MaxLoss]
    /\ \A e \in {S, R} :
          LET x == t30[e]
          IN  /\ x.state \in Handled \cup {"T", "D_POST_TCF", "F_TCF", "F_POST_DOC_NON_ECM", "CALL_FINISHED"}
              /\ {x.phase, x.next_phase} \subseteq Slow \cup Opening \cup
                    {"IDLE", "C_NON_ECM_TX", "C_NON_ECM_RX", "B_RX", "D_RX", "E", "CALL_FINISHED"}
              /\ x.signal \in {"none", "slow", "trained", "untrained"}
              /\ x.step \in 0 .. 1 /\ Len(x.out) <= 2 /\ x.retries \in Nat
              /\ x.fallback \in 0 .. Fallbacks
              /\ x.page \in 0 .. Len(Doc) /\ x.start \in 0 .. Len(Doc) /\ x.confirmed \in 0 .. Len(Doc)
              /\ x.last_result \in Results /\ x.next_rx \in PageEnds \cup {"none"}
              /\ x.t24 \in 0 .. T1 /\ x.t1 \in 0 .. T0

\* Unless the whole of a page went by unnoticed, no page is delivered twice
\* and none before an earlier one; and a sender that can retransmit skips none,
\* whatever answers, training and repeats go wrong.
InOrderOnce ==
    losses.unseen = 0 =>
        /\ \A i \in 1 .. Len(t30[R].pages) - 1 : t30[R].pages[i] < t30[R].pages[i + 1]
        /\ t30[S].retransmit => \A i \in DOMAIN t30[R].pages : t30[R].pages[i] = i - 1

\* The count of pages that the sender reports is that of the pages delivered,
\* but for one whose answer is still to come.
CountsAgree == losses.unseen = 0 => Len(t30[R].pages) - t30[S].confirmed \in {0, 1}

\* A sender that can retransmit reports success only if every page was
\* delivered, and a receiver only if the pages up to an EOM or EOP were.
Succeeded(e) == t30[e].state = "CALL_FINISHED" /\ t30[e].status = "OK"
GoodEndMeansWhole ==
    LET n == Len(t30[R].pages)
    IN  losses.unseen = 0 /\ t30[S].retransmit =>
            /\ Succeeded(S) => n = Len(Doc)
            /\ Succeeded(R) => n = Len(Doc) \/ (n > 0 /\ Doc[n] # Doc[n + 1])

\* Whatever is lost, no end waits for ever.
CallEnds == <>Over

\* One lost answer, and as many failed tests, poor pages and bad pages that are
\* not the last as there are slower modems, do not stop the document.
Bearable == /\ losses.answer <= 1 /\ losses.tcf + losses.image <= Fallbacks
            /\ losses.unseen = 0 /\ losses.other = 0
WholeDocumentArrives ==
    <>(t30[R].pages = [i \in DOMAIN Doc |-> i - 1] \/ ~(Bearable /\ t30[S].retransmit))
=============================================================================

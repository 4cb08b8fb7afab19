------------------------------- MODULE T30Core -------------------------------
(***************************************************************************)
(* What the parts of a FAX call by T.30 (src/t30.c) share: phases, states, *)
(* frames, timers, the status reports of the HDLC receiver, the end of the *)
(* call, and the half duplex line between the two ends.  A t30_state_t is  *)
(* a record, and a handler of the code an operator from the record it      *)
(* finds to the record it leaves.                                          *)
(***************************************************************************)
EXTENDS Integers, Sequences, FiniteSets, SequencesExt, FiniteSetsExt

CONSTANTS S, R,          \* the ends that send and receive the document
          MaxTries,      \* max_command_tries
          CommandRepeat, \* whether T30_SUPPORT_COMMAND_REPEAT is set
          T0, T1, T2, T4, TFlagged, TDropped,   \* durations: their order counts
          Lossy,         \* what the line may lose: kinds of frame, "carrier"
          MaxLoss        \* how many losses there may be (a bound)

ASSUME T30CoreAssumption ==
    /\ S # R
    /\ {MaxTries, MaxLoss, TDropped, TFlagged, T4, T2, T1, T0} \subseteq Nat /\ CommandRepeat \in BOOLEAN
    /\ 1 < TDropped /\ TDropped < TFlagged /\ TFlagged < T4 /\ T4 < T2 /\ T2 < T1 /\ T1 < T0

VARIABLE t30     \* per end, its t30_state_t

Peer(e) == IF e = S THEN R ELSE S

-----------------------------------------------------------------------------
(* Phases, states, frames.  signal stands for rx_signal_present and         *)
(* rx_trained, and tells the slow modem's carrier from the fast one's; far  *)
(* is far_end_detected, and t1 the timer T0 until then.  t24 = 0: no T2 or  *)
(* T4 runs.  A timer at n expires in n - 1.                                 *)

Slow    == {"B_TX", "D_TX"}
Opening == {"A_CED", "A_CNG"}
Sending(x) == x.phase \in Slow \cup {"C_ECM_TX", "C_NON_ECM_TX"}

\* The first message to the far end, or its first flags, end the time of T0.
FarEnd(x) == IF ~x.far /\ x.t1 > 0 THEN [x EXCEPT !.t1 = T1, !.far = TRUE] ELSE x

set_phase(x, p) ==
    LET y == [x EXCEPT !.out = IF x.next_phase \in {p, "IDLE"} THEN @ ELSE <<>>,
                       !.signal = IF x.phase \in Opening THEN @ ELSE "none",
                       !.phase = p, !.next_phase = "IDLE"]
    IN  IF p \in Slow THEN FarEnd(y) ELSE y

\* Without HDLC a signal counts as present only when the modem has trained.
Present(x) == x.signal \notin IF x.phase = "C_NON_ECM_RX" THEN {"none", "untrained"} ELSE {"none"}

\* A phase is queued until the far end's carrier drops; what was sent for a
\* phase that was queued before is flushed.
queue_phase(x, p) ==
    IF ~Present(x) THEN set_phase(x, p)
    ELSE [x EXCEPT !.out = IF x.next_phase = "IDLE" THEN @ ELSE <<>>, !.next_phase = p]

set_state(x, s)       == [x EXCEPT !.state = s, !.step = 0]
set_status(x, s)      == [x EXCEPT !.status = s]
send_frame(x, f)      == [x EXCEPT !.out = Append(@, f)]
send_simple_frame(x, t) == send_frame(x, [t |-> t])

send_dcn(x) == send_simple_frame(set_state(queue_phase(x, "D_TX"), "C"), "DCN")

unexpected(x) == IF x.status = "OK" THEN set_status(x, "UNEXPECTED") ELSE x
unexpected_final_frame(x) == send_dcn(unexpected(x))

\* Only the DIS of the sequence asks for an answer.
send_dis_or_dtc_sequence(x) == send_simple_frame(set_state(x, "R"), "DIS")

-----------------------------------------------------------------------------
(* Timers.                                                                  *)

Duration(k) == CASE k = "T2" -> T2 [] k = "T4" -> T4 [] k = "T1A" -> T1
                 [] k \in {"T2_FLAGGED", "T4_FLAGGED"} -> TFlagged
                 [] k \in {"T2_DROPPED", "T4_DROPPED"} -> TDropped
start_timer(x, k)   == [x EXCEPT !.t24 = Duration(k), !.t24_is = k]
timer_t2_t4_stop(x) == [x EXCEPT !.t24 = 0, !.t24_is = "IDLE"]
StopAll(x)          == [x EXCEPT !.t24 = 0, !.t1 = 0, !.t5 = 0]
timer_t2_flagged_start(x) ==
    start_timer(x, IF x.phase = "C_ECM_RX" THEN "T1A" ELSE "T2_FLAGGED")

terminate_call(x)    == set_phase(set_state(StopAll(x), "CALL_FINISHED"), "CALL_FINISHED")
start_final_pause(x) == set_state(set_phase(StopAll(x), "E"), "B")
return_to_phase_b(x) == set_state([x EXCEPT !.t1 = T1], "T")

\* T0 or T1, whichever it was.
timer_t0_t1_expired(x) ==
    LET y == set_status([x EXCEPT !.t1 = 0], IF x.far THEN "T1_EXPIRED" ELSE "T0_EXPIRED")
    IN  CASE ~x.far \/ x.state = "T" -> terminate_call(y)
          [] x.far /\ x.state = "R"  -> send_dcn(y)
          [] OTHER                   -> y

\* The far end said nothing after EOM: begin as with a new call.
BackToPhaseB(x) ==
    send_dis_or_dtc_sequence(start_timer(set_phase([x EXCEPT !.t1 = T1], "B_TX"), "T2"))

-----------------------------------------------------------------------------
(* The calls of the front end that are the same everywhere.                 *)

\* t30_hdlc_accept, of a frame with a bad CRC.
hdlc_accept_bad(x) ==
    CASE x.phase = "C_ECM_RX" -> x
      [] x.phase # "C_ECM_RX" /\ CommandRepeat ->
            send_simple_frame(queue_phase([x EXCEPT !.step = 0],
                                          IF x.phase = "B_RX" THEN "B_TX" ELSE "D_TX"), "CRP")
      [] x.phase # "C_ECM_RX" /\ ~CommandRepeat ->
            IF x.t24_is = "T2_FLAGGED" THEN timer_t2_t4_stop(x) ELSE x

\* SIG_STATUS_CARRIER_UP.
carrier_up(x, sig) ==
    LET y == [x EXCEPT !.signal = sig]
    IN  CASE x.t24_is = "T2_DROPPED" -> [y EXCEPT !.t24 = 0, !.t24_is = "T2C"]
          [] x.t24_is = "T4_DROPPED" -> [y EXCEPT !.t24 = 0, !.t24_is = "T4C"]
          [] OTHER -> y

\* SIG_STATUS_FRAMING_OK.
framing_ok(x) ==
    LET y == IF ~x.far /\ x.t1 > 0 /\ x.phase \in Opening THEN set_phase(FarEnd(x), "B_RX") ELSE FarEnd(x)
    IN  CASE y.t24 > 0 /\ y.t24_is \in {"T1A", "T2", "T2_FLAGGED"} -> timer_t2_flagged_start(y)
          [] y.t24 > 0 /\ y.t24_is \in {"T4", "T4_FLAGGED"} -> start_timer(y, "T4_FLAGGED")
          [] OTHER -> y

CarrierFound(x) == IF x.status = "RX_NOCARRIER" THEN set_status(x, "OK") ELSE x

\* SIG_STATUS_CARRIER_DOWN, the last part: a queued phase begins, or a timer
\* that the carrier stopped runs on.
AfterCarrier(x) ==
    CASE x.next_phase # "IDLE" -> set_phase(x, x.next_phase)
      [] x.next_phase = "IDLE" /\ x.t24_is \in {"T1A", "T2_FLAGGED", "T2C"} -> start_timer(x, "T2_DROPPED")
      [] x.next_phase = "IDLE" /\ x.t24_is \in {"T4_FLAGGED", "T4C"} -> start_timer(x, "T4_DROPPED")
      [] OTHER -> x

Listen(x, p, timer) == start_timer(set_phase(x, p), timer)

\* t30_terminate: the application has seen the far end hang up.
terminate(x) == terminate_call(IF x.eop \/ x.state \in {"B", "C"} THEN x
                               ELSE set_status(x, "CALLDROPPED"))

-----------------------------------------------------------------------------
(* The line.                                                                *)

\* The carrier one end sends, as the modems of the other can hear it.
Carrier(x)  == IF Sending(x) THEN IF x.phase \in Slow THEN "slow" ELSE "fast" ELSE "none"
Hears(x)    == CASE x.signal = "none" -> "none" [] x.signal = "slow" -> "slow" [] OTHER -> "fast"
CanHear(x)  == CASE x.phase \in {"C_ECM_RX", "C_NON_ECM_RX"} -> {"slow", "fast"}
                 [] x.phase \in {"B_RX", "D_RX", "A_CNG"} -> {"slow"}
                 [] OTHER -> {}

\* The carrier that is heard ended.
Dropped(e) == Hears(t30[e]) \notin {"none", Carrier(t30[Peer(e)])}
Steady     == ~\E e \in {S, R} : Dropped(e)

Listens(e) == Hears(t30[Peer(e)]) = Carrier(t30[e]) /\ t30[Peer(e)].signal # "untrained"

\* t30_timer_update, up to the next expiry.
Running(x) == {x.t24, x.t1} \ {0}
NextExpiry == Min(UNION {Running(t30[i]) : i \in {S, R}}) - 1
Advance(n, d) == IF n = 0 THEN 0 ELSE n - d
Later(x, d) == [x EXCEPT !.t24 = Advance(@, d), !.t1 = Advance(@, d)]
=============================================================================

-------------------------------- MODULE V150 --------------------------------
(***************************************************************************)
(* Two V.150.1 endpoints agreeing on the media state of a call: the state  *)
(* machine and timers of src/v150_1.c, and the state signalling events     *)
(* (SSE) of src/v150_1_sse.c that tell one of the other's state, made      *)
(* reliable by repetition or by explicit acknowledgement.                  *)
(*                                                                         *)
(* An endpoint has three users of time (call discrimination, SSE and SPRT) *)
(* and asks the application for one timer, which stops when it fires.      *)
(* Times are those of the code: 0 is no time.  The application fires the   *)
(* timer on time, so the "returned early" branches are never taken.        *)
(***************************************************************************)
EXTENDS Integers, Sequences, FiniteSetsExt, SequencesExt

CONSTANTS
    Ends,            \* the two endpoints
    Methods,         \* reliability methods the application may choose
    Selects,         \* cdscselect values an end may have
    Rfc4733,         \* rfc4733_preferred
    Copies,          \* transmissions of a message, by repetition
    Interval,        \* repetition_interval
    N0, T0, T1,      \* ack_n0count, ack_t0interval, ack_t1interval
    CdTimeout,       \* call_discrimination_timeout
    SprtDelays,      \* how far ahead SPRT sets its timer
    Sent,            \* <<event, reason>> pairs the application sends
    Signals,         \* signals of the signal processing entity
    MaxSent,         \* messages the application sends, by end (a bound)
    MaxSignals,      \* signals, by end (a bound)
    MaxSprt,         \* times SPRT sets its timer, by end (a bound)
    MaxLost,         \* copies of one message that get lost (a bound)
    MaxLate,         \* packets that come after a later one, by end (a bound)
    Backlog,         \* packets to an end that time does not wait for (a bound)
    Until            \* when the application and SPRT have done what they will (a bound)

States == {"INITIAL_AUDIO", "VOICE_BAND_DATA", "MODEM_RELAY", "FAX_RELAY", "TEXT_RELAY", "TEXT_PROBE"}

ASSUME V150Assumption ==
    /\ \E a, b \in Ends : a # b /\ Ends = {a, b}
    /\ Methods \subseteq {"NONE", "REPETITION", "EXPLICIT_ACK"}
    /\ Selects \subseteq {"INDETERMINATE", "AUDIO_RFC4733", "VBD_PREFERRED", "MIXED"}
    /\ Rfc4733 \in BOOLEAN /\ {Copies, N0} \subseteq 2 .. 10
    /\ {Interval, T0, T1, CdTimeout} \subseteq Nat \ {0} /\ SprtDelays \subseteq Nat \ {0}
    /\ \A p \in Sent : p[1] \in States
    /\ {MaxSent[e] : e \in Ends} \cup {MaxSignals[e] : e \in Ends} \subseteq Nat
    /\ {MaxSprt[e] : e \in Ends} \cup {MaxLate[e] : e \in Ends} \cup {MaxLost, Backlog, Until} \subseteq Nat

VARIABLES
    ep,      \* by end: v150_1_state_t and its sse, and what has happened there
    net,     \* by end: packets on their way to it, in the order they were sent
    order,   \* by end: the latest stamp to have come, and how many packets
             \* came after a later one (history)
    now      \* the time

vars == <<ep, net, order, now>>

Other(e) == CHOOSE o \in Ends : o # e

-----------------------------------------------------------------------------
(* Timers.                                                                 *)

Earliest(T) == IF T \subseteq {0} THEN 0 ELSE Min(T \ {0})

select_timer(s)    == [s EXCEPT !.host = Earliest({s.sprt, s.sse, s.cd})]
update_timer(s)    == select_timer([s EXCEPT !.sse = Earliest({s.t0, s.t1, s.rep})])
\* Fault: SPRT asks for its time without looking at the other timers.
update_sprtAlone(s, t) == [s EXCEPT !.sprt = t, !.host = t]
update_sprt(s, t)  == select_timer([s EXCEPT !.sprt = t])
update_cd(s, t)    == select_timer([s EXCEPT !.cd = t])

-----------------------------------------------------------------------------
(* The state machine.                                                      *)

set_joint_cdscselect(near, far) ==
    IF "INDETERMINATE" \in {near, far} THEN "INDETERMINATE"
    ELSE IF "AUDIO_RFC4733" \in {near, far} THEN "AUDIO_RFC4733"
    ELSE IF "VBD_PREFERRED" \in {near, far} THEN "VBD_PREFERRED"
    ELSE "MIXED"

VbdWanted(s) == s.cdsc \in {"VBD_PREFERRED", "MIXED"}

generic_macro(s) ==
    IF s.local = s.remote THEN update_cd(s, 0)
    ELSE IF s.cd = 0 THEN update_cd(s, now + CdTimeout)
    ELSE s

update_media_states(s, local, remote) == [s EXCEPT !.local = local, !.remote = remote]

BothIn(s, m) == update_media_states(s, m, m)

figures_26_to_31(s, signal) ==
    LET vbd == update_media_states(s, "VOICE_BAND_DATA", s.remote)
    IN  CASE signal \in {"ANS", "ANSAM"} -> generic_macro(IF VbdWanted(s) THEN vbd ELSE s)
          [] signal \in {"TONE_2100HZ", "UNKNOWN", "CALL_DISCRIMINATION_TIMEOUT"} ->
                IF VbdWanted(s) THEN generic_macro(vbd) ELSE s
          [] signal = "VBD" -> generic_macro(IF VbdWanted(s) THEN BothIn(s, "VOICE_BAND_DATA") ELSE vbd)
          [] signal = "CM"  -> generic_macro(update_media_states(s,
                                   IF VbdWanted(s) THEN "VOICE_BAND_DATA" ELSE "MODEM_RELAY", "MODEM_RELAY"))
          [] OTHER -> s

figures_32_33(s, signal) == IF signal = "AUDIO" THEN generic_macro(s) ELSE s

figure_34(s, signal) == IF signal \in {"AUDIO", "VBD"} THEN generic_macro(s) ELSE s

figure_35(s, signal) == IF signal = "VBD" THEN update_media_states(s, s.local, "VOICE_BAND_DATA") ELSE s

figure_36(s, signal) ==
    LET audio == update_media_states(s, "INITIAL_AUDIO", "VOICE_BAND_DATA")
    IN  CASE signal = "AUDIO" -> audio
          [] signal = "VBD"   -> generic_macro(audio)
          [] OTHER            -> s

figures_37_38(s, signal) == IF signal = "AUDIO" THEN BothIn(s, "INITIAL_AUDIO") ELSE s

figure_39(s, signal) ==
    IF signal \in {"ANS", "ANSAM", "ANS_PR", "ANSAM_PR"} /\ Rfc4733 THEN generic_macro(s) ELSE s

GiveUp(s) == update_media_states(s, "INITIAL_AUDIO", "INDETERMINATE")

state_machine(s, signal) ==
    LET at == <<s.local, s.remote>>
        IA == "INITIAL_AUDIO"   VBD == "VOICE_BAND_DATA"   MR == "MODEM_RELAY"
    IN  CASE signal = "SILENCE" -> IF at = <<IA, IA>> THEN s ELSE generic_macro(GiveUp(s))
          [] signal = "ABORT"   -> generic_macro(GiveUp(s))
          [] signal = "CALL_DISCRIMINATION_TIMER_EXPIRED" -> GiveUp(s)
          [] OTHER ->
                CASE at = <<IA, IA>>   -> figures_26_to_31(s, signal)
                  [] at \in {<<IA, VBD>>, <<IA, MR>>}  -> figures_32_33(s, signal)
                  [] at = <<MR, IA>>   -> figure_34(s, signal)
                  [] at = <<MR, MR>>   -> figure_35(s, signal)
                  [] at = <<MR, VBD>>  -> figure_36(s, signal)
                  [] at \in {<<VBD, IA>>, <<VBD, MR>>} -> figures_37_38(s, signal)
                  [] at = <<VBD, VBD>> -> figure_39(s, signal)
                  [] OTHER             -> s

-----------------------------------------------------------------------------
(* SSE messages.  out collects what one call gives the packet handler; the *)
(* application's RTP stamps a repeat as the message it repeats.            *)

\* The extension has six bits for the state, which the state 64
\* (indeterminate) does not fit.
AckOctet(m) == IF m = "INDETERMINATE" THEN "RESERVED" ELSE m

send_packet(s, event, ric) ==
    LET m == [event |-> event, ric |-> ric, stamp |-> s.stamp + 1,
              ack |-> IF s.method = "EXPLICIT_ACK" THEN AckOctet(s.remote) ELSE "ABSENT"]
        t == [s EXCEPT !.out = Append(@, m), !.stamp = @ + 1, !.copies = 1, !.lost = 0]
    IN  CASE s.method = "REPETITION" ->
                update_timer([t EXCEPT !.saved = m, !.rep = now + Interval, !.left = Copies - 1])
          [] s.method = "EXPLICIT_ACK" ->
                update_timer([t EXCEPT !.saved = m, !.n0 = N0, !.t0 = now + T0, !.t1 = now + T1])
          [] OTHER -> t

tx_sse_packet(s, event, ric) == [send_packet(s, event, ric) EXCEPT !.local = event]

NoPacket == [event |-> "INITIAL_AUDIO", ric |-> "NONE", stamp |-> 0, ack |-> "ABSENT"]

SendAgain(s) == [s EXCEPT !.out = Append(@, [s.saved EXCEPT !.stamp = s.stamp]), !.copies = @ + 1]

\* The number of an event is taken for that of a signal.
EventSignal == [INITIAL_AUDIO |-> "TONE_2100HZ", VOICE_BAND_DATA |-> "TONE_2225HZ",
                MODEM_RELAY |-> "ANS", FAX_RELAY |-> "ANS_PR", TEXT_RELAY |-> "ANSAM",
                TEXT_PROBE |-> "ANSAM_PR"]

\* What the handler of the event makes of the states, if the event is news.
Follow(s, event) ==
    LET news == IF event = "TEXT_PROBE" THEN "TEXT_RELAY" ELSE event
    IN  IF s.remote = news THEN s
        ELSE BothIn(s, IF news = "MODEM_RELAY" /\ VbdWanted(s) THEN "VOICE_BAND_DATA" ELSE news)

\* A switch because of V.8 CM or V.32bis AA is answered with a P'.
MustAnswer(m) == m.event \in {"MODEM_RELAY", "FAX_RELAY"} /\ m.ric \in {"V8_CM", "V32BIS_AA"}

\* Fault: what is repeated is not replaced by the answer.
AnswerUnsaved(s, m) ==
    IF MustAnswer(m) THEN [send_packet(s, m.event, "P") EXCEPT !.answers = @ + 1, !.saved = s.saved] ELSE s

Answer(s, m) == IF MustAnswer(m) THEN [send_packet(s, m.event, "P") EXCEPT !.answers = @ + 1] ELSE s

\* Fault: copies of a message are acted on again.
rx_sse_packetRepeats(s, m) ==
    LET t == [s EXCEPT !.heard = m.stamp, !.acked = IF m.ack = "ABSENT" THEN @ ELSE m.ack]
        u == Follow(state_machine(t, EventSignal[m.event]), m.event)
    IN  [Answer(u, m) EXCEPT !.remote = m.event]

\* Fault: the far end's state is only what its event makes of the own one.
rx_sse_packetFollows(s, m) ==
    IF s.heard = m.stamp THEN s
    ELSE LET t == [s EXCEPT !.heard = m.stamp, !.acked = IF m.ack = "ABSENT" THEN @ ELSE m.ack]
         IN  Answer(Follow(state_machine(t, EventSignal[m.event]), m.event), m)

\* The sequence number is not looked at, the must respond flag only logged.
rx_sse_packet(s, m) ==
    IF s.heard = m.stamp THEN s
    ELSE LET t == [s EXCEPT !.heard = m.stamp, !.acked = IF m.ack = "ABSENT" THEN @ ELSE m.ack]
             u == Follow(state_machine(t, EventSignal[m.event]), m.event)
         IN  [Answer(u, m) EXCEPT !.remote = m.event]

-----------------------------------------------------------------------------
(* Timers that have expired.                                               *)

T0Expired(s) ==
    IF s.t0 # 0 /\ s.t0 <= now /\ s.n0 > 0 /\ s.local # s.acked
    THEN update_timer([SendAgain(s) EXCEPT !.n0 = @ - 1, !.t0 = now + T0])
    ELSE s

T1Expired(s) ==
    IF s.t1 # 0 /\ s.t1 <= now /\ s.n0 = 0 /\ s.local # s.acked
    THEN update_timer([SendAgain(s) EXCEPT !.t1 = now + T1])
    ELSE s

RepetitionExpired(s) ==
    IF s.rep # 0 /\ s.rep <= now
    THEN LET t == IF s.left > 1 THEN update_timer([s EXCEPT !.rep = @ + Interval])
                                ELSE [s EXCEPT !.rep = 0]
         IN  [SendAgain(t) EXCEPT !.left = @ - 1]
    ELSE s

sse_timer_expired(s) ==
    IF s.sse # 0 /\ s.sse <= now THEN RepetitionExpired(T1Expired(T0Expired(s))) ELSE s

\* The timer is left as it is.
call_discrimination_timer_expired(s) ==
    IF s.cd # 0 /\ s.cd <= now
    THEN [state_machine(s, "CALL_DISCRIMINATION_TIMER_EXPIRED") EXCEPT !.expired = TRUE]
    ELSE s

\* SPRT (SprtTimers) sends what is due and sets its timer again, or stops it.
sprt_timer_expired(s, next) ==
    IF s.sprt # 0 /\ s.sprt <= now THEN update_sprt(s, next) ELSE s

timer_expired(s, next) ==
    sprt_timer_expired(sse_timer_expired(call_discrimination_timer_expired([s EXCEPT !.host = 0])), next)

-----------------------------------------------------------------------------

Init ==
    /\ \E near, far \in Selects, method \in Methods :
         ep = [e \in Ends |->
                [local |-> "INITIAL_AUDIO", remote |-> "INITIAL_AUDIO", acked |-> "RESERVED",
                 cdsc |-> set_joint_cdscselect(near, far), method |-> method,
                 rep |-> 0, left |-> 0, t0 |-> 0, t1 |-> 0, n0 |-> 0, saved |-> NoPacket, heard |-> 0,
                 sse |-> 0, cd |-> 0, sprt |-> 0, host |-> 0, out |-> <<>>,
                 stamp |-> 0, copies |-> 0, lost |-> 0, answers |-> 0, expired |-> FALSE,
                 signalled |-> 0, asked |-> 0, sprts |-> 0, sends |-> 0]]
    /\ net = [e \in Ends |-> <<>>]
    /\ order = [e \in Ends |-> [latest |-> 0, late |-> 0]]
    /\ now = 1

\* What a call put out goes to the network, or gets lost there.
Set(e, t, n) == \E s \in {t} :
    \E lose \in IF s.out # <<>> /\ s.lost + Len(s.out) <= MaxLost THEN BOOLEAN ELSE {FALSE} :
        /\ ep' = [ep EXCEPT ![e] = [s EXCEPT !.out = <<>>, !.lost = IF lose THEN @ + Len(s.out) ELSE @]]
        /\ net' = IF lose THEN n ELSE [n EXCEPT ![Other(e)] = @ \o s.out]
        /\ now' = now

TxSse(e) ==
    /\ ep[e].sends < MaxSent[e] /\ now <= Until
    /\ \E p \in Sent :
         LET s == tx_sse_packet(ep[e], p[1], p[2])
         IN  Set(e, [s EXCEPT !.sends = @ + 1,
                              !.asked = IF MustAnswer([event |-> p[1], ric |-> p[2]]) THEN @ + 1 ELSE @], net)
    /\ UNCHANGED order

Arrives(h, stamp) ==
    IF stamp < h.latest THEN [h EXCEPT !.late = @ + 1] ELSE [h EXCEPT !.latest = stamp]

\* A packet may overtake others.  Which of two copies comes first is all one.
RxSse(e) ==
    \E i \in 1 .. Len(net[e]) :
        LET m == net[e][i]
        IN  /\ order[e].late + i - 1 <= MaxLate[e] /\ (i > 1 => net[e][i - 1].stamp # m.stamp)
            /\ Set(e, rx_sse_packet(ep[e], m), [net EXCEPT ![e] = RemoveAt(@, i)])
            /\ order' = [order EXCEPT ![e] = Arrives(@, m.stamp)]

Signal(e) ==
    /\ ep[e].signalled < MaxSignals[e] /\ now <= Until
    /\ \E g \in Signals : Set(e, [state_machine(ep[e], g) EXCEPT !.signalled = @ + 1], net)
    /\ UNCHANGED order

SprtSetsTimer(e) ==
    /\ ep[e].sprts < MaxSprt[e] /\ now <= Until
    /\ \E d \in SprtDelays : Set(e, [update_sprt(ep[e], now + d) EXCEPT !.sprts = @ + 1], net)
    /\ UNCHANGED order

TimerExpired(e) ==
    /\ ep[e].host # 0 /\ ep[e].host <= now
    /\ Set(e, timer_expired(ep[e], 0), net)
    /\ UNCHANGED order

\* Time that nothing waits for is left out.
Tick ==
    /\ \E e \in Ends : ep[e].host # 0
    /\ \A e \in Ends : (ep[e].host # 0 => ep[e].host > now) /\ Len(net[e]) <= Backlog
    /\ now' = now + 1
    /\ UNCHANGED <<ep, net, order>>

Next ==
    \/ \E e \in Ends : TxSse(e) \/ RxSse(e) \/ Signal(e) \/ SprtSetsTimer(e) \/ TimerExpired(e)
    \/ Tick

\* The network brings what it does not lose, the application fires the
\* timer it was asked for, and time passes.
Fairness ==
    /\ \A e \in Ends : []<>(net[e] = <<>>) \/ []<><<RxSse(e)>>_vars
    /\ \A e \in Ends : []<>(ep[e].host = 0 \/ ep[e].host > now) \/ []<><<TimerExpired(e)>>_vars
    /\ WF_vars(Tick)

Spec == Init /\ [][Next]_vars /\ Fairness

-----------------------------------------------------------------------------
(* Properties.                                                             *)

Media == States \cup {"INDETERMINATE"}

TypeOK ==
    \A e \in Ends :
        /\ ep[e].local \in States /\ ep[e].remote \in Media
        /\ ep[e].acked \in States \cup {"RESERVED"}
        /\ {ep[e].host, ep[e].sse, ep[e].cd, ep[e].sprt, ep[e].rep, ep[e].t0, ep[e].t1} \subseteq Nat
        /\ ep[e].left \in 0 .. Copies - 1 /\ ep[e].n0 \in 0 .. N0 /\ ep[e].copies \in Nat
        /\ \A i \in 1 .. Len(net[e]) : net[e][i].event \in States
        /\ order[e].late \in Nat /\ order[e].latest \in Nat

\* By repetition a message goes out as often as was asked for, no more and
\* no fewer times, whatever else shares the timer.
SentAsAsked(s) ==
    s.method = "REPETITION" /\ s.stamp > 0 =>
        /\ s.copies + s.left = Copies
        /\ s.rep = 0 => s.copies = Copies

\* Packets with the stamp of the last message are copies of that message, as
\* many as were asked for: a receiver drops what has a stamp it knows
\* (v150_1_rx_sse_packet), so a repeat of anything else, such as of what an
\* answer (P') has replaced, would be lost, or be taken for news.
RepeatsAreCopies ==
    \A e \in Ends :
        /\ SentAsAsked(ep[e])
        /\ \A i \in 1 .. Len(net[Other(e)]) :
              LET m == net[Other(e)][i]
              IN  /\ m.stamp <= ep[e].stamp
                  /\ m.stamp = ep[e].stamp /\ ep[e].method # "NONE" => m = [ep[e].saved EXCEPT !.stamp = m.stamp]

\* A message is acted on once, however many copies of it arrive: there are
\* no more answers (P') than messages that ask for one.  The code compares a
\* packet with the last one only, so that one that comes after a later one
\* passes for news, and so do further copies of the later one: each packet
\* that is late may have every message acted on once more.
AnsweredOnce == \A e \in Ends : ep[e].answers <= ep[Other(e)].asked * (order[e].late + 1)

\* While a message may still have to be sent again, the application has
\* been asked to call in time, although call discrimination and SPRT ask
\* for the same timer (until the call discrimination timer has expired, or
\* t1 has run out while there are resends by t0 left).
ResendIsTimed ==
    \A e \in Ends :
        LET s == ep[e]
            due == (IF s.method = "REPETITION" THEN {s.rep} \ {0} ELSE {})
                   \cup (IF s.n0 > 0 /\ s.local # s.acked /\ s.t0 > now /\ s.t1 > now THEN {s.t0} ELSE {})
        IN  s.expired \/ \A t \in due : s.host # 0 /\ s.host <= t

\* In the end each knows what the other said last: the last message gets
\* through if fewer than all its copies are lost, even when both change at
\* once and packets overtake each other.  Not so when call discrimination or
\* a signal has changed what is known, when an old acknowledgement stops the
\* copies of a new message, or when the last packet of all to arrive is one
\* of an older message: the code takes that for news.
Overtaken(e) == ep[e].heard < order[e].latest

Disturbed(e) ==
    \/ \E o \in Ends : ep[o].expired
    \/ ep[Other(e)].signalled > 0
    \/ Overtaken(Other(e))
    \/ ep[e].method = "EXPLICIT_ACK" /\ ep[e].local = ep[e].acked

KnowsWhatWasSaid(e) == ep[e].stamp > 0 => ep[Other(e)].remote = ep[e].saved.event

LastWordArrives == \A e \in Ends : <>[](Disturbed(e) \/ KnowsWhatWasSaid(e))
=============================================================================

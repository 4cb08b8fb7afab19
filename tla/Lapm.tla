-------------------------------- MODULE Lapm --------------------------------
(***************************************************************************)
(* Two V.42 error correctors (src/v42.c) and the line between them: support *)
(* detection, XID exchange, establishment, LAP-M data transfer with its     *)
(* window, rejection, polling and busy conditions, and release.  A handler  *)
(* of the code is an operator from a station to the station it leaves.      *)
(* The line keeps frames in order and may lose them (a bad CRC).  A frame   *)
(* is on the line from the underflow callback that sends it.  The contents  *)
(* of information frames are the numbers 1, 2, ... of the iframe_get calls; *)
(* lengths and the XID parameters (the same at both ends) are left out.     *)
(***************************************************************************)
EXTENDS Integers, Sequences, FiniteSets, SequencesExt, FiniteSetsExt

CONSTANTS Caller, Answerer,
          Detect,       \* whether v42_init was asked to detect support first
          Sender,       \* the stations whose application has frames to send
          Stopper,      \* the stations whose application may call v42_stop
          BusyApp,      \* the stations whose application uses the busy flag
          K,            \* tx_window_size_k
          Mod,          \* 0x7F + 1
          N400,         \* V42_DEFAULT_N_400
          CtrlFrames,   \* V42_CTRL_FRAMES
          InfoFrames,   \* V42_INFO_FRAMES
          MaxMsgs,      \* frames an application offers (a bound)
          LineCap,      \* frames under way in one direction (a bound)
          MaxLoss,      \* frames the line loses (a bound)
          MayLose,      \* the kinds of frame it may lose
          Prompt        \* whether frames are quicker than the data timers

ASSUME LapmAssumption ==
    /\ Caller # Answerer
    /\ {Sender, Stopper, BusyApp} \subseteq SUBSET {Caller, Answerer}
    /\ K \in Nat \ {0} /\ Mod \in Nat /\ Mod > 2 * K /\ InfoFrames = K + 1
    /\ N400 \in Nat /\ CtrlFrames \in Nat \ {0, 1}
    /\ MaxMsgs \in Nat /\ LineCap \in Nat \ {0} /\ MaxLoss \in Nat

VARIABLES
    st,     \* per station, its lapm_state_t, timer and history (see Reset, New)
    line,   \* per station, the frames under way to it
    losses  \* frames lost so far

vars == <<st, line, losses>>

Station == {Caller, Answerer}
Peer(x) == IF x = Caller THEN Answerer ELSE Caller

-----------------------------------------------------------------------------
(* Frames.  cmd: the address is the sender's cmd_addr, so the frame is a     *)
(* command; otherwise it answers one.                                       *)

Supervisory == {"RR", "RNR", "REJ"}
Unnumbered  == {"SABME", "DISC", "XID", "UA", "DM"}

Frame(k, cmd, pf) == [k |-> k, cmd |-> cmd, pf |-> pf, ns |-> 0, nr |-> 0, msg |-> 0]

\* get_next_free_ctrl_frame: nothing is queued, and nobody told, if it is full.
Put(s, f) == IF Len(s.ctrl) < CtrlFrames - 1 THEN [s EXCEPT !.ctrl = Append(@, f)] ELSE s

tx_unnumbered_frame(s, cmd, k, pf)  == Put(s, Frame(k, cmd, pf))
\* Fault: it says which frame was last, not which is next.
tx_supervisory_frame_ahead(s, cmd, k, pf) ==
    Put(s, [Frame(k, cmd, pf) EXCEPT !.nr = (s.vr + 1) % Mod])

tx_supervisory_frame(s, cmd, k, pf) == Put(s, [Frame(k, cmd, pf) EXCEPT !.nr = s.vr])

Ready(s) == IF s.lbusy THEN "RNR" ELSE "RR"

-----------------------------------------------------------------------------
(* One station.  info holds the frames from info_acked to info_put, the      *)
(* first out of them (up to info_get) have been transmitted.                *)

t401_start(s)            == [s EXCEPT !.timer = "T401", !.retry = 0]
t401_stop(s)             == [s EXCEPT !.timer = "off", !.retry = 0]
t401_stop_t403_start(s)  == [s EXCEPT !.timer = "T403", !.retry = 0]
Report(s, status)        == [s EXCEPT !.told = status]

reset_lapm(s) ==
    [s EXCEPT !.lbusy = FALSE, !.fbusy = FALSE, !.vs = 0, !.va = 0, !.vr = 0,
              !.info = <<>>, !.out = 0, !.ctrl = <<>>]

\* v42_init and v42_restart.
New(x) ==
    [state |-> IF Detect THEN "DETECT" ELSE "IDLE",
     vs |-> 0, va |-> 0, vr |-> 0, rejected |-> FALSE, lbusy |-> FALSE, fbusy |-> FALSE,
     configuring |-> FALSE, retry |-> 0, ctrl |-> <<>>, info |-> <<>>, out |-> 0,
     timer |-> IF Detect THEN "T400" ELSE IF x = Caller THEN "start" ELSE "off",
     odp   |-> FALSE,   \* neg.odp_seen
     offer |-> IF x \in Sender THEN MaxMsgs ELSE 0,   \* frames its application has
     taken |-> 0,       \* history: frames taken from the application
     got   |-> <<>>,    \* history: frames handed to the application
     freed |-> 0,       \* history: the last of its frames that was acknowledged
     told  |-> "none",  \* history: the last status reported
     stopped |-> "no"]  \* history: the state in which v42_stop was called

Init ==
    /\ st = [x \in Station |-> New(x)]
    /\ line = [x \in Station |-> <<>>]
    /\ losses = 0

lapm_disconnect(s) ==
    t401_start(tx_unnumbered_frame([s EXCEPT !.state = "RELEASE"], TRUE, "DISC", TRUE))

lapm_connect(s) ==
    IF s.state # "IDLE" THEN s
    ELSE t401_start(tx_unnumbered_frame([reset_lapm(s) EXCEPT !.state = "ESTABLISH"],
                                        TRUE, "SABME", TRUE))

transmit_xid(s, cmd) == Put(s, Frame("XID", cmd, FALSE))

lapm_config(s) ==
    LET c == [s EXCEPT !.configuring = TRUE]
        b == IF s.state = "DATA"
             THEN tx_supervisory_frame([c EXCEPT !.lbusy = TRUE], TRUE, "RNR", TRUE) ELSE c
    IN  t401_start(transmit_xid(b, TRUE))

-----------------------------------------------------------------------------
(* Information frames out.                                                   *)

WindowOpen(s) == ~s.fbusy /\ (s.vs - s.va) % Mod < K

\* tx_information_frame: what it leaves, and what it returns.  has says whether
\* iframe_get finds a frame.
Fetched(s, has) ==
    IF /\ WindowOpen(s) /\ s.out = Len(s.info)
       /\ Len(s.info) + 1 < InfoFrames
       /\ has /\ s.taken < s.offer
    THEN [s EXCEPT !.info = Append(@, s.taken + 1), !.taken = @ + 1]
    ELSE s
ToSend(s) == WindowOpen(s) /\ s.out < Len(s.info)

\* tx_information_rr_rnr_response: an information frame or a supervisory
\* frame, which always has its final bit set.
tx_information_rr_rnr_response(s, f, has) ==
    LET t == IF f.pf THEN s ELSE Fetched(s, has)
    IN  IF f.pf \/ ~ToSend(t)
        THEN tx_supervisory_frame(t, ~f.cmd, Ready(t), TRUE) ELSE t

\* Fault: vs does not go back with the pointer.
reject_info_keeping_vs(s)  == IF s.state = "DATA" THEN [s EXCEPT !.out = 0] ELSE s
\* Fault: nothing is sent again.
reject_info_none(s)        == s

reject_info(s) ==
    IF s.state = "DATA" THEN [s EXCEPT !.vs = s.va, !.out = 0] ELSE s

ValidNR(s, nr) ==
    /\ ((nr - s.va) % Mod) + ((s.vs - nr) % Mod) <= K
    /\ (s.vs - s.va) % Mod <= K

Release(s, n) ==
    [s EXCEPT !.va = (@ + n) % Mod, !.out = @ - n, !.info = SubSeq(@, n + 1, Len(@)),
              !.freed = IF n = 0 THEN @ ELSE s.info[n]]

\* Fault: once all is acknowledged no timer runs.
AckedStoppingTimer(s, nr) ==
    LET n == Min({(nr - s.va) % Mod, s.out})
        a == Release(s, n)
    IN  IF n = 0 \/ s.retry # 0 THEN a
        ELSE IF a.vs = a.va THEN t401_stop(a) ELSE t401_start(a)

\* Acknowledgement of all frames before nr.
Acked(s, nr) ==
    LET n == Min({(nr - s.va) % Mod, s.out})
        a == Release(s, n)
    IN  IF n = 0 \/ s.retry # 0 THEN a
        ELSE IF a.vs = a.va THEN t401_stop_t403_start(a) ELSE t401_start(a)

ack_info(s, nr) == IF ValidNR(s, nr) THEN Acked(s, nr) ELSE lapm_disconnect(s)

-----------------------------------------------------------------------------
(* Frames in.                                                                *)

InDataState(s) == s.state \in {"ESTABLISH", "DATA"}    \* valid_data_state returns 1

valid_data_state(s) ==
    CASE s.state = "ESTABLISH" -> Report([reset_lapm(s) EXCEPT !.state = "DATA"], "CONNECTED")
      [] s.state = "RELEASE"   -> Report([reset_lapm(s) EXCEPT !.state = "IDLE"], "DISCONNECTED")
      [] OTHER                 -> s

\* A frame that follows the last one is handed over, another is rejected once.
InSequence(s, f, has) ==
    tx_information_rr_rnr_response(
        [s EXCEPT !.rejected = FALSE, !.got = Append(@, f.msg), !.vr = (@ + 1) % Mod], f, has)

OutOfSequence(s, f) ==
    IF s.rejected THEN s
    ELSE [tx_supervisory_frame(s, FALSE, "REJ", f.pf) EXCEPT !.rejected = TRUE]

\* Fault: ns is not looked at.
receive_information_frame_any(s, f, has) ==
    LET a == ack_info(valid_data_state(s), f.nr)
    IN  IF ~InDataState(s) THEN valid_data_state(s)
        ELSE IF a.lbusy THEN a ELSE InSequence(a, f, has)

receive_information_frame(s, f, has) ==
    LET a == ack_info(valid_data_state(s), f.nr)
    IN  IF ~InDataState(s) THEN valid_data_state(s)
        ELSE IF a.lbusy THEN (IF f.pf THEN tx_supervisory_frame(a, FALSE, "RNR", TRUE) ELSE a)
        ELSE IF f.ns # a.vr THEN OutOfSequence(a, f)
        ELSE InSequence(a, f, has)

rx_supervisory_cmd_frame(s, f, has) ==
    LET a == ack_info([s EXCEPT !.fbusy = (f.k = "RNR")], f.nr)
        r == IF a.retry = 0 THEN reject_info(t401_stop_t403_start(a)) ELSE a
    IN  CASE f.k = "RR"  -> tx_information_rr_rnr_response(a, f, has)
          [] f.k = "RNR" -> IF f.pf THEN tx_supervisory_frame(a, FALSE, Ready(a), TRUE) ELSE a
          [] f.k = "REJ" -> tx_information_rr_rnr_response(r, f, has)

\* An answer with its final bit set is looked at only while one is awaited.
rx_supervisory_rsp_frame(s, f) ==
    LET a       == ack_info([s EXCEPT !.fbusy = (f.k = "RNR")], f.nr)
        answers == IF f.k = "REJ" THEN a.retry = 0 \/ f.pf ELSE a.retry # 0 /\ f.pf
        b       == IF answers THEN t401_stop_t403_start(reject_info(a)) ELSE a
    IN  IF s.retry = 0 /\ f.pf THEN s
        ELSE IF f.k = "RNR" /\ b.retry = 0 THEN t401_start(b) ELSE b

rx_unnumbered_cmd_frame(s, f) ==
    CASE f.k = "SABME" ->
           Report(t401_stop_t403_start(tx_unnumbered_frame(
                      [reset_lapm(s) EXCEPT !.state = "DATA"], FALSE, "UA", f.pf)), "CONNECTED")
      [] f.k = "DISC" /\ s.state = "IDLE" -> tx_unnumbered_frame(s, FALSE, "DM", TRUE)
      [] f.k = "DISC" /\ s.state # "IDLE" ->
           Report(t401_stop(tx_unnumbered_frame(
                      [reset_lapm(s) EXCEPT !.state = "IDLE"], FALSE, "UA", f.pf)), "DISCONNECTED")
      [] f.k = "XID" -> transmit_xid(s, FALSE)
      [] OTHER -> s

\* Fault: the application is not told.
IdleSilently(s) == [reset_lapm(s) EXCEPT !.state = "IDLE"]

Idle(s) == Report([reset_lapm(s) EXCEPT !.state = "IDLE"], "DISCONNECTED")

rx_unnumbered_rsp_frame(s, f) ==
    CASE f.k = "DM" /\ s.state = "IDLE" /\ ~f.pf -> Report(s, "CONNECTED")
      [] f.k = "DM" /\ s.state \in {"ESTABLISH", "RELEASE"} /\ f.pf -> t401_stop(Idle(s))
      [] f.k = "DM" /\ s.state = "DATA" /\ (s.retry # 0 \/ ~f.pf) -> Idle(s)
      [] f.k = "UA" /\ s.state = "ESTABLISH" ->
           Report(t401_stop_t403_start([reset_lapm(s) EXCEPT !.state = "DATA"]), "CONNECTED")
      [] f.k = "UA" /\ s.state = "RELEASE" -> t401_stop(Idle(s))
      [] f.k = "XID" /\ s.configuring ->
           LET c == t401_stop([s EXCEPT !.configuring = FALSE])
           IN  IF s.state = "DATA"
               THEN tx_supervisory_frame([c EXCEPT !.lbusy = FALSE], TRUE, "RR", FALSE)
               ELSE lapm_connect(c)
      [] OTHER -> s

lapm_receive(s, f, has) ==
    CASE f.k = "I" -> receive_information_frame(s, f, has)
      [] f.k \in Supervisory ->
           IF ~InDataState(s) THEN valid_data_state(s)
           ELSE IF f.cmd THEN rx_supervisory_cmd_frame(valid_data_state(s), f, has)
           ELSE rx_supervisory_rsp_frame(valid_data_state(s), f)
      [] f.k \in Unnumbered ->
           IF f.cmd THEN rx_unnumbered_cmd_frame(s, f) ELSE rx_unnumbered_rsp_frame(s, f)

\* v42_rx_bit: while support is being detected frames are not looked for.
v42_rx_bit(x, has) ==
    /\ line[x] # <<>>
    /\ line' = [line EXCEPT ![x] = Tail(@)]
    /\ st' = IF st[x].state = "DETECT" THEN st
             ELSE [st EXCEPT ![x] = lapm_receive(@, Head(line[x]), has)]
    /\ UNCHANGED losses

Lose(x) ==
    /\ line[x] # <<>> /\ Head(line[x]).k \in MayLose /\ losses < MaxLoss
    /\ line' = [line EXCEPT ![x] = Tail(@)]
    /\ losses' = losses + 1
    /\ UNCHANGED st

-----------------------------------------------------------------------------
(* lapm_hdlc_underflow: the transmitter wants a frame.                       *)

Transmit(x, s, f) ==
    /\ Len(line[Peer(x)]) < LineCap
    /\ st' = [st EXCEPT ![x] = s]
    /\ line' = [line EXCEPT ![Peer(x)] = Append(@, f)]
    /\ UNCHANGED losses

UnderflowCtrl(x) ==
    /\ st[x].ctrl # <<>>
    /\ Transmit(x, [st[x] EXCEPT !.ctrl = Tail(@)], Head(st[x].ctrl))

MayFetch(s, has) == IF s.out < Len(s.info) THEN s ELSE Fetched(s, has)

UnderflowInfo(x) ==
    LET s == MayFetch(st[x], TRUE)
        t == [s EXCEPT !.out = @ + 1, !.vs = (@ + 1) % Mod]
    IN  /\ st[x].ctrl = <<>>
        /\ st[x].state = "DATA" /\ ~st[x].fbusy /\ ~st[x].configuring
        /\ s.out < Len(s.info)
        /\ Transmit(x, IF s.timer = "off" THEN t401_start(t) ELSE t,
                    [k |-> "I", cmd |-> TRUE, pf |-> FALSE,
                     ns |-> s.vs, nr |-> s.vr, msg |-> s.info[s.out + 1]])

-----------------------------------------------------------------------------
(* Timers.                                                                   *)

UnderWay == UNION {ToSet(line[x]) \cup ToSet(st[x].ctrl) : x \in Station}

\* T_401 is a second: no command or its answer is under way for so long.
NoCommandUnderWay == \A f \in UnderWay : f.k \notin Unnumbered

\* With Prompt the data timers, too, expire only when everything has arrived.
Quiet ==
    /\ UnderWay = {}
    /\ \A x \in Station : st[x].state = "DATA" => st[x].fbusy \/ st[x].out = Len(st[x].info)

Expiry(x, timer, s) ==
    /\ st[x].timer = timer
    /\ NoCommandUnderWay
    /\ Prompt => Quiet
    /\ st' = [st EXCEPT ![x] = s]
    /\ UNCHANGED <<line, losses>>

\* What t401_expired asks again.
AskAgain(s) ==
    IF s.configuring THEN transmit_xid(s, TRUE)
    ELSE CASE s.state = "ESTABLISH" -> tx_unnumbered_frame(s, TRUE, "SABME", TRUE)
           [] s.state = "RELEASE"   -> tx_unnumbered_frame(s, TRUE, "DISC", TRUE)
           [] s.state = "DATA"      -> tx_supervisory_frame(s, TRUE, Ready(s), TRUE)
           [] OTHER                 -> s

GiveUp(s) ==
    LET z == [s EXCEPT !.timer = "off", !.retry = 0]
    IN  CASE s.state \in {"ESTABLISH", "RELEASE"} -> Report([z EXCEPT !.state = "IDLE"], "DISCONNECTED")
          [] s.state = "DATA"                     -> lapm_disconnect(z)
          [] OTHER                                -> z

\* Fault: the tries are not counted.
t401_expired_for_ever(x) ==
    LET s == st[x]
    IN  Expiry(x, "T401", IF s.retry > N400 THEN GiveUp(s) ELSE AskAgain(s))

t401_expired(x) ==
    LET s == st[x]
    IN  Expiry(x, "T401", IF s.retry > N400 THEN GiveUp(s)
                          ELSE AskAgain([s EXCEPT !.retry = @ + 1]))

t403_expired(x) ==
    LET s == [st[x] EXCEPT !.timer = "off"]
    IN  Expiry(x, "T403", IF s.state # "DATA" THEN s
               ELSE [t401_start(tx_supervisory_frame(s, TRUE, Ready(s), TRUE)) EXCEPT !.retry = 1])

\* Its 384 bits are longer than the eight ADPs, of 36 bits, that may be to come.
SendingADPs == st[Answerer].state = "DETECT" /\ st[Answerer].odp

initiate_negotiation_expired(x) ==
    /\ st[x].timer = "start" /\ ~SendingADPs
    /\ st' = [st EXCEPT ![x] = lapm_config(@)]
    /\ UNCHANGED <<line, losses>>

-----------------------------------------------------------------------------
(* Support detection: the caller repeats its pattern (ODP) while it detects, *)
(* the answerer sends ten of its own (ADP) once it has seen two of those.    *)

restart_lapm(s, x) ==
    [Report(s, "IDLE") EXCEPT !.state = "IDLE",
                              !.timer = IF x = Caller THEN "start" ELSE "off"]

\* negotiation_rx_bit finds its pattern.  The caller needs two ADPs.
SeeODP ==
    /\ \A x \in Station : st[x].state = "DETECT"
    /\ ~st[Answerer].odp
    /\ st' = [st EXCEPT ![Answerer].odp = TRUE]
    /\ UNCHANGED <<line, losses>>

SeeADP ==
    /\ st[Caller].state = "DETECT" /\ st[Answerer].odp
    /\ st' = [st EXCEPT ![Caller] = restart_lapm(@, Caller)]
    /\ UNCHANGED <<line, losses>>

\* v42_support_negotiation_tx_bit: the tenth ADP is out.
ADPsSent ==
    /\ SendingADPs
    /\ st' = [st EXCEPT ![Answerer] = restart_lapm(@, Answerer)]
    /\ UNCHANGED <<line, losses>>

t400_expired(x) ==
    /\ st[x].state = "DETECT" /\ st[x].timer = "T400"
    /\ st' = [st EXCEPT ![x] = [Report(@, "UNSUPPORTED") EXCEPT !.state = "UNSUPPORTED",
                                                                !.timer = "off"]]
    /\ UNCHANGED <<line, losses>>

-----------------------------------------------------------------------------
(* The application.                                                          *)

\* It goes busy while connected, and is relieved at any time.
v42_set_local_busy_status(x, busy) ==
    /\ x \in BusyApp
    /\ busy => st[x].state = "DATA"
    /\ st[x].lbusy # busy
    /\ st' = [st EXCEPT ![x].lbusy = busy]
    /\ UNCHANGED <<line, losses>>

\* In any state, but (a bound) once.
v42_stop(x) ==
    /\ x \in Stopper /\ st[x].stopped = "no"
    /\ st' = [st EXCEPT ![x] = lapm_disconnect([@ EXCEPT !.timer = "off",
                                                    !.stopped = st[x].state])]
    /\ UNCHANGED <<line, losses>>

Next ==
    \/ \E x \in Station :
        \/ \E has \in BOOLEAN : v42_rx_bit(x, has)
        \/ Lose(x)
        \/ UnderflowCtrl(x) \/ UnderflowInfo(x)
        \/ t401_expired(x) \/ t403_expired(x) \/ t400_expired(x)
        \/ initiate_negotiation_expired(x)
        \/ \E busy \in BOOLEAN : v42_set_local_busy_status(x, busy)
        \/ v42_stop(x)
    \/ SeeODP \/ SeeADP \/ ADPsSent

Spec == Init /\ [][Next]_vars

\* The bit clock runs both ends, so that frames are sent and arrive, and timers
\* expire.  A data timer that would have to wait for what the other end's timer
\* has sent does so once it has arrived: hence strong fairness.
Fairness ==
    \A x \in Station :
        /\ WF_vars(\E has \in BOOLEAN : v42_rx_bit(x, has))
        /\ WF_vars(UnderflowCtrl(x) \/ UnderflowInfo(x))
        /\ SF_vars(t401_expired(x) \/ t403_expired(x))
        /\ WF_vars(t400_expired(x) \/ initiate_negotiation_expired(x))
    /\ WF_vars(ADPsSent)

LiveSpec == Spec /\ Fairness

-----------------------------------------------------------------------------
TypeOK ==
    /\ \A x \in Station :
        /\ st[x].state \in {"DETECT", "IDLE", "ESTABLISH", "DATA", "RELEASE", "UNSUPPORTED"}
        /\ {st[x].vs, st[x].va, st[x].vr} \subseteq 0 .. Mod - 1
        /\ st[x].retry \in 0 .. N400 + 1
        /\ st[x].timer \in {"off", "T400", "T401", "T403", "start"}
        /\ Len(st[x].ctrl) < CtrlFrames /\ Len(st[x].info) < InfoFrames
        /\ Len(line[x]) <= LineCap
    /\ losses \in 0 .. MaxLoss

\* The sequence variables and the buffer pointers move together: as many
\* frames lie between va and vs as between info_acked and info_get, and they
\* are never more than the window.
WindowIsBuffer ==
    \A x \in Station :
        /\ (st[x].vs - st[x].va) % Mod = st[x].out
        /\ st[x].out <= Len(st[x].info) /\ Len(st[x].info) <= K

\* An application is handed the frames of the other one in order, each once,
\* with none missing.
NothingSkipped ==
    \A x \in Station : \A i \in DOMAIN st[x].got : st[x].got[i] = i

\* A station lets go of a frame as acknowledged only when it has been handed
\* over at the other end.
AckedWasDelivered ==
    \A x \in Station : st[x].freed = 0 \/ st[x].freed \in ToSet(st[Peer(x)].got)

\* A frame that is sent again has the number it had: of what is under way, and
\* what is to be sent again, frames that are the same have the same number.
SameNumberAgain ==
    \A x \in Station : st[x].state = "DATA" =>
        \A i \in DOMAIN st[x].info : \A f \in ToSet(line[Peer(x)]) :
            f.k = "I" /\ f.msg = st[x].info[i] => f.ns = (st[x].va + i - 1) % Mod

\* The arithmetic of numbers and buffers agrees, wrap or no wrap, over every
\* acknowledgement, rejection and reset: what ack_info checks of a number it
\* is given says something about frames.
NumbersFollowFrames == WindowIsBuffer /\ SameNumberAgain

\* A station that waits for an answer or has a link always has a timer running,
\* so that a lost frame or a far end that is gone cannot hold it for ever.
AlwaysTimed ==
    \A x \in Station : st[x].state \in {"ESTABLISH", "DATA"} => st[x].timer \in {"T401", "T403"}

Stopped    == \E x \in Station : st[x].stopped # "no"
Taken(x,m) == st[x].taken >= m
Given(x,m) == m \in ToSet(st[Peer(x)].got)

\* While no application goes busy or stops the link, every frame taken from one
\* is handed to the other, whatever (bounded) the line loses.
EverythingArrives ==
    [](~Stopped /\ \A x \in Station : ~st[x].lbusy) =>
        \A x \in Station : \A m \in 1 .. MaxMsgs : Taken(x, m) ~> Given(x, m)

\* With busy applications the link may be cut, but not silently: every frame
\* arrives or its station reports that the link is gone.
ArrivesOrToldSo ==
    (\A x \in Station : <>[](~st[x].lbusy)) =>
        \A x \in Station : \A m \in 1 .. MaxMsgs :
            Taken(x, m) ~> (Given(x, m) \/ st[x].told = "DISCONNECTED")

\* Once an application has stopped a link, both ends come to the end of it.
StopEndsLink ==
    (\E x \in Station : st[x].stopped = "DATA") ~>
        (\A x \in Station : st[x].state = "IDLE")
=============================================================================

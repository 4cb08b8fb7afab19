# spandsp in TLA+

spandsp is a C library of telephony protocols and signal processing: fax (T.30, T.38),
modems (V.17 to V.34), modem relay (V.150.1, SPRT), error correction and compression
(V.42, V.42bis), tones, codecs. It is a library without threads, sockets or clocks of its
own: an application calls it with audio samples, bits, packets and the time, and it calls
the application back. What is hard in it is therefore the order in which those calls and
the far end's messages come, and the one structure two threads may use without a lock.

The modules in this directory model those parts. Every definition that models code is
mapped in `PROJECT.json` to the lines it stands for; names are the source's where that is
possible. A definition whose comment begins with *Fault:* is not in the code: it is a
plausible mistake (a dropped guard, a swapped order), used to see that a property would
notice it.

## 1. Inventory

Paths are relative to the repository. "Hard" says what a test has trouble reaching.

### 1.1 Core protocol logic

| part | state | operations | interacts by | hard | correct means |
|---|---|---|---|---|---|
| **Queue** `src/queue.c` | ring `data[]`, `iptr`, `optr`, flags | write, write_byte, write_msg; read, read_byte, read_msg, view, state_test_msg, contents, free_space, empty, flush | shared memory between one writing and one reading thread, no lock; used by DTMF, R2, T.31, T.38, V.8, V.80 | every load and store can interleave; block copies in two steps; messages read in pieces | the reader sees the octets and messages written, in order, once; no slot is written while it is read |
| **SPRT** `src/sprt.c` | per channel: send window, tries, timer list; receive window, busy flag; acknowledgement queue; TA01, TA02, immediate timer, the one requested callback | sprt_tx, sprt_rx_packet, sprt_timer_expired, sprt_set_local_busy, setters | UDP packets; application callbacks for packets, data, timers | loss, duplication, reordering, number wrap, busy while delivering, linked list of timers | each accepted message delivered once in order and its slot freed; every timer has a callback |
| **V.42 LAP-M** `src/v42.c` | state, vs/va/vr, retry, busy flags, ring of control frames, ring of information frames, one bit timer | rx_bit (each frame kind), tx underflow, T400/T401/T403, restart, stop, busy | HDLC frames over a bit line; iframe_get/iframe_put/status callbacks | lost frames in either direction, crossing commands, go-back-N, busy, release during anything | frames handed over in order with none missing; no silent loss; stop ends both ends |
| **V.150.1** `src/v150_1_sse.c`, `src/v150_1.c` | local, remote and acknowledged media state, repetition, t0, t1 and call discrimination timers, the one timer asked for | tx_sse_packet, rx_sse_packet, signals, timer | RTP packets; SPRT shares its timer; callbacks to the application | copies lost, both ends changing state at once, answers in the middle of repetition, three users of a timer | the last message arrives, a copy of what was heard last is not acted on again, no timer is forgotten |
| **T.30** `src/t30.c` | phase, state, step, T0–T8, ECM frame map, retries, page counts | hdlc_accept per state and frame, non-ECM data, timer update, front end status, phase handlers | modem front ends (audio or T.38), image codecs, application callbacks | some thirty states by some thirty messages, retries, RNR, ECM partial pages, EOR, CTC | every page received is confirmed once; a lost response is not a lost or doubled page; a call ends |
| **T.38 gateway** `src/t38_gateway.c`, `src/t38_core.c` | sequence numbers, ring of HDLC frames and indicators being filled and played, HDLC transmitter | packet in, modem's underflow, audio out; audio in, packet out | packets from the network, modem on the line | loss, lateness and repetition inside a frame; the modem runs as packets come | frames go out whole, in order, once, or spoilt; damage stays local; the gateway comes to rest |
| **T.38 non-ECM buffer** `src/t38_non_ecm_buffer.c` | ring, pointer to the last whole row, phase, zeros seen | inject, push, get_bit, set_mode | filled by packets, drained by the modem | bits of an EOL straddle octets; the modem never waits | rows go out whole and long enough; the end comes |
| **T.38 terminal** `src/t38_terminal.c` | timed steps | send/receive timers | T.30 above, packets below | rate and order of steps | T.30's frames and pages become packets as they are |
| **V.8, V.18** `src/v8.c`, `src/v18.c` | negotiation state and timers | bit and tone handlers, timers | modem_connect_tones, fsk | CM/JM/CJ repetition, timeouts | both ends choose the same modulation or know that they have not |
| **T.31, AT** `src/t31.c`, `src/at_interpreter.c` | DTE modem state, command line, buffers | at_rx, hdlc_accept, non-ECM get/put | T.30-like front end, queue | DTE and line run at their own pace | +FTH/+FRH data is whole; responses match commands |
| **HDLC, async** `src/hdlc.c`, `src/async.c` | bit shift registers, octet buffers, flags owed | rx bit/byte, tx frame, tx flags, get bit | V.42, T.30, T.38 | frame abort, underflow, flag counts | a frame comes out as it went in or is dropped |
| **V.42bis, V.80** | dictionaries; in-band command state | compress, decompress, flush | V.42, SPRT | sender's and receiver's dictionaries in step | data comes out as it went in |
| **Scheduler** `src/schedule.c` | table of events, time | schedule_event, del, next, update | callbacks that schedule again | an index may be of another event by now | an event fires once, at its time |
| **Playout** `src/playout.c` | linked list of frames, delay estimates | put, get, restart | application | reordered, late frames | frames come out by timestamp |

### 1.2 The rest

Tones and signalling (`dtmf.c`, `bell_r2_mf.c`, `super_tone_*.c`, `sig_tone.c`,
`modem_connect_tones.c`, `adsi.c`, `ademco_contactid.c`), modems (`v17*`, `v22bis*`,
`v27ter*`, `v29*`, `v32bis`, `v34*`, `fsk`, `fax_modems.c`, `data_modems.c`, `fax.c`),
codecs for voice and images (`g711` … `oki_adpcm`, `gsm0610_*`, `lpc10_*`, `t4_*`, `t42`,
`t43`, `t81_t82`, `t85_*`, `image_translate.c`), signal processing helpers and utilities,
build-time table generators, tests, simulator and example applications. Their decisions
depend on filtered samples, or they are sequential transformations of large data, or they
hold no protocol state; none is modelled. `PROJECT.json` lists each with its reason.

### 1.3 How the parts fit

An application that carries a modem call uses SSE to agree that both gateways relay, then
SPRT channels to carry modem data; V.42 (with V.42bis) terminates the modem's error
correction at each gateway. A fax call runs T.30 over audio modems and HDLC, or over T.38
packets; the gateway sits between both. All of them run on the caller's thread. The queue
is the only structure built for two.

## 2. Modules

| module | models | role |
|---|---|---|
| `QueueFifo` | what a queue of octets promises: write, read, drop, atomically | abstract specification |
| `Queue` | `queue.c`: the ring, pointer by pointer and octet by octet | implements `QueueFifo` |
| `QueueMsg` | the message functions of `queue.c` over `Queue` | extends `Queue` |
| `CommonLemmas` | lemmas about `%`, least numbers, `Min`, `Max` and `FlattenSeq` | used by the proofs |
| `QueueProofs` | theorems of `Queue` and of `QueueMsg` | TLAPS |
| `SprtChannel` | what a reliable SPRT channel promises | abstract specification |
| `Sprt` | two SPRT endpoints and the packet network | implements `SprtChannel` |
| `SprtProofs` | theorems of `Sprt` | TLAPS |
| `SprtTimers` | the timers of one SPRT endpoint in real time | stands beside `Sprt` |
| `SprtTimersProofs` | theorems of `SprtTimers` | TLAPS |
| `Lapm` | two V.42 stations and the line between them | detailed specification |
| `LapmProofs` | theorems about each station of `Lapm` | TLAPS |
| `LapmDeliveryProofs` | theorems about a link of `Lapm`, both stations | TLAPS |
| `T30Core` | phases, frames, timers and the half duplex line of a T.30 call | shared by the next two |
| `T30Ecm` | two T.30 terminals in the image part of an error corrected call | composes both ends and the line |
| `T30EcmProofs` | theorems of `T30Ecm` | TLAPS |
| `T30NonEcm` | two T.30 terminals in a whole call without error correction | composes both ends and the line |
| `T38Gateway` | a fax machine, two T.38 gateways and the packet network, in one direction | composes `t38_gateway.c`, `t38_core.c`, `hdlc.c` |
| `T38NonEcm` | the rate adapting buffer, bit arithmetic included, between packets and a fax machine | detailed specification |
| `V150` | two V.150.1 endpoints: media states, SSE, the shared timer | composes `v150_1.c` and `v150_1_sse.c` |
| `V150Proofs` | theorems of `V150` | TLAPS |
| `MCQueue`, `MCQueueMsg`, `MCSprt`, `MCSprtTimers`, `MCLapm`, `MCT30Ecm`, `MCT30NonEcm`, `MCT38Gateway`, `MCT38NonEcm`, `MCV150` | instances for TLC | |

Each module has a `TypeOK`, which says what its state is made of and is where its proofs
start; the runs check what can go wrong beyond that.

### 2.1 Queue

`data`, `iptr`, `optr` are the fields of `queue_state_t`. Each thread has a program
counter and its snapshots of the two pointers, because that is what the C code keeps in
locals: `queue_write` reads both pointers (`queue_write`, `queue_write_byte`), copies the
block (`WriteCopy`, one step an octet, in any order: memcpy gives none) and stores `iptr`
(`WritePublish`). `queue_read`, `queue_read_byte` and `queue_view` are the same on the
other side; a view ends without a store. `queue_flush` loads `iptr` and stores `optr` in
two steps, as the code does. `queue_free_space` and `queue_contents` record what the
caller was told, until it acts on it, so that a property can ask if it is still true.
The two-step copies and the wrap of the pointer are written out (`WriteSlot`, `NewIptr`,
`ReadSlot`, `NewOptr`). The memory is one memory that every thread sees alike: `volatile`
gives less than that on a weakly ordered machine, which is listed as a hazard and is not
modelled.

`QueueMsg` adds `queue_write_msg` (one block: length, octets), and `queue_read_msg` and
`queue_state_test_msg` as the several `queue_read`/`queue_view` calls they make, with the
writer free to run between them, truncation of a message longer than the caller's buffer,
and a ghost list of the messages written. The length's two octets are digits in `Base`
(256 in the code, 2 in the run, so that both digits are used by short messages).

### 2.2 SPRT

`tx`, `rx`, `ackq`, `imm` are `s->tx.chan[]`, `s->rx.chan[]`, `s->tx.ack_queue`,
`s->tx.immediate_timer`. Actions: `sprt_tx`, `sprt_rx_packet` (acknowledgements taken,
window check, store or repeat, in-order delivery with the application changing its busy
flag inside a delivery, window moved), the expiry of a retransmission, holdoff, keepalive
or immediate timer, `sprt_set_local_busy`, and the network's loss. Any running timer may
expire in any state: the safety runs are about all timings. The network delivers any packet
under way, in any order, loses it, and in `sprt_window` delivers it again; it outlives no
sequence number (`InTime`), which 2^14 numbers and the life of a UDP packet justify. With
`First` near the end of the number space the numbers wrap within a run. When the last try
of a message has been made the model (with `GiveUp = FALSE`) waits for its acknowledgement:
the code abandons the message in its slot and, after that, the channel; losing every try is
the limit of what the protocol promises, not part of the properties.

`SprtTimers` has the clock, the doubly linked list `prev_in_time`/`next_in_time` with its
0xFF tags, `tr03_timer`, `ta02_timer`, `ta01_timer`, the immediate timer and
`latest_timer`. `update_timer` is an operator used where the code calls it, so that a path
that forgets to is seen. An acknowledgement may come when the last try has been made; if
the code then unlinks an entry that is in no list (3.3) `stray` records it, and nothing is
claimed of the list from there on.

### 2.3 LAP-M

One record per station holds `lapm_state_t`, the timer and history. Each handler of the
code is an operator from the record to the record it leaves
(`receive_information_frame`, `rx_supervisory_cmd_frame`, `rx_supervisory_rsp_frame`,
`rx_unnumbered_cmd_frame`, `rx_unnumbered_rsp_frame`, `t401_expired`, `ack_info`,
`reject_info`, …), and they call each other as the code does. `v42_rx_bit` takes the next
frame of the line through them, `UnderflowCtrl` and `UnderflowInfo` are
`lapm_hdlc_underflow`. The control ring drops what it has no room for. The line keeps
frames in order, loses those that `MayLose` names, and holds `LineCap` in each direction.
`SeeODP`, `SeeADP`, `ADPsSent` and `t400_expired` are support detection at the level of its
patterns. Timing is in the guards of the timers: T401 is a second, and with commands or
their answers under way (a few octets each) it does not expire (`NoCommandUnderWay`); with
`Prompt` the data timers, too, wait until everything sent has arrived; without, they may
expire at any time. With detection, the 384 bits before the caller's XID are longer than
what the answerer's remaining patterns take (`SendingADPs`).

Left out: the bit patterns, frame contents and lengths, XID parameters (only the defaults
can be set; they are the same at both ends), and a `v42_restart` of a used context.

### 2.4 The ECM exchange of T.30

`t30[e]` is the `t30_state_t` of an end; its fields have the source's names where they
stand for one field (`state`, `phase`, `next_phase`, `step`, `ecm_len`, `ecm_frames`,
`ecm_block`, `ppr_count`, `retries`, `short_train`, …). `ecm_len[i]` holds which frame of the document
is in place `i` of the buffer, or `None` for the code's -1; `put` is all that the T.4 decoder
was given; `out` holds the HDLC frame last given to the front end. Each handler of `t30.c`
is an operator with the handler's name: `process_state_f_doc_and_post_doc_ecm`,
`process_rx_pps`, `process_rx_ppr`, `process_state_iv_ctc`, `repeat_last_command`,
`timer_t2_expired`, and so on; `hdlc_accept`, `carrier_up`, `framing_ok`, `carrier_down`,
`send_step_complete` are the calls of the front end. T2, T4 and their variants share one
timer, as in the code.

The model begins at the CFR that starts the first page, and ends when both ends have
finished, or when the sender, back in phase B after an EOM, sends its DCS. The document is
given as pages of blocks of frames. `losses` counts what the line has lost, by kind.

*The line.* Half duplex: a carrier of one end is noticed by the other at its start
(`CarrierUp`) or not at all, the fast modem trains only if both ends agree on the fallback
and on short or long training (`TrainingFailed`), a frame arrives, is spoilt
(`hdlc_accept_bad`), or finds nobody listening (`Transmit`), and the carrier's end is
seen before anything else happens (`CarrierDown`). Frames take no time of their own.
Time passes while nobody signals, and while image data is sent that cannot be heard; a
full block of 256 frames may also outlast T1A (35 seconds), which then ends the call if not one frame
of it was good. T5 (60 seconds) may expire whenever it runs. Of the other timers only the order
of their lengths counts.

*Left out:* operator interrupts (PRI-Q, PIN, PIP), FNV, SSL FAX, polling, the frames before
DIS and DCS, statistics, frame lengths, and the echo of one's own PPS, which this line has not.

`T30Core` holds what this exchange shares with the next: `set_phase` and `queue_phase`,
the timers, the reports of the HDLC receiver, the end of the call, the line.

### 2.5 A T.30 call without error correction

`T30NonEcm` begins when both ends enter phase A and has every state of such a call:
T, R, D, D_POST_TCF, I, II_Q at the sender, R, F_TCF, F_CFR, F_FTT, F_DOC_NON_ECM,
F_POST_DOC_NON_ECM, III_Q at the receiver, and B, C for the end. The handlers have their
names (`process_rx_dis_dtc`, `process_state_ii_q`, `process_state_f_doc_non_ecm`,
`assess_copy_quality`, `restart_sending_document`, …). Fast data are two items of the line,
a training and then a TCF or the image of a page; the ends share the fallback entry only by what DCS says.
An image arrives good, poor or bad (`Quality`), a test passes or fails, a training may not be
noticed; where a page's image is not noticed at all this is counted apart (`unseen`), see 3.3.
`page` is the page the sender works on, `confirmed` its count of pages transferred,
`pages` what the receiver's decoder was given. The document is its pages' formats: equal formats are
joined by MPS, others by EOM.

*Left out:* identification and other frames before a DIS or DCS, polling, operator interrupts,
FNV, SSL FAX, bad pages that are kept, calls without TCF, and clicks taken for the start of
a training.

### 2.6 The T.38 gateway

One direction end to end. `Source` is a fax machine and the gateway that hears it: flags or training, frames of
chunks, a CRC that is good or bad, aborts, carriers that drop (`rx_flag_or_abort`,
`t38_hdlc_rx_put_bit`, `hdlc_rx_status`), put out as packets (`emit`). The end of a frame is said once (`FrameEnd`), the end of a
signal once more, when the carrier goes (`CarrierDown`); that of unframed data bears what does not fill a packet (`Left`,
`non_ecm_push_residue`). Some calls have a T.38 terminal for a sender, whose last frame and signal end in one packet
(`TerminalEnd`); its pace is taken to be the gateway's. `Send` is the network: a packet
jitters, is lost or so late as to be useless, or comes twice. Indicators and ends of signals go out in copies under one number, and
what is lost is lost with all of them. (A packet's field `at`, its burst and frame, is for the properties only.) `Receive` is `t38_core_rx_ifp_packet`
(`classify_seq_no_offset`, missing packets reported, late ones dropped) and then
`process_rx_indicator`, `process_rx_missing` or `process_rx_data` on the record `gw`: the
ring `buf` of frames and indicators with `in` and `out`, the modem that runs, and the HDLC
transmitter `tx` of `hdlc.c`. `Tick` is a chunk of time on both lines: `t38_gateway_tx`, with the
underflow handler called when the transmitter has nothing left. A chunk stands for what
fills a data packet; `heard` is what the far machine makes of what is played.

*Left out:* tones, TCF, the editing and monitoring of control messages, the other direction
(which is the same code on the other side), and IFP encoding.

### 2.7 The non-ECM buffer

`s` is `t38_non_ecm_buffer_state_t`. `inject` goes octet by octet through the four phases
(`in_tcf`, `first_eol`, `in_image`, …) with the code's arithmetic on leading and trailing zeros, in
octets of `W` bits and EOLs of `Z` zeros and a one. `Hear` is a fax machine: what it makes of the octets injected is
`given`, of those played `played`. The modem takes an octet whenever it likes; packets come
whenever they like.

### 2.8 V.150.1

An endpoint's record holds `v150_1_state_t` and its SSE part: the media states, `saved` (the
message that is repeated), `rep`, `t0`, `t1`, `cd`, `sprt` for the times at which something
is due, `host` for what the application was asked for. `state_machine` goes through figures
26 to 40 as the code does; `rx_sse_packet`, `tx_sse_packet`, `update_media_states`,
`sse_timer_expired`, `call_discrimination_timer_expired`, `timer_expired` and `select_timer`
are the functions of those names. SPRT is a third user of the timer, and nothing more.
Repeats carry the stamp of their message, as the comment at src/src/v150_1_sse.c:965 wants it
(a receiver drops what has a known stamp). Where neither method was agreed on, an answer is written over the message
it answers under the same stamp; nothing is repeated then, and `RepeatsAreCopies` does not speak of it.
Messages ride RTP over UDP: `RxSse` takes any packet under way, past others that were sent before it.
`order` is history and no part of the code: the latest stamp to have come to an end, and how many packets came after a later one.

*Left out:* SPRT messages of modem relay, recovery timers and the immediate timer, which the
code never sets.

## 3. Runs

Numbers are distinct states on the configurations in this directory.

| run | instance | asks |
|---|---|---|
| `queue` | ring of 4, 2 octet values, blocks to 3 (87 thousand) | `QueueInv` (the inductive invariant), `NoOverlap`, refinement of `QueueFifo` |
| `queue_msg` | ring of 6, messages of 0 to 2 octets (138 thousand) | `Framing`, `ReadMsgReturnsOldest` |
| `sprt_window` | window 3, 10 numbers starting at 8, 3 messages, loss, duplicates, reordering | `SameNumberAgain`, refinement of `SprtChannel` |
| `sprt_live` | window 3, 5 messages, loss, reordering, applications that become busy as they are handed messages (15 thousand) | `NothingLost`, `NoStrandedMessage`, `EverythingArrives` |
| `sprt_timers` | window 3, 2 tries, 9 ticks, acknowledgements at any time (55 thousand) | `ListOfUnacked`, `CallbackCoversTimers`, `OnTime` |
| `lapm` | k = 2, modulo 5, 6 frames, N400 = 0, 1 loss, data timers at any time (1 million) | `NumbersFollowFrames`, `NothingSkipped`, `AckedWasDelivered`, `AlwaysTimed` |
| `lapm_live` | detection, a busy answerer, a caller that may stop, 1 loss (29 thousand) | `EverythingArrives`, `ArrivesOrToldSo`, `StopEndsLink` |
| `t30_ecm` | a page of two blocks and one of a block, blocks of 2, 3 tries, 2 PPRs before CTC, 1 fallback, 3 losses of any kind (98 thousand) | `DeliveredInOrder`, `LockStep`, `GoodEndMeansWhole`, `CallEnds`, `WholeDocumentArrives` |
| `t30_nonecm` | three pages (MPS, EOM, EOP), 3 tries, 1 fallback, sender able to retransmit or not, 3 losses of any kind (202 thousand) | `InOrderOnce`, `CountsAgree`, `GoodEndMeansWhole`, `CallEnds`, `WholeDocumentArrives` |
| `t38_gateway` | eight calls: control messages and image data in either order, framed or not, with an abort, bad CRCs, carriers that drop, a page shorter than a packet, two from a terminal; any 1 packet lost with all its copies, 1 repeat, jitter (157 thousand) | `GoodFrameIsWhole`, `InOrderOnce`, `DamageIsLocal`, `FallsSilent` |
| `t38_nonecm` | every stream of 8 image or 4 TCF octets of two bits, two bursts (278 thousand) | `PlaysWhatWasGiven`, `Drains` |
| `v150` | one message and one signal, three copies or acknowledgement with two resends, an SPRT timer, 1 loss, 1 packet after a later one (1.06 million) | `RepeatsAreCopies`, `AnsweredOnce`, `ResendIsTimed`, `LastWordArrives` |

Each property has a mutant in `PROJECT.json`, a fault of the model under which the run finds
the property broken.

### 3.1 Why the bounds are enough

*Queue.* A ring of four with requests of up to three octets, i.e. its whole capacity: blocks that fit before the end,
end exactly at it, wrap, fill the ring, are cut or refused. Pointers wrap because
the run has no bound in time: the state space is closed. Larger rings only add positions.
The proofs (section 4) hold for every size.

*SPRT.* A window of three is the smallest in which a gap, a message behind it and one not
yet sent differ; sequence numbers begin two before the wrap. `SeqSpace` is as small as the
code's comparison (more than two windows and one) allows, so confusion of old with new would show at once. Two
packets to one end are enough to reorder. Five messages in `sprt_live` are one more than
the busy application's window holds beyond the message that made it busy: the last is
dropped unanswered, and must come again. Its `LiveNext` lets the last copy of a message meet
an application that is ready: see 3.3 for what happens otherwise.

*SPRT timers.* With a window of three at most two messages are under way, so an entry is the first, the last or the only one of the list;
that one in the middle is unlinked rightly is shown by the proof, for every window (section 4). A resend that unlinks what is no longer in the
list (`stray`, 3.3) is excluded. Nine ticks span two retransmission periods, two keepalives and several holdoffs.

*LAP-M.* k = 2 and modulo 5 (`> 2k`) with six frames: numbers wrap, the buffer of
`k + 1` wraps, and go-back-N repeats one or two frames. One loss of any kind is combined
with timers that expire at any moment, which itself repeats polls and crosses answers.
`CtrlFrames = 2` in `lapm` makes the control ring overflow. In `lapm_live` one loss and one
retry are matched as the code's four tries are to a line that now and then works; more
loss than retries ends in a report, which `ArrivesOrToldSo` includes.

*T.30.* A block of two frames has a frame good and a frame bad; the document has a partial
page that is not the last (PPS-NULL), a page that is not the last (PPS-MPS) and an end (EOP,
EOM), with page and block numbers that wrap (`Mod` = 2). With two PPRs before a CTC, two losses
reach the change of modem and a third disturbs it; a further PPR exhausts the fallbacks and reaches EOR.
The call of `t30_set_receiver_not_ready` counts as a loss and may come whenever image data
may. (Four losses, 350 thousand states, show nothing new.)

*T.30 without ECM.* Three pages are the fewest that need an MPS, an EOM and an EOP. Three
losses reach: a command repeated and its answer lost again, a fallback that only one end made,
a page refused and its retraining disturbed, and a call given up. One fallback can be used up. The tries
are the code's three; with fewer tries than losses the receiver's half of `GoodEndMeansWhole` fails (3.3).

*T.38 gateway.* Frames lie on either side of `StartLevel`: some wait to be whole, some are
played as they come. The numbers wrap in the call, the ring of frames goes round, and the one loss
can hit each packet: indicators, data, ends of frames and ends of signals, with all copies of it. A frame that has lost its end runs into the
next, or into the end of its burst. A call may begin with the image, so that control messages meet a modem that stalled.
What the code does not survive is named in the properties by its cause (`StartedOn`, `Unannounced`, `Stalled`, `Spoilt`), and each of the
exceptions is met in the run: without any one of them TLC finds a counterexample. With two losses `GoodFrameIsWhole` fails (3.3).

*Non-ECM buffer.* With octets of two bits and EOLs of four, an EOL starts at either place of an octet and spans two or
three; eight octets hold several rows, or a row and an RTC. The ring of 9 wraps. The first
burst may be a TCF and the second an image, or the other way round.

*V.150.1.* One message from each end lets them cross, with an answer (P') that replaces one
being repeated; three copies have a first, a middle and a last. One packet to one end comes after a later one, which
brings what the code takes for news; the other direction is in order, to keep the run within minutes. The signal `CM` is
the one that changes both states and starts call discrimination. `Until`, `Backlog` and one SPRT
timer keep the clock finite: time only goes on while something is due.

`CHECK_DEADLOCK FALSE` is given where the system really comes to rest: all messages of the
bound delivered, the clock stopped, or both stations idle.

### 3.2 Fairness

`sprt_live`: the timeout that the endpoint asked for comes (the application is obliged to
call `sprt_timer_expired`), a packet not lost is delivered, an application does not stay
busy for ever. Not every copy of a message is lost: that is in the bound on tries.
`lapm_live`: the bit clock of the modem runs both ends, hence frames in the ring are sent
(`UnderflowCtrl`, `UnderflowInfo`), frames on the line arrive and timers expire.
T401 and T403 have strong fairness because `Prompt` interrupts their being enabled each
time the other end transmits. Applications owe nothing: `EverythingArrives` and
`ArrivesOrToldSo` state in their hypotheses what they need of them. The application is
never obliged to go busy, be relieved or stop.

`t30_ecm`, `t30_nonecm`, `t38_gateway`: `WF_vars(Next)`, i.e. the front end and the clock do not stop while
they have anything to do. That is the obligation of the application that feeds samples;
which of several things it does first is left open. `HangUp` is the application's part at
the end: it sees that the far end has gone, and calls `t30_terminate`. In `t38_gateway` a `Tick` is a
chunk of audio: the line never stops, and the model rests when the call is over.

`t38_nonecm`: the modem asks for octets as long as it sends (`WF_vars(GetOctet)`); packets owe nothing.

`v150`: the clock goes on, packets that are not lost arrive, the timer asked for fires. They are
written with the conditions under which they are owed, in place of ENABLED.

### 3.3 Behaviours noticed

What was met while modelling, where the code does other than one would expect, and what of it
the runs leave out. Each is in the module; none has a run.

*LAP-M: a lost UA.* (src/src/v42.c:876.) The UA is lost; the answerer is already in LAPM_DATA and
sends its first frame; the caller takes that frame as the sign that the link is up and delivers it; its
repeated SABME, already queued, resets the answerer's variables but not its own. The answerer's next frame
has NS = 0, the caller expects 1, and its REJ acknowledges that frame. It is lost without a
report. `lapm` therefore excludes the loss of a UA and of nothing else.

*SPRT: an acknowledgement after the last try.* When a message's tries are spent it leaves the timer list but keeps its
slot. If its acknowledgement arrives later, while another message is in the list,
`delete_timer_queue_entry` (src/src/sprt.c:480, under the comment "This should be harmless")
unlinks it with its tags 0xFF as indices, outside the arrays of the window. `sprt_timers` goes there, and
`ListOfUnacked` and the others speak of the list until then.

*T.30, ECM: the answer to the last PPS.* The receiver of the last block answers MCF and waits for DCN in
F_POST_RCP_MCF. If the MCF is lost the sender repeats its PPS-EOP. `process_rx_pps` has a
branch for just this (src/src/t30.c:3423), but in F_POST_RCP_MCF (line 4465) the frame is
unexpected: DCN, with an error at both ends, for a document that arrived whole.
`GoodEndMeansWhole` allows it, and `WholeDocumentArrives` speaks of the document, not of what is reported.

*T.30, ECM: command repeats.* With T30_SUPPORT_COMMAND_REPEAT a bad frame is answered with CRP. When that frame is a CTR, the
receiver of the CRP is in F_DOC_ECM and `repeat_last_command` has nothing to repeat there; its T2 was
stopped by the good CRP. The sender's T4 expires in IV_CTC, for which `repeat_last_command` has no case
either, and nothing starts a timer. Both ends wait for ever. `t30_ecm` is without CRP, as the code is by default.

*T.30, non-ECM: a page nobody saw.* If the carrier of a page goes by unnoticed and an MPS follows, the receiver takes
that for a repeat ("This appears to be a retry", src/src/t30.c:4195) and sends its last MCF again: the page is lost and
both ends report success. `losses.unseen` counts such pages; the safety properties are stated of
calls without.

*T.30, non-ECM: an EOP to a bad page.* `end_of_procedure_detected` is set when the EOP is heard (src/src/t30.c:4338), before the page
is judged. If the page is refused, the RTN is lost until the sender gives up, and the sender's DCN is lost too, `t30_terminate` finds the flag
set and leaves the status OK: the receiver reports success without the last page. TLC finds this with two tries and four losses. In
`t30_nonecm` the three tries outlast the three losses.

*V.150.1: the last repetition.* It clears `repetition_timer` without `update_timer`
(src/src/v150_1_sse.c:1424), so that `sse_timer` stays in the past: the application's timer is not asked for
again, and what SPRT set before then is not served, although v150_1.c:4223 says that the earliest active
timer is what is asked for. `ResendIsTimed` is about the timers of repeats and resends.

*V.150.1: a late packet is news.* A comment says that the application "weeds out all out of sequence messages" or that
sequence numbers let them be ignored (src/src/v150_1_sse.c:949-951); the code compares a packet's timestamp with that of the packet before it
and nothing else (src/src/v150_1_sse.c:966). A copy that comes after a later message is acted on and answered again, and so is the
next copy of the later one; if the late copy is the last of all to come, the far end's state stays what it was then.
`AnsweredOnce` allows each late packet one more action on every message; `LastWordArrives` excludes `Overtaken`.

*T.38 gateway: a control frame that has set out and loses its end.* Control messages start on the line before they are whole. If the
carrier drops inside one, or its end of frame is lost and the signal ends next, the queue slot is cleared with the record of
what was missing (src/src/t38_gateway.c:1331, with a TODO that asks what happens then), the transmitter keeps its copy, runs out of octets and
ends it with a correct CRC. A shortened message, or one whose own CRC was bad, is heard as a good one, after a single loss or none.
`GoodFrameIsWhole` has it as `StartedOn`, for the last frame of a burst.

*T.38 gateway: an indicator of V.21 is lost.* The data that follow queue it, and the modem is started when it comes to be played; that
clears the slot then being filled (`set_next_tx_type`), so what had come of the first frame is thrown away, and the rest
may go out with a good CRC. `GoodFrameIsWhole` allows that (`Unannounced`).

*T.38 gateway: a modem that is not told to stop.* It plays flags or fill, and all that comes later waits in the queue, if the end of
unframed data is lost; if a joint end of frame and signal is lost, or the end of a signal that dropped, and the frame had not set out; or if unframed data
are less than a packet (or nothing but a stand-in for the lost indicator came of them), since their end then finds no class of unframed data.
`Stalled` names these bursts, and `DamageIsLocal` and `FallsSilent` are stated of the rest.

More of them:

- A busy application's RNR with its final bit that crosses information frames makes the far
  end rewind `vs` below what was accepted; the next acknowledgement lies beyond `vs` and
  `ack_info` cuts the link. No loss is needed. `ArrivesOrToldSo` allows it, since it is
  reported; `EverythingArrives` excludes busy applications for it.
- `v42_stop` during the XID exchange: the XID response stops the timer of the DISC. If the
  DISC is lost the station stays in LAPM_RELEASE. `StopEndsLink` speaks of links in LAPM_DATA.
- A REJ whose NR is not valid starts T403 in LAPM_RELEASE, where its expiry does nothing.
- An answerer that stops before the SABME comes is connected again by it; `rejected`
  survives `reset_lapm`; XID retries that run out in LAPM_IDLE are not reported.
- SPRT: late calls of `sprt_timer_expired`, or a TR03 changed in a session, take the timer
  list out of order, and `update_timer` only looks at its head. `sprt_timers` has
  `MaxLate = 0` and one TR03.
- SPRT: a receiver that stays busy for all tries of a message beyond its window makes the
  sender abandon it. `LiveNext` excludes that.
- LAP-M: the comment on T403 says "10 seconds with no packets". A frame sent on a link on
  which T403 runs starts no T401, so a lost frame or acknowledgement is noticed after ten
  seconds, not after one.
- T.30: a PPR that is the deferred response, after RNR and RR, is not known to
  `process_state_iv_pps_rnr`: one bad frame and a receiver not ready end the call.
- T.30: `repeat_last_command` repeats no CTC or EOR: one lost CTR or ERR ends the call (T4,
  then T2 at the other end), as `CallEnds` shows it does, without CRP.
- T.30: a repeated PPS that is lost while image data is awaited leaves T2 at 200ms after its
  carrier; the receiver then sends DIS into the call.
- T.30: after CTC and CTR the sender returns to short training with its first RCP, the
  receiver with its first good FCD: if every FCD of that burst is bad they disagree from then on.
- T.30: `process_rx_control_msg` restarts the timer on frames that are not final according to
  `timer_t2_t4_is`, which `t30_hdlc_accept` has just set to idle.
- T.30, non-ECM: III_Q has no case for DCS: after an RTN to an EOP, "fresh training, and then
  repeat the last page" is answered with DCN. After an RTN to an EOM a retransmitting sender waits for a DIS, which
  II_Q takes for an invalid command, and no timer runs at its end.
- T.30, non-ECM: after an RTN to an MPS a sender that cannot retransmit is to "Send the next page, regardless"; `tx_start_page`
  without `tx_end_page` sends the same one. After an EOM it skips one, and it reports success after an
  RTN to the EOP if an earlier page was confirmed: the properties about it are stated of senders that can retransmit.
- T.30, non-ECM: the receiver's count of retries is not reset by success. An EOP or EOM taken as a repeat in
  F_DOC_NON_ECM leaves `next_rx_step` at MPS. A TCF that is not seen costs the call: the DCS repeated
  after T4 meets F_TCF. A page longer than T2 whose training fails has a DIS sent into it. A receiver that has answered an
  EOM and hears DCN reports success.
- T.38 gateway: two losses near each other let a truncated or merged frame out with a good CRC. A carrier that brings no
  frame leaves flags for the rest of the call. The sequence of 256 frames is not guarded against overtaking itself.
- Non-ECM buffer: the first row counts as an octet shorter than it is; nothing keeps the ring from wrapping over what has not
  gone out (the code's TODO).
- V.150.1: "must respond" in a mode that the end is in already is not answered. With acknowledgement, t1 is dead after the
  resends are used up, and where it is shorter than all of t0's a stale t1 stops the resends. An
  acknowledgement of A that is remembered over a change to B and back stops the resends of A.
  Glare may swap the states for good. The event's number is passed where a signal's is expected. The call
  discrimination timer is not cleared when it expires. `Disturbed` names what of these
  `LastWordArrives` excludes.
- `queue_write_msg` with 65536 octets or more stores the length modulo 65536.

## 4. Proofs

### Queue

`QueueProofs` proves, for every ring size, octet set, request bound and both flags:

- `QueueInvariant`: `Spec => []QueueInv`;
- `QueueNoOverlap`: `Spec => []NoOverlap`;
- `QueueIsFifo`: `Spec => FifoRefinement`, the ring implements `QueueFifo`.

The only assumption is `QueueAssumption` (the ring has a slot, the bound is a number, flags are
Booleans), which the runs evaluate.

*The inductive invariant.* That pointers are in range says nothing about interleaving: the
writer decides where to copy from a snapshot of `optr`, which the reader has since moved.
`QueueInv` says what survives: the writer's `wi` is still `iptr`; its `wo` lies
between the octets queued and its own block, going around the ring; so the block still fits in what is free now
(the reader can only have made more room); the octets in `wdone` are in their slots; and
symmetrically for the reader and its copied octets, and for what callers were told.
Each action then has one step: the writer's steps cannot disturb the reader's part, because
`FreeSlotsAreNotQueued`, and the reader's only widen the writer's room. `RingArithmetic`
collects the facts about distances around the ring (what `FreeSpace` and `Contents` mean as
distances modulo `QLen`), `WriteSlotIsWrap` that the two-step copy
is a copy modulo `QLen`. Both are proved by cases, not with `%`, which the SMT backend
does poorly on a symbolic modulus.

*The refinement.* The abstract queue is the sequence of octets from `optr` to `iptr`. A copy
maps to a stutter, a publish to an append of the block (`WriterImplementsFifo`), a read's
publish to the removal of what was copied, which is a prefix (`CopiedIsPrefix`), a flush to
a removal of some of the oldest octets: not of all, for the writer may have published in between
(`FlushAdvances`, `ReaderImplementsFifo`).

### Message queue

`QueueProofs` also proves, for every ring, base of octets, set of messages, buffer length and both flags:

- `MsgTypesAlways`: `MsgSpec => []MsgTypeOK`;
- `FramingAlways`: `MsgSpec => []Framing`;
- `OldestIsRead`: `MsgSpec => ReadMsgReturnsOldest`, an action property.

`MsgAssumption` says that octets are digits of `Base` and that a message is shorter than
`Base * Base`: its length is stored in a `uint16_t`, and a longer message breaks the framing (3.3).

*The inductive invariant* `MsgInv` adds to `QueueInv`, of which each step is a step of `Queue`, what is
in the queue at each place of the reader's call (`Place`): whole messages before and at the length, then what
`Remains` of the oldest in front of the others; what a flush will drop ends where a message ends, though
the writer adds others behind it; and that a block being written is a message with its length (`Written`). From it
follows that a piece after the length is always found whole (`PieceThere`), so that the early returns of `queue_read_msg`
are never taken there: the writer publishes a message with one store. The octets of a list of messages are a
`FlattenSeq`, which is a recursive function: `Sums` are sequences that satisfy its equation, and that it is they
is shown by a least index at which it were not (`FlattenIsSum`).

### SPRT

`SprtProofs` proves, for every window, size of the number space, first number, number of
messages, and for networks that lose, reorder and (with `Dup`) duplicate:

- `SprtTypes`: `Spec => []TypeOK`;
- `SameNumberAlways`, `NothingIsLost`, `NoneIsStranded`: the three safety invariants of the runs;
- `SprtImplementsChannel`: `Spec => ReliableChannel`, two endpoints and the network implement `SprtChannel`;
- `LiveIsSafe`: `LiveSpec => Spec`, hence all of it holds of the run with fairness.

They rest on the assumptions that `Sprt` states about its constants (the one that matters is that the numbers exceed two of the largest windows
and one of those in use) and on `InTime`, the guard of the network (2.2).

*The inductive invariant.* `SprtInv` says of each endpoint that the message in a slot is the one
whose number, counted from the first of the window, the slot has (`TxInv`, `RxInv`), of the two that
every message sent was handed over, is held by the receiver, or still has its slot at the sender (`LinkInv`), of an acknowledgement under way that what it
speaks of was handed over or is held (`AnswersOk`), and of a packet that it carries the number of its message
(`PacketOk`). From these, and a number space larger than what can be under way, it follows that old and new numbers are never confused. `NoneStranded` is about the busy
flag and the immediate timer. The proof has two levels: what an operator does to one endpoint (`SendingStep`,
`AcknowledgeStep`, `ResendStep`, `StoreStep`, `HandOverStep`), in terms of messages and not of numbers, and what it
does to the link (`LinkSending`, …). All links but the one at hand only grow (`Growing`), and what was true of packets and acknowledgements stays true
of a grown link (`AnswersStay`, `PacketsStay`), so that each action is proved about the link it touches.
The code looks for the first free slot, or the first message not held, in a loop. In the model
this is a least number, and `LeastNumber` (proved by a minimal counterexample, from the library's well-founded
order of the naturals) takes the place of an induction.

### SPRT timers

`SprtTimersProofs` proves, for every set of channels, window of up to 96, number of tries, timeouts and horizon:

- `TimersTypes`: `Spec => []TypeOK`;
- `ListAlwaysWhole`, `CallbackAlwaysCovers`, `NeverLate`: `ListOfUnacked`, `CallbackCoversTimers`
  and `OnTime`.

These three have the hypotheses that the configuration of `sprt_timers` has, that the application calls
`sprt_timer_expired` on time (`MaxLate = 0`) and does not change TR03: otherwise the list is not in the
order of its timers (3.3). The invariant itself is proved without them (`TimersInvariant`); only its part
`InTime`, the order of the list, asks for them.

*The inductive invariant* `TimersInv` says of each channel that the slots in use lie between the two pointers of the
ring (`Ring`), and that there is a sequence of slots that the two-way links spell (`IsList`), of
those that wait for an acknowledgement and have a try left (`Waits`), in order of time (`InTime`). The sequence is a witness, which no variable
holds: adding an entry appends to it and unlinking one cuts it. Of the callback it says that it is no later than each timer
(`Covered`), the retransmission timers being covered by the first of the list since that is the earliest.
`Walk` and `ResendDue` are the model's loops over the list; each is a recursive function, and what is proved of
it is proved from its defining equation: a function is exhibited that satisfies it, and a least index at
which something failed (`LeastNumber`) is refuted.

### V.150.1

`V150Proofs` proves, for every choice of method, counts, intervals and stamps:

- `V150Types`: `Spec => []TypeOK`;
- `ActedOnOnce`: `Spec => []AnsweredOnce`: however copies are lost, repeated or crossed by an answer, a message is acted on once if packets
  come in order, and for each packet that comes after a later one at most once more;
- `CopiesOnly`: `Spec => []RepeatsAreCopies`;
- `ResendsAreTimed`: `Spec => []ResendIsTimed`, though three users share the one timer.

*The inductive invariant.* At one end (`Part`): the time asked for is none, or the
earliest of the three users' (`Clock`); of SSE's own three timers only those of the agreed method run, and the time SSE has
asked for is the earliest of them (`OwnTimers`). In one direction (`Channel`): stamps under way, in whatever order, and the latest one to have come are among those sent, and what bears the last stamp is a copy of the
last message. There is a set `A` of the stamps of messages that ask for an answer (no variable holds it:
it is a witness of the invariant), as many as `asked`; the answers are at most `asked` for each packet that was late, and one for each member of `A` up to
the one heard last. A packet after a later one takes the place in `A` back by at most all of it, and that is what
one more unit of `late` pays for. Between a
timer's expiry and what is done about it nothing is claimed of it (`expired`). Most of the state
machine of figures 26 to 40 touches none of this: `Quiet` says so once, and is shown for it as a whole.

### LAP-M

`LapmProofs` proves, for every window, modulus (of more than two windows, as the code has), control ring, number of frames and of losses, with
or without detection, busy and stopping applications:

- `LapmTypes`: `Spec => []TypeOK`;
- `NumbersFollow`: `Spec => []NumbersFollowFrames`;
- `LinksAreTimed`: `Spec => []AlwaysTimed`.

*The inductive invariant* `OwnInv` speaks of a station and of what it has sent, and not of the other station: window variables and the
buffer agree (`Buffer`), the timer is one that the state allows (`Timed`), the caller is never in a state of the answerer (`Role`), and a frame that it sent
and that is still in the buffer has the number of its place (`Sent`). Every path through the handlers is first given a summary in those terms, `Moves` for what happens within a link,
`Speaks`, `Expires`, `Reborn` (a reset) and others for the rest; `Receives` and `Alone` say which
of them a received frame and everything else can come to, and `EveryStep` that a step of `Next` is one of those, a frame sent,
or a frame lost. The invariants are proved from the summaries alone.

`LapmDeliveryProofs` proves, of both stations together:

- `NoneSkipped`: `Spec => []NothingSkipped`;
- `FreedWasDelivered`: `Spec => []AckedWasDelivered`.

They have two hypotheses, which are those of the configuration of `lapm`. *No UA is lost* (`"UA" \notin MayLose`): without
it they are false (3.3). *No application stops the link* (`Stopper = {}`): the proof goes through the phases of a call, and does not
follow a release; TLC finds nothing wrong with stopping applications on instances of the run's size with fewer frames.

*The inductive invariant* has two more parts. `LinkInv` is about traffic in both directions, the ring
of control frames included since these are as good as sent: each information frame is within a window of what
its receiver has, later ones go back by less than a window (go-back-N), acknowledgements speak of what was handed over, and
later ones of no less (`Fits`, `Follows`). That is what makes comparison modulo `Mod` right. `Phase` is the
order in which a link comes up: nothing but XID before the SABME, then a SABME or its UA under way,
then (`Accepted`) the answerer in LAPM_DATA while the caller waits, and whatever is sent there follows the UA, hence
a UA that cannot be lost comes first; once `Linked`, no SABME is under way that would
reset one end.

### The ECM exchange of T.30

`T30EcmProofs` proves, for every document, block length, modulus of the page and block numbers (of at least 2, where T.30 has 256),
limit on PPRs and repeats, list of fallbacks, setting of the timers (in the order that T30Core states), kind and number of losses, with or without CRP:

- `EcmTypeOK`: `Spec => []TypeOK`;
- `EcmDeliversInOrder`: `Spec => []DeliveredInOrder`;
- `EcmLockStep`: `Spec => []LockStep`;
- `EcmGoodEndMeansWhole`: `Spec => []GoodEndMeansWhole`.

The assumptions are those of the modules: the ends differ, the document is a sequence of pages of blocks of 1 to `EcmFrames` frames,
limits are natural numbers, and 1 < `TDropped` < `TFlagged` < T4 < T2 < T1 < T0, as in t30.c.

*The inductive invariant* `Inv` (`EcmInvariant`) has four parts. `Sender` and `Receiver` speak of an end by itself:
in which phases and with which timers each state can be, which frame can wait in `out` in it (`SenderSays`,
`ReceiverSays`), that the sender's buffer is of the block its counters name, that the burst it announces in PPS is of the frames it sent
(`SenderPlace`), and that what the receiver has handed over is the document up to its place (`ReceiverPlace`). `InStep` relates the two: the receiver is
at the sender's block, or past it by one with its buffer empty (the answer is under way or was lost), or both are done. What it has stored is of the block, and what it lacks the sender still holds
(`Stored`); a PPR asks for all that is missing, so that what the sender then forgets has arrived; both use the same fallback while there is image data to send. `DeliveredInOrder` alone is
far from inductive: the receiver takes a block when `process_rx_pps` finds its page and block numbers, counted modulo
`Mod`, and its frame count to be right, so one must know that a PPS under way is of the receiver's block or of the one before, and that a count of -1 means that the sender
still announces the whole block.

`Turns` says who has the line. It is needed because MCF and PPR bear no number: whether an MCF is for this PPS or for the one before
is decided only by the half duplex line. None of the two speaks before the carrier of the other has ended, and an end that hears an answer has nothing left to say. The delicate moment is `Late`: the
sender has taken the MCF and counted on, while the receiver's carrier is still up and the receiver still in F_POST_RCP_MCF.

*The argument.* `BlockFacts` and the lemmas on `UpTo` put the document together block by block. Then each handler has a lemma about the record it returns,
in terms of what it keeps (`KeepsBlock`, `KeepsLine`, `KeepsTimers`, `KeepsPage`); then each call of the front end has lemmas about the pair of records,
one per state and frame (`Pair`); then each action of `Next` is shown to move from pair to pair. TLC had checked `Inv`
on instances (one of 398 thousand states) before it was proved.

### What is only model-checked

- `InOrderOnce`, `CountsAgree` and `GoodEndMeansWhole` of `T30NonEcm`, `GoodFrameIsWhole`, `InOrderOnce` and `DamageIsLocal` of `T38Gateway`,
  `PlaysWhatWasGiven` of `T38NonEcm`: no invariant of theirs has been shown inductive, and some are not true of all values of the constants.
  `CountsAgree` fails with `CommandRepeat`, `GoodEndMeansWhole` where losses outnumber the tries, `GoodFrameIsWhole` (for all the exceptions it names) with two losses: a theorem
  would have to bound the losses of a call by its tries, which needs what `Turns` is for the ECM exchange together with a count of what has been lost.
  `PlaysWhatWasGiven` is arithmetic on the bits of octets (powers of two) and an induction over the octets injected.
- All liveness (`EverythingArrives`, `CallEnds`, `WholeDocumentArrives`, `FallsSilent`, `Drains`, `LastWordArrives`, `ArrivesOrToldSo`,
  `StopEndsLink`), which needs fairness and ENABLED and is beyond the prover.

## 5. Plan

The protocol engines that are the library's own logic have their models, and the queue, SPRT, its timers, LAP-M, V.150.1 and
the ECM exchange their proofs. Next would be `InOrderOnce` of
`T30NonEcm`, for which `T30EcmProofs` has the lemmas about `T30Core`, then the pointers and phases of `T38NonEcm`.

Modules that may still follow: `Schedule` (`schedule.c`: events that schedule and delete others in callbacks, whose
index may be reused), `V8` (CM, JM and CJ with their repetition), the timed steps of `t38_terminal.c`, the HDLC data path of `t31.c`.

### Not modelled, and why

- Filters, modems, tones, echo, codecs: decisions on samples. Nothing there interacts, and what
  is right is a question of numerical tolerance.
- V.42bis, T.4/T.6/T.85 coding: sequential transformations whose interest begins at lengths out of reach.
- The AT interpreter, V.18, message formatting and parsing, logging: text by tables.
- The contents of DIS, DCS and XID: negotiation by comparison of fields; the models have its outcome (fallback, format).
- Tables, fonts, generated decoders: data. They are the larger part of the repository's lines.

## 6. Checking

    tlc -workers 2 -config MCQueue.cfg MCQueue
    tlapm QueueProofs.tla

and in the same way the other modules whose names end in `Proofs`, and `CommonLemmas`.

The configuration names the run: `MCSprtLive.cfg` goes with `MCSprt`, `MCLapmLive.cfg` with
`MCLapm`, and so on. Each run takes less than three minutes, on two workers.

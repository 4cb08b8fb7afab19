------------------------------ MODULE T38NonEcm ------------------------------
(***************************************************************************)
(* The buffer between T.38 packets and a modem that sends without error    *)
(* correction (src/t38_non_ecm_buffer.c).  Packets bring training check    *)
(* (TCF) or image octets when they please; the modem takes one each time   *)
(* it has sent the last and can never wait.  What it is given when there   *)
(* is nothing to send must not spoil a row of the image, nor the row of    *)
(* ends of line that says the image is over (RTC).                         *)
(*                                                                         *)
(* Octets have W bits here and an end of line (EOL) Z zeros and a one: the *)
(* code has 8 and 11, and the arithmetic is the same.  bit_stream is kept  *)
(* as all it is asked for, how many zeros it ends with.                    *)
(***************************************************************************)
EXTENDS Integers, Sequences, SequencesExt

CONSTANTS
    W, Z,       \* bits in an octet, zeros in an EOL
    Ring,       \* T38_NON_ECM_TX_BUF_LEN
    MinBits,    \* min_bits_per_row of an image
    MaxGiven,   \* octets of a burst, by its mode (a bound)
    MaxIdle,    \* fill octets the modem sends while the packets make it wait (a bound)
    MaxBursts   \* bursts, the first one TCF (a bound)

ASSUME T38NonEcmAssumption ==
    /\ {W, Z, Ring, MinBits} \subseteq Nat \ {0}
    /\ W <= Z /\ Z <= 2 * W /\ Ring > 3
    /\ MaxGiven \in [BOOLEAN -> Nat] /\ {MaxIdle, MaxBursts} \subseteq Nat

VARIABLES
    s,        \* t38_non_ecm_buffer_state_t
    given,    \* what a machine would have made of the octets that packets
              \* have brought in this burst
    played,   \* what one has made of those the modem has sent
    count,    \* octets that packets have brought
    idle,     \* octets the modem has sent that were not from the buffer
    ended,    \* the modem has been told that the burst is over
    bursts    \* bursts begun

vars == <<s, given, played, count, idle, ended, bursts>>

-----------------------------------------------------------------------------

Ones   == 2^W - 1
Octets == 0 .. Ones

\* Bits are counted from the least significant one, as the code does.
Bit(o, i)   == (o \div 2^i) % 2
bottom_bit(o) == CHOOSE i \in 0 .. W - 1 : Bit(o, i) = 1 /\ \A j \in 0 .. i - 1 : Bit(o, j) = 0
top_bit(o)    == CHOOSE i \in 0 .. W - 1 : Bit(o, i) = 1 /\ \A j \in i + 1 .. W - 1 : Bit(o, j) = 0

restart_buffer(b) ==
    [b EXCEPT !.fill = Ones, !.zeros = 0, !.out = 0, !.in = 0, !.eol = 0, !.finished = FALSE,
              !.phase = IF b.image THEN "WAITING_FOR_FIRST_EOL" ELSE "INITIAL_ALL_ONES"]

set_mode(b, image, min) ==
    LET c == [b EXCEPT !.image = image, !.min = min]
    IN  IF image # b.image THEN restart_buffer(c) ELSE c

push(b) == [b EXCEPT !.eol = b.in, !.finished = TRUE]

Put(b, o) == [b EXCEPT !.data[b.in] = o, !.in = (@ + 1) % Ring]

\* The one bit that completes an EOL is in octet o.
IsEol(b, o) == o # 0 /\ b.zeros - top_bit(o) > Z - W

Seen(b, o) == [b EXCEPT !.zeros = IF o # 0 THEN bottom_bit(o) ELSE IF b.zeros + W > Z THEN Z ELSE b.zeros + W]

BackToBack(n) == n \in {Z + 1, Z + 2}

\* A row that is too short gets whole octets of zeros before its EOL.
FillTo(n, min) == IF n < min THEN (min - n + W - 1) \div W ELSE 0

Stretch(b, n) ==
    [b EXCEPT !.data = [i \in 0 .. Ring - 1 |-> IF (i - b.in) % Ring < n THEN 0 ELSE b.data[i]],
              !.in = (@ + n) % Ring, !.eol = (b.in + n) % Ring]

Row(b, o) ==
    LET bits == b.row + W - top_bit(o)
        c == IF BackToBack(bits) THEN b ELSE Stretch(b, FillTo(bits, b.min))
    IN  IF IsEol(b, o) THEN [c EXCEPT !.row = top_bit(o) - W] ELSE b

in_tcf(b, o) == Put([b EXCEPT !.eol = b.in], o)

\* Fault: lets each octet out as it comes.
in_image_at_once(b, o) == Put([Seen(Row(b, o), o) EXCEPT !.row = @ + W, !.eol = (b.in + 1) % Ring], o)

in_image(b, o) == Put([Seen(Row(b, o), o) EXCEPT !.row = @ + W], o)

first_eol(b, o) ==
    Put(Put(Put([Seen(b, o) EXCEPT !.phase = "IN_PROGRESS", !.row = top_bit(o) - W, !.eol = b.in, !.fill = 0],
        0), 0), o)

\* An octet of t38_non_ecm_buffer_inject; a packet is one after the other.
inject(b, o) ==
    CASE b.phase = "INITIAL_ALL_ONES" ->
            IF o = Ones THEN b ELSE in_tcf([b EXCEPT !.phase = "ALL_ZEROS", !.fill = 0], o)
      [] b.phase = "ALL_ZEROS"             -> in_tcf(b, o)
      [] b.phase = "WAITING_FOR_FIRST_EOL" -> IF IsEol(b, o) THEN first_eol(b, o) ELSE Seen(b, o)
      [] b.phase = "IN_PROGRESS"           -> in_image(b, o)

-----------------------------------------------------------------------------
(* What a FAX machine makes of a stream of octets.  Of an image: the rows   *)
(* between EOLs, without the zeros that lead into the next EOL, and how far *)
(* EOLs are apart.  Of a TCF: the octets after the ones, with any number of *)
(* zeros between them.                                                      *)

Nothing == [begun |-> FALSE, zeros |-> 0, row |-> <<>>, rows |-> <<>>, since |-> 0, gaps |-> <<>>]

Least(m, n) == IF m < n THEN m ELSE n

Listen(d, bit) ==
    CASE bit = 0 /\ d.begun  -> [d EXCEPT !.zeros = @ + 1, !.since = @ + 1]
      [] bit = 0 /\ ~d.begun -> [d EXCEPT !.zeros = Least(Z, @ + 1)]
      [] bit = 1 /\ d.zeros >= Z ->
            [begun |-> TRUE, zeros |-> 0, row |-> <<>>, since |-> 0,
             rows |-> IF d.begun THEN Append(d.rows, d.row) ELSE <<>>,
             gaps |-> IF d.begun THEN Append(d.gaps, d.since + 1) ELSE <<>>]
      [] bit = 1 /\ d.zeros < Z ->
            IF ~d.begun THEN Nothing
            ELSE [d EXCEPT !.row = @ \o [i \in 1 .. d.zeros |-> 0] \o <<1>>, !.zeros = 0, !.since = @ + 1]

Hear(d, o) ==
    IF s.image THEN FoldLeft(Listen, d, [j \in 1 .. W |-> Bit(o, W - j)])
    ELSE IF o = 0 \/ (o = Ones /\ d = <<>>) THEN d ELSE Append(d, o)

Deaf(image) == IF image THEN Nothing ELSE <<>>

-----------------------------------------------------------------------------

Init ==
    /\ s = restart_buffer([image |-> FALSE, min |-> 0, phase |-> "", data |-> [i \in 0 .. Ring - 1 |-> 0],
                           in |-> 0, out |-> 0, eol |-> 0, zeros |-> 0, row |-> 0, fill |-> 0, finished |-> FALSE])
    /\ given = Deaf(FALSE) /\ played = Deaf(FALSE) /\ count = 0 /\ idle = 0 /\ ended = FALSE /\ bursts = 1

Held(b) == (b.in - b.out) % Ring

\* The code does not look whether there is room: its ring is as long as ten
\* seconds of the fastest modem.
Inject ==
    /\ ~s.finished /\ ~ended /\ count < MaxGiven[s.image]
    /\ \E o \in Octets :
          LET t == inject(s, o)
          IN  /\ Held(s) + ((t.in - s.in) % Ring) < Ring
              /\ s' = t /\ given' = Hear(given, o)
    /\ count' = count + 1
    /\ UNCHANGED <<played, idle, ended, bursts>>

Push ==
    /\ ~s.finished /\ ~ended /\ s' = push(s)
    /\ UNCHANGED <<given, played, count, idle, ended, bursts>>

\* Fault: waits for more though there is no more.
GetOctetForEver ==
    /\ ~ended /\ UNCHANGED <<given, count, bursts, ended>>
    /\ \/ /\ s.out # s.eol
          /\ played' = Hear(played, s.data[s.out]) /\ s' = [s EXCEPT !.out = (@ + 1) % Ring]
          /\ UNCHANGED idle
       \/ /\ s.out = s.eol /\ idle < MaxIdle
          /\ played' = Hear(played, s.fill) /\ idle' = idle + 1 /\ UNCHANGED s

\* t38_non_ecm_buffer_get_bit, when it needs another octet.
GetOctet ==
    /\ ~ended /\ UNCHANGED <<given, count, bursts>>
    /\ \/ /\ s.out # s.eol
          /\ played' = Hear(played, s.data[s.out]) /\ s' = [s EXCEPT !.out = (@ + 1) % Ring]
          /\ UNCHANGED <<idle, ended>>
       \/ /\ s.out = s.eol /\ s.finished
          /\ s' = restart_buffer(s) /\ ended' = TRUE /\ UNCHANGED <<played, idle>>
       \/ /\ s.out = s.eol /\ ~s.finished /\ idle < MaxIdle
          /\ played' = Hear(played, s.fill) /\ idle' = idle + 1 /\ UNCHANGED <<s, ended>>

\* The gateway says with every packet which mode it is in.
NextBurst ==
    /\ ended /\ bursts < MaxBursts
    /\ \E image \in BOOLEAN :
          /\ s' = set_mode(s, image, IF image THEN MinBits ELSE 0)
          /\ given' = Deaf(image) /\ played' = Deaf(image)
    /\ count' = 0 /\ idle' = 0 /\ ended' = FALSE /\ bursts' = bursts + 1

Next == Inject \/ Push \/ GetOctet \/ NextBurst

\* The modem asks for octets as long as it sends.
Spec == Init /\ [][Next]_vars /\ WF_vars(GetOctet)

-----------------------------------------------------------------------------

\* The pointers are in the ring and the phase is one of the mode's.
TypeOK ==
    /\ {s.in, s.out, s.eol} \subseteq 0 .. Ring - 1 /\ s.data \in [0 .. Ring - 1 -> Octets]
    /\ s.zeros \in 0 .. Z /\ s.row \in Int /\ s.fill \in {0, Ones}
    /\ s.phase \in (IF s.image THEN {"WAITING_FOR_FIRST_EOL", "IN_PROGRESS"}
                    ELSE {"INITIAL_ALL_ONES", "ALL_ZEROS"})

\* Each row takes at least the time that the machine needs for it, but EOLs
\* that came back to back stay so: together they end the image.  (The first
\* row counts as an octet shorter than it is.)
RowLengths ==
    \A k \in 2 .. Len(played.gaps) :
        IF BackToBack(given.gaps[k]) THEN played.gaps[k] = given.gaps[k] ELSE played.gaps[k] >= s.min

\* Whatever the pace of packets and modem, the machine hears the rows that
\* were sent and no others, none with anything inserted but the zeros that
\* make it long enough, and when it is told that they are over it has heard
\* them all; so it does the octets of a TCF.
PlaysWhatWasGiven ==
    IF s.image THEN /\ IsPrefix(played.rows, given.rows)
                    /\ RowLengths
                    /\ ended => played.rows = given.rows /\ played.row = given.row
    ELSE IsPrefix(played, given) /\ (ended => played = given)

\* When the packets have said that there is no more, the modem plays what
\* there is and is told so.
Drains == s.finished ~> ended
=============================================================================

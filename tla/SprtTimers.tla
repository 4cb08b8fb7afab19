----------------------------- MODULE SprtTimers -----------------------------
(***************************************************************************)
(* The timers of one SPRT endpoint (src/sprt.c): the retransmission timers *)
(* of each slot (TR03), kept in a doubly linked list in order of time, the *)
(* keepalive timer of each channel (TA02), the acknowledgement holdoff     *)
(* (TA01), the immediate timer, and latest_timer, the one timeout that the *)
(* application is asked to call sprt_timer_expired at.  What the far end   *)
(* and the application do is any sequence of sends, received packets and   *)
(* acknowledgements; Sprt models the data.                                 *)
(***************************************************************************)
EXTENDS Integers, Sequences, FiniteSets, SequencesExt, FiniteSetsExt

CONSTANTS Chan,       \* the reliable channels
          Window,     \* window_size
          MaxTries,   \* max_tries
          TA01, TA02, \* the timeouts
          TR03s,      \* the values the application sets TR03 to, the first Max(TR03s)
          MaxLate,    \* how late the application calls sprt_timer_expired
          MaxTime     \* when the clock stops (a bound)

ASSUME TimersAssumption ==
    /\ Window \in 2 .. 96               \* SPRT_MAX_WINDOWS_SIZE
    /\ MaxTries \in Nat \ {0} /\ TA01 \in Nat \ {0} /\ TA02 \in Nat \ {0}
    /\ TR03s \subseteq Nat \ {0} /\ (\E x \in TR03s : \A y \in TR03s : y <= x)
    /\ MaxLate \in Nat /\ MaxTime \in Nat \ {0}

VARIABLES now,      \* the application's clock
          tx,       \* per channel, the sending side of s->tx.chan[]
          acks,     \* s->tx.ack_queue_ptr
          ta01,     \* s->tx.ta01_timer
          imm,      \* s->tx.immediate_timer
          latest,   \* s->latest_timer: what the application was last asked for
          since,    \* history: when the oldest of those acknowledgements was queued
          stray     \* an entry was unlinked that is not in the list

vars == <<now, tx, acks, ta01, imm, latest, since, stray>>

Slot == 0 .. Window - 1
Tag  == 255                  \* TR03_QUEUE_FREE_SLOT_TAG
Off  == 0                    \* a timer that is not running

ChanInit == [in |-> 0, out |-> 0, used |-> {}, tr03 |-> [s \in Slot |-> Off],
             tries |-> [s \in Slot |-> 0], prev |-> [s \in Slot |-> Tag],
             next |-> [s \in Slot |-> Tag], first |-> Tag, last |-> Tag,
             ta02 |-> Off, timeout |-> Max(TR03s)]

\* sprt_init
Init == /\ now = 1
        /\ tx = [c \in Chan |-> ChanInit]
        /\ acks = 0 /\ ta01 = Off /\ imm = FALSE /\ latest = Off
        /\ since = Off /\ stray = FALSE

-----------------------------------------------------------------------------
(* The list of retransmission timers.                                       *)

InList(t, s) == t.first = s \/ t.prev[s] # Tag

\* Only for a slot that is in the list: for another one the code uses Tag as
\* an index (see RxAck).
delete_timer_queue_entry(t, s) ==
    IF t.first = Tag THEN t
    ELSE LET fwd == IF t.first = s THEN [t EXCEPT !.first = t.next[s]]
                                   ELSE [t EXCEPT !.next[t.prev[s]] = t.next[s]]
             bwd == IF t.last = s THEN [fwd EXCEPT !.last = t.prev[s]]
                                  ELSE [fwd EXCEPT !.prev[t.next[s]] = t.prev[s]]
         IN  [bwd EXCEPT !.prev[s] = Tag, !.next[s] = Tag]

\* Fault: the link back is missing.
add_timer_queue_oneway(t, s) ==
    LET head == IF t.last = Tag THEN [t EXCEPT !.first = s]
                                ELSE [t EXCEPT !.next[t.last] = s]
    IN  [head EXCEPT !.next[s] = Tag, !.last = s]

add_timer_queue_last_entry(t, s) ==
    LET head == IF t.last = Tag THEN [t EXCEPT !.first = s]
                                ELSE [t EXCEPT !.next[t.last] = s]
    IN  [head EXCEPT !.prev[s] = t.last, !.next[s] = Tag, !.last = s]

\* Fault: the retransmission timers are forgotten.
ConsideredWithoutTR03(t, a) == ({a} \cup {t[c].ta02 : c \in Chan}) \ {Off}

\* The timers that update_timer looks at: one of each kind, and of the
\* retransmission timers of a channel only the first in the list.
Considered(t, a) ==
    ({a} \cup {t[c].ta02 : c \in Chan}
         \cup {t[c].tr03[t[c].first] : c \in {d \in Chan : t[d].first # Tag}}) \ {Off}

update_timer(t, a, i) ==
    latest' = IF i THEN 1 ELSE IF Considered(t, a) = {} THEN Off ELSE Min(Considered(t, a))

-----------------------------------------------------------------------------
Room(t) == IF t.out - t.in - 1 < 0 THEN t.out - t.in - 1 + Window ELSE t.out - t.in - 1

\* Every packet that is sent takes the acknowledgements and stops TA01.
sprt_tx(c) ==
    LET t == tx[c]
        s == t.in
        u == add_timer_queue_last_entry(
                 [t EXCEPT !.used = @ \cup {s}, !.tr03[s] = now + t.timeout,
                           !.tries[s] = MaxTries, !.in = (s + 1) % Window,
                           !.ta02 = now + TA02], s)
    IN  /\ Room(t) >= 1
        /\ tx' = [tx EXCEPT ![c] = u]
        /\ acks' = 0 /\ ta01' = Off
        /\ since' = Off
        /\ update_timer(tx', Off, imm)
        /\ UNCHANGED <<now, imm, stray>>

\* An acknowledgement joins the queue, with t as what TA01 is then; the third
\* sends them all.
Acknowledging(t) ==
    IF acks + 1 >= 3
    THEN acks' = 0 /\ ta01' = Off /\ since' = Off
    ELSE acks' = acks + 1 /\ ta01' = t /\ since' = IF acks = 0 THEN now ELSE since

\* Fault: TA01 is started without asking for the timeout.
RxDataWithoutUpdate ==
    /\ Acknowledging(IF acks = 0 THEN now + TA01 ELSE ta01)
    /\ UNCHANGED <<now, tx, imm, stray, latest>>

\* queue_acknowledgement of a message not yet in the queue.
RxData ==
    /\ Acknowledging(IF acks = 0 THEN now + TA01 ELSE ta01)
    /\ IF acks = 1 THEN UNCHANGED latest ELSE update_timer(tx, ta01', imm)
    /\ UNCHANGED <<now, tx, imm, stray>>

NextUnacked(t) ==
    LET stops == {d \in 1 .. Window :
                     (t.out + d) % Window = t.in \/ (t.out + d) % Window \in t.used}
    IN  (t.out + Min(stops)) % Window

\* process_acknowledgements for a slot that is in use.  It does not update the
\* timeout the application was asked for.
RxAck(c, s) ==
    LET t == tx[c]
        u == [t EXCEPT !.used = @ \ {s}, !.tr03[s] = Off]
        v == delete_timer_queue_entry(u, s)
    IN  /\ s \in t.used
        /\ IF InList(t, s) \/ t.first = Tag
           THEN tx' = [tx EXCEPT ![c] = IF s = t.out THEN [v EXCEPT !.out = NextUnacked(v)]
                                                     ELSE v]
                /\ UNCHANGED stray
           ELSE stray' = TRUE /\ UNCHANGED tx
        /\ UNCHANGED <<now, acks, ta01, imm, latest, since>>

\* sprt_set_local_busy: the application stops being busy.
NotBusy ==
    /\ imm' = TRUE
    /\ update_timer(tx, ta01, TRUE)
    /\ UNCHANGED <<now, tx, acks, ta01, since, stray>>

sprt_set_tc_timeout(c, timeout) ==
    /\ tx' = [tx EXCEPT ![c].timeout = timeout]
    /\ UNCHANGED <<now, acks, ta01, imm, latest, since, stray>>

-----------------------------------------------------------------------------
Due(t) == t.first # Tag /\ t.tr03[t.first] <= now

\* One turn of the loop in retransmit_the_unacknowledged: send the first slot,
\* take it off the list, and put it back at the end unless its tries are spent.
ResendFirst(t) ==
    LET s == t.first
        u == [delete_timer_queue_entry(t, s) EXCEPT !.tries[s] = @ - 1]
    IN  IF u.tries[s] <= 0 THEN u
        ELSE add_timer_queue_last_entry([u EXCEPT !.tr03[s] = @ + t.timeout], s)

\* The loop: it ends, since each turn spends a try.
ResendDue(t) ==
    LET after[n \in 0 .. Window * MaxTries] ==
            IF n = 0 THEN t
            ELSE IF Due(after[n - 1]) THEN ResendFirst(after[n - 1]) ELSE after[n - 1]
    IN  after[Window * MaxTries]

\* One channel's part of sprt_timer_expired, and whether it sent something.
Sends(t)   == Due(t) \/ (t.ta02 # Off /\ t.ta02 <= now)
Service(t) == [ResendDue(t) EXCEPT
                  !.ta02 = IF @ # Off /\ Sends(t) THEN now + TA02 ELSE @]

\* A call that comes too early only asks for the same timeout again.
sprt_timer_expired ==
    LET sent == (\E c \in Chan : Sends(tx[c])) \/ (ta01 # Off /\ ta01 <= now /\ acks > 0)
    IN  /\ latest # Off /\ now >= latest
        /\ imm' = FALSE
        /\ tx' = [c \in Chan |-> Service(tx[c])]
        /\ acks' = IF sent THEN 0 ELSE acks
        /\ ta01' = IF sent /\ acks > 0 THEN Off ELSE ta01
        /\ since' = IF sent THEN Off ELSE since
        /\ update_timer(tx', ta01', FALSE)
        /\ UNCHANGED <<now, stray>>

\* The clock: the application calls no more than MaxLate after it was asked to.
Tick ==
    /\ now < MaxTime
    /\ latest # Off => now < latest + MaxLate
    /\ now' = now + 1
    /\ UNCHANGED <<tx, acks, ta01, imm, latest, since, stray>>

Next ==
    \/ \E c \in Chan : sprt_tx(c)
    \/ RxData
    \/ \E c \in Chan, s \in Slot : RxAck(c, s)
    \/ NotBusy
    \/ \E c \in Chan, timeout \in TR03s : sprt_set_tc_timeout(c, timeout)
    \/ sprt_timer_expired
    \/ Tick

Spec == Init /\ [][Next]_vars

-----------------------------------------------------------------------------
TypeOK ==
    /\ now \in 1 .. MaxTime
    /\ \A c \in Chan :
          LET t == tx[c]
          IN  /\ t.in \in Slot /\ t.out \in Slot /\ t.used \subseteq Slot
              /\ t.tr03 \in [Slot -> Nat] /\ t.tries \in [Slot -> 0 .. MaxTries]
              /\ t.prev \in [Slot -> Slot \cup {Tag}] /\ t.next \in [Slot -> Slot \cup {Tag}]
              /\ t.first \in Slot \cup {Tag} /\ t.last \in Slot \cup {Tag}
              /\ t.ta02 \in Nat /\ t.timeout \in TR03s
    /\ acks \in 0 .. 2 /\ ta01 \in Nat /\ imm \in BOOLEAN /\ latest \in Nat
    /\ since \in 0 .. now /\ stray \in BOOLEAN

\* Where following next_in_time from the first entry of a channel's list leads.
Visited(t) ==
    LET at[i \in 0 .. Window] == IF i = 0 THEN t.first
                                 ELSE IF at[i - 1] = Tag THEN Tag ELSE t.next[at[i - 1]]
    IN  at

\* The slots of the list in order.
Walk(t) ==
    LET len == Cardinality({i \in 0 .. Window : Visited(t)[i] # Tag})
    IN  [i \in 1 .. len |-> Visited(t)[i - 1]]

\* The linked list holds each slot that still waits for its acknowledgement
\* and has a try left, once, and reads the same in both directions; and, since
\* update_timer looks at its first entry only ("they are sorted, so we already
\* know which is the sortest one"), it is in the order in which they expire.
\* (Until an acknowledgement after the last try has unlinked what is not
\* linked: from there the code reads and writes outside the arrays.)
ListOfUnacked ==
    ~stray => \A c \in Chan :
        LET t == tx[c]
            w == Walk(t)
        IN  /\ ToSet(w) = {s \in t.used : t.tries[s] > 0}
            /\ IsInjective(w)
            /\ \A i \in DOMAIN w : t.prev[w[i]] = IF i = 1 THEN Tag ELSE w[i - 1]
            /\ t.last = IF w = <<>> THEN Tag ELSE w[Len(w)]
            /\ \A i, j \in DOMAIN w : i < j => t.tr03[w[i]] <= t.tr03[w[j]]

\* Every timer that runs.
Running == ({ta01} \cup {tx[c].ta02 : c \in Chan}
               \cup UNION {{tx[c].tr03[s] : s \in ToSet(Walk(tx[c]))} : c \in Chan}) \ {Off}

\* Whatever is running, the application has been asked to call back no later
\* than it is due, and at once when the immediate timer is wanted: no timer is
\* forgotten by a path that starts or stops one.
CallbackCoversTimers ==
    /\ ~stray => \A x \in Running : latest # Off /\ latest <= x
    /\ imm => latest = 1

\* A message is sent again no later than TR03 after its last copy, while it is
\* unacknowledged and has a try left; and the oldest acknowledgement is held
\* back no longer than TA01, however many follow it and whatever else is sent.
OnTime ==
    /\ ~stray => \A c \in Chan : \A s \in ToSet(Walk(tx[c])) : now <= tx[c].tr03[s] + MaxLate
    /\ acks > 0 => now <= since + TA01 + MaxLate
=============================================================================

----------------------------- MODULE V150Proofs -----------------------------
(***************************************************************************)
(* Proofs about V150, for any events, signals, intervals, counts and losses: *)
(* repeats are copies and as many as asked for, a message is acted on once  *)
(* while packets come in order and at most once more for each one that does *)
(* not, and what has to be sent again is timed.                             *)
(***************************************************************************)
EXTENDS V150, CommonLemmas, SequenceTheorems, FiniteSetTheorems

-----------------------------------------------------------------------------
(* One endpoint.                                                            *)

Reasons == {p[2] : p \in Sent} \cup {"P", "NONE"}
Acks    == States \cup {"RESERVED"}
Message == [event : States, ric : Reasons, stamp : Nat, ack : Acks \cup {"ABSENT"}]

EndRecord ==
    [local : States, remote : Media, acked : Acks,
     cdsc : {"INDETERMINATE", "AUDIO_RFC4733", "VBD_PREFERRED", "MIXED"}, method : Methods,
     rep : Nat, left : 0 .. Copies - 1, t0 : Nat, t1 : Nat, n0 : 0 .. N0,
     saved : Message, heard : Nat, sse : Nat, cd : Nat, sprt : Nat, host : Nat,
     out : Seq(Message), stamp : Nat, copies : Nat, lost : Nat, answers : Nat,
     expired : BOOLEAN, signalled : Nat, asked : Nat, sprts : Nat, sends : Nat]

\* The application has been asked for nothing, or for the earliest time.
Clock(s) == s.host \in {0, Earliest({s.sprt, s.sse, s.cd})}

\* Each method has its timers, and the time of SSE is that of the earliest,
\* but for the repetition that is over.
OwnTimers(s) ==
    /\ s.method # "EXPLICIT_ACK" => s.t0 = 0 /\ s.t1 = 0 /\ s.n0 = 0
    /\ s.method # "REPETITION" => s.rep = 0
    /\ s.rep # 0 => s.sse = s.rep /\ s.left >= 1
    /\ s.method = "EXPLICIT_ACK" => s.sse = Earliest({s.t0, s.t1, s.rep})
    /\ s.stamp = 0 => s.rep = 0 /\ s.t0 = 0 /\ s.t1 = 0

Copy(s) == [s.saved EXCEPT !.stamp = s.stamp]

\* What is about to go out again.
OutAreCopies(s) ==
    \A i \in 1 .. Len(s.out) : s.out[i] = Copy(s) /\ s.method # "NONE" /\ s.stamp > 0

Part(s) == s \in EndRecord /\ Clock(s) /\ OwnTimers(s) /\ SentAsAsked(s)

\* There may be something to send again, at a time to come.
Pending(s, n) == s.rep # 0 \/ (s.t0 > n /\ s.t1 > n)
Hosted(s, n)  == Pending(s, n) => s.host # 0

EndOk(s, n) == Part(s) /\ (s.expired \/ Hosted(s, n))

-----------------------------------------------------------------------------
(* One direction: s sends, q is under way, r receives, and h is what is      *)
(* known of the order in which packets came.                                *)

Arrivals == [latest : Nat, late : Nat]

\* A are the stamps of the messages that ask for an answer.  Between two late
\* packets stamps only grow, so that each of A is answered once: those up to
\* the one heard since the last late packet, and all of them before each.
Channel(s, q, r, h, A) ==
    /\ A \in SUBSET (1 .. s.stamp) /\ Cardinality(A) = s.asked
    /\ r.answers <= s.asked * h.late + Cardinality({a \in A : a <= r.heard})
    /\ s.stamp > 0 /\ s.method # "NONE" /\ MustAnswer(s.saved) => s.stamp \in A
    /\ r.heard <= s.stamp /\ r.heard <= h.latest
    /\ \A i \in 1 .. Len(q) :
          /\ q[i].stamp \in 1 .. s.stamp
          /\ MustAnswer(q[i]) => q[i].stamp \in A
          /\ q[i].stamp = s.stamp /\ s.method # "NONE" => q[i] = Copy(s)

Channels(E, N, H) == \A e \in Ends : \E A : Channel(E[Other(e)], N[e], E[e], H[e], A)

V150Inv ==
    /\ ep \in [Ends -> EndRecord] /\ net \in [Ends -> Seq(Message)] /\ now \in Nat \ {0}
    /\ order \in [Ends -> Arrivals]
    /\ \A e \in Ends : EndOk(ep[e], now) /\ ep[e].out = <<>>
    /\ Channels(ep, net, order)

-----------------------------------------------------------------------------
(* Timers.                                                                  *)

\* Of three times the earliest is none if all are none, and else the least of
\* those that are set.
LEMMA EarliestOf ==
    ASSUME NEW a \in Nat, NEW b \in Nat, NEW c \in Nat
    PROVE  LET t == Earliest({a, b, c})
           IN  /\ t \in Nat
               /\ t = 0 => a = 0 /\ b = 0 /\ c = 0
               /\ t # 0 => t \in {a, b, c}
               /\ \A x \in {a, b, c} : x # 0 => t # 0 /\ t <= x
  <1> DEFINE T == {a, b, c}
             U == T \ {0}
  <1>1. CASE T \subseteq {0}
    BY <1>1 DEF Earliest
  <1>2. CASE ~ (T \subseteq {0})
    <2>1. U \in SUBSET Nat /\ U # {}
      BY <1>2
    <2>2. Min(U) \in U /\ \A y \in U : Min(U) <= y
      BY <2>1, MinIsLeast
    <2>3. Earliest(T) = Min(U)
      BY <1>2 DEF Earliest
    <2> HIDE DEF U
    <2>4. Min(U) \in Nat \ {0} /\ Min(U) \in {a, b, c}
      BY <2>2 DEF U
    <2>5. \A y \in {a, b, c} : y # 0 => Min(U) <= y
      BY <2>2 DEF U
    <2> QED
      BY <2>3, <2>4, <2>5
  <1> QED
    BY <1>1, <1>2

\* The application is asked for the earliest time.
LEMMA SelectTimer ==
    ASSUME NEW s \in EndRecord
    PROVE  LET u == select_timer(s)
           IN  /\ u \in EndRecord /\ Clock(u)
               /\ u = [s EXCEPT !.host = u.host]
               /\ s.sse # 0 => u.host # 0
  <1> DEFINE h == Earliest({s.sprt, s.sse, s.cd})
  <1>1. s.sprt \in Nat /\ s.sse \in Nat /\ s.cd \in Nat
    BY DEF EndRecord
  <1>2. h \in Nat /\ (s.sse # 0 => h # 0)
    BY <1>1, EarliestOf
  <1>3. select_timer(s) = [s EXCEPT !.host = h]
    BY DEF select_timer
  <1> HIDE DEF h
  <1>4. [s EXCEPT !.host = h] \in EndRecord
    BY <1>2 DEF EndRecord
  <1>5. Clock(select_timer(s))
    <2> DEFINE u == [s EXCEPT !.host = h]
    <2>1. u.host = h /\ u.sprt = s.sprt /\ u.sse = s.sse /\ u.cd = s.cd
      BY DEF EndRecord
    <2> QED
      BY <1>3, <2>1 DEF Clock, h
  <1>6. [s EXCEPT !.host = h].host = h
    BY DEF EndRecord
  <1> QED
    BY <1>2, <1>3, <1>4, <1>5, <1>6

\* SSE's time is the earliest of its three, and the application is asked for
\* it or an earlier one.
LEMMA UpdateTimer ==
    ASSUME NEW s \in EndRecord
    PROVE  LET u == update_timer(s)
           IN  /\ u \in EndRecord /\ Clock(u)
               /\ u = [s EXCEPT !.host = u.host, !.sse = u.sse]
               /\ u.sse = Earliest({s.t0, s.t1, s.rep})
               /\ s.t0 # 0 \/ s.t1 # 0 \/ s.rep # 0 => u.sse # 0 /\ u.host # 0
  <1> DEFINE e == Earliest({s.t0, s.t1, s.rep})
             v == [s EXCEPT !.sse = e]
             u == select_timer(v)
  <1>1. s.t0 \in Nat /\ s.t1 \in Nat /\ s.rep \in Nat
    BY DEF EndRecord
  <1>2. e \in Nat /\ (s.t0 # 0 \/ s.t1 # 0 \/ s.rep # 0 => e # 0)
    BY <1>1, EarliestOf
  <1>3. update_timer(s) = u
    BY DEF update_timer
  <1> HIDE DEF e
  <1>4. v \in EndRecord /\ v.sse = e
    BY <1>2 DEF EndRecord
  <1> HIDE DEF v
  <1>5. u \in EndRecord /\ Clock(u) /\ u = [v EXCEPT !.host = u.host] /\ (v.sse # 0 => u.host # 0)
    BY <1>4, SelectTimer
  <1> HIDE DEF u
  <1>6. u.sse = v.sse
    BY <1>5, <1>4 DEF EndRecord
  <1>7. u = [s EXCEPT !.host = u.host, !.sse = u.sse]
    BY <1>5, <1>6, <1>4 DEF v, EndRecord
  <1> QED
    BY <1>2, <1>3, <1>4, <1>5, <1>6, <1>7 DEF e

-----------------------------------------------------------------------------
(* The state machine.                                                       *)

\* What a step of the state machine leaves alone, and that it asks for a time
\* again if it has changed the one it uses.
Quiet(s, u) ==
    /\ u \in EndRecord
    /\ u = [s EXCEPT !.local = u.local, !.remote = u.remote, !.cd = u.cd, !.host = u.host]
    /\ (u.host = s.host /\ u.cd = s.cd) \/ u.host = Earliest({s.sprt, s.sse, u.cd})

\* Two quiet steps are one.
LEMMA QuietTwice ==
    ASSUME NEW s \in EndRecord, NEW u, NEW v, Quiet(s, u), Quiet(u, v)
    PROVE  Quiet(s, v)
  <1>1. u.sprt = s.sprt /\ u.sse = s.sse
    BY ZenonT(60) DEF Quiet, EndRecord
  <1>2. v = [s EXCEPT !.local = v.local, !.remote = v.remote, !.cd = v.cd, !.host = v.host]
    BY DEF Quiet, EndRecord
  <1> QED
    BY <1>1, <1>2 DEF Quiet

\* A quiet step keeps what matters of an endpoint.
LEMMA QuietKeeps ==
    ASSUME NEW s \in EndRecord, NEW u, Quiet(s, u), NEW n \in Nat
    PROVE  /\ Part(s) => Part(u)
           /\ EndOk(s, n) => EndOk(u, n)
           /\ u.stamp = s.stamp /\ u.saved = s.saved /\ u.method = s.method /\ u.asked = s.asked
           /\ u.heard = s.heard /\ u.answers = s.answers /\ u.out = s.out
  <1>1. /\ u.stamp = s.stamp /\ u.saved = s.saved /\ u.method = s.method /\ u.asked = s.asked
        /\ u.heard = s.heard /\ u.answers = s.answers /\ u.out = s.out
    BY ZenonT(60) DEF Quiet, EndRecord
  <1>2. /\ u.rep = s.rep /\ u.t0 = s.t0 /\ u.t1 = s.t1 /\ u.n0 = s.n0 /\ u.sse = s.sse
        /\ u.sprt = s.sprt /\ u.left = s.left /\ u.copies = s.copies /\ u.expired = s.expired
    BY ZenonT(60) DEF Quiet, EndRecord
  <1>3. Clock(s) => Clock(u)
    BY <1>2 DEF Clock, Quiet
  <1>4. OwnTimers(s) => OwnTimers(u)
    BY <1>1, <1>2 DEF OwnTimers
  <1>5. SentAsAsked(s) => SentAsAsked(u)
    BY <1>1, <1>2 DEF SentAsAsked
  <1>6. OwnTimers(s) /\ (s.expired \/ Hosted(s, n)) => u.expired \/ Hosted(u, n)
    <2> SUFFICES ASSUME OwnTimers(s), Hosted(s, n), Pending(u, n)
                 PROVE  u.host # 0
      BY <1>2 DEF Hosted
    <2>1. Pending(s, n) /\ s.host # 0
      BY <1>2 DEF Hosted, Pending
    <2>2. s.sse \in Nat /\ s.sprt \in Nat /\ u.cd \in Nat /\ s.t0 \in Nat /\ s.t1 \in Nat /\ s.rep \in Nat
      BY DEF EndRecord, Quiet
    <2>3. s.sse # 0
      <3>1. CASE s.rep # 0
        BY <3>1 DEF OwnTimers
      <3>2. CASE s.rep = 0
        <4>1. s.t0 # 0 /\ s.method = "EXPLICIT_ACK" /\ s.sse = Earliest({s.t0, s.t1, s.rep})
          BY <3>2, <2>1, <2>2 DEF Pending, OwnTimers
        <4> QED
          BY <4>1, <2>2, EarliestOf
      <3> QED
        BY <3>1, <3>2
    <2>4. CASE u.host = s.host
      BY <2>4, <2>1
    <2>5. CASE u.host = Earliest({s.sprt, s.sse, u.cd})
      BY <2>5, <2>2, <2>3, EarliestOf
    <2> QED
      BY <2>4, <2>5 DEF Quiet
  <1>7. u \in EndRecord
    BY DEF Quiet
  <1> QED
    BY <1>1, <1>3, <1>4, <1>5, <1>6, <1>7 DEF Part, EndOk

\* Going to other media states is quiet.
LEMMA MediaStates ==
    ASSUME NEW s \in EndRecord, NEW l \in States, NEW r \in Media
    PROVE  Quiet(s, update_media_states(s, l, r))
  <1> DEFINE u == [s EXCEPT !.local = l, !.remote = r]
  <1>1. u \in EndRecord
    BY DEF EndRecord
  <1>2. u.cd = s.cd /\ u.host = s.host /\ u.local = l /\ u.remote = r
    BY DEF EndRecord
  <1>3. u = [s EXCEPT !.local = u.local, !.remote = u.remote, !.cd = u.cd, !.host = u.host]
    BY <1>2 DEF EndRecord
  <1> QED
    BY <1>1, <1>2, <1>3 DEF Quiet, update_media_states

\* Setting or stopping the call discrimination timer is quiet.
LEMMA UpdateCd ==
    ASSUME NEW s \in EndRecord, NEW t \in Nat
    PROVE  Quiet(s, update_cd(s, t))
  <1> DEFINE v == [s EXCEPT !.cd = t]
             h == Earliest({v.sprt, v.sse, v.cd})
             u == [v EXCEPT !.host = h]
  <1>1. v \in EndRecord /\ v.sprt = s.sprt /\ v.sse = s.sse /\ v.cd = t
    BY DEF EndRecord
  <1>2. v.sprt \in Nat /\ v.sse \in Nat /\ v.cd \in Nat
    BY <1>1 DEF EndRecord
  <1>3. h \in Nat
    BY <1>2, EarliestOf
  <1>4. h = Earliest({s.sprt, s.sse, t})
    BY <1>1
  <1>5. update_cd(s, t) = u
    BY DEF update_cd, select_timer
  <1> HIDE DEF h
  <1>6. u \in EndRecord
    BY <1>1, <1>3, ZenonT(60) DEF EndRecord
  <1>7. u.host = h /\ u.cd = t /\ u.local = s.local /\ u.remote = s.remote
    BY <1>1 DEF EndRecord
  <1>8. u = [s EXCEPT !.local = u.local, !.remote = u.remote, !.cd = u.cd, !.host = u.host]
    BY <1>7 DEF EndRecord
  <1> HIDE DEF u
  <1> QED
    BY <1>4, <1>5, <1>6, <1>7, <1>8 DEF Quiet

\* Doing nothing is quiet.
LEMMA QuietSame ==
    ASSUME NEW s \in EndRecord
    PROVE  Quiet(s, s)
  <1>1. s = [s EXCEPT !.local = s.local, !.remote = s.remote, !.cd = s.cd, !.host = s.host]
    BY DEF EndRecord
  <1> QED
    BY <1>1 DEF Quiet

\* Starting or stopping call discrimination, as the states are the same, is quiet.
LEMMA GenericMacro ==
    ASSUME NEW s \in EndRecord, now \in Nat \ {0}
    PROVE  Quiet(s, generic_macro(s))
  <1>1. now + CdTimeout \in Nat
    BY V150Assumption
  <1>2. Quiet(s, update_cd(s, 0)) /\ Quiet(s, update_cd(s, now + CdTimeout)) /\ Quiet(s, s)
    BY <1>1, UpdateCd, QuietSame
  <1> QED
    BY <1>2 DEF generic_macro

\* So is that after going to other states.
LEMMA MediaThenMacro ==
    ASSUME NEW s \in EndRecord, NEW l \in States, NEW r \in Media, now \in Nat \ {0}
    PROVE  Quiet(s, generic_macro(update_media_states(s, l, r)))
  <1> DEFINE u == update_media_states(s, l, r)
  <1>1. Quiet(s, u)
    BY MediaStates
  <1>2. u \in EndRecord
    BY <1>1 DEF Quiet
  <1> HIDE DEF u
  <1>3. Quiet(u, generic_macro(u))
    BY <1>2, GenericMacro
  <1> QED
    BY <1>1, <1>3, QuietTwice DEF u

\* Every figure, for every signal, is quiet.
LEMMA StateMachine ==
    ASSUME NEW s \in EndRecord, NEW signal, now \in Nat \ {0}
    PROVE  Quiet(s, state_machine(s, signal))
  <1>1. s.local \in States /\ s.remote \in Media
    BY DEF EndRecord
  <1>2. /\ {"INITIAL_AUDIO", "VOICE_BAND_DATA", "MODEM_RELAY"} \subseteq States
        /\ States \subseteq Media /\ "INDETERMINATE" \in Media
    BY DEF States, Media
  <1>3. /\ Quiet(s, s) /\ Quiet(s, generic_macro(s))
        /\ \A l \in States, r \in Media :
              Quiet(s, update_media_states(s, l, r)) /\ Quiet(s, generic_macro(update_media_states(s, l, r)))
    BY QuietSame, GenericMacro, MediaStates, MediaThenMacro
  <1>4. Quiet(s, figures_26_to_31(s, signal))
    BY <1>1, <1>2, <1>3 DEF figures_26_to_31, BothIn
  <1>5. Quiet(s, figures_32_33(s, signal)) /\ Quiet(s, figure_34(s, signal)) /\ Quiet(s, figure_39(s, signal))
    BY <1>3 DEF figures_32_33, figure_34, figure_39
  <1>6. Quiet(s, figure_35(s, signal)) /\ Quiet(s, figure_36(s, signal)) /\ Quiet(s, figures_37_38(s, signal))
    BY <1>1, <1>2, <1>3 DEF figure_35, figure_36, figures_37_38, BothIn
  <1>7. Quiet(s, GiveUp(s)) /\ Quiet(s, generic_macro(GiveUp(s)))
    BY <1>2, <1>3 DEF GiveUp
  <1> HIDE DEF Quiet
  <1> QED
    BY <1>3, <1>4, <1>5, <1>6, <1>7 DEF state_machine

\* Following the far end's event is quiet.
LEMMA FollowQuiet ==
    ASSUME NEW s \in EndRecord, NEW event \in States
    PROVE  Quiet(s, Follow(s, event))
  <1>1. {"VOICE_BAND_DATA", "TEXT_RELAY"} \subseteq States /\ States \subseteq Media
    BY DEF States, Media
  <1>2. Quiet(s, s) /\ \A m \in States : Quiet(s, BothIn(s, m))
    BY <1>1, QuietSame, MediaStates DEF BothIn
  <1> QED
    BY <1>1, <1>2 DEF Follow

-----------------------------------------------------------------------------
(* Messages out.                                                            *)

\* A new message goes out, and takes the place of the last one.
NewMessage(s, u) ==
    /\ u.stamp = s.stamp + 1 /\ u.method = s.method
    /\ Len(u.out) = 1 /\ u.out[1].stamp = u.stamp
    /\ s.method # "NONE" => u.out[1] = Copy(u) /\ u.saved = u.out[1]

\* What is sent is a message.
LEMMA MessageSent ==
    ASSUME NEW s \in EndRecord, NEW event \in States, NEW ric \in Reasons, NEW stamp \in Nat
    PROVE  [event |-> event, ric |-> ric, stamp |-> stamp,
            ack |-> IF s.method = "EXPLICIT_ACK" THEN AckOctet(s.remote) ELSE "ABSENT"] \in Message
  <1>1. s.remote \in Media
    BY DEF EndRecord
  <1>2. AckOctet(s.remote) \in Acks
    BY <1>1 DEF AckOctet, Acks, Media
  <1> QED
    BY <1>2 DEF Message

\* Each method sends the message, and times its repeats.
LEMMA SendPacket ==
    ASSUME NEW s \in EndRecord, NEW event \in States, NEW ric \in Reasons,
           now \in Nat \ {0}, Part(s), s.out = <<>>
    PROVE  LET u == send_packet(s, event, ric)
           IN  /\ Part(u) /\ Hosted(u, now) /\ NewMessage(s, u)
               /\ u.out[1].event = event /\ u.out[1].ric = ric
               /\ u.asked = s.asked /\ u.heard = s.heard /\ u.answers = s.answers
               /\ u.local = s.local /\ u.cd = s.cd /\ u.expired = s.expired
  <1> DEFINE m == [event |-> event, ric |-> ric, stamp |-> s.stamp + 1,
                   ack |-> IF s.method = "EXPLICIT_ACK" THEN AckOctet(s.remote) ELSE "ABSENT"]
             t == [s EXCEPT !.out = Append(@, m), !.stamp = @ + 1, !.copies = 1, !.lost = 0]
             a == [t EXCEPT !.saved = m, !.rep = now + Interval, !.left = Copies - 1]
             b == [t EXCEPT !.saved = m, !.n0 = N0, !.t0 = now + T0, !.t1 = now + T1]
             u == send_packet(s, event, ric)
  <1>1. /\ Copies \in Nat /\ Copies >= 2 /\ N0 \in Nat /\ N0 >= 2
        /\ now + Interval \in Nat \ {0} /\ now + T0 \in Nat \ {0} /\ now + T1 \in Nat \ {0}
        /\ now + T0 > now /\ now + T1 > now
    <2>1. Copies \in 2 .. 10 /\ N0 \in 2 .. 10
      BY V150Assumption
    <2>2. Interval \in Nat \ {0} /\ T0 \in Nat \ {0} /\ T1 \in Nat \ {0}
      BY V150Assumption
    <2> QED
      BY <2>1, <2>2
  <1>2. s.stamp + 1 \in Nat \ {0}
    <2>1. s.stamp \in Nat
      BY DEF EndRecord
    <2> QED
      BY <2>1
  <1>3. m \in Message /\ m.stamp = s.stamp + 1 /\ m.event = event /\ m.ric = ric
    BY <1>2, MessageSent
  <1>4. Append(s.out, m) = <<m>>
    OBVIOUS
  <1>5. s.method \in Methods /\ Methods \subseteq {"NONE", "REPETITION", "EXPLICIT_ACK"}
    BY V150Assumption DEF EndRecord
  <1>6. <<m>> \in Seq(Message) /\ Len(<<m>>) = 1 /\ <<m>>[1] = m
    BY <1>3
  <1>7. m = [m EXCEPT !.stamp = s.stamp + 1]
    BY <1>3
  <1> HIDE DEF m
  <1>8. t = [s EXCEPT !.out = <<m>>, !.stamp = s.stamp + 1, !.copies = 1, !.lost = 0]
    BY <1>4 DEF EndRecord
  <1>9. t \in EndRecord
    BY <1>8, <1>6, <1>2 DEF EndRecord
  <1>10. /\ t.out = <<m>> /\ t.stamp = s.stamp + 1 /\ t.copies = 1 /\ t.method = s.method
         /\ t.rep = s.rep /\ t.t0 = s.t0 /\ t.t1 = s.t1 /\ t.n0 = s.n0 /\ t.sse = s.sse /\ t.left = s.left
         /\ t.host = s.host /\ t.cd = s.cd /\ t.sprt = s.sprt /\ t.asked = s.asked /\ t.heard = s.heard
         /\ t.answers = s.answers /\ t.local = s.local /\ t.expired = s.expired
    BY <1>8 DEF EndRecord
  <1> HIDE DEF t
  <1>11. s.rep \in Nat /\ s.t0 \in Nat /\ s.t1 \in Nat
    BY DEF EndRecord
  <1>12. CASE s.method = "REPETITION"
    <2>1. a \in EndRecord
      <3>1. Copies - 1 \in 0 .. Copies - 1 /\ now + Interval \in Nat
        BY <1>1
      <3> QED
        BY <3>1, <1>3, <1>9 DEF EndRecord
    <2>2. /\ a.rep = now + Interval /\ a.left = Copies - 1 /\ a.saved = m /\ a.t0 = 0 /\ a.t1 = 0 /\ a.n0 = 0
          /\ a.out = <<m>> /\ a.stamp = s.stamp + 1 /\ a.copies = 1 /\ a.method = s.method
          /\ a.asked = s.asked /\ a.heard = s.heard /\ a.answers = s.answers
          /\ a.local = s.local /\ a.cd = s.cd /\ a.expired = s.expired
      BY <1>9, <1>10, <1>12 DEF EndRecord, Part, OwnTimers
    <2>3. u = update_timer(a)
      BY <1>12, <1>10 DEF send_packet, t, m
    <2> HIDE DEF a, u
    <2>4. /\ u \in EndRecord /\ Clock(u) /\ u = [a EXCEPT !.host = u.host, !.sse = u.sse]
          /\ u.sse = Earliest({a.t0, a.t1, a.rep}) /\ u.sse # 0 /\ u.host # 0
      BY <2>1, <2>2, <2>3, <1>1, UpdateTimer
    <2>5. /\ u.rep = now + Interval /\ u.left = Copies - 1 /\ u.saved = m /\ u.t0 = 0 /\ u.t1 = 0 /\ u.n0 = 0
          /\ u.out = <<m>> /\ u.stamp = s.stamp + 1 /\ u.copies = 1 /\ u.method = s.method
          /\ u.asked = s.asked /\ u.heard = s.heard /\ u.answers = s.answers
          /\ u.local = s.local /\ u.cd = s.cd /\ u.expired = s.expired
      BY <2>1, <2>2, <2>4, ZenonT(60) DEF EndRecord
    <2>6. u.sse = u.rep
      <3>1. Earliest({0, 0, now + Interval}) = now + Interval
        BY <1>1, EarliestOf
      <3> QED
        BY <3>1, <2>2, <2>4, <2>5
    <2>7. OwnTimers(u)
      BY <2>5, <2>6, <1>12, <1>1, <1>2 DEF OwnTimers
    <2>8. SentAsAsked(u)
      BY <2>5, <1>1 DEF SentAsAsked
    <2>9. NewMessage(s, u)
      BY <2>5, <1>3, <1>6, <1>7 DEF NewMessage, Copy
    <2> QED
      BY <2>4, <2>5, <2>7, <2>8, <2>9, <1>3, <1>6 DEF Part, Hosted, u
  <1>13. CASE s.method = "EXPLICIT_ACK"
    <2>1. b \in EndRecord
      <3>1. N0 \in 0 .. N0 /\ now + T0 \in Nat /\ now + T1 \in Nat
        BY <1>1
      <3> QED
        BY <3>1, <1>3, <1>9 DEF EndRecord
    <2>2. /\ b.rep = 0 /\ b.saved = m /\ b.t0 = now + T0 /\ b.t1 = now + T1
          /\ b.out = <<m>> /\ b.stamp = s.stamp + 1 /\ b.copies = 1 /\ b.method = s.method
          /\ b.asked = s.asked /\ b.heard = s.heard /\ b.answers = s.answers
          /\ b.local = s.local /\ b.cd = s.cd /\ b.expired = s.expired
      BY <1>9, <1>10, <1>13 DEF EndRecord, Part, OwnTimers
    <2>3. u = update_timer(b)
      BY <1>13, <1>10 DEF send_packet, t, m
    <2> HIDE DEF b, u
    <2>4. /\ u \in EndRecord /\ Clock(u) /\ u = [b EXCEPT !.host = u.host, !.sse = u.sse]
          /\ u.sse = Earliest({b.t0, b.t1, b.rep}) /\ u.sse # 0 /\ u.host # 0
      BY <2>1, <2>2, <2>3, <1>1, UpdateTimer
    <2>5. /\ u.rep = b.rep /\ u.saved = b.saved /\ u.t0 = b.t0 /\ u.t1 = b.t1
          /\ u.out = b.out /\ u.stamp = b.stamp /\ u.copies = b.copies /\ u.method = b.method
          /\ u.asked = b.asked /\ u.heard = b.heard /\ u.answers = b.answers
          /\ u.local = b.local /\ u.cd = b.cd /\ u.expired = b.expired
      <3> HIDE DEF b
      <3> QED
        BY <2>1, <2>4, ZenonT(60) DEF EndRecord
    <2>9. /\ u.saved = m /\ u.out = <<m>> /\ u.stamp = s.stamp + 1 /\ u.copies = 1 /\ u.method = s.method
          /\ u.asked = s.asked /\ u.heard = s.heard /\ u.answers = s.answers
          /\ u.local = s.local /\ u.cd = s.cd /\ u.expired = s.expired
      BY <2>2, <2>5
    <2>6. OwnTimers(u)
      BY <2>2, <2>4, <2>5, <2>9, <1>13, <1>2 DEF OwnTimers
    <2>7. SentAsAsked(u)
      BY <2>9, <1>13 DEF SentAsAsked
    <2>8. NewMessage(s, u)
      BY <2>9, <1>3, <1>6, <1>7 DEF NewMessage, Copy
    <2> QED
      BY <2>4, <2>9, <2>6, <2>7, <2>8, <1>3, <1>6 DEF Part, Hosted, u
  <1>14. CASE s.method = "NONE"
    <2>1. u = t
      BY <1>14, <1>10 DEF send_packet, t, m
    <2>2. s.rep = 0 /\ s.t0 = 0 /\ s.t1 = 0 /\ s.n0 = 0 /\ Clock(s)
      BY <1>14 DEF Part, OwnTimers
    <2>3. Clock(t) /\ OwnTimers(t) /\ SentAsAsked(t) /\ ~ Pending(t, now)
      BY <1>10, <1>14, <2>2 DEF Clock, OwnTimers, SentAsAsked, Pending
    <2>4. NewMessage(s, t)
      BY <1>10, <1>3, <1>6, <1>14 DEF NewMessage
    <2> QED
      BY <1>3, <1>6, <1>9, <1>10, <2>1, <2>3, <2>4 DEF Part, Hosted
  <1> QED
    BY <1>5, <1>12, <1>13, <1>14

\* What no timer and no message depends on may change.
LEMMA SameTimers ==
    ASSUME NEW s \in EndRecord, NEW u \in EndRecord, NEW n,
           u.rep = s.rep, u.left = s.left, u.t0 = s.t0, u.t1 = s.t1, u.n0 = s.n0,
           u.sse = s.sse, u.cd = s.cd, u.sprt = s.sprt, u.host = s.host,
           u.method = s.method, u.stamp = s.stamp, u.copies = s.copies
    PROVE  (Part(s) => Part(u)) /\ (Hosted(s, n) => Hosted(u, n))
  BY DEF Part, Clock, OwnTimers, SentAsAsked, Hosted, Pending

-----------------------------------------------------------------------------
(* Messages in.                                                             *)

\* What an answer leaves, and what it sends.
LEMMA AnswerOnce ==
    ASSUME NEW s \in EndRecord, NEW m \in Message, now \in Nat \ {0},
           EndOk(s, now), s.out = <<>>
    PROVE  LET u == Answer(s, m)
           IN  /\ EndOk(u, now) /\ u.asked = s.asked /\ u.heard = s.heard
               /\ \/ /\ u = s /\ ~ MustAnswer(m)
                  \/ /\ NewMessage(s, u) /\ ~ MustAnswer(u.out[1])
                     /\ MustAnswer(m) /\ u.answers = s.answers + 1
  <1> DEFINE v == send_packet(s, m.event, "P")
             u == [v EXCEPT !.answers = @ + 1]
  <1>1. CASE ~ MustAnswer(m)
    BY <1>1 DEF Answer
  <1>2. CASE MustAnswer(m)
    <2>1. m.event \in States /\ "P" \in Reasons /\ Part(s)
      BY DEF Message, Reasons, EndOk
    <2>2. /\ Part(v) /\ Hosted(v, now) /\ NewMessage(s, v) /\ v.out[1].ric = "P"
          /\ v.asked = s.asked /\ v.heard = s.heard /\ v.answers = s.answers
      BY <2>1, SendPacket
    <2> HIDE DEF v
    <2>3. v \in EndRecord
      BY <2>2 DEF Part
    <2>4. v.answers \in Nat
      BY <2>3 DEF EndRecord
    <2>5. v.answers + 1 \in Nat
      BY <2>4
    <2>6. /\ u \in EndRecord /\ u.answers = v.answers + 1
          /\ u.rep = v.rep /\ u.left = v.left /\ u.t0 = v.t0 /\ u.t1 = v.t1 /\ u.n0 = v.n0
          /\ u.sse = v.sse /\ u.cd = v.cd /\ u.sprt = v.sprt /\ u.host = v.host
          /\ u.method = v.method /\ u.stamp = v.stamp /\ u.copies = v.copies
          /\ u.saved = v.saved /\ u.out = v.out /\ u.asked = v.asked /\ u.heard = v.heard
      BY <2>3, <2>5 DEF EndRecord
    <2>7. Answer(s, m) = u
      BY <1>2 DEF Answer, v
    <2> HIDE DEF u
    <2>8. Part(u) /\ Hosted(u, now)
      BY <2>2, <2>3, <2>6, SameTimers
    <2>9. NewMessage(s, u)
      BY <2>2, <2>6 DEF NewMessage, Copy
    <2>10. ~ MustAnswer(u.out[1])
      BY <2>2, <2>6 DEF MustAnswer
    <2> QED
      BY <1>2, <2>2, <2>6, <2>7, <2>8, <2>9, <2>10 DEF EndOk
  <1> QED
    BY <1>1, <1>2

\* A message with a known stamp does nothing, another is acted on.
LEMMA Hears ==
    ASSUME NEW s \in EndRecord, NEW m \in Message, now \in Nat \ {0},
           EndOk(s, now), s.out = <<>>
    PROVE  LET u == rx_sse_packet(s, m)
           IN  /\ EndOk(u, now) /\ u.asked = s.asked
               /\ \/ /\ s.heard = m.stamp /\ u = s
                  \/ /\ s.heard # m.stamp /\ u.heard = m.stamp
                     /\ \/ /\ u.out = <<>> /\ u.stamp = s.stamp /\ u.saved = s.saved
                           /\ u.method = s.method /\ u.answers = s.answers
                        \/ /\ NewMessage(s, u) /\ ~ MustAnswer(u.out[1])
                           /\ MustAnswer(m) /\ u.answers = s.answers + 1
  <1> DEFINE t == [s EXCEPT !.heard = m.stamp, !.acked = IF m.ack = "ABSENT" THEN @ ELSE m.ack]
             a == state_machine(t, EventSignal[m.event])
             b == Follow(a, m.event)
             c == Answer(b, m)
             u == [c EXCEPT !.remote = m.event]
  <1>1. CASE s.heard = m.stamp
    BY <1>1 DEF rx_sse_packet
  <1>2. CASE s.heard # m.stamp
    <2>1. m.stamp \in Nat /\ m.event \in States /\ m.ack \in Acks \cup {"ABSENT"}
      BY DEF Message
    <2>2. /\ t \in EndRecord /\ t.heard = m.stamp /\ t.asked = s.asked /\ t.answers = s.answers
          /\ t.rep = s.rep /\ t.left = s.left /\ t.t0 = s.t0 /\ t.t1 = s.t1 /\ t.n0 = s.n0
          /\ t.sse = s.sse /\ t.cd = s.cd /\ t.sprt = s.sprt /\ t.host = s.host
          /\ t.method = s.method /\ t.stamp = s.stamp /\ t.copies = s.copies
          /\ t.saved = s.saved /\ t.out = s.out /\ t.expired = s.expired
      BY <2>1 DEF EndRecord
    <2>3. rx_sse_packet(s, m) = u
      BY <1>2 DEF rx_sse_packet
    <2> HIDE DEF t
    <2>4. EndOk(t, now)
      BY <2>2, SameTimers DEF EndOk
    <2>5. Quiet(t, a)
      BY <2>2, StateMachine
    <2>6. a \in EndRecord
      BY <2>5 DEF Quiet
    <2> HIDE DEF a
    <2>7. /\ EndOk(a, now) /\ a.stamp = s.stamp /\ a.saved = s.saved /\ a.method = s.method
          /\ a.asked = s.asked /\ a.heard = m.stamp /\ a.answers = s.answers /\ a.out = <<>>
      BY <2>2, <2>4, <2>5, QuietKeeps
    <2>8. Quiet(a, b)
      BY <2>1, <2>6, FollowQuiet
    <2>9. b \in EndRecord
      BY <2>8 DEF Quiet
    <2> HIDE DEF b
    <2>10. /\ EndOk(b, now) /\ b.stamp = s.stamp /\ b.saved = s.saved /\ b.method = s.method
           /\ b.asked = s.asked /\ b.heard = m.stamp /\ b.answers = s.answers /\ b.out = <<>>
      BY <2>6, <2>7, <2>8, QuietKeeps
    <2>11. /\ EndOk(c, now) /\ c.asked = b.asked /\ c.heard = b.heard
           /\ \/ /\ c = b /\ ~ MustAnswer(m)
              \/ /\ NewMessage(b, c) /\ ~ MustAnswer(c.out[1])
                 /\ MustAnswer(m) /\ c.answers = b.answers + 1
      BY <2>9, <2>10, AnswerOnce
    <2> HIDE DEF c
    <2>12. c \in EndRecord /\ m.event \in Media
      BY <2>1, <2>11 DEF EndOk, Part, Media
    <2>13. /\ u \in EndRecord /\ u.heard = c.heard /\ u.asked = c.asked /\ u.answers = c.answers
           /\ u.rep = c.rep /\ u.left = c.left /\ u.t0 = c.t0 /\ u.t1 = c.t1 /\ u.n0 = c.n0
           /\ u.sse = c.sse /\ u.cd = c.cd /\ u.sprt = c.sprt /\ u.host = c.host
           /\ u.method = c.method /\ u.stamp = c.stamp /\ u.copies = c.copies
           /\ u.saved = c.saved /\ u.out = c.out /\ u.expired = c.expired
      BY <2>12 DEF EndRecord
    <2> HIDE DEF u
    <2>14. EndOk(u, now)
      BY <2>11, <2>12, <2>13, SameTimers DEF EndOk
    <2>15. CASE c = b
      BY <1>2, <2>3, <2>10, <2>13, <2>14, <2>15
    <2>16. CASE NewMessage(b, c) /\ ~ MustAnswer(c.out[1]) /\ MustAnswer(m) /\ c.answers = b.answers + 1
      <3>1. NewMessage(s, u)
        BY <2>10, <2>13, <2>16 DEF NewMessage, Copy
      <3> QED
        BY <1>2, <2>3, <2>10, <2>11, <2>13, <2>14, <2>16, <3>1
    <2> QED
      BY <2>11, <2>15, <2>16
  <1> QED
    BY <1>1, <1>2

-----------------------------------------------------------------------------
(* Timers that have expired.                                                *)

\* A step of the timer's handler that may send again what was sent.
Resends(s, u) ==
    /\ Part(u)
    /\ u.stamp = s.stamp /\ u.saved = s.saved /\ u.method = s.method /\ u.asked = s.asked
    /\ u.heard = s.heard /\ u.answers = s.answers /\ u.expired = s.expired
    /\ OutAreCopies(s) => OutAreCopies(u)
    /\ u = s \/ Hosted(u, now)

\* Two steps that send again are one.
LEMMA ResendsTwice ==
    ASSUME NEW s, NEW u, NEW v, Resends(s, u), Resends(u, v)
    PROVE  Resends(s, v)
  BY DEF Resends

\* A copy more.
LEMMA CopyOut ==
    ASSUME NEW s \in EndRecord, NEW u \in EndRecord, u.out = Append(s.out, Copy(s)),
           u.saved = s.saved, u.stamp = s.stamp, u.method = s.method,
           s.method # "NONE", s.stamp > 0
    PROVE  OutAreCopies(s) => OutAreCopies(u)
  <1> SUFFICES ASSUME OutAreCopies(s), NEW i \in 1 .. Len(u.out)
               PROVE  u.out[i] = Copy(u) /\ u.method # "NONE" /\ u.stamp > 0
    BY DEF OutAreCopies
  <1>1. s.out \in Seq(Message)
    BY DEF EndRecord
  <1> DEFINE q == s.out
             c == Copy(s)
  <1>2. Copy(u) = c
    BY DEF Copy
  <1>3. \A j \in 1 .. Len(q) : q[j] = c
    BY DEF OutAreCopies
  <1> HIDE DEF q, c
  <1>4. Append(q, c)[i] = c
    <2>1. i \in 1 .. Len(q) + 1 /\ Len(q) \in Nat
      BY <1>1 DEF q, c
    <2>2. CASE i = Len(q) + 1
      BY <1>1, <2>2 DEF q
    <2>3. CASE i # Len(q) + 1
      <3>1. i \in 1 .. Len(q)
        BY <2>1, <2>3
      <3> QED
        BY <1>1, <1>3, <3>1 DEF q
    <2> QED
      BY <2>2, <2>3
  <1> QED
    BY <1>2, <1>4 DEF q, c

\* A copy is a message.
LEMMA CopyIsMessage ==
    ASSUME NEW s \in EndRecord
    PROVE  Copy(s) \in Message /\ Append(s.out, Copy(s)) \in Seq(Message)
  <1>1. s.saved \in Message /\ s.stamp \in Nat /\ s.out \in Seq(Message)
    BY DEF EndRecord
  <1>2. Copy(s) \in Message
    BY <1>1 DEF Copy, Message
  <1> QED
    BY <1>1, <1>2

\* Sending again for lack of an acknowledgement, by either timer.
LEMMA ResendByAck ==
    ASSUME NEW s \in EndRecord, Part(s), s.method = "EXPLICIT_ACK", s.stamp > 0,
           NEW k \in 0 .. N0, NEW x \in Nat, NEW y \in Nat, x # 0 \/ y # 0,
           NEW v, v = [s EXCEPT !.out = Append(@, Copy(s)), !.copies = @ + 1,
                                !.n0 = k, !.t0 = x, !.t1 = y]
    PROVE  Resends(s, update_timer(v))
  <1> DEFINE u == update_timer(v)
  <1>1. Append(s.out, Copy(s)) \in Seq(Message)
    BY CopyIsMessage
  <1>2. s.copies \in Nat
    BY DEF EndRecord
  <1>3. s.copies + 1 \in Nat
    BY <1>2
  <1>4. /\ v \in EndRecord /\ v.out = Append(s.out, Copy(s)) /\ v.t0 = x /\ v.t1 = y
        /\ v.rep = s.rep /\ v.method = s.method /\ v.stamp = s.stamp /\ v.saved = s.saved
        /\ v.asked = s.asked /\ v.heard = s.heard /\ v.answers = s.answers /\ v.expired = s.expired
    BY <1>1, <1>3, ZenonT(60) DEF EndRecord
  <1>5. /\ u \in EndRecord /\ Clock(u) /\ u = [v EXCEPT !.host = u.host, !.sse = u.sse]
        /\ u.sse = Earliest({v.t0, v.t1, v.rep}) /\ u.sse # 0 /\ u.host # 0
    BY <1>4, UpdateTimer
  <1> HIDE DEF u
  <1>6. /\ u.out = v.out /\ u.t0 = v.t0 /\ u.t1 = v.t1
        /\ u.rep = v.rep /\ u.method = v.method /\ u.stamp = v.stamp /\ u.saved = v.saved
        /\ u.asked = v.asked /\ u.heard = v.heard /\ u.answers = v.answers /\ u.expired = v.expired
    BY ONLY <1>4, <1>5, ZenonT(60) DEF EndRecord
  <1>7. OwnTimers(u)
    <2>1. s.rep = 0
      BY DEF Part, OwnTimers
    <2> QED
      BY <2>1, <1>4, <1>5, <1>6 DEF OwnTimers
  <1>8. SentAsAsked(u)
    BY <1>4, <1>6 DEF SentAsAsked
  <1>9. OutAreCopies(s) => OutAreCopies(u)
    BY <1>4, <1>5, <1>6, CopyOut
  <1> QED
    BY <1>4, <1>5, <1>6, <1>7, <1>8, <1>9 DEF Resends, Part, Hosted, u

\* The first timer of explicit acknowledgement.
LEMMA ResendByT0 ==
    ASSUME NEW s, Part(s), now \in Nat \ {0}
    PROVE  Resends(s, T0Expired(s))
  <1> DEFINE v == [SendAgain(s) EXCEPT !.n0 = @ - 1, !.t0 = now + T0]
             w == [s EXCEPT !.out = Append(@, Copy(s)), !.copies = @ + 1,
                            !.n0 = s.n0 - 1, !.t0 = now + T0, !.t1 = s.t1]
  <1>1. s \in EndRecord
    BY DEF Part
  <1>2. CASE s.t0 # 0 /\ s.t0 <= now /\ s.n0 > 0 /\ s.local # s.acked
    <2>1. s.method = "EXPLICIT_ACK" /\ s.stamp # 0
      BY <1>2 DEF Part, OwnTimers
    <2>2. s.stamp \in Nat /\ s.n0 \in 0 .. N0 /\ s.t1 \in Nat
      BY <1>1 DEF EndRecord
    <2>3. s.n0 - 1 \in 0 .. N0 /\ now + T0 \in Nat \ {0} /\ s.stamp > 0
      <3>1. T0 \in Nat \ {0} /\ N0 \in 2 .. 10
        BY V150Assumption
      <3> QED
        BY <3>1, <2>1, <2>2, <1>2
    <2>4. v = w
      BY <1>1 DEF EndRecord, SendAgain, Copy
    <2> HIDE DEF v
    <2>5. Resends(s, update_timer(w))
      BY <1>1, <2>1, <2>2, <2>3, ResendByAck
    <2> QED
      BY <1>2, <2>4, <2>5 DEF T0Expired, v
  <1>3. CASE ~ (s.t0 # 0 /\ s.t0 <= now /\ s.n0 > 0 /\ s.local # s.acked)
    BY <1>3 DEF T0Expired, Resends
  <1> QED
    BY <1>2, <1>3

\* The second.
LEMMA ResendByT1 ==
    ASSUME NEW s, Part(s), now \in Nat \ {0}
    PROVE  Resends(s, T1Expired(s))
  <1> DEFINE v == [SendAgain(s) EXCEPT !.t1 = now + T1]
             w == [s EXCEPT !.out = Append(@, Copy(s)), !.copies = @ + 1,
                            !.n0 = s.n0, !.t0 = s.t0, !.t1 = now + T1]
  <1>1. s \in EndRecord
    BY DEF Part
  <1>2. CASE s.t1 # 0 /\ s.t1 <= now /\ s.n0 = 0 /\ s.local # s.acked
    <2>1. s.method = "EXPLICIT_ACK" /\ s.stamp # 0
      BY <1>2 DEF Part, OwnTimers
    <2>2. s.stamp \in Nat /\ s.n0 \in 0 .. N0 /\ s.t0 \in Nat
      BY <1>1 DEF EndRecord
    <2>3. now + T1 \in Nat \ {0} /\ s.stamp > 0
      <3>1. T1 \in Nat \ {0}
        BY V150Assumption
      <3> QED
        BY <3>1, <2>1, <2>2
    <2>4. v = w
      BY <1>1 DEF EndRecord, SendAgain, Copy
    <2> HIDE DEF v
    <2>5. Resends(s, update_timer(w))
      BY <1>1, <2>1, <2>2, <2>3, ResendByAck
    <2> QED
      BY <1>2, <2>4, <2>5 DEF T1Expired, v
  <1>3. CASE ~ (s.t1 # 0 /\ s.t1 <= now /\ s.n0 = 0 /\ s.local # s.acked)
    BY <1>3 DEF T1Expired, Resends
  <1> QED
    BY <1>2, <1>3

\* The next repetition, or the last one.
LEMMA ResendByRepetition ==
    ASSUME NEW s, Part(s), now \in Nat \ {0}
    PROVE  Resends(s, RepetitionExpired(s))
  <1>1. s \in EndRecord /\ s.rep \in Nat /\ s.left \in 0 .. Copies - 1 /\ s.copies \in Nat
        /\ s.stamp \in Nat /\ s.n0 \in 0 .. N0
    BY DEF Part, EndRecord
  <1>2. Copies \in 2 .. 10 /\ Interval \in Nat \ {0}
    BY V150Assumption
  <1>3. CASE ~ (s.rep # 0 /\ s.rep <= now)
    BY <1>3 DEF RepetitionExpired, Resends
  <1>4. CASE s.rep # 0 /\ s.rep <= now
    <2>1. /\ s.method = "REPETITION" /\ s.stamp > 0 /\ s.left >= 1
          /\ s.t0 = 0 /\ s.t1 = 0 /\ s.n0 = 0 /\ s.copies + s.left = Copies
      BY <1>1, <1>4 DEF Part, OwnTimers, SentAsAsked
    <2> DEFINE r == IF s.left > 1 THEN s.rep + Interval ELSE 0
               a == [s EXCEPT !.rep = r]
               t == IF s.left > 1 THEN update_timer(a) ELSE a
               u == [SendAgain(t) EXCEPT !.left = @ - 1]
    <2>2. r \in Nat /\ (r # 0 <=> s.left > 1)
      BY <1>1, <1>2, <1>4
    <2>3. RepetitionExpired(s) = u
      BY <1>4, <1>1 DEF RepetitionExpired
    <2> HIDE DEF r
    <2>4. /\ a \in EndRecord /\ a.rep = r /\ a.t0 = 0 /\ a.t1 = 0 /\ a.host = s.host /\ a.sse = s.sse
          /\ a.left = s.left /\ a.n0 = s.n0 /\ a.cd = s.cd /\ a.sprt = s.sprt /\ a.method = s.method
          /\ a.stamp = s.stamp /\ a.copies = s.copies /\ a.saved = s.saved /\ a.out = s.out
          /\ a.asked = s.asked /\ a.heard = s.heard /\ a.answers = s.answers /\ a.expired = s.expired
      BY <1>1, <2>1, <2>2, ZenonT(60) DEF EndRecord
    <2> HIDE DEF a
    <2>5. /\ t \in EndRecord /\ Clock(t) /\ t.rep = r /\ t.t0 = 0 /\ t.t1 = 0
          /\ r # 0 => t.sse = r /\ t.host # 0
      <3>1. CASE s.left > 1
        <4>1. /\ t \in EndRecord /\ Clock(t) /\ t = [a EXCEPT !.host = t.host, !.sse = t.sse]
              /\ t.sse = Earliest({a.t0, a.t1, a.rep}) /\ t.sse # 0 /\ t.host # 0
          BY <3>1, <2>2, <2>4, UpdateTimer
        <4> HIDE DEF t
        <4>2. t.rep = a.rep /\ t.t0 = a.t0 /\ t.t1 = a.t1
          BY ONLY <4>1, <2>4, ZenonT(60) DEF EndRecord
        <4>3. Earliest({0, 0, r}) = r
          BY <2>2, <3>1, EarliestOf
        <4> QED
          BY <4>1, <4>2, <4>3, <2>4
      <3>2. CASE ~ (s.left > 1)
        <4>1. Clock(a)
          BY <2>4 DEF Part, Clock
        <4> QED
          BY <3>2, <4>1, <2>2, <2>4
      <3> QED
        BY <3>1, <3>2
    <2>6. /\ t.left = s.left /\ t.n0 = 0 /\ t.method = s.method
          /\ t.stamp = s.stamp /\ t.copies = s.copies /\ t.saved = s.saved /\ t.out = s.out
          /\ t.asked = s.asked /\ t.heard = s.heard /\ t.answers = s.answers /\ t.expired = s.expired
      <3>1. CASE s.left > 1
        <4>1. t = [a EXCEPT !.host = t.host, !.sse = t.sse] /\ t \in EndRecord
          BY <3>1, <2>4, UpdateTimer
        <4> HIDE DEF t
        <4>2. /\ t.left = a.left /\ t.n0 = a.n0 /\ t.method = a.method
              /\ t.stamp = a.stamp /\ t.copies = a.copies /\ t.saved = a.saved /\ t.out = a.out
              /\ t.asked = a.asked /\ t.heard = a.heard /\ t.answers = a.answers /\ t.expired = a.expired
          BY ONLY <4>1, <2>4, ZenonT(60) DEF EndRecord
        <4> QED
          BY <4>2, <2>1, <2>4
      <3>2. CASE ~ (s.left > 1)
        BY <3>2, <2>1, <2>4
      <3> QED
        BY <3>1, <3>2
    <2> HIDE DEF t
    <2>7. Append(t.out, Copy(t)) \in Seq(Message) /\ t.copies + 1 \in Nat /\ t.left - 1 \in 0 .. Copies - 1
      BY <1>1, <1>2, <2>1, <2>5, <2>6, CopyIsMessage
    <2>8. u = [t EXCEPT !.out = Append(@, Copy(t)), !.copies = @ + 1, !.left = @ - 1]
      BY <2>5 DEF EndRecord, SendAgain, Copy
    <2> HIDE DEF u
    <2>9. /\ u \in EndRecord /\ u.out = Append(t.out, Copy(t)) /\ u.copies = t.copies + 1 /\ u.left = t.left - 1
          /\ u.rep = t.rep /\ u.t0 = t.t0 /\ u.t1 = t.t1 /\ u.n0 = t.n0 /\ u.sse = t.sse /\ u.host = t.host
          /\ u.cd = t.cd /\ u.sprt = t.sprt /\ u.method = t.method /\ u.stamp = t.stamp /\ u.saved = t.saved
          /\ u.asked = t.asked /\ u.heard = t.heard /\ u.answers = t.answers /\ u.expired = t.expired
      BY ONLY <2>5, <2>7, <2>8, ZenonT(60) DEF EndRecord
    <2>10. Clock(u)
      BY <2>5, <2>9 DEF Clock
    <2>11. OwnTimers(u)
      BY <1>1, <2>1, <2>2, <2>5, <2>6, <2>9 DEF OwnTimers
    <2>12. SentAsAsked(u)
      BY <1>1, <1>2, <2>1, <2>2, <2>5, <2>6, <2>9 DEF SentAsAsked
    <2>13. OutAreCopies(t) => OutAreCopies(u)
      BY <2>1, <2>5, <2>6, <2>9, CopyOut
    <2>14. OutAreCopies(s) => OutAreCopies(t)
      BY <2>6 DEF OutAreCopies, Copy
    <2>15. Hosted(u, now)
      BY <2>5, <2>9 DEF Hosted, Pending
    <2> QED
      BY <2>3, <2>6, <2>9, <2>10, <2>11, <2>12, <2>13, <2>14, <2>15 DEF Resends, Part
  <1> QED
    BY <1>3, <1>4

\* The timer's handler sends only copies, and asks for another time if
\* something may have to be sent again.
LEMMA TimerService ==
    ASSUME NEW s, EndOk(s, now), now \in Nat \ {0}, s.out = <<>>, s.host # 0, s.host <= now
    PROVE  LET u == timer_expired(s, 0)
           IN  /\ EndOk(u, now) /\ OutAreCopies(u)
               /\ u.stamp = s.stamp /\ u.saved = s.saved /\ u.method = s.method
               /\ u.asked = s.asked /\ u.heard = s.heard /\ u.answers = s.answers
  <1> DEFINE z == [s EXCEPT !.host = 0]
             c == call_discrimination_timer_expired(z)
             a == T0Expired(c)
             b == T1Expired(a)
             d == RepetitionExpired(b)
             e == sse_timer_expired(c)
             u == timer_expired(s, 0)
  <1>1. s \in EndRecord
    BY DEF EndOk, Part
  <1>2. /\ s.sprt \in Nat /\ s.sse \in Nat /\ s.cd \in Nat /\ s.host \in Nat
        /\ s.t0 \in Nat /\ s.t1 \in Nat /\ s.rep \in Nat
    BY <1>1 DEF EndRecord
  <1>3. /\ z \in EndRecord /\ z.host = 0 /\ z.out = <<>>
        /\ z.rep = s.rep /\ z.left = s.left /\ z.t0 = s.t0 /\ z.t1 = s.t1 /\ z.n0 = s.n0
        /\ z.sse = s.sse /\ z.cd = s.cd /\ z.sprt = s.sprt /\ z.method = s.method
        /\ z.stamp = s.stamp /\ z.copies = s.copies /\ z.saved = s.saved
        /\ z.asked = s.asked /\ z.heard = s.heard /\ z.answers = s.answers /\ z.expired = s.expired
    BY <1>1 DEF EndRecord
  <1> HIDE DEF z
  <1>4. Part(z) /\ OutAreCopies(z)
    <2>1. Part(s)
      BY DEF EndOk
    <2>2. Clock(z) /\ OwnTimers(z) /\ SentAsAsked(z)
      BY <2>1, <1>3 DEF Part, Clock, OwnTimers, SentAsAsked
    <2> QED
      BY <2>2, <1>3 DEF Part, OutAreCopies
  <1>5. /\ Part(c) /\ OutAreCopies(c)
        /\ c.stamp = s.stamp /\ c.saved = s.saved /\ c.method = s.method
        /\ c.asked = s.asked /\ c.heard = s.heard /\ c.answers = s.answers
        /\ c = z \/ c.expired
        /\ (s.cd # 0 /\ s.cd <= now) => c.expired
    <2>1. CASE ~ (z.cd # 0 /\ z.cd <= now)
      BY <2>1, <1>3, <1>4 DEF call_discrimination_timer_expired
    <2>2. CASE z.cd # 0 /\ z.cd <= now
      <3> DEFINE m == state_machine(z, "CALL_DISCRIMINATION_TIMER_EXPIRED")
                 x == [m EXCEPT !.expired = TRUE]
      <3>1. Quiet(z, m)
        BY <1>3, StateMachine
      <3>2. m \in EndRecord
        BY <3>1 DEF Quiet
      <3>3. c = x
        BY <2>2 DEF call_discrimination_timer_expired
      <3> HIDE DEF m, c
      <3>4. /\ Part(m) /\ m.stamp = z.stamp /\ m.saved = z.saved /\ m.method = z.method
            /\ m.asked = z.asked /\ m.heard = z.heard /\ m.answers = z.answers /\ m.out = z.out
        BY <1>3, <1>4, <3>1, QuietKeeps
      <3>5. /\ x \in EndRecord /\ x.host = m.host /\ x.out = m.out /\ x.expired
            /\ x.rep = m.rep /\ x.left = m.left /\ x.t0 = m.t0 /\ x.t1 = m.t1 /\ x.n0 = m.n0
            /\ x.sse = m.sse /\ x.cd = m.cd /\ x.sprt = m.sprt /\ x.method = m.method
            /\ x.stamp = m.stamp /\ x.copies = m.copies /\ x.saved = m.saved
            /\ x.asked = m.asked /\ x.heard = m.heard /\ x.answers = m.answers
        BY ONLY <3>2 DEF EndRecord
      <3> HIDE DEF x
      <3>6. Part(x)
        BY <3>2, <3>4, <3>5, SameTimers
      <3>7. OutAreCopies(x)
        BY <1>3, <3>4, <3>5 DEF OutAreCopies
      <3> QED
        BY <1>3, <3>3, <3>4, <3>5, <3>6, <3>7
    <2> QED
      BY <2>1, <2>2
  <1> HIDE DEF c
  <1>6. Resends(c, a)
    BY <1>5, ResendByT0
  <1>7. Resends(a, b)
    BY <1>6, ResendByT1 DEF Resends
  <1>8. Resends(b, d)
    BY <1>7, ResendByRepetition DEF Resends
  <1>9. Resends(c, e)
    <2>1. CASE c.sse # 0 /\ c.sse <= now
      <3>1. e = d
        BY <2>1 DEF sse_timer_expired
      <3> QED
        BY <3>1, <1>6, <1>7, <1>8, ResendsTwice
    <2>2. CASE ~ (c.sse # 0 /\ c.sse <= now)
      BY <2>2, <1>5 DEF sse_timer_expired, Resends
    <2> QED
      BY <2>1, <2>2
  <1>10. Resends(e, u)
    <2>1. u = sprt_timer_expired(e, 0)
      BY DEF timer_expired, c, z
    <2> HIDE DEF e, u
    <2>2. CASE ~ (e.sprt # 0 /\ e.sprt <= now)
      BY <2>1, <2>2, <1>9 DEF sprt_timer_expired, Resends
    <2>3. CASE e.sprt # 0 /\ e.sprt <= now
      <3> DEFINE w == [e EXCEPT !.sprt = 0]
      <3>1. e \in EndRecord /\ Part(e)
        BY <1>9 DEF Resends, Part
      <3>2. u = select_timer(w)
        BY <2>1, <2>3 DEF sprt_timer_expired, update_sprt
      <3>3. /\ w \in EndRecord /\ w.sse = e.sse
            /\ w.rep = e.rep /\ w.left = e.left /\ w.t0 = e.t0 /\ w.t1 = e.t1 /\ w.n0 = e.n0
            /\ w.method = e.method /\ w.stamp = e.stamp /\ w.copies = e.copies /\ w.saved = e.saved
            /\ w.asked = e.asked /\ w.heard = e.heard /\ w.answers = e.answers
            /\ w.expired = e.expired /\ w.out = e.out
        BY ONLY <3>1 DEF EndRecord
      <3> HIDE DEF w
      <3>4. u \in EndRecord /\ Clock(u) /\ u = [w EXCEPT !.host = u.host] /\ (w.sse # 0 => u.host # 0)
        BY <3>2, <3>3, SelectTimer
      <3>5. /\ u.sse = w.sse
            /\ u.rep = w.rep /\ u.left = w.left /\ u.t0 = w.t0 /\ u.t1 = w.t1 /\ u.n0 = w.n0
            /\ u.method = w.method /\ u.stamp = w.stamp /\ u.copies = w.copies /\ u.saved = w.saved
            /\ u.asked = w.asked /\ u.heard = w.heard /\ u.answers = w.answers
            /\ u.expired = w.expired /\ u.out = w.out
        BY ONLY <3>3, <3>4, ZenonT(60) DEF EndRecord
      <3>6. OwnTimers(u) /\ SentAsAsked(u)
        BY <3>1, <3>3, <3>5 DEF Part, OwnTimers, SentAsAsked
      <3>7. Hosted(u, now)
        <4> SUFFICES ASSUME Pending(u, now) PROVE u.sse # 0
          BY <3>3, <3>4, <3>5 DEF Hosted
        <4>1. CASE u.rep # 0
          BY <4>1, <3>6 DEF OwnTimers
        <4>2. CASE u.rep = 0
          <5>1. u.t0 \in Nat /\ u.t1 \in Nat /\ u.rep \in Nat
            BY <3>4 DEF EndRecord
          <5>2. u.t0 # 0 /\ u.sse = Earliest({u.t0, u.t1, u.rep})
            BY <4>2, <5>1, <3>6 DEF Pending, OwnTimers
          <5> QED
            BY <5>1, <5>2, EarliestOf
        <4> QED
          BY <4>1, <4>2
      <3>8. OutAreCopies(e) => OutAreCopies(u)
        BY <3>3, <3>5 DEF OutAreCopies, Copy
      <3> QED
        BY <3>3, <3>4, <3>5, <3>6, <3>7, <3>8 DEF Resends, Part
    <2> QED
      BY <2>2, <2>3
  <1>11. Resends(c, u)
    BY <1>9, <1>10, ResendsTwice
  <1>12. u.expired \/ Hosted(u, now)
    <2>1. SUFFICES ASSUME u = c, ~ c.expired PROVE Hosted(u, now)
      BY <1>11 DEF Resends
    <2> HIDE DEF u
    <2>2. c = z /\ ~ (s.cd # 0 /\ s.cd <= now)
      BY <2>1, <1>5
    <2>3. CASE s.sprt # 0 /\ s.sprt <= now /\ ~ (s.sse # 0 /\ s.sse <= now)
      <3>1. e = c
        BY <2>2, <2>3, <1>3 DEF sse_timer_expired
      <3>2. u = update_sprt(c, 0)
        BY <3>1, <2>2, <2>3, <1>3 DEF sprt_timer_expired, timer_expired, u, c, z
      <3>3. FALSE
        <4> DEFINE w == [c EXCEPT !.sprt = 0]
        <4>1. c \in EndRecord /\ c.sprt # 0
          BY <2>2, <2>3, <1>3
        <4>2. w \in EndRecord /\ w.sprt = 0
          BY ONLY <4>1 DEF EndRecord
        <4>3. u = select_timer(w)
          BY <3>2 DEF update_sprt
        <4> HIDE DEF w
        <4>4. u \in EndRecord /\ u = [w EXCEPT !.host = u.host]
          BY <4>2, <4>3, SelectTimer
        <4>5. u.sprt = 0
          BY ONLY <4>2, <4>4 DEF EndRecord
        <4> QED
          BY <4>5, <4>1, <2>1
      <3> QED
        BY <3>3
    <2>4. CASE s.sse # 0 /\ s.sse <= now
      <3>1. SUFFICES ASSUME Pending(s, now) PROVE Hosted(u, now)
        BY <2>1, <2>2, <1>3 DEF Hosted, Pending
      <3>2. e = d
        BY <2>4, <2>2, <1>3 DEF sse_timer_expired
      <3>3. OwnTimers(s)
        BY DEF EndOk, Part
      <3>4. CASE s.rep # 0
        <4>1. s.sse = s.rep /\ s.left >= 1 /\ s.method # "EXPLICIT_ACK" /\ s.t0 = 0 /\ s.t1 = 0 /\ s.n0 = 0
          <5>1. s.method = "REPETITION"
            BY <3>3, <3>4 DEF OwnTimers
          <5> QED
            BY <5>1, <3>3, <3>4 DEF OwnTimers
        <4>2. a = c /\ b = c
          BY <4>1, <2>2, <1>3 DEF T0Expired, T1Expired
        <4>3. d = RepetitionExpired(c) /\ c.rep = s.rep /\ c.rep # 0 /\ c.rep <= now
          BY <4>1, <4>2, <2>2, <2>4, <3>4, <1>3
        <4>4. d.left # c.left
          <5>1. c \in EndRecord /\ c.left \in Nat
            BY <2>2, <1>3, <1>5, SMTT(60) DEF EndRecord
          <5> DEFINE y == IF c.left > 1 THEN update_timer([c EXCEPT !.rep = @ + Interval])
                          ELSE [c EXCEPT !.rep = 0]
          <5>2. d = [SendAgain(y) EXCEPT !.left = @ - 1]
            BY <4>3 DEF RepetitionExpired
          <5>3. y \in EndRecord /\ y.left = c.left
            <6>1. CASE c.left > 1
              <7> DEFINE x == [c EXCEPT !.rep = @ + Interval]
              <7>1. c.rep + Interval \in Nat
                BY V150Assumption, <4>3, <1>2
              <7>2. x \in EndRecord /\ x.left = c.left
                BY <5>1, <7>1 DEF EndRecord
              <7>3. y = update_timer(x)
                BY <6>1
              <7> HIDE DEF x, y
              <7>4. y \in EndRecord /\ y = [x EXCEPT !.host = y.host, !.sse = y.sse]
                BY <7>2, <7>3, UpdateTimer
              <7>5. y.left = x.left
                BY ONLY <7>2, <7>4 DEF EndRecord
              <7> QED
                BY <7>2, <7>4, <7>5
            <6>2. CASE ~ (c.left > 1)
              <7> DEFINE x == [c EXCEPT !.rep = 0]
              <7>1. x \in EndRecord /\ x.left = c.left
                BY ONLY <5>1 DEF EndRecord
              <7>2. y = x
                BY <6>2
              <7> QED
                BY <7>1, <7>2
            <6> QED
              BY <6>1, <6>2
          <5> HIDE DEF y, d
          <5>4. d.left = y.left - 1
            BY ONLY <5>2, <5>3 DEF SendAgain, EndRecord
          <5> QED
            BY <5>1, <5>3, <5>4
        <4>5. d # c
          BY <4>4
        <4>6. Hosted(d, now)
          BY <4>2, <4>5, <1>8 DEF Resends
        <4> QED
          BY <4>6, <3>2, <1>10 DEF Resends
      <3>5. CASE s.rep = 0
        <4>1. s.t0 > now /\ s.t1 > now /\ s.sse = Earliest({s.t0, s.t1, s.rep})
          BY <3>1, <3>3, <3>5, <1>2 DEF Pending, OwnTimers
        <4>2. Earliest({s.t0, s.t1, s.rep}) # 0 => Earliest({s.t0, s.t1, s.rep}) \in {s.t0, s.t1, s.rep}
          BY <1>2, EarliestOf
        <4> QED
          BY <4>1, <4>2, <2>4, <3>5, <1>2
      <3> QED
        BY <3>4, <3>5
    <2>5. s.host \in {s.sprt, s.sse, s.cd}
      <3>1. s.host = Earliest({s.sprt, s.sse, s.cd})
        BY DEF EndOk, Part, Clock
      <3>2. Earliest({s.sprt, s.sse, s.cd}) # 0 => Earliest({s.sprt, s.sse, s.cd}) \in {s.sprt, s.sse, s.cd}
        BY <1>2, EarliestOf
      <3> QED
        BY <3>1, <3>2
    <2> QED
      BY <2>2, <2>3, <2>4, <2>5
  <1> HIDE DEF u
  <1> QED
    BY <1>5, <1>11, <1>12 DEF Resends, EndOk, u

-----------------------------------------------------------------------------
(* One direction.                                                           *)

\* Products of counts grow with either.
LEMMA ProductGrows ==
    ASSUME NEW a \in Nat, NEW b \in Nat
    PROVE  /\ a * b \in Nat /\ (a + 1) * b = a * b + b /\ a * (b + 1) = a * b + a
           /\ a * b <= (a + 1) * b
  <1>1. a * b \in Nat /\ (a + 1) * b = a * b + b /\ a * (b + 1) = a * b + a
    OBVIOUS
  <1> QED
    BY <1>1

\* Sending nothing new keeps the messages under way and the stamps that ask;
\* copies join them at the end.
LEMMA ChannelCopies ==
    ASSUME NEW s \in EndRecord, NEW u \in EndRecord, NEW r \in EndRecord,
           NEW h \in Arrivals, NEW q \in Seq(Message), NEW A, Channel(s, q, r, h, A),
           u.stamp = s.stamp, u.saved = s.saved, u.method = s.method, u.asked = s.asked,
           OutAreCopies(u)
    PROVE  Channel(u, q \o u.out, r, h, A) /\ Channel(u, q, r, h, A)
  <1> DEFINE p == u.out
             n == Len(q)
             k == Len(p)
  <1>1. p \in Seq(Message) /\ s.stamp \in Nat /\ r.heard \in Nat
    BY DEF EndRecord
  <1>2. Copy(u) = Copy(s)
    BY DEF Copy
  <1>3. Copy(s).stamp = s.stamp /\ (MustAnswer(Copy(s)) <=> MustAnswer(s.saved))
    <2>1. s.saved \in Message
      BY DEF EndRecord
    <2>2. Copy(s).stamp = s.stamp /\ Copy(s).event = s.saved.event /\ Copy(s).ric = s.saved.ric
      BY <2>1 DEF Message, Copy
    <2> QED
      BY <2>2 DEF MustAnswer
  <1> HIDE DEF p
  <1>4. /\ n \in Nat /\ k \in Nat /\ Len(q \o p) = n + k
        /\ \A i \in 1 .. n : (q \o p)[i] = q[i]
        /\ \A i \in n + 1 .. n + k : (q \o p)[i] = p[i - n]
    BY <1>1
  <1>5. \A i \in n + 1 .. n + k : (q \o p)[i] = Copy(s) /\ s.method # "NONE" /\ s.stamp > 0
    <2> SUFFICES ASSUME NEW i \in n + 1 .. n + k
                 PROVE  (q \o p)[i] = Copy(s) /\ s.method # "NONE" /\ s.stamp > 0
      OBVIOUS
    <2>1. i - n \in 1 .. k
      BY <1>4
    <2>2. p[i - n] = Copy(u) /\ u.method # "NONE" /\ u.stamp > 0
      BY <2>1 DEF OutAreCopies, p
    <2> QED
      BY <2>2, <1>2, <1>4
  <1>6. Channel(u, q, r, h, A)
    BY <1>2 DEF Channel
  <1> DEFINE w == q \o p
  <1>8. \A i \in 1 .. n + k : i \in 1 .. n \/ i \in n + 1 .. n + k
    BY <1>4
  <1> HIDE DEF n, k
  <1>9. ASSUME NEW i \in 1 .. n + k
        PROVE  /\ w[i].stamp \in 1 .. s.stamp
               /\ MustAnswer(w[i]) => w[i].stamp \in A
               /\ w[i].stamp = s.stamp /\ s.method # "NONE" => w[i] = Copy(s)
    <2>1. CASE i \in 1 .. n
      <3>1. w[i] = q[i]
        BY <1>4, <2>1
      <3> QED
        BY <2>1, <3>1 DEF Channel, n
    <2>2. CASE i \in n + 1 .. n + k
      <3>1. w[i] = Copy(s) /\ s.method # "NONE" /\ s.stamp > 0
        BY <1>5, <2>2
      <3>2. MustAnswer(s.saved) => s.stamp \in A
        BY <3>1 DEF Channel
      <3> QED
        BY <1>1, <1>3, <3>1, <3>2
    <2> QED
      BY <1>8, <2>1, <2>2
  <1>11. Channel(u, w, r, h, A)
    <2>1. Len(w) = n + k
      BY <1>4
    <2> HIDE DEF w
    <2>2. /\ A \in SUBSET (1 .. u.stamp) /\ Cardinality(A) = u.asked
          /\ r.answers <= u.asked * h.late + Cardinality({a \in A : a <= r.heard})
          /\ u.stamp > 0 /\ u.method # "NONE" /\ MustAnswer(u.saved) => u.stamp \in A
          /\ r.heard <= u.stamp /\ r.heard <= h.latest
      BY DEF Channel
    <2> QED
      BY <1>2, <1>9, <2>1, <2>2 DEF Channel
  <1> QED
    BY <1>6, <1>11 DEF p

\* A message that is new joins those under way, or gets lost; if it asks for an
\* answer, its stamp is one more of those that do.
LEMMA ChannelNew ==
    ASSUME NEW s \in EndRecord, NEW u \in EndRecord, NEW r \in EndRecord,
           NEW h \in Arrivals, NEW q \in Seq(Message), NEW A, Channel(s, q, r, h, A), NewMessage(s, u),
           u.asked = IF MustAnswer(u.out[1]) THEN s.asked + 1 ELSE s.asked
    PROVE  \E B : Channel(u, q \o u.out, r, h, B) /\ Channel(u, q, r, h, B)
  <1> DEFINE m == u.out[1]
             n == Len(q)
             w == q \o u.out
             B == IF MustAnswer(m) THEN A \cup {u.stamp} ELSE A
  <1>1. s.stamp \in Nat /\ r.heard \in Nat /\ r.answers \in Nat /\ u.stamp = s.stamp + 1
    BY DEF EndRecord, NewMessage
  <1>2. u.out \in Seq(Message) /\ Len(u.out) = 1
    BY DEF EndRecord, NewMessage
  <1>3. m \in Message /\ m.stamp = u.stamp
    BY <1>2 DEF NewMessage
  <1>4. n \in Nat /\ Len(w) = n + 1 /\ (\A i \in 1 .. n : w[i] = q[i]) /\ w[n + 1] = m
    <2> DEFINE p == u.out
    <2>1. p \in Seq(Message) /\ Len(p) = 1 /\ q \in Seq(Message)
      BY <1>2
    <2> HIDE DEF p
    <2>2. /\ Len(q) \in Nat /\ Len(q \o p) = Len(q) + 1 /\ (q \o p)[Len(q) + 1] = p[1]
          /\ \A i \in 1 .. Len(q) : (q \o p)[i] = q[i]
      <3>0. p \in Seq(Message) /\ q \in Seq(Message)
        BY <2>1
      <3>1. Len(q) \in Nat /\ Len(q \o p) = Len(q) + 1
        <4>1. Len(q) \in Nat /\ Len(q \o p) = Len(q) + Len(p)
          BY ONLY <3>0
        <4> QED
          BY <4>1, <2>1
      <3>2. \A i \in 1 .. Len(q) : (q \o p)[i] = q[i]
        BY ONLY <3>0
      <3>3. \A i \in Len(q) + 1 .. Len(q) + Len(p) : (q \o p)[i] = p[i - Len(q)]
        BY ONLY <3>0
      <3>4. Len(q) + 1 \in Len(q) + 1 .. Len(q) + Len(p) /\ Len(q) + 1 - Len(q) = 1
        BY <3>1, <2>1
      <3>5. (q \o p)[Len(q) + 1] = p[Len(q) + 1 - Len(q)]
        BY <3>3, <3>4
      <3> QED
        BY <3>1, <3>2, <3>4, <3>5
    <2> QED
      BY <2>2 DEF p
  <1>5. A \in SUBSET (1 .. s.stamp) /\ Cardinality(A) = s.asked /\ IsFiniteSet(A)
    <2>1. A \in SUBSET (1 .. s.stamp) /\ Cardinality(A) = s.asked
      BY DEF Channel
    <2> DEFINE k == s.stamp
    <2>0. k \in Int /\ 1 \in Int
      BY <1>1
    <2> HIDE DEF k
    <2>3. IsFiniteSet(1 .. k)
      BY ONLY <2>0, FS_Interval
    <2>2. IsFiniteSet(1 .. s.stamp)
      BY <2>3 DEF k
    <2> QED
      BY <2>1, <2>2, FS_Subset
  <1>6. u.stamp \notin A /\ B \in SUBSET (1 .. u.stamp) /\ A \subseteq B /\ IsFiniteSet(B)
    <2>1. u.stamp \notin A /\ u.stamp \in 1 .. u.stamp /\ 1 .. s.stamp \subseteq 1 .. u.stamp
      BY <1>1, <1>5
    <2>2. IsFiniteSet(A \cup {u.stamp})
      BY <1>5, FS_AddElement
    <2> QED
      BY <1>5, <2>1, <2>2
  <1>7. Cardinality(B) = u.asked
    <2>1. Cardinality(A \cup {u.stamp}) = Cardinality(A) + 1
      BY <1>5, <1>6, FS_AddElement
    <2> QED
      BY <1>5, <2>1
  <1>8. /\ r.answers <= u.asked * h.late + Cardinality({a \in B : a <= r.heard})
        /\ r.heard <= s.stamp /\ r.heard <= h.latest
    <2> DEFINE c == Cardinality({a \in A : a <= r.heard})
    <2>1. r.heard <= s.stamp /\ r.heard <= h.latest /\ r.answers <= s.asked * h.late + c
      BY DEF Channel
    <2>2. ~ (u.stamp <= r.heard)
      BY <1>1, <2>1
    <2>3. {a \in B : a <= r.heard} = {a \in A : a <= r.heard}
      BY <2>2
    <2>4. IsFiniteSet({a \in A : a <= r.heard})
      BY <1>5, FS_Subset
    <2>5. c \in Nat
      BY <2>4, FS_CardinalityType
    <2>6. s.asked \in Nat /\ h.late \in Nat
      BY DEF EndRecord, Arrivals
    <2> HIDE DEF c
    <2> DEFINE x == s.asked
               y == h.late
    <2>10. x \in Nat /\ y \in Nat /\ u.asked \in {x, x + 1}
      BY <2>6
    <2> HIDE DEF x, y
    <2>7. x * y \in Nat /\ (x + 1) * y = x * y + y
      BY <2>10, ProductGrows
    <2>8. r.answers <= x * y + c
      BY <2>1 DEF x, y
    <2>9. r.answers <= u.asked * y + c
      <3>1. CASE u.asked = x
        BY <2>8, <3>1
      <3>2. CASE u.asked = x + 1
        <4>1. u.asked * y = x * y + y
          BY <2>7, <3>2
        <4> DEFINE z == x * y
        <4>2. z \in Nat /\ r.answers <= z + c /\ u.asked * y = z + y
          BY <2>7, <2>8, <4>1
        <4> HIDE DEF z
        <4> QED
          BY ONLY <1>1, <2>5, <2>10, <4>2
      <3> QED
        BY <2>10, <3>1, <3>2
    <2> QED
      BY <2>1, <2>3, <2>9 DEF c, y
  <1>9. u.method # "NONE" => m = Copy(u) /\ u.saved = m
    BY DEF NewMessage
  <1>10. u.method # "NONE" /\ MustAnswer(u.saved) => u.stamp \in B
    BY <1>9
  <1>11. \A i \in 1 .. n : /\ q[i].stamp \in 1 .. s.stamp
                           /\ MustAnswer(q[i]) => q[i].stamp \in A
    BY DEF Channel
  <1>13. \A i \in 1 .. n : q[i].stamp \in 1 .. u.stamp /\ q[i].stamp # u.stamp
    BY <1>1, <1>11
  <1>14. MustAnswer(m) => u.stamp \in B
    OBVIOUS
  <1> HIDE DEF B, m, w, n
  <1>15. Channel(u, q, r, h, B)
    <2>1. \A i \in 1 .. Len(q) :
          /\ q[i].stamp \in 1 .. u.stamp
          /\ MustAnswer(q[i]) => q[i].stamp \in B
          /\ q[i].stamp = u.stamp /\ u.method # "NONE" => q[i] = Copy(u)
      BY <1>6, <1>11, <1>13 DEF n
    <2>2. r.heard <= u.stamp
      BY <1>1, <1>8
    <2> QED
      BY <1>6, <1>7, <1>8, <1>10, <2>1, <2>2 DEF Channel, n
  <1>16. ASSUME NEW i \in 1 .. n + 1
         PROVE  /\ w[i].stamp \in 1 .. u.stamp
                /\ MustAnswer(w[i]) => w[i].stamp \in B
                /\ w[i].stamp = u.stamp /\ u.method # "NONE" => w[i] = Copy(u)
    <2>1. CASE i \in 1 .. n
      <3>1. w[i] = q[i]
        BY <1>4, <2>1
      <3> QED
        BY <1>6, <1>11, <1>13, <2>1, <3>1
    <2>2. CASE i = n + 1
      <3>1. w[i] = m
        BY <1>4, <2>2
      <3> QED
        BY <1>1, <1>3, <1>8, <1>9, <1>14, <3>1
    <2> QED
      BY <1>4, <2>1, <2>2
  <1>18. Channel(u, w, r, h, B)
    <2>1. r.heard <= u.stamp
      BY <1>1, <1>8
    <2> QED
      BY <1>4, <1>6, <1>7, <1>8, <1>10, <1>16, <2>1 DEF Channel
  <1> QED
    BY <1>15, <1>18 DEF w

\* A sequence without one of its places.
LEMMA Without ==
    ASSUME NEW q \in Seq(Message), NEW i \in 1 .. Len(q)
    PROVE  /\ RemoveAt(q, i) \in Seq(Message)
           /\ \A j \in 1 .. Len(RemoveAt(q, i)) : \E k \in 1 .. Len(q) : RemoveAt(q, i)[j] = q[k]
  <1> DEFINE n == Len(q)
             a == SubSeq(q, 1, i - 1)
             b == SubSeq(q, i + 1, n)
  <1>1. n \in Nat /\ i \in 1 .. n /\ q \in Seq(Message)
    OBVIOUS
  <1> HIDE DEF n
  <1>2. /\ a \in Seq(Message) /\ Len(a) = i - 1 /\ \A j \in 1 .. i - 1 : a[j] = q[j] /\ j \in 1 .. n
    BY <1>1 DEF n
  <1>3. /\ b \in Seq(Message) /\ Len(b) = n - i
        /\ \A j \in 1 .. n - i : b[j] = q[i + j] /\ i + j \in 1 .. n
    BY <1>1 DEF n
  <1> HIDE DEF a, b
  <1>4. RemoveAt(q, i) = a \o b
    BY DEF RemoveAt, a, b, n
  <1>5. a \o b \in Seq(Message) /\ Len(a \o b) = n - 1
    <2>1. a \in Seq(Message) /\ b \in Seq(Message)
      BY <1>2, <1>3
    <2>2. a \o b \in Seq(Message) /\ Len(a \o b) = Len(a) + Len(b)
      BY ONLY <2>1
    <2> QED
      BY ONLY <1>1, <1>2, <1>3, <2>2
  <1>6. \A j \in 1 .. n - 1 : j \in 1 .. i - 1 => (a \o b)[j] = a[j]
    BY <1>2, <1>3
  <1>7. \A j \in 1 .. n - 1 : j \notin 1 .. i - 1 => (a \o b)[j] = b[j - (i - 1)] /\ j - (i - 1) \in 1 .. n - i
    BY <1>1, <1>2, <1>3
  <1>8. ASSUME NEW j \in 1 .. n - 1 PROVE \E k \in 1 .. n : (a \o b)[j] = q[k]
    <2>1. CASE j \in 1 .. i - 1
      BY <2>1, <1>2, <1>6
    <2>2. CASE j \notin 1 .. i - 1
      <3>1. i + (j - (i - 1)) \in 1 .. n /\ (a \o b)[j] = q[i + (j - (i - 1))]
        BY <2>2, <1>3, <1>7
      <3> QED
        BY <3>1
    <2> QED
      BY <2>1, <2>2
  <1> QED
    BY <1>4, <1>5, <1>8 DEF n

\* The receiver takes one of the packets, and answers it at most once; if its
\* stamp is below the one heard, the packet is late.
LEMMA ChannelHear ==
    ASSUME NEW s \in EndRecord, NEW r \in EndRecord, NEW v \in EndRecord, NEW h \in Arrivals,
           NEW q \in Seq(Message), NEW i \in 1 .. Len(q), NEW A, Channel(s, q, r, h, A),
           \/ v.heard = r.heard /\ v.heard = q[i].stamp /\ v.answers = r.answers
           \/ /\ r.heard # q[i].stamp /\ v.heard = q[i].stamp
              /\ v.answers = r.answers \/ (MustAnswer(q[i]) /\ v.answers = r.answers + 1)
    PROVE  Arrives(h, q[i].stamp) \in Arrivals /\ Channel(s, RemoveAt(q, i), v, Arrives(h, q[i].stamp), A)
  <1> DEFINE f == q[i]
             g == Arrives(h, f.stamp)
             X == {a \in A : a <= r.heard}
             Y == {a \in A : a <= v.heard}
  <1>1. /\ s.stamp \in Nat /\ r.heard \in Nat /\ r.answers \in Nat /\ v.answers \in Nat
        /\ s.asked \in Nat /\ h.late \in Nat /\ h.latest \in Nat
    BY DEF EndRecord, Arrivals
  <1>2. f.stamp \in 1 .. s.stamp /\ (MustAnswer(f) => f.stamp \in A) /\ f.stamp \in Nat
    BY <1>1 DEF Channel
  <1>13. /\ v.heard = f.stamp /\ v.answers \in {r.answers, r.answers + 1}
         /\ v.answers # r.answers => MustAnswer(f) /\ r.heard # f.stamp
    OBVIOUS
  <1> HIDE DEF f
  <1>3. A \in SUBSET (1 .. s.stamp) /\ IsFiniteSet(A)
    <2>1. A \in SUBSET (1 .. s.stamp)
      BY DEF Channel
    <2>2. IsFiniteSet(1 .. s.stamp)
      <3> DEFINE k == s.stamp
      <3>1. k \in Int /\ 1 \in Int
        BY <1>1
      <3> HIDE DEF k
      <3>2. IsFiniteSet(1 .. k)
        BY ONLY <3>1, FS_Interval
      <3> QED
        BY <3>2 DEF k
    <2> QED
      BY <2>1, <2>2, FS_Subset
  <1>4. /\ r.answers <= s.asked * h.late + Cardinality(X) /\ r.heard <= s.stamp /\ r.heard <= h.latest
        /\ Cardinality(A) = s.asked
        /\ s.stamp > 0 /\ s.method # "NONE" /\ MustAnswer(s.saved) => s.stamp \in A
    BY DEF Channel
  <1>5. /\ IsFiniteSet(X) /\ IsFiniteSet(Y) /\ Cardinality(X) \in Nat /\ Cardinality(Y) \in Nat
        /\ Cardinality(X) <= s.asked
    <2>1. X \subseteq A /\ Y \subseteq A
      OBVIOUS
    <2> HIDE DEF X, Y
    <2>2. IsFiniteSet(X) /\ IsFiniteSet(Y) /\ Cardinality(X) <= Cardinality(A)
      BY <1>3, <2>1, FS_Subset
    <2> QED
      BY <1>4, <2>2, FS_CardinalityType
  <1>6. v.heard = f.stamp /\ v.heard \in 1 .. s.stamp
    BY <1>2, <1>13
  <1>7. /\ g \in Arrivals /\ v.heard <= g.latest /\ g.late \in Nat
        /\ g.late = h.late \/ g.late = h.late + 1
        /\ f.stamp < r.heard => g.late = h.late + 1
    <2>1. CASE f.stamp < h.latest
      <3>1. g = [h EXCEPT !.late = @ + 1]
        BY <2>1 DEF Arrives
      <3>2. g \in Arrivals /\ g.late = h.late + 1 /\ g.latest = h.latest
        BY <1>1, <3>1 DEF Arrivals
      <3> QED
        BY ONLY <1>1, <1>2, <1>6, <2>1, <3>2
    <2>2. CASE ~ (f.stamp < h.latest)
      <3>1. g = [h EXCEPT !.latest = f.stamp]
        BY <2>2 DEF Arrives
      <3>2. g \in Arrivals /\ g.late = h.late /\ g.latest = f.stamp
        BY <1>2, <3>1 DEF Arrivals
      <3> QED
        BY ONLY <1>1, <1>2, <1>4, <1>6, <2>2, <3>2
    <2> QED
      BY <2>1, <2>2
  <1> HIDE DEF g
  <1>8. /\ s.asked * h.late \in Nat /\ s.asked * g.late \in Nat /\ s.asked * h.late <= s.asked * g.late
        /\ g.late = h.late + 1 => s.asked * g.late = s.asked * h.late + s.asked
    <2> DEFINE x == s.asked
               y == h.late
               z == g.late
    <2>1. x \in Nat /\ y \in Nat /\ z \in {y, y + 1}
      BY <1>1, <1>7
    <2> HIDE DEF x, y, z
    <2>2. x * y \in Nat /\ x * (y + 1) = x * y + x
      BY <2>1, ProductGrows
    <2>3. x * y \in Nat /\ x * z \in Nat /\ x * y <= x * z /\ (z = y + 1 => x * z = x * y + x)
      <3>1. CASE z = y
        BY ONLY <2>1, <2>2, <3>1
      <3>2. CASE z = y + 1
        BY ONLY <2>1, <2>2, <3>2
      <3> QED
        BY <2>1, <3>1, <3>2
    <2> QED
      BY <2>3 DEF x, y, z
  <1>9. f.stamp \in A => f.stamp \in Y
    BY <1>2, <1>6
  <1>10. v.answers <= s.asked * g.late + Cardinality(Y)
    <2>1. CASE r.heard <= f.stamp
      <3>1. X \subseteq Y
        <4>1. \A a \in A : a \in Nat
          BY <1>1, <1>3
        <4> QED
          BY <1>1, <1>2, <1>6, <2>1, <4>1
      <3>2. v.answers = r.answers + 1 => f.stamp \in A /\ f.stamp \notin X /\ f.stamp \in Y
        <4> SUFFICES ASSUME v.answers = r.answers + 1 PROVE f.stamp \in A /\ f.stamp \notin X
          BY <1>9
        <4>1. MustAnswer(f) /\ r.heard # f.stamp
          BY <1>1, <1>13
        <4> QED
          BY <1>1, <1>2, <2>1, <4>1
      <3> HIDE DEF X, Y
      <3>3. CASE v.answers = r.answers
        <4>1. Cardinality(X) <= Cardinality(Y)
          BY <1>5, <3>1, FS_Subset
        <4> DEFINE x == s.asked * h.late
                   y == s.asked * g.late
                   c == Cardinality(X)
                   d == Cardinality(Y)
                   va == v.answers
                   ra == r.answers
        <4>2. /\ x \in Nat /\ y \in Nat /\ c \in Nat /\ d \in Nat /\ x <= y /\ c <= d
              /\ ra \in Nat /\ va = ra /\ ra <= x + c
          <5>1. x \in Nat /\ y \in Nat /\ x <= y
            BY <1>8
          <5>2. c \in Nat /\ d \in Nat /\ c <= d
            BY <1>5, <4>1
          <5>3. ra \in Nat /\ va = ra /\ ra <= x + c
            BY <1>1, <1>4, <3>3
          <5> QED
            BY <5>1, <5>2, <5>3
        <4> HIDE DEF x, y, c, d, va, ra
        <4>3. va <= y + d
          BY ONLY <4>2
        <4> QED
          BY <4>3 DEF va, y, d
      <3>4. CASE v.answers = r.answers + 1
        <4>1. Cardinality(X \cup {f.stamp}) = Cardinality(X) + 1 /\ IsFiniteSet(X \cup {f.stamp})
          BY <1>5, <3>2, <3>4, FS_AddElement
        <4>2. Cardinality(X \cup {f.stamp}) <= Cardinality(Y)
          <5>1. X \cup {f.stamp} \subseteq Y
            BY <3>1, <3>2, <3>4
          <5> QED
            BY <5>1, <1>5, FS_Subset
        <4> QED
          BY ONLY <1>1, <1>4, <1>5, <1>8, <3>4, <4>1, <4>2
      <3> QED
        BY <1>13, <3>3, <3>4
    <2>2. CASE ~ (r.heard <= f.stamp)
      <3>1. s.asked * g.late = s.asked * h.late + s.asked
        BY ONLY <1>1, <1>2, <1>7, <1>8, <2>2
      <3>2. v.answers = r.answers + 1 => Cardinality(Y) >= 1
        <4> SUFFICES ASSUME v.answers = r.answers + 1 PROVE Cardinality(Y) >= 1
          OBVIOUS
        <4>1. f.stamp \in Y
          BY <1>1, <1>2, <1>9, <1>13
        <4> HIDE DEF Y
        <4>2. Cardinality(Y) # 0
          BY <1>5, <4>1, FS_EmptySet
        <4> QED
          BY <1>5, <4>2
      <3> HIDE DEF X, Y
      <3> DEFINE x == s.asked * h.late
                 y == s.asked * g.late
                 c == Cardinality(X)
                 d == Cardinality(Y)
      <3>3. /\ x \in Nat /\ y \in Nat /\ c \in Nat /\ d \in Nat /\ y = x + s.asked /\ c <= s.asked
            /\ r.answers <= x + c /\ (v.answers = r.answers + 1 => d >= 1)
        BY ONLY <1>4, <1>5, <1>8, <3>1, <3>2
      <3> HIDE DEF x, y, c, d
      <3>4. v.answers <= y + d
        <4> DEFINE k == s.asked
                   va == v.answers
                   ra == r.answers
        <4>1. k \in Nat /\ ra \in Nat /\ va \in {ra, ra + 1}
          BY <1>1, <1>13
        <4>2. y = x + k /\ c <= k /\ ra <= x + c /\ (va = ra + 1 => d >= 1)
          BY <3>3
        <4>3. x \in Nat /\ y \in Nat /\ c \in Nat /\ d \in Nat
          BY <3>3
        <4> HIDE DEF k, va, ra
        <4>4. va <= y + d
          BY ONLY <4>1, <4>2, <4>3
        <4> QED
          BY <4>4 DEF va
      <3> QED
        BY <3>4 DEF y, d
    <2> QED
      BY <2>1, <2>2
  <1> DEFINE w == RemoveAt(q, i)
  <1>11. ASSUME NEW j \in 1 .. Len(w)
         PROVE  /\ w[j].stamp \in 1 .. s.stamp
                /\ MustAnswer(w[j]) => w[j].stamp \in A
                /\ w[j].stamp = s.stamp /\ s.method # "NONE" => w[j] = Copy(s)
    <2>1. PICK k \in 1 .. Len(q) : w[j] = q[k]
      BY Without
    <2> QED
      BY <2>1 DEF Channel
  <1> HIDE DEF w, X
  <1>12. Channel(s, w, v, g, A)
    BY <1>1, <1>3, <1>4, <1>6, <1>7, <1>10, <1>11 DEF Channel
  <1> QED
    BY <1>7, <1>12 DEF w, g, f

\* Only what a channel speaks of matters to it.
LEMMA ChannelSame ==
    ASSUME NEW s, NEW u, NEW r, NEW v, NEW q, NEW h, NEW A, Channel(s, q, r, h, A),
           u.stamp = s.stamp, u.saved = s.saved, u.method = s.method, u.asked = s.asked,
           v.heard = r.heard, v.answers = r.answers
    PROVE  Channel(u, q, v, h, A)
  <1>1. Copy(u) = Copy(s)
    BY DEF Copy
  <1> QED
    BY <1>1 DEF Channel

-----------------------------------------------------------------------------
(* Both endpoints.                                                          *)

\* There are two.
LEMMA TwoEnds ==
    ASSUME NEW e \in Ends
    PROVE  /\ Other(e) \in Ends /\ Other(e) # e /\ Other(Other(e)) = e
           /\ \A d \in Ends : d = e \/ d = Other(e)
  <1>1. PICK a \in Ends, b \in Ends : a # b /\ Ends = {a, b}
    BY V150Assumption
  <1>2. Other(a) = b /\ Other(b) = a
    BY <1>1 DEF Other
  <1> QED
    BY <1>1, <1>2

\* At first the endpoints are idle and nothing is under way.
LEMMA InitOk == Init => V150Inv
  <1> SUFFICES ASSUME Init PROVE V150Inv
    OBVIOUS
  <1>1. PICK near \in Selects, far \in Selects, method \in Methods :
         ep = [e \in Ends |->
                [local |-> "INITIAL_AUDIO", remote |-> "INITIAL_AUDIO", acked |-> "RESERVED",
                 cdsc |-> set_joint_cdscselect(near, far), method |-> method,
                 rep |-> 0, left |-> 0, t0 |-> 0, t1 |-> 0, n0 |-> 0, saved |-> NoPacket, heard |-> 0,
                 sse |-> 0, cd |-> 0, sprt |-> 0, host |-> 0, out |-> <<>>,
                 stamp |-> 0, copies |-> 0, lost |-> 0, answers |-> 0, expired |-> FALSE,
                 signalled |-> 0, asked |-> 0, sprts |-> 0, sends |-> 0]]
    BY DEF Init
  <1>2. "INITIAL_AUDIO" \in States /\ "INITIAL_AUDIO" \in Media /\ "RESERVED" \in Acks
    BY DEF States, Media, Acks
  <1>3. NoPacket \in Message
    BY <1>2 DEF NoPacket, Message, Reasons
  <1>4. set_joint_cdscselect(near, far) \in {"INDETERMINATE", "AUDIO_RFC4733", "VBD_PREFERRED", "MIXED"}
    BY DEF set_joint_cdscselect
  <1>5. 0 \in 0 .. Copies - 1 /\ 0 \in 0 .. N0 /\ 0 \in Nat
    <2>1. Copies \in 2 .. 10 /\ N0 \in 2 .. 10
      BY V150Assumption
    <2> QED
      BY <2>1
  <1>6. Earliest({0, 0, 0}) = 0
    BY DEF Earliest
  <1>7. ASSUME NEW e \in Ends
        PROVE  /\ ep[e] \in EndRecord /\ EndOk(ep[e], 1) /\ ep[e].out = <<>>
               /\ ep[e].stamp = 0 /\ ep[e].asked = 0 /\ ep[e].heard = 0 /\ ep[e].answers = 0
    <2>1. <<>> \in Seq(Message)
      OBVIOUS
    <2>2. ep[e] \in EndRecord
      BY <1>1, <1>2, <1>3, <1>4, <1>5, <2>1 DEF EndRecord
    <2>3. /\ ep[e].rep = 0 /\ ep[e].t0 = 0 /\ ep[e].t1 = 0 /\ ep[e].n0 = 0 /\ ep[e].sse = 0
          /\ ep[e].cd = 0 /\ ep[e].sprt = 0 /\ ep[e].host = 0 /\ ep[e].stamp = 0 /\ ep[e].out = <<>>
          /\ ep[e].asked = 0 /\ ep[e].heard = 0 /\ ep[e].answers = 0
      BY <1>1
    <2>4. Part(ep[e])
      BY <2>2, <2>3, <1>6 DEF Part, Clock, OwnTimers, SentAsAsked
    <2>5. Hosted(ep[e], 1)
      BY <2>3 DEF Hosted, Pending
    <2> QED
      BY <2>2, <2>3, <2>4, <2>5 DEF EndOk
  <1>8. ep \in [Ends -> EndRecord] /\ net \in [Ends -> Seq(Message)] /\ now = 1
    <2>1. <<>> \in Seq(Message)
      OBVIOUS
    <2>2. net \in [Ends -> Seq(Message)] /\ now = 1
      BY <2>1 DEF Init
    <2>3. DOMAIN ep = Ends /\ ep = [e \in Ends |-> ep[e]]
      BY <1>1
    <2> QED
      BY ONLY <1>7, <2>2, <2>3
  <1>9. ASSUME NEW e \in Ends PROVE Channel(ep[Other(e)], net[e], ep[e], order[e], {})
    <2>1. net[e] = <<>> /\ Other(e) \in Ends
      BY TwoEnds DEF Init
    <2>2. \A i \in 1 .. Len(<<>>) : FALSE
      OBVIOUS
    <2>3. Cardinality({}) = 0 /\ {a \in {} : a <= ep[e].heard} = {}
      BY FS_EmptySet
    <2>4. ~ (ep[Other(e)].stamp > 0) /\ ep[Other(e)].asked = 0 /\ ep[e].answers = 0
          /\ ep[e].heard = 0 /\ ep[Other(e)].stamp = 0
      BY <1>7, <2>1
    <2>5. order[e].late = 0 /\ order[e].latest = 0
      BY DEF Init
    <2> HIDE DEF Init
    <2> QED
      BY <2>1, <2>2, <2>3, <2>4, <2>5 DEF Channel
  <1>10. order \in [Ends -> Arrivals]
    BY DEF Init, Arrivals
  <1> QED
    BY <1>7, <1>8, <1>9, <1>10 DEF V150Inv, Channels

\* What a call leaves, with what it put out sent or lost, is as it should be if
\* both directions are.
LEMMA SetStep ==
    ASSUME V150Inv, NEW e \in Ends, NEW u \in EndRecord, NEW n, Set(e, u, n),
           EndOk(u, now), n \in [Ends -> Seq(Message)],
           order' \in [Ends -> Arrivals], order'[Other(e)] = order[Other(e)],
           \E A : Channel(ep[Other(e)], n[e], u, order'[e], A),
           \E A : /\ Channel(u, n[Other(e)] \o u.out, ep[Other(e)], order[Other(e)], A)
                  /\ Channel(u, n[Other(e)], ep[Other(e)], order[Other(e)], A)
    PROVE  V150Inv'
  <1> DEFINE o == Other(e)
  <1>1. PICK lose \in BOOLEAN :
          /\ ep' = [ep EXCEPT ![e] = [u EXCEPT !.out = <<>>, !.lost = IF lose THEN @ + Len(u.out) ELSE @]]
          /\ net' = IF lose THEN n ELSE [n EXCEPT ![o] = @ \o u.out]
          /\ now' = now
    BY DEF Set
  <1>2. o \in Ends /\ o # e /\ Other(o) = e /\ \A d \in Ends : d = e \/ d = o
    BY TwoEnds
  <1> HIDE DEF o
  <1> DEFINE w == [u EXCEPT !.out = <<>>, !.lost = IF lose THEN @ + Len(u.out) ELSE @]
  <1>3. ep \in [Ends -> EndRecord] /\ now \in Nat \ {0}
    BY DEF V150Inv
  <1>4. (IF lose THEN u.lost + Len(u.out) ELSE u.lost) \in Nat /\ <<>> \in Seq(Message) /\ u.out \in Seq(Message)
    <2>1. u.lost \in Nat /\ u.out \in Seq(Message)
      BY DEF EndRecord
    <2>2. Len(u.out) \in Nat
      BY <2>1
    <2> QED
      BY <2>1, <2>2
  <1>5. /\ w \in EndRecord /\ w.out = <<>> /\ w.expired = u.expired
        /\ w.rep = u.rep /\ w.left = u.left /\ w.t0 = u.t0 /\ w.t1 = u.t1 /\ w.n0 = u.n0
        /\ w.sse = u.sse /\ w.cd = u.cd /\ w.sprt = u.sprt /\ w.host = u.host
        /\ w.method = u.method /\ w.stamp = u.stamp /\ w.copies = u.copies
        /\ w.saved = u.saved /\ w.asked = u.asked /\ w.heard = u.heard /\ w.answers = u.answers
    BY <1>4 DEF EndRecord
  <1>6. ep' = [ep EXCEPT ![e] = w]
    BY <1>1
  <1> HIDE DEF w
  <1>7. ep' \in [Ends -> EndRecord] /\ ep'[e] = w /\ ep'[o] = ep[o]
    BY <1>2, <1>3, <1>5, <1>6
  <1>8. EndOk(w, now)
    BY <1>5, SameTimers DEF EndOk
  <1>9. \A d \in Ends : EndOk(ep'[d], now') /\ ep'[d].out = <<>>
    BY <1>1, <1>2, <1>5, <1>7, <1>8 DEF V150Inv
  <1>10. net' \in [Ends -> Seq(Message)] /\ net'[e] = n[e] /\ net'[o] \in {n[o] \o u.out, n[o]}
    <2>1. n[o] \in Seq(Message)
      BY <1>2
    <2>2. n[o] \o u.out \in Seq(Message)
      BY <1>4, <2>1
    <2> QED
      BY <1>1, <1>2, <2>2
  <1>11. \E A : Channel(ep'[o], net'[e], ep'[e], order'[e], A)
    <2>1. PICK A : Channel(ep[o], n[e], u, order'[e], A)
      BY DEF o
    <2>2. Channel(ep[o], n[e], w, order'[e], A)
      BY <2>1, <1>5, ChannelSame
    <2> QED
      BY <2>2, <1>7, <1>10
  <1>12. \E A : Channel(ep'[e], net'[o], ep'[o], order'[o], A)
    <2>1. PICK A : Channel(u, n[o] \o u.out, ep[o], order'[o], A) /\ Channel(u, n[o], ep[o], order'[o], A)
      BY DEF o
    <2>2. Channel(w, n[o] \o u.out, ep[o], order'[o], A) /\ Channel(w, n[o], ep[o], order'[o], A)
      BY <2>1, <1>5, ChannelSame
    <2> QED
      BY <2>2, <1>7, <1>10
  <1>13. Channels(ep', net', order')
    BY <1>2, <1>11, <1>12 DEF Channels, o
  <1> QED
    BY <1>1, <1>3, <1>7, <1>9, <1>10, <1>13 DEF V150Inv

\* Before a call, both directions are as they should be.
LEMMA BothWays ==
    ASSUME V150Inv, NEW e \in Ends
    PROVE  /\ ep[e] \in EndRecord /\ ep[Other(e)] \in EndRecord
           /\ net[e] \in Seq(Message) /\ net[Other(e)] \in Seq(Message)
           /\ order \in [Ends -> Arrivals] /\ order[e] \in Arrivals /\ order[Other(e)] \in Arrivals
           /\ \E A : Channel(ep[Other(e)], net[e], ep[e], order[e], A)
           /\ \E A : Channel(ep[e], net[Other(e)], ep[Other(e)], order[Other(e)], A)
           /\ EndOk(ep[e], now) /\ ep[e].out = <<>> /\ now \in Nat \ {0}
  <1>1. Other(e) \in Ends /\ Other(Other(e)) = e
    BY TwoEnds
  <1> QED
    BY <1>1 DEF V150Inv, Channels

\* A call that sends nothing, and neither hears nor answers, is harmless.
LEMMA SetQuietly ==
    ASSUME V150Inv, NEW e \in Ends, NEW u \in EndRecord, Set(e, u, net), order' = order, EndOk(u, now),
           u.stamp = ep[e].stamp, u.saved = ep[e].saved, u.method = ep[e].method,
           u.asked = ep[e].asked, u.heard = ep[e].heard, u.answers = ep[e].answers,
           OutAreCopies(u)
    PROVE  V150Inv'
  <1>1. /\ ep[e] \in EndRecord /\ ep[Other(e)] \in EndRecord /\ net[Other(e)] \in Seq(Message)
        /\ net \in [Ends -> Seq(Message)]
        /\ order \in [Ends -> Arrivals] /\ order[Other(e)] \in Arrivals
    BY BothWays DEF V150Inv
  <1>2. \E A : Channel(ep[Other(e)], net[e], u, order[e], A)
    <2>1. PICK A : Channel(ep[Other(e)], net[e], ep[e], order[e], A)
      BY BothWays
    <2> QED
      BY <2>1, ChannelSame
  <1>3. \E A : /\ Channel(u, net[Other(e)] \o u.out, ep[Other(e)], order[Other(e)], A)
               /\ Channel(u, net[Other(e)], ep[Other(e)], order[Other(e)], A)
    <2>1. PICK A : Channel(ep[e], net[Other(e)], ep[Other(e)], order[Other(e)], A)
      BY BothWays
    <2> QED
      BY <1>1, <2>1, ChannelCopies
  <1> QED
    BY <1>1, <1>2, <1>3, SetStep

-----------------------------------------------------------------------------
(* Each action keeps the invariant.                                         *)

\* The application sends a message.
LEMMA TxSseKeeps ==
    ASSUME V150Inv, NEW e \in Ends, TxSse(e)
    PROVE  V150Inv'
  <1> DEFINE s == ep[e]
  <1>1. PICK p \in Sent :
          LET t == tx_sse_packet(s, p[1], p[2])
          IN  Set(e, [t EXCEPT !.sends = @ + 1,
                               !.asked = IF MustAnswer([event |-> p[1], ric |-> p[2]]) THEN @ + 1 ELSE @], net)
    BY DEF TxSse
  <1>0. order' = order
    BY DEF TxSse
  <1> DEFINE v == send_packet(s, p[1], p[2])
             t == [v EXCEPT !.local = p[1]]
             k == IF MustAnswer([event |-> p[1], ric |-> p[2]]) THEN t.asked + 1 ELSE t.asked
             u == [t EXCEPT !.sends = @ + 1, !.asked = k]
  <1>2. Set(e, u, net)
    BY <1>1 DEF tx_sse_packet
  <1>3. p[1] \in States /\ p[2] \in Reasons
    BY V150Assumption DEF Reasons
  <1>4. /\ s \in EndRecord /\ s.out = <<>> /\ EndOk(s, now) /\ now \in Nat \ {0}
        /\ ep[Other(e)] \in EndRecord /\ net[Other(e)] \in Seq(Message)
        /\ net \in [Ends -> Seq(Message)]
        /\ order \in [Ends -> Arrivals] /\ order[Other(e)] \in Arrivals
    BY BothWays DEF V150Inv
  <1> HIDE DEF s
  <1>5. /\ Part(v) /\ Hosted(v, now) /\ NewMessage(s, v) /\ v.out[1].event = p[1] /\ v.out[1].ric = p[2]
        /\ v.asked = s.asked /\ v.heard = s.heard /\ v.answers = s.answers
    BY <1>3, <1>4, SendPacket DEF EndOk
  <1> HIDE DEF v
  <1>6. v \in EndRecord
    BY <1>5 DEF Part
  <1>7. /\ t \in EndRecord /\ t.asked = v.asked /\ t.sends = v.sends
        /\ t.rep = v.rep /\ t.left = v.left /\ t.t0 = v.t0 /\ t.t1 = v.t1 /\ t.n0 = v.n0
        /\ t.sse = v.sse /\ t.cd = v.cd /\ t.sprt = v.sprt /\ t.host = v.host
        /\ t.method = v.method /\ t.stamp = v.stamp /\ t.copies = v.copies
        /\ t.saved = v.saved /\ t.out = v.out /\ t.heard = v.heard /\ t.answers = v.answers
    BY <1>3, <1>6 DEF EndRecord
  <1> HIDE DEF t
  <1>8. t.asked \in Nat /\ t.sends \in Nat
    BY <1>7 DEF EndRecord
  <1>9. k \in Nat /\ t.sends + 1 \in Nat
    BY <1>8
  <1>10. k = IF MustAnswer(v.out[1]) THEN s.asked + 1 ELSE s.asked
    BY <1>5, <1>7 DEF MustAnswer
  <1> HIDE DEF k
  <1>11. /\ u \in EndRecord /\ u.asked = k
         /\ u.rep = t.rep /\ u.left = t.left /\ u.t0 = t.t0 /\ u.t1 = t.t1 /\ u.n0 = t.n0
         /\ u.sse = t.sse /\ u.cd = t.cd /\ u.sprt = t.sprt /\ u.host = t.host
         /\ u.method = t.method /\ u.stamp = t.stamp /\ u.copies = t.copies
         /\ u.saved = t.saved /\ u.out = t.out /\ u.heard = t.heard /\ u.answers = t.answers
    BY <1>7, <1>9 DEF EndRecord
  <1> HIDE DEF u
  <1>12. Part(u) /\ Hosted(u, now)
    BY <1>5, <1>6, <1>7, <1>11, SameTimers
  <1>13. NewMessage(s, u)
    BY <1>5, <1>7, <1>11 DEF NewMessage, Copy
  <1>14. u.asked = IF MustAnswer(u.out[1]) THEN s.asked + 1 ELSE s.asked
    BY <1>7, <1>10, <1>11
  <1>15. \E A : /\ Channel(u, net[Other(e)] \o u.out, ep[Other(e)], order[Other(e)], A)
                /\ Channel(u, net[Other(e)], ep[Other(e)], order[Other(e)], A)
    <2>1. PICK A : Channel(s, net[Other(e)], ep[Other(e)], order[Other(e)], A)
      BY BothWays DEF s
    <2> QED
      BY <1>4, <1>11, <1>13, <1>14, <2>1, ChannelNew
  <1>16. \E A : Channel(ep[Other(e)], net[e], u, order[e], A)
    <2>1. PICK A : Channel(ep[Other(e)], net[e], s, order[e], A)
      BY BothWays DEF s
    <2>2. u.heard = s.heard /\ u.answers = s.answers
      BY <1>5, <1>7, <1>11
    <2> QED
      BY <2>1, <2>2, ChannelSame
  <1> QED
    BY <1>0, <1>2, <1>4, <1>11, <1>12, <1>15, <1>16, SetStep DEF EndOk

\* A message arrives, in its turn or not.
LEMMA RxSseKeeps ==
    ASSUME V150Inv, NEW e \in Ends, RxSse(e)
    PROVE  V150Inv'
  <1> DEFINE s == ep[e]
             q == net[e]
             o == Other(e)
  <1>1. PICK i \in 1 .. Len(q) :
          /\ Set(e, rx_sse_packet(s, q[i]), [net EXCEPT ![e] = RemoveAt(@, i)])
          /\ order' = [order EXCEPT ![e] = Arrives(@, q[i].stamp)]
    BY DEF RxSse
  <1> DEFINE m == q[i]
             w == RemoveAt(q, i)
             n == [net EXCEPT ![e] = RemoveAt(@, i)]
             u == rx_sse_packet(s, m)
  <1>2. /\ s \in EndRecord /\ s.out = <<>> /\ EndOk(s, now) /\ now \in Nat \ {0}
        /\ ep[o] \in EndRecord /\ net[o] \in Seq(Message) /\ q \in Seq(Message)
        /\ net \in [Ends -> Seq(Message)] /\ o \in Ends /\ o # e
        /\ order \in [Ends -> Arrivals] /\ order[e] \in Arrivals /\ order[o] \in Arrivals
    BY BothWays, TwoEnds DEF V150Inv
  <1>3. Set(e, u, n) /\ order' = [order EXCEPT ![e] = Arrives(@, m.stamp)]
    BY <1>1
  <1> HIDE DEF s, q, o
  <1>4. m \in Message /\ w \in Seq(Message)
    BY <1>2, Without
  <1>5. n \in [Ends -> Seq(Message)] /\ n[e] = w /\ n[o] = net[o]
    BY <1>2, <1>4 DEF q
  <1> HIDE DEF n
  <1>6. /\ EndOk(u, now) /\ u.asked = s.asked
        /\ \/ s.heard = m.stamp /\ u = s
           \/ /\ s.heard # m.stamp /\ u.heard = m.stamp
              /\ \/ /\ u.out = <<>> /\ u.stamp = s.stamp /\ u.saved = s.saved
                    /\ u.method = s.method /\ u.answers = s.answers
                 \/ /\ NewMessage(s, u) /\ ~ MustAnswer(u.out[1])
                    /\ MustAnswer(m) /\ u.answers = s.answers + 1
    BY <1>2, <1>4, Hears
  <1> HIDE DEF u
  <1>7. u \in EndRecord
    BY <1>6 DEF EndOk, Part
  <1> DEFINE g == Arrives(order[e], m.stamp)
  <1>8. g \in Arrivals /\ \E A : Channel(ep[o], w, u, g, A)
    <2>1. PICK A : Channel(ep[o], q, s, order[e], A)
      BY BothWays DEF o, q, s
    <2>2. \/ u.heard = s.heard /\ u.heard = m.stamp /\ u.answers = s.answers
          \/ /\ s.heard # m.stamp /\ u.heard = m.stamp
             /\ u.answers = s.answers \/ (MustAnswer(m) /\ u.answers = s.answers + 1)
      BY <1>6
    <2>3. Arrives(order[e], q[i].stamp) \in Arrivals /\ Channel(ep[o], w, u, Arrives(order[e], q[i].stamp), A)
      BY <1>2, <1>7, <2>1, <2>2, ChannelHear
    <2> QED
      BY <2>3
  <1> HIDE DEF g, w
  <1>9. order' \in [Ends -> Arrivals] /\ order'[e] = g /\ order'[o] = order[o]
    BY <1>2, <1>3, <1>8 DEF g
  <1> HIDE DEF m
  <1>10. \E A : Channel(ep[o], n[e], u, order'[e], A)
    BY <1>5, <1>8, <1>9
  <1>11. \E A : Channel(u, n[o] \o u.out, ep[o], order[o], A) /\ Channel(u, n[o], ep[o], order[o], A)
    <2>1. PICK A : Channel(s, net[o], ep[o], order[o], A)
      BY BothWays DEF o, s
    <2>2. CASE NewMessage(s, u) /\ ~ MustAnswer(u.out[1])
      BY <1>2, <1>5, <1>6, <1>7, <2>1, <2>2, ChannelNew
    <2>3. CASE u.out = <<>> /\ u.stamp = s.stamp /\ u.saved = s.saved /\ u.method = s.method
      <3>1. OutAreCopies(u)
        BY <2>3 DEF OutAreCopies
      <3> QED
        BY <1>2, <1>5, <1>6, <1>7, <2>1, <2>3, <3>1, ChannelCopies
    <2> QED
      BY <1>2, <1>6, <2>2, <2>3
  <1> QED
    BY <1>3, <1>5, <1>6, <1>7, <1>9, <1>10, <1>11, SetStep DEF o

\* The signal processing entity says what it hears.
LEMMA SignalKeeps ==
    ASSUME V150Inv, NEW e \in Ends, Signal(e)
    PROVE  V150Inv'
  <1> DEFINE s == ep[e]
  <1>0. order' = order
    BY DEF Signal
  <1>1. PICK g \in Signals : Set(e, [state_machine(s, g) EXCEPT !.signalled = @ + 1], net)
    BY DEF Signal
  <1> DEFINE t == state_machine(s, g)
             u == [t EXCEPT !.signalled = @ + 1]
  <1>2. s \in EndRecord /\ s.out = <<>> /\ EndOk(s, now) /\ now \in Nat \ {0}
    BY BothWays
  <1> HIDE DEF s
  <1>3. Quiet(s, t)
    BY <1>2, StateMachine
  <1> HIDE DEF t
  <1>4. /\ t \in EndRecord /\ EndOk(t, now) /\ t.stamp = s.stamp /\ t.saved = s.saved
        /\ t.method = s.method /\ t.asked = s.asked
        /\ t.heard = s.heard /\ t.answers = s.answers /\ t.out = s.out
    BY <1>2, <1>3, QuietKeeps DEF Quiet
  <1>5. t.signalled \in Nat
    BY <1>4 DEF EndRecord
  <1>6. t.signalled + 1 \in Nat
    BY <1>5
  <1>7. /\ u \in EndRecord /\ u.asked = t.asked /\ u.expired = t.expired
        /\ u.rep = t.rep /\ u.left = t.left /\ u.t0 = t.t0 /\ u.t1 = t.t1 /\ u.n0 = t.n0
        /\ u.sse = t.sse /\ u.cd = t.cd /\ u.sprt = t.sprt /\ u.host = t.host
        /\ u.method = t.method /\ u.stamp = t.stamp /\ u.copies = t.copies
        /\ u.saved = t.saved /\ u.out = t.out /\ u.heard = t.heard /\ u.answers = t.answers
    BY <1>4, <1>6 DEF EndRecord
  <1>8. Set(e, u, net)
    BY <1>1 DEF t
  <1> HIDE DEF u
  <1>9. EndOk(u, now)
    BY <1>4, <1>7, SameTimers DEF EndOk
  <1>10. OutAreCopies(u)
    BY <1>2, <1>4, <1>7 DEF OutAreCopies
  <1> QED
    BY <1>0, <1>4, <1>7, <1>8, <1>9, <1>10, SetQuietly DEF s

\* Asking for SPRT's time as well, the application is asked for an earlier
\* one or the same.
LEMMA SprtSetsTimerKeeps ==
    ASSUME V150Inv, NEW e \in Ends, SprtSetsTimer(e)
    PROVE  V150Inv'
  <1> DEFINE s == ep[e]
  <1>0. order' = order
    BY DEF SprtSetsTimer
  <1>1. PICK d \in SprtDelays : Set(e, [update_sprt(s, now + d) EXCEPT !.sprts = @ + 1], net)
    BY DEF SprtSetsTimer
  <1> DEFINE w == [s EXCEPT !.sprt = now + d]
             t == select_timer(w)
             u == [t EXCEPT !.sprts = @ + 1]
  <1>2. s \in EndRecord /\ s.out = <<>> /\ EndOk(s, now) /\ now \in Nat \ {0}
    BY BothWays
  <1>3. now + d \in Nat
    BY <1>2, V150Assumption
  <1>4. Set(e, u, net)
    BY <1>1 DEF update_sprt
  <1> HIDE DEF s
  <1>5. /\ w \in EndRecord /\ w.asked = s.asked /\ w.expired = s.expired
        /\ w.rep = s.rep /\ w.left = s.left /\ w.t0 = s.t0 /\ w.t1 = s.t1 /\ w.n0 = s.n0 /\ w.sse = s.sse
        /\ w.method = s.method /\ w.stamp = s.stamp /\ w.copies = s.copies
        /\ w.saved = s.saved /\ w.out = s.out /\ w.heard = s.heard /\ w.answers = s.answers
    BY <1>2, <1>3 DEF EndRecord
  <1> HIDE DEF w
  <1>6. t \in EndRecord /\ Clock(t) /\ t = [w EXCEPT !.host = t.host] /\ (w.sse # 0 => t.host # 0)
    BY <1>5, SelectTimer
  <1> HIDE DEF t
  <1>7. /\ t.asked = w.asked /\ t.expired = w.expired
        /\ t.rep = w.rep /\ t.left = w.left /\ t.t0 = w.t0 /\ t.t1 = w.t1 /\ t.n0 = w.n0 /\ t.sse = w.sse
        /\ t.method = w.method /\ t.stamp = w.stamp /\ t.copies = w.copies
        /\ t.saved = w.saved /\ t.out = w.out /\ t.heard = w.heard /\ t.answers = w.answers
    BY ONLY <1>5, <1>6, ZenonT(60) DEF EndRecord
  <1>8. t.sprts \in Nat
    BY <1>6 DEF EndRecord
  <1>9. t.sprts + 1 \in Nat
    BY <1>8
  <1>10. /\ u \in EndRecord /\ u.asked = t.asked /\ u.expired = t.expired
         /\ u.rep = t.rep /\ u.left = t.left /\ u.t0 = t.t0 /\ u.t1 = t.t1 /\ u.n0 = t.n0
         /\ u.sse = t.sse /\ u.cd = t.cd /\ u.sprt = t.sprt /\ u.host = t.host
         /\ u.method = t.method /\ u.stamp = t.stamp /\ u.copies = t.copies
         /\ u.saved = t.saved /\ u.out = t.out /\ u.heard = t.heard /\ u.answers = t.answers
    BY ONLY <1>6, <1>9 DEF EndRecord
  <1> HIDE DEF u
  <1>11. OwnTimers(s) /\ SentAsAsked(s)
    BY <1>2 DEF EndOk, Part
  <1>12. Part(t)
    <2>1. OwnTimers(t) /\ SentAsAsked(t)
      BY <1>5, <1>7, <1>11 DEF OwnTimers, SentAsAsked
    <2> QED
      BY <1>6, <2>1 DEF Part
  <1>13. Hosted(t, now)
    <2> SUFFICES ASSUME Pending(t, now) PROVE t.sse # 0
      BY <1>6, <1>7 DEF Hosted
    <2>1. OwnTimers(t) /\ t.t0 \in Nat /\ t.t1 \in Nat /\ t.rep \in Nat
      BY <1>6, <1>12 DEF Part, EndRecord
    <2>2. CASE t.rep # 0
      BY <2>1, <2>2 DEF OwnTimers
    <2>3. CASE t.rep = 0
      <3>1. t.t0 # 0 /\ t.sse = Earliest({t.t0, t.t1, t.rep})
        BY <1>2, <2>1, <2>3 DEF Pending, OwnTimers
      <3> QED
        BY <2>1, <3>1, EarliestOf
    <2> QED
      BY <2>2, <2>3
  <1>14. EndOk(u, now)
    BY <1>6, <1>10, <1>12, <1>13, SameTimers DEF EndOk
  <1>15. OutAreCopies(u)
    BY <1>2, <1>5, <1>7, <1>10 DEF OutAreCopies
  <1> QED
    BY <1>0, <1>4, <1>5, <1>7, <1>10, <1>14, <1>15, SetQuietly DEF s

\* The application's timer fires.
LEMMA TimerExpiredKeeps ==
    ASSUME V150Inv, NEW e \in Ends, TimerExpired(e)
    PROVE  V150Inv'
  <1> DEFINE s == ep[e]
             u == timer_expired(s, 0)
  <1>0. order' = order
    BY DEF TimerExpired
  <1>1. s.host # 0 /\ s.host <= now /\ Set(e, u, net)
    BY DEF TimerExpired
  <1>2. s \in EndRecord /\ s.out = <<>> /\ EndOk(s, now) /\ now \in Nat \ {0}
    BY BothWays
  <1> HIDE DEF s
  <1>3. /\ EndOk(u, now) /\ OutAreCopies(u)
        /\ u.stamp = s.stamp /\ u.saved = s.saved /\ u.method = s.method
        /\ u.asked = s.asked /\ u.heard = s.heard /\ u.answers = s.answers
    BY <1>1, <1>2, TimerService
  <1>4. u \in EndRecord
    BY <1>3 DEF EndOk, Part
  <1> HIDE DEF u
  <1> QED
    BY <1>0, <1>1, <1>3, <1>4, SetQuietly DEF s

\* Time passes.
LEMMA TickKeeps ==
    ASSUME V150Inv, Tick
    PROVE  V150Inv'
  <1>1. now' = now + 1 /\ ep' = ep /\ net' = net /\ order' = order /\ now \in Nat \ {0}
    BY DEF Tick, V150Inv
  <1>2. ASSUME NEW e \in Ends PROVE EndOk(ep[e], now + 1)
    <2>1. ep[e] \in EndRecord /\ EndOk(ep[e], now)
      BY DEF V150Inv
    <2>2. ep[e].t0 \in Nat /\ ep[e].t1 \in Nat
      BY <2>1 DEF EndRecord
    <2>3. Pending(ep[e], now + 1) => Pending(ep[e], now)
      BY <1>1, <2>2 DEF Pending
    <2> QED
      BY <2>1, <2>3 DEF EndOk, Hosted
  <1>3. now' \in Nat \ {0}
    BY <1>1
  <1> QED
    BY <1>1, <1>2, <1>3 DEF V150Inv

\* Every step keeps the invariant.
LEMMA NextKeeps ==
    ASSUME V150Inv, [Next]_vars
    PROVE  V150Inv'
  <1>1. ASSUME NEW e \in Ends, TxSse(e) PROVE V150Inv'
    BY <1>1, TxSseKeeps
  <1>2. ASSUME NEW e \in Ends, RxSse(e) PROVE V150Inv'
    BY <1>2, RxSseKeeps
  <1>3. ASSUME NEW e \in Ends, Signal(e) PROVE V150Inv'
    BY <1>3, SignalKeeps
  <1>4. ASSUME NEW e \in Ends, SprtSetsTimer(e) PROVE V150Inv'
    BY <1>4, SprtSetsTimerKeeps
  <1>5. ASSUME NEW e \in Ends, TimerExpired(e) PROVE V150Inv'
    BY <1>5, TimerExpiredKeeps
  <1>6. CASE Tick
    BY <1>6, TickKeeps
  <1>7. CASE UNCHANGED vars
    BY <1>7 DEF vars, V150Inv
  <1> QED
    BY <1>1, <1>2, <1>3, <1>4, <1>5, <1>6, <1>7 DEF Next

-----------------------------------------------------------------------------
(* The theorems.                                                            *)

\* In every reachable state timers, messages under way and what was heard and
\* answered agree (V150Inv): v150_1.c's one timer is that of the earliest of
\* its users, what is under way is what was sent, and each message that asks
\* for an answer has had at most one since the last packet that came late.
THEOREM V150Invariant == Spec => []V150Inv
  <1>1. Init => V150Inv
    BY InitOk
  <1>2. V150Inv /\ [Next]_vars => V150Inv'
    BY NextKeeps
  <1> QED
    BY <1>1, <1>2, PTL DEF Spec

\* Media states, acknowledged states, timers and counters have their types.
THEOREM V150Types == Spec => []TypeOK
  <1>1. V150Inv => TypeOK
    <2> SUFFICES ASSUME V150Inv, NEW e \in Ends
                 PROVE  /\ ep[e].local \in States /\ ep[e].remote \in Media
                        /\ ep[e].acked \in States \cup {"RESERVED"}
                        /\ {ep[e].host, ep[e].sse, ep[e].cd, ep[e].sprt, ep[e].rep, ep[e].t0, ep[e].t1} \subseteq Nat
                        /\ ep[e].left \in 0 .. Copies - 1 /\ ep[e].n0 \in 0 .. N0 /\ ep[e].copies \in Nat
                        /\ \A i \in 1 .. Len(net[e]) : net[e][i].event \in States
                        /\ order[e].late \in Nat /\ order[e].latest \in Nat
      BY DEF TypeOK
    <2>1. ep[e] \in EndRecord /\ net[e] \in Seq(Message)
      BY BothWays
    <2>2. \A i \in 1 .. Len(net[e]) : net[e][i] \in Message
      BY <2>1
    <2>3. \A i \in 1 .. Len(net[e]) : net[e][i].event \in States
      BY <2>2 DEF Message
    <2>4. order[e] \in Arrivals
      BY BothWays
    <2> QED
      BY <2>1, <2>3, <2>4 DEF EndRecord, Acks, Arrivals
  <1> QED
    BY <1>1, V150Invariant, PTL

\* A message acted on once is not acted on again, however many copies come
\* (v150_1_rx_sse_packet): no more answers than messages that ask for one, and
\* as many again for each packet that came after one that was sent later.
THEOREM ActedOnOnce == Spec => []AnsweredOnce
  <1>1. V150Inv => AnsweredOnce
    <2> SUFFICES ASSUME V150Inv, NEW e \in Ends
                 PROVE  ep[e].answers <= ep[Other(e)].asked * (order[e].late + 1)
      BY DEF AnsweredOnce
    <2>1. PICK A : Channel(ep[Other(e)], net[e], ep[e], order[e], A)
      BY BothWays
    <2> DEFINE X == {a \in A : a <= ep[e].heard}
    <2>2. A \in SUBSET (1 .. ep[Other(e)].stamp) /\ Cardinality(A) = ep[Other(e)].asked
          /\ ep[e].answers <= ep[Other(e)].asked * order[e].late + Cardinality(X)
      BY <2>1 DEF Channel
    <2>3. ep[Other(e)].stamp \in Nat /\ ep[e].answers \in Nat /\ ep[Other(e)].asked \in Nat
      BY BothWays DEF EndRecord
    <2>4. IsFiniteSet(A)
      <3> DEFINE k == ep[Other(e)].stamp
      <3>1. k \in Int /\ 1 \in Int
        BY <2>3
      <3> HIDE DEF k
      <3>2. IsFiniteSet(1 .. k)
        BY ONLY <3>1, FS_Interval
      <3> QED
        BY <2>2, <3>2, FS_Subset DEF k
    <2>5. X \subseteq A
      OBVIOUS
    <2> HIDE DEF X
    <2>6. IsFiniteSet(X) /\ Cardinality(X) <= Cardinality(A)
      BY <2>4, <2>5, FS_Subset
    <2>7. Cardinality(X) \in Nat
      BY <2>6, FS_CardinalityType
    <2>8. order[e].late \in Nat
      BY BothWays DEF Arrivals
    <2> DEFINE a == ep[Other(e)].asked
               b == order[e].late
    <2>9. a * b \in Nat /\ a * (b + 1) = a * b + a
      BY <2>3, <2>8, ProductGrows
    <2> QED
      BY <2>2, <2>3, <2>6, <2>7, <2>9
  <1> QED
    BY <1>1, V150Invariant, PTL

\* A repeat carries the message whose stamp it has, also after an answer has
\* replaced what is repeated, and there are as many as were asked for
\* (send_packet, v150_1_sse_timer_expired).
THEOREM CopiesOnly == Spec => []RepeatsAreCopies
  <1>1. V150Inv => RepeatsAreCopies
    <2> SUFFICES ASSUME V150Inv, NEW e \in Ends, NEW i \in 1 .. Len(net[Other(e)])
                 PROVE  LET m == net[Other(e)][i]
                        IN  /\ m.stamp <= ep[e].stamp
                            /\ m.stamp = ep[e].stamp /\ ep[e].method # "NONE"
                                 => m = [ep[e].saved EXCEPT !.stamp = m.stamp]
      BY BothWays DEF RepeatsAreCopies, EndOk, Part
    <2>1. PICK A : Channel(ep[e], net[Other(e)], ep[Other(e)], order[Other(e)], A)
      BY BothWays
    <2>2. ep[e].stamp \in Nat
      BY BothWays DEF EndRecord
    <2> QED
      BY <2>1, <2>2 DEF Channel, Copy
  <1> QED
    BY <1>1, V150Invariant, PTL

\* While a message may have to be sent again, the application has been asked
\* to call no later than that, whoever else uses the one timer (select_timer).
THEOREM ResendsAreTimed == Spec => []ResendIsTimed
  <1>1. V150Inv => ResendIsTimed
    <2> SUFFICES ASSUME V150Inv, NEW e \in Ends, ~ ep[e].expired, NEW t,
                        \/ ep[e].rep # 0 /\ t = ep[e].rep
                        \/ ep[e].t0 > now /\ ep[e].t1 > now /\ t = ep[e].t0
                 PROVE  ep[e].host # 0 /\ ep[e].host <= t
      BY DEF ResendIsTimed
    <2> DEFINE s == ep[e]
    <2>1. s \in EndRecord /\ EndOk(s, now) /\ now \in Nat \ {0}
      BY BothWays
    <2>2. /\ s.sprt \in Nat /\ s.sse \in Nat /\ s.cd \in Nat /\ s.host \in Nat
          /\ s.t0 \in Nat /\ s.t1 \in Nat /\ s.rep \in Nat
      BY <2>1 DEF EndRecord
    <2>3. s.host # 0 /\ s.host = Earliest({s.sprt, s.sse, s.cd}) /\ OwnTimers(s)
      BY <2>1 DEF EndOk, Part, Hosted, Pending, Clock
    <2>4. s.sse # 0 /\ s.sse <= t
      <3>1. CASE s.rep # 0
        <4>1. s.sse = s.rep /\ s.t0 = 0
          BY <3>1, <2>3 DEF OwnTimers
        <4> QED
          BY <3>1, <4>1, <2>1, <2>2
      <3>2. CASE s.rep = 0
        <4>1. s.t0 > now /\ t = s.t0 /\ s.t0 # 0
          BY <3>2, <2>1, <2>2
        <4>2. s.sse = Earliest({s.t0, s.t1, s.rep})
          BY <4>1, <2>3 DEF OwnTimers
        <4> QED
          BY <4>1, <4>2, <2>2, EarliestOf, SMTT(60)
      <3> QED
        BY <3>1, <3>2
    <2> HIDE DEF s
    <2>5. Earliest({s.sprt, s.sse, s.cd}) <= s.sse
      BY <2>2, <2>4, EarliestOf
    <2>6. t \in Nat
      BY <2>2 DEF s
    <2> QED
      BY <2>2, <2>3, <2>4, <2>5, <2>6 DEF s
  <1> QED
    BY <1>1, V150Invariant, PTL
=============================================================================

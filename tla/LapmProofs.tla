----------------------------- MODULE LapmProofs -----------------------------
(***************************************************************************)
(* Proofs about Lapm, for every window, modulus, number of frames and of    *)
(* losses: the window variables and the buffer agree, frames keep their     *)
(* numbers, and a link is timed.                                            *)
(***************************************************************************)
EXTENDS Lapm, CommonLemmas, SequenceTheorems

-----------------------------------------------------------------------------
(* One station.                                                             *)

States == {"DETECT", "IDLE", "ESTABLISH", "DATA", "RELEASE", "UNSUPPORTED"}
Timers == {"off", "T400", "T401", "T403", "start"}
Number == 0 .. Mod - 1

LineFrame == [k : {"I"} \cup Supervisory \cup Unnumbered, cmd : BOOLEAN, pf : BOOLEAN,
              ns : Number, nr : Number, msg : Nat]
CtrlFrame == {f \in LineFrame : f.k # "I"}

StationRecord ==
    [state : States, vs : Number, va : Number, vr : Number,
     rejected : BOOLEAN, lbusy : BOOLEAN, fbusy : BOOLEAN, configuring : BOOLEAN,
     retry : 0 .. N400 + 1, ctrl : Seq(CtrlFrame), info : Seq(Nat), out : Nat,
     timer : Timers, odp : BOOLEAN, offer : Nat, taken : Nat, got : Seq(Nat), freed : Nat,
     told : {"none", "IDLE", "CONNECTED", "DISCONNECTED", "UNSUPPORTED"},
     stopped : States \cup {"no"}]

\* The last frame that is no longer in the buffer.
Base(s) == s.taken - Len(s.info)

\* The numbers follow the pointers, and the buffer holds the last frames taken.
Buffer(s) ==
    /\ Len(s.info) <= K /\ Len(s.info) <= s.taken
    /\ s.out <= Len(s.info) /\ (s.vs - s.va) % Mod = s.out
    /\ \A i \in 1 .. Len(s.info) : s.info[i] = Base(s) + i

\* A link is timed.
Timed(s) ==
    /\ s.state = "DATA" => s.timer \in {"T401", "T403"}
    /\ s.state = "ESTABLISH" => s.timer = "T401"

\* What a station keeps by itself.
Core(s) == s \in StationRecord /\ Len(s.ctrl) < CtrlFrames /\ Buffer(s) /\ Timed(s)

\* What a station with the number vr to come says in data transfer, and after.
Said(vr) == {f \in CtrlFrame : (f.k \in Supervisory /\ f.nr = vr) \/ f.k = "DISC"}

\* What a handler may do with a link but for handing over a frame: n is how
\* many frames it may let go.
Moves(s, u, n) ==
    /\ Core(u)
    /\ u.got = s.got /\ u.vr = s.vr /\ u.configuring = s.configuring
    /\ u.taken >= s.taken /\ Base(u) >= Base(s) /\ Base(u) <= Base(s) + n
    /\ u.va = (s.va + (Base(u) - Base(s))) % Mod
    /\ u.freed = IF Base(u) > Base(s) THEN Base(u) ELSE s.freed
    /\ \E w \in Seq(Said(s.vr)) : u.ctrl = s.ctrl \o w
    /\ u.state \in {s.state, "RELEASE"}
    /\ u.timer \in {s.timer, "T401", "T403"}

-----------------------------------------------------------------------------
(* Facts about the constants and the records.                               *)

\* The window is smaller than half of the numbers.
LEMMA WindowFacts ==
    /\ K \in Nat \ {0} /\ Mod \in Nat \ {0} /\ Mod > 2 * K /\ InfoFrames = K + 1
    /\ N400 \in Nat /\ CtrlFrames \in Nat \ {0, 1} /\ LineCap \in Nat \ {0}
    /\ MaxMsgs \in Nat /\ MaxLoss \in Nat
  BY LapmAssumption

\* A remainder by the modulus is a number.
LEMMA InNumber ==
    ASSUME NEW x \in Int
    PROVE  x % Mod \in Number
  BY WindowFacts, DivMod DEF Number

\* The fields of a station.
LEMMA Fields ==
    ASSUME NEW s \in StationRecord
    PROVE  /\ s.state \in States /\ s.vs \in Number /\ s.va \in Number /\ s.vr \in Number
           /\ s.rejected \in BOOLEAN /\ s.lbusy \in BOOLEAN /\ s.fbusy \in BOOLEAN
           /\ s.configuring \in BOOLEAN /\ s.retry \in 0 .. N400 + 1
           /\ s.ctrl \in Seq(CtrlFrame) /\ s.info \in Seq(Nat) /\ s.out \in Nat
           /\ s.timer \in Timers /\ s.offer \in Nat /\ s.taken \in Nat /\ s.got \in Seq(Nat)
           /\ s.freed \in Nat /\ Len(s.info) \in Nat /\ Len(s.ctrl) \in Nat /\ Base(s) \in Int
           /\ s.vs \in Int /\ s.va \in Int /\ s.vr \in Int
  <1>1. /\ s.state \in States /\ s.vs \in Number /\ s.va \in Number /\ s.vr \in Number
        /\ s.rejected \in BOOLEAN /\ s.lbusy \in BOOLEAN /\ s.fbusy \in BOOLEAN
        /\ s.configuring \in BOOLEAN /\ s.retry \in 0 .. N400 + 1
        /\ s.ctrl \in Seq(CtrlFrame) /\ s.info \in Seq(Nat) /\ s.out \in Nat
        /\ s.timer \in Timers /\ s.offer \in Nat /\ s.taken \in Nat /\ s.got \in Seq(Nat)
        /\ s.freed \in Nat
    BY DEF StationRecord
  <1>2. Len(s.info) \in Nat /\ Len(s.ctrl) \in Nat
    BY <1>1
  <1>3. Base(s) \in Int
    BY <1>1, <1>2 DEF Base
  <1>4. s.vs \in Int /\ s.va \in Int /\ s.vr \in Int
    BY <1>1 DEF Number
  <1> QED
    BY <1>1, <1>2, <1>3, <1>4

\* Two moves are one.
LEMMA MovesTwice ==
    ASSUME NEW s, NEW u, NEW v, NEW n \in Nat, NEW m \in Nat,
           Core(s), Moves(s, u, n), Moves(u, v, m)
    PROVE  Moves(s, v, n + m)
  <1>1. s \in StationRecord /\ u \in StationRecord /\ v \in StationRecord
    BY DEF Moves, Core
  <1>2. /\ Base(s) \in Int /\ Base(u) \in Int /\ Base(v) \in Int
        /\ s.taken \in Nat /\ u.taken \in Nat /\ v.taken \in Nat /\ s.va \in Int
    BY <1>1, Fields
  <1>3. v.va = (s.va + (Base(v) - Base(s))) % Mod
    <2> DEFINE a == s.va + (Base(u) - Base(s))
               b == Base(v) - Base(u)
    <2>1. a \in Int /\ b \in Int /\ Mod \in Nat \ {0}
      BY <1>2, WindowFacts
    <2>2. v.va = ((a % Mod) + b) % Mod
      BY DEF Moves
    <2>3. a + b = s.va + (Base(v) - Base(s))
      BY <1>2
    <2> HIDE DEF a, b
    <2>4. ((a % Mod) + b) % Mod = (a + b) % Mod
      BY <2>1, ModAdd
    <2> QED
      BY <2>2, <2>3, <2>4
  <1>4. \E w \in Seq(Said(s.vr)) : v.ctrl = s.ctrl \o w
    <2>1. PICK w1 \in Seq(Said(s.vr)) : u.ctrl = s.ctrl \o w1
      BY DEF Moves
    <2>2. PICK w2 \in Seq(Said(s.vr)) : v.ctrl = u.ctrl \o w2
      BY DEF Moves
    <2>3. s.ctrl \in Seq(CtrlFrame) /\ Said(s.vr) \subseteq CtrlFrame
      BY <1>1, Fields DEF Said
    <2>4. w1 \in Seq(CtrlFrame) /\ w2 \in Seq(CtrlFrame)
      BY <2>3
    <2> DEFINE c == s.ctrl
               F == Said(s.vr)
    <2> HIDE DEF c, F
    <2>5. w1 \o w2 \in Seq(F)
      BY <2>1, <2>2 DEF F
    <2>6. (c \o w1) \o w2 = c \o (w1 \o w2)
      <3>1. c \in Seq(CtrlFrame)
        BY <2>3 DEF c
      <3> QED
        BY ONLY <3>1, <2>4, ConcatAssociative
    <2> QED
      BY <2>1, <2>2, <2>5, <2>6 DEF c, F
  <1>5. /\ u.taken >= s.taken /\ Base(u) >= Base(s) /\ Base(u) <= Base(s) + n
        /\ v.taken >= u.taken /\ Base(v) >= Base(u) /\ Base(v) <= Base(u) + m
        /\ u.freed = IF Base(u) > Base(s) THEN Base(u) ELSE s.freed
        /\ v.freed = IF Base(v) > Base(u) THEN Base(v) ELSE u.freed
    BY DEF Moves
  <1>6. /\ v.taken >= s.taken /\ Base(v) >= Base(s) /\ Base(v) <= Base(s) + (n + m)
        /\ v.freed = IF Base(v) > Base(s) THEN Base(v) ELSE s.freed
    BY ONLY <1>2, <1>5, n \in Nat, m \in Nat
  <1>7. Core(v) /\ v.got = s.got /\ v.vr = s.vr /\ v.configuring = s.configuring
        /\ v.state \in {s.state, "RELEASE"} /\ v.timer \in {s.timer, "T401", "T403"}
    BY DEF Moves
  <1> QED
    BY <1>3, <1>4, <1>6, <1>7 DEF Moves

-----------------------------------------------------------------------------
(* What handlers are made of.                                               *)

\* A change that lets nothing go and says nothing is a move.
LEMMA Still ==
    ASSUME NEW s, Core(s), NEW u \in StationRecord, Buffer(u), Timed(u),
           u.va = s.va, u.vr = s.vr, u.got = s.got, u.freed = s.freed, u.ctrl = s.ctrl,
           u.configuring = s.configuring, Base(u) = Base(s), u.taken >= s.taken,
           u.state \in {s.state, "RELEASE"}, u.timer \in {s.timer, "T401", "T403"}
    PROVE  Moves(s, u, 0)
  <1>1. s \in StationRecord /\ Len(s.ctrl) < CtrlFrames
    BY DEF Core
  <1>2. s.va \in Number /\ s.ctrl \in Seq(CtrlFrame) /\ Base(s) \in Int
    BY <1>1, Fields
  <1>3. s.va % Mod = s.va
    BY <1>2, ModSmall, WindowFacts DEF Number
  <1>4. s.va + (Base(u) - Base(s)) = s.va
    BY <1>2 DEF Number
  <1>5. \E w \in Seq(Said(s.vr)) : u.ctrl = s.ctrl \o w
    <2>1. <<>> \in Seq(Said(s.vr))
      OBVIOUS
    <2>2. s.ctrl \o <<>> = s.ctrl
      BY ONLY <1>2, ConcatEmptySeq
    <2> QED
      BY <2>1, <2>2
  <1>6. Base(u) >= Base(s) /\ Base(u) <= Base(s) + 0 /\ ~ (Base(u) > Base(s))
    BY <1>2
  <1> QED
    BY <1>1, <1>3, <1>4, <1>5, <1>6 DEF Moves, Core

\* A change of neither numbers, nor frames, nor timing is one.
LEMMA Steady ==
    ASSUME NEW s, Core(s), s.state # "ESTABLISH", NEW u \in StationRecord,
           u.vs = s.vs, u.va = s.va, u.vr = s.vr, u.info = s.info, u.out = s.out,
           u.taken = s.taken, u.got = s.got, u.freed = s.freed, u.configuring = s.configuring,
           u.ctrl = s.ctrl, u.state \in {s.state, "RELEASE"}, u.timer \in {s.timer, "T401", "T403"}
    PROVE  Moves(s, u, 0)
  <1>1. s \in StationRecord /\ Timed(s) /\ Buffer(s)
    BY DEF Core
  <1>2. s.taken \in Nat
    BY <1>1, Fields
  <1>3. Base(u) = Base(s) /\ u.taken >= s.taken
    BY <1>2 DEF Base
  <1>4. Timed(u)
    BY <1>1 DEF Timed
  <1>5. Buffer(u)
    BY <1>1, <1>3 DEF Buffer
  <1> QED
    BY <1>3, <1>4, <1>5, Still

\* A frame joins those to be sent, if there is room.
LEMMA PutFields ==
    ASSUME NEW s \in StationRecord, Len(s.ctrl) < CtrlFrames, NEW f \in CtrlFrame
    PROVE  LET u == Put(s, f)
           IN  /\ u \in StationRecord /\ Len(u.ctrl) < CtrlFrames
               /\ u = [s EXCEPT !.ctrl = u.ctrl]
               /\ u.ctrl \in {s.ctrl, Append(s.ctrl, f)}
  <1>1. s.ctrl \in Seq(CtrlFrame) /\ Len(s.ctrl) \in Nat /\ CtrlFrames \in Nat
    BY Fields, WindowFacts
  <1>2. CASE Len(s.ctrl) < CtrlFrames - 1
    <2> DEFINE c == Append(s.ctrl, f)
               u == [s EXCEPT !.ctrl = c]
    <2>1. c \in Seq(CtrlFrame) /\ Len(c) = Len(s.ctrl) + 1
      BY <1>1
    <2>2. Put(s, f) = u
      BY <1>2 DEF Put
    <2> HIDE DEF c
    <2>3. u \in StationRecord /\ u.ctrl = c
      BY <2>1 DEF StationRecord
    <2>4. Len(c) < CtrlFrames
      BY <1>1, <1>2, <2>1
    <2> QED
      BY <2>2, <2>3, <2>4 DEF c
  <1>3. CASE ~ (Len(s.ctrl) < CtrlFrames - 1)
    <2>1. Put(s, f) = s
      BY <1>3 DEF Put
    <2>2. s = [s EXCEPT !.ctrl = s.ctrl]
      BY DEF StationRecord
    <2> QED
      BY <2>1, <2>2
  <1> QED
    BY <1>2, <1>3

\* Saying something moves nothing.
LEMMA PutMoves ==
    ASSUME NEW s, Core(s), s.state # "ESTABLISH", NEW f \in Said(s.vr)
    PROVE  Moves(s, Put(s, f), 0)
  <1> DEFINE u == Put(s, f)
  <1>1. s \in StationRecord /\ Timed(s) /\ Buffer(s) /\ Len(s.ctrl) < CtrlFrames /\ f \in CtrlFrame
    BY DEF Core, Said
  <1>2. /\ u \in StationRecord /\ Len(u.ctrl) < CtrlFrames
        /\ u = [s EXCEPT !.ctrl = u.ctrl] /\ u.ctrl \in {s.ctrl, Append(s.ctrl, f)}
    BY <1>1, PutFields
  <1> HIDE DEF u
  <1>3. /\ u.vs = s.vs /\ u.va = s.va /\ u.vr = s.vr /\ u.info = s.info /\ u.out = s.out
        /\ u.taken = s.taken /\ u.got = s.got /\ u.freed = s.freed /\ u.configuring = s.configuring
        /\ u.state = s.state /\ u.timer = s.timer
    BY ONLY <1>1, <1>2 DEF StationRecord
  <1> DEFINE v == [u EXCEPT !.ctrl = s.ctrl]
  <1>4. s.ctrl \in Seq(CtrlFrame)
    BY <1>1, Fields
  <1>5. Moves(s, s, 0)
    BY <1>1, Steady
  <1>6. \E w \in Seq(Said(s.vr)) : u.ctrl = s.ctrl \o w
    <2>1. CASE u.ctrl = s.ctrl
      BY <1>5, <2>1 DEF Moves
    <2>2. CASE u.ctrl = Append(s.ctrl, f)
      <3>1. <<f>> \in Seq(Said(s.vr))
        OBVIOUS
      <3>2. Append(s.ctrl, f) = s.ctrl \o <<f>>
        BY ONLY <1>4, <1>1, AppendIsConcat
      <3> QED
        BY <2>2, <3>1, <3>2
    <2> QED
      BY <1>2, <2>1, <2>2
  <1>7. Base(u) = Base(s)
    BY <1>3 DEF Base
  <1>8. Core(u)
    BY <1>1, <1>2, <1>3, <1>7 DEF Core, Buffer, Timed
  <1> QED
    BY <1>3, <1>5, <1>6, <1>7, <1>8 DEF Moves, u

\* The frames that stations make.
LEMMA FramesMade ==
    ASSUME NEW cmd \in BOOLEAN, NEW pf \in BOOLEAN
    PROVE  /\ \A k \in Unnumbered : Frame(k, cmd, pf) \in CtrlFrame
           /\ \A k \in Supervisory, vr \in Number : [Frame(k, cmd, pf) EXCEPT !.nr = vr] \in Said(vr)
           /\ \A vr : Frame("DISC", cmd, pf) \in Said(vr)
  <1>1. 0 \in Number
    BY WindowFacts DEF Number
  <1>2. ASSUME NEW k \in Unnumbered PROVE Frame(k, cmd, pf) \in CtrlFrame
    BY <1>1 DEF Frame, CtrlFrame, LineFrame, Unnumbered
  <1>3. ASSUME NEW k \in Supervisory, NEW vr \in Number
        PROVE  [Frame(k, cmd, pf) EXCEPT !.nr = vr] \in Said(vr)
    BY <1>1 DEF Frame, CtrlFrame, LineFrame, Supervisory, Said
  <1>4. ASSUME NEW vr PROVE Frame("DISC", cmd, pf) \in Said(vr)
    <2>1. "DISC" \in Unnumbered /\ Frame("DISC", cmd, pf).k = "DISC"
      BY DEF Unnumbered, Frame
    <2> QED
      BY <1>2, <2>1 DEF Said
  <1> QED
    BY <1>2, <1>3, <1>4

\* A supervisory frame says which number is next.
LEMMA SupervisoryMoves ==
    ASSUME NEW s, Core(s), s.state # "ESTABLISH",
           NEW cmd \in BOOLEAN, NEW k \in Supervisory, NEW pf \in BOOLEAN
    PROVE  Moves(s, tx_supervisory_frame(s, cmd, k, pf), 0)
  <1>1. s.vr \in Number
    BY Fields DEF Core
  <1>2. [Frame(k, cmd, pf) EXCEPT !.nr = s.vr] \in Said(s.vr)
    BY <1>1, FramesMade
  <1> QED
    BY <1>2, PutMoves DEF tx_supervisory_frame

\* What a move is sure to leave.
LEMMA MovesFacts ==
    ASSUME NEW s, NEW u, NEW n, Moves(s, u, n), s.state # "ESTABLISH"
    PROVE  /\ Core(u) /\ u \in StationRecord /\ u.state # "ESTABLISH"
           /\ u.got = s.got /\ u.vr = s.vr /\ u.configuring = s.configuring
  BY DEF Moves, Core

\* Starting or stopping the link's timers, and flags, move nothing.
LEMMA FlagsMove ==
    ASSUME NEW s, Core(s), s.state # "ESTABLISH", NEW b \in BOOLEAN
    PROVE  /\ Moves(s, s, 0)
           /\ Moves(s, t401_start(s), 0) /\ Moves(s, t401_stop_t403_start(s), 0)
           /\ Moves(s, [s EXCEPT !.fbusy = b], 0) /\ Moves(s, [s EXCEPT !.lbusy = b], 0)
           /\ Moves(s, [s EXCEPT !.rejected = b], 0)
           /\ Moves(s, [s EXCEPT !.retry = 1], 0)
           /\ Moves(s, [s EXCEPT !.state = "RELEASE"], 0)
  <1>1. s \in StationRecord
    BY DEF Core
  <1>2. /\ "T401" \in Timers /\ "T403" \in Timers /\ 0 \in 0 .. N400 + 1 /\ 1 \in 0 .. N400 + 1 /\ "RELEASE" \in States
        /\ b \in BOOLEAN
    BY WindowFacts DEF Timers, States
  <1>3. Moves(s, s, 0)
    BY <1>1, Steady
  <1>4. Moves(s, t401_start(s), 0)
    <2> DEFINE u == [s EXCEPT !.timer = "T401", !.retry = 0]
    <2>1. /\ u \in StationRecord
          /\ u.vs = s.vs /\ u.va = s.va /\ u.vr = s.vr /\ u.info = s.info /\ u.out = s.out
          /\ u.taken = s.taken /\ u.got = s.got /\ u.freed = s.freed /\ u.configuring = s.configuring
          /\ u.ctrl = s.ctrl /\ u.state = s.state /\ u.timer = "T401"
      BY ONLY <1>1, <1>2 DEF StationRecord
    <2> HIDE DEF u
    <2>2. Moves(s, u, 0)
      BY <2>1, Steady
    <2> QED
      BY <2>2 DEF t401_start, u
  <1>5. Moves(s, t401_stop_t403_start(s), 0)
    <2> DEFINE u == [s EXCEPT !.timer = "T403", !.retry = 0]
    <2>1. /\ u \in StationRecord
          /\ u.vs = s.vs /\ u.va = s.va /\ u.vr = s.vr /\ u.info = s.info /\ u.out = s.out
          /\ u.taken = s.taken /\ u.got = s.got /\ u.freed = s.freed /\ u.configuring = s.configuring
          /\ u.ctrl = s.ctrl /\ u.state = s.state /\ u.timer = "T403"
      BY ONLY <1>1, <1>2 DEF StationRecord
    <2> HIDE DEF u
    <2>2. Moves(s, u, 0)
      BY <2>1, Steady
    <2> QED
      BY <2>2 DEF t401_stop_t403_start, u
  <1>6. Moves(s, [s EXCEPT !.fbusy = b], 0)
    <2> DEFINE u == [s EXCEPT !.fbusy = b]
    <2>1. /\ u \in StationRecord
          /\ u.vs = s.vs /\ u.va = s.va /\ u.vr = s.vr /\ u.info = s.info /\ u.out = s.out
          /\ u.taken = s.taken /\ u.got = s.got /\ u.freed = s.freed /\ u.configuring = s.configuring
          /\ u.ctrl = s.ctrl /\ u.state = s.state /\ u.timer = s.timer
      BY ONLY <1>1, <1>2 DEF StationRecord
    <2> HIDE DEF u
    <2>2. Moves(s, u, 0)
      BY <2>1, Steady
    <2> QED
      BY <2>2 DEF u
  <1>7. Moves(s, [s EXCEPT !.lbusy = b], 0)
    <2> DEFINE u == [s EXCEPT !.lbusy = b]
    <2>1. /\ u \in StationRecord
          /\ u.vs = s.vs /\ u.va = s.va /\ u.vr = s.vr /\ u.info = s.info /\ u.out = s.out
          /\ u.taken = s.taken /\ u.got = s.got /\ u.freed = s.freed /\ u.configuring = s.configuring
          /\ u.ctrl = s.ctrl /\ u.state = s.state /\ u.timer = s.timer
      BY ONLY <1>1, <1>2 DEF StationRecord
    <2> HIDE DEF u
    <2>2. Moves(s, u, 0)
      BY <2>1, Steady
    <2> QED
      BY <2>2 DEF u
  <1>9. Moves(s, [s EXCEPT !.rejected = b], 0)
    <2> DEFINE u == [s EXCEPT !.rejected = b]
    <2>1. /\ u \in StationRecord
          /\ u.vs = s.vs /\ u.va = s.va /\ u.vr = s.vr /\ u.info = s.info /\ u.out = s.out
          /\ u.taken = s.taken /\ u.got = s.got /\ u.freed = s.freed /\ u.configuring = s.configuring
          /\ u.ctrl = s.ctrl /\ u.state = s.state /\ u.timer = s.timer
      BY ONLY <1>1, <1>2 DEF StationRecord
    <2> HIDE DEF u
    <2>2. Moves(s, u, 0)
      BY <2>1, Steady
    <2> QED
      BY <2>2 DEF u
  <1>10. Moves(s, [s EXCEPT !.retry = 1], 0)
    <2> DEFINE u == [s EXCEPT !.retry = 1]
    <2>1. /\ u \in StationRecord
          /\ u.vs = s.vs /\ u.va = s.va /\ u.vr = s.vr /\ u.info = s.info /\ u.out = s.out
          /\ u.taken = s.taken /\ u.got = s.got /\ u.freed = s.freed /\ u.configuring = s.configuring
          /\ u.ctrl = s.ctrl /\ u.state = s.state /\ u.timer = s.timer
      BY ONLY <1>1, <1>2 DEF StationRecord
    <2> HIDE DEF u
    <2>2. Moves(s, u, 0)
      BY <2>1, Steady
    <2> QED
      BY <2>2 DEF u
  <1>8. Moves(s, [s EXCEPT !.state = "RELEASE"], 0)
    <2> DEFINE u == [s EXCEPT !.state = "RELEASE"]
    <2>1. /\ u \in StationRecord
          /\ u.vs = s.vs /\ u.va = s.va /\ u.vr = s.vr /\ u.info = s.info /\ u.out = s.out
          /\ u.taken = s.taken /\ u.got = s.got /\ u.freed = s.freed /\ u.configuring = s.configuring
          /\ u.ctrl = s.ctrl /\ u.state = "RELEASE" /\ u.timer = s.timer
      BY ONLY <1>1, <1>2 DEF StationRecord
    <2> HIDE DEF u
    <2>2. Moves(s, u, 0)
      BY <2>1, Steady
    <2> QED
      BY <2>2 DEF u
  <1> QED
    BY <1>3, <1>4, <1>5, <1>6, <1>7, <1>8, <1>9, <1>10

\* A move with room to spare.
LEMMA MovesWithin ==
    ASSUME NEW s, NEW u, NEW n \in Nat, NEW m \in Nat, Core(s), Moves(s, u, n), n <= m
    PROVE  Moves(s, u, m)
  <1>1. Base(s) \in Int /\ Base(u) \in Int
    BY Fields DEF Moves, Core
  <1>2. Base(u) <= Base(s) + n
    BY DEF Moves
  <1>3. Base(u) <= Base(s) + m
    BY <1>1, <1>2
  <1> QED
    BY <1>3 DEF Moves

\* Release is asked for, whatever the link is doing.
LEMMA DisconnectMoves ==
    ASSUME NEW s, Core(s), s.state # "ESTABLISH"
    PROVE  Moves(s, lapm_disconnect(s), 0)
  <1> DEFINE t == [s EXCEPT !.state = "RELEASE"]
             u == tx_unnumbered_frame(t, TRUE, "DISC", TRUE)
  <1>1. Moves(s, t, 0)
    BY FlagsMove
  <1> HIDE DEF t
  <1>2. Core(t) /\ t.state # "ESTABLISH"
    BY <1>1, MovesFacts
  <1>3. Frame("DISC", TRUE, TRUE) \in Said(t.vr)
    BY FramesMade
  <1>4. Moves(t, u, 0)
    BY <1>2, <1>3, PutMoves DEF tx_unnumbered_frame
  <1> HIDE DEF u
  <1>5. Core(u) /\ u.state # "ESTABLISH"
    BY <1>2, <1>4, MovesFacts
  <1>6. Moves(u, t401_start(u), 0)
    BY <1>5, FlagsMove
  <1>a. 0 + 0 = 0
    OBVIOUS
  <1>7. Moves(s, u, 0)
    BY <1>1, <1>4, <1>a, MovesTwice
  <1>8. Moves(s, t401_start(u), 0)
    BY <1>6, <1>7, <1>a, MovesTwice
  <1> QED
    BY <1>8 DEF lapm_disconnect, u, t

\* What is sent again keeps its number.
LEMMA RejectMoves ==
    ASSUME NEW s, Core(s), s.state # "ESTABLISH"
    PROVE  Moves(s, reject_info(s), 0)
  <1> DEFINE u == [s EXCEPT !.vs = s.va, !.out = 0]
  <1>1. s \in StationRecord /\ Buffer(s) /\ Timed(s)
    BY DEF Core
  <1>2. s.va \in Number /\ s.va \in Int /\ s.taken \in Nat /\ Len(s.info) \in Nat
    BY <1>1, Fields
  <1>3. /\ u \in StationRecord /\ u.vs = s.va /\ u.out = 0
        /\ u.va = s.va /\ u.vr = s.vr /\ u.info = s.info /\ u.ctrl = s.ctrl
        /\ u.taken = s.taken /\ u.got = s.got /\ u.freed = s.freed /\ u.configuring = s.configuring
        /\ u.state = s.state /\ u.timer = s.timer
    BY ONLY <1>1, <1>2 DEF StationRecord
  <1> HIDE DEF u
  <1>4. (u.vs - u.va) % Mod = 0
    <2>1. u.vs - u.va = 0
      BY <1>2, <1>3
    <2>2. 0 % Mod = 0
      BY WindowFacts, ModSmall
    <2> QED
      BY <2>1, <2>2
  <1>5. Base(u) = Base(s) /\ u.taken >= s.taken
    BY <1>2, <1>3 DEF Base
  <1>6. Buffer(u)
    BY <1>1, <1>2, <1>3, <1>4, <1>5 DEF Buffer
  <1>7. Timed(u)
    BY <1>1, <1>3 DEF Timed
  <1>8. Moves(s, u, 0)
    BY ONLY <1>3, <1>5, <1>6, <1>7, Still, Core(s)
  <1>9. Moves(s, s, 0)
    BY FlagsMove
  <1> QED
    BY <1>8, <1>9 DEF reject_info, u

\* A frame taken from the application joins the others, if the window is open.
LEMMA FetchedMoves ==
    ASSUME NEW s, Core(s), s.state # "ESTABLISH", NEW has \in BOOLEAN
    PROVE  Moves(s, Fetched(s, has), 0)
  <1> DEFINE m == s.taken + 1
             w == Append(s.info, m)
             u == [s EXCEPT !.info = w, !.taken = m]
  <1>1. s \in StationRecord /\ Buffer(s) /\ Timed(s)
    BY DEF Core
  <1>2. s.taken \in Nat /\ s.info \in Seq(Nat) /\ Len(s.info) \in Nat /\ s.out \in Nat /\ Base(s) \in Int
    BY <1>1, Fields
  <1>3. CASE Len(s.info) + 1 < InfoFrames
    <2>1. m \in Nat /\ w \in Seq(Nat) /\ Len(w) = Len(s.info) + 1
      BY <1>2
    <2>2. \A i \in 1 .. Len(s.info) : w[i] = s.info[i]
      BY <1>2
    <2>3. w[Len(s.info) + 1] = m
      BY <1>2
    <2>a. m = s.taken + 1
      OBVIOUS
    <2> HIDE DEF w, m
    <2>4. /\ u \in StationRecord /\ u.info = w /\ u.taken = m
          /\ u.vs = s.vs /\ u.va = s.va /\ u.vr = s.vr /\ u.out = s.out /\ u.ctrl = s.ctrl
          /\ u.got = s.got /\ u.freed = s.freed /\ u.configuring = s.configuring
          /\ u.state = s.state /\ u.timer = s.timer
      BY ONLY <1>1, <2>1 DEF StationRecord
    <2> HIDE DEF u
    <2>5. Base(u) = Base(s) /\ u.taken >= s.taken
      <3>1. Len(u.info) = Len(s.info) + 1 /\ u.taken = s.taken + 1
        BY <2>1, <2>a, <2>4
      <3> QED
        BY <1>2, <3>1, SMTT(60) DEF Base
    <2>6. Len(u.info) <= K /\ Len(u.info) <= u.taken /\ u.out <= Len(u.info)
      BY <1>1, <1>2, <1>3, <2>1, <2>a, <2>4, WindowFacts, SMTT(60) DEF Buffer
    <2>7. ASSUME NEW i \in 1 .. Len(u.info) PROVE u.info[i] = Base(u) + i
      <3>1. CASE i \in 1 .. Len(s.info)
        BY <1>1, <2>2, <2>4, <2>5, <3>1 DEF Buffer
      <3>2. CASE i = Len(s.info) + 1
        BY <1>2, <2>3, <2>a, <2>4, <2>5, <3>2, SMTT(60) DEF Base
      <3> QED
        BY <1>2, <2>1, <2>4, <3>1, <3>2
    <2>8. Buffer(u)
      BY <1>1, <2>4, <2>6, <2>7 DEF Buffer
    <2>9. Timed(u)
      BY <1>1, <2>4 DEF Timed
    <2>10. Moves(s, u, 0)
      BY ONLY <2>4, <2>5, <2>8, <2>9, Still, Core(s)
    <2>11. Moves(s, s, 0)
      BY FlagsMove
    <2> QED
      BY <2>10, <2>11 DEF Fetched, u, w, m
  <1>4. CASE ~ (Len(s.info) + 1 < InfoFrames)
    <2>1. Moves(s, s, 0)
      BY FlagsMove
    <2> QED
      BY <1>4, <2>1 DEF Fetched
  <1> QED
    BY <1>3, <1>4

\* Letting the first n frames go.
LEMMA ReleaseMoves ==
    ASSUME NEW s, Core(s), s.state # "ESTABLISH", NEW n \in Nat, n <= s.out
    PROVE  Moves(s, Release(s, n), n)
  <1> DEFINE v == (s.va + n) % Mod
             o == s.out - n
             w == SubSeq(s.info, n + 1, Len(s.info))
             z == IF n = 0 THEN s.freed ELSE s.info[n]
             u == [s EXCEPT !.va = v, !.out = o, !.info = w, !.freed = z]
  <1>1. s \in StationRecord /\ Buffer(s) /\ Timed(s) /\ Len(s.ctrl) < CtrlFrames
    BY DEF Core
  <1>2. /\ s.taken \in Nat /\ s.info \in Seq(Nat) /\ Len(s.info) \in Nat /\ s.out \in Nat
        /\ Base(s) \in Int /\ s.va \in Int /\ s.vs \in Int /\ s.freed \in Nat
        /\ s.ctrl \in Seq(CtrlFrame)
    BY <1>1, Fields
  <1>3. s.out <= Len(s.info) /\ Len(s.info) <= K /\ Len(s.info) <= s.taken
        /\ (s.vs - s.va) % Mod = s.out /\ \A i \in 1 .. Len(s.info) : s.info[i] = Base(s) + i
    BY <1>1 DEF Buffer
  <1>4. n <= Len(s.info)
    BY <1>2, <1>3
  <1>5. w \in Seq(Nat) /\ Len(w) = Len(s.info) - n
        /\ \A i \in 1 .. Len(s.info) - n : w[i] = s.info[n + i]
    <2> DEFINE p == s.info
               k == Len(s.info)
    <2>1. p \in Seq(Nat) /\ k = Len(p) /\ n \in Nat /\ n <= k /\ k \in Nat
      BY <1>2, <1>4
    <2> HIDE DEF p, k
    <2>2. n + 1 \in 1 .. k + 1 /\ k \in n .. k
      BY <2>1
    <2>3. SubSeq(p, n + 1, k) \in Seq(Nat) /\ Len(SubSeq(p, n + 1, k)) = k - n
          /\ \A i \in 1 .. k - n : SubSeq(p, n + 1, k)[i] = p[n + i]
      BY <2>1, <2>2
    <2> QED
      BY <2>3 DEF p, k
  <1>6. v \in Number /\ o \in Nat
    BY <1>2, InNumber
  <1>7. z \in Nat /\ z = IF n = 0 THEN s.freed ELSE Base(s) + n
    <2>1. CASE n = 0
      BY <1>2, <2>1
    <2>2. CASE n # 0
      <3>1. n \in 1 .. Len(s.info)
        BY <1>2, <1>4, <2>2
      <3>2. s.info[n] \in Nat
        BY ONLY <3>1, <1>2, ElementOfSeq
      <3>3. z = s.info[n] /\ s.info[n] = Base(s) + n
        BY <3>1, <1>3, <2>2
      <3> QED
        BY <3>2, <3>3, <2>2
    <2> QED
      BY <2>1, <2>2
  <1>8. u = Release(s, n)
    BY DEF Release
  <1>a. o = s.out - n /\ v = (s.va + n) % Mod
    OBVIOUS
  <1> HIDE DEF v, o, w, z
  <1>9. /\ u \in StationRecord /\ u.info = w /\ u.va = v /\ u.out = o /\ u.freed = z
        /\ u.vs = s.vs /\ u.vr = s.vr /\ u.ctrl = s.ctrl /\ u.taken = s.taken /\ u.got = s.got
        /\ u.configuring = s.configuring /\ u.state = s.state /\ u.timer = s.timer
    BY ONLY <1>1, <1>5, <1>6, <1>7 DEF StationRecord
  <1> HIDE DEF u
  <1>10. Len(u.info) = Len(s.info) - n
    BY <1>5, <1>9
  <1>11. Base(u) = Base(s) + n
    BY <1>2, <1>9, <1>10, SMTT(60) DEF Base
  <1>12. (u.vs - u.va) % Mod = u.out
    <2> DEFINE d == s.vs - s.va
    <2>1. d \in Int /\ s.vs \in Int /\ s.va + n \in Int /\ -n \in Int /\ Mod \in Nat \ {0}
      BY <1>2, WindowFacts
    <2>2. u.vs - u.va = s.vs - ((s.va + n) % Mod)
      BY <1>9, <1>a
    <2>3. (s.vs - ((s.va + n) % Mod)) % Mod = (s.vs - (s.va + n)) % Mod
      BY <2>1, ModSub
    <2>4. s.vs - (s.va + n) = d + (-n)
      BY <1>2
    <2>5. d % Mod = s.out
      BY <1>3
    <2> HIDE DEF d
    <2>6. ((d % Mod) + (-n)) % Mod = (d + (-n)) % Mod
      BY <2>1, ModAdd
    <2>7. (d % Mod) + (-n) = o /\ o \in 0 .. Mod - 1
      <3>1. K \in Nat /\ Mod \in Nat /\ Mod > 2 * K
        BY WindowFacts
      <3>2. s.out <= K
        BY <1>2, <1>3, <3>1
      <3>3. o = s.out - n /\ o \in Nat /\ n \in Nat
        BY <1>a, <1>6
      <3> QED
        BY ONLY <3>1, <3>2, <3>3, <2>5, <1>2, SMTT(60)
    <2>8. o % Mod = o
      BY <2>7, <2>1, ModSmall
    <2>9. (d + (-n)) % Mod = o
      BY <2>6, <2>7, <2>8
    <2> QED
      BY <2>2, <2>3, <2>4, <2>9, <1>9
  <1>13. Len(u.info) <= K /\ Len(u.info) <= u.taken /\ u.out <= Len(u.info)
    <2>1. u.taken = s.taken /\ u.out = s.out - n
      BY <1>9, <1>a
    <2>2. K \in Nat /\ n \in Nat
      BY WindowFacts
    <2> QED
      BY ONLY <2>1, <2>2, <1>2, <1>3, <1>10, SMTT(60)
  <1>14. ASSUME NEW i \in 1 .. Len(u.info) PROVE u.info[i] = Base(u) + i
    <2>1. i \in 1 .. Len(s.info) - n /\ n + i \in 1 .. Len(s.info)
      BY <1>2, <1>10
    <2>2. u.info[i] = s.info[n + i] /\ s.info[n + i] = Base(s) + (n + i)
      BY <2>1, <1>3, <1>5, <1>9
    <2> QED
      BY <2>1, <2>2, <1>2, <1>11
  <1>15. Buffer(u)
    BY <1>12, <1>13, <1>14 DEF Buffer
  <1>16. Timed(u)
    BY <1>1, <1>9 DEF Timed
  <1>17. Base(u) >= Base(s) /\ Base(u) <= Base(s) + n /\ Base(u) - Base(s) = n
         /\ (Base(u) > Base(s) <=> n # 0) /\ u.taken >= s.taken
    BY <1>2, <1>9, <1>11
  <1>18. u.freed = IF Base(u) > Base(s) THEN Base(u) ELSE s.freed
    BY <1>7, <1>9, <1>11, <1>17
  <1>19. u.va = (s.va + (Base(u) - Base(s))) % Mod
    BY <1>9, <1>17, <1>a
  <1>20. Core(u)
    BY <1>1, <1>9, <1>15, <1>16 DEF Core
  <1>21. \E q \in Seq(Said(s.vr)) : u.ctrl = s.ctrl \o q
    <2>1. Moves(s, s, 0)
      BY FlagsMove
    <2> QED
      BY <2>1, <1>9 DEF Moves
  <1>22. Moves(s, u, n)
    BY ONLY <1>9, <1>17, <1>18, <1>19, <1>20, <1>21 DEF Moves
  <1> QED
    BY <1>8, <1>22

\* An acknowledgement lets go of no more frames than it says.
LEMMA AckMoves ==
    ASSUME NEW s, Core(s), s.state # "ESTABLISH", NEW nr \in Number
    PROVE  /\ (nr - s.va) % Mod \in Nat
           /\ Moves(s, ack_info(s, nr), (nr - s.va) % Mod)
  <1> DEFINE m == (nr - s.va) % Mod
             n == Min({m, s.out})
             a == Release(s, n)
  <1>1. s \in StationRecord /\ s.out \in Nat /\ s.va \in Int
    BY Fields DEF Core
  <1>2. m \in Nat
    BY <1>1, InNumber DEF Number
  <1> HIDE DEF m
  <1>3. n \in Nat /\ n <= m /\ n <= s.out
    BY <1>1, <1>2, MinIsLeast
  <1> HIDE DEF n
  <1>4. Moves(s, a, n)
    BY <1>3, ReleaseMoves
  <1> HIDE DEF a
  <1>5. Core(a) /\ a.state # "ESTABLISH"
    BY <1>4, MovesFacts
  <1>6. Moves(a, t401_start(a), 0) /\ Moves(a, t401_stop_t403_start(a), 0)
    BY <1>5, FlagsMove
  <1>a. n + 0 = n
    BY <1>3
  <1>7. Moves(s, t401_start(a), n) /\ Moves(s, t401_stop_t403_start(a), n)
    BY <1>3, <1>4, <1>6, <1>a, MovesTwice
  <1>8. Acked(s, nr) \in {a, t401_start(a), t401_stop_t403_start(a)}
    BY DEF Acked, a, n, m
  <1>9. Moves(s, Acked(s, nr), n)
    BY <1>4, <1>7, <1>8
  <1>10. Moves(s, Acked(s, nr), m)
    BY <1>2, <1>3, <1>9, MovesWithin
  <1>11. Moves(s, lapm_disconnect(s), m)
    BY <1>2, DisconnectMoves, MovesWithin
  <1> QED
    BY <1>2, <1>10, <1>11 DEF ack_info, m

\* So do an answer by a supervisory or an information frame.
LEMMA AnswerMoves ==
    ASSUME NEW s, Core(s), s.state # "ESTABLISH", NEW f \in LineFrame, NEW has \in BOOLEAN
    PROVE  Moves(s, tx_information_rr_rnr_response(s, f, has), 0)
  <1> DEFINE t == IF f.pf THEN s ELSE Fetched(s, has)
  <1>1. Moves(s, t, 0)
    BY FetchedMoves, FlagsMove
  <1> HIDE DEF t
  <1>2. Core(t) /\ t.state # "ESTABLISH"
    BY <1>1, MovesFacts
  <1> DEFINE b == ~f.cmd
             v == tx_supervisory_frame(t, b, Ready(t), TRUE)
  <1>3. b \in BOOLEAN /\ Ready(t) \in Supervisory /\ TRUE \in BOOLEAN
    BY DEF Ready, Supervisory
  <1> HIDE DEF b
  <1>4. Moves(t, v, 0)
    BY <1>2, <1>3, SupervisoryMoves
  <1> HIDE DEF v
  <1>a. 0 + 0 = 0
    OBVIOUS
  <1>5. Moves(s, v, 0)
    BY <1>1, <1>4, <1>a, MovesTwice
  <1> QED
    BY <1>1, <1>5 DEF tx_information_rr_rnr_response, t, v, b

-----------------------------------------------------------------------------
(* The frames of a link.                                                    *)

\* A frame is handed over.
HandedOver(s, f) ==
    [s EXCEPT !.rejected = FALSE, !.got = Append(@, f.msg), !.vr = (@ + 1) % Mod]

\* What a frame of data transfer may do: its acknowledgement lets frames go,
\* and if it is the next one it is handed over.
Handles(s, u, f) ==
    \E a, d : /\ Moves(s, a, (f.nr - s.va) % Mod)
              /\ d = a \/ (f.k = "I" /\ f.ns = a.vr /\ d = HandedOver(a, f))
              /\ Moves(d, u, 0)

\* Handing a frame over touches nothing of what the station sends.
LEMMA HandedOverFields ==
    ASSUME NEW s, Core(s), NEW f \in LineFrame
    PROVE  LET d == HandedOver(s, f)
           IN  /\ Core(d) /\ d.got = Append(s.got, f.msg) /\ d.vr = (s.vr + 1) % Mod
               /\ d.vs = s.vs /\ d.va = s.va /\ d.info = s.info /\ d.out = s.out
               /\ d.taken = s.taken /\ d.freed = s.freed /\ d.ctrl = s.ctrl
               /\ d.configuring = s.configuring /\ d.state = s.state /\ d.timer = s.timer
               /\ Base(d) = Base(s)
  <1> DEFINE g == Append(s.got, f.msg)
             v == (s.vr + 1) % Mod
             d == [s EXCEPT !.rejected = FALSE, !.got = g, !.vr = v]
  <1>1. s \in StationRecord /\ Buffer(s) /\ Timed(s) /\ Len(s.ctrl) < CtrlFrames
    BY DEF Core
  <1>2. g \in Seq(Nat)
    <2>1. s.got \in Seq(Nat) /\ f.msg \in Nat
      BY <1>1, Fields DEF LineFrame
    <2> QED
      BY <2>1
  <1>3. v \in Number
    BY <1>1, Fields, InNumber
  <1>4. HandedOver(s, f) = d
    BY DEF HandedOver
  <1>a. g = Append(s.got, f.msg) /\ v = (s.vr + 1) % Mod
    OBVIOUS
  <1> HIDE DEF g, v
  <1>5. /\ d \in StationRecord /\ d.got = g /\ d.vr = v
        /\ d.vs = s.vs /\ d.va = s.va /\ d.info = s.info /\ d.out = s.out
        /\ d.taken = s.taken /\ d.freed = s.freed /\ d.ctrl = s.ctrl
        /\ d.configuring = s.configuring /\ d.state = s.state /\ d.timer = s.timer
    BY ONLY <1>1, <1>2, <1>3 DEF StationRecord
  <1> HIDE DEF d
  <1>6. Base(d) = Base(s)
    BY <1>5 DEF Base
  <1>7. Buffer(d) /\ Timed(d)
    BY <1>1, <1>5, <1>6 DEF Buffer, Timed
  <1>8. Core(d)
    BY <1>1, <1>5, <1>7 DEF Core
  <1> QED
    BY <1>4, <1>5, <1>6, <1>8, <1>a

\* A frame that hands nothing over.
LEMMA HandlesMoves ==
    ASSUME NEW s, Core(s), s.state # "ESTABLISH", NEW f, NEW u,
           Moves(s, u, (f.nr - s.va) % Mod)
    PROVE  Handles(s, u, f)
  <1>1. Core(u) /\ u.state # "ESTABLISH"
    BY MovesFacts
  <1>2. Moves(u, u, 0)
    BY <1>1, FlagsMove
  <1> QED
    BY <1>2 DEF Handles

\* A supervisory command.
LEMMA CommandHandled ==
    ASSUME NEW s, Core(s), s.state # "ESTABLISH", NEW f \in LineFrame, f.k \in Supervisory,
           NEW has \in BOOLEAN
    PROVE  Handles(s, rx_supervisory_cmd_frame(s, f, has), f)
  <1> DEFINE b == f.k = "RNR"
             c == [s EXCEPT !.fbusy = b]
             n == (f.nr - s.va) % Mod
             a == ack_info(c, f.nr)
             p == t401_stop_t403_start(a)
             r == IF a.retry = 0 THEN reject_info(p) ELSE a
             x == tx_information_rr_rnr_response(a, f, has)
             y == IF f.pf THEN tx_supervisory_frame(a, FALSE, Ready(a), TRUE) ELSE a
             z == tx_information_rr_rnr_response(r, f, has)
  <1>1. b \in BOOLEAN /\ f.nr \in Number
    BY DEF LineFrame
  <1>2. rx_supervisory_cmd_frame(s, f, has) =
            CASE f.k = "RR" -> x [] f.k = "RNR" -> y [] f.k = "REJ" -> z
    BY DEF rx_supervisory_cmd_frame
  <1>3. c.va = s.va
    BY DEF Core, StationRecord
  <1> HIDE DEF b
  <1>4. Moves(s, c, 0)
    BY <1>1, FlagsMove
  <1> HIDE DEF c
  <1>5. Core(c) /\ c.state # "ESTABLISH"
    BY <1>4, MovesFacts
  <1>6. n \in Nat /\ Moves(c, a, n)
    BY <1>1, <1>3, <1>5, AckMoves
  <1> HIDE DEF n, a
  <1>a. 0 + n = n /\ n + 0 = n
    BY <1>6
  <1>7. Moves(s, a, n) /\ Core(a) /\ a.state # "ESTABLISH"
    BY <1>4, <1>5, <1>6, <1>a, MovesTwice, MovesFacts
  <1>8. Moves(s, x, n)
    BY <1>6, <1>7, <1>a, AnswerMoves, MovesTwice
  <1>9. Moves(s, y, n)
    <2>1. Ready(a) \in Supervisory
      BY DEF Ready, Supervisory
    <2> DEFINE q == tx_supervisory_frame(a, FALSE, Ready(a), TRUE)
    <2>2. Moves(a, q, 0)
      BY <1>7, <2>1, SupervisoryMoves
    <2> HIDE DEF q
    <2>3. Moves(s, q, n)
      BY <1>6, <1>7, <1>a, <2>2, MovesTwice
    <2> QED
      BY <1>7, <2>3 DEF q
  <1>10. Moves(s, r, n) /\ Core(r) /\ r.state # "ESTABLISH"
    <2>1. Moves(a, p, 0)
      BY <1>7, FlagsMove
    <2> HIDE DEF p
    <2>2. Core(p) /\ p.state # "ESTABLISH" /\ Moves(s, p, n)
      BY <1>6, <1>7, <1>a, <2>1, MovesFacts, MovesTwice
    <2>3. Moves(p, reject_info(p), 0)
      BY <2>2, RejectMoves
    <2>4. Moves(s, reject_info(p), n)
      BY <1>6, <1>a, <2>2, <2>3, MovesTwice
    <2>5. Moves(s, r, n)
      BY <1>7, <2>4
    <2> HIDE DEF r
    <2> QED
      BY <2>5, MovesFacts
  <1> HIDE DEF r
  <1>11. Moves(s, z, n)
    BY <1>6, <1>10, <1>a, AnswerMoves, MovesTwice
  <1> HIDE DEF x, y, z
  <1>12. Moves(s, rx_supervisory_cmd_frame(s, f, has), n)
    BY <1>2, <1>8, <1>9, <1>11 DEF Supervisory
  <1> QED
    BY <1>12, HandlesMoves DEF n

\* A supervisory answer.
LEMMA AnswerHandled ==
    ASSUME NEW s, Core(s), s.state # "ESTABLISH", NEW f \in LineFrame, f.k \in Supervisory
    PROVE  Handles(s, rx_supervisory_rsp_frame(s, f), f)
  <1> DEFINE e == f.k = "RNR"
             c == [s EXCEPT !.fbusy = e]
             n == (f.nr - s.va) % Mod
             a == ack_info(c, f.nr)
             answers == IF f.k = "REJ" THEN a.retry = 0 \/ f.pf ELSE a.retry # 0 /\ f.pf
             p == reject_info(a)
             b == IF answers THEN t401_stop_t403_start(p) ELSE a
             w == t401_start(b)
  <1>1. e \in BOOLEAN /\ f.nr \in Number
    BY DEF LineFrame
  <1>2. rx_supervisory_rsp_frame(s, f) =
            IF s.retry = 0 /\ f.pf THEN s ELSE IF f.k = "RNR" /\ b.retry = 0 THEN w ELSE b
    BY DEF rx_supervisory_rsp_frame
  <1>3. c.va = s.va
    BY DEF Core, StationRecord
  <1> HIDE DEF e
  <1>4. Moves(s, c, 0) /\ Moves(s, s, 0)
    BY <1>1, FlagsMove
  <1> HIDE DEF c
  <1>5. Core(c) /\ c.state # "ESTABLISH"
    BY <1>4, MovesFacts
  <1>6. n \in Nat /\ Moves(c, a, n)
    BY <1>1, <1>3, <1>5, AckMoves
  <1> HIDE DEF n, a
  <1>a. 0 + n = n /\ n + 0 = n /\ 0 <= n
    BY <1>6
  <1>7. Moves(s, a, n) /\ Core(a) /\ a.state # "ESTABLISH"
    BY <1>4, <1>5, <1>6, <1>a, MovesTwice, MovesFacts
  <1>8. Moves(a, p, 0)
    BY <1>7, RejectMoves
  <1> HIDE DEF p
  <1>9. Moves(s, p, n) /\ Core(p) /\ p.state # "ESTABLISH"
    BY <1>6, <1>7, <1>8, <1>a, MovesTwice, MovesFacts
  <1>10. Moves(p, t401_stop_t403_start(p), 0)
    BY <1>9, FlagsMove
  <1>11. Moves(s, t401_stop_t403_start(p), n)
    BY <1>6, <1>9, <1>10, <1>a, MovesTwice
  <1>12. Moves(s, b, n)
    BY <1>7, <1>11
  <1> HIDE DEF b
  <1>13. Core(b) /\ b.state # "ESTABLISH"
    BY <1>12, MovesFacts
  <1>14. Moves(b, w, 0)
    BY <1>13, FlagsMove
  <1> HIDE DEF w
  <1>15. Moves(s, w, n)
    BY <1>6, <1>12, <1>14, <1>a, MovesTwice
  <1>16. Moves(s, s, n)
    BY <1>4, <1>6, <1>a, MovesWithin
  <1>17. Moves(s, rx_supervisory_rsp_frame(s, f), n)
    BY <1>2, <1>12, <1>15, <1>16
  <1> QED
    BY <1>17, HandlesMoves DEF n

\* An information frame, when the station is in data transfer.
LEMMA InformationHandled ==
    ASSUME NEW s, Core(s), s.state = "DATA", NEW f \in LineFrame, f.k = "I", NEW has \in BOOLEAN
    PROVE  Handles(s, receive_information_frame(s, f, has), f)
  <1> DEFINE n == (f.nr - s.va) % Mod
             a == ack_info(s, f.nr)
             d == HandedOver(a, f)
             p == tx_supervisory_frame(a, FALSE, "REJ", f.pf)
             x == IF f.pf THEN tx_supervisory_frame(a, FALSE, "RNR", TRUE) ELSE a
             y == OutOfSequence(a, f)
             z == InSequence(a, f, has)
  <1>1. f.nr \in Number /\ f.pf \in BOOLEAN
    BY DEF LineFrame
  <1>2. receive_information_frame(s, f, has) =
            IF a.lbusy THEN x ELSE IF f.ns # a.vr THEN y ELSE z
    BY DEF receive_information_frame, valid_data_state, InDataState
  <1>3. n \in Nat /\ Moves(s, a, n)
    BY <1>1, AckMoves
  <1> HIDE DEF n, a
  <1>a. n + 0 = n
    BY <1>3
  <1>4. Core(a) /\ a.state # "ESTABLISH"
    BY <1>3, MovesFacts
  <1>5. Moves(s, x, n)
    <2> DEFINE q == tx_supervisory_frame(a, FALSE, "RNR", TRUE)
    <2>1. Moves(a, q, 0)
      BY <1>4, SupervisoryMoves DEF Supervisory
    <2> HIDE DEF q
    <2>2. Moves(s, q, n)
      BY <1>3, <1>a, <2>1, MovesTwice
    <2> QED
      BY <1>3, <2>2 DEF q
  <1>6. Moves(s, y, n)
    <2>1. Moves(a, p, 0)
      BY <1>1, <1>4, SupervisoryMoves DEF Supervisory
    <2>2. y = IF a.rejected THEN a ELSE [p EXCEPT !.rejected = TRUE]
      BY DEF OutOfSequence
    <2> HIDE DEF p
    <2>3. Core(p) /\ p.state # "ESTABLISH" /\ Moves(s, p, n)
      BY <1>3, <1>4, <1>a, <2>1, MovesFacts, MovesTwice
    <2>4. Moves(p, [p EXCEPT !.rejected = TRUE], 0)
      BY <2>3, FlagsMove
    <2>5. Moves(s, [p EXCEPT !.rejected = TRUE], n)
      BY <1>3, <1>a, <2>3, <2>4, MovesTwice
    <2> QED
      BY <1>3, <2>2, <2>5
  <1>7. ASSUME f.ns = a.vr PROVE Handles(s, z, f)
    <2>1. Core(d) /\ d.state # "ESTABLISH"
      BY <1>4, HandedOverFields
    <2>2. z = tx_information_rr_rnr_response(d, f, has)
      BY DEF InSequence, HandedOver
    <2>3. d = HandedOver(a, f)
      OBVIOUS
    <2> HIDE DEF d, z
    <2>4. Moves(d, z, 0)
      BY <2>1, <2>2, AnswerMoves
    <2> QED
      BY <1>3, <1>7, <2>3, <2>4 DEF Handles, n
  <1> HIDE DEF x, y, z
  <1>8. Handles(s, x, f) /\ Handles(s, y, f)
    BY <1>5, <1>6, HandlesMoves DEF n
  <1> QED
    BY <1>2, <1>7, <1>8

-----------------------------------------------------------------------------
(* The frames that set a link up and end it.                                *)

\* A link begins or ends: the numbers start again and the buffer is empty.
Reborn(s, u) ==
    /\ u \in StationRecord
    /\ u.vs = 0 /\ u.va = 0 /\ u.vr = 0 /\ u.info = <<>> /\ u.out = 0
    /\ u.taken = s.taken /\ u.got = s.got /\ u.freed = s.freed /\ u.configuring = s.configuring

\* Nothing of the link changes.
Alike(s, u) ==
    /\ u \in StationRecord
    /\ u.vs = s.vs /\ u.va = s.va /\ u.vr = s.vr /\ u.info = s.info /\ u.out = s.out
    /\ u.taken = s.taken /\ u.got = s.got /\ u.freed = s.freed

\* A reset station in any state.
LEMMA ResetReborn ==
    ASSUME NEW s \in StationRecord, NEW p \in States
    PROVE  LET u == [reset_lapm(s) EXCEPT !.state = p]
           IN  Reborn(s, u) /\ u.state = p /\ u.timer = s.timer /\ u.ctrl = <<>>
  <1> DEFINE u == [s EXCEPT !.lbusy = FALSE, !.fbusy = FALSE, !.vs = 0, !.va = 0, !.vr = 0,
                            !.info = <<>>, !.out = 0, !.ctrl = <<>>, !.state = p]
  <1>1. 0 \in Number /\ <<>> \in Seq(CtrlFrame) /\ <<>> \in Seq(Nat)
    BY WindowFacts DEF Number
  <1>2. [reset_lapm(s) EXCEPT !.state = p] = u
    BY DEF reset_lapm, StationRecord
  <1>3. /\ u \in StationRecord
        /\ u.vs = 0 /\ u.va = 0 /\ u.vr = 0 /\ u.info = <<>> /\ u.out = 0
        /\ u.taken = s.taken /\ u.got = s.got /\ u.freed = s.freed /\ u.configuring = s.configuring
        /\ u.state = p /\ u.timer = s.timer /\ u.ctrl = <<>>
    BY <1>1 DEF StationRecord
  <1> HIDE DEF u
  <1> QED
    BY <1>2, <1>3 DEF Reborn

\* What may follow it: a timer, a report, a frame.
LEMMA RebornTimers ==
    ASSUME NEW s, NEW u, Reborn(s, u)
    PROVE  /\ LET v == t401_start(u)
              IN  Reborn(s, v) /\ v.state = u.state /\ v.timer = "T401" /\ v.ctrl = u.ctrl
           /\ LET v == t401_stop(u)
              IN  Reborn(s, v) /\ v.state = u.state /\ v.timer = "off" /\ v.ctrl = u.ctrl
           /\ LET v == t401_stop_t403_start(u)
              IN  Reborn(s, v) /\ v.state = u.state /\ v.timer = "T403" /\ v.ctrl = u.ctrl
  <1>1. u \in StationRecord
    BY DEF Reborn
  <1>2. 0 \in 0 .. N400 + 1 /\ {"T401", "T403", "off"} \subseteq Timers
    BY WindowFacts DEF Timers
  <1>3. LET v == t401_start(u)
        IN  Reborn(s, v) /\ v.state = u.state /\ v.timer = "T401" /\ v.ctrl = u.ctrl
    <2> DEFINE v == [u EXCEPT !.timer = "T401", !.retry = 0]
    <2>1. /\ v \in StationRecord
          /\ v.vs = u.vs /\ v.va = u.va /\ v.vr = u.vr /\ v.info = u.info /\ v.out = u.out
          /\ v.taken = u.taken /\ v.got = u.got /\ v.freed = u.freed /\ v.configuring = u.configuring
          /\ v.state = u.state /\ v.timer = "T401" /\ v.ctrl = u.ctrl
      BY ONLY <1>1, <1>2 DEF StationRecord
    <2>2. t401_start(u) = v
      BY DEF t401_start
    <2> HIDE DEF v
    <2> QED
      BY <2>1, <2>2 DEF Reborn
  <1>4. LET v == t401_stop(u)
        IN  Reborn(s, v) /\ v.state = u.state /\ v.timer = "off" /\ v.ctrl = u.ctrl
    <2> DEFINE v == [u EXCEPT !.timer = "off", !.retry = 0]
    <2>1. /\ v \in StationRecord
          /\ v.vs = u.vs /\ v.va = u.va /\ v.vr = u.vr /\ v.info = u.info /\ v.out = u.out
          /\ v.taken = u.taken /\ v.got = u.got /\ v.freed = u.freed /\ v.configuring = u.configuring
          /\ v.state = u.state /\ v.timer = "off" /\ v.ctrl = u.ctrl
      BY ONLY <1>1, <1>2 DEF StationRecord
    <2>2. t401_stop(u) = v
      BY DEF t401_stop
    <2> HIDE DEF v
    <2> QED
      BY <2>1, <2>2 DEF Reborn
  <1>5. LET v == t401_stop_t403_start(u)
        IN  Reborn(s, v) /\ v.state = u.state /\ v.timer = "T403" /\ v.ctrl = u.ctrl
    <2> DEFINE v == [u EXCEPT !.timer = "T403", !.retry = 0]
    <2>1. /\ v \in StationRecord
          /\ v.vs = u.vs /\ v.va = u.va /\ v.vr = u.vr /\ v.info = u.info /\ v.out = u.out
          /\ v.taken = u.taken /\ v.got = u.got /\ v.freed = u.freed /\ v.configuring = u.configuring
          /\ v.state = u.state /\ v.timer = "T403" /\ v.ctrl = u.ctrl
      BY ONLY <1>1, <1>2 DEF StationRecord
    <2>2. t401_stop_t403_start(u) = v
      BY DEF t401_stop_t403_start
    <2> HIDE DEF v
    <2> QED
      BY <2>1, <2>2 DEF Reborn
  <1> QED
    BY <1>3, <1>4, <1>5

\* A report.
LEMMA RebornReport ==
    ASSUME NEW s, NEW u, Reborn(s, u), NEW b \in {"CONNECTED", "DISCONNECTED"}
    PROVE  LET v == Report(u, b)
           IN  Reborn(s, v) /\ v.state = u.state /\ v.timer = u.timer /\ v.ctrl = u.ctrl
  <1> DEFINE v == [u EXCEPT !.told = b]
  <1>1. u \in StationRecord /\ b \in {"none", "IDLE", "CONNECTED", "DISCONNECTED", "UNSUPPORTED"}
    BY DEF Reborn
  <1>2. /\ v \in StationRecord
        /\ v.vs = u.vs /\ v.va = u.va /\ v.vr = u.vr /\ v.info = u.info /\ v.out = u.out
        /\ v.taken = u.taken /\ v.got = u.got /\ v.freed = u.freed /\ v.configuring = u.configuring
        /\ v.state = u.state /\ v.timer = u.timer /\ v.ctrl = u.ctrl
    BY ONLY <1>1 DEF StationRecord
  <1>3. Report(u, b) = v
    BY DEF Report
  <1> HIDE DEF v
  <1> QED
    BY <1>2, <1>3 DEF Reborn

\* A frame to be sent by a station that has none.
LEMMA RebornPut ==
    ASSUME NEW s, NEW u, Reborn(s, u), u.ctrl = <<>>, NEW f \in CtrlFrame
    PROVE  LET v == Put(u, f)
           IN  Reborn(s, v) /\ v.state = u.state /\ v.timer = u.timer /\ v.ctrl = <<f>>
  <1> DEFINE c == <<f>>
             v == [u EXCEPT !.ctrl = c]
  <1>1. u \in StationRecord /\ c \in Seq(CtrlFrame)
    BY DEF Reborn
  <1>2. Put(u, f) = v
    <2>1. Len(u.ctrl) < CtrlFrames - 1
      BY WindowFacts
    <2>2. Append(u.ctrl, f) = c
      OBVIOUS
    <2> HIDE DEF c
    <2> QED
      BY <2>1, <2>2 DEF Put
  <1>3. c = <<f>>
    OBVIOUS
  <1> HIDE DEF c
  <1>4. /\ v \in StationRecord
        /\ v.vs = u.vs /\ v.va = u.va /\ v.vr = u.vr /\ v.info = u.info /\ v.out = u.out
        /\ v.taken = u.taken /\ v.got = u.got /\ v.freed = u.freed /\ v.configuring = u.configuring
        /\ v.state = u.state /\ v.timer = u.timer /\ v.ctrl = c
    BY ONLY <1>1 DEF StationRecord
  <1> HIDE DEF v
  <1> QED
    BY <1>2, <1>3, <1>4 DEF Reborn

\* The caller asks for a link.
LEMMA Connects ==
    ASSUME NEW s \in StationRecord, s.state = "IDLE"
    PROVE  LET u == lapm_connect(s)
           IN  /\ Reborn(s, u) /\ u.state = "ESTABLISH" /\ u.timer = "T401"
               /\ u.ctrl = <<Frame("SABME", TRUE, TRUE)>>
  <1> DEFINE t == [reset_lapm(s) EXCEPT !.state = "ESTABLISH"]
             f == Frame("SABME", TRUE, TRUE)
             v == Put(t, f)
  <1>1. Reborn(s, t) /\ t.state = "ESTABLISH" /\ t.ctrl = <<>>
    BY ResetReborn DEF States
  <1>2. f \in CtrlFrame
    BY FramesMade DEF Unnumbered
  <1>a. lapm_connect(s) = t401_start(v)
    BY DEF lapm_connect, tx_unnumbered_frame
  <1> HIDE DEF t, f
  <1>3. Reborn(s, v) /\ v.state = "ESTABLISH" /\ v.ctrl = <<f>>
    BY <1>1, <1>2, RebornPut
  <1> HIDE DEF v
  <1> QED
    BY <1>3, <1>a, RebornTimers, ZenonT(60) DEF f

\* A link is there once the other station is heard to be in data transfer, and
\* gone, after release was asked for, likewise.
LEMMA Idles ==
    ASSUME NEW s \in StationRecord
    PROVE  /\ LET u == Report([reset_lapm(s) EXCEPT !.state = "DATA"], "CONNECTED")
              IN  Reborn(s, u) /\ u.state = "DATA" /\ u.timer = s.timer /\ u.ctrl = <<>>
           /\ LET u == Idle(s)
              IN  Reborn(s, u) /\ u.state = "IDLE" /\ u.timer = s.timer /\ u.ctrl = <<>>
           /\ LET u == t401_stop(Idle(s))
              IN  Reborn(s, u) /\ u.state = "IDLE" /\ u.timer = "off" /\ u.ctrl = <<>>
  <1>1. LET u == Report([reset_lapm(s) EXCEPT !.state = "DATA"], "CONNECTED")
        IN  Reborn(s, u) /\ u.state = "DATA" /\ u.timer = s.timer /\ u.ctrl = <<>>
    <2> DEFINE t == [reset_lapm(s) EXCEPT !.state = "DATA"]
    <2>1. Reborn(s, t) /\ t.state = "DATA" /\ t.ctrl = <<>> /\ t.timer = s.timer
      BY ResetReborn DEF States
    <2> HIDE DEF t
    <2>2. LET u == Report(t, "CONNECTED")
          IN  Reborn(s, u) /\ u.state = "DATA" /\ u.timer = s.timer /\ u.ctrl = <<>>
      BY <2>1, RebornReport
    <2> QED
      BY <2>2 DEF t
  <1> DEFINE v == Idle(s)
  <1>2. Reborn(s, v) /\ v.state = "IDLE" /\ v.timer = s.timer /\ v.ctrl = <<>>
    <2> DEFINE t == [reset_lapm(s) EXCEPT !.state = "IDLE"]
    <2>1. Reborn(s, t) /\ t.state = "IDLE" /\ t.ctrl = <<>> /\ t.timer = s.timer
      BY ResetReborn DEF States
    <2>2. v = Report(t, "DISCONNECTED")
      BY DEF Idle
    <2> HIDE DEF t, v
    <2> QED
      BY <2>1, <2>2, RebornReport
  <1> HIDE DEF v
  <1>3. LET u == t401_stop(v)
        IN  Reborn(s, u) /\ u.state = "IDLE" /\ u.timer = "off" /\ u.ctrl = <<>>
    BY <1>2, RebornTimers
  <1> QED
    BY <1>1, <1>2, <1>3 DEF v

\* A station answers one that asks for a link, or for release.
LEMMA AnswersUA ==
    ASSUME NEW s \in StationRecord, NEW pf \in BOOLEAN
    PROVE  /\ LET u == Report(t401_stop_t403_start(tx_unnumbered_frame(
                           [reset_lapm(s) EXCEPT !.state = "DATA"], FALSE, "UA", pf)), "CONNECTED")
              IN  /\ Reborn(s, u) /\ u.state = "DATA" /\ u.timer = "T403"
                  /\ u.ctrl = <<Frame("UA", FALSE, pf)>>
           /\ LET u == Report(t401_stop(tx_unnumbered_frame(
                           [reset_lapm(s) EXCEPT !.state = "IDLE"], FALSE, "UA", pf)), "DISCONNECTED")
              IN  /\ Reborn(s, u) /\ u.state = "IDLE" /\ u.timer = "off"
                  /\ u.ctrl = <<Frame("UA", FALSE, pf)>>
  <1> DEFINE f == Frame("UA", FALSE, pf)
  <1>1. f \in CtrlFrame
    BY FramesMade DEF Unnumbered
  <1>2. ASSUME NEW p \in {"DATA", "IDLE"}
        PROVE  LET v == tx_unnumbered_frame([reset_lapm(s) EXCEPT !.state = p], FALSE, "UA", pf)
               IN  Reborn(s, v) /\ v.state = p /\ v.ctrl = <<f>>
    <2> DEFINE t == [reset_lapm(s) EXCEPT !.state = p]
               v == Put(t, f)
    <2>1. Reborn(s, t) /\ t.state = p /\ t.ctrl = <<>>
      BY ResetReborn DEF States
    <2>2. tx_unnumbered_frame(t, FALSE, "UA", pf) = v
      BY DEF tx_unnumbered_frame
    <2> HIDE DEF t, f
    <2>3. Reborn(s, v) /\ v.state = p /\ v.ctrl = <<f>>
      BY <1>1, <2>1, RebornPut
    <2> QED
      BY <2>2, <2>3 DEF t
  <1> DEFINE d == tx_unnumbered_frame([reset_lapm(s) EXCEPT !.state = "DATA"], FALSE, "UA", pf)
             e == tx_unnumbered_frame([reset_lapm(s) EXCEPT !.state = "IDLE"], FALSE, "UA", pf)
             m == t401_stop_t403_start(d)
             n == t401_stop(e)
  <1>3. Reborn(s, d) /\ d.state = "DATA" /\ d.ctrl = <<f>>
    BY <1>2
  <1>4. Reborn(s, e) /\ e.state = "IDLE" /\ e.ctrl = <<f>>
    BY <1>2
  <1> HIDE DEF d, e, f
  <1>5. Reborn(s, m) /\ m.state = "DATA" /\ m.ctrl = <<f>> /\ m.timer = "T403"
    BY <1>3, RebornTimers
  <1>6. Reborn(s, n) /\ n.state = "IDLE" /\ n.ctrl = <<f>> /\ n.timer = "off"
    BY <1>4, RebornTimers
  <1> HIDE DEF m, n
  <1>7. LET u == Report(m, "CONNECTED")
        IN  Reborn(s, u) /\ u.state = "DATA" /\ u.timer = "T403" /\ u.ctrl = <<f>>
    BY <1>5, RebornReport
  <1>8. LET u == Report(n, "DISCONNECTED")
        IN  Reborn(s, u) /\ u.state = "IDLE" /\ u.timer = "off" /\ u.ctrl = <<f>>
    BY <1>6, RebornReport
  <1> QED
    BY <1>7, <1>8 DEF m, n, d, e, f

\* The caller has the answer.
LEMMA Confirms ==
    ASSUME NEW s \in StationRecord
    PROVE  LET u == Report(t401_stop_t403_start([reset_lapm(s) EXCEPT !.state = "DATA"]), "CONNECTED")
           IN  Reborn(s, u) /\ u.state = "DATA" /\ u.timer = "T403" /\ u.ctrl = <<>>
  <1> DEFINE t == [reset_lapm(s) EXCEPT !.state = "DATA"]
             v == t401_stop_t403_start(t)
  <1>1. Reborn(s, t) /\ t.state = "DATA" /\ t.ctrl = <<>>
    BY ResetReborn DEF States
  <1> HIDE DEF t
  <1>2. Reborn(s, v) /\ v.state = "DATA" /\ v.ctrl = <<>> /\ v.timer = "T403"
    BY <1>1, RebornTimers
  <1> HIDE DEF v
  <1>3. LET u == Report(v, "CONNECTED")
        IN  Reborn(s, u) /\ u.state = "DATA" /\ u.timer = "T403" /\ u.ctrl = <<>>
    BY <1>2, RebornReport
  <1> QED
    BY <1>3 DEF v, t

-----------------------------------------------------------------------------
(* What a station does with a frame.                                        *)

\* A frame of data transfer.
Numbered(f) == f.k \in {"I"} \cup Supervisory

\* It is handled by a link, which it may have completed.
Linking(s, u, f) ==
    /\ Numbered(f)
    /\ \E t : /\ \/ s.state = "DATA" /\ t = s
                 \/ /\ s.state = "ESTABLISH"
                    /\ Reborn(s, t) /\ t.state = "DATA" /\ t.timer = s.timer /\ t.ctrl = <<>>
              /\ Handles(t, u, f)

\* It ends the link.
Ending(s, u, f) ==
    /\ Reborn(s, u) /\ u.state = "IDLE" /\ u.timer \in {s.timer, "off"}
    /\ \/ Numbered(f) /\ s.state = "RELEASE" /\ u.ctrl = <<>>
       \/ f.k = "DISC" /\ s.state # "IDLE" /\ u.ctrl = <<Frame("UA", FALSE, f.pf)>>
       \/ f.k = "DM" /\ s.state \in {"ESTABLISH", "DATA", "RELEASE"} /\ u.ctrl = <<>>
       \/ f.k = "UA" /\ s.state = "RELEASE" /\ u.ctrl = <<>>

\* It asks for a link.
Accepting(s, u, f) ==
    /\ f.k = "SABME" /\ Reborn(s, u)
    /\ u.state = "DATA" /\ u.timer = "T403" /\ u.ctrl = <<Frame("UA", FALSE, f.pf)>>

\* It is the answer to that.
Confirming(s, u, f) ==
    /\ f.k = "UA" /\ s.state = "ESTABLISH" /\ Reborn(s, u)
    /\ u.state = "DATA" /\ u.timer = "T403" /\ u.ctrl = <<>>

\* The parameters are agreed: the caller asks for a link.
Asking(s, u, f) ==
    /\ f.k = "XID" /\ ~f.cmd /\ s.configuring /\ s.state = "IDLE"
    /\ \E c : Alike(s, c) /\ ~c.configuring /\ Reborn(c, u)
    /\ u.state = "ESTABLISH" /\ u.timer = "T401" /\ u.ctrl = <<Frame("SABME", TRUE, TRUE)>>

\* It leaves the link as it is.
Ignoring(s, u, f) ==
    /\ Alike(s, u) /\ u.state = s.state /\ Len(u.ctrl) < CtrlFrames
    /\ f.k = "UA" /\ ~f.cmd => s.state # "ESTABLISH"
    /\ \/ /\ u.configuring = s.configuring /\ u.timer = s.timer
          /\ \/ u.ctrl = s.ctrl
             \/ f.k = "DISC" /\ s.state = "IDLE" /\ u.ctrl = Append(s.ctrl, Frame("DM", FALSE, TRUE))
             \/ f.k = "XID" /\ f.cmd /\ u.ctrl = Append(s.ctrl, Frame("XID", FALSE, FALSE))
       \/ /\ f.k = "XID" /\ ~f.cmd /\ s.configuring /\ ~u.configuring
          /\ u.timer = "off" /\ u.ctrl = s.ctrl /\ s.state \notin {"IDLE", "ESTABLISH", "DATA"}

Receives(s, u, f) ==
    \/ Linking(s, u, f) \/ Ending(s, u, f) \/ Accepting(s, u, f)
    \/ Confirming(s, u, f) \/ Asking(s, u, f) \/ Ignoring(s, u, f)

\* A station queues a frame, if there is room, and goes to a state with a timer.
Speaks(s, u, f, state, timer) ==
    /\ Alike(s, u) /\ Len(u.ctrl) < CtrlFrames /\ u.ctrl \in {s.ctrl, Append(s.ctrl, f)}
    /\ u.configuring = s.configuring /\ u.state = state /\ u.timer = timer

\* Queueing a frame changes nothing else.
LEMMA PutSpeaks ==
    ASSUME NEW s \in StationRecord, Len(s.ctrl) < CtrlFrames, NEW f \in CtrlFrame
    PROVE  Speaks(s, Put(s, f), f, s.state, s.timer)
  <1> DEFINE u == Put(s, f)
  <1>1. s \in StationRecord
    OBVIOUS
  <1>2. /\ u \in StationRecord /\ Len(u.ctrl) < CtrlFrames
        /\ u = [s EXCEPT !.ctrl = u.ctrl] /\ u.ctrl \in {s.ctrl, Append(s.ctrl, f)}
    BY PutFields
  <1> HIDE DEF u
  <1>3. /\ u.vs = s.vs /\ u.va = s.va /\ u.vr = s.vr /\ u.info = s.info /\ u.out = s.out
        /\ u.taken = s.taken /\ u.got = s.got /\ u.freed = s.freed /\ u.configuring = s.configuring
        /\ u.state = s.state /\ u.timer = s.timer
    BY ONLY <1>1, <1>2 DEF StationRecord
  <1> QED
    BY <1>2, <1>3 DEF Alike, Speaks, u

\* A frame of data transfer.
LEMMA ReceiveNumbered ==
    ASSUME NEW s, Core(s), NEW f \in LineFrame, Numbered(f), NEW has \in BOOLEAN
    PROVE  Receives(s, lapm_receive(s, f, has), f)
  <1> DEFINE u == lapm_receive(s, f, has)
             t == valid_data_state(s)
  <1>1. s \in StationRecord /\ Len(s.ctrl) < CtrlFrames /\ f.cmd \in BOOLEAN
    BY DEF Core, LineFrame
  <1>a. f.k = "I" => u = receive_information_frame(s, f, has)
    BY DEF lapm_receive, Supervisory, Unnumbered
  <1>b. f.k \in Supervisory =>
            u = IF ~InDataState(s) THEN valid_data_state(s)
                ELSE IF f.cmd THEN rx_supervisory_cmd_frame(t, f, has)
                ELSE rx_supervisory_rsp_frame(t, f)
    <2>1. f.k \in Supervisory => f.k # "I" /\ f.k \notin Unnumbered
      BY DEF Supervisory, Unnumbered
    <2> QED
      BY <2>1 DEF lapm_receive
  <1> HIDE DEF u
  <1>2. CASE ~InDataState(s)
    <2>1. u = t
      <3>1. CASE f.k = "I"
        BY <1>2, <1>a, <3>1 DEF receive_information_frame
      <3>2. CASE f.k \in Supervisory
        BY <1>2, <1>b, <3>2
      <3> QED
        BY <3>1, <3>2 DEF Numbered
    <2>2. CASE s.state = "RELEASE"
      <3>1. t = Idle(s)
        BY <2>2 DEF valid_data_state, Idle
      <3>2. Ending(s, Idle(s), f)
        BY <1>1, <2>2, Idles DEF Ending
      <3> QED
        BY <2>1, <3>1, <3>2 DEF Receives, u
    <2>3. CASE s.state # "RELEASE"
      <3>1. t = s
        BY <1>2, <2>3 DEF valid_data_state, InDataState
      <3>2. Ignoring(s, s, f)
        <4>1. f.k # "UA"
          BY DEF Numbered, Supervisory
        <4> QED
          BY <1>1, <4>1 DEF Ignoring, Alike
      <3> QED
        BY <2>1, <3>1, <3>2 DEF Receives, u
    <2> QED
      BY <2>2, <2>3
  <1>3. CASE InDataState(s)
    <2>1. /\ Core(t) /\ t.state = "DATA"
          /\ \/ s.state = "DATA" /\ t = s
             \/ /\ s.state = "ESTABLISH"
                /\ Reborn(s, t) /\ t.state = "DATA" /\ t.timer = s.timer /\ t.ctrl = <<>>
      <3>1. CASE s.state = "DATA"
        BY <3>1 DEF valid_data_state
      <3>2. CASE s.state = "ESTABLISH"
        <4>1. t = Report([reset_lapm(s) EXCEPT !.state = "DATA"], "CONNECTED")
          BY <3>2 DEF valid_data_state
        <4>2. Reborn(s, t) /\ t.state = "DATA" /\ t.timer = s.timer /\ t.ctrl = <<>>
          BY <1>1, <4>1, Idles
        <4> HIDE DEF t
        <4>3. Timed(t)
          BY <3>2, <4>2 DEF Core, Timed
        <4>4. Buffer(t)
          <5>1. t.taken \in Nat /\ 0 % Mod = 0 /\ K \in Nat /\ t \in StationRecord
            BY <4>2, Fields, WindowFacts, ModSmall DEF Reborn
          <5>2. t.vs - t.va = 0 /\ Len(t.info) = 0 /\ t.out = 0
            BY <4>2 DEF Reborn
          <5> QED
            BY <5>1, <5>2 DEF Buffer
        <4>5. Len(t.ctrl) < CtrlFrames /\ t \in StationRecord
          BY <4>2, WindowFacts DEF Reborn
        <4> QED
          BY <3>2, <4>2, <4>3, <4>4, <4>5 DEF Core
      <3> QED
        BY <1>3, <3>1, <3>2 DEF InDataState
    <2>2. t = valid_data_state(t) /\ InDataState(t)
      <3> HIDE DEF t
      <3> QED
        BY <2>1 DEF valid_data_state, InDataState
    <2>3. CASE f.k = "I"
      <3>1. u = receive_information_frame(s, f, has)
        BY <1>a, <2>3
      <3>2. receive_information_frame(t, f, has) = receive_information_frame(s, f, has)
        <4>1. valid_data_state(s) = valid_data_state(t)
          BY <2>2
        <4> HIDE DEF t
        <4> QED
          BY <1>3, <2>2, <4>1 DEF receive_information_frame
      <3> HIDE DEF t
      <3>3. Handles(t, u, f)
        BY <2>1, <2>3, <3>1, <3>2, InformationHandled
      <3>4. Linking(s, u, f)
        BY <2>1, <3>3 DEF Linking
      <3> QED
        BY <3>4 DEF Receives, u
    <2>4. CASE f.k \in Supervisory
      <3>1. u = IF f.cmd THEN rx_supervisory_cmd_frame(t, f, has) ELSE rx_supervisory_rsp_frame(t, f)
        BY <1>3, <1>b, <2>4
      <3> HIDE DEF t
      <3>2. Handles(t, u, f)
        BY <2>1, <2>4, <3>1, CommandHandled, AnswerHandled
      <3>3. Linking(s, u, f)
        BY <2>1, <3>2 DEF Linking
      <3> QED
        BY <3>3 DEF Receives, u
    <2> QED
      BY <2>3, <2>4 DEF Numbered
  <1> QED
    BY <1>2, <1>3

\* An unnumbered frame.
LEMMA ReceiveUnnumbered ==
    ASSUME NEW s, Core(s), s.configuring => s.state \notin {"ESTABLISH", "DATA"},
           NEW f \in LineFrame, f.k \in Unnumbered, NEW has \in BOOLEAN
    PROVE  Receives(s, lapm_receive(s, f, has), f)
  <1> DEFINE u == lapm_receive(s, f, has)
  <1>1. s \in StationRecord /\ Len(s.ctrl) < CtrlFrames /\ f.cmd \in BOOLEAN /\ f.pf \in BOOLEAN
    BY DEF Core, LineFrame
  <1>2. f.cmd \/ f.k # "UA" \/ s.state # "ESTABLISH" => Ignoring(s, s, f)
    BY <1>1 DEF Ignoring, Alike
  <1>3. CASE f.cmd
    <2>1. u = rx_unnumbered_cmd_frame(s, f)
      BY <1>3 DEF lapm_receive, Unnumbered, Supervisory
    <2> HIDE DEF u
    <2>2. CASE f.k = "SABME"
      <3>1. u = Report(t401_stop_t403_start(tx_unnumbered_frame(
                    [reset_lapm(s) EXCEPT !.state = "DATA"], FALSE, "UA", f.pf)), "CONNECTED")
        BY <2>1, <2>2 DEF rx_unnumbered_cmd_frame
      <3>2. /\ Reborn(s, u) /\ u.state = "DATA" /\ u.timer = "T403"
            /\ u.ctrl = <<Frame("UA", FALSE, f.pf)>>
        BY <1>1, <3>1, AnswersUA
      <3> QED
        BY <2>2, <3>2 DEF Accepting, Receives, u
    <2>3. CASE f.k = "DISC" /\ s.state # "IDLE"
      <3>1. u = Report(t401_stop(tx_unnumbered_frame(
                    [reset_lapm(s) EXCEPT !.state = "IDLE"], FALSE, "UA", f.pf)), "DISCONNECTED")
        BY <2>1, <2>3 DEF rx_unnumbered_cmd_frame
      <3>2. /\ Reborn(s, u) /\ u.state = "IDLE" /\ u.timer = "off"
            /\ u.ctrl = <<Frame("UA", FALSE, f.pf)>>
        BY <1>1, <3>1, AnswersUA, ZenonT(60)
      <3> QED
        BY <2>3, <3>2 DEF Ending, Receives, u
    <2>4. CASE f.k = "DISC" /\ s.state = "IDLE"
      <3> DEFINE g == Frame("DM", FALSE, TRUE)
      <3>1. u = Put(s, g) /\ g \in CtrlFrame
        BY <2>1, <2>4, FramesMade DEF rx_unnumbered_cmd_frame, tx_unnumbered_frame, Unnumbered
      <3> HIDE DEF g
      <3>2. Speaks(s, u, g, s.state, s.timer)
        BY <1>1, <3>1, PutSpeaks
      <3> QED
        BY <2>4, <3>2 DEF Speaks, Ignoring, Receives, g, u
    <2>5. CASE f.k = "XID"
      <3> DEFINE g == Frame("XID", FALSE, FALSE)
      <3>1. u = Put(s, g) /\ g \in CtrlFrame
        BY <2>1, <2>5, FramesMade DEF rx_unnumbered_cmd_frame, transmit_xid, Unnumbered
      <3> HIDE DEF g
      <3>2. Speaks(s, u, g, s.state, s.timer)
        BY <1>1, <3>1, PutSpeaks
      <3> QED
        BY <1>3, <2>5, <3>2 DEF Speaks, Ignoring, Receives, g, u
    <2>6. CASE f.k \in {"UA", "DM"}
      <3>1. u = s
        BY <2>1, <2>6 DEF rx_unnumbered_cmd_frame
      <3> QED
        BY <1>2, <1>3, <3>1 DEF Receives, u
    <2> QED
      BY <2>2, <2>3, <2>4, <2>5, <2>6 DEF Unnumbered
  <1>4. CASE ~f.cmd
    <2>1. u = rx_unnumbered_rsp_frame(s, f)
      BY <1>4 DEF lapm_receive, Unnumbered, Supervisory
    <2> HIDE DEF u
    <2>2. CASE f.k = "DM"
      <3>1. CASE s.state = "IDLE" /\ ~f.pf
        <4>1. u = Report(s, "CONNECTED")
          BY <2>1, <2>2, <3>1 DEF rx_unnumbered_rsp_frame
        <4>2. Alike(s, u) /\ u.state = s.state /\ u.ctrl = s.ctrl
              /\ u.configuring = s.configuring /\ u.timer = s.timer
          BY <1>1, <4>1 DEF Report, Alike, StationRecord
        <4> QED
          BY <1>1, <2>2, <4>2 DEF Ignoring, Receives, u
      <3>2. CASE s.state \in {"ESTABLISH", "RELEASE"} /\ f.pf
        <4>1. u = t401_stop(Idle(s))
          BY <2>1, <2>2, <3>2 DEF rx_unnumbered_rsp_frame
        <4>2. Reborn(s, u) /\ u.state = "IDLE" /\ u.timer = "off" /\ u.ctrl = <<>>
          BY <1>1, <4>1, Idles
        <4>3. Ending(s, u, f)
          BY <2>2, <3>2, <4>2 DEF Ending
        <4> QED
          BY <4>3 DEF Receives, u
      <3>3. CASE s.state = "DATA" /\ (s.retry # 0 \/ ~f.pf)
        <4>1. u = Idle(s)
          BY <2>1, <2>2, <3>3 DEF rx_unnumbered_rsp_frame
        <4> QED
          BY <1>1, <2>2, <3>3, <4>1, Idles DEF Ending, Receives, u
      <3>4. CASE /\ ~ (s.state = "IDLE" /\ ~f.pf)
                 /\ ~ (s.state \in {"ESTABLISH", "RELEASE"} /\ f.pf)
                 /\ ~ (s.state = "DATA" /\ (s.retry # 0 \/ ~f.pf))
        <4>1. u = s
          BY <2>1, <2>2, <3>4 DEF rx_unnumbered_rsp_frame
        <4> QED
          BY <1>2, <2>2, <4>1 DEF Receives, u
      <3> QED
        BY <3>1, <3>2, <3>3, <3>4
    <2>3. CASE f.k = "UA"
      <3>1. CASE s.state = "ESTABLISH"
        <4>1. u = Report(t401_stop_t403_start([reset_lapm(s) EXCEPT !.state = "DATA"]), "CONNECTED")
          BY <2>1, <2>3, <3>1 DEF rx_unnumbered_rsp_frame
        <4> QED
          BY <1>1, <2>3, <3>1, <4>1, Confirms DEF Confirming, Receives, u
      <3>2. CASE s.state = "RELEASE"
        <4>1. u = t401_stop(Idle(s))
          BY <2>1, <2>3, <3>2 DEF rx_unnumbered_rsp_frame
        <4> QED
          BY <1>1, <2>3, <3>2, <4>1, Idles DEF Ending, Receives, u
      <3>3. CASE s.state \notin {"ESTABLISH", "RELEASE"}
        <4>1. u = s
          BY <2>1, <2>3, <3>3 DEF rx_unnumbered_rsp_frame
        <4> QED
          BY <1>2, <3>3, <4>1 DEF Receives, u
      <3> QED
        BY <3>1, <3>2, <3>3
    <2>4. CASE f.k = "XID" /\ s.configuring
      <3> DEFINE c == t401_stop([s EXCEPT !.configuring = FALSE])
      <3>1. u = lapm_connect(c)
        BY <2>1, <2>4 DEF rx_unnumbered_rsp_frame
      <3>2. Alike(s, c) /\ c.state = s.state /\ c.ctrl = s.ctrl /\ c.configuring = FALSE
            /\ c.timer = "off" /\ c \in StationRecord
        <4> DEFINE v == [s EXCEPT !.configuring = FALSE, !.timer = "off", !.retry = 0]
        <4>1. 0 \in 0 .. N400 + 1 /\ "off" \in Timers
          BY WindowFacts DEF Timers
        <4>2. /\ v \in StationRecord
              /\ v.vs = s.vs /\ v.va = s.va /\ v.vr = s.vr /\ v.info = s.info /\ v.out = s.out
              /\ v.taken = s.taken /\ v.got = s.got /\ v.freed = s.freed
              /\ v.state = s.state /\ v.ctrl = s.ctrl /\ v.configuring = FALSE /\ v.timer = "off"
          BY ONLY <1>1, <4>1 DEF StationRecord
        <4>3. c = v
          BY <1>1 DEF t401_stop, StationRecord
        <4> HIDE DEF v, c
        <4> QED
          BY <4>2, <4>3 DEF Alike
      <3> HIDE DEF c
      <3>3. CASE s.state = "IDLE"
        <4>1. Reborn(c, u) /\ u.state = "ESTABLISH" /\ u.timer = "T401"
              /\ u.ctrl = <<Frame("SABME", TRUE, TRUE)>>
          BY <3>1, <3>2, <3>3, Connects
        <4>2. ~c.configuring
          BY <3>2
        <4>3. Asking(s, u, f)
          BY <1>4, <2>4, <3>2, <3>3, <4>1, <4>2 DEF Asking
        <4> QED
          BY <4>3 DEF Receives, u
      <3>4. CASE s.state # "IDLE"
        <4>1. u = c
          BY <3>1, <3>2, <3>4 DEF lapm_connect
        <4>2. s.state \notin {"IDLE", "ESTABLISH", "DATA"}
          BY <2>4, <3>4
        <4>3. ~u.configuring /\ Alike(s, u) /\ u.state = s.state /\ u.ctrl = s.ctrl /\ u.timer = "off"
          BY <3>2, <4>1
        <4>4. Ignoring(s, u, f)
          BY <1>1, <1>4, <2>4, <4>2, <4>3 DEF Ignoring
        <4> QED
          BY <4>4 DEF Receives, u
      <3> QED
        BY <3>3, <3>4
    <2>5. CASE f.k \in {"SABME", "DISC"} \/ (f.k = "XID" /\ ~s.configuring)
      <3>1. u = s
        BY <2>1, <2>5 DEF rx_unnumbered_rsp_frame
      <3> QED
        BY <1>2, <2>5, <3>1 DEF Receives, u
    <2> QED
      BY <2>2, <2>3, <2>4, <2>5 DEF Unnumbered
  <1> QED
    BY <1>1, <1>3, <1>4

-----------------------------------------------------------------------------
(* The numbers of frames.                                                   *)

\* The number of frame m, if it is in the buffer or to come.
Place(s, m) == (s.va + (m - Base(s) - 1)) % Mod

\* Frames that are still in the buffer keep their numbers.
Evolves(s, u) ==
    /\ u.taken >= s.taken
    /\ \A m \in Nat : m <= s.taken /\ m > Base(u) => m > Base(s) /\ Place(u, m) = Place(s, m)

\* What the caller sends and the answerer does not.
AnswererFrame(f) == f.k # "SABME" /\ (f.k = "XID" => ~f.cmd)

\* The caller agrees parameters before it asks for a link, the answerer neither.
Role(x, s) ==
    /\ x = Caller => (s.configuring \/ s.timer = "start" => s.state \notin {"ESTABLISH", "DATA"})
    /\ x = Answerer =>
          /\ ~s.configuring /\ s.timer # "start" /\ s.state # "ESTABLISH"
          /\ \A i \in 1 .. Len(s.ctrl) : AnswererFrame(s.ctrl[i])

\* What a station keeps by itself.
Own(x, s) == Core(s) /\ Role(x, s)

\* What a station has sent agrees with its buffer.
Sent(x, s, q) ==
    /\ q \in Seq(LineFrame) /\ Len(q) <= LineCap
    /\ x = Answerer => \A i \in 1 .. Len(q) : AnswererFrame(q[i])
    /\ \A i \in 1 .. Len(q) :
          q[i].k = "I" => q[i].msg <= s.taken /\ (q[i].msg > Base(s) => q[i].ns = Place(s, q[i].msg))

\* The part of the invariant that needs no more than one station.
OwnInv ==
    /\ st \in [Station -> StationRecord] /\ line \in [Station -> Seq(LineFrame)]
    /\ losses \in 0 .. MaxLoss
    /\ \A x \in Station : Own(x, st[x]) /\ Sent(x, st[x], line[Peer(x)])

\* Two stations.
LEMMA Peers ==
    /\ Caller # Answerer
    /\ \A x \in Station : Peer(x) \in Station /\ Peer(x) # x /\ Peer(Peer(x)) = x
  BY LapmAssumption DEF Station, Peer

\* Frames keep their numbers over two changes.
LEMMA EvolvesTwice ==
    ASSUME NEW s \in StationRecord, NEW u \in StationRecord, NEW v \in StationRecord,
           Evolves(s, u), Evolves(u, v)
    PROVE  Evolves(s, v)
  <1>1. s.taken \in Nat /\ u.taken \in Nat /\ v.taken \in Nat
    BY Fields
  <1>2. u.taken >= s.taken /\ v.taken >= u.taken
    BY DEF Evolves
  <1>3. ASSUME NEW m \in Nat, m <= s.taken, m > Base(v)
        PROVE  m > Base(s) /\ Place(v, m) = Place(s, m)
    <2>1. m <= u.taken
      BY <1>1, <1>2, <1>3
    <2>2. m > Base(u) /\ Place(v, m) = Place(u, m)
      BY <1>3, <2>1 DEF Evolves
    <2> QED
      BY <1>3, <2>2 DEF Evolves
  <1> QED
    BY <1>1, <1>2, <1>3 DEF Evolves

\* Frames keep their numbers when none is let go.
LEMMA EvolvesSame ==
    ASSUME NEW s \in StationRecord, NEW u, u.taken = s.taken, u.va = s.va, Base(u) = Base(s)
    PROVE  Evolves(s, u)
  <1>1. s.taken \in Nat
    BY Fields
  <1> QED
    BY <1>1 DEF Evolves, Place

\* And when some are.
LEMMA MovesEvolve ==
    ASSUME NEW s, NEW u, NEW n, Core(s), Moves(s, u, n)
    PROVE  Evolves(s, u)
  <1>1. s \in StationRecord /\ u \in StationRecord
    BY DEF Moves, Core
  <1>2. Base(s) \in Int /\ Base(u) \in Int /\ s.taken \in Nat /\ u.taken \in Nat /\ s.va \in Int
    BY <1>1, Fields
  <1>3. Base(u) >= Base(s) /\ u.taken >= s.taken /\ u.va = (s.va + (Base(u) - Base(s))) % Mod
    BY DEF Moves
  <1>4. ASSUME NEW m \in Nat, m > Base(u)
        PROVE  m > Base(s) /\ Place(u, m) = Place(s, m)
    <2> DEFINE a == s.va + (Base(u) - Base(s))
               b == m - Base(u) - 1
    <2>1. a \in Int /\ b \in Int /\ Mod \in Nat \ {0} /\ m > Base(s)
      BY <1>2, <1>3, <1>4, WindowFacts
    <2>2. a + b = s.va + (m - Base(s) - 1)
      BY <1>2
    <2>3. Place(u, m) = ((a % Mod) + b) % Mod
      BY <1>3 DEF Place
    <2> HIDE DEF a, b
    <2>4. ((a % Mod) + b) % Mod = (a + b) % Mod
      BY <2>1, ModAdd
    <2> QED
      BY <2>1, <2>2, <2>3, <2>4 DEF Place
  <1> QED
    BY <1>3, <1>4 DEF Evolves

\* A link that begins or ends has no frames to send again.
LEMMA RebornOwn ==
    ASSUME NEW s, Core(s), NEW u, Reborn(s, u)
    PROVE  /\ Buffer(u) /\ Base(u) = s.taken /\ Evolves(s, u)
           /\ u \in StationRecord /\ Base(u) >= Base(s)
  <1>1. s \in StationRecord /\ u \in StationRecord /\ Buffer(s)
    BY DEF Core, Reborn
  <1>2. s.taken \in Nat /\ Len(s.info) \in Nat /\ 0 % Mod = 0 /\ K \in Nat
    BY <1>1, Fields, WindowFacts, ModSmall
  <1>3. u.vs - u.va = 0 /\ Len(u.info) = 0 /\ u.out = 0 /\ u.taken = s.taken
    BY DEF Reborn
  <1>4. Base(u) = s.taken /\ Base(s) <= s.taken
    BY <1>2, <1>3 DEF Base
  <1>5. Buffer(u)
    BY <1>2, <1>3 DEF Buffer
  <1>6. Evolves(s, u)
    BY <1>2, <1>3, <1>4 DEF Evolves
  <1> QED
    BY <1>1, <1>4, <1>5, <1>6

\* Nor does anything else change them.
LEMMA AlikeOwn ==
    ASSUME NEW s, Core(s), NEW u, Alike(s, u)
    PROVE  Buffer(u) /\ Base(u) = Base(s) /\ Evolves(s, u) /\ u \in StationRecord
  <1>1. s \in StationRecord /\ Buffer(s) /\ u \in StationRecord
    BY DEF Core, Alike
  <1>2. Base(u) = Base(s)
    BY DEF Alike, Base
  <1>3. Buffer(u)
    BY <1>1, <1>2 DEF Buffer, Alike
  <1>4. Evolves(s, u)
    BY <1>1, <1>2, EvolvesSame DEF Alike
  <1> QED
    BY <1>1, <1>2, <1>3, <1>4

\* What was sent stays in agreement with a buffer that evolves.
LEMMA SentEvolves ==
    ASSUME NEW x, NEW s \in StationRecord, NEW u \in StationRecord, NEW q, Sent(x, s, q), Evolves(s, u)
    PROVE  Sent(x, u, q)
  <1>1. s.taken \in Nat /\ u.taken \in Nat /\ u.taken >= s.taken
    BY Fields DEF Evolves
  <1>2. q \in Seq(LineFrame)
    BY DEF Sent
  <1>3. ASSUME NEW i \in 1 .. Len(q), q[i].k = "I"
        PROVE  q[i].msg <= u.taken /\ (q[i].msg > Base(u) => q[i].ns = Place(u, q[i].msg))
    <2>1. q[i] \in LineFrame
      BY ONLY <1>2, i \in 1 .. Len(q), ElementOfSeq
    <2>2. q[i].msg \in Nat
      BY <2>1 DEF LineFrame
    <2>3. q[i].msg <= s.taken /\ (q[i].msg > Base(s) => q[i].ns = Place(s, q[i].msg))
      BY <1>3 DEF Sent
    <2>4. q[i].msg <= u.taken
      BY <1>1, <2>2, <2>3
    <2> QED
      BY <2>2, <2>3, <2>4 DEF Evolves
  <1> QED
    BY <1>3 DEF Sent

\* What a link says is no surprise to the caller.
LEMMA SaidFrames ==
    ASSUME NEW vr, NEW f \in Said(vr)
    PROVE  AnswererFrame(f) /\ f.k # "I"
  BY DEF Said, AnswererFrame, Supervisory, CtrlFrame

\* A station does not step out of its role by what a link does.
LEMMA MovesOwn ==
    ASSUME NEW x \in Station, NEW s, Own(x, s), s.state # "ESTABLISH", NEW u, NEW n, Moves(s, u, n)
    PROVE  Own(x, u)
  <1>1. Core(u) /\ u.configuring = s.configuring /\ u.state \in {s.state, "RELEASE"}
        /\ u.timer \in {s.timer, "T401", "T403"}
    BY DEF Moves
  <1>2. ASSUME x = Answerer
        PROVE  \A i \in 1 .. Len(u.ctrl) : AnswererFrame(u.ctrl[i])
    <2>1. PICK w \in Seq(Said(s.vr)) : u.ctrl = s.ctrl \o w
      BY DEF Moves
    <2> DEFINE c == s.ctrl
    <2>2. c \in Seq(CtrlFrame) /\ w \in Seq(CtrlFrame) /\ \A i \in 1 .. Len(c) : AnswererFrame(c[i])
      <3>1. Said(s.vr) \subseteq CtrlFrame
        BY DEF Said
      <3> QED
        BY <1>2, <3>1, Fields DEF Own, Core, Role
    <2>3. \A i \in 1 .. Len(w) : AnswererFrame(w[i])
      <3>1. ASSUME NEW i \in 1 .. Len(w) PROVE w[i] \in Said(s.vr)
        BY ElementOfSeq
      <3> QED
        BY <3>1, SaidFrames
    <2> HIDE DEF c
    <2>4. \A i \in 1 .. Len(c \o w) : AnswererFrame((c \o w)[i])
      BY ONLY <2>2, <2>3
    <2> QED
      BY <2>1, <2>4 DEF c
  <1>3. Role(x, s)
    BY DEF Own
  <1> QED
    BY <1>1, <1>2, <1>3 DEF Own, Role

\* A frame in its place leaves the station in its role.
LEMMA ReceiveOwn ==
    ASSUME NEW x \in Station, NEW s, Own(x, s), NEW f \in LineFrame,
           x = Caller => AnswererFrame(f), NEW u, Receives(s, u, f)
    PROVE  Own(x, u) /\ Evolves(s, u)
  <1>1. Core(s) /\ Role(x, s) /\ s \in StationRecord /\ Timed(s) /\ Len(s.ctrl) < CtrlFrames
    BY DEF Own, Core
  <1>2. s.state = "ESTABLISH" \/ s.configuring => x = Caller
    BY <1>1 DEF Role, Station
  <1>3. ASSUME NEW pf \in BOOLEAN, u.ctrl = <<>> \/ u.ctrl = <<Frame("UA", FALSE, pf)>>
        PROVE  Len(u.ctrl) < CtrlFrames /\ \A i \in 1 .. Len(u.ctrl) : AnswererFrame(u.ctrl[i])
    <2>1. CASE u.ctrl = <<>>
      BY <2>1, WindowFacts
    <2>2. CASE u.ctrl = <<Frame("UA", FALSE, pf)>>
      <3> DEFINE g == Frame("UA", FALSE, pf)
      <3>1. AnswererFrame(g)
        BY DEF AnswererFrame, Frame
      <3>2. u.ctrl = <<g>>
        BY <2>2
      <3> HIDE DEF g
      <3>3. Len(<<g>>) = 1 /\ <<g>>[1] = g
        OBVIOUS
      <3>4. 1 < CtrlFrames
        BY WindowFacts
      <3>5. \A i \in 1 .. Len(<<g>>) : AnswererFrame(<<g>>[i])
        <4>1. \A i \in 1 .. Len(<<g>>) : i = 1
          BY <3>3
        <4> QED
          BY <3>1, <3>3, <4>1
      <3> QED
        BY <3>2, <3>3, <3>4, <3>5
    <2> QED
      BY <1>3, <2>1, <2>2
  <1>4. f.pf \in BOOLEAN
    BY DEF LineFrame
  <1>5. CASE Linking(s, u, f)
    <2>1. PICK t : /\ \/ s.state = "DATA" /\ t = s
                      \/ /\ s.state = "ESTABLISH"
                         /\ Reborn(s, t) /\ t.state = "DATA" /\ t.timer = s.timer /\ t.ctrl = <<>>
                   /\ Handles(t, u, f)
      BY <1>5 DEF Linking
    <2>2. Own(x, t) /\ Evolves(s, t) /\ t.state = "DATA"
      <3>1. CASE s.state = "DATA" /\ t = s
        BY <1>1, <3>1, EvolvesSame
      <3>2. CASE /\ s.state = "ESTABLISH"
                 /\ Reborn(s, t) /\ t.state = "DATA" /\ t.timer = s.timer /\ t.ctrl = <<>>
        <4>1. Buffer(t) /\ Evolves(s, t) /\ t \in StationRecord /\ t.configuring = s.configuring
          BY <1>1, <3>2, RebornOwn DEF Reborn
        <4>2. Timed(t)
          BY <1>1, <3>2 DEF Timed
        <4>3. Len(t.ctrl) < CtrlFrames
          BY <3>2, WindowFacts
        <4>4. Role(x, t)
          BY <1>1, <1>2, <3>2, <4>1, Peers DEF Role
        <4> QED
          BY <3>2, <4>1, <4>2, <4>3, <4>4 DEF Own, Core
      <3> QED
        BY <2>1, <3>1, <3>2
    <2>3. PICK a, d : /\ Moves(t, a, (f.nr - t.va) % Mod)
                      /\ d = a \/ (f.k = "I" /\ f.ns = a.vr /\ d = HandedOver(a, f))
                      /\ Moves(d, u, 0)
      BY <2>1 DEF Handles
    <2>4. Own(x, a) /\ Evolves(t, a) /\ a.state # "ESTABLISH"
      BY <2>2, <2>3, MovesOwn, MovesEvolve, MovesFacts DEF Own
    <2>5. Own(x, d) /\ Evolves(a, d) /\ d.state # "ESTABLISH"
      <3>1. CASE d = a
        BY <2>4, <3>1, EvolvesSame DEF Own, Core
      <3>2. CASE d = HandedOver(a, f)
        <4>1. /\ Core(d) /\ d.ctrl = a.ctrl /\ d.configuring = a.configuring
              /\ d.state = a.state /\ d.timer = a.timer
              /\ d.taken = a.taken /\ d.va = a.va /\ Base(d) = Base(a)
          BY <2>4, <3>2, HandedOverFields DEF Own
        <4>2. Role(x, d)
          BY <2>4, <4>1 DEF Own, Role
        <4> QED
          BY <2>4, <4>1, <4>2, EvolvesSame DEF Own, Core
      <3> QED
        BY <2>3, <3>1, <3>2
    <2>6. Own(x, u) /\ Evolves(d, u)
      BY <2>3, <2>5, MovesOwn, MovesEvolve DEF Own
    <2>7. t \in StationRecord /\ a \in StationRecord /\ d \in StationRecord /\ u \in StationRecord
      BY <2>2, <2>4, <2>5, <2>6 DEF Own, Core
    <2>8. Evolves(s, a)
      BY <1>1, <2>2, <2>4, <2>7, EvolvesTwice
    <2>9. Evolves(s, d)
      BY <1>1, <2>5, <2>7, <2>8, EvolvesTwice
    <2> QED
      BY <1>1, <2>6, <2>7, <2>9, EvolvesTwice
  <1>6. ASSUME Reborn(s, u), u.ctrl = <<>> \/ u.ctrl = <<Frame("UA", FALSE, f.pf)>>, Timed(u),
               x = Caller => (u.configuring \/ u.timer = "start" => u.state \notin {"ESTABLISH", "DATA"}),
               x = Answerer => u.timer # "start" /\ u.state # "ESTABLISH"
        PROVE  Own(x, u) /\ Evolves(s, u)
    <2>1. Buffer(u) /\ Evolves(s, u) /\ u \in StationRecord /\ u.configuring = s.configuring
      BY <1>1, <1>6, RebornOwn DEF Reborn
    <2>2. Len(u.ctrl) < CtrlFrames /\ \A i \in 1 .. Len(u.ctrl) : AnswererFrame(u.ctrl[i])
      BY <1>3, <1>4, <1>6
    <2>3. Role(x, u)
      BY <1>1, <1>6, <2>1, <2>2 DEF Role
    <2> QED
      BY <1>6, <2>1, <2>2, <2>3 DEF Own, Core
  <1>7. CASE Ending(s, u, f)
    <2>1. Reborn(s, u) /\ u.state = "IDLE" /\ u.timer \in {s.timer, "off"}
          /\ (u.ctrl = <<>> \/ u.ctrl = <<Frame("UA", FALSE, f.pf)>>)
      BY <1>7 DEF Ending
    <2>2. Timed(u)
      BY <2>1 DEF Timed
    <2> QED
      BY <1>1, <1>6, <2>1, <2>2 DEF Role
  <1>8. CASE Accepting(s, u, f)
    <2>1. Reborn(s, u) /\ u.state = "DATA" /\ u.timer = "T403" /\ u.ctrl = <<Frame("UA", FALSE, f.pf)>>
      BY <1>8 DEF Accepting
    <2>2. Timed(u)
      BY <2>1 DEF Timed
    <2>3. x # Caller
      BY <1>8 DEF Accepting, AnswererFrame
    <2> QED
      BY <1>6, <2>1, <2>2, <2>3
  <1>9. CASE Confirming(s, u, f)
    <2>1. Reborn(s, u) /\ u.state = "DATA" /\ u.timer = "T403" /\ u.ctrl = <<>> /\ s.state = "ESTABLISH"
      BY <1>9 DEF Confirming
    <2>2. Timed(u)
      BY <2>1 DEF Timed
    <2>3. ~u.configuring
      BY <1>1, <1>2, <2>1 DEF Role, Reborn
    <2> QED
      BY <1>6, <2>1, <2>2, <2>3
  <1>10. CASE Asking(s, u, f)
    <2>1. PICK c : Alike(s, c) /\ ~c.configuring /\ Reborn(c, u)
      BY <1>10 DEF Asking
    <2>2. /\ u.state = "ESTABLISH" /\ u.timer = "T401" /\ u.ctrl = <<Frame("SABME", TRUE, TRUE)>>
          /\ s.configuring
      BY <1>10 DEF Asking
    <2>3. Reborn([s EXCEPT !.configuring = FALSE], u) /\ ~u.configuring
          /\ Core([s EXCEPT !.configuring = FALSE]) /\ u.taken = s.taken
      <3> DEFINE v == [s EXCEPT !.configuring = FALSE]
      <3>1. /\ v \in StationRecord /\ v.configuring = FALSE
            /\ v.vs = s.vs /\ v.va = s.va /\ v.vr = s.vr /\ v.info = s.info /\ v.out = s.out
            /\ v.taken = s.taken /\ v.got = s.got /\ v.freed = s.freed /\ v.ctrl = s.ctrl
            /\ v.state = s.state /\ v.timer = s.timer
        BY ONLY <1>1 DEF StationRecord
      <3> HIDE DEF v
      <3>2. Base(v) = Base(s)
        BY <3>1 DEF Base
      <3>3. Buffer(v) /\ Timed(v)
        BY <1>1, <3>1, <3>2 DEF Core, Buffer, Timed
      <3>4. Core(v)
        BY <1>1, <3>1, <3>3 DEF Core
      <3>5. u.configuring = FALSE /\ c.configuring = FALSE
        BY <2>1 DEF Reborn, StationRecord
      <3> QED
        BY <2>1, <3>1, <3>4, <3>5 DEF Reborn, Alike, v
    <2>4. Buffer(u) /\ Base(u) = s.taken /\ u \in StationRecord
      <3> DEFINE v == [s EXCEPT !.configuring = FALSE]
      <3>1. v.taken = s.taken
        BY <1>1 DEF StationRecord
      <3> HIDE DEF v
      <3>2. Reborn(v, u) /\ Core(v)
        BY <2>3 DEF v
      <3> QED
        BY <3>1, <3>2, RebornOwn
    <2>5. Evolves(s, u)
      BY <1>1, <2>3, <2>4, Fields DEF Evolves
    <2>6. Timed(u) /\ Len(u.ctrl) < CtrlFrames
      BY <2>2, WindowFacts DEF Timed
    <2>7. Role(x, u)
      BY <1>2, <2>2, <2>3, Peers DEF Role
    <2> QED
      BY <2>4, <2>5, <2>6, <2>7 DEF Own, Core
  <1>11. CASE Ignoring(s, u, f)
    <2>1. Alike(s, u) /\ u.state = s.state /\ Len(u.ctrl) < CtrlFrames
          /\ \/ /\ u.configuring = s.configuring /\ u.timer = s.timer
             \/ /\ s.configuring /\ ~u.configuring /\ u.timer = "off"
                /\ s.state \notin {"ESTABLISH", "DATA"}
      BY <1>11 DEF Ignoring
    <2>2. Buffer(u) /\ Evolves(s, u) /\ u \in StationRecord
      BY <1>1, <2>1, AlikeOwn
    <2>3. Timed(u)
      BY <1>1, <2>1 DEF Timed
    <2>4. ASSUME x = Answerer
          PROVE  \A i \in 1 .. Len(u.ctrl) : AnswererFrame(u.ctrl[i])
      <3> DEFINE c == s.ctrl
      <3>1. c \in Seq(CtrlFrame) /\ \A i \in 1 .. Len(c) : AnswererFrame(c[i])
        BY <1>1, <2>4, Fields DEF Role
      <3>2. AnswererFrame(Frame("DM", FALSE, TRUE)) /\ AnswererFrame(Frame("XID", FALSE, FALSE))
        BY DEF AnswererFrame, Frame
      <3>3. u.ctrl \in {c, Append(c, Frame("DM", FALSE, TRUE)), Append(c, Frame("XID", FALSE, FALSE))}
        BY <1>11 DEF Ignoring
      <3> HIDE DEF c
      <3>4. ASSUME NEW g, AnswererFrame(g)
            PROVE  \A i \in 1 .. Len(Append(c, g)) : AnswererFrame(Append(c, g)[i])
        BY <3>1, <3>4
      <3> QED
        BY <3>1, <3>2, <3>3, <3>4
    <2>5. Role(x, u)
      BY <1>1, <1>2, <2>1, <2>4, Peers DEF Role
    <2> QED
      BY <2>1, <2>2, <2>3, <2>5 DEF Own, Core
  <1> QED
    BY <1>5, <1>7, <1>8, <1>9, <1>10, <1>11 DEF Receives

-----------------------------------------------------------------------------
(* What a station does by itself.                                           *)

\* Timers, reports and states are not part of the link.
LEMMA AlikeSteps ==
    ASSUME NEW s \in StationRecord
    PROVE  /\ LET u == [s EXCEPT !.timer = "off", !.retry = 0]
              IN  Alike(s, u) /\ u.ctrl = s.ctrl /\ u.configuring = s.configuring
                  /\ u.state = s.state /\ u.timer = "off"
           /\ LET u == t401_start(s)
              IN  Alike(s, u) /\ u.ctrl = s.ctrl /\ u.configuring = s.configuring
                  /\ u.state = s.state /\ u.timer = "T401"
           /\ LET u == [s EXCEPT !.state = "RELEASE"]
              IN  Alike(s, u) /\ u.ctrl = s.ctrl /\ u.configuring = s.configuring
                  /\ u.state = "RELEASE" /\ u.timer = s.timer
  <1>1. /\ s \in StationRecord /\ 0 \in 0 .. N400 + 1
        /\ "off" \in Timers /\ "T401" \in Timers /\ "RELEASE" \in States
    BY WindowFacts DEF Timers, States
  <1>2. LET u == [s EXCEPT !.timer = "off", !.retry = 0]
        IN  Alike(s, u) /\ u.ctrl = s.ctrl /\ u.configuring = s.configuring
            /\ u.state = s.state /\ u.timer = "off"
    BY ONLY <1>1 DEF StationRecord, Alike
  <1>3. LET u == t401_start(s)
        IN  Alike(s, u) /\ u.ctrl = s.ctrl /\ u.configuring = s.configuring
            /\ u.state = s.state /\ u.timer = "T401"
    BY ONLY <1>1 DEF StationRecord, Alike, t401_start
  <1>4. LET u == [s EXCEPT !.state = "RELEASE"]
        IN  Alike(s, u) /\ u.ctrl = s.ctrl /\ u.configuring = s.configuring
            /\ u.state = "RELEASE" /\ u.timer = s.timer
    BY ONLY <1>1 DEF StationRecord, Alike
  <1> QED
    BY <1>2, <1>3, <1>4

\* A change of what is not part of the link, around a frame that is queued.
LEMMA SpeaksBetween ==
    ASSUME NEW s \in StationRecord, NEW t, NEW u, NEW v, NEW f, NEW p, NEW q,
           Alike(s, t), t.ctrl = s.ctrl, t.configuring = s.configuring,
           Speaks(t, u, f, t.state, t.timer),
           Alike(u, v), v.ctrl = u.ctrl, v.configuring = u.configuring, v.state = p, v.timer = q
    PROVE  Speaks(s, v, f, p, q)
  BY DEF Speaks, Alike

\* Release is asked for.
LEMMA DisconnectSpeaks ==
    ASSUME NEW s \in StationRecord, Len(s.ctrl) < CtrlFrames
    PROVE  Speaks(s, lapm_disconnect(s), Frame("DISC", TRUE, TRUE), "RELEASE", "T401")
  <1> DEFINE f == Frame("DISC", TRUE, TRUE)
             t == [s EXCEPT !.state = "RELEASE"]
             u == Put(t, f)
             v == t401_start(u)
  <1>1. Alike(s, t) /\ t.ctrl = s.ctrl /\ t.configuring = s.configuring /\ t.state = "RELEASE"
    BY AlikeSteps
  <1>2. f \in CtrlFrame
    BY FramesMade DEF Unnumbered
  <1>3. lapm_disconnect(s) = v
    BY DEF lapm_disconnect, tx_unnumbered_frame
  <1> HIDE DEF f, t
  <1>4. Speaks(t, u, f, t.state, t.timer)
    BY <1>1, <1>2, PutSpeaks DEF Alike
  <1> HIDE DEF u
  <1>5. u \in StationRecord /\ u.state = "RELEASE"
    BY <1>1, <1>4 DEF Speaks, Alike
  <1>6. Alike(u, v) /\ v.ctrl = u.ctrl /\ v.configuring = u.configuring
        /\ v.state = "RELEASE" /\ v.timer = "T401"
    BY <1>5, AlikeSteps
  <1> HIDE DEF v
  <1>7. Speaks(s, v, f, "RELEASE", "T401")
    BY <1>1, <1>4, <1>6, SpeaksBetween
  <1> QED
    BY <1>3, <1>7 DEF f

\* What the timer T_401 does.
Expires(s, u) ==
    \/ Speaks(s, u, Frame("DISC", TRUE, TRUE), "RELEASE", "T401") /\ s.state \in {"DATA", "RELEASE"}
    \/ Speaks(s, u, Frame("XID", TRUE, FALSE), s.state, s.timer) /\ s.configuring
    \/ /\ Speaks(s, u, Frame("SABME", TRUE, TRUE), s.state, s.timer)
       /\ ~s.configuring /\ s.state = "ESTABLISH"
    \/ /\ \E f \in Said(s.vr) : Speaks(s, u, f, s.state, s.timer)
       /\ ~s.configuring /\ s.state = "DATA"
    \/ /\ Alike(s, u) /\ u.ctrl = s.ctrl /\ u.configuring = s.configuring
       /\ \/ u.state = s.state /\ u.timer = s.timer
          \/ s.state \in {"ESTABLISH", "RELEASE"} /\ u.state = "IDLE" /\ u.timer = "off"
          \/ s.state \notin {"ESTABLISH", "DATA"} /\ u.state = s.state /\ u.timer = "off"

\* Giving up is no part of the link but where release is asked for.
LEMMA GiveUpExpires ==
    ASSUME NEW s, Core(s)
    PROVE  Expires(s, GiveUp(s))
  <1> DEFINE z == [s EXCEPT !.timer = "off", !.retry = 0]
  <1>1. s \in StationRecord /\ Len(s.ctrl) < CtrlFrames
    BY DEF Core
  <1>2. /\ Alike(s, z) /\ z.ctrl = s.ctrl /\ z.configuring = s.configuring
        /\ z.state = s.state /\ z.timer = "off"
    BY <1>1, AlikeSteps
  <1>3. CASE s.state \in {"ESTABLISH", "RELEASE"}
    <2> DEFINE u == Report([z EXCEPT !.state = "IDLE"], "DISCONNECTED")
    <2>1. GiveUp(s) = u
      BY <1>3 DEF GiveUp
    <2> HIDE DEF z
    <2>2. z \in StationRecord /\ "IDLE" \in States
      BY <1>2 DEF Alike, States
    <2>3. Alike(z, u) /\ u.ctrl = z.ctrl /\ u.configuring = z.configuring
          /\ u.state = "IDLE" /\ u.timer = z.timer
      BY ONLY <2>2 DEF StationRecord, Alike, Report
    <2> HIDE DEF u
    <2>4. Alike(s, u)
      BY <1>2, <2>3 DEF Alike
    <2> QED
      BY <1>2, <1>3, <2>1, <2>3, <2>4 DEF Expires
  <1>4. CASE s.state = "DATA"
    <2> DEFINE u == lapm_disconnect(z)
    <2>1. GiveUp(s) = u
      BY <1>4 DEF GiveUp
    <2> HIDE DEF z
    <2>2. Speaks(z, u, Frame("DISC", TRUE, TRUE), "RELEASE", "T401")
      BY <1>1, <1>2, DisconnectSpeaks DEF Alike
    <2> HIDE DEF u
    <2>3. Speaks(s, u, Frame("DISC", TRUE, TRUE), "RELEASE", "T401")
      BY <1>2, <2>2 DEF Speaks, Alike
    <2> QED
      BY <1>4, <2>1, <2>3 DEF Expires
  <1>5. CASE s.state \notin {"ESTABLISH", "RELEASE", "DATA"}
    <2>1. GiveUp(s) = z
      BY <1>5 DEF GiveUp
    <2> QED
      BY <1>2, <1>5, <2>1 DEF Expires
  <1> QED
    BY <1>3, <1>4, <1>5

\* Nor is asking again.
LEMMA AskAgainExpires ==
    ASSUME NEW s, Core(s), s.timer = "T401", s.retry + 1 \in 0 .. N400 + 1
    PROVE  Expires(s, AskAgain([s EXCEPT !.retry = @ + 1]))
  <1> DEFINE n == s.retry + 1
             z == [s EXCEPT !.retry = n]
             u == AskAgain(z)
  <1>1. s \in StationRecord /\ Len(s.ctrl) < CtrlFrames
    BY DEF Core
  <1>2. n \in 0 .. N400 + 1
    OBVIOUS
  <1>a. AskAgain([s EXCEPT !.retry = @ + 1]) = u
    OBVIOUS
  <1> HIDE DEF n
  <1>3. /\ Alike(s, z) /\ z.ctrl = s.ctrl /\ z.configuring = s.configuring
        /\ z.state = s.state /\ z.timer = s.timer /\ z.vr = s.vr /\ z \in StationRecord
    BY ONLY <1>1, <1>2 DEF StationRecord, Alike
  <1> HIDE DEF z
  <1>b. Alike(s, z) /\ z.ctrl = s.ctrl /\ z.configuring = s.configuring
    BY <1>3
  <1>4. ASSUME NEW f \in CtrlFrame
        PROVE  Speaks(s, Put(z, f), f, s.state, s.timer)
    <2>1. Speaks(z, Put(z, f), f, z.state, z.timer)
      BY <1>1, <1>3, PutSpeaks
    <2> QED
      BY <1>3, <2>1 DEF Speaks, Alike
  <1>5. CASE s.configuring
    <2>1. u = Put(z, Frame("XID", TRUE, FALSE))
      BY <1>3, <1>5 DEF AskAgain, transmit_xid
    <2>2. Frame("XID", TRUE, FALSE) \in CtrlFrame
      BY FramesMade DEF Unnumbered
    <2> QED
      BY <1>a, <1>4, <1>5, <2>1, <2>2 DEF Expires
  <1>6. CASE ~s.configuring /\ s.state = "ESTABLISH"
    <2>1. u = Put(z, Frame("SABME", TRUE, TRUE))
      BY <1>3, <1>6 DEF AskAgain, tx_unnumbered_frame
    <2>2. Frame("SABME", TRUE, TRUE) \in CtrlFrame
      BY FramesMade DEF Unnumbered
    <2> QED
      BY <1>a, <1>4, <1>6, <2>1, <2>2 DEF Expires
  <1>7. CASE ~s.configuring /\ s.state = "RELEASE"
    <2>1. u = Put(z, Frame("DISC", TRUE, TRUE))
      BY <1>3, <1>7 DEF AskAgain, tx_unnumbered_frame
    <2>2. Frame("DISC", TRUE, TRUE) \in CtrlFrame
      BY FramesMade DEF Unnumbered
    <2>3. Speaks(s, u, Frame("DISC", TRUE, TRUE), s.state, s.timer)
      BY <1>4, <2>1, <2>2
    <2> QED
      BY <1>a, <1>7, <2>3 DEF Expires
  <1>8. CASE ~s.configuring /\ s.state = "DATA"
    <2> DEFINE f == [Frame(Ready(z), TRUE, TRUE) EXCEPT !.nr = s.vr]
    <2>1. u = Put(z, f)
      BY <1>3, <1>8 DEF AskAgain, tx_supervisory_frame
    <2>2. Ready(z) \in Supervisory /\ s.vr \in Number
      BY <1>1, Fields DEF Ready, Supervisory
    <2>3. f \in Said(s.vr)
      BY <2>2, FramesMade
    <2>4. f \in CtrlFrame
      BY <2>3 DEF Said
    <2> HIDE DEF f
    <2>5. Speaks(s, u, f, s.state, s.timer)
      BY <1>4, <2>1, <2>4
    <2> QED
      BY <1>a, <1>8, <2>3, <2>5 DEF Expires
  <1>9. CASE ~s.configuring /\ s.state \notin {"ESTABLISH", "RELEASE", "DATA"}
    <2>1. u = z
      BY <1>3, <1>9 DEF AskAgain
    <2> QED
      BY <1>3, <1>a, <2>1 DEF Expires
  <1>10. s.configuring \in BOOLEAN
    BY <1>1, Fields
  <1> QED
    BY <1>5, <1>6, <1>7, <1>8, <1>9, <1>10

\* A change that is no part of the link, in its role.
LEMMA AlikeStaysOwn ==
    ASSUME NEW x \in Station, NEW s, Own(x, s), NEW u, Alike(s, u), Len(u.ctrl) < CtrlFrames,
           Timed(u),
           x = Caller => (u.configuring \/ u.timer = "start" => u.state \notin {"ESTABLISH", "DATA"}),
           x = Answerer => /\ ~u.configuring /\ u.timer # "start" /\ u.state # "ESTABLISH"
                           /\ \A i \in 1 .. Len(u.ctrl) : AnswererFrame(u.ctrl[i])
    PROVE  Own(x, u) /\ Evolves(s, u)
  <1>1. Core(s)
    BY DEF Own
  <1>2. Buffer(u) /\ Evolves(s, u) /\ u \in StationRecord
    BY <1>1, AlikeOwn
  <1> QED
    BY <1>2 DEF Own, Core, Role

\* A frame that the answerer may send.
LEMMA SpeaksOwn ==
    ASSUME NEW x \in Station, NEW s, Own(x, s), NEW u, NEW f, NEW p, NEW q,
           Speaks(s, u, f, p, q), x = Answerer => AnswererFrame(f),
           p = s.state \/ p = "RELEASE", q \in {s.timer, "T401"},
           p = "ESTABLISH" => q = s.timer
    PROVE  Own(x, u) /\ Evolves(s, u)
  <1>1. Core(s) /\ Role(x, s) /\ Timed(s) /\ s \in StationRecord
    BY DEF Own, Core
  <1>2. ASSUME x = Answerer
        PROVE  \A i \in 1 .. Len(u.ctrl) : AnswererFrame(u.ctrl[i])
    <2> DEFINE c == s.ctrl
    <2>1. c \in Seq(CtrlFrame) /\ \A i \in 1 .. Len(c) : AnswererFrame(c[i])
      BY <1>1, <1>2, Fields DEF Role
    <2>2. u.ctrl \in {c, Append(c, f)}
      BY DEF Speaks
    <2>3. AnswererFrame(f)
      BY <1>2
    <2> HIDE DEF c
    <2>4. \A i \in 1 .. Len(Append(c, f)) : AnswererFrame(Append(c, f)[i])
      BY ONLY <2>1, <2>3
    <2> QED
      BY <2>1, <2>2, <2>4
  <1>3. Timed(u)
    BY <1>1 DEF Timed, Speaks
  <1>4. Alike(s, u) /\ Len(u.ctrl) < CtrlFrames /\ u.configuring = s.configuring
        /\ u.state = p /\ u.timer = q
    BY DEF Speaks
  <1> QED
    BY <1>1, <1>2, <1>3, <1>4, AlikeStaysOwn DEF Role

\* The timer T_401 takes no station out of its role.
LEMMA ExpiresOwn ==
    ASSUME NEW x \in Station, NEW s, Own(x, s), s.timer = "T401", NEW u, Expires(s, u)
    PROVE  Own(x, u) /\ Evolves(s, u)
  <1>1. Core(s) /\ Role(x, s) /\ Timed(s) /\ s \in StationRecord /\ Len(s.ctrl) < CtrlFrames
    BY DEF Own, Core
  <1>2. AnswererFrame(Frame("DISC", TRUE, TRUE)) /\ \A f \in Said(s.vr) : AnswererFrame(f)
    BY SaidFrames DEF AnswererFrame, Frame
  <1>3. x = Answerer => ~s.configuring /\ s.state # "ESTABLISH"
    BY <1>1 DEF Role
  <1>4. CASE Speaks(s, u, Frame("DISC", TRUE, TRUE), "RELEASE", "T401")
    BY <1>2, <1>4, SpeaksOwn
  <1>5. CASE Speaks(s, u, Frame("XID", TRUE, FALSE), s.state, s.timer) /\ s.configuring
    BY <1>3, <1>5, SpeaksOwn
  <1>6. CASE Speaks(s, u, Frame("SABME", TRUE, TRUE), s.state, s.timer) /\ s.state = "ESTABLISH"
    BY <1>3, <1>6, SpeaksOwn
  <1>7. CASE \E f \in Said(s.vr) : Speaks(s, u, f, s.state, s.timer)
    <2>1. PICK f \in Said(s.vr) : Speaks(s, u, f, s.state, s.timer)
      BY <1>7
    <2> QED
      BY <1>2, <2>1, SpeaksOwn
  <1>8. CASE /\ Alike(s, u) /\ u.ctrl = s.ctrl /\ u.configuring = s.configuring
             /\ \/ u.state = s.state /\ u.timer = s.timer
                \/ s.state \in {"ESTABLISH", "RELEASE"} /\ u.state = "IDLE" /\ u.timer = "off"
                \/ s.state \notin {"ESTABLISH", "DATA"} /\ u.state = s.state /\ u.timer = "off"
    <2>1. Timed(u)
      BY <1>1, <1>8 DEF Timed
    <2> QED
      BY <1>1, <1>8, <2>1, AlikeStaysOwn DEF Role
  <1> QED
    BY <1>4, <1>5, <1>6, <1>7, <1>8 DEF Expires

-----------------------------------------------------------------------------
(* The part of the invariant that needs one station only.                   *)

\* One station changes, and with it the lines.
LEMMA OneStation ==
    ASSUME OwnInv, NEW x \in Station, NEW u, Own(x, u), Evolves(st[x], u),
           st' = [st EXCEPT ![x] = u], losses' \in 0 .. MaxLoss,
           line' \in [Station -> Seq(LineFrame)],
           Sent(x, u, line'[Peer(x)]), Sent(Peer(x), st[Peer(x)], line'[x])
    PROVE  OwnInv'
  <1>1. u \in StationRecord
    BY DEF Own, Core
  <1>2. st' \in [Station -> StationRecord]
    BY <1>1 DEF OwnInv
  <1>3. st'[x] = u /\ \A y \in Station : y # x => st'[y] = st[y]
    BY DEF OwnInv
  <1>4. ASSUME NEW y \in Station
        PROVE  Own(y, st'[y]) /\ Sent(y, st'[y], line'[Peer(y)])
    <2>1. CASE y = x
      BY <1>3, <2>1
    <2>2. CASE y # x
      <3>1. y = Peer(x) /\ Peer(y) = x
        BY <2>2, Peers DEF Station, Peer
      <3> QED
        BY <1>3, <2>2, <3>1 DEF OwnInv
    <2> QED
      BY <2>1, <2>2
  <1> QED
    BY <1>2, <1>4 DEF OwnInv

\* A frame leaves the line.
LEMMA SentTail ==
    ASSUME NEW x, NEW s, NEW q, Sent(x, s, q), q # <<>>
    PROVE  /\ Sent(x, s, Tail(q)) /\ Head(q) \in LineFrame
           /\ x = Answerer => AnswererFrame(Head(q))
  <1>1. q \in Seq(LineFrame) /\ Len(q) <= LineCap /\ LineCap \in Nat
    BY WindowFacts DEF Sent
  <1> DEFINE w == Tail(q)
  <1>2. w \in Seq(LineFrame) /\ Len(w) = Len(q) - 1 /\ Len(q) \in Nat /\ Len(q) >= 1
        /\ \A i \in 1 .. Len(w) : w[i] = q[i + 1] /\ i + 1 \in 1 .. Len(q)
    BY <1>1
  <1>3. Head(q) = q[1] /\ 1 \in 1 .. Len(q) /\ Head(q) \in LineFrame
    BY <1>1, <1>2
  <1> HIDE DEF w
  <1>4. Sent(x, s, w)
    BY <1>1, <1>2, SMTT(60) DEF Sent
  <1>5. x = Answerer => AnswererFrame(Head(q))
    BY <1>3 DEF Sent
  <1> QED
    BY <1>3, <1>4, <1>5 DEF w

\* A frame joins the line.
LEMMA SentAppend ==
    ASSUME NEW x, NEW s, NEW q, Sent(x, s, q), Len(q) < LineCap, NEW f \in LineFrame,
           x = Answerer => AnswererFrame(f),
           f.k = "I" => f.msg <= s.taken /\ (f.msg > Base(s) => f.ns = Place(s, f.msg))
    PROVE  Sent(x, s, Append(q, f))
  <1>1. q \in Seq(LineFrame) /\ Len(q) \in Nat /\ LineCap \in Nat
    BY WindowFacts DEF Sent
  <1> DEFINE w == Append(q, f)
  <1>2. w \in Seq(LineFrame) /\ Len(w) = Len(q) + 1
        /\ \A i \in 1 .. Len(w) : w[i] = f \/ (i \in 1 .. Len(q) /\ w[i] = q[i])
    BY <1>1
  <1> HIDE DEF w
  <1>3. Len(w) <= LineCap
    BY <1>1, <1>2
  <1>4. Sent(x, s, w)
    BY <1>2, <1>3 DEF Sent
  <1> QED
    BY <1>4 DEF w

-----------------------------------------------------------------------------
(* The other steps, in the same terms.                                      *)

\* T_403 looks whether the other station is still there.
Looks(s, u) ==
    \/ s.state = "DATA" /\ \E f \in Said(s.vr) : Speaks(s, u, f, "DATA", "T401")
    \/ /\ s.state # "DATA" /\ Alike(s, u) /\ u.ctrl = s.ctrl /\ u.configuring = s.configuring
       /\ u.state = s.state /\ u.timer = "off"

\* Parameters are asked for.
Configures(s, u) ==
    /\ Alike(s, u) /\ Len(u.ctrl) < CtrlFrames
    /\ u.ctrl \in {s.ctrl, Append(s.ctrl, Frame("XID", TRUE, FALSE))}
    /\ u.configuring = TRUE /\ u.state = s.state /\ u.timer = "T401"

\* A frame of the buffer goes out: n frames were sent before it.
Informs(s, u, f) ==
    /\ s.state = "DATA" /\ ~s.configuring /\ s.ctrl = <<>>
    /\ Moves(s, u, 0) /\ u.state = "DATA" /\ u.ctrl = <<>>
    /\ f \in LineFrame /\ f.k = "I" /\ f.nr = s.vr /\ f.msg \in 1 .. u.taken
    /\ f.msg > Base(u) /\ f.ns = Place(u, f.msg)

\* A station goes into a state with a timer, and nothing else.
Becomes(s, u, state, timer) ==
    /\ Alike(s, u) /\ u.ctrl = s.ctrl /\ u.configuring = s.configuring
    /\ u.state = state /\ u.timer = timer

\* The step of T_403.
LEMMA T403Looks ==
    ASSUME NEW s, Core(s)
    PROVE  LET z == [s EXCEPT !.timer = "off"]
           IN  Looks(s, IF z.state # "DATA" THEN z
                        ELSE [t401_start(tx_supervisory_frame(z, TRUE, Ready(z), TRUE))
                                EXCEPT !.retry = 1])
  <1> DEFINE z == [s EXCEPT !.timer = "off"]
  <1>1. s \in StationRecord /\ Len(s.ctrl) < CtrlFrames /\ "off" \in Timers
    BY DEF Core, Timers
  <1>2. /\ Alike(s, z) /\ z.ctrl = s.ctrl /\ z.configuring = s.configuring
        /\ z.state = s.state /\ z.timer = "off" /\ z.vr = s.vr /\ z \in StationRecord
    BY ONLY <1>1 DEF StationRecord, Alike
  <1> HIDE DEF z
  <1>3. CASE s.state # "DATA"
    <2>1. Looks(s, z)
      BY <1>2, <1>3 DEF Looks
    <2> QED
      BY <1>2, <1>3, <2>1 DEF z
  <1>4. CASE s.state = "DATA"
    <2> DEFINE f == [Frame(Ready(z), TRUE, TRUE) EXCEPT !.nr = z.vr]
               p == Put(z, f)
               u == [t401_start(p) EXCEPT !.retry = 1]
    <2>1. Ready(z) \in Supervisory /\ z.vr \in Number
      BY <1>2, Fields DEF Ready, Supervisory
    <2>2. f \in Said(s.vr)
      BY <1>2, <2>1, FramesMade
    <2>3. f \in CtrlFrame
      BY <2>2 DEF Said
    <2>4. tx_supervisory_frame(z, TRUE, Ready(z), TRUE) = p
      BY DEF tx_supervisory_frame
    <2> HIDE DEF f
    <2>5. Speaks(z, p, f, z.state, z.timer)
      BY <1>1, <1>2, <2>3, PutSpeaks
    <2> HIDE DEF p
    <2>6. p \in StationRecord /\ 1 \in 0 .. N400 + 1 /\ "T401" \in Timers
      BY <2>5, WindowFacts DEF Speaks, Alike, Timers
    <2>7. /\ Alike(p, u) /\ u.ctrl = p.ctrl /\ u.configuring = p.configuring
          /\ u.state = p.state /\ u.timer = "T401"
      BY ONLY <2>6 DEF StationRecord, Alike, t401_start
    <2> HIDE DEF u
    <2>8. Speaks(s, u, f, "DATA", "T401")
      <3>1. u.state = "DATA"
        BY <1>2, <1>4, <2>5, <2>7 DEF Speaks
      <3>2. Alike(s, z) /\ z.ctrl = s.ctrl /\ z.configuring = s.configuring
        BY <1>2
      <3> QED
        BY <1>1, <2>5, <2>7, <3>1, <3>2, SpeaksBetween
    <2>9. Looks(s, u)
      BY <1>4, <2>2, <2>8 DEF Looks
    <2> QED
      BY <1>2, <1>4, <2>4, <2>9 DEF u, z
  <1> QED
    BY <1>3, <1>4

\* The step of the negotiation timer, of a station that has no link.
LEMMA ConfigConfigures ==
    ASSUME NEW s, Core(s), s.state # "DATA"
    PROVE  Configures(s, lapm_config(s))
  <1> DEFINE c == [s EXCEPT !.configuring = TRUE]
             f == Frame("XID", TRUE, FALSE)
             p == Put(c, f)
             u == t401_start(p)
  <1>1. s \in StationRecord /\ Len(s.ctrl) < CtrlFrames
    BY DEF Core
  <1>2. /\ Alike(s, c) /\ c.ctrl = s.ctrl /\ c.configuring = TRUE
        /\ c.state = s.state /\ c.timer = s.timer /\ c \in StationRecord
    BY ONLY <1>1 DEF StationRecord, Alike
  <1>3. lapm_config(s) = u
    BY DEF lapm_config, transmit_xid
  <1>4. f \in CtrlFrame
    BY FramesMade DEF Unnumbered
  <1> HIDE DEF c, f
  <1>5. Speaks(c, p, f, c.state, c.timer)
    BY <1>1, <1>2, <1>4, PutSpeaks
  <1> HIDE DEF p
  <1>6. /\ Alike(p, u) /\ u.ctrl = p.ctrl /\ u.configuring = p.configuring
        /\ u.state = p.state /\ u.timer = "T401"
    BY <1>5, AlikeSteps DEF Speaks, Alike
  <1> HIDE DEF u
  <1>7. Alike(s, u)
    BY <1>2, <1>5, <1>6 DEF Speaks, Alike
  <1>8. Len(u.ctrl) < CtrlFrames /\ u.ctrl \in {s.ctrl, Append(s.ctrl, f)}
        /\ u.configuring = TRUE /\ u.state = s.state
    BY <1>2, <1>5, <1>6 DEF Speaks
  <1> QED
    BY <1>3, <1>6, <1>7, <1>8 DEF Configures, f

\* The step of an application that stops the link.
LEMMA StopSpeaks ==
    ASSUME NEW s, Core(s)
    PROVE  Speaks(s, lapm_disconnect([s EXCEPT !.timer = "off", !.stopped = s.state]),
                  Frame("DISC", TRUE, TRUE), "RELEASE", "T401")
  <1> DEFINE a == s.state
             z == [s EXCEPT !.timer = "off", !.stopped = a]
             u == lapm_disconnect(z)
  <1>1. s \in StationRecord /\ "off" \in Timers /\ a \in States \cup {"no"} /\ Len(s.ctrl) < CtrlFrames
    BY Fields DEF Core, Timers
  <1>a. u = lapm_disconnect([s EXCEPT !.timer = "off", !.stopped = s.state])
    OBVIOUS
  <1> HIDE DEF a
  <1>2. Alike(s, z) /\ z.ctrl = s.ctrl /\ z.configuring = s.configuring /\ z \in StationRecord
    BY ONLY <1>1 DEF StationRecord, Alike
  <1> HIDE DEF z
  <1>3. Speaks(z, u, Frame("DISC", TRUE, TRUE), "RELEASE", "T401")
    BY <1>1, <1>2, DisconnectSpeaks
  <1> HIDE DEF u
  <1>4. Speaks(s, u, Frame("DISC", TRUE, TRUE), "RELEASE", "T401")
    BY <1>2, <1>3 DEF Speaks, Alike
  <1> QED
    BY <1>4, <1>a

\* The next frame of the buffer, or one fetched for it.
LEMMA InfoInforms ==
    ASSUME NEW s, Core(s), s.state = "DATA", ~s.configuring, s.ctrl = <<>>,
           MayFetch(s, TRUE).out < Len(MayFetch(s, TRUE).info)
    PROVE  LET r == MayFetch(s, TRUE)
               t == [r EXCEPT !.out = @ + 1, !.vs = (@ + 1) % Mod]
           IN  Informs(s, IF r.timer = "off" THEN t401_start(t) ELSE t,
                       [k |-> "I", cmd |-> TRUE, pf |-> FALSE,
                        ns |-> r.vs, nr |-> r.vr, msg |-> r.info[r.out + 1]])
  <1> DEFINE r == MayFetch(s, TRUE)
             o == r.out + 1
             v == (r.vs + 1) % Mod
             t == [r EXCEPT !.out = o, !.vs = v]
             m == r.info[o]
             f == [k |-> "I", cmd |-> TRUE, pf |-> FALSE, ns |-> r.vs, nr |-> r.vr, msg |-> m]
  <1>1. Moves(s, r, 0)
    BY FetchedMoves, FlagsMove DEF MayFetch
  <1>2. r.state = "DATA" /\ r.ctrl = <<>>
    BY DEF MayFetch, Fetched, Core, StationRecord
  <1>3. r.out < Len(r.info)
    OBVIOUS
  <1>b. [r EXCEPT !.out = @ + 1, !.vs = (@ + 1) % Mod] = t
    OBVIOUS
  <1> HIDE DEF r
  <1>4. Core(r) /\ r \in StationRecord /\ Buffer(r) /\ Timed(r) /\ r.vr = s.vr
    BY <1>1, MovesFacts DEF Core
  <1>5. /\ r.out \in Nat /\ Len(r.info) \in Nat /\ r.taken \in Nat /\ Base(r) \in Int
        /\ r.vs \in Number /\ r.vr \in Number /\ r.vs \in Int /\ r.va \in Int /\ r.info \in Seq(Nat)
    BY <1>4, Fields
  <1>6. /\ Len(r.info) <= K /\ Len(r.info) <= r.taken /\ (r.vs - r.va) % Mod = r.out
        /\ \A i \in 1 .. Len(r.info) : r.info[i] = Base(r) + i
    BY <1>4 DEF Buffer
  <1>7. o \in Nat /\ o \in 1 .. Len(r.info) /\ o <= Len(r.info)
    BY <1>3, <1>5
  <1>8. v \in Number
    BY <1>5, InNumber
  <1>9. m = Base(r) + o /\ m \in 1 .. r.taken /\ m > Base(r)
    <2>1. m = Base(r) + o
      BY <1>6, <1>7
    <2>2. Base(r) = r.taken - Len(r.info)
      BY DEF Base
    <2> HIDE DEF m, o
    <2>3. Base(r) + o \in 1 .. r.taken /\ Base(r) + o > Base(r)
      BY ONLY <1>5, <1>6, <1>7, <2>2, SMTT(60)
    <2> QED
      BY <2>1, <2>3
  <1>a. o = r.out + 1 /\ v = (r.vs + 1) % Mod
    OBVIOUS
  <1> HIDE DEF o, v, m
  <1>10. /\ t \in StationRecord /\ t.out = o /\ t.vs = v
         /\ t.va = r.va /\ t.vr = r.vr /\ t.info = r.info /\ t.ctrl = r.ctrl /\ t.taken = r.taken
         /\ t.got = r.got /\ t.freed = r.freed /\ t.configuring = r.configuring
         /\ t.state = r.state /\ t.timer = r.timer
    BY ONLY <1>4, <1>7, <1>8 DEF StationRecord
  <1>11. Base(t) = Base(r) /\ Len(t.info) = Len(r.info)
    BY <1>10 DEF Base
  <1>12. (t.vs - t.va) % Mod = t.out
    <2> DEFINE d == r.vs - r.va
               e == 1 - r.va
    <2>1. d \in Int /\ e \in Int /\ 1 \in Int /\ Mod \in Nat \ {0} /\ r.vs + 1 \in Int /\ -r.va \in Int
      BY <1>5, WindowFacts
    <2>2. t.vs - t.va = ((r.vs + 1) % Mod) + (-r.va)
      <3>1. t.vs = (r.vs + 1) % Mod /\ t.va = r.va /\ (r.vs + 1) % Mod \in Int
        BY <1>8, <1>10, <1>a DEF Number
      <3> QED
        BY <1>5, <3>1
    <2>3. (((r.vs + 1) % Mod) + (-r.va)) % Mod = ((r.vs + 1) + (-r.va)) % Mod
      BY <2>1, ModAdd
    <2>4. (r.vs + 1) + (-r.va) = d + 1
      BY <1>5
    <2>5. d % Mod = r.out
      BY <1>6
    <2> HIDE DEF d
    <2>6. ((d % Mod) + 1) % Mod = (d + 1) % Mod
      BY <2>1, ModAdd
    <2>7. o \in 0 .. Mod - 1
      <3>1. K \in Nat /\ Mod \in Nat /\ Mod > 2 * K
        BY WindowFacts
      <3> QED
        BY ONLY <3>1, <1>5, <1>6, <1>7
    <2>8. o % Mod = o
      BY <2>1, <2>7, ModSmall
    <2> QED
      BY <2>2, <2>3, <2>4, <2>5, <2>6, <2>8, <1>10, <1>a
  <1>13. Buffer(t)
    BY <1>6, <1>7, <1>10, <1>11, <1>12 DEF Buffer
  <1>14. Timed(t)
    BY <1>4, <1>10 DEF Timed
  <1>15. t.state # "ESTABLISH" /\ t.taken >= r.taken
    BY <1>2, <1>5, <1>10
  <1>c. r.vr = s.vr /\ Core(r)
    BY <1>4
  <1> HIDE DEF t
  <1>16. Moves(r, t, 0)
    BY ONLY <1>c, <1>10, <1>11, <1>13, <1>14, <1>15, Still
  <1>17. Moves(s, t, 0)
    <2>1. 0 + 0 = 0
      OBVIOUS
    <2> QED
      BY <1>1, <1>16, <2>1, MovesTwice
  <1>18. r.timer # "off"
    BY <1>2, <1>4 DEF Timed
  <1>19. f \in LineFrame /\ f.k = "I" /\ f.nr = s.vr /\ f.msg = m /\ f.ns = r.vs
    BY <1>4, <1>5, <1>9 DEF LineFrame
  <1>20. r.vs = Place(t, m)
    <2> DEFINE d == r.vs - r.va
    <2>1. d \in Int /\ Mod \in Nat \ {0} /\ r.va \in Int
      BY <1>5, WindowFacts
    <2>2. m - Base(t) - 1 = d % Mod
      <3>1. d % Mod = r.out
        BY <1>6
      <3> QED
        BY <1>5, <1>9, <1>11, <1>a, <3>1, SMTT(60)
    <2>3. (r.va + (d % Mod)) % Mod = (r.va + d) % Mod
      <3> DEFINE e == d % Mod
      <3>1. ((d % Mod) + r.va) % Mod = (d + r.va) % Mod
        BY <2>1, ModAdd
      <3>2. e \in Int
        BY <2>1, DivMod
      <3>3. r.va + e = e + r.va /\ r.va + d = d + r.va
        BY <2>1, <3>2
      <3> QED
        BY <3>1, <3>3
    <2>4. r.va + d = r.vs
      BY <1>5
    <2>5. r.vs % Mod = r.vs
      BY <1>5, <2>1, ModSmall DEF Number
    <2> QED
      BY <2>2, <2>3, <2>4, <2>5, <1>10 DEF Place
  <1> HIDE DEF f
  <1>21. Informs(s, t, f)
    BY <1>2, <1>9, <1>10, <1>11, <1>17, <1>19, <1>20 DEF Informs
  <1> QED
    BY <1>18, <1>21, <1>b DEF f, m, o, t, v, r

-----------------------------------------------------------------------------
(* Every step is one of five.                                               *)

\* A station goes on by itself.
Alone(x, s, u) ==
    \/ s.timer = "T401" /\ NoCommandUnderWay /\ Expires(s, u)
    \/ s.timer = "T403" /\ NoCommandUnderWay /\ Looks(s, u)
    \/ s.timer = "start" /\ Configures(s, u)
    \/ x \in Stopper /\ Speaks(s, u, Frame("DISC", TRUE, TRUE), "RELEASE", "T401")
    \/ Becomes(s, u, s.state, s.timer)
    \/ s.state = "DETECT" /\ Becomes(s, u, "UNSUPPORTED", "off")
    \/ s.state = "DETECT" /\ Becomes(s, u, "IDLE", IF x = Caller THEN "start" ELSE "off")

GoesOn(x) ==
    \E u : Alone(x, st[x], u) /\ st' = [st EXCEPT ![x] = u] /\ UNCHANGED <<line, losses>>

\* A frame arrives.
Arrives(x) ==
    /\ line[x] # <<>> /\ line' = [line EXCEPT ![x] = Tail(@)] /\ losses' = losses
    /\ \E u : Receives(st[x], u, Head(line[x])) /\ st' = [st EXCEPT ![x] = u]

\* A frame is lost, or comes while support is being detected.
Vanishes(x) ==
    /\ line[x] # <<>> /\ line' = [line EXCEPT ![x] = Tail(@)]
    /\ losses' \in 0 .. MaxLoss /\ st' = st
    /\ Head(line[x]).k \in MayLose \/ st[x].state = "DETECT"

\* A frame is sent that was queued.
Queued(x) ==
    /\ st[x].ctrl # <<>> /\ Len(line[Peer(x)]) < LineCap
    /\ line' = [line EXCEPT ![Peer(x)] = Append(@, Head(st[x].ctrl))] /\ losses' = losses
    /\ st' = [st EXCEPT ![x] = [st[x] EXCEPT !.ctrl = Tail(st[x].ctrl)]]

\* A frame is sent that is in the buffer.
Sends(x) ==
    /\ Len(line[Peer(x)]) < LineCap /\ losses' = losses
    /\ \E u, f : /\ Informs(st[x], u, f) /\ st' = [st EXCEPT ![x] = u]
                 /\ line' = [line EXCEPT ![Peer(x)] = Append(@, f)]

\* There is no other step.
LEMMA EveryStep ==
    ASSUME OwnInv, Next
    PROVE  \E x \in Station : GoesOn(x) \/ Arrives(x) \/ Vanishes(x) \/ Queued(x) \/ Sends(x)
  <1>1. \A x \in Station : Own(x, st[x]) /\ Core(st[x]) /\ Role(x, st[x]) /\ st[x] \in StationRecord
    BY DEF OwnInv, Own, Core
  <1>2. Caller \in Station /\ Answerer \in Station
    BY DEF Station
  <1>3. ASSUME NEW x \in Station, NEW has \in BOOLEAN, v42_rx_bit(x, has)
        PROVE  Arrives(x) \/ Vanishes(x)
    <2> DEFINE s == st[x]
               f == Head(line[x])
    <2>1. line[x] # <<>> /\ line' = [line EXCEPT ![x] = Tail(@)] /\ losses' = losses
      BY <1>3 DEF v42_rx_bit
    <2>2. CASE s.state = "DETECT"
      BY <1>3, <2>1, <2>2 DEF v42_rx_bit, Vanishes, OwnInv
    <2>3. CASE s.state # "DETECT"
      <3>1. st' = [st EXCEPT ![x] = lapm_receive(s, f, has)]
        BY <1>3, <2>3 DEF v42_rx_bit
      <3>2. f \in LineFrame
        <4>1. Sent(Peer(x), st[Peer(x)], line[x])
          BY Peers DEF OwnInv
        <4> QED
          BY <2>1, <4>1, SentTail
      <3>3. Core(s) /\ (s.configuring => s.state \notin {"ESTABLISH", "DATA"})
        BY <1>1 DEF Role, Station
      <3>4. Receives(s, lapm_receive(s, f, has), f)
        <4> HIDE DEF s, f
        <4>1. f.k \in {"I"} \cup Supervisory \cup Unnumbered
          BY <3>2 DEF LineFrame
        <4> QED
          BY <3>2, <3>3, <4>1, ReceiveNumbered, ReceiveUnnumbered DEF Numbered
      <3> QED
        BY <2>1, <3>1, <3>4 DEF Arrives
    <2> QED
      BY <2>2, <2>3
  <1>4. ASSUME NEW x \in Station, Lose(x)
        PROVE  Vanishes(x)
    <2>1. losses' \in 0 .. MaxLoss
      BY <1>4, WindowFacts DEF Lose, OwnInv
    <2> QED
      BY <1>4, <2>1 DEF Lose, Vanishes
  <1>5. ASSUME NEW x \in Station, UnderflowCtrl(x)
        PROVE  Queued(x)
    <2>1. [st[x] EXCEPT !.ctrl = Tail(@)] = [st[x] EXCEPT !.ctrl = Tail(st[x].ctrl)]
      OBVIOUS
    <2> QED
      BY <1>5, <2>1 DEF UnderflowCtrl, Transmit, Queued
  <1>6. ASSUME NEW x \in Station, UnderflowInfo(x)
        PROVE  Sends(x)
    <2> DEFINE s == st[x]
               r == MayFetch(s, TRUE)
               t == [r EXCEPT !.out = @ + 1, !.vs = (@ + 1) % Mod]
               u == IF r.timer = "off" THEN t401_start(t) ELSE t
               f == [k |-> "I", cmd |-> TRUE, pf |-> FALSE,
                     ns |-> r.vs, nr |-> r.vr, msg |-> r.info[r.out + 1]]
    <2>1. /\ s.ctrl = <<>> /\ s.state = "DATA" /\ ~s.configuring /\ r.out < Len(r.info)
          /\ Len(line[Peer(x)]) < LineCap /\ losses' = losses
          /\ st' = [st EXCEPT ![x] = u] /\ line' = [line EXCEPT ![Peer(x)] = Append(@, f)]
      BY <1>6 DEF UnderflowInfo, Transmit
    <2>2. Informs(s, u, f)
      BY <1>1, <2>1, InfoInforms
    <2> HIDE DEF u, f, r, t
    <2> QED
      BY <2>1, <2>2 DEF Sends
  <1>7. ASSUME NEW x \in Station, t401_expired(x)
        PROVE  GoesOn(x)
    <2> DEFINE s == st[x]
               u == IF s.retry > N400 THEN GiveUp(s) ELSE AskAgain([s EXCEPT !.retry = @ + 1])
    <2>1. /\ s.timer = "T401" /\ NoCommandUnderWay
          /\ st' = [st EXCEPT ![x] = u] /\ UNCHANGED <<line, losses>>
      BY <1>7 DEF t401_expired, Expiry
    <2>2. s.retry > N400 \/ s.retry + 1 \in 0 .. N400 + 1
      <3>1. s.retry \in 0 .. N400 + 1 /\ N400 \in Nat
        BY <1>1, Fields, WindowFacts
      <3> QED
        BY <3>1
    <2>3. Expires(s, u)
      BY <1>1, <2>1, <2>2, GiveUpExpires, AskAgainExpires
    <2> HIDE DEF u
    <2> QED
      BY <2>1, <2>3 DEF GoesOn, Alone
  <1>8. ASSUME NEW x \in Station, t403_expired(x)
        PROVE  GoesOn(x)
    <2> DEFINE z == [st[x] EXCEPT !.timer = "off"]
               u == IF z.state # "DATA" THEN z
                    ELSE [t401_start(tx_supervisory_frame(z, TRUE, Ready(z), TRUE)) EXCEPT !.retry = 1]
    <2>1. /\ st[x].timer = "T403" /\ NoCommandUnderWay
          /\ st' = [st EXCEPT ![x] = u] /\ UNCHANGED <<line, losses>>
      BY <1>8 DEF t403_expired, Expiry
    <2>2. Looks(st[x], u)
      BY <1>1, T403Looks
    <2> HIDE DEF u
    <2> QED
      BY <2>1, <2>2 DEF GoesOn, Alone
  <1>9. ASSUME NEW x \in Station, t400_expired(x)
        PROVE  GoesOn(x)
    <2> DEFINE s == st[x]
               u == [Report(s, "UNSUPPORTED") EXCEPT !.state = "UNSUPPORTED", !.timer = "off"]
    <2>1. s.state = "DETECT" /\ st' = [st EXCEPT ![x] = u] /\ UNCHANGED <<line, losses>>
      BY <1>9 DEF t400_expired
    <2>2. s \in StationRecord /\ "UNSUPPORTED" \in States /\ "off" \in Timers
      BY <1>1 DEF States, Timers
    <2> HIDE DEF s
    <2>3. Becomes(s, u, "UNSUPPORTED", "off")
      BY ONLY <2>2 DEF StationRecord, Alike, Becomes, Report
    <2> HIDE DEF u
    <2> QED
      BY <2>1, <2>3 DEF GoesOn, Alone, s
  <1>10. ASSUME NEW x \in Station, initiate_negotiation_expired(x)
         PROVE  GoesOn(x)
    <2>1. st[x].timer = "start" /\ st' = [st EXCEPT ![x] = lapm_config(@)] /\ UNCHANGED <<line, losses>>
      BY <1>10 DEF initiate_negotiation_expired
    <2>2. st[x].state # "DATA"
      BY <1>1, <2>1 DEF Role, Station
    <2>3. Configures(st[x], lapm_config(st[x]))
      BY <1>1, <2>2, ConfigConfigures
    <2> QED
      BY <2>1, <2>3 DEF GoesOn, Alone, OwnInv
  <1>11. ASSUME NEW x \in Station, NEW busy \in BOOLEAN, v42_set_local_busy_status(x, busy)
         PROVE  GoesOn(x)
    <2> DEFINE s == st[x]
               u == [s EXCEPT !.lbusy = busy]
    <2>1. st' = [st EXCEPT ![x] = u] /\ UNCHANGED <<line, losses>>
      BY <1>11 DEF v42_set_local_busy_status, OwnInv
    <2>2. s \in StationRecord /\ busy \in BOOLEAN
      BY <1>1
    <2> HIDE DEF s
    <2>3. Becomes(s, u, s.state, s.timer)
      BY ONLY <2>2 DEF StationRecord, Alike, Becomes
    <2> HIDE DEF u
    <2> QED
      BY <2>1, <2>3 DEF GoesOn, Alone, s
  <1>12. ASSUME NEW x \in Station, v42_stop(x)
         PROVE  GoesOn(x)
    <2> DEFINE s == st[x]
               u == lapm_disconnect([s EXCEPT !.timer = "off", !.stopped = s.state])
    <2>1. x \in Stopper /\ st' = [st EXCEPT ![x] = u] /\ UNCHANGED <<line, losses>>
      BY <1>12 DEF v42_stop, OwnInv
    <2>2. Speaks(s, u, Frame("DISC", TRUE, TRUE), "RELEASE", "T401")
      BY <1>1, StopSpeaks
    <2> HIDE DEF u
    <2> QED
      BY <2>1, <2>2 DEF GoesOn, Alone
  <1>13. ASSUME SeeODP
         PROVE  GoesOn(Answerer)
    <2> DEFINE s == st[Answerer]
               u == [s EXCEPT !.odp = TRUE]
    <2>1. st' = [st EXCEPT ![Answerer] = u] /\ UNCHANGED <<line, losses>>
      BY <1>2, <1>13 DEF SeeODP, OwnInv
    <2>2. s \in StationRecord
      BY <1>1, <1>2
    <2> HIDE DEF s
    <2>3. Becomes(s, u, s.state, s.timer)
      BY ONLY <2>2 DEF StationRecord, Alike, Becomes
    <2> HIDE DEF u
    <2> QED
      BY <2>1, <2>3 DEF GoesOn, Alone, s
  <1>14. ASSUME NEW x \in Station, st[x].state = "DETECT", UNCHANGED <<line, losses>>,
                st' = [st EXCEPT ![x] = restart_lapm(@, x)]
         PROVE  GoesOn(x)
    <2> DEFINE s == st[x]
               t == IF x = Caller THEN "start" ELSE "off"
               u == [Report(s, "IDLE") EXCEPT !.state = "IDLE", !.timer = t]
    <2>1. st' = [st EXCEPT ![x] = u]
      BY <1>14 DEF restart_lapm, OwnInv
    <2>2. s \in StationRecord /\ t \in Timers /\ "IDLE" \in States
      BY <1>1 DEF Timers, States
    <2> HIDE DEF s, t
    <2>3. Becomes(s, u, "IDLE", t)
      BY ONLY <2>2 DEF StationRecord, Alike, Becomes, Report
    <2> HIDE DEF u
    <2> QED
      BY <1>14, <2>1, <2>3 DEF GoesOn, Alone, s, t
  <1>15. CASE SeeADP
    BY <1>2, <1>14, <1>15 DEF SeeADP
  <1>16. CASE ADPsSent
    BY <1>2, <1>14, <1>16 DEF ADPsSent, SendingADPs
  <1> QED
    BY <1>2, <1>3, <1>4, <1>5, <1>6, <1>7, <1>8, <1>9, <1>10, <1>11, <1>12, <1>13, <1>15, <1>16 DEF Next

-----------------------------------------------------------------------------
(* The part of the invariant that needs one station only, is kept.          *)

\* What a station does by itself.
LEMMA AloneOwn ==
    ASSUME NEW x \in Station, NEW s, Own(x, s), NEW u, Alone(x, s, u)
    PROVE  Own(x, u) /\ Evolves(s, u)
  <1>1. Core(s) /\ Role(x, s) /\ s \in StationRecord /\ Timed(s) /\ Len(s.ctrl) < CtrlFrames
    BY DEF Own, Core
  <1>2. CASE s.timer = "T401" /\ Expires(s, u)
    BY <1>2, ExpiresOwn
  <1>3. CASE s.timer = "T403" /\ Looks(s, u)
    <2>1. CASE s.state = "DATA" /\ \E f \in Said(s.vr) : Speaks(s, u, f, "DATA", "T401")
      BY <2>1, SaidFrames, SpeaksOwn
    <2>2. CASE /\ s.state # "DATA" /\ Alike(s, u) /\ u.ctrl = s.ctrl /\ u.configuring = s.configuring
               /\ u.state = s.state /\ u.timer = "off"
      <3>1. Timed(u)
        BY <1>1, <1>3, <2>2 DEF Timed
      <3> QED
        BY <1>1, <2>2, <3>1, AlikeStaysOwn DEF Role
    <2> QED
      BY <1>3, <2>1, <2>2 DEF Looks
  <1>4. CASE s.timer = "start" /\ Configures(s, u)
    <2>1. x = Caller /\ s.state \notin {"ESTABLISH", "DATA"} /\ Caller # Answerer
      BY <1>1, <1>4, Peers DEF Role, Station
    <2>2. Timed(u)
      BY <1>4, <2>1 DEF Configures, Timed
    <2> QED
      BY <1>4, <2>1, <2>2, AlikeStaysOwn DEF Configures
  <1>5. CASE Speaks(s, u, Frame("DISC", TRUE, TRUE), "RELEASE", "T401")
    <2>1. AnswererFrame(Frame("DISC", TRUE, TRUE))
      BY DEF AnswererFrame, Frame
    <2> QED
      BY <1>5, <2>1, SpeaksOwn
  <1>6. CASE Becomes(s, u, s.state, s.timer)
    <2>1. Timed(u)
      BY <1>1, <1>6 DEF Timed, Becomes
    <2> QED
      BY <1>1, <1>6, <2>1, AlikeStaysOwn DEF Role, Becomes
  <1>7. CASE Becomes(s, u, "UNSUPPORTED", "off")
    <2>1. Timed(u)
      BY <1>7 DEF Timed, Becomes
    <2> QED
      BY <1>1, <1>7, <2>1, AlikeStaysOwn DEF Role, Becomes
  <1>8. CASE Becomes(s, u, "IDLE", IF x = Caller THEN "start" ELSE "off")
    <2>1. Timed(u)
      BY <1>8 DEF Timed, Becomes
    <2>2. Caller # Answerer
      BY Peers
    <2> QED
      BY <1>1, <1>8, <2>1, <2>2, AlikeStaysOwn DEF Role, Becomes
  <1> QED
    BY <1>2, <1>3, <1>4, <1>5, <1>6, <1>7, <1>8 DEF Alone

\* A queued frame goes out.
LEMMA QueuedOwn ==
    ASSUME NEW x \in Station, NEW s, Own(x, s), s.ctrl # <<>>
    PROVE  LET u == [s EXCEPT !.ctrl = Tail(s.ctrl)]
           IN  /\ Own(x, u) /\ Evolves(s, u) /\ Alike(s, u) /\ u.ctrl = Tail(s.ctrl)
               /\ u.configuring = s.configuring /\ u.state = s.state /\ u.timer = s.timer
               /\ Head(s.ctrl) \in CtrlFrame
               /\ x = Answerer => AnswererFrame(Head(s.ctrl))
  <1> DEFINE c == s.ctrl
             w == Tail(c)
             u == [s EXCEPT !.ctrl = w]
  <1>1. Core(s) /\ Role(x, s) /\ s \in StationRecord /\ Timed(s) /\ Len(s.ctrl) < CtrlFrames
    BY DEF Own, Core
  <1>2. c \in Seq(CtrlFrame) /\ c # <<>> /\ Len(c) < CtrlFrames /\ CtrlFrames \in Nat
    BY <1>1, Fields, WindowFacts
  <1>3. x = Answerer => \A i \in 1 .. Len(c) : AnswererFrame(c[i])
    BY <1>1 DEF Role
  <1>a. [s EXCEPT !.ctrl = Tail(s.ctrl)] = u
    OBVIOUS
  <1> HIDE DEF c
  <1>4. /\ w \in Seq(CtrlFrame) /\ Len(w) = Len(c) - 1 /\ Len(c) \in Nat /\ Len(c) >= 1
        /\ \A i \in 1 .. Len(w) : w[i] = c[i + 1] /\ i + 1 \in 1 .. Len(c)
    BY <1>2
  <1>5. Head(c) = c[1] /\ 1 \in 1 .. Len(c) /\ Head(c) \in CtrlFrame
    BY <1>2, <1>4
  <1>6. w = Tail(c)
    OBVIOUS
  <1> HIDE DEF w
  <1>7. /\ Alike(s, u) /\ u.ctrl = w
        /\ u.configuring = s.configuring /\ u.state = s.state /\ u.timer = s.timer
    BY ONLY <1>1, <1>4 DEF StationRecord, Alike
  <1> HIDE DEF u
  <1>8. x = Answerer => \A i \in 1 .. Len(u.ctrl) : AnswererFrame(u.ctrl[i])
    BY <1>3, <1>4, <1>7
  <1>9. Timed(u)
    BY <1>1, <1>7 DEF Timed
  <1>10. Len(u.ctrl) < CtrlFrames
    BY <1>2, <1>4, <1>7
  <1>11. Own(x, u) /\ Evolves(s, u)
    BY <1>1, <1>7, <1>8, <1>9, <1>10, AlikeStaysOwn DEF Role
  <1>12. x = Answerer => AnswererFrame(Head(c))
    BY <1>3, <1>5
  <1> QED
    BY <1>5, <1>6, <1>7, <1>11, <1>12, <1>a DEF c

\* Every step keeps it.
LEMMA OwnKept ==
    ASSUME OwnInv, [Next]_vars
    PROVE  OwnInv'
  <1>1. CASE UNCHANGED vars
    BY <1>1 DEF vars, OwnInv
  <1>2. CASE Next
    <2>1. PICK x \in Station : GoesOn(x) \/ Arrives(x) \/ Vanishes(x) \/ Queued(x) \/ Sends(x)
      BY <1>2, EveryStep
    <2> DEFINE y == Peer(x)
    <2>2. y \in Station /\ y # x /\ Peer(y) = x
      BY Peers
    <2> HIDE DEF y
    <2>3. /\ Own(x, st[x]) /\ Sent(x, st[x], line[y]) /\ Sent(y, st[y], line[x])
          /\ st[x] \in StationRecord /\ st[y] \in StationRecord
          /\ line[x] \in Seq(LineFrame) /\ line[y] \in Seq(LineFrame)
      BY <2>2 DEF OwnInv, y
    <2>4. CASE GoesOn(x)
      <3>1. PICK u : Alone(x, st[x], u) /\ st' = [st EXCEPT ![x] = u] /\ UNCHANGED <<line, losses>>
        BY <2>4 DEF GoesOn
      <3>2. Own(x, u) /\ Evolves(st[x], u)
        BY <2>3, <3>1, AloneOwn
      <3>3. u \in StationRecord
        BY <3>2 DEF Own, Core
      <3>4. Sent(x, u, line[y])
        BY <2>3, <3>2, <3>3, SentEvolves
      <3>5. losses' \in 0 .. MaxLoss /\ line' = line /\ line \in [Station -> Seq(LineFrame)]
        BY <3>1 DEF OwnInv
      <3> QED
        BY <2>2, <2>3, <3>1, <3>2, <3>4, <3>5, OneStation DEF y
    <2> DEFINE shorter == [line EXCEPT ![x] = Tail(@)]
    <2>5. ASSUME line[x] # <<>>
          PROVE  /\ shorter \in [Station -> Seq(LineFrame)]
                 /\ shorter[x] = Tail(line[x]) /\ shorter[y] = line[y]
                 /\ Sent(y, st[y], Tail(line[x])) /\ Head(line[x]) \in LineFrame
                 /\ x = Caller => AnswererFrame(Head(line[x]))
      <3>1. /\ Sent(y, st[y], Tail(line[x])) /\ Head(line[x]) \in LineFrame
            /\ y = Answerer => AnswererFrame(Head(line[x]))
        BY <2>3, <2>5, SentTail
      <3>2. Tail(line[x]) \in Seq(LineFrame)
        BY <3>1 DEF Sent
      <3>3. x = Caller => y = Answerer
        BY DEF y, Peer
      <3> QED
        BY <2>2, <3>1, <3>2, <3>3 DEF OwnInv
    <2> HIDE DEF shorter
    <2>6. CASE Arrives(x)
      <3>1. line[x] # <<>> /\ line' = shorter /\ losses' = losses
        BY <2>6 DEF Arrives, shorter
      <3>2. PICK u : Receives(st[x], u, Head(line[x])) /\ st' = [st EXCEPT ![x] = u]
        BY <2>6 DEF Arrives
      <3>3. Own(x, u) /\ Evolves(st[x], u)
        BY <2>3, <2>5, <3>1, <3>2, ReceiveOwn
      <3>4. u \in StationRecord
        BY <3>3 DEF Own, Core
      <3>5. Sent(x, u, line[y])
        BY <2>3, <3>3, <3>4, SentEvolves
      <3>6. losses' \in 0 .. MaxLoss
        BY <3>1 DEF OwnInv
      <3> QED
        BY <2>2, <2>5, <3>1, <3>2, <3>3, <3>5, <3>6, OneStation DEF y
    <2>7. CASE Vanishes(x)
      <3>1. line[x] # <<>> /\ line' = shorter /\ losses' \in 0 .. MaxLoss /\ st' = st
        BY <2>7 DEF Vanishes, shorter
      <3>2. st' = [st EXCEPT ![x] = st[x]]
        BY <3>1 DEF OwnInv
      <3>3. Evolves(st[x], st[x])
        BY <2>3, EvolvesSame
      <3> QED
        BY <2>2, <2>3, <2>5, <3>1, <3>2, <3>3, OneStation DEF y
    <2> DEFINE longer(f) == [line EXCEPT ![y] = Append(@, f)]
    <2>8. ASSUME NEW f \in LineFrame
          PROVE  /\ longer(f) \in [Station -> Seq(LineFrame)]
                 /\ longer(f)[x] = line[x] /\ longer(f)[y] = Append(line[y], f)
      <3>1. Append(line[y], f) \in Seq(LineFrame)
        BY <2>3
      <3> QED
        BY <2>2, <3>1 DEF OwnInv
    <2> HIDE DEF longer
    <2>9. CASE Queued(x)
      <3> DEFINE s == st[x]
                 u == [s EXCEPT !.ctrl = Tail(s.ctrl)]
                 f == Head(s.ctrl)
      <3>1. /\ s.ctrl # <<>> /\ Len(line[y]) < LineCap /\ line' = longer(f) /\ losses' = losses
            /\ st' = [st EXCEPT ![x] = u]
        BY <2>9 DEF Queued, y, longer
      <3>2. /\ Own(x, u) /\ Evolves(s, u) /\ f \in CtrlFrame
            /\ x = Answerer => AnswererFrame(f)
        BY <2>3, <3>1, QueuedOwn
      <3> HIDE DEF u, f
      <3>3. u \in StationRecord /\ f \in LineFrame /\ f.k # "I"
        BY <3>2 DEF Own, Core, CtrlFrame
      <3>4. Sent(x, u, line[y])
        BY <2>3, <3>2, <3>3, SentEvolves
      <3>5. Sent(x, u, Append(line[y], f))
        BY <3>1, <3>2, <3>3, <3>4, SentAppend
      <3>6. losses' \in 0 .. MaxLoss
        BY <3>1 DEF OwnInv
      <3> QED
        BY <2>2, <2>3, <2>8, <3>1, <3>2, <3>3, <3>5, <3>6, OneStation DEF y
    <2>10. CASE Sends(x)
      <3>1. Len(line[y]) < LineCap /\ losses' = losses
        BY <2>10 DEF Sends, y
      <3>2. PICK u, f : /\ Informs(st[x], u, f) /\ st' = [st EXCEPT ![x] = u]
                        /\ line' = longer(f)
        BY <2>10 DEF Sends, y, longer
      <3>3. /\ Moves(st[x], u, 0) /\ st[x].state = "DATA" /\ f \in LineFrame /\ f.k = "I"
            /\ f.msg \in 1 .. u.taken /\ f.ns = Place(u, f.msg)
        BY <3>2 DEF Informs
      <3>4. Own(x, u) /\ Evolves(st[x], u)
        BY <2>3, <3>3, MovesOwn, MovesEvolve DEF Own
      <3>5. u \in StationRecord
        BY <3>4 DEF Own, Core
      <3>6. u.taken \in Nat
        BY <3>5, Fields
      <3>7. f.msg <= u.taken
        BY <3>3, <3>6
      <3>8. Sent(x, u, line[y])
        BY <2>3, <3>4, <3>5, SentEvolves
      <3>9. x = Answerer => AnswererFrame(f)
        BY <3>3 DEF AnswererFrame
      <3>10. Sent(x, u, Append(line[y], f))
        BY <3>1, <3>3, <3>7, <3>8, <3>9, SentAppend
      <3>11. losses' \in 0 .. MaxLoss
        BY <3>1 DEF OwnInv
      <3> QED
        BY <2>2, <2>3, <2>8, <3>2, <3>3, <3>4, <3>10, <3>11, OneStation DEF y
    <2> QED
      BY <2>1, <2>4, <2>6, <2>7, <2>9, <2>10
  <1> QED
    BY <1>1, <1>2

\* It holds at the start.
LEMMA OwnAtFirst ==
    ASSUME Init
    PROVE  OwnInv
  <1>1. ASSUME NEW x \in Station
        PROVE  New(x) \in StationRecord /\ Own(x, New(x)) /\ Sent(x, New(x), <<>>)
    <2> DEFINE s == New(x)
    <2>1. /\ 0 \in Number /\ 0 \in 0 .. N400 + 1 /\ MaxMsgs \in Nat /\ 0 % Mod = 0
          /\ K \in Nat /\ CtrlFrames \in Nat \ {0} /\ LineCap \in Nat
      BY WindowFacts, ModSmall DEF Number
    <2>2. s \in StationRecord
      BY <2>1 DEF New, StationRecord, States, Timers
    <2>3. /\ s.ctrl = <<>> /\ s.info = <<>> /\ s.out = 0 /\ s.vs = 0 /\ s.va = 0 /\ s.taken = 0
          /\ s.configuring = FALSE /\ s.state \in {"DETECT", "IDLE"}
          /\ x # Caller => s.timer # "start"
      BY DEF New
    <2> HIDE DEF s
    <2>4. Buffer(s)
      BY <2>1, <2>3 DEF Buffer
    <2>5. Timed(s) /\ Role(x, s)
      BY <2>3, Peers DEF Timed, Role
    <2>6. Len(s.ctrl) < CtrlFrames
      BY <2>1, <2>3
    <2>7. Sent(x, s, <<>>)
      BY <2>1 DEF Sent
    <2> QED
      BY <2>2, <2>4, <2>5, <2>6, <2>7 DEF Own, Core, s
  <1>2. 0 \in 0 .. MaxLoss
    BY WindowFacts
  <1> QED
    BY <1>1, <1>2, Peers DEF Init, OwnInv

-----------------------------------------------------------------------------
(* What holds of a link whatever is lost, stopped, busy or late.            *)

\* Always: each station's numbers, buffer and timer agree, and what it sent is
\* numbered as what it would send again (src/v42.c, the whole of the LAP-M part).
THEOREM OwnAlways == Spec => []OwnInv
  <1>1. Init => OwnInv
    BY OwnAtFirst
  <1>2. OwnInv /\ [Next]_vars => OwnInv'
    BY OwnKept
  <1> QED
    BY <1>1, <1>2, PTL DEF Spec

\* Always the variables have their types, the queues of information and of
\* control frames their room, and the retries their limit.
THEOREM LapmTypes == Spec => []TypeOK
  <1>1. OwnInv => TypeOK
    <2>1. ASSUME OwnInv, NEW x \in Station
          PROVE  /\ st[x].state \in States
                 /\ {st[x].vs, st[x].va, st[x].vr} \subseteq 0 .. Mod - 1
                 /\ st[x].retry \in 0 .. N400 + 1 /\ st[x].timer \in Timers
                 /\ Len(st[x].ctrl) < CtrlFrames /\ Len(st[x].info) < InfoFrames
                 /\ Len(line[x]) <= LineCap
      <3>1. Core(st[x]) /\ st[x] \in StationRecord /\ Buffer(st[x]) /\ Len(st[x].ctrl) < CtrlFrames
        BY <2>1 DEF OwnInv, Own, Core
      <3>2. /\ st[x].state \in States /\ st[x].vs \in Number /\ st[x].va \in Number
            /\ st[x].vr \in Number /\ st[x].retry \in 0 .. N400 + 1 /\ st[x].timer \in Timers
            /\ Len(st[x].info) \in Nat
        BY <3>1, Fields
      <3>3. Len(st[x].info) < InfoFrames
        BY <3>1, <3>2, WindowFacts DEF Buffer
      <3>4. Len(line[x]) <= LineCap
        BY <2>1, Peers DEF OwnInv, Sent
      <3> QED
        BY <3>1, <3>2, <3>3, <3>4 DEF Number
    <2>2. OwnInv => losses \in 0 .. MaxLoss
      BY DEF OwnInv
    <2> QED
      BY <2>1, <2>2 DEF TypeOK, States, Timers
  <1> QED
    BY <1>1, OwnAlways, PTL

\* Always the sequence variables and the buffer pointers move together, over
\* every acknowledgement, rejection and reset, and a frame that is sent again
\* has the number it had (ack_info, reject_info, reset_lapm, tx_information_frame).
THEOREM NumbersFollow == Spec => []NumbersFollowFrames
  <1>1. OwnInv => NumbersFollowFrames
    <2> SUFFICES ASSUME OwnInv, NEW x \in Station
                 PROVE  /\ (st[x].vs - st[x].va) % Mod = st[x].out
                        /\ st[x].out <= Len(st[x].info) /\ Len(st[x].info) <= K
                        /\ \A i \in DOMAIN st[x].info : \A f \in ToSet(line[Peer(x)]) :
                              f.k = "I" /\ f.msg = st[x].info[i] => f.ns = (st[x].va + i - 1) % Mod
      BY DEF NumbersFollowFrames, WindowIsBuffer, SameNumberAgain
    <2> DEFINE s == st[x]
               q == line[Peer(x)]
    <2>1. Buffer(s) /\ s \in StationRecord /\ Sent(x, s, q)
      BY DEF OwnInv, Own, Core
    <2> HIDE DEF s, q
    <2>2. /\ (s.vs - s.va) % Mod = s.out /\ s.out <= Len(s.info) /\ Len(s.info) <= K
          /\ \A i \in 1 .. Len(s.info) : s.info[i] = Base(s) + i
      BY <2>1 DEF Buffer
    <2>3. s.info \in Seq(Nat) /\ Base(s) \in Int /\ s.va \in Int /\ q \in Seq(LineFrame)
      BY <2>1, Fields DEF Sent
    <2>4. ASSUME NEW i \in DOMAIN s.info, NEW f \in ToSet(q), f.k = "I", f.msg = s.info[i]
          PROVE  f.ns = (s.va + i - 1) % Mod
      <3>1. i \in 1 .. Len(s.info) /\ i \in Int
        BY <2>3
      <3>2. PICK j \in 1 .. Len(q) : f = q[j]
        BY <2>3 DEF ToSet
      <3>3. q[j].msg = Base(s) + i
        BY <2>2, <2>4, <3>1, <3>2
      <3>4. q[j].msg > Base(s)
        BY <2>3, <3>1, <3>3
      <3>5. q[j].ns = Place(s, Base(s) + i)
        BY <2>1, <2>4, <3>2, <3>3, <3>4 DEF Sent
      <3>6. s.va + ((Base(s) + i) - Base(s) - 1) = s.va + i - 1
        BY <2>3, <3>1
      <3> QED
        BY <3>2, <3>5, <3>6 DEF Place
    <2> QED
      BY <2>2, <2>4 DEF s, q
  <1> QED
    BY <1>1, OwnAlways, PTL

\* Always a station that waits for an answer or has a link has a timer running:
\* neither a lost frame nor a far end that is gone holds it for ever
\* (t401_start, t401_stop_t403_start and every place that stops a timer).
THEOREM LinksAreTimed == Spec => []AlwaysTimed
  <1>1. OwnInv => AlwaysTimed
    <2>1. ASSUME OwnInv, NEW x \in Station
          PROVE  Timed(st[x])
      BY <2>1 DEF OwnInv, Own, Core
    <2> QED
      BY <2>1 DEF AlwaysTimed, Timed
  <1> QED
    BY <1>1, OwnAlways, PTL
=============================================================================

------------------------- MODULE LapmDeliveryProofs -------------------------
(***************************************************************************)
(* Proofs about Lapm, for every window, modulus and number of losses, as    *)
(* long as no UA is lost and no application stops the link: frames are      *)
(* delivered in order with none missing, and none is let go of before.      *)
(***************************************************************************)
EXTENDS LapmProofs

-----------------------------------------------------------------------------
(* Two stations, sy which sends and sx which receives.                       *)

\* The frames of a station count.
Live(s) == s.state \in {"ESTABLISH", "DATA"}

\* The numbers of a link follow the frames from its first one.
Good(s) == s.vr = Len(s.got) % Mod /\ s.va = Base(s) % Mod

\* The last frame that f acknowledges to s.
AckOf(s, f) == Base(s) + ((f.nr - Base(s)) % Mod)

\* A frame under way from sy to sx: it is within a window of what sx has, and it
\* acknowledges no more than sy has.
Fits(sy, sx, f) ==
    /\ f.k = "I" => /\ f.msg \in 1 .. sy.taken /\ f.ns = (f.msg - 1) % Mod
                    /\ Len(sx.got) - f.msg < K /\ f.msg - Len(sx.got) <= K
    /\ Live(sx) /\ Numbered(f) => AckOf(sx, f) <= Len(sy.got)

\* A frame g sent after f: it goes back by less than a window, and acknowledges
\* no less.
Follows(sx, f, g) ==
    /\ f.k = "I" /\ g.k = "I" => f.msg - g.msg < K
    /\ Live(sx) /\ Numbered(f) /\ Numbered(g) => AckOf(sx, f) <= AckOf(sx, g)

\* All that is under way.
Traffic(sy, sx, q) ==
    /\ \A i \in 1 .. Len(q) : Fits(sy, sx, q[i])
    /\ \A i, j \in 1 .. Len(q) : i < j => Follows(sx, q[i], q[j])

\* What sx was handed are the first frames of sy, which has let go of no others.
Ends(sy, sx) ==
    /\ Len(sx.got) <= sy.taken /\ \A i \in 1 .. Len(sx.got) : sx.got[i] = i
    /\ sy.freed <= Len(sx.got)
    /\ Live(sy) => Base(sy) <= Len(sx.got)

\* Both ways: l is on the line from s to p, r all that is on its way back.
Pair(s, p, l, r) ==
    Ends(s, p) /\ Ends(p, s) /\ Traffic(s, p, l \o s.ctrl) /\ Traffic(p, s, r)

LinkInv ==
    \A x \in Station :
        /\ Live(st[x]) => Good(st[x])
        /\ Pair(st[x], st[Peer(x)], line[Peer(x)], line[x] \o st[Peer(x)].ctrl)

-----------------------------------------------------------------------------
(* Acknowledgements.                                                        *)

\* An acknowledgement is of frames from the base on.
LEMMA AckFacts ==
    ASSUME NEW s \in StationRecord, NEW f \in LineFrame
    PROVE  /\ AckOf(s, f) \in Int /\ Base(s) \in Int /\ f.nr \in Int
           /\ (f.nr - Base(s)) % Mod \in Number
           /\ AckOf(s, f) >= Base(s) /\ AckOf(s, f) - Base(s) = (f.nr - Base(s)) % Mod
  <1>1. Base(s) \in Int /\ f.nr \in Int
    BY Fields DEF LineFrame, Number
  <1> DEFINE r == (f.nr - Base(s)) % Mod
  <1>2. r \in Number
    BY <1>1, InNumber
  <1>3. r \in Int /\ r >= 0
    BY <1>2 DEF Number
  <1>4. AckOf(s, f) = Base(s) + r
    BY DEF AckOf
  <1> HIDE DEF r
  <1>5. AckOf(s, f) \in Int /\ AckOf(s, f) >= Base(s) /\ AckOf(s, f) - Base(s) = r
    BY ONLY <1>1, <1>3, <1>4
  <1> QED
    BY <1>1, <1>2, <1>5 DEF r

\* It means the same when frames were let go of that it acknowledges too.
LEMMA AckMoved ==
    ASSUME NEW s \in StationRecord, NEW u \in StationRecord, NEW f \in LineFrame,
           Base(s) <= Base(u), Base(u) <= AckOf(s, f)
    PROVE  AckOf(u, f) = AckOf(s, f)
  <1> DEFINE z == f.nr - Base(s)
             r == z % Mod
             d == Base(u) - Base(s)
  <1>1. /\ AckOf(s, f) \in Int /\ Base(s) \in Int /\ f.nr \in Int /\ r \in Number
        /\ AckOf(s, f) - Base(s) = r /\ Base(u) \in Int
    BY AckFacts
  <1>2. Mod \in Nat \ {0} /\ r \in 0 .. Mod - 1
    BY <1>1, WindowFacts DEF Number
  <1>3. z \in Int /\ d \in Int /\ -d \in Int /\ z + (-d) = f.nr - Base(u)
    BY <1>1
  <1>4. r - d \in 0 .. Mod - 1 /\ r + (-d) = r - d
    <2>1. Base(s) <= Base(u) /\ Base(u) <= AckOf(s, f)
      OBVIOUS
    <2> HIDE DEF r
    <2> QED
      BY <1>1, <1>2, <2>1
  <1>5. (r + (-d)) % Mod = (z + (-d)) % Mod
    <2> HIDE DEF z, d
    <2> QED
      BY <1>2, <1>3, ModAdd
  <1>6. (f.nr - Base(u)) % Mod = r - d
    <2> HIDE DEF z, r, d
    <2>1. (r - d) % Mod = r - d
      BY <1>2, <1>4, ModSmall
    <2> QED
      BY <1>3, <1>4, <1>5, <2>1
  <1>7. AckOf(u, f) = Base(u) + (r - d)
    BY <1>6 DEF AckOf
  <1>8. AckOf(s, f) = Base(s) + r
    BY DEF AckOf
  <1> HIDE DEF r
  <1>9. Base(u) + (r - d) = Base(s) + r
    BY <1>1, <1>2
  <1> QED
    BY <1>7, <1>8, <1>9

\* A frame that says what is next acknowledges all that was handed over.
LEMMA NewestAck ==
    ASSUME NEW sx, Core(sx), NEW sy \in StationRecord, Ends(sx, sy), Live(sx),
           NEW f \in LineFrame, f.nr = Len(sy.got) % Mod
    PROVE  AckOf(sx, f) = Len(sy.got)
  <1> DEFINE b == Base(sx)
             g == Len(sy.got)
  <1>1. sx \in StationRecord /\ Buffer(sx)
    BY DEF Core
  <1>2. b \in Int /\ sx.taken \in Nat /\ Len(sx.info) \in Nat /\ b = sx.taken - Len(sx.info)
    BY <1>1, Fields DEF Base
  <1>3. g \in Nat
    BY Fields
  <1>4. b <= g /\ g <= sx.taken /\ Len(sx.info) <= K
    BY <1>1 DEF Ends, Buffer
  <1>5. K \in Nat /\ Mod \in Nat \ {0} /\ Mod > 2 * K
    BY WindowFacts
  <1>6. AckOf(sx, f) = b + (((g % Mod) - b) % Mod)
    BY DEF AckOf
  <1> HIDE DEF b, g
  <1>7. g - b \in 0 .. Mod - 1
    BY ONLY <1>2, <1>3, <1>4, <1>5, SMTT(60)
  <1>8. ((g % Mod) + (-b)) % Mod = (g + (-b)) % Mod
    <2>1. g \in Int /\ -b \in Int
      BY <1>2, <1>3
    <2> QED
      BY <1>5, <2>1, ModAdd
  <1>9. g + (-b) = g - b /\ (g % Mod) + (-b) = (g % Mod) - b
    <2>1. g % Mod \in Int
      BY <1>3, <1>5, DivMod
    <2> QED
      BY <2>1, <1>2, <1>3
  <1>10. (g - b) % Mod = g - b
    BY <1>5, <1>7, ModSmall
  <1>11. b + (g - b) = g
    BY <1>2, <1>3
  <1> QED
    BY <1>6, <1>8, <1>9, <1>10, <1>11 DEF g

-----------------------------------------------------------------------------
(* Frames under way.                                                        *)

\* The first frame arrives or is lost.
LEMMA TrafficTail ==
    ASSUME NEW sy, NEW sx, NEW q \in Seq(LineFrame), Traffic(sy, sx, q), q # <<>>
    PROVE  /\ Traffic(sy, sx, Tail(q)) /\ Tail(q) \in Seq(LineFrame)
           /\ Head(q) \in LineFrame /\ Fits(sy, sx, Head(q))
           /\ \A i \in 1 .. Len(Tail(q)) : Follows(sx, Head(q), Tail(q)[i])
  <1> DEFINE w == Tail(q)
  <1>1. /\ w \in Seq(LineFrame) /\ Len(w) = Len(q) - 1 /\ Len(q) \in Nat /\ Len(q) >= 1
        /\ \A i \in 1 .. Len(w) : w[i] = q[i + 1] /\ i + 1 \in 1 .. Len(q)
    OBVIOUS
  <1>2. Head(q) = q[1] /\ 1 \in 1 .. Len(q) /\ Head(q) \in LineFrame
    BY <1>1
  <1> HIDE DEF w
  <1>3. ASSUME NEW i \in 1 .. Len(w) PROVE Fits(sy, sx, w[i]) /\ Follows(sx, Head(q), w[i])
    <2>1. w[i] = q[i + 1] /\ i + 1 \in 1 .. Len(q) /\ 1 < i + 1
      BY <1>1
    <2> QED
      BY <1>2, <2>1 DEF Traffic
  <1>4. ASSUME NEW i \in 1 .. Len(w), NEW j \in 1 .. Len(w), i < j PROVE Follows(sx, w[i], w[j])
    <2>1. /\ w[i] = q[i + 1] /\ i + 1 \in 1 .. Len(q) /\ w[j] = q[j + 1] /\ j + 1 \in 1 .. Len(q)
          /\ i + 1 < j + 1
      BY <1>1, <1>4
    <2> QED
      BY <2>1 DEF Traffic
  <1>5. Fits(sy, sx, Head(q))
    BY <1>2 DEF Traffic
  <1>6. Traffic(sy, sx, w)
    BY <1>3, <1>4 DEF Traffic
  <1> QED
    BY <1>1, <1>2, <1>3, <1>5, <1>6 DEF w

\* The last frames are thrown away, by a reset.
LEMMA TrafficPrefix ==
    ASSUME NEW sy, NEW sx, NEW q \in Seq(LineFrame), NEW w \in Seq(LineFrame), Traffic(sy, sx, q \o w)
    PROVE  Traffic(sy, sx, q)
  <1> DEFINE z == q \o w
  <1>1. Len(q) \in Nat /\ Len(w) \in Nat /\ Len(z) = Len(q) + Len(w)
        /\ \A i \in 1 .. Len(q) : z[i] = q[i]
    OBVIOUS
  <1>2. Traffic(sy, sx, z)
    OBVIOUS
  <1> HIDE DEF z
  <1>3. \A i \in 1 .. Len(q) : i \in 1 .. Len(z)
    BY <1>1
  <1>4. \A i \in 1 .. Len(q) : Fits(sy, sx, q[i])
    BY <1>1, <1>2, <1>3 DEF Traffic
  <1>5. \A i, j \in 1 .. Len(q) : i < j => Follows(sx, q[i], q[j])
    <2> SUFFICES ASSUME NEW i \in 1 .. Len(q), NEW j \in 1 .. Len(q), i < j
                 PROVE  Follows(sx, q[i], q[j])
      OBVIOUS
    <2>1. z[i] = q[i] /\ z[j] = q[j] /\ i \in 1 .. Len(z) /\ j \in 1 .. Len(z)
      BY <1>1, <1>3
    <2> QED
      BY <1>2, <2>1 DEF Traffic
  <1> QED
    BY <1>4, <1>5 DEF Traffic

\* Frames join the others.
LEMMA TrafficConcat ==
    ASSUME NEW sy, NEW sx, NEW q \in Seq(LineFrame), NEW w \in Seq(LineFrame),
           Traffic(sy, sx, q), Traffic(sy, sx, w),
           \A i \in 1 .. Len(q) : \A j \in 1 .. Len(w) : Follows(sx, q[i], w[j])
    PROVE  Traffic(sy, sx, q \o w)
  <1> DEFINE z == q \o w
  <1>1. Len(q) \in Nat /\ Len(w) \in Nat /\ Len(z) = Len(q) + Len(w)
        /\ \A i \in 1 .. Len(q) : z[i] = q[i]
    OBVIOUS
  <1>b. \A k \in 1 .. Len(w) : z[Len(q) + k] = w[k]
    OBVIOUS
  <1> HIDE DEF z
  <1>a. ASSUME NEW i \in 1 .. Len(z), i > Len(q)
        PROVE  \E k \in 1 .. Len(w) : i = Len(q) + k /\ z[i] = w[k]
    <2> DEFINE k == i - Len(q)
    <2>1. k \in 1 .. Len(w) /\ i = Len(q) + k
      BY <1>1, <1>a
    <2> HIDE DEF k
    <2>2. z[Len(q) + k] = w[k]
      BY ONLY <1>b, <2>1
    <2> QED
      BY <2>1, <2>2
  <1>2. ASSUME NEW i \in 1 .. Len(z) PROVE Fits(sy, sx, z[i])
    <2>1. CASE i <= Len(q)
      <3>1. i \in 1 .. Len(q)
        BY <1>1, <2>1
      <3> QED
        BY <1>1, <3>1 DEF Traffic
    <2>2. CASE i > Len(q)
      BY <1>a, <2>2 DEF Traffic
    <2> QED
      BY <1>1, <2>1, <2>2
  <1>3. ASSUME NEW i \in 1 .. Len(z), NEW j \in 1 .. Len(z), i < j
        PROVE  Follows(sx, z[i], z[j])
    <2>1. CASE j <= Len(q)
      <3>1. i \in 1 .. Len(q) /\ j \in 1 .. Len(q)
        BY <1>1, <1>3, <2>1
      <3> QED
        BY <1>1, <1>3, <3>1 DEF Traffic
    <2>2. CASE i <= Len(q) /\ j > Len(q)
      <3>1. i \in 1 .. Len(q) /\ z[i] = q[i]
        BY <1>1, <2>2
      <3>2. PICK k \in 1 .. Len(w) : z[j] = w[k]
        BY <1>a, <2>2
      <3> QED
        BY <3>1, <3>2
    <2>3. CASE i > Len(q)
      <3>1. j > Len(q)
        BY <1>1, <1>3, <2>3
      <3>2. PICK k \in 1 .. Len(w) : i = Len(q) + k /\ z[i] = w[k]
        BY <1>a, <2>3
      <3>3. PICK m \in 1 .. Len(w) : j = Len(q) + m /\ z[j] = w[m]
        BY <1>a, <3>1
      <3>4. k < m
        BY <1>1, <1>3, <3>2, <3>3
      <3> QED
        BY <3>2, <3>3, <3>4 DEF Traffic
    <2> QED
      BY <1>1, <2>1, <2>2, <2>3
  <1> QED
    BY <1>2, <1>3 DEF Traffic, z

\* A station changes, and what is under way fits it.
LEMMA TrafficChange ==
    ASSUME NEW sy, NEW sx, NEW uy, NEW ux, NEW q \in Seq(LineFrame), Traffic(sy, sx, q),
           \A i \in 1 .. Len(q) : Fits(sy, sx, q[i]) => Fits(uy, ux, q[i]),
           \A i, j \in 1 .. Len(q) : Follows(sx, q[i], q[j]) => Follows(ux, q[i], q[j])
    PROVE  Traffic(uy, ux, q)
  BY DEF Traffic

\* A frame may join the others that says what is next, or is no numbered frame.
LEMMA SaidFits ==
    ASSUME NEW sx, Core(sx), NEW sy \in StationRecord, Ends(sx, sy),
           NEW f \in LineFrame, f.k # "I", Numbered(f) => f.nr = Len(sy.got) % Mod
    PROVE  /\ Fits(sy, sx, f)
           /\ \A h \in LineFrame : Fits(sy, sx, h) => Follows(sx, h, f)
  <1>1. Len(sy.got) \in Nat
    BY Fields
  <1>2. Live(sx) /\ Numbered(f) => AckOf(sx, f) = Len(sy.got)
    BY NewestAck
  <1> QED
    BY <1>1, <1>2 DEF Fits, Follows

\* So may several.
LEMMA SaidJoin ==
    ASSUME NEW sx, Core(sx), NEW sy \in StationRecord, Ends(sx, sy),
           NEW q \in Seq(LineFrame), Traffic(sy, sx, q), NEW w \in Seq(LineFrame),
           \A i \in 1 .. Len(w) :
              w[i].k # "I" /\ (Numbered(w[i]) => w[i].nr = Len(sy.got) % Mod)
    PROVE  Traffic(sy, sx, q \o w)
  <1>1. ASSUME NEW i \in 1 .. Len(w)
        PROVE  /\ w[i] \in LineFrame /\ Fits(sy, sx, w[i])
               /\ \A h \in LineFrame : Fits(sy, sx, h) => Follows(sx, h, w[i])
    <2>1. w[i] \in LineFrame
      BY ElementOfSeq
    <2> QED
      BY <2>1, SaidFits
  <1>2. Traffic(sy, sx, w)
    BY <1>1 DEF Traffic
  <1>3. ASSUME NEW i \in 1 .. Len(q), NEW j \in 1 .. Len(w)
        PROVE  Follows(sx, q[i], w[j])
    <2>1. q[i] \in LineFrame
      BY ElementOfSeq
    <2>2. Fits(sy, sx, q[i])
      BY DEF Traffic
    <2> QED
      BY <1>1, <2>1, <2>2
  <1> QED
    BY <1>2, <1>3, TrafficConcat

-----------------------------------------------------------------------------
(* A station changes.                                                       *)

\* Nothing of what it was given, or has taken, does: it may forget what it had
\* to say, and say something else.
LEMMA CalmPair ==
    ASSUME NEW s, Core(s), NEW p, Core(p), NEW u \in StationRecord,
           NEW l \in Seq(LineFrame), NEW r \in Seq(LineFrame), Pair(s, p, l, r),
           u.taken = s.taken, u.got = s.got, u.freed = s.freed,
           Live(u) => Live(s) /\ Base(u) = Base(s),
           NEW c \in Seq(LineFrame), c = s.ctrl \/ c = <<>>,
           NEW w \in Seq(LineFrame), u.ctrl = c \o w,
           \A i \in 1 .. Len(w) :
              w[i].k # "I" /\ (Numbered(w[i]) => w[i].nr = Len(s.got) % Mod)
    PROVE  Pair(u, p, l, r)
  <1>1. s \in StationRecord /\ p \in StationRecord
    BY DEF Core
  <1>2. Ends(u, p) /\ Ends(p, u)
    BY DEF Pair, Ends
  <1>3. Traffic(s, p, l \o c)
    <2>1. CASE c = s.ctrl
      BY <2>1 DEF Pair
    <2>2. CASE c = <<>>
      <3> DEFINE z == s.ctrl
      <3>1. z \in Seq(CtrlFrame)
        BY <1>1, Fields
      <3>2. z \in Seq(LineFrame)
        BY <3>1 DEF CtrlFrame
      <3>3. Traffic(s, p, l \o z)
        BY DEF Pair
      <3> HIDE DEF z
      <3>4. Traffic(s, p, l)
        BY <3>2, <3>3, TrafficPrefix
      <3>5. l \o <<>> = l
        BY ONLY l \in Seq(LineFrame), ConcatEmptySeq
      <3> QED
        BY <2>2, <3>4, <3>5
    <2> QED
      BY <2>1, <2>2
  <1> DEFINE q == l \o c
  <1>4. q \in Seq(LineFrame)
    OBVIOUS
  <1>5. q \o w = l \o u.ctrl
    <2>1. (l \o c) \o w = l \o (c \o w)
      BY ONLY l \in Seq(LineFrame), c \in Seq(LineFrame), w \in Seq(LineFrame), ConcatAssociative, SMTT(60)
    <2> QED
      BY <2>1
  <1>6. Traffic(s, p, q)
    BY <1>3
  <1> HIDE DEF q
  <1>7. Traffic(u, p, q)
    <2>1. \A f : Fits(s, p, f) => Fits(u, p, f)
      BY DEF Fits
    <2> QED
      BY <1>4, <1>6, <2>1, TrafficChange
  <1>8. Traffic(u, p, q \o w)
    BY <1>2, <1>4, <1>7, SaidJoin
  <1>9. Traffic(p, u, r)
    <2>1. Live(u) => \A f : AckOf(u, f) = AckOf(s, f)
      BY DEF AckOf
    <2>2. \A f : Fits(p, s, f) => Fits(p, u, f)
      BY <2>1 DEF Fits
    <2>3. \A f, g : Follows(s, f, g) => Follows(u, f, g)
      BY <2>1 DEF Follows
    <2>4. Traffic(p, s, r)
      BY DEF Pair
    <2> QED
      BY <2>2, <2>3, <2>4, TrafficChange
  <1> QED
    BY <1>2, <1>5, <1>8, <1>9 DEF Pair

\* It lets frames go, takes others, and says what is next.
LEMMA MovesPair ==
    ASSUME NEW s, Core(s), s.state # "ESTABLISH", Good(s), NEW p, Core(p),
           NEW l \in Seq(LineFrame), NEW r \in Seq(LineFrame), Pair(s, p, l, r),
           NEW u, NEW n, Moves(s, u, n),
           \/ Base(u) = Base(s)
           \/ /\ Live(s) /\ Base(u) <= Len(p.got)
              /\ \A i \in 1 .. Len(r) : Numbered(r[i]) => Base(u) <= AckOf(s, r[i])
    PROVE  Good(u) /\ Pair(u, p, l, r)
  <1>1. s \in StationRecord /\ p \in StationRecord /\ u \in StationRecord /\ Core(u)
    BY DEF Core, Moves
  <1>2. /\ Base(s) \in Int /\ Base(u) \in Int /\ s.va \in Int /\ Len(p.got) \in Nat
        /\ s.taken \in Nat /\ u.taken \in Nat /\ p.taken \in Nat /\ Len(s.got) \in Nat
    BY <1>1, Fields
  <1>3. /\ u.got = s.got /\ u.vr = s.vr /\ u.taken >= s.taken /\ Base(u) >= Base(s)
        /\ u.va = (s.va + (Base(u) - Base(s))) % Mod
        /\ u.freed = IF Base(u) > Base(s) THEN Base(u) ELSE s.freed
        /\ u.state \in {s.state, "RELEASE"}
    BY DEF Moves
  <1>4. Live(u) => Live(s)
    BY <1>3 DEF Live
  <1>5. Good(u)
    <2> DEFINE b == Base(s)
               d == Base(u) - Base(s)
    <2>1. b \in Int /\ d \in Int /\ Mod \in Nat \ {0} /\ b + d = Base(u)
      BY <1>2, WindowFacts
    <2>2. u.va = ((b % Mod) + d) % Mod
      BY <1>3 DEF Good
    <2> HIDE DEF b, d
    <2>3. ((b % Mod) + d) % Mod = (b + d) % Mod
      BY <2>1, ModAdd
    <2> QED
      BY <1>3, <2>1, <2>2, <2>3 DEF Good
  <1>6. Ends(u, p)
    <2>1. /\ Len(p.got) <= s.taken /\ \A i \in 1 .. Len(p.got) : p.got[i] = i
          /\ s.freed <= Len(p.got) /\ (Live(s) => Base(s) <= Len(p.got))
      BY DEF Pair, Ends
    <2>2. Len(p.got) <= u.taken
      BY <1>2, <1>3, <2>1, SMTT(60)
    <2>3. u.freed <= Len(p.got)
      BY <1>2, <1>3, <2>1
    <2>4. Live(u) => Base(u) <= Len(p.got)
      BY <1>4, <2>1
    <2> QED
      BY <2>1, <2>2, <2>3, <2>4 DEF Ends
  <1>7. Ends(p, u)
    BY <1>3 DEF Pair, Ends
  <1>8. Traffic(u, p, l \o u.ctrl)
    <2>1. PICK w \in Seq(Said(s.vr)) : u.ctrl = s.ctrl \o w
      BY DEF Moves
    <2>2. ASSUME NEW i \in 1 .. Len(w)
          PROVE  w[i].k # "I" /\ (Numbered(w[i]) => w[i].nr = Len(u.got) % Mod)
      <3>1. w[i] \in Said(s.vr)
        BY ElementOfSeq
      <3> QED
        BY <1>3, <3>1 DEF Said, CtrlFrame, Numbered, Supervisory, Good
    <2> DEFINE c == s.ctrl
               q == l \o c
    <2>3. c \in Seq(LineFrame) /\ w \in Seq(LineFrame)
      <3>1. c \in Seq(CtrlFrame)
        BY <1>1, Fields
      <3>2. Said(s.vr) \subseteq LineFrame /\ CtrlFrame \subseteq LineFrame
        BY DEF Said, CtrlFrame
      <3> QED
        BY <3>1, <3>2
    <2>4. Traffic(s, p, q)
      BY DEF Pair
    <2>5. u.ctrl = c \o w
      BY <2>1
    <2> HIDE DEF c
    <2>6. q \in Seq(LineFrame)
      BY <2>3
    <2>7. q \o w = l \o (c \o w)
      BY ONLY <2>3, l \in Seq(LineFrame), ConcatAssociative, SMTT(60)
    <2> HIDE DEF q
    <2>8. Traffic(u, p, q)
      <3>1. ASSUME NEW i \in 1 .. Len(q), Fits(s, p, q[i])
            PROVE  Fits(u, p, q[i])
        <4>1. q[i] \in LineFrame
          BY <2>6, ElementOfSeq
        <4>2. q[i].msg \in Nat
          BY <4>1 DEF LineFrame
        <4>3. \A m \in Nat : m \in 1 .. s.taken => m \in 1 .. u.taken
          BY <1>2, <1>3, SMTT(60)
        <4> QED
          BY <1>3, <3>1, <4>2, <4>3 DEF Fits
      <3> QED
        BY <2>4, <2>6, <3>1, TrafficChange
    <2>9. Traffic(u, p, q \o w)
      BY <1>1, <1>7, <2>2, <2>3, <2>6, <2>8, SaidJoin
    <2> QED
      BY <2>5, <2>7, <2>9
  <1>9. Traffic(p, u, r)
    <2>1. ASSUME NEW i \in 1 .. Len(r), Numbered(r[i]), Live(s)
          PROVE  AckOf(u, r[i]) = AckOf(s, r[i])
      <3>1. r[i] \in LineFrame
        BY ElementOfSeq
      <3>2. Base(u) <= AckOf(s, r[i])
        BY <1>1, <1>2, <2>1, <3>1, AckFacts
      <3> QED
        BY <1>1, <1>3, <3>1, <3>2, <1>2, AckMoved
    <2>2. ASSUME NEW i \in 1 .. Len(r), Fits(p, s, r[i])
          PROVE  Fits(p, u, r[i])
      BY <1>3, <1>4, <2>1, <2>2 DEF Fits
    <2>3. ASSUME NEW i \in 1 .. Len(r), NEW j \in 1 .. Len(r), Follows(s, r[i], r[j])
          PROVE  Follows(u, r[i], r[j])
      BY <1>4, <2>1, <2>3 DEF Follows
    <2>4. Traffic(p, s, r)
      BY DEF Pair
    <2> QED
      BY <2>2, <2>3, <2>4, TrafficChange
  <1> QED
    BY <1>5, <1>6, <1>7, <1>8, <1>9 DEF Pair

\* It is handed the next frame.
LEMMA HandedPair ==
    ASSUME NEW s, Core(s), Good(s), NEW p, Core(p),
           NEW l \in Seq(LineFrame), NEW r \in Seq(LineFrame), Pair(s, p, l, r),
           NEW f \in LineFrame, f.msg \in 1 .. p.taken, f.ns = (f.msg - 1) % Mod, f.ns = s.vr,
           Len(s.got) - f.msg < K, f.msg - Len(s.got) <= K,
           \A i \in 1 .. Len(r) : r[i].k = "I" => f.msg - r[i].msg < K
    PROVE  Good(HandedOver(s, f)) /\ Pair(HandedOver(s, f), p, l, r)
  <1> DEFINE g == Len(s.got)
             m == f.msg
             d == HandedOver(s, f)
  <1>1. s \in StationRecord /\ p \in StationRecord
    BY DEF Core
  <1>2. g \in Nat /\ m \in Nat /\ m >= 1 /\ p.taken \in Nat /\ m <= p.taken /\ s.got \in Seq(Nat)
        /\ Len(p.got) \in Nat
    BY <1>1, Fields, SMTT(60)
  <1>3. K \in Nat \ {0} /\ Mod \in Nat \ {0} /\ Mod > 2 * K
    BY WindowFacts
  <1>4. /\ Core(d) /\ d.got = Append(s.got, m) /\ d.vr = (s.vr + 1) % Mod
        /\ d.va = s.va /\ d.taken = s.taken /\ d.freed = s.freed /\ d.ctrl = s.ctrl
        /\ d.state = s.state /\ Base(d) = Base(s)
    BY HandedOverFields
  <1>5. (m - 1) % Mod = g % Mod
    BY DEF Good
  <1>6. g - m < K /\ m - g <= K
    OBVIOUS
  <1> HIDE DEF g, m, d
  <1>7. m = g + 1
    <2>1. m - 1 \in Int /\ g \in Int
      BY <1>2
    <2>2. CASE m - 1 <= g
      <3>1. g - (m - 1) < Mod
        BY ONLY <1>2, <1>3, <1>6
      <3>2. m - 1 = g
        BY <1>3, <1>5, <2>1, <2>2, <3>1, ModInjective
      <3> QED
        BY <1>2, <3>2
    <2>3. CASE g <= m - 1
      <3>1. (m - 1) - g < Mod
        BY ONLY <1>2, <1>3, <1>6
      <3>2. g = m - 1
        BY <1>3, <1>5, <2>1, <2>3, <3>1, ModInjective
      <3> QED
        BY <1>2, <3>2
    <2> QED
      BY <2>1, <2>2, <2>3
  <1>8. Len(d.got) = g + 1 /\ \A i \in 1 .. g + 1 : d.got[i] = IF i = g + 1 THEN m ELSE s.got[i]
    <2> DEFINE z == s.got
    <2>1. z \in Seq(Nat) /\ g = Len(z) /\ d.got = Append(z, m)
      BY <1>2, <1>4 DEF g
    <2> HIDE DEF z
    <2>2. Len(d.got) = g + 1
      BY <2>1, <1>2
    <2>3. ASSUME NEW i \in 1 .. g + 1 PROVE d.got[i] = IF i = g + 1 THEN m ELSE z[i]
      BY <2>1, <1>2, SMTT(60)
    <2> QED
      BY <2>2, <2>3 DEF z
  <1>9. Good(d)
    <2>1. ((g % Mod) + 1) % Mod = (g + 1) % Mod
      <3>1. g \in Int /\ 1 \in Int
        BY <1>2
      <3> QED
        BY ONLY <3>1, <1>3, ModAdd
    <2>2. s.vr = g % Mod
      BY DEF Good, g
    <2> QED
      BY <1>4, <1>8, <2>1, <2>2 DEF Good
  <1>10. Ends(d, p)
    BY <1>4 DEF Pair, Ends, Live
  <1>11. Ends(p, d)
    <2>1. /\ \A i \in 1 .. g : s.got[i] = i
          /\ p.freed <= g /\ (Live(p) => Base(p) <= g)
      BY DEF Pair, Ends, g
    <2>2. ASSUME NEW i \in 1 .. g + 1
          PROVE  d.got[i] = i
      <3>1. d.got[i] = IF i = g + 1 THEN m ELSE s.got[i]
        BY <1>8
      <3>2. i = g + 1 \/ i \in 1 .. g
        BY ONLY <1>2, <2>2
      <3> QED
        BY <1>7, <2>1, <3>1, <3>2
    <2>3. p.freed <= g + 1 /\ (Live(p) => Base(p) <= g + 1)
      <3>1. p.freed \in Int /\ Base(p) \in Int
        BY <1>1, Fields
      <3> QED
        BY <1>2, <2>1, <3>1
    <2>4. g + 1 <= p.taken
      BY <1>2, <1>7
    <2> QED
      BY <1>8, <2>2, <2>3, <2>4 DEF Ends
  <1> DEFINE q == l \o s.ctrl
  <1>12. q \in Seq(LineFrame) /\ Traffic(s, p, q) /\ q = l \o d.ctrl
    <2>1. s.ctrl \in Seq(CtrlFrame) /\ CtrlFrame \subseteq LineFrame
      BY <1>1, Fields DEF CtrlFrame
    <2>2. s.ctrl \in Seq(LineFrame)
      BY <2>1
    <2> QED
      BY <1>4, <2>2 DEF Pair
  <1> HIDE DEF q
  <1>13. Traffic(d, p, q)
    <2>1. ASSUME NEW i \in 1 .. Len(q), Fits(s, p, q[i])
          PROVE  Fits(d, p, q[i])
      <3>1. AckOf(p, q[i]) \in Int
        <4>1. q[i] \in LineFrame
          BY <1>12, ElementOfSeq
        <4> QED
          BY <1>1, <4>1, AckFacts
      <3>2. Live(p) /\ Numbered(q[i]) => AckOf(p, q[i]) <= g
        BY <2>1 DEF Fits, g
      <3>3. Live(p) /\ Numbered(q[i]) => AckOf(p, q[i]) <= Len(d.got)
        BY <1>2, <1>8, <3>1, <3>2
      <3> QED
        BY <1>4, <2>1, <3>3 DEF Fits
    <2> QED
      BY <1>12, <2>1, TrafficChange
  <1>14. Traffic(p, d, r)
    <2>1. \A h : AckOf(d, h) = AckOf(s, h)
      BY <1>4 DEF AckOf
    <2>2. ASSUME NEW i \in 1 .. Len(r), Fits(p, s, r[i])
          PROVE  Fits(p, d, r[i])
      <3>1. r[i].k = "I" => Len(d.got) - r[i].msg < K /\ r[i].msg - Len(d.got) <= K
        <4>1. ASSUME r[i].k = "I"
              PROVE  Len(d.got) - r[i].msg < K /\ r[i].msg - Len(d.got) <= K
          <5>1. m - r[i].msg < K /\ g - r[i].msg < K /\ r[i].msg - g <= K
            BY <2>2, <4>1 DEF Fits, m, g
          <5>2. r[i].msg \in Nat
            <6>1. r[i] \in LineFrame
              BY ElementOfSeq
            <6> QED
              BY <6>1 DEF LineFrame
          <5> DEFINE k == r[i].msg
          <5>3. k \in Nat /\ m - k < K /\ k - g <= K
            BY <5>1, <5>2
          <5> HIDE DEF k
          <5>4. (g + 1) - k < K /\ k - (g + 1) <= K
            BY ONLY <5>3, <1>2, <1>3, <1>7
          <5> QED
            BY <5>4, <1>8 DEF k
        <4> QED
          BY <4>1
      <3> QED
        BY <1>4, <2>1, <2>2, <3>1 DEF Fits, Live
    <2>3. \A h, k : Follows(s, h, k) => Follows(d, h, k)
      BY <1>4, <2>1 DEF Follows, Live
    <2>4. Traffic(p, s, r)
      BY DEF Pair
    <2> QED
      BY <2>2, <2>3, <2>4, TrafficChange
  <1> QED
    BY <1>9, <1>10, <1>11, <1>12, <1>13, <1>14 DEF Pair, d

\* A link handles a frame of data transfer.
LEMMA HandlesPair ==
    ASSUME NEW s, Core(s), s.state = "DATA", Good(s), NEW p, Core(p),
           NEW l \in Seq(LineFrame), NEW r \in Seq(LineFrame), r # <<>>, Pair(s, p, l, r),
           Numbered(Head(r)), NEW u, Handles(s, u, Head(r))
    PROVE  Good(u) /\ Pair(u, p, l, Tail(r))
  <1> DEFINE f == Head(r)
             t == Tail(r)
             n == (f.nr - s.va) % Mod
  <1>1. s \in StationRecord /\ p \in StationRecord
    BY DEF Core
  <1>2. Traffic(p, s, r)
    BY DEF Pair
  <1>3. /\ Traffic(p, s, t) /\ t \in Seq(LineFrame) /\ f \in LineFrame /\ Fits(p, s, f)
        /\ \A i \in 1 .. Len(t) : Follows(s, f, t[i])
    BY <1>2, TrafficTail
  <1>4. PICK a, d : /\ Moves(s, a, n)
                    /\ d = a \/ (f.k = "I" /\ f.ns = a.vr /\ d = HandedOver(a, f))
                    /\ Moves(d, u, 0)
    BY DEF Handles
  <1>a. n = (f.nr - s.va) % Mod /\ Numbered(f) /\ Pair(s, p, l, t)
    BY <1>3 DEF Pair
  <1> HIDE DEF f, t, n
  <1>5. /\ AckOf(s, f) \in Int /\ Base(s) \in Int /\ f.nr \in Int
        /\ AckOf(s, f) - Base(s) = (f.nr - Base(s)) % Mod
    BY <1>1, <1>3, AckFacts
  <1>6. n = AckOf(s, f) - Base(s)
    <2>1. (f.nr - (Base(s) % Mod)) % Mod = (f.nr - Base(s)) % Mod
      BY <1>5, ModSub, WindowFacts
    <2> QED
      BY <1>5, <1>a, <2>1 DEF Good
  <1>7. Live(s) /\ s.state # "ESTABLISH"
    BY DEF Live
  <1>8. Core(a) /\ a.state # "ESTABLISH" /\ a.got = s.got /\ Base(a) \in Int
        /\ Base(a) >= Base(s) /\ Base(a) <= Base(s) + n
    <2>1. Core(a)
      BY <1>4 DEF Moves
    <2>2. Base(a) \in Int
      BY <2>1, Fields DEF Core
    <2> QED
      BY <1>4, <1>7, <2>1, <2>2 DEF Moves
  <1>9. Base(a) <= AckOf(s, f)
    BY ONLY <1>5, <1>6, <1>8
  <1>10. Base(a) <= Len(p.got)
    <2>1. AckOf(s, f) <= Len(p.got) /\ Len(p.got) \in Nat
      BY <1>1, <1>3, <1>7, <1>a, Fields DEF Fits
    <2> QED
      BY ONLY <1>5, <1>8, <1>9, <2>1
  <1>11. ASSUME NEW i \in 1 .. Len(t), Numbered(t[i])
         PROVE  Base(a) <= AckOf(s, t[i])
    <2>1. AckOf(s, f) <= AckOf(s, t[i])
      BY <1>3, <1>7, <1>11, <1>a DEF Follows
    <2>2. AckOf(s, t[i]) \in Int
      <3>1. t[i] \in LineFrame
        BY <1>3, ElementOfSeq
      <3> QED
        BY <1>1, <3>1, AckFacts
    <2> QED
      BY ONLY <1>5, <1>8, <1>9, <2>1, <2>2
  <1>12. Good(a) /\ Pair(a, p, l, t)
    BY <1>3, <1>4, <1>7, <1>10, <1>11, <1>a, MovesPair
  <1>13. Core(d) /\ d.state # "ESTABLISH" /\ Good(d) /\ Pair(d, p, l, t)
    <2>1. CASE d = a
      BY <1>8, <1>12, <2>1
    <2>2. CASE f.k = "I" /\ f.ns = a.vr /\ d = HandedOver(a, f)
      <3>1. Core(d) /\ d.state # "ESTABLISH"
        BY <1>3, <1>8, <2>2, HandedOverFields
      <3>2. /\ f.msg \in 1 .. p.taken /\ f.ns = (f.msg - 1) % Mod
            /\ Len(a.got) - f.msg < K /\ f.msg - Len(a.got) <= K
        BY <1>3, <1>8, <2>2 DEF Fits
      <3>3. \A i \in 1 .. Len(t) : t[i].k = "I" => f.msg - t[i].msg < K
        BY <1>3, <2>2 DEF Follows
      <3>4. Good(d) /\ Pair(d, p, l, t)
        BY <1>3, <1>8, <1>12, <2>2, <3>2, <3>3, HandedPair
      <3> QED
        BY <3>1, <3>4
    <2> QED
      BY <1>4, <2>1, <2>2
  <1>14. Base(u) = Base(d)
    <2>1. Base(d) \in Int /\ Base(u) \in Int
      BY <1>4, <1>13, Fields DEF Moves, Core
    <2>2. Base(u) >= Base(d) /\ Base(u) <= Base(d) + 0
      BY <1>4 DEF Moves
    <2> QED
      BY ONLY <2>1, <2>2
  <1>15. Good(u) /\ Pair(u, p, l, t)
    BY <1>3, <1>4, <1>13, <1>14, MovesPair
  <1> QED
    BY <1>15 DEF t

\* A frame of the buffer joins those under way.
LEMMA InformsPair ==
    ASSUME NEW s, Core(s), Good(s), NEW p, Core(p),
           NEW l \in Seq(LineFrame), NEW r \in Seq(LineFrame), Pair(s, p, l, r),
           NEW u, NEW f, Informs(s, u, f)
    PROVE  Good(u) /\ Pair(u, p, Append(l, f), r)
  <1>1. /\ Moves(s, u, 0) /\ s.state = "DATA" /\ u.state = "DATA" /\ s.ctrl = <<>> /\ u.ctrl = <<>>
        /\ f \in LineFrame /\ f.k = "I" /\ f.nr = s.vr
        /\ f.msg \in 1 .. u.taken /\ f.msg > Base(u) /\ f.ns = Place(u, f.msg)
    BY DEF Informs
  <1>2. Core(u) /\ u \in StationRecord /\ s \in StationRecord /\ p \in StationRecord /\ Buffer(u)
        /\ u.vr = s.vr
    BY <1>1 DEF Moves, Core
  <1>3. /\ Base(u) \in Int /\ Base(s) \in Int /\ u.taken \in Nat /\ Len(u.info) \in Nat
        /\ Len(p.got) \in Nat
    BY <1>2, Fields
  <1>4. Good(u) /\ Pair(u, p, l, r)
    <2>1. Base(u) >= Base(s) /\ Base(u) <= Base(s) + 0
      BY <1>1 DEF Moves
    <2>2. Base(u) = Base(s)
      BY ONLY <1>3, <2>1
    <2> QED
      BY <1>1, <2>2, MovesPair
  <1>5. Traffic(u, p, l) /\ Ends(u, p) /\ Ends(p, u)
    <2>1. l \o <<>> = l
      BY ONLY l \in Seq(LineFrame), ConcatEmptySeq
    <2> QED
      BY <1>1, <1>4, <2>1 DEF Pair
  <1> DEFINE m == f.msg
             g == Len(p.got)
             b == Base(u)
  <1>6. m \in Nat /\ m >= 1 /\ m <= u.taken /\ m > b /\ b <= g /\ g <= u.taken
        /\ b = u.taken - Len(u.info) /\ Len(u.info) <= K /\ K \in Nat
    BY <1>1, <1>2, <1>3, <1>5, WindowFacts DEF Ends, Live, Buffer, Base
  <1>7. f.ns = (m - 1) % Mod
    <2>1. f.ns = ((b % Mod) + (m - b - 1)) % Mod
      BY <1>1, <1>4 DEF Place, Good
    <2>2. b \in Int /\ m - b - 1 \in Int /\ Mod \in Nat \ {0} /\ b + (m - b - 1) = m - 1
      BY <1>3, <1>6, WindowFacts, SMTT(60)
    <2> HIDE DEF b, m
    <2>3. ((b % Mod) + (m - b - 1)) % Mod = (b + (m - b - 1)) % Mod
      BY ONLY <2>2, ModAdd
    <2> QED
      BY <2>1, <2>2, <2>3
  <1>8. Live(p) => AckOf(p, f) = Len(u.got)
    BY <1>1, <1>2, <1>4, <1>5, NewestAck DEF Good
  <1>9. Len(u.got) \in Nat
    BY <1>2, Fields
  <1>10. g - m < K /\ m - g <= K
    <2>1. g \in Nat /\ b \in Int
      BY <1>3
    <2> HIDE DEF b, g, m
    <2> QED
      BY ONLY <1>3, <1>6, <2>1, SMTT(60)
  <1>11. Fits(u, p, f)
    <2>1. Live(p) => AckOf(p, f) <= Len(u.got)
      BY <1>8, <1>9
    <2> QED
      BY <1>1, <1>7, <1>10, <2>1 DEF Fits
  <1>12. ASSUME NEW i \in 1 .. Len(l) PROVE Follows(p, l[i], f)
    <2>1. l[i] \in LineFrame /\ Fits(u, p, l[i])
      BY <1>5, ElementOfSeq DEF Traffic
    <2>2. l[i].k = "I" => l[i].msg - f.msg < K
      <3>1. ASSUME l[i].k = "I" PROVE l[i].msg - m < K
        <4>1. l[i].msg \in 1 .. u.taken
          BY <2>1, <3>1 DEF Fits
        <4> DEFINE k == l[i].msg
        <4>2. k \in 1 .. u.taken
          BY <4>1
        <4> HIDE DEF k, m, b, g
        <4>3. k - m < K
          BY ONLY <1>3, <1>6, <4>2, SMTT(60)
        <4> QED
          BY <4>3 DEF k
      <3> QED
        BY <3>1
    <2>3. Live(p) /\ Numbered(l[i]) => AckOf(p, l[i]) <= AckOf(p, f)
      BY <1>8, <2>1 DEF Fits
    <2> QED
      BY <2>2, <2>3 DEF Follows
  <1>13. Traffic(u, p, Append(l, f))
    <2> DEFINE w == <<f>>
    <2>1. w \in Seq(LineFrame) /\ Len(w) = 1 /\ w[1] = f
      BY <1>1
    <2>2. Append(l, f) = l \o w
      BY ONLY <1>1, l \in Seq(LineFrame), AppendIsConcat
    <2> HIDE DEF w
    <2>3. Traffic(u, p, w)
      <3>1. \A i \in 1 .. Len(w) : i = 1
        BY <2>1
      <3>2. \A i, j \in 1 .. Len(w) : ~ (i < j)
        BY <2>1
      <3> QED
        BY <1>11, <2>1, <3>1, <3>2 DEF Traffic
    <2>4. \A i \in 1 .. Len(l) : \A j \in 1 .. Len(w) : Follows(p, l[i], w[j])
      <3>1. \A j \in 1 .. Len(w) : w[j] = f
        BY <2>1
      <3> QED
        BY <1>12, <3>1
    <2> QED
      BY <1>5, <2>1, <2>2, <2>3, <2>4, TrafficConcat
  <1>14. Append(l, f) \o u.ctrl = Append(l, f)
    <2> DEFINE w == Append(l, f)
    <2>1. w \in Seq(LineFrame)
      BY <1>1
    <2> HIDE DEF w
    <2>2. w \o <<>> = w
      BY ONLY <2>1, ConcatEmptySeq
    <2> QED
      BY <1>1, <2>2 DEF w
  <1> QED
    BY <1>4, <1>13, <1>14 DEF Pair

\* The first frame on its way to a station leaves.
LEMMA PairTail ==
    ASSUME NEW s, NEW p, NEW l, NEW r \in Seq(LineFrame), r # <<>>, Pair(s, p, l, r)
    PROVE  Pair(s, p, l, Tail(r)) /\ Tail(r) \in Seq(LineFrame) /\ Head(r) \in LineFrame
  BY TrafficTail DEF Pair

\* What a station queues by itself says what is next, if it has a number.
Adds(s, u) ==
    \/ u.ctrl = s.ctrl
    \/ \E f \in CtrlFrame : /\ u.ctrl = Append(s.ctrl, f)
                            /\ Numbered(f) => Live(s) /\ f.nr = s.vr

\* A station says something, and perhaps leaves the link.
LEMMA AlikePair ==
    ASSUME NEW s, Core(s), Live(s) => Good(s), NEW p, Core(p),
           NEW l \in Seq(LineFrame), NEW r \in Seq(LineFrame), Pair(s, p, l, r),
           NEW u, Alike(s, u), Live(u) => Live(s), Adds(s, u)
    PROVE  (Live(u) => Good(u)) /\ Pair(u, p, l, r)
  <1>1. /\ u \in StationRecord /\ u.taken = s.taken /\ u.got = s.got /\ u.freed = s.freed
        /\ u.vr = s.vr /\ u.va = s.va /\ Base(u) = Base(s) /\ s \in StationRecord
    BY DEF Alike, Base, Core
  <1> DEFINE c == s.ctrl
  <1>2. c \in Seq(CtrlFrame) /\ c \in Seq(LineFrame)
    <2>1. s.ctrl \in Seq(CtrlFrame) /\ CtrlFrame \subseteq LineFrame
      BY <1>1, Fields DEF CtrlFrame
    <2> QED
      BY <2>1
  <1> DEFINE Joins(w) ==
               /\ u.ctrl = c \o w
               /\ \A i \in 1 .. Len(w) :
                     w[i].k # "I" /\ (Numbered(w[i]) => w[i].nr = Len(s.got) % Mod)
  <1>3. \E w \in Seq(LineFrame) : Joins(w)
    <2>1. CASE u.ctrl = c
      <3>1. c \o <<>> = c
        BY ONLY <1>2, ConcatEmptySeq
      <3>2. <<>> \in Seq(LineFrame) /\ \A i \in 1 .. Len(<<>>) : FALSE
        OBVIOUS
      <3> QED
        BY <2>1, <3>1, <3>2
    <2>2. ASSUME NEW f \in CtrlFrame, u.ctrl = Append(c, f), Numbered(f) => Live(s) /\ f.nr = s.vr
          PROVE  \E w \in Seq(LineFrame) : Joins(w)
      <3>1. Append(c, f) = c \o <<f>>
        BY ONLY <1>2, f \in CtrlFrame, AppendIsConcat
      <3>2. <<f>> \in Seq(LineFrame) /\ f.k # "I" /\ \A i \in 1 .. Len(<<f>>) : <<f>>[i] = f
        BY DEF CtrlFrame
      <3>3. Numbered(f) => f.nr = Len(s.got) % Mod
        BY <2>2 DEF Good
      <3>4. Joins(<<f>>)
        BY <2>2, <3>1, <3>2, <3>3
      <3> HIDE DEF Joins
      <3> QED
        BY <3>2, <3>4
    <2> QED
      BY <2>1, <2>2 DEF Adds
  <1>4. Pair(u, p, l, r)
    <2>1. PICK w \in Seq(LineFrame) : Joins(w)
      BY <1>3
    <2>2. c = s.ctrl \/ c = <<>>
      OBVIOUS
    <2> HIDE DEF c
    <2> QED
      BY <1>1, <1>2, <2>1, <2>2, CalmPair
  <1>5. Live(u) => Good(u)
    BY <1>1 DEF Good
  <1> QED
    BY <1>4, <1>5

\* A link ends.
LEMMA EndingPair ==
    ASSUME NEW s, Core(s), NEW p, Core(p),
           NEW l \in Seq(LineFrame), NEW r \in Seq(LineFrame), Pair(s, p, l, r),
           NEW u \in StationRecord, ~Live(u),
           u.taken = s.taken, u.got = s.got, u.freed = s.freed,
           \/ u.ctrl = <<>>
           \/ \E f \in CtrlFrame : u.ctrl = <<f>> /\ ~Numbered(f)
    PROVE  Pair(u, p, l, r)
  <1> DEFINE w == u.ctrl
  <1>1. w \in Seq(CtrlFrame) /\ CtrlFrame \subseteq LineFrame
    BY Fields DEF CtrlFrame
  <1>2. w \in Seq(LineFrame) /\ <<>> \in Seq(LineFrame)
    BY <1>1
  <1>3. ASSUME NEW i \in 1 .. Len(w)
        PROVE  w[i].k # "I" /\ (Numbered(w[i]) => w[i].nr = Len(s.got) % Mod)
    <2>1. CASE w = <<>>
      BY <2>1
    <2>2. ASSUME NEW f \in CtrlFrame, w = <<f>>, ~Numbered(f)
          PROVE  w[i].k # "I" /\ ~Numbered(w[i])
      <3>1. w[i] = f
        BY <2>2
      <3> QED
        BY <2>2, <3>1 DEF CtrlFrame
    <2> QED
      BY <2>1, <2>2
  <1>4. <<>> \o w = w
    BY ONLY <1>2, ConcatEmptySeq
  <1>5. u.ctrl = <<>> \o w
    BY <1>4
  <1> HIDE DEF w
  <1> QED
    BY <1>2, <1>3, <1>5, CalmPair

\* A frame arrives that does not begin a link.
LEMMA ReceivePair ==
    ASSUME NEW s, Core(s), Live(s) => Good(s), NEW p, Core(p),
           NEW l \in Seq(LineFrame), NEW r \in Seq(LineFrame), r # <<>>, Pair(s, p, l, r),
           NEW u, Receives(s, u, Head(r)),
           s.state # "ESTABLISH", Head(r).k # "SABME", ~ (s.configuring /\ s.state = "IDLE")
    PROVE  (Live(u) => Good(u)) /\ Pair(u, p, l, Tail(r))
  <1> DEFINE f == Head(r)
             t == Tail(r)
  <1>1. Pair(s, p, l, t) /\ t \in Seq(LineFrame) /\ f \in LineFrame
    BY PairTail
  <1>2. \A b \in BOOLEAN : /\ Frame("UA", FALSE, b) \in CtrlFrame /\ ~Numbered(Frame("UA", FALSE, b))
                           /\ Frame("DM", FALSE, b) \in CtrlFrame /\ ~Numbered(Frame("DM", FALSE, b))
                           /\ Frame("XID", FALSE, b) \in CtrlFrame /\ ~Numbered(Frame("XID", FALSE, b))
    BY FramesMade DEF Unnumbered, Numbered, Supervisory, Frame
  <1>3. CASE Linking(s, u, f)
    <2>1. Numbered(f) /\ s.state = "DATA" /\ Handles(s, u, f)
      BY <1>3 DEF Linking
    <2> HIDE DEF f, t
    <2>2. Good(s)
      BY <2>1 DEF Live
    <2> QED
      BY <2>1, <2>2, HandlesPair DEF f, t
  <1>4. CASE Ending(s, u, f)
    <2>1. f.pf \in BOOLEAN
      BY <1>1 DEF LineFrame
    <2> HIDE DEF f, t
    <2>2. /\ u \in StationRecord /\ ~Live(u) /\ u.taken = s.taken /\ u.got = s.got /\ u.freed = s.freed
          /\ \/ u.ctrl = <<>>
             \/ u.ctrl = <<Frame("UA", FALSE, f.pf)>>
      BY <1>4 DEF Ending, Reborn, Live
    <2>3. u.ctrl = <<>> \/ \E g \in CtrlFrame : u.ctrl = <<g>> /\ ~Numbered(g)
      BY <1>2, <2>1, <2>2
    <2>4. Pair(u, p, l, t)
      BY <1>1, <2>2, <2>3, EndingPair
    <2> QED
      BY <2>2, <2>4 DEF t
  <1>5. CASE Ignoring(s, u, f)
    <2> HIDE DEF f, t
    <2>1. Alike(s, u) /\ (Live(u) => Live(s))
          /\ \/ u.ctrl = s.ctrl
             \/ u.ctrl = Append(s.ctrl, Frame("DM", FALSE, TRUE))
             \/ u.ctrl = Append(s.ctrl, Frame("XID", FALSE, FALSE))
      BY <1>5 DEF Ignoring, Live
    <2>2. Adds(s, u)
      BY <1>2, <2>1 DEF Adds
    <2> QED
      BY <1>1, <2>1, <2>2, AlikePair DEF t
  <1>6. ~Accepting(s, u, f) /\ ~Confirming(s, u, f) /\ ~Asking(s, u, f)
    BY DEF Accepting, Confirming, Asking
  <1> QED
    BY <1>3, <1>4, <1>5, <1>6 DEF Receives

\* So does all that a station does by itself.
LEMMA AloneAdds ==
    ASSUME NEW x, NEW s, NEW u, Alone(x, s, u)
    PROVE  Alike(s, u) /\ (Live(u) => Live(s)) /\ Adds(s, u)
  <1>1. /\ Frame("DISC", TRUE, TRUE) \in CtrlFrame /\ ~Numbered(Frame("DISC", TRUE, TRUE))
        /\ Frame("SABME", TRUE, TRUE) \in CtrlFrame /\ ~Numbered(Frame("SABME", TRUE, TRUE))
        /\ Frame("XID", TRUE, FALSE) \in CtrlFrame /\ ~Numbered(Frame("XID", TRUE, FALSE))
    BY FramesMade DEF Unnumbered, Numbered, Supervisory, Frame
  <1>2. \A f \in Said(s.vr) : f \in CtrlFrame /\ (Numbered(f) => f.nr = s.vr)
    BY DEF Said, CtrlFrame, Numbered, Supervisory
  <1>3. ASSUME NEW f \in CtrlFrame, NEW q, NEW t, Speaks(s, u, f, q, t),
               q \in {s.state, "RELEASE"}, Numbered(f) => s.state = "DATA" /\ f.nr = s.vr
        PROVE  Alike(s, u) /\ (Live(u) => Live(s)) /\ Adds(s, u)
    BY <1>3 DEF Speaks, Live, Adds
  <1>4. ASSUME Alike(s, u), u.ctrl = s.ctrl, u.state \in {s.state, "IDLE", "RELEASE", "UNSUPPORTED"}
        PROVE  Alike(s, u) /\ (Live(u) => Live(s)) /\ Adds(s, u)
    BY <1>4 DEF Live, Adds
  <1>5. CASE Expires(s, u)
    <2>1. CASE Speaks(s, u, Frame("DISC", TRUE, TRUE), "RELEASE", "T401")
      BY <1>1, <1>3, <2>1
    <2>2. CASE Speaks(s, u, Frame("XID", TRUE, FALSE), s.state, s.timer)
      BY <1>1, <1>3, <2>2
    <2>3. CASE Speaks(s, u, Frame("SABME", TRUE, TRUE), s.state, s.timer)
      BY <1>1, <1>3, <2>3
    <2>4. CASE s.state = "DATA" /\ \E f \in Said(s.vr) : Speaks(s, u, f, s.state, s.timer)
      BY <1>2, <1>3, <2>4
    <2>5. CASE Alike(s, u) /\ u.ctrl = s.ctrl /\ u.state \in {s.state, "IDLE"}
      BY <1>4, <2>5
    <2> QED
      BY <1>5, <2>1, <2>2, <2>3, <2>4, <2>5 DEF Expires
  <1>6. CASE Looks(s, u)
    <2>1. CASE s.state = "DATA" /\ \E f \in Said(s.vr) : Speaks(s, u, f, "DATA", "T401")
      BY <1>2, <1>3, <2>1
    <2>2. CASE Alike(s, u) /\ u.ctrl = s.ctrl /\ u.state = s.state
      BY <1>4, <2>2
    <2> QED
      BY <1>6, <2>1, <2>2 DEF Looks
  <1>7. CASE Configures(s, u)
    BY <1>1, <1>7 DEF Configures, Live, Adds
  <1>8. CASE Speaks(s, u, Frame("DISC", TRUE, TRUE), "RELEASE", "T401")
    BY <1>1, <1>3, <1>8
  <1>9. CASE \E t : Becomes(s, u, s.state, t) \/ Becomes(s, u, "UNSUPPORTED", t) \/ Becomes(s, u, "IDLE", t)
    BY <1>4, <1>9 DEF Becomes
  <1> QED
    BY <1>5, <1>6, <1>7, <1>8, <1>9 DEF Alone

-----------------------------------------------------------------------------
(* The link, over the steps that do not begin one.                          *)

\* What the first part of the invariant says of two stations.
LEMMA Both ==
    ASSUME OwnInv, NEW x \in Station
    PROVE  LET y == Peer(x)
           IN  /\ y \in Station /\ y # x /\ Peer(y) = x
               /\ Own(x, st[x]) /\ Own(y, st[y]) /\ Core(st[x]) /\ Core(st[y])
               /\ st[x] \in StationRecord /\ st[y] \in StationRecord
               /\ line[x] \in Seq(LineFrame) /\ line[y] \in Seq(LineFrame)
               /\ st[x].ctrl \in Seq(LineFrame) /\ st[y].ctrl \in Seq(LineFrame)
               /\ line[x] \o st[y].ctrl \in Seq(LineFrame)
               /\ line[y] \o st[x].ctrl \in Seq(LineFrame)
  <1> DEFINE y == Peer(x)
             p == st[y]
             s == st[x]
  <1>1. y \in Station /\ y # x /\ Peer(y) = x
    BY Peers
  <1> HIDE DEF y
  <1>2. /\ Own(x, s) /\ Own(y, p) /\ line[x] \in Seq(LineFrame) /\ line[y] \in Seq(LineFrame)
    BY <1>1 DEF OwnInv
  <1> HIDE DEF s, p
  <1>3. Core(s) /\ Core(p) /\ s \in StationRecord /\ p \in StationRecord
    BY <1>2 DEF Own, Core
  <1>4. s.ctrl \in Seq(LineFrame) /\ p.ctrl \in Seq(LineFrame)
    <2>1. s.ctrl \in Seq(CtrlFrame) /\ p.ctrl \in Seq(CtrlFrame) /\ CtrlFrame \subseteq LineFrame
      BY <1>3, Fields DEF CtrlFrame
    <2> QED
      BY <2>1
  <1>5. line[x] \o p.ctrl \in Seq(LineFrame) /\ line[y] \o s.ctrl \in Seq(LineFrame)
    BY <1>2, <1>4
  <1> QED
    BY <1>1, <1>2, <1>3, <1>4, <1>5 DEF y, s, p

\* One station changes, and with it the lines.
LEMMA OneLink ==
    ASSUME OwnInv, NEW x \in Station, NEW u, st' = [st EXCEPT ![x] = u],
           Live(u) => Good(u), Live(st[Peer(x)]) => Good(st[Peer(x)]),
           Pair(u, st[Peer(x)], line'[Peer(x)], line'[x] \o st[Peer(x)].ctrl)
    PROVE  LinkInv'
  <1> DEFINE y == Peer(x)
             p == st[y]
  <1>1. y \in Station /\ y # x /\ Peer(y) = x /\ \A z \in Station : z = x \/ z = y
    BY Peers DEF Station, Peer
  <1>2. Pair(u, p, line'[y], line'[x] \o p.ctrl) /\ (Live(p) => Good(p))
    OBVIOUS
  <1>a. y = Peer(x)
    OBVIOUS
  <1> HIDE DEF y
  <1>3. st'[x] = u /\ st'[y] = p
    BY <1>1 DEF OwnInv
  <1> HIDE DEF p
  <1>4. Pair(p, u, line'[x], line'[y] \o u.ctrl)
    BY <1>2 DEF Pair
  <1>5. ASSUME NEW z \in Station
        PROVE  /\ Live(st'[z]) => Good(st'[z])
               /\ Pair(st'[z], st'[Peer(z)], line'[Peer(z)], line'[z] \o st'[Peer(z)].ctrl)
    <2>1. CASE z = x
      BY <1>2, <1>3, <1>a, <2>1
    <2>2. CASE z = y
      BY <1>1, <1>2, <1>3, <1>4, <2>2
    <2> QED
      BY <1>1, <2>1, <2>2
  <1> QED
    BY <1>5 DEF LinkInv

\* A station goes on by itself.
LEMMA GoesOnLink ==
    ASSUME OwnInv, LinkInv, NEW x \in Station, GoesOn(x)
    PROVE  LinkInv'
  <1> DEFINE y == Peer(x)
             s == st[x]
             p == st[y]
             r == line[x] \o p.ctrl
  <1>1. PICK u : Alone(x, s, u) /\ st' = [st EXCEPT ![x] = u] /\ UNCHANGED <<line, losses>>
    BY DEF GoesOn
  <1>2. Alike(s, u) /\ (Live(u) => Live(s)) /\ Adds(s, u)
    BY <1>1, AloneAdds
  <1>3. Core(s) /\ Core(p) /\ y \in Station /\ line[y] \in Seq(LineFrame) /\ r \in Seq(LineFrame)
    BY Both
  <1>4. (Live(s) => Good(s)) /\ (Live(p) => Good(p)) /\ Pair(s, p, line[y], r)
    BY <1>3 DEF LinkInv
  <1>5. (Live(u) => Good(u)) /\ Pair(u, p, line[y], r)
    <2> HIDE DEF y, s, p, r
    <2> QED
      BY <1>2, <1>3, <1>4, AlikePair
  <1> QED
    BY <1>1, <1>4, <1>5, OneLink

\* A frame leaves a line: what is on its way, there and back.
LEMMA Shorter ==
    ASSUME OwnInv, NEW x \in Station, line[x] # <<>>, line' = [line EXCEPT ![x] = Tail(@)]
    PROVE  LET y == Peer(x)
               r == line[x] \o st[y].ctrl
           IN  /\ r # <<>> /\ Head(r) = Head(line[x]) /\ Tail(r) = line'[x] \o st[y].ctrl
               /\ line'[y] = line[y] /\ line'[x] = Tail(line[x])
  <1> DEFINE y == Peer(x)
             k == line[x]
             c == st[y].ctrl
  <1>1. y # x /\ k \in Seq(LineFrame) /\ c \in Seq(LineFrame) /\ k # <<>>
    BY Both
  <1>2. line'[y] = line[y] /\ line'[x] = Tail(k)
    BY <1>1, Peers DEF OwnInv
  <1> HIDE DEF k, c
  <1>3. k \o c # <<>> /\ Head(k \o c) = Head(k) /\ Tail(k \o c) = Tail(k) \o c
    BY ONLY <1>1
  <1> QED
    BY <1>2, <1>3 DEF k, c

\* A frame is lost.
LEMMA VanishesLink ==
    ASSUME OwnInv, LinkInv, NEW x \in Station, Vanishes(x)
    PROVE  LinkInv'
  <1> DEFINE y == Peer(x)
             s == st[x]
             p == st[y]
             r == line[x] \o p.ctrl
  <1>1. line[x] # <<>> /\ line' = [line EXCEPT ![x] = Tail(@)] /\ st' = st
    BY DEF Vanishes
  <1>2. Core(s) /\ Core(p) /\ y \in Station /\ line[y] \in Seq(LineFrame) /\ r \in Seq(LineFrame)
    BY Both
  <1>3. (Live(s) => Good(s)) /\ (Live(p) => Good(p)) /\ Pair(s, p, line[y], r)
    BY <1>2 DEF LinkInv
  <1>4. r # <<>> /\ Tail(r) = line'[x] \o p.ctrl /\ line'[y] = line[y]
    BY <1>1, Shorter
  <1>5. Pair(s, p, line'[y], line'[x] \o p.ctrl)
    <2> HIDE DEF y, s, p, r
    <2>1. Pair(s, p, line[y], Tail(r))
      BY <1>2, <1>3, <1>4, PairTail
    <2> QED
      BY <1>4, <2>1
  <1>6. st' = [st EXCEPT ![x] = s]
    BY <1>1 DEF OwnInv
  <1> QED
    BY <1>3, <1>5, <1>6, OneLink

\* A frame arrives that begins no link.
LEMMA ArrivesLink ==
    ASSUME OwnInv, LinkInv, NEW x \in Station, Arrives(x), st[x].state # "ESTABLISH",
           Head(line[x]).k # "SABME", ~ (st[x].configuring /\ st[x].state = "IDLE")
    PROVE  LinkInv'
  <1> DEFINE y == Peer(x)
             s == st[x]
             p == st[y]
             r == line[x] \o p.ctrl
  <1>1. line[x] # <<>> /\ line' = [line EXCEPT ![x] = Tail(@)]
    BY DEF Arrives
  <1>2. PICK u : Receives(s, u, Head(line[x])) /\ st' = [st EXCEPT ![x] = u]
    BY DEF Arrives
  <1>3. Core(s) /\ Core(p) /\ y \in Station /\ line[y] \in Seq(LineFrame) /\ r \in Seq(LineFrame)
    BY Both
  <1>4. (Live(s) => Good(s)) /\ (Live(p) => Good(p)) /\ Pair(s, p, line[y], r)
    BY <1>3 DEF LinkInv
  <1>5. /\ r # <<>> /\ Head(r) = Head(line[x]) /\ Tail(r) = line'[x] \o p.ctrl
        /\ line'[y] = line[y]
    BY <1>1, Shorter
  <1>6. s.state # "ESTABLISH" /\ Head(r).k # "SABME" /\ ~ (s.configuring /\ s.state = "IDLE")
    BY <1>5
  <1>7. (Live(u) => Good(u)) /\ Pair(u, p, line'[y], line'[x] \o p.ctrl)
    <2>1. Receives(s, u, Head(r))
      BY <1>2, <1>5
    <2> HIDE DEF y, s, p, r
    <2>2. (Live(u) => Good(u)) /\ Pair(u, p, line[y], Tail(r))
      BY <1>3, <1>4, <1>5, <1>6, <2>1, ReceivePair
    <2> QED
      BY <1>5, <2>2
  <1> QED
    BY <1>2, <1>4, <1>7, OneLink

\* A frame that was queued is sent: as much is under way as before.
LEMMA QueuedSame ==
    ASSUME OwnInv, NEW x \in Station, Queued(x)
    PROVE  LET y == Peer(x)
               u == [st[x] EXCEPT !.ctrl = Tail(st[x].ctrl)]
           IN  /\ st' = [st EXCEPT ![x] = u] /\ line'[x] = line[x]
               /\ line'[y] \o u.ctrl = line[y] \o st[x].ctrl
               /\ Alike(st[x], u) /\ u.state = st[x].state /\ u.timer = st[x].timer
               /\ u.configuring = st[x].configuring
  <1> DEFINE y == Peer(x)
             s == st[x]
             c == s.ctrl
             l == line[y]
             u == [s EXCEPT !.ctrl = Tail(s.ctrl)]
  <1>1. /\ c # <<>> /\ line' = [line EXCEPT ![y] = Append(@, Head(c))]
        /\ st' = [st EXCEPT ![x] = u]
    BY DEF Queued
  <1>2. y \in Station /\ y # x /\ Own(x, s) /\ c \in Seq(LineFrame) /\ l \in Seq(LineFrame)
    BY Both
  <1>3. /\ Alike(s, u) /\ u.ctrl = Tail(c) /\ u.state = s.state /\ u.timer = s.timer
        /\ u.configuring = s.configuring
    BY <1>1, <1>2, QueuedOwn
  <1>4. line'[x] = line[x] /\ line'[y] = Append(l, Head(c))
    BY <1>1, <1>2 DEF OwnInv
  <1>5. Append(l, Head(c)) \o Tail(c) = l \o c
    <2> HIDE DEF c, l
    <2>1. Head(c) \in LineFrame /\ Tail(c) \in Seq(LineFrame) /\ <<Head(c)>> \o Tail(c) = c
      BY <1>1, <1>2
    <2>2. Append(l, Head(c)) = l \o <<Head(c)>>
      BY ONLY <1>2, <2>1, AppendIsConcat
    <2>3. <<Head(c)>> \in Seq(LineFrame)
      BY <2>1
    <2>4. (l \o <<Head(c)>>) \o Tail(c) = l \o (<<Head(c)>> \o Tail(c))
      BY ONLY <1>2, <2>1, <2>3, ConcatAssociative
    <2> QED
      BY <2>1, <2>2, <2>4
  <1> HIDE DEF u
  <1>6. line'[y] \o u.ctrl = l \o c
    BY <1>3, <1>4, <1>5
  <1> QED
    BY <1>1, <1>3, <1>4, <1>6 DEF u

\* A frame that was queued is sent.
LEMMA QueuedLink ==
    ASSUME OwnInv, LinkInv, NEW x \in Station, Queued(x)
    PROVE  LinkInv'
  <1> DEFINE y == Peer(x)
             s == st[x]
             p == st[y]
             u == [s EXCEPT !.ctrl = Tail(s.ctrl)]
  <1>1. /\ st' = [st EXCEPT ![x] = u] /\ line'[x] = line[x]
        /\ line'[y] \o u.ctrl = line[y] \o s.ctrl /\ Alike(s, u) /\ u.state = s.state
    BY QueuedSame
  <1> HIDE DEF u
  <1>2. /\ (Live(s) => Good(s)) /\ (Live(p) => Good(p)) /\ Pair(s, p, line[y], line[x] \o p.ctrl)
    BY Both DEF LinkInv
  <1>3. /\ u.vr = s.vr /\ u.va = s.va /\ u.taken = s.taken /\ u.got = s.got /\ u.freed = s.freed
        /\ Base(u) = Base(s) /\ (Live(u) <=> Live(s))
    BY <1>1 DEF Alike, Base, Live
  <1>4. Live(u) => Good(u)
    BY <1>2, <1>3 DEF Good
  <1>5. \A f : (Fits(s, p, f) <=> Fits(u, p, f)) /\ (Fits(p, s, f) <=> Fits(p, u, f))
    BY <1>3 DEF Fits, AckOf
  <1>6. \A f, g : Follows(s, f, g) <=> Follows(u, f, g)
    BY <1>3 DEF Follows, AckOf
  <1>7. Ends(u, p) /\ Ends(p, u)
    BY <1>2, <1>3 DEF Pair, Ends
  <1>8. Traffic(u, p, line'[y] \o u.ctrl) /\ Traffic(p, u, line'[x] \o p.ctrl)
    BY <1>1, <1>2, <1>5, <1>6 DEF Pair, Traffic
  <1>9. Pair(u, p, line'[y], line'[x] \o p.ctrl)
    BY <1>7, <1>8 DEF Pair
  <1> QED
    BY <1>1, <1>2, <1>4, <1>9, OneLink

\* A frame of the buffer is sent.
LEMMA SendsLink ==
    ASSUME OwnInv, LinkInv, NEW x \in Station, Sends(x)
    PROVE  LinkInv'
  <1> DEFINE y == Peer(x)
             s == st[x]
             p == st[y]
             r == line[x] \o p.ctrl
  <1>1. PICK u, f : /\ Informs(s, u, f) /\ st' = [st EXCEPT ![x] = u]
                    /\ line' = [line EXCEPT ![y] = Append(@, f)]
    BY DEF Sends
  <1>2. /\ Core(s) /\ Core(p) /\ y \in Station /\ y # x
        /\ line[y] \in Seq(LineFrame) /\ r \in Seq(LineFrame)
    BY Both
  <1>3. (Live(s) => Good(s)) /\ (Live(p) => Good(p)) /\ Pair(s, p, line[y], r)
    BY <1>2 DEF LinkInv
  <1>4. Good(s)
    BY <1>1, <1>3 DEF Informs, Live
  <1>5. line'[x] = line[x] /\ line'[y] = Append(line[y], f)
    BY <1>1, <1>2 DEF OwnInv
  <1>6. Good(u) /\ Pair(u, p, Append(line[y], f), r)
    <2> HIDE DEF y, s, p, r
    <2> QED
      BY <1>1, <1>2, <1>3, <1>4, InformsPair
  <1> QED
    BY <1>1, <1>3, <1>5, <1>6, OneLink

-----------------------------------------------------------------------------
(* How a link begins.                                                       *)

\* Nothing was taken, handed over or let go yet.
Fresh(s) == s.taken = 0 /\ s.got = <<>> /\ s.freed = 0

\* Stations that have done nothing yet, with no numbered frame under way.
LEMMA FreshPair ==
    ASSUME NEW s, Core(s), Fresh(s), NEW p, Core(p), Fresh(p),
           NEW l \in Seq(LineFrame), NEW r \in Seq(LineFrame),
           \A i \in 1 .. Len(l \o s.ctrl) : ~Numbered((l \o s.ctrl)[i]),
           \A i \in 1 .. Len(r) : ~Numbered(r[i])
    PROVE  Pair(s, p, l, r) /\ Base(s) = 0 /\ (s.vr = 0 /\ s.va = 0 => Good(s))
  <1>1. ASSUME NEW q, Core(q), Fresh(q)
        PROVE  Base(q) = 0
    <2>1. q \in StationRecord
      BY <1>1 DEF Core
    <2>2. Len(q.info) \in Nat /\ Len(q.info) <= q.taken /\ q.taken = 0
      BY <1>1, <2>1, Fields DEF Core, Buffer, Fresh
    <2> QED
      BY <2>2 DEF Base
  <1>2. Base(s) = 0 /\ Base(p) = 0 /\ Len(s.got) = 0 /\ Len(p.got) = 0
    BY <1>1 DEF Fresh
  <1>3. Ends(s, p) /\ Ends(p, s)
    BY <1>2 DEF Ends, Fresh
  <1>4. \A f : ~Numbered(f) => Fits(s, p, f) /\ Fits(p, s, f)
    BY DEF Fits, Numbered
  <1>5. \A f, g : ~Numbered(f) => Follows(s, f, g) /\ Follows(p, f, g)
    BY DEF Follows, Numbered
  <1>6. Traffic(s, p, l \o s.ctrl) /\ Traffic(p, s, r)
    <2> DEFINE z == l \o s.ctrl
    <2>1. \A i \in 1 .. Len(z) : ~Numbered(z[i])
      OBVIOUS
    <2> HIDE DEF z
    <2>2. Traffic(s, p, z) /\ Traffic(p, s, r)
      BY <1>4, <1>5, <2>1 DEF Traffic
    <2> QED
      BY <2>2 DEF z
  <1>7. 0 % Mod = 0
    BY WindowFacts, ModSmall
  <1> QED
    BY <1>2, <1>3, <1>6, <1>7 DEF Pair, Good

\* The caller is told that its link is accepted.
LEMMA ConfirmingPair ==
    ASSUME NEW s, Core(s), Fresh(s), s.state = "ESTABLISH", NEW p, Core(p),
           NEW l \in Seq(LineFrame), NEW r \in Seq(LineFrame), Pair(s, p, l, r),
           NEW u, NEW f, Confirming(s, u, f), Core(u)
    PROVE  Good(u) /\ Pair(u, p, l, r)
  <1>1. /\ u \in StationRecord /\ u.vr = 0 /\ u.va = 0 /\ u.info = <<>> /\ u.ctrl = <<>>
        /\ u.taken = s.taken /\ u.got = s.got /\ u.freed = s.freed
    BY DEF Confirming, Reborn
  <1>2. Live(s) /\ u.taken = 0 /\ u.got = <<>>
    BY <1>1 DEF Live, Fresh
  <1>3. Base(s) = 0
    <2>1. s \in StationRecord
      BY DEF Core
    <2>2. Len(s.info) \in Nat /\ Len(s.info) <= s.taken /\ s.taken = 0
      BY <2>1, Fields DEF Core, Buffer, Fresh
    <2> QED
      BY <2>2 DEF Base
  <1>4. Base(u) = 0
    <2>1. Len(u.info) = 0 /\ u.taken = 0
      BY <1>1, <1>2
    <2> QED
      BY ONLY <2>1 DEF Base
  <1>5. Good(u)
    <2>1. 0 % Mod = 0
      BY WindowFacts, ModSmall
    <2> QED
      BY <1>1, <1>2, <1>4, <2>1 DEF Good
  <1> DEFINE e == <<>>
  <1>6. e \in Seq(LineFrame) /\ u.ctrl = e \o e /\ \A i \in 1 .. Len(e) : FALSE
    BY <1>1
  <1>7. e = s.ctrl \/ e = <<>>
    OBVIOUS
  <1> HIDE DEF e
  <1>8. Pair(u, p, l, r)
    BY <1>1, <1>2, <1>3, <1>4, <1>6, <1>7, CalmPair
  <1> QED
    BY <1>5, <1>8

-----------------------------------------------------------------------------
(* The phases of the two stations: c is the caller and a the answerer, p is  *)
(* all that is under way to the answerer and q all that is to the caller.   *)

Calm(s) == s.state \in {"DETECT", "IDLE", "UNSUPPORTED"}

One(q, k) == \E f : f.k = k /\ q = <<f>>

Unasked(q) == \A i \in 1 .. Len(q) : q[i].k # "SABME"

Unused(c, a) == Fresh(c) /\ Fresh(a) /\ Calm(a)

\* Support is being detected, or was.
Before(c, a, p, q) ==
    /\ Unused(c, a) /\ Calm(c) /\ ~c.configuring /\ (c.timer = "start" => c.state = "IDLE")
    /\ p = <<>> /\ q = <<>>

\* Parameters are exchanged: one command or one answer is under way.
Configuring(c, a, p, q) ==
    /\ Unused(c, a) /\ c.state = "IDLE" /\ c.configuring /\ c.timer # "start"
    /\ p = <<>> \/ One(p, "XID")
    /\ q = <<>> \/ One(q, "XID")
    /\ p = <<>> \/ q = <<>>

\* The caller asks for a link.
Establishing(c, a, p, q) ==
    /\ Unused(c, a) /\ c.state = "ESTABLISH" /\ c.vr = 0 /\ c.va = 0
    /\ p = <<>> \/ One(p, "SABME")
    /\ q = <<>>

\* The answerer has a link, and has said so.
Accepted(c, a, p, q) ==
    /\ Fresh(c) /\ c.state = "ESTABLISH" /\ a.state = "DATA"
    /\ p = <<>> /\ q # <<>> /\ q[1].k = "UA" /\ ~q[1].cmd

\* The caller has, or will not ask again.
Linked(c, p) ==
    /\ c.state \notin {"ESTABLISH", "DETECT"} /\ ~c.configuring /\ c.timer # "start"
    /\ Unasked(p)

Phases(c, a, p, q) ==
    \/ Before(c, a, p, q) \/ Configuring(c, a, p, q) \/ Establishing(c, a, p, q)
    \/ Accepted(c, a, p, q) \/ Linked(c, p)

Phase == Phases(st[Caller], st[Answerer], line[Answerer] \o st[Caller].ctrl,
                line[Caller] \o st[Answerer].ctrl)

\* Commands and their answers are among what is under way.
Silent(p, q) ==
    /\ \A i \in 1 .. Len(p) : p[i].k \notin Unnumbered
    /\ \A i \in 1 .. Len(q) : q[i].k \notin Unnumbered

\* With u queueing one frame or none, w is under way in place of p.
Joined(s, u, p, w) ==
    /\ u.ctrl = s.ctrl => w = p
    /\ \A f \in CtrlFrame : u.ctrl = Append(s.ctrl, f) => w = Append(p, f)

\* Before a link there is a command or its answer under way, if anything is.
LEMMA SilentFacts ==
    ASSUME NEW p \in Seq(LineFrame), NEW q \in Seq(LineFrame),
           One(p, "XID") \/ One(p, "SABME") \/ One(q, "XID") \/ (q # <<>> /\ q[1].k = "UA")
    PROVE  ~Silent(p, q)
  <1>1. \A z, k : One(z, k) => 1 \in 1 .. Len(z) /\ z[1].k = k
    BY DEF One
  <1>2. q # <<>> => 1 \in 1 .. Len(q)
    OBVIOUS
  <1> QED
    BY <1>1, <1>2 DEF Silent, Unnumbered

\* A frame that asks for nothing joins others.
LEMMA UnaskedAppend ==
    ASSUME NEW q \in Seq(LineFrame), Unasked(q), NEW f \in LineFrame, f.k # "SABME"
    PROVE  Unasked(Append(q, f))
  <1> DEFINE w == Append(q, f)
  <1>1. Len(w) = Len(q) + 1 /\ Len(q) \in Nat
        /\ \A i \in 1 .. Len(w) : (i \in 1 .. Len(q) /\ w[i] = q[i]) \/ w[i] = f
    OBVIOUS
  <1> HIDE DEF w
  <1>2. Unasked(w)
    BY <1>1 DEF Unasked
  <1> QED
    BY <1>2 DEF w

\* Stations that are fresh stay so, but for data transfer.
LEMMA AlikeFresh ==
    ASSUME NEW s, NEW u, Alike(s, u) \/ Reborn(s, u)
    PROVE  Fresh(u) <=> Fresh(s)
  BY DEF Alike, Reborn, Fresh

\* The caller goes on by itself.
LEMMA CallerAlone ==
    ASSUME Stopper = {}, NEW c, Own(Caller, c), NEW u, Alone(Caller, c, u), NEW a,
           NEW p \in Seq(LineFrame), NEW q \in Seq(LineFrame), Phases(c, a, p, q),
           NoCommandUnderWay => Silent(p, q), NEW w, Joined(c, u, p, w)
    PROVE  Phases(u, a, w, q)
  <1>1. Core(c) /\ Role(Caller, c) /\ Timed(c)
    BY DEF Own, Core
  <1> DEFINE xid == Frame("XID", TRUE, FALSE)
             sabme == Frame("SABME", TRUE, TRUE)
             disc == Frame("DISC", TRUE, TRUE)
  <1>2. /\ xid \in CtrlFrame /\ sabme \in CtrlFrame /\ disc \in CtrlFrame
        /\ xid.k = "XID" /\ sabme.k = "SABME" /\ disc.k = "DISC"
    BY FramesMade DEF Unnumbered, Frame
  <1> HIDE DEF xid, sabme, disc
  <1>3. \/ c.timer = "T401" /\ NoCommandUnderWay /\ Expires(c, u)
        \/ c.timer = "T403" /\ NoCommandUnderWay /\ Looks(c, u)
        \/ c.timer = "start" /\ Configures(c, u)
        \/ Becomes(c, u, c.state, c.timer)
        \/ c.state = "DETECT" /\ Becomes(c, u, "UNSUPPORTED", "off")
        \/ c.state = "DETECT" /\ Becomes(c, u, "IDLE", "start")
    BY DEF Alone
  <1>4. ASSUME One(p, "XID") \/ One(p, "SABME") \/ One(q, "XID") \/ (q # <<>> /\ q[1].k = "UA")
        PROVE  ~Silent(p, q)
    BY <1>4, SilentFacts
  <1>5. CASE Before(c, a, p, q)
    <2>1. /\ Fresh(c) /\ Fresh(a) /\ Calm(a) /\ c.state \in {"DETECT", "IDLE", "UNSUPPORTED"}
          /\ ~c.configuring /\ (c.timer = "start" => c.state = "IDLE") /\ p = <<>> /\ q = <<>>
      BY <1>5 DEF Before, Unused, Calm
    <2>2. CASE c.timer = "start" /\ Configures(c, u)
      <3>1. /\ Alike(c, u) /\ u.ctrl \in {c.ctrl, Append(c.ctrl, xid)}
            /\ u.configuring /\ u.state = "IDLE" /\ u.timer = "T401"
        BY <2>1, <2>2 DEF Configures, xid
      <3>2. Fresh(u)
        BY <2>1, <3>1, AlikeFresh
      <3>3. w = p \/ w = Append(p, xid)
        BY <1>2, <3>1 DEF Joined
      <3>4. w = <<>> \/ w = <<xid>>
        BY <2>1, <3>3
      <3>5. w = <<>> \/ One(w, "XID")
        BY <1>2, <3>4 DEF One
      <3> QED
        BY <2>1, <3>1, <3>2, <3>5 DEF Phases, Configuring, Unused
    <2>3. CASE ~ (c.timer = "start" /\ Configures(c, u))
      <3>1. Alike(c, u) /\ u.ctrl = c.ctrl /\ u.configuring = c.configuring
        BY <1>3, <2>1, <2>3 DEF Expires, Looks, Becomes
      <3>2. /\ u.state \in {"DETECT", "IDLE", "UNSUPPORTED"}
            /\ u.timer = "start" => u.state = "IDLE"
        BY <1>3, <2>1, <2>3 DEF Expires, Looks, Becomes
      <3>3. Fresh(u) /\ w = p
        BY <2>1, <3>1, AlikeFresh DEF Joined
      <3> QED
        BY <2>1, <3>1, <3>2, <3>3 DEF Phases, Before, Unused, Calm
    <2> QED
      BY <2>2, <2>3
  <1>6. CASE Configuring(c, a, p, q)
    <2>1. /\ Fresh(c) /\ Fresh(a) /\ Calm(a) /\ c.state = "IDLE" /\ c.configuring /\ c.timer # "start"
      BY <1>6 DEF Configuring, Unused
    <2>2. CASE NoCommandUnderWay /\ Speaks(c, u, xid, c.state, c.timer)
      <3>1. p = <<>> /\ q = <<>>
        BY <1>4, <1>6, <2>2 DEF Configuring
      <3>2. /\ Alike(c, u) /\ u.ctrl \in {c.ctrl, Append(c.ctrl, xid)}
            /\ u.configuring /\ u.state = "IDLE" /\ u.timer # "start"
        BY <2>1, <2>2 DEF Speaks
      <3>3. Fresh(u)
        BY <2>1, <3>2, AlikeFresh
      <3>4. w = p \/ w = Append(p, xid)
        BY <1>2, <3>2 DEF Joined
      <3>5. w = <<>> \/ w = <<xid>>
        BY <3>1, <3>4
      <3>6. w = <<>> \/ One(w, "XID")
        BY <1>2, <3>5 DEF One
      <3> QED
        BY <2>1, <3>1, <3>2, <3>3, <3>6 DEF Phases, Configuring, Unused
    <2>3. CASE ~ (NoCommandUnderWay /\ Speaks(c, u, xid, c.state, c.timer))
      <3>1. /\ Alike(c, u) /\ u.ctrl = c.ctrl /\ u.configuring = c.configuring /\ u.state = "IDLE"
            /\ u.timer # "start"
        BY <1>3, <2>1, <2>3 DEF Expires, Looks, Becomes, xid
      <3>2. Fresh(u) /\ w = p
        BY <2>1, <3>1, AlikeFresh DEF Joined
      <3> QED
        BY <1>6, <2>1, <3>1, <3>2 DEF Phases, Configuring, Unused
    <2> QED
      BY <2>2, <2>3
  <1>7. CASE Establishing(c, a, p, q)
    <2>1. /\ Fresh(c) /\ Fresh(a) /\ Calm(a) /\ c.state = "ESTABLISH" /\ c.vr = 0 /\ c.va = 0 /\ q = <<>>
          /\ c.timer = "T401" /\ ~c.configuring
      BY <1>1, <1>7 DEF Establishing, Unused, Timed, Role, Core, StationRecord
    <2>2. CASE NoCommandUnderWay /\ Speaks(c, u, sabme, c.state, c.timer)
      <3>1. p = <<>>
        BY <1>4, <1>7, <2>2 DEF Establishing
      <3>2. /\ Alike(c, u) /\ u.ctrl \in {c.ctrl, Append(c.ctrl, sabme)} /\ u.state = "ESTABLISH"
        BY <2>1, <2>2 DEF Speaks
      <3>3. Fresh(u) /\ u.vr = 0 /\ u.va = 0
        BY <2>1, <3>2, AlikeFresh DEF Alike
      <3>4. w = p \/ w = Append(p, sabme)
        BY <1>2, <3>2 DEF Joined
      <3>5. w = <<>> \/ w = <<sabme>>
        BY <3>1, <3>4
      <3>6. w = <<>> \/ One(w, "SABME")
        BY <1>2, <3>5 DEF One
      <3> QED
        BY <2>1, <3>2, <3>3, <3>6 DEF Phases, Establishing, Unused
    <2>3. CASE NoCommandUnderWay /\ Alike(c, u) /\ u.ctrl = c.ctrl /\ u.configuring = c.configuring
               /\ u.state = "IDLE" /\ u.timer = "off"
      <3>1. p = <<>> /\ w = p
        BY <1>4, <1>7, <2>3 DEF Establishing, Joined
      <3>2. Unasked(w)
        BY <3>1 DEF Unasked
      <3> QED
        BY <2>1, <2>3, <3>2 DEF Phases, Linked
    <2>4. CASE Alike(c, u) /\ u.ctrl = c.ctrl /\ u.state = "ESTABLISH"
      <3>1. Fresh(u) /\ u.vr = 0 /\ u.va = 0 /\ w = p
        BY <2>1, <2>4, AlikeFresh DEF Alike, Joined
      <3> QED
        BY <1>7, <2>1, <2>4, <3>1 DEF Phases, Establishing, Unused
    <2> QED
      BY <1>3, <2>1, <2>2, <2>3, <2>4 DEF Expires, Looks, Becomes, sabme
  <1>8. CASE Accepted(c, a, p, q)
    <2>1. ~NoCommandUnderWay /\ c.timer = "T401" /\ c.state = "ESTABLISH" /\ Fresh(c)
      <3>1. ~Silent(p, q)
        BY <1>4, <1>8 DEF Accepted
      <3> QED
        BY <1>1, <1>8, <3>1 DEF Accepted, Timed
    <2>2. Alike(c, u) /\ u.ctrl = c.ctrl /\ u.state = "ESTABLISH"
      BY <1>3, <2>1 DEF Becomes
    <2>3. Fresh(u) /\ w = p
      BY <2>1, <2>2, AlikeFresh DEF Joined
    <2> QED
      BY <1>8, <2>2, <2>3 DEF Phases, Accepted
  <1>9. CASE Linked(c, p)
    <2>1. c.state \notin {"ESTABLISH", "DETECT"} /\ ~c.configuring /\ c.timer # "start" /\ Unasked(p)
      BY <1>9 DEF Linked
    <2>2. /\ u.state \notin {"ESTABLISH", "DETECT"} /\ ~u.configuring /\ u.timer # "start"
          /\ \/ u.ctrl = c.ctrl
             \/ \E f \in CtrlFrame : u.ctrl = Append(c.ctrl, f) /\ f.k # "SABME"
      <3>1. \A f \in Said(c.vr) : f \in CtrlFrame /\ f.k # "SABME"
        BY DEF Said, Supervisory
      <3> QED
        BY <1>2, <1>3, <2>1, <3>1 DEF Expires, Looks, Becomes, Speaks, disc
    <2>3. Unasked(w)
      <3>1. CASE u.ctrl = c.ctrl
        BY <2>1, <3>1 DEF Joined
      <3>2. ASSUME NEW f \in CtrlFrame, u.ctrl = Append(c.ctrl, f), f.k # "SABME"
            PROVE  Unasked(w)
        <4>1. w = Append(p, f) /\ f \in LineFrame
          BY <3>2 DEF Joined, CtrlFrame
        <4> QED
          BY <2>1, <3>2, <4>1, UnaskedAppend
      <3> QED
        BY <2>2, <3>1, <3>2
    <2> QED
      BY <2>2, <2>3 DEF Phases, Linked
  <1> QED
    BY <1>5, <1>6, <1>7, <1>8, <1>9 DEF Phases

\* The answerer goes on by itself.
LEMMA AnswererAlone ==
    ASSUME Stopper = {}, NEW a, Own(Answerer, a), NEW u, Alone(Answerer, a, u), NEW c,
           NEW p \in Seq(LineFrame), NEW q \in Seq(LineFrame), Phases(c, a, p, q),
           NoCommandUnderWay => Silent(p, q), NEW w, Joined(a, u, q, w)
    PROVE  Phases(c, u, p, w)
  <1>1. Core(a) /\ Role(Answerer, a) /\ Timed(a)
    BY DEF Own, Core
  <1>2. Caller # Answerer /\ ~a.configuring /\ a.timer # "start" /\ a.state # "ESTABLISH"
    BY <1>1, Peers DEF Role
  <1>3. \/ NoCommandUnderWay /\ Expires(a, u)
        \/ NoCommandUnderWay /\ Looks(a, u)
        \/ Becomes(a, u, a.state, a.timer)
        \/ a.state = "DETECT" /\ Becomes(a, u, "UNSUPPORTED", "off")
        \/ a.state = "DETECT" /\ Becomes(a, u, "IDLE", "off")
    BY <1>2 DEF Alone
  <1>4. ASSUME Calm(a), Unused(c, a)
        PROVE  Unused(c, u) /\ w = q
    <2>1. Alike(a, u) /\ u.ctrl = a.ctrl /\ Calm(u)
      BY <1>2, <1>3, <1>4 DEF Expires, Looks, Becomes, Calm
    <2> QED
      BY <1>4, <2>1, AlikeFresh DEF Joined, Unused
  <1>5. CASE Before(c, a, p, q)
    <2>1. Unused(c, u) /\ w = q
      BY <1>4, <1>5 DEF Before, Unused
    <2> QED
      BY <1>5, <2>1 DEF Phases, Before
  <1>6. CASE Configuring(c, a, p, q)
    <2>1. Unused(c, u) /\ w = q
      BY <1>4, <1>6 DEF Configuring, Unused
    <2> QED
      BY <1>6, <2>1 DEF Phases, Configuring
  <1>7. CASE Establishing(c, a, p, q)
    <2>1. Unused(c, u) /\ w = q
      BY <1>4, <1>7 DEF Establishing, Unused
    <2> QED
      BY <1>7, <2>1 DEF Phases, Establishing
  <1>8. CASE Accepted(c, a, p, q)
    <2>1. ~Silent(p, q) /\ a.state = "DATA"
      BY <1>8, SilentFacts DEF Accepted
    <2>2. u.ctrl = a.ctrl /\ u.state = "DATA"
      BY <1>3, <2>1 DEF Becomes
    <2>3. w = q
      BY <2>2 DEF Joined
    <2> QED
      BY <1>8, <2>2, <2>3 DEF Phases, Accepted
  <1>9. CASE Linked(c, p)
    BY <1>9 DEF Phases
  <1> QED
    BY <1>5, <1>6, <1>7, <1>8, <1>9 DEF Phases

\* What is under way holds no numbers, and the station has not begun to count.
Begins(u, q, w) ==
    /\ Fresh(u) /\ (Live(u) => u.vr = 0 /\ u.va = 0)
    /\ q = <<>> /\ \A i \in 1 .. Len(w) : ~Numbered(w[i])

\* A single frame that is under way has a number or not.
LEMMA OneUnnumbered ==
    ASSUME NEW w, NEW g, g.k \in Unnumbered, w = <<>> \/ w = <<g>>
    PROVE  \A i \in 1 .. Len(w) : ~Numbered(w[i])
  <1>1. CASE w = <<>>
    BY <1>1
  <1>2. CASE w = <<g>>
    <2>1. \A i \in 1 .. Len(w) : w[i] = g
      BY <1>2
    <2> QED
      BY <2>1 DEF Numbered, Supervisory, Unnumbered
  <1> QED
    BY <1>1, <1>2

\* The answerer is asked for a link.
LEMMA EstablishingReceives ==
    ASSUME NEW a, Own(Answerer, a), NEW c, NEW k \in Seq(LineFrame),
           NEW p \in Seq(LineFrame), p # <<>>, Establishing(c, a, p, k \o a.ctrl),
           NEW u, Receives(a, u, Head(p))
    PROVE  Phases(c, u, Tail(p), k \o u.ctrl) /\ Begins(u, Tail(p), k \o u.ctrl)
  <1> DEFINE f == Head(p)
             t == Tail(p)
             d == a.ctrl
  <1>1. a.state # "ESTABLISH" /\ d \in Seq(LineFrame)
    <2>1. a.ctrl \in Seq(CtrlFrame) /\ CtrlFrame \subseteq LineFrame
      BY Fields DEF Own, Core, CtrlFrame
    <2>2. a.ctrl \in Seq(LineFrame)
      BY <2>1
    <2> QED
      BY <2>2 DEF Own, Role
  <1>2. f \in LineFrame
    OBVIOUS
  <1>3. \A n : One(p, n) => f.k = n /\ t = <<>>
    BY DEF One
  <1>4. k \o d = <<>> => k = <<>> /\ d = <<>>
    BY <1>1
  <1>5. <<>> \o <<>> = <<>> /\ \A g \in LineFrame : <<>> \o <<g>> = <<g>>
    OBVIOUS
  <1>6. /\ Frame("UA", FALSE, f.pf) \in LineFrame /\ Frame("UA", FALSE, f.pf).k = "UA"
        /\ Frame("UA", FALSE, f.pf).cmd = FALSE
    BY <1>2, FramesMade DEF LineFrame, CtrlFrame, Unnumbered, Frame
  <1>7. Receives(a, u, f) /\ Establishing(c, a, p, k \o d) /\ d = a.ctrl
    OBVIOUS
  <1> HIDE DEF f, t, d
  <1>8. f.k = "SABME" /\ t = <<>> /\ k = <<>> /\ d = <<>> /\ Fresh(a) /\ Calm(a)
    BY <1>3, <1>4, <1>7 DEF Establishing, Unused
  <1>9. Ignoring(a, u, f) \/ Accepting(a, u, f)
    BY <1>1, <1>7, <1>8
       DEF Receives, Linking, Ending, Confirming, Asking, Numbered, Supervisory
  <1>10. CASE Ignoring(a, u, f)
    <2>1. Alike(a, u) /\ u.state = a.state /\ u.ctrl = <<>>
      BY <1>7, <1>8, <1>10 DEF Ignoring
    <2>2. k \o u.ctrl = <<>>
      BY <1>5, <1>8, <2>1
    <2>3. Unused(c, u) /\ ~Live(u)
      BY <1>7, <1>8, <2>1, AlikeFresh DEF Establishing, Unused, Calm, Live
    <2>4. Begins(u, t, k \o u.ctrl)
      BY <1>8, <2>2, <2>3 DEF Begins, Unused
    <2> QED
      BY <1>7, <1>8, <2>2, <2>3, <2>4 DEF Phases, Establishing, t
  <1>11. CASE Accepting(a, u, f)
    <2> DEFINE g == Frame("UA", FALSE, f.pf)
    <2>1. u.state = "DATA" /\ u.ctrl = <<g>> /\ Fresh(u) /\ u.vr = 0 /\ u.va = 0
      BY <1>8, <1>11, AlikeFresh DEF Accepting, Reborn
    <2>2. g \in LineFrame /\ g.k = "UA" /\ ~g.cmd
      BY <1>6
    <2> HIDE DEF g
    <2>3. k \o u.ctrl = <<g>>
      BY <1>5, <1>8, <2>1, <2>2
    <2>4. <<g>> # <<>> /\ <<g>>[1] = g /\ g.k \in Unnumbered
      BY <2>2 DEF Unnumbered
    <2>5. Begins(u, t, k \o u.ctrl)
      BY <1>8, <2>1, <2>3, <2>4, OneUnnumbered DEF Begins
    <2> QED
      BY <1>7, <1>8, <2>1, <2>2, <2>3, <2>4, <2>5 DEF Phases, Accepted, Establishing, Unused, t
  <1> QED
    BY <1>9, <1>10, <1>11

\* The answerer gets a frame.
LEMMA AnswererReceives ==
    ASSUME NEW a, Own(Answerer, a), NEW c, NEW k \in Seq(LineFrame),
           NEW p \in Seq(LineFrame), p # <<>>, Phases(c, a, p, k \o a.ctrl),
           NEW u, Receives(a, u, Head(p))
    PROVE  Phases(c, u, Tail(p), k \o u.ctrl)
  <1> DEFINE f == Head(p)
             t == Tail(p)
             d == a.ctrl
  <1>1. /\ ~a.configuring /\ a.state # "ESTABLISH" /\ d \in Seq(LineFrame)
    <2>1. a.ctrl \in Seq(CtrlFrame) /\ CtrlFrame \subseteq LineFrame
      BY Fields DEF Own, Core, CtrlFrame
    <2>2. a.ctrl \in Seq(LineFrame)
      BY <2>1
    <2> QED
      BY <2>2 DEF Own, Role
  <1>2. /\ t \in Seq(LineFrame) /\ f \in LineFrame
        /\ \A i \in 1 .. Len(t) : t[i] = p[i + 1] /\ i + 1 \in 1 .. Len(p)
    OBVIOUS
  <1>3. \A n : One(p, n) => f.k = n /\ t = <<>>
    BY DEF One
  <1>4. k \o d = <<>> => k = <<>> /\ d = <<>>
    BY <1>1
  <1>5. /\ <<>> \o <<>> = <<>>
        /\ \A g \in LineFrame : Append(<<>>, g) = <<g>> /\ <<>> \o <<g>> = <<g>>
    OBVIOUS
  <1>6. Frame("XID", FALSE, FALSE) \in LineFrame /\ Frame("XID", FALSE, FALSE).k = "XID"
    BY FramesMade DEF CtrlFrame, Unnumbered, Frame
  <1>a. Receives(a, u, f) /\ Phases(c, a, p, k \o d) /\ d = a.ctrl
    OBVIOUS
  <1> HIDE DEF f, t, d
  <1>7. CASE Before(c, a, p, k \o d)
    BY <1>7 DEF Before
  <1>8. CASE Configuring(c, a, p, k \o d)
    <2>1. f.k = "XID" /\ t = <<>> /\ k = <<>> /\ d = <<>>
      BY <1>3, <1>4, <1>8 DEF Configuring
    <2>2. Ignoring(a, u, f)
      BY <1>1, <1>a, <2>1
         DEF Receives, Linking, Ending, Accepting, Confirming, Asking, Numbered, Supervisory
    <2>3. /\ Alike(a, u) /\ u.state = a.state
          /\ u.ctrl = <<>> \/ u.ctrl = <<Frame("XID", FALSE, FALSE)>>
      BY <1>1, <1>5, <1>6, <1>a, <2>1, <2>2 DEF Ignoring
    <2>4. k \o u.ctrl = <<>> \/ k \o u.ctrl = <<Frame("XID", FALSE, FALSE)>>
      BY <1>5, <1>6, <2>1, <2>3
    <2>5. k \o u.ctrl = <<>> \/ One(k \o u.ctrl, "XID")
      BY <1>6, <2>4 DEF One
    <2>6. Unused(c, u)
      BY <1>8, <2>3, AlikeFresh DEF Configuring, Unused, Calm
    <2> QED
      BY <1>8, <2>1, <2>5, <2>6 DEF Phases, Configuring, t
  <1>9. CASE Establishing(c, a, p, k \o d)
    BY <1>9, EstablishingReceives DEF f, t, d
  <1>10. CASE Accepted(c, a, p, k \o d)
    BY <1>10 DEF Accepted
  <1>11. CASE Linked(c, p)
    <2>1. Unasked(t)
      BY <1>2, <1>11 DEF Linked, Unasked
    <2> QED
      BY <1>11, <2>1 DEF Phases, Linked, t
  <1> QED
    BY <1>7, <1>8, <1>9, <1>10, <1>11, <1>a DEF Phases

\* Several frames that ask for nothing join others.
LEMMA UnaskedConcat ==
    ASSUME NEW q \in Seq(LineFrame), NEW w \in Seq(LineFrame), Unasked(q), Unasked(w)
    PROVE  Unasked(q \o w)
  <1> DEFINE z == q \o w
  <1>1. Len(q) \in Nat /\ Len(w) \in Nat /\ Len(z) = Len(q) + Len(w)
        /\ \A i \in 1 .. Len(q) : z[i] = q[i]
    OBVIOUS
  <1>2. \A k \in 1 .. Len(w) : z[Len(q) + k] = w[k]
    OBVIOUS
  <1> HIDE DEF z
  <1>3. ASSUME NEW i \in 1 .. Len(z) PROVE z[i].k # "SABME"
    <2>1. CASE i <= Len(q)
      <3>1. i \in 1 .. Len(q)
        BY <1>1, <2>1
      <3> QED
        BY <1>1, <3>1 DEF Unasked
    <2>2. CASE i > Len(q)
      <3> DEFINE k == i - Len(q)
      <3>1. k \in 1 .. Len(w) /\ i = Len(q) + k
        BY <1>1, <2>2
      <3> HIDE DEF k
      <3>2. z[Len(q) + k] = w[k]
        BY ONLY <1>2, <3>1
      <3> QED
        BY <3>1, <3>2 DEF Unasked
    <2> QED
      BY <1>1, <2>1, <2>2
  <1> QED
    BY <1>3 DEF Unasked, z

\* Some of them do not ask for anything either.
LEMMA UnaskedPrefix ==
    ASSUME NEW q \in Seq(LineFrame), NEW w \in Seq(LineFrame), Unasked(q \o w)
    PROVE  Unasked(q)
  <1> DEFINE z == q \o w
  <1>1. Len(q) \in Nat /\ Len(w) \in Nat /\ Len(z) = Len(q) + Len(w)
        /\ \A i \in 1 .. Len(q) : z[i] = q[i]
    OBVIOUS
  <1>2. Unasked(z)
    OBVIOUS
  <1> HIDE DEF z
  <1>3. \A i \in 1 .. Len(q) : i \in 1 .. Len(z)
    BY <1>1
  <1> QED
    BY <1>1, <1>2, <1>3 DEF Unasked

\* Moves of a link queue no frame that asks for one.
LEMMA MovesUnasked ==
    ASSUME NEW s, Core(s), NEW u, NEW n, Moves(s, u, n), NEW l \in Seq(LineFrame),
           Unasked(l \o s.ctrl)
    PROVE  Unasked(l \o u.ctrl)
  <1> DEFINE c == s.ctrl
             q == l \o c
  <1>1. c \in Seq(LineFrame)
    <2>1. s.ctrl \in Seq(CtrlFrame) /\ CtrlFrame \subseteq LineFrame
      BY Fields DEF Core, CtrlFrame
    <2> QED
      BY <2>1
  <1>2. PICK w \in Seq(Said(s.vr)) : u.ctrl = c \o w
    BY DEF Moves
  <1>3. w \in Seq(LineFrame) /\ Unasked(w)
    <2>1. \A f \in Said(s.vr) : f \in LineFrame /\ f.k # "SABME"
      BY DEF Said, CtrlFrame, Supervisory
    <2>2. \A i \in 1 .. Len(w) : w[i] \in Said(s.vr)
      BY ElementOfSeq
    <2> QED
      BY <2>1, <2>2 DEF Unasked
  <1>4. q \in Seq(LineFrame) /\ Unasked(q)
    BY <1>1
  <1> HIDE DEF c
  <1>5. q \o w = l \o (c \o w)
    BY ONLY l \in Seq(LineFrame), <1>1, <1>3, ConcatAssociative
  <1> HIDE DEF q
  <1>6. Unasked(q \o w)
    BY <1>3, <1>4, UnaskedConcat
  <1> QED
    BY <1>2, <1>5, <1>6

\* The caller, whose request is settled, gets a frame.
LEMMA LinkedReceives ==
    ASSUME NEW c, Own(Caller, c), NEW l \in Seq(LineFrame), Linked(c, l \o c.ctrl),
           NEW f \in LineFrame, AnswererFrame(f), NEW u, Receives(c, u, f)
    PROVE  Linked(u, l \o u.ctrl)
  <1>1. /\ Core(c) /\ c.state \notin {"ESTABLISH", "DETECT"} /\ ~c.configuring /\ c.timer # "start"
        /\ Unasked(l \o c.ctrl)
    BY DEF Own, Linked
  <1>2. c.ctrl \in Seq(LineFrame)
    <2>1. c.ctrl \in Seq(CtrlFrame) /\ CtrlFrame \subseteq LineFrame
      BY <1>1, Fields DEF Core, CtrlFrame
    <2> QED
      BY <2>1
  <1>3. Unasked(l) /\ l \o <<>> = l
    <2>1. Unasked(l)
      BY <1>1, <1>2, UnaskedPrefix
    <2>2. l \o <<>> = l
      BY ONLY l \in Seq(LineFrame), ConcatEmptySeq
    <2> QED
      BY <2>1, <2>2
  <1>4. ASSUME NEW g \in LineFrame, g.k # "SABME"
        PROVE  Unasked(l \o <<g>>) /\ Unasked(l \o Append(c.ctrl, g))
    <2> DEFINE d == c.ctrl
               q == l \o d
    <2>1. q \in Seq(LineFrame) /\ Unasked(q) /\ d \in Seq(LineFrame)
      BY <1>1, <1>2
    <2>2. Append(q, g) = l \o Append(d, g)
      <3> HIDE DEF d
      <3> QED
        BY <1>4, <2>1
    <2>3. Append(l, g) = l \o <<g>>
      BY <1>4
    <2> HIDE DEF q, d
    <2>4. Unasked(Append(q, g)) /\ Unasked(Append(l, g))
      BY <1>3, <1>4, <2>1, UnaskedAppend
    <2> QED
      BY <2>2, <2>3, <2>4 DEF d
  <1>5. \A b \in BOOLEAN :
          /\ Frame("UA", FALSE, b) \in LineFrame /\ Frame("UA", FALSE, b).k # "SABME"
          /\ Frame("DM", FALSE, b) \in LineFrame /\ Frame("DM", FALSE, b).k # "SABME"
          /\ Frame("XID", FALSE, b) \in LineFrame /\ Frame("XID", FALSE, b).k # "SABME"
    BY FramesMade DEF LineFrame, CtrlFrame, Unnumbered, Frame
  <1>6. CASE Linking(c, u, f)
    <2>1. c.state = "DATA" /\ Handles(c, u, f)
      BY <1>1, <1>6 DEF Linking
    <2>2. PICK b, d : /\ Moves(c, b, (f.nr - c.va) % Mod)
                      /\ d = b \/ d = HandedOver(b, f)
                      /\ Moves(d, u, 0)
      BY <2>1 DEF Handles
    <2>3. /\ Core(b) /\ ~b.configuring /\ b.state \in {"DATA", "RELEASE"} /\ b.timer # "start"
          /\ Unasked(l \o b.ctrl)
      BY <1>1, <2>1, <2>2, MovesUnasked DEF Moves
    <2>4. /\ Core(d) /\ ~d.configuring /\ d.state \in {"DATA", "RELEASE"} /\ d.timer # "start"
          /\ d.ctrl = b.ctrl
      BY <2>2, <2>3, HandedOverFields
    <2>5. Unasked(l \o d.ctrl)
      BY <2>3, <2>4
    <2>6. Unasked(l \o u.ctrl)
      BY <2>2, <2>4, <2>5, MovesUnasked
    <2>7. ~u.configuring /\ u.state \in {"DATA", "RELEASE"} /\ u.timer # "start"
      BY <2>2, <2>4 DEF Moves
    <2> QED
      BY <2>6, <2>7 DEF Linked
  <1>7. CASE Ending(c, u, f)
    <2>1. u.state = "IDLE" /\ u.timer # "start" /\ ~u.configuring
      BY <1>1, <1>7 DEF Ending, Reborn
    <2>2. u.ctrl = <<>> \/ u.ctrl = <<Frame("UA", FALSE, f.pf)>>
      BY <1>7 DEF Ending
    <2>3. f.pf \in BOOLEAN
      BY DEF LineFrame
    <2>4. Unasked(l \o u.ctrl)
      BY <1>3, <1>4, <1>5, <2>2, <2>3
    <2> QED
      BY <2>1, <2>4 DEF Linked
  <1>8. CASE Ignoring(c, u, f)
    <2>1. u.state = c.state /\ ~u.configuring /\ u.timer # "start"
      BY <1>1, <1>8 DEF Ignoring
    <2>2. \/ u.ctrl = c.ctrl \/ u.ctrl = Append(c.ctrl, Frame("DM", FALSE, TRUE))
          \/ u.ctrl = Append(c.ctrl, Frame("XID", FALSE, FALSE))
      BY <1>8 DEF Ignoring
    <2>3. Unasked(l \o u.ctrl)
      BY <1>1, <1>4, <1>5, <2>2
    <2> QED
      BY <1>1, <2>1, <2>3 DEF Linked
  <1>9. ~Accepting(c, u, f) /\ ~Confirming(c, u, f) /\ ~Asking(c, u, f)
    BY <1>1 DEF Accepting, Confirming, Asking, AnswererFrame
  <1> QED
    BY <1>6, <1>7, <1>8, <1>9 DEF Receives

\* The caller has asked for parameters.
LEMMA ConfiguringReceives ==
    ASSUME NEW c, Own(Caller, c), NEW a, NEW l \in Seq(LineFrame),
           NEW q \in Seq(LineFrame), q # <<>>, Configuring(c, a, l \o c.ctrl, q),
           AnswererFrame(Head(q)), NEW u, Receives(c, u, Head(q))
    PROVE  Phases(u, a, l \o u.ctrl, Tail(q)) /\ Begins(u, Tail(q), l \o u.ctrl)
  <1> DEFINE f == Head(q)
             t == Tail(q)
             d == c.ctrl
  <1>1. d \in Seq(LineFrame)
    <2>1. c.ctrl \in Seq(CtrlFrame) /\ CtrlFrame \subseteq LineFrame
      BY Fields DEF Own, Core, CtrlFrame
    <2> QED
      BY <2>1
  <1>2. \A n : One(q, n) => f.k = n /\ t = <<>>
    BY DEF One
  <1>3. l \o d = <<>> => l = <<>> /\ d = <<>>
    BY <1>1
  <1>4. <<>> \o <<>> = <<>> /\ \A g \in LineFrame : <<>> \o <<g>> = <<g>>
    OBVIOUS
  <1>5. /\ Receives(c, u, f) /\ Configuring(c, a, l \o d, q) /\ d = c.ctrl /\ AnswererFrame(f)
        /\ q # <<>>
    OBVIOUS
  <1> HIDE DEF f, t, d
  <1>6. f.k = "XID" /\ t = <<>> /\ l = <<>> /\ d = <<>> /\ ~f.cmd
    BY <1>2, <1>3, <1>5 DEF Configuring, AnswererFrame
  <1>7. c.state = "IDLE" /\ c.configuring /\ c.timer # "start" /\ Fresh(c) /\ Fresh(a) /\ Calm(a)
    BY <1>5 DEF Configuring, Unused
  <1>8. Ignoring(c, u, f) \/ Asking(c, u, f)
    BY <1>5, <1>6, <1>7
       DEF Receives, Linking, Ending, Accepting, Confirming, Numbered, Supervisory
  <1>9. CASE Ignoring(c, u, f)
    <2>1. /\ Alike(c, u) /\ u.state = "IDLE" /\ u.ctrl = <<>> /\ u.configuring /\ u.timer # "start"
      BY <1>5, <1>6, <1>7, <1>9 DEF Ignoring
    <2>2. l \o u.ctrl = <<>>
      BY <1>4, <1>6, <2>1
    <2>3. Unused(u, a) /\ ~Live(u)
      BY <1>7, <2>1, AlikeFresh DEF Unused, Live
    <2>4. Begins(u, t, l \o u.ctrl)
      BY <1>6, <2>2, <2>3 DEF Begins, Unused
    <2> QED
      BY <1>5, <1>6, <2>1, <2>2, <2>3, <2>4 DEF Phases, Configuring, t
  <1>10. CASE Asking(c, u, f)
    <2> DEFINE g == Frame("SABME", TRUE, TRUE)
    <2>1. u.state = "ESTABLISH" /\ u.ctrl = <<g>> /\ u.vr = 0 /\ u.va = 0
      BY <1>10 DEF Asking, Reborn
    <2>2. Fresh(u)
      BY <1>7, <1>10, AlikeFresh DEF Asking
    <2>3. g \in LineFrame /\ g.k = "SABME" /\ g.k \in Unnumbered
      BY FramesMade DEF CtrlFrame, Unnumbered, Frame
    <2> HIDE DEF g
    <2>4. l \o u.ctrl = <<g>>
      BY <1>4, <1>6, <2>1, <2>3
    <2>5. One(l \o u.ctrl, "SABME")
      BY <2>3, <2>4 DEF One
    <2>6. Begins(u, t, l \o u.ctrl)
      BY <1>6, <2>1, <2>2, <2>3, <2>4, OneUnnumbered DEF Begins
    <2> QED
      BY <1>6, <1>7, <2>1, <2>2, <2>5, <2>6 DEF Phases, Establishing, Unused, t
  <1> QED
    BY <1>8, <1>9, <1>10

\* The caller gets a frame.
LEMMA CallerReceives ==
    ASSUME NEW c, Own(Caller, c), NEW a, NEW l \in Seq(LineFrame),
           NEW q \in Seq(LineFrame), q # <<>>, Phases(c, a, l \o c.ctrl, q),
           AnswererFrame(Head(q)), NEW u, Receives(c, u, Head(q))
    PROVE  /\ Phases(u, a, l \o u.ctrl, Tail(q))
           /\ Accepted(c, a, l \o c.ctrl, q) => Confirming(c, u, Head(q))
  <1> DEFINE f == Head(q)
             t == Tail(q)
             d == c.ctrl
  <1>1. d \in Seq(LineFrame)
    <2>1. c.ctrl \in Seq(CtrlFrame) /\ CtrlFrame \subseteq LineFrame
      BY Fields DEF Own, Core, CtrlFrame
    <2> QED
      BY <2>1
  <1>2. t \in Seq(LineFrame) /\ f \in LineFrame /\ f = q[1]
    OBVIOUS
  <1>3. \A n : One(q, n) => f.k = n /\ t = <<>>
    BY DEF One
  <1>4. l \o d = <<>> => l = <<>> /\ d = <<>>
    BY <1>1
  <1>5. <<>> \o <<>> = <<>>
    OBVIOUS
  <1>a. Receives(c, u, f) /\ Phases(c, a, l \o d, q) /\ d = c.ctrl /\ AnswererFrame(f) /\ Own(Caller, c)
    OBVIOUS
  <1> HIDE DEF f, t, d
  <1>7. CASE Before(c, a, l \o d, q)
    BY <1>7 DEF Before
  <1>8. CASE Configuring(c, a, l \o d, q)
    <2>1. ~Accepted(c, a, l \o d, q)
      BY <1>8 DEF Configuring, Accepted
    <2> QED
      BY <1>8, <2>1, ConfiguringReceives DEF f, t, d
  <1>9. CASE Establishing(c, a, l \o d, q)
    BY <1>9 DEF Establishing
  <1>10. CASE Accepted(c, a, l \o d, q)
    <2>1. f.k = "UA" /\ ~f.cmd /\ l = <<>> /\ d = <<>> /\ c.state = "ESTABLISH"
      BY <1>2, <1>4, <1>10 DEF Accepted
    <2>2. Confirming(c, u, f)
      BY <1>a, <2>1
         DEF Receives, Linking, Ending, Accepting, Asking, Ignoring, Numbered, Supervisory
    <2>3. /\ u.state = "DATA" /\ u.timer = "T403" /\ u.ctrl = <<>> /\ u.configuring = c.configuring
      BY <2>2 DEF Confirming, Reborn
    <2>4. ~c.configuring
      BY <1>a, <2>1, Fields DEF Own, Core, Role
    <2>5. Unasked(l \o u.ctrl)
      BY <1>5, <2>1, <2>3 DEF Unasked
    <2> QED
      BY <2>2, <2>3, <2>4, <2>5 DEF Phases, Linked, f
  <1>11. CASE Linked(c, l \o d)
    <2>1. Linked(u, l \o u.ctrl)
      BY <1>2, <1>11, <1>a, LinkedReceives
    <2>2. ~Accepted(c, a, l \o d, q)
      BY <1>11 DEF Linked, Accepted
    <2> QED
      BY <2>1, <2>2 DEF Phases, d
  <1> QED
    BY <1>7, <1>8, <1>9, <1>10, <1>11, <1>a DEF Phases

\* The stations, and all that is under way.
LEMMA TheTwo ==
    ASSUME OwnInv
    PROVE  /\ Caller # Answerer /\ Peer(Caller) = Answerer /\ Peer(Answerer) = Caller
           /\ Station = {Caller, Answerer}
           /\ Own(Caller, st[Caller]) /\ Own(Answerer, st[Answerer])
           /\ line[Caller] \in Seq(LineFrame) /\ line[Answerer] \in Seq(LineFrame)
           /\ st[Caller].ctrl \in Seq(LineFrame) /\ st[Answerer].ctrl \in Seq(LineFrame)
           /\ line[Answerer] \o st[Caller].ctrl \in Seq(LineFrame)
           /\ line[Caller] \o st[Answerer].ctrl \in Seq(LineFrame)
           /\ NoCommandUnderWay => Silent(line[Answerer] \o st[Caller].ctrl,
                                          line[Caller] \o st[Answerer].ctrl)
  <1> DEFINE c == st[Caller].ctrl
             a == st[Answerer].ctrl
             k == line[Caller]
             l == line[Answerer]
  <1>1. /\ Caller # Answerer /\ Peer(Caller) = Answerer /\ Peer(Answerer) = Caller
        /\ Station = {Caller, Answerer} /\ Caller \in Station /\ Answerer \in Station
    BY Peers DEF Peer, Station
  <1>2. /\ Own(Caller, st[Caller]) /\ Own(Answerer, st[Answerer])
        /\ k \in Seq(LineFrame) /\ l \in Seq(LineFrame)
        /\ c \in Seq(LineFrame) /\ a \in Seq(LineFrame)
    BY <1>1, Both
  <1>3. l \o c \in Seq(LineFrame) /\ k \o a \in Seq(LineFrame)
    BY <1>2
  <1>4. ASSUME NEW q \in Seq(LineFrame), NEW w \in Seq(LineFrame), NEW i \in 1 .. Len(q \o w)
        PROVE  (q \o w)[i] \in ToSet(q) \cup ToSet(w)
    <2> DEFINE z == q \o w
    <2>1. Len(q) \in Nat /\ Len(w) \in Nat /\ Len(z) = Len(q) + Len(w)
          /\ \A j \in 1 .. Len(q) : z[j] = q[j]
      OBVIOUS
    <2>2. \A j \in 1 .. Len(w) : z[Len(q) + j] = w[j]
      OBVIOUS
    <2>3. i \in 1 .. Len(z)
      OBVIOUS
    <2> HIDE DEF z
    <2>4. CASE i <= Len(q)
      <3>1. i \in DOMAIN q /\ z[i] = q[i]
        BY <2>1, <2>3, <2>4
      <3> QED
        BY <3>1 DEF ToSet, z
    <2>5. CASE i > Len(q)
      <3> DEFINE j == i - Len(q)
      <3>1. j \in 1 .. Len(w) /\ i = Len(q) + j
        BY <2>1, <2>3, <2>5
      <3> HIDE DEF j
      <3>2. z[Len(q) + j] = w[j]
        BY ONLY <2>2, <3>1
      <3>3. z[i] = w[j] /\ j \in DOMAIN w
        BY <3>1, <3>2
      <3> QED
        BY <3>3 DEF ToSet, z
    <2> QED
      BY <2>1, <2>3, <2>4, <2>5
  <1>5. UnderWay = (ToSet(k) \cup ToSet(c)) \cup (ToSet(l) \cup ToSet(a))
    BY <1>1 DEF UnderWay
  <1> HIDE DEF c, a, k, l
  <1>6. ASSUME NoCommandUnderWay PROVE Silent(l \o c, k \o a)
    <2>1. \A i \in 1 .. Len(l \o c) : (l \o c)[i] \in UnderWay
      BY <1>2, <1>4, <1>5
    <2>2. \A i \in 1 .. Len(k \o a) : (k \o a)[i] \in UnderWay
      BY <1>2, <1>4, <1>5
    <2> QED
      BY <1>6, <2>1, <2>2 DEF NoCommandUnderWay, Silent
  <1> QED
    BY <1>1, <1>2, <1>3, <1>6 DEF c, a, k, l

\* The phase after a step, in terms of what is then there.
LEMMA NextPhase ==
    ASSUME NEW c, NEW a, NEW k, NEW l, st'[Caller] = c, st'[Answerer] = a,
           line'[Caller] = k, line'[Answerer] = l, Phases(c, a, l \o c.ctrl, k \o a.ctrl)
    PROVE  Phase'
  BY DEF Phase

\* A station goes on by itself.
LEMMA GoesOnPhase ==
    ASSUME OwnInv, Phase, Stopper = {}, NEW x \in Station, GoesOn(x)
    PROVE  Phase'
  <1> DEFINE c == st[Caller]
             a == st[Answerer]
             k == line[Caller]
             l == line[Answerer]
  <1>1. PICK u : Alone(x, st[x], u) /\ st' = [st EXCEPT ![x] = u] /\ UNCHANGED <<line, losses>>
    BY DEF GoesOn
  <1>2. /\ x = Caller \/ x = Answerer
        /\ Caller # Answerer /\ Own(Caller, c) /\ Own(Answerer, a)
        /\ l \in Seq(LineFrame) /\ c.ctrl \in Seq(LineFrame) /\ l \o c.ctrl \in Seq(LineFrame)
        /\ k \in Seq(LineFrame) /\ a.ctrl \in Seq(LineFrame) /\ k \o a.ctrl \in Seq(LineFrame)
        /\ NoCommandUnderWay => Silent(l \o c.ctrl, k \o a.ctrl)
    BY TheTwo
  <1>3. line'[Caller] = k /\ line'[Answerer] = l
    BY <1>1
  <1>4. Phases(c, a, l \o c.ctrl, k \o a.ctrl)
    BY DEF Phase
  <1>5. ASSUME NEW s, NEW q \in Seq(LineFrame), s.ctrl \in Seq(LineFrame)
        PROVE  Joined(s, u, q \o s.ctrl, q \o u.ctrl)
    <2> DEFINE d == s.ctrl
    <2>1. d \in Seq(LineFrame)
      BY <1>5
    <2> HIDE DEF d
    <2>2. \A f \in CtrlFrame : Append(q \o d, f) = q \o Append(d, f)
      BY <2>1 DEF CtrlFrame
    <2> QED
      BY <2>2 DEF Joined, d
  <1>6. CASE x = Caller
    <2>1. st'[Caller] = u /\ st'[Answerer] = a /\ Alone(Caller, c, u)
      BY <1>1, <1>2, <1>6 DEF OwnInv, Station
    <2>2. Joined(c, u, l \o c.ctrl, l \o u.ctrl)
      BY <1>2, <1>5
    <2> HIDE DEF c, a, k, l
    <2>3. Phases(u, a, l \o u.ctrl, k \o a.ctrl)
      BY <1>2, <1>4, <2>1, <2>2, CallerAlone
    <2> QED
      BY <1>3, <2>1, <2>3, NextPhase
  <1>7. CASE x = Answerer
    <2>1. st'[Answerer] = u /\ st'[Caller] = c /\ Alone(Answerer, a, u)
      BY <1>1, <1>2, <1>7 DEF OwnInv, Station
    <2>2. Joined(a, u, k \o a.ctrl, k \o u.ctrl)
      BY <1>2, <1>5
    <2> HIDE DEF c, a, k, l
    <2>3. Phases(c, u, l \o c.ctrl, k \o u.ctrl)
      BY <1>2, <1>4, <2>1, <2>2, AnswererAlone
    <2> QED
      BY <1>3, <2>1, <2>3, NextPhase
  <1> QED
    BY <1>2, <1>6, <1>7

\* The first frame of all that is under way to a station arrives or is lost.
LEMMA FirstLeaves ==
    ASSUME OwnInv, NEW x \in Station, line[x] # <<>>, line' = [line EXCEPT ![x] = Tail(@)]
    PROVE  /\ x = Caller => LET q == line[Caller] \o st[Answerer].ctrl
                            IN  /\ q # <<>> /\ Head(q) = Head(line[Caller])
                                /\ Tail(q) = line'[Caller] \o st[Answerer].ctrl
                                /\ line'[Answerer] = line[Answerer]
           /\ x = Answerer => LET p == line[Answerer] \o st[Caller].ctrl
                              IN  /\ p # <<>> /\ Head(p) = Head(line[Answerer])
                                  /\ Tail(p) = line'[Answerer] \o st[Caller].ctrl
                                  /\ line'[Caller] = line[Caller]
  BY Shorter, TheTwo

\* A frame is lost.
LEMMA VanishesPhase ==
    ASSUME OwnInv, Phase, "UA" \notin MayLose, NEW x \in Station, Vanishes(x)
    PROVE  Phase'
  <1> DEFINE c == st[Caller]
             a == st[Answerer]
             p == line[Answerer] \o c.ctrl
             q == line[Caller] \o a.ctrl
  <1>1. /\ line[x] # <<>> /\ line' = [line EXCEPT ![x] = Tail(@)] /\ st' = st
        /\ Head(line[x]).k \in MayLose \/ st[x].state = "DETECT"
    BY DEF Vanishes
  <1>2. /\ x = Caller \/ x = Answerer
        /\ p \in Seq(LineFrame) /\ q \in Seq(LineFrame)
    BY TheTwo
  <1>3. Phases(c, a, p, q)
    BY DEF Phase
  <1>4. \A z, n : One(z, n) => Tail(z) = <<>> /\ z # <<>>
    BY DEF One
  <1>5. CASE x = Caller
    <2>1. /\ q # <<>> /\ Head(q) = Head(line[Caller])
          /\ Tail(q) = line'[Caller] \o a.ctrl /\ line'[Answerer] = line[Answerer]
      BY <1>1, <1>5, FirstLeaves
    <2>2. Head(q).k # "UA" \/ c.state = "DETECT"
      BY <1>1, <1>5, <2>1
    <2> HIDE DEF p, q
    <2>3. Head(q) = q[1]
      <3>1. q \in Seq(LineFrame) /\ q # <<>>
        BY <1>2, <2>1
      <3> QED
        BY ONLY <3>1
    <2>4. Phases(c, a, p, Tail(q))
      BY <1>3, <1>4, <2>1, <2>2, <2>3
         DEF Phases, Before, Configuring, Establishing, Accepted
    <2>5. line'[Answerer] \o c.ctrl = p
      BY <2>1 DEF p
    <2> HIDE DEF c, a
    <2>6. st'[Caller] = c /\ st'[Answerer] = a
      BY <1>1 DEF c, a
    <2> QED
      BY <2>1, <2>4, <2>5, <2>6, NextPhase
  <1>6. CASE x = Answerer
    <2>1. /\ p # <<>> /\ Tail(p) = line'[Answerer] \o c.ctrl /\ line'[Caller] = line[Caller]
      BY <1>1, <1>6, FirstLeaves
    <2>2. Unasked(p) => Unasked(Tail(p))
      <3> HIDE DEF p
      <3>1. \A i \in 1 .. Len(Tail(p)) : Tail(p)[i] = p[i + 1] /\ i + 1 \in 1 .. Len(p)
        BY <1>2, <2>1
      <3> QED
        BY <3>1 DEF Unasked
    <2> HIDE DEF p, q
    <2>3. Phases(c, a, Tail(p), q)
      BY <1>3, <1>4, <2>1, <2>2
         DEF Phases, Before, Configuring, Establishing, Accepted, Linked
    <2>4. line'[Caller] \o a.ctrl = q
      BY <2>1 DEF q
    <2> HIDE DEF c, a
    <2>5. st'[Caller] = c /\ st'[Answerer] = a
      BY <1>1 DEF c, a
    <2> QED
      BY <2>1, <2>3, <2>4, <2>5, NextPhase
  <1> QED
    BY <1>2, <1>5, <1>6

\* A frame that was queued is sent: the phase is as it was.
LEMMA QueuedPhase ==
    ASSUME OwnInv, Phase, NEW x \in Station, Queued(x)
    PROVE  Phase'
  <1> DEFINE c == st[Caller]
             a == st[Answerer]
             p == line[Answerer] \o c.ctrl
             q == line[Caller] \o a.ctrl
             u == [st[x] EXCEPT !.ctrl = Tail(st[x].ctrl)]
  <1>1. /\ st' = [st EXCEPT ![x] = u] /\ line'[x] = line[x]
        /\ line'[Peer(x)] \o u.ctrl = line[Peer(x)] \o st[x].ctrl
        /\ Alike(st[x], u) /\ u.state = st[x].state /\ u.timer = st[x].timer
        /\ u.configuring = st[x].configuring
    BY QueuedSame
  <1> HIDE DEF u
  <1>2. /\ x = Caller \/ x = Answerer
        /\ Caller # Answerer /\ Peer(Caller) = Answerer /\ Peer(Answerer) = Caller
    BY TheTwo
  <1>3. Phases(c, a, p, q)
    BY DEF Phase
  <1>4. CASE x = Caller
    <2>1. st'[Caller] = u /\ st'[Answerer] = a
      BY <1>1, <1>2, <1>4 DEF OwnInv, Station
    <2>2. /\ Alike(c, u) /\ u.state = c.state /\ u.timer = c.timer /\ u.configuring = c.configuring
          /\ line'[Answerer] \o u.ctrl = p /\ line'[Caller] \o a.ctrl = q
      BY <1>1, <1>2, <1>4
    <2> HIDE DEF c, a, p, q
    <2>3. (Fresh(u) <=> Fresh(c)) /\ u.vr = c.vr /\ u.va = c.va
      BY <2>2, AlikeFresh DEF Alike
    <2>4. Phases(u, a, p, q)
      BY <1>3, <2>2, <2>3
         DEF Phases, Before, Configuring, Establishing, Accepted, Linked, Unused, Calm
    <2> QED
      BY <2>1, <2>2, <2>4, NextPhase
  <1>5. CASE x = Answerer
    <2>1. st'[Answerer] = u /\ st'[Caller] = c
      BY <1>1, <1>2, <1>5 DEF OwnInv, Station
    <2>2. /\ Alike(a, u) /\ u.state = a.state
          /\ line'[Caller] \o u.ctrl = q /\ line'[Answerer] \o c.ctrl = p
      BY <1>1, <1>2, <1>5
    <2> HIDE DEF c, a, p, q
    <2>3. Fresh(u) <=> Fresh(a)
      BY <2>2, AlikeFresh
    <2>4. Phases(c, u, p, q)
      BY <1>3, <2>2, <2>3
         DEF Phases, Before, Configuring, Establishing, Accepted, Unused, Calm
    <2> QED
      BY <2>1, <2>2, <2>4, NextPhase
  <1> QED
    BY <1>2, <1>4, <1>5

\* A frame of the buffer is sent: there is a link.
LEMMA SendsPhase ==
    ASSUME OwnInv, Phase, NEW x \in Station, Sends(x)
    PROVE  Phase'
  <1> DEFINE c == st[Caller]
             a == st[Answerer]
             k == line[Caller]
             l == line[Answerer]
  <1>1. PICK u, f : /\ Informs(st[x], u, f) /\ st' = [st EXCEPT ![x] = u]
                    /\ line' = [line EXCEPT ![Peer(x)] = Append(@, f)]
    BY DEF Sends
  <1>2. /\ x = Caller \/ x = Answerer
        /\ Caller # Answerer /\ Peer(Caller) = Answerer /\ Peer(Answerer) = Caller
        /\ k \in Seq(LineFrame) /\ l \in Seq(LineFrame)
    BY TheTwo
  <1>3. Phases(c, a, l \o c.ctrl, k \o a.ctrl)
    BY DEF Phase
  <1>4. \A z \in Seq(LineFrame) : z \o <<>> = z
    BY ConcatEmptySeq
  <1>5. /\ st[x].state = "DATA" /\ st[x].ctrl = <<>> /\ u.ctrl = <<>> /\ u.state = "DATA"
        /\ u.configuring = st[x].configuring /\ u.timer \in {st[x].timer, "T401", "T403"}
        /\ f \in LineFrame /\ f.k = "I"
    BY <1>1 DEF Informs, Moves
  <1>6. \A z \in Seq(LineFrame) : Append(z, f) \in Seq(LineFrame)
    BY <1>5
  <1>7. CASE x = Caller
    <2>1. /\ st'[Caller] = u /\ st'[Answerer] = a
          /\ line'[Caller] = k /\ line'[Answerer] = Append(l, f)
      BY <1>1, <1>2, <1>7 DEF OwnInv, Station
    <2>2. Linked(c, l \o c.ctrl)
      BY <1>3, <1>5, <1>7 DEF Phases, Before, Configuring, Establishing, Accepted, Calm
    <2>3. c.ctrl = <<>>
      BY <1>5, <1>7
    <2>4. /\ u.state = "DATA" /\ u.configuring = c.configuring /\ u.timer \in {c.timer, "T401", "T403"}
      BY <1>5, <1>7
    <2> HIDE DEF c, a, k, l
    <2>5. Unasked(Append(l, f))
      BY <1>2, <1>4, <1>5, <2>2, <2>3, UnaskedAppend DEF Linked
    <2>6. Unasked(Append(l, f) \o u.ctrl)
      BY <1>2, <1>4, <1>5, <1>6, <2>5
    <2>7. Phases(u, a, Append(l, f) \o u.ctrl, k \o a.ctrl)
      BY <2>2, <2>4, <2>6 DEF Phases, Linked
    <2> QED
      BY <2>1, <2>7, NextPhase
  <1>8. CASE x = Answerer
    <2>1. /\ st'[Answerer] = u /\ st'[Caller] = c
          /\ line'[Answerer] = l /\ line'[Caller] = Append(k, f)
      BY <1>1, <1>2, <1>8 DEF OwnInv, Station
    <2>2. a.ctrl = <<>> /\ a.state = "DATA"
      BY <1>5, <1>8
    <2> HIDE DEF c, a, k, l
    <2>3. Accepted(c, a, l \o c.ctrl, k) \/ Linked(c, l \o c.ctrl)
      BY <1>2, <1>3, <1>4, <2>2
         DEF Phases, Before, Configuring, Establishing, Unused, Calm
    <2>4. k # <<>> => Append(k, f) # <<>> /\ Append(k, f)[1] = k[1]
      BY <1>2, <1>5
    <2>5. Phases(c, u, l \o c.ctrl, Append(k, f))
      BY <1>5, <2>3, <2>4 DEF Phases, Accepted
    <2>6. Append(k, f) \o u.ctrl = Append(k, f)
      BY <1>2, <1>4, <1>5, <1>6
    <2>7. Phases(c, u, l \o c.ctrl, Append(k, f) \o u.ctrl)
      BY <2>5, <2>6
    <2> QED
      BY <2>1, <2>7, NextPhase
  <1> QED
    BY <1>2, <1>7, <1>8

\* A frame arrives.
LEMMA ArrivesPhase ==
    ASSUME OwnInv, Phase, NEW x \in Station, Arrives(x)
    PROVE  Phase'
  <1> DEFINE c == st[Caller]
             a == st[Answerer]
             k == line[Caller]
             l == line[Answerer]
             p == l \o c.ctrl
             q == k \o a.ctrl
  <1>1. line[x] # <<>> /\ line' = [line EXCEPT ![x] = Tail(@)]
    BY DEF Arrives
  <1>2. PICK u : Receives(st[x], u, Head(line[x])) /\ st' = [st EXCEPT ![x] = u]
    BY DEF Arrives
  <1>3. /\ x = Caller \/ x = Answerer
        /\ Caller # Answerer /\ Peer(Answerer) = Caller
        /\ Own(Caller, c) /\ Own(Answerer, a)
        /\ k \in Seq(LineFrame) /\ l \in Seq(LineFrame)
        /\ p \in Seq(LineFrame) /\ q \in Seq(LineFrame)
    BY TheTwo
  <1>4. Phases(c, a, p, q)
    BY DEF Phase
  <1>5. CASE x = Caller
    <2>1. st'[Caller] = u /\ st'[Answerer] = a
      BY <1>2, <1>3, <1>5 DEF OwnInv, Station
    <2>2. /\ q # <<>> /\ Head(q) = Head(k)
          /\ Tail(q) = line'[Caller] \o a.ctrl /\ line'[Answerer] = l
      BY <1>1, <1>5, FirstLeaves
    <2>3. Receives(c, u, Head(q))
      BY <1>2, <1>5, <2>2
    <2>4. AnswererFrame(Head(q))
      <3>1. Sent(Answerer, a, k)
        BY <1>3 DEF OwnInv, Station
      <3> QED
        BY <1>1, <1>5, <2>2, <3>1, SentTail
    <2>a. p = l \o c.ctrl
      OBVIOUS
    <2> HIDE DEF c, a, k, l, p, q
    <2>5. Phases(u, a, l \o u.ctrl, Tail(q))
      BY <1>3, <1>4, <2>2, <2>3, <2>4, <2>a, CallerReceives
    <2> QED
      BY <2>1, <2>2, <2>5, NextPhase
  <1>6. CASE x = Answerer
    <2>1. st'[Answerer] = u /\ st'[Caller] = c
      BY <1>2, <1>3, <1>6 DEF OwnInv, Station
    <2>2. /\ p # <<>> /\ Head(p) = Head(l)
          /\ Tail(p) = line'[Answerer] \o c.ctrl /\ line'[Caller] = k
      BY <1>1, <1>6, FirstLeaves
    <2>3. Receives(a, u, Head(p))
      BY <1>2, <1>6, <2>2
    <2>a. q = k \o a.ctrl
      OBVIOUS
    <2> HIDE DEF c, a, k, l, p, q
    <2>4. Phases(c, u, Tail(p), k \o u.ctrl)
      BY <1>3, <1>4, <2>2, <2>3, <2>a, AnswererReceives
    <2> QED
      BY <2>1, <2>2, <2>4, NextPhase
  <1> QED
    BY <1>3, <1>5, <1>6

-----------------------------------------------------------------------------
(* The invariant.                                                           *)

\* A link begins with nothing numbered under way.
LEMMA BeginsPair ==
    ASSUME NEW u, Core(u), NEW p, Core(p), Fresh(p), NEW l \in Seq(LineFrame),
           NEW r \in Seq(LineFrame), Begins(u, r, l \o u.ctrl)
    PROVE  (Live(u) => Good(u)) /\ Pair(u, p, l, r)
  <1>1. /\ Fresh(u) /\ (Live(u) => u.vr = 0 /\ u.va = 0) /\ r = <<>>
        /\ \A i \in 1 .. Len(l \o u.ctrl) : ~Numbered((l \o u.ctrl)[i])
    BY DEF Begins
  <1>2. \A i \in 1 .. Len(r) : ~Numbered(r[i])
    BY <1>1
  <1> QED
    BY <1>1, <1>2, FreshPair

\* A frame arrives, whatever it is.
LEMMA ArrivesAnyLink ==
    ASSUME OwnInv, LinkInv, Phase, NEW x \in Station, Arrives(x)
    PROVE  LinkInv'
  <1> DEFINE c == st[Caller]
             a == st[Answerer]
             k == line[Caller]
             l == line[Answerer]
             p == l \o c.ctrl
             q == k \o a.ctrl
  <1>1. line[x] # <<>> /\ line' = [line EXCEPT ![x] = Tail(@)]
    BY DEF Arrives
  <1>2. PICK u : Receives(st[x], u, Head(line[x])) /\ st' = [st EXCEPT ![x] = u]
    BY DEF Arrives
  <1>3. /\ x = Caller \/ x = Answerer
        /\ Caller \in Station /\ Answerer \in Station
        /\ Peer(Caller) = Answerer /\ Peer(Answerer) = Caller
        /\ Own(Caller, c) /\ Own(Answerer, a) /\ Core(c) /\ Core(a)
        /\ k \in Seq(LineFrame) /\ l \in Seq(LineFrame)
        /\ p \in Seq(LineFrame) /\ q \in Seq(LineFrame)
    BY TheTwo DEF Own
  <1>4. Phases(c, a, p, q)
    BY DEF Phase
  <1>5. /\ (Live(c) => Good(c)) /\ (Live(a) => Good(a))
        /\ Pair(c, a, l, q) /\ Pair(a, c, k, p)
    BY <1>3 DEF LinkInv
  <1>6. CASE x = Caller
    <2>1. /\ q # <<>> /\ Head(q) = Head(k)
          /\ Tail(q) = line'[Caller] \o a.ctrl /\ line'[Answerer] = l
      BY <1>1, <1>6, FirstLeaves
    <2>2. Receives(c, u, Head(q))
      BY <1>2, <1>6, <2>1
    <2>3. Head(k) \in LineFrame /\ AnswererFrame(Head(k)) /\ Head(k).k # "SABME"
      <3>1. Sent(Answerer, a, k)
        BY <1>3 DEF OwnInv
      <3> QED
        BY <1>1, <1>6, <3>1, SentTail DEF AnswererFrame
    <2>4. Own(Caller, u)
      BY <1>3, <2>1, <2>2, <2>3, ReceiveOwn
    <2>5. Core(u)
      BY <2>4 DEF Own
    <2>6. Tail(q) \in Seq(LineFrame)
      BY <1>3, <2>1, TrafficTail, <1>5 DEF Pair
    <2>a. p = l \o c.ctrl
      OBVIOUS
    <2>7. CASE Linked(c, p)
      <3>1. c.state # "ESTABLISH" /\ ~c.configuring
        BY <2>7 DEF Linked
      <3> QED
        BY <1>6, <2>3, <3>1, ArrivesLink
    <2>8. ASSUME (Live(u) => Good(u)) /\ Pair(u, a, l, Tail(q))
          PROVE  LinkInv'
      <3>1. Pair(u, a, line'[Answerer], line'[Caller] \o a.ctrl)
        BY <2>1, <2>8
      <3> QED
        BY <1>2, <1>3, <1>5, <1>6, <2>8, <3>1, OneLink
    <2>9. CASE Configuring(c, a, p, q)
      <3> HIDE DEF c, a, k, l, p, q
      <3>1. Begins(u, Tail(q), l \o u.ctrl)
        BY <1>3, <2>1, <2>2, <2>3, <2>9, <2>a, ConfiguringReceives
      <3>2. Fresh(a)
        BY <2>9 DEF Configuring, Unused
      <3>3. (Live(u) => Good(u)) /\ Pair(u, a, l, Tail(q))
        BY <1>3, <2>5, <2>6, <3>1, <3>2, BeginsPair
      <3> QED
        BY <2>8, <3>3
    <2>10. CASE Accepted(c, a, p, q)
      <3> HIDE DEF c, a, k, l, p, q
      <3>1. Confirming(c, u, Head(q))
        BY <1>3, <1>4, <2>1, <2>2, <2>3, <2>10, <2>a, CallerReceives
      <3>2. Fresh(c) /\ c.state = "ESTABLISH"
        BY <2>10 DEF Accepted
      <3>3. Pair(c, a, l, Tail(q))
        BY <1>3, <1>5, <2>1, PairTail
      <3>4. Good(u) /\ Pair(u, a, l, Tail(q))
        BY <1>3, <2>5, <2>6, <3>1, <3>2, <3>3, ConfirmingPair
      <3> QED
        BY <2>8, <3>4
    <2> QED
      BY <1>4, <2>1, <2>7, <2>9, <2>10 DEF Phases, Before, Establishing
  <1>7. CASE x = Answerer
    <2>1. /\ p # <<>> /\ Head(p) = Head(l)
          /\ Tail(p) = line'[Answerer] \o c.ctrl /\ line'[Caller] = k
      BY <1>1, <1>7, FirstLeaves
    <2>2. Receives(a, u, Head(p))
      BY <1>2, <1>7, <2>1
    <2>3. Head(l) \in LineFrame
      BY <1>1, <1>3, <1>7
    <2>4. Own(Answerer, u)
      BY <1>3, <2>1, <2>2, <2>3, ReceiveOwn, TheTwo
    <2>5. Core(u)
      BY <2>4 DEF Own
    <2>6. Tail(p) \in Seq(LineFrame)
      BY <1>3, <2>1, TrafficTail, <1>5 DEF Pair
    <2>7. a.state # "ESTABLISH" /\ ~a.configuring
      BY <1>3 DEF Own, Role
    <2>a. q = k \o a.ctrl
      OBVIOUS
    <2>8. CASE Linked(c, p) \/ Configuring(c, a, p, q)
      <3>1. Head(p).k # "SABME"
        <4> HIDE DEF p, q, c, a
        <4>1. CASE Linked(c, p)
          <5>1. Head(p) = p[1] /\ 1 \in 1 .. Len(p)
            BY <1>3, <2>1
          <5> QED
            BY <4>1, <5>1 DEF Linked, Unasked
        <4>2. CASE Configuring(c, a, p, q)
          BY <2>1, <4>2 DEF Configuring, One
        <4> QED
          BY <2>8, <4>1, <4>2
      <3>2. Head(l).k # "SABME"
        BY <2>1, <3>1
      <3> QED
        BY <1>7, <2>7, <3>2, ArrivesLink
    <2>9. CASE Establishing(c, a, p, q)
      <3>1. (Live(u) => Good(u)) /\ Pair(u, c, k, Tail(p))
        <4> HIDE DEF c, a, k, l, p, q
        <4>1. Begins(u, Tail(p), k \o u.ctrl)
          BY <1>3, <2>1, <2>2, <2>9, <2>a, EstablishingReceives
        <4>2. Fresh(c)
          BY <2>9 DEF Establishing, Unused
        <4> QED
          BY <1>3, <2>5, <2>6, <4>1, <4>2, BeginsPair
      <3>2. Pair(u, c, line'[Caller], line'[Answerer] \o c.ctrl)
        BY <2>1, <3>1
      <3> QED
        BY <1>2, <1>3, <1>5, <1>7, <3>1, <3>2, OneLink
    <2> QED
      BY <1>4, <2>1, <2>8, <2>9 DEF Phases, Before, Accepted
  <1> QED
    BY <1>3, <1>6, <1>7

\* The two stations, what is under way, and where they are.
DeliveryInv == OwnInv /\ LinkInv /\ Phase

\* It holds at the start.
LEMMA DeliveryAtFirst ==
    ASSUME Init
    PROVE  DeliveryInv
  <1>1. OwnInv
    BY OwnAtFirst
  <1>2. /\ Caller \in Station /\ Answerer \in Station /\ Station = {Caller, Answerer}
        /\ Peer(Caller) = Answerer /\ Peer(Answerer) = Caller
    BY Peers DEF Station, Peer
  <1> DEFINE c == st[Caller]
             a == st[Answerer]
             e == <<>>
  <1>3. c = New(Caller) /\ a = New(Answerer) /\ line[Caller] = e /\ line[Answerer] = e
    BY <1>2 DEF Init
  <1>4. ASSUME NEW x \in Station
        PROVE  LET s == New(x)
               IN  Fresh(s) /\ Calm(s) /\ ~s.configuring /\ s.ctrl = <<>>
                   /\ (s.timer = "start" => s.state = "IDLE")
    BY DEF New, Fresh, Calm
  <1>5. e \o e = e /\ e \in Seq(LineFrame) /\ \A i \in 1 .. Len(e) : ~Numbered(e[i])
    OBVIOUS
  <1>a. e = <<>>
    OBVIOUS
  <1> HIDE DEF e
  <1>6. Fresh(c) /\ Fresh(a) /\ Calm(c) /\ Calm(a) /\ c.ctrl = e /\ a.ctrl = e
        /\ ~c.configuring /\ (c.timer = "start" => c.state = "IDLE")
    BY <1>2, <1>3, <1>4, <1>a
  <1>7. line[Answerer] \o c.ctrl = e /\ line[Caller] \o a.ctrl = e
    BY <1>3, <1>5, <1>6
  <1>8. Phase
    BY <1>6, <1>7, <1>a DEF Phase, Phases, Before, Unused
  <1>9. Core(c) /\ Core(a)
    BY <1>1, TheTwo DEF Own
  <1>10. Pair(c, a, line[Answerer], line[Caller] \o a.ctrl)
    BY <1>3, <1>5, <1>6, <1>7, <1>9, FreshPair
  <1>11. Pair(a, c, line[Caller], line[Answerer] \o c.ctrl)
    BY <1>3, <1>5, <1>6, <1>7, <1>9, FreshPair
  <1>12. ~Live(c) /\ ~Live(a)
    BY <1>6 DEF Calm, Live
  <1>13. LinkInv
    BY <1>2, <1>10, <1>11, <1>12 DEF LinkInv
  <1> QED
    BY <1>1, <1>8, <1>13 DEF DeliveryInv

\* Every step keeps it.
LEMMA DeliveryKept ==
    ASSUME "UA" \notin MayLose, Stopper = {}, DeliveryInv, [Next]_vars
    PROVE  DeliveryInv'
  <1>1. OwnInv /\ LinkInv /\ Phase
    BY DEF DeliveryInv
  <1>2. OwnInv'
    BY <1>1, OwnKept
  <1>3. CASE UNCHANGED vars
    BY <1>1, <1>2, <1>3 DEF DeliveryInv, LinkInv, Phase, vars
  <1>4. CASE Next
    <2>1. PICK x \in Station : GoesOn(x) \/ Arrives(x) \/ Vanishes(x) \/ Queued(x) \/ Sends(x)
      BY <1>1, <1>4, EveryStep
    <2>2. CASE GoesOn(x)
      BY <1>1, <1>2, <2>2, GoesOnLink, GoesOnPhase DEF DeliveryInv
    <2>3. CASE Arrives(x)
      BY <1>1, <1>2, <2>3, ArrivesAnyLink, ArrivesPhase DEF DeliveryInv
    <2>4. CASE Vanishes(x)
      BY <1>1, <1>2, <2>4, VanishesLink, VanishesPhase DEF DeliveryInv
    <2>5. CASE Queued(x)
      BY <1>1, <1>2, <2>5, QueuedLink, QueuedPhase DEF DeliveryInv
    <2>6. CASE Sends(x)
      BY <1>1, <1>2, <2>6, SendsLink, SendsPhase DEF DeliveryInv
    <2> QED
      BY <2>1, <2>2, <2>3, <2>4, <2>5, <2>6
  <1> QED
    BY <1>3, <1>4

\* Always, if no UA is lost and no application stops the link, numbers and
\* acknowledgements under way are of frames of this link, within a window.
THEOREM DeliveryAlways ==
    ASSUME "UA" \notin MayLose, Stopper = {}
    PROVE  Spec => []DeliveryInv
  <1>1. Init => DeliveryInv
    BY DeliveryAtFirst
  <1>2. DeliveryInv /\ [Next]_vars => DeliveryInv'
    BY DeliveryKept
  <1> QED
    BY <1>1, <1>2, PTL DEF Spec

\* Then an application is always handed the frames of the other one in order,
\* each once and with none missing, whatever else the line loses
\* (receive_information_frame, reject_info, ack_info).
THEOREM NoneSkipped ==
    ASSUME "UA" \notin MayLose, Stopper = {}
    PROVE  Spec => []NothingSkipped
  <1>1. DeliveryInv => NothingSkipped
    <2>1. ASSUME DeliveryInv, NEW x \in Station, NEW i \in DOMAIN st[x].got
          PROVE  st[x].got[i] = i
      <3>1. OwnInv /\ Ends(st[Peer(x)], st[x])
        BY <2>1 DEF DeliveryInv, LinkInv, Pair
      <3>2. st[x].got \in Seq(Nat)
        BY <3>1, Both, Fields
      <3> QED
        BY <2>1, <3>1, <3>2 DEF Ends
    <2> QED
      BY <2>1 DEF NothingSkipped
  <1> QED
    BY <1>1, DeliveryAlways, PTL

\* And a station lets go of a frame as acknowledged only when it has been
\* handed over at the other end (ack_info), so that nothing is lost by it.
THEOREM FreedWasDelivered ==
    ASSUME "UA" \notin MayLose, Stopper = {}
    PROVE  Spec => []AckedWasDelivered
  <1>1. DeliveryInv => AckedWasDelivered
    <2>1. ASSUME DeliveryInv, NEW x \in Station, st[x].freed # 0
          PROVE  st[x].freed \in ToSet(st[Peer(x)].got)
      <3> DEFINE g == st[Peer(x)].got
                 n == st[x].freed
      <3>1. OwnInv /\ Ends(st[x], st[Peer(x)])
        BY <2>1 DEF DeliveryInv, LinkInv, Pair
      <3>2. g \in Seq(Nat) /\ n \in Nat
        BY <3>1, Both, Fields
      <3>3. n <= Len(g) /\ \A i \in 1 .. Len(g) : g[i] = i
        BY <3>1 DEF Ends
      <3>4. n # 0
        BY <2>1
      <3> HIDE DEF g, n
      <3>5. n \in DOMAIN g /\ g[n] = n
        BY <3>2, <3>3, <3>4
      <3> QED
        BY <3>5 DEF ToSet, g, n
    <2> QED
      BY <2>1 DEF AckedWasDelivered
  <1> QED
    BY <1>1, DeliveryAlways, PTL
=============================================================================

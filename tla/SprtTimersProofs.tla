-------------------------- MODULE SprtTimersProofs --------------------------
(***************************************************************************)
(* Proofs about SprtTimers, for every window, number of tries and timeouts: *)
(* the linked list holds the messages that wait for their acknowledgement,  *)
(* in order, and no timer is without the callback it needs.                 *)
(***************************************************************************)
EXTENDS SprtTimers, CommonLemmas, SequenceTheorems, FiniteSetTheorems

-----------------------------------------------------------------------------
(* One channel.                                                             *)

Link == Slot \cup {Tag}

TxRecord == [in : Slot, out : Slot, used : SUBSET Slot, tr03 : [Slot -> Nat],
             tries : [Slot -> 0 .. MaxTries], prev : [Slot -> Link], next : [Slot -> Link],
             first : Link, last : Link, ta02 : Nat, timeout : TR03s]

\* The longest time from one copy of a message to the next.
Longest == Max(TR03s)

\* The application is never late, and does not change TR03.  Only then is the
\* list in the order in which its entries expire.
Punctual == MaxLate = 0 /\ TR03s = {Longest}

Holds(w, s) == \E i \in 1 .. Len(w) : w[i] = s

\* The linked list is w.
IsList(t, w) ==
    /\ w \in Seq(Slot)
    /\ \A i, j \in 1 .. Len(w) : w[i] = w[j] => i = j
    /\ t.first = IF Len(w) = 0 THEN Tag ELSE w[1]
    /\ t.last = IF Len(w) = 0 THEN Tag ELSE w[Len(w)]
    /\ \A i \in 1 .. Len(w) : /\ t.prev[w[i]] = IF i = 1 THEN Tag ELSE w[i - 1]
                              /\ t.next[w[i]] = IF i = Len(w) THEN Tag ELSE w[i + 1]
    /\ \A s \in Slot : ~ Holds(w, s) => t.prev[s] = Tag

\* It holds what is to be sent again.
Waits(t, w) == \A s \in Slot : Holds(w, s) <=> s \in t.used /\ t.tries[s] > 0

\* At n, entries are due in order, from now on, and within a timeout.
InTime(t, w, n) ==
    Punctual =>
        /\ \A i \in 1 .. Len(w) : t.tr03[w[i]] \in n .. n + Longest
        /\ \A i, j \in 1 .. Len(w) : i < j => t.tr03[w[i]] <= t.tr03[w[j]]

\* The slots in use lie between the two pointers.
Ring(t) ==
    \E a, b \in Nat :
        /\ a <= b /\ b < a + Window /\ t.out = a % Window /\ t.in = b % Window
        /\ \A u \in t.used : \E m \in a .. b - 1 : u = m % Window

Listed(t, w, n) == IsList(t, w) /\ Waits(t, w) /\ InTime(t, w, n)

ChanOk(t, n) == t \in TxRecord /\ Ring(t) /\ \E w : Listed(t, w, n)

\* The application was asked for a time that is no later than x, if x is one.
Covered(x) == x # Off => latest # Off /\ latest <= x

TimersInv ==
    /\ now \in 1 .. MaxTime /\ tx \in [Chan -> TxRecord]
    /\ acks \in 0 .. 2 /\ imm \in BOOLEAN /\ latest \in Nat /\ since \in 0 .. now
    /\ stray \in BOOLEAN
    /\ \A c \in Chan : ChanOk(tx[c], now)
    /\ ta01 = IF acks = 0 THEN Off ELSE since + TA01
    /\ imm => latest = 1
    /\ Covered(ta01) /\ \A c \in Chan : Covered(tx[c].ta02)
    /\ Punctual => \A c \in Chan : tx[c].first # Tag => Covered(tx[c].tr03[tx[c].first])
    /\ acks > 0 => now <= since + TA01 + MaxLate

-----------------------------------------------------------------------------
(* The list as a sequence.                                                  *)

LEMMA WindowFacts ==
    /\ Window \in Nat /\ Window > 0 /\ Window \in Int /\ Window \in Nat \ {0} /\ Tag \notin Slot
    /\ Slot \subseteq Nat /\ MaxTries \in Nat /\ MaxTries > 0
    /\ TA01 \in Nat /\ TA01 > 0 /\ TA02 \in Nat /\ TA02 > 0
    /\ MaxLate \in Nat /\ MaxTime \in Nat /\ MaxTime > 0
  BY TimersAssumption DEF Slot, Tag

LEMMA Timeouts ==
    /\ Longest \in TR03s /\ \A x \in TR03s : x \in Nat /\ x > 0 /\ x <= Longest
  <1>1. PICK m \in TR03s : \A y \in TR03s : y <= m
    BY TimersAssumption
  <1>2. TR03s \subseteq Nat \ {0}
    BY TimersAssumption
  <1>3. \A y \in TR03s : m >= y
    BY <1>1, <1>2
  <1>4. Longest \in TR03s /\ \A y \in TR03s : Longest >= y
    BY <1>3 DEF Longest, Max
  <1> QED
    BY <1>2, <1>4

\* There are no more entries than slots.
LEMMA ListFits ==
    ASSUME NEW t, NEW w, IsList(t, w)
    PROVE  Len(w) \in 0 .. Window
  <1>1. w \in [1 .. Len(w) -> Slot] /\ Len(w) \in Nat
    BY DEF IsList
  <1>2. IsFiniteSet(Slot) /\ Cardinality(Slot) = Window
    <2>1. 0 \in Int /\ Window - 1 \in Int /\ ~(0 > Window - 1) /\ Window - 1 - 0 + 1 = Window
      BY WindowFacts
    <2> QED
      BY <2>1, FS_Interval DEF Slot
  <1>3. IsFiniteSet(1 .. Len(w)) /\ Cardinality(1 .. Len(w)) = Len(w)
    <2>1. 1 \in Int /\ Len(w) \in Int /\ (1 > Len(w) => Len(w) = 0) /\ Len(w) - 1 + 1 = Len(w)
      BY <1>1
    <2> QED
      BY <2>1, FS_Interval
  <1>4. ~ (Window < Len(w))
    <2> SUFFICES ASSUME Window < Len(w) PROVE FALSE
      OBVIOUS
    <2>1. \E x, y \in 1 .. Len(w) : x # y /\ w[x] = w[y]
      BY <1>1, <1>2, <1>3, FS_PigeonHole
    <2> QED
      BY <2>1 DEF IsList
  <1> QED
    BY <1>1, <1>4, WindowFacts

\* Following the list visits w and then ends.
LEMMA VisitedIsList ==
    ASSUME NEW t, NEW w, IsList(t, w)
    PROVE  \A i \in 0 .. Window : Visited(t)[i] = IF i < Len(w) THEN w[i + 1] ELSE Tag
  <1> DEFINE g == [i \in 0 .. Window |-> IF i < Len(w) THEN w[i + 1] ELSE Tag]
             F(f) == f = [i \in 0 .. Window |->
                             IF i = 0 THEN t.first
                             ELSE IF f[i - 1] = Tag THEN Tag ELSE t.next[f[i - 1]]]
             v == Visited(t)
  <1>0. /\ Len(w) \in 0 .. Window /\ \A i \in 1 .. Len(w) : w[i] \in Slot /\ w[i] # Tag
        /\ t.first = IF Len(w) = 0 THEN Tag ELSE w[1]
        /\ \A i \in 1 .. Len(w) : t.next[w[i]] = IF i = Len(w) THEN Tag ELSE w[i + 1]
    <2>1. \A i \in 1 .. Len(w) : w[i] \in Slot
      BY DEF IsList
    <2> QED
      BY <2>1, ListFits, WindowFacts, ZenonT(60) DEF IsList
  <1>1. F(g)
    <2>1. \A i \in 0 .. Window : g[i] = IF i = 0 THEN t.first
                                 ELSE IF g[i - 1] = Tag THEN Tag ELSE t.next[g[i - 1]]
      BY <1>0, WindowFacts
    <2> QED BY <2>1
  <1>2. v = CHOOSE f : F(f)
    BY DEF Visited
  <1> HIDE DEF F, v
  <1>3. F(v)
    BY <1>1, <1>2, Zenon
  <1> USE DEF F
  <1>4. \A i \in 0 .. Window : v[i] = IF i = 0 THEN t.first
                               ELSE IF v[i - 1] = Tag THEN Tag ELSE t.next[v[i - 1]]
    BY <1>3
  <1> HIDE DEF F
  <1> DEFINE Wrong == {i \in 0 .. Window : v[i] # IF i < Len(w) THEN w[i + 1] ELSE Tag}
  <1>5. Wrong = {}
    <2> SUFFICES ASSUME Wrong # {} PROVE FALSE
      OBVIOUS
    <2>0. Wrong \in SUBSET Nat /\ Wrong \subseteq 0 .. Window
      OBVIOUS
    <2> HIDE DEF Wrong
    <2>1. PICK i \in Wrong : \A j \in Wrong : i <= j
      BY <2>0, LeastNumber
    <2>2. i \in 0 .. Window
      BY <2>0
    <2>3. i # 0 => i - 1 \in 0 .. Window /\ i - 1 \notin Wrong
      BY <2>1, <2>2, WindowFacts
    <2> USE DEF Wrong
    <2>4. i # 0 => v[i - 1] = IF i - 1 < Len(w) THEN w[i - 1 + 1] ELSE Tag
      BY <2>3
    <2>5. v[i] = IF i = 0 THEN t.first
                 ELSE IF v[i - 1] = Tag THEN Tag ELSE t.next[v[i - 1]]
      BY <1>4, <2>2
    <2>6. v[i] = IF i < Len(w) THEN w[i + 1] ELSE Tag
      BY <1>0, <2>2, <2>4, <2>5
    <2> QED
      BY <2>6
  <1> QED
    BY <1>5 DEF v

LEMMA WalkIsList ==
    ASSUME NEW t, NEW w, IsList(t, w)
    PROVE  Walk(t) = w
  <1> DEFINE n == Len(w)
             v == Visited(t)
             S == {i \in 0 .. Window : v[i] # Tag}
  <1>1. w \in Seq(Slot) /\ n \in 0 .. Window /\ \A i \in 1 .. n : w[i] \in Slot /\ w[i] # Tag
    <2>1. \A i \in 1 .. Len(w) : w[i] \in Slot
      BY DEF IsList
    <2> QED
      BY <2>1, ListFits, WindowFacts, ZenonT(60) DEF IsList
  <1>2. \A i \in 0 .. Window : v[i] = IF i < n THEN w[i + 1] ELSE Tag
    BY VisitedIsList
  <1>3. Walk(t) = [i \in 1 .. Cardinality(S) |-> v[i - 1]]
    BY DEF Walk
  <1> HIDE DEF v
  <1>4. S = 0 .. n - 1
    BY <1>1, <1>2, WindowFacts
  <1>5. Cardinality(0 .. n - 1) = n
    <2> HIDE DEF n
    <2>1. 0 \in Int /\ n - 1 \in Int /\ (0 > n - 1 => n = 0) /\ n - 1 - 0 + 1 = n
      BY <1>1
    <2> QED
      BY <2>1, FS_Interval
  <1>6. Walk(t) = [i \in 1 .. n |-> v[i - 1]]
    BY <1>3, <1>4, <1>5
  <1>7. \A i \in 1 .. n : v[i - 1] = w[i]
    BY <1>1, <1>2, WindowFacts
  <1>8. w = [i \in 1 .. n |-> w[i]]
    BY <1>1
  <1> QED
    BY <1>6, <1>7, <1>8

\* What is done to the list is all that was done.
OnlyLinks(t, u) ==
    u = [t EXCEPT !.first = u.first, !.last = u.last, !.prev = u.prev, !.next = u.next]

LEMMA Fields ==
    ASSUME NEW t \in TxRecord
    PROVE  /\ t.in \in Slot /\ t.out \in Slot /\ t.used \in SUBSET Slot /\ t.tr03 \in [Slot -> Nat]
           /\ t.tries \in [Slot -> 0 .. MaxTries] /\ t.prev \in [Slot -> Link]
           /\ t.next \in [Slot -> Link] /\ t.first \in Link /\ t.last \in Link
           /\ t.ta02 \in Nat /\ t.timeout \in TR03s
  BY DEF TxRecord

LEMMA OnlyLinksFields ==
    ASSUME NEW t \in TxRecord, NEW u, OnlyLinks(t, u), u.first \in Link, u.last \in Link,
           u.prev \in [Slot -> Link], u.next \in [Slot -> Link]
    PROVE  /\ u \in TxRecord /\ u.in = t.in /\ u.out = t.out /\ u.used = t.used /\ u.tr03 = t.tr03
           /\ u.tries = t.tries /\ u.ta02 = t.ta02 /\ u.timeout = t.timeout
  BY DEF OnlyLinks, TxRecord

\* An entry is added at the end.
LEMMA AddStep ==
    ASSUME NEW t \in TxRecord, NEW w, IsList(t, w), NEW s \in Slot, ~ Holds(w, s)
    PROVE  LET u == add_timer_queue_last_entry(t, s)
           IN  u \in TxRecord /\ OnlyLinks(t, u) /\ IsList(u, Append(w, s))
  <1> DEFINE u == add_timer_queue_last_entry(t, s)
             n == Len(w)
             x == Append(w, s)
  <1>0. /\ w \in Seq(Slot) /\ n \in Nat /\ \A i \in 1 .. n : w[i] \in Slot
        /\ s # Tag /\ Tag \notin Slot
        /\ t.first = IF n = 0 THEN Tag ELSE w[1]
        /\ t.last = IF n = 0 THEN Tag ELSE w[n]
    BY WindowFacts DEF IsList
  <1>1. /\ u.first = IF n = 0 THEN s ELSE t.first
        /\ u.last = s
        /\ u.prev = [t.prev EXCEPT ![s] = t.last]
        /\ u.next = IF n = 0 THEN [t.next EXCEPT ![s] = Tag]
                             ELSE [t.next EXCEPT ![w[n]] = s, ![s] = Tag]
        /\ OnlyLinks(t, u)
    <2>1. CASE n = 0
      <3>1. u = [[t EXCEPT !.first = s] EXCEPT !.prev[s] = t.last, !.next[s] = Tag, !.last = s]
        BY <1>0, <2>1 DEF add_timer_queue_last_entry
      <3> QED
        BY ONLY <3>1, <2>1, t \in TxRecord DEF TxRecord, OnlyLinks
    <2>2. CASE n # 0
      <3>0. t.last = w[n] /\ w[n] \in Slot /\ w[n] # Tag
        BY <1>0, <2>2
      <3>1. u = [[t EXCEPT !.next[t.last] = s] EXCEPT !.prev[s] = t.last, !.next[s] = Tag, !.last = s]
        BY <3>0 DEF add_timer_queue_last_entry
      <3> QED
        BY ONLY <3>0, <3>1, <2>2, t \in TxRecord, ZenonT(60) DEF TxRecord, OnlyLinks
    <2> QED
      BY <2>1, <2>2
  <1> HIDE DEF u
  <1>2. u.first \in Link /\ u.last \in Link /\ u.prev \in [Slot -> Link] /\ u.next \in [Slot -> Link]
    <2>1. w[n] \in Slot \/ n = 0
      BY <1>0
    <2> QED
      BY <1>0, <1>1, <2>1, Fields DEF Link
  <1>3. u \in TxRecord
    BY <1>1, <1>2, OnlyLinksFields
  <1>4. x \in Seq(Slot) /\ Len(x) = n + 1 /\ \A i \in 1 .. n + 1 : x[i] = IF i = n + 1 THEN s ELSE w[i]
    BY <1>0
  <1> HIDE DEF x
  <1>5. \A i \in 1 .. n : w[i] # s
    BY DEF Holds
  <1>6. \A i, j \in 1 .. n : w[i] = w[j] => i = j
    BY DEF IsList
  <1>7. \A i, j \in 1 .. n + 1 : x[i] = x[j] => i = j
    BY <1>0, <1>4, <1>5, <1>6
  <1>8. /\ u.first = IF Len(x) = 0 THEN Tag ELSE x[1]
        /\ u.last = IF Len(x) = 0 THEN Tag ELSE x[Len(x)]
    BY <1>0, <1>1, <1>4
  <1>9. ASSUME NEW i \in 1 .. n + 1
        PROVE  /\ u.prev[x[i]] = IF i = 1 THEN Tag ELSE x[i - 1]
               /\ u.next[x[i]] = IF i = n + 1 THEN Tag ELSE x[i + 1]
    <2>0. t.prev \in [Slot -> Link] /\ t.next \in [Slot -> Link]
      BY Fields
    <2>1. CASE i = n + 1
      <3>1. x[i] = s /\ (n # 0 => x[i - 1] = w[n])
        BY <1>0, <1>4, <2>1
      <3>2. u.prev[s] = t.last
        BY <1>1, <2>0
      <3>3. u.next[s] = Tag
        BY <1>1, <2>0
      <3> QED
        BY <1>0, <2>1, <3>1, <3>2, <3>3
    <2>2. CASE i # n + 1
      <3>1. i \in 1 .. n /\ x[i] = w[i] /\ w[i] # s /\ w[i] \in Slot
        BY <1>0, <1>4, <1>5, <2>2
      <3>2. t.prev[w[i]] = (IF i = 1 THEN Tag ELSE w[i - 1]) /\ t.next[w[i]] = IF i = n THEN Tag ELSE w[i + 1]
        BY <3>1 DEF IsList
      <3>3. u.prev[w[i]] = t.prev[w[i]]
        BY <1>1, <2>0, <3>1
      <3>4. i = n => u.next[w[i]] = s
        BY <1>1, <2>0, <3>1
      <3>5. i # n => u.next[w[i]] = t.next[w[i]]
        <4>1. i # n => w[i] # w[n]
          BY <1>0, <1>6, <3>1
        <4> QED
          BY <1>1, <2>0, <3>1, <4>1
      <3>6. (i # 1 => x[i - 1] = w[i - 1]) /\ x[i + 1] = IF i = n THEN s ELSE w[i + 1]
        BY <1>0, <1>4, <3>1
      <3> QED
        BY <1>0, <3>1, <3>2, <3>3, <3>4, <3>5, <3>6
    <2> QED
      BY <2>1, <2>2
  <1>10. ASSUME NEW r \in Slot, ~ Holds(x, r) PROVE u.prev[r] = Tag
    <2>1. r # s /\ ~ Holds(w, r)
      <3>1. x[n + 1] = s /\ n + 1 \in 1 .. Len(x) /\ \A i \in 1 .. n : i \in 1 .. Len(x) /\ x[i] = w[i]
        BY <1>0, <1>4
      <3> QED
        BY <1>10, <3>1 DEF Holds
    <2>2. t.prev[r] = Tag
      BY <2>1 DEF IsList
    <2>3. t.prev \in [Slot -> Link]
      BY Fields
    <2> QED
      BY <1>1, <2>1, <2>2, <2>3
  <1>11. IsList(u, x)
    BY <1>4, <1>7, <1>8, <1>9, <1>10 DEF IsList
  <1> QED
    BY <1>1, <1>3, <1>11 DEF u, x

\* The sequence without its place k.
Without(w, k) == [i \in 1 .. Len(w) - 1 |-> IF i < k THEN w[i] ELSE w[i + 1]]

\* An entry is taken out, wherever it is.
LEMMA DeleteStep ==
    ASSUME NEW t \in TxRecord, NEW w, IsList(t, w), NEW k \in 1 .. Len(w)
    PROVE  LET u == delete_timer_queue_entry(t, w[k])
           IN  u \in TxRecord /\ OnlyLinks(t, u) /\ IsList(u, Without(w, k))
  <1> DEFINE s == w[k]
             u == delete_timer_queue_entry(t, s)
             n == Len(w)
             x == Without(w, k)
             y(i) == IF i < k THEN w[i] ELSE w[i + 1]
  <1>0. /\ w \in Seq(Slot) /\ n \in Nat \ {0} /\ k \in 1 .. n /\ \A i \in 1 .. n : w[i] \in Slot
        /\ s \in Slot /\ s # Tag /\ Tag \notin Slot
        /\ t.first = w[1] /\ t.last = w[n]
        /\ \A i, j \in 1 .. n : w[i] = w[j] => i = j
        /\ \A i \in 1 .. n : /\ t.prev[w[i]] = IF i = 1 THEN Tag ELSE w[i - 1]
                             /\ t.next[w[i]] = IF i = n THEN Tag ELSE w[i + 1]
    <2>1. w \in Seq(Slot) /\ n \in Nat \ {0}
      BY DEF IsList
    <2>2. \A i \in 1 .. n : w[i] \in Slot
      BY <2>1
    <2> QED
      BY <2>1, <2>2, WindowFacts DEF IsList
  <1> HIDE DEF s, n
  <1>a. t.first # Tag /\ (t.first = s <=> k = 1) /\ (t.last = s <=> k = n)
    BY <1>0 DEF s
  <1>b. /\ t.next[s] = (IF k = n THEN Tag ELSE w[k + 1])
        /\ t.prev[s] = (IF k = 1 THEN Tag ELSE w[k - 1])
    BY <1>0 DEF s
  <1>c. (k # n => t.next[s] \in Slot /\ t.next[s] # s) /\ (k # 1 => t.prev[s] \in Slot /\ t.prev[s] # s)
    <2>1. k # n => k + 1 \in 1 .. n /\ k + 1 # k
      BY <1>0
    <2>2. k # 1 => k - 1 \in 1 .. n /\ k - 1 # k
      BY <1>0
    <2>3. k \in 1 .. n
      BY <1>0
    <2> QED
      BY <1>0, <1>b, <2>1, <2>2, <2>3 DEF s
  <1>1. /\ u.first = IF k = 1 THEN t.next[s] ELSE t.first
        /\ u.last = IF k = n THEN t.prev[s] ELSE t.last
        /\ u.next = IF k = 1 THEN [t.next EXCEPT ![s] = Tag]
                             ELSE [t.next EXCEPT ![t.prev[s]] = t.next[s], ![s] = Tag]
        /\ u.prev = IF k = n THEN [t.prev EXCEPT ![s] = Tag]
                             ELSE [t.prev EXCEPT ![t.next[s]] = t.prev[s], ![s] = Tag]
        /\ OnlyLinks(t, u)
    <2> DEFINE fwd == IF k = 1 THEN [t EXCEPT !.first = t.next[s]]
                               ELSE [t EXCEPT !.next[t.prev[s]] = t.next[s]]
               bwd == IF k = n THEN [fwd EXCEPT !.last = t.prev[s]]
                               ELSE [fwd EXCEPT !.prev[t.next[s]] = t.prev[s]]
    <2>1. u = [bwd EXCEPT !.prev[s] = Tag, !.next[s] = Tag]
      BY <1>a, ZenonT(60) DEF delete_timer_queue_entry
    <2>2. CASE k = 1 /\ k = n
      BY ONLY <2>1, <2>2, t \in TxRecord DEF TxRecord, OnlyLinks
    <2>3. CASE k = 1 /\ k # n
      BY ONLY <2>1, <2>3, <1>c, t \in TxRecord DEF TxRecord, OnlyLinks
    <2>4. CASE k # 1 /\ k = n
      BY ONLY <2>1, <2>4, <1>c, t \in TxRecord, ZenonT(60) DEF TxRecord, OnlyLinks
    <2>5. CASE k # 1 /\ k # n
      BY ONLY <2>1, <2>5, <1>c, t \in TxRecord DEF TxRecord, OnlyLinks
    <2> QED
      BY <2>2, <2>3, <2>4, <2>5
  <1> HIDE DEF u
  <1>d. t.prev \in [Slot -> Link] /\ t.next \in [Slot -> Link] /\ t.first \in Link /\ t.last \in Link
    BY Fields
  <1>2. u.first \in Link /\ u.last \in Link /\ u.prev \in [Slot -> Link] /\ u.next \in [Slot -> Link]
    <2>1. t.next[s] \in Link /\ t.prev[s] \in Link /\ Tag \in Link /\ s \in Slot
      BY <1>0, <1>d DEF Link
    <2>2. u.first \in Link /\ u.last \in Link
      BY ONLY <1>1, <1>d, <2>1
    <2>3. u.next \in [Slot -> Link]
      BY ONLY <1>1, <1>d, <2>1
    <2>4. u.prev \in [Slot -> Link]
      BY ONLY <1>1, <1>d, <2>1
    <2> QED
      BY <2>2, <2>3, <2>4
  <1>3. u \in TxRecord
    BY <1>1, <1>2, OnlyLinksFields
  <1>4. x \in Seq(Slot) /\ Len(x) = n - 1 /\ \A i \in 1 .. n - 1 : x[i] = y(i)
    <2>1. \A i \in 1 .. n - 1 : y(i) \in Slot
      BY <1>0
    <2>2. x = [i \in 1 .. n - 1 |-> y(i)] /\ n - 1 \in Nat
      BY <1>0 DEF Without, n
    <2> QED
      BY <2>1, <2>2
  <1> HIDE DEF x
  <1>7. ASSUME NEW i \in 1 .. n - 1, NEW j \in 1 .. n - 1, x[i] = x[j] PROVE i = j
    <2> DEFINE a == IF i < k THEN i ELSE i + 1
               b == IF j < k THEN j ELSE j + 1
    <2>1. a \in 1 .. n /\ x[i] = w[a]
      BY <1>0, <1>4
    <2>2. b \in 1 .. n /\ x[j] = w[b]
      BY <1>0, <1>4
    <2>3. \A p, q \in 1 .. n : w[p] = w[q] => p = q
      BY <1>0
    <2>4. a = b
      <3> HIDE DEF a, b
      <3> QED BY ONLY <1>7, <2>1, <2>2, <2>3
    <2> QED
      BY <1>0, <2>4, SMTT(60)
  <1>8. /\ u.first = IF Len(x) = 0 THEN Tag ELSE x[1]
        /\ u.last = IF Len(x) = 0 THEN Tag ELSE x[Len(x)]
    BY <1>0, <1>1, <1>b, <1>4
  <1>9. ASSUME NEW i \in 1 .. n - 1
        PROVE  /\ u.prev[x[i]] = IF i = 1 THEN Tag ELSE x[i - 1]
               /\ u.next[x[i]] = IF i = n - 1 THEN Tag ELSE x[i + 1]
    <2> DEFINE j == IF i < k THEN i ELSE i + 1
    <2>1. /\ j \in 1 .. n /\ j # k /\ x[i] = w[j] /\ w[j] \in Slot /\ w[j] # s
          /\ (i < k => j = i) /\ (i >= k => j = i + 1)
      BY <1>0, <1>4, SMTT(60) DEF s
    <2> HIDE DEF j
    <2>2. t.prev[w[j]] = (IF j = 1 THEN Tag ELSE w[j - 1]) /\ t.next[w[j]] = IF j = n THEN Tag ELSE w[j + 1]
      BY <1>0, <2>1
    <2>3. u.prev[w[j]] = IF j = k + 1 THEN t.prev[s] ELSE t.prev[w[j]]
      <3>1. CASE k = n
        BY <1>0, <1>1, <1>d, <2>1, <3>1
      <3>2. CASE k # n
        <4>1. t.next[s] = w[k + 1] /\ k + 1 \in 1 .. n
          BY <1>0, <1>b, <3>2
        <4>2. w[j] = w[k + 1] <=> j = k + 1
          BY <1>0, <2>1, <4>1
        <4> QED
          BY <1>0, <1>1, <1>d, <2>1, <3>2, <4>1, <4>2, SMTT(60)
      <3> QED BY <3>1, <3>2
    <2>4. u.next[w[j]] = IF j = k - 1 THEN t.next[s] ELSE t.next[w[j]]
      <3>1. CASE k = 1
        BY <1>0, <1>1, <1>d, <2>1, <3>1
      <3>2. CASE k # 1
        <4>1. t.prev[s] = w[k - 1] /\ k - 1 \in 1 .. n
          BY <1>0, <1>b, <3>2
        <4>2. w[j] = w[k - 1] <=> j = k - 1
          BY <1>0, <2>1, <4>1
        <4> QED
          BY <1>0, <1>1, <1>d, <2>1, <3>2, <4>1, <4>2, SMTT(60)
      <3> QED BY <3>1, <3>2
    <2>5. i # 1 => x[i - 1] = IF i - 1 < k THEN w[i - 1] ELSE w[i]
      <3>1. i # 1 => i - 1 \in 1 .. n - 1 /\ i - 1 + 1 = i
        BY <1>0
      <3> QED BY <1>4, <3>1
    <2>6. i # n - 1 => x[i + 1] = IF i + 1 < k THEN w[i + 1] ELSE w[i + 2]
      <3>1. i # n - 1 => i + 1 \in 1 .. n - 1 /\ i + 1 + 1 = i + 2
        BY <1>0
      <3> QED BY <1>4, <3>1
    <2>7. u.prev[x[i]] = IF i = 1 THEN Tag ELSE x[i - 1]
      <3>1. CASE i < k
        <4>1. j = i /\ j # k + 1 /\ (i # 1 => i - 1 < k)
          BY <1>0, <2>1, <3>1
        <4> QED
          BY ONLY <2>1, <2>2, <2>3, <2>5, <4>1
      <3>2. CASE i = k
        <4>1. j = k + 1 /\ (i # 1 => i - 1 < k)
          BY <1>0, <2>1, <3>2
        <4> QED
          BY ONLY <1>b, <2>1, <2>3, <2>5, <3>2, <4>1
      <3>3. CASE i > k
        <4>1. j = i + 1 /\ j # k + 1 /\ j # 1 /\ j - 1 = i /\ i # 1 /\ ~ (i - 1 < k)
          BY <1>0, <2>1, <3>3
        <4> QED
          BY ONLY <2>1, <2>2, <2>3, <2>5, <4>1
      <3> QED
        BY <1>0, <3>1, <3>2, <3>3
    <2>8. u.next[x[i]] = IF i = n - 1 THEN Tag ELSE x[i + 1]
      <3>1. CASE i < k - 1
        <4>1. j = i /\ j # k - 1 /\ i # n - 1 /\ j # n /\ i + 1 < k
          BY <1>0, <2>1, <3>1
        <4> QED
          BY ONLY <2>1, <2>2, <2>4, <2>6, <4>1
      <3>2. CASE i = k - 1
        <4>1. j = i /\ (i = n - 1 <=> k = n) /\ ~ (i + 1 < k) /\ i + 2 = k + 1
          BY <1>0, <2>1, <3>2
        <4> QED
          BY ONLY <1>b, <2>1, <2>4, <2>6, <3>2, <4>1
      <3>3. CASE i > k - 1
        <4>1. j = i + 1 /\ j # k - 1 /\ (j = n <=> i = n - 1) /\ j + 1 = i + 2 /\ ~ (i + 1 < k)
          BY <1>0, <2>1, <3>3
        <4> QED
          BY ONLY <2>1, <2>2, <2>4, <2>6, <4>1
      <3> QED
        BY <1>0, <3>1, <3>2, <3>3
    <2> QED
      BY <2>7, <2>8
  <1>10. ASSUME NEW r \in Slot, ~ Holds(x, r) PROVE u.prev[r] = Tag
    <2>1. CASE r = s
      BY <1>0, <1>1, <1>d, <2>1
    <2>2. CASE r # s
      <3>1. ~ Holds(w, r)
        <4> SUFFICES ASSUME NEW i \in 1 .. n, w[i] = r PROVE FALSE
          BY DEF Holds, n
        <4> DEFINE j == IF i < k THEN i ELSE i - 1
        <4>1. i # k
          BY <2>2 DEF s
        <4>2. j \in 1 .. n - 1 /\ x[j] = r
          BY <1>0, <1>4, <4>1
        <4>3. j \in 1 .. Len(x)
          BY <1>4, <4>2
        <4> HIDE DEF j
        <4> QED
          BY <1>10, <4>2, <4>3 DEF Holds
      <3>2. t.prev[r] = Tag
        BY <3>1 DEF IsList
      <3>3. k # n => t.next[s] # r
        <4>1. k # n => t.next[s] = w[k + 1] /\ k + 1 \in 1 .. n
          BY <1>0, <1>b
        <4> QED
          BY <3>1, <4>1 DEF Holds, n
      <3> QED
        BY <1>1, <1>d, <2>2, <3>2, <3>3
    <2> QED BY <2>1, <2>2
  <1>11. IsList(u, x)
    BY <1>4, <1>7, <1>8, <1>9, <1>10 DEF IsList
  <1> QED
    BY <1>1, <1>3, <1>11 DEF u, x, s

LEMMA Held ==
    ASSUME NEW t, NEW w, IsList(t, w), NEW s \in Slot
    PROVE  /\ InList(t, s) <=> Holds(w, s)
           /\ t.first = Tag <=> Len(w) = 0
  <1>0. /\ \A i \in 1 .. Len(w) : w[i] \in Slot
        /\ Len(w) \in Nat /\ s # Tag
        /\ t.first = IF Len(w) = 0 THEN Tag ELSE w[1]
        /\ \A i \in 1 .. Len(w) : t.prev[w[i]] = IF i = 1 THEN Tag ELSE w[i - 1]
        /\ ~ Holds(w, s) => t.prev[s] = Tag
        /\ \A i \in 1 .. Len(w) : w[i] # Tag
    <2>1. \A i \in 1 .. Len(w) : w[i] \in Slot
      BY DEF IsList
    <2> QED
      BY <2>1, WindowFacts DEF IsList
  <1>1. ASSUME Holds(w, s) PROVE InList(t, s)
    <2>1. PICK i \in 1 .. Len(w) : w[i] = s
      BY <1>1 DEF Holds
    <2>2. i # 1 => i - 1 \in 1 .. Len(w)
      BY <1>0
    <2> QED
      BY <1>0, <2>1, <2>2 DEF InList
  <1>2. ASSUME InList(t, s) PROVE Holds(w, s)
    <2>1. t.first = s => Len(w) # 0 /\ w[1] = s /\ 1 \in 1 .. Len(w)
      BY <1>0
    <2> QED
      BY <1>0, <1>2, <2>1 DEF InList, Holds
  <1>3. t.first = Tag <=> Len(w) = 0
    BY <1>0
  <1> QED
    BY <1>1, <1>2, <1>3

\* The list does not depend on more than its links.
LEMMA SameLinks ==
    ASSUME NEW t, NEW u, NEW w, IsList(t, w),
           u.first = t.first, u.last = t.last, u.prev = t.prev, u.next = t.next
    PROVE  IsList(u, w)
  BY DEF IsList

LEMMA WithoutFacts ==
    ASSUME NEW w \in Seq(Slot), NEW k \in 1 .. Len(w)
    PROVE  LET x == Without(w, k)
           IN  /\ x \in Seq(Slot) /\ Len(x) = Len(w) - 1
               /\ \A i \in 1 .. Len(x) : x[i] = IF i < k THEN w[i] ELSE w[i + 1]
  <1> DEFINE y(i) == IF i < k THEN w[i] ELSE w[i + 1]
  <1>1. \A i \in 1 .. Len(w) - 1 : y(i) \in Slot
    OBVIOUS
  <1>2. Without(w, k) = [i \in 1 .. Len(w) - 1 |-> y(i)] /\ Len(w) - 1 \in Nat
    BY DEF Without
  <1> QED
    BY <1>1, <1>2

LEMMA HoldsWithout ==
    ASSUME NEW t, NEW w, IsList(t, w), NEW k \in 1 .. Len(w), NEW r
    PROVE  Holds(Without(w, k), r) <=> Holds(w, r) /\ r # w[k]
  <1> DEFINE x == Without(w, k)
             n == Len(w)
  <1>0. /\ w \in Seq(Slot) /\ n \in Nat /\ k \in 1 .. n
        /\ \A i, j \in 1 .. n : w[i] = w[j] => i = j
    BY DEF IsList
  <1>1. Len(x) = n - 1 /\ \A i \in 1 .. n - 1 : x[i] = IF i < k THEN w[i] ELSE w[i + 1]
    BY <1>0, WithoutFacts
  <1> HIDE DEF x, n
  <1>2. ASSUME NEW i \in 1 .. n - 1, x[i] = r PROVE Holds(w, r) /\ r # w[k]
    <2> DEFINE j == IF i < k THEN i ELSE i + 1
    <2>1. j \in 1 .. n /\ j # k /\ w[j] = r
      BY <1>0, <1>1, <1>2
    <2> HIDE DEF j
    <2> QED
      BY <1>0, <2>1 DEF Holds, n
  <1>3. ASSUME NEW i \in 1 .. n, w[i] = r, r # w[k] PROVE Holds(x, r)
    <2> DEFINE j == IF i < k THEN i ELSE i - 1
    <2>1. i # k
      BY <1>3
    <2>2. j \in 1 .. n - 1 /\ x[j] = r
      BY <1>0, <1>1, <1>3, <2>1
    <2> HIDE DEF j
    <2> QED
      BY <1>1, <2>2 DEF Holds
  <1> QED
    BY <1>1, <1>2, <1>3 DEF Holds, x, n

LEMMA HoldsAppend ==
    ASSUME NEW w \in Seq(Slot), NEW s \in Slot, NEW r
    PROVE  Holds(Append(w, s), r) <=> Holds(w, r) \/ r = s
  <1> DEFINE n == Len(w)
             x == Append(w, s)
  <1>1. n \in Nat /\ Len(x) = n + 1 /\ \A i \in 1 .. n + 1 : x[i] = IF i = n + 1 THEN s ELSE w[i]
    OBVIOUS
  <1> HIDE DEF x
  <1>2. n + 1 \in 1 .. n + 1 /\ x[n + 1] = s
    BY <1>1
  <1>3. \A i \in 1 .. n : i \in 1 .. n + 1 /\ x[i] = w[i]
    BY <1>1
  <1>4. \A i \in 1 .. n + 1 : i \in 1 .. n \/ i = n + 1
    BY <1>1
  <1> QED
    BY <1>1, <1>2, <1>3, <1>4 DEF Holds, x

\* What stays in order when an entry is taken out.
LEMMA InTimeWithout ==
    ASSUME NEW t, NEW w, IsList(t, w), NEW k \in 1 .. Len(w), NEW n, InTime(t, w, n),
           NEW u, \A s \in Slot : s # w[k] => u.tr03[s] = t.tr03[s]
    PROVE  InTime(u, Without(w, k), n)
  <1> SUFFICES ASSUME Punctual
               PROVE  /\ \A i \in 1 .. Len(Without(w, k)) : u.tr03[Without(w, k)[i]] \in n .. n + Longest
                      /\ \A i, j \in 1 .. Len(Without(w, k)) :
                            i < j => u.tr03[Without(w, k)[i]] <= u.tr03[Without(w, k)[j]]
    BY DEF InTime
  <1> DEFINE x == Without(w, k)
             l == Len(w)
             at(i) == IF i < k THEN i ELSE i + 1
  <1>0. /\ w \in Seq(Slot) /\ l \in Nat /\ k \in 1 .. l
        /\ \A i, j \in 1 .. l : w[i] = w[j] => i = j
        /\ \A i \in 1 .. l : w[i] \in Slot
    <2>1. w \in Seq(Slot)
      BY DEF IsList
    <2>2. \A i \in 1 .. l : w[i] \in Slot
      BY <2>1
    <2> QED
      BY <2>1, <2>2 DEF IsList
  <1>1. Len(x) = l - 1 /\ \A i \in 1 .. l - 1 : x[i] = IF i < k THEN w[i] ELSE w[i + 1]
    BY <1>0, WithoutFacts
  <1>2. /\ \A i \in 1 .. l : t.tr03[w[i]] \in n .. n + Longest
        /\ \A i, j \in 1 .. l : i < j => t.tr03[w[i]] <= t.tr03[w[j]]
    BY DEF InTime
  <1> HIDE DEF x, l
  <1>3. ASSUME NEW i \in 1 .. l - 1
        PROVE  at(i) \in 1 .. l /\ x[i] = w[at(i)] /\ u.tr03[x[i]] = t.tr03[w[at(i)]]
    <2>1. at(i) \in 1 .. l /\ at(i) # k /\ x[i] = w[at(i)]
      BY <1>0, <1>1
    <2>2. w[at(i)] # w[k] /\ w[at(i)] \in Slot
      <3> HIDE DEF at
      <3> QED BY ONLY <1>0, <2>1
    <2> HIDE DEF at
    <2> QED
      BY ONLY <2>1, <2>2, \A s \in Slot : s # w[k] => u.tr03[s] = t.tr03[s]
  <1>4. \A i, j \in 1 .. l - 1 : i < j => at(i) < at(j)
    BY <1>0
  <1> HIDE DEF at
  <1>5. \A i \in 1 .. l - 1 : u.tr03[x[i]] \in n .. n + Longest
    BY ONLY <1>2, <1>3
  <1>6. \A i, j \in 1 .. l - 1 : i < j => u.tr03[x[i]] <= u.tr03[x[j]]
    BY ONLY <1>2, <1>3, <1>4
  <1> QED
    BY ONLY <1>1, <1>5, <1>6 DEF x

LEMMA InTimeAppend ==
    ASSUME NEW t, NEW w \in Seq(Slot), NEW s \in Slot, NEW n \in Nat, InTime(t, w, n),
           ~ Holds(w, s), Punctual => t.tr03[s] = n + Longest
    PROVE  InTime(t, Append(w, s), n)
  <1> SUFFICES ASSUME Punctual
               PROVE  /\ \A i \in 1 .. Len(Append(w, s)) : t.tr03[Append(w, s)[i]] \in n .. n + Longest
                      /\ \A i, j \in 1 .. Len(Append(w, s)) :
                            i < j => t.tr03[Append(w, s)[i]] <= t.tr03[Append(w, s)[j]]
    BY DEF InTime
  <1> DEFINE l == Len(w)
             x == Append(w, s)
  <1>1. l \in Nat /\ Len(x) = l + 1 /\ \A i \in 1 .. l + 1 : x[i] = IF i = l + 1 THEN s ELSE w[i]
    OBVIOUS
  <1>2. /\ \A i \in 1 .. l : t.tr03[w[i]] \in n .. n + Longest
        /\ \A i, j \in 1 .. l : i < j => t.tr03[w[i]] <= t.tr03[w[j]]
        /\ t.tr03[s] = n + Longest
    BY DEF InTime
  <1>3. Longest \in Nat
    BY Timeouts
  <1> HIDE DEF x, l
  <1>4. \A i \in 1 .. l + 1 : t.tr03[x[i]] \in n .. n + Longest
    <2> TAKE i \in 1 .. l + 1
    <2>1. CASE i = l + 1
      BY <1>1, <1>2, <1>3, <2>1
    <2>2. CASE i # l + 1
      <3>1. i \in 1 .. l /\ x[i] = w[i]
        BY <1>1, <2>2
      <3> QED
        BY <1>2, <3>1
    <2> QED BY <2>1, <2>2
  <1>5. ASSUME NEW i \in 1 .. l + 1, NEW j \in 1 .. l + 1, i < j PROVE t.tr03[x[i]] <= t.tr03[x[j]]
    <2>1. i \in 1 .. l /\ x[i] = w[i]
      BY <1>1, <1>5
    <2>2. CASE j = l + 1
      <3>1. x[j] = s /\ t.tr03[w[i]] \in n .. n + Longest
        BY <1>1, <1>2, <2>1, <2>2
      <3> QED
        BY <1>2, <1>3, <2>1, <3>1
    <2>3. CASE j # l + 1
      <3>1. j \in 1 .. l /\ x[j] = w[j]
        BY <1>1, <2>3
      <3> QED
        BY <1>2, <1>5, <2>1, <3>1
    <2> QED BY <2>2, <2>3
  <1> QED
    BY ONLY <1>1, <1>4, <1>5 DEF x

-----------------------------------------------------------------------------
(* Sending again.                                                           *)

\* What a turn of the loop leaves alone.
Kept(t, u) == /\ u.in = t.in /\ u.out = t.out /\ u.used = t.used
              /\ u.ta02 = t.ta02 /\ u.timeout = t.timeout

LEMMA ResendStep ==
    ASSUME now \in Nat, NEW t \in TxRecord, NEW w, Listed(t, w, now), Due(t)
    PROVE  LET u == ResendFirst(t)
           IN  u \in TxRecord /\ Kept(t, u) /\ \E x : Listed(u, x, now)
  <1> DEFINE s == t.first
             d == delete_timer_queue_entry(t, s)
             e == [d EXCEPT !.tries[s] = @ - 1]
             f == [e EXCEPT !.tr03[s] = @ + t.timeout]
             g == add_timer_queue_last_entry(f, s)
             x == Without(w, 1)
  <1>0. IsList(t, w) /\ Waits(t, w) /\ InTime(t, w, now)
    BY DEF Listed
  <1>1. /\ w \in Seq(Slot) /\ 1 \in 1 .. Len(w) /\ s = w[1] /\ s \in Slot /\ Holds(w, s)
        /\ t.tr03[s] <= now
    <2>1. t.first # Tag /\ t.tr03[s] <= now
      BY DEF Due
    <2>2. w \in Seq(Slot) /\ t.first = IF Len(w) = 0 THEN Tag ELSE w[1]
      BY <1>0 DEF IsList
    <2>3. 1 \in 1 .. Len(w)
      BY <2>1, <2>2
    <2>4. s = w[1] /\ w[1] \in Slot
      BY <2>1, <2>2, <2>3
    <2> QED
      BY <2>1, <2>2, <2>3, <2>4 DEF Holds
  <1>2. d \in TxRecord /\ OnlyLinks(t, d) /\ IsList(d, x)
    BY <1>0, <1>1, DeleteStep
  <1>3. \A r : Holds(x, r) <=> Holds(w, r) /\ r # s
    BY <1>0, <1>1, HoldsWithout
  <1>4. t.tries[s] \in 1 .. MaxTries /\ s \in t.used
    <2>1. s \in t.used /\ t.tries[s] > 0
      BY <1>0, <1>1 DEF Waits
    <2>2. t.tries[s] \in 0 .. MaxTries
      <3> HIDE DEF s
      <3> QED BY <1>1, Fields
    <2> HIDE DEF s
    <2> QED
      BY <2>1, <2>2, WindowFacts
  <1>5. ResendFirst(t) = IF e.tries[s] <= 0 THEN e ELSE g
    BY DEF ResendFirst
  <1>6. d.tries = t.tries /\ d.tr03 = t.tr03 /\ Kept(t, d)
    BY <1>2 DEF OnlyLinks, TxRecord, Kept
  <1> HIDE DEF s, d, x
  <1>7. /\ e \in TxRecord /\ Kept(t, e) /\ e.tr03 = t.tr03
        /\ e.tries = [t.tries EXCEPT ![s] = @ - 1]
        /\ e.first = d.first /\ e.last = d.last /\ e.prev = d.prev /\ e.next = d.next
    <2>1. t.tries[s] - 1 \in 0 .. MaxTries
      BY <1>4, WindowFacts
    <2>2. d.tries[s] - 1 \in 0 .. MaxTries
      BY <1>6, <2>1
    <2>3. e \in TxRecord
      BY ONLY <1>1, <1>2, <2>2 DEF TxRecord
    <2>4. /\ e.tr03 = d.tr03 /\ e.tries = [d.tries EXCEPT ![s] = @ - 1]
          /\ e.first = d.first /\ e.last = d.last /\ e.prev = d.prev /\ e.next = d.next
          /\ e.in = d.in /\ e.out = d.out /\ e.used = d.used /\ e.ta02 = d.ta02 /\ e.timeout = d.timeout
      BY ONLY <1>2 DEF TxRecord
    <2> QED
      BY <1>6, <2>3, <2>4 DEF Kept
  <1> HIDE DEF e
  <1>8. IsList(e, x)
    BY <1>2, <1>7, SameLinks
  <1>9. e.tries \in [Slot -> 0 .. MaxTries] /\ t.tries \in [Slot -> 0 .. MaxTries] /\ e.tries[s] = t.tries[s] - 1
    BY <1>1, <1>7, Fields
  <1>10. InTime(e, x, now)
    <2>1. \A r \in Slot : r # w[1] => e.tr03[r] = t.tr03[r]
      BY <1>7
    <2> QED
      BY <1>0, <1>1, <2>1, InTimeWithout DEF x
  <1>11. \A r \in Slot : r # s => (Holds(x, r) <=> r \in e.used /\ e.tries[r] > 0)
    BY <1>0, <1>1, <1>3, <1>7, <1>9 DEF Waits, Kept
  <1>12. CASE e.tries[s] <= 0
    <2>1. Waits(e, x)
      BY <1>3, <1>9, <1>11, <1>12 DEF Waits
    <2> QED
      BY <1>5, <1>7, <1>8, <1>10, <1>12, <2>1 DEF Listed
  <1>13. CASE ~ (e.tries[s] <= 0)
    <2>1. /\ f \in TxRecord /\ Kept(t, f) /\ f.tries = e.tries
          /\ f.tr03 = [e.tr03 EXCEPT ![s] = @ + t.timeout]
          /\ f.first = e.first /\ f.last = e.last /\ f.prev = e.prev /\ f.next = e.next
      <3>1. e.tr03[s] + t.timeout \in Nat
        BY <1>1, <1>7, Fields, Timeouts
      <3>2. f \in TxRecord
        BY ONLY <1>1, <1>7, <3>1 DEF TxRecord
      <3>3. /\ f.in = e.in /\ f.out = e.out /\ f.used = e.used /\ f.ta02 = e.ta02 /\ f.timeout = e.timeout
            /\ f.tries = e.tries /\ f.tr03 = [e.tr03 EXCEPT ![s] = @ + t.timeout]
            /\ f.first = e.first /\ f.last = e.last /\ f.prev = e.prev /\ f.next = e.next
        BY ONLY <1>7 DEF TxRecord
      <3> QED
        BY <1>7, <3>2, <3>3 DEF Kept
    <2> HIDE DEF f
    <2>2. IsList(f, x)
      BY <1>8, <2>1, SameLinks
    <2>3. ~ Holds(x, s)
      BY <1>3
    <2>4. g \in TxRecord /\ OnlyLinks(f, g) /\ IsList(g, Append(x, s))
      BY <1>1, <2>1, <2>2, <2>3, AddStep
    <2>5. g.tries = f.tries /\ g.tr03 = f.tr03 /\ Kept(f, g)
      BY <2>1, <2>4, ZenonT(60) DEF OnlyLinks, TxRecord, Kept
    <2> HIDE DEF g
    <2>6. x \in Seq(Slot)
      BY <1>8 DEF IsList
    <2>7. Waits(g, Append(x, s))
      <3>1. \A r : Holds(Append(x, s), r) <=> Holds(x, r) \/ r = s
        BY <1>1, <2>6, HoldsAppend
      <3>2. g.used = t.used /\ e.used = t.used
        BY <1>7, <2>1, <2>5 DEF Kept
      <3>3. e.tries[s] > 0
        BY <1>1, <1>9, <1>13
      <3> QED
        BY <1>4, <1>11, <2>1, <2>5, <3>1, <3>2, <3>3 DEF Waits
    <2>8. InTime(g, x, now)
      <3>1. \A r \in Slot : r # w[1] => g.tr03[r] = t.tr03[r]
        BY <1>1, <1>7, <2>1, <2>5, Fields
      <3> QED
        BY <1>0, <1>1, <3>1, InTimeWithout DEF x
    <2>9. Punctual => g.tr03[s] = now + Longest
      <3>1. g.tr03[s] = t.tr03[s] + t.timeout
        BY <1>1, <1>7, <2>1, <2>5, Fields
      <3>2. Punctual => t.tr03[s] = now
        <4>1. Punctual => t.tr03[w[1]] \in now .. now + Longest
          BY <1>0, <1>1 DEF InTime
        <4> QED
          BY <1>1, <4>1
      <3>3. Punctual => t.timeout = Longest
        BY Fields DEF Punctual
      <3> QED
        BY <3>1, <3>2, <3>3
    <2>10. InTime(g, Append(x, s), now)
      BY <1>1, <2>3, <2>6, <2>8, <2>9, InTimeAppend
    <2>11. Kept(t, g)
      BY <2>1, <2>5 DEF Kept
    <2> QED
      BY <1>5, <1>13, <2>4, <2>7, <2>10, <2>11 DEF Listed
  <1> QED
    BY <1>12, <1>13

\* The loop: whatever number of turns it takes, what holds of a turn holds of it.
LEMMA ResendDueStep ==
    ASSUME now \in Nat, NEW t \in TxRecord, NEW w, Listed(t, w, now)
    PROVE  LET u == ResendDue(t)
           IN  u \in TxRecord /\ Kept(t, u) /\ \E x : Listed(u, x, now)
  <1> DEFINE N == Window * MaxTries
             Turn(u) == IF Due(u) THEN ResendFirst(u) ELSE u
             After(f, m) == f = [n \in 0 .. m |-> IF n = 0 THEN t ELSE
                                    IF Due(f[n - 1]) THEN ResendFirst(f[n - 1]) ELSE f[n - 1]]
             Done(u) == u \in TxRecord /\ Kept(t, u) /\ \E x : Listed(u, x, now)
             after == CHOOSE f : After(f, N)
  <1>0. N \in Nat
    BY WindowFacts
  <1>1. ResendDue(t) = after[N]
    BY DEF ResendDue
  <1> HIDE DEF N, after
  <1>2. ASSUME NEW m \in Nat, NEW f, After(f, m)
        PROVE  \E g : After(g, m + 1)
    <2> DEFINE g == [n \in 0 .. m + 1 |-> IF n = m + 1 THEN Turn(f[m]) ELSE f[n]]
    <2>1. \A n \in 0 .. m : f[n] = IF n = 0 THEN t ELSE
                                   IF Due(f[n - 1]) THEN ResendFirst(f[n - 1]) ELSE f[n - 1]
      BY <1>2
    <2>2. \A n \in 0 .. m : g[n] = f[n]
      OBVIOUS
    <2>3. g[m + 1] = Turn(f[m]) /\ g[m] = f[m]
      OBVIOUS
    <2>4. ASSUME NEW n \in 0 .. m + 1
          PROVE  g[n] = IF n = 0 THEN t ELSE
                        IF Due(g[n - 1]) THEN ResendFirst(g[n - 1]) ELSE g[n - 1]
      <3> HIDE DEF g
      <3>1. CASE n = m + 1
        <4>1. n # 0 /\ n - 1 = m
          BY <3>1
        <4> QED
          BY <2>3, <3>1, <4>1
      <3>2. CASE n # m + 1
        <4>1. n \in 0 .. m /\ (n # 0 => n - 1 \in 0 .. m)
          BY <3>2
        <4> QED
          BY <2>1, <2>2, <4>1
      <3> QED BY <3>1, <3>2
    <2>5. g = [n \in 0 .. m + 1 |-> g[n]]
      OBVIOUS
    <2> HIDE DEF g
    <2>6. g = [n \in 0 .. m + 1 |-> IF n = 0 THEN t ELSE
                                    IF Due(g[n - 1]) THEN ResendFirst(g[n - 1]) ELSE g[n - 1]]
      BY ONLY <2>4, <2>5
    <2> QED
      BY <2>6
  <1>3. \E f : After(f, 0)
    <2> DEFINE g == [n \in 0 .. 0 |-> t]
    <2>1. \A n \in 0 .. 0 : t = IF n = 0 THEN t ELSE
                                IF Due(g[n - 1]) THEN ResendFirst(g[n - 1]) ELSE g[n - 1]
      OBVIOUS
    <2>2. After(g, 0)
      BY ONLY <2>1
    <2> QED
      BY ONLY <2>2
  <1> HIDE DEF After
  <1>4. \E f : After(f, N)
    <2> DEFINE Missing == {m \in Nat : ~ \E f : After(f, m)}
    <2> SUFFICES ASSUME Missing # {} PROVE FALSE
      BY <1>0
    <2>0. Missing \in SUBSET Nat
      OBVIOUS
    <2>1. PICK m \in Missing : \A n \in Missing : m <= n
      BY <2>0, LeastNumber
    <2>2. m \in Nat /\ m # 0
      BY <1>3, <2>1
    <2>3. m - 1 \in Nat /\ m - 1 \notin Missing /\ m - 1 + 1 = m
      <3>1. m - 1 \in Nat /\ ~ (m <= m - 1) /\ m - 1 + 1 = m
        BY <2>2
      <3> QED BY <2>1, <3>1
    <2>4. PICK f : After(f, m - 1)
      BY <2>3
    <2>5. \E g : After(g, m)
      BY <1>2, <2>3, <2>4
    <2> QED
      BY <2>5
  <1>5. After(after, N)
    BY <1>4, Zenon DEF after
  <1>6. \A n \in 0 .. N : after[n] = IF n = 0 THEN t ELSE
                                     IF Due(after[n - 1]) THEN ResendFirst(after[n - 1]) ELSE after[n - 1]
    BY <1>5 DEF After
  <1> DEFINE Wrong == {n \in 0 .. N : ~ Done(after[n])}
  <1> HIDE DEF Done
  <1>7. Wrong = {}
    <2> SUFFICES ASSUME Wrong # {} PROVE FALSE
      OBVIOUS
    <2>0. Wrong \in SUBSET Nat
      BY <1>0
    <2>1. PICK n \in Wrong : \A m \in Wrong : n <= m
      BY <2>0, LeastNumber
    <2>2. n \in 0 .. N /\ ~ Done(after[n])
      BY <2>1
    <2>3. CASE n = 0
      <3>1. after[n] = t
        BY <1>6, <2>2, <2>3
      <3>2. Done(t)
        BY DEF Done, Kept
      <3> QED BY <2>2, <3>1, <3>2
    <2>4. CASE n # 0
      <3> DEFINE p == after[n - 1]
      <3>1. n - 1 \in 0 .. N /\ ~ (n <= n - 1)
        BY <1>0, <2>2, <2>4
      <3>2. Done(p)
        BY <2>1, <3>1
      <3>3. after[n] = IF Due(p) THEN ResendFirst(p) ELSE p
        BY <1>6, <2>2, <2>4
      <3> HIDE DEF p
      <3>4. CASE Due(p)
        <4>1. PICK x : Listed(p, x, now)
          BY <3>2 DEF Done
        <4>2. p \in TxRecord /\ Kept(t, p)
          BY <3>2 DEF Done
        <4>3. ResendFirst(p) \in TxRecord /\ Kept(p, ResendFirst(p)) /\ \E y : Listed(ResendFirst(p), y, now)
          BY <3>4, <4>1, <4>2, ResendStep
        <4>4. Done(ResendFirst(p))
          BY <4>2, <4>3 DEF Done, Kept
        <4> QED BY <2>2, <3>3, <3>4, <4>4
      <3>5. CASE ~ Due(p)
        BY <2>2, <3>2, <3>3, <3>5
      <3> QED BY <3>4, <3>5
    <2> QED BY <2>3, <2>4
  <1>8. Done(after[N])
    <2>1. N \in 0 .. N
      BY <1>0
    <2> QED
      BY <1>7, <2>1
  <1> QED
    BY <1>1, <1>8 DEF Done

-----------------------------------------------------------------------------
(* The ring of slots.                                                       *)

LEMMA InSlots ==
    ASSUME NEW x \in Int
    PROVE  x % Window \in Slot
  BY WindowFacts, DivMod DEF Slot

LEMMA SameSlot ==
    ASSUME NEW x \in Int, NEW y \in Int, x <= y, y - x < Window, x % Window = y % Window
    PROVE  x = y
  BY WindowFacts, ModInjective

\* A slot is free when it is the next to be used.
LEMMA NextSlotIsFree ==
    ASSUME NEW t \in TxRecord, Ring(t)
    PROVE  t.in \notin t.used
  <1>1. PICK a, b \in Nat :
            /\ a <= b /\ b < a + Window /\ t.out = a % Window /\ t.in = b % Window
            /\ \A u \in t.used : \E m \in a .. b - 1 : u = m % Window
    BY DEF Ring
  <1> SUFFICES ASSUME t.in \in t.used PROVE FALSE
    OBVIOUS
  <1>2. PICK m \in a .. b - 1 : b % Window = m % Window
    BY <1>1
  <1>3. m \in Int /\ b \in Int /\ m <= b /\ b - m < Window /\ m # b
    BY <1>1, <1>2, WindowFacts
  <1> QED
    BY <1>2, <1>3, SameSlot

\* A message takes it.
LEMMA RingSend ==
    ASSUME NEW t \in TxRecord, Ring(t), Room(t) >= 1, NEW u,
           u.in = (t.in + 1) % Window, u.out = t.out, u.used = t.used \cup {t.in}
    PROVE  Ring(u)
  <1>1. PICK a, b \in Nat :
            /\ a <= b /\ b < a + Window /\ t.out = a % Window /\ t.in = b % Window
            /\ \A x \in t.used : \E m \in a .. b - 1 : x = m % Window
    BY DEF Ring
  <1>2. u.in = (b + 1) % Window
    <2>1. ((b % Window) + 1) % Window = (b + 1) % Window
      <3>1. b \in Int /\ 1 \in Int
        OBVIOUS
      <3> QED
        BY <3>1, WindowFacts, ModAdd
    <2> QED
      BY <1>1, <2>1
  <1>3. b + 1 < a + Window
    <2> SUFFICES ASSUME b + 1 = a + Window PROVE FALSE
      BY <1>1, WindowFacts
    <2>1. u.in = t.out
      <3>0. a \in Int
        OBVIOUS
      <3>1. (a + Window) % Window = a % Window
        BY <3>0, WindowFacts, ModPlus
      <3> QED
        BY <1>1, <1>2, <3>1
    <2>2. t.out = IF t.in = Window - 1 THEN 0 ELSE t.in + 1
      <3>1. b \in Int
        OBVIOUS
      <3>2. (b + 1) % Window = IF b % Window = Window - 1 THEN 0 ELSE (b % Window) + 1
        BY <3>1, WindowFacts, ModSucc
      <3> QED
        BY <1>1, <1>2, <2>1, <3>2
    <2>3. t.in \in 0 .. Window - 1
      BY Fields DEF Slot
    <2> QED
      BY <2>2, <2>3, WindowFacts DEF Room
  <1>4. \A x \in u.used : \E m \in a .. b : x = m % Window
    <2> TAKE x \in u.used
    <2>1. CASE x = t.in
      BY <1>1, <2>1
    <2>2. CASE x # t.in
      <3>1. PICK m \in a .. b - 1 : x = m % Window
        BY <1>1, <2>2
      <3>2. m \in a .. b
        BY <1>1
      <3> QED
        BY <3>1, <3>2
    <2> QED BY <2>1, <2>2
  <1>5. a <= b + 1 /\ b + 1 \in Nat /\ b + 1 - 1 = b
    BY <1>1
  <1> QED
    BY <1>1, <1>2, <1>3, <1>4, <1>5 DEF Ring

\* An acknowledged message leaves it.
LEMMA RingAck ==
    ASSUME NEW t \in TxRecord, Ring(t), NEW s \in t.used, NEW u,
           u.in = t.in, u.used = t.used \ {s},
           u.out = t.out \/ (s = t.out /\ \E v \in TxRecord : /\ v.in = t.in /\ v.out = t.out
                                                            /\ v.used = t.used \ {s}
                                                            /\ u.out = NextUnacked(v))
    PROVE  Ring(u) /\ u.out \in Slot
  <1>1. PICK a, b \in Nat :
            /\ a <= b /\ b < a + Window /\ t.out = a % Window /\ t.in = b % Window
            /\ \A x \in t.used : \E m \in a .. b - 1 : x = m % Window
    BY DEF Ring
  <1>2. CASE u.out = t.out
    BY <1>1, <1>2, Fields DEF Ring
  <1>3. CASE u.out # t.out
    <2>1. PICK v \in TxRecord : /\ v.in = t.in /\ v.out = t.out /\ v.used = t.used \ {s}
                                /\ u.out = NextUnacked(v)
      BY <1>3
    <2>2. s = t.out
      BY <1>3
    <2> DEFINE stops == {d \in 1 .. Window :
                            (v.out + d) % Window = v.in \/ (v.out + d) % Window \in v.used}
               j == Min(stops)
    <2>3. \A d \in Int : (v.out + d) % Window = (a + d) % Window
      <3> TAKE d \in Int
      <3>0. a \in Int /\ d \in Int
        OBVIOUS
      <3>1. ((a % Window) + d) % Window = (a + d) % Window
        BY ONLY <3>0, WindowFacts, ModAdd
      <3> QED
        BY <1>1, <2>1, <3>1
    <2>4. b - a \in 1 .. Window /\ b - a \in Int
      <3>1. PICK m \in a .. b - 1 : t.out = m % Window
        BY <1>1, <2>2
      <3> QED
        BY <1>1, <3>1, WindowFacts
    <2>5. b - a \in stops
      <3>1. a + (b - a) = b
        OBVIOUS
      <3>2. (v.out + (b - a)) % Window = v.in
        BY <1>1, <2>1, <2>3, <2>4, <3>1
      <3> QED
        BY <2>4, <3>2
    <2>6. j \in stops /\ j <= b - a /\ \A d \in stops : j <= d
      <3>1. stops \in SUBSET Nat /\ stops # {}
        BY <2>5
      <3> HIDE DEF stops
      <3> QED
        BY <2>5, <3>1, MinIsLeast
    <2>7. j \in 1 .. Window /\ j \in Int
      BY <2>6
    <2>8. u.out = (a + j) % Window
      <3>1. NextUnacked(v) = (v.out + j) % Window
        BY DEF NextUnacked
      <3> HIDE DEF j
      <3> QED
        BY <2>1, <2>3, <2>7, <3>1
    <2>9. ASSUME NEW x \in u.used PROVE \E m \in a + j .. b - 1 : x = m % Window
      <3>1. x \in v.used /\ x \in t.used /\ x # t.out
        BY <2>1, <2>2
      <3>2. PICK m \in a .. b - 1 : x = m % Window
        BY <1>1, <3>1
      <3>3. m # a
        BY <1>1, <3>1, <3>2
      <3>4. m - a \in 1 .. Window /\ m - a \in Int /\ a + (m - a) = m
        BY <1>1, <3>2, <3>3, WindowFacts
      <3>5. (v.out + (m - a)) % Window = x
        BY <2>3, <3>2, <3>4
      <3>6. m - a \in stops
        BY <3>1, <3>4, <3>5
      <3>7. j <= m - a
        BY <2>6, <3>6
      <3> HIDE DEF j
      <3>8. m \in a + j .. b - 1
        BY <2>7, <3>2, <3>7
      <3> QED
        BY <3>2, <3>8
    <2> HIDE DEF j
    <2>10. a + j \in Nat /\ a + j <= b /\ b < a + j + Window
      BY <1>1, <2>6, <2>7, WindowFacts
    <2>11. Ring(u)
      BY <1>1, <2>8, <2>9, <2>10 DEF Ring
    <2> QED
      BY <2>8, <2>10, <2>11, InSlots
  <1> QED
    BY <1>2, <1>3

-----------------------------------------------------------------------------
(* What the handlers do to one channel.                                     *)

\* The first entry is the one due first.
LEMMA FirstIsLeast ==
    ASSUME NEW n \in Nat, NEW t \in TxRecord, NEW w, Listed(t, w, n)
    PROVE  /\ t.first # Tag => t.first \in Slot /\ Len(w) > 0 /\ w[1] = t.first
           /\ \A i \in 1 .. Len(w) : w[i] \in Slot /\ t.first # Tag
           /\ Punctual => \A i \in 1 .. Len(w) : /\ t.tr03[t.first] <= t.tr03[w[i]]
                                                 /\ t.tr03[w[i]] \in n .. n + Longest
  <1>1. /\ w \in Seq(Slot) /\ Len(w) \in Nat
        /\ t.first = IF Len(w) = 0 THEN Tag ELSE w[1]
    BY DEF Listed, IsList
  <1>2. \A i \in 1 .. Len(w) : w[i] \in Slot /\ w[i] # Tag
    BY <1>1, WindowFacts
  <1>3. t.first # Tag => t.first \in Slot /\ Len(w) > 0 /\ w[1] = t.first
    BY <1>1, <1>2
  <1>4. \A i \in 1 .. Len(w) : w[i] \in Slot /\ t.first # Tag
    BY <1>1, <1>2
  <1>5. ASSUME Punctual, NEW i \in 1 .. Len(w)
        PROVE  t.tr03[t.first] <= t.tr03[w[i]] /\ t.tr03[w[i]] \in n .. n + Longest
    <2>1. /\ \A j \in 1 .. Len(w) : t.tr03[w[j]] \in n .. n + Longest
          /\ \A j, k \in 1 .. Len(w) : j < k => t.tr03[w[j]] <= t.tr03[w[k]]
      BY <1>5 DEF Listed, InTime
    <2>2. 1 \in 1 .. Len(w) /\ t.first = w[1]
      BY <1>1
    <2>3. i = 1 \/ 1 < i
      BY <1>1
    <2>4. Longest \in Nat /\ t.tr03[w[i]] \in n .. n + Longest
      BY <2>1, Timeouts
    <2> QED
      BY <2>1, <2>2, <2>3, <2>4
  <1> QED
    BY <1>3, <1>4, <1>5

\* A slot is filled, and its timer goes to the end of the list.
Filled(t) ==
    [t EXCEPT !.used = @ \cup {t.in}, !.tr03[t.in] = now + t.timeout,
              !.tries[t.in] = MaxTries, !.in = (t.in + 1) % Window, !.ta02 = now + TA02]

LEMMA SendStep ==
    ASSUME now \in Nat, NEW t \in TxRecord, ChanOk(t, now), Room(t) >= 1
    PROVE  LET u == add_timer_queue_last_entry(Filled(t), t.in)
           IN  u \in TxRecord /\ ChanOk(u, now) /\ u.ta02 = now + TA02
  <1> DEFINE s == t.in
             f == Filled(t)
             u == add_timer_queue_last_entry(f, s)
  <1>1. PICK w : Listed(t, w, now)
    BY DEF ChanOk
  <1>2. IsList(t, w) /\ Waits(t, w) /\ InTime(t, w, now) /\ Ring(t)
    BY <1>1 DEF Listed, ChanOk
  <1>3. s \in Slot /\ s \notin t.used
    BY <1>2, Fields, NextSlotIsFree
  <1>4. ~ Holds(w, s) /\ w \in Seq(Slot)
    BY <1>2, <1>3 DEF Waits, IsList
  <1>5. /\ t.timeout \in Nat /\ now + t.timeout \in Nat /\ now + TA02 \in Nat
        /\ MaxTries \in 0 .. MaxTries /\ MaxTries > 0 /\ (t.in + 1) % Window \in Slot
    <2>1. t.timeout \in Nat
      BY Fields, Timeouts
    <2>2. t.in + 1 \in Int
      <3>1. t.in \in Nat
        BY Fields, WindowFacts
      <3> QED BY ONLY <3>1
    <2> QED
      BY <2>1, <2>2, WindowFacts, InSlots
  <1>6. /\ f \in TxRecord
        /\ f.first = t.first /\ f.last = t.last /\ f.prev = t.prev /\ f.next = t.next
        /\ f.used = t.used \cup {s} /\ f.in = (s + 1) % Window /\ f.out = t.out
        /\ f.tr03 = [t.tr03 EXCEPT ![s] = now + t.timeout]
        /\ f.tries = [t.tries EXCEPT ![s] = MaxTries] /\ f.ta02 = now + TA02
        /\ f.timeout = t.timeout
    <2>1. f = [t EXCEPT !.used = @ \cup {s}, !.tr03[s] = now + t.timeout,
                        !.tries[s] = MaxTries, !.in = (s + 1) % Window, !.ta02 = now + TA02]
      BY DEF Filled
    <2> HIDE DEF f
    <2>2. f \in TxRecord
      BY ONLY <1>3, <1>5, <2>1, t \in TxRecord DEF TxRecord, s
    <2> HIDE DEF s
    <2> QED
      BY ONLY <2>1, <2>2, t \in TxRecord DEF TxRecord
  <1> HIDE DEF f, s
  <1>7. IsList(f, w)
    BY <1>2, <1>6, SameLinks
  <1>8. u \in TxRecord /\ OnlyLinks(f, u) /\ IsList(u, Append(w, s))
    BY <1>3, <1>4, <1>6, <1>7, AddStep
  <1>9. /\ u.in = f.in /\ u.out = f.out /\ u.used = f.used /\ u.tr03 = f.tr03
        /\ u.tries = f.tries /\ u.ta02 = f.ta02 /\ u.timeout = f.timeout
    <2>1. f \in TxRecord /\ OnlyLinks(f, u)
      BY <1>6, <1>8
    <2> HIDE DEF u
    <2> QED
      BY ONLY <2>1 DEF OnlyLinks, TxRecord
  <1> HIDE DEF u
  <1>10. Waits(u, Append(w, s))
    <2>1. \A r : Holds(Append(w, s), r) <=> Holds(w, r) \/ r = s
      BY <1>3, <1>4, HoldsAppend
    <2>2. \A r \in Slot : u.tries[r] = IF r = s THEN MaxTries ELSE t.tries[r]
      BY <1>3, <1>6, <1>9, Fields
    <2> QED
      BY <1>2, <1>3, <1>5, <1>6, <1>9, <2>1, <2>2 DEF Waits
  <1>11. InTime(u, Append(w, s), now)
    <2>1. \A r \in Slot : u.tr03[r] = IF r = s THEN now + t.timeout ELSE t.tr03[r]
      BY <1>3, <1>6, <1>9, Fields
    <2>2. \A i \in 1 .. Len(w) : w[i] \in Slot /\ w[i] # s
      BY <1>4 DEF Holds
    <2>3. \A i \in 1 .. Len(w) : u.tr03[w[i]] = t.tr03[w[i]]
      BY <2>1, <2>2
    <2>4. InTime(u, w, now)
      BY <1>2, <2>3 DEF InTime
    <2>5. Punctual => u.tr03[s] = now + Longest
      BY <1>3, <2>1, Fields DEF Punctual
    <2> QED
      BY <1>3, <1>4, <2>4, <2>5, InTimeAppend
  <1>12. Ring(u)
    BY <1>2, <1>6, <1>9, RingSend DEF s
  <1>13. ChanOk(u, now)
    BY <1>8, <1>10, <1>11, <1>12 DEF ChanOk, Listed
  <1> QED
    BY <1>6, <1>8, <1>9, <1>13 DEF u, f, s

\* The slot of an acknowledged message leaves the list.
Unlinked(t, s) == delete_timer_queue_entry([t EXCEPT !.used = @ \ {s}, !.tr03[s] = Off], s)

AckResult(t, s) ==
    LET v == Unlinked(t, s)
    IN  IF s = t.out THEN [v EXCEPT !.out = NextUnacked(v)] ELSE v

LEMMA AckStep ==
    ASSUME NEW n \in Nat, NEW t \in TxRecord, ChanOk(t, n), NEW s \in t.used,
           InList(t, s) \/ t.first = Tag
    PROVE  LET u == AckResult(t, s)
           IN  /\ u \in TxRecord /\ ChanOk(u, n) /\ u.ta02 = t.ta02
               /\ Punctual /\ u.first # Tag =>
                     t.first # Tag /\ t.tr03[t.first] \in Nat /\ u.tr03[u.first] \in Nat
                     /\ t.tr03[t.first] <= u.tr03[u.first] /\ t.tr03[t.first] >= n
  <1> DEFINE f == [t EXCEPT !.used = @ \ {s}, !.tr03[s] = Off]
             v == Unlinked(t, s)
             u == AckResult(t, s)
  <1>1. PICK w : Listed(t, w, n)
    BY DEF ChanOk
  <1>2. IsList(t, w) /\ Waits(t, w) /\ InTime(t, w, n) /\ Ring(t) /\ s \in Slot
    BY <1>1, Fields DEF Listed, ChanOk
  <1>3. /\ f \in TxRecord
        /\ f.first = t.first /\ f.last = t.last /\ f.prev = t.prev /\ f.next = t.next
        /\ f.used = t.used \ {s} /\ f.in = t.in /\ f.out = t.out
        /\ f.tr03 = [t.tr03 EXCEPT ![s] = Off]
        /\ f.tries = t.tries /\ f.ta02 = t.ta02
    <2>1. Off \in Nat
      BY DEF Off
    <2> QED
      BY ONLY <1>2, <2>1, t \in TxRecord DEF TxRecord
  <1>4. v = delete_timer_queue_entry(f, s)
    BY DEF Unlinked
  <1> HIDE DEF f
  <1>5. IsList(f, w)
    BY <1>2, <1>3, SameLinks
  <1>6. \E x : /\ v \in TxRecord /\ Listed(v, x, n)
               /\ v.used = t.used \ {s} /\ v.in = t.in /\ v.out = t.out /\ v.ta02 = t.ta02
               /\ v.tr03 = [t.tr03 EXCEPT ![s] = Off]
               /\ \A r : Holds(x, r) => Holds(w, r) /\ r # s
    <2>1. CASE Holds(w, s)
      <3>1. PICK k \in 1 .. Len(w) : w[k] = s
        BY <2>1 DEF Holds
      <3> DEFINE x == Without(w, k)
      <3>2. v \in TxRecord /\ OnlyLinks(f, v) /\ IsList(v, x)
        BY <1>3, <1>4, <1>5, <3>1, DeleteStep
      <3>3. /\ v.in = f.in /\ v.out = f.out /\ v.used = f.used /\ v.tr03 = f.tr03
            /\ v.tries = f.tries /\ v.ta02 = f.ta02
        <4>1. f \in TxRecord /\ OnlyLinks(f, v)
          BY <1>3, <3>2
        <4> QED
          BY ONLY <4>1 DEF OnlyLinks, TxRecord
      <3>4. \A r : Holds(x, r) <=> Holds(w, r) /\ r # s
        BY <1>2, <3>1, HoldsWithout
      <3>5. InTime(v, x, n)
        <4>1. \A r \in Slot : r # w[k] => v.tr03[r] = t.tr03[r]
          BY <1>2, <1>3, <3>1, <3>3, Fields
        <4> QED
          BY <1>2, <3>1, <4>1, InTimeWithout
      <3> HIDE DEF x
      <3>6. Waits(v, x)
        BY <1>2, <1>3, <3>3, <3>4 DEF Waits
      <3>7. Listed(v, x, n)
        BY <3>2, <3>5, <3>6 DEF Listed
      <3> QED
        BY <1>3, <3>2, <3>3, <3>4, <3>7
    <2>2. CASE ~ Holds(w, s)
      <3>1. t.first = Tag /\ Len(w) = 0
        BY <1>2, <2>2, Held
      <3>2. v = f
        BY <1>3, <1>4, <3>1 DEF delete_timer_queue_entry
      <3>3. \A r : ~ Holds(w, r)
        BY <3>1 DEF Holds
      <3>4. Waits(v, w)
        BY <1>2, <1>3, <2>2, <3>2, <3>3 DEF Waits
      <3>5. InTime(v, w, n)
        BY <3>1 DEF InTime
      <3>6. Listed(v, w, n)
        BY <1>5, <3>2, <3>4, <3>5 DEF Listed
      <3> QED
        BY <1>3, <3>2, <3>3, <3>6
    <2> QED
      BY <2>1, <2>2
  <1> HIDE DEF v
  <1>7. PICK x : /\ v \in TxRecord /\ Listed(v, x, n)
                 /\ v.used = t.used \ {s} /\ v.in = t.in /\ v.out = t.out /\ v.ta02 = t.ta02
                 /\ v.tr03 = [t.tr03 EXCEPT ![s] = Off]
                 /\ \A r : Holds(x, r) => Holds(w, r) /\ r # s
    BY <1>6
  <1> DEFINE q == NextUnacked(v)
  <1>8. u = IF s = t.out THEN [v EXCEPT !.out = q] ELSE v
    BY DEF AckResult, v
  <1> HIDE DEF u, q
  <1>9. /\ u.used = t.used \ {s} /\ u.in = t.in /\ u.ta02 = t.ta02 /\ u.tr03 = v.tr03
        /\ u.tries = v.tries /\ u.timeout = v.timeout
        /\ u.first = v.first /\ u.last = v.last /\ u.prev = v.prev /\ u.next = v.next
        /\ u.out = t.out \/ (s = t.out /\ u.out = q)
        /\ u.out \in Slot => u \in TxRecord
    <2>1. CASE s = t.out
      <3>1. u = [v EXCEPT !.out = q]
        BY <1>8, <2>1
      <3> QED
        BY ONLY <1>7, <2>1, <3>1 DEF TxRecord
    <2>2. CASE s # t.out
      BY <1>7, <1>8, <2>2
    <2> QED BY <2>1, <2>2
  <1>10. Ring(u) /\ u.out \in Slot
    <2>1. u.out = t.out \/ (s = t.out /\ \E y \in TxRecord : /\ y.in = t.in /\ y.out = t.out
                                                           /\ y.used = t.used \ {s}
                                                           /\ u.out = NextUnacked(y))
      BY <1>7, <1>9 DEF q
    <2> QED
      BY <1>2, <1>9, <2>1, RingAck
  <1>11. Listed(u, x, n)
    <2>1. IsList(u, x)
      BY <1>7, <1>9, SameLinks DEF Listed
    <2>2. Waits(u, x) /\ InTime(u, x, n)
      BY <1>7, <1>9 DEF Listed, Waits, InTime
    <2> QED
      BY <2>1, <2>2 DEF Listed
  <1>12. ASSUME Punctual, u.first # Tag
         PROVE  /\ t.first # Tag /\ t.tr03[t.first] \in Nat /\ u.tr03[u.first] \in Nat
                /\ t.tr03[t.first] <= u.tr03[u.first] /\ t.tr03[t.first] >= n
    <2>1. u.first \in Slot /\ Len(x) > 0 /\ x[1] = u.first
      <3>1. u \in TxRecord
        BY <1>9, <1>10
      <3> QED
        BY <1>11, <1>12, <3>1, FirstIsLeast
    <2>2. Holds(x, u.first)
      <3>1. 1 \in 1 .. Len(x)
        <4>1. Len(x) \in Nat
          BY <1>11 DEF Listed, IsList
        <4> QED BY <2>1, <4>1
      <3> QED BY <2>1, <3>1 DEF Holds
    <2>3. PICK i \in 1 .. Len(w) : w[i] = u.first /\ u.first # s
      BY <1>7, <2>2 DEF Holds
    <2>4. /\ t.first # Tag /\ t.first \in Slot
          /\ t.tr03[t.first] <= t.tr03[u.first] /\ t.tr03[u.first] \in n .. n + Longest
      <3>1. t.first # Tag /\ t.tr03[t.first] <= t.tr03[w[i]] /\ t.tr03[w[i]] \in n .. n + Longest
        BY <1>1, <1>12, <2>3, FirstIsLeast
      <3> QED
        BY <1>1, <2>3, <3>1, FirstIsLeast
    <2>5. u.tr03[u.first] = t.tr03[u.first]
      BY <1>7, <1>9, <2>1, <2>3, Fields
    <2>6. t.tr03[t.first] \in Nat /\ t.tr03[u.first] \in Nat
      BY <2>1, <2>4, Fields
    <2>7. t.tr03[t.first] >= n
      <3>1. 1 \in 1 .. Len(w) /\ w[1] = t.first
        <4>1. Len(w) \in Nat
          BY <1>2 DEF IsList
        <4> QED BY <1>1, <2>4, <4>1, FirstIsLeast
      <3>2. t.tr03[w[1]] \in n .. n + Longest
        BY <1>1, <1>12, <3>1, FirstIsLeast
      <3> QED
        BY <3>1, <3>2, <2>6, Timeouts
    <2> QED
      BY <2>4, <2>5, <2>6, <2>7
  <1>13. u \in TxRecord /\ ChanOk(u, n)
    BY <1>9, <1>10, <1>11 DEF ChanOk
  <1> QED
    BY <1>9, <1>12, <1>13 DEF u

\* sprt_timer_expired for a channel.
LEMMA ServiceStep ==
    ASSUME now \in Nat, NEW t \in TxRecord, ChanOk(t, now)
    PROVE  LET u == Service(t)
           IN  u \in TxRecord /\ ChanOk(u, now)
  <1> DEFINE r == ResendDue(t)
             y == IF t.ta02 # Off /\ Sends(t) THEN now + TA02 ELSE t.ta02
             u == Service(t)
  <1>1. PICK w : Listed(t, w, now)
    BY DEF ChanOk
  <1>2. r \in TxRecord /\ Kept(t, r) /\ \E x : Listed(r, x, now)
    BY <1>1, ResendDueStep
  <1>3. PICK x : Listed(r, x, now)
    BY <1>2
  <1> HIDE DEF r
  <1>4. u = [r EXCEPT !.ta02 = y] /\ y \in Nat
    <2>1. r.ta02 = t.ta02
      BY <1>2 DEF Kept
    <2>2. u = [r EXCEPT !.ta02 = IF r.ta02 # Off /\ Sends(t) THEN now + TA02 ELSE r.ta02]
      BY DEF Service, r
    <2>3. y \in Nat
      BY Fields, WindowFacts
    <2> QED
      BY <2>1, <2>2, <2>3
  <1> HIDE DEF u, y
  <1>5. /\ u \in TxRecord /\ u.in = r.in /\ u.out = r.out /\ u.used = r.used /\ u.tr03 = r.tr03
        /\ u.tries = r.tries /\ u.first = r.first /\ u.last = r.last /\ u.prev = r.prev /\ u.next = r.next
    BY ONLY <1>2, <1>4 DEF TxRecord
  <1>6. Ring(u)
    BY <1>2, <1>5 DEF Ring, ChanOk, Kept
  <1>7. IsList(u, x)
    BY <1>3, <1>5, SameLinks DEF Listed
  <1>8. Listed(u, x, now)
    BY <1>3, <1>5, <1>7 DEF Listed, Waits, InTime
  <1> QED
    BY <1>5, <1>6, <1>8 DEF ChanOk, u

-----------------------------------------------------------------------------
(* The endpoint.                                                            *)

\* After update_timer, what it considers is covered.
LEMMA UpdateStep ==
    ASSUME NEW T \in [Chan -> TxRecord], NEW a \in Nat, NEW i \in BOOLEAN, update_timer(T, a, i)
    PROVE  /\ latest' \in Nat
           /\ i => latest' = 1
           /\ a # Off => latest' # Off /\ latest' <= a
           /\ \A c \in Chan : T[c].ta02 # Off => latest' # Off /\ latest' <= T[c].ta02
           /\ \A c \in Chan : T[c].first # Tag /\ T[c].tr03[T[c].first] # Off =>
                  latest' # Off /\ latest' <= T[c].tr03[T[c].first]
  <1> DEFINE C == Considered(T, a)
  <1>1. \A c \in Chan : /\ T[c].ta02 \in Nat
                        /\ T[c].first # Tag => T[c].tr03[T[c].first] \in Nat
    <2> TAKE c \in Chan
    <2>1. T[c] \in TxRecord
      OBVIOUS
    <2>2. /\ T[c].ta02 \in Nat /\ T[c].first \in Slot \cup {Tag} /\ T[c].tr03 \in [Slot -> Nat]
      BY <2>1, Fields DEF Link
    <2> QED
      BY <2>2
  <1>2. C \in SUBSET (Nat \ {0})
    BY <1>1 DEF Considered, Off
  <1>3. latest' = IF i THEN 1 ELSE IF C = {} THEN 0 ELSE Min(C)
    BY DEF update_timer, Off
  <1>4. /\ a # Off => a \in C
        /\ \A c \in Chan : T[c].ta02 # Off => T[c].ta02 \in C
        /\ \A c \in Chan : T[c].first # Tag /\ T[c].tr03[T[c].first] # Off => T[c].tr03[T[c].first] \in C
    BY DEF Considered
  <1> HIDE DEF C
  <1>5. C # {} => Min(C) \in C /\ \A x \in C : Min(C) <= x
    <2>1. C \in SUBSET Nat
      BY <1>2
    <2> QED
      BY <2>1, MinIsLeast
  <1>6. latest' \in Nat /\ \A x \in C : latest' # Off /\ latest' <= x
    <2>1. CASE i
      BY <1>2, <1>3, <2>1 DEF Off
    <2>2. CASE ~ i /\ C = {}
      BY <1>3, <2>2
    <2>3. CASE ~ i /\ C # {}
      <3>1. latest' = Min(C)
        BY <1>3, <2>3
      <3>2. Min(C) \in Nat \ {0}
        BY <1>2, <1>5, <2>3
      <3> QED
        BY <1>5, <2>3, <3>1, <3>2 DEF Off
    <2> QED
      BY <2>1, <2>2, <2>3
  <1>7. i => latest' = 1
    BY <1>3
  <1> QED
    BY <1>4, <1>6, <1>7

\* An entry that the application is asked for is due at a time.
LEMMA FirstIsTimed ==
    ASSUME Punctual, NEW n \in Nat \ {0}, NEW t \in TxRecord, ChanOk(t, n), t.first # Tag
    PROVE  t.tr03[t.first] # Off
  <1>1. PICK w : Listed(t, w, n)
    BY DEF ChanOk
  <1>2. t.first \in Slot /\ Len(w) > 0 /\ w[1] = t.first
    BY <1>1, FirstIsLeast
  <1>3. 1 \in 1 .. Len(w)
    <2>1. Len(w) \in Nat
      BY <1>1 DEF Listed, IsList
    <2> QED BY <1>2, <2>1
  <1>4. t.tr03[t.first] \in n .. n + Longest
    BY <1>1, <1>2, <1>3, FirstIsLeast
  <1>5. Longest \in Nat
    BY Timeouts
  <1> QED
    BY <1>4, <1>5 DEF Off

LEMMA InitStep == Init => TimersInv
  <1> SUFFICES ASSUME Init PROVE TimersInv
    OBVIOUS
  <1>1. ChanInit \in TxRecord
    <2>1. 0 \in Slot /\ Tag \in Link /\ Off \in Nat /\ 0 \in 0 .. MaxTries /\ Max(TR03s) \in TR03s
      BY WindowFacts, Timeouts DEF Slot, Link, Off, Longest
    <2> QED
      BY <2>1 DEF ChanInit, TxRecord
  <1>2. /\ ChanInit.first = Tag /\ ChanInit.last = Tag /\ ChanInit.used = {} /\ ChanInit.ta02 = Off
        /\ ChanInit.in = 0 /\ ChanInit.out = 0 /\ ChanInit.prev = [s \in Slot |-> Tag]
    BY DEF ChanInit
  <1>3. Listed(ChanInit, <<>>, now)
    <2>1. IsList(ChanInit, <<>>)
      BY <1>2 DEF IsList
    <2>2. Waits(ChanInit, <<>>) /\ InTime(ChanInit, <<>>, now)
      BY <1>2 DEF Waits, InTime, Holds
    <2> QED
      BY <2>1, <2>2 DEF Listed
  <1>4. Ring(ChanInit)
    <2>1. 0 % Window = 0
      BY WindowFacts, ModSmall
    <2>2. 0 \in Nat /\ 0 <= 0 /\ 0 < 0 + Window
      BY WindowFacts
    <2> QED
      BY <1>2, <2>1, <2>2 DEF Ring
  <1>5. ChanOk(ChanInit, now)
    BY <1>1, <1>3, <1>4 DEF ChanOk
  <1>6. \A c \in Chan : tx[c] = ChanInit
    BY DEF Init
  <1>7. tx \in [Chan -> TxRecord]
    BY <1>1 DEF Init
  <1>8. \A c \in Chan : ChanOk(tx[c], now)
    BY <1>5, <1>6
  <1>9. /\ now \in 1 .. MaxTime /\ acks \in 0 .. 2 /\ imm \in BOOLEAN /\ latest \in Nat /\ since \in 0 .. now
        /\ stray \in BOOLEAN /\ ta01 = (IF acks = 0 THEN Off ELSE since + TA01)
        /\ (imm => latest = 1) /\ (acks > 0 => now <= since + TA01 + MaxLate)
    <2>1. now = 1 /\ acks = 0 /\ imm = FALSE /\ latest = 0 /\ since = 0 /\ stray = FALSE /\ ta01 = 0
      BY DEF Init, Off
    <2>2. 1 \in 1 .. MaxTime
      BY WindowFacts
    <2>3. 0 \in 0 .. 2 /\ 0 \in 0 .. 1 /\ ~ (0 > 0) /\ 0 \in Nat
      OBVIOUS
    <2> QED
      BY ONLY <2>1, <2>2, <2>3 DEF Off
  <1>10. /\ Covered(ta01) /\ \A c \in Chan : Covered(tx[c].ta02)
         /\ Punctual => \A c \in Chan : tx[c].first # Tag => Covered(tx[c].tr03[tx[c].first])
    BY <1>2, <1>6 DEF Init, Covered
  <1> QED
    BY <1>7, <1>8, <1>9, <1>10 DEF TimersInv

\* What update_timer has just been asked to cover is.
LEMMA Updated ==
    ASSUME tx' \in [Chan -> TxRecord], ta01' \in Nat, NEW i \in BOOLEAN,
           update_timer(tx', ta01', i), now' \in Nat \ {0}, \A c \in Chan : ChanOk(tx'[c], now')
    PROVE  /\ latest' \in Nat /\ (i => latest' = 1)
           /\ Covered(ta01)' /\ (\A c \in Chan : Covered(tx[c].ta02))'
           /\ (Punctual => \A c \in Chan : tx[c].first # Tag => Covered(tx[c].tr03[tx[c].first]))'
  <1>1. /\ latest' \in Nat /\ (i => latest' = 1)
        /\ ta01' # Off => latest' # Off /\ latest' <= ta01'
        /\ \A c \in Chan : tx'[c].ta02 # Off => latest' # Off /\ latest' <= tx'[c].ta02
        /\ \A c \in Chan : tx'[c].first # Tag /\ tx'[c].tr03[tx'[c].first] # Off =>
               latest' # Off /\ latest' <= tx'[c].tr03[tx'[c].first]
    BY UpdateStep
  <1> QED
    BY <1>1 DEF Covered

LEMMA SendKeeps ==
    ASSUME TimersInv, NEW c \in Chan, sprt_tx(c)
    PROVE  TimersInv'
  <1> DEFINE t == tx[c]
             u == add_timer_queue_last_entry(Filled(t), t.in)
  <1>1. t \in TxRecord /\ ChanOk(t, now) /\ Room(t) >= 1 /\ now \in Nat
    BY DEF TimersInv, sprt_tx
  <1>2. u \in TxRecord /\ ChanOk(u, now) /\ u.ta02 = now + TA02
    BY <1>1, SendStep
  <1>3. /\ tx' = [tx EXCEPT ![c] = u]
        /\ acks' = 0 /\ ta01' = Off /\ since' = Off /\ update_timer(tx', Off, imm)
        /\ now' = now /\ imm' = imm /\ stray' = stray
    BY DEF sprt_tx, Filled
  <1> HIDE DEF u
  <1>4. tx' \in [Chan -> TxRecord] /\ \A d \in Chan : ChanOk(tx'[d], now')
    BY <1>2, <1>3 DEF TimersInv
  <1>5. ta01' \in Nat /\ imm \in BOOLEAN /\ now' \in Nat \ {0} /\ update_timer(tx', ta01', imm)
    BY <1>3 DEF TimersInv, Off
  <1>6. /\ latest' \in Nat /\ (imm => latest' = 1)
        /\ Covered(ta01)' /\ (\A d \in Chan : Covered(tx[d].ta02))'
        /\ (Punctual => \A d \in Chan : tx[d].first # Tag => Covered(tx[d].tr03[tx[d].first]))'
    BY <1>4, <1>5, Updated
  <1>7. /\ now' \in 1 .. MaxTime /\ acks' \in 0 .. 2 /\ imm' \in BOOLEAN /\ since' \in 0 .. now'
        /\ stray' \in BOOLEAN /\ ta01' = (IF acks' = 0 THEN Off ELSE since' + TA01)
        /\ (acks' > 0 => now' <= since' + TA01 + MaxLate)
    BY <1>3 DEF TimersInv, Off
  <1> QED
    BY <1>3, <1>4, <1>6, <1>7 DEF TimersInv

LEMMA DataKeeps ==
    ASSUME TimersInv, RxData
    PROVE  TimersInv'
  <1>1. /\ now \in 1 .. MaxTime /\ acks \in 0 .. 2 /\ imm \in BOOLEAN /\ since \in 0 .. now
        /\ ta01 = (IF acks = 0 THEN Off ELSE since + TA01) /\ latest \in Nat /\ stray \in BOOLEAN
        /\ (acks > 0 => now <= since + TA01 + MaxLate)
    BY DEF TimersInv
  <1>2. /\ now' = now /\ tx' = tx /\ imm' = imm /\ stray' = stray
        /\ IF acks + 1 >= 3
           THEN acks' = 0 /\ ta01' = Off /\ since' = Off
           ELSE /\ acks' = acks + 1 /\ ta01' = (IF acks = 0 THEN now + TA01 ELSE ta01)
                /\ since' = IF acks = 0 THEN now ELSE since
        /\ IF acks = 1 THEN latest' = latest ELSE update_timer(tx, ta01', imm)
    BY DEF RxData, Acknowledging
  <1>3. /\ now' \in 1 .. MaxTime /\ acks' \in 0 .. 2 /\ imm' \in BOOLEAN /\ since' \in 0 .. now'
        /\ stray' \in BOOLEAN /\ ta01' = (IF acks' = 0 THEN Off ELSE since' + TA01)
        /\ (acks' > 0 => now' <= since' + TA01 + MaxLate) /\ ta01' \in Nat
    <2>1. CASE acks + 1 >= 3
      BY <1>1, <1>2, <2>1 DEF Off
    <2>2. CASE acks = 0
      BY <1>1, <1>2, <2>2, WindowFacts
    <2>3. CASE acks = 1
      BY <1>1, <1>2, <2>3, WindowFacts
    <2> QED
      BY <1>1, <2>1, <2>2, <2>3
  <1>4. tx' \in [Chan -> TxRecord] /\ \A d \in Chan : ChanOk(tx'[d], now')
    BY <1>2 DEF TimersInv
  <1>5. /\ latest' \in Nat /\ (imm' => latest' = 1)
        /\ Covered(ta01)' /\ (\A d \in Chan : Covered(tx[d].ta02))'
        /\ (Punctual => \A d \in Chan : tx[d].first # Tag => Covered(tx[d].tr03[tx[d].first]))'
    <2>1. CASE acks = 1
      <3>1. latest' = latest /\ ta01' = ta01
        BY <1>1, <1>2, <2>1
      <3> QED
        BY <1>2, <3>1 DEF TimersInv, Covered
    <2>2. CASE acks # 1
      <3>1. update_timer(tx', ta01', imm) /\ now' \in Nat \ {0}
        BY <1>1, <1>2, <2>2
      <3> QED
        BY <1>1, <1>2, <1>3, <1>4, <3>1, Updated
    <2> QED
      BY <2>1, <2>2
  <1> QED
    BY <1>3, <1>4, <1>5 DEF TimersInv

LEMMA AckKeeps ==
    ASSUME TimersInv, NEW c \in Chan, NEW s \in Slot, RxAck(c, s)
    PROVE  TimersInv'
  <1> DEFINE t == tx[c]
             u == AckResult(t, s)
  <1>1. t \in TxRecord /\ ChanOk(t, now) /\ s \in t.used /\ now \in Nat /\ now > 0
    BY DEF TimersInv, RxAck
  <1>2. /\ now' = now /\ acks' = acks /\ ta01' = ta01 /\ imm' = imm /\ latest' = latest /\ since' = since
    BY DEF RxAck
  <1>3. CASE InList(t, s) \/ t.first = Tag
    <2>1. tx' = [tx EXCEPT ![c] = u] /\ stray' = stray
      BY <1>3 DEF RxAck, AckResult, Unlinked
    <2>2. /\ u \in TxRecord /\ ChanOk(u, now) /\ u.ta02 = t.ta02
          /\ Punctual /\ u.first # Tag =>
                t.first # Tag /\ t.tr03[t.first] \in Nat /\ u.tr03[u.first] \in Nat
                /\ t.tr03[t.first] <= u.tr03[u.first] /\ t.tr03[t.first] >= now
      BY <1>1, <1>3, AckStep
    <2> HIDE DEF u
    <2>3. tx' \in [Chan -> TxRecord] /\ \A d \in Chan : ChanOk(tx'[d], now')
      BY <1>2, <2>1, <2>2 DEF TimersInv
    <2>4. \A d \in Chan : tx'[d] = (IF d = c THEN u ELSE tx[d])
      BY <2>1 DEF TimersInv
    <2>5. (\A d \in Chan : Covered(tx[d].ta02))'
      BY <1>2, <2>2, <2>4 DEF TimersInv, Covered
    <2>6. ASSUME Punctual, NEW d \in Chan, tx'[d].first # Tag, tx'[d].tr03[tx'[d].first] # Off
          PROVE  latest # Off /\ latest <= tx'[d].tr03[tx'[d].first]
      <3>1. CASE d = c
        <4>1. tx'[d] = u
          BY <2>4, <3>1
        <4>2. /\ t.first # Tag /\ t.tr03[t.first] \in Nat /\ u.tr03[u.first] \in Nat
              /\ t.tr03[t.first] <= u.tr03[u.first] /\ t.tr03[t.first] >= now
          BY <2>2, <2>6, <4>1
        <4>3. latest # Off /\ latest <= t.tr03[t.first] /\ latest \in Nat
          BY <1>1, <2>6, <4>2 DEF TimersInv, Covered, Off
        <4> QED
          BY <4>1, <4>2, <4>3
      <3>2. CASE d # c
        BY <2>4, <2>6, <3>2 DEF TimersInv, Covered
      <3> QED BY <3>1, <3>2
    <2> QED
      BY <1>2, <2>1, <2>3, <2>5, <2>6 DEF TimersInv, Covered
  <1>4. CASE ~ (InList(t, s) \/ t.first = Tag)
    <2>1. tx' = tx /\ stray' \in BOOLEAN
      BY <1>4 DEF RxAck
    <2> QED
      BY <1>2, <2>1 DEF TimersInv, Covered
  <1> QED
    BY <1>3, <1>4

LEMMA NotBusyKeeps ==
    ASSUME TimersInv, NotBusy
    PROVE  TimersInv'
  <1>1. /\ imm' = TRUE /\ update_timer(tx, ta01, TRUE) /\ now' = now /\ tx' = tx /\ acks' = acks
        /\ ta01' = ta01 /\ since' = since /\ stray' = stray
    BY DEF NotBusy
  <1>2. /\ tx' \in [Chan -> TxRecord] /\ \A d \in Chan : ChanOk(tx'[d], now')
        /\ ta01' \in Nat /\ now' \in Nat \ {0} /\ update_timer(tx', ta01', TRUE)
    <2>1. tx' \in [Chan -> TxRecord] /\ \A d \in Chan : ChanOk(tx'[d], now')
      BY <1>1 DEF TimersInv
    <2>2. ta01' \in Nat /\ now' \in Nat \ {0}
      <3>1. /\ now \in 1 .. MaxTime /\ since \in 0 .. now
            /\ ta01 = (IF acks = 0 THEN Off ELSE since + TA01)
        BY DEF TimersInv
      <3> QED
        BY ONLY <1>1, <3>1, WindowFacts DEF Off
    <2> QED
      BY <1>1, <2>1, <2>2
  <1>3. /\ latest' \in Nat /\ latest' = 1
        /\ Covered(ta01)' /\ (\A d \in Chan : Covered(tx[d].ta02))'
        /\ (Punctual => \A d \in Chan : tx[d].first # Tag => Covered(tx[d].tr03[tx[d].first]))'
    BY <1>2, Updated
  <1> QED
    BY <1>1, <1>2, <1>3 DEF TimersInv

LEMMA SetTimeoutKeeps ==
    ASSUME TimersInv, NEW c \in Chan, NEW timeout \in TR03s, sprt_set_tc_timeout(c, timeout)
    PROVE  TimersInv'
  <1> DEFINE t == tx[c]
             u == [t EXCEPT !.timeout = timeout]
  <1>1. /\ tx' = [tx EXCEPT ![c] = u] /\ now' = now /\ acks' = acks
        /\ ta01' = ta01 /\ since' = since /\ stray' = stray /\ imm' = imm /\ latest' = latest
    BY DEF sprt_set_tc_timeout
  <1>2. t \in TxRecord /\ ChanOk(t, now)
    BY DEF TimersInv
  <1>3. /\ u \in TxRecord /\ u.in = t.in /\ u.out = t.out /\ u.used = t.used /\ u.tr03 = t.tr03
        /\ u.tries = t.tries /\ u.first = t.first /\ u.last = t.last /\ u.prev = t.prev /\ u.next = t.next
        /\ u.ta02 = t.ta02
    BY <1>2 DEF TxRecord
  <1> HIDE DEF u
  <1>4. ChanOk(u, now)
    <2>1. PICK w : Listed(t, w, now)
      BY <1>2 DEF ChanOk
    <2>2. IsList(u, w)
      BY <1>3, <2>1, SameLinks DEF Listed
    <2>3. Listed(u, w, now)
      BY <1>3, <2>1, <2>2 DEF Listed, Waits, InTime
    <2>4. Ring(u)
      BY <1>2, <1>3 DEF ChanOk, Ring
    <2> QED
      BY <1>3, <2>3, <2>4 DEF ChanOk
  <1>5. tx' \in [Chan -> TxRecord] /\ \A d \in Chan : ChanOk(tx'[d], now')
    BY <1>1, <1>3, <1>4 DEF TimersInv
  <1>6. \A d \in Chan : tx'[d].ta02 = tx[d].ta02 /\ tx'[d].first = tx[d].first /\ tx'[d].tr03 = tx[d].tr03
    BY <1>1, <1>3 DEF TimersInv
  <1> QED
    BY <1>1, <1>5, <1>6 DEF TimersInv, Covered

LEMMA ExpiryKeeps ==
    ASSUME TimersInv, sprt_timer_expired
    PROVE  TimersInv'
  <1> DEFINE some == (\E c \in Chan : Sends(tx[c])) \/ (ta01 # Off /\ ta01 <= now /\ acks > 0)
  <1>1. /\ imm' = FALSE /\ tx' = [c \in Chan |-> Service(tx[c])]
        /\ acks' = (IF some THEN 0 ELSE acks)
        /\ ta01' = (IF some /\ acks > 0 THEN Off ELSE ta01)
        /\ since' = (IF some THEN Off ELSE since)
        /\ update_timer(tx', ta01', FALSE) /\ now' = now /\ stray' = stray
    BY DEF sprt_timer_expired
  <1> HIDE DEF some
  <1>2. \A c \in Chan : Service(tx[c]) \in TxRecord /\ ChanOk(Service(tx[c]), now)
    <2> TAKE c \in Chan
    <2>1. now \in Nat /\ tx[c] \in TxRecord /\ ChanOk(tx[c], now)
      BY DEF TimersInv
    <2> QED
      BY <2>1, ServiceStep
  <1>3. tx' \in [Chan -> TxRecord] /\ \A c \in Chan : ChanOk(tx'[c], now')
    BY <1>1, <1>2
  <1>4. /\ now \in 1 .. MaxTime /\ acks \in 0 .. 2 /\ since \in 0 .. now
        /\ ta01 = (IF acks = 0 THEN Off ELSE since + TA01) /\ stray \in BOOLEAN
        /\ (acks > 0 => now <= since + TA01 + MaxLate)
    BY DEF TimersInv
  <1>5. /\ now' \in 1 .. MaxTime /\ acks' \in 0 .. 2 /\ imm' \in BOOLEAN /\ since' \in 0 .. now'
        /\ stray' \in BOOLEAN /\ ta01' = (IF acks' = 0 THEN Off ELSE since' + TA01)
        /\ (acks' > 0 => now' <= since' + TA01 + MaxLate) /\ ta01' \in Nat
    <2>1. CASE some
      <3>1. acks' = 0 /\ since' = Off /\ ta01' = Off
        BY <1>1, <1>4, <2>1
      <3>2. now' = now /\ stray' = stray /\ imm' = FALSE
        BY <1>1
      <3>3. now' \in 1 .. MaxTime /\ imm' \in BOOLEAN /\ stray' \in BOOLEAN
        BY ONLY <1>4, <3>2
      <3>4. since' \in 0 .. now' /\ ta01' \in Nat
        BY ONLY <1>4, <3>1, <3>2 DEF Off
      <3>5. /\ acks' \in 0 .. 2
            /\ ta01' = (IF acks' = 0 THEN Off ELSE since' + TA01)
            /\ (acks' > 0 => now' <= since' + TA01 + MaxLate)
        BY ONLY <3>1
      <3> QED
        BY ONLY <3>3, <3>4, <3>5
    <2>2. CASE ~ some
      <3>1. acks' = acks /\ since' = since /\ ta01' = ta01
        BY <1>1, <2>2
      <3>2. now' = now /\ stray' = stray /\ imm' = FALSE
        BY <1>1
      <3>3. TA01 \in Nat
        BY WindowFacts, TimersAssumption
      <3>4. ta01' \in Nat
        BY ONLY <1>4, <3>1, <3>3 DEF Off
      <3> QED
        BY ONLY <1>4, <3>1, <3>2, <3>4
    <2> QED BY <2>1, <2>2
  <1>6. /\ latest' \in Nat
        /\ Covered(ta01)' /\ (\A d \in Chan : Covered(tx[d].ta02))'
        /\ (Punctual => \A d \in Chan : tx[d].first # Tag => Covered(tx[d].tr03[tx[d].first]))'
    <2>1. FALSE \in BOOLEAN /\ now' \in Nat \ {0}
      BY <1>1, <1>4
    <2> QED
      BY <1>1, <1>3, <1>5, <2>1, Updated
  <1> QED
    BY <1>1, <1>3, <1>5, <1>6 DEF TimersInv

LEMMA TickKeeps ==
    ASSUME TimersInv, Tick
    PROVE  TimersInv'
  <1>1. /\ now < MaxTime /\ (latest # Off => now < latest + MaxLate) /\ now' = now + 1
        /\ tx' = tx /\ acks' = acks /\ ta01' = ta01 /\ imm' = imm /\ latest' = latest /\ since' = since
        /\ stray' = stray
    BY DEF Tick
  <1>2. /\ now \in 1 .. MaxTime /\ acks \in 0 .. 2 /\ since \in 0 .. now /\ latest \in Nat
        /\ ta01 = (IF acks = 0 THEN Off ELSE since + TA01) /\ Covered(ta01)
    BY DEF TimersInv
  <1>3. now' \in 1 .. MaxTime /\ since' \in 0 .. now'
    BY <1>1, <1>2, WindowFacts
  <1>4. acks' > 0 => now' <= since' + TA01 + MaxLate
    <2> SUFFICES ASSUME acks > 0 PROVE now + 1 <= since + TA01 + MaxLate
      BY <1>1
    <2>1. latest # Off /\ latest <= since + TA01
      BY <1>2, WindowFacts DEF Covered, Off
    <2> QED
      BY <1>1, <1>2, <2>1, WindowFacts
  <1>5. ASSUME NEW c \in Chan PROVE ChanOk(tx[c], now + 1)
    <2> DEFINE t == tx[c]
    <2>1. t \in TxRecord /\ Ring(t) /\ now \in Nat \ {0} /\ ChanOk(t, now)
      BY <1>2 DEF TimersInv, ChanOk
    <2>2. PICK w : Listed(t, w, now)
      BY <2>1 DEF ChanOk
    <2>3. ASSUME Punctual, NEW i \in 1 .. Len(w) PROVE t.tr03[w[i]] \in now + 1 .. now + 1 + Longest
      <3>1. /\ w[i] \in Slot /\ t.first # Tag /\ t.tr03[t.first] <= t.tr03[w[i]]
            /\ t.tr03[w[i]] \in now .. now + Longest
        BY <2>1, <2>2, <2>3, FirstIsLeast
      <3>2. t.first \in Slot
        BY <2>1, <2>2, <3>1, FirstIsLeast
      <3>3. t.tr03[t.first] \in Nat /\ t.tr03[w[i]] \in Nat
        BY <2>1, <3>1, <3>2, Fields
      <3>4. t.tr03[t.first] # Off
        BY <2>1, <2>3, <3>1, FirstIsTimed
      <3>5. latest # Off /\ latest <= t.tr03[t.first]
        BY <2>3, <3>1, <3>4 DEF TimersInv, Covered
      <3>6. now + 1 <= t.tr03[w[i]]
        BY <1>1, <1>2, <2>3, <3>1, <3>3, <3>5 DEF Punctual
      <3>7. Longest \in Nat
        BY Timeouts
      <3> QED
        BY <1>2, <3>1, <3>3, <3>6, <3>7
    <2>4. Listed(t, w, now + 1)
      BY <2>2, <2>3 DEF Listed, InTime
    <2> QED
      BY <2>1, <2>4 DEF ChanOk
  <1>6. \A c \in Chan : ChanOk(tx'[c], now')
    BY <1>1, <1>5
  <1> QED
    BY <1>1, <1>3, <1>4, <1>6 DEF TimersInv, Covered

LEMMA NextKeeps == TimersInv /\ [Next]_vars => TimersInv'
  <1> SUFFICES ASSUME TimersInv, [Next]_vars PROVE TimersInv'
    OBVIOUS
  <1>1. ASSUME NEW c \in Chan, sprt_tx(c) PROVE TimersInv'
    BY <1>1, SendKeeps
  <1>2. CASE RxData
    BY <1>2, DataKeeps
  <1>3. ASSUME NEW c \in Chan, NEW s \in Slot, RxAck(c, s) PROVE TimersInv'
    BY <1>3, AckKeeps
  <1>4. CASE NotBusy
    BY <1>4, NotBusyKeeps
  <1>5. ASSUME NEW c \in Chan, NEW timeout \in TR03s, sprt_set_tc_timeout(c, timeout) PROVE TimersInv'
    BY <1>5, SetTimeoutKeeps
  <1>6. CASE sprt_timer_expired
    BY <1>6, ExpiryKeeps
  <1>7. CASE Tick
    BY <1>7, TickKeeps
  <1>8. CASE UNCHANGED vars
    BY <1>8 DEF vars, TimersInv, Covered
  <1> QED
    BY <1>1, <1>2, <1>3, <1>4, <1>5, <1>6, <1>7, <1>8 DEF Next

\* Every reachable state satisfies the invariant.
THEOREM TimersInvariant == Spec => []TimersInv
  <1>1. Init => TimersInv
    BY InitStep
  <1>2. TimersInv /\ [Next]_vars => TimersInv'
    BY NextKeeps
  <1> QED
    BY <1>1, <1>2, PTL DEF Spec

\* The types of update_timer's users: slots, tags, timers and counts.
THEOREM TimersTypes == Spec => []TypeOK
  <1>1. TimersInv => TypeOK
    <2> SUFFICES ASSUME TimersInv PROVE TypeOK
      OBVIOUS
    <2>1. \A c \in Chan :
              LET t == tx[c]
              IN  /\ t.in \in Slot /\ t.out \in Slot /\ t.used \subseteq Slot
                  /\ t.tr03 \in [Slot -> Nat] /\ t.tries \in [Slot -> 0 .. MaxTries]
                  /\ t.prev \in [Slot -> Slot \cup {Tag}] /\ t.next \in [Slot -> Slot \cup {Tag}]
                  /\ t.first \in Slot \cup {Tag} /\ t.last \in Slot \cup {Tag}
                  /\ t.ta02 \in Nat /\ t.timeout \in TR03s
      <3> TAKE c \in Chan
      <3>1. tx[c] \in TxRecord
        BY DEF TimersInv
      <3> QED
        BY <3>1, Fields DEF Link
    <2>2. /\ now \in 1 .. MaxTime /\ acks \in 0 .. 2 /\ imm \in BOOLEAN /\ latest \in Nat
          /\ since \in 0 .. now /\ stray \in BOOLEAN
          /\ ta01 = (IF acks = 0 THEN Off ELSE since + TA01)
      BY DEF TimersInv
    <2>3. ta01 \in Nat
      BY ONLY <2>2, WindowFacts DEF Off
    <2> QED
      BY <2>1, <2>2, <2>3 DEF TypeOK
  <1> QED
    BY <1>1, TimersInvariant, PTL

-----------------------------------------------------------------------------
(* An application that is never late and keeps TR03 as it is.               *)

LEMMA WalkFacts ==
    ASSUME NEW n \in Nat, NEW t \in TxRecord, ChanOk(t, n)
    PROVE  Listed(t, Walk(t), n)
  <1>1. PICK w : Listed(t, w, n)
    BY DEF ChanOk
  <1>2. Walk(t) = w
    BY <1>1, WalkIsList DEF Listed
  <1> QED
    BY <1>1, <1>2

\* ToSet and DOMAIN of a list.
LEMMA WalkElements ==
    ASSUME NEW t, NEW w, IsList(t, w)
    PROVE  /\ DOMAIN w = 1 .. Len(w) /\ ToSet(w) = {s \in Slot : Holds(w, s)}
           /\ w = <<>> <=> Len(w) = 0
  <1>1. w \in Seq(Slot)
    BY DEF IsList
  <1>2. DOMAIN w = 1 .. Len(w) /\ \A i \in 1 .. Len(w) : w[i] \in Slot
    BY <1>1
  <1>3. w = <<>> <=> Len(w) = 0
    BY <1>1
  <1> QED
    BY <1>2, <1>3 DEF ToSet, Holds

\* The doubly linked list of a channel (add_timer_queue_last_entry,
\* delete_timer_queue_entry) is whole and in order at every moment: it holds
\* each unacknowledged message with a try left, once, and its first entry is
\* the one due first.
THEOREM ListAlwaysWhole ==
    ASSUME MaxLate = 0, NEW tr03, TR03s = {tr03}
    PROVE  Spec => []ListOfUnacked
  <1>0. Punctual
    BY Timeouts DEF Punctual
  <1>1. TimersInv => ListOfUnacked
    <2> SUFFICES ASSUME TimersInv, NEW c \in Chan
                 PROVE  LET t == tx[c]
                            w == Walk(t)
                        IN  /\ ToSet(w) = {s \in t.used : t.tries[s] > 0}
                            /\ IsInjective(w)
                            /\ \A i \in DOMAIN w : t.prev[w[i]] = IF i = 1 THEN Tag ELSE w[i - 1]
                            /\ t.last = IF w = <<>> THEN Tag ELSE w[Len(w)]
                            /\ \A i, j \in DOMAIN w : i < j => t.tr03[w[i]] <= t.tr03[w[j]]
      BY DEF ListOfUnacked
    <2> DEFINE t == tx[c]
               w == Walk(t)
    <2>1. t \in TxRecord /\ Listed(t, w, now)
      <3>1. now \in Nat /\ t \in TxRecord /\ ChanOk(t, now)
        BY DEF TimersInv
      <3> QED
        BY <3>1, WalkFacts
    <2> HIDE DEF w, t
    <2>2. /\ DOMAIN w = 1 .. Len(w) /\ ToSet(w) = {s \in Slot : Holds(w, s)}
          /\ w = <<>> <=> Len(w) = 0
      BY <2>1, WalkElements DEF Listed
    <2>3. ToSet(w) = {s \in t.used : t.tries[s] > 0}
      <3>1. t.used \subseteq Slot
        BY <2>1, Fields, SMTT(60)
      <3> QED
        BY <2>1, <2>2, <3>1 DEF Listed, Waits
    <2>4. IsInjective(w)
      BY <2>1, <2>2 DEF Listed, IsList, IsInjective
    <2>5. /\ \A i \in DOMAIN w : t.prev[w[i]] = IF i = 1 THEN Tag ELSE w[i - 1]
          /\ t.last = IF w = <<>> THEN Tag ELSE w[Len(w)]
      BY <2>1, <2>2 DEF Listed, IsList
    <2>6. \A i, j \in DOMAIN w : i < j => t.tr03[w[i]] <= t.tr03[w[j]]
      BY <1>0, <2>1, <2>2 DEF Listed, InTime
    <2> QED
      BY <2>3, <2>4, <2>5, <2>6 DEF w, t
  <1> QED
    BY <1>1, TimersInvariant, PTL

\* No timer that runs is later than the one callback the application was asked
\* for (update_timer): none is forgotten, on any path that starts or stops one.
THEOREM CallbackAlwaysCovers ==
    ASSUME MaxLate = 0, NEW tr03, TR03s = {tr03}
    PROVE  Spec => []CallbackCoversTimers
  <1>0. Punctual
    BY Timeouts DEF Punctual
  <1>1. TimersInv => CallbackCoversTimers
    <2> SUFFICES ASSUME TimersInv PROVE CallbackCoversTimers
      OBVIOUS
    <2>1. ASSUME NEW x \in Running PROVE latest # Off /\ latest <= x
      <3>1. CASE x = ta01
        BY <2>1, <3>1 DEF Running, TimersInv, Covered
      <3>2. ASSUME NEW c \in Chan, x = tx[c].ta02 PROVE latest # Off /\ latest <= x
        BY <2>1, <3>2 DEF Running, TimersInv, Covered
      <3>3. ASSUME NEW c \in Chan, NEW s \in ToSet(Walk(tx[c])), x = tx[c].tr03[s]
            PROVE  latest # Off /\ latest <= x
        <4> DEFINE t == tx[c]
                   w == Walk(t)
        <4>1. t \in TxRecord /\ Listed(t, w, now) /\ now \in Nat \ {0} /\ ChanOk(t, now)
          <5>1. now \in Nat \ {0} /\ t \in TxRecord /\ ChanOk(t, now)
            BY DEF TimersInv
          <5> QED
            BY <5>1, WalkFacts
        <4> HIDE DEF w
        <4>2. PICK i \in 1 .. Len(w) : w[i] = s
          <5>1. ToSet(w) = {r \in Slot : Holds(w, r)} /\ s \in ToSet(w)
            BY <3>3, <4>1, WalkElements DEF Listed, w
          <5> QED BY <5>1 DEF Holds
        <4>3. t.first # Tag /\ s \in Slot /\ t.tr03[t.first] <= t.tr03[s]
          BY <1>0, <4>1, <4>2, FirstIsLeast
        <4>4. t.first \in Slot
          BY <4>1, <4>3, FirstIsLeast
        <4>5. t.tr03[t.first] \in Nat /\ t.tr03[s] \in Nat /\ latest \in Nat
          BY <4>1, <4>3, <4>4, Fields DEF TimersInv
        <4>6. t.tr03[t.first] # Off
          BY <1>0, <4>1, <4>3, FirstIsTimed
        <4>7. latest # Off /\ latest <= t.tr03[t.first]
          BY <1>0, <4>3, <4>6 DEF TimersInv, Covered
        <4> QED
          BY <3>3, <4>3, <4>5, <4>7
      <3> QED
        BY <2>1, <3>1, <3>2, <3>3 DEF Running
    <2>2. imm => latest = 1
      BY DEF TimersInv
    <2> QED
      BY <2>1, <2>2 DEF CallbackCoversTimers
  <1> QED
    BY <1>1, TimersInvariant, PTL

\* No message waits longer than TR03 for its next copy, and no acknowledgement
\* longer than TA01 (sprt_timer_expired, queue_acknowledgement).
THEOREM NeverLate ==
    ASSUME MaxLate = 0, NEW tr03, TR03s = {tr03}
    PROVE  Spec => []OnTime
  <1>0. Punctual
    BY Timeouts DEF Punctual
  <1>1. TimersInv => OnTime
    <2> SUFFICES ASSUME TimersInv PROVE OnTime
      OBVIOUS
    <2>1. ASSUME NEW c \in Chan, NEW s \in ToSet(Walk(tx[c])) PROVE now <= tx[c].tr03[s] + MaxLate
      <3> DEFINE t == tx[c]
                 w == Walk(t)
      <3>1. t \in TxRecord /\ Listed(t, w, now) /\ now \in Nat
        <4>1. now \in Nat /\ t \in TxRecord /\ ChanOk(t, now)
          BY DEF TimersInv
        <4> QED
          BY <4>1, WalkFacts
      <3> HIDE DEF w
      <3>2. PICK i \in 1 .. Len(w) : w[i] = s
        <4>1. ToSet(w) = {r \in Slot : Holds(w, r)} /\ s \in ToSet(w)
          BY <2>1, <3>1, WalkElements DEF Listed, w
        <4> QED BY <4>1 DEF Holds
      <3>3. t.tr03[s] \in now .. now + Longest
        BY <1>0, <3>1, <3>2, FirstIsLeast
      <3>4. Longest \in Nat /\ MaxLate = 0
        BY Timeouts DEF Punctual
      <3> HIDE DEF t
      <3> QED
        BY <3>1, <3>3, <3>4 DEF t
    <2>2. acks > 0 => now <= since + TA01 + MaxLate
      BY DEF TimersInv
    <2> QED
      BY <2>1, <2>2 DEF OnTime
  <1> QED
    BY <1>1, TimersInvariant, PTL
=============================================================================

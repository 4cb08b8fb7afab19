----------------------------- MODULE SprtProofs -----------------------------
(***************************************************************************)
(* Proofs about Sprt, for every window, sequence number space, number of   *)
(* channels and bound: the sending and the receiving window keep their     *)
(* messages in their places, and a channel is reliable.                    *)
(***************************************************************************)
EXTENDS Sprt, CommonLemmas, SequenceTheorems

-----------------------------------------------------------------------------
(* Among: a selection from a list of timers.                                *)

\* What the function in Among is to be, as far as place n.
IsKept(g, list, s, n) ==
    g = [i \in 0 .. n |->
            IF i = 0 THEN <<>>
            ELSE IF list[i] \in s THEN Append(g[i - 1], list[i]) ELSE g[i - 1]]

\* There is such a function, for every n.
LEMMA KeptExists ==
    ASSUME NEW list, NEW s, NEW n \in Nat
    PROVE  \E g : IsKept(g, list, s, n)
  <1> DEFINE Bad == {k \in Nat : ~ \E g : IsKept(g, list, s, k)}
  <1>1. SUFFICES Bad = {}
    OBVIOUS
  <1>2. SUFFICES ASSUME Bad # {} PROVE FALSE
    OBVIOUS
  <1>3. PICK m \in Bad : \A k \in Bad : m <= k
    <2>1. Bad \in SUBSET Nat
      OBVIOUS
    <2> HIDE DEF Bad
    <2>2. QED
      BY <1>2, <2>1, LeastNumber
  <1>4. CASE m = 0
    <2> DEFINE g == [i \in 0 .. 0 |-> <<>>]
    <2>1. IsKept(g, list, s, 0)
      BY DEF IsKept
    <2>2. QED
      BY <1>3, <1>4, <2>1
  <1>5. CASE m # 0
    <2>1. m - 1 \in Nat /\ m - 1 \notin Bad /\ m \in Nat
      BY <1>3, <1>5
    <2>2. PICK g : IsKept(g, list, s, m - 1)
      BY <2>1
    <2> DEFINE last == IF list[m] \in s THEN Append(g[m - 1], list[m]) ELSE g[m - 1]
               h    == [i \in 0 .. m |-> IF i = m THEN last ELSE g[i]]
    <2>3. \A i \in 0 .. m - 1 : h[i] = g[i]
      BY <2>1
    <2>4. ASSUME NEW i \in 0 .. m
          PROVE  h[i] = IF i = 0 THEN <<>>
                        ELSE IF list[i] \in s THEN Append(h[i - 1], list[i]) ELSE h[i - 1]
      <3>1. CASE i = m
        <4>1. h[i] = last /\ h[i - 1] = g[m - 1]
          BY <2>1, <2>3, <3>1
        <4>2. QED
          BY <1>5, <3>1, <4>1
      <3>2. CASE i # m
        <4>1. i \in 0 .. m - 1
          BY <2>1, <3>2
        <4>2. g[i] = IF i = 0 THEN <<>>
                     ELSE IF list[i] \in s THEN Append(g[i - 1], list[i]) ELSE g[i - 1]
          BY <2>2, <4>1 DEF IsKept
        <4>3. h[i] = g[i] /\ (i # 0 => h[i - 1] = g[i - 1])
          BY <2>1, <2>3, <4>1
        <4>4. QED
          BY <4>2, <4>3
      <3>3. QED
        BY <3>1, <3>2
    <2>5. IsKept(h, list, s, m)
      <3>1. h = [i \in 0 .. m |-> h[i]]
        OBVIOUS
      <3> HIDE DEF h
      <3>2. QED
        BY <2>4, <3>1 DEF IsKept
    <2>6. QED
      BY <1>3, <2>5
  <1>6. QED
    BY <1>4, <1>5

\* Among keeps exactly what is in the set, and makes no duplicates.
LEMMA AmongFacts ==
    ASSUME NEW S, NEW list \in Seq(S), NEW s
    PROVE  /\ Among(list, s) \in Seq(S)
           /\ \A j \in 1 .. Len(Among(list, s)) :
                 \E i \in 1 .. Len(list) : Among(list, s)[j] = list[i] /\ list[i] \in s
           /\ (\A i, j \in 1 .. Len(list) : list[i] = list[j] => i = j) =>
                 \A i, j \in 1 .. Len(Among(list, s)) : Among(list, s)[i] = Among(list, s)[j] => i = j
  <1> DEFINE n == Len(list)
             kept == CHOOSE g : IsKept(g, list, s, n)
  <1>1. n \in Nat /\ IsKept(kept, list, s, n)
    <2>1. n \in Nat
      OBVIOUS
    <2> HIDE DEF n
    <2>2. \E g : IsKept(g, list, s, n)
      BY <2>1, KeptExists
    <2>3. QED
      BY <2>1, <2>2
  <1>2. Among(list, s) = kept[n]
    BY DEF Among, IsKept
  <1> HIDE DEF kept
  <1>3. kept[0] = <<>>
    BY <1>1 DEF IsKept
  <1>4. \A i \in 1 .. n : kept[i] = IF list[i] \in s THEN Append(kept[i - 1], list[i]) ELSE kept[i - 1]
    <2> HIDE DEF n
    <2>1. \A i \in 0 .. n : kept[i] = IF i = 0 THEN <<>>
             ELSE IF list[i] \in s THEN Append(kept[i - 1], list[i]) ELSE kept[i - 1]
      BY <1>1 DEF IsKept
    <2>2. \A i \in 1 .. n : i \in 0 .. n /\ i # 0
      BY <1>1
    <2>3. QED
      BY <2>1, <2>2
  <1> DEFINE From(q, k) == \A j \in 1 .. Len(q) : \E i \in 1 .. k : q[j] = list[i] /\ list[i] \in s
             Once(q) == \A i, j \in 1 .. Len(q) : q[i] = q[j] => i = j
             Good(k) == kept[k] \in Seq(S) /\ From(kept[k], k) /\ (Once(list) => Once(kept[k]))
             Bad == {k \in 0 .. n : ~ Good(k)}
  <1>5. Good(0)
    BY <1>3
  <1>6. ASSUME NEW k \in 1 .. n, Good(k - 1)
        PROVE  Good(k)
    <2>1. CASE list[k] \in s
      <3> DEFINE q == kept[k - 1]
      <3>1. kept[k] = Append(q, list[k]) /\ list[k] \in S /\ q \in Seq(S)
        <4>1. kept[k] = Append(q, list[k])
          BY <1>4, <2>1
        <4>2. list[k] \in S
          OBVIOUS
        <4>3. QED
          BY <1>6, <4>1, <4>2
      <3> HIDE DEF q
      <3>2. /\ Append(q, list[k]) \in Seq(S)
            /\ Len(Append(q, list[k])) = Len(q) + 1
            /\ Append(q, list[k])[Len(q) + 1] = list[k]
            /\ \A j \in 1 .. Len(q) : Append(q, list[k])[j] = q[j]
            /\ Len(q) \in Nat
        BY <3>1
      <3>3. From(q, k - 1) /\ (Once(list) => Once(q))
        BY <1>6 DEF q
      <3>4. From(kept[k], k)
        <4> TAKE j \in 1 .. Len(kept[k])
        <4>1. CASE j = Len(q) + 1
          BY <2>1, <3>1, <3>2, <4>1
        <4>2. CASE j # Len(q) + 1
          <5>1. j \in 1 .. Len(q) /\ kept[k][j] = q[j]
            BY <3>1, <3>2, <4>2
          <5>2. PICK i \in 1 .. k - 1 : q[j] = list[i] /\ list[i] \in s
            BY <3>3, <5>1
          <5>3. i \in 1 .. k
            OBVIOUS
          <5>4. QED
            BY <5>1, <5>2, <5>3
        <4>3. QED
          BY <4>1, <4>2
      <3>5. ASSUME Once(list) PROVE Once(kept[k])
        <4>1. \A j \in 1 .. Len(q) : q[j] # list[k]
          <5> TAKE j \in 1 .. Len(q)
          <5>1. PICK i \in 1 .. k - 1 : q[j] = list[i]
            BY <3>3
          <5>2. i \in 1 .. Len(list) /\ k \in 1 .. Len(list) /\ i # k
            BY <1>1
          <5>3. QED
            BY <3>5, <5>1, <5>2
        <4>2. Once(q)
          BY <3>3, <3>5
        <4>3. ASSUME NEW i \in 1 .. Len(q) + 1, NEW j \in 1 .. Len(q) + 1,
                     kept[k][i] = kept[k][j]
              PROVE  i = j
          <5>1. CASE i \in 1 .. Len(q) /\ j \in 1 .. Len(q)
            BY <3>1, <3>2, <4>2, <4>3, <5>1
          <5>2. CASE i = Len(q) + 1 /\ j \in 1 .. Len(q)
            BY <3>1, <3>2, <4>1, <4>3, <5>2
          <5>3. CASE j = Len(q) + 1 /\ i \in 1 .. Len(q)
            BY <3>1, <3>2, <4>1, <4>3, <5>3
          <5>4. QED
            BY <3>2, <5>1, <5>2, <5>3
        <4>4. QED
          BY <3>1, <3>2, <4>3
      <3>6. QED
        BY <3>1, <3>2, <3>4, <3>5
    <2>2. CASE list[k] \notin s
      <3>1. kept[k] = kept[k - 1]
        BY <1>4, <2>2
      <3>2. From(kept[k], k)
        <4> TAKE j \in 1 .. Len(kept[k])
        <4>1. PICK i \in 1 .. k - 1 : kept[k][j] = list[i] /\ list[i] \in s
          BY <1>6, <3>1
        <4>2. i \in 1 .. k
          OBVIOUS
        <4>3. QED
          BY <4>1, <4>2
      <3>3. QED
        BY <1>6, <3>1, <3>2
    <2>3. QED
      BY <2>1, <2>2
  <1> HIDE DEF Good
  <1>7. Bad = {}
    <2>1. SUFFICES ASSUME Bad # {} PROVE FALSE
      OBVIOUS
    <2>2. Bad \in SUBSET Nat
      OBVIOUS
    <2>3. PICK m \in Bad : \A k \in Bad : m <= k
      <3> HIDE DEF Bad
      <3>1. QED
        BY <2>1, <2>2, LeastNumber
    <2>4. m \in 1 .. n /\ Good(m - 1)
      <3>1. m \in 0 .. n /\ m # 0
        BY <1>5
      <3>2. m - 1 \in 0 .. n /\ ~ (m <= m - 1)
        BY <1>1, <3>1
      <3>3. QED
        BY <2>3, <3>1, <3>2
    <2>5. QED
      BY <1>6, <2>4
  <1>8. Good(n)
    BY <1>1, <1>7
  <1>9. QED
    BY <1>2, <1>8 DEF Good

-----------------------------------------------------------------------------
(* Places and numbers.  Message m belongs in slot SlotOf(m) of a window.    *)

SlotOf(m) == Wrap(m - 1)

\* What the proofs need of the constants.
LEMMA WindowFacts == Window \in Nat \ {0} /\ SeqSpace \in Nat \ {0} /\ First \in Int
  BY SprtAssumption

\* A wrapped number is a slot; a slot is its own wrapping.
LEMMA WrapIsSlot ==
    /\ \A x \in Int : Wrap(x) \in Slot
    /\ \A s \in Slot : Wrap(s) = s
    /\ \A x \in Int : Wrap(x + Window) = Wrap(x)
    /\ \A x, y \in Int : Wrap(Wrap(x) + y) = Wrap(x + y)
  <1>1. \A x \in Int : Wrap(x) \in Slot
    BY WindowFacts, DivMod DEF Wrap, Slot
  <1>2. \A s \in Slot : Wrap(s) = s
    BY WindowFacts, ModSmall DEF Wrap, Slot
  <1>3. \A x \in Int : Wrap(x + Window) = Wrap(x)
    BY WindowFacts, ModPlus DEF Wrap
  <1>4. \A x, y \in Int : Wrap(Wrap(x) + y) = Wrap(x + y)
    BY WindowFacts, ModAdd DEF Wrap
  <1>5. QED
    BY <1>1, <1>2, <1>3, <1>4

\* Numbers less than a window apart have slots of their own.
LEMMA WrapInjective ==
    ASSUME NEW x \in Int, NEW y \in Int, Wrap(x) = Wrap(y), x - y < Window, y - x < Window
    PROVE  x = y
  <1>1. CASE x <= y
    BY <1>1, WindowFacts, ModInjective DEF Wrap
  <1>2. CASE y <= x
    BY <1>2, WindowFacts, ModInjective DEF Wrap
  <1>3. QED
    BY <1>1, <1>2

\* The same for the messages that belong in them.
LEMMA SlotInjective ==
    ASSUME NEW k \in Int, NEW m \in Int, SlotOf(k) = SlotOf(m), k - m < Window, m - k < Window
    PROVE  k = m
  <1>1. k - 1 \in Int /\ m - 1 \in Int /\ (k - 1) - (m - 1) = k - m /\ (m - 1) - (k - 1) = m - k
    OBVIOUS
  <1>2. k - 1 = m - 1
    BY <1>1, WrapInjective DEF SlotOf
  <1>3. QED
    BY <1>2

\* Numbers go on by one, around the sequence number space, and the difference
\* of two numbers is that of the messages.
LEMMA NumberFacts ==
    ASSUME NEW m \in Int
    PROVE  /\ NumberOf(m) \in 0 .. SeqSpace - 1
           /\ \A k \in Int : (NumberOf(m) + k) % SeqSpace = NumberOf(m + k)
           /\ \A k \in Int : (NumberOf(m) - NumberOf(k)) % SeqSpace = (m - k) % SeqSpace
  <1> DEFINE x == First + m - 1
  <1>1. x \in Int /\ NumberOf(m) = x % SeqSpace
    BY WindowFacts DEF NumberOf
  <1>2. NumberOf(m) \in 0 .. SeqSpace - 1
    <2> HIDE DEF x
    <2>1. QED
      BY <1>1, WindowFacts, DivMod
  <1>3. ASSUME NEW k \in Int
        PROVE  (NumberOf(m) + k) % SeqSpace = NumberOf(m + k)
    <2>1. x + k = First + (m + k) - 1
      BY WindowFacts
    <2> HIDE DEF x
    <2>2. ((x % SeqSpace) + k) % SeqSpace = (x + k) % SeqSpace
      BY <1>1, WindowFacts, ModAdd
    <2>3. QED
      BY <1>1, <2>1, <2>2 DEF NumberOf
  <1>4. ASSUME NEW k \in Int
        PROVE  (NumberOf(m) - NumberOf(k)) % SeqSpace = (m - k) % SeqSpace
    <2> DEFINE y == First + k - 1
    <2>1. y \in Int /\ NumberOf(k) = y % SeqSpace /\ x - y = m - k
      BY WindowFacts DEF NumberOf
    <2> HIDE DEF x, y
    <2>2. NumberOf(k) \in Int /\ -NumberOf(k) \in Int
      BY <2>1, WindowFacts, DivMod
    <2>3. ((x % SeqSpace) + (-NumberOf(k))) % SeqSpace = (x + (-NumberOf(k))) % SeqSpace
      BY <1>1, <2>2, WindowFacts, ModAdd
    <2>4. (x - (y % SeqSpace)) % SeqSpace = (x - y) % SeqSpace
      BY <1>1, <2>1, WindowFacts, ModSub
    <2>5. x + (-NumberOf(k)) = x - NumberOf(k) /\ NumberOf(m) + (-NumberOf(k)) = NumberOf(m) - NumberOf(k)
      BY <1>1, <1>2, <2>2
    <2>6. QED
      BY <1>1, <2>1, <2>3, <2>4, <2>5
  <1>5. QED
    BY <1>2, <1>3, <1>4

-----------------------------------------------------------------------------
(* The windows.  n is the number of messages sent, g of those handed over.  *)

TxRecord == [q : Nat, in : Slot, out : Slot, buf : [Slot -> Nat], tries : [Slot -> Nat],
             timers : Seq(Slot)]
RxRecord == [base : Nat, in : Slot, buf : [Slot -> Nat], busy : BOOLEAN]

\* What a buffer holds are messages from lo to hi, each in its slot.
InPlace(buf, lo, hi) ==
    \A s \in Slot : buf[s] # Free => buf[s] \in lo .. hi /\ s = SlotOf(buf[s])

\* Up to h all are acknowledged, and buff_acked_out_ptr is behind h.
AckedTo(t, n, h) ==
    /\ h \in 0 .. n /\ n - h < Window
    /\ t.out = Wrap(h)
    /\ InPlace(t.buf, h + 1, n)

\* A slot that has a timer running holds a message with tries left, and has
\* only one.
TimersInv(t) ==
    /\ \A i \in 1 .. Len(t.timers) : t.buf[t.timers[i]] # Free /\ t.tries[t.timers[i]] > 0
    /\ \A i, j \in 1 .. Len(t.timers) : t.timers[i] = t.timers[j] => i = j
    /\ \A s \in Slot : t.tries[s] <= MaxTries

TxInv(t, n) ==
    /\ t \in TxRecord
    /\ t.q = NumberOf(n + 1) /\ t.in = Wrap(n)
    /\ TimersInv(t)
    /\ \E h \in Nat : AckedTo(t, n, h)

RxInv(r, g, n) ==
    /\ r \in RxRecord
    /\ g \in 0 .. n
    /\ r.base = NumberOf(g + 1) /\ r.in = Wrap(g)
    /\ InPlace(r.buf, g + 1, n) /\ InPlace(r.buf, g + 1, g + Window)

\* Message m has been handed over, or waits for its turn.
Delivered(r, g, m) == m <= g \/ r.buf[SlotOf(m)] = m

-----------------------------------------------------------------------------
(* What a call does to the sending window.                                  *)

\* The channel as sprt_tx leaves it.
Sending(t, m) ==
    [q      |-> (t.q + 1) % SeqSpace,
     in     |-> Wrap(t.in + 1),
     out    |-> t.out,
     buf    |-> [t.buf EXCEPT ![t.in] = m],
     tries  |-> [t.tries EXCEPT ![t.in] = MaxTries],
     timers |-> Append(t.timers, t.in)]

\* There is room as long as fewer than Window - 1 messages lie behind the
\* oldest that is not acknowledged.
LEMMA RoomIsDistance ==
    ASSUME NEW t, NEW n \in Nat, NEW h \in Nat, t.in = Wrap(n), AckedTo(t, n, h), Room(t) >= 1
    PROVE  n - h < Window - 1
  <1> DEFINE d == n - h
  <1>1. d \in 0 .. Window - 1 /\ h + d = n /\ t.out = Wrap(h) /\ Window \in Nat
    BY WindowFacts DEF AckedTo
  <1>2. t.out \in 0 .. Window - 1 /\ t.in = Wrap(t.out + d) /\ t.in \in 0 .. Window - 1
    BY <1>1, WrapIsSlot DEF Slot
  <1> HIDE DEF d
  <1>3. CASE t.out + d < Window
    <2>1. t.out + d \in Slot
      BY <1>1, <1>2, <1>3 DEF Slot
    <2>2. t.in = t.out + d
      BY <1>2, <2>1, WrapIsSlot
    <2>3. QED
      BY <1>1, <1>2, <2>2 DEF Room, d
  <1>4. CASE t.out + d >= Window
    <2>1. t.out + d - Window \in Slot /\ t.out + d - Window \in Int
      BY <1>1, <1>2, <1>4 DEF Slot
    <2>2. t.in = t.out + d - Window
      BY <1>1, <1>2, <2>1, WrapIsSlot
    <2>3. QED
      BY <1>1, <1>2, <2>2 DEF Room, d
  <1>5. QED
    BY <1>1, <1>2, <1>3, <1>4

\* sprt_tx keeps the window in order; the new message has the next number and
\* overwrites none.
LEMMA SendingStep ==
    ASSUME NEW t, NEW n \in Nat, TxInv(t, n), Room(t) >= 1
    PROVE  /\ TxInv(Sending(t, n + 1), n + 1)
           /\ Sending(t, n + 1).buf[SlotOf(n + 1)] = n + 1
           /\ \A m \in 1 .. n : t.buf[SlotOf(m)] = m => Sending(t, n + 1).buf[SlotOf(m)] = m
  <1> DEFINE u == Sending(t, n + 1)
  <1>1. PICK h \in Nat : AckedTo(t, n, h)
    BY DEF TxInv
  <1>2. n - h < Window - 1 /\ h <= n
    BY <1>1, RoomIsDistance DEF TxInv, AckedTo
  <1>3. t \in TxRecord /\ t.in \in Slot /\ t.in = Wrap(n) /\ t.in = SlotOf(n + 1) /\ MaxTries \in Nat \ {0}
    <2>1. n + 1 - 1 = n
      OBVIOUS
    <2>2. QED
      BY <2>1, SprtAssumption, SMTT(60) DEF TxInv, TxRecord, SlotOf
  <1>4. t.buf[t.in] = Free
    <2>1. SUFFICES ASSUME t.buf[t.in] # Free PROVE FALSE
      OBVIOUS
    <2>2. t.buf[t.in] \in h + 1 .. n /\ t.in = SlotOf(t.buf[t.in])
      BY <1>1, <1>3, <2>1 DEF AckedTo, InPlace
    <2>3. t.buf[t.in] = n + 1
      BY <1>2, <1>3, <2>2, SlotInjective, WindowFacts
    <2>4. QED
      BY <2>2, <2>3
  <1>5. u.q = NumberOf(n + 1 + 1) /\ u.in = Wrap(n + 1)
    <2>1. t.q = NumberOf(n + 1)
      BY DEF TxInv
    <2>2. (NumberOf(n + 1) + 1) % SeqSpace = NumberOf(n + 1 + 1)
      BY NumberFacts
    <2>3. Wrap(Wrap(n) + 1) = Wrap(n + 1)
      BY WrapIsSlot
    <2>4. QED
      BY <1>3, <2>1, <2>2, <2>3 DEF Sending
  <1>6. /\ \A s \in Slot : u.buf[s] = IF s = t.in THEN n + 1 ELSE t.buf[s]
        /\ \A s \in Slot : u.tries[s] = IF s = t.in THEN MaxTries ELSE t.tries[s]
        /\ u.out = t.out /\ u.timers = Append(t.timers, t.in)
    BY <1>3 DEF Sending, TxRecord
  <1>7. u \in TxRecord
    <2> HIDE DEF u
    <2>1. u.q \in Nat
      <3>1. n + 1 + 1 \in Int /\ u.q = NumberOf(n + 1 + 1)
        BY <1>5
      <3>2. u.q \in 0 .. SeqSpace - 1
        BY <3>1, NumberFacts
      <3>3. QED
        BY <3>2
    <2>2. u.in \in Slot
      BY <1>5, WrapIsSlot
    <2> USE DEF u
    <2>3. QED
      BY <1>3, <2>1, <2>2 DEF Sending, TxRecord
  <1>8. TimersInv(u)
    <2>1. TimersInv(t) /\ t.timers \in Seq(Slot)
      BY <1>3 DEF TxInv, TxRecord
    <2>2. \A i \in 1 .. Len(t.timers) : t.timers[i] \in Slot /\ t.timers[i] # t.in
      BY <1>4, <2>1 DEF TimersInv
    <2>3. /\ Len(u.timers) = Len(t.timers) + 1 /\ Len(t.timers) \in Nat
          /\ \A i \in 1 .. Len(u.timers) :
                u.timers[i] = IF i = Len(t.timers) + 1 THEN t.in ELSE t.timers[i]
      BY <1>3, <1>6, <2>1, SMTT(60)
    <2>4. \A i \in 1 .. Len(u.timers) : u.buf[u.timers[i]] # Free /\ u.tries[u.timers[i]] > 0
      <3> TAKE i \in 1 .. Len(u.timers)
      <3>1. CASE i = Len(t.timers) + 1
        <4>1. u.timers[i] = t.in
          BY <2>3, <3>1
        <4>2. u.buf[t.in] = n + 1 /\ u.tries[t.in] = MaxTries
          BY <1>3, <1>6
        <4>3. QED
          BY <1>3, <4>1, <4>2 DEF Free
      <3>2. CASE i # Len(t.timers) + 1
        <4>1. i \in 1 .. Len(t.timers) /\ u.timers[i] = t.timers[i]
          BY <2>3, <3>2
        <4>2. u.buf[t.timers[i]] = t.buf[t.timers[i]] /\ u.tries[t.timers[i]] = t.tries[t.timers[i]]
          BY <1>6, <2>2, <4>1
        <4>3. QED
          BY <2>1, <4>1, <4>2 DEF TimersInv
      <3>3. QED
        BY <3>1, <3>2
    <2>5. \A i, j \in 1 .. Len(u.timers) : u.timers[i] = u.timers[j] => i = j
      <3> DEFINE k == Len(t.timers) + 1
      <3> SUFFICES ASSUME NEW i \in 1 .. Len(u.timers), NEW j \in 1 .. Len(u.timers),
                          u.timers[i] = u.timers[j]
                   PROVE  i = j
        OBVIOUS
      <3>1. CASE i # k /\ j # k
        BY <2>1, <2>3, <3>1, SMTT(60) DEF TimersInv
      <3>2. CASE i = k /\ j # k
        BY <2>2, <2>3, <3>2
      <3>3. CASE i # k /\ j = k
        BY <2>2, <2>3, <3>3
      <3>4. QED
        BY <3>1, <3>2, <3>3
    <2>6. \A s \in Slot : u.tries[s] <= MaxTries
      BY <1>3, <1>6, <2>1 DEF TimersInv
    <2>7. QED
      BY <2>4, <2>5, <2>6 DEF TimersInv
  <1>9. AckedTo(u, n + 1, h)
    <2>1. InPlace(u.buf, h + 1, n + 1)
      <3>1. InPlace(t.buf, h + 1, n)
        BY <1>1 DEF AckedTo
      <3>2. QED
        BY <1>2, <1>3, <1>6, <3>1 DEF InPlace
    <2>2. h \in 0 .. n + 1 /\ n + 1 - h < Window /\ u.out = Wrap(h)
      BY <1>1, <1>2, <1>6, WindowFacts DEF AckedTo
    <2>3. QED
      BY <2>1, <2>2 DEF AckedTo
  <1>10. u.buf[SlotOf(n + 1)] = n + 1
    BY <1>3, <1>6
  <1>11. ASSUME NEW m \in 1 .. n, t.buf[SlotOf(m)] = m
         PROVE  u.buf[SlotOf(m)] = m
    <2>1. SlotOf(m) \in Slot
      BY WrapIsSlot DEF SlotOf
    <2>2. SlotOf(m) # t.in
      BY <1>4, <1>11 DEF Free
    <2>3. QED
      BY <1>6, <1>11, <2>1, <2>2
  <1>12. QED
    <2> HIDE DEF u
    <2>1. TxInv(u, n + 1)
      BY <1>5, <1>7, <1>8, <1>9 DEF TxInv
    <2>2. QED
      BY <1>10, <1>11, <2>1 DEF u

\* Removing the timer of a slot whose message is done with.
Freed(t, slot) == [t EXCEPT !.buf[slot] = Free, !.timers = Among(@, Slot \ {slot})]

\* That empties the slot and leaves the other timers in their order.
LEMMA FreedStep ==
    ASSUME NEW t \in TxRecord, TimersInv(t), NEW slot \in Slot
    PROVE  LET u == Freed(t, slot)
           IN  /\ u \in TxRecord /\ TimersInv(u)
               /\ u.q = t.q /\ u.in = t.in /\ u.out = t.out
               /\ \A s \in Slot : u.buf[s] = IF s = slot THEN Free ELSE t.buf[s]
  <1> DEFINE u == Freed(t, slot)
             list == t.timers
             rest == Among(list, Slot \ {slot})
  <1>1. /\ u.q = t.q /\ u.in = t.in /\ u.out = t.out /\ u.tries = t.tries
        /\ \A s \in Slot : u.buf[s] = IF s = slot THEN Free ELSE t.buf[s]
        /\ u.timers = rest
    BY DEF Freed, TxRecord
  <1>2. list \in Seq(Slot) /\ \A i, j \in 1 .. Len(list) : list[i] = list[j] => i = j
    BY DEF TxRecord, TimersInv
  <1>3. /\ rest \in Seq(Slot)
        /\ \A j \in 1 .. Len(rest) : \E i \in 1 .. Len(list) : rest[j] = list[i] /\ list[i] \in Slot \ {slot}
        /\ \A i, j \in 1 .. Len(rest) : rest[i] = rest[j] => i = j
    <2> HIDE DEF list, rest
    <2>1. QED
      BY <1>2, AmongFacts DEF rest
  <1>4. u \in TxRecord
    BY <1>3 DEF Freed, TxRecord, Free
  <1> HIDE DEF u, rest
  <1>5. ASSUME NEW j \in 1 .. Len(rest)
        PROVE  u.buf[rest[j]] # Free /\ u.tries[rest[j]] > 0
    <2>1. PICK i \in 1 .. Len(list) : rest[j] = list[i] /\ list[i] \in Slot \ {slot}
      BY <1>3
    <2>2. t.buf[list[i]] # Free /\ t.tries[list[i]] > 0
      BY DEF TimersInv
    <2>3. QED
      BY <1>1, <2>1, <2>2
  <1>6. TimersInv(u)
    BY <1>1, <1>3, <1>5 DEF TimersInv
  <1>7. QED
    BY <1>1, <1>4, <1>6 DEF u

\* When the oldest message is acknowledged, the pointer goes to the next that is
\* not: none in between is lost sight of.
LEMMA NextUnackedStep ==
    ASSUME NEW t \in TxRecord, NEW n \in Nat, NEW h \in Nat,
           t.in = Wrap(n), AckedTo(t, n, h), h < n, t.buf[t.out] = Free
    PROVE  /\ NextUnacked(t) \in Slot
           /\ \E k \in Nat : AckedTo([t EXCEPT !.out = NextUnacked(t)], n, k)
  <1> DEFINE stops == {d \in 1 .. Window : Wrap(t.out + d) = t.in \/ t.buf[Wrap(t.out + d)] # Free}
             j == Min(stops)
             k == h + j
             u == [t EXCEPT !.out = NextUnacked(t)]
  <1>1. t.out = Wrap(h) /\ InPlace(t.buf, h + 1, n) /\ n - h \in 1 .. Window - 1
    BY WindowFacts DEF AckedTo
  <1>2. \A d \in Int : Wrap(t.out + d) = Wrap(h + d)
    BY <1>1, WrapIsSlot
  <1>3. n - h \in stops
    <2>1. Wrap(t.out + (n - h)) = t.in
      <3>1. h + (n - h) = n /\ n - h \in Int
        OBVIOUS
      <3>2. QED
        BY <1>2, <3>1
    <2>2. QED
      BY <1>1, <2>1, WindowFacts
  <1>4. /\ j \in stops /\ j <= n - h
        /\ \A d \in stops : j <= d
    <2>1. stops \in SUBSET Nat /\ stops # {}
      BY <1>3
    <2> HIDE DEF stops
    <2>2. QED
      BY <1>3, <2>1, MinIsLeast
  <1>5. j \in 1 .. n - h /\ k \in Nat /\ k \in h + 1 .. n
    BY <1>1, <1>4
  <1>6. NextUnacked(t) = Wrap(k)
    BY <1>2, <1>5 DEF NextUnacked
  <1>7. \A d \in 1 .. j - 1 : t.buf[Wrap(h + d)] = Free
    <2> TAKE d \in 1 .. j - 1
    <2>1. d \in 1 .. Window /\ ~ (j <= d)
      <3> HIDE DEF j
      <3>1. QED
        BY <1>1, <1>5, WindowFacts
    <2>2. d \notin stops
      BY <1>4, <2>1
    <2>3. QED
      BY <1>2, <2>1, <2>2
  <1> HIDE DEF stops, j
  <1>8. InPlace(t.buf, k + 1, n)
    <2> SUFFICES ASSUME NEW s \in Slot, t.buf[s] # Free
                 PROVE  t.buf[s] \in k + 1 .. n /\ s = SlotOf(t.buf[s])
      BY DEF InPlace
    <2> DEFINE v == t.buf[s]
    <2>1. v \in h + 1 .. n /\ s = SlotOf(v)
      BY <1>1 DEF InPlace
    <2> HIDE DEF v
    <2>2. CASE v = h + 1
      <3>1. v - 1 = h
        BY <2>2
      <3>2. s = t.out
        BY <1>1, <2>1, <3>1 DEF SlotOf
      <3>3. QED
        BY <3>2
    <2>3. CASE v # h + 1 /\ v <= k
      <3>1. v - h - 1 \in 1 .. j - 1 /\ h + (v - h - 1) = v - 1
        BY <1>5, <2>1, <2>3
      <3>2. t.buf[Wrap(v - 1)] = Free
        BY <1>7, <3>1
      <3>3. QED
        BY <2>1, <3>2 DEF SlotOf
    <2>4. CASE v > k
      BY <1>5, <2>1, <2>4 DEF v
    <2>5. QED
      BY <1>5, <2>1, <2>2, <2>3, <2>4
  <1>9. NextUnacked(t) \in Slot
    BY <1>5, <1>6, WrapIsSlot
  <1>10. AckedTo(u, n, k)
    <2>1. u.out = Wrap(k) /\ u.buf = t.buf
      BY <1>6 DEF TxRecord
    <2> HIDE DEF u, k
    <2>2. k \in 0 .. n /\ n - k < Window
      BY <1>1, <1>5, WindowFacts
    <2>3. QED
      BY <1>8, <2>1, <2>2 DEF AckedTo
  <1>11. QED
    BY <1>5, <1>9, <1>10

\* An acknowledgement finds the slot of its message, if that is still there,
\* and touches no other.
LEMMA AcknowledgeStep ==
    ASSUME NEW t, NEW n \in Nat, TxInv(t, n), NEW m \in 1 .. n, n - m < Lifetime
    PROVE  LET u == Acknowledge(t, NumberOf(m))
           IN  /\ TxInv(u, n)
               /\ \A s \in Slot : u.buf[s] = t.buf[s] \/ t.buf[s] = m
  <1> DEFINE seq  == NumberOf(m)
             diff == (t.q - seq) % SeqSpace
             slot == Wrap(t.in - diff + Window)
             f    == Freed(t, slot)
             u    == Acknowledge(t, seq)
  <1> SUFFICES TxInv(u, n) /\ \A s \in Slot : u.buf[s] = t.buf[s] \/ t.buf[s] = m
    OBVIOUS
  <1>1. t \in TxRecord /\ TimersInv(t) /\ t.q = NumberOf(n + 1) /\ t.in = Wrap(n)
    BY DEF TxInv
  <1>2. PICK h \in Nat : AckedTo(t, n, h)
    BY DEF TxInv
  <1>3. diff = n + 1 - m
    <2>1. n + 1 - m \in 0 .. SeqSpace - 1
      BY WindowFacts DEF Lifetime
    <2>2. (NumberOf(n + 1) - NumberOf(m)) % SeqSpace = (n + 1 - m) % SeqSpace
      BY NumberFacts
    <2>3. (n + 1 - m) % SeqSpace = n + 1 - m
      BY <2>1, WindowFacts, ModSmall
    <2>4. QED
      BY <1>1, <2>2, <2>3
  <1>4. slot = SlotOf(m) /\ slot \in Slot
    <2> HIDE DEF diff
    <2>1. diff \in Int /\ Wrap(n) \in Int /\ n + (-diff) = m - 1 /\ Window \in Int /\ -diff \in Int
      <3>1. Wrap(n) \in Slot
        BY WrapIsSlot
      <3>2. QED
        BY <1>3, <3>1, WindowFacts DEF Slot
    <2>2. Wrap(Wrap(n) - diff + Window) = Wrap(Wrap(n) - diff)
      BY <2>1, WrapIsSlot
    <2>3. Wrap(Wrap(n) + (-diff)) = Wrap(n + (-diff))
      BY <2>1, WrapIsSlot
    <2>4. Wrap(n) - diff = Wrap(n) + (-diff)
      BY <2>1
    <2>5. Wrap(m - 1) \in Slot
      BY WrapIsSlot
    <2>6. QED
      BY <1>1, <2>1, <2>2, <2>3, <2>4, <2>5 DEF SlotOf
  <1>5. u = IF diff >= Window \/ t.buf[slot] = Free THEN t
            ELSE IF slot = t.out THEN [f EXCEPT !.out = NextUnacked(f)] ELSE f
    BY DEF Acknowledge, Freed
  <1> HIDE DEF u, slot, diff, f
  <1>6. CASE diff >= Window \/ t.buf[slot] = Free
    BY <1>5, <1>6
  <1>7. CASE ~ (diff >= Window \/ t.buf[slot] = Free)
    <2>1. t.buf[slot] = m
      <3>1. t.buf[slot] \in h + 1 .. n /\ slot = SlotOf(t.buf[slot])
        BY <1>2, <1>4, <1>7 DEF AckedTo, InPlace
      <3>2. n - h < Window /\ n + 1 - m < Window
        BY <1>2, <1>3, <1>7, WindowFacts DEF AckedTo
      <3> DEFINE v == t.buf[slot]
      <3> HIDE DEF v
      <3>3. v \in h + 1 .. n /\ SlotOf(v) = SlotOf(m)
        BY <1>4, <3>1 DEF v
      <3>4. v - m < Window /\ m - v < Window
        BY <3>2, <3>3, WindowFacts
      <3>5. v = m
        BY <3>3, <3>4, SlotInjective
      <3>6. QED
        BY <3>5 DEF v
    <2>2. /\ f \in TxRecord /\ TimersInv(f)
          /\ f.q = t.q /\ f.in = t.in /\ f.out = t.out
          /\ \A s \in Slot : f.buf[s] = IF s = slot THEN Free ELSE t.buf[s]
      BY <1>1, <1>4, FreedStep DEF f
    <2>3. AckedTo(f, n, h)
      BY <1>2, <2>2 DEF AckedTo, InPlace
    <2>4. CASE slot # t.out
      <3>1. u = f
        BY <1>5, <1>7, <2>4
      <3>2. QED
        BY <1>1, <2>1, <2>2, <2>3, <3>1 DEF TxInv
    <2>5. CASE slot = t.out
      <3>1. h < n
        BY <1>2, <1>4, <1>7 DEF AckedTo, InPlace
      <3>2. /\ NextUnacked(f) \in Slot
            /\ \E k \in Nat : AckedTo([f EXCEPT !.out = NextUnacked(f)], n, k)
        BY <1>1, <1>4, <2>2, <2>3, <2>5, <3>1, NextUnackedStep
      <3>3. u = [f EXCEPT !.out = NextUnacked(f)]
        BY <1>5, <1>7, <2>5
      <3>4. u \in TxRecord /\ u.q = f.q /\ u.in = f.in /\ u.buf = f.buf /\ u.tries = f.tries /\ u.timers = f.timers
        BY <2>2, <3>2, <3>3 DEF TxRecord
      <3>5. TimersInv(u)
        BY <2>2, <3>4 DEF TimersInv
      <3>6. TxInv(u, n)
        BY <1>1, <2>2, <3>2, <3>3, <3>4, <3>5 DEF TxInv
      <3>7. QED
        BY <2>1, <2>2, <3>4, <3>6
    <2>6. QED
      BY <2>4, <2>5
  <1>8. QED
    BY <1>6, <1>7

\* The number under which retransmit_the_unacknowledged sends what is in a slot
\* is the one the message was first sent under.
LEMMA SlotNumber ==
    ASSUME NEW t, NEW n \in Nat, TxInv(t, n), NEW s \in Slot, t.buf[s] # Free
    PROVE  t.buf[s] \in 1 .. n /\ SeqInSlot(t, s) = NumberOf(t.buf[s])
  <1> DEFINE v == t.buf[s]
             d == n + 1 - v
  <1>1. PICK h \in Nat : AckedTo(t, n, h)
    BY DEF TxInv
  <1>2. v \in h + 1 .. n /\ s = Wrap(v - 1) /\ t.in = Wrap(n) /\ t.q = NumberOf(n + 1)
    BY <1>1 DEF AckedTo, InPlace, SlotOf, TxInv
  <1> HIDE DEF v
  <1>3. d \in 1 .. Window - 1 /\ v - 1 + d = n /\ n + 1 + (-d) = v
    BY <1>1, <1>2, WindowFacts DEF AckedTo
  <1> HIDE DEF d
  <1>4. t.in = Wrap(s + d) /\ t.in \in 0 .. Window - 1 /\ s \in 0 .. Window - 1
    <2>1. v - 1 \in Int /\ d \in Int
      BY <1>2, <1>3
    <2>2. Wrap(Wrap(v - 1) + d) = Wrap(v - 1 + d)
      BY <2>1, WrapIsSlot
    <2>3. t.in \in Slot
      BY <1>2, WrapIsSlot
    <2>4. QED
      BY <1>2, <1>3, <2>2, <2>3 DEF Slot
  <1>5. (IF t.in - s < 0 THEN t.in - s + Window ELSE t.in - s) = d
    <2>1. CASE s + d < Window
      <3>1. s + d \in Slot
        BY <1>3, <1>4, <2>1, WindowFacts DEF Slot
      <3>2. t.in = s + d
        BY <1>4, <3>1, WrapIsSlot
      <3>3. QED
        BY <1>3, <1>4, <3>2
    <2>2. CASE s + d >= Window
      <3>1. s + d - Window \in Slot /\ s + d - Window \in Int /\ s + d - Window + Window = s + d
        BY <1>3, <1>4, <2>2, WindowFacts DEF Slot
      <3>2. t.in = s + d - Window
        BY <1>4, <3>1, WrapIsSlot
      <3>3. QED
        BY <1>3, <1>4, <3>2, WindowFacts
    <2>3. QED
      BY <1>3, <1>4, <2>1, <2>2, WindowFacts
  <1>6. SeqInSlot(t, s) = (NumberOf(n + 1) - d) % SeqSpace
    BY <1>2, <1>5 DEF SeqInSlot
  <1>7. (NumberOf(n + 1) + (-d)) % SeqSpace = NumberOf(n + 1 + (-d))
    BY <1>3, NumberFacts
  <1>8. NumberOf(n + 1) - d = NumberOf(n + 1) + (-d)
    BY <1>3, NumberFacts
  <1>9. v \in 1 .. n /\ SeqInSlot(t, s) = NumberOf(v)
    BY <1>1, <1>2, <1>3, <1>6, <1>7, <1>8
  <1>10. QED
    BY <1>9 DEF v

\* Retransmission moves timers and counts tries; the messages stay.
LEMMA ResendStep ==
    ASSUME NEW t, NEW n \in Nat, TxInv(t, n), NEW k \in 0 .. Len(t.timers)
    PROVE  TxInv(Resend(t, k), n) /\ Resend(t, k).buf = t.buf
  <1> DEFINE list == t.timers
             due  == SubSeq(list, 1, k)
             left == [s \in Slot |-> IF s \in ToSet(due) THEN t.tries[s] - 1 ELSE t.tries[s]]
             more == {s \in Slot : left[s] > 0}
             kept == Among(due, more)
             rest == SubSeq(list, k + 1, Len(list))
             u    == Resend(t, k)
  <1>1. t \in TxRecord /\ TimersInv(t) /\ list \in Seq(Slot) /\ Len(list) \in Nat /\ k \in 0 .. Len(list)
    BY DEF TxInv, TxRecord
  <1>2. /\ u.q = t.q /\ u.in = t.in /\ u.out = t.out /\ u.buf = t.buf
        /\ u.tries = left /\ u.timers = rest \o kept
    BY <1>1 DEF Resend, TxRecord
  <1>3. \A i, j \in 1 .. Len(list) : list[i] = list[j] => i = j
    BY <1>1 DEF TimersInv
  <1>4. \A i \in 1 .. Len(list) : list[i] \in Slot /\ t.buf[list[i]] # Free /\ t.tries[list[i]] > 0
    BY <1>1 DEF TimersInv
  <1>5. due \in Seq(Slot) /\ Len(due) = k /\ \A i \in 1 .. k : due[i] = list[i]
    BY <1>1
  <1>6. rest \in Seq(Slot) /\ Len(rest) = Len(list) - k /\ \A i \in 1 .. Len(list) - k : rest[i] = list[k + i]
    BY <1>1
  <1>7. \A s \in Slot : s \in ToSet(due) <=> \E i \in 1 .. k : s = list[i]
    <2>1. DOMAIN due = 1 .. k
      BY <1>5
    <2> HIDE DEF due
    <2>2. QED
      BY <1>5, <2>1 DEF ToSet
  <1>8. /\ \A s \in Slot : t.tries[s] \in Nat
        /\ \A s \in Slot : left[s] = IF s \in ToSet(due) THEN t.tries[s] - 1 ELSE t.tries[s]
    BY <1>1 DEF TxRecord
  <1> HIDE DEF due, left, rest, u, list
  <1>9. /\ kept \in Seq(Slot)
        /\ \A j \in 1 .. Len(kept) : \E i \in 1 .. k : kept[j] = list[i] /\ left[list[i]] > 0
        /\ \A i, j \in 1 .. Len(kept) : kept[i] = kept[j] => i = j
    <2>1. \A i, j \in 1 .. Len(due) : due[i] = due[j] => i = j
      <3>1. \A i \in 1 .. k : i \in 1 .. Len(list)
        BY <1>1
      <3>2. QED
        BY <1>3, <1>5, <3>1
    <2>2. /\ kept \in Seq(Slot)
          /\ \A j \in 1 .. Len(kept) : \E i \in 1 .. Len(due) : kept[j] = due[i] /\ due[i] \in more
          /\ \A i, j \in 1 .. Len(kept) : kept[i] = kept[j] => i = j
      <3> HIDE DEF more
      <3>1. QED
        BY <1>5, <2>1, AmongFacts
    <2>3. \A s \in more : left[s] > 0
      OBVIOUS
    <2> HIDE DEF kept, more
    <2>4. QED
      BY <1>5, <2>2, <2>3
  <1> HIDE DEF kept
  <1>10. left \in [Slot -> Nat] /\ \A s \in Slot : left[s] <= MaxTries
    <2>1. ASSUME NEW s \in Slot
          PROVE  left[s] \in Nat /\ left[s] <= MaxTries
      <3>1. t.tries[s] \in Nat /\ t.tries[s] <= MaxTries /\ MaxTries \in Nat
        BY <1>1, <1>8, SprtAssumption DEF TimersInv
      <3>2. CASE s \in ToSet(due)
        <4>1. PICK i \in 1 .. k : s = list[i]
          BY <1>7, <3>2
        <4>2. i \in 1 .. Len(list)
          BY <1>1
        <4>3. t.tries[s] > 0
          BY <1>4, <4>1, <4>2
        <4>4. QED
          BY <1>8, <3>1, <3>2, <4>3
      <3>3. CASE s \notin ToSet(due)
        BY <1>8, <3>1, <3>3
      <3>4. QED
        BY <3>2, <3>3
    <2>2. left = [s \in Slot |-> left[s]]
      BY DEF left
    <2>3. QED
      BY <2>1, <2>2
  <1>11. /\ u.timers \in Seq(Slot)
         /\ Len(u.timers) = Len(rest) + Len(kept) /\ Len(rest) \in Nat /\ Len(kept) \in Nat
         /\ \A i \in 1 .. Len(rest) : u.timers[i] = list[k + i]
         /\ \A i \in Len(rest) + 1 .. Len(rest) + Len(kept) : u.timers[i] = kept[i - Len(rest)]
    <2>1. /\ rest \o kept \in Seq(Slot)
          /\ Len(rest \o kept) = Len(rest) + Len(kept)
          /\ \A i \in 1 .. Len(rest) + Len(kept) :
                (rest \o kept)[i] = IF i <= Len(rest) THEN rest[i] ELSE kept[i - Len(rest)]
      BY <1>6, <1>9, ConcatProperties, ZenonT(60)
    <2>2. Len(rest) \in Nat /\ Len(kept) \in Nat /\ Len(rest) = Len(list) - k
      BY <1>6, <1>9
    <2>3. ASSUME NEW i \in 1 .. Len(rest) PROVE (rest \o kept)[i] = list[k + i]
      <3>1. i \in 1 .. Len(rest) + Len(kept) /\ i <= Len(rest) /\ i \in 1 .. Len(list) - k
        BY <2>2
      <3>2. QED
        BY <1>6, <2>1, <3>1
    <2>4. ASSUME NEW i \in Len(rest) + 1 .. Len(rest) + Len(kept)
          PROVE  (rest \o kept)[i] = kept[i - Len(rest)]
      <3>1. i \in 1 .. Len(rest) + Len(kept) /\ ~ (i <= Len(rest))
        BY <2>2
      <3>2. QED
        BY <2>1, <3>1
    <2>5. QED
      BY <1>2, <2>1, <2>2, <2>3, <2>4
  <1>12. ASSUME NEW i \in 1 .. Len(rest)
         PROVE  /\ k + i \in 1 .. Len(list)
                /\ \A j \in 1 .. k : j \in 1 .. Len(list) /\ list[k + i] # list[j]
    <2>1. k + i \in 1 .. Len(list) /\ \A j \in 1 .. k : j \in 1 .. Len(list) /\ j # k + i
      BY <1>1, <1>6
    <2>2. QED
      BY <1>3, <2>1
  <1>13. ASSUME NEW i \in 1 .. Len(u.timers)
         PROVE  u.buf[u.timers[i]] # Free /\ u.tries[u.timers[i]] > 0
    <2>1. CASE i \in 1 .. Len(rest)
      <3>1. list[k + i] \in Slot /\ list[k + i] \notin ToSet(due)
        BY <1>4, <1>7, <1>12, <2>1, ZenonT(60)
      <3>2. left[list[k + i]] = t.tries[list[k + i]]
        BY <1>8, <3>1
      <3>3. QED
        BY <1>2, <1>4, <1>11, <1>12, <2>1, <3>2
    <2>2. CASE i \in Len(rest) + 1 .. Len(rest) + Len(kept)
      <3>1. i - Len(rest) \in 1 .. Len(kept)
        BY <1>11, <2>2
      <3>2. PICK j \in 1 .. k : kept[i - Len(rest)] = list[j] /\ left[list[j]] > 0
        BY <1>9, <3>1
      <3>3. j \in 1 .. Len(list)
        BY <1>1
      <3>4. QED
        BY <1>2, <1>4, <1>11, <2>2, <3>2, <3>3
    <2>3. QED
      BY <1>11, <2>1, <2>2
  <1>14. ASSUME NEW i \in 1 .. Len(u.timers), NEW j \in 1 .. Len(u.timers),
                u.timers[i] = u.timers[j]
         PROVE  i = j
    <2>1. ASSUME NEW a \in 1 .. Len(rest), NEW b \in Len(rest) + 1 .. Len(rest) + Len(kept)
          PROVE  u.timers[a] # u.timers[b]
      <3>1. b - Len(rest) \in 1 .. Len(kept)
        BY <1>11
      <3>2. PICK c \in 1 .. k : kept[b - Len(rest)] = list[c]
        BY <1>9, <3>1
      <3>3. QED
        BY <1>11, <1>12, <3>2, SMTT(60)
    <2>2. CASE i \in 1 .. Len(rest) /\ j \in 1 .. Len(rest)
      <3>1. k + i = k + j
        BY <1>3, <1>11, <1>12, <1>14, <2>2
      <3>2. QED
        BY <3>1
    <2>3. CASE i \notin 1 .. Len(rest) /\ j \notin 1 .. Len(rest)
      <3>1. /\ i \in Len(rest) + 1 .. Len(rest) + Len(kept) /\ j \in Len(rest) + 1 .. Len(rest) + Len(kept)
            /\ i - Len(rest) \in 1 .. Len(kept) /\ j - Len(rest) \in 1 .. Len(kept)
        BY <1>11, <2>3
      <3>2. i - Len(rest) = j - Len(rest)
        BY <1>9, <1>11, <1>14, <3>1
      <3>3. QED
        BY <1>11, <3>2
    <2>4. QED
      BY <1>11, <1>14, <2>1, <2>2, <2>3, SMTT(60)
  <1>15. TimersInv(u)
    BY <1>2, <1>10, <1>13, <1>14 DEF TimersInv
  <1>16. u \in TxRecord
    <2>1. u = [t EXCEPT !.tries = left, !.timers = u.timers]
      BY <1>1, <1>2 DEF u, Resend, TxRecord, left, due, rest, kept, list
    <2>2. QED
      BY <1>1, <1>10, <1>11, <2>1 DEF TxRecord
  <1>17. \A h \in Nat : AckedTo(t, n, h) => AckedTo(u, n, h)
    BY <1>2 DEF AckedTo
  <1>18. TxInv(u, n) /\ u.buf = t.buf
    BY <1>2, <1>15, <1>16, <1>17 DEF TxInv
  <1>19. QED
    BY <1>18 DEF u

-----------------------------------------------------------------------------
(* What a call does to the receiving window.                                *)

\* A message stored at its distance is in its place.
LEMMA StoreStep ==
    ASSUME NEW r, NEW g \in Nat, NEW n \in Nat, RxInv(r, g, n),
           NEW m \in 1 .. n, m \in g + 1 .. g + Window
    PROVE  LET u == Store(r, m - 1 - g, m)
           IN  /\ RxInv(u, g, n)
               /\ u.in = r.in /\ u.busy = r.busy
               /\ Delivered(u, g, m)
               /\ \A k \in 1 .. n : Delivered(r, g, k) => Delivered(u, g, k)
               /\ \A s \in Slot : s # SlotOf(m) => u.buf[s] = r.buf[s]
  <1> DEFINE u == Store(r, m - 1 - g, m)
  <1> SUFFICES /\ RxInv(u, g, n)
               /\ u.in = r.in /\ u.busy = r.busy
               /\ Delivered(u, g, m)
               /\ \A k \in 1 .. n : Delivered(r, g, k) => Delivered(u, g, k)
               /\ \A s \in Slot : s # SlotOf(m) => u.buf[s] = r.buf[s]
    OBVIOUS
  <1>1. r \in RxRecord /\ r.in = Wrap(g)
    BY DEF RxInv
  <1>2. Wrap(r.in + (m - 1 - g)) = SlotOf(m) /\ SlotOf(m) \in Slot
    <2>1. m - 1 - g \in Int /\ m - 1 \in Int /\ g + (m - 1 - g) = m - 1
      OBVIOUS
    <2>2. Wrap(Wrap(g) + (m - 1 - g)) = Wrap(g + (m - 1 - g))
      BY <2>1, WrapIsSlot
    <2>3. QED
      BY <1>1, <2>1, <2>2, WrapIsSlot DEF SlotOf
  <1>3. /\ u \in RxRecord /\ u.base = r.base /\ u.in = r.in /\ u.busy = r.busy
        /\ \A s \in Slot : u.buf[s] = IF s = SlotOf(m) THEN m ELSE r.buf[s]
    BY <1>1, <1>2 DEF Store, RxRecord
  <1> HIDE DEF u
  <1>4. InPlace(u.buf, g + 1, n) /\ InPlace(u.buf, g + 1, g + Window)
    BY <1>3 DEF RxInv, InPlace
  <1>5. ASSUME NEW k \in 1 .. n, Delivered(r, g, k)
        PROVE  Delivered(u, g, k)
    <2>1. CASE k <= g
      BY <2>1 DEF Delivered
    <2>2. CASE k > g /\ SlotOf(k) # SlotOf(m)
      <3>1. SlotOf(k) \in Slot /\ r.buf[SlotOf(k)] = k
        BY <1>5, <2>2, WrapIsSlot DEF Delivered, SlotOf
      <3>2. QED
        BY <1>3, <2>2, <3>1 DEF Delivered
    <2>3. CASE k > g /\ SlotOf(k) = SlotOf(m)
      <3>1. r.buf[SlotOf(k)] = k /\ SlotOf(k) \in Slot
        BY <1>2, <1>5, <2>3 DEF Delivered
      <3>2. k \in g + 1 .. g + Window
        BY <3>1 DEF RxInv, InPlace, Free
      <3>3. k - m < Window /\ m - k < Window
        BY <3>2, WindowFacts
      <3>4. k = m
        BY <2>3, <3>3, SlotInjective
      <3>5. QED
        BY <1>2, <1>3, <3>4 DEF Delivered
    <2>4. QED
      BY <2>1, <2>2, <2>3
  <1>6. Delivered(u, g, m)
    BY <1>2, <1>3 DEF Delivered
  <1>7. RxInv(u, g, n)
    BY <1>3, <1>4 DEF RxInv
  <1>8. QED
    BY <1>3, <1>5, <1>6, <1>7

\* The far window tells new from old, as no number lives so long that it could
\* be taken for another: what is acknowledged is there to be handed over.
LEMMA AcceptStep ==
    ASSUME NEW r, NEW g \in Nat, NEW n \in Nat, RxInv(r, g, n), n < g + 2 * Window,
           NEW m \in 1 .. n, n - m < Lifetime
    PROVE  LET a == Accept(r, NumberOf(m), m)
           IN  /\ RxInv(a.r, g, n)
               /\ a.r.in = r.in /\ a.r.busy = r.busy
               /\ a.ack => Delivered(a.r, g, m)
               /\ \A k \in 1 .. n : Delivered(r, g, k) => Delivered(a.r, g, k)
               /\ ~ a.go => a.r.buf[r.in] = r.buf[r.in]
               /\ a.ack \in BOOLEAN /\ a.go \in BOOLEAN
  <1> DEFINE a == Accept(r, NumberOf(m), m)
             diff == (NumberOf(m) - r.base) % SeqSpace
             Goal(x) == /\ RxInv(x.r, g, n)
                        /\ x.r.in = r.in /\ x.r.busy = r.busy
                        /\ x.ack => Delivered(x.r, g, m)
                        /\ \A k \in 1 .. n : Delivered(r, g, k) => Delivered(x.r, g, k)
                        /\ ~ x.go => x.r.buf[r.in] = r.buf[r.in]
                        /\ x.ack \in BOOLEAN /\ x.go \in BOOLEAN
  <1> SUFFICES Goal(a)
    OBVIOUS
  <1>1. r.base = NumberOf(g + 1) /\ g <= n /\ r.in = Wrap(g)
    BY DEF RxInv
  <1>2. Window <= MaxWindow /\ SeqSpace > 2 * MaxWindow + Window /\ MaxWindow \in Int
    BY SprtAssumption
  <1>3. diff = (m - (g + 1)) % SeqSpace
    BY <1>1, NumberFacts
  <1>4. CASE m >= g + 1
    <2>1. m - (g + 1) \in 0 .. SeqSpace - 1 /\ m - (g + 1) < 2 * Window
      BY <1>2, <1>4, WindowFacts
    <2>2. diff = m - 1 - g
      BY <1>3, <2>1, WindowFacts, ModSmall
    <2> HIDE DEF diff
    <2>3. CASE diff < Window
      <3> DEFINE u == Store(r, diff, m)
      <3>1. m \in g + 1 .. g + Window
        BY <1>4, <2>2, <2>3, WindowFacts
      <3>2. /\ RxInv(u, g, n) /\ u.in = r.in /\ u.busy = r.busy /\ Delivered(u, g, m)
            /\ \A k \in 1 .. n : Delivered(r, g, k) => Delivered(u, g, k)
            /\ \A s \in Slot : s # SlotOf(m) => u.buf[s] = r.buf[s]
        BY <2>2, <3>1, StoreStep, ZenonT(60)
      <3>3. diff # 0 => u.buf[r.in] = r.buf[r.in]
        <4>1. ASSUME diff # 0 PROVE r.in # SlotOf(m)
          <5>1. m - 1 # g /\ g - (m - 1) < Window /\ (m - 1) - g < Window
            BY <2>2, <2>3, <3>1, <4>1, WindowFacts
          <5>2. QED
            BY <1>1, <5>1, WrapInjective DEF SlotOf
        <4>2. r.in \in Slot
          BY <1>1, WrapIsSlot
        <4> HIDE DEF u
        <4>3. QED
          BY <3>2, <4>1, <4>2
      <3>4. /\ a.r = u /\ a.ack = TRUE /\ (a.go = IF diff = 0 THEN TRUE ELSE FALSE)
        BY <2>3 DEF Accept, diff
      <3> HIDE DEF u, a
      <3>5. QED
        BY <3>2, <3>3, <3>4
    <2>4. CASE diff >= Window
      <3>1. diff # 0 /\ ~ (diff < Window) /\ ~ (diff > 2 * MaxWindow)
        BY <1>2, <2>1, <2>2, <2>4, WindowFacts
      <3>2. a.r = r /\ a.ack = (diff > 2 * MaxWindow) /\ a.go = FALSE
        BY <3>1 DEF Accept, diff
      <3> DEFINE far == diff > 2 * MaxWindow
      <3>3. far = FALSE /\ a.ack = far
        BY <3>1, <3>2
      <3> HIDE DEF a, far
      <3>4. a.ack = FALSE
        BY <3>3
      <3>5. QED
        BY <3>2, <3>4
    <2>5. QED
      BY <2>2, <2>3, <2>4, WindowFacts
  <1>5. CASE m <= g
    <2>1. m - (g + 1) + SeqSpace \in Window .. SeqSpace - 1 /\ m - (g + 1) \in Int
      BY <1>1, <1>2, <1>5, WindowFacts DEF Lifetime
    <2>2. diff = m - (g + 1) + SeqSpace
      <3>1. (m - (g + 1) + SeqSpace) % SeqSpace = (m - (g + 1)) % SeqSpace
        BY <2>1, WindowFacts, ModPlus
      <3>2. m - (g + 1) + SeqSpace \in 0 .. SeqSpace - 1
        BY <2>1, WindowFacts
      <3>3. (m - (g + 1) + SeqSpace) % SeqSpace = m - (g + 1) + SeqSpace
        BY <3>2, WindowFacts, ModSmall
      <3>4. QED
        BY <1>3, <3>1, <3>3
    <2> HIDE DEF diff
    <2>3. diff # 0 /\ ~ (diff < Window) /\ diff \in Int
      BY <2>1, <2>2, WindowFacts, SprtAssumption
    <2>4. a.r = r /\ a.go = FALSE /\ a.ack = (diff > 2 * MaxWindow)
      BY <2>3 DEF Accept, diff
    <2>5. Delivered(r, g, m)
      BY <1>5 DEF Delivered
    <2> HIDE DEF a
    <2>6. a.ack \in BOOLEAN
      BY <2>4
    <2>7. QED
      BY <2>4, <2>5, <2>6
  <1>6. QED
    BY <1>4, <1>5

\* Ready counts what is stored next in sequence, up to the first gap.
LEMMA ReadyFacts ==
    ASSUME NEW r, NEW g \in Nat, NEW n \in Nat, RxInv(r, g, n)
    PROVE  /\ Ready(r) \in 0 .. Window
           /\ \A i \in 1 .. Ready(r) :
                 /\ Wrap(r.in + i - 1) = SlotOf(g + i)
                 /\ r.buf[SlotOf(g + i)] = g + i /\ g + i <= n
           /\ Ready(r) < Window => r.buf[SlotOf(g + Ready(r) + 1)] = Free
           /\ Ready(r) = 0 <=> r.buf[r.in] = Free
  <1> DEFINE Filled(k) == \A i \in 0 .. k - 1 : r.buf[Wrap(r.in + i)] # Free
             runs == {k \in 0 .. Window : Filled(k)}
             k == Ready(r)
  <1>1. r.in = Wrap(g) /\ r.in \in Slot /\ r \in RxRecord
    BY WrapIsSlot DEF RxInv
  <1>2. \A i \in Int : Wrap(r.in + i) = Wrap(g + i)
    BY <1>1, WrapIsSlot
  <1>3. k \in 0 .. Window /\ Filled(k) /\ \A j \in 0 .. Window : Filled(j) => j <= k
    <2>1. runs \in SUBSET (0 .. Window) /\ 0 \in runs
      BY WindowFacts
    <2>2. k = Max(runs)
      BY DEF Ready
    <2> HIDE DEF runs, k
    <2>3. k \in runs /\ \A j \in runs : j <= k
      BY <2>1, <2>2, WindowFacts, MaxIsLargest
    <2>4. QED
      BY <2>3 DEF runs
  <1> HIDE DEF k
  <1>4. ASSUME NEW i \in 1 .. k
        PROVE  Wrap(r.in + i - 1) = SlotOf(g + i) /\ r.buf[SlotOf(g + i)] = g + i /\ g + i <= n
    <2>1. i - 1 \in 0 .. k - 1 /\ r.in + i - 1 = r.in + (i - 1) /\ g + (i - 1) = g + i - 1 /\ i \in 1 .. Window
      BY <1>1, <1>3, WindowFacts DEF Slot
    <2>2. Wrap(r.in + i - 1) = SlotOf(g + i)
      BY <1>2, <2>1 DEF SlotOf
    <2>3. r.buf[SlotOf(g + i)] # Free /\ SlotOf(g + i) \in Slot
      <3>1. g + i - 1 \in Int
        OBVIOUS
      <3>2. SlotOf(g + i) \in Slot
        BY <3>1, WrapIsSlot DEF SlotOf
      <3>3. r.buf[Wrap(r.in + (i - 1))] # Free
        BY <1>3, <2>1
      <3>4. QED
        BY <2>1, <2>2, <3>2, <3>3
    <2> DEFINE v == r.buf[SlotOf(g + i)]
    <2>4. v \in g + 1 .. g + Window /\ v <= n /\ SlotOf(v) = SlotOf(g + i)
      BY <2>3 DEF RxInv, InPlace
    <2> HIDE DEF v
    <2>5. v - (g + i) < Window /\ (g + i) - v < Window
      BY <2>1, <2>4, WindowFacts
    <2>6. v = g + i
      BY <2>4, <2>5, SlotInjective
    <2>7. QED
      BY <2>2, <2>4, <2>6 DEF v
  <1>5. ASSUME k < Window
        PROVE  r.buf[SlotOf(g + k + 1)] = Free
    <2>1. k + 1 \in 0 .. Window /\ ~ (k + 1 <= k)
      BY <1>3, <1>5, WindowFacts
    <2>2. ~ Filled(k + 1)
      BY <1>3, <2>1
    <2>3. PICK i \in 0 .. (k + 1) - 1 : r.buf[Wrap(r.in + i)] = Free
      <3> HIDE DEF runs
      <3>1. QED
        BY ONLY <2>2
    <2>4. i = k
      BY <1>3, <2>1, <2>3
    <2>5. g + k + 1 - 1 = g + k /\ k \in Int
      BY <1>3
    <2>6. QED
      BY <1>2, <2>3, <2>4, <2>5 DEF SlotOf
  <1>6. k = 0 <=> r.buf[r.in] = Free
    <2>1. SlotOf(g + 0 + 1) = r.in /\ SlotOf(g + 1) = r.in
      <3>1. g + 0 + 1 - 1 = g /\ g + 1 - 1 = g
        OBVIOUS
      <3>2. QED
        BY <1>1, <3>1 DEF SlotOf
    <2>2. CASE k = 0
      BY <1>5, <2>1, <2>2, WindowFacts
    <2>3. CASE k # 0
      <3>1. 1 \in 1 .. k
        BY <1>3, <2>3
      <3>2. r.buf[SlotOf(g + 1)] = g + 1
        BY <1>4, <3>1
      <3>3. QED
        BY <2>1, <2>3, <3>2 DEF Free
    <2>4. QED
      BY <2>2, <2>3
  <1>7. QED
    BY <1>3, <1>4, <1>5, <1>6 DEF k

\* Handing over the first k messages moves the window on by k: what was handed
\* over are the next k messages, and nothing else leaves the window.
LEMMA HandOverStep ==
    ASSUME NEW r, NEW g \in Nat, NEW n \in Nat, RxInv(r, g, n),
           NEW k \in 0 .. Ready(r), NEW b \in BOOLEAN
    PROVE  LET u == HandOver(r, k, b)
           IN  /\ RxInv(u, g + k, n)
               /\ Run(r, k) = [i \in 1 .. k |-> g + i]
               /\ \A m \in 1 .. n : Delivered(r, g, m) => Delivered(u, g + k, m)
               /\ u.busy = b
               /\ k = 0 => u.buf[u.in] = r.buf[r.in]
               /\ k = Ready(r) => u.buf[u.in] = Free
  <1> DEFINE u == HandOver(r, k, b)
  <1> SUFFICES /\ RxInv(u, g + k, n)
               /\ Run(r, k) = [i \in 1 .. k |-> g + i]
               /\ \A m \in 1 .. n : Delivered(r, g, m) => Delivered(u, g + k, m)
               /\ u.busy = b
               /\ k = 0 => u.buf[u.in] = r.buf[r.in]
               /\ k = Ready(r) => u.buf[u.in] = Free
    OBVIOUS
  <1>1. /\ Ready(r) \in 0 .. Window
        /\ \A i \in 1 .. Ready(r) :
              /\ Wrap(r.in + i - 1) = SlotOf(g + i)
              /\ r.buf[SlotOf(g + i)] = g + i /\ g + i <= n
        /\ Ready(r) < Window => r.buf[SlotOf(g + Ready(r) + 1)] = Free
    BY ReadyFacts
  <1>2. k \in Nat /\ k <= Window /\ \A i \in 1 .. k : i \in 1 .. Ready(r)
    BY <1>1, WindowFacts
  <1>3. r \in RxRecord /\ r.base = NumberOf(g + 1) /\ r.in = Wrap(g) /\ g <= n /\ r.in \in Slot
    BY WrapIsSlot DEF RxInv
  <1>4. \A s \in Slot : (\E i \in 0 .. k - 1 : s = Wrap(r.in + i)) <=> \E i \in 1 .. k : s = SlotOf(g + i)
    <2>1. \A i \in 1 .. k : i - 1 \in 0 .. k - 1 /\ SlotOf(g + i) = Wrap(r.in + (i - 1))
      <3> TAKE i \in 1 .. k
      <3>1. r.in + (i - 1) = r.in + i - 1
        BY <1>3 DEF Slot
      <3>2. QED
        BY <1>1, <1>2, <3>1, SMTT(60)
    <2>2. \A i \in 0 .. k - 1 : i + 1 \in 1 .. k /\ (i + 1) - 1 = i
      BY <1>2
    <2>3. ASSUME NEW s \in Slot, NEW i \in 0 .. k - 1, s = Wrap(r.in + i)
          PROVE  \E j \in 1 .. k : s = SlotOf(g + j)
      BY <2>1, <2>2, <2>3
    <2>4. QED
      BY <2>1, <2>3
  <1>5. /\ u.base = (r.base + k) % SeqSpace /\ u.in = Wrap(r.in + k) /\ u.busy = b
        /\ \A s \in Slot : u.buf[s] = IF \E i \in 1 .. k : s = SlotOf(g + i) THEN Free ELSE r.buf[s]
    BY <1>4 DEF HandOver
  <1>6. u.base = NumberOf(g + k + 1) /\ u.in = Wrap(g + k)
    <2>1. (NumberOf(g + 1) + k) % SeqSpace = NumberOf(g + 1 + k) /\ g + 1 + k = g + k + 1
      BY <1>2, NumberFacts
    <2>2. Wrap(Wrap(g) + k) = Wrap(g + k)
      BY <1>2, WrapIsSlot
    <2>3. QED
      BY <1>3, <1>5, <2>1, <2>2
  <1>7. u \in RxRecord
    <2>1. u.base \in Nat
      <3>1. g + k + 1 \in Int
        BY <1>2
      <3>2. u.base \in 0 .. SeqSpace - 1
        BY <1>6, <3>1, NumberFacts
      <3>3. QED
        BY <3>2
    <2>2. u.in \in Slot
      BY <1>2, <1>6, WrapIsSlot
    <2>3. u.buf \in [Slot -> Nat]
      BY <1>3 DEF HandOver, RxRecord, Free
    <2>4. u = [base |-> u.base, in |-> u.in, buf |-> u.buf, busy |-> u.busy]
      BY DEF HandOver
    <2> HIDE DEF u
    <2>5. QED
      BY <1>5, <2>1, <2>2, <2>3, <2>4 DEF RxRecord
  <1> HIDE DEF u
  <1>8. ASSUME NEW s \in Slot, u.buf[s] # Free
        PROVE  /\ u.buf[s] = r.buf[s] /\ s = SlotOf(u.buf[s])
               /\ u.buf[s] \in g + k + 1 .. n /\ u.buf[s] \in g + k + 1 .. g + k + Window
    <2> DEFINE v == r.buf[s]
    <2>1. u.buf[s] = v /\ v # Free /\ \A i \in 1 .. k : s # SlotOf(g + i)
      BY <1>5, <1>8
    <2>2. v \in g + 1 .. n /\ v \in g + 1 .. g + Window /\ s = SlotOf(v)
      BY <2>1 DEF RxInv, InPlace
    <2> HIDE DEF v
    <2>3. v > g + k
      <3>1. SUFFICES ASSUME v <= g + k PROVE FALSE
        BY <1>2, <2>2
      <3>2. v - g \in 1 .. k /\ g + (v - g) = v
        BY <1>2, <2>2, <3>1
      <3>3. QED
        BY <2>1, <2>2, <3>2
    <2>4. QED
      BY <1>2, <2>1, <2>2, <2>3, WindowFacts DEF v
  <1>9. g + k <= n /\ g + k \in 0 .. n
    <2>1. k # 0 => k \in 1 .. k
      BY <1>2
    <2>2. QED
      BY <1>1, <1>2, <1>3, <2>1
  <1>10. RxInv(u, g + k, n)
    BY <1>6, <1>7, <1>8, <1>9 DEF RxInv, InPlace
  <1>11. Run(r, k) = [i \in 1 .. k |-> g + i]
    BY <1>1, <1>2 DEF Run
  <1>12. ASSUME NEW m \in 1 .. n, Delivered(r, g, m)
         PROVE  Delivered(u, g + k, m)
    <2>1. CASE m <= g + k
      BY <2>1 DEF Delivered
    <2>2. CASE m > g + k
      <3>1. r.buf[SlotOf(m)] = m /\ SlotOf(m) \in Slot
        <4>1. ~ (m <= g) /\ m - 1 \in Int
          BY <1>2, <2>2
        <4>2. r.buf[SlotOf(m)] = m
          BY <1>12, <4>1 DEF Delivered
        <4>3. SlotOf(m) \in Slot
          BY <4>1, WrapIsSlot DEF SlotOf
        <4>4. QED
          BY <4>2, <4>3
      <3>2. m \in g + 1 .. g + Window
        BY <3>1 DEF RxInv, InPlace, Free
      <3>3. \A i \in 1 .. k : SlotOf(m) # SlotOf(g + i)
        <4> SUFFICES ASSUME NEW i \in 1 .. k, SlotOf(m) = SlotOf(g + i) PROVE FALSE
          OBVIOUS
        <4>1. m - (g + i) < Window /\ (g + i) - m < Window /\ g + i \in Int
          BY <1>2, <2>2, <3>2, WindowFacts
        <4>2. m = g + i
          BY <4>1, SlotInjective
        <4>3. QED
          BY <1>2, <2>2, <4>2
      <3>4. QED
        BY <1>5, <3>1, <3>3 DEF Delivered
    <2>3. QED
      BY <1>2, <2>1, <2>2
  <1>13. ASSUME k = 0
         PROVE  u.buf[u.in] = r.buf[r.in]
    <2>1. u.in = r.in
      BY <1>3, <1>6, <1>13
    <2>2. ~ \E i \in 1 .. k : r.in = SlotOf(g + i)
      BY <1>13
    <2>3. QED
      BY <1>3, <1>5, <2>1, <2>2
  <1>14. ASSUME k = Ready(r)
         PROVE  u.buf[u.in] = Free
    <2>1. u.in = SlotOf(g + k + 1) /\ u.in \in Slot
      <3>1. g + k + 1 - 1 = g + k
        BY <1>2
      <3>2. QED
        BY <1>2, <1>6, <3>1, WrapIsSlot DEF SlotOf
    <2>2. CASE k < Window
      BY <1>1, <1>5, <1>14, <2>1, <2>2
    <2>3. CASE k = Window
      <3>1. SlotOf(g + k + 1) = SlotOf(g + 1)
        <4>1. g + k + 1 - 1 = g + Window /\ g + 1 - 1 = g
          BY <1>2, <2>3
        <4>2. QED
          BY <4>1, WrapIsSlot DEF SlotOf
      <3>2. 1 \in 1 .. k
        BY <2>3, WindowFacts
      <3>3. QED
        BY <1>5, <2>1, <3>1, <3>2
    <2>4. QED
      BY <1>2, <2>2, <2>3, WindowFacts
  <1>15. QED
    BY <1>5, <1>10, <1>11, <1>12, <1>13, <1>14

\* What may be handed over: a prefix of what is ready, all of it unless the
\* application has become busy.
LEMMA DeliveriesFacts ==
    ASSUME NEW r \in RxRecord, NEW d \in Deliveries(r), Ready(r) \in Nat
    PROVE  /\ d[1] \in 0 .. Ready(r) /\ d[2] \in BOOLEAN
           /\ ~ d[2] => d[1] = Ready(r)
  <1>1. r.busy \in BOOLEAN
    BY DEF RxRecord
  <1>2. CASE r.busy \/ Ready(r) = 0
    <2>1. d = <<0, r.busy>>
      BY <1>2 DEF Deliveries
    <2>2. d[1] = 0 /\ d[2] = r.busy
      BY <2>1
    <2>3. QED
      BY <1>1, <1>2, <2>2
  <1>3. CASE ~ (r.busy \/ Ready(r) = 0)
    <2>1. d \in (1 .. Ready(r)) \X (IF BusyApp THEN BOOLEAN ELSE {FALSE}) /\ (d[1] < Ready(r) => d[2])
      BY <1>3 DEF Deliveries
    <2>2. d[1] \in 1 .. Ready(r) /\ d[2] \in BOOLEAN
      BY <2>1
    <2>3. QED
      BY <2>1, <2>2
  <1>4. QED
    BY <1>2, <1>3

-----------------------------------------------------------------------------
(* One stream: the sender's window t, the receiver's window r, the number n *)
(* of messages sent and what was handed over, h.                            *)

CountTo(g) == [i \in 1 .. g |-> i]

LinkInv(t, r, n, h) ==
    /\ n \in 0 .. MaxMsgs
    /\ TxInv(t, n)
    /\ RxInv(r, Len(h), n)
    /\ h = CountTo(Len(h))
    /\ \A m \in 1 .. n : Delivered(r, Len(h), m) \/ t.buf[SlotOf(m)] = m

\* What had been delivered of n messages still is.
Keeps(r, h, u, v, n) == \A m \in 1 .. n : Delivered(r, Len(h), m) => Delivered(u, Len(v), m)

\* Handing over the next k messages goes on counting.
LEMMA CountFacts ==
    ASSUME NEW g \in Nat, NEW k \in Nat
    PROVE  /\ CountTo(g) \in Seq(Nat) /\ Len(CountTo(g)) = g
           /\ CountTo(g) \o [i \in 1 .. k |-> g + i] = CountTo(g + k)
           /\ Len(CountTo(g) \o [i \in 1 .. k |-> g + i]) = g + k
  <1> DEFINE a == CountTo(g)
             b == [i \in 1 .. k |-> g + i]
             c == CountTo(g + k)
  <1>1. a \in Seq(Nat) /\ Len(a) = g /\ \A i \in 1 .. g : a[i] = i
    BY DEF CountTo
  <1>2. b \in Seq(Nat) /\ Len(b) = k /\ \A i \in 1 .. k : b[i] = g + i
    OBVIOUS
  <1>3. c \in Seq(Nat) /\ Len(c) = g + k /\ \A i \in 1 .. g + k : c[i] = i
    BY DEF CountTo
  <1> HIDE DEF a, b, c
  <1>4. a \o b \in Seq(Nat) /\ Len(a \o b) = g + k
    BY <1>1, <1>2
  <1>5. ASSUME NEW i \in 1 .. g + k PROVE (a \o b)[i] = c[i]
    <2>1. i \in 1 .. Len(a) + Len(b)
      BY <1>1, <1>2
    <2>2. (a \o b)[i] = IF i <= Len(a) THEN a[i] ELSE b[i - Len(a)]
      BY <1>1, <1>2, <2>1, ConcatProperties
    <2>3. CASE i <= g
      BY <1>1, <1>3, <2>2, <2>3
    <2>4. CASE i > g
      <3>1. i - g \in 1 .. k /\ g + (i - g) = i
        BY <2>4
      <3>2. QED
        BY <1>1, <1>2, <1>3, <2>2, <2>4, <3>1
    <2>5. i <= g \/ i > g
      OBVIOUS
    <2>6. QED
      BY ONLY <2>3, <2>4, <2>5
  <1>6. a \o b = c
    BY <1>3, <1>4, <1>5, SeqEqual
  <1>7. QED
    BY <1>1, <1>4, <1>6 DEF a, b, c

\* The sender is never more than two windows ahead of what was handed over:
\* one lies behind its oldest message that is not acknowledged, and what is
\* acknowledged waits in the far window at the most.
LEMMA Spread ==
    ASSUME NEW t, NEW r, NEW n, NEW h, LinkInv(t, r, n, h)
    PROVE  n \in Nat /\ Len(h) \in Nat /\ Len(h) <= n /\ n < Len(h) + 2 * Window
  <1> DEFINE g == Len(h)
  <1>1. n \in Nat /\ g \in 0 .. n /\ RxInv(r, g, n)
    BY SprtAssumption DEF LinkInv, RxInv
  <1>2. PICK a \in Nat : AckedTo(t, n, a)
    BY DEF LinkInv, TxInv
  <1>3. a <= n /\ n - a < Window /\ InPlace(t.buf, a + 1, n)
    BY <1>1, <1>2 DEF AckedTo
  <1> HIDE DEF g
  <1>4. CASE a <= g
    BY <1>1, <1>3, <1>4, WindowFacts DEF g
  <1>5. CASE a > g
    <2>1. a \in 1 .. n /\ a - 1 \in Int
      BY <1>1, <1>3, <1>5
    <2>2. SlotOf(a) \in Slot
      BY <2>1, WrapIsSlot DEF SlotOf
    <2>3. t.buf[SlotOf(a)] # a
      BY <1>1, <1>3, <2>1, <2>2 DEF InPlace, Free
    <2>4. r.buf[SlotOf(a)] = a
      <3>1. Delivered(r, g, a)
        BY <2>1, <2>3 DEF LinkInv, g
      <3>2. QED
        BY <1>1, <1>5, <3>1 DEF Delivered
    <2>5. a \in g + 1 .. g + Window
      BY <1>1, <2>1, <2>2, <2>4 DEF RxInv, InPlace, Free
    <2>6. QED
      BY <1>1, <1>3, <2>5, WindowFacts DEF g
  <1>6. QED
    BY <1>1, <1>4, <1>5

\* sprt_tx, seen from the whole stream.
LEMMA LinkSending ==
    ASSUME NEW t, NEW r, NEW n, NEW h, LinkInv(t, r, n, h), Room(t) >= 1, n + 1 <= MaxMsgs
    PROVE  LinkInv(Sending(t, n + 1), r, n + 1, h)
  <1>1. n \in Nat /\ TxInv(t, n) /\ RxInv(r, Len(h), n) /\ Len(h) \in Nat
    BY Spread DEF LinkInv
  <1>2. /\ TxInv(Sending(t, n + 1), n + 1)
        /\ Sending(t, n + 1).buf[SlotOf(n + 1)] = n + 1
        /\ \A m \in 1 .. n : t.buf[SlotOf(m)] = m => Sending(t, n + 1).buf[SlotOf(m)] = m
    BY <1>1, SendingStep
  <1>3. RxInv(r, Len(h), n + 1)
    BY <1>1 DEF RxInv, InPlace
  <1>4. n + 1 \in 0 .. MaxMsgs /\ \A m \in 1 .. n + 1 : m = n + 1 \/ m \in 1 .. n
    BY <1>1, SprtAssumption
  <1>5. QED
    BY <1>2, <1>3, <1>4 DEF LinkInv

\* An acknowledgement of what was delivered, within the life of its number.
LEMMA LinkAcknowledge ==
    ASSUME NEW t, NEW r, NEW n, NEW h, LinkInv(t, r, n, h),
           NEW m \in 1 .. n, n - m < Lifetime, Delivered(r, Len(h), m)
    PROVE  LinkInv(Acknowledge(t, NumberOf(m)), r, n, h)
  <1> DEFINE u == Acknowledge(t, NumberOf(m))
  <1>1. n \in Nat /\ TxInv(t, n)
    BY Spread DEF LinkInv
  <1>2. TxInv(u, n) /\ \A s \in Slot : u.buf[s] = t.buf[s] \/ t.buf[s] = m
    BY <1>1, AcknowledgeStep
  <1> HIDE DEF u
  <1>3. ASSUME NEW i \in 1 .. n
        PROVE  Delivered(r, Len(h), i) \/ u.buf[SlotOf(i)] = i
    <2>1. i - 1 \in Int
      BY <1>1
    <2>2. SlotOf(i) \in Slot
      BY <2>1, WrapIsSlot DEF SlotOf
    <2>3. Delivered(r, Len(h), i) \/ t.buf[SlotOf(i)] = i
      BY DEF LinkInv
    <2>4. QED
      BY <1>2, <2>2, <2>3
  <1>4. LinkInv(u, r, n, h)
    BY <1>2, <1>3 DEF LinkInv
  <1>5. QED
    BY <1>4 DEF u

\* retransmit_the_unacknowledged, seen from the whole stream.
LEMMA LinkResend ==
    ASSUME NEW t, NEW r, NEW n, NEW h, LinkInv(t, r, n, h), NEW k \in 0 .. Len(t.timers)
    PROVE  LinkInv(Resend(t, k), r, n, h)
  <1>1. n \in Nat /\ TxInv(t, n)
    BY Spread DEF LinkInv
  <1>2. TxInv(Resend(t, k), n) /\ Resend(t, k).buf = t.buf
    BY <1>1, ResendStep
  <1>3. QED
    BY <1>2 DEF LinkInv

\* sprt_set_local_busy, seen from the whole stream.
LEMMA LinkBusy ==
    ASSUME NEW t, NEW r, NEW n, NEW h, LinkInv(t, r, n, h), NEW b \in BOOLEAN
    PROVE  LET u == [r EXCEPT !.busy = b]
           IN  LinkInv(t, u, n, h) /\ u.buf = r.buf /\ u.in = r.in /\ u.busy = b
  <1> DEFINE u == [r EXCEPT !.busy = b]
  <1>1. r \in RxRecord
    BY DEF LinkInv, RxInv
  <1>2. u \in RxRecord /\ u.base = r.base /\ u.in = r.in /\ u.buf = r.buf /\ u.busy = b
    BY <1>1 DEF RxRecord
  <1> HIDE DEF u
  <1>3. LinkInv(t, u, n, h)
    BY <1>2 DEF LinkInv, RxInv, Delivered
  <1>4. QED
    BY <1>2, <1>3 DEF u

\* A data packet, seen from the whole stream.
LEMMA LinkAccept ==
    ASSUME NEW t, NEW r, NEW n, NEW h, LinkInv(t, r, n, h), NEW m \in 1 .. n, n - m < Lifetime
    PROVE  LET a == Accept(r, NumberOf(m), m)
           IN  /\ LinkInv(t, a.r, n, h)
               /\ Keeps(r, h, a.r, h, n)
               /\ a.ack => Delivered(a.r, Len(h), m)
               /\ a.r.busy = r.busy
               /\ ~ a.go => a.r.buf[a.r.in] = r.buf[r.in]
               /\ a.ack \in BOOLEAN /\ a.go \in BOOLEAN
  <1> DEFINE a == Accept(r, NumberOf(m), m)
             g == Len(h)
  <1>1. n \in Nat /\ g \in Nat /\ RxInv(r, g, n) /\ n < g + 2 * Window
    BY Spread DEF LinkInv
  <1> HIDE DEF g
  <1>2. /\ RxInv(a.r, g, n)
        /\ a.r.in = r.in /\ a.r.busy = r.busy
        /\ a.ack => Delivered(a.r, g, m)
        /\ \A k \in 1 .. n : Delivered(r, g, k) => Delivered(a.r, g, k)
        /\ ~ a.go => a.r.buf[r.in] = r.buf[r.in]
        /\ a.ack \in BOOLEAN /\ a.go \in BOOLEAN
    BY <1>1, AcceptStep
  <1> HIDE DEF a
  <1>3. LinkInv(t, a.r, n, h)
    BY <1>2 DEF LinkInv, g
  <1>4. Keeps(r, h, a.r, h, n)
    BY <1>2 DEF Keeps, g
  <1>5. QED
    BY <1>2, <1>3, <1>4 DEF a, g

\* sprt_deliver, seen from the whole stream.
LEMMA LinkHandOver ==
    ASSUME NEW t, NEW r, NEW n, NEW h, LinkInv(t, r, n, h),
           NEW k \in 0 .. Ready(r), NEW b \in BOOLEAN
    PROVE  LET u == HandOver(r, k, b)
               v == h \o Run(r, k)
           IN  /\ LinkInv(t, u, n, v)
               /\ Keeps(r, h, u, v, n)
               /\ Len(h) <= Len(v) /\ v \in Seq(Nat)
               /\ u.busy = b
               /\ k = 0 => u.buf[u.in] = r.buf[r.in]
               /\ k = Ready(r) => u.buf[u.in] = Free
  <1> DEFINE u == HandOver(r, k, b)
             v == h \o Run(r, k)
             g == Len(h)
  <1>1. n \in Nat /\ g \in Nat /\ RxInv(r, g, n) /\ h = CountTo(g)
    BY Spread DEF LinkInv
  <1>2. k \in Nat
    BY <1>1, ReadyFacts
  <1> HIDE DEF g
  <1>3. /\ RxInv(u, g + k, n)
        /\ Run(r, k) = [i \in 1 .. k |-> g + i]
        /\ \A m \in 1 .. n : Delivered(r, g, m) => Delivered(u, g + k, m)
        /\ u.busy = b
        /\ k = 0 => u.buf[u.in] = r.buf[r.in]
        /\ k = Ready(r) => u.buf[u.in] = Free
    BY <1>1, HandOverStep
  <1>4. v = CountTo(g + k) /\ Len(v) = g + k /\ v \in Seq(Nat)
    <2>1. CountTo(g) \o [i \in 1 .. k |-> g + i] = CountTo(g + k) /\ Len(CountTo(g + k)) = g + k
      BY <1>1, <1>2, CountFacts
    <2>2. g + k \in Nat
      BY <1>1, <1>2
    <2>3. CountTo(g + k) \in Seq(Nat)
      BY <2>2, CountFacts
    <2>4. QED
      BY <1>1, <1>3, <2>1, <2>3
  <1> HIDE DEF u, v
  <1>5. Keeps(r, h, u, v, n)
    BY <1>3, <1>4 DEF Keeps, g
  <1>6. \A m \in 1 .. n : Delivered(u, Len(v), m) \/ t.buf[SlotOf(m)] = m
    BY <1>5 DEF LinkInv, Keeps
  <1>7. LinkInv(t, u, n, v)
    BY <1>3, <1>4, <1>6 DEF LinkInv
  <1>8. Len(h) <= Len(v)
    BY <1>1, <1>2, <1>4 DEF g
  <1>9. QED
    BY <1>3, <1>4, <1>5, <1>7, <1>8 DEF u, v

\* What is handed over when it may be (go): afterwards nothing waits for an
\* application that is not busy, unless it waited before and nothing was done.
LEMMA LinkDeliver ==
    ASSUME NEW t, NEW r, NEW n, NEW h, LinkInv(t, r, n, h), NEW go \in BOOLEAN,
           NEW d \in IF go THEN Deliveries(r) ELSE {<<0, r.busy>>}
    PROVE  LET u == HandOver(r, d[1], d[2])
               v == h \o Run(r, d[1])
           IN  /\ LinkInv(t, u, n, v)
               /\ Keeps(r, h, u, v, n)
               /\ Len(h) <= Len(v) /\ v \in Seq(Nat)
               /\ ~ u.busy /\ u.buf[u.in] # Free => ~ go /\ ~ r.busy /\ r.buf[r.in] # Free
  <1> DEFINE u == HandOver(r, d[1], d[2])
             v == h \o Run(r, d[1])
  <1>1. n \in Nat /\ Len(h) \in Nat /\ RxInv(r, Len(h), n)
    BY Spread DEF LinkInv
  <1>2. Ready(r) \in 0 .. Window /\ Ready(r) \in Nat
    BY <1>1, ReadyFacts, WindowFacts
  <1>3. r \in RxRecord /\ r.busy \in BOOLEAN
    BY <1>1 DEF RxInv, RxRecord
  <1>4. CASE go
    <2>1. d \in Deliveries(r)
      BY <1>4
    <2>2. d[1] \in 0 .. Ready(r) /\ d[2] \in BOOLEAN /\ (~ d[2] => d[1] = Ready(r))
      BY <1>2, <1>3, <2>1, DeliveriesFacts
    <2>3. /\ LinkInv(t, u, n, v)
          /\ Keeps(r, h, u, v, n)
          /\ Len(h) <= Len(v) /\ v \in Seq(Nat)
          /\ u.busy = d[2]
          /\ d[1] = Ready(r) => u.buf[u.in] = Free
      BY <2>2, LinkHandOver
    <2>4. QED
      BY <2>2, <2>3
  <1>5. CASE ~ go
    <2>1. d = <<0, r.busy>>
      BY <1>5
    <2>2. d[1] = 0 /\ d[2] = r.busy /\ 0 \in 0 .. Ready(r)
      BY <1>2, <2>1
    <2>3. /\ LinkInv(t, u, n, v)
          /\ Keeps(r, h, u, v, n)
          /\ Len(h) <= Len(v) /\ v \in Seq(Nat)
          /\ u.busy = d[2]
          /\ d[1] = 0 => u.buf[u.in] = r.buf[r.in]
      BY <1>3, <2>2, LinkHandOver
    <2>4. QED
      BY <1>5, <2>2, <2>3
  <1>6. QED
    BY <1>4, <1>5

\* A data packet and what it lets through.
LEMMA LinkData ==
    ASSUME NEW t, NEW r, NEW n, NEW h, LinkInv(t, r, n, h), NEW m \in 1 .. n, n - m < Lifetime,
           NEW a, a = Accept(r, NumberOf(m), m),
           NEW d \in IF a.go THEN Deliveries(a.r) ELSE {<<0, a.r.busy>>}
    PROVE  LET u == HandOver(a.r, d[1], d[2])
               v == h \o Run(a.r, d[1])
           IN  /\ LinkInv(t, u, n, v)
               /\ Keeps(r, h, u, v, n)
               /\ a.ack => Delivered(u, Len(v), m)
               /\ a.ack \in BOOLEAN
               /\ Len(h) <= Len(v) /\ v \in Seq(Nat)
               /\ ~ u.busy /\ u.buf[u.in] # Free => ~ r.busy /\ r.buf[r.in] # Free
  <1> DEFINE u == HandOver(a.r, d[1], d[2])
             v == h \o Run(a.r, d[1])
  <1>1. /\ LinkInv(t, a.r, n, h)
        /\ Keeps(r, h, a.r, h, n)
        /\ a.ack => Delivered(a.r, Len(h), m)
        /\ a.r.busy = r.busy
        /\ ~ a.go => a.r.buf[a.r.in] = r.buf[r.in]
        /\ a.ack \in BOOLEAN /\ a.go \in BOOLEAN
    BY LinkAccept
  <1>2. /\ LinkInv(t, u, n, v)
        /\ Keeps(a.r, h, u, v, n)
        /\ Len(h) <= Len(v) /\ v \in Seq(Nat)
        /\ ~ u.busy /\ u.buf[u.in] # Free => ~ a.go /\ ~ a.r.busy /\ a.r.buf[a.r.in] # Free
    BY <1>1, LinkDeliver
  <1> HIDE DEF u, v
  <1>3. Keeps(r, h, u, v, n) /\ (a.ack => Delivered(u, Len(v), m))
    BY <1>1, <1>2 DEF Keeps
  <1>4. QED
    BY <1>1, <1>2, <1>3 DEF u, v

-----------------------------------------------------------------------------
(* The whole state.  Of one end: S is what it has sent, R and G the far     *)
(* channels and what was handed over there.                                 *)

Answer == [ch : Chan, seq : Nat, msg : Nat]

\* Answers to what an end has sent: each is for a message that has arrived.
AnswersOk(q, S, R, G) ==
    /\ q \in Seq(Answer)
    /\ \A i \in 1 .. Len(q) :
          /\ q[i].msg \in 1 .. S[q[i].ch] /\ q[i].seq = NumberOf(q[i].msg)
          /\ Delivered(R[q[i].ch], Len(G[q[i].ch]), q[i].msg)

\* A packet under way to that end, whose far end has sent D.
PacketOk(p, D, S, R, G) ==
    /\ p.msg # Free => p.ch \in Chan /\ p.msg \in 1 .. D[p.ch] /\ p.seq = NumberOf(p.msg)
    /\ AnswersOk(p.acks, S, R, G)

Shapes ==
    /\ tx \in [End -> [Chan -> TxRecord]] /\ rx \in [End -> [Chan -> RxRecord]]
    /\ ackq \in [End -> Seq(Answer)] /\ imm \in [End -> BOOLEAN]
    /\ DOMAIN net = End
    /\ sent \in [End -> [Chan -> Nat]] /\ got \in [End -> [Chan -> Seq(Nat)]]

Links ==
    \A e \in End, c \in Chan : LinkInv(tx[e][c], rx[Peer(e)][c], sent[e][c], got[Peer(e)][c])
Answers ==
    \A e \in End : AnswersOk(ackq[e], sent[Peer(e)], rx[e], got[e]) /\ Len(ackq[e]) <= 2
Packets ==
    \A e \in End : \A p \in net[e] :
        PacketOk(p, sent[Peer(e)], sent[e], rx[Peer(e)], got[Peer(e)])
NoneStranded ==
    \A e \in End, c \in Chan : ~ rx[e][c].busy /\ rx[e][c].buf[rx[e][c].in] # Free => imm[e]

SprtInv == Shapes /\ Links /\ Answers /\ Packets /\ NoneStranded

\* A stream goes on: nothing sent is taken back, nothing delivered is lost.
Growing(S, R, G, S2, R2, G2) ==
    \A c \in Chan : /\ S[c] \in Nat /\ S2[c] \in Nat /\ S[c] <= S2[c]
                    /\ Keeps(R[c], G[c], R2[c], G2[c], S[c])
                    /\ Len(G[c]) <= Len(G2[c])
Grows == \A e \in End : Growing(sent[e], rx[Peer(e)], got[Peer(e)],
                                sent'[e], rx'[Peer(e)], got'[Peer(e)])

\* There are two ends.
LEMMA PeerFacts ==
    ASSUME NEW e \in End
    PROVE  /\ Peer(e) \in End /\ Peer(e) # e /\ Peer(Peer(e)) = e
           /\ \A x \in End : x # e => x = Peer(e)
  <1>1. PICK a, b : a # b /\ End = {a, b}
    BY SprtAssumption
  <1>2. ASSUME NEW x \in End PROVE Peer(x) \in End /\ Peer(x) # x
    <2>1. \E f \in End : f # x
      BY <1>1
    <2>2. QED
      BY <2>1 DEF Peer
  <1>3. QED
    BY <1>1, <1>2

\* An answer stays true.
LEMMA AnswersStay ==
    ASSUME NEW S, NEW R, NEW G, NEW S2, NEW R2, NEW G2, Growing(S, R, G, S2, R2, G2),
           NEW q, AnswersOk(q, S, R, G)
    PROVE  AnswersOk(q, S2, R2, G2)
  <1> SUFFICES ASSUME NEW i \in 1 .. Len(q)
               PROVE  /\ q[i].msg \in 1 .. S2[q[i].ch] /\ q[i].seq = NumberOf(q[i].msg)
                      /\ Delivered(R2[q[i].ch], Len(G2[q[i].ch]), q[i].msg)
    BY DEF AnswersOk
  <1> DEFINE c == q[i].ch
             m == q[i].msg
  <1>1. c \in Chan /\ m \in 1 .. S[c] /\ q[i].seq = NumberOf(m) /\ Delivered(R[c], Len(G[c]), m)
    <2>1. q \in Seq(Answer)
      BY DEF AnswersOk
    <2>2. q[i] \in Answer
      BY <2>1
    <2>3. c \in Chan
      BY <2>2 DEF Answer
    <2>4. QED
      BY <2>3 DEF AnswersOk
  <1> HIDE DEF c, m
  <1>2. m \in 1 .. S2[c] /\ Delivered(R2[c], Len(G2[c]), m)
    BY <1>1 DEF Growing, Keeps
  <1>3. QED
    BY <1>1, <1>2 DEF c, m

\* So does what a packet says.
LEMMA PacketsStay ==
    ASSUME Packets, Grows, NEW e \in End, NEW p \in net[e]
    PROVE  PacketOk(p, sent'[Peer(e)], sent'[e], rx'[Peer(e)], got'[Peer(e)])
  <1>1. PacketOk(p, sent[Peer(e)], sent[e], rx[Peer(e)], got[Peer(e)])
    BY DEF Packets
  <1>2. /\ Growing(sent[e], rx[Peer(e)], got[Peer(e)], sent'[e], rx'[Peer(e)], got'[Peer(e)])
        /\ \A c \in Chan : sent[Peer(e)][c] \in Nat /\ sent'[Peer(e)][c] \in Nat
                           /\ sent[Peer(e)][c] <= sent'[Peer(e)][c]
    BY PeerFacts DEF Grows, Growing
  <1>3. AnswersOk(p.acks, sent'[e], rx'[Peer(e)], got'[Peer(e)])
    BY <1>1, <1>2, AnswersStay DEF PacketOk
  <1>4. ASSUME p.msg # Free
        PROVE  p.ch \in Chan /\ p.msg \in 1 .. sent'[Peer(e)][p.ch] /\ p.seq = NumberOf(p.msg)
    <2> DEFINE c == p.ch
               m == p.msg
    <2>1. c \in Chan /\ m \in 1 .. sent[Peer(e)][c] /\ p.seq = NumberOf(m)
      BY <1>1, <1>4 DEF PacketOk
    <2> HIDE DEF c, m
    <2>2. m \in 1 .. sent'[Peer(e)][c]
      BY <1>2, <2>1
    <2>3. QED
      BY <2>1, <2>2 DEF c, m
  <1>5. QED
    BY <1>3, <1>4 DEF PacketOk

\* Queued answers too.
LEMMA QueuesStay ==
    ASSUME Answers, Grows, NEW e \in End
    PROVE  AnswersOk(ackq[e], sent'[Peer(e)], rx'[e], got'[e]) /\ Len(ackq[e]) <= 2
  <1>1. AnswersOk(ackq[e], sent[Peer(e)], rx[e], got[e]) /\ Len(ackq[e]) <= 2
    BY DEF Answers
  <1>2. Growing(sent[Peer(e)], rx[e], got[e], sent'[Peer(e)], rx'[e], got'[e])
    BY PeerFacts DEF Grows
  <1>3. QED
    BY <1>1, <1>2, AnswersStay

\* A packet without answers, and one that has been sent before.
LEMMA NoAnswers ==
    ASSUME NEW S, NEW R, NEW G
    PROVE  AnswersOk(<<>>, S, R, G)
  BY DEF AnswersOk

\* What is under way after something was sent.
LEMMA CarryFacts ==
    ASSUME NEW n, DOMAIN n = End, NEW f \in End, NEW new, Carry(n, f, new)
    PROVE  /\ DOMAIN net' = End
           /\ \A x \in End : \A p \in net'[x] : p \in n[x] \/ (x = f /\ p \in new)
  BY DEF Carry

-----------------------------------------------------------------------------
(* One step per action.                                                     *)

\* sprt_init.
LEMMA InitStep ==
    ASSUME Init
    PROVE  SprtInv
  <1> DEFINE z == [s \in Slot |-> Free]
  <1>1. z \in [Slot -> Nat] /\ [s \in Slot |-> 0] \in [Slot -> Nat] /\ 0 \in Slot
    BY WindowFacts DEF Slot, Free
  <1>2. First \in Nat /\ NumberOf(0 + 1) = First /\ Wrap(0) = 0 /\ 0 \in 0 .. MaxMsgs
    <2>1. First \in 0 .. SeqSpace - 1 /\ First + (0 + 1) - 1 = First
      BY SprtAssumption
    <2>2. First % SeqSpace = First
      BY <2>1, WindowFacts, ModSmall
    <2>3. QED
      BY <1>1, <2>1, <2>2, WrapIsSlot, SprtAssumption DEF NumberOf
  <1>3. TxInit \in TxRecord /\ RxInit \in RxRecord /\ <<>> \in Seq(Slot)
    BY <1>1, <1>2 DEF TxInit, RxInit, TxRecord, RxRecord
  <1>4. LinkInv(TxInit, RxInit, 0, <<>>)
    <2>1. TimersInv(TxInit)
      BY SprtAssumption DEF TimersInv, TxInit
    <2>2. AckedTo(TxInit, 0, 0)
      BY <1>2, WindowFacts DEF AckedTo, TxInit, InPlace
    <2>3. TxInv(TxInit, 0)
      <3>1. TxInit.q = First /\ TxInit.in = 0
        BY DEF TxInit
      <3>2. QED
        BY <1>2, <1>3, <2>1, <2>2, <3>1 DEF TxInv
    <2>4. RxInv(RxInit, 0, 0)
      <3>1. RxInit.base = First /\ RxInit.in = 0
        BY DEF RxInit
      <3>2. InPlace(RxInit.buf, 0 + 1, 0) /\ InPlace(RxInit.buf, 0 + 1, 0 + Window)
        BY DEF RxInit, InPlace
      <3>3. QED
        BY <1>2, <1>3, <3>1, <3>2 DEF RxInv
    <2>5. <<>> = CountTo(0) /\ Len(<<>>) = 0
      BY DEF CountTo
    <2>6. QED
      BY <1>2, <2>3, <2>4, <2>5 DEF LinkInv
  <1>5. \A e \in End, c \in Chan :
           /\ tx[e][c] = TxInit /\ rx[e][c] = RxInit /\ sent[e][c] = 0 /\ got[e][c] = <<>>
           /\ ackq[e] = <<>> /\ net[e] = {}
    BY DEF Init
  <1>6. Shapes
    BY <1>3 DEF Init, Shapes
  <1>7. Links
    BY <1>4, <1>5, PeerFacts DEF Links
  <1>8. Answers /\ Packets
    BY NoAnswers DEF Init, Answers, Packets
  <1>9. NoneStranded
    BY <1>1, <1>5 DEF NoneStranded, RxInit
  <1>10. QED
    BY <1>6, <1>7, <1>8, <1>9 DEF SprtInv

\* sprt_tx.
LEMMA TxStep ==
    ASSUME SprtInv, NEW e \in End, NEW c \in Chan, sprt_tx(e, c)
    PROVE  SprtInv' /\ Grows
  <1> DEFINE t == tx[e][c]
             n == sent[e][c]
             f == Peer(e)
             p == Packet(c, t.q, n + 1, ackq[e])
  <1>1. f \in End /\ f # e /\ Peer(f) = e /\ \A x \in End : x # e => x = f
    BY PeerFacts
  <1>2. LinkInv(t, rx[f][c], n, got[f][c]) /\ n \in Nat
    BY DEF SprtInv, Links, Shapes
  <1>3. /\ n + 1 <= MaxMsgs /\ Room(t) >= 1
        /\ tx' = [tx EXCEPT ![e][c] = Sending(t, n + 1)]
        /\ sent' = [sent EXCEPT ![e][c] = n + 1]
        /\ ackq' = [ackq EXCEPT ![e] = <<>>]
        /\ Carry(net, f, {p})
        /\ rx' = rx /\ imm' = imm /\ got' = got
    BY DEF sprt_tx, Sending
  <1>4. LinkInv(Sending(t, n + 1), rx[f][c], n + 1, got[f][c])
    BY <1>2, <1>3, LinkSending
  <1>5. Sending(t, n + 1) \in TxRecord
    BY <1>4 DEF LinkInv, TxInv
  <1>6. Shapes'
    <2>1. DOMAIN net' = End
      BY <1>1, <1>3, CarryFacts DEF SprtInv, Shapes
    <2>2. tx' \in [End -> [Chan -> TxRecord]]
      BY <1>3, <1>5 DEF SprtInv, Shapes
    <2>3. sent' \in [End -> [Chan -> Nat]]
      BY <1>2, <1>3 DEF SprtInv, Shapes
    <2>4. ackq' \in [End -> Seq(Answer)]
      BY <1>3 DEF SprtInv, Shapes
    <2>5. QED
      BY <1>3, <2>1, <2>2, <2>3, <2>4 DEF SprtInv, Shapes
  <1>7. \A x \in End, y \in Chan :
           /\ tx'[x][y] = IF x = e /\ y = c THEN Sending(t, n + 1) ELSE tx[x][y]
           /\ sent'[x][y] = IF x = e /\ y = c THEN n + 1 ELSE sent[x][y]
    BY <1>3 DEF SprtInv, Shapes
  <1>8. Grows
    <2>1. \A x \in End, y \in Chan : sent[x][y] \in Nat /\ Len(got[Peer(x)][y]) \in Nat
      BY PeerFacts DEF SprtInv, Shapes
    <2>2. QED
      BY <1>2, <1>3, <1>7, <2>1 DEF Grows, Growing, Keeps
  <1>9. Links'
    BY <1>3, <1>4, <1>7 DEF SprtInv, Links
  <1>10. Answers'
    <2> SUFFICES ASSUME NEW x \in End
                 PROVE  AnswersOk(ackq'[x], sent'[Peer(x)], rx'[x], got'[x]) /\ Len(ackq'[x]) <= 2
      BY DEF Answers
    <2>1. ackq'[x] = IF x = e THEN <<>> ELSE ackq[x]
      BY <1>3 DEF SprtInv, Shapes
    <2>2. QED
      BY <1>8, <2>1, QueuesStay, NoAnswers DEF SprtInv
  <1>11. Packets'
    <2> SUFFICES ASSUME NEW x \in End, NEW y \in net'[x]
                 PROVE  PacketOk(y, sent'[Peer(x)], sent'[x], rx'[Peer(x)], got'[Peer(x)])
      BY DEF Packets
    <2>1. y \in net[x] \/ (x = f /\ y = p)
      BY <1>1, <1>3, CarryFacts DEF SprtInv, Shapes
    <2>2. CASE y \in net[x]
      BY <1>8, <2>2, PacketsStay DEF SprtInv
    <2>3. CASE x = f /\ y = p
      <3>1. p.ch = c /\ p.seq = t.q /\ p.msg = n + 1 /\ p.acks = ackq[e]
        BY DEF Packet
      <3>2. t.q = NumberOf(n + 1)
        BY <1>2 DEF LinkInv, TxInv
      <3>3. n + 1 \in 1 .. sent'[e][c]
        BY <1>2, <1>7
      <3>4. AnswersOk(ackq[e], sent'[f], rx'[e], got'[e])
        BY <1>8, QueuesStay DEF SprtInv
      <3> HIDE DEF p, t, n
      <3>5. PacketOk(p, sent'[e], sent'[f], rx'[e], got'[e])
        BY <3>1, <3>2, <3>3, <3>4 DEF PacketOk
      <3>6. QED
        BY <1>1, <2>3, <3>5
    <2>4. QED
      BY <2>1, <2>2, <2>3
  <1>12. NoneStranded'
    BY <1>3 DEF SprtInv, NoneStranded
  <1>13. QED
    BY <1>6, <1>8, <1>9, <1>10, <1>11, <1>12 DEF SprtInv

\* sprt_set_local_busy.
LEMMA BusyStep ==
    ASSUME SprtInv, NEW e \in End, NEW c \in Chan, NEW b \in BOOLEAN, sprt_set_local_busy(e, c, b)
    PROVE  SprtInv' /\ Grows
  <1> DEFINE f == Peer(e)
             u == [rx[e][c] EXCEPT !.busy = b]
  <1>1. f \in End /\ f # e /\ Peer(f) = e /\ \A x \in End : x # e => x = f
    BY PeerFacts
  <1>2. /\ rx' = [rx EXCEPT ![e][c] = u]
        /\ imm' = [imm EXCEPT ![e] = imm[e] \/ ~b]
        /\ tx' = tx /\ ackq' = ackq /\ net' = net /\ sent' = sent /\ got' = got
    BY DEF sprt_set_local_busy
  <1>3. LinkInv(tx[f][c], rx[e][c], sent[f][c], got[e][c])
    BY <1>1 DEF SprtInv, Links
  <1>4. /\ LinkInv(tx[f][c], u, sent[f][c], got[e][c])
        /\ u.buf = rx[e][c].buf /\ u.in = rx[e][c].in /\ u.busy = b
    BY <1>3, LinkBusy
  <1>5. u \in RxRecord
    BY <1>4 DEF LinkInv, RxInv
  <1> HIDE DEF u
  <1>6. \A x \in End, y \in Chan : rx'[x][y] = IF x = e /\ y = c THEN u ELSE rx[x][y]
    BY <1>2 DEF SprtInv, Shapes
  <1>7. Shapes'
    BY <1>2, <1>5 DEF SprtInv, Shapes
  <1>8. Grows
    <2>1. \A x \in End, y \in Chan : sent[x][y] \in Nat /\ Len(got[Peer(x)][y]) \in Nat
      BY PeerFacts DEF SprtInv, Shapes
    <2>2. \A x \in End, y \in Chan : rx'[x][y].buf = rx[x][y].buf
      BY <1>4, <1>6
    <2>3. QED
      BY <1>2, <2>1, <2>2, PeerFacts DEF Grows, Growing, Keeps, Delivered
  <1>9. Links'
    <2> SUFFICES ASSUME NEW x \in End, NEW y \in Chan
                 PROVE  LinkInv(tx[x][y], rx'[Peer(x)][y], sent[x][y], got[Peer(x)][y])
      BY <1>2 DEF Links
    <2>1. CASE Peer(x) = e /\ y = c
      BY <1>1, <1>4, <1>6, <2>1, PeerFacts
    <2>2. CASE ~ (Peer(x) = e /\ y = c)
      BY <1>6, <2>2, PeerFacts DEF SprtInv, Links
    <2>3. QED
      BY <2>1, <2>2
  <1>10. Answers'
    BY <1>2, <1>8, QueuesStay DEF SprtInv, Answers
  <1>11. Packets'
    BY <1>2, <1>8, PacketsStay DEF SprtInv, Packets
  <1>12. NoneStranded'
    <2> SUFFICES ASSUME NEW x \in End, NEW y \in Chan,
                        ~ rx'[x][y].busy, rx'[x][y].buf[rx'[x][y].in] # Free
                 PROVE  imm'[x]
      BY DEF NoneStranded
    <2>1. imm'[x] = IF x = e THEN imm[e] \/ ~b ELSE imm[x]
      BY <1>2 DEF SprtInv, Shapes
    <2>2. CASE x = e /\ y = c
      BY <1>4, <1>6, <2>1, <2>2
    <2>3. CASE ~ (x = e /\ y = c)
      <3>1. imm[x]
        BY <1>6, <2>3 DEF SprtInv, NoneStranded
      <3>2. QED
        BY <2>1, <3>1
    <2>4. QED
      BY <2>2, <2>3
  <1>13. QED
    BY <1>7, <1>8, <1>9, <1>10, <1>11, <1>12 DEF SprtInv

\* The network loses a packet.
LEMMA LoseStep ==
    ASSUME SprtInv, NEW e \in End, NEW p, Lose(e, p)
    PROVE  SprtInv' /\ Grows
  <1>1. /\ net' = [net EXCEPT ![e] = net[e] \ {p}]
        /\ tx' = tx /\ rx' = rx /\ ackq' = ackq /\ imm' = imm /\ sent' = sent /\ got' = got
    BY DEF Lose
  <1>2. DOMAIN net' = End /\ \A x \in End : \A y \in net'[x] : y \in net[x]
    BY <1>1 DEF SprtInv, Shapes
  <1>3. Shapes' /\ Links' /\ Answers' /\ NoneStranded'
    BY <1>1, <1>2 DEF SprtInv, Shapes, Links, Answers, NoneStranded
  <1>4. Packets'
    BY <1>1, <1>2 DEF SprtInv, Packets
  <1>5. Grows
    <2>1. \A x \in End, y \in Chan : sent[x][y] \in Nat /\ Len(got[Peer(x)][y]) \in Nat
      BY PeerFacts DEF SprtInv, Shapes
    <2>2. QED
      BY <1>1, <2>1 DEF Grows, Growing, Keeps
  <1>6. QED
    BY <1>3, <1>4, <1>5 DEF SprtInv

\* What an end does when a packet or a timer calls upon it: to its own channels
\* and answers, and in the packets it sends.
LEMMA EndStep ==
    ASSUME SprtInv, NEW e \in End, NEW f, f = Peer(e), Shapes', sent' = sent,
           tx'[f] = tx[f], rx'[f] = rx[f], got'[f] = got[f], ackq'[f] = ackq[f], imm'[f] = imm[f],
           \A y \in Chan : LinkInv(tx'[e][y], rx[f][y], sent[e][y], got[f][y]),
           \A y \in Chan : /\ LinkInv(tx[f][y], rx'[e][y], sent[f][y], got'[e][y])
                           /\ Keeps(rx[e][y], got[e][y], rx'[e][y], got'[e][y], sent[f][y])
                           /\ Len(got[e][y]) <= Len(got'[e][y])
                           /\ ~ rx'[e][y].busy /\ rx'[e][y].buf[rx'[e][y].in] # Free => imm'[e],
           AnswersOk(ackq'[e], sent[f], rx'[e], got'[e]), Len(ackq'[e]) <= 2,
           \A x \in End : \A p \in net'[x] :
               p \in net[x] \/ (x = f /\ PacketOk(p, sent[e], sent[f], rx'[e], got'[e]))
    PROVE  SprtInv' /\ Grows
  <1>1. f \in End /\ f # e /\ Peer(f) = e /\ \A x \in End : x # e => x = f
    BY PeerFacts
  <1>2. Grows
    <2>1. \A x \in End, y \in Chan : sent[x][y] \in Nat /\ Len(got[Peer(x)][y]) \in Nat
      BY PeerFacts DEF SprtInv, Shapes
    <2> SUFFICES ASSUME NEW x \in End
                 PROVE  Growing(sent[x], rx[Peer(x)], got[Peer(x)], sent'[x], rx'[Peer(x)], got'[Peer(x)])
      BY DEF Grows
    <2>2. CASE x = e
      BY <2>1, <2>2 DEF Growing, Keeps
    <2>3. CASE x = f
      BY <1>1, <2>1, <2>3 DEF Growing
    <2>4. QED
      BY <1>1, <2>2, <2>3
  <1>3. Links'
    <2> SUFFICES ASSUME NEW x \in End, NEW y \in Chan
                 PROVE  LinkInv(tx'[x][y], rx'[Peer(x)][y], sent'[x][y], got'[Peer(x)][y])
      BY DEF Links
    <2>1. CASE x = e
      BY <2>1
    <2>2. CASE x = f
      BY <1>1, <2>2
    <2>3. QED
      BY <1>1, <2>1, <2>2
  <1>4. Answers'
    <2> SUFFICES ASSUME NEW x \in End
                 PROVE  AnswersOk(ackq'[x], sent'[Peer(x)], rx'[x], got'[x]) /\ Len(ackq'[x]) <= 2
      BY DEF Answers
    <2>1. CASE x = e
      BY <2>1
    <2>2. CASE x = f
      BY <1>1, <1>2, <2>2, QueuesStay DEF SprtInv
    <2>3. QED
      BY <1>1, <2>1, <2>2
  <1>5. Packets'
    <2> SUFFICES ASSUME NEW x \in End, NEW p \in net'[x]
                 PROVE  PacketOk(p, sent'[Peer(x)], sent'[x], rx'[Peer(x)], got'[Peer(x)])
      BY DEF Packets
    <2>1. CASE p \in net[x]
      BY <1>2, <2>1, PacketsStay DEF SprtInv
    <2>2. CASE x = f /\ PacketOk(p, sent[e], sent[f], rx'[e], got'[e])
      BY <1>1, <2>2
    <2>3. QED
      BY <2>1, <2>2
  <1>6. NoneStranded'
    <2> SUFFICES ASSUME NEW x \in End, NEW y \in Chan,
                        ~ rx'[x][y].busy, rx'[x][y].buf[rx'[x][y].in] # Free
                 PROVE  imm'[x]
      BY DEF NoneStranded
    <2>1. CASE x = e
      BY <2>1
    <2>2. CASE x = f
      BY <1>1, <2>2 DEF SprtInv, NoneStranded
    <2>3. QED
      BY <1>1, <2>1, <2>2
  <1>7. QED
    BY <1>2, <1>3, <1>4, <1>5, <1>6 DEF SprtInv

\* One entry of the acknowledgements in a packet.
LEMMA EntryStep ==
    ASSUME NEW A \in [Chan -> TxRecord], NEW R, NEW S, NEW G,
           \A c \in Chan : LinkInv(A[c], R[c], S[c], G[c]),
           NEW acks, AnswersOk(acks, S, R, G),
           \A i \in DOMAIN acks : S[acks[i].ch] - acks[i].msg < Lifetime,
           NEW i
    PROVE  LET B == AcknowledgeEntry(A, acks, i)
           IN  B \in [Chan -> TxRecord] /\ \A c \in Chan : LinkInv(B[c], R[c], S[c], G[c])
  <1> DEFINE B == AcknowledgeEntry(A, acks, i)
             d == acks[i].ch
             m == acks[i].msg
             u == Acknowledge(A[d], acks[i].seq)
  <1>1. CASE i \notin DOMAIN acks
    BY <1>1 DEF AcknowledgeEntry
  <1>2. CASE i \in DOMAIN acks
    <2>1. d \in Chan /\ m \in 1 .. S[d] /\ acks[i].seq = NumberOf(m) /\ Delivered(R[d], Len(G[d]), m)
          /\ S[d] - m < Lifetime
      <3>1. acks \in Seq(Answer) /\ i \in 1 .. Len(acks)
        BY <1>2 DEF AnswersOk
      <3>2. acks[i] \in Answer
        BY <3>1
      <3>3. d \in Chan
        BY <3>2 DEF Answer
      <3>4. QED
        BY <1>2, <3>1, <3>3 DEF AnswersOk
    <2>2. LinkInv(u, R[d], S[d], G[d])
      <3>1. LinkInv(A[d], R[d], S[d], G[d])
        BY <2>1
      <3> DEFINE t == A[d]
                 seq == acks[i].seq
      <3>2. LinkInv(t, R[d], S[d], G[d]) /\ seq = NumberOf(m)
        BY <2>1, <3>1
      <3> HIDE DEF t, seq, d, m
      <3>3. LinkInv(Acknowledge(t, NumberOf(m)), R[d], S[d], G[d])
        BY <2>1, <3>2, LinkAcknowledge
      <3>4. QED
        BY <3>2, <3>3 DEF t, seq, d
    <2>3. B = [A EXCEPT ![d] = u]
      BY <1>2 DEF AcknowledgeEntry
    <2>4. u \in TxRecord
      BY <2>2 DEF LinkInv, TxInv
    <2> HIDE DEF B, u, d
    <2>5. B \in [Chan -> TxRecord] /\ \A c \in Chan : LinkInv(B[c], R[c], S[c], G[c])
      BY <2>1, <2>2, <2>3, <2>4
    <2>6. QED
      BY <2>5 DEF B
  <1>3. QED
    BY <1>1, <1>2

\* All the acknowledgements of a packet.
LEMMA EntriesStep ==
    ASSUME NEW A \in [Chan -> TxRecord], NEW R, NEW S, NEW G,
           \A c \in Chan : LinkInv(A[c], R[c], S[c], G[c]),
           NEW acks, AnswersOk(acks, S, R, G),
           \A i \in DOMAIN acks : S[acks[i].ch] - acks[i].msg < Lifetime
    PROVE  LET B == process_acknowledgements(A, acks)
           IN  B \in [Chan -> TxRecord] /\ \A c \in Chan : LinkInv(B[c], R[c], S[c], G[c])
  <1> DEFINE A1 == AcknowledgeEntry(A, acks, 1)
             A2 == AcknowledgeEntry(A1, acks, 2)
             A3 == AcknowledgeEntry(A2, acks, 3)
  <1>1. A1 \in [Chan -> TxRecord] /\ \A c \in Chan : LinkInv(A1[c], R[c], S[c], G[c])
    BY EntryStep
  <1> HIDE DEF A1
  <1>2. A2 \in [Chan -> TxRecord] /\ \A c \in Chan : LinkInv(A2[c], R[c], S[c], G[c])
    BY <1>1, EntryStep
  <1> HIDE DEF A2
  <1>3. A3 \in [Chan -> TxRecord] /\ \A c \in Chan : LinkInv(A3[c], R[c], S[c], G[c])
    BY <1>2, EntryStep
  <1>4. process_acknowledgements(A, acks) = A3
    BY DEF process_acknowledgements, A1, A2
  <1>5. QED
    BY <1>3, <1>4

\* An answer that joins the queue.
LEMMA QueuedStep ==
    ASSUME NEW q, NEW S, NEW R, NEW G, AnswersOk(q, S, R, G), Len(q) <= 2,
           NEW c \in Chan, NEW m \in 1 .. S[c], m \in Nat, Delivered(R[c], Len(G[c]), m)
    PROVE  LET a == [ch |-> c, seq |-> NumberOf(m), msg |-> m]
           IN  AnswersOk(Queued(q, a), S, R, G)
  <1> DEFINE a == [ch |-> c, seq |-> NumberOf(m), msg |-> m]
             w == Append(q, a)
  <1>1. a.ch = c /\ a.seq = NumberOf(m) /\ a.msg = m
    OBVIOUS
  <1>2. a \in Answer
    BY NumberFacts DEF Answer
  <1>3. q \in Seq(Answer) /\ Queued(q, a) \in {q, w}
    BY DEF AnswersOk, Queued
  <1> HIDE DEF a
  <1>4. /\ w \in Seq(Answer) /\ Len(w) = Len(q) + 1 /\ w[Len(q) + 1] = a /\ Len(q) \in Nat
        /\ \A i \in 1 .. Len(q) : w[i] = q[i]
    BY <1>2, <1>3
  <1> HIDE DEF w
  <1>5. \A i \in 1 .. Len(w) : i = Len(q) + 1 \/ i \in 1 .. Len(q)
    BY <1>4
  <1>6. AnswersOk(w, S, R, G)
    <2> SUFFICES ASSUME NEW i \in 1 .. Len(w)
                 PROVE  /\ w[i].msg \in 1 .. S[w[i].ch] /\ w[i].seq = NumberOf(w[i].msg)
                        /\ Delivered(R[w[i].ch], Len(G[w[i].ch]), w[i].msg)
      BY <1>4 DEF AnswersOk
    <2>1. CASE i = Len(q) + 1
      BY <1>1, <1>4, <2>1
    <2>2. CASE i \in 1 .. Len(q)
      BY <1>4, <2>2 DEF AnswersOk
    <2>3. QED
      BY <1>5, <2>1, <2>2
  <1>7. QED
    BY <1>3, <1>6 DEF a, w

\* The data of a packet.
LEMMA DataStep ==
    ASSUME SprtInv, NEW e \in End, NEW p \in net[e], InTime(e, p), p.msg # Free,
           NEW n0, n0 \in Received(e, p), RxData(e, p, n0),
           tx' = [tx EXCEPT ![e] = process_acknowledgements(@, p.acks)],
           tx'[e] \in [Chan -> TxRecord], imm' = imm, sent' = sent,
           \A y \in Chan : LinkInv(tx'[e][y], rx[Peer(e)][y], sent[e][y], got[Peer(e)][y])
    PROVE  SprtInv' /\ Grows
  <1> DEFINE f == Peer(e)
             c == p.ch
             m == p.msg
             a == Accept(rx[e][c], p.seq, m)
             w == [ch |-> c, seq |-> p.seq, msg |-> m]
             q == IF a.ack THEN Queued(ackq[e], w) ELSE ackq[e]
  <1>1. f \in End /\ f # e /\ Peer(f) = e /\ \A x \in End : x # e => x = f
    BY PeerFacts
  <1>2. c \in Chan /\ m \in 1 .. sent[f][c] /\ m \in Nat /\ p.seq = NumberOf(m) /\ sent[f][c] - m < Lifetime
    <2>1. PacketOk(p, sent[f], sent[e], rx[f], got[f])
      BY DEF SprtInv, Packets
    <2>2. sent[f][p.ch] - p.msg < Lifetime
      BY SMTT(60) DEF InTime
    <2>3. QED
      BY <2>1, <2>2 DEF PacketOk
  <1>3. PICK d \in IF a.go THEN Deliveries(a.r) ELSE {<<0, a.r.busy>>} :
           /\ rx' = [rx EXCEPT ![e][c] = HandOver(a.r, d[1], d[2])]
           /\ got' = [got EXCEPT ![e][c] = got[e][c] \o Run(a.r, d[1])]
    BY DEF RxData
  <1>4. IF Full(q)
        THEN ackq' = [ackq EXCEPT ![e] = <<>>] /\ Carry(n0, f, {AckPacket(c, q)})
        ELSE ackq' = [ackq EXCEPT ![e] = q] /\ net' = n0
    BY DEF RxData
  <1> DEFINE u == HandOver(a.r, d[1], d[2])
             v == got[e][c] \o Run(a.r, d[1])
  <1>5. LinkInv(tx[f][c], rx[e][c], sent[f][c], got[e][c])
    BY <1>1, <1>2 DEF SprtInv, Links
  <1>6. /\ LinkInv(tx[f][c], u, sent[f][c], v)
        /\ Keeps(rx[e][c], got[e][c], u, v, sent[f][c])
        /\ a.ack => Delivered(u, Len(v), m)
        /\ a.ack \in BOOLEAN
        /\ Len(got[e][c]) <= Len(v) /\ v \in Seq(Nat)
        /\ ~ u.busy /\ u.buf[u.in] # Free => ~ rx[e][c].busy /\ rx[e][c].buf[rx[e][c].in] # Free
    <2> DEFINE t == tx[f][c]
               r == rx[e][c]
               n == sent[f][c]
               h == got[e][c]
    <2>1. a = Accept(r, NumberOf(m), m)
      BY <1>2
    <2>2. LinkInv(t, r, n, h) /\ m \in 1 .. n /\ n - m < Lifetime
      BY <1>2, <1>5
    <2> HIDE DEF t, r, n, h, m, a
    <2>5. d \in IF a.go THEN Deliveries(a.r) ELSE {<<0, a.r.busy>>}
      OBVIOUS
    <2>3. LinkInv(t, HandOver(a.r, d[1], d[2]), n, h \o Run(a.r, d[1]))
          /\ Keeps(r, h, HandOver(a.r, d[1], d[2]), h \o Run(a.r, d[1]), n)
      BY <2>1, <2>2, <2>5, LinkData
    <2>4. (a.ack => Delivered(HandOver(a.r, d[1], d[2]), Len(h \o Run(a.r, d[1])), m)) /\ a.ack \in BOOLEAN
      BY <2>1, <2>2, <2>5, LinkData
    <2>6. Len(h) <= Len(h \o Run(a.r, d[1])) /\ h \o Run(a.r, d[1]) \in Seq(Nat)
      BY <2>1, <2>2, <2>5, LinkData
    <2>7. LET x == HandOver(a.r, d[1], d[2])
          IN  ~ x.busy /\ x.buf[x.in] # Free => ~ r.busy /\ r.buf[r.in] # Free
      BY <2>1, <2>2, <2>5, LinkData, SMTT(60)
    <2>8. QED
      BY <2>3, <2>4, <2>6, <2>7 DEF t, r, n, h
  <1>7. u \in RxRecord
    BY <1>6, ZenonT(60) DEF LinkInv, RxInv
  <1>8. \A y \in Chan : /\ rx'[e][y] = IF y = c THEN u ELSE rx[e][y]
                        /\ got'[e][y] = IF y = c THEN v ELSE got[e][y]
    BY <1>2, <1>3, SMTT(60) DEF SprtInv, Shapes
  <1>9. rx' \in [End -> [Chan -> RxRecord]] /\ got' \in [End -> [Chan -> Seq(Nat)]]
    BY <1>2, <1>3, <1>6, <1>7, ZenonT(60) DEF SprtInv, Shapes
  <1>10. rx'[f] = rx[f] /\ got'[f] = got[f]
    BY <1>1, <1>3 DEF SprtInv, Shapes
  <1> HIDE DEF u, v
  <1>11. \A y \in Chan : /\ LinkInv(tx[f][y], rx'[e][y], sent[f][y], got'[e][y])
                         /\ Keeps(rx[e][y], got[e][y], rx'[e][y], got'[e][y], sent[f][y])
                         /\ Len(got[e][y]) <= Len(got'[e][y])
                         /\ ~ rx'[e][y].busy /\ rx'[e][y].buf[rx'[e][y].in] # Free => imm'[e]
    <2> TAKE y \in Chan
    <2>1. imm'[e] = imm[e] /\ Len(got[e][y]) \in Nat
      BY DEF SprtInv, Shapes
    <2>2. CASE y = c
      BY <1>6, <1>8, <2>1, <2>2 DEF SprtInv, NoneStranded
    <2>3. CASE y # c
      <3>1. rx'[e][y] = rx[e][y] /\ got'[e][y] = got[e][y]
        BY <1>8, <2>3
      <3>2. LinkInv(tx[f][y], rx[e][y], sent[f][y], got[e][y])
        BY <1>1 DEF SprtInv, Links
      <3>3. QED
        BY <2>1, <3>1, <3>2 DEF Keeps, SprtInv, NoneStranded
    <2>4. QED
      BY <2>2, <2>3
  <1>12. AnswersOk(q, sent[f], rx'[e], got'[e])
    <2>1. Growing(sent[f], rx[e], got[e], sent[f], rx'[e], got'[e])
      BY <1>1, <1>11 DEF Growing, SprtInv, Shapes
    <2>2. AnswersOk(ackq[e], sent[f], rx[e], got[e]) /\ Len(ackq[e]) <= 2
      BY DEF SprtInv, Answers
    <2>3. AnswersOk(ackq[e], sent[f], rx'[e], got'[e])
      BY <2>1, <2>2, AnswersStay
    <2>4. CASE ~ a.ack
      BY <2>3, <2>4
    <2>5. CASE a.ack
      <3>1. Delivered(rx'[e][c], Len(got'[e][c]), m)
        BY <1>2, <1>6, <1>8, <2>5
      <3>2. q = Queued(ackq[e], [ch |-> c, seq |-> NumberOf(m), msg |-> m])
        BY <1>2, <2>5
      <3> HIDE DEF c, m, q
      <3>3. QED
        BY <1>2, <2>2, <2>3, <3>1, <3>2, QueuedStep
    <2>6. QED
      BY <2>4, <2>5
  <1>13. DOMAIN n0 = End /\ \A x \in End : \A y \in n0[x] : y \in net[x]
    BY DEF Received, SprtInv, Shapes
  <1> HIDE DEF q
  <1>14. /\ ackq' \in [End -> Seq(Answer)] /\ ackq'[f] = ackq[f]
         /\ AnswersOk(ackq'[e], sent[f], rx'[e], got'[e]) /\ Len(ackq'[e]) <= 2
         /\ DOMAIN net' = End
         /\ \A x \in End : \A y \in net'[x] :
               y \in net[x] \/ (x = f /\ PacketOk(y, sent[e], sent[f], rx'[e], got'[e]))
    <2>1. q \in Seq(Answer) /\ Len(q) \in Nat
      BY <1>12 DEF AnswersOk
    <2>2. CASE Full(q)
      <3>1. ackq' = [ackq EXCEPT ![e] = <<>>] /\ Carry(n0, f, {AckPacket(c, q)})
        BY <1>4, <2>2
      <3>2. ackq' \in [End -> Seq(Answer)] /\ ackq'[f] = ackq[f] /\ ackq'[e] = <<>>
        BY <1>1, <3>1 DEF SprtInv, Shapes
      <3>3. DOMAIN net' = End /\ \A x \in End : \A y \in net'[x] : y \in n0[x] \/ (x = f /\ y = AckPacket(c, q))
        BY <1>1, <1>13, <3>1, CarryFacts
      <3>4. PacketOk(AckPacket(c, q), sent[e], sent[f], rx'[e], got'[e])
        <4>1. AckPacket(c, q).msg = Free /\ AckPacket(c, q).acks = q
          BY DEF AckPacket, Packet
        <4>2. QED
          BY <1>12, <4>1 DEF PacketOk
      <3>5. AnswersOk(<<>>, sent[f], rx'[e], got'[e]) /\ Len(<<>>) <= 2
        BY NoAnswers
      <3>6. QED
        BY <1>13, <3>2, <3>3, <3>4, <3>5
    <2>3. CASE ~ Full(q)
      <3>1. ackq' = [ackq EXCEPT ![e] = q] /\ net' = n0
        BY <1>4, <2>3
      <3>2. ackq' \in [End -> Seq(Answer)] /\ ackq'[f] = ackq[f] /\ ackq'[e] = q
        BY <1>1, <2>1, <3>1 DEF SprtInv, Shapes
      <3>3. Len(q) <= 2
        BY <2>1, <2>3 DEF Full
      <3>4. QED
        BY <1>12, <1>13, <3>1, <3>2, <3>3
    <2>4. QED
      BY <2>2, <2>3
  <1>15. tx' \in [End -> [Chan -> TxRecord]] /\ tx'[f] = tx[f]
    BY <1>1 DEF SprtInv, Shapes
  <1>16. Shapes'
    BY <1>9, <1>14, <1>15 DEF SprtInv, Shapes
  <1>17. QED
    <2> HIDE DEF f
    <2>1. QED
      BY <1>1, <1>10, <1>11, <1>14, <1>15, <1>16, EndStep DEF f

\* sprt_rx_packet.
LEMMA RxStep ==
    ASSUME SprtInv, NEW e \in End, NEW p \in net[e], sprt_rx_packet(e, p)
    PROVE  SprtInv' /\ Grows
  <1> DEFINE f == Peer(e)
             B == process_acknowledgements(tx[e], p.acks)
  <1>1. f \in End /\ f # e /\ Peer(f) = e /\ \A x \in End : x # e => x = f
    BY PeerFacts
  <1>2. /\ InTime(e, p) /\ tx' = [tx EXCEPT ![e] = B]
        /\ imm' = imm /\ sent' = sent
    BY DEF sprt_rx_packet
  <1>3. B \in [Chan -> TxRecord] /\ \A c \in Chan : LinkInv(B[c], rx[f][c], sent[e][c], got[f][c])
    <2>1. AnswersOk(p.acks, sent[e], rx[f], got[f])
      BY DEF SprtInv, Packets, PacketOk
    <2>2. \A i \in DOMAIN p.acks : sent[e][p.acks[i].ch] - p.acks[i].msg < Lifetime
      BY <1>2 DEF InTime
    <2>3. tx[e] \in [Chan -> TxRecord] /\ \A c \in Chan : LinkInv(tx[e][c], rx[f][c], sent[e][c], got[f][c])
      BY DEF SprtInv, Shapes, Links
    <2>4. QED
      BY <2>1, <2>2, <2>3, EntriesStep
  <1>4. tx'[e] = B /\ tx'[f] = tx[f] /\ tx' \in [End -> [Chan -> TxRecord]]
    BY <1>1, <1>2, <1>3 DEF SprtInv, Shapes
  <1>5. PICK n0 \in Received(e, p) : IF p.msg # Free THEN RxData(e, p, n0)
                                     ELSE net' = n0 /\ UNCHANGED <<rx, ackq, got>>
    BY DEF sprt_rx_packet
  <1>6. CASE p.msg # Free
    <2>1. RxData(e, p, n0)
      BY <1>5, <1>6
    <2>2. QED
      BY <1>2, <1>3, <1>4, <1>6, <2>1, DataStep
  <1>7. CASE p.msg = Free
    <2>1. net' = n0 /\ rx' = rx /\ ackq' = ackq /\ got' = got
      BY <1>5, <1>7
    <2>2. DOMAIN net' = End /\ \A x \in End : \A y \in net'[x] : y \in net[x]
      BY <2>1 DEF Received, SprtInv, Shapes
    <2>3. Shapes'
      BY <1>2, <1>4, <2>1, <2>2 DEF SprtInv, Shapes
    <2>4. \A y \in Chan : /\ LinkInv(tx[f][y], rx'[e][y], sent[f][y], got'[e][y])
                          /\ Keeps(rx[e][y], got[e][y], rx'[e][y], got'[e][y], sent[f][y])
                          /\ Len(got[e][y]) <= Len(got'[e][y])
                          /\ ~ rx'[e][y].busy /\ rx'[e][y].buf[rx'[e][y].in] # Free => imm'[e]
      <3>1. \A y \in Chan : Len(got[e][y]) \in Nat
        BY DEF SprtInv, Shapes
      <3>2. QED
        BY <1>1, <1>2, <2>1, <3>1 DEF Keeps, SprtInv, Links, NoneStranded
    <2>5. AnswersOk(ackq'[e], sent[f], rx'[e], got'[e]) /\ Len(ackq'[e]) <= 2
      BY <2>1 DEF SprtInv, Answers
    <2> HIDE DEF f, B
    <2>6. QED
      BY <1>1, <1>2, <1>3, <1>4, <2>1, <2>2, <2>3, <2>4, <2>5, EndStep DEF f
  <1>8. QED
    BY <1>6, <1>7

\* What sprt_timer_expired sends are messages under their own numbers, and the
\* answers that were waiting.
LEMMA TimerPacketsFacts ==
    ASSUME SprtInv, NEW e \in End, NEW f, f = Peer(e), NEW k \in [Chan -> Nat], NEW push,
           \A c \in Chan : k[c] <= Len(tx[e][c].timers),
           NEW R, NEW G, AnswersOk(ackq[e], sent[f], R, G),
           NEW p \in TimerPackets(e, k, push)
    PROVE  PacketOk(p, sent[e], sent[f], R, G)
  <1>1. AnswersOk(<<>>, sent[f], R, G)
    BY NoAnswers
  <1>2. \/ p = AckPacket(Min(Chan), ackq[e])
        \/ \E c \in Chan, q \in {ackq[e], <<>>} : p \in Resent(tx[e][c], c, k[c], q)
    <2> DEFINE again     == {c \in Chan : k[c] > 0}
               alone     == push /\ ackq[e] # <<>> /\ (again = {} \/ Min(Chan) < Min(again))
               acksOn(c) == IF ~alone /\ c = Min(again) THEN ackq[e] ELSE <<>>
               sends == {Resent(tx[e][c], c, k[c], acksOn(c)) : c \in again}
               rest  == IF alone THEN {AckPacket(Min(Chan), ackq[e])} ELSE {}
    <2>1. TimerPackets(e, k, push) = (UNION sends) \cup rest
      BY DEF TimerPackets
    <2>2. \A c \in again : c \in Chan /\ acksOn(c) \in {ackq[e], <<>>}
      OBVIOUS
    <2> HIDE DEF again, alone, acksOn
    <2>3. p \in UNION sends \/ p \in rest
      <3> HIDE DEF sends, rest
      <3>1. QED
        BY <2>1
    <2>5. ASSUME p \in UNION sends PROVE \E c \in again : p \in Resent(tx[e][c], c, k[c], acksOn(c))
      <3>1. PICK x \in sends : p \in x
        BY <2>5
      <3>2. QED
        BY <3>1
    <2>6. p \in rest => p = AckPacket(Min(Chan), ackq[e])
      OBVIOUS
    <2>4. QED
      BY <2>2, <2>3, <2>5, <2>6
  <1>3. CASE p = AckPacket(Min(Chan), ackq[e])
    <2>1. p.msg = Free /\ p.acks = ackq[e]
      BY <1>3 DEF AckPacket, Packet
    <2>2. QED
      BY <2>1 DEF PacketOk
  <1>4. ASSUME NEW c \in Chan, NEW q \in {ackq[e], <<>>}, p \in Resent(tx[e][c], c, k[c], q)
        PROVE  PacketOk(p, sent[e], sent[f], R, G)
    <2> DEFINE t == tx[e][c]
               n == sent[e][c]
    <2>1. PICK i \in 1 .. k[c] :
             p = Packet(c, SeqInSlot(t, t.timers[i]), t.buf[t.timers[i]], IF i = 1 THEN q ELSE <<>>)
      BY <1>4 DEF Resent
    <2>2. TxInv(t, n) /\ n \in Nat
      BY DEF SprtInv, Links, LinkInv, Shapes
    <2>3. k[c] \in Nat /\ k[c] <= Len(t.timers) /\ t.timers \in Seq(Slot)
      BY <2>2 DEF TxInv, TxRecord
    <2> HIDE DEF t, n
    <2>4. i \in 1 .. Len(t.timers)
      BY <2>3
    <2> DEFINE s == t.timers[i]
    <2>5. s \in Slot /\ t.buf[s] # Free
      BY <2>2, <2>3, <2>4 DEF TxInv, TimersInv
    <2> HIDE DEF s
    <2>6. t.buf[s] \in 1 .. n /\ SeqInSlot(t, s) = NumberOf(t.buf[s])
      BY <2>2, <2>5, SlotNumber
    <2>7. /\ p.ch = c /\ p.seq = SeqInSlot(t, s) /\ p.msg = t.buf[s]
          /\ p.acks = IF i = 1 THEN q ELSE <<>>
      BY <2>1 DEF Packet, s
    <2>8. AnswersOk(p.acks, sent[f], R, G)
      BY <1>1, <2>7
    <2>9. QED
      BY <2>6, <2>7, <2>8 DEF PacketOk, n
  <1>5. QED
    BY <1>2, <1>3, <1>4

\* sprt_timer_expired.
LEMMA TimerStep ==
    ASSUME SprtInv, NEW e \in End, NEW k \in [Chan -> 0 .. Window - 1], NEW push \in BOOLEAN,
           NEW d \in [Chan -> (0 .. Window) \X BOOLEAN], sprt_timer_expired(e, k, push, d)
    PROVE  SprtInv' /\ Grows
  <1> DEFINE f == Peer(e)
             out == TimerPackets(e, k, push)
             A == [c \in Chan |-> Resend(tx[e][c], k[c])]
             U == [c \in Chan |-> HandOver(rx[e][c], d[c][1], d[c][2])]
             V == [c \in Chan |-> got[e][c] \o Run(rx[e][c], d[c][1])]
  <1>1. f \in End /\ f # e /\ Peer(f) = e /\ \A x \in End : x # e => x = f
    BY PeerFacts
  <1>2. /\ \A c \in Chan : k[c] <= Len(tx[e][c].timers)
        /\ \A c \in Chan : d[c] \in IF imm[e] THEN Deliveries(rx[e][c]) ELSE {<<0, rx[e][c].busy>>}
        /\ tx' = [tx EXCEPT ![e] = A]
        /\ rx' = [rx EXCEPT ![e] = U]
        /\ got' = [got EXCEPT ![e] = V]
        /\ ackq' = IF out = {} THEN ackq ELSE [ackq EXCEPT ![e] = <<>>]
        /\ imm' = [imm EXCEPT ![e] = FALSE]
        /\ Carry(net, f, out)
        /\ sent' = sent
    BY DEF sprt_timer_expired
  <1>3. k \in [Chan -> Nat] /\ \A c \in Chan : k[c] \in 0 .. Len(tx[e][c].timers)
    <2>1. \A c \in Chan : tx[e][c].timers \in Seq(Slot)
      BY DEF SprtInv, Shapes, TxRecord
    <2>2. QED
      BY <1>2, <2>1, WindowFacts
  <1>4. \A c \in Chan : LinkInv(A[c], rx[f][c], sent[e][c], got[f][c])
    <2> TAKE c \in Chan
    <2>1. LinkInv(tx[e][c], rx[f][c], sent[e][c], got[f][c])
      BY DEF SprtInv, Links
    <2>2. LinkInv(Resend(tx[e][c], k[c]), rx[f][c], sent[e][c], got[f][c])
      BY <1>3, <2>1, LinkResend
    <2>3. QED
      BY <2>2
  <1>5. \A c \in Chan : /\ LinkInv(tx[f][c], U[c], sent[f][c], V[c])
                        /\ Keeps(rx[e][c], got[e][c], U[c], V[c], sent[f][c])
                        /\ Len(got[e][c]) <= Len(V[c]) /\ V[c] \in Seq(Nat)
                        /\ ~ (~ U[c].busy /\ U[c].buf[U[c].in] # Free)
    <2> TAKE c \in Chan
    <2>1. LinkInv(tx[f][c], rx[e][c], sent[f][c], got[e][c]) /\ imm[e] \in BOOLEAN
      BY <1>1 DEF SprtInv, Links, Shapes
    <2>2. d[c] \in IF imm[e] THEN Deliveries(rx[e][c]) ELSE {<<0, rx[e][c].busy>>}
      BY <1>2
    <2>3. /\ LinkInv(tx[f][c], U[c], sent[f][c], V[c])
          /\ Keeps(rx[e][c], got[e][c], U[c], V[c], sent[f][c])
          /\ Len(got[e][c]) <= Len(V[c]) /\ V[c] \in Seq(Nat)
          /\ ~ U[c].busy /\ U[c].buf[U[c].in] # Free =>
                ~ imm[e] /\ ~ rx[e][c].busy /\ rx[e][c].buf[rx[e][c].in] # Free
      BY <2>1, <2>2, LinkDeliver, ZenonT(60)
    <2>4. QED
      BY <2>3 DEF SprtInv, NoneStranded
  <1>6. /\ A \in [Chan -> TxRecord] /\ U \in [Chan -> RxRecord] /\ V \in [Chan -> Seq(Nat)]
    <2>1. \A c \in Chan : A[c] \in TxRecord /\ U[c] \in RxRecord /\ V[c] \in Seq(Nat)
      BY <1>4, <1>5 DEF LinkInv, TxInv, RxInv
    <2>2. QED
      BY <2>1
  <1> HIDE DEF A, U, V, out
  <1>7. /\ tx'[e] = A /\ rx'[e] = U /\ got'[e] = V /\ imm'[e] = FALSE
        /\ tx'[f] = tx[f] /\ rx'[f] = rx[f] /\ got'[f] = got[f] /\ imm'[f] = imm[f]
    BY <1>1, <1>2 DEF SprtInv, Shapes
  <1>8. ackq' \in [End -> Seq(Answer)] /\ ackq'[f] = ackq[f] /\ ackq'[e] \in {ackq[e], <<>>}
    BY <1>1, <1>2 DEF SprtInv, Shapes
  <1>9. AnswersOk(ackq[e], sent[f], U, V)
    <2>1. Growing(sent[f], rx[e], got[e], sent[f], U, V)
      BY <1>1, <1>5 DEF Growing, SprtInv, Shapes
    <2>2. AnswersOk(ackq[e], sent[f], rx[e], got[e])
      BY DEF SprtInv, Answers
    <2>3. QED
      BY <2>1, <2>2, AnswersStay
  <1>10. AnswersOk(ackq'[e], sent[f], U, V) /\ Len(ackq'[e]) <= 2
    BY <1>8, <1>9, NoAnswers DEF SprtInv, Answers
  <1>11. DOMAIN net' = End /\ \A x \in End : \A p \in net'[x] : p \in net[x] \/ (x = f /\ p \in out)
    BY <1>1, <1>2, CarryFacts DEF SprtInv, Shapes
  <1>12. \A p \in out : PacketOk(p, sent[e], sent[f], U, V)
    <2> TAKE p \in out
    <2>1. p \in TimerPackets(e, k, push)
      BY DEF out
    <2>2. QED
      BY <1>2, <1>3, <1>9, <2>1, TimerPacketsFacts
  <1>13. Shapes'
    <2>1. tx' \in [End -> [Chan -> TxRecord]] /\ rx' \in [End -> [Chan -> RxRecord]]
      BY <1>2, <1>6 DEF SprtInv, Shapes
    <2>2. got' \in [End -> [Chan -> Seq(Nat)]] /\ imm' \in [End -> BOOLEAN]
      BY <1>2, <1>6 DEF SprtInv, Shapes
    <2>3. QED
      BY <1>2, <1>8, <1>11, <2>1, <2>2 DEF SprtInv, Shapes
  <1> HIDE DEF f
  <1>14. \A y \in Chan : LinkInv(tx'[e][y], rx[f][y], sent[e][y], got[f][y])
    BY <1>4, <1>7
  <1>15. \A y \in Chan : /\ LinkInv(tx[f][y], rx'[e][y], sent[f][y], got'[e][y])
                         /\ Keeps(rx[e][y], got[e][y], rx'[e][y], got'[e][y], sent[f][y])
                         /\ Len(got[e][y]) <= Len(got'[e][y])
                         /\ ~ rx'[e][y].busy /\ rx'[e][y].buf[rx'[e][y].in] # Free => imm'[e]
    BY <1>5, <1>7
  <1>16. AnswersOk(ackq'[e], sent[f], rx'[e], got'[e]) /\ Len(ackq'[e]) <= 2
    BY <1>7, <1>10
  <1>17. \A x \in End : \A p \in net'[x] :
            p \in net[x] \/ (x = f /\ PacketOk(p, sent[e], sent[f], rx'[e], got'[e]))
    BY <1>7, <1>11, <1>12
  <1>18. QED
    <2>1. f = Peer(e) /\ sent' = sent
      BY <1>2 DEF f
    <2>2. QED
      BY ONLY SprtInv, e \in End, <1>7, <1>8, <1>13, <1>14, <1>15, <1>16, <1>17, <2>1, EndStep

-----------------------------------------------------------------------------
(* The invariant, and what follows from it.                                 *)

\* Every step keeps the invariant and takes nothing back.
LEMMA NextStep ==
    ASSUME SprtInv, [Next]_vars
    PROVE  SprtInv' /\ Grows
  <1>1. ASSUME NEW e \in End, NEW c \in Chan, sprt_tx(e, c) PROVE SprtInv' /\ Grows
    BY <1>1, TxStep
  <1>2. ASSUME NEW e \in End, NEW c \in Chan, NEW b \in BOOLEAN, sprt_set_local_busy(e, c, b)
        PROVE  SprtInv' /\ Grows
    BY <1>2, BusyStep
  <1>3. ASSUME NEW e \in End, NEW p \in net[e], sprt_rx_packet(e, p) PROVE SprtInv' /\ Grows
    BY <1>3, RxStep
  <1>4. ASSUME NEW e \in End, NEW p \in net[e], Lose(e, p) PROVE SprtInv' /\ Grows
    BY <1>4, LoseStep
  <1>5. ASSUME NEW e \in End, TimerExpired(e) PROVE SprtInv' /\ Grows
    BY <1>5, TimerStep DEF TimerExpired
  <1>6. ASSUME UNCHANGED vars PROVE SprtInv' /\ Grows
    <2>1. SprtInv'
      BY <1>6 DEF vars, SprtInv, Shapes, Links, Answers, Packets, NoneStranded
    <2>2. \A x \in End, y \in Chan : sent[x][y] \in Nat /\ Len(got[Peer(x)][y]) \in Nat
      BY PeerFacts DEF SprtInv, Shapes
    <2>3. Grows
      BY <1>6, <2>2 DEF vars, Grows, Growing, Keeps
    <2>4. QED
      BY <2>1, <2>3
  <1>7. QED
    BY <1>1, <1>2, <1>3, <1>4, <1>5, <1>6 DEF Next

\* The inductive invariant: at any time, with any loss, duplication and
\* reordering of packets, both windows hold what belongs in them, every answer
\* under way is for a message that has arrived, and what waits is timed.
THEOREM SprtInvariant == Spec => []SprtInv
  <1>1. Init => SprtInv
    BY InitStep
  <1>2. SprtInv /\ [Next]_vars => SprtInv'
    BY NextStep
  <1>3. QED
    BY <1>1, <1>2, PTL DEF Spec

\* What the invariant says of the types.
LEMMA InvImpliesTypeOK ==
    ASSUME SprtInv
    PROVE  TypeOK
  <1>1. ASSUME NEW e \in End, NEW c \in Chan
        PROVE  LET t == tx[e][c]
                   r == rx[e][c]
               IN  /\ t.q \in 0 .. SeqSpace - 1 /\ t.in \in Slot /\ t.out \in Slot
                   /\ t.buf \in [Slot -> 0 .. MaxMsgs] /\ t.tries \in [Slot -> 0 .. MaxTries]
                   /\ t.timers \in Seq(Slot)
                   /\ r.base \in 0 .. SeqSpace - 1 /\ r.in \in Slot
                   /\ r.buf \in [Slot -> 0 .. MaxMsgs] /\ r.busy \in BOOLEAN
    <2> DEFINE f == Peer(e)
               t == tx[e][c]
               r == rx[e][c]
               n == sent[e][c]
               k == sent[f][c]
               g == Len(got[e][c])
    <2>1. /\ TxInv(t, n) /\ n \in 0 .. MaxMsgs
          /\ RxInv(r, g, k) /\ k \in 0 .. MaxMsgs
      BY PeerFacts DEF SprtInv, Links, LinkInv
    <2> HIDE DEF t, r, n, k, g
    <2>2. /\ t.q \in 0 .. SeqSpace - 1 /\ r.base \in 0 .. SeqSpace - 1
      <3>1. t.q = NumberOf(n + 1) /\ n + 1 \in Int /\ r.base = NumberOf(g + 1) /\ g + 1 \in Int
        BY <2>1 DEF TxInv, RxInv
      <3>2. QED
        BY <3>1, NumberFacts
    <2>3. t \in TxRecord /\ r \in RxRecord
      BY <2>1 DEF TxInv, RxInv
    <2>4. \A s \in Slot : t.buf[s] \in 0 .. MaxMsgs
      <3>1. PICK h \in Nat : AckedTo(t, n, h)
        BY <2>1 DEF TxInv
      <3> TAKE s \in Slot
      <3>2. t.buf[s] \in Nat
        BY <2>3 DEF TxRecord
      <3>3. t.buf[s] = 0 \/ t.buf[s] \in h + 1 .. n
        BY <3>1 DEF AckedTo, InPlace, Free
      <3>4. QED
        BY <2>1, <3>2, <3>3, SprtAssumption
    <2>5. \A s \in Slot : t.tries[s] \in 0 .. MaxTries
      BY <2>1, <2>3, SprtAssumption DEF TxInv, TimersInv, TxRecord
    <2>6. \A s \in Slot : r.buf[s] \in 0 .. MaxMsgs
      <3> TAKE s \in Slot
      <3>1. r.buf[s] \in Nat
        BY <2>3 DEF RxRecord
      <3>2. r.buf[s] = 0 \/ r.buf[s] \in g + 1 .. k
        BY <2>1 DEF RxInv, InPlace, Free
      <3>3. QED
        BY <2>1, <3>1, <3>2, SprtAssumption
    <2>7. QED
      BY <2>2, <2>3, <2>4, <2>5, <2>6 DEF TxRecord, RxRecord, t, r
  <1>2. sent \in [End -> [Chan -> 0 .. MaxMsgs]]
    <2>1. \A e \in End, c \in Chan : sent[e][c] \in 0 .. MaxMsgs
      BY DEF SprtInv, Links, LinkInv
    <2>2. QED
      BY <2>1 DEF SprtInv, Shapes
  <1>3. \A e \in End : Len(ackq[e]) <= 2 /\ imm[e] \in BOOLEAN
    BY DEF SprtInv, Answers, Shapes
  <1>4. QED
    BY <1>1, <1>2, <1>3 DEF TypeOK

\* Every field stays in its range: sequence numbers in 14 bits, pointers in the
\* window, at most two answers waiting.
THEOREM SprtTypes == Spec => []TypeOK
  BY SprtInvariant, InvImpliesTypeOK, PTL

\* A retransmission has the number its message was first sent with, whatever
\* the window and wherever the numbers have wrapped to.
LEMMA InvImpliesSameNumber ==
    ASSUME SprtInv
    PROVE  SameNumberAgain
  <1> SUFFICES ASSUME NEW e \in Sender, NEW c \in Chan, NEW s \in Slot, tx[e][c].buf[s] # Free
               PROVE  SeqInSlot(tx[e][c], s) = NumberOf(tx[e][c].buf[s])
    BY DEF SameNumberAgain
  <1> DEFINE t == tx[e][c]
             n == sent[e][c]
  <1>1. TxInv(t, n) /\ n \in Nat
    BY SprtAssumption, SMTT(60) DEF SprtInv, Links, LinkInv, Shapes
  <1>2. t.buf[s] # Free
    OBVIOUS
  <1> HIDE DEF t, n
  <1>3. SeqInSlot(t, s) = NumberOf(t.buf[s])
    BY <1>1, <1>2, SlotNumber
  <1>4. QED
    BY <1>3 DEF t

\* The same as a theorem: retransmit_the_unacknowledged rebuilds the number.
THEOREM SameNumberAlways == Spec => []SameNumberAgain
  BY SprtInvariant, InvImpliesSameNumber, PTL

\* What the invariant says of a message that was accepted.
LEMMA InvImpliesNothingLost ==
    ASSUME SprtInv
    PROVE  NothingLost
  <1> SUFFICES ASSUME NEW e \in Sender, NEW c \in Chan, NEW m \in 1 .. MaxMsgs, m <= sent[e][c]
               PROVE  LET t == tx[e][c]
                          r == rx[Peer(e)][c]
                          n == Len(got[Peer(e)][c])
                      IN  \/ m <= n
                          \/ m <= n + Window /\ r.buf[Wrap(r.in + m - n - 1)] = m
                          \/ \E s \in Slot : t.buf[s] = m
    BY DEF NothingLost
  <1> DEFINE t == tx[e][c]
             r == rx[Peer(e)][c]
             g == Len(got[Peer(e)][c])
             n == sent[e][c]
  <1>1. e \in End /\ LinkInv(t, r, n, got[Peer(e)][c])
    BY SprtAssumption DEF SprtInv, Links
  <1>2. n \in Nat /\ g \in Nat /\ RxInv(r, g, n) /\ m \in 1 .. n
    BY <1>1, Spread DEF LinkInv
  <1>3. Delivered(r, g, m) \/ t.buf[SlotOf(m)] = m
    BY <1>1, <1>2 DEF LinkInv
  <1>4. SlotOf(m) \in Slot
    BY WrapIsSlot DEF SlotOf
  <1> HIDE DEF t, r, g, n
  <1>5. ASSUME m > g, r.buf[SlotOf(m)] = m
        PROVE  m <= g + Window /\ r.buf[Wrap(r.in + m - g - 1)] = m
    <2>1. m \in g + 1 .. g + Window
      BY <1>2, <1>4, <1>5 DEF RxInv, InPlace, Free
    <2>2. Wrap(r.in + m - g - 1) = SlotOf(m)
      <3>1. r.in = Wrap(g) /\ Wrap(g) \in Slot /\ m - g - 1 \in Int /\ g + (m - g - 1) = m - 1
        BY <1>2, WrapIsSlot DEF RxInv
      <3>2. r.in + m - g - 1 = r.in + (m - g - 1)
        BY <1>2, <3>1 DEF Slot
      <3>3. Wrap(Wrap(g) + (m - g - 1)) = Wrap(g + (m - g - 1))
        BY <1>2, <3>1, WrapIsSlot
      <3>4. QED
        BY <3>1, <3>2, <3>3 DEF SlotOf
    <2>3. QED
      BY <1>2, <1>5, <2>1, <2>2
  <1>6. \/ m <= g
        \/ m <= g + Window /\ r.buf[Wrap(r.in + m - g - 1)] = m
        \/ \E s \in Slot : t.buf[s] = m
    BY <1>2, <1>3, <1>4, <1>5 DEF Delivered
  <1>7. QED
    BY <1>6 DEF t, r, g

\* No acknowledged message is lost: what sprt_tx accepted was handed over, or
\* waits in its place at the far end, or is still in the sender's buffer.
THEOREM NothingIsLost == Spec => []NothingLost
  BY SprtInvariant, InvImpliesNothingLost, PTL

\* What the invariant says of what waits for an application.
LEMMA InvImpliesNoStranded ==
    ASSUME SprtInv
    PROVE  NoStrandedMessage
  <1> SUFFICES ASSUME NEW e \in End, NEW c \in Chan, ~ rx[e][c].busy, Ready(rx[e][c]) > 0
               PROVE  imm[e]
    BY DEF NoStrandedMessage
  <1> DEFINE r == rx[e][c]
             g == Len(got[e][c])
             n == sent[Peer(e)][c]
  <1>1. LinkInv(tx[Peer(e)][c], r, n, got[e][c])
    BY PeerFacts DEF SprtInv, Links
  <1>2. n \in Nat /\ g \in Nat /\ RxInv(r, g, n)
    BY <1>1, Spread DEF LinkInv
  <1> HIDE DEF g, n
  <1>3. r.buf[r.in] # Free
    <2> HIDE DEF r
    <2>1. Ready(r) = 0 <=> r.buf[r.in] = Free
      BY <1>2, ReadyFacts
    <2>2. Ready(r) # 0
      BY DEF r
    <2>3. QED
      BY <2>1, <2>2
  <1>4. QED
    BY <1>3 DEF SprtInv, NoneStranded

\* What waited for a busy application is on its way as soon as it is not.
THEOREM NoneIsStranded == Spec => []NoStrandedMessage
  BY SprtInvariant, InvImpliesNoStranded, PTL

-----------------------------------------------------------------------------
(* The refinement.                                                          *)

\* A step of Sprt is a Send or a HandOver of the channel, or none.
LEMMA ChannelStep ==
    ASSUME SprtInv, [Next]_vars
    PROVE  [Channel!Next]_(Channel!vars)
  <1> DEFINE S == [l \in Link |-> sent[l[1]][l[2]]]
             G == [l \in Link |-> got[Peer(l[1])][l[2]]]
  <1>1. SprtInv' /\ Grows
    BY NextStep
  <1>2. \A l \in Link : l[1] \in End /\ l[2] \in Chan
    BY SprtAssumption DEF Link
  <1>3. CASE \E e \in End, c \in Chan : sprt_tx(e, c)
    <2>1. PICK e \in End, c \in Chan : sprt_tx(e, c)
      BY <1>3
    <2>2. e \in Sender /\ sent' = [sent EXCEPT ![e][c] = sent[e][c] + 1] /\ got' = got
      BY <2>1 DEF sprt_tx
    <2> DEFINE l == <<e, c>>
    <2>3. l \in Link
      BY <2>2 DEF Link
    <2>4. S' = [S EXCEPT ![l] = @ + 1]
      <3>1. \A x \in Link : x = <<x[1], x[2]>>
        BY DEF Link
      <3>2. \A x \in End, y \in Chan :
               sent'[x][y] = IF x = e /\ y = c THEN sent[x][y] + 1 ELSE sent[x][y]
        BY <2>2 DEF SprtInv, Shapes
      <3>3. \A x \in Link : sent'[x[1]][x[2]] = IF x = l THEN S[x] + 1 ELSE S[x]
        BY <1>2, <3>1, <3>2
      <3>4. S' = [x \in Link |-> sent'[x[1]][x[2]]]
        OBVIOUS
      <3>5. [S EXCEPT ![l] = @ + 1] = [x \in Link |-> IF x = l THEN S[x] + 1 ELSE S[x]]
        <4> HIDE DEF l
        <4>1. DOMAIN S = Link
          OBVIOUS
        <4> HIDE DEF S
        <4>2. QED
          BY <4>1
      <3> HIDE DEF S, l
      <3>6. QED
        BY <3>3, <3>4, <3>5
    <2>5. G' = G
      BY <2>2
    <2>6. Channel!Send(l)
      BY <2>4, <2>5 DEF Channel!Send
    <2>7. QED
      BY <2>3, <2>6 DEF Channel!Next
  <1>4. CASE sent' = sent
    <2>1. \A l \in Link : /\ Len(got[Peer(l[1])][l[2]]) <= Len(got'[Peer(l[1])][l[2]])
                          /\ Len(got'[Peer(l[1])][l[2]]) <= sent[l[1]][l[2]]
                          /\ got'[Peer(l[1])][l[2]] = CountTo(Len(got'[Peer(l[1])][l[2]]))
      <3> TAKE l \in Link
      <3>1. LinkInv(tx'[l[1]][l[2]], rx'[Peer(l[1])][l[2]], sent'[l[1]][l[2]], got'[Peer(l[1])][l[2]])
        BY <1>1, <1>2 DEF SprtInv, Links
      <3>2. Len(got'[Peer(l[1])][l[2]]) <= sent'[l[1]][l[2]]
        BY <3>1, Spread
      <3>3. Len(got[Peer(l[1])][l[2]]) <= Len(got'[Peer(l[1])][l[2]])
        BY <1>1, <1>2 DEF Grows, Growing
      <3>4. QED
        BY <1>4, <3>1, <3>2, <3>3 DEF LinkInv
    <2>2. S' = S
      BY <1>4
    <2>3. \A l \in Link : /\ Len(G[l]) <= Len(G'[l])
                          /\ Len(G'[l]) <= S[l]
                          /\ G'[l] = [i \in 1 .. Len(G'[l]) |-> i]
      BY <2>1 DEF CountTo
    <2>4. Channel!HandOver
      BY <2>2, <2>3 DEF Channel!HandOver
    <2>5. QED
      BY <2>4 DEF Channel!Next
  <1>5. (\E e \in End, c \in Chan : sprt_tx(e, c)) \/ sent' = sent
    BY ZenonT(60) DEF Next, vars, sprt_set_local_busy, sprt_rx_packet, Lose, TimerExpired, sprt_timer_expired
  <1>6. QED
    BY <1>3, <1>4, <1>5

\* SPRT implements a reliable channel: in order, once, only what was sent, for
\* every window, over a network that loses, duplicates and reorders.
THEOREM SprtImplementsChannel == Spec => ReliableChannel
  <1>1. Init => Channel!Init
    <2> SUFFICES ASSUME Init PROVE Channel!Init
      OBVIOUS
    <2>1. \A l \in Link : l[1] \in End /\ l[2] \in Chan /\ Peer(l[1]) \in End
      BY SprtAssumption, PeerFacts DEF Link
    <2>2. QED
      BY <2>1 DEF Init, Channel!Init
  <1>2. SprtInv /\ [Next]_vars => [Channel!Next]_(Channel!vars)
    BY ChannelStep
  <1>3. QED
    BY SprtInvariant, <1>1, <1>2, PTL DEF Spec, ReliableChannel, Channel!Spec

\* The steps under which the liveness is checked are steps of Sprt, so that all
\* of this holds there too.
THEOREM LiveIsSafe == LiveSpec => Spec
  <1>1. LiveNext => Next
    <2>1. FALSE \in BOOLEAN
      OBVIOUS
    <2>2. QED
      BY <2>1 DEF LiveNext, Next, LoseSome, PromptTimer, TimerExpired
  <1>2. QED
    BY <1>1, PTL DEF LiveSpec, Spec
=============================================================================

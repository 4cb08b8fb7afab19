---------------------------- MODULE CommonLemmas ----------------------------
(***************************************************************************)
(* Facts that the proofs of several components need: remainders by a       *)
(* modulus that is a constant (window sizes, sequence number spaces),      *)
(* least elements of sets of numbers, which take the place of induction,   *)
(* and sequences of sequences put together.                                *)
(***************************************************************************)
EXTENDS Integers, SequencesExt, FiniteSetsExt, SequenceTheorems, WellFoundedInduction, TLAPS

-----------------------------------------------------------------------------
(* Remainders.                                                              *)

\* A number is its quotient times the modulus and its remainder.
LEMMA DivMod ==
    ASSUME NEW x \in Int, NEW n \in Nat \ {0}
    PROVE  /\ x \div n \in Int
           /\ x % n \in 0 .. n - 1
           /\ x = n * (x \div n) + (x % n)
  OBVIOUS

\* The remainder is the only number in range that differs by a multiple.
LEMMA ModUnique ==
    ASSUME NEW x \in Int, NEW n \in Nat \ {0}, NEW k \in Int, NEW r \in 0 .. n - 1,
           x = n * k + r
    PROVE  x % n = r
  OBVIOUS

\* A number in range is its own remainder.
LEMMA ModSmall ==
    ASSUME NEW n \in Nat \ {0}, NEW r \in 0 .. n - 1
    PROVE  r % n = r
  OBVIOUS

\* A remainder is not changed by adding the modulus to the number.
LEMMA ModPlus ==
    ASSUME NEW x \in Int, NEW n \in Nat \ {0}
    PROVE  (x + n) % n = x % n
  <1> DEFINE k == x \div n
             r == x % n
  <1>1. k \in Int /\ r \in 0 .. n - 1 /\ x = n * k + r
    BY DivMod
  <1>2. k + 1 \in Int /\ x + n \in Int /\ x + n = n * (k + 1) + r
    BY <1>1
  <1> HIDE DEF k, r
  <1>3. (x + n) % n = r
    BY <1>1, <1>2, ModUnique
  <1>4. QED
    BY <1>3 DEF r

\* Taking the remainder first changes nothing.
LEMMA ModAdd ==
    ASSUME NEW x \in Int, NEW y \in Int, NEW n \in Nat \ {0}
    PROVE  ((x % n) + y) % n = (x + y) % n
  <1> DEFINE k == x \div n
             r == x % n
             j == (r + y) \div n
             q == (r + y) % n
  <1>1. k \in Int /\ r \in 0 .. n - 1 /\ x = n * k + r
    BY DivMod
  <1>2. r + y \in Int
    BY <1>1
  <1>3. j \in Int /\ q \in 0 .. n - 1 /\ r + y = n * j + q
    BY <1>2, DivMod
  <1>4. k + j \in Int /\ x + y \in Int /\ x + y = n * (k + j) + q
    <2> HIDE DEF k, r, j, q
    <2> QED BY <1>1, <1>3
  <1> HIDE DEF k, j, q
  <1>5. (x + y) % n = q
    BY <1>3, <1>4, ModUnique
  <1>6. QED
    BY <1>5 DEF q

\* Nor does taking the remainder of what is subtracted.
LEMMA ModSub ==
    ASSUME NEW x \in Int, NEW y \in Int, NEW n \in Nat \ {0}
    PROVE  (x - (y % n)) % n = (x - y) % n
  <1> DEFINE k == y \div n
             r == y % n
             j == (x - y) \div n
             q == (x - y) % n
  <1>1. k \in Int /\ r \in 0 .. n - 1 /\ y = n * k + r
    BY DivMod
  <1>2. x - y \in Int
    OBVIOUS
  <1>3. j \in Int /\ q \in 0 .. n - 1 /\ x - y = n * j + q
    BY <1>2, DivMod
  <1>4. k + j \in Int /\ x - r \in Int /\ x - r = n * (k + j) + q
    <2> HIDE DEF k, r, j, q
    <2>1. QED
      BY <1>1, <1>3
  <1> HIDE DEF k, r, j, q
  <1>5. (x - r) % n = q
    BY <1>3, <1>4, ModUnique
  <1>6. QED
    BY <1>5 DEF q, r

\* The next number has the next remainder, around the end of the range.
LEMMA ModSucc ==
    ASSUME NEW x \in Int, NEW n \in Nat \ {0}
    PROVE  (x + 1) % n = IF x % n = n - 1 THEN 0 ELSE (x % n) + 1
  <1> DEFINE r == x % n
  <1>1. r \in 0 .. n - 1 /\ (r + 1) % n = (x + 1) % n
    <2>1. r \in 0 .. n - 1
      BY DivMod
    <2>2. \A y \in Int : ((x % n) + y) % n = (x + y) % n
      BY ModAdd
    <2>3. QED
      BY <2>1, <2>2
  <1>2. r # n - 1 => (r + 1) % n = r + 1
    <2> HIDE DEF r
    <2> QED BY <1>1, ModSmall
  <1>3. n % n = 0
    <2>1. n \in Int /\ 1 \in Int /\ 0 \in 0 .. n - 1 /\ n = n * 1 + 0
      OBVIOUS
    <2> QED BY <2>1, ModUnique
  <1>4. r = n - 1 => r + 1 = n
    BY <1>1
  <1> HIDE DEF r
  <1>5. (x + 1) % n = IF r = n - 1 THEN 0 ELSE r + 1
    BY <1>1, <1>2, <1>3, <1>4
  <1>6. QED
    BY <1>5 DEF r

\* Numbers less than the modulus apart that have the same remainder are equal.
LEMMA ModInjective ==
    ASSUME NEW x \in Int, NEW y \in Int, NEW n \in Nat \ {0},
           x <= y, y - x < n, x % n = y % n
    PROVE  x = y
  <1> DEFINE r == x % n
             d == y - x
  <1>1. r \in 0 .. n - 1 /\ d \in 0 .. n - 1
    BY DivMod
  <1>2. (r + d) % n = r
    <2>1. d \in Int /\ x + d = y
      OBVIOUS
    <2>2. ((x % n) + d) % n = (x + d) % n
      BY <2>1, ModAdd
    <2>3. QED
      BY <2>1, <2>2
  <1>3. CASE r + d <= n - 1
    <2> HIDE DEF r, d
    <2>1. r + d \in 0 .. n - 1
      BY <1>1, <1>3
    <2>2. r + d = r
      BY <2>1, <1>2, ModSmall
    <2>3. d = 0
      BY <1>1, <2>2
    <2> QED BY <2>3 DEF d
  <1>4. CASE r + d > n - 1
    <2> HIDE DEF r, d
    <2>1. r + d - n \in 0 .. n - 1 /\ 1 \in Int /\ r + d = n * 1 + (r + d - n) /\ r + d \in Int
      BY <1>1, <1>4
    <2>2. (r + d) % n = r + d - n
      BY <2>1, ModUnique
    <2>3. d = n
      BY <1>1, <1>2, <2>2
    <2> QED BY <1>1, <2>3
  <1>5. QED
    BY <1>1, <1>3, <1>4

-----------------------------------------------------------------------------
(* Least elements.                                                          *)

LessThan == {p \in Nat \X Nat : p[1] < p[2]}

\* A set of natural numbers that is not empty has a least element.
LEMMA LeastNumber ==
    ASSUME NEW T \in SUBSET Nat, T # {}
    PROVE  \E x \in T : \A y \in T : x <= y
  <1>1. IsWellFoundedOn(LessThan, Nat)
    BY NatLessThanWellFounded DEF OpToRel, LessThan
  <1>2. PICK x \in T : \A y \in T : ~ (<<y, x>> \in LessThan)
    BY <1>1, WFMin
  <1>3. ASSUME NEW y \in T PROVE x <= y
    <2>1. x \in Nat /\ y \in Nat
      OBVIOUS
    <2>2. ~ (<<y, x>> \in LessThan)
      BY <1>2
    <2>3. ~ (y < x)
      BY <2>1, <2>2 DEF LessThan
    <2>4. QED
      BY <2>1, <2>3
  <1>4. QED
    BY <1>3

\* Min returns it.
LEMMA MinIsLeast ==
    ASSUME NEW T \in SUBSET Nat, T # {}
    PROVE  /\ Min(T) \in T
           /\ \A y \in T : Min(T) <= y
  BY LeastNumber DEF Min

\* A bounded set of natural numbers that is not empty has a largest element,
\* and Max returns it.
LEMMA MaxIsLargest ==
    ASSUME NEW b \in Nat, NEW T \in SUBSET (0 .. b), T # {}
    PROVE  /\ Max(T) \in T
           /\ \A y \in T : y <= Max(T)
  <1> DEFINE U == {b - y : y \in T}
  <1>1. U \in SUBSET Nat /\ U # {}
    <2>1. \A y \in T : b - y \in Nat
      OBVIOUS
    <2>2. QED
      BY <2>1
  <1>2. PICK u \in U : \A v \in U : u <= v
    BY <1>1, LeastNumber
  <1>3. PICK x \in T : u = b - x
    OBVIOUS
  <1>4. \A y \in T : x >= y
    <2> TAKE y \in T
    <2>1. b - y \in U
      OBVIOUS
    <2> QED BY <1>2, <1>3, <2>1
  <1>5. QED
    BY <1>4 DEF Max
-----------------------------------------------------------------------------
(* What FlattenSeq makes of sequences of sequences.                         *)

\* g[i] is the concatenation of the first i of them.
Sums(T, s, g) ==
    /\ g \in [0 .. Len(s) -> Seq(T)] /\ g[0] = <<>>
    /\ \A i \in 1 .. Len(s) : g[i] = g[i - 1] \o s[i]

\* There are such sums.
LEMMA SumsExist ==
    ASSUME NEW T, NEW s \in Seq(Seq(T))
    PROVE  \E g : Sums(T, s, g)
  <1> DEFINE Good(n) == \E g \in [0 .. n -> Seq(T)] :
                          g[0] = <<>> /\ \A i \in 1 .. n : g[i] = g[i - 1] \o s[i]
             bad == {n \in 0 .. Len(s) : ~ Good(n)}
  <1>1. bad = {}
    <2> SUFFICES ASSUME bad # {} PROVE FALSE
      OBVIOUS
    <2>1. bad \in SUBSET Nat
      <3> HIDE DEF Good
      <3> QED
        OBVIOUS
    <2>2. PICK n \in bad : \A y \in bad : n <= y
      BY <2>1, LeastNumber
    <2>3. n \in 0 .. Len(s) /\ ~ Good(n)
      <3> HIDE DEF Good
      <3> QED
        OBVIOUS
    <2>4. n # 0
      <3> DEFINE g == [i \in 0 .. 0 |-> <<>>]
      <3>1. g \in [0 .. 0 -> Seq(T)] /\ g[0] = <<>> /\ \A i \in 1 .. 0 : g[i] = g[i - 1] \o s[i]
        OBVIOUS
      <3>2. Good(0)
        BY <3>1
      <3> HIDE DEF Good
      <3> QED
        BY <2>3, <3>2
    <2>5. Good(n - 1)
      <3>1. n - 1 \in 0 .. Len(s) /\ ~ (n <= n - 1)
        BY <2>3, <2>4
      <3>2. n - 1 \notin bad
        BY <2>2, <3>1
      <3> HIDE DEF Good
      <3> QED
        BY <3>1, <3>2
    <2>6. PICK h \in [0 .. n - 1 -> Seq(T)] :
              h[0] = <<>> /\ \A i \in 1 .. n - 1 : h[i] = h[i - 1] \o s[i]
      BY <2>5
    <2> DEFINE g == [i \in 0 .. n |-> IF i = n THEN h[n - 1] \o s[n] ELSE h[i]]
    <2>7. g \in [0 .. n -> Seq(T)]
      <3>1. n \in 1 .. Len(s) /\ n - 1 \in 0 .. n - 1
        BY <2>3, <2>4
      <3>2. h[n - 1] \in Seq(T) /\ s[n] \in Seq(T)
        BY <3>1
      <3>3. h[n - 1] \o s[n] \in Seq(T)
        BY <3>2, ConcatProperties
      <3>4. ASSUME NEW i \in 0 .. n, i # n PROVE h[i] \in Seq(T)
        BY <3>1, <3>4
      <3> QED
        BY <3>3, <3>4
    <2>8. g[0] = <<>>
      BY <2>3, <2>4, <2>6, SMTT(60)
    <2>9. ASSUME NEW i \in 1 .. n PROVE g[i] = g[i - 1] \o s[i]
      <3>1. i \in 0 .. n /\ i - 1 \in 0 .. n /\ i - 1 # n /\ n \in Nat
        BY <2>3
      <3>2. g[i - 1] = h[i - 1]
        BY <3>1
      <3>3. CASE i = n
        BY <3>1, <3>2, <3>3
      <3>4. CASE i # n
        <4>1. i \in 1 .. n - 1
          BY <3>1, <3>4
        <4>2. g[i] = h[i]
          BY <3>1, <3>4
        <4> QED
          BY <2>6, <3>2, <4>1, <4>2
      <3> QED
        BY <3>3, <3>4, ZenonT(60)
    <2> HIDE DEF g
    <2> QED
      BY <2>3, <2>7, <2>8, <2>9
  <1>2. Good(Len(s))
    <2>1. Len(s) \in 0 .. Len(s)
      OBVIOUS
    <2> HIDE DEF Good
    <2> QED
      BY <1>1, <2>1
  <1> QED
    BY <1>2 DEF Sums

\* They are what FlattenSeq is defined by.
LEMMA FlattenIsSum ==
    ASSUME NEW T, NEW s \in Seq(Seq(T)), NEW g, Sums(T, s, g)
    PROVE  FlattenSeq(s) = g[Len(s)]
  <1> DEFINE F(f) == f = [i \in 1 .. Len(s) |-> IF i = 1 THEN s[i] ELSE f[i - 1] \o s[i]]
             flat == CHOOSE f : F(f)
             given == [i \in 1 .. Len(s) |-> g[i]]
  <1>1. CASE Len(s) = 0
    BY <1>1 DEF FlattenSeq, Sums
  <1>2. CASE Len(s) # 0
    <2>1. FlattenSeq(s) = flat[Len(s)]
      BY <1>2 DEF FlattenSeq
    <2>2. F(given)
      <3>1. ASSUME NEW i \in 1 .. Len(s)
            PROVE  given[i] = IF i = 1 THEN s[i] ELSE given[i - 1] \o s[i]
        <4>1. g[i] = g[i - 1] \o s[i] /\ s[i] \in Seq(T) /\ given[i] = g[i]
          <5>1. \A j \in 1 .. Len(s) : s[j] \in Seq(T)
            OBVIOUS
          <5>2. \A j \in 1 .. Len(s) : g[j] = g[j - 1] \o s[j]
            BY DEF Sums
          <5> QED
            BY <5>1, <5>2
        <4>2. CASE i = 1
          <5>1. g[i - 1] = <<>>
            BY <4>2 DEF Sums
          <5>2. <<>> \o s[i] = s[i]
            BY <4>1
          <5> QED
            BY <4>1, <4>2, <5>1, <5>2
        <4>3. CASE i # 1
          <5>1. i - 1 \in 1 .. Len(s)
            BY <4>3
          <5> QED
            BY <4>1, <4>3, <5>1
        <4> QED
          BY <4>2, <4>3
      <3> QED
        BY <3>1
    <2> HIDE DEF F, given
    <2>3. F(flat)
      BY <2>2, Zenon
    <2> HIDE DEF flat
    <2> DEFINE bad == {i \in 1 .. Len(s) : flat[i] # g[i]}
    <2>4. bad = {}
      <3> SUFFICES ASSUME bad # {} PROVE FALSE
        OBVIOUS
      <3>1. bad \in SUBSET Nat
        OBVIOUS
      <3>2. PICK i \in bad : \A y \in bad : i <= y
        BY <3>1, LeastNumber
      <3>3. i \in 1 .. Len(s) /\ flat[i] # g[i]
        OBVIOUS
      <3>4. flat[i] = IF i = 1 THEN s[i] ELSE flat[i - 1] \o s[i]
        BY <2>3, <3>3 DEF F
      <3>5. g[i] = g[i - 1] \o s[i] /\ s[i] \in Seq(T)
        <4>1. \A j \in 1 .. Len(s) : g[j] = g[j - 1] \o s[j]
          BY DEF Sums
        <4>2. \A j \in 1 .. Len(s) : s[j] \in Seq(T)
          OBVIOUS
        <4> QED
          BY ONLY <3>3, <4>1, <4>2
      <3>6. CASE i = 1
        <4>1. g[i - 1] = <<>>
          BY <3>6 DEF Sums
        <4>2. <<>> \o s[i] = s[i]
          BY <3>5
        <4> QED
          BY <3>3, <3>4, <3>5, <3>6, <4>1, <4>2
      <3>7. CASE i # 1
        <4>1. i - 1 \in 1 .. Len(s) /\ ~ (i <= i - 1)
          BY <3>3, <3>7
        <4>2. flat[i - 1] = g[i - 1]
          BY <3>2, <4>1
        <4> QED
          BY <3>3, <3>4, <3>5, <3>7, <4>2
      <3> QED
        BY <3>6, <3>7
    <2>5. Len(s) \in 1 .. Len(s)
      BY <1>2
    <2> QED
      BY <2>1, <2>4, <2>5
  <1> QED
    BY <1>1, <1>2

\* A flattened sequence of sequences over T is a sequence over T.
LEMMA FlattenType ==
    ASSUME NEW T, NEW s \in Seq(Seq(T))
    PROVE  FlattenSeq(s) \in Seq(T)
  <1>1. PICK g : Sums(T, s, g)
    BY SumsExist
  <1>2. FlattenSeq(s) = g[Len(s)]
    BY <1>1, FlattenIsSum
  <1> QED
    BY <1>1, <1>2 DEF Sums

\* One sequence is flattened to itself.
LEMMA FlattenOne ==
    ASSUME NEW T, NEW m \in Seq(T)
    PROVE  FlattenSeq(<<m>>) = m
  <1> DEFINE s == <<m>>
             g == [i \in 0 .. 1 |-> IF i = 0 THEN <<>> ELSE m]
  <1>1. s \in Seq(Seq(T)) /\ Len(s) = 1 /\ s[1] = m
    OBVIOUS
  <1>2. g[0] = <<>> /\ g[1] = m /\ g \in [0 .. 1 -> Seq(T)]
    OBVIOUS
  <1> HIDE DEF s, g
  <1>3. <<>> \o m = m
    OBVIOUS
  <1>4. Sums(T, s, g)
    <2>1. ASSUME NEW i \in 1 .. Len(s) PROVE g[i] = g[i - 1] \o s[i]
      <3>1. i = 1 /\ i - 1 = 0
        BY <1>1
      <3> QED
        BY <1>1, <1>2, <1>3, <3>1
    <2> QED
      BY <1>1, <1>2, <2>1 DEF Sums
  <1> QED
    BY <1>1, <1>2, <1>4, FlattenIsSum DEF s

\* Three sequences make one, in whichever order they are put together.
Regroups(T) == \A x, y, z \in Seq(T) : (x \o y) \o z = x \o (y \o z)

LEMMA Together ==
    ASSUME NEW T
    PROVE  Regroups(T)
  <1> SUFFICES ASSUME NEW x \in Seq(T), NEW y \in Seq(T), NEW z \in Seq(T)
               PROVE  (x \o y) \o z = x \o (y \o z)
    BY DEF Regroups
  <1> DEFINE a == x \o y
             b == y \o z
             p == a \o z
             q == x \o b
             l == Len(x)
             m == Len(y)
             n == Len(z)
  <1>0. l \in Nat /\ m \in Nat /\ n \in Nat
    OBVIOUS
  <1>1. /\ a \in Seq(T) /\ Len(a) = l + m
        /\ \A i \in 1 .. l + m : a[i] = IF i <= l THEN x[i] ELSE y[i - l]
    BY ConcatProperties
  <1>2. /\ b \in Seq(T) /\ Len(b) = m + n
        /\ \A i \in 1 .. m + n : b[i] = IF i <= m THEN y[i] ELSE z[i - m]
    BY ConcatProperties
  <1>s. a \in Seq(T) /\ b \in Seq(T)
    BY <1>1, <1>2
  <1> HIDE DEF a, b
  <1>3. /\ p \in Seq(T) /\ Len(p) = Len(a) + n
        /\ \A i \in 1 .. Len(a) + n : p[i] = IF i <= Len(a) THEN a[i] ELSE z[i - Len(a)]
    BY <1>s, ConcatProperties
  <1>4. /\ q \in Seq(T) /\ Len(q) = l + Len(b)
        /\ \A i \in 1 .. l + Len(b) : q[i] = IF i <= l THEN x[i] ELSE b[i - l]
    BY <1>s, ConcatProperties
  <1> HIDE DEF l, m, n, p, q
  <1>5. ASSUME NEW i \in 1 .. l + m + n PROVE p[i] = q[i]
    <2>1. p[i] = IF i <= l + m THEN a[i] ELSE z[i - (l + m)]
      BY <1>0, <1>1, <1>3
    <2>2. q[i] = IF i <= l THEN x[i] ELSE b[i - l]
      BY <1>0, <1>1, <1>2, <1>4
    <2>3. CASE i <= l
      <3>1. i \in 1 .. l + m /\ i <= l + m
        BY <1>0, <2>3
      <3> QED
        BY <1>0, <1>1, <2>1, <2>2, <2>3, <3>1
    <2>4. CASE ~ (i <= l)
      <3>1. i - l \in 1 .. m + n /\ (i - l <= m <=> i <= l + m) /\ (i - l) - m = i - (l + m)
        BY <1>0, <2>4
      <3>2. i <= l + m => i \in 1 .. l + m
        BY <1>0
      <3> QED
        BY <1>0, <1>1, <1>2, <2>1, <2>2, <2>4, <3>1, <3>2
    <2> QED
      BY <2>3, <2>4
  <1>6. Len(p) = l + m + n /\ Len(q) = l + m + n
    <2>1. Len(a) = l + m /\ Len(b) = m + n
      BY <1>1, <1>2
    <2>2. Len(p) = Len(a) + n /\ Len(q) = l + Len(b)
      BY <1>3, <1>4
    <2> QED
      BY ONLY <1>0, <2>1, <2>2
  <1>7. p = q
    BY <1>3, <1>4, <1>5, <1>6, SeqEqual
  <1> QED
    BY <1>7 DEF p, q, a, b

\* Concatenation is flattened part by part.
LEMMA FlattenConcat ==
    ASSUME NEW T, NEW a \in Seq(Seq(T)), NEW b \in Seq(Seq(T))
    PROVE  FlattenSeq(a \o b) = FlattenSeq(a) \o FlattenSeq(b)
  <1> DEFINE c == a \o b
             m == Len(a)
             n == Len(b)
  <1>1. /\ c \in Seq(Seq(T)) /\ Len(c) = m + n /\ m \in Nat /\ n \in Nat
        /\ \A i \in 1 .. m : c[i] = a[i]
        /\ \A i \in 1 .. n : c[m + i] = b[i]
    <2>0. m \in Nat /\ n \in Nat
      OBVIOUS
    <2>1. /\ c \in Seq(Seq(T)) /\ Len(c) = m + n
          /\ \A i \in 1 .. m + n : c[i] = IF i <= m THEN a[i] ELSE b[i - m]
      BY ConcatProperties
    <2> HIDE DEF c, m, n
    <2>2. ASSUME NEW i \in 1 .. n PROVE c[m + i] = b[i]
      <3>1. m + i \in 1 .. m + n /\ ~ (m + i <= m) /\ (m + i) - m = i
        BY <2>0
      <3> QED
        BY <2>1, <3>1
    <2>3. ASSUME NEW i \in 1 .. m PROVE c[i] = a[i]
      <3>1. i \in 1 .. m + n /\ i <= m
        BY <2>0
      <3> QED
        BY <2>1, <3>1
    <2> QED
      BY <2>0, <2>1, <2>2, <2>3
  <1>2. PICK g : Sums(T, a, g)
    BY SumsExist
  <1>3. PICK h : Sums(T, b, h)
    BY SumsExist
  <1> DEFINE k == [i \in 0 .. m + n |-> IF i <= m THEN g[i] ELSE g[m] \o h[i - m]]
  <1>4. /\ g[0] = <<>> /\ g \in [0 .. m -> Seq(T)]
        /\ \A i \in 1 .. m : g[i] = g[i - 1] \o a[i]
    BY <1>2 DEF Sums
  <1>5. /\ h[0] = <<>> /\ h \in [0 .. n -> Seq(T)]
        /\ \A i \in 1 .. n : h[i] = h[i - 1] \o b[i]
    BY <1>3 DEF Sums
  <1>t. Regroups(T)
    BY Together
  <1>b. b \in Seq(Seq(T)) /\ \A i \in 1 .. n : b[i] \in Seq(T)
    OBVIOUS
  <1> HIDE DEF c, m, n
  <1>6. g[m] \in Seq(T)
    BY <1>1, <1>4
  <1>7. Sums(T, c, k)
    <2>1. k \in [0 .. m + n -> Seq(T)]
      <3>1. ASSUME NEW i \in 0 .. m + n, i <= m PROVE g[i] \in Seq(T)
        BY <1>1, <1>4, <3>1
      <3>2. ASSUME NEW i \in 0 .. m + n, ~ (i <= m) PROVE g[m] \o h[i - m] \in Seq(T)
        <4>1. i - m \in 0 .. n
          BY <1>1, <3>2, SMTT(60)
        <4>2. h[i - m] \in Seq(T)
          BY <1>5, <4>1
        <4> QED
          BY <1>6, <4>2, ConcatProperties
      <3> QED
        BY <3>1, <3>2
    <2>2. k[0] = <<>>
      BY <1>1, <1>4
    <2>3. ASSUME NEW i \in 1 .. m + n PROVE k[i] = k[i - 1] \o c[i]
      <3>1. i \in 0 .. m + n /\ i - 1 \in 0 .. m + n
        BY <1>1
      <3>2. CASE i <= m
        <4>1. i \in 1 .. m /\ i - 1 <= m
          BY <1>1, <3>2
        <4>2. k[i] = g[i] /\ k[i - 1] = g[i - 1]
          BY <3>1, <3>2, <4>1
        <4> HIDE DEF k
        <4> QED
          BY <1>1, <1>4, <4>1, <4>2
      <3>3. CASE ~ (i <= m)
        <4> DEFINE j == i - m
        <4>1. j \in 1 .. n /\ j - 1 \in 0 .. n /\ i = m + j /\ i - 1 = m + (j - 1) /\ j \in 0 .. n
          BY <1>1, <3>3
        <4>2. k[i] = g[m] \o h[j]
          BY <3>1, <3>3
        <4>3. k[i - 1] = g[m] \o h[j - 1]
          <5>1. CASE j = 1
            <6>1. i - 1 = m /\ h[j - 1] = <<>>
              BY <1>1, <1>5, <4>1, <5>1
            <6>2. k[i - 1] = g[m]
              BY <3>1, <6>1, <1>1
            <6>3. g[m] \o <<>> = g[m]
              BY <1>6
            <6> QED
              BY <6>1, <6>2, <6>3
          <5>2. CASE j # 1
            <6>1. ~ (i - 1 <= m) /\ (i - 1) - m = j - 1
              BY <1>1, <4>1, <5>2
            <6> QED
              BY <3>1, <6>1
          <5> QED
            BY <5>1, <5>2
        <4> HIDE DEF k, j
        <4>4. h[j] = h[j - 1] \o b[j] /\ c[i] = b[j] /\ h[j - 1] \in Seq(T) /\ b[j] \in Seq(T)
          BY <1>1, <1>5, <1>b, <4>1
        <4>5. (g[m] \o h[j - 1]) \o b[j] = g[m] \o (h[j - 1] \o b[j])
          <5> DEFINE x == g[m]
                     y == h[j - 1]
                     z == b[j]
          <5>1. x \in Seq(T) /\ y \in Seq(T) /\ z \in Seq(T)
            BY <1>6, <4>4
          <5> HIDE DEF x, y, z
          <5>2. (x \o y) \o z = x \o (y \o z)
            BY ONLY <5>1, <1>t DEF Regroups
          <5> QED
            BY <5>2 DEF x, y, z
        <4> QED
          BY <4>2, <4>3, <4>4, <4>5
      <3> QED
        BY <3>2, <3>3
    <2> HIDE DEF k
    <2> QED
      BY <1>1, <2>1, <2>2, <2>3 DEF Sums
  <1>8. k[m + n] = g[m] \o h[n]
    <2>1. CASE n = 0
      <3>1. g[m] \o <<>> = g[m]
        BY <1>6
      <3>2. m + n = m /\ m \in 0 .. m + n /\ h[n] = <<>>
        BY <1>1, <1>5, <2>1
      <3>3. k[m] = g[m]
        BY <1>1, <3>2
      <3> QED
        BY ONLY <3>1, <3>2, <3>3
    <2>2. CASE n # 0
      <3>1. m + n \in 0 .. m + n /\ ~ (m + n <= m) /\ (m + n) - m = n
        BY <1>1, <2>2
      <3> QED
        BY <3>1
    <2> QED
      BY <2>1, <2>2
  <1> HIDE DEF k
  <1>9. FlattenSeq(c) = k[m + n]
    BY <1>1, <1>7, FlattenIsSum
  <1>10. FlattenSeq(a) = g[m] /\ FlattenSeq(b) = h[n]
    BY <1>2, <1>3, FlattenIsSum DEF m, n
  <1> QED
    BY <1>8, <1>9, <1>10 DEF c

=============================================================================

---------------------------- MODULE T30EcmProofs ----------------------------
(***************************************************************************)
(* Proofs about T30Ecm, for every document, number of frames in a block,    *)
(* modulus of the page and block numbers, limit, timer and loss: what the   *)
(* decoder is given is a prefix of the document, the ends stay in lock      *)
(* step, and who ends well ends with the whole document delivered.          *)
(***************************************************************************)
EXTENDS T30Ecm, CommonLemmas, FiniteSetTheorems

-----------------------------------------------------------------------------
(* The document, put together block by block.                               *)

Triple == Nat \X Nat \X Nat

AllPages    == [p \in DOMAIN Doc |-> Page(p)]
BlocksOf(p) == [b \in DOMAIN Doc[p] |-> Block(p, b)]

\* The pages before page n, and of that page the blocks before block k.
UpTo(n, k) == FlattenSeq(SubSeq(AllPages, 1, n)) \o FlattenSeq(SubSeq(BlocksOf(n + 1), 1, k))

LEMMA Flattened ==
    ASSUME NEW T, NEW s \in Seq(Seq(T)), NEW n \in 0 .. Len(s)
    PROVE  /\ FlattenSeq(SubSeq(s, 1, n)) \in Seq(T)
           /\ n < Len(s) => FlattenSeq(SubSeq(s, 1, n + 1)) = FlattenSeq(SubSeq(s, 1, n)) \o s[n + 1]
           /\ \E r \in Seq(T) : FlattenSeq(s) = FlattenSeq(SubSeq(s, 1, n)) \o r
  <1>0. PICK g : Sums(T, s, g)
    BY SumsExist
  <1> DEFINE A == Seq(T)
  <1>1. s \in Seq(A) /\ Len(s) \in Nat
    OBVIOUS
  <1>2. /\ g \in [0 .. Len(s) -> A] /\ g[0] = <<>>
        /\ \A i \in 1 .. Len(s) : g[i] = g[i - 1] \o s[i]
    BY <1>0 DEF Sums
  <1>3. ASSUME NEW m \in 0 .. Len(s)
        PROVE  SubSeq(s, 1, m) \in Seq(A) /\ FlattenSeq(SubSeq(s, 1, m)) = g[m]
    <2> DEFINE c == SubSeq(s, 1, m)
               h == [i \in 0 .. m |-> g[i]]
    <2> HIDE DEF A
    <2>1. c \in Seq(A) /\ Len(c) = m /\ \A i \in 1 .. m : c[i] = s[i]
      <3>1. \A i \in 1 .. m : s[i] \in A
        BY <1>1
      <3>2. /\ c \in Seq(A) /\ Len(c) = IF 1 <= m THEN m - 1 + 1 ELSE 0
            /\ \A i \in 1 .. m - 1 + 1 : c[i] = s[1 + i - 1]
        BY <1>1, <3>1, SubSeqProperties
      <3>3. \A i \in 1 .. m : i \in 1 .. m - 1 + 1 /\ 1 + i - 1 = i
        BY <1>1
      <3> QED
        BY <1>1, <3>2, <3>3
    <2> HIDE DEF c
    <2>2. h \in [0 .. m -> A] /\ h[0] = <<>>
      <3>1. ASSUME NEW i \in 0 .. m PROVE g[i] \in A
        <4>1. i \in 0 .. Len(s)
          BY <1>1
        <4> QED
          BY <1>2, <4>1
      <3>2. 0 \in 0 .. m
        OBVIOUS
      <3> QED
        BY <1>2, <3>1, <3>2
    <2>3. ASSUME NEW i \in 1 .. m PROVE h[i] = h[i - 1] \o c[i]
      <3>1. i \in 1 .. Len(s) /\ i \in 0 .. m /\ i - 1 \in 0 .. m
        BY <1>1
      <3> QED
        BY <1>2, <2>1, <3>1
    <2>4. h[m] = g[m]
      BY <1>1
    <2> HIDE DEF h
    <2>5. Sums(T, c, h)
      BY <2>1, <2>2, <2>3 DEF Sums, A
    <2>6. FlattenSeq(c) = h[m]
      BY <2>1, <2>5, FlattenIsSum DEF A
    <2> QED
      BY <2>1, <2>4, <2>6 DEF c
  <1>4. FlattenSeq(SubSeq(s, 1, n)) = g[n] /\ g[n] \in Seq(T)
    BY <1>2, <1>3
  <1>5. n < Len(s) => FlattenSeq(SubSeq(s, 1, n + 1)) = g[n] \o s[n + 1]
    <2>1. SUFFICES ASSUME n < Len(s) PROVE FlattenSeq(SubSeq(s, 1, n + 1)) = g[n] \o s[n + 1]
      OBVIOUS
    <2>2. n + 1 \in 0 .. Len(s) /\ n + 1 \in 1 .. Len(s) /\ (n + 1) - 1 = n
      BY <2>1
    <2> QED
      BY <1>2, <1>3, <2>2
  <1>6. \E r \in Seq(T) : FlattenSeq(s) = g[n] \o r
    <2> DEFINE a == SubSeq(s, 1, n)
               b == SubSeq(s, n + 1, Len(s))
               r == FlattenSeq(b)
    <2>1. a \in Seq(Seq(T)) /\ FlattenSeq(a) = g[n]
      BY <1>3
    <2>2. b \in Seq(Seq(T)) /\ s = a \o b
      <3> HIDE DEF A
      <3>1. SubSeq(s, 1, Len(s)) = s
        BY <1>1, SubSeqFull
      <3>2. SubSeq(s, 1, n) \o SubSeq(s, n + 1, Len(s)) = SubSeq(s, 1, Len(s))
        <4>1. 1 \in 1 .. Len(s) + 1 /\ n \in 1 - 1 .. Len(s) /\ Len(s) \in n .. Len(s)
          BY <1>1
        <4> QED
          BY <1>1, <4>1, ConcatAdjacentSubSeq
      <3>3. b \in Seq(A)
        <4>1. \A i \in n + 1 .. Len(s) : s[i] \in A
          BY <1>1
        <4>2. n + 1 \in Int /\ Len(s) \in Int
          BY <1>1
        <4> QED
          BY <4>1, <4>2, SubSeqProperties
      <3> QED
        BY <3>1, <3>2, <3>3 DEF A
    <2> HIDE DEF a, b
    <2>3. FlattenSeq(a \o b) = FlattenSeq(a) \o FlattenSeq(b)
      BY <2>1, <2>2, FlattenConcat
    <2>4. r \in Seq(T)
      BY <2>2, FlattenType
    <2> QED
      BY <2>1, <2>2, <2>3, <2>4
  <1> QED
    BY <1>4, <1>5, <1>6

\* Pages and blocks exist, and have frames.
LEMMA DocumentParts ==
    /\ Len(Doc) \in Nat \ {0}
    /\ \A p \in 0 .. Len(Doc) - 1 :
          /\ p + 1 \in DOMAIN Doc /\ Len(Doc[p + 1]) \in Nat \ {0}
          /\ DOMAIN Doc[p + 1] = 1 .. Len(Doc[p + 1])
          /\ \A b \in 1 .. Len(Doc[p + 1]) : Doc[p + 1][b] \in 1 .. EcmFrames
  <1>1. Doc \in Seq(Seq(1 .. EcmFrames)) /\ Doc # <<>> /\ <<>> \notin {Doc[p] : p \in DOMAIN Doc}
    BY T30EcmAssumption
  <1>2. Len(Doc) \in Nat \ {0}
    BY <1>1, EmptySeq
  <1>3. ASSUME NEW p \in 0 .. Len(Doc) - 1
        PROVE  /\ p + 1 \in DOMAIN Doc /\ Len(Doc[p + 1]) \in Nat \ {0}
               /\ DOMAIN Doc[p + 1] = 1 .. Len(Doc[p + 1])
               /\ \A b \in 1 .. Len(Doc[p + 1]) : Doc[p + 1][b] \in 1 .. EcmFrames
    <2> DEFINE d == Doc[p + 1]
               T == 1 .. EcmFrames
    <2>1. p + 1 \in DOMAIN Doc /\ p + 1 \in 1 .. Len(Doc)
      BY <1>1, <1>2
    <2>2. d # <<>>
      BY <1>1, <2>1
    <2> HIDE DEF T
    <2>3. d \in Seq(T)
      <3> DEFINE U == Seq(T)
      <3>1. Doc \in Seq(U)
        BY <1>1 DEF T
      <3> HIDE DEF U
      <3>2. Doc[p + 1] \in U
        BY <2>1, <3>1
      <3> QED
        BY <3>2 DEF U
    <2> HIDE DEF d
    <2>4. Len(d) \in Nat \ {0} /\ DOMAIN d = 1 .. Len(d) /\ \A b \in 1 .. Len(d) : d[b] \in T
      BY <2>2, <2>3, EmptySeq
    <2> QED
      BY <2>1, <2>4 DEF d, T
  <1> QED
    BY <1>2, <1>3

\* Blocks and pages are sequences of frames.
LEMMA PartsAreSequences ==
    /\ AllPages \in Seq(Seq(Triple)) /\ Len(AllPages) = Len(Doc)
    /\ \A p \in 1 .. Len(Doc) : AllPages[p] = Page(p)
    /\ \A p \in 0 .. Len(Doc) - 1 :
          /\ BlocksOf(p + 1) \in Seq(Seq(Triple)) /\ Len(BlocksOf(p + 1)) = Len(Doc[p + 1])
          /\ \A b \in 1 .. Len(Doc[p + 1]) :
                /\ BlocksOf(p + 1)[b] = Block(p + 1, b)
                /\ Block(p + 1, b) \in Seq(Triple) /\ Len(Block(p + 1, b)) = Doc[p + 1][b]
                /\ \A i \in 0 .. Doc[p + 1][b] - 1 : Block(p + 1, b)[i + 1] = <<p, b - 1, i>>
  <1> DEFINE A == Seq(Triple)
             B == Seq(A)
  <1>0. DOMAIN Doc = 1 .. Len(Doc)
    BY T30EcmAssumption
  <1>1. ASSUME NEW p \in 0 .. Len(Doc) - 1, NEW b \in 1 .. Len(Doc[p + 1])
        PROVE  /\ Block(p + 1, b) \in A /\ Len(Block(p + 1, b)) = Doc[p + 1][b]
               /\ \A i \in 0 .. Doc[p + 1][b] - 1 : Block(p + 1, b)[i + 1] = <<p, b - 1, i>>
    <2> DEFINE n == Doc[p + 1][b]
               s == [i \in 1 .. n |-> <<p, b - 1, i - 1>>]
    <2>1. n \in Nat /\ b - 1 \in Nat /\ p \in Nat /\ (p + 1) - 1 = p
      BY DocumentParts
    <2>2. Block(p + 1, b) = s
      BY <2>1 DEF Block
    <2> HIDE DEF n
    <2>3. ASSUME NEW i \in 1 .. n PROVE <<p, b - 1, i - 1>> \in Triple
      BY <2>1, <2>3 DEF Triple
    <2>4. s \in A /\ Len(s) = n
      BY <2>1, <2>3, IsASeq
    <2>5. ASSUME NEW i \in 0 .. n - 1 PROVE s[i + 1] = <<p, b - 1, i>>
      <3>1. i + 1 \in 1 .. n /\ (i + 1) - 1 = i
        BY <2>1
      <3> QED
        BY <3>1
    <2> HIDE DEF s
    <2> QED
      BY <2>2, <2>4, <2>5 DEF n
  <1>2. ASSUME NEW p \in 0 .. Len(Doc) - 1
        PROVE  /\ BlocksOf(p + 1) \in B /\ Len(BlocksOf(p + 1)) = Len(Doc[p + 1])
               /\ \A b \in 1 .. Len(Doc[p + 1]) : BlocksOf(p + 1)[b] = Block(p + 1, b)
    <2> DEFINE n == Len(Doc[p + 1])
               s == [b \in 1 .. n |-> Block(p + 1, b)]
    <2>1. n \in Nat /\ DOMAIN Doc[p + 1] = 1 .. n
      BY DocumentParts
    <2>2. BlocksOf(p + 1) = s
      BY <2>1 DEF BlocksOf
    <2>3. \A b \in 1 .. n : Block(p + 1, b) \in A
      BY <1>1
    <2> HIDE DEF n, A
    <2>4. s \in Seq(A) /\ Len(s) = n
      BY <2>1, <2>3, IsASeq
    <2>5. \A b \in 1 .. n : s[b] = Block(p + 1, b)
      OBVIOUS
    <2> HIDE DEF s
    <2> QED
      BY <2>2, <2>4, <2>5 DEF n
  <1>3. ASSUME NEW p \in 1 .. Len(Doc) PROVE Page(p) \in A
    <2>1. p - 1 \in 0 .. Len(Doc) - 1 /\ (p - 1) + 1 = p
      BY DocumentParts
    <2>2. BlocksOf(p) \in Seq(Seq(Triple))
      BY <1>2, <2>1
    <2> QED
      BY <2>2, FlattenType DEF Page, BlocksOf
  <1>4. AllPages \in B /\ Len(AllPages) = Len(Doc) /\ \A p \in 1 .. Len(Doc) : AllPages[p] = Page(p)
    <2> DEFINE s == [p \in 1 .. Len(Doc) |-> Page(p)]
    <2>1. AllPages = s /\ Len(Doc) \in Nat
      BY <1>0, DocumentParts DEF AllPages
    <2> HIDE DEF A
    <2>2. s \in Seq(A) /\ Len(s) = Len(Doc)
      BY <2>1, <1>3, IsASeq
    <2> QED
      BY <2>1, <2>2
  <1> QED
    BY <1>1, <1>2, <1>4

\* From place to place through the document.
LEMMA StartOfDocument == UpTo(0, 0) = <<>>
  <1>1. SubSeq(AllPages, 1, 0) = <<>> /\ SubSeq(BlocksOf(0 + 1), 1, 0) = <<>>
    BY SubSeqEmpty
  <1>2. FlattenSeq(<<>>) = <<>>
    BY DEF FlattenSeq
  <1>3. UpTo(0, 0) = <<>> \o <<>>
    BY <1>1, <1>2 DEF UpTo
  <1>4. <<>> \o <<>> = <<>>
    OBVIOUS
  <1> QED
    BY <1>3, <1>4

LEMMA PageStart ==
    ASSUME NEW n \in 0 .. Len(Doc)
    PROVE  UpTo(n, 0) = FlattenSeq(SubSeq(AllPages, 1, n)) /\ UpTo(n, 0) \in Seq(Triple)
  <1> DEFINE a == FlattenSeq(SubSeq(AllPages, 1, n))
  <1>1. SubSeq(BlocksOf(n + 1), 1, 0) = <<>>
    BY SubSeqEmpty
  <1>2. FlattenSeq(<<>>) = <<>>
    BY DEF FlattenSeq
  <1>3. a \in Seq(Triple)
    BY PartsAreSequences, Flattened
  <1>4. UpTo(n, 0) = a \o <<>>
    BY <1>1, <1>2 DEF UpTo
  <1> HIDE DEF a
  <1>5. a \o <<>> = a
    BY <1>3
  <1> QED
    BY <1>3, <1>4, <1>5 DEF a

LEMMA WholeDocument == UpTo(Len(Doc), 0) = Document /\ Document \in Seq(Triple)
  <1>1. Len(Doc) \in 0 .. Len(Doc)
    BY DocumentParts
  <1>2. SubSeq(AllPages, 1, Len(Doc)) = AllPages
    BY PartsAreSequences, SubSeqFull
  <1>3. Document = FlattenSeq(AllPages)
    BY DEF Document, AllPages
  <1> QED
    BY <1>1, <1>2, <1>3, PageStart

LEMMA BlockAfter ==
    ASSUME NEW n \in 0 .. Len(Doc) - 1, NEW k \in 0 .. Len(Doc[n + 1]) - 1
    PROVE  UpTo(n, k + 1) = UpTo(n, k) \o Block(n + 1, k + 1)
  <1> DEFINE a == FlattenSeq(SubSeq(AllPages, 1, n))
             bs == BlocksOf(n + 1)
             b == FlattenSeq(SubSeq(bs, 1, k))
             c == Block(n + 1, k + 1)
  <1>1. n \in 0 .. Len(Doc) /\ Len(Doc) \in Nat /\ Len(Doc[n + 1]) \in Nat
    BY DocumentParts
  <1>2. a \in Seq(Triple)
    BY <1>1, PartsAreSequences, Flattened
  <1>3. bs \in Seq(Seq(Triple)) /\ Len(bs) = Len(Doc[n + 1])
    BY PartsAreSequences
  <1>4. k + 1 \in 1 .. Len(Doc[n + 1]) /\ k \in 0 .. Len(bs) /\ k < Len(bs)
    BY <1>1, <1>3
  <1>5. bs[k + 1] = c /\ c \in Seq(Triple)
    BY <1>4, PartsAreSequences
  <1> HIDE DEF bs, c
  <1>6. b \in Seq(Triple) /\ FlattenSeq(SubSeq(bs, 1, k + 1)) = b \o c
    BY <1>3, <1>4, <1>5, Flattened
  <1> HIDE DEF a, b
  <1>r. a \in Seq(Triple) /\ b \in Seq(Triple) /\ c \in Seq(Triple) /\ Regroups(Triple)
    BY <1>2, <1>5, <1>6, Together
  <1>7. (a \o b) \o c = a \o (b \o c)
    BY ONLY <1>r DEF Regroups
  <1> QED
    BY <1>6, <1>7 DEF UpTo, a, b, bs, c

LEMMA PageAfter ==
    ASSUME NEW n \in 0 .. Len(Doc) - 1
    PROVE  UpTo(n, Len(Doc[n + 1])) = UpTo(n + 1, 0)
  <1> DEFINE a == FlattenSeq(SubSeq(AllPages, 1, n))
             bs == BlocksOf(n + 1)
  <1>1. n \in 0 .. Len(Doc) /\ n + 1 \in 0 .. Len(Doc) /\ n + 1 \in 1 .. Len(Doc) /\ n < Len(Doc)
    BY DocumentParts
  <1>2. bs \in Seq(Seq(Triple)) /\ Len(bs) = Len(Doc[n + 1])
    BY PartsAreSequences
  <1>3. SubSeq(bs, 1, Len(Doc[n + 1])) = bs
    BY <1>2, SubSeqFull
  <1>4. FlattenSeq(bs) = Page(n + 1)
    BY DEF Page, BlocksOf
  <1>5. AllPages[n + 1] = Page(n + 1)
    BY <1>1, PartsAreSequences
  <1>p. AllPages \in Seq(Seq(Triple)) /\ n \in 0 .. Len(AllPages) /\ n < Len(AllPages)
    BY <1>1, PartsAreSequences
  <1>6. FlattenSeq(SubSeq(AllPages, 1, n + 1)) = a \o AllPages[n + 1]
    BY ONLY <1>p, Flattened
  <1> HIDE DEF a, bs
  <1>7. UpTo(n, Len(Doc[n + 1])) = a \o Page(n + 1)
    BY <1>3, <1>4 DEF UpTo, a, bs
  <1> QED
    BY <1>1, <1>5, <1>6, <1>7, PageStart

LEMMA RestOfDocument ==
    ASSUME NEW n \in 0 .. Len(Doc) - 1, NEW k \in 0 .. Len(Doc[n + 1])
    PROVE  UpTo(n, k) \in Seq(Triple) /\ \E r \in Seq(Triple) : Document = UpTo(n, k) \o r
  <1> DEFINE a == FlattenSeq(SubSeq(AllPages, 1, n))
             bs == BlocksOf(n + 1)
             b == FlattenSeq(SubSeq(bs, 1, k))
  <1>1. n \in 0 .. Len(Doc) /\ n + 1 \in 0 .. Len(Doc) /\ n + 1 \in 1 .. Len(Doc) /\ n < Len(Doc)
    BY DocumentParts
  <1>2. bs \in Seq(Seq(Triple)) /\ Len(bs) = Len(Doc[n + 1])
    BY PartsAreSequences
  <1>3. a \in Seq(Triple)
    BY <1>1, PartsAreSequences, Flattened
  <1>p. /\ AllPages \in Seq(Seq(Triple)) /\ n + 1 \in 0 .. Len(AllPages) /\ AllPages[n + 1] = Page(n + 1)
        /\ n \in 0 .. Len(AllPages) /\ n < Len(AllPages)
    BY <1>1, PartsAreSequences
  <1>k. k \in 0 .. Len(bs)
    BY <1>2
  <1> HIDE DEF bs
  <1>4. b \in Seq(Triple) /\ \E r \in Seq(Triple) : FlattenSeq(bs) = b \o r
    BY ONLY <1>2, <1>k, Flattened
  <1>5. PICK r \in Seq(Triple) : FlattenSeq(bs) = b \o r
    BY <1>4
  <1>6. FlattenSeq(bs) = Page(n + 1)
    BY DEF Page, BlocksOf, bs
  <1>7. FlattenSeq(SubSeq(AllPages, 1, n + 1)) = a \o AllPages[n + 1]
    BY ONLY <1>p, Flattened
  <1>8. Document = FlattenSeq(AllPages)
    BY DEF Document, AllPages
  <1>9. PICK q \in Seq(Triple) : FlattenSeq(AllPages) = FlattenSeq(SubSeq(AllPages, 1, n + 1)) \o q
    BY ONLY <1>p, Flattened
  <1>10. UpTo(n, k) = a \o b
    BY DEF UpTo, bs
  <1> HIDE DEF a, b
  <1>11. Document = (a \o (b \o r)) \o q
    BY <1>5, <1>6, <1>7, <1>8, <1>9, <1>p
  <1>12. Regroups(Triple)
    BY Together
  <1> DEFINE T == Seq(Triple)
  <1>13. /\ b \o r \in T /\ r \o q \in T /\ a \o b \in T
         /\ (a \o (b \o r)) = ((a \o b) \o r) /\ ((a \o b) \o r) \o q = (a \o b) \o (r \o q)
    <2>1. b \o r \in T /\ r \o q \in T /\ a \o b \in T
      BY <1>3, <1>4, <1>5, <1>9, ConcatProperties
    <2>2. a \in T /\ b \in T /\ r \in T /\ q \in T
      BY <1>3, <1>4
    <2> DEFINE c == a \o b
    <2>3. (a \o (b \o r)) = ((a \o b) \o r)
      BY ONLY <2>2, <1>12 DEF Regroups
    <2> HIDE DEF c
    <2>4. (c \o r) \o q = c \o (r \o q)
      <3>1. c \in T
        BY <2>1 DEF c
      <3> QED
        BY ONLY <2>2, <3>1, <1>12 DEF Regroups
    <2> QED
      BY <2>1, <2>3, <2>4 DEF c
  <1> QED
    BY <1>10, <1>11, <1>13

LEMMA UpToIsPrefix ==
    ASSUME NEW n \in 0 .. Len(Doc) - 1, NEW k \in 0 .. Len(Doc[n + 1])
    PROVE  IsPrefix(UpTo(n, k), Document)
  <1> DEFINE a == UpTo(n, k)
  <1>1. PICK r \in Seq(Triple) : Document = a \o r
    BY RestOfDocument
  <1>2. a \in Seq(Triple)
    BY RestOfDocument
  <1> HIDE DEF a
  <1> DEFINE d == a \o r
             m == Len(a)
  <1>3. m \in Nat /\ Len(d) = m + Len(r) /\ Len(r) \in Nat /\ d \in Seq(Triple)
    BY <1>2, ConcatProperties
  <1>4. SubSeq(a, 1, m) = SubSeq(d, 1, m)
    <2>1. CASE m = 0
      BY <2>1, SubSeqEmpty
    <2>2. CASE m # 0
      <3>1. 1 \in 1 .. m /\ m \in 1 .. m
        BY <1>3, <2>2
      <3> QED
        BY <1>2, <3>1, SubSeqOfConcat1
    <2> QED
      BY <2>1, <2>2
  <1>5. IsPrefix(a, d)
    <2>1. Len(a) <= Len(d)
      BY <1>3
    <2> QED
      BY <1>4, <2>1 DEF IsPrefix
  <1> QED
    BY <1>1, <1>5 DEF a

LEMMA DocumentIsPrefix == IsPrefix(Document, Document)
  <1>1. Len(Document) \in Nat
    BY WholeDocument
  <1> QED
    BY <1>1 DEF IsPrefix

\* Every frame of a block is a frame of the document.
LEMMA InDocument ==
    ASSUME NEW n \in 0 .. Len(Doc) - 1, NEW k \in 0 .. Len(Doc[n + 1]) - 1, NEW i \in 0 .. Doc[n + 1][k + 1] - 1
    PROVE  <<n, k, i>> \in Frames
  <1> DEFINE a == UpTo(n, k)
             c == Block(n + 1, k + 1)
  <1>1. Len(Doc[n + 1]) \in Nat /\ Doc[n + 1][k + 1] \in Nat /\ k + 1 \in 1 .. Len(Doc[n + 1])
        /\ k + 1 \in 0 .. Len(Doc[n + 1]) /\ k \in 0 .. Len(Doc[n + 1]) /\ (k + 1) - 1 = k
    BY DocumentParts
  <1>2. a \in Seq(Triple)
    BY <1>1, RestOfDocument
  <1>3. PICK r \in Seq(Triple) : Document = UpTo(n, k + 1) \o r
    BY <1>1, RestOfDocument
  <1>4. UpTo(n, k + 1) = a \o c
    BY BlockAfter
  <1>5. c \in Seq(Triple) /\ Len(c) = Doc[n + 1][k + 1] /\ c[i + 1] = <<n, k, i>>
    BY <1>1, PartsAreSequences
  <1> HIDE DEF a, c
  <1> DEFINE b == a \o c
             j == Len(a) + (i + 1)
  <1>6. Len(a) \in Nat /\ i + 1 \in 1 .. Len(c) /\ Len(c) \in Nat /\ Len(r) \in Nat
    <2>1. Len(a) \in Nat /\ Len(r) \in Nat
      BY ONLY <1>2, r \in Seq(Triple)
    <2> DEFINE m == Doc[n + 1][k + 1]
    <2>2. i \in 0 .. m - 1 /\ m \in Nat /\ Len(c) = m
      BY <1>1, <1>5
    <2> HIDE DEF m
    <2>3. i + 1 \in 1 .. m
      BY ONLY <2>2
    <2> QED
      BY ONLY <2>1, <2>2, <2>3
  <1>7. b \in Seq(Triple) /\ Len(b) = Len(a) + Len(c)
    BY <1>2, <1>5, ConcatProperties
  <1>8. j \in 1 .. Len(a) + Len(c) /\ ~ (j <= Len(a)) /\ j - Len(a) = i + 1 /\ j <= Len(a) + Len(c) /\ j \in Nat
    BY ONLY <1>6
  <1> HIDE DEF j
  <1>9. b[j] = c[i + 1]
    <2>1. \A m \in 1 .. Len(a) + Len(c) : b[m] = IF m <= Len(a) THEN a[m] ELSE c[m - Len(a)]
      BY ONLY <1>2, <1>5, ConcatProperties
    <2> HIDE DEF b
    <2> QED
      BY ONLY <2>1, <1>8
  <1> HIDE DEF b
  <1>b. Len(b \o r) = Len(b) + Len(r)
    BY ONLY <1>7, r \in Seq(Triple), ConcatProperties
  <1>10. j \in 1 .. Len(b) + Len(r) /\ j <= Len(b) /\ Len(b) + Len(r) = Len(b \o r)
    BY ONLY <1>6, <1>7, <1>8, <1>b
  <1>11. (b \o r)[j] = b[j]
    BY <1>7, <1>10, ConcatProperties
  <1>12. j \in DOMAIN Document
    <2>1. b \o r \in Seq(Triple)
      BY <1>7, ConcatProperties
    <2>2. Document = b \o r
      BY <1>3, <1>4 DEF b
    <2> QED
      BY <1>10, <2>1, <2>2
  <1>13. Document[j] = <<n, k, i>>
    BY <1>3, <1>4, <1>5, <1>9, <1>11 DEF b
  <1> QED
    BY <1>12, <1>13 DEF Frames, Range
-----------------------------------------------------------------------------
(* The ends as records.                                                     *)

Phases  == {"B_TX", "D_TX", "C_ECM_TX", "C_ECM_RX", "B_RX", "D_RX", "E", "CALL_FINISHED"}
Queable == {"IDLE", "B_TX", "D_TX", "C_ECM_TX", "C_ECM_RX", "D_RX"}
States  == {"IV_PPS_NULL", "IV_PPS_Q", "IV_PPS_RNR", "IV_EOR", "IV_EOR_RNR", "IV_CTC", "C", "R",
            "F_POST_RCP_RNR", "F_POST_RCP_PPR", "F_POST_RCP_MCF", "F_DOC_ECM", "B", "IV",
            "F_POST_DOC_ECM", "T", "D", "CALL_FINISHED"}
Signals == {"none", "slow", "trained", "untrained"}
Timers  == {"IDLE", "T2", "T4", "T1A", "T2_FLAGGED", "T4_FLAGGED", "T2_DROPPED", "T4_DROPPED", "T2C", "T4C"}
Steps   == {"NULL", "MPS", "EOM", "EOP"}
Status  == {"OK", "UNEXPECTED", "T0_EXPIRED", "T1_EXPIRED", "RX_NOCARRIER", "CALLDROPPED", "TX_PHDDEAD",
            "RETRYDCN", "RX_T2EXPFAX", "RX_T2EXPMPS", "RX_T2EXPRR", "RX_T2EXP", "HDLC_CARRIER",
            "TX_T5EXP", "TX_BADPG", "TX_ECMPHD", "RX_DCNRRD", "TX_GOTDCN", "TX_NODIS", "RX_ECMPHD",
            "RX_DCNDATA", "RX_INVALCMD", "RX_DCNWHY"}

\* A frame, and what waits to be sent: never more than one.
SimpleFrame == {[t |-> k] : k \in {"CRP", "RCP", "RR", "CTR", "ERR", "RNR", "MCF", "DIS", "DCN"}}
LineFrame ==
    SimpleFrame
    \cup [t : {"FCD"}, no : Slots, data : Frames]
    \cup [t : {"PPS"}, fcf2 : Steps, page : Nat, block : Nat, count : Nat \ {0}]
    \cup [t : {"PPR"}, map : SUBSET Slots]
    \cup [t : {"CTC"}, fallback : 0 .. Fallbacks]
    \cup [t : {"EOR"}, fcf2 : Steps]

Outbox == {<<>>} \cup {<<f>> : f \in LineFrame}

EndRecord ==
    [state : States, phase : Phases, next_phase : Queable, signal : Signals,
     step : 0 .. 1, t24 : 0 .. T1, t24_is : Timers, t1 : 0 .. T1, far : {TRUE}, t5 : 0 .. 1,
     retries : Nat, status : Status, out : Outbox, ecm_len : [Slots -> Frames],
     ecm_frames : -1 .. EcmFrames, ecm_block : Nat, page : 0 .. Len(Doc), read : Nat,
     at_end : BOOLEAN, burst : Nat, cur : 0 .. EcmFrames + 3, ppr_count : 0 .. PprLimit,
     progress : Nat, fallback : 0 .. Fallbacks, short_train : BOOLEAN, next_tx : Steps,
     next_rx : Steps, last_pps : Steps, block_ok : BOOLEAN, map : SUBSET Slots,
     not_ready : 0 .. NotReady, eop : BOOLEAN, put : Seq(Triple)]

\* What an end keeps of a page and its blocks.
KeepsBlock(x, y) ==
    /\ y.page = x.page /\ y.ecm_block = x.ecm_block /\ y.read = x.read /\ y.at_end = x.at_end
    /\ y.ecm_len = x.ecm_len /\ y.ecm_frames = x.ecm_frames
    /\ y.burst = x.burst /\ y.cur = x.cur /\ y.fallback = x.fallback
    /\ y.next_tx = x.next_tx /\ y.next_rx = x.next_rx
    /\ y.last_pps = x.last_pps /\ y.block_ok = x.block_ok /\ y.map = x.map
    /\ y.eop = x.eop /\ y.put = x.put

\* What it does on the line, and whether all is well.
KeepsLine(x, y) ==
    /\ y.phase = x.phase /\ y.next_phase = x.next_phase /\ y.signal = x.signal /\ y.out = x.out
KeepsTimers(x, y) == y.t24 = x.t24 /\ y.t24_is = x.t24_is /\ y.t1 = x.t1

-----------------------------------------------------------------------------
(* The operators of T30Core, of an end that has met its far end.            *)

LEMMA Constants ==
    /\ T1 \in Nat /\ T2 \in 1 .. T1 /\ T4 \in 1 .. T1 /\ TFlagged \in 1 .. T1 /\ TDropped \in 1 .. T1
    /\ EcmFrames \in Nat /\ PprLimit \in Nat /\ Fallbacks \in Nat /\ NotReady \in Nat /\ MaxLoss \in Nat
    /\ Mod \in Nat /\ Mod > 1 /\ MaxTries \in Nat /\ S # R
  BY T30CoreAssumption, T30EcmAssumption

\* The fields of an end.
LEMMA Fields ==
    ASSUME NEW x \in EndRecord
    PROVE  /\ x.state \in States /\ x.phase \in Phases /\ x.next_phase \in Queable /\ x.signal \in Signals
           /\ x.step \in 0 .. 1 /\ x.t24 \in 0 .. T1 /\ x.t24_is \in Timers /\ x.t1 \in 0 .. T1
           /\ x.far = TRUE /\ x.t5 \in 0 .. 1 /\ x.retries \in Nat /\ x.status \in Status
           /\ x.out \in Outbox /\ x.ecm_len \in [Slots -> Frames] /\ x.ecm_frames \in -1 .. EcmFrames
           /\ x.ecm_block \in Nat /\ x.page \in 0 .. Len(Doc) /\ x.read \in Nat /\ x.at_end \in BOOLEAN
           /\ x.burst \in Nat /\ x.cur \in 0 .. EcmFrames + 3 /\ x.ppr_count \in 0 .. PprLimit
           /\ x.progress \in Nat /\ x.fallback \in 0 .. Fallbacks /\ x.next_tx \in Steps
           /\ x.next_rx \in Steps /\ x.last_pps \in Steps /\ x.block_ok \in BOOLEAN
           /\ x.map \in SUBSET Slots /\ x.not_ready \in 0 .. NotReady /\ x.eop \in BOOLEAN
           /\ x.put \in Seq(Triple)
  BY DEF EndRecord

LEMMA SetState ==
    ASSUME NEW x \in EndRecord, NEW s \in States, NEW u, u = set_state(x, s)
    PROVE  /\ u \in EndRecord /\ KeepsBlock(x, u) /\ KeepsLine(x, u) /\ KeepsTimers(x, u)
           /\ u.state = s /\ u.step = 0 /\ u.status = x.status
  <1>1. u = [x EXCEPT !.state = s, !.step = 0]
    BY DEF set_state
  <1>2. u \in EndRecord
    <2>1. 0 \in 0 .. 1
      OBVIOUS
    <2> QED
      BY ONLY <1>1, <2>1, x \in EndRecord, s \in States, ZenonT(40) DEF EndRecord
  <1>3. u.state = s /\ u.step = 0 /\ u.status = x.status /\ KeepsBlock(x, u)
    BY ONLY <1>1, x \in EndRecord DEF EndRecord, KeepsBlock
  <1>4. KeepsLine(x, u) /\ KeepsTimers(x, u)
    BY ONLY <1>1, x \in EndRecord DEF EndRecord, KeepsLine, KeepsTimers
  <1> QED
    BY ONLY <1>2, <1>3, <1>4

LEMMA SetPhase ==
    ASSUME NEW x \in EndRecord, NEW p \in Phases, NEW u, u = set_phase(x, p)
    PROVE  /\ u \in EndRecord /\ KeepsBlock(x, u) /\ KeepsTimers(x, u)
           /\ u.state = x.state /\ u.step = x.step /\ u.status = x.status
           /\ u.out = (IF x.next_phase \in {p, "IDLE"} THEN x.out ELSE <<>>)
           /\ u.phase = p /\ u.next_phase = "IDLE" /\ u.signal = "none"
  <1> DEFINE o == IF x.next_phase \in {p, "IDLE"} THEN x.out ELSE <<>>
             w == [x EXCEPT !.out = o, !.signal = "none", !.phase = p, !.next_phase = "IDLE"]
  <1>1. x.phase \notin Opening /\ x.far = TRUE /\ o \in Outbox
    BY Fields DEF Phases, Opening, Outbox
  <1>2. w \in EndRecord /\ w.far = TRUE
    <2> HIDE DEF o
    <2> QED
      BY ONLY <1>1, x \in EndRecord, p \in Phases DEF EndRecord, Queable, Signals
  <1>3. u = w
    BY <1>1, <1>2 DEF set_phase, FarEnd
  <1> HIDE DEF o
  <1>4. KeepsBlock(x, w) /\ KeepsTimers(x, w)
    BY ONLY x \in EndRecord DEF EndRecord, KeepsBlock, KeepsTimers
  <1>5. /\ w.state = x.state /\ w.step = x.step /\ w.status = x.status
        /\ w.out = o /\ w.phase = p /\ w.next_phase = "IDLE" /\ w.signal = "none"
    BY ONLY x \in EndRecord DEF EndRecord
  <1> HIDE DEF w
  <1> QED
    BY <1>2, <1>3, <1>4, <1>5 DEF o

LEMMA SetStatus ==
    ASSUME NEW x \in EndRecord, NEW s \in Status, NEW u, u = set_status(x, s)
    PROVE  /\ u \in EndRecord /\ KeepsBlock(x, u) /\ KeepsLine(x, u) /\ KeepsTimers(x, u)
           /\ u.state = x.state /\ u.step = x.step /\ u.status = s
  <1>1. u = [x EXCEPT !.status = s]
    BY DEF set_status
  <1>2. u \in EndRecord
    BY ONLY <1>1, x \in EndRecord, s \in Status, ZenonT(40) DEF EndRecord
  <1>3. u.state = x.state /\ u.step = x.step /\ u.status = s /\ KeepsBlock(x, u)
    BY ONLY <1>1, x \in EndRecord DEF EndRecord, KeepsBlock
  <1>4. KeepsLine(x, u) /\ KeepsTimers(x, u)
    BY ONLY <1>1, x \in EndRecord DEF EndRecord, KeepsLine, KeepsTimers
  <1> QED
    BY ONLY <1>2, <1>3, <1>4

\* A frame is sent when nothing else waits.
LEMMA SendFrame ==
    ASSUME NEW x \in EndRecord, x.out = <<>>, NEW f \in LineFrame, NEW u, u = send_frame(x, f)
    PROVE  /\ u \in EndRecord /\ KeepsBlock(x, u) /\ KeepsTimers(x, u)
           /\ u.state = x.state /\ u.step = x.step /\ u.status = x.status
           /\ u.phase = x.phase /\ u.next_phase = x.next_phase /\ u.signal = x.signal /\ u.out = <<f>>
  <1>1. Append(x.out, f) = <<f>> /\ <<f>> \in Outbox
    BY DEF Outbox
  <1> DEFINE o == <<f>>
             w == [x EXCEPT !.out = o]
  <1>2. u = w
    BY <1>1 DEF send_frame
  <1>3. o \in Outbox
    BY <1>1
  <1> HIDE DEF o
  <1>4. w \in EndRecord
    BY ONLY <1>3, x \in EndRecord DEF EndRecord
  <1>5. KeepsBlock(x, w) /\ KeepsTimers(x, w)
    BY ONLY x \in EndRecord DEF EndRecord, KeepsBlock, KeepsTimers
  <1>6. /\ w.state = x.state /\ w.step = x.step /\ w.status = x.status
        /\ w.phase = x.phase /\ w.next_phase = x.next_phase /\ w.signal = x.signal /\ w.out = o
    BY ONLY x \in EndRecord DEF EndRecord
  <1> HIDE DEF w
  <1> QED
    BY <1>2, <1>4, <1>5, <1>6 DEF o

\* The timer of T2 and T4.
Timed(x, n, k) == [x EXCEPT !.t24 = n, !.t24_is = k]

LEMMA SetTimer ==
    ASSUME NEW x \in EndRecord, NEW n \in 0 .. T1, NEW k \in Timers, NEW u, u = Timed(x, n, k)
    PROVE  /\ u \in EndRecord /\ KeepsBlock(x, u) /\ KeepsLine(x, u)
           /\ u.state = x.state /\ u.step = x.step /\ u.status = x.status
           /\ u.t24 = n /\ u.t24_is = k /\ u.t1 = x.t1
  <1>0. u = [x EXCEPT !.t24 = n, !.t24_is = k]
    BY DEF Timed
  <1>1. u \in EndRecord
    BY ONLY <1>0, n \in 0 .. T1, k \in Timers, x \in EndRecord, ZenonT(40) DEF EndRecord
  <1>2. KeepsBlock(x, u) /\ KeepsLine(x, u)
    BY ONLY <1>0, x \in EndRecord DEF EndRecord, KeepsBlock, KeepsLine
  <1>3. /\ u.state = x.state /\ u.step = x.step /\ u.status = x.status
        /\ u.t24 = n /\ u.t24_is = k /\ u.t1 = x.t1
    BY ONLY <1>0, x \in EndRecord DEF EndRecord
  <1> QED
    BY <1>1, <1>2, <1>3

LEMMA StartTimer ==
    ASSUME NEW x \in EndRecord, NEW k \in {"T2", "T4", "T1A", "T2_FLAGGED", "T4_FLAGGED", "T2_DROPPED", "T4_DROPPED"},
           NEW u, u = start_timer(x, k)
    PROVE  /\ u \in EndRecord /\ KeepsBlock(x, u) /\ KeepsLine(x, u)
           /\ u.state = x.state /\ u.step = x.step /\ u.status = x.status
           /\ u.t24_is = k /\ u.t1 = x.t1
  <1>1. Duration(k) \in 0 .. T1
    BY Constants DEF Duration
  <1>2. k \in Timers
    BY DEF Timers
  <1>3. u = Timed(x, Duration(k), k)
    BY DEF start_timer, Timed
  <1> QED
    BY <1>1, <1>2, <1>3, SetTimer

LEMMA StopTimer ==
    ASSUME NEW x \in EndRecord, NEW u, u = timer_t2_t4_stop(x)
    PROVE  /\ u \in EndRecord /\ KeepsBlock(x, u) /\ KeepsLine(x, u)
           /\ u.state = x.state /\ u.step = x.step /\ u.status = x.status
           /\ u.t24 = 0 /\ u.t24_is = "IDLE" /\ u.t1 = x.t1
  <1>1. u = Timed(x, 0, "IDLE")
    BY DEF timer_t2_t4_stop, Timed
  <1>2. 0 \in 0 .. T1 /\ "IDLE" \in Timers
    BY Constants DEF Timers
  <1> QED
    BY <1>1, <1>2, SetTimer

\* Nothing waits to be sent but for a phase that is queued, and a phase is
\* queued only while the far end signals.
Free(x) ==
    /\ x.next_phase = "IDLE" => x.out = <<>>
    /\ x.signal = "none" => x.next_phase = "IDLE"

\* A phase begins, or is queued while the far end signals.
Turned(x, u, p) ==
    /\ u.signal = x.signal
    /\ x.signal = "none" => u.phase = p /\ u.next_phase = "IDLE"
    /\ x.signal # "none" => u.phase = x.phase /\ u.next_phase = p

LEMMA QueuePhase ==
    ASSUME NEW x \in EndRecord, Free(x), NEW p \in Phases \cap Queable, NEW u, u = queue_phase(x, p)
    PROVE  /\ u \in EndRecord /\ KeepsBlock(x, u) /\ KeepsTimers(x, u)
           /\ u.state = x.state /\ u.step = x.step /\ u.status = x.status
           /\ Turned(x, u, p) /\ u.out = <<>>
  <1>1. Present(x) = (x.signal # "none")
    BY Fields DEF Present, Phases
  <1>2. CASE x.signal = "none"
    <2>1. u = set_phase(x, p)
      BY <1>1, <1>2 DEF queue_phase
    <2>2. x.next_phase = "IDLE" /\ x.out = <<>>
      BY <1>2 DEF Free
    <2> QED
      BY <1>2, <2>1, <2>2, SetPhase DEF Turned
  <1>3. CASE x.signal # "none"
    <2>1. u = [x EXCEPT !.out = IF x.next_phase = "IDLE" THEN x.out ELSE <<>>, !.next_phase = p]
      BY <1>1, <1>3 DEF queue_phase
    <2>2. (IF x.next_phase = "IDLE" THEN x.out ELSE <<>>) = <<>>
      BY DEF Free
    <2> DEFINE o == <<>>
               w == [x EXCEPT !.out = o, !.next_phase = p]
    <2>3. u = w /\ o \in Outbox
      BY <2>1, <2>2 DEF Outbox
    <2> HIDE DEF o
    <2>4. w \in EndRecord
      BY ONLY <2>3, p \in Phases \cap Queable, x \in EndRecord DEF EndRecord
    <2>5. KeepsBlock(x, w) /\ KeepsTimers(x, w)
      BY ONLY x \in EndRecord DEF EndRecord, KeepsBlock, KeepsTimers
    <2>6. /\ w.state = x.state /\ w.step = x.step /\ w.status = x.status /\ w.out = o
          /\ w.phase = x.phase /\ w.next_phase = p /\ w.signal = x.signal
      BY ONLY x \in EndRecord DEF EndRecord
    <2> HIDE DEF w
    <2> QED
      BY <1>3, <2>3, <2>4, <2>5, <2>6 DEF Turned, o
  <1> QED
    BY <1>2, <1>3

\* A message: its phase begins or is queued, a state is entered, a frame waits.
LEMMA Say ==
    ASSUME NEW x \in EndRecord, Free(x), NEW p \in Phases \cap Queable, NEW s \in States, NEW f \in LineFrame,
           NEW u, \/ u = send_frame(set_state(queue_phase(x, p), s), f)
                  \/ u = send_frame(queue_phase(set_state(x, s), p), f)
    PROVE  /\ u \in EndRecord /\ KeepsBlock(x, u) /\ KeepsTimers(x, u)
           /\ u.state = s /\ u.step = 0 /\ u.status = x.status
           /\ Turned(x, u, p) /\ u.out = <<f>>
  <1>1. CASE u = send_frame(set_state(queue_phase(x, p), s), f)
    <2> DEFINE a == queue_phase(x, p)
               b == set_state(a, s)
    <2>1. /\ a \in EndRecord /\ KeepsBlock(x, a) /\ KeepsTimers(x, a)
          /\ a.status = x.status /\ Turned(x, a, p) /\ a.out = <<>>
      BY QueuePhase
    <2> HIDE DEF a
    <2>2. /\ b \in EndRecord /\ KeepsBlock(a, b) /\ KeepsLine(a, b) /\ KeepsTimers(a, b)
          /\ b.state = s /\ b.step = 0 /\ b.status = a.status
      BY <2>1, SetState
    <2>3. u = send_frame(b, f) /\ b.out = <<>>
      BY <1>1, <2>1, <2>2 DEF a, KeepsLine
    <2> HIDE DEF b
    <2>4. /\ u \in EndRecord /\ KeepsBlock(b, u) /\ KeepsTimers(b, u)
          /\ u.state = b.state /\ u.step = b.step /\ u.status = b.status
          /\ u.phase = b.phase /\ u.next_phase = b.next_phase /\ u.signal = b.signal /\ u.out = <<f>>
      BY <2>2, <2>3, SendFrame
    <2> QED
      BY ONLY <2>1, <2>2, <2>4 DEF KeepsBlock, KeepsTimers, KeepsLine, Turned
  <1>2. CASE u = send_frame(queue_phase(set_state(x, s), p), f)
    <2> DEFINE a == set_state(x, s)
               b == queue_phase(a, p)
    <2>1. /\ a \in EndRecord /\ KeepsBlock(x, a) /\ KeepsLine(x, a) /\ KeepsTimers(x, a)
          /\ a.state = s /\ a.step = 0 /\ a.status = x.status
      BY SetState
    <2>2. Free(a)
      BY <2>1 DEF Free, KeepsLine
    <2> HIDE DEF a
    <2>3. /\ b \in EndRecord /\ KeepsBlock(a, b) /\ KeepsTimers(a, b)
          /\ b.state = a.state /\ b.step = a.step /\ b.status = a.status
          /\ Turned(a, b, p) /\ b.out = <<>>
      BY <2>1, <2>2, QueuePhase
    <2>4. u = send_frame(b, f)
      BY <1>2 DEF a
    <2> HIDE DEF b
    <2>5. /\ u \in EndRecord /\ KeepsBlock(b, u) /\ KeepsTimers(b, u)
          /\ u.state = b.state /\ u.step = b.step /\ u.status = b.status
          /\ u.phase = b.phase /\ u.next_phase = b.next_phase /\ u.signal = b.signal /\ u.out = <<f>>
      BY <2>3, <2>4, SendFrame
    <2> QED
      BY ONLY <2>1, <2>3, <2>5 DEF KeepsBlock, KeepsTimers, KeepsLine, Turned
  <1> QED
    BY <1>1, <1>2

\* A frame in the state there is.
LEMMA SayAgain ==
    ASSUME NEW x \in EndRecord, Free(x), NEW p \in Phases \cap Queable, NEW f \in LineFrame,
           NEW u, u = send_frame(queue_phase(x, p), f)
    PROVE  /\ u \in EndRecord /\ KeepsBlock(x, u) /\ KeepsTimers(x, u)
           /\ u.state = x.state /\ u.step = x.step /\ u.status = x.status
           /\ Turned(x, u, p) /\ u.out = <<f>>
  <1> DEFINE b == queue_phase(x, p)
  <1>1. /\ b \in EndRecord /\ KeepsBlock(x, b) /\ KeepsTimers(x, b)
        /\ b.state = x.state /\ b.step = x.step /\ b.status = x.status
        /\ Turned(x, b, p) /\ b.out = <<>>
    BY QueuePhase
  <1>2. u = send_frame(b, f)
    OBVIOUS
  <1> HIDE DEF b
  <1>3. /\ u \in EndRecord /\ KeepsBlock(b, u) /\ KeepsTimers(b, u)
        /\ u.state = b.state /\ u.step = b.step /\ u.status = b.status
        /\ u.phase = b.phase /\ u.next_phase = b.next_phase /\ u.signal = b.signal /\ u.out = <<f>>
    BY <1>1, <1>2, SendFrame
  <1> QED
    BY ONLY <1>1, <1>3 DEF KeepsBlock, KeepsTimers, Turned

\* Frames that are nothing but a kind.
LEMMA SimpleFrames ==
    ASSUME NEW k \in {"CRP", "RCP", "RR", "CTR", "ERR", "RNR", "MCF", "DIS", "DCN"}
    PROVE  [t |-> k] \in LineFrame /\ [t |-> k].t = k
  BY DEF LineFrame, SimpleFrame

LEMMA SendDcn ==
    ASSUME NEW x \in EndRecord, Free(x), NEW u, u = send_dcn(x)
    PROVE  /\ u \in EndRecord /\ KeepsBlock(x, u) /\ KeepsTimers(x, u)
           /\ u.state = "C" /\ u.step = 0 /\ u.status = x.status
           /\ Turned(x, u, "D_TX") /\ u.out = <<[t |-> "DCN"]>>
  <1>1. u = send_frame(set_state(queue_phase(x, "D_TX"), "C"), [t |-> "DCN"])
    BY DEF send_dcn, send_simple_frame
  <1>2. "D_TX" \in Phases \cap Queable /\ "C" \in States /\ [t |-> "DCN"] \in LineFrame
    BY SimpleFrames DEF Phases, Queable, States
  <1> QED
    BY <1>1, <1>2, Say

LEMMA Unexpected ==
    ASSUME NEW x \in EndRecord, NEW u, u = unexpected(x)
    PROVE  /\ u \in EndRecord /\ KeepsBlock(x, u) /\ KeepsLine(x, u) /\ KeepsTimers(x, u)
           /\ u.state = x.state /\ u.step = x.step /\ u.status # "OK"
  <1>1. CASE x.status = "OK"
    <2>1. u = set_status(x, "UNEXPECTED") /\ "UNEXPECTED" \in Status
      BY <1>1 DEF unexpected, Status
    <2> QED
      BY <2>1, SetStatus
  <1>2. CASE x.status # "OK"
    <2>1. u = x
      BY <1>2 DEF unexpected
    <2> QED
      BY <1>2, <2>1 DEF KeepsBlock, KeepsLine, KeepsTimers
  <1> QED
    BY <1>1, <1>2

LEMMA UnexpectedFinal ==
    ASSUME NEW x \in EndRecord, Free(x), NEW u, u = unexpected_final_frame(x)
    PROVE  /\ u \in EndRecord /\ KeepsBlock(x, u) /\ KeepsTimers(x, u)
           /\ u.state = "C" /\ u.step = 0 /\ u.status # "OK"
           /\ Turned(x, u, "D_TX") /\ u.out = <<[t |-> "DCN"]>>
  <1> DEFINE a == unexpected(x)
  <1>1. /\ a \in EndRecord /\ KeepsBlock(x, a) /\ KeepsLine(x, a) /\ KeepsTimers(x, a)
        /\ a.status # "OK"
    BY Unexpected
  <1>2. Free(a)
    BY <1>1 DEF Free, KeepsLine
  <1>3. u = send_dcn(a)
    BY DEF unexpected_final_frame
  <1> HIDE DEF a
  <1>4. /\ u \in EndRecord /\ KeepsBlock(a, u) /\ KeepsTimers(a, u)
        /\ u.state = "C" /\ u.step = 0 /\ u.status = a.status
        /\ Turned(a, u, "D_TX") /\ u.out = <<[t |-> "DCN"]>>
    BY <1>1, <1>2, <1>3, SendDcn
  <1> QED
    BY ONLY <1>1, <1>4 DEF KeepsBlock, KeepsTimers, KeepsLine, Turned

LEMMA Terminate ==
    ASSUME NEW x \in EndRecord, NEW u, u = terminate_call(x)
    PROVE  /\ u \in EndRecord /\ KeepsBlock(x, u)
           /\ u.state = "CALL_FINISHED" /\ u.status = x.status /\ u.t24 = 0 /\ u.t1 = 0 /\ u.t24_is = x.t24_is
           /\ u.phase = "CALL_FINISHED" /\ u.next_phase = "IDLE" /\ u.signal = "none"
  <1> DEFINE a == StopAll(x)
             b == set_state(a, "CALL_FINISHED")
  <1>a. /\ a \in EndRecord /\ KeepsBlock(x, a)
        /\ a.t24 = 0 /\ a.t1 = 0 /\ a.t24_is = x.t24_is /\ a.status = x.status
    <2> DEFINE n == 0
               m == 0
    <2>1. a = [x EXCEPT !.t24 = n, !.t1 = n, !.t5 = m]
      BY DEF StopAll
    <2>2. n \in 0 .. T1 /\ m \in 0 .. 1
      BY Constants
    <2> HIDE DEF n, m, a
    <2>3. a \in EndRecord
      BY ONLY <2>1, <2>2, x \in EndRecord, ZenonT(40) DEF EndRecord
    <2>4. KeepsBlock(x, a) /\ a.t24 = n /\ a.t1 = n /\ a.t24_is = x.t24_is /\ a.status = x.status
      BY ONLY <2>1, x \in EndRecord DEF EndRecord, KeepsBlock
    <2> QED
      BY <2>3, <2>4 DEF n
  <1>5. u = set_phase(b, "CALL_FINISHED")
    BY DEF terminate_call
  <1> HIDE DEF a
  <1>6. "CALL_FINISHED" \in States /\ "CALL_FINISHED" \in Phases
    BY DEF States, Phases
  <1>7. /\ b \in EndRecord /\ KeepsBlock(a, b) /\ KeepsTimers(a, b)
        /\ b.state = "CALL_FINISHED" /\ b.status = a.status
    BY <1>a, <1>6, SetState
  <1> HIDE DEF b
  <1>8. /\ u \in EndRecord /\ KeepsBlock(b, u) /\ KeepsTimers(b, u)
        /\ u.state = b.state /\ u.status = b.status
        /\ u.phase = "CALL_FINISHED" /\ u.next_phase = "IDLE" /\ u.signal = "none"
    BY <1>5, <1>6, <1>7, SetPhase
  <1> QED
    BY ONLY <1>a, <1>7, <1>8 DEF KeepsBlock, KeepsTimers

-----------------------------------------------------------------------------
(* The inductive invariant.                                                 *)

Asking    == {"IV_PPS_NULL", "IV_PPS_Q", "IV_PPS_RNR"}
Ending    == {"IV_EOR", "IV_EOR_RNR"}
Ended     == {"C", "B", "CALL_FINISHED"}
Answering == {"F_POST_RCP_PPR", "F_POST_RCP_RNR", "F_POST_RCP_MCF"}

\* An end signals or listens, and what it has to say waits for its turn.
Line(x) ==
    /\ x.signal # "none" => x.phase \in {"C_ECM_RX", "B_RX", "D_RX"}
    /\ x.next_phase # "IDLE" => x.signal # "none"
    /\ x.out # <<>> => Sending(x) \/ x.next_phase \in Slow \cup {"C_ECM_TX"} \/ x.state = "CALL_FINISHED"
    /\ x.state = "CALL_FINISHED" => x.phase = "CALL_FINISHED" /\ x.t24 = 0 /\ x.t1 = 0
    /\ x.phase = "CALL_FINISHED" => x.state = "CALL_FINISHED"
    /\ x.phase = "E" <=> x.state = "B"

\* None of the frames of the block under way is known to have arrived.
Full(x) == \A i \in Slots : i < x.ecm_frames => x.ecm_len[i] # None

\* What the sender may have to say.
SenderSays(x, f) ==
    \/ f.t = "CRP" /\ x.state # "IV"
    \/ /\ f.t = "FCD" /\ x.state = "IV" /\ f.no \in Slots /\ f.no < x.ecm_frames
       /\ f.data = <<x.page, x.ecm_block, f.no>>
    \/ f.t = "RCP" /\ x.state = "IV"
    \/ /\ f.t = "PPS" /\ x.state \in {"IV_PPS_NULL", "IV_PPS_Q"}
       /\ f.fcf2 = (IF x.at_end THEN x.next_tx ELSE "NULL")
       /\ f.page = x.page % Mod /\ f.block = x.ecm_block % Mod
       /\ f.count = Max({1, x.burst})
    \/ f.t = "RR" /\ x.state \in {"IV_PPS_RNR", "IV_EOR_RNR"}
    \/ f.t = "CTC" /\ x.state = "IV_CTC" /\ f.fallback = x.fallback
    \/ f.t = "EOR" /\ x.state = "IV_EOR"
    \/ f.t = "DCN" /\ x.state = "C"

SenderTimers == {"IDLE", "T4", "T4_FLAGGED", "T4_DROPPED", "T4C"}

\* The sender's states and phases.
SenderLine(x) ==
    /\ x.state \in Asking \cup Ending \cup Ended \cup {"IV", "IV_CTC", "T", "D"}
    /\ x.phase \in {"C_ECM_TX", "D_TX", "D_RX", "E", "CALL_FINISHED"}
    /\ x.next_phase \in {"IDLE", "C_ECM_TX", "D_TX"} \/ x.state = "D"
    /\ x.signal \in {"none", "slow"}
    /\ x.phase = "C_ECM_TX" \/ x.next_phase = "C_ECM_TX" <=> x.state = "IV"
    /\ x.state = "IV" => x.t24 = 0 /\ x.t1 = 0
    /\ x.t24_is \in SenderTimers
    /\ x.out # <<>> => SenderSays(x, Head(x.out)) \/ x.state = "CALL_FINISHED"

\* What the sender holds is of the block under way.
SenderBlock(x) ==
    /\ x.ecm_block \in 0 .. Len(Blocks(x)) - 1 /\ x.read = x.ecm_block + 1
    /\ x.at_end = (x.read = Len(Blocks(x)))
    /\ x.ecm_frames = Blocks(x)[x.read]
    /\ \A i \in Slots : x.ecm_len[i] # None => i < x.ecm_frames /\ x.ecm_len[i] = <<x.page, x.ecm_block, i>>

\* How far the sender is, and what it told of the frames it has sent.
SenderPlace(x) ==
    /\ x.page < Len(Doc) => SenderBlock(x)
    /\ x.state \in {"T", "D"} => x.page = Len(Doc)
    /\ x.state \in Ended /\ x.status = "OK" => x.page = Len(Doc)
    /\ x.state \notin {"T", "D"} \cup Ended => x.page < Len(Doc)
    /\ x.state \in Asking /\ x.at_end =>
          IF x.page + 1 < Len(Doc) THEN x.next_tx = "MPS" ELSE x.next_tx \in {"EOP", "EOM"}
    /\ x.state = "IV" /\ Full(x) => x.burst = IF x.cur < x.ecm_frames THEN x.cur ELSE x.ecm_frames
    /\ x.state = "IV" /\ x.step = 1 => x.cur >= x.ecm_frames
    /\ x.state \in Asking /\ Full(x) => x.burst = x.ecm_frames
    /\ ~x.eop

Sender(x) == x \in EndRecord /\ Line(x) /\ SenderLine(x) /\ SenderPlace(x)

\* What the receiver may have to say.
ReceiverSays(x, f) ==
    \/ f.t = "CRP"
    \/ f.t \in {"CTR", "ERR"} /\ x.state = "F_DOC_ECM"
    \/ f.t = "PPR" /\ x.state = "F_POST_RCP_PPR" /\ f.map = x.map
    \/ f.t = "RNR" /\ x.state = "F_POST_RCP_RNR"
    \/ f.t = "MCF" /\ x.state = "F_POST_RCP_MCF"
    \/ f.t = "DIS" /\ x.state = "R"
    \/ f.t = "DCN" /\ x.state = "C"

\* The receiver's states and phases.
ReceiverLine(x) ==
    /\ x.state \in Answering \cup Ended \cup {"F_DOC_ECM", "F_POST_DOC_ECM", "R"}
    /\ x.phase # "C_ECM_TX" /\ x.next_phase # "C_ECM_TX"
    /\ Receiving(x) => x.phase \notin {"B_RX", "B_TX"} /\ x.next_phase # "B_TX"
    /\ x.out # <<>> => ReceiverSays(x, Head(x.out)) \/ x.state = "CALL_FINISHED"

\* It has handed over what is before its place.
ReceiverPlace(x) ==
    /\ x.page < Len(Doc) => x.ecm_block \in 0 .. Len(Blocks(x)) - 1
    /\ x.page = Len(Doc) => x.ecm_block = 0 /\ x.put = Document
    /\ Receiving(x) => x.put = UpTo(x.page, x.ecm_block)
    /\ IsPrefix(x.put, Document)
    /\ x.page < Len(Doc) /\ x.state \in Answering => x.next_rx = "MPS"
    /\ x.eop \/ (x.state \in Ended /\ x.status = "OK") => x.page = Len(Doc)

Receiver(y) == y \in EndRecord /\ Line(y) /\ ReceiverLine(y) /\ ReceiverPlace(y)

\* The frames of the block under way that the receiver lacks.
Missing(y) == {i \in Slots : y.ecm_len[i] = None}

\* What it holds of them, and who holds the others.
Stored(x, y) ==
    /\ \A i \in Slots : /\ y.ecm_len[i] \in {None, <<x.page, x.ecm_block, i>>}
                        /\ y.ecm_len[i] # None => i < x.ecm_frames
                        /\ y.ecm_len[i] = None /\ i < x.ecm_frames => x.ecm_len[i] # None
    /\ y.ecm_frames \in {-1, x.ecm_frames}
    /\ y.ecm_frames = -1 => Full(x)

AtOne(x, y) == x.page < Len(Doc) /\ Place(y) = Place(x)
Ahead(x, y) == x.page < Len(Doc) /\ Place(y) = After(x)
Done(x, y)  == x.page = Len(Doc) /\ Place(y) = Place(x)

\* The MCF for the block before has been taken, but not all of its carrier.
Late(x, y) == y.state = "F_POST_RCP_MCF" /\ AtOne(x, y)

\* The two ends on their way through the document.
InStep(x, y) ==
    /\ Receiving(y) => AtOne(x, y) \/ Ahead(x, y) \/ Done(x, y)
    /\ Receiving(y) /\ Ahead(x, y) => x.state \in Asking \cup Ended /\ y.ecm_len = Empty /\ y.ecm_frames = -1
    /\ Receiving(y) /\ AtOne(x, y) => Stored(x, y)
    /\ y.state = "F_POST_RCP_PPR" => AtOne(x, y) /\ y.ecm_frames >= 0 /\ Missing(y) \subseteq y.map
    /\ y.state = "F_POST_RCP_RNR" =>
          /\ x.state \in Asking \cup Ended
          /\ y.block_ok => Ahead(x, y) /\ (y.last_pps = "EOP" => y.page = Len(Doc))
          /\ ~y.block_ok => AtOne(x, y) /\ y.ecm_frames >= 0 /\ Missing(y) \subseteq y.map
    /\ Late(x, y) => x.state = "IV" /\ ~Sending(x) /\ y.phase \in Slow /\ y.out = <<>>
    /\ y.page < Len(Doc) /\ y.next_rx # "MPS" => x.state \in Ending \cup Ended
    /\ x.page = Len(Doc) => y.page = Len(Doc)
    /\ x.state \in Asking \cup {"IV"} => y.fallback = x.fallback
    /\ y.state = "F_DOC_ECM" /\ y.out = <<[t |-> "CTR"]>> => y.fallback = x.fallback

\* Who has the line: none speaks before the other has ended, and who has been
\* answered has nothing left to say.
Turns(x, y) ==
    /\ x.signal = "none" \/ y.signal = "none"
    /\ y.signal = "slow" /\ y.next_phase # "IDLE" /\ x.phase \in Slow /\ x.state \in Asking => x.out = <<>>
    /\ x.next_phase # "IDLE" /\ y.phase \in Slow /\ y.state \in Answering \cup {"F_DOC_ECM"} => y.out = <<>>
    /\ x.state = "IV" /\ ~Sending(x) =>
          /\ x.signal = "slow" /\ x.next_phase = "C_ECM_TX"
          /\ y.phase \in Slow => y.state \in {"F_POST_RCP_MCF", "F_POST_RCP_PPR", "F_DOC_ECM"}
    /\ y.state = "F_POST_RCP_MCF" /\ y.next_rx = "MPS" /\ ~Sending(y) =>
          y.signal = "slow" /\ y.next_phase = "D_TX" /\ x.state \in Asking

Losses == losses \in [image : 0 .. MaxLoss, answer : 0 .. MaxLoss, other : 0 .. MaxLoss]

Inv == /\ Losses /\ t30 = [e \in {S, R} |-> t30[e]]
       /\ Sender(t30[S]) /\ Receiver(t30[R])
       /\ InStep(t30[S], t30[R]) /\ Turns(t30[S], t30[R])

-----------------------------------------------------------------------------
(* An end by itself: what keeps to the line.                                *)

\* Phases, and the frames in them.
LEMMA LineTurned ==
    ASSUME NEW x \in EndRecord, Line(x), x.state # "CALL_FINISHED", NEW p \in Phases \cap Queable, p # "IDLE",
           NEW u \in EndRecord, Turned(x, u, p), u.state \notin {"B", "CALL_FINISHED"},
           u.out = <<>> \/ p \in {"B_TX", "D_TX", "C_ECM_TX"}
    PROVE  Line(u)
  <1>1. p \notin {"E", "CALL_FINISHED"}
    BY DEF Phases, Queable
  <1> QED
    BY <1>1 DEF Line, Turned, Sending, Slow

LEMMA LineKept ==
    ASSUME NEW x \in EndRecord, Line(x), NEW u \in EndRecord, KeepsLine(x, u),
           u.state = x.state \/ {u.state, x.state} \cap {"B", "CALL_FINISHED"} = {},
           u.state = "CALL_FINISHED" => u.t24 = 0 /\ u.t1 = 0
    PROVE  Line(u)
  BY DEF Line, KeepsLine, Sending

LEMMA LineFinished ==
    ASSUME NEW u \in EndRecord, u.state = "CALL_FINISHED", u.phase = "CALL_FINISHED", u.next_phase = "IDLE",
           u.signal = "none", u.t24 = 0, u.t1 = 0
    PROVE  Line(u)
  BY DEF Line

\* Phases that the end of a message begins.
LEMMA LineListens ==
    ASSUME NEW u \in EndRecord, u.phase \in {"C_ECM_RX", "B_RX", "D_RX"}, u.next_phase = "IDLE", u.signal = "none",
           u.out = <<>>, u.state \notin {"B", "CALL_FINISHED"}
    PROVE  Line(u)
  BY DEF Line

LEMMA LineIsFree ==
    ASSUME NEW x \in EndRecord, Line(x), x.signal # "none"
    PROVE  /\ Free(x) /\ ~Sending(x) /\ x.phase \in {"C_ECM_RX", "B_RX", "D_RX"}
           /\ x.state \notin {"B", "CALL_FINISHED"}
           /\ x.next_phase \notin Slow \cup {"C_ECM_TX"} => x.out = <<>>
  BY DEF Line, Free, Sending, Slow

-----------------------------------------------------------------------------
(* The sender by itself.                                                    *)

\* What it keeps, it may say again, and its block stays.
LEMMA SaysTheSame ==
    ASSUME NEW x, NEW u, KeepsBlock(x, u), u.state = x.state, NEW f, SenderSays(x, f)
    PROVE  SenderSays(u, f)
  BY DEF SenderSays, KeepsBlock

LEMMA BlockKept ==
    ASSUME NEW x, NEW u, KeepsBlock(x, u)
    PROVE  /\ SenderBlock(x) => SenderBlock(u)
           /\ Full(u) <=> Full(x)
           /\ Place(u) = Place(x) /\ After(u) = After(x) /\ Blocks(u) = Blocks(x)
           /\ Missing(u) = Missing(x)
  BY DEF SenderBlock, KeepsBlock, Full, Place, After, Blocks, Missing

LEMMA SenderDcn ==
    ASSUME NEW x, Sender(x), x.state \notin {"IV", "CALL_FINISHED"} \/ x.signal # "none",
           x.signal = "slow" => x.phase = "D_RX",
           NEW u \in EndRecord, KeepsBlock(x, u), u.t24_is \in {x.t24_is, "IDLE"},
           u.state = "C", Turned(x, u, "D_TX"), u.out = <<[t |-> "DCN"]>>,
           u.status # "OK" \/ x.page = Len(Doc)
    PROVE  Sender(u)
  <1>1. x \in EndRecord /\ Line(x) /\ SenderLine(x) /\ SenderPlace(x)
    BY DEF Sender
  <1>2. x.state # "CALL_FINISHED"
    BY <1>1 DEF Line
  <1>3. Line(u)
    <2>1. "D_TX" \in Phases \cap Queable
      BY DEF Phases, Queable
    <2> QED
      BY <1>1, <1>2, <2>1, LineTurned
  <1>4. SenderSays(u, Head(u.out))
    <2>1. Head(u.out).t = "DCN"
      OBVIOUS
    <2> QED
      BY <2>1 DEF SenderSays
  <1>5. SenderLine(u)
    BY <1>1, <1>4 DEF SenderLine, Turned, SenderTimers, Ended
  <1>6. SenderPlace(u)
    <2>1. u.page = x.page /\ u.eop = x.eop
      BY DEF KeepsBlock
    <2> QED
      BY <1>1, <2>1, BlockKept DEF SenderPlace, Ended, Asking
  <1> QED
    BY <1>3, <1>5, <1>6 DEF Sender

LEMMA SenderFinished ==
    ASSUME NEW x, Sender(x), NEW u \in EndRecord, KeepsBlock(x, u), u.t24_is \in {x.t24_is, "IDLE"},
           u.state = "CALL_FINISHED", u.phase = "CALL_FINISHED", u.next_phase = "IDLE",
           u.signal = "none", u.t24 = 0, u.t1 = 0, u.status # "OK" \/ x.page = Len(Doc)
    PROVE  Sender(u)
  <1>1. x \in EndRecord /\ Line(x) /\ SenderLine(x) /\ SenderPlace(x)
    BY DEF Sender
  <1>2. Line(u)
    BY LineFinished
  <1>3. SenderLine(u)
    BY <1>1 DEF SenderLine, SenderTimers, Ended
  <1>4. SenderPlace(u)
    <2>1. u.page = x.page /\ u.eop = x.eop
      BY DEF KeepsBlock
    <2> QED
      BY <1>1, <2>1, BlockKept DEF SenderPlace, Ended, Asking
  <1> QED
    BY <1>2, <1>3, <1>4 DEF Sender

\* Place, and what was told of it, while the state stays.
LEMMA SenderPlaceKept ==
    ASSUME NEW x \in EndRecord, SenderPlace(x), NEW u, KeepsBlock(x, u), u.state = x.state, u.step \in {x.step, 0},
           u.status \in {x.status} \/ u.status # "OK"
    PROVE  SenderPlace(u)
  <1>1. /\ u.page = x.page /\ u.eop = x.eop /\ u.at_end = x.at_end /\ u.next_tx = x.next_tx
        /\ u.burst = x.burst /\ u.cur = x.cur /\ u.ecm_frames = x.ecm_frames
    BY DEF KeepsBlock
  <1>2. (SenderBlock(x) => SenderBlock(u)) /\ (Full(u) <=> Full(x))
    BY BlockKept
  <1> QED
    BY <1>1, <1>2 DEF SenderPlace

\* It goes on in its state: nothing is said, or a message again.
LEMMA SenderWaits ==
    ASSUME NEW x, Sender(x), NEW u \in EndRecord, KeepsBlock(x, u), KeepsLine(x, u), u.t24_is \in SenderTimers,
           u.state = x.state, u.step \in {x.step, 0}, u.status \in {x.status} \/ u.status # "OK",
           u.state \in {"IV", "CALL_FINISHED"} => u.t24 = 0 /\ u.t1 = 0
    PROVE  Sender(u)
  <1>1. x \in EndRecord /\ Line(x) /\ SenderLine(x) /\ SenderPlace(x)
    BY DEF Sender
  <1>2. Line(u)
    BY <1>1, LineKept
  <1>3. SenderLine(u)
    <2>1. u.out # <<>> => SenderSays(u, Head(u.out)) \/ u.state = "CALL_FINISHED"
      BY <1>1, SaysTheSame DEF SenderLine, KeepsLine
    <2> QED
      BY <1>1, <2>1 DEF SenderLine, KeepsLine
  <1>4. SenderPlace(u)
    BY <1>1, SenderPlaceKept
  <1> QED
    BY <1>2, <1>3, <1>4 DEF Sender

LEMMA SenderRepeats ==
    ASSUME NEW x, Sender(x), x.state \notin {"IV", "B", "CALL_FINISHED"},
           x.signal = "slow" => x.phase = "D_RX",
           NEW u \in EndRecord, KeepsBlock(x, u), u.t24_is \in SenderTimers,
           u.state = x.state, u.step \in {x.step, 0}, u.status \in {x.status} \/ u.status # "OK",
           NEW f, Turned(x, u, "D_TX"), u.out = <<f>>, SenderSays(u, f)
    PROVE  Sender(u)
  <1>1. x \in EndRecord /\ Line(x) /\ SenderLine(x) /\ SenderPlace(x)
    BY DEF Sender
  <1>2. Line(u)
    <2>1. "D_TX" \in Phases \cap Queable
      BY DEF Phases, Queable
    <2> QED
      BY <1>1, <2>1, LineTurned
  <1>3. SenderLine(u)
    <2>1. Head(u.out) = f
      OBVIOUS
    <2> QED
      BY <1>1, <2>1 DEF SenderLine, Turned
  <1>4. SenderPlace(u)
    BY <1>1, SenderPlaceKept
  <1> QED
    BY <1>2, <1>3, <1>4 DEF Sender

-----------------------------------------------------------------------------
(* Counters and flags that the invariant does not speak of.                 *)

Alike(x, u) ==
    /\ u \in EndRecord /\ KeepsBlock(x, u) /\ KeepsLine(x, u) /\ KeepsTimers(x, u)
    /\ u.state = x.state /\ u.status = x.status

LEMMA ZeroOne == 0 \in 0 .. 1 /\ 1 \in 0 .. 1 /\ 0 \in 0 .. T1 /\ T1 \in 0 .. T1 /\ 0 \in Nat
  BY Constants

LEMMA Answered ==
    ASSUME NEW x \in EndRecord, NEW u, u = [x EXCEPT !.retries = 0, !.t5 = 0]
    PROVE  Alike(x, u) /\ u.step = x.step
  <1>1. u \in EndRecord
    BY ONLY u = [x EXCEPT !.retries = 0, !.t5 = 0], x \in EndRecord, ZeroOne, ZenonT(40) DEF EndRecord
  <1>2. KeepsBlock(x, u) /\ KeepsLine(x, u) /\ KeepsTimers(x, u)
    BY ONLY u = [x EXCEPT !.retries = 0, !.t5 = 0], x \in EndRecord DEF EndRecord, KeepsBlock, KeepsLine, KeepsTimers
  <1>3. u.state = x.state /\ u.status = x.status /\ u.step = x.step
    BY ONLY u = [x EXCEPT !.retries = 0, !.t5 = 0], x \in EndRecord DEF EndRecord
  <1> QED
    BY <1>1, <1>2, <1>3 DEF Alike

LEMMA SetT5 ==
    ASSUME NEW x \in EndRecord, NEW n \in 0 .. 1, NEW u, u = [x EXCEPT !.t5 = n]
    PROVE  Alike(x, u) /\ u.step = x.step
  <1>1. u \in EndRecord
    BY ONLY u = [x EXCEPT !.t5 = n], n \in 0 .. 1, x \in EndRecord, ZenonT(40) DEF EndRecord
  <1>2. KeepsBlock(x, u) /\ KeepsLine(x, u) /\ KeepsTimers(x, u)
    BY ONLY u = [x EXCEPT !.t5 = n], x \in EndRecord DEF EndRecord, KeepsBlock, KeepsLine, KeepsTimers
  <1>3. u.state = x.state /\ u.status = x.status /\ u.step = x.step
    BY ONLY u = [x EXCEPT !.t5 = n], x \in EndRecord DEF EndRecord
  <1> QED
    BY <1>1, <1>2, <1>3 DEF Alike

LEMMA Retried ==
    ASSUME NEW x \in EndRecord, NEW u, u = [x EXCEPT !.step = 0, !.retries = @ + 1]
    PROVE  Alike(x, u) /\ u.step = 0
  <1> DEFINE r == x.retries + 1
             w == [x EXCEPT !.step = 0, !.retries = r]
  <1>0. u = w /\ r \in Nat
    <2>1. x.retries \in Nat
      BY Fields
    <2>2. r \in Nat
      BY ONLY <2>1
    <2>3. u = w
      OBVIOUS
    <2> QED
      BY <2>2, <2>3
  <1> HIDE DEF r
  <1>1. w \in EndRecord
    BY ONLY <1>0, x \in EndRecord, ZeroOne DEF EndRecord
  <1>2. KeepsBlock(x, w) /\ KeepsLine(x, w) /\ KeepsTimers(x, w)
    BY ONLY x \in EndRecord DEF EndRecord, KeepsBlock, KeepsLine, KeepsTimers
  <1>3. w.state = x.state /\ w.status = x.status /\ w.step = 0
    BY ONLY x \in EndRecord DEF EndRecord
  <1> QED
    BY <1>0, <1>1, <1>2, <1>3 DEF Alike

LEMMA SetStep ==
    ASSUME NEW x \in EndRecord, NEW n \in 0 .. 1, NEW u, u = [x EXCEPT !.step = n]
    PROVE  Alike(x, u) /\ u.step = n
  <1>1. u \in EndRecord
    BY ONLY u = [x EXCEPT !.step = n], n \in 0 .. 1, x \in EndRecord, ZenonT(40) DEF EndRecord
  <1>2. KeepsBlock(x, u) /\ KeepsLine(x, u) /\ KeepsTimers(x, u)
    BY ONLY u = [x EXCEPT !.step = n], x \in EndRecord DEF EndRecord, KeepsBlock, KeepsLine, KeepsTimers
  <1>3. u.state = x.state /\ u.status = x.status /\ u.step = n
    BY ONLY u = [x EXCEPT !.step = n], x \in EndRecord DEF EndRecord
  <1> QED
    BY <1>1, <1>2, <1>3 DEF Alike

LEMMA SetTraining ==
    ASSUME NEW x \in EndRecord, NEW b \in BOOLEAN, NEW u, u = [x EXCEPT !.short_train = b]
    PROVE  Alike(x, u) /\ u.step = x.step
  <1>1. u \in EndRecord
    BY ONLY u = [x EXCEPT !.short_train = b], b \in BOOLEAN, x \in EndRecord, ZenonT(40) DEF EndRecord
  <1>2. KeepsBlock(x, u) /\ KeepsLine(x, u) /\ KeepsTimers(x, u)
    BY ONLY u = [x EXCEPT !.short_train = b], x \in EndRecord DEF EndRecord, KeepsBlock, KeepsLine, KeepsTimers
  <1>3. u.state = x.state /\ u.status = x.status /\ u.step = x.step
    BY ONLY u = [x EXCEPT !.short_train = b], x \in EndRecord DEF EndRecord
  <1> QED
    BY <1>1, <1>2, <1>3 DEF Alike

LEMMA SetNotReadyCount ==
    ASSUME NEW x \in EndRecord, NEW n \in 0 .. NotReady, NEW u, u = [x EXCEPT !.not_ready = n]
    PROVE  Alike(x, u) /\ u.step = x.step
  <1>1. u \in EndRecord
    BY ONLY u = [x EXCEPT !.not_ready = n], n \in 0 .. NotReady, x \in EndRecord, ZenonT(40) DEF EndRecord
  <1>2. KeepsBlock(x, u) /\ KeepsLine(x, u) /\ KeepsTimers(x, u)
    BY ONLY u = [x EXCEPT !.not_ready = n], x \in EndRecord DEF EndRecord, KeepsBlock, KeepsLine, KeepsTimers
  <1>3. u.state = x.state /\ u.status = x.status /\ u.step = x.step
    BY ONLY u = [x EXCEPT !.not_ready = n], x \in EndRecord DEF EndRecord
  <1> QED
    BY <1>1, <1>2, <1>3 DEF Alike

LEMMA SetT1 ==
    ASSUME NEW x \in EndRecord, NEW n \in 0 .. T1, NEW u, u = [x EXCEPT !.t1 = n]
    PROVE  /\ u \in EndRecord /\ KeepsBlock(x, u) /\ KeepsLine(x, u)
           /\ u.state = x.state /\ u.status = x.status /\ u.step = x.step
           /\ u.t24 = x.t24 /\ u.t24_is = x.t24_is /\ u.t1 = n
  <1>1. u \in EndRecord
    BY ONLY u = [x EXCEPT !.t1 = n], n \in 0 .. T1, x \in EndRecord, ZenonT(40) DEF EndRecord
  <1>2. KeepsBlock(x, u) /\ KeepsLine(x, u)
    BY ONLY u = [x EXCEPT !.t1 = n], x \in EndRecord DEF EndRecord, KeepsBlock, KeepsLine
  <1>3. /\ u.state = x.state /\ u.status = x.status /\ u.step = x.step
        /\ u.t24 = x.t24 /\ u.t24_is = x.t24_is /\ u.t1 = n
    BY ONLY u = [x EXCEPT !.t1 = n], x \in EndRecord DEF EndRecord
  <1> QED
    BY <1>1, <1>2, <1>3

\* A frame that waited has gone.
LEMMA Emptied ==
    ASSUME NEW x \in EndRecord, x.out # <<>>, NEW u, u = [x EXCEPT !.out = Tail(@)]
    PROVE  /\ u \in EndRecord /\ KeepsBlock(x, u) /\ KeepsTimers(x, u)
           /\ u.phase = x.phase /\ u.next_phase = x.next_phase /\ u.signal = x.signal /\ u.out = <<>>
           /\ u.state = x.state /\ u.status = x.status /\ u.step = x.step
           /\ Head(x.out) \in LineFrame /\ x.out = <<Head(x.out)>>
  <1>0. PICK f \in LineFrame : x.out = <<f>>
    BY Fields DEF Outbox
  <1> DEFINE o == <<>>
  <1>1. u = [x EXCEPT !.out = o] /\ Head(x.out) = f
    BY <1>0
  <1>2. o \in Outbox
    BY DEF Outbox
  <1> HIDE DEF o
  <1>3. u \in EndRecord
    BY ONLY <1>1, <1>2, x \in EndRecord, ZenonT(40) DEF EndRecord
  <1>4. KeepsBlock(x, u) /\ KeepsTimers(x, u)
    BY ONLY <1>1, x \in EndRecord DEF EndRecord, KeepsBlock, KeepsTimers
  <1>5. /\ u.phase = x.phase /\ u.next_phase = x.next_phase /\ u.signal = x.signal /\ u.out = o
        /\ u.state = x.state /\ u.status = x.status /\ u.step = x.step
    BY ONLY <1>1, x \in EndRecord DEF EndRecord
  <1> QED
    BY <1>0, <1>1, <1>3, <1>4, <1>5 DEF o

-----------------------------------------------------------------------------
(* The sender's blocks.                                                     *)

\* What stays when frames of the block are sent.
KeepsHeld(x, y) ==
    /\ y.page = x.page /\ y.ecm_block = x.ecm_block /\ y.read = x.read /\ y.at_end = x.at_end
    /\ y.ecm_len = x.ecm_len /\ y.ecm_frames = x.ecm_frames /\ y.fallback = x.fallback
    /\ y.next_tx = x.next_tx /\ y.next_rx = x.next_rx
    /\ y.last_pps = x.last_pps /\ y.block_ok = x.block_ok /\ y.map = x.map
    /\ y.eop = x.eop /\ y.put = x.put

\* How many frames of a full block have gone.
Counted(x) == Full(x) => x.burst = IF x.cur < x.ecm_frames THEN x.cur ELSE x.ecm_frames

LEMMA HeldBlock ==
    ASSUME NEW x, NEW u, KeepsHeld(x, u)
    PROVE  /\ SenderBlock(x) => SenderBlock(u)
           /\ Full(u) <=> Full(x)
           /\ Place(u) = Place(x) /\ After(u) = After(x) /\ Blocks(u) = Blocks(x)
  BY DEF SenderBlock, KeepsHeld, Full, Place, After, Blocks

LEMMA BlockFacts ==
    ASSUME NEW x \in EndRecord, x.page < Len(Doc), SenderBlock(x)
    PROVE  /\ x.page \in 0 .. Len(Doc) - 1 /\ x.page + 1 \in 0 .. Len(Doc) /\ Blocks(x) = Doc[x.page + 1]
           /\ Len(Blocks(x)) \in Nat \ {0} /\ x.ecm_block \in 0 .. Len(Blocks(x)) - 1
           /\ x.read \in 1 .. Len(Blocks(x)) /\ x.read = x.ecm_block + 1
           /\ x.ecm_frames = Doc[x.page + 1][x.ecm_block + 1]
           /\ x.ecm_frames \in 1 .. EcmFrames
           /\ EcmFrames \in Nat \ {0}
  <1>1. x.page \in 0 .. Len(Doc) /\ Len(Doc) \in Nat
    BY Fields, DocumentParts
  <1>2. x.page \in 0 .. Len(Doc) - 1 /\ x.page + 1 \in 0 .. Len(Doc)
    BY <1>1
  <1>3. Len(Doc[x.page + 1]) \in Nat \ {0} /\ \A b \in 1 .. Len(Doc[x.page + 1]) : Doc[x.page + 1][b] \in 1 .. EcmFrames
    BY <1>2, DocumentParts
  <1>4. Blocks(x) = Doc[x.page + 1]
    BY DEF Blocks
  <1>5. /\ x.ecm_block \in 0 .. Len(Blocks(x)) - 1 /\ x.read = x.ecm_block + 1
        /\ x.ecm_frames = Blocks(x)[x.read]
    BY DEF SenderBlock
  <1>6. x.read \in 1 .. Len(Blocks(x))
    BY <1>3, <1>4, <1>5
  <1>7. x.ecm_frames \in 1 .. EcmFrames
    BY <1>3, <1>4, <1>5, <1>6
  <1>8. EcmFrames \in Nat \ {0}
    BY <1>7, Constants
  <1> QED
    BY <1>2, <1>3, <1>4, <1>5, <1>6, <1>7, <1>8

\* A frame, or an RCP, and how far it takes the burst.
AfterFcd(v, c, b) == [v EXCEPT !.cur = c, !.burst = b]
AfterRcp(v, c, q) == [v EXCEPT !.cur = c, !.short_train = q]

LEMMA FcdCounted ==
    ASSUME NEW v \in EndRecord, NEW c \in 0 .. EcmFrames + 3, NEW b \in Nat, NEW u, u = AfterFcd(v, c, b)
    PROVE  /\ u \in EndRecord /\ KeepsHeld(v, u) /\ KeepsTimers(v, u) /\ KeepsLine(v, u)
           /\ u.state = v.state /\ u.step = v.step /\ u.status = v.status /\ u.cur = c /\ u.burst = b
  <1>1. u = [v EXCEPT !.cur = c, !.burst = b]
    BY DEF AfterFcd
  <1>2. u \in EndRecord
    BY ONLY <1>1, v \in EndRecord, c \in 0 .. EcmFrames + 3, b \in Nat, ZenonT(40) DEF EndRecord
  <1>3. KeepsHeld(v, u) /\ KeepsTimers(v, u) /\ KeepsLine(v, u)
    BY ONLY <1>1, v \in EndRecord DEF EndRecord, KeepsHeld, KeepsTimers, KeepsLine
  <1>4. u.state = v.state /\ u.step = v.step /\ u.status = v.status /\ u.cur = c /\ u.burst = b
    BY ONLY <1>1, v \in EndRecord DEF EndRecord
  <1> QED
    BY <1>2, <1>3, <1>4

LEMMA RcpCounted ==
    ASSUME NEW v \in EndRecord, NEW c \in 0 .. EcmFrames + 3, NEW q \in BOOLEAN, NEW u, u = AfterRcp(v, c, q)
    PROVE  /\ u \in EndRecord /\ KeepsHeld(v, u) /\ KeepsTimers(v, u) /\ KeepsLine(v, u)
           /\ u.state = v.state /\ u.step = v.step /\ u.status = v.status /\ u.cur = c /\ u.burst = v.burst
  <1>1. u = [v EXCEPT !.cur = c, !.short_train = q]
    BY DEF AfterRcp
  <1>2. u \in EndRecord
    BY ONLY <1>1, v \in EndRecord, c \in 0 .. EcmFrames + 3, q \in BOOLEAN, ZenonT(40) DEF EndRecord
  <1>3. KeepsHeld(v, u) /\ KeepsTimers(v, u) /\ KeepsLine(v, u)
    BY ONLY <1>1, v \in EndRecord DEF EndRecord, KeepsHeld, KeepsTimers, KeepsLine
  <1>4. u.state = v.state /\ u.step = v.step /\ u.status = v.status /\ u.cur = c /\ u.burst = v.burst
    BY ONLY <1>1, v \in EndRecord DEF EndRecord
  <1> QED
    BY <1>2, <1>3, <1>4

LEMMA NextFrameSent ==
    ASSUME NEW x \in EndRecord, x.out = <<>>, x.state = "IV", x.page < Len(Doc), SenderBlock(x),
           MoreEcmFrames(x), Counted(x), NEW u, u = send_next_ecm_frame(x)
    PROVE  /\ u \in EndRecord /\ KeepsHeld(x, u) /\ KeepsTimers(x, u)
           /\ u.state = x.state /\ u.step = x.step /\ u.status = x.status
           /\ u.phase = x.phase /\ u.next_phase = x.next_phase /\ u.signal = x.signal
           /\ \E f \in LineFrame : u.out = <<f>> /\ SenderSays(u, f)
           /\ Counted(u)
  <1> DEFINE n == x.ecm_frames
             c == x.cur
             b == x.burst
  <1>1. n \in 1 .. EcmFrames /\ EcmFrames \in Nat /\ c \in 0 .. EcmFrames + 3 /\ b \in Nat
    BY BlockFacts, Fields
  <1>2. NextFrames(x) = {i \in c .. n - 1 : x.ecm_len[i] # None}
    BY DEF NextFrames
  <1>3. \A i \in Slots : x.ecm_len[i] # None => i < n /\ x.ecm_len[i] = <<x.page, x.ecm_block, i>>
    BY DEF SenderBlock
  <1>4. x.ecm_len \in [Slots -> Frames]
    BY Fields
  <1>5. Counted(x) => (Full(x) => b = IF c < n THEN c ELSE n)
    BY DEF Counted
  <1>6. Full(x) => \A i \in Slots : i < n => x.ecm_len[i] # None
    BY DEF Full
  <1>7. MoreEcmFrames(x) => NextFrames(x) # {} \/ c < n + 3
    BY DEF MoreEcmFrames
  <1>8. x.state = "IV"
    OBVIOUS
  <1> HIDE DEF n, c, b
  <1>9. CASE NextFrames(x) # {}
    <2> DEFINE i == Min(NextFrames(x))
               f == [t |-> "FCD", no |-> i, data |-> x.ecm_len[i]]
               v == send_frame(x, f)
    <2>1. NextFrames(x) \in SUBSET Nat
      BY <1>1, <1>2
    <2>2. i \in NextFrames(x) /\ \A j \in NextFrames(x) : i <= j
      BY <1>9, <2>1, MinIsLeast
    <2>3. u = [v EXCEPT !.cur = i + 1, !.burst = @ + 1]
      BY <1>9 DEF send_next_ecm_frame
    <2> HIDE DEF i
    <2>4. i \in c .. n - 1 /\ x.ecm_len[i] # None /\ i \in Slots /\ i < n /\ i \in Nat
      BY <1>1, <1>2, <2>2 DEF Slots
    <2>5. f \in LineFrame
      <3>1. x.ecm_len[i] \in Frames
        BY <1>4, <2>4
      <3> QED
        BY <2>4, <3>1 DEF LineFrame
    <2>6. f.t = "FCD" /\ f.no = i /\ f.data = <<x.page, x.ecm_block, i>>
      BY <1>3, <2>4
    <2> HIDE DEF f
    <2>7. /\ v \in EndRecord /\ KeepsBlock(x, v) /\ KeepsTimers(x, v)
          /\ v.state = x.state /\ v.step = x.step /\ v.status = x.status
          /\ v.phase = x.phase /\ v.next_phase = x.next_phase /\ v.signal = x.signal /\ v.out = <<f>>
      BY <2>5, SendFrame
    <2> HIDE DEF v
    <2>8. i + 1 \in 0 .. EcmFrames + 3 /\ v.burst = b /\ b + 1 \in Nat
      <3>1. v.burst = b
        BY <2>7 DEF KeepsBlock, b
      <3> QED
        BY ONLY <1>1, <2>4, <3>1
    <2> DEFINE c2 == i + 1
               b2 == b + 1
    <2>9. u = AfterFcd(v, c2, b2)
      BY <2>3, <2>8 DEF AfterFcd
    <2>10. c2 \in 0 .. EcmFrames + 3 /\ b2 \in Nat
      BY <2>8
    <2> HIDE DEF c2, b2
    <2>11. /\ u \in EndRecord /\ KeepsHeld(v, u) /\ KeepsTimers(v, u) /\ KeepsLine(v, u)
           /\ u.state = v.state /\ u.step = v.step /\ u.status = v.status /\ u.cur = c2 /\ u.burst = b2
      <3>1. v \in EndRecord
        BY <2>7
      <3> QED
        BY ONLY <2>9, <2>10, <3>1, FcdCounted
    <2>12. KeepsHeld(x, u) /\ KeepsTimers(x, u)
      BY ONLY <2>7, <2>11 DEF KeepsHeld, KeepsBlock, KeepsTimers
    <2>13. SenderSays(u, f)
      <3>1. u.ecm_frames = n /\ u.page = x.page /\ u.ecm_block = x.ecm_block
        BY <2>12 DEF KeepsHeld, n
      <3> QED
        BY <1>8, <2>4, <2>6, <2>7, <2>11, <3>1 DEF SenderSays
    <2>14. Counted(u)
      <3>1. SUFFICES ASSUME Full(u) PROVE u.burst = IF u.cur < u.ecm_frames THEN u.cur ELSE u.ecm_frames
        BY DEF Counted
      <3>2. Full(x)
        BY <2>12, <3>1, HeldBlock
      <3>3. u.ecm_frames = n
        BY <2>12 DEF KeepsHeld, n
      <3>4. c < n
        BY <1>1, <2>4
      <3>5. c \in NextFrames(x)
        <4>1. c \in Slots /\ c \in c .. n - 1
          BY <1>1, <3>4 DEF Slots
        <4> QED
          BY <1>2, <1>6, <3>2, <3>4, <4>1
      <3>6. i = c
        <4>1. i <= c
          BY <2>2, <3>5
        <4> QED
          BY ONLY <1>1, <2>4, <4>1
      <3>7. b = c
        BY <1>5, <3>2, <3>4
      <3> QED
        BY <1>1, <2>11, <3>3, <3>4, <3>6, <3>7 DEF c2, b2
    <2> QED
      BY <2>5, <2>7, <2>11, <2>12, <2>13, <2>14 DEF KeepsLine
  <1>10. CASE NextFrames(x) = {}
    <2> DEFINE f == [t |-> "RCP"]
               v == send_simple_frame(x, "RCP")
               m == Max({c, n})
               c2 == m + 1
    <2>1. f \in LineFrame /\ f.t = "RCP"
      BY SimpleFrames
    <2>2. v = send_frame(x, f)
      BY DEF send_simple_frame
    <2>3. u = [v EXCEPT !.cur = c2, !.short_train = TRUE]
      BY <1>10 DEF send_next_ecm_frame, n, c
    <2> HIDE DEF f, v
    <2>4. /\ v \in EndRecord /\ KeepsBlock(x, v) /\ KeepsTimers(x, v)
          /\ v.state = x.state /\ v.step = x.step /\ v.status = x.status
          /\ v.phase = x.phase /\ v.next_phase = x.next_phase /\ v.signal = x.signal /\ v.out = <<f>>
      BY <2>1, <2>2, SendFrame
    <2>5. m \in {c, n} /\ m >= c /\ m >= n
      <3>1. {c, n} \in SUBSET (0 .. EcmFrames + 3) /\ EcmFrames + 3 \in Nat
        BY <1>1
      <3> QED
        BY <3>1, MaxIsLargest
    <2> HIDE DEF m
    <2>6. c < n + 3
      BY <1>7, <1>10
    <2>7. c2 \in 0 .. EcmFrames + 3 /\ c2 > n /\ c2 > c
      BY ONLY <1>1, <2>5, <2>6
    <2> DEFINE q == TRUE
               b2 == v.burst
    <2>8. u = AfterRcp(v, c2, q) /\ q \in BOOLEAN /\ b2 = v.burst
      BY <2>3 DEF AfterRcp
    <2> HIDE DEF c2, q, b2
    <2>9. /\ u \in EndRecord /\ KeepsHeld(v, u) /\ KeepsTimers(v, u) /\ KeepsLine(v, u)
          /\ u.state = v.state /\ u.step = v.step /\ u.status = v.status /\ u.cur = c2 /\ u.burst = b2
      BY <2>4, <2>7, <2>8, RcpCounted
    <2>10. KeepsHeld(x, u) /\ KeepsTimers(x, u)
      BY ONLY <2>4, <2>9 DEF KeepsHeld, KeepsBlock, KeepsTimers
    <2>11. SenderSays(u, f)
      BY <1>8, <2>1, <2>4, <2>9 DEF SenderSays
    <2>12. Counted(u)
      <3>1. SUFFICES ASSUME Full(u) PROVE u.burst = IF u.cur < u.ecm_frames THEN u.cur ELSE u.ecm_frames
        BY DEF Counted
      <3>2. Full(x)
        BY <2>10, <3>1, HeldBlock
      <3>3. u.ecm_frames = n /\ u.burst = b
        BY <2>4, <2>8, <2>9, <2>10 DEF KeepsHeld, KeepsBlock, n, b
      <3>4. ~(c < n)
        <4>1. SUFFICES ASSUME c < n PROVE FALSE
          OBVIOUS
        <4>2. c \in Slots /\ c \in c .. n - 1
          BY <1>1, <4>1 DEF Slots
        <4>3. c \in NextFrames(x)
          BY <1>2, <1>6, <3>2, <4>1, <4>2
        <4> QED
          BY <1>10, <4>3
      <3>5. b = n
        BY <1>5, <3>2, <3>4
      <3> QED
        BY <1>1, <2>7, <2>9, <3>3, <3>5
    <2> QED
      BY <2>1, <2>4, <2>9, <2>10, <2>11, <2>12 DEF KeepsLine
  <1> QED
    BY <1>9, <1>10

\* A block, from its first frame.
LEMMA BlockStarted ==
    ASSUME NEW x \in EndRecord, Free(x), x.page < Len(Doc), SenderBlock(x), NEW u, u = SendBlock(x)
    PROVE  /\ u \in EndRecord /\ KeepsHeld(x, u) /\ KeepsTimers(x, u)
           /\ u.state = "IV" /\ u.step = 0 /\ u.status = x.status /\ Turned(x, u, "C_ECM_TX")
           /\ \E f \in LineFrame : u.out = <<f>> /\ SenderSays(u, f)
           /\ Counted(u)
  <1> DEFINE a == set_state(x, "IV")
             b == queue_phase(a, "C_ECM_TX")
             z == 0
             c == AfterFcd(b, z, z)
  <1>1. /\ a \in EndRecord /\ KeepsBlock(x, a) /\ KeepsLine(x, a) /\ KeepsTimers(x, a)
        /\ a.state = "IV" /\ a.step = 0 /\ a.status = x.status
    <2>1. "IV" \in States
      BY DEF States
    <2> QED
      BY <2>1, SetState
  <1>2. u = send_next_ecm_frame(c)
    BY DEF SendBlock, send_first_ecm_frame, AfterFcd
  <1> HIDE DEF a
  <1>3. Free(a)
    BY <1>1 DEF Free, KeepsLine
  <1>4. /\ b \in EndRecord /\ KeepsBlock(a, b) /\ KeepsTimers(a, b)
        /\ b.state = a.state /\ b.step = a.step /\ b.status = a.status
        /\ Turned(a, b, "C_ECM_TX") /\ b.out = <<>>
    <2>1. "C_ECM_TX" \in Phases \cap Queable
      BY DEF Phases, Queable
    <2> QED
      BY <1>1, <1>3, <2>1, QueuePhase
  <1> HIDE DEF b
  <1>5. z \in 0 .. EcmFrames + 3 /\ z \in Nat
    BY Constants
  <1> HIDE DEF z
  <1>6. /\ c \in EndRecord /\ KeepsHeld(b, c) /\ KeepsTimers(b, c) /\ KeepsLine(b, c)
        /\ c.state = b.state /\ c.step = b.step /\ c.status = b.status /\ c.cur = z /\ c.burst = z
    <2>1. b \in EndRecord
      BY <1>4
    <2> QED
      BY ONLY <1>5, <2>1, FcdCounted
  <1> HIDE DEF c
  <1>7. KeepsHeld(x, c) /\ KeepsTimers(x, c)
    BY ONLY <1>1, <1>4, <1>6 DEF KeepsHeld, KeepsBlock, KeepsTimers
  <1>8. SenderBlock(c) /\ c.page < Len(Doc)
    BY <1>7, HeldBlock DEF KeepsHeld
  <1>9. c.ecm_frames \in 1 .. EcmFrames /\ EcmFrames \in Nat
    BY <1>6, <1>8, BlockFacts
  <1>10. Counted(c)
    <2>1. c.cur = 0 /\ c.burst = 0
      BY <1>6 DEF z
    <2> QED
      BY <1>9, <2>1 DEF Counted
  <1>11. MoreEcmFrames(c)
    <2>1. c.cur = 0
      BY <1>6 DEF z
    <2> QED
      BY <1>9, <2>1 DEF MoreEcmFrames
  <1>12. c.out = <<>> /\ c.state = "IV"
    BY <1>1, <1>4, <1>6 DEF KeepsLine
  <1>13. /\ u \in EndRecord /\ KeepsHeld(c, u) /\ KeepsTimers(c, u)
         /\ u.state = c.state /\ u.step = c.step /\ u.status = c.status
         /\ u.phase = c.phase /\ u.next_phase = c.next_phase /\ u.signal = c.signal
         /\ \E f \in LineFrame : u.out = <<f>> /\ SenderSays(u, f)
         /\ Counted(u)
    BY <1>2, <1>6, <1>8, <1>10, <1>11, <1>12, NextFrameSent
  <1>14. KeepsHeld(x, u) /\ KeepsTimers(x, u)
    BY ONLY <1>7, <1>13 DEF KeepsHeld, KeepsTimers
  <1>15. Turned(x, u, "C_ECM_TX")
    BY ONLY <1>1, <1>4, <1>6, <1>13 DEF Turned, KeepsLine
  <1> QED
    BY <1>1, <1>4, <1>6, <1>13, <1>14, <1>15

LEMMA SenderBegins ==
    ASSUME NEW x \in EndRecord, Line(x), x.state # "CALL_FINISHED", x.signal = "none" => x.out = <<>> /\ x.next_phase = "IDLE",
           x.signal \in {"none", "slow"}, x.signal = "slow" => x.phase = "D_RX",
           x.t24 = 0, x.t1 = 0, x.t24_is \in SenderTimers, ~x.eop, x.page < Len(Doc), SenderBlock(x),
           NEW u, u = SendBlock(x)
    PROVE  /\ Sender(u) /\ KeepsHeld(x, u) /\ u.state = "IV" /\ Turned(x, u, "C_ECM_TX")
  <1>1. Free(x)
    BY LineIsFree DEF Free
  <1>2. /\ u \in EndRecord /\ KeepsHeld(x, u) /\ KeepsTimers(x, u)
        /\ u.state = "IV" /\ u.step = 0 /\ u.status = x.status /\ Turned(x, u, "C_ECM_TX")
        /\ Counted(u)
    BY <1>1, BlockStarted
  <1>3. PICK f \in LineFrame : u.out = <<f>> /\ SenderSays(u, f)
    BY <1>1, BlockStarted
  <1>4. Line(u)
    <2>1. "C_ECM_TX" \in Phases \cap Queable
      BY DEF Phases, Queable
    <2> QED
      BY <1>2, <2>1, LineTurned
  <1>5. SenderLine(u)
    <2>1. Head(u.out) = f
      BY <1>3
    <2> QED
      BY <1>2, <1>3, <2>1 DEF SenderLine, Turned, KeepsTimers
  <1>6. SenderPlace(u)
    <2>1. u.page = x.page /\ u.eop = x.eop /\ SenderBlock(u)
      BY <1>2, HeldBlock DEF KeepsHeld
    <2> QED
      BY <1>2, <2>1 DEF SenderPlace, Counted, Asking, Ended
  <1> QED
    BY <1>2, <1>4, <1>5, <1>6 DEF Sender

\* What stays when a block is taken from the page.
KeepsCall(x, u) ==
    /\ u \in EndRecord /\ KeepsLine(x, u) /\ KeepsTimers(x, u)
    /\ u.state = x.state /\ u.step = x.step /\ u.status = x.status
    /\ u.fallback = x.fallback /\ u.eop = x.eop /\ u.next_tx = x.next_tx

Held(p, b) == [i \in Slots |-> IF i < Doc[p + 1][b + 1] THEN <<p, b, i>> ELSE None]
BlockTaken(x, r, n, l, m) ==
    [x EXCEPT !.ppr_count = 0, !.progress = 0, !.ecm_len = l, !.ecm_frames = n, !.read = r, !.at_end = (r = m)]

LEMMA HeldIsInDocument ==
    ASSUME NEW p \in 0 .. Len(Doc) - 1, NEW b \in 0 .. Len(Doc[p + 1]) - 1
    PROVE  /\ Held(p, b) \in [Slots -> Frames] /\ Doc[p + 1][b + 1] \in -1 .. EcmFrames
           /\ b \in Nat /\ b + 1 \in Nat /\ p \in 0 .. Len(Doc)
           /\ \A i \in Slots : /\ i < Doc[p + 1][b + 1] => Held(p, b)[i] = <<p, b, i>> /\ Held(p, b)[i] # None
                               /\ ~(i < Doc[p + 1][b + 1]) => Held(p, b)[i] = None
  <1> DEFINE n == Doc[p + 1][b + 1]
             l == Held(p, b)
  <1>1. Len(Doc) \in Nat \ {0} /\ Len(Doc[p + 1]) \in Nat \ {0} /\ EcmFrames \in Nat
    BY DocumentParts, Constants
  <1>2. b + 1 \in 1 .. Len(Doc[p + 1]) /\ b \in Nat /\ b + 1 \in Nat /\ p \in 0 .. Len(Doc)
    BY <1>1
  <1>3. n \in 1 .. EcmFrames
    BY <1>2, DocumentParts
  <1>4. n \in -1 .. EcmFrames
    BY <1>1, <1>3
  <1>5. ASSUME NEW i \in Slots
        PROVE  /\ l[i] \in Frames
               /\ i < n => l[i] = <<p, b, i>> /\ l[i] # None
               /\ ~(i < n) => l[i] = None
    <2>1. CASE i < n
      <3>1. i \in 0 .. Doc[p + 1][b + 1] - 1
        BY <1>3, <2>1 DEF Slots
      <3>2. <<p, b, i>> \in Frames
        BY <3>1, InDocument
      <3>3. <<p, b, i>> # <<>>
        OBVIOUS
      <3>4. l[i] = <<p, b, i>>
        BY <2>1 DEF Held
      <3> QED
        BY <2>1, <3>2, <3>3, <3>4 DEF None
    <2>2. CASE ~(i < n)
      BY <2>2 DEF Held, Frames
    <2> QED
      BY <2>1, <2>2
  <1>6. l = [i \in Slots |-> l[i]]
    BY DEF Held
  <1> HIDE DEF l
  <1>7. l \in [Slots -> Frames]
    BY <1>5, <1>6
  <1> QED
    BY <1>2, <1>4, <1>5, <1>7 DEF l

LEMMA BlockTakenFields ==
    ASSUME NEW x \in EndRecord, NEW r \in Nat, NEW n \in -1 .. EcmFrames,
           NEW l \in [Slots -> Frames], NEW m, NEW u, u = BlockTaken(x, r, n, l, m)
    PROVE  /\ KeepsCall(x, u) /\ u.page = x.page /\ u.ecm_block = x.ecm_block
           /\ u.read = r /\ u.ecm_len = l /\ u.ecm_frames = n /\ u.at_end = (r = m)
  <1> DEFINE a == r = m
  <1>1. u = [x EXCEPT !.ppr_count = 0, !.progress = 0, !.ecm_len = l, !.ecm_frames = n, !.read = r, !.at_end = a]
    BY DEF BlockTaken
  <1>a. a \in BOOLEAN
    OBVIOUS
  <1> HIDE DEF a
  <1>2. 0 \in 0 .. PprLimit
    BY Constants
  <1>3. u \in EndRecord
    BY ONLY <1>1, <1>2, <1>a, ZeroOne, x \in EndRecord, r \in Nat, n \in -1 .. EcmFrames, l \in [Slots -> Frames]
        , ZenonT(40) DEF EndRecord
  <1>4. KeepsLine(x, u) /\ KeepsTimers(x, u)
    BY ONLY <1>1, x \in EndRecord DEF EndRecord, KeepsLine, KeepsTimers
  <1>5. /\ u.state = x.state /\ u.step = x.step /\ u.status = x.status
        /\ u.fallback = x.fallback /\ u.eop = x.eop /\ u.next_tx = x.next_tx
        /\ u.page = x.page /\ u.ecm_block = x.ecm_block
        /\ u.read = r /\ u.ecm_len = l /\ u.ecm_frames = n /\ u.at_end = a
    BY ONLY <1>1, x \in EndRecord DEF EndRecord
  <1> QED
    BY <1>3, <1>4, <1>5 DEF a, KeepsCall

LEMMA GetBlock ==
    ASSUME NEW x \in EndRecord, x.page \in 0 .. Len(Doc) - 1, x.read \in 0 .. Len(Doc[x.page + 1]) - 1,
           NEW u, u = get_partial_ecm_page(x)
    PROVE  /\ KeepsCall(x, u) /\ u.page = x.page /\ u.ecm_block = x.ecm_block
           /\ u.read = x.read + 1 /\ u.ecm_frames = Doc[x.page + 1][x.read + 1]
           /\ u.at_end = (x.read + 1 = Len(Doc[x.page + 1])) /\ u.ecm_len = Held(x.page, x.read)
  <1> DEFINE p == x.page
             b == x.read
             r == x.read + 1
             n == Doc[x.page + 1][x.read + 1]
             l == Held(x.page, x.read)
             m == Len(Doc[x.page + 1])
  <1>1. Blocks(x) = Doc[x.page + 1]
    BY DEF Blocks
  <1>2. Content(x) = l
    BY <1>1 DEF Content, Held
  <1>3. u = BlockTaken(x, r, n, l, m)
    BY <1>1, <1>2 DEF get_partial_ecm_page, BlockTaken
  <1>4. r \in Nat /\ n \in -1 .. EcmFrames /\ l \in [Slots -> Frames]
    BY HeldIsInDocument
  <1>5. r = x.read + 1 /\ n = Doc[x.page + 1][x.read + 1] /\ m = Len(Doc[x.page + 1]) /\ l = Held(x.page, x.read)
    OBVIOUS
  <1> HIDE DEF r, n, l, m
  <1>6. /\ KeepsCall(x, u) /\ u.page = x.page /\ u.ecm_block = x.ecm_block
        /\ u.read = r /\ u.ecm_len = l /\ u.ecm_frames = n /\ u.at_end = (r = m)
    BY <1>3, <1>4, BlockTakenFields
  <1> QED
    BY <1>5, <1>6

LEMMA BlockNumbered ==
    ASSUME NEW x \in EndRecord, NEW b \in Nat, NEW u, u = [x EXCEPT !.ecm_block = b]
    PROVE  /\ KeepsCall(x, u) /\ u.page = x.page /\ u.ecm_block = b
           /\ u.read = x.read /\ u.ecm_len = x.ecm_len /\ u.ecm_frames = x.ecm_frames /\ u.at_end = x.at_end
           /\ u.put = x.put /\ u.next_rx = x.next_rx
  <1>1. u \in EndRecord
    BY ONLY u = [x EXCEPT !.ecm_block = b], b \in Nat, x \in EndRecord, ZenonT(40) DEF EndRecord
  <1>2. KeepsLine(x, u) /\ KeepsTimers(x, u)
    BY ONLY u = [x EXCEPT !.ecm_block = b], x \in EndRecord DEF EndRecord, KeepsLine, KeepsTimers
  <1>3. /\ u.state = x.state /\ u.step = x.step /\ u.status = x.status
        /\ u.fallback = x.fallback /\ u.eop = x.eop /\ u.next_tx = x.next_tx
        /\ u.page = x.page /\ u.ecm_block = b /\ u.put = x.put /\ u.next_rx = x.next_rx
        /\ u.read = x.read /\ u.ecm_len = x.ecm_len /\ u.ecm_frames = x.ecm_frames /\ u.at_end = x.at_end
    BY ONLY u = [x EXCEPT !.ecm_block = b], x \in EndRecord DEF EndRecord
  <1> QED
    BY <1>1, <1>2, <1>3 DEF KeepsCall

\* A page ends, and the next one starts.
LEMMA PageEnded ==
    ASSUME NEW x \in EndRecord, x.page < Len(Doc), NEW u, u = tx_end_page(x)
    PROVE  KeepsCall(x, u) /\ u.page = x.page + 1 /\ u.ecm_block = 0 /\ u.page \in 0 .. Len(Doc)
  <1> DEFINE p == x.page + 1
  <1>1. p \in 0 .. Len(Doc)
    <2>1. x.page \in 0 .. Len(Doc) /\ Len(Doc) \in Nat
      BY Fields, DocumentParts
    <2> QED
      BY <2>1
  <1>2. u = [x EXCEPT !.retries = 0, !.page = p, !.ecm_block = 0]
    BY DEF tx_end_page
  <1> HIDE DEF p
  <1>3. u \in EndRecord
    BY ONLY <1>1, <1>2, ZeroOne, x \in EndRecord, ZenonT(40) DEF EndRecord
  <1>4. KeepsLine(x, u) /\ KeepsTimers(x, u)
    BY ONLY <1>2, x \in EndRecord DEF EndRecord, KeepsLine, KeepsTimers
  <1>5. /\ u.state = x.state /\ u.step = x.step /\ u.status = x.status
        /\ u.fallback = x.fallback /\ u.eop = x.eop /\ u.next_tx = x.next_tx
        /\ u.page = p /\ u.ecm_block = 0
    BY ONLY <1>2, x \in EndRecord DEF EndRecord
  <1> QED
    BY <1>1, <1>3, <1>4, <1>5 DEF KeepsCall, p

LEMMA PageStarted ==
    ASSUME NEW x \in EndRecord, NEW u, u = tx_start_page(x)
    PROVE  KeepsCall(x, u) /\ u.page = x.page /\ u.ecm_block = 0 /\ u.read = 0
  <1>1. u = [x EXCEPT !.ecm_block = 0, !.read = 0]
    BY DEF tx_start_page
  <1>2. u \in EndRecord
    BY ONLY <1>1, ZeroOne, x \in EndRecord, ZenonT(40) DEF EndRecord
  <1>3. KeepsLine(x, u) /\ KeepsTimers(x, u)
    BY ONLY <1>1, x \in EndRecord DEF EndRecord, KeepsLine, KeepsTimers
  <1>4. /\ u.state = x.state /\ u.step = x.step /\ u.status = x.status
        /\ u.fallback = x.fallback /\ u.eop = x.eop /\ u.next_tx = x.next_tx
        /\ u.page = x.page /\ u.ecm_block = 0 /\ u.read = 0
    BY ONLY <1>1, x \in EndRecord DEF EndRecord
  <1> QED
    BY <1>2, <1>3, <1>4 DEF KeepsCall

\* A new block is full.
LEMMA NewBlockIsFull ==
    ASSUME NEW p \in 0 .. Len(Doc) - 1, NEW b \in 0 .. Len(Doc[p + 1]) - 1,
           NEW u \in EndRecord, u.page = p, u.ecm_block = b, u.read = b + 1, u.ecm_frames = Doc[p + 1][b + 1],
           u.at_end = (b + 1 = Len(Doc[p + 1])), u.ecm_len = Held(p, b)
    PROVE  SenderBlock(u) /\ Full(u) /\ u.page < Len(Doc)
  <1>1. Blocks(u) = Doc[p + 1]
    BY DEF Blocks
  <1>2. \A i \in Slots : /\ i < u.ecm_frames => u.ecm_len[i] = <<p, b, i>> /\ u.ecm_len[i] # None
                         /\ ~(i < u.ecm_frames) => u.ecm_len[i] = None
    BY HeldIsInDocument
  <1>3. u.page < Len(Doc)
    BY DocumentParts
  <1>4. SenderBlock(u)
    BY <1>1, <1>2 DEF SenderBlock
  <1> QED
    BY <1>2, <1>3, <1>4 DEF Full

-----------------------------------------------------------------------------
(* The two ends together, when one of them does something.                  *)

LEMMA Alternatives ==
    ASSUME NEW x, NEW u, KeepsBlock(x, u) \/ KeepsHeld(x, u)
    PROVE  /\ u.page = x.page /\ u.ecm_block = x.ecm_block /\ u.ecm_len = x.ecm_len
           /\ u.ecm_frames = x.ecm_frames /\ u.fallback = x.fallback /\ u.put = x.put /\ u.next_rx = x.next_rx
           /\ Blocks(u) = Blocks(x) /\ Place(u) = Place(x) /\ After(u) = After(x)
           /\ (Full(u) <=> Full(x)) /\ Missing(u) = Missing(x)
  BY DEF KeepsBlock, KeepsHeld, Blocks, Place, After, Full, Missing

\* The sender goes on with its block, or ends the call.
LEMMA InStepSender ==
    ASSUME NEW x, NEW y, InStep(x, y), NEW u, KeepsBlock(x, u) \/ KeepsHeld(x, u),
           \/ u.state = x.state \/ u.state \in Ended
           \/ u.state \in Asking /\ x.state \in Asking \cup {"IV"},
           ~Late(x, y) \/ (u.state = x.state /\ Sending(u) = Sending(x))
    PROVE  InStep(u, y)
  <1>1. /\ u.page = x.page /\ u.ecm_block = x.ecm_block /\ u.ecm_len = x.ecm_len
        /\ u.ecm_frames = x.ecm_frames /\ u.fallback = x.fallback
        /\ Place(u) = Place(x) /\ After(u) = After(x) /\ (Full(u) <=> Full(x))
    BY Alternatives
  <1>2. /\ AtOne(u, y) <=> AtOne(x, y)
        /\ Ahead(u, y) <=> Ahead(x, y)
        /\ Done(u, y) <=> Done(x, y)
        /\ Late(u, y) <=> Late(x, y)
    BY <1>1 DEF AtOne, Ahead, Done, Late
  <1>3. Stored(x, y) => Stored(u, y)
    BY <1>1 DEF Stored
  <1>4. /\ x.state \in Asking \cup Ended => u.state \in Asking \cup Ended
        /\ x.state \in Ending \cup Ended => u.state \in Ending \cup Ended
        /\ u.state \in Asking \cup {"IV"} => x.state \in Asking \cup {"IV"}
    BY DEF Asking, Ending, Ended
  <1> QED
    BY ONLY InStep(x, y), <1>1, <1>2, <1>3, <1>4, ~Late(x, y) \/ (u.state = x.state /\ Sending(u) = Sending(x)) DEF InStep

\* The receiver goes on in its place.
LEMMA InStepReceiver ==
    ASSUME NEW x, NEW y, InStep(x, y), NEW v, KeepsBlock(y, v), Receiving(v) => Receiving(y),
           v.state \in Answering => v.state = y.state,
           Late(x, y) => v.state # y.state \/ (v.phase = y.phase /\ v.out = y.out),
           v.state = "F_DOC_ECM" => v.out \in {<<>>, y.out} /\ (v.out = <<>> \/ y.state = "F_DOC_ECM")
    PROVE  InStep(x, v)
  <1>1. /\ v.page = y.page /\ v.ecm_block = y.ecm_block /\ v.ecm_len = y.ecm_len
        /\ v.ecm_frames = y.ecm_frames /\ v.fallback = y.fallback /\ v.next_rx = y.next_rx
        /\ v.block_ok = y.block_ok /\ v.last_pps = y.last_pps /\ v.map = y.map
        /\ Place(v) = Place(y) /\ Missing(v) = Missing(y)
    BY Alternatives DEF KeepsBlock
  <1>2. /\ AtOne(x, v) <=> AtOne(x, y)
        /\ Ahead(x, v) <=> Ahead(x, y)
        /\ Done(x, v) <=> Done(x, y)
        /\ Stored(x, y) => Stored(x, v)
    BY <1>1 DEF AtOne, Ahead, Done, Stored
  <1>3. Late(x, v) => Late(x, y) /\ v.state = y.state
    BY <1>2 DEF Late, Answering
  <1>4. v.state = "F_POST_RCP_PPR" => y.state = "F_POST_RCP_PPR"
    BY DEF Answering
  <1>5. v.state = "F_POST_RCP_RNR" => y.state = "F_POST_RCP_RNR"
    BY DEF Answering
  <1>6. v.state = "F_DOC_ECM" /\ v.out = <<[t |-> "CTR"]>> => y.state = "F_DOC_ECM" /\ y.out = <<[t |-> "CTR"]>>
    OBVIOUS
  <1>7. Late(x, v) => v.phase = y.phase /\ v.out = y.out
    BY <1>3
  <1> QED
    BY ONLY InStep(x, y), Receiving(v) => Receiving(y), <1>1, <1>2, <1>3, <1>4, <1>5, <1>6, <1>7 DEF InStep

\* The receiver leaves the document.
LEMMA InStepLeft ==
    ASSUME NEW x, NEW y, InStep(x, y), NEW v, v.page = y.page, v.next_rx = y.next_rx, v.fallback = y.fallback,
           v.state \in Ended \cup {"R"}
    PROVE  InStep(x, v)
  BY DEF InStep, Receiving, Late, Ended, AtOne

-----------------------------------------------------------------------------
(* The sender hears an answer.                                              *)

\* Its timers have been stopped, and what it hears is no longer to be sent.
Heard(x, y, f) ==
    /\ Sender(x) /\ x.state \notin {"IV", "B", "D", "CALL_FINISHED"} /\ x.signal = "slow" /\ x.phase = "D_RX"
    /\ x.t24 = 0 /\ x.t1 = 0 /\ x.t24_is = "IDLE"
    /\ y \in EndRecord /\ y.phase \in Slow /\ y.out = <<>> /\ InStep(x, y) /\ ReceiverSays(y, f)
    /\ y.state \in Answering \cup {"F_DOC_ECM"} => x.next_phase = "IDLE" /\ x.out = <<>>
    /\ f.t = "CTR" => y.fallback = x.fallback

\* What comes of it.
HeardOut(u, y) ==
    /\ Sender(u) /\ InStep(u, y)
    /\ u.state = "IV" => /\ u.signal = "slow" /\ u.next_phase = "C_ECM_TX"
                         /\ y.state \in {"F_POST_RCP_MCF", "F_POST_RCP_PPR", "F_DOC_ECM"}

LEMMA HeardFacts ==
    ASSUME NEW x, NEW y, NEW f, Heard(x, y, f)
    PROVE  /\ Sender(x) /\ x \in EndRecord /\ Free(x) /\ ~Late(x, y) /\ Line(x) /\ SenderLine(x) /\ SenderPlace(x)
           /\ x.signal # "none" /\ InStep(x, y) /\ y \in EndRecord
           /\ x.state \in Asking \cup Ending \cup {"C", "IV_CTC", "T"}
           /\ f.t \in {"CRP", "CTR", "ERR", "PPR", "RNR", "MCF", "DIS", "DCN"}
  <1>1. Sender(x) /\ x \in EndRecord /\ Line(x) /\ SenderLine(x) /\ SenderPlace(x) /\ x.signal = "slow"
    BY DEF Heard, Sender
  <1>2. Free(x)
    BY <1>1, LineIsFree
  <1>3. InStep(x, y) /\ x.state # "IV" /\ y \in EndRecord
    BY DEF Heard
  <1>4. ~Late(x, y)
    BY <1>3 DEF InStep
  <1>5. x.state \in Asking \cup Ending \cup {"C", "IV_CTC", "T"}
    BY <1>1 DEF Heard, SenderLine, Ended
  <1>6. f.t \in {"CRP", "CTR", "ERR", "PPR", "RNR", "MCF", "DIS", "DCN"}
    BY DEF Heard, ReceiverSays
  <1> QED
    BY <1>1, <1>2, <1>3, <1>4, <1>5, <1>6

\* The call ends with a DCN, or at once.
LEMMA HeardQuit ==
    ASSUME NEW x, NEW y, NEW f, Heard(x, y, f), NEW u \in EndRecord, KeepsBlock(x, u), KeepsTimers(x, u),
           u.state = "C", u.step = 0, u.status # "OK" \/ x.page = Len(Doc), Turned(x, u, "D_TX"),
           u.out = <<[t |-> "DCN"]>>
    PROVE  HeardOut(u, y)
  <1>1. /\ Sender(x) /\ x.signal # "none" /\ InStep(x, y) /\ ~Late(x, y) /\ x.phase = "D_RX"
    BY HeardFacts DEF Heard
  <1>2. u.t24_is = x.t24_is
    BY DEF KeepsTimers
  <1>3. Sender(u)
    BY <1>1, <1>2, SenderDcn
  <1>4. InStep(u, y)
    BY <1>1, InStepSender DEF Ended
  <1> QED
    BY <1>3, <1>4 DEF HeardOut

LEMMA HeardUnexpected ==
    ASSUME NEW x, NEW y, NEW f, Heard(x, y, f), NEW u, u = unexpected_final_frame(x)
    PROVE  HeardOut(u, y)
  <1>1. x \in EndRecord /\ Free(x)
    BY HeardFacts
  <1>2. /\ u \in EndRecord /\ KeepsBlock(x, u) /\ KeepsTimers(x, u)
        /\ u.state = "C" /\ u.step = 0 /\ u.status # "OK"
        /\ Turned(x, u, "D_TX") /\ u.out = <<[t |-> "DCN"]>>
    BY <1>1, UnexpectedFinal
  <1> QED
    BY <1>2, HeardQuit

\* Once it is over, the status can become no better.
LEMMA HeardOutStatus ==
    ASSUME NEW y, NEW w, HeardOut(w, y), NEW s \in Status \ {"OK"}, NEW u, u = set_status(w, s)
    PROVE  HeardOut(u, y)
  <1>1. Sender(w) /\ w \in EndRecord /\ InStep(w, y) /\ SenderLine(w) /\ Line(w)
    BY DEF HeardOut, Sender
  <1>2. /\ u \in EndRecord /\ KeepsBlock(w, u) /\ KeepsLine(w, u) /\ KeepsTimers(w, u)
        /\ u.state = w.state /\ u.step = w.step /\ u.status = s
    BY <1>1, SetStatus
  <1>3. Sender(u)
    BY <1>1, <1>2, SenderWaits DEF KeepsTimers, SenderLine, Line
  <1>4. Sending(u) = Sending(w)
    BY <1>2 DEF Sending, KeepsLine
  <1>5. InStep(u, y)
    BY <1>1, <1>2, <1>4, InStepSender
  <1> QED
    BY <1>2, <1>3, <1>5 DEF HeardOut, KeepsLine

LEMMA HeardFinished ==
    ASSUME NEW x, NEW y, NEW f, Heard(x, y, f), NEW s \in Status \ {"OK"},
           NEW u, u = terminate_call(set_status(x, s))
    PROVE  HeardOut(u, y)
  <1> DEFINE a == set_status(x, s)
  <1>1. x \in EndRecord /\ Sender(x) /\ InStep(x, y) /\ ~Late(x, y)
    BY HeardFacts
  <1>2. a \in EndRecord /\ KeepsBlock(x, a) /\ KeepsTimers(x, a) /\ a.status = s
    BY <1>1, SetStatus
  <1>3. u = terminate_call(a)
    OBVIOUS
  <1> HIDE DEF a
  <1>4. /\ u \in EndRecord /\ KeepsBlock(a, u)
        /\ u.state = "CALL_FINISHED" /\ u.status = a.status /\ u.t24 = 0 /\ u.t1 = 0 /\ u.t24_is = a.t24_is
        /\ u.phase = "CALL_FINISHED" /\ u.next_phase = "IDLE" /\ u.signal = "none"
    BY <1>2, <1>3, Terminate
  <1>5. KeepsBlock(x, u) /\ u.t24_is = x.t24_is /\ u.status # "OK"
    BY ONLY <1>2, <1>4, s \in Status \ {"OK"} DEF KeepsBlock, KeepsTimers
  <1>6. Sender(u)
    BY <1>1, <1>4, <1>5, SenderFinished
  <1>7. InStep(u, y)
    BY <1>1, <1>4, <1>5, InStepSender DEF Ended
  <1> QED
    BY <1>4, <1>6, <1>7 DEF HeardOut

\* A question about the block.
LEMMA SenderAsks ==
    ASSUME NEW x, x \in EndRecord, Line(x), x.state # "CALL_FINISHED", x.signal = "slow", x.phase = "D_RX",
           NEW u \in EndRecord, Turned(x, u, "D_TX"), u.t24_is \in SenderTimers, ~u.eop,
           u.page < Len(Doc), SenderBlock(u), u.state \in Asking \cup Ending \cup {"IV_CTC"},
           u.state \in Asking => SenderPlace(x) /\ x.state \in Asking /\ KeepsBlock(x, u),
           NEW f, u.out = <<f>>, SenderSays(u, f)
    PROVE  Sender(u)
  <1>1. u.state \notin {"IV", "B", "T", "D", "CALL_FINISHED"} \cup Ended
    BY DEF Asking, Ending, Ended
  <1>2. Line(u)
    <2>1. "D_TX" \in Phases \cap Queable
      BY DEF Phases, Queable
    <2> QED
      BY <1>1, <2>1, LineTurned
  <1>3. SenderLine(u)
    <2>1. Head(u.out) = f
      OBVIOUS
    <2> QED
      BY <1>1, <2>1 DEF SenderLine, Turned
  <1>4. SenderPlace(u)
    <2>1. CASE u.state \in Asking
      <3>1. /\ u.page = x.page /\ u.at_end = x.at_end /\ u.next_tx = x.next_tx
            /\ u.burst = x.burst /\ u.ecm_frames = x.ecm_frames /\ (Full(u) <=> Full(x))
        BY <2>1, BlockKept DEF KeepsBlock
      <3> QED
        BY <1>1, <2>1, <3>1 DEF SenderPlace
    <2>2. CASE u.state \notin Asking
      BY <1>1, <2>2 DEF SenderPlace
    <2> QED
      BY <2>1, <2>2
  <1> QED
    BY <1>2, <1>3, <1>4 DEF Sender

LEMMA SendRrOut ==
    ASSUME NEW x \in EndRecord, Free(x), NEW s \in States, NEW u, u = SendRr(x, s)
    PROVE  /\ u \in EndRecord /\ KeepsBlock(x, u) /\ KeepsTimers(x, u) /\ u.step = 0 /\ u.status = x.status
           /\ Turned(x, u, "D_TX")
           /\ \/ u.state = s /\ u.out = <<[t |-> "RR"]>>
              \/ x.signal # "none" /\ u.state = "C" /\ u.out = <<[t |-> "DCN"]>> /\ u.status # "OK"
              \/ x.signal = "none" /\ u.state = "C" /\ u.status # "OK" /\ u.out = <<[t |-> "DCN"]>>
  <1> DEFINE a == queue_phase(x, "D_TX")
             b == set_state(a, s)
  <1>0. "D_TX" \in Phases \cap Queable
    BY DEF Phases, Queable
  <1>1. CASE x.status # "TX_T5EXP"
    <2>1. a \in EndRecord /\ a.status = x.status
      BY <1>0, QueuePhase
    <2> HIDE DEF a
    <2>2. b.status = x.status
      BY <2>1, SetState
    <2>3. u = send_frame(set_state(queue_phase(x, "D_TX"), s), [t |-> "RR"])
      BY <1>1, <2>2 DEF SendRr, send_rr, send_simple_frame, a
    <2>4. [t |-> "RR"] \in LineFrame
      BY SimpleFrames
    <2> QED
      BY <1>0, <2>3, <2>4, Say
  <1>2. CASE x.status = "TX_T5EXP"
    <2>1. /\ a \in EndRecord /\ KeepsBlock(x, a) /\ KeepsTimers(x, a)
          /\ a.status = x.status /\ Turned(x, a, "D_TX") /\ a.out = <<>>
      BY <1>0, QueuePhase
    <2> HIDE DEF a
    <2>2. /\ b \in EndRecord /\ KeepsBlock(a, b) /\ KeepsLine(a, b) /\ KeepsTimers(a, b) /\ b.status = a.status
      BY <2>1, SetState
    <2>3. u = send_dcn(b)
      BY <1>2, <2>1, <2>2 DEF SendRr, send_rr, a
    <2> HIDE DEF b
    <2>4. Free(b)
      BY <2>1, <2>2 DEF Free, Turned, KeepsLine
    <2>5. /\ u \in EndRecord /\ KeepsBlock(b, u) /\ KeepsTimers(b, u)
          /\ u.state = "C" /\ u.step = 0 /\ u.status = b.status
          /\ Turned(b, u, "D_TX") /\ u.out = <<[t |-> "DCN"]>>
      BY <2>2, <2>3, <2>4, SendDcn
    <2>6. KeepsBlock(x, u) /\ KeepsTimers(x, u)
      BY ONLY <2>1, <2>2, <2>5 DEF KeepsBlock, KeepsTimers
    <2>7. Turned(x, u, "D_TX")
      BY ONLY <2>1, <2>2, <2>5 DEF KeepsLine, Turned
    <2> QED
      BY <1>2, <2>1, <2>2, <2>5, <2>6, <2>7
  <1> QED
    BY <1>1, <1>2

LEMMA HeardRnr ==
    ASSUME NEW x, NEW y, NEW f, Heard(x, y, f), x.state \in Asking, NEW u, u = process_rx_rnr(x, "IV_PPS_RNR")
    PROVE  HeardOut(u, y)
  <1> DEFINE n == 1
             a == IF x.t5 = 0 THEN [x EXCEPT !.t5 = n] ELSE x
  <1>1. /\ x \in EndRecord /\ Free(x) /\ Sender(x) /\ Line(x) /\ SenderLine(x) /\ SenderPlace(x)
        /\ InStep(x, y) /\ ~Late(x, y) /\ x.signal = "slow" /\ x.phase = "D_RX"
    BY HeardFacts DEF Heard
  <1>2. Alike(x, a)
    <2>1. n \in 0 .. 1
      OBVIOUS
    <2>2. Alike(x, x)
      BY <1>1 DEF Alike, KeepsBlock, KeepsLine, KeepsTimers
    <2> HIDE DEF n
    <2>3. Alike(x, [x EXCEPT !.t5 = n])
      BY <1>1, <2>1, SetT5
    <2> QED
      BY <2>2, <2>3
  <1>3. u = SendRr(a, "IV_PPS_RNR")
    BY DEF process_rx_rnr
  <1> HIDE DEF a
  <1>4. a \in EndRecord /\ Free(a) /\ "IV_PPS_RNR" \in States
    BY <1>1, <1>2 DEF Alike, Free, KeepsLine, States
  <1>5. /\ u \in EndRecord /\ KeepsBlock(a, u) /\ KeepsTimers(a, u) /\ u.step = 0 /\ u.status = a.status
        /\ Turned(a, u, "D_TX")
        /\ \/ u.state = "IV_PPS_RNR" /\ u.out = <<[t |-> "RR"]>>
           \/ u.state = "C" /\ u.out = <<[t |-> "DCN"]>> /\ u.status # "OK"
    BY <1>3, <1>4, SendRrOut
  <1>6. KeepsBlock(x, u) /\ KeepsTimers(x, u) /\ Turned(x, u, "D_TX") /\ u.status = x.status
    BY ONLY <1>2, <1>5 DEF Alike, KeepsBlock, KeepsTimers, KeepsLine, Turned
  <1>7. CASE u.state = "C" /\ u.out = <<[t |-> "DCN"]>> /\ u.status # "OK"
    BY <1>5, <1>6, <1>7, HeardQuit
  <1>8. CASE u.state = "IV_PPS_RNR" /\ u.out = <<[t |-> "RR"]>>
    <2>1. SenderSays(u, [t |-> "RR"])
      BY <1>8, SimpleFrames DEF SenderSays
    <2>2. /\ x.page < Len(Doc) /\ u.page = x.page /\ SenderBlock(x) /\ ~x.eop /\ u.eop = x.eop /\ x.state # "CALL_FINISHED"
      BY <1>1, <1>6 DEF SenderPlace, KeepsBlock, Asking, Ended
    <2>3. SenderBlock(u) /\ u.t24_is \in SenderTimers
      BY <1>1, <1>6, <2>2, BlockKept DEF SenderLine, KeepsTimers
    <2>4. Sender(u)
      BY <1>1, <1>5, <1>6, <1>8, <2>1, <2>2, <2>3, SenderAsks DEF Asking
    <2>5. InStep(u, y)
      BY <1>1, <1>6, <1>8, InStepSender DEF Asking
    <2> QED
      BY <1>8, <2>4, <2>5 DEF HeardOut
  <1> QED
    BY <1>5, <1>7, <1>8

\* The modem has been changed.
LEMMA HeardCtr ==
    ASSUME NEW x, NEW y, NEW f, Heard(x, y, f), f.t = "CTR", x.state = "IV_CTC",
           NEW u, u = SendBlock([x EXCEPT !.short_train = FALSE])
    PROVE  HeardOut(u, y)
  <1> DEFINE b == FALSE
             a == [x EXCEPT !.short_train = b]
  <1>1. /\ x \in EndRecord /\ Free(x) /\ Sender(x) /\ Line(x) /\ SenderLine(x) /\ SenderPlace(x)
        /\ InStep(x, y) /\ ~Late(x, y) /\ x.signal = "slow" /\ x.phase = "D_RX" /\ x.t24 = 0 /\ x.t1 = 0
        /\ y.fallback = x.fallback
    BY HeardFacts DEF Heard
  <1>2. Alike(x, a)
    <2>1. b \in BOOLEAN
      OBVIOUS
    <2> HIDE DEF b
    <2> QED
      BY <1>1, <2>1, SetTraining
  <1>3. u = SendBlock(a)
    OBVIOUS
  <1> HIDE DEF a
  <1>4. /\ a \in EndRecord /\ KeepsBlock(x, a) /\ a.state = "IV_CTC" /\ a.signal = "slow" /\ a.phase = "D_RX"
        /\ a.t24 = 0 /\ a.t1 = 0 /\ a.t24_is = x.t24_is
    BY <1>1, <1>2 DEF Alike, KeepsLine, KeepsTimers
  <1>5. Line(a)
    BY <1>1, <1>2, <1>4, LineKept DEF Alike
  <1>6. a.page < Len(Doc) /\ SenderBlock(a) /\ ~a.eop
    BY <1>1, <1>4, BlockKept DEF SenderPlace, KeepsBlock, Ended
  <1>7. Sender(u) /\ KeepsHeld(a, u) /\ u.state = "IV" /\ Turned(a, u, "C_ECM_TX")
    BY <1>1, <1>3, <1>4, <1>5, <1>6, SenderBegins DEF SenderLine
  <1>8. /\ y.state = "F_DOC_ECM"
    BY DEF Heard, ReceiverSays
  <1>9. InStep(u, y)
    <2>1. KeepsHeld(x, u)
      BY ONLY <1>4, <1>7 DEF KeepsHeld, KeepsBlock
    <2>2. /\ u.page = x.page /\ u.ecm_block = x.ecm_block /\ u.ecm_len = x.ecm_len /\ u.ecm_frames = x.ecm_frames /\ u.fallback = x.fallback
          /\ Place(u) = Place(x) /\ After(u) = After(x) /\ (Full(u) <=> Full(x))
      BY <2>1, Alternatives
    <2>3. /\ AtOne(u, y) <=> AtOne(x, y)
          /\ Ahead(u, y) <=> Ahead(x, y)
          /\ Done(u, y) <=> Done(x, y)
      BY <2>2 DEF AtOne, Ahead, Done
    <2>4. Stored(x, y) => Stored(u, y)
      BY <2>2 DEF Stored
    <2>5. x.state \notin Asking \cup Ended \cup Ending
      BY DEF Asking, Ended, Ending
    <2> QED
      BY ONLY <1>1, <1>8, <2>2, <2>3, <2>4, <2>5, x.state = "IV_CTC" DEF InStep, Late
  <1> QED
    BY <1>4, <1>7, <1>8, <1>9 DEF HeardOut, Turned

LEMMA PlaceNumbers ==
    ASSUME NEW x \in EndRecord
    PROVE  x.page \in Nat /\ x.page <= Len(Doc) /\ x.ecm_block \in Nat /\ Len(Doc) \in Nat
  <1>1. x.page \in 0 .. Len(Doc) /\ x.ecm_block \in Nat
    BY Fields
  <1>2. Len(Doc) \in Nat
    BY DocumentParts
  <1> QED
    BY ONLY <1>1, <1>2

\* What the receiver has taken, the sender leaves behind.
LEMMA McfIsAhead ==
    ASSUME NEW x, NEW y, NEW f, Heard(x, y, f), f.t = "MCF", x.state \in Asking
    PROVE  /\ y.state = "F_POST_RCP_MCF" /\ Ahead(x, y) /\ y.ecm_len = Empty /\ y.ecm_frames = -1
           /\ x.next_phase = "IDLE" /\ x.out = <<>> /\ y.fallback = x.fallback
           /\ x.page < Len(Doc) /\ SenderBlock(x)
           /\ y.page < Len(Doc) => y.next_rx = "MPS"
  <1>1. /\ x.state \in Asking /\ InStep(x, y) /\ ~Late(x, y) /\ SenderPlace(x)
    BY HeardFacts
  <1>2. y.state = "F_POST_RCP_MCF"
    BY DEF Heard, ReceiverSays
  <1>3. x.next_phase = "IDLE" /\ x.out = <<>>
    BY <1>2 DEF Heard, Answering
  <1>4. x.page < Len(Doc) /\ SenderBlock(x)
    BY <1>1 DEF SenderPlace, Asking, Ended
  <1>5. x.page # Len(Doc)
    <2>1. Len(Doc) \in Nat
      BY DocumentParts
    <2> QED
      BY <1>4, <2>1
  <1>6. Receiving(y)
    BY <1>2 DEF Receiving
  <1>7. ~AtOne(x, y) /\ ~Done(x, y)
    BY <1>1, <1>2, <1>5 DEF Late, Done
  <1>8. Ahead(x, y)
    BY ONLY <1>1, <1>6, <1>7 DEF InStep
  <1>9. y.ecm_len = Empty /\ y.ecm_frames = -1 /\ y.fallback = x.fallback
    BY ONLY <1>1, <1>6, <1>8 DEF InStep
  <1>10. y.page < Len(Doc) => y.next_rx = "MPS"
    <2>1. x.state \notin Ending \cup Ended
      BY DEF Asking, Ending, Ended
    <2> QED
      BY ONLY <1>1, <2>1 DEF InStep
  <1> QED
    BY <1>2, <1>3, <1>4, <1>8, <1>9, <1>10

LEMMA OnTheNewBlock ==
    ASSUME NEW x, NEW y, NEW f, Heard(x, y, f), f.t = "MCF", x.state \in Asking,
           NEW w \in EndRecord, KeepsLine(x, w), KeepsTimers(x, w), w.state = x.state, w.fallback = x.fallback,
           w.eop = x.eop, SenderBlock(w), Full(w), w.page < Len(Doc), Place(w) = After(x),
           NEW u, u = SendBlock(w)
    PROVE  HeardOut(u, y)
  <1>1. /\ y.state = "F_POST_RCP_MCF" /\ Ahead(x, y) /\ y.ecm_len = Empty /\ y.ecm_frames = -1
        /\ x.next_phase = "IDLE" /\ x.out = <<>> /\ y.fallback = x.fallback
        /\ y.page < Len(Doc) => y.next_rx = "MPS"
    BY McfIsAhead
  <1>2. /\ x \in EndRecord /\ Sender(x) /\ Line(x) /\ SenderLine(x) /\ SenderPlace(x)
        /\ x.signal = "slow" /\ x.phase = "D_RX" /\ x.t24 = 0 /\ x.t1 = 0
        /\ y.phase \in Slow /\ y.out = <<>>
    BY HeardFacts DEF Heard
  <1>3. Line(w)
    BY <1>2, LineKept DEF Asking
  <1>4. /\ w.signal = "slow" /\ w.phase = "D_RX" /\ w.t24 = 0 /\ w.t1 = 0 /\ w.t24_is \in SenderTimers
        /\ ~w.eop /\ w.state # "CALL_FINISHED"
    BY <1>2 DEF KeepsLine, KeepsTimers, SenderLine, SenderPlace, Asking
  <1>5. Sender(u) /\ KeepsHeld(w, u) /\ u.state = "IV" /\ Turned(w, u, "C_ECM_TX")
    BY <1>3, <1>4, SenderBegins
  <1>6. /\ u.page = w.page /\ u.fallback = w.fallback /\ Place(u) = Place(w) /\ (Full(u) <=> Full(w))
    BY <1>5, Alternatives
  <1>7. u.signal = "slow" /\ u.next_phase = "C_ECM_TX" /\ ~Sending(u)
    BY <1>4, <1>5 DEF Turned, Sending, Slow
  <1>8. AtOne(u, y)
    BY <1>1, <1>6 DEF AtOne, Ahead
  <1>9. Stored(u, y)
    <2>1. \A i \in Slots : y.ecm_len[i] = None
      BY <1>1 DEF Empty
    <2>2. Full(u)
      BY <1>6
    <2> QED
      BY <1>1, <2>1, <2>2 DEF Stored, Full
  <1>10. u.page # Len(Doc) /\ ~Ahead(u, y)
    <2>1. Len(Doc) \in Nat
      BY DocumentParts
    <2>2. u.page # Len(Doc)
      BY <1>6, <2>1
    <2>3. SenderBlock(u) /\ u \in EndRecord /\ u.page < Len(Doc)
      BY <1>5, <1>6 DEF Sender, SenderPlace
    <2>4. u.ecm_block \in Nat /\ u.page \in Nat
      BY <2>3, PlaceNumbers
    <2>5. After(u) # Place(u)
      <3>1. u.ecm_block + 1 # u.ecm_block /\ u.page + 1 # u.page
        BY <2>4
      <3> QED
        BY <3>1 DEF After, Place
    <2> QED
      BY <1>8, <2>2, <2>5 DEF AtOne, Ahead
  <1>11. InStep(u, y)
    BY ONLY <1>1, <1>2, <1>5, <1>6, <1>7, <1>8, <1>9, <1>10, w.fallback = x.fallback DEF InStep
  <1> QED
    BY <1>1, <1>5, <1>7, <1>11 DEF HeardOut

LEMMA LastOrNot ==
    ASSUME NEW m \in Nat \ {0}, NEW b \in 0 .. m - 1, NEW r, r = b + 1
    PROVE  /\ r # m => r \in 0 .. m - 1 /\ b + 1 < m /\ b + 1 \in Nat
           /\ r = m => ~(b + 1 < m) /\ b + 1 = m
  OBVIOUS

LEMMA HeardMcf ==
    ASSUME NEW x, NEW y, NEW f, Heard(x, y, f), f.t = "MCF", x.state \in Asking, NEW u, u = process_rx_mcf(x)
    PROVE  HeardOut(u, y)
  <1> DEFINE a == [x EXCEPT !.retries = 0, !.t5 = 0]
  <1>1. /\ x \in EndRecord /\ Free(x) /\ Sender(x) /\ Line(x) /\ SenderLine(x) /\ SenderPlace(x) /\ InStep(x, y)
        /\ x.signal = "slow" /\ x.phase = "D_RX" /\ x.t24 = 0 /\ x.t1 = 0 /\ x.next_phase = "IDLE" /\ x.out = <<>>
        /\ y.state = "F_POST_RCP_MCF" /\ Ahead(x, y) /\ x.page < Len(Doc) /\ SenderBlock(x)
    BY HeardFacts, McfIsAhead DEF Heard
  <1>2. Alike(x, a) /\ a.step = x.step
    BY <1>1, Answered
  <1>3. u = CASE ~a.at_end -> SendBlock([get_partial_ecm_page(a) EXCEPT !.ecm_block = @ + 1])
               [] a.at_end /\ a.next_tx = "MPS" -> SendBlock(get_partial_ecm_page(tx_start_page(tx_end_page(a))))
               [] a.at_end /\ a.next_tx = "EOM" -> return_to_phase_b(tx_end_page(a))
               [] a.at_end /\ a.next_tx = "EOP" -> send_dcn(tx_end_page(a))
    BY DEF process_rx_mcf, NextPage
  <1> HIDE DEF a
  <1>4. /\ a \in EndRecord /\ KeepsBlock(x, a) /\ KeepsLine(x, a) /\ KeepsTimers(x, a)
        /\ a.state = x.state /\ a.status = x.status /\ a.step = x.step
        /\ a.page = x.page /\ a.read = x.read /\ a.ecm_block = x.ecm_block /\ a.fallback = x.fallback
        /\ a.eop = x.eop /\ a.at_end = x.at_end /\ a.next_tx = x.next_tx
    BY <1>2 DEF Alike, KeepsBlock
  <1>5. /\ x.page \in 0 .. Len(Doc) - 1 /\ Blocks(x) = Doc[x.page + 1] /\ Len(Blocks(x)) \in Nat \ {0}
        /\ x.ecm_block \in 0 .. Len(Blocks(x)) - 1
        /\ x.read \in 1 .. Len(Blocks(x)) /\ x.read = x.ecm_block + 1 /\ x.at_end = (x.read = Len(Blocks(x)))
    BY <1>1, BlockFacts DEF SenderBlock
  <1>6. CASE ~a.at_end
    <2> DEFINE g == get_partial_ecm_page(a)
               b == x.ecm_block + 1
               w == [g EXCEPT !.ecm_block = b]
    <2>1. x.read \in 0 .. Len(Doc[x.page + 1]) - 1 /\ x.ecm_block + 1 < Len(Blocks(x)) /\ b \in Nat /\ x.read = b
      <3>1. x.read # Len(Blocks(x))
        BY <1>4, <1>5, <1>6
      <3> QED
        BY <1>5, <3>1, LastOrNot
    <2>2. /\ KeepsCall(a, g) /\ g.page = x.page /\ g.ecm_block = x.ecm_block
          /\ g.read = b + 1 /\ g.ecm_frames = Doc[x.page + 1][b + 1]
          /\ g.at_end = (b + 1 = Len(Doc[x.page + 1])) /\ g.ecm_len = Held(x.page, b)
      <3>1. a.page \in 0 .. Len(Doc) - 1 /\ a.read \in 0 .. Len(Doc[a.page + 1]) - 1 /\ a.read = b
        BY <1>4, <1>5, <2>1
      <3>2. /\ KeepsCall(a, g) /\ g.page = a.page /\ g.ecm_block = a.ecm_block
            /\ g.read = a.read + 1 /\ g.ecm_frames = Doc[a.page + 1][a.read + 1]
            /\ g.at_end = (a.read + 1 = Len(Doc[a.page + 1])) /\ g.ecm_len = Held(a.page, a.read)
        BY <1>4, <3>1, GetBlock
      <3> QED
        BY <1>4, <3>1, <3>2
    <2>3. u = SendBlock(w)
      BY <1>3, <1>6, <2>2
    <2> HIDE DEF g, b
    <2>4. /\ KeepsCall(g, w) /\ w.page = g.page /\ w.ecm_block = b
          /\ w.read = g.read /\ w.ecm_len = g.ecm_len /\ w.ecm_frames = g.ecm_frames /\ w.at_end = g.at_end
      BY <2>1, <2>2, BlockNumbered DEF KeepsCall
    <2> HIDE DEF w
    <2>5. KeepsCall(x, w)
      BY ONLY <1>4, <2>2, <2>4 DEF KeepsCall, KeepsLine, KeepsTimers, Alike
    <2>6. SenderBlock(w) /\ Full(w) /\ w.page < Len(Doc)
      <3>1. b \in 0 .. Len(Doc[x.page + 1]) - 1 /\ w \in EndRecord
        BY <2>1, <2>4 DEF KeepsCall
      <3> QED
        BY <1>5, <2>2, <2>4, <3>1, NewBlockIsFull
    <2>7. Place(w) = After(x)
      BY <2>1, <2>2, <2>4 DEF Place, After, b
    <2> QED
      BY <2>3, <2>5, <2>6, <2>7, OnTheNewBlock DEF KeepsCall
  <1>7. CASE a.at_end
    <2>1. x.ecm_block + 1 = Len(Blocks(x)) /\ x.at_end /\ ~(x.ecm_block + 1 < Len(Blocks(x)))
      <3>1. x.read = Len(Blocks(x)) /\ x.at_end
        BY <1>4, <1>5, <1>7
      <3> QED
        BY <1>5, <3>1, LastOrNot
    <2>2. After(x) = <<x.page + 1, 0>>
      BY <2>1 DEF After
    <2>3. IF x.page + 1 < Len(Doc) THEN x.next_tx = "MPS" ELSE x.next_tx \in {"EOP", "EOM"}
      BY <1>1, <2>1 DEF SenderPlace
    <2> DEFINE e == tx_end_page(a)
    <2>4. KeepsCall(a, e) /\ e.page = x.page + 1 /\ e.ecm_block = 0 /\ e.page \in 0 .. Len(Doc)
      BY <1>1, <1>4, PageEnded
    <2>5. KeepsCall(x, e)
      BY ONLY <1>4, <2>4 DEF KeepsCall, KeepsLine, KeepsTimers, Alike
    <2>6. CASE x.next_tx = "MPS"
      <3>1. x.page + 1 < Len(Doc)
        BY <2>3, <2>6
      <3> DEFINE q == tx_start_page(e)
                 w == get_partial_ecm_page(q)
      <3>2. u = SendBlock(w)
        BY <1>3, <1>4, <1>7, <2>6
      <3> HIDE DEF e
      <3>3. KeepsCall(e, q) /\ q.page = e.page /\ q.ecm_block = 0 /\ q.read = 0
        BY <2>4, PageStarted DEF KeepsCall
      <3>4. q.page \in 0 .. Len(Doc) - 1 /\ q.read \in 0 .. Len(Doc[q.page + 1]) - 1
        <4>1. q.page \in 0 .. Len(Doc) - 1
          <5>1. Len(Doc) \in Nat
            BY DocumentParts
          <5> QED
            BY <2>4, <3>1, <3>3, <5>1
        <4>2. Len(Doc[q.page + 1]) \in Nat \ {0}
          BY <4>1, DocumentParts
        <4> QED
          BY <3>3, <4>1, <4>2
      <3> HIDE DEF q
      <3>5. /\ KeepsCall(q, w) /\ w.page = q.page /\ w.ecm_block = q.ecm_block
            /\ w.read = q.read + 1 /\ w.ecm_frames = Doc[q.page + 1][q.read + 1]
            /\ w.at_end = (q.read + 1 = Len(Doc[q.page + 1])) /\ w.ecm_len = Held(q.page, q.read)
        BY <3>3, <3>4, GetBlock DEF KeepsCall
      <3> HIDE DEF w
      <3>6. KeepsCall(x, w)
        BY ONLY <2>5, <3>3, <3>5 DEF KeepsCall, KeepsLine, KeepsTimers
      <3>7. SenderBlock(w) /\ Full(w) /\ w.page < Len(Doc)
        <4>1. w \in EndRecord /\ w.ecm_block = q.read
          BY <3>3, <3>5 DEF KeepsCall
        <4> QED
          BY <3>4, <3>5, <4>1, NewBlockIsFull
      <3>8. Place(w) = After(x)
        BY <2>2, <2>4, <3>3, <3>5 DEF Place
      <3> QED
        BY <3>2, <3>6, <3>7, <3>8, OnTheNewBlock DEF KeepsCall
    <2>7. CASE x.next_tx # "MPS"
      <3>1. e.page = Len(Doc) /\ ~(x.page + 1 < Len(Doc)) /\ x.next_tx \in {"EOP", "EOM"}
        <4>1. Len(Doc) \in Nat /\ x.page \in Nat
          BY <1>1, PlaceNumbers
        <4> QED
          BY <2>3, <2>4, <2>7, <4>1
      <3>2. Done(e, y) /\ y.page = Len(Doc)
        BY <1>1, <2>2, <2>4, <3>1 DEF Done, Ahead, Place
      <3>3. \A w : w.page = e.page /\ w.ecm_block = e.ecm_block /\ w.state \notin Asking \cup {"IV"} => InStep(w, y)
        <4>1. SUFFICES ASSUME NEW w, w.page = e.page, w.ecm_block = e.ecm_block, w.state \notin Asking \cup {"IV"}
                       PROVE  InStep(w, y)
          OBVIOUS
        <4>2. w.page = Len(Doc) /\ ~AtOne(w, y) /\ ~Ahead(w, y) /\ Done(w, y)
          <5>1. w.page = Len(Doc) /\ Done(w, y)
            BY <3>1, <3>2, <4>1 DEF Done, Place
          <5>2. ~(Len(Doc) < Len(Doc))
            BY DocumentParts
          <5> QED
            BY <5>1, <5>2 DEF AtOne, Ahead
        <4>3. ~(y.page < Len(Doc))
          BY <3>2, DocumentParts
        <4> QED
          BY ONLY <1>1, <3>2, <4>1, <4>2, <4>3 DEF InStep, Late
      <3>4. CASE x.next_tx = "EOM"
        <4> DEFINE n == T1
                   w == [e EXCEPT !.t1 = n]
        <4>1. u = set_state(w, "T")
          BY <1>3, <1>4, <1>7, <3>4 DEF return_to_phase_b
        <4> HIDE DEF e
        <4>2. n \in 0 .. T1
          BY Constants
        <4> HIDE DEF n
        <4>3. /\ w \in EndRecord /\ KeepsBlock(e, w) /\ KeepsLine(e, w)
              /\ w.state = e.state /\ w.status = e.status /\ w.step = e.step
              /\ w.t24 = e.t24 /\ w.t24_is = e.t24_is /\ w.t1 = n
          BY <2>5, <4>2, SetT1 DEF KeepsCall
        <4> HIDE DEF w
        <4>4. /\ u \in EndRecord /\ KeepsBlock(w, u) /\ KeepsLine(w, u) /\ KeepsTimers(w, u)
              /\ u.state = "T" /\ u.step = 0 /\ u.status = w.status
          BY <4>1, <4>3, SetState DEF States
        <4>5. KeepsLine(x, u) /\ u.t24_is = x.t24_is /\ u.page = e.page /\ u.ecm_block = e.ecm_block /\ u.eop = x.eop
          BY ONLY <2>5, <4>3, <4>4 DEF KeepsCall, KeepsBlock, KeepsLine, KeepsTimers
        <4>6. Line(u)
          BY <1>1, <4>4, <4>5, LineKept DEF Asking
        <4>7. SenderLine(u)
          BY <1>1, <4>4, <4>5 DEF SenderLine, KeepsLine
        <4>8. SenderPlace(u)
          <5>1. u.page = Len(Doc) /\ ~(u.page < Len(Doc))
            BY <3>1, <4>5, DocumentParts
          <5> QED
            BY <1>1, <4>4, <4>5, <5>1 DEF SenderPlace, Ended, Asking
        <4>9. InStep(u, y)
          BY <3>3, <4>4, <4>5 DEF Asking
        <4> QED
          BY <4>4, <4>6, <4>7, <4>8, <4>9 DEF HeardOut, Sender
      <3>5. CASE x.next_tx = "EOP"
        <4>1. u = send_dcn(e)
          BY <1>3, <1>4, <1>7, <3>5
        <4> HIDE DEF e
        <4>2. Free(e) /\ e \in EndRecord
          BY <1>1, <2>5 DEF KeepsCall, Free, KeepsLine
        <4>3. /\ u \in EndRecord /\ KeepsBlock(e, u) /\ KeepsTimers(e, u)
              /\ u.state = "C" /\ u.step = 0 /\ u.status = e.status
              /\ Turned(e, u, "D_TX") /\ u.out = <<[t |-> "DCN"]>>
          BY <4>1, <4>2, SendDcn
        <4>4. Turned(x, u, "D_TX") /\ u.t24_is = x.t24_is /\ u.page = e.page /\ u.ecm_block = e.ecm_block /\ u.eop = x.eop
          BY ONLY <2>5, <4>3 DEF KeepsCall, KeepsBlock, KeepsLine, KeepsTimers, Turned
        <4>5. Line(u)
          <5>1. "D_TX" \in Phases \cap Queable
            BY DEF Phases, Queable
          <5>2. x.state # "CALL_FINISHED"
            BY DEF Asking
          <5> QED
            BY <1>1, <4>3, <4>4, <5>1, <5>2, LineTurned
        <4>6. SenderSays(u, Head(u.out))
          <5>1. Head(u.out).t = "DCN"
            BY <4>3
          <5> QED
            BY <4>3, <5>1 DEF SenderSays
        <4>7. SenderLine(u)
          BY <1>1, <4>3, <4>4, <4>6 DEF SenderLine, Turned, Ended
        <4>8. SenderPlace(u)
          <5>1. u.page = Len(Doc) /\ ~(u.page < Len(Doc))
            BY <3>1, <4>4, DocumentParts
          <5> QED
            BY <1>1, <4>3, <4>4, <5>1 DEF SenderPlace, Ended, Asking
        <4>9. InStep(u, y)
          BY <3>3, <4>3, <4>4 DEF Asking
        <4> QED
          BY <4>3, <4>5, <4>7, <4>8, <4>9 DEF HeardOut, Sender
      <3> QED
        BY <3>1, <3>4, <3>5
    <2> QED
      BY <2>6, <2>7
  <1> QED
    BY <1>6, <1>7

LEMMA OnlyOnePlace ==
    ASSUME NEW x \in EndRecord, NEW y, AtOne(x, y)
    PROVE  ~Ahead(x, y) /\ ~Done(x, y) /\ x.page # Len(Doc) /\ x.page < Len(Doc)
  <1>1. x.page \in Nat /\ x.ecm_block \in Nat /\ Len(Doc) \in Nat
    BY PlaceNumbers
  <1>2. x.page < Len(Doc)
    BY DEF AtOne
  <1>3. x.page # Len(Doc) /\ x.ecm_block + 1 # x.ecm_block /\ x.page + 1 # x.page
    BY ONLY <1>1, <1>2
  <1>4. After(x) # Place(x)
    BY <1>3 DEF After, Place
  <1> QED
    BY <1>2, <1>3, <1>4 DEF AtOne, Ahead, Done

\* Only some of the frames are needed again.
Masked(x, c, g, l) == [x EXCEPT !.retries = 0, !.progress = g, !.ppr_count = c, !.ecm_len = l]

KeepsPlace(x, u) ==
    /\ u.page = x.page /\ u.ecm_block = x.ecm_block /\ u.read = x.read /\ u.at_end = x.at_end
    /\ u.ecm_frames = x.ecm_frames /\ u.next_tx = x.next_tx /\ u.eop = x.eop

LEMMA MaskedFields ==
    ASSUME NEW x \in EndRecord, NEW c \in 0 .. PprLimit, NEW g \in Nat, NEW l \in [Slots -> Frames],
           NEW u, u = Masked(x, c, g, l)
    PROVE  KeepsCall(x, u) /\ KeepsPlace(x, u) /\ u.ecm_len = l
  <1>1. u = [x EXCEPT !.retries = 0, !.progress = g, !.ppr_count = c, !.ecm_len = l]
    BY DEF Masked
  <1>2. u \in EndRecord
    BY ONLY <1>1, ZeroOne, x \in EndRecord, c \in 0 .. PprLimit, g \in Nat, l \in [Slots -> Frames], ZenonT(40) DEF EndRecord
  <1>3. KeepsLine(x, u) /\ KeepsTimers(x, u)
    BY ONLY <1>1, x \in EndRecord DEF EndRecord, KeepsLine, KeepsTimers
  <1>4. /\ u.state = x.state /\ u.step = x.step /\ u.status = x.status /\ u.fallback = x.fallback
        /\ u.eop = x.eop /\ u.next_tx = x.next_tx
        /\ u.page = x.page /\ u.ecm_block = x.ecm_block /\ u.read = x.read /\ u.at_end = x.at_end
        /\ u.ecm_frames = x.ecm_frames /\ u.ecm_len = l
    BY ONLY <1>1, x \in EndRecord DEF EndRecord
  <1> QED
    BY ONLY <1>2, <1>3, <1>4 DEF KeepsCall, KeepsPlace

Slowed(x, b) == [x EXCEPT !.fallback = b, !.progress = 0]

LEMMA SlowedFields ==
    ASSUME NEW x \in EndRecord, NEW b \in 0 .. Fallbacks, NEW u, u = Slowed(x, b)
    PROVE  /\ KeepsPlace(x, u) /\ u.ecm_len = x.ecm_len /\ u.fallback = b
           /\ u \in EndRecord /\ KeepsLine(x, u) /\ KeepsTimers(x, u) /\ u.state = x.state /\ u.status = x.status
  <1>0. u = [x EXCEPT !.fallback = b, !.progress = 0]
    BY DEF Slowed
  <1>1. u \in EndRecord
    BY ONLY <1>0, ZeroOne, x \in EndRecord, b \in 0 .. Fallbacks, ZenonT(40) DEF EndRecord
  <1>2. KeepsLine(x, u) /\ KeepsTimers(x, u)
    BY ONLY <1>0, x \in EndRecord DEF EndRecord, KeepsLine, KeepsTimers
  <1>3. /\ u.state = x.state /\ u.status = x.status
        /\ u.eop = x.eop /\ u.next_tx = x.next_tx
        /\ u.page = x.page /\ u.ecm_block = x.ecm_block /\ u.read = x.read /\ u.at_end = x.at_end
        /\ u.ecm_frames = x.ecm_frames /\ u.ecm_len = x.ecm_len /\ u.fallback = b
    BY ONLY <1>0, x \in EndRecord DEF EndRecord
  <1> QED
    BY <1>1, <1>2, <1>3 DEF KeepsPlace

\* Of the block under way a receiver that lacks frames can be sent every one.
LEMMA PprIsAtOne ==
    ASSUME NEW x, NEW y, NEW f, Heard(x, y, f), f.t = "PPR", x.state \in Asking
    PROVE  /\ y.state = "F_POST_RCP_PPR" /\ AtOne(x, y) /\ y.ecm_frames >= 0 /\ y.ecm_frames = x.ecm_frames
           /\ Missing(y) \subseteq f.map /\ f.map \subseteq Slots /\ Stored(x, y)
           /\ x.next_phase = "IDLE" /\ x.out = <<>> /\ y.fallback = x.fallback
           /\ x.page < Len(Doc) /\ SenderBlock(x)
  <1>1. /\ x \in EndRecord /\ InStep(x, y) /\ SenderPlace(x) /\ y \in EndRecord
    BY HeardFacts
  <1>2. y.state = "F_POST_RCP_PPR" /\ f.map = y.map
    BY DEF Heard, ReceiverSays
  <1>3. x.next_phase = "IDLE" /\ x.out = <<>>
    BY <1>2 DEF Heard, Answering
  <1>4. x.page < Len(Doc) /\ SenderBlock(x)
    BY <1>1 DEF SenderPlace, Asking, Ended
  <1>5. Receiving(y)
    BY <1>2 DEF Receiving
  <1>6. AtOne(x, y) /\ y.ecm_frames >= 0 /\ Missing(y) \subseteq y.map /\ Stored(x, y) /\ y.fallback = x.fallback
    BY ONLY <1>1, <1>2, <1>5, x.state \in Asking DEF InStep
  <1>7. y.ecm_frames = x.ecm_frames
    BY <1>6 DEF Stored
  <1>8. y.map \subseteq Slots
    BY <1>1, Fields
  <1> QED
    BY <1>2, <1>3, <1>4, <1>6, <1>7, <1>8

LEMMA InStepPpr ==
    ASSUME NEW x, NEW y, NEW f, Heard(x, y, f), f.t = "PPR", x.state \in Asking,
           NEW u \in EndRecord, u.page = x.page, u.ecm_block = x.ecm_block, u.ecm_frames = x.ecm_frames,
           \A i \in Slots : i \in f.map => u.ecm_len[i] = x.ecm_len[i],
           u.state \in {"IV", "IV_CTC", "IV_EOR"}, u.state = "IV" => u.fallback = x.fallback
    PROVE  InStep(u, y)
  <1>1. /\ y.state = "F_POST_RCP_PPR" /\ AtOne(x, y) /\ y.ecm_frames >= 0 /\ y.ecm_frames = x.ecm_frames
        /\ Missing(y) \subseteq f.map /\ Stored(x, y) /\ y.fallback = x.fallback
    BY PprIsAtOne
  <1>2. InStep(x, y) /\ f.map = y.map
    BY HeardFacts DEF Heard, ReceiverSays
  <1>3. AtOne(u, y)
    BY <1>1 DEF AtOne, Place
  <1>4. ~Ahead(u, y) /\ ~Done(u, y) /\ u.page # Len(Doc)
    BY <1>3, OnlyOnePlace
  <1>5. Stored(u, y)
    <2>1. ASSUME NEW i \in Slots
          PROVE  /\ y.ecm_len[i] \in {None, <<u.page, u.ecm_block, i>>}
                 /\ y.ecm_len[i] # None => i < u.ecm_frames
                 /\ y.ecm_len[i] = None /\ i < u.ecm_frames => u.ecm_len[i] # None
      <3>1. /\ y.ecm_len[i] \in {None, <<x.page, x.ecm_block, i>>}
            /\ y.ecm_len[i] # None => i < x.ecm_frames
            /\ y.ecm_len[i] = None /\ i < x.ecm_frames => x.ecm_len[i] # None
        BY <1>1 DEF Stored
      <3>2. y.ecm_len[i] = None => i \in f.map
        BY <1>1 DEF Missing
      <3> QED
        BY <3>1, <3>2
    <2>2. y.ecm_frames # -1
      BY <1>1
    <2> QED
      BY <1>1, <2>1, <2>2 DEF Stored
  <1>6. y.page < Len(Doc) => y.next_rx = "MPS"
    <2>1. x.state \notin Ending \cup Ended
      BY DEF Asking, Ending, Ended
    <2> QED
      BY ONLY <1>2, <2>1 DEF InStep
  <1>7. u.state = "IV" => y.fallback = u.fallback
    BY <1>1
  <1>8. u.state \notin Asking
    BY DEF Asking
  <1> QED
    BY ONLY <1>1, <1>2, <1>3, <1>4, <1>5, <1>6, <1>7, <1>8 DEF InStep, Late

LEMMA HeardPpr ==
    ASSUME NEW x, NEW y, NEW f, Heard(x, y, f), f.t = "PPR", x.state \in Asking, NEW u, u = process_rx_ppr(x, f)
    PROVE  HeardOut(u, y)
  <1> DEFINE done == {i \in Slots \ f.map : x.ecm_len[i] # None}
             l == [i \in Slots |-> IF i \in f.map THEN x.ecm_len[i] ELSE None]
             g == x.progress + Cardinality(done)
             c == x.ppr_count + 1
             z == 0
             v == Masked(x, c, g, l)
             w == Masked(x, z, g, l)
  <1>1. /\ x \in EndRecord /\ Free(x) /\ Sender(x) /\ Line(x) /\ SenderLine(x) /\ SenderPlace(x) /\ InStep(x, y)
        /\ x.signal = "slow" /\ x.phase = "D_RX" /\ x.t24 = 0 /\ x.t1 = 0 /\ x.next_phase = "IDLE" /\ x.out = <<>>
        /\ y.state = "F_POST_RCP_PPR" /\ x.page < Len(Doc) /\ SenderBlock(x) /\ f.map \subseteq Slots
    BY HeardFacts, PprIsAtOne DEF Heard
  <1>2. g \in Nat
    <2>1. IsFiniteSet(Slots)
      BY Constants, FS_Interval DEF Slots
    <2>2. IsFiniteSet(done)
      BY <2>1, FS_Subset
    <2> HIDE DEF done
    <2>3. Cardinality(done) \in Nat
      BY <2>2, FS_CardinalityType
    <2>4. x.progress \in Nat
      BY <1>1, Fields
    <2> QED
      BY ONLY <2>3, <2>4
  <1>3. l \in [Slots -> Frames]
    <2>1. x.ecm_len \in [Slots -> Frames] /\ None \in Frames
      BY <1>1, Fields DEF Frames
    <2> QED
      BY <2>1
  <1>4. z \in 0 .. PprLimit
    BY Constants
  <1>5. x.ppr_count \in 0 .. PprLimit /\ PprLimit \in Nat
    BY <1>1, Fields, Constants
  <1>6. [[x EXCEPT !.retries = 0, !.progress = g, !.ppr_count = c, !.ecm_len = l] EXCEPT !.ppr_count = 0] = w
    <2> HIDE DEF g, c, l
    <2> QED
      BY ONLY <1>1, x \in EndRecord DEF Masked, EndRecord, z
  <1>7. v.ppr_count = c
    <2> HIDE DEF g, c, l
    <2> QED
      BY ONLY <1>1, x \in EndRecord DEF Masked, EndRecord
  <1>8. v = [x EXCEPT !.retries = 0, !.progress = g, !.ppr_count = c, !.ecm_len = l]
    BY DEF Masked
  <1>9. \A i \in Slots : /\ i \in f.map => l[i] = x.ecm_len[i]
                         /\ i \notin f.map => l[i] = None
    OBVIOUS
  <1>10. u = CASE v.ppr_count < PprLimit -> SendBlock(v)
               [] v.ppr_count >= PprLimit /\ v.progress > 0 /\ v.fallback < Fallbacks -> SlowDown([v EXCEPT !.ppr_count = 0])
               [] OTHER -> EndRetransmission([v EXCEPT !.ppr_count = 0])
    BY <1>8 DEF process_rx_ppr
  <1>11. [v EXCEPT !.ppr_count = 0] = w
    BY <1>6, <1>8
  <1> HIDE DEF g, l, z
  <1>12. w \in EndRecord /\ KeepsCall(x, w) /\ KeepsPlace(x, w) /\ w.ecm_len = l
    BY <1>1, <1>2, <1>3, <1>4, MaskedFields DEF KeepsCall
  <1>13. ASSUME NEW q, KeepsPlace(x, q), q.ecm_len = l PROVE SenderBlock(q) /\ q.page < Len(Doc) /\ ~q.eop
    <2>1. /\ q.page = x.page /\ q.ecm_block = x.ecm_block /\ q.read = x.read /\ q.at_end = x.at_end
          /\ q.ecm_frames = x.ecm_frames /\ q.eop = x.eop
      BY <1>13 DEF KeepsPlace
    <2>2. Blocks(q) = Blocks(x)
      BY <2>1 DEF Blocks
    <2>3. \A i \in Slots : q.ecm_len[i] # None => q.ecm_len[i] = x.ecm_len[i]
      BY <1>9, <1>13
    <2> QED
      BY <1>1, <2>1, <2>2, <2>3 DEF SenderBlock, SenderPlace
  <1>14. CASE v.ppr_count < PprLimit
    <2>1. c \in 0 .. PprLimit
      BY <1>5, <1>7, <1>14
    <2>2. u = SendBlock(v)
      <3>1. ~(v.ppr_count >= PprLimit)
        <4>1. v.ppr_count \in Nat
          BY <1>5, <1>7
        <4> QED
          BY ONLY <1>5, <1>14, <4>1
      <3> HIDE DEF v
      <3> QED
        BY ONLY <1>10, <1>14, <3>1
    <2> HIDE DEF c
    <2>3. KeepsCall(x, v) /\ KeepsPlace(x, v) /\ v.ecm_len = l
      BY <1>1, <1>2, <1>3, <2>1, MaskedFields
    <2> HIDE DEF v
    <2>4. /\ v \in EndRecord /\ v.signal = "slow" /\ v.phase = "D_RX" /\ v.t24 = 0 /\ v.t1 = 0 /\ v.t24_is = x.t24_is
          /\ v.state = x.state /\ v.fallback = x.fallback
      BY <1>1, <2>3 DEF KeepsCall, KeepsLine, KeepsTimers
    <2>5. Line(v)
      BY <1>1, <2>3, LineKept DEF KeepsCall, Asking
    <2>6. Sender(u) /\ KeepsHeld(v, u) /\ u.state = "IV" /\ Turned(v, u, "C_ECM_TX")
      <3>1. SenderBlock(v) /\ v.page < Len(Doc) /\ ~v.eop
        BY <1>13, <2>3
      <3>2. v.state # "CALL_FINISHED" /\ v.t24_is \in SenderTimers
        BY <1>1, <2>4 DEF Asking, SenderLine
      <3> QED
        BY <2>2, <2>4, <2>5, <3>1, <3>2, SenderBegins
    <2>7. InStep(u, y)
      <3>1. /\ u.page = v.page /\ u.ecm_block = v.ecm_block /\ u.ecm_len = v.ecm_len
            /\ u.ecm_frames = v.ecm_frames /\ u.fallback = v.fallback
        BY <2>6, Alternatives
      <3>2. u \in EndRecord
        BY <2>6 DEF Sender
      <3> QED
        BY <1>9, <2>3, <2>4, <2>6, <3>1, <3>2, InStepPpr DEF KeepsPlace
    <2> QED
      BY <1>1, <2>4, <2>6, <2>7 DEF HeardOut, Turned
  <1>15. CASE ~(v.ppr_count < PprLimit) /\ v.progress > 0 /\ v.fallback < Fallbacks
    <2> DEFINE b == w.fallback + 1
               q == [w EXCEPT !.fallback = b, !.progress = 0]
               h == [t |-> "CTC", fallback |-> b]
    <2>1. u = SlowDown(w) /\ v.fallback = x.fallback
      <3>1. v.ppr_count >= PprLimit
        <4>1. v.ppr_count \in Nat
          BY <1>5, <1>7
        <4> QED
          BY <1>5, <1>15, <4>1
      <3>2. v.fallback = x.fallback
        BY ONLY <1>1, <1>8, x \in EndRecord, ZenonT(40) DEF EndRecord
      <3> QED
        BY <1>10, <1>11, <1>15, <3>1, <3>2
    <2>2. b \in 0 .. Fallbacks
      <3>1. w.fallback = x.fallback /\ x.fallback \in 0 .. Fallbacks /\ Fallbacks \in Nat
        BY <1>1, <1>12, Fields, Constants DEF KeepsCall
      <3> QED
        BY <1>15, <2>1, <3>1
    <2> HIDE DEF w
    <2>3. q.fallback = b
      BY ONLY <1>12, w \in EndRecord DEF EndRecord
    <2>4. u = send_frame(set_state(queue_phase(q, "D_TX"), "IV_CTC"), h)
      BY <2>1, <2>3 DEF SlowDown
    <2> HIDE DEF b
    <2>q. q = Slowed(w, b)
      BY DEF Slowed
    <2>w. w \in EndRecord
      BY <1>12
    <2> HIDE DEF q
    <2>5. /\ KeepsPlace(w, q) /\ q.ecm_len = w.ecm_len
          /\ q \in EndRecord /\ KeepsLine(w, q) /\ KeepsTimers(w, q) /\ q.state = w.state /\ q.status = w.status
      BY ONLY <2>2, <2>q, <2>w, SlowedFields
    <2>6. KeepsPlace(x, q) /\ q.ecm_len = l
      BY ONLY <1>12, <2>5 DEF KeepsPlace
    <2>7. /\ KeepsLine(x, q) /\ KeepsTimers(x, q) /\ q.state = x.state
      BY ONLY <1>12, <2>5 DEF KeepsCall, KeepsLine, KeepsTimers
    <2>8. h \in LineFrame /\ h.t = "CTC" /\ h.fallback = b
      BY <2>2 DEF LineFrame
    <2> HIDE DEF q, h
    <2>9. "D_TX" \in Phases \cap Queable /\ "IV_CTC" \in States /\ Free(q)
      BY <1>1, <2>7 DEF Phases, Queable, States, Free, KeepsLine
    <2>10. /\ u \in EndRecord /\ KeepsBlock(q, u) /\ KeepsTimers(q, u)
           /\ u.state = "IV_CTC" /\ u.step = 0 /\ u.status = q.status
           /\ Turned(q, u, "D_TX") /\ u.out = <<h>>
      BY <2>4, <2>5, <2>8, <2>9, Say
    <2>11. /\ u.page = x.page /\ u.ecm_block = x.ecm_block /\ u.ecm_frames = x.ecm_frames
           /\ KeepsPlace(x, u) /\ u.ecm_len = l /\ u.fallback = b
      BY ONLY <2>3, <2>6, <2>10 DEF KeepsPlace, KeepsBlock
    <2>12. Turned(x, u, "D_TX") /\ u.t24_is = x.t24_is
      BY ONLY <2>7, <2>10 DEF Turned, KeepsLine, KeepsTimers
    <2>13. SenderSays(u, h)
      BY <2>8, <2>10, <2>11 DEF SenderSays
    <2>14. SenderBlock(u) /\ u.page < Len(Doc) /\ ~u.eop
      BY <1>13, <2>11
    <2>15. Sender(u)
      BY <1>1, <2>10, <2>12, <2>13, <2>14, SenderAsks DEF Asking, SenderLine
    <2>16. InStep(u, y)
      BY <1>9, <2>10, <2>11, InStepPpr
    <2> QED
      BY <2>10, <2>15, <2>16 DEF HeardOut
  <1>16. CASE ~(v.ppr_count < PprLimit) /\ ~(v.progress > 0 /\ v.fallback < Fallbacks)
    <2> DEFINE s == IF w.at_end THEN w.next_tx ELSE "NULL"
               h == [t |-> "EOR", fcf2 |-> s]
    <2>1. u = EndRetransmission(w)
      BY <1>10, <1>11, <1>16
    <2>2. u = send_frame(queue_phase(set_state(w, "IV_EOR"), "D_TX"), h)
      BY <2>1 DEF EndRetransmission
    <2> HIDE DEF w
    <2>3. h \in LineFrame /\ h.t = "EOR"
      <3>1. s \in Steps
        BY <1>12, Fields DEF Steps
      <3> QED
        BY <3>1 DEF LineFrame
    <2> HIDE DEF h
    <2>4. "D_TX" \in Phases \cap Queable /\ "IV_EOR" \in States /\ Free(w)
      BY <1>1, <1>12 DEF Phases, Queable, States, Free, KeepsCall, KeepsLine
    <2>5. /\ u \in EndRecord /\ KeepsBlock(w, u) /\ KeepsTimers(w, u)
          /\ u.state = "IV_EOR" /\ u.step = 0 /\ u.status = w.status
          /\ Turned(w, u, "D_TX") /\ u.out = <<h>>
      BY <1>12, <2>2, <2>3, <2>4, Say
    <2>6. /\ u.page = x.page /\ u.ecm_block = x.ecm_block /\ u.ecm_frames = x.ecm_frames
          /\ KeepsPlace(x, u) /\ u.ecm_len = l
      BY ONLY <1>12, <2>5 DEF KeepsPlace, KeepsBlock
    <2>7. Turned(x, u, "D_TX") /\ u.t24_is = x.t24_is
      BY ONLY <1>12, <2>5 DEF Turned, KeepsCall, KeepsLine, KeepsTimers
    <2>8. SenderSays(u, h)
      BY <2>3, <2>5 DEF SenderSays
    <2>9. SenderBlock(u) /\ u.page < Len(Doc) /\ ~u.eop
      BY <1>13, <2>6
    <2>10. Sender(u)
      BY <1>1, <2>5, <2>7, <2>8, <2>9, SenderAsks DEF Asking, Ending, SenderLine
    <2>11. InStep(u, y)
      BY <1>9, <2>5, <2>6, InStepPpr
    <2> QED
      BY <2>5, <2>10, <2>11 DEF HeardOut
  <1> QED
    BY <1>14, <1>15, <1>16

-----------------------------------------------------------------------------
(* The sender says again what it said last.                                 *)

LEMMA PpsSent ==
    ASSUME NEW x \in EndRecord, x.out = <<>>, NEW u, u = send_pps_frame(x)
    PROVE  /\ u \in EndRecord /\ KeepsBlock(x, u) /\ KeepsTimers(x, u)
           /\ u.state = x.state /\ u.step = x.step /\ u.status = x.status
           /\ u.phase = x.phase /\ u.next_phase = x.next_phase /\ u.signal = x.signal
           /\ \E f \in LineFrame :
                 /\ u.out = <<f>>
                 /\ \A w : KeepsBlock(x, w) /\ w.state \in {"IV_PPS_NULL", "IV_PPS_Q"} => SenderSays(w, f)
  <1> DEFINE s == IF x.at_end THEN x.next_tx ELSE "NULL"
             p == x.page % Mod
             b == x.ecm_block % Mod
             c == Max({1, x.burst})
             f == [t |-> "PPS", fcf2 |-> s, page |-> p, block |-> b, count |-> c]
  <1>1. u = send_frame(x, f)
    BY DEF send_pps_frame
  <1>2. p \in Nat /\ b \in Nat
    <2>1. x.page \in Int /\ x.ecm_block \in Int /\ Mod \in Nat \ {0}
      BY PlaceNumbers, Constants
    <2>2. p \in 0 .. Mod - 1 /\ b \in 0 .. Mod - 1
      BY <2>1, DivMod
    <2> QED
      BY <2>1, <2>2
  <1>3. c \in Nat \ {0}
    <2> DEFINE n == x.burst
               m == n + 1
    <2>1. n \in Nat
      BY Fields
    <2> HIDE DEF n
    <2>2. m \in Nat /\ {1, n} \in SUBSET (0 .. m)
      BY <2>1
    <2> HIDE DEF m
    <2>3. Max({1, n}) \in {1, n} /\ 1 <= Max({1, n})
      BY <2>2, MaxIsLargest
    <2> QED
      BY <2>1, <2>3 DEF n
  <1>4. s \in Steps
    BY Fields DEF Steps
  <1>5. f \in LineFrame
    <2> HIDE DEF s, p, b, c
    <2> QED
      BY <1>2, <1>3, <1>4 DEF LineFrame
  <1>6. \A w : KeepsBlock(x, w) /\ w.state \in {"IV_PPS_NULL", "IV_PPS_Q"} => SenderSays(w, f)
    <2>1. SUFFICES ASSUME NEW w, KeepsBlock(x, w), w.state \in {"IV_PPS_NULL", "IV_PPS_Q"}
                   PROVE  SenderSays(w, f)
      OBVIOUS
    <2>2. w.at_end = x.at_end /\ w.next_tx = x.next_tx /\ w.page = x.page /\ w.ecm_block = x.ecm_block /\ w.burst = x.burst
      BY <2>1 DEF KeepsBlock
    <2>3. f.t = "PPS" /\ f.fcf2 = s /\ f.page = p /\ f.block = b /\ f.count = c
      OBVIOUS
    <2> QED
      BY <2>1, <2>2, <2>3 DEF SenderSays
  <1> HIDE DEF f
  <1> QED
    BY <1>1, <1>5, <1>6, SendFrame

LEMMA RrSent ==
    ASSUME NEW x \in EndRecord, x.out = <<>>, x.signal = "none" => x.next_phase = "IDLE", NEW u, u = send_rr(x)
    PROVE  /\ u \in EndRecord /\ KeepsBlock(x, u) /\ KeepsTimers(x, u) /\ u.status = x.status
           /\ \/ /\ u.state = x.state /\ u.step = x.step /\ u.out = <<[t |-> "RR"]>>
                 /\ u.phase = x.phase /\ u.next_phase = x.next_phase /\ u.signal = x.signal
              \/ u.state = "C" /\ u.out = <<[t |-> "DCN"]>> /\ u.status # "OK" /\ Turned(x, u, "D_TX")
  <1>1. CASE x.status = "TX_T5EXP"
    <2>1. u = send_dcn(x) /\ Free(x)
      BY <1>1 DEF send_rr, Free
    <2> QED
      BY <1>1, <2>1, SendDcn
  <1>2. CASE x.status # "TX_T5EXP"
    <2>1. u = send_frame(x, [t |-> "RR"]) /\ [t |-> "RR"] \in LineFrame
      BY <1>2, SimpleFrames DEF send_rr, send_simple_frame
    <2> QED
      BY <2>1, SendFrame
  <1> QED
    BY <1>1, <1>2

LEMMA GivesUp ==
    ASSUME NEW x \in EndRecord, Free(x), NEW s \in Status \ {"OK"}, NEW u, u = send_dcn(set_status(x, s))
    PROVE  /\ u \in EndRecord /\ KeepsBlock(x, u) /\ KeepsTimers(x, u)
           /\ u.state = "C" /\ u.step = 0 /\ u.status # "OK" /\ Turned(x, u, "D_TX") /\ u.out = <<[t |-> "DCN"]>>
  <1> DEFINE a == set_status(x, s)
  <1>1. /\ a \in EndRecord /\ KeepsBlock(x, a) /\ KeepsLine(x, a) /\ KeepsTimers(x, a) /\ a.status = s
    BY SetStatus
  <1>2. u = send_dcn(a)
    OBVIOUS
  <1> HIDE DEF a
  <1>3. Free(a)
    BY <1>1 DEF Free, KeepsLine
  <1>4. /\ u \in EndRecord /\ KeepsBlock(a, u) /\ KeepsTimers(a, u)
        /\ u.state = "C" /\ u.step = 0 /\ u.status = a.status
        /\ Turned(a, u, "D_TX") /\ u.out = <<[t |-> "DCN"]>>
    BY <1>1, <1>2, <1>3, SendDcn
  <1>5. KeepsBlock(x, u) /\ KeepsTimers(x, u) /\ Turned(x, u, "D_TX")
    BY ONLY <1>1, <1>4 DEF KeepsBlock, KeepsTimers, KeepsLine, Turned
  <1> QED
    BY <1>1, <1>4, <1>5

LEMMA SenderRepeated ==
    ASSUME NEW x, Sender(x), x.state \notin {"IV", "B", "CALL_FINISHED"}, Free(x),
           x.signal = "slow" => x.phase = "D_RX", NEW u, u = repeat_last_command(x)
    PROVE  /\ Sender(u) /\ KeepsBlock(x, u) /\ KeepsTimers(x, u) /\ u.state \in {x.state, "C"} /\ u.signal = x.signal
           /\ \/ Turned(x, u, "D_TX")
              \/ KeepsLine(x, u)
  <1> DEFINE y == [x EXCEPT !.step = 0, !.retries = @ + 1]
             s == GiveUpStatus(y)
             a == queue_phase(y, "D_TX")
  <1>1. x \in EndRecord /\ SenderLine(x) /\ SenderPlace(x) /\ x.t24_is \in SenderTimers
    BY DEF Sender, SenderLine
  <1>2. Alike(x, y) /\ y.step = 0
    BY <1>1, Retried
  <1>3. \/ u = send_dcn(set_status(y, s))
        \/ u = Repetition(y)
    BY DEF repeat_last_command
  <1>4. s \in Status \ {"OK"}
    BY DEF GiveUpStatus, Status
  <1> HIDE DEF y, s
  <1>5. /\ y \in EndRecord /\ KeepsBlock(x, y) /\ KeepsLine(x, y) /\ KeepsTimers(x, y)
        /\ y.state = x.state /\ y.status = x.status /\ y.signal = x.signal
    BY <1>2 DEF Alike, KeepsLine
  <1>6. Free(y)
    BY <1>5 DEF Free, KeepsLine
  <1>7. CASE u = send_dcn(set_status(y, s))
    <2>1. /\ u \in EndRecord /\ KeepsBlock(y, u) /\ KeepsTimers(y, u)
          /\ u.state = "C" /\ u.step = 0 /\ u.status # "OK" /\ Turned(y, u, "D_TX") /\ u.out = <<[t |-> "DCN"]>>
      BY <1>4, <1>5, <1>6, <1>7, GivesUp
    <2>2. KeepsBlock(x, u) /\ KeepsTimers(x, u) /\ Turned(x, u, "D_TX") /\ u.t24_is = x.t24_is
      BY ONLY <1>5, <2>1 DEF KeepsBlock, KeepsTimers, KeepsLine, Turned
    <2>3. Sender(u)
      BY <2>1, <2>2, SenderDcn
    <2> QED
      BY <2>1, <2>2, <2>3 DEF Turned
  <1>8. CASE u = Repetition(y)
    <2>1. /\ a \in EndRecord /\ KeepsBlock(y, a) /\ KeepsTimers(y, a)
          /\ a.state = y.state /\ a.step = y.step /\ a.status = y.status
          /\ Turned(y, a, "D_TX") /\ a.out = <<>>
      <3>1. "D_TX" \in Phases \cap Queable
        BY DEF Phases, Queable
      <3> QED
        BY <1>5, <1>6, <3>1, QueuePhase
    <2>2. CASE x.state \in {"IV_PPS_NULL", "IV_PPS_Q"}
      <3>1. u = send_pps_frame(a)
        BY <1>5, <1>8, <2>2 DEF Repetition
      <3> HIDE DEF a
      <3>2. /\ u \in EndRecord /\ KeepsBlock(a, u) /\ KeepsTimers(a, u)
            /\ u.state = a.state /\ u.step = a.step /\ u.status = a.status
            /\ u.phase = a.phase /\ u.next_phase = a.next_phase /\ u.signal = a.signal
        BY <2>1, <3>1, PpsSent
      <3>3. PICK f \in LineFrame :
                 /\ u.out = <<f>>
                 /\ \A w : KeepsBlock(a, w) /\ w.state \in {"IV_PPS_NULL", "IV_PPS_Q"} => SenderSays(w, f)
        BY <2>1, <3>1, PpsSent
      <3>4. SenderSays(u, f)
        BY <1>5, <2>1, <2>2, <3>2, <3>3
      <3>5. KeepsBlock(x, u) /\ KeepsTimers(x, u) /\ Turned(x, u, "D_TX") /\ u.t24_is = x.t24_is
        BY ONLY <1>5, <2>1, <3>2 DEF KeepsBlock, KeepsTimers, KeepsLine, Turned
      <3>6. u.state = x.state /\ u.step = 0 /\ u.status = x.status /\ u.out = <<f>>
        BY <1>2, <1>5, <2>1, <3>2, <3>3
      <3>7. Sender(u)
        BY <1>1, <3>2, <3>4, <3>5, <3>6, SenderRepeats
      <3> QED
        BY <3>5, <3>6, <3>7 DEF Turned
    <2>3. CASE x.state \in {"IV_PPS_RNR", "IV_EOR_RNR"}
      <3>1. u = send_rr(a)
        BY <1>5, <1>8, <2>3 DEF Repetition
      <3> HIDE DEF a
      <3>2. a.signal = "none" => a.next_phase = "IDLE"
        BY <2>1 DEF Turned
      <3>3. /\ u \in EndRecord /\ KeepsBlock(a, u) /\ KeepsTimers(a, u) /\ u.status = a.status
            /\ \/ /\ u.state = a.state /\ u.step = a.step /\ u.out = <<[t |-> "RR"]>>
                  /\ u.phase = a.phase /\ u.next_phase = a.next_phase /\ u.signal = a.signal
               \/ u.state = "C" /\ u.out = <<[t |-> "DCN"]>> /\ u.status # "OK" /\ Turned(a, u, "D_TX")
        BY <2>1, <3>1, <3>2, RrSent
      <3>4. KeepsBlock(x, u) /\ KeepsTimers(x, u) /\ Turned(x, u, "D_TX") /\ u.t24_is = x.t24_is /\ u.status = x.status
        BY ONLY <1>5, <2>1, <3>3 DEF KeepsBlock, KeepsTimers, KeepsLine, Turned
      <3>5. CASE u.state = "C" /\ u.out = <<[t |-> "DCN"]>> /\ u.status # "OK"
        <4>1. Sender(u)
          BY <3>3, <3>4, <3>5, SenderDcn
        <4> QED
          BY <3>4, <3>5, <4>1 DEF Turned
      <3>6. CASE u.state = a.state /\ u.step = a.step /\ u.out = <<[t |-> "RR"]>>
        <4>1. u.state = x.state /\ u.step = 0
          BY <1>2, <1>5, <2>1, <3>6
        <4>2. SenderSays(u, [t |-> "RR"])
          BY <2>3, <4>1, SimpleFrames DEF SenderSays
        <4>3. Sender(u)
          BY <1>1, <3>3, <3>4, <3>6, <4>1, <4>2, SenderRepeats
        <4> QED
          BY <3>4, <4>1, <4>3 DEF Turned
      <3> QED
        BY <3>3, <3>5, <3>6
    <2>4. CASE x.state \notin {"IV_PPS_NULL", "IV_PPS_Q", "IV_PPS_RNR", "IV_EOR_RNR"}
      <3>1. x.state \notin {"R", "F_POST_RCP_PPR", "F_POST_RCP_MCF"}
        BY <1>1 DEF SenderLine, Asking, Ending, Ended
      <3>2. u = y
        BY <1>5, <1>8, <2>4, <3>1 DEF Repetition
      <3>3. y.t24_is \in SenderTimers
        BY <1>1, <1>5 DEF KeepsTimers
      <3>4. Sender(u)
        BY <1>2, <1>5, <3>2, <3>3, SenderWaits
      <3> QED
        BY <1>5, <3>2, <3>4
    <2> QED
      BY <2>2, <2>3, <2>4
  <1> QED
    BY <1>3, <1>7, <1>8

-----------------------------------------------------------------------------
(* The sender takes a frame.                                                *)

LEMMA HeardCrp ==
    ASSUME NEW x, NEW y, NEW f, Heard(x, y, f), NEW u, u = repeat_last_command(x)
    PROVE  HeardOut(u, y)
  <1>1. /\ Sender(x) /\ Free(x) /\ InStep(x, y) /\ ~Late(x, y) /\ x.signal = "slow" /\ x.phase = "D_RX"
        /\ x.state \notin {"IV", "B", "CALL_FINISHED"}
    BY HeardFacts DEF Heard
  <1>2. Sender(u) /\ KeepsBlock(x, u) /\ u.state \in {x.state, "C"}
    BY <1>1, SenderRepeated
  <1>3. InStep(u, y)
    BY <1>1, <1>2, InStepSender DEF Ended
  <1> QED
    BY <1>1, <1>2, <1>3 DEF HeardOut

LEMMA HeardDis ==
    ASSUME NEW x, NEW y, NEW f, Heard(x, y, f), f.t = "DIS", x.state = "T",
           NEW u, u = set_state(queue_phase(x, "B_TX"), "D")
    PROVE  HeardOut(u, y)
  <1> DEFINE a == queue_phase(x, "B_TX")
  <1>1. /\ x \in EndRecord /\ Free(x) /\ Sender(x) /\ Line(x) /\ SenderLine(x) /\ SenderPlace(x) /\ InStep(x, y)
        /\ x.signal = "slow" /\ x.phase = "D_RX"
    BY HeardFacts DEF Heard
  <1>2. "B_TX" \in Phases \cap Queable /\ "D" \in States
    BY DEF Phases, Queable, States
  <1>3. /\ a \in EndRecord /\ KeepsBlock(x, a) /\ KeepsTimers(x, a) /\ a.status = x.status
        /\ Turned(x, a, "B_TX") /\ a.out = <<>>
    BY <1>1, <1>2, QueuePhase
  <1>4. u = set_state(a, "D")
    OBVIOUS
  <1> HIDE DEF a
  <1>5. /\ u \in EndRecord /\ KeepsBlock(a, u) /\ KeepsLine(a, u) /\ KeepsTimers(a, u)
        /\ u.state = "D" /\ u.step = 0 /\ u.status = a.status
    BY <1>2, <1>3, <1>4, SetState
  <1>6. KeepsBlock(x, u) /\ u.t24_is = x.t24_is /\ Turned(x, u, "B_TX") /\ u.out = <<>>
    BY ONLY <1>3, <1>5 DEF KeepsBlock, KeepsTimers, KeepsLine, Turned
  <1>7. Line(u)
    BY <1>1, <1>2, <1>5, <1>6, LineTurned
  <1>8. SenderLine(u)
    BY <1>1, <1>5, <1>6 DEF SenderLine, Turned
  <1>9. x.page = Len(Doc) /\ u.page = x.page /\ u.eop = x.eop
    BY <1>1, <1>6 DEF SenderPlace, KeepsBlock
  <1>10. SenderPlace(u)
    <2>1. ~(u.page < Len(Doc))
      BY <1>9, DocumentParts
    <2> QED
      BY <1>1, <1>5, <1>9, <2>1 DEF SenderPlace, Ended, Asking
  <1>11. InStep(u, y)
    <2>1. y.state = "R"
      BY DEF Heard, ReceiverSays
    <2>2. y.page = Len(Doc) /\ ~(y.page < Len(Doc))
      BY <1>1, <1>9, DocumentParts DEF InStep
    <2> QED
      BY <1>5, <2>1, <2>2 DEF InStep, Receiving, Late, Asking
  <1> QED
    BY <1>5, <1>7, <1>8, <1>10, <1>11 DEF HeardOut, Sender

LEMMA HeardErr ==
    ASSUME NEW x, NEW y, NEW f, Heard(x, y, f), NEW u, u = process_rx_err(x)
    PROVE  HeardOut(u, y)
  <1> DEFINE a == set_status(x, "RETRYDCN")
             n == 0
             b == [a EXCEPT !.t5 = n]
  <1>1. x \in EndRecord /\ Free(x) /\ "RETRYDCN" \in Status
    BY HeardFacts DEF Status
  <1>2. a \in EndRecord /\ KeepsBlock(x, a) /\ KeepsLine(x, a) /\ KeepsTimers(x, a) /\ a.status = "RETRYDCN"
    BY <1>1, SetStatus
  <1>3. u = send_dcn(b)
    BY DEF process_rx_err
  <1>4. n \in 0 .. 1
    OBVIOUS
  <1> HIDE DEF a, n
  <1>5. Alike(a, b)
    BY <1>2, <1>4, SetT5
  <1> HIDE DEF b
  <1>6. b \in EndRecord /\ Free(b)
    BY <1>1, <1>2, <1>5 DEF Alike, Free, KeepsLine
  <1>7. /\ u \in EndRecord /\ KeepsBlock(b, u) /\ KeepsTimers(b, u)
        /\ u.state = "C" /\ u.step = 0 /\ u.status = b.status
        /\ Turned(b, u, "D_TX") /\ u.out = <<[t |-> "DCN"]>>
    BY <1>3, <1>6, SendDcn
  <1>8. KeepsBlock(x, u) /\ KeepsTimers(x, u) /\ Turned(x, u, "D_TX") /\ u.status = "RETRYDCN"
    BY ONLY <1>2, <1>5, <1>7 DEF Alike, KeepsBlock, KeepsTimers, KeepsLine, Turned
  <1> QED
    BY <1>7, <1>8, HeardQuit

\* While the sender is ending its retransmissions the receiver is not busy.
LEMMA NoRnrToEor ==
    ASSUME NEW x, NEW y, NEW f, Heard(x, y, f), x.state \in Ending
    PROVE  f.t # "RNR"
  <1>1. InStep(x, y)
    BY HeardFacts
  <1>2. f.t = "RNR" => y.state = "F_POST_RCP_RNR"
    BY DEF Heard, ReceiverSays
  <1>3. x.state \notin Asking \cup Ended
    BY DEF Asking, Ended, Ending
  <1> QED
    BY ONLY <1>1, <1>2, <1>3 DEF InStep

LEMMA HeardFrame ==
    ASSUME NEW x, NEW y, NEW f, Heard(x, y, f), NEW u, u = process_final_frame(x, f)
    PROVE  HeardOut(u, y)
  <1>1. /\ x \in EndRecord /\ Sender(x) /\ InStep(x, y)
        /\ x.state \in {"IV_PPS_NULL", "IV_PPS_Q", "IV_PPS_RNR", "IV_EOR", "IV_EOR_RNR", "C", "IV_CTC", "T"}
    BY HeardFacts DEF Asking, Ending
  <1>2. CASE f.t = "CRP"
    <2>1. u = repeat_last_command(x)
      BY <1>1, <1>2 DEF process_final_frame
    <2> QED
      BY <2>1, HeardCrp
  <1>q. ASSUME NEW s \in Status \ {"OK"}, u = terminate_call(set_status(x, s)) PROVE HeardOut(u, y)
    BY <1>q, HeardFinished
  <1>r. ASSUME NEW s \in Status \ {"OK"}, u = set_status(unexpected_final_frame(x), s) PROVE HeardOut(u, y)
    <2>1. HeardOut(unexpected_final_frame(x), y)
      BY HeardUnexpected
    <2> QED
      BY <1>r, <2>1, HeardOutStatus
  <1>s. {"TX_BADPG", "TX_ECMPHD", "RX_DCNRRD", "TX_GOTDCN", "TX_NODIS"} \subseteq Status \ {"OK"}
    BY DEF Status
  <1>3. CASE f.t # "CRP" /\ x.state \in {"IV_PPS_NULL", "IV_PPS_Q"}
    <2>1. u = process_state_iv_pps_null_or_q(x, f)
      BY <1>3 DEF process_final_frame
    <2>2. CASE f.t = "MCF"
      BY <1>3, <2>1, <2>2, HeardMcf DEF process_state_iv_pps_null_or_q, Asking
    <2>3. CASE f.t = "RNR"
      BY <1>3, <2>1, <2>3, HeardRnr DEF process_state_iv_pps_null_or_q, Asking
    <2>4. CASE f.t = "PPR"
      BY <1>3, <2>1, <2>4, HeardPpr DEF process_state_iv_pps_null_or_q, Asking
    <2>5. CASE f.t = "DCN"
      <3>1. u = terminate_call(set_status(x, "TX_BADPG"))
        BY <2>1, <2>5 DEF process_state_iv_pps_null_or_q
      <3> QED
        BY <1>q, <1>s, <3>1
    <2>6. CASE f.t \notin {"MCF", "RNR", "PPR", "DCN"}
      <3>1. u = set_status(unexpected_final_frame(x), "TX_ECMPHD")
        BY <2>1, <2>6 DEF process_state_iv_pps_null_or_q
      <3> QED
        BY <1>r, <1>s, <3>1
    <2> QED
      BY <2>2, <2>3, <2>4, <2>5, <2>6
  <1>4. CASE f.t # "CRP" /\ x.state = "IV_PPS_RNR"
    <2>1. u = process_state_iv_pps_rnr(x, f)
      BY <1>4 DEF process_final_frame
    <2>2. CASE f.t = "MCF"
      BY <1>4, <2>1, <2>2, HeardMcf DEF process_state_iv_pps_rnr, Asking
    <2>3. CASE f.t = "RNR"
      BY <1>4, <2>1, <2>3, HeardRnr DEF process_state_iv_pps_rnr, Asking
    <2>4. CASE f.t = "DCN"
      <3>1. u = terminate_call(set_status(x, "RX_DCNRRD"))
        BY <2>1, <2>4 DEF process_state_iv_pps_rnr
      <3> QED
        BY <1>q, <1>s, <3>1
    <2>5. CASE f.t \notin {"MCF", "RNR", "DCN"}
      <3>1. u = unexpected_final_frame(x)
        BY <2>1, <2>5 DEF process_state_iv_pps_rnr
      <3> QED
        BY <3>1, HeardUnexpected
    <2> QED
      BY <2>2, <2>3, <2>4, <2>5
  <1>5. CASE f.t # "CRP" /\ x.state \in {"IV_EOR", "IV_EOR_RNR"}
    <2>1. u = process_state_iv_eor(x, f)
      BY <1>5 DEF process_final_frame
    <2>2. f.t # "RNR"
      BY <1>5, NoRnrToEor DEF Ending
    <2>3. CASE f.t = "ERR"
      BY <2>1, <2>3, HeardErr DEF process_state_iv_eor
    <2>4. CASE f.t = "DCN" /\ x.state = "IV_EOR_RNR"
      <3>1. u = terminate_call(set_status(x, "RX_DCNRRD"))
        BY <2>1, <2>4 DEF process_state_iv_eor
      <3> QED
        BY <1>q, <1>s, <3>1
    <2>5. CASE f.t # "ERR" /\ ~(f.t = "DCN" /\ x.state = "IV_EOR_RNR")
      <3>1. u = unexpected_final_frame(x)
        BY <2>1, <2>2, <2>5 DEF process_state_iv_eor
      <3> QED
        BY <3>1, HeardUnexpected
    <2> QED
      BY <2>3, <2>4, <2>5
  <1>6. CASE f.t # "CRP" /\ x.state = "C"
    <2>1. u = process_state_b_or_c(x, f)
      BY <1>6 DEF process_final_frame
    <2>2. CASE f.t = "DCN"
      <3>1. u = x
        BY <2>1, <2>2 DEF process_state_b_or_c
      <3> QED
        BY <1>1, <1>6, <3>1 DEF HeardOut
    <2>3. CASE f.t # "DCN"
      <3>1. u = unexpected_final_frame(x)
        BY <2>1, <2>3 DEF process_state_b_or_c
      <3> QED
        BY <3>1, HeardUnexpected
    <2> QED
      BY <2>2, <2>3
  <1>7. CASE f.t # "CRP" /\ x.state = "IV_CTC"
    <2>1. u = process_state_iv_ctc(x, f)
      BY <1>7 DEF process_final_frame
    <2>2. CASE f.t = "CTR"
      BY <1>7, <2>1, <2>2, HeardCtr DEF process_state_iv_ctc
    <2>3. CASE f.t # "CTR"
      <3>1. u = unexpected_final_frame(x)
        BY <2>1, <2>3 DEF process_state_iv_ctc
      <3> QED
        BY <3>1, HeardUnexpected
    <2> QED
      BY <2>2, <2>3
  <1>8. CASE f.t # "CRP" /\ x.state = "T"
    <2>1. u = process_state_t(x, f)
      BY <1>8 DEF process_final_frame
    <2>2. CASE f.t = "DIS"
      BY <1>8, <2>1, <2>2, HeardDis DEF process_state_t
    <2>3. CASE f.t = "DCN"
      <3>1. u = terminate_call(set_status(x, "TX_GOTDCN"))
        BY <2>1, <2>3 DEF process_state_t
      <3> QED
        BY <1>q, <1>s, <3>1
    <2>4. CASE f.t \notin {"DIS", "DCN"}
      <3>1. u = set_status(unexpected_final_frame(x), "TX_NODIS")
        BY <2>1, <2>4 DEF process_state_t
      <3> QED
        BY <1>r, <1>s, <3>1
    <2> QED
      BY <2>2, <2>3, <2>4
  <1> QED
    BY <1>1, <1>2, <1>3, <1>4, <1>5, <1>6, <1>7, <1>8

-----------------------------------------------------------------------------
(* The receiver by itself.                                                  *)

LEMMA ReceiverPlaceKept ==
    ASSUME NEW y \in EndRecord, ReceiverPlace(y), NEW v, KeepsBlock(y, v), Receiving(v) => Receiving(y),
           v.state \in Answering => y.state \in Answering,
           v.state \in Ended /\ v.status = "OK" => y.page = Len(Doc) \/ (y.state \in Ended /\ y.status = "OK")
    PROVE  ReceiverPlace(v)
  <1>1. v.page = y.page /\ v.ecm_block = y.ecm_block /\ v.put = y.put /\ v.next_rx = y.next_rx /\ v.eop = y.eop
    BY DEF KeepsBlock
  <1>2. Blocks(v) = Blocks(y)
    BY <1>1 DEF Blocks
  <1> QED
    BY <1>1, <1>2 DEF ReceiverPlace

LEMMA ReceiverWaits ==
    ASSUME NEW y, Receiver(y), NEW v \in EndRecord, KeepsBlock(y, v), KeepsLine(y, v),
           v.state = y.state, v.status \in {y.status} \/ v.status # "OK",
           v.state = "CALL_FINISHED" => v.t24 = 0 /\ v.t1 = 0
    PROVE  Receiver(v)
  <1>1. y \in EndRecord /\ Line(y) /\ ReceiverLine(y) /\ ReceiverPlace(y)
    BY DEF Receiver
  <1>2. Line(v)
    BY <1>1, LineKept
  <1>3. ReceiverLine(v)
    BY <1>1 DEF ReceiverLine, ReceiverSays, Receiving, KeepsLine, KeepsBlock
  <1>4. ReceiverPlace(v)
    BY <1>1, ReceiverPlaceKept DEF Receiving
  <1> QED
    BY <1>2, <1>3, <1>4 DEF Receiver

-----------------------------------------------------------------------------
(* A frame leaves the end that sends it.                                    *)

Pair(x, y) == Sender(x) /\ Receiver(y) /\ InStep(x, y) /\ Turns(x, y)

Emptying(x) == [x EXCEPT !.out = Tail(@)]

LEMMA ReceiverSent ==
    ASSUME NEW x, NEW y, Pair(x, y), Sending(y), y.out # <<>>, NEW v, v = Emptying(y)
    PROVE  /\ Pair(x, v) /\ v.out = <<>> /\ v.phase = y.phase /\ v.signal = y.signal /\ v.state = y.state
           /\ v.fallback = y.fallback /\ v.phase \in Slow /\ v.signal = "none" /\ Sending(v)
           /\ v.page = y.page /\ v.status = y.status
           /\ Head(y.out) \in LineFrame /\ ReceiverSays(v, Head(y.out)) /\ y.out = <<Head(y.out)>>
           /\ ~Late(x, y)
  <1>1. /\ y \in EndRecord /\ Line(y) /\ ReceiverLine(y) /\ ReceiverPlace(y) /\ Sender(x) /\ InStep(x, y) /\ Turns(x, y)
    BY DEF Pair, Receiver
  <1>2. /\ v \in EndRecord /\ KeepsBlock(y, v) /\ KeepsTimers(y, v)
        /\ v.phase = y.phase /\ v.next_phase = y.next_phase /\ v.signal = y.signal /\ v.out = <<>>
        /\ v.state = y.state /\ v.status = y.status /\ v.step = y.step
        /\ Head(y.out) \in LineFrame /\ y.out = <<Head(y.out)>>
    BY <1>1, Emptied DEF Emptying
  <1>3. Sending(v)
    BY <1>2 DEF Sending
  <1>4. y.phase \in Slow /\ y.signal = "none" /\ y.state # "CALL_FINISHED"
    BY <1>1, Fields DEF Sending, Phases, ReceiverLine, Line, Slow
  <1>5. Line(v)
    BY <1>1, <1>2 DEF Line, KeepsTimers
  <1>6. ReceiverLine(v)
    BY <1>1, <1>2 DEF ReceiverLine, Receiving
  <1>7. ReceiverPlace(v)
    BY <1>1, <1>2, ReceiverPlaceKept DEF Receiving
  <1>8. ReceiverSays(v, Head(y.out))
    <2>1. ReceiverSays(y, Head(y.out))
      BY <1>1, <1>4 DEF ReceiverLine
    <2> QED
      BY <1>2, <2>1 DEF ReceiverSays, KeepsBlock
  <1>9. ~Late(x, y)
    BY <1>1 DEF InStep
  <1>10. InStep(x, v)
    BY <1>1, <1>2, <1>9, InStepReceiver DEF Receiving
  <1>11. Turns(x, v)
    BY ONLY <1>1, <1>2, <1>3, <1>4 DEF Turns
  <1>12. v.fallback = y.fallback /\ v.page = y.page
    BY <1>2 DEF KeepsBlock
  <1> QED
    BY <1>1, <1>2, <1>3, <1>4, <1>5, <1>6, <1>7, <1>8, <1>9, <1>10, <1>11, <1>12 DEF Pair, Receiver

\* A sender that hears is not about to send a block.
LEMMA SenderListens ==
    ASSUME NEW x, NEW y, Pair(x, y), Sending(y), y.out # <<>>, Hears(x) = Carrier(y)
    PROVE  /\ x.signal = "slow" /\ x.phase = "D_RX" /\ x.state \notin {"IV", "B", "CALL_FINISHED"} /\ ~Sending(x)
           /\ y.state \in Answering \cup {"F_DOC_ECM"} => x.next_phase = "IDLE" /\ x.out = <<>>
  <1>1. /\ x \in EndRecord /\ Line(x) /\ SenderLine(x) /\ Turns(x, y)
        /\ y \in EndRecord /\ ReceiverLine(y)
    BY DEF Pair, Receiver, Sender
  <1>2. y.phase \in Slow
    BY <1>1, Fields DEF Sending, Phases, ReceiverLine, Slow
  <1>3. Carrier(y) = "slow"
    BY <1>2 DEF Carrier
  <1>4. x.signal = "slow"
    BY <1>1, <1>3 DEF Hears, SenderLine
  <1>5. x.phase = "D_RX" /\ ~Sending(x)
    BY <1>1, <1>4 DEF Line, SenderLine, Sending, Slow
  <1>6. x.state \notin {"B", "CALL_FINISHED"}
    BY <1>1, <1>5 DEF Line
  <1>7. y.state \in Answering \cup {"F_DOC_ECM"} => x.next_phase = "IDLE"
    BY <1>1, <1>2 DEF Turns
  <1>8. x.next_phase = "IDLE" => x.out = <<>>
    BY <1>1, <1>5, <1>6 DEF Line, Slow
  <1>9. x.state # "IV"
    <2>1. SUFFICES ASSUME x.state = "IV" PROVE FALSE
      OBVIOUS
    <2>2. y.state \in Answering \cup {"F_DOC_ECM"}
      BY <1>1, <1>2, <1>5, <2>1 DEF Turns, Answering
    <2>3. x.next_phase = "C_ECM_TX"
      BY <1>1, <1>5, <2>1 DEF Turns
    <2> QED
      BY <1>7, <2>2, <2>3
  <1> QED
    BY <1>4, <1>5, <1>6, <1>7, <1>8, <1>9

LEMMA PairHeardOut ==
    ASSUME NEW u, NEW y, HeardOut(u, y), Receiver(y), Sending(y), y.signal = "none", y.out = <<>>
    PROVE  Pair(u, y)
  <1>1. Turns(u, y)
    BY DEF Turns, HeardOut
  <1> QED
    BY <1>1 DEF Pair, HeardOut

LEMMA SenderAccepts ==
    ASSUME NEW x, NEW y, Pair(x, y), Sending(y), y.out # <<>>, Hears(x) = Carrier(y), x.state # "D",
           NEW v, v = Emptying(y), NEW u, u = hdlc_accept(x, Head(y.out))
    PROVE  Pair(u, v)
  <1> DEFINE f == Head(y.out)
             a == timer_t2_t4_stop(x)
             n == 0
             z == [a EXCEPT !.t1 = n]
  <1>1. /\ Pair(x, v) /\ v.out = <<>> /\ v.phase = y.phase /\ v.signal = y.signal /\ v.state = y.state
        /\ v.fallback = y.fallback /\ v.phase \in Slow /\ v.signal = "none" /\ Sending(v)
        /\ f \in LineFrame /\ ReceiverSays(v, f) /\ y.out = <<f>>
    BY ReceiverSent
  <1>2. /\ x.signal = "slow" /\ x.phase = "D_RX" /\ x.state \notin {"IV", "B", "CALL_FINISHED"} /\ ~Sending(x)
        /\ y.state \in Answering \cup {"F_DOC_ECM"} => x.next_phase = "IDLE" /\ x.out = <<>>
    BY SenderListens
  <1>3. x \in EndRecord /\ Sender(x) /\ InStep(x, v) /\ Receiver(v) /\ v \in EndRecord
    BY <1>1 DEF Pair, Sender, Receiver
  <1>4. f.t \in {"CRP", "CTR", "ERR", "PPR", "RNR", "MCF", "DIS", "DCN"}
    BY <1>1 DEF ReceiverSays
  <1>5. u = process_final_frame(z, f)
    BY <1>4 DEF hdlc_accept
  <1>6. f.t = "CTR" => v.fallback = x.fallback
    <2>1. SUFFICES ASSUME f.t = "CTR" PROVE v.fallback = x.fallback
      OBVIOUS
    <2>2. y.state = "F_DOC_ECM"
      BY <1>1, <2>1 DEF ReceiverSays
    <2>3. f = [t |-> "CTR"]
      BY <1>1, <2>1 DEF LineFrame, SimpleFrame
    <2>4. InStep(x, y)
      BY DEF Pair
    <2> QED
      BY ONLY <1>1, <2>2, <2>3, <2>4 DEF InStep
  <1>7. /\ a \in EndRecord /\ KeepsBlock(x, a) /\ KeepsLine(x, a)
        /\ a.state = x.state /\ a.step = x.step /\ a.status = x.status
        /\ a.t24 = 0 /\ a.t24_is = "IDLE" /\ a.t1 = x.t1
    BY <1>3, StopTimer
  <1>8. n \in 0 .. T1 /\ n = 0
    BY Constants
  <1> HIDE DEF a, n
  <1>9. /\ z \in EndRecord /\ KeepsBlock(a, z) /\ KeepsLine(a, z)
        /\ z.state = a.state /\ z.status = a.status /\ z.step = a.step
        /\ z.t24 = a.t24 /\ z.t24_is = a.t24_is /\ z.t1 = n
    BY <1>7, <1>8, SetT1
  <1> HIDE DEF z
  <1>10. KeepsBlock(x, z) /\ KeepsLine(x, z)
    BY ONLY <1>7, <1>9 DEF KeepsBlock, KeepsLine
  <1>11. z.state = x.state /\ z.step = x.step /\ z.status = x.status /\ z.t24 = 0 /\ z.t1 = 0 /\ z.t24_is = "IDLE"
    BY ONLY <1>7, <1>8, <1>9
  <1>12. Sender(z)
    BY <1>3, <1>9, <1>10, <1>11, SenderWaits DEF SenderTimers
  <1>13. InStep(z, v)
    BY <1>3, <1>10, <1>11, InStepSender DEF Sending, KeepsLine
  <1>14. z.signal = "slow" /\ z.phase = "D_RX" /\ z.next_phase = x.next_phase /\ z.out = x.out /\ z.fallback = x.fallback
    BY <1>2, <1>10 DEF KeepsLine, KeepsBlock
  <1>15. Heard(z, v, f)
    BY ONLY <1>1, <1>2, <1>3, <1>6, <1>11, <1>12, <1>13, <1>14, x.state # "D" DEF Heard
  <1>16. HeardOut(u, v)
    BY <1>5, <1>15, HeardFrame
  <1> QED
    BY <1>1, <1>3, <1>16, PairHeardOut

\* A spoilt frame is asked for again, or ignored.
LEMMA SenderAcceptsBad ==
    ASSUME NEW x, NEW y, Pair(x, y), Sending(y), y.out # <<>>, Hears(x) = Carrier(y),
           NEW v, v = Emptying(y), NEW u, u = hdlc_accept_bad(x)
    PROVE  Pair(u, v)
  <1>1. /\ Pair(x, v) /\ v.out = <<>> /\ v.signal = "none" /\ Sending(v)
    BY ReceiverSent
  <1>2. /\ x.signal = "slow" /\ x.phase = "D_RX" /\ x.state \notin {"IV", "B", "CALL_FINISHED"} /\ ~Sending(x)
    BY SenderListens
  <1>3. x \in EndRecord /\ Sender(x) /\ Line(x) /\ SenderLine(x) /\ InStep(x, v) /\ Receiver(v)
    BY <1>1 DEF Pair, Sender
  <1>4. ASSUME Sender(u), KeepsBlock(x, u), u.state = x.state PROVE Pair(u, v)
    <2>1. ~Late(x, v)
      BY <1>2, <1>3 DEF InStep
    <2>2. InStep(u, v)
      BY <1>3, <1>4, <2>1, InStepSender
    <2> QED
      BY <1>1, <1>2, <1>3, <1>4, <2>2, PairHeardOut DEF HeardOut
  <1>5. CASE CommandRepeat
    <2> DEFINE n == 0
               a == [x EXCEPT !.step = n]
    <2>1. u = send_frame(queue_phase(a, "D_TX"), [t |-> "CRP"])
      BY <1>2, <1>3, <1>5 DEF hdlc_accept_bad, send_simple_frame
    <2>2. n \in 0 .. 1 /\ n = 0
      OBVIOUS
    <2> HIDE DEF n
    <2>3. Alike(x, a) /\ a.step = n
      BY <1>3, <2>2, SetStep
    <2> HIDE DEF a
    <2>4. Free(a) /\ a \in EndRecord /\ "D_TX" \in Phases \cap Queable
      BY <1>2, <1>3, <2>3, LineIsFree DEF Alike, Free, KeepsLine, Phases, Queable
    <2>5. [t |-> "CRP"] \in LineFrame /\ [t |-> "CRP"].t = "CRP"
      BY SimpleFrames
    <2>6. /\ u \in EndRecord /\ KeepsBlock(a, u) /\ KeepsTimers(a, u)
          /\ u.state = a.state /\ u.step = a.step /\ u.status = a.status
          /\ Turned(a, u, "D_TX") /\ u.out = <<[t |-> "CRP"]>>
      BY <2>1, <2>4, <2>5, SayAgain
    <2>7. /\ KeepsBlock(x, u) /\ KeepsTimers(x, u) /\ Turned(x, u, "D_TX") /\ u.state = x.state /\ u.status = x.status
          /\ u.step = 0 /\ u.t24_is = x.t24_is
      BY ONLY <2>2, <2>3, <2>6 DEF Alike, KeepsBlock, KeepsTimers, KeepsLine, Turned
    <2>8. SenderSays(u, [t |-> "CRP"])
      BY <1>2, <2>5, <2>7 DEF SenderSays
    <2>9. Sender(u)
      BY <1>2, <1>3, <2>6, <2>7, <2>8, SenderRepeats DEF SenderLine
    <2> QED
      BY <1>4, <2>7, <2>9
  <1>6. CASE ~CommandRepeat
    <2>0. CommandRepeat \in BOOLEAN
      BY T30CoreAssumption
    <2>1. CASE x.t24_is = "T2_FLAGGED"
      BY <1>3, <2>1 DEF SenderLine, SenderTimers
    <2>2. CASE x.t24_is # "T2_FLAGGED"
      <3>1. x.phase # "C_ECM_RX"
        BY <1>2
      <3>2. u = IF x.t24_is = "T2_FLAGGED" THEN timer_t2_t4_stop(x) ELSE x
        BY ONLY <1>6, <3>1, u = hdlc_accept_bad(x), <2>0 DEF hdlc_accept_bad
      <3>3. u = x
        BY <2>2, <3>2
      <3> QED
        BY <1>1, <3>3
    <2> QED
      BY <2>1, <2>2
  <1> QED
    BY <1>5, <1>6

-----------------------------------------------------------------------------
(* A frame leaves the sender, and what an end may do by itself.             *)

LEMMA TurnsKept ==
    ASSUME NEW x, NEW y, Turns(x, y), NEW u, NEW v, KeepsLine(x, u), u.state = x.state,
           KeepsLine(y, v), v.state = y.state, v.next_rx = y.next_rx
    PROVE  Turns(u, v)
  <1>1. (Sending(u) <=> Sending(x)) /\ (Sending(v) <=> Sending(y))
    BY DEF Sending, KeepsLine
  <1> QED
    BY ONLY <1>1, Turns(x, y), KeepsLine(x, u), u.state = x.state, KeepsLine(y, v), v.state = y.state,
       v.next_rx = y.next_rx DEF Turns, KeepsLine

LEMMA PairSenderWaits ==
    ASSUME NEW x, NEW y, Pair(x, y), NEW u \in EndRecord, KeepsBlock(x, u), KeepsLine(x, u),
           u.t24_is \in SenderTimers, u.state = x.state, u.step \in {x.step, 0}, u.status \in {x.status} \/ u.status # "OK",
           u.state \in {"IV", "CALL_FINISHED"} => u.t24 = 0 /\ u.t1 = 0
    PROVE  Pair(u, y)
  <1>1. Sender(u)
    BY SenderWaits DEF Pair
  <1>2. Sending(u) = Sending(x)
    BY DEF Sending, KeepsLine
  <1>3. InStep(u, y)
    BY <1>2, InStepSender DEF Pair
  <1>4. Turns(u, y)
    BY TurnsKept DEF Pair, KeepsLine
  <1> QED
    BY <1>1, <1>3, <1>4 DEF Pair

LEMMA PairReceiverWaits ==
    ASSUME NEW x, NEW y, Pair(x, y), NEW v \in EndRecord, KeepsBlock(y, v), KeepsLine(y, v),
           v.state = y.state, v.status \in {y.status} \/ v.status # "OK",
           v.state = "CALL_FINISHED" => v.t24 = 0 /\ v.t1 = 0
    PROVE  Pair(x, v)
  <1>1. Receiver(v)
    BY ReceiverWaits DEF Pair
  <1>2. Receiving(v) <=> Receiving(y)
    BY DEF Receiving
  <1>3. InStep(x, v)
    BY <1>2, InStepReceiver DEF Pair, KeepsLine
  <1>4. v.next_rx = y.next_rx
    BY DEF KeepsBlock
  <1>5. Turns(x, v)
    BY <1>4, TurnsKept DEF Pair, KeepsLine
  <1> QED
    BY <1>1, <1>3, <1>5 DEF Pair

\* The receiver hears f, which the sender has just sent.
Hearing(x, y, f) ==
    /\ Pair(x, y) /\ Sending(x) /\ x.out = <<>> /\ x.signal = "none" /\ x.next_phase = "IDLE"
    /\ f \in LineFrame /\ SenderSays(x, f)
    /\ y.signal = IF x.state = "IV" THEN "trained" ELSE "slow"
    /\ x.state \in Asking => y.next_phase = "IDLE"

LEMMA SenderSent ==
    ASSUME NEW x, NEW y, Pair(x, y), Sending(x), x.out # <<>>, NEW u, u = Emptying(x)
    PROVE  /\ Pair(u, y)
           /\ Hears(y) = Carrier(x) /\ y.signal # "untrained" => Hearing(u, y, Head(x.out))
  <1> DEFINE f == Head(x.out)
  <1>1. /\ x \in EndRecord /\ Line(x) /\ SenderLine(x) /\ SenderPlace(x) /\ InStep(x, y) /\ Turns(x, y)
        /\ Receiver(y) /\ y \in EndRecord
    BY DEF Pair, Sender, Receiver
  <1>2. /\ u \in EndRecord /\ KeepsBlock(x, u) /\ KeepsTimers(x, u)
        /\ u.phase = x.phase /\ u.next_phase = x.next_phase /\ u.signal = x.signal /\ u.out = <<>>
        /\ u.state = x.state /\ u.status = x.status /\ u.step = x.step
        /\ f \in LineFrame
    BY <1>1, Emptied DEF Emptying
  <1>3. Sending(u)
    BY <1>2 DEF Sending
  <1>4. x.phase \in {"C_ECM_TX", "D_TX"} /\ x.signal = "none" /\ x.next_phase = "IDLE" /\ x.state # "CALL_FINISHED"
    BY <1>1 DEF Sending, Slow, SenderLine, Line
  <1>5. Line(u)
    BY <1>1, <1>2, <1>4 DEF Line, KeepsTimers
  <1>6. SenderLine(u)
    BY <1>1, <1>2 DEF SenderLine, KeepsTimers
  <1>7. SenderPlace(u)
    BY <1>1, <1>2, SenderPlaceKept
  <1>8. InStep(u, y)
    <2>1. Sending(u) = Sending(x)
      BY <1>2 DEF Sending
    <2> QED
      BY <1>1, <1>2, <2>1, InStepSender
  <1>9. Turns(u, y)
    BY ONLY <1>1, <1>2, <1>3, <1>4 DEF Turns
  <1>10. Pair(u, y)
    BY <1>1, <1>2, <1>5, <1>6, <1>7, <1>8, <1>9 DEF Pair, Sender
  <1>11. ASSUME Hears(y) = Carrier(x), y.signal # "untrained" PROVE Hearing(u, y, f)
    <2>1. SenderSays(u, f)
      <3>1. SenderSays(x, f)
        BY <1>1, <1>4 DEF SenderLine
      <3> QED
        BY <1>2, <3>1, SaysTheSame
    <2>2. x.phase = "C_ECM_TX" <=> x.state = "IV"
      BY <1>1, <1>4 DEF SenderLine
    <2>3. Carrier(x) = IF x.state = "IV" THEN "fast" ELSE "slow"
      BY <1>4, <2>2 DEF Carrier, Slow
    <2>4. y.signal = IF x.state = "IV" THEN "trained" ELSE "slow"
      BY <1>1, <1>11, <2>3, Fields DEF Hears, Signals
    <2>5. x.state \in Asking => y.next_phase = "IDLE"
      <3>1. x.state \in Asking => x.state # "IV"
        BY DEF Asking
      <3> QED
        BY <1>1, <1>4, <2>2, <2>4, <3>1 DEF Turns, Slow
    <2> QED
      BY <1>2, <1>3, <1>4, <1>10, <2>1, <2>4, <2>5 DEF Hearing
  <1> QED
    BY <1>10, <1>11

-----------------------------------------------------------------------------
(* The receiver by itself, when it answers or leaves.                       *)

LEMMA ReceiverTurned ==
    ASSUME NEW y, Receiver(y), y.state \notin {"B", "CALL_FINISHED"},
           NEW v \in EndRecord, v.state \in Answering \cup {"F_DOC_ECM", "C"}, Turned(y, v, "D_TX"),
           Receiving(v) => Receiving(y), NEW f, v.out = <<f>>, ReceiverSays(v, f), ReceiverPlace(v)
    PROVE  Receiver(v)
  <1>1. Line(y) /\ ReceiverLine(y) /\ y \in EndRecord
    BY DEF Receiver
  <1>2. Line(v)
    <2>1. "D_TX" \in Phases \cap Queable
      BY DEF Phases, Queable
    <2> QED
      BY <1>1, <2>1, LineTurned DEF Answering
  <1>3. ReceiverLine(v)
    <2>1. v.out # <<>> => ReceiverSays(v, Head(v.out)) \/ v.state = "CALL_FINISHED"
      OBVIOUS
    <2>2. v.state \in Answering \cup Ended \cup {"F_DOC_ECM", "F_POST_DOC_ECM", "R"}
      BY DEF Ended
    <2>3. v.phase # "C_ECM_TX" /\ v.next_phase # "C_ECM_TX"
      BY <1>1 DEF ReceiverLine, Turned
    <2>4. Receiving(v) => v.phase \notin {"B_RX", "B_TX"} /\ v.next_phase # "B_TX"
      BY <1>1 DEF ReceiverLine, Turned
    <2> QED
      BY <2>1, <2>2, <2>3, <2>4 DEF ReceiverLine
  <1> QED
    BY <1>2, <1>3 DEF Receiver

LEMMA ReceiverDcn ==
    ASSUME NEW y, Receiver(y), y.state \notin {"B", "CALL_FINISHED"},
           NEW v \in EndRecord, KeepsBlock(y, v), v.state = "C", Turned(y, v, "D_TX"),
           v.out = <<[t |-> "DCN"]>>, v.status # "OK"
    PROVE  Receiver(v)
  <1>1. y \in EndRecord /\ ReceiverPlace(y)
    BY DEF Receiver
  <1>2. ReceiverPlace(v)
    BY <1>1, ReceiverPlaceKept DEF Receiving, Answering
  <1>3. ReceiverSays(v, [t |-> "DCN"])
    BY SimpleFrames DEF ReceiverSays
  <1> QED
    BY <1>2, <1>3, ReceiverTurned DEF Receiving

LEMMA ReceiverFinished ==
    ASSUME NEW y, Receiver(y), NEW v \in EndRecord, KeepsBlock(y, v),
           v.state = "CALL_FINISHED", v.phase = "CALL_FINISHED", v.next_phase = "IDLE",
           v.signal = "none", v.t24 = 0, v.t1 = 0,
           v.status # "OK" \/ y.page = Len(Doc) \/ (y.state \in Ended /\ y.status = "OK")
    PROVE  Receiver(v)
  <1>1. y \in EndRecord /\ ReceiverPlace(y)
    BY DEF Receiver
  <1>2. Line(v)
    BY LineFinished
  <1>3. ReceiverLine(v)
    BY DEF ReceiverLine, Ended, Receiving
  <1>4. ReceiverPlace(v)
    BY <1>1, ReceiverPlaceKept DEF Receiving, Answering
  <1> QED
    BY <1>2, <1>3, <1>4 DEF Receiver

\* What has been heard is dealt with.
LEMMA PairHeard ==
    ASSUME NEW x, NEW y, NEW f, Hearing(x, y, f), NEW v, Receiver(v), InStep(x, v),
           v.state = "F_POST_RCP_MCF" /\ v.next_rx = "MPS" /\ ~Sending(v) =>
              v.signal = "slow" /\ v.next_phase = "D_TX" /\ x.state \in Asking
    PROVE  Pair(x, v)
  <1>1. Turns(x, v)
    BY DEF Turns, Hearing
  <1> QED
    BY <1>1 DEF Pair, Hearing

LEMMA HearingFacts ==
    ASSUME NEW x, NEW y, NEW f, Hearing(x, y, f)
    PROVE  /\ Sender(x) /\ x \in EndRecord /\ SenderPlace(x) /\ InStep(x, y) /\ Turns(x, y)
           /\ Receiver(y) /\ y \in EndRecord /\ ReceiverPlace(y) /\ ReceiverLine(y) /\ Line(y)
           /\ Free(y) /\ ~Sending(y) /\ y.state \notin {"B", "CALL_FINISHED"} /\ ~Late(x, y)
           /\ y.signal # "none"
  <1>1. /\ Sender(x) /\ x \in EndRecord /\ SenderPlace(x) /\ InStep(x, y) /\ Turns(x, y)
        /\ Receiver(y) /\ y \in EndRecord /\ ReceiverPlace(y) /\ ReceiverLine(y) /\ Line(y)
    BY DEF Hearing, Pair, Sender, Receiver
  <1>2. y.signal # "none"
    BY DEF Hearing
  <1>3. Free(y) /\ ~Sending(y) /\ y.state \notin {"B", "CALL_FINISHED"}
    BY <1>1, <1>2, LineIsFree
  <1>4. ~Late(x, y)
    BY <1>1 DEF InStep, Hearing
  <1> QED
    BY <1>1, <1>2, <1>3, <1>4

LEMMA HearingQuit ==
    ASSUME NEW x, NEW y, NEW f, Hearing(x, y, f), NEW v \in EndRecord, KeepsBlock(y, v),
           v.state = "C", Turned(y, v, "D_TX"), v.out = <<[t |-> "DCN"]>>, v.status # "OK"
    PROVE  Pair(x, v)
  <1>1. /\ Receiver(y) /\ y.state \notin {"B", "CALL_FINISHED"} /\ InStep(x, y)
    BY HearingFacts
  <1>2. Receiver(v)
    BY <1>1, ReceiverDcn
  <1>3. InStep(x, v)
    BY <1>1, InStepLeft DEF Ended, KeepsBlock
  <1> QED
    BY <1>2, <1>3, PairHeard

LEMMA HearingUnexpected ==
    ASSUME NEW x, NEW y, NEW f, Hearing(x, y, f), NEW v, v = unexpected_final_frame(y)
    PROVE  Pair(x, v)
  <1>1. y \in EndRecord /\ Free(y)
    BY HearingFacts
  <1>2. /\ v \in EndRecord /\ KeepsBlock(y, v) /\ KeepsTimers(y, v)
        /\ v.state = "C" /\ v.step = 0 /\ v.status # "OK"
        /\ Turned(y, v, "D_TX") /\ v.out = <<[t |-> "DCN"]>>
    BY <1>1, UnexpectedFinal
  <1> QED
    BY <1>2, HearingQuit

LEMMA HearingFinished ==
    ASSUME NEW x, NEW y, NEW f, Hearing(x, y, f), NEW a \in EndRecord, KeepsBlock(y, a),
           a.status # "OK" \/ y.page = Len(Doc), NEW v, v = terminate_call(a)
    PROVE  Pair(x, v)
  <1>1. Receiver(y) /\ InStep(x, y)
    BY HearingFacts
  <1>2. /\ v \in EndRecord /\ KeepsBlock(a, v)
        /\ v.state = "CALL_FINISHED" /\ v.status = a.status /\ v.t24 = 0 /\ v.t1 = 0 /\ v.t24_is = a.t24_is
        /\ v.phase = "CALL_FINISHED" /\ v.next_phase = "IDLE" /\ v.signal = "none"
    BY Terminate
  <1>3. KeepsBlock(y, v)
    BY ONLY <1>2, KeepsBlock(y, a) DEF KeepsBlock
  <1>4. Receiver(v)
    BY <1>1, <1>2, <1>3, ReceiverFinished
  <1>5. InStep(x, v)
    BY <1>1, <1>2, <1>3, InStepLeft DEF Ended, KeepsBlock
  <1> QED
    BY <1>2, <1>4, <1>5, PairHeard

-----------------------------------------------------------------------------
(* The receiver says again what it said, or asks for another document.      *)

LEMMA PlaceAsksAnew ==
    ASSUME NEW y, ReceiverPlace(y), NEW v \in EndRecord, v.state = "R",
           v.page = y.page, v.ecm_block \in {y.ecm_block, 0}, v.put = y.put, v.eop = y.eop
    PROVE  ReceiverPlace(v)
  <1>1. Blocks(v) = Blocks(y)
    BY DEF Blocks
  <1>2. v.page < Len(Doc) => 0 \in 0 .. Len(Blocks(v)) - 1
    <2>1. SUFFICES ASSUME v.page < Len(Doc) PROVE 0 \in 0 .. Len(Blocks(v)) - 1
      OBVIOUS
    <2>2. v.page \in 0 .. Len(Doc) - 1
      <3>1. v.page \in 0 .. Len(Doc) /\ Len(Doc) \in Nat
        BY Fields, DocumentParts
      <3> QED
        BY ONLY <2>1, <3>1
    <2>3. Len(Blocks(v)) \in Nat \ {0}
      BY <2>2, DocumentParts DEF Blocks
    <2> QED
      BY ONLY <2>3
  <1> QED
    BY <1>1, <1>2 DEF ReceiverPlace, Receiving, Answering, Ended

LEMMA ReceiverAsksAnew ==
    ASSUME NEW y, Receiver(y), y.state \notin {"B", "CALL_FINISHED"},
           NEW v \in EndRecord, v.state = "R", Turned(y, v, "B_TX"), v.out = <<[t |-> "DIS"]>>,
           v.page = y.page, v.ecm_block \in {y.ecm_block, 0}, v.put = y.put, v.eop = y.eop
    PROVE  Receiver(v)
  <1>1. Line(y) /\ ReceiverLine(y) /\ y \in EndRecord /\ ReceiverPlace(y)
    BY DEF Receiver
  <1>2. Line(v)
    <2>1. "B_TX" \in Phases \cap Queable
      BY DEF Phases, Queable
    <2> QED
      BY <1>1, <2>1, LineTurned
  <1>3. ReceiverLine(v)
    <2>1. ReceiverSays(v, [t |-> "DIS"])
      BY SimpleFrames DEF ReceiverSays
    <2>2. v.phase # "C_ECM_TX" /\ v.next_phase # "C_ECM_TX"
      BY <1>1 DEF ReceiverLine, Turned
    <2> QED
      BY <2>1, <2>2 DEF ReceiverLine, Receiving
  <1>4. ReceiverPlace(v)
    BY <1>1, PlaceAsksAnew
  <1> QED
    BY <1>2, <1>3, <1>4 DEF Receiver

LEMMA ReceiverRepeated ==
    ASSUME NEW y, Receiver(y), y.state \notin {"B", "CALL_FINISHED"}, Free(y), NEW v, v = repeat_last_command(y)
    PROVE  /\ Receiver(v) /\ KeepsBlock(y, v) /\ KeepsTimers(y, v) /\ v.state \in {y.state, "C"} /\ v.signal = y.signal
           /\ v.state = "F_POST_RCP_MCF" => Turned(y, v, "D_TX")
           /\ v.state \in {"F_DOC_ECM", "F_POST_DOC_ECM"} => KeepsLine(y, v)
  <1> DEFINE a == [y EXCEPT !.step = 0, !.retries = @ + 1]
             s == GiveUpStatus(a)
  <1>1. y \in EndRecord /\ ReceiverLine(y) /\ ReceiverPlace(y) /\ Line(y)
    BY DEF Receiver
  <1>2. Alike(y, a) /\ a.step = 0
    BY <1>1, Retried
  <1>3. \/ v = send_dcn(set_status(a, s))
        \/ v = Repetition(a)
    BY DEF repeat_last_command
  <1>4. s \in Status \ {"OK"}
    BY DEF GiveUpStatus, Status
  <1> HIDE DEF a, s
  <1>5. /\ a \in EndRecord /\ KeepsBlock(y, a) /\ KeepsLine(y, a) /\ KeepsTimers(y, a)
        /\ a.state = y.state /\ a.status = y.status /\ a.signal = y.signal
    BY <1>2 DEF Alike, KeepsLine
  <1>6. Free(a) /\ "D_TX" \in Phases \cap Queable /\ "B_TX" \in Phases \cap Queable
    BY <1>5 DEF Free, KeepsLine, Phases, Queable
  <1>7. CASE v = send_dcn(set_status(a, s))
    <2>1. /\ v \in EndRecord /\ KeepsBlock(a, v) /\ KeepsTimers(a, v)
          /\ v.state = "C" /\ v.step = 0 /\ v.status # "OK" /\ Turned(a, v, "D_TX") /\ v.out = <<[t |-> "DCN"]>>
      BY <1>4, <1>5, <1>6, <1>7, GivesUp
    <2>2. KeepsBlock(y, v) /\ KeepsTimers(y, v) /\ Turned(y, v, "D_TX")
      BY ONLY <1>5, <2>1 DEF KeepsBlock, KeepsTimers, KeepsLine, Turned
    <2>3. Receiver(v)
      BY <2>1, <2>2, ReceiverDcn
    <2> QED
      BY <2>1, <2>2, <2>3 DEF Turned
  <1>8. CASE v = Repetition(a)
    <2>1. CASE y.state = "R"
      <3>1. v = send_frame(set_state(queue_phase(a, "B_TX"), "R"), [t |-> "DIS"])
        BY <1>5, <1>8, <2>1 DEF Repetition, send_dis_or_dtc_sequence, send_simple_frame
      <3>2. "R" \in States /\ [t |-> "DIS"] \in LineFrame
        BY SimpleFrames DEF States
      <3>3. /\ v \in EndRecord /\ KeepsBlock(a, v) /\ KeepsTimers(a, v)
            /\ v.state = "R" /\ v.step = 0 /\ v.status = a.status
            /\ Turned(a, v, "B_TX") /\ v.out = <<[t |-> "DIS"]>>
        BY <1>5, <1>6, <3>1, <3>2, Say
      <3>4. KeepsBlock(y, v) /\ KeepsTimers(y, v) /\ Turned(y, v, "B_TX")
        BY ONLY <1>5, <3>3 DEF KeepsBlock, KeepsTimers, KeepsLine, Turned
      <3>5. Receiver(v)
        BY <3>3, <3>4, ReceiverAsksAnew DEF KeepsBlock
      <3> QED
        BY <2>1, <3>3, <3>4, <3>5 DEF Turned
    <2>2. CASE y.state \in {"F_POST_RCP_PPR", "F_POST_RCP_MCF"}
      <3> DEFINE g == IF y.state = "F_POST_RCP_PPR" THEN [t |-> "PPR", map |-> y.map] ELSE [t |-> "MCF"]
      <3>1. v = send_frame(queue_phase(a, "D_TX"), g)
        <4> DEFINE q == queue_phase(a, "D_TX")
        <4>1. q.map = y.map
          <5>1. KeepsBlock(a, q)
            BY <1>5, <1>6, QueuePhase
          <5> QED
            BY <1>5, <5>1 DEF KeepsBlock
        <4> QED
          BY <1>5, <1>8, <2>2, <4>1 DEF Repetition, SendPpr, send_simple_frame
      <3>2. g \in LineFrame
        <4>1. y.map \in SUBSET Slots
          BY <1>1, Fields
        <4> QED
          BY <4>1, SimpleFrames DEF LineFrame
      <3>3. ReceiverSays(v, g)
        <4>1. KeepsBlock(a, v) /\ v.state = a.state
          BY <1>5, <1>6, <3>1, <3>2, SayAgain
        <4>2. v.map = y.map /\ v.state = y.state
          BY <1>5, <4>1 DEF KeepsBlock
        <4> QED
          BY <2>2, <4>2 DEF ReceiverSays
      <3> HIDE DEF g
      <3>4. /\ v \in EndRecord /\ KeepsBlock(a, v) /\ KeepsTimers(a, v)
            /\ v.state = a.state /\ v.step = a.step /\ v.status = a.status
            /\ Turned(a, v, "D_TX") /\ v.out = <<g>>
        BY <1>5, <1>6, <3>1, <3>2, SayAgain
      <3>5. KeepsBlock(y, v) /\ KeepsTimers(y, v) /\ Turned(y, v, "D_TX") /\ v.state = y.state /\ v.status = y.status
        BY ONLY <1>5, <3>4 DEF KeepsBlock, KeepsTimers, KeepsLine, Turned
      <3>6. ReceiverPlace(v)
        BY <1>1, <3>5, ReceiverPlaceKept DEF Receiving
      <3>7. Receiver(v)
        BY <2>2, <3>3, <3>4, <3>5, <3>6, ReceiverTurned DEF Receiving, Answering
      <3> QED
        BY <2>2, <3>5, <3>7 DEF Turned
    <2>3. CASE y.state \notin {"R", "F_POST_RCP_PPR", "F_POST_RCP_MCF"}
      <3>1. y.state \notin {"IV_PPS_NULL", "IV_PPS_Q", "IV_PPS_RNR", "IV_EOR_RNR"}
        BY <1>1 DEF ReceiverLine, Answering, Ended
      <3>2. v = a
        BY <1>5, <1>8, <2>3, <3>1 DEF Repetition
      <3>3. Receiver(v)
        BY <1>5, <3>2, ReceiverWaits
      <3> QED
        BY <1>5, <2>3, <3>2, <3>3
    <2> QED
      BY <2>1, <2>2, <2>3
  <1> QED
    BY <1>3, <1>7, <1>8

LEMMA HearingCrp ==
    ASSUME NEW x, NEW y, NEW f, Hearing(x, y, f), NEW v, v = repeat_last_command(y)
    PROVE  Pair(x, v)
  <1>1. /\ Receiver(y) /\ Free(y) /\ y.state \notin {"B", "CALL_FINISHED"} /\ InStep(x, y) /\ ~Late(x, y)
        /\ y.signal # "none" /\ Turns(x, y) /\ ~Sending(y)
    BY HearingFacts
  <1>2. /\ Receiver(v) /\ KeepsBlock(y, v) /\ KeepsTimers(y, v) /\ v.state \in {y.state, "C"} /\ v.signal = y.signal
        /\ v.state = "F_POST_RCP_MCF" => Turned(y, v, "D_TX")
        /\ v.state \in {"F_DOC_ECM", "F_POST_DOC_ECM"} => KeepsLine(y, v)
    BY <1>1, ReceiverRepeated
  <1>3. InStep(x, v)
    BY <1>1, <1>2, InStepReceiver DEF Receiving, Answering, KeepsLine
  <1>4. v.next_rx = y.next_rx
    BY <1>2 DEF KeepsBlock
  <1>5. v.state = "F_POST_RCP_MCF" /\ v.next_rx = "MPS" /\ ~Sending(v) =>
              v.signal = "slow" /\ v.next_phase = "D_TX" /\ x.state \in Asking
    BY <1>1, <1>2, <1>4 DEF Turns, Turned
  <1> QED
    BY <1>2, <1>3, <1>5, PairHeard

-----------------------------------------------------------------------------
(* The receiver hears image data.                                           *)

LEMMA CarrierWasFound ==
    ASSUME NEW x \in EndRecord, NEW u, u = CarrierFound(x)
    PROVE  /\ u \in EndRecord /\ KeepsBlock(x, u) /\ KeepsLine(x, u) /\ KeepsTimers(x, u)
           /\ u.state = x.state /\ u.step = x.step
  <1>1. "OK" \in Status
    BY DEF Status
  <1>2. CASE x.status = "RX_NOCARRIER"
    BY <1>1, <1>2, SetStatus DEF CarrierFound
  <1>3. CASE x.status # "RX_NOCARRIER"
    BY <1>3 DEF CarrierFound, KeepsBlock, KeepsLine, KeepsTimers
  <1> QED
    BY <1>2, <1>3

\* What a receiver keeps while it fills its buffer.
KeepsPage(y, v) ==
    /\ v.page = y.page /\ v.ecm_block = y.ecm_block /\ v.put = y.put /\ v.eop = y.eop
    /\ v.fallback = y.fallback /\ v.next_rx = y.next_rx

FrameStored(y, l, b) == [y EXCEPT !.ecm_len = l, !.short_train = b]

LEMMA StoredFields ==
    ASSUME NEW y \in EndRecord, NEW l \in [Slots -> Frames], NEW b \in BOOLEAN, NEW v, v = FrameStored(y, l, b)
    PROVE  /\ v \in EndRecord /\ KeepsPage(y, v) /\ KeepsLine(y, v) /\ KeepsTimers(y, v)
           /\ v.state = y.state /\ v.status = y.status /\ v.ecm_len = l /\ v.ecm_frames = y.ecm_frames
  <1>1. v = [y EXCEPT !.ecm_len = l, !.short_train = b]
    BY DEF FrameStored
  <1>2. v \in EndRecord
    BY ONLY <1>1, l \in [Slots -> Frames], b \in BOOLEAN, y \in EndRecord, ZenonT(40) DEF EndRecord
  <1>3. KeepsPage(y, v) /\ KeepsLine(y, v) /\ KeepsTimers(y, v)
    BY ONLY <1>1, y \in EndRecord DEF EndRecord, KeepsPage, KeepsLine, KeepsTimers
  <1>4. v.state = y.state /\ v.status = y.status /\ v.ecm_len = l /\ v.ecm_frames = y.ecm_frames
    BY ONLY <1>1, y \in EndRecord DEF EndRecord
  <1> QED
    BY <1>2, <1>3, <1>4

LEMMA ReceiverPageKept ==
    ASSUME NEW y, ReceiverPlace(y), NEW v, KeepsPage(y, v), Receiving(v) => Receiving(y),
           v.state \in Answering => y.state \in Answering, v.state \notin Ended
    PROVE  ReceiverPlace(v)
  <1>1. Blocks(v) = Blocks(y)
    BY DEF Blocks, KeepsPage
  <1> QED
    BY <1>1 DEF ReceiverPlace, KeepsPage

\* Image data come for the block that both ends are at.
LEMMA ImageIsAtOne ==
    ASSUME NEW x, NEW y, NEW f, Hearing(x, y, f), x.state = "IV"
    PROVE  /\ Receiving(y) => AtOne(x, y) /\ ~Ahead(x, y) /\ ~Done(x, y) /\ Stored(x, y)
           /\ y.state \notin {"F_POST_RCP_MCF", "F_POST_RCP_RNR"} /\ x.page < Len(Doc)
  <1>1. /\ SenderPlace(x) /\ x \in EndRecord /\ InStep(x, y) /\ ~Late(x, y)
    BY HearingFacts
  <1>2. x.state \notin Asking \cup Ended
    BY DEF Asking, Ended
  <1>3. x.page < Len(Doc) /\ x.page # Len(Doc)
    <2>1. x.page < Len(Doc)
      BY <1>1 DEF SenderPlace, Ended
    <2>2. x.page \in 0 .. Len(Doc)
      BY <1>1, Fields
    <2> QED
      BY ONLY <2>1, <2>2
  <1>4. Receiving(y) => AtOne(x, y) /\ ~Ahead(x, y) /\ ~Done(x, y) /\ Stored(x, y)
    BY <1>1, <1>2, <1>3 DEF InStep, Done
  <1>5. y.state # "F_POST_RCP_MCF"
    BY <1>1, <1>4 DEF Late, Receiving
  <1>6. y.state # "F_POST_RCP_RNR"
    BY <1>1, <1>2 DEF InStep
  <1> QED
    BY <1>3, <1>4, <1>5, <1>6

LEMMA HearingFcd ==
    ASSUME NEW x, NEW y, NEW f, Hearing(x, y, f), f.t = "FCD", NEW v, v = process_rx_fcd(y, f)
    PROVE  Pair(x, v)
  <1>1. /\ Receiver(y) /\ y \in EndRecord /\ ReceiverPlace(y) /\ ReceiverLine(y) /\ Line(y) /\ InStep(x, y)
        /\ Turns(x, y) /\ x \in EndRecord /\ Sender(x) /\ y.state \notin {"B", "CALL_FINISHED"}
    BY HearingFacts
  <1>2. /\ x.state = "IV" /\ f.no \in Slots /\ f.no < x.ecm_frames
        /\ f.data = <<x.page, x.ecm_block, f.no>>
    BY DEF Hearing, SenderSays
  <1>3. CASE y.state # "F_DOC_ECM"
    <2>1. v = unexpected(y)
      BY <1>3 DEF process_rx_fcd
    <2>2. /\ v \in EndRecord /\ KeepsBlock(y, v) /\ KeepsLine(y, v) /\ KeepsTimers(y, v)
          /\ v.state = y.state /\ v.step = y.step /\ v.status # "OK"
      BY <1>1, <2>1, Unexpected
    <2> QED
      BY <1>1, <2>2, PairReceiverWaits DEF Hearing
  <1>4. CASE y.state = "F_DOC_ECM"
    <2> DEFINE n == f.no
               d == f.data
               l == [y.ecm_len EXCEPT ![n] = d]
               b == TRUE
               w == FrameStored(y, l, b)
    <2>1. v = CarrierFound(w)
      BY <1>4 DEF process_rx_fcd, FrameStored
    <2>2. l \in [Slots -> Frames] /\ \A i \in Slots : l[i] = IF i = n THEN d ELSE y.ecm_len[i]
      <3>1. d \in Frames
        <4>1. f \in [t : {"FCD"}, no : Slots, data : Frames]
          BY DEF Hearing, LineFrame, SimpleFrame
        <4> QED
          BY <4>1
      <3>2. y.ecm_len \in [Slots -> Frames]
        BY <1>1, Fields
      <3> HIDE DEF d, n
      <3> QED
        BY <3>1, <3>2
    <2>20. b \in BOOLEAN
      OBVIOUS
    <2> HIDE DEF l, b
    <2>3. /\ w \in EndRecord /\ KeepsPage(y, w) /\ KeepsLine(y, w) /\ KeepsTimers(y, w)
          /\ w.state = y.state /\ w.status = y.status /\ w.ecm_len = l /\ w.ecm_frames = y.ecm_frames
      BY <1>1, <2>2, <2>20, StoredFields
    <2> HIDE DEF w
    <2>4. /\ v \in EndRecord /\ KeepsBlock(w, v) /\ KeepsLine(w, v) /\ KeepsTimers(w, v)
          /\ v.state = w.state /\ v.step = w.step
      BY <2>1, <2>3, CarrierWasFound
    <2>5. /\ KeepsPage(y, v) /\ KeepsLine(y, v) /\ KeepsTimers(y, v) /\ v.ecm_len = l /\ v.ecm_frames = y.ecm_frames
          /\ v.state = "F_DOC_ECM"
      BY ONLY <1>4, <2>3, <2>4 DEF KeepsPage, KeepsBlock, KeepsLine, KeepsTimers
    <2>6. Receiving(v) /\ Receiving(y)
      BY <1>4, <2>5 DEF Receiving
    <2>7. Receiver(v)
      <3>1. Line(v)
        BY <1>1, <1>4, <2>4, <2>5, LineKept
      <3>2. ReceiverLine(v)
        <4>1. v.out # <<>> => ReceiverSays(v, Head(v.out))
          BY <1>1, <1>4, <2>5 DEF ReceiverLine, ReceiverSays, KeepsLine
        <4> QED
          BY <1>1, <2>5, <2>6, <4>1 DEF ReceiverLine, KeepsLine
      <3>3. ReceiverPlace(v)
        BY <1>1, <2>5, <2>6, ReceiverPageKept DEF Answering, Ended
      <3> QED
        BY <2>4, <3>1, <3>2, <3>3 DEF Receiver
    <2>8. AtOne(x, y) /\ ~Ahead(x, y) /\ ~Done(x, y) /\ Stored(x, y) /\ x.page < Len(Doc) /\ x.page # Len(Doc)
      <3>1. x.page \in 0 .. Len(Doc)
        BY <1>1, Fields
      <3>2. AtOne(x, y) /\ ~Ahead(x, y) /\ ~Done(x, y) /\ Stored(x, y) /\ x.page < Len(Doc)
        BY <1>2, <2>6, ImageIsAtOne
      <3>3. x.page # Len(Doc)
        BY ONLY <3>1, <3>2
      <3> QED
        BY <3>2, <3>3
    <2>9. AtOne(x, v) /\ ~Ahead(x, v) /\ ~Done(x, v)
      BY <2>5, <2>8 DEF AtOne, Ahead, Done, Place, KeepsPage
    <2>10. Stored(x, v)
      <3>1. \A i \in Slots : v.ecm_len[i] = IF i = n THEN d ELSE y.ecm_len[i]
        BY <2>2, <2>5
      <3>2. d = <<x.page, x.ecm_block, n>> /\ n < x.ecm_frames /\ d # None
        BY <1>2 DEF None
      <3>3. v.ecm_frames = y.ecm_frames
        BY <2>5
      <3> HIDE DEF n, d
      <3> QED
        BY <2>8, <3>1, <3>2, <3>3 DEF Stored
    <2>11. InStep(x, v)
      <3>1. v.fallback = y.fallback /\ v.next_rx = y.next_rx /\ v.page = y.page /\ v.out = y.out
        BY <2>5 DEF KeepsPage, KeepsLine
      <3> QED
        BY <1>1, <1>4, <2>5, <2>8, <2>9, <2>10, <3>1 DEF InStep, Late
    <2>12. Turns(x, v)
      BY <1>1, <1>4, <2>5, TurnsKept DEF KeepsPage, KeepsLine
    <2> QED
      BY <1>1, <2>7, <2>11, <2>12 DEF Pair
  <1> QED
    BY <1>3, <1>4

\* The block ends, with an RCP.
LEMMA BlockEnded ==
    ASSUME NEW y, Receiver(y), y.state = "F_DOC_ECM", Free(y), y.signal # "none", NEW v, v = EndOfBlock(y)
    PROVE  /\ Receiver(v) /\ KeepsBlock(y, v) /\ v.state = "F_POST_DOC_ECM" /\ Turned(y, v, "D_RX") /\ v.out = <<>>
  <1> DEFINE s == "F_POST_DOC_ECM"
             a == set_state(y, s)
             b == queue_phase(a, "D_RX")
             c == start_timer(b, "T2")
  <1>1. y \in EndRecord /\ Line(y) /\ ReceiverLine(y) /\ ReceiverPlace(y)
    BY DEF Receiver
  <1>2. v = CarrierFound(c)
    BY DEF EndOfBlock
  <1>3. s \in States /\ "D_RX" \in Phases \cap Queable
    BY DEF States, Phases, Queable
  <1>4. /\ a \in EndRecord /\ KeepsBlock(y, a) /\ KeepsLine(y, a) /\ KeepsTimers(y, a) /\ a.state = s
    BY <1>1, <1>3, SetState
  <1> HIDE DEF a
  <1>5. Free(a)
    BY <1>4 DEF Free, KeepsLine
  <1>6. /\ b \in EndRecord /\ KeepsBlock(a, b) /\ KeepsTimers(a, b) /\ b.state = a.state
        /\ Turned(a, b, "D_RX") /\ b.out = <<>>
    BY <1>3, <1>4, <1>5, QueuePhase
  <1> HIDE DEF b
  <1>7. c \in EndRecord /\ KeepsBlock(b, c) /\ KeepsLine(b, c) /\ c.state = b.state
    BY <1>6, StartTimer
  <1> HIDE DEF c
  <1>8. v \in EndRecord /\ KeepsBlock(c, v) /\ KeepsLine(c, v) /\ v.state = c.state
    BY <1>2, <1>7, CarrierWasFound
  <1>9. KeepsBlock(y, v) /\ v.state = s /\ Turned(y, v, "D_RX") /\ v.out = <<>>
    BY ONLY <1>4, <1>6, <1>7, <1>8 DEF KeepsBlock, KeepsLine, Turned
  <1>10. Line(v)
    BY <1>1, <1>3, <1>8, <1>9, LineTurned
  <1>11. ReceiverLine(v)
    BY <1>1, <1>9 DEF ReceiverLine, Turned, Receiving
  <1>12. ReceiverPlace(v)
    BY <1>1, <1>9, ReceiverPlaceKept DEF Receiving, Answering, Ended
  <1> QED
    BY <1>8, <1>9, <1>10, <1>11, <1>12 DEF Receiver

LEMMA HearingRcp ==
    ASSUME NEW x, NEW y, NEW f, Hearing(x, y, f), NEW v, v = process_rx_rcp(y), f.t = "RCP"
    PROVE  Pair(x, v)
  <1>1. /\ Receiver(y) /\ y \in EndRecord /\ InStep(x, y) /\ ~Late(x, y) /\ Free(y) /\ y.signal # "none"
        /\ y.state \notin {"B", "CALL_FINISHED"}
    BY HearingFacts
  <1>2. CASE y.state = "F_DOC_ECM"
    <2>1. v = EndOfBlock(y)
      BY <1>2 DEF process_rx_rcp
    <2>2. /\ Receiver(v) /\ KeepsBlock(y, v) /\ v.state = "F_POST_DOC_ECM" /\ v.out = <<>>
      BY <1>1, <1>2, <2>1, BlockEnded
    <2>3. InStep(x, v)
      BY <1>1, <1>2, <2>2, InStepReceiver DEF Receiving, Answering
    <2> QED
      BY <2>2, <2>3, PairHeard
  <1>3. CASE y.state = "F_POST_DOC_ECM"
    <2>1. v = start_timer(y, "T2")
      BY <1>3 DEF process_rx_rcp
    <2>2. /\ v \in EndRecord /\ KeepsBlock(y, v) /\ KeepsLine(y, v) /\ v.state = y.state /\ v.status = y.status
      BY <1>1, <2>1, StartTimer
    <2> QED
      BY <1>1, <2>2, PairReceiverWaits DEF Hearing
  <1>4. CASE y.state \notin {"F_DOC_ECM", "F_POST_DOC_ECM"}
    <2>1. v = unexpected(y)
      BY <1>4 DEF process_rx_rcp
    <2>2. /\ v \in EndRecord /\ KeepsBlock(y, v) /\ KeepsLine(y, v) /\ KeepsTimers(y, v)
          /\ v.state = y.state /\ v.step = y.step /\ v.status # "OK"
      BY <1>1, <2>1, Unexpected
    <2> QED
      BY <1>1, <2>2, PairReceiverWaits DEF Hearing
  <1> QED
    BY <1>2, <1>3, <1>4

-----------------------------------------------------------------------------
(* The receiver hears that the sender ends its attempts, or slows down.     *)

LEMMA ImageGoesOn ==
    ASSUME NEW x, NEW y, NEW f, Hearing(x, y, f), y.state \in {"F_DOC_ECM", "F_POST_DOC_ECM"},
           x.state \notin Asking \cup {"IV"}, NEW v \in EndRecord,
           v.page = y.page, v.ecm_block = y.ecm_block, v.put = y.put, v.eop = y.eop,
           v.ecm_len = y.ecm_len, v.ecm_frames = y.ecm_frames,
           v.next_rx = y.next_rx \/ x.state \in Ending, v.state = "F_DOC_ECM", Turned(y, v, "D_TX"),
           NEW g, v.out = <<g>>, g.t \in {"CTR", "ERR"}, g = [t |-> "CTR"] => v.fallback = x.fallback
    PROVE  Pair(x, v)
  <1>1. /\ Receiver(y) /\ y \in EndRecord /\ ReceiverPlace(y) /\ InStep(x, y)
        /\ y.state \notin {"B", "CALL_FINISHED"} /\ Receiving(y) /\ Receiving(v)
    BY HearingFacts DEF Receiving
  <1>2. ReceiverPlace(v)
    <2>1. Blocks(v) = Blocks(y)
      BY DEF Blocks
    <2> QED
      BY <1>1, <2>1 DEF ReceiverPlace, Answering, Ended
  <1>3. Receiver(v)
    BY <1>1, <1>2, ReceiverTurned DEF ReceiverSays
  <1>4. /\ AtOne(x, v) <=> AtOne(x, y)
        /\ Ahead(x, v) <=> Ahead(x, y)
        /\ Done(x, v) <=> Done(x, y)
        /\ Stored(x, y) => Stored(x, v)
    BY DEF AtOne, Ahead, Done, Stored, Place
  <1>5. InStep(x, v)
    BY <1>1, <1>4 DEF InStep, Late
  <1> QED
    BY <1>3, <1>5, PairHeard

NextRx(y, k)   == [y EXCEPT !.next_rx = k]
Fallback(y, n) == [y EXCEPT !.fallback = n, !.short_train = FALSE]

LEMMA NextRxFields ==
    ASSUME NEW y \in EndRecord, NEW k \in Steps, NEW v, v = NextRx(y, k)
    PROVE  /\ v \in EndRecord /\ KeepsLine(y, v)
           /\ v.page = y.page /\ v.ecm_block = y.ecm_block /\ v.put = y.put /\ v.eop = y.eop
           /\ v.ecm_len = y.ecm_len /\ v.ecm_frames = y.ecm_frames
  <1>1. v = [y EXCEPT !.next_rx = k]
    BY DEF NextRx
  <1>2. v \in EndRecord
    BY ONLY <1>1, k \in Steps, y \in EndRecord, ZenonT(40) DEF EndRecord
  <1>3. KeepsLine(y, v)
    BY ONLY <1>1, y \in EndRecord DEF EndRecord, KeepsLine
  <1>4. /\ v.page = y.page /\ v.ecm_block = y.ecm_block /\ v.put = y.put /\ v.eop = y.eop
        /\ v.ecm_len = y.ecm_len /\ v.ecm_frames = y.ecm_frames
    BY ONLY <1>1, y \in EndRecord DEF EndRecord
  <1> QED
    BY ONLY <1>2, <1>3, <1>4

LEMMA FallbackFields ==
    ASSUME NEW y \in EndRecord, NEW n \in 0 .. Fallbacks, NEW v, v = Fallback(y, n)
    PROVE  /\ v \in EndRecord /\ KeepsLine(y, v)
           /\ v.page = y.page /\ v.ecm_block = y.ecm_block /\ v.put = y.put /\ v.eop = y.eop
           /\ v.ecm_len = y.ecm_len /\ v.ecm_frames = y.ecm_frames /\ v.next_rx = y.next_rx /\ v.fallback = n
  <1>1. v = [y EXCEPT !.fallback = n, !.short_train = FALSE]
    BY DEF Fallback
  <1>2. v \in EndRecord
    BY ONLY <1>1, n \in 0 .. Fallbacks, y \in EndRecord, ZenonT(40) DEF EndRecord
  <1>3. KeepsLine(y, v) /\ v.fallback = n
    BY ONLY <1>1, y \in EndRecord DEF EndRecord, KeepsLine
  <1>4. /\ v.page = y.page /\ v.ecm_block = y.ecm_block /\ v.put = y.put /\ v.eop = y.eop
        /\ v.ecm_len = y.ecm_len /\ v.ecm_frames = y.ecm_frames /\ v.next_rx = y.next_rx
    BY ONLY <1>1, y \in EndRecord DEF EndRecord
  <1> QED
    BY <1>2, <1>3, <1>4

LEMMA HearingEor ==
    ASSUME NEW x, NEW y, NEW f, Hearing(x, y, f), f.t = "EOR", y.state \in {"F_DOC_ECM", "F_POST_DOC_ECM"},
           NEW v, v = process_rx_eor(y, f)
    PROVE  Pair(x, v)
  <1> DEFINE k == f.fcf2
             a == NextRx(y, k)
             s == "F_DOC_ECM"
             g == [t |-> "ERR"]
  <1>1. y \in EndRecord /\ Free(y)
    BY HearingFacts
  <1>2. x.state = "IV_EOR" /\ k \in Steps
    <2>1. f \in [t : {"EOR"}, fcf2 : Steps]
      BY DEF Hearing, LineFrame, SimpleFrame
    <2> QED
      BY <2>1 DEF Hearing, SenderSays
  <1>3. v = send_frame(set_state(queue_phase(a, "D_TX"), s), g)
    BY DEF process_rx_eor, send_simple_frame, NextRx
  <1>4. s \in States /\ "D_TX" \in Phases \cap Queable /\ g \in LineFrame /\ g.t = "ERR"
    BY SimpleFrames DEF States, Phases, Queable
  <1> HIDE DEF k
  <1>5. /\ a \in EndRecord /\ KeepsLine(y, a)
        /\ a.page = y.page /\ a.ecm_block = y.ecm_block /\ a.put = y.put /\ a.eop = y.eop
        /\ a.ecm_len = y.ecm_len /\ a.ecm_frames = y.ecm_frames
    BY <1>1, <1>2, NextRxFields
  <1> HIDE DEF a, g
  <1>6. Free(a)
    BY <1>1, <1>5 DEF Free, KeepsLine
  <1>7. /\ v \in EndRecord /\ KeepsBlock(a, v) /\ v.state = s /\ Turned(a, v, "D_TX") /\ v.out = <<g>>
    BY <1>3, <1>4, <1>5, <1>6, Say
  <1>8. /\ v.page = y.page /\ v.ecm_block = y.ecm_block /\ v.put = y.put /\ v.eop = y.eop
        /\ v.ecm_len = y.ecm_len /\ v.ecm_frames = y.ecm_frames /\ Turned(y, v, "D_TX")
    BY ONLY <1>5, <1>7 DEF KeepsBlock, KeepsLine, Turned
  <1>9. x.state \notin Asking \cup {"IV"} /\ x.state \in Ending
    BY <1>2 DEF Asking, Ending
  <1>10. g # [t |-> "CTR"]
    BY DEF g
  <1> QED
    BY <1>4, <1>7, <1>8, <1>9, <1>10, ImageGoesOn

LEMMA HearingCtc ==
    ASSUME NEW x, NEW y, NEW f, Hearing(x, y, f), f.t = "CTC", y.state \in {"F_DOC_ECM", "F_POST_DOC_ECM"},
           NEW v, v = process_rx_ctc(y, f)
    PROVE  Pair(x, v)
  <1> DEFINE n == f.fallback
             a == Fallback(y, n)
             s == "F_DOC_ECM"
             g == [t |-> "CTR"]
  <1>1. y \in EndRecord /\ Free(y)
    BY HearingFacts
  <1>2. x.state = "IV_CTC" /\ n \in 0 .. Fallbacks /\ n = x.fallback
    <2>1. f \in [t : {"CTC"}, fallback : 0 .. Fallbacks]
      BY DEF Hearing, LineFrame, SimpleFrame
    <2> QED
      BY <2>1 DEF Hearing, SenderSays
  <1>3. v = send_frame(set_state(queue_phase(a, "D_TX"), s), g)
    BY DEF process_rx_ctc, send_simple_frame, Fallback
  <1>4. s \in States /\ "D_TX" \in Phases \cap Queable /\ g \in LineFrame /\ g.t = "CTR"
    BY SimpleFrames DEF States, Phases, Queable
  <1> HIDE DEF n
  <1>5. /\ a \in EndRecord /\ KeepsLine(y, a)
        /\ a.page = y.page /\ a.ecm_block = y.ecm_block /\ a.put = y.put /\ a.eop = y.eop
        /\ a.ecm_len = y.ecm_len /\ a.ecm_frames = y.ecm_frames /\ a.next_rx = y.next_rx /\ a.fallback = n
    BY <1>1, <1>2, FallbackFields
  <1> HIDE DEF a, g
  <1>6. Free(a)
    BY <1>1, <1>5 DEF Free, KeepsLine
  <1>7. /\ v \in EndRecord /\ KeepsBlock(a, v) /\ v.state = s /\ Turned(a, v, "D_TX") /\ v.out = <<g>>
    BY <1>3, <1>4, <1>5, <1>6, Say
  <1>8. /\ v.page = y.page /\ v.ecm_block = y.ecm_block /\ v.put = y.put /\ v.eop = y.eop
        /\ v.ecm_len = y.ecm_len /\ v.ecm_frames = y.ecm_frames /\ v.next_rx = y.next_rx /\ v.fallback = n
        /\ Turned(y, v, "D_TX")
    BY ONLY <1>5, <1>7 DEF KeepsBlock, KeepsLine, Turned
  <1>9. x.state \notin Asking \cup {"IV"} /\ v.fallback = x.fallback
    BY <1>2, <1>8 DEF Asking
  <1> QED
    BY <1>4, <1>7, <1>8, <1>9, ImageGoesOn

-----------------------------------------------------------------------------
(* The receiver answers a PPS.                                              *)

\* A receiver about to answer, the sender having asked.
Answerable(x, y) ==
    /\ x.state \in Asking /\ x \in EndRecord /\ SenderPlace(x)
    /\ Receiver(y) /\ Receiving(y) /\ y.signal # "none" /\ y.next_rx \in Steps
    /\ y.page < Len(Doc) => y.next_rx = "MPS"
    /\ x.page < Len(Doc) /\ y.fallback = x.fallback
    /\ IF y.block_ok
       THEN /\ Ahead(x, y) /\ ~AtOne(x, y) /\ y.ecm_len = Empty /\ y.ecm_frames = -1
            /\ y.last_pps = "EOP" => y.page = Len(Doc)
       ELSE AtOne(x, y) /\ ~Ahead(x, y) /\ Stored(x, y) /\ y.ecm_frames >= 0 /\ Missing(y) \subseteq y.map

Eop(y, b) == [y EXCEPT !.eop = b]

LEMMA EopFields ==
    ASSUME NEW y \in EndRecord, NEW b \in BOOLEAN, NEW v, v = Eop(y, b)
    PROVE  /\ v \in EndRecord /\ KeepsLine(y, v) /\ v.eop = b
           /\ v.map = y.map /\ v.block_ok = y.block_ok /\ v.last_pps = y.last_pps /\ v.state = y.state
           /\ v.page = y.page /\ v.ecm_block = y.ecm_block /\ v.put = y.put /\ v.next_rx = y.next_rx
           /\ v.fallback = y.fallback /\ v.ecm_len = y.ecm_len /\ v.ecm_frames = y.ecm_frames
  <1>1. v = [y EXCEPT !.eop = b]
    BY DEF Eop
  <1>2. v \in EndRecord
    BY ONLY <1>1, b \in BOOLEAN, y \in EndRecord, ZenonT(40) DEF EndRecord
  <1>3. KeepsLine(y, v) /\ v.eop = b
    BY ONLY <1>1, y \in EndRecord DEF EndRecord, KeepsLine
  <1>4. /\ v.map = y.map /\ v.block_ok = y.block_ok /\ v.last_pps = y.last_pps /\ v.state = y.state
        /\ v.page = y.page /\ v.ecm_block = y.ecm_block /\ v.put = y.put /\ v.next_rx = y.next_rx
        /\ v.fallback = y.fallback /\ v.ecm_len = y.ecm_len /\ v.ecm_frames = y.ecm_frames
    BY ONLY <1>1, y \in EndRecord DEF EndRecord
  <1> QED
    BY <1>2, <1>3, <1>4

\* The answer keeps the place.
LEMMA AnswerGiven ==
    ASSUME NEW x, NEW y, Answerable(x, y), NEW v \in EndRecord,
           v.page = y.page, v.ecm_block = y.ecm_block, v.put = y.put, v.next_rx = y.next_rx,
           v.fallback = y.fallback, v.ecm_len = y.ecm_len, v.ecm_frames = y.ecm_frames, v.map = y.map,
           v.block_ok = y.block_ok, v.last_pps = y.last_pps, v.eop => y.eop \/ y.page = Len(Doc),
           v.state \in Answering, Turned(y, v, "D_TX"), NEW g, v.out = <<g>>, ReceiverSays(v, g),
           v.state = "F_POST_RCP_MCF" => y.block_ok, v.state = "F_POST_RCP_PPR" => ~y.block_ok
    PROVE  Receiver(v) /\ InStep(x, v)
  <1>1. /\ Receiver(y) /\ Line(y) /\ y \in EndRecord /\ ReceiverPlace(y) /\ Receiving(y) /\ Receiving(v)
        /\ y.state \notin {"B", "CALL_FINISHED"}
    BY LineIsFree DEF Answerable, Receiver, Receiving, Answering
  <1>2. ReceiverPlace(v)
    <2>1. Blocks(v) = Blocks(y)
      BY DEF Blocks
    <2> QED
      BY <1>1, <2>1 DEF ReceiverPlace, Answering, Ended, Answerable
  <1>3. Receiver(v)
    BY <1>1, <1>2, ReceiverTurned
  <1>4. /\ AtOne(x, v) <=> AtOne(x, y)
        /\ Ahead(x, v) <=> Ahead(x, y)
        /\ Stored(x, y) => Stored(x, v)
        /\ Missing(v) = Missing(y)
    BY DEF AtOne, Ahead, Stored, Place, Missing
  <1>5. x.page # Len(Doc)
    <2>1. x.page \in 0 .. Len(Doc) /\ x.page < Len(Doc)
      BY Fields DEF Answerable
    <2> QED
      BY ONLY <2>1
  <1>6. v.block_ok \in BOOLEAN
    BY Fields
  <1>7. v.block_ok => /\ Ahead(x, v) /\ ~AtOne(x, v) /\ v.ecm_len = Empty /\ v.ecm_frames = -1
                      /\ v.last_pps = "EOP" => v.page = Len(Doc)
    BY <1>4 DEF Answerable
  <1>8. ~v.block_ok => /\ AtOne(x, v) /\ ~Ahead(x, v) /\ Stored(x, v) /\ v.ecm_frames >= 0 /\ Missing(v) \subseteq v.map
    BY <1>4 DEF Answerable
  <1>9. x.state \in Asking /\ v.fallback = x.fallback /\ (v.page < Len(Doc) => v.next_rx = "MPS")
    BY DEF Answerable
  <1>10. v.state # "F_DOC_ECM"
    BY DEF Answering
  <1>11. (v.state = "F_POST_RCP_MCF" => v.block_ok) /\ (v.state = "F_POST_RCP_PPR" => ~v.block_ok)
    OBVIOUS
  <1>12. InStep(x, v)
    BY ONLY <1>5, <1>6, <1>7, <1>8, <1>9, <1>10, <1>11 DEF InStep, Late
  <1> QED
    BY <1>3, <1>12

LEMMA AnswerIsGiven ==
    ASSUME NEW x, NEW y, Answerable(x, y), NEW v, v = Answer(y)
    PROVE  Receiver(v) /\ InStep(x, v) /\ Turned(y, v, "D_TX") /\ v.state \in Answering
  <1>1. y \in EndRecord /\ Line(y) /\ ReceiverPlace(y) /\ y.signal # "none" /\ Free(y)
    BY LineIsFree DEF Answerable, Receiver
  <1>2. y.not_ready \in 0 .. NotReady /\ y.block_ok \in BOOLEAN /\ y.eop \in BOOLEAN /\ NotReady \in Nat
    BY <1>1, Fields, Constants
  <1>3. "D_TX" \in Phases \cap Queable
    BY DEF Phases, Queable
  <1>4. CASE y.not_ready > 0
    <2> DEFINE n == y.not_ready - 1
               a == [y EXCEPT !.not_ready = n]
               s == "F_POST_RCP_RNR"
               g == [t |-> "RNR"]
    <2>1. v = send_frame(set_state(queue_phase(a, "D_TX"), s), g)
      BY <1>4 DEF Answer, send_rnr, send_simple_frame
    <2>2. n \in 0 .. NotReady
      BY ONLY <1>2, <1>4
    <2>3. s \in States /\ g \in LineFrame /\ g.t = "RNR" /\ s \in Answering
      BY SimpleFrames DEF States, Answering
    <2> HIDE DEF n, g
    <2>4. Alike(y, a)
      BY <1>1, <2>2, SetNotReadyCount
    <2> HIDE DEF a
    <2>5. a \in EndRecord /\ Free(a)
      BY <1>1, <2>4 DEF Alike, Free, KeepsLine
    <2>6. /\ v \in EndRecord /\ KeepsBlock(a, v) /\ v.state = s /\ Turned(a, v, "D_TX") /\ v.out = <<g>>
      BY <1>3, <2>1, <2>3, <2>5, Say
    <2>7. KeepsBlock(y, v) /\ Turned(y, v, "D_TX")
      BY ONLY <2>4, <2>6 DEF Alike, KeepsBlock, KeepsLine, Turned
    <2>8. ReceiverSays(v, g)
      BY <2>3, <2>6 DEF ReceiverSays
    <2>9. Receiver(v) /\ InStep(x, v)
      BY <2>3, <2>6, <2>7, <2>8, AnswerGiven DEF KeepsBlock
    <2> QED
      BY <2>3, <2>6, <2>7, <2>9
  <1>5. CASE ~(y.not_ready > 0) /\ y.block_ok
    <2> DEFINE b == (y.eop \/ y.last_pps = "EOP")
               a == Eop(y, b)
               s == "F_POST_RCP_MCF"
               g == [t |-> "MCF"]
    <2>1. v = send_frame(set_state(queue_phase(a, "D_TX"), s), g)
      BY <1>5 DEF Answer, send_response_to_pps, send_mcf, send_simple_frame, Eop
    <2>2. b \in BOOLEAN /\ (b => y.eop \/ y.last_pps = "EOP")
      BY <1>2
    <2>3. s \in States /\ g \in LineFrame /\ g.t = "MCF" /\ s \in Answering
      BY SimpleFrames DEF States, Answering
    <2>4. b => y.eop \/ y.page = Len(Doc)
      BY <1>5, <2>2 DEF Answerable
    <2> HIDE DEF b, g
    <2>5. /\ a \in EndRecord /\ KeepsLine(y, a) /\ a.eop = b
          /\ a.map = y.map /\ a.block_ok = y.block_ok /\ a.last_pps = y.last_pps /\ a.state = y.state
          /\ a.page = y.page /\ a.ecm_block = y.ecm_block /\ a.put = y.put /\ a.next_rx = y.next_rx
          /\ a.fallback = y.fallback /\ a.ecm_len = y.ecm_len /\ a.ecm_frames = y.ecm_frames
      BY <1>1, <2>2, EopFields
    <2> HIDE DEF a
    <2>6. Free(a)
      BY <1>1, <2>5 DEF Free, KeepsLine
    <2>7. /\ v \in EndRecord /\ KeepsBlock(a, v) /\ v.state = s /\ Turned(a, v, "D_TX") /\ v.out = <<g>>
      BY <1>3, <2>1, <2>3, <2>5, <2>6, Say
    <2>8. /\ v.page = y.page /\ v.ecm_block = y.ecm_block /\ v.put = y.put /\ v.next_rx = y.next_rx
          /\ v.fallback = y.fallback /\ v.ecm_len = y.ecm_len /\ v.ecm_frames = y.ecm_frames /\ v.map = y.map
          /\ v.block_ok = y.block_ok /\ v.last_pps = y.last_pps /\ v.eop = b /\ Turned(y, v, "D_TX")
      BY ONLY <2>5, <2>7 DEF KeepsBlock, KeepsLine, Turned
    <2>9. ReceiverSays(v, g)
      BY <2>3, <2>7 DEF ReceiverSays
    <2>10. v.eop => y.eop \/ y.page = Len(Doc)
      BY <2>4, <2>8
    <2>11. Receiver(v) /\ InStep(x, v)
      BY <1>5, <2>3, <2>7, <2>8, <2>9, <2>10, AnswerGiven
    <2> QED
      BY <2>3, <2>7, <2>8, <2>11
  <1>6. CASE ~(y.not_ready > 0) /\ ~y.block_ok
    <2> DEFINE s == "F_POST_RCP_PPR"
               q == set_state(queue_phase(y, "D_TX"), s)
               g == [t |-> "PPR", map |-> y.map]
    <2>1. s \in States /\ s \in Answering
      BY DEF States, Answering
    <2>2. q.map = y.map
      <3> DEFINE p == queue_phase(y, "D_TX")
      <3>1. p \in EndRecord /\ KeepsBlock(y, p)
        BY <1>1, <1>3, QueuePhase
      <3> HIDE DEF p
      <3>2. KeepsBlock(p, set_state(p, s))
        BY <2>1, <3>1, SetState
      <3> QED
        BY <3>1, <3>2 DEF KeepsBlock, p
    <2>3. v = send_frame(set_state(queue_phase(y, "D_TX"), s), g)
      BY <1>6, <2>2 DEF Answer, send_response_to_pps, SendPpr
    <2>4. g \in LineFrame
      <3>1. y.map \in SUBSET Slots
        BY <1>1, Fields
      <3> QED
        BY <3>1 DEF LineFrame
    <2>5. /\ v \in EndRecord /\ KeepsBlock(y, v) /\ v.state = s /\ Turned(y, v, "D_TX") /\ v.out = <<g>>
      BY <1>1, <1>3, <2>1, <2>3, <2>4, Say
    <2>6. ReceiverSays(v, g)
      BY <2>5 DEF ReceiverSays, KeepsBlock
    <2> HIDE DEF g
    <2>7. Receiver(v) /\ InStep(x, v)
      BY <1>6, <2>1, <2>5, <2>6, AnswerGiven DEF KeepsBlock
    <2> QED
      BY <2>1, <2>5, <2>7
  <1> QED
    BY <1>2, <1>4, <1>5, <1>6

LEMMA PairAnswered ==
    ASSUME NEW x, NEW y, NEW f, Hearing(x, y, f), NEW w, Answerable(x, w), w.signal = y.signal, x.state # "IV",
           NEW v, v = Answer(w)
    PROVE  Pair(x, v)
  <1>1. Receiver(v) /\ InStep(x, v) /\ Turned(w, v, "D_TX") /\ v.state \in Answering
    BY AnswerIsGiven
  <1>2. w.signal = "slow" /\ x.state \in Asking
    BY DEF Hearing, Answerable
  <1>3. v.signal = "slow" /\ v.next_phase = "D_TX"
    BY <1>1, <1>2 DEF Turned
  <1> QED
    BY <1>1, <1>2, <1>3, PairHeard

LEMMA HearingRr ==
    ASSUME NEW x, NEW y, NEW f, Hearing(x, y, f), f.t = "RR", y.state = "F_POST_RCP_RNR", NEW v, v = Answer(y)
    PROVE  Pair(x, v)
  <1>1. /\ x \in EndRecord /\ SenderPlace(x) /\ InStep(x, y) /\ Receiver(y) /\ y \in EndRecord /\ ReceiverPlace(y)
        /\ y.signal # "none"
    BY HearingFacts
  <1>2. x.state = "IV_PPS_RNR"
    <2>1. x.state \in {"IV_PPS_RNR", "IV_EOR_RNR"}
      BY DEF Hearing, SenderSays
    <2> QED
      BY <1>1, <2>1 DEF InStep, Asking, Ended
  <1>3. x.state \in Asking /\ x.state # "IV" /\ x.page < Len(Doc)
    BY <1>1, <1>2 DEF Asking, SenderPlace, Ended
  <1>4. Receiving(y) /\ y.next_rx \in Steps /\ y.block_ok \in BOOLEAN
    BY <1>1, Fields DEF Receiving
  <1>5. y.page < Len(Doc) => y.next_rx = "MPS"
    BY <1>1 DEF ReceiverPlace, Answering
  <1>6. y.fallback = x.fallback
    BY <1>1, <1>3 DEF InStep
  <1>7. CASE y.block_ok
    <2>1. Ahead(x, y) /\ (y.last_pps = "EOP" => y.page = Len(Doc))
      BY <1>1, <1>7 DEF InStep
    <2>2. ~AtOne(x, y)
      BY <1>1, <2>1, OnlyOnePlace
    <2>3. y.ecm_len = Empty /\ y.ecm_frames = -1
      BY <1>1, <1>4, <2>1 DEF InStep
    <2>4. Answerable(x, y)
      BY <1>1, <1>3, <1>4, <1>5, <1>6, <1>7, <2>1, <2>2, <2>3 DEF Answerable
    <2> QED
      BY <1>3, <2>4, PairAnswered
  <1>8. CASE ~y.block_ok
    <2>1. AtOne(x, y) /\ y.ecm_frames >= 0 /\ Missing(y) \subseteq y.map
      BY <1>1, <1>8 DEF InStep
    <2>2. ~Ahead(x, y)
      BY <1>1, <2>1, OnlyOnePlace
    <2>3. Stored(x, y)
      BY <1>1, <1>4, <2>1 DEF InStep
    <2>4. Answerable(x, y)
      BY <1>1, <1>3, <1>4, <1>5, <1>6, <1>8, <2>1, <2>2, <2>3 DEF Answerable
    <2> QED
      BY <1>3, <2>4, PairAnswered
  <1> QED
    BY <1>4, <1>7, <1>8

-----------------------------------------------------------------------------
(* The receiver hears a PPS.                                                *)

Noted(y, k, n)    == [y EXCEPT !.last_pps = k, !.ecm_frames = n]
Judged(y, m, b)   == [y EXCEPT !.map = m, !.block_ok = b]
Handed(y, p, b)   == [y EXCEPT !.put = p, !.ecm_block = b]
NewPage(y, k, n)  == [y EXCEPT !.next_rx = k, !.page = n, !.ecm_block = 0]

LEMMA NotedFields ==
    ASSUME NEW y \in EndRecord, NEW k \in Steps, NEW n \in -1 .. EcmFrames, NEW v, v = Noted(y, k, n)
    PROVE  /\ v \in EndRecord /\ KeepsLine(y, v) /\ KeepsPage(y, v) /\ v.state = y.state
           /\ v.ecm_len = y.ecm_len /\ v.ecm_frames = n /\ v.last_pps = k
  <1>1. v = [y EXCEPT !.last_pps = k, !.ecm_frames = n]
    BY DEF Noted
  <1>2. v \in EndRecord
    BY ONLY <1>1, k \in Steps, n \in -1 .. EcmFrames, y \in EndRecord, ZenonT(40) DEF EndRecord
  <1>3. KeepsLine(y, v) /\ KeepsPage(y, v)
    BY ONLY <1>1, y \in EndRecord DEF EndRecord, KeepsLine, KeepsPage
  <1>4. v.state = y.state /\ v.ecm_len = y.ecm_len /\ v.ecm_frames = n /\ v.last_pps = k
    BY ONLY <1>1, y \in EndRecord DEF EndRecord
  <1> QED
    BY <1>2, <1>3, <1>4

LEMMA JudgedFields ==
    ASSUME NEW y \in EndRecord, NEW m \in SUBSET Slots, NEW b \in BOOLEAN, NEW v, v = Judged(y, m, b)
    PROVE  /\ v \in EndRecord /\ KeepsLine(y, v) /\ KeepsPage(y, v) /\ v.state = y.state
           /\ v.ecm_len = y.ecm_len /\ v.ecm_frames = y.ecm_frames /\ v.last_pps = y.last_pps
           /\ v.map = m /\ v.block_ok = b
  <1>1. v = [y EXCEPT !.map = m, !.block_ok = b]
    BY DEF Judged
  <1>2. v \in EndRecord
    BY ONLY <1>1, m \in SUBSET Slots, b \in BOOLEAN, y \in EndRecord, ZenonT(40) DEF EndRecord
  <1>3. KeepsLine(y, v) /\ KeepsPage(y, v)
    BY ONLY <1>1, y \in EndRecord DEF EndRecord, KeepsLine, KeepsPage
  <1>4. /\ v.state = y.state /\ v.ecm_len = y.ecm_len /\ v.ecm_frames = y.ecm_frames /\ v.last_pps = y.last_pps
        /\ v.map = m /\ v.block_ok = b
    BY ONLY <1>1, y \in EndRecord DEF EndRecord
  <1> QED
    BY <1>2, <1>3, <1>4

LEMMA HandedFields ==
    ASSUME NEW y \in EndRecord, NEW p \in Seq(Triple), NEW b \in Nat, NEW v, v = Handed(y, p, b)
    PROVE  /\ v \in EndRecord /\ KeepsLine(y, v) /\ v.state = y.state
           /\ v.page = y.page /\ v.ecm_block = b /\ v.put = p /\ v.eop = y.eop
           /\ v.fallback = y.fallback /\ v.next_rx = y.next_rx /\ v.last_pps = y.last_pps
           /\ v.map = y.map /\ v.block_ok = y.block_ok
  <1>1. v = [y EXCEPT !.put = p, !.ecm_block = b]
    BY DEF Handed
  <1>2. v \in EndRecord
    BY ONLY <1>1, p \in Seq(Triple), b \in Nat, y \in EndRecord, ZenonT(40) DEF EndRecord
  <1>3. KeepsLine(y, v) /\ v.state = y.state
    BY ONLY <1>1, y \in EndRecord DEF EndRecord, KeepsLine
  <1>4. /\ v.page = y.page /\ v.ecm_block = b /\ v.put = p /\ v.eop = y.eop
        /\ v.fallback = y.fallback /\ v.next_rx = y.next_rx /\ v.last_pps = y.last_pps
        /\ v.map = y.map /\ v.block_ok = y.block_ok
    BY ONLY <1>1, y \in EndRecord DEF EndRecord
  <1> QED
    BY <1>2, <1>3, <1>4

LEMMA EmptyBuffer == Empty \in [Slots -> Frames] /\ -1 \in -1 .. EcmFrames
  <1>1. None \in Frames
    BY DEF Frames
  <1>2. EcmFrames \in Nat
    BY Constants
  <1>3. -1 \in -1 .. EcmFrames
    BY ONLY <1>2
  <1> QED
    BY <1>1, <1>3 DEF Empty

LEMMA ClearedFields ==
    ASSUME NEW y \in EndRecord, NEW v, v = ClearBuffer(y)
    PROVE  /\ v \in EndRecord /\ KeepsLine(y, v) /\ KeepsPage(y, v) /\ v.state = y.state
           /\ v.ecm_len = Empty /\ v.ecm_frames = -1 /\ v.last_pps = y.last_pps
           /\ v.map = y.map /\ v.block_ok = y.block_ok
  <1>1. v = [y EXCEPT !.ecm_len = Empty, !.ecm_frames = -1]
    BY DEF ClearBuffer
  <1>2. v \in EndRecord
    BY ONLY <1>1, EmptyBuffer, y \in EndRecord, ZenonT(40) DEF EndRecord
  <1>3. KeepsLine(y, v) /\ KeepsPage(y, v)
    BY ONLY <1>1, y \in EndRecord DEF EndRecord, KeepsLine, KeepsPage
  <1>4. /\ v.state = y.state /\ v.ecm_len = Empty /\ v.ecm_frames = -1 /\ v.last_pps = y.last_pps
        /\ v.map = y.map /\ v.block_ok = y.block_ok
    BY ONLY <1>1, y \in EndRecord DEF EndRecord
  <1> QED
    BY <1>2, <1>3, <1>4

LEMMA NewPageFields ==
    ASSUME NEW y \in EndRecord, NEW k \in Steps, NEW n \in 0 .. Len(Doc), NEW v, v = NewPage(y, k, n)
    PROVE  /\ v \in EndRecord /\ KeepsLine(y, v) /\ v.state = y.state
           /\ v.page = n /\ v.ecm_block = 0 /\ v.put = y.put /\ v.eop = y.eop
           /\ v.fallback = y.fallback /\ v.next_rx = k /\ v.last_pps = y.last_pps
           /\ v.map = y.map /\ v.block_ok = y.block_ok /\ v.ecm_len = y.ecm_len /\ v.ecm_frames = y.ecm_frames
  <1>1. v = [y EXCEPT !.next_rx = k, !.page = n, !.ecm_block = 0]
    BY DEF NewPage
  <1>2. v \in EndRecord
    BY ONLY <1>1, k \in Steps, n \in 0 .. Len(Doc), ZeroOne, y \in EndRecord, ZenonT(40) DEF EndRecord
  <1>3. KeepsLine(y, v) /\ v.state = y.state
    BY ONLY <1>1, y \in EndRecord DEF EndRecord, KeepsLine
  <1>4. /\ v.page = n /\ v.ecm_block = 0 /\ v.put = y.put /\ v.eop = y.eop
        /\ v.fallback = y.fallback /\ v.next_rx = k /\ v.last_pps = y.last_pps
    BY ONLY <1>1, y \in EndRecord DEF EndRecord
  <1>5. v.map = y.map /\ v.block_ok = y.block_ok /\ v.ecm_len = y.ecm_len /\ v.ecm_frames = y.ecm_frames
    BY ONLY <1>1, y \in EndRecord DEF EndRecord
  <1> QED
    BY <1>2, <1>3, <1>4, <1>5

\* What the receiver holds of a block is the next part of the document.
LEMMA BlockIsNext ==
    ASSUME NEW p \in 0 .. Len(Doc) - 1, NEW b \in 0 .. Len(Doc[p + 1]) - 1, NEW n, n = Doc[p + 1][b + 1],
           NEW l \in [Slots -> Frames], \A i \in Slots : i < n => l[i] = <<p, b, i>>,
           NEW s, s = UpTo(p, b)
    PROVE  s \o [i \in 1 .. n |-> l[i - 1]] = UpTo(p, b + 1) /\ UpTo(p, b + 1) \in Seq(Triple)
  <1>1. /\ n \in 1 .. EcmFrames /\ EcmFrames \in Nat /\ Len(Doc) \in Nat
        /\ b + 1 \in 1 .. Len(Doc[p + 1]) /\ b + 1 \in 0 .. Len(Doc[p + 1])
    <2>1. Len(Doc[p + 1]) \in Nat \ {0} /\ Len(Doc) \in Nat
      BY DocumentParts
    <2>2. b + 1 \in 1 .. Len(Doc[p + 1]) /\ b + 1 \in 0 .. Len(Doc[p + 1])
      <3> DEFINE m == Len(Doc[p + 1])
      <3>1. m \in Nat \ {0} /\ b \in 0 .. m - 1
        BY <2>1
      <3> HIDE DEF m
      <3>2. b + 1 \in 1 .. m /\ b + 1 \in 0 .. m
        BY ONLY <3>1
      <3> QED
        BY <3>2 DEF m
    <2>3. Doc[p + 1][b + 1] \in 1 .. EcmFrames
      BY <2>2, DocumentParts
    <2> QED
      BY <2>1, <2>2, <2>3, Constants
  <1>2. [i \in 1 .. n |-> l[i - 1]] = Block(p + 1, b + 1)
    <2>1. \A i \in 1 .. n : l[i - 1] = <<p, b, i - 1>>
      <3> TAKE i \in 1 .. n
      <3>1. i - 1 \in 0 .. EcmFrames - 1 /\ i - 1 < n
        BY ONLY <1>1, i \in 1 .. n
      <3> QED
        BY <3>1 DEF Slots
    <2>2. (p + 1) - 1 = p /\ (b + 1) - 1 = b
      <3>1. p \in Int /\ b \in Int
        OBVIOUS
      <3> QED
        BY ONLY <3>1
    <2>3. Block(p + 1, b + 1) = [i \in 1 .. n |-> <<p, b, i - 1>>]
      BY <2>2 DEF Block
    <2> QED
      BY <2>1, <2>3
  <1>3. UpTo(p, b + 1) = UpTo(p, b) \o Block(p + 1, b + 1)
    BY BlockAfter
  <1>4. UpTo(p, b + 1) \in Seq(Triple)
    BY <1>1, RestOfDocument
  <1> QED
    BY <1>2, <1>3, <1>4

\* The whole block is there: it is handed over, and the receiver is ahead.
LEMMA Committed ==
    ASSUME NEW x \in EndRecord, SenderPlace(x), x.state \in Asking,
           NEW y \in EndRecord, ReceiverPlace(y), Receiving(y), AtOne(x, y),
           \A i \in Slots : i < x.ecm_frames => y.ecm_len[i] = <<x.page, x.ecm_block, i>>,
           y.ecm_frames = x.ecm_frames, y.last_pps = (IF x.at_end THEN x.next_tx ELSE "NULL"),
           y.next_rx = "MPS", NEW v, v = Commit(y)
    PROVE  /\ v \in EndRecord /\ KeepsLine(y, v) /\ v.state = y.state
           /\ v.fallback = y.fallback /\ v.eop = y.eop /\ v.last_pps = y.last_pps
           /\ v.map = y.map /\ v.block_ok = y.block_ok /\ v.ecm_len = Empty /\ v.ecm_frames = -1
           /\ Ahead(x, v) /\ ReceiverPlace(v) /\ v.next_rx \in Steps
           /\ v.page < Len(Doc) => v.next_rx = "MPS"
           /\ v.last_pps = "EOP" => v.page = Len(Doc)
  <1> DEFINE p == x.page
             b == x.ecm_block
             n == x.ecm_frames
             m == Len(Doc[p + 1])
             l == y.ecm_len
             h == y.put \o [i \in 1 .. n |-> l[i - 1]]
             c == b + 1
             w == Handed(y, h, c)
             z == ClearBuffer(w)
             k == z.last_pps
             q == z.page + 1
  <1>1. x.page < Len(Doc) /\ SenderBlock(x) /\ y.page = p /\ y.ecm_block = b
    BY DEF AtOne, Place, SenderPlace
  <1>2. /\ p \in 0 .. Len(Doc) - 1 /\ p + 1 \in 0 .. Len(Doc) /\ m \in Nat \ {0} /\ b \in 0 .. m - 1
        /\ x.read = b + 1 /\ n = Doc[p + 1][b + 1] /\ x.at_end = (x.read = m) /\ Len(Doc) \in Nat
    BY <1>1, BlockFacts, DocumentParts DEF SenderBlock, Blocks
  <1>3. y.put = UpTo(p, b)
    BY <1>1 DEF ReceiverPlace
  <1>4. h = UpTo(p, c) /\ h \in Seq(Triple)
    <2>1. l \in [Slots -> Frames]
      BY Fields
    <2>2. \A i \in Slots : i < n => l[i] = <<p, b, i>>
      OBVIOUS
    <2>3. p \in 0 .. Len(Doc) - 1 /\ b \in 0 .. Len(Doc[p + 1]) - 1 /\ n = Doc[p + 1][b + 1]
      BY <1>2
    <2> DEFINE s == y.put
    <2>4. s = UpTo(p, b)
      BY <1>3
    <2> HIDE DEF p, b, n, l, m, s
    <2>5. s \o [i \in 1 .. n |-> l[i - 1]] = UpTo(p, b + 1) /\ UpTo(p, b + 1) \in Seq(Triple)
      BY ONLY <2>1, <2>2, <2>3, <2>4, BlockIsNext
    <2> QED
      BY <2>5 DEF s
  <1>5. v = IF z.last_pps = "NULL" THEN z ELSE NewPage(z, k, q)
    BY <1>1 DEF Commit, NewPage, Handed
  <1>6. c \in Nat
    BY ONLY <1>2
  <1> HIDE DEF h
  <1>7. /\ w \in EndRecord /\ KeepsLine(y, w) /\ w.state = y.state
        /\ w.page = y.page /\ w.ecm_block = c /\ w.put = h /\ w.eop = y.eop
        /\ w.fallback = y.fallback /\ w.next_rx = y.next_rx /\ w.last_pps = y.last_pps
        /\ w.map = y.map /\ w.block_ok = y.block_ok
    BY <1>4, <1>6, HandedFields
  <1> HIDE DEF w
  <1>8. /\ z \in EndRecord /\ KeepsLine(w, z) /\ KeepsPage(w, z) /\ z.state = w.state
        /\ z.ecm_len = Empty /\ z.ecm_frames = -1 /\ z.last_pps = w.last_pps
        /\ z.map = w.map /\ z.block_ok = w.block_ok
    BY <1>7, ClearedFields
  <1> HIDE DEF z
  <1>9. /\ KeepsLine(y, z) /\ z.state = y.state /\ z.page = p /\ z.ecm_block = c /\ z.put = h /\ z.eop = y.eop
        /\ z.fallback = y.fallback /\ z.next_rx = "MPS" /\ z.last_pps = y.last_pps
        /\ z.map = y.map /\ z.block_ok = y.block_ok
    BY ONLY <1>1, <1>7, <1>8, y.next_rx = "MPS" DEF KeepsLine, KeepsPage
  <1>10. x.at_end => IF p + 1 < Len(Doc) THEN x.next_tx = "MPS" ELSE x.next_tx \in {"EOP", "EOM"}
    BY DEF SenderPlace
  <1>11. x.at_end <=> z.last_pps # "NULL"
    <2>1. x.at_end \in BOOLEAN
      BY Fields
    <2>2. x.at_end => x.next_tx # "NULL"
      BY <1>10
    <2> QED
      BY <1>9, <2>1, <2>2
  <1>12. Blocks(x) = Doc[p + 1] /\ x.page = p /\ x.ecm_block = b
    BY DEF Blocks
  <1>13. Receiving(v) => Receiving(y)
    OBVIOUS
  <1>14. CASE z.last_pps = "NULL"
    <2>1. v = z /\ ~x.at_end
      BY <1>5, <1>11, <1>14
    <2>2. c \in 0 .. m - 1 /\ c < m /\ c \in 0 .. m
      <3>1. c # m
        BY <1>2, <2>1
      <3> HIDE DEF m
      <3>2. b \in Nat /\ m \in Nat /\ b < m
        BY ONLY <1>2
      <3> QED
        BY ONLY <3>1, <3>2
    <2>3. After(x) = <<p, c>>
      BY <1>12, <2>2 DEF After
    <2>4. Place(v) = <<p, c>>
      BY <1>9, <2>1 DEF Place
    <2>5. Ahead(x, v)
      BY <1>1, <2>3, <2>4 DEF Ahead
    <2>6. IsPrefix(h, Document)
      BY <1>2, <1>4, <2>2, UpToIsPrefix
    <2>7. v.page < Len(Doc) /\ v.page # Len(Doc)
      BY <1>1, <1>9, <2>1 DEF ReceiverPlace
    <2>8. ReceiverPlace(v)
      <3>1. Blocks(v) = Doc[p + 1]
        BY <1>9, <2>1 DEF Blocks
      <3>2. v.page # Len(Doc)
        <4>1. p \in 0 .. Len(Doc) - 1 /\ Len(Doc) \in Nat /\ v.page = p
          BY <1>2, <1>9, <2>1
        <4> HIDE DEF p
        <4> QED
          BY ONLY <4>1
      <3>3. v.state \notin Ended
        BY <1>9, <2>1 DEF Receiving, Ended
      <3>4. ~y.eop
        <4>1. y.page # Len(Doc)
          BY <1>9, <2>1, <3>2, <1>1
        <4> QED
          BY <4>1 DEF ReceiverPlace
      <3>5. v.put = UpTo(v.page, v.ecm_block) /\ v.next_rx = "MPS" /\ ~v.eop /\ IsPrefix(v.put, Document)
        BY <1>4, <1>9, <2>1, <2>6, <3>4
      <3>6. v.ecm_block \in 0 .. Len(Blocks(v)) - 1
        BY <1>9, <2>1, <2>2, <3>1
      <3> QED
        BY ONLY <3>2, <3>3, <3>5, <3>6 DEF ReceiverPlace
    <2>9. v.next_rx = "MPS" /\ v.last_pps # "EOP"
      BY <1>9, <1>14, <2>1
    <2>10. v.next_rx \in Steps
      BY <2>9 DEF Steps
    <2> QED
      BY <1>8, <1>9, <2>1, <2>5, <2>8, <2>9, <2>10
  <1>15. CASE z.last_pps # "NULL"
    <2>1. v = NewPage(z, k, q) /\ x.at_end
      BY <1>5, <1>11, <1>15
    <2>2. k \in Steps /\ q = p + 1 /\ q \in 0 .. Len(Doc)
      BY <1>2, <1>8, <1>9, Fields
    <2>3. /\ v \in EndRecord /\ KeepsLine(z, v) /\ v.state = z.state
          /\ v.page = q /\ v.ecm_block = 0 /\ v.put = z.put /\ v.eop = z.eop
          /\ v.fallback = z.fallback /\ v.next_rx = k /\ v.last_pps = z.last_pps
          /\ v.map = z.map /\ v.block_ok = z.block_ok /\ v.ecm_len = z.ecm_len /\ v.ecm_frames = z.ecm_frames
      BY <1>8, <2>1, <2>2, NewPageFields
    <2>4. c = m /\ ~(c < m)
      <3>1. c = m
        BY <1>2, <2>1
      <3> HIDE DEF m
      <3>2. m \in Nat
        BY ONLY <1>2
      <3> HIDE DEF c
      <3> QED
        BY ONLY <3>1, <3>2
    <2>5. After(x) = <<p + 1, 0>>
      BY <1>12, <2>4 DEF After
    <2>6. Place(v) = <<p + 1, 0>>
      BY <2>2, <2>3 DEF Place
    <2>7. Ahead(x, v)
      BY <1>1, <2>5, <2>6 DEF Ahead
    <2>8. v.put = UpTo(p + 1, 0)
      <3>1. UpTo(p, m) = UpTo(p + 1, 0)
        BY <1>2, PageAfter
      <3> QED
        BY <1>4, <1>9, <2>3, <2>4, <3>1
    <2>9. k = x.next_tx
      BY <1>9, <2>1
    <2>10. v.page < Len(Doc) => v.next_rx = "MPS"
      BY <1>10, <2>1, <2>2, <2>3, <2>9
    <2>11. v.page < Len(Doc) \/ v.page = Len(Doc)
      <3>1. v.page \in 0 .. Len(Doc)
        BY <2>2, <2>3
      <3> QED
        BY ONLY <3>1, <1>2
    <2>12. v.last_pps = "EOP" => v.page = Len(Doc)
      BY <2>3, <2>10, <2>11
    <2>13. v.page < Len(Doc) => 0 \in 0 .. Len(Blocks(v)) - 1 /\ IsPrefix(UpTo(v.page, 0), Document)
      <3>1. SUFFICES ASSUME v.page < Len(Doc)
                     PROVE  0 \in 0 .. Len(Blocks(v)) - 1 /\ IsPrefix(UpTo(v.page, 0), Document)
        OBVIOUS
      <3>2. v.page \in 0 .. Len(Doc) - 1
        <4>1. v.page \in 0 .. Len(Doc)
          BY <2>2, <2>3
        <4> QED
          BY ONLY <3>1, <4>1, <1>2
      <3>3. Len(Doc[v.page + 1]) \in Nat \ {0} /\ Blocks(v) = Doc[v.page + 1]
        BY <3>2, DocumentParts DEF Blocks
      <3>4. 0 \in 0 .. Len(Doc[v.page + 1]) /\ 0 \in 0 .. Len(Doc[v.page + 1]) - 1
        <4> DEFINE r == Len(Doc[v.page + 1])
        <4>1. r \in Nat \ {0}
          BY <3>3
        <4> HIDE DEF r
        <4>2. 0 \in 0 .. r /\ 0 \in 0 .. r - 1
          BY ONLY <4>1
        <4> QED
          BY <4>2 DEF r
      <3> QED
        BY <3>2, <3>3, <3>4, UpToIsPrefix
    <2>14. v.page = Len(Doc) => UpTo(v.page, 0) = Document
      BY WholeDocument
    <2>15. ReceiverPlace(v)
      <3>1. v.put = UpTo(v.page, 0) /\ v.ecm_block = 0
        BY <2>2, <2>3, <2>8
      <3>2. IsPrefix(v.put, Document)
        BY <2>11, <2>13, <2>14, <3>1, DocumentIsPrefix
      <3>3. v.state \notin Ended
        BY <1>9, <2>3 DEF Receiving, Ended
      <3>4. ~y.eop
        <4>1. p \in 0 .. Len(Doc) - 1 /\ Len(Doc) \in Nat
          BY <1>2
        <4>2. y.page = p
          BY <1>1
        <4> HIDE DEF p
        <4>3. y.page # Len(Doc)
          BY ONLY <4>1, <4>2
        <4> QED
          BY <4>3 DEF ReceiverPlace
      <3>5. ~v.eop
        BY <1>9, <2>3, <3>4
      <3> QED
        BY ONLY <2>10, <2>11, <2>13, <2>14, <3>1, <3>2, <3>3, <3>5 DEF ReceiverPlace
    <2>16. KeepsLine(y, v)
      BY ONLY <1>9, <2>3 DEF KeepsLine
    <2>17. v.next_rx \in Steps
      BY <2>2, <2>3
    <2> QED
      BY <1>8, <1>9, <2>3, <2>7, <2>10, <2>12, <2>15, <2>16, <2>17
  <1> QED
    BY <1>14, <1>15

LEMMA Modulo ==
    ASSUME NEW n \in Nat
    PROVE  (n % Mod) # ((n + 1) % Mod) /\ (n + 1) - 1 = n
  <1>1. Mod \in Nat \ {0} /\ Mod > 1
    BY Constants
  <1>2. (n % Mod) # ((n + 1) % Mod)
    <2>1. SUFFICES ASSUME n % Mod = (n + 1) % Mod PROVE FALSE
      OBVIOUS
    <2> DEFINE k == n + 1
    <2>2. n \in Int /\ k \in Int /\ n <= k /\ k - n < Mod
      BY ONLY <1>1, n \in Nat
    <2>3. n % Mod = k % Mod
      BY <2>1
    <2> HIDE DEF k
    <2>4. n = k
      BY ONLY <1>1, <2>2, <2>3, ModInjective
    <2> QED
      BY <2>4 DEF k
  <1> QED
    BY <1>2

LEMMA HearingPpsFacts ==
    ASSUME NEW x, NEW y, NEW f, Hearing(x, y, f), f.t = "PPS", y.state \in {"F_DOC_ECM", "F_POST_DOC_ECM"}
    PROVE  /\ x.state \in Asking /\ x.state # "IV" /\ x.page < Len(Doc) /\ x.page # Len(Doc) /\ SenderBlock(x)
           /\ f.fcf2 = (IF x.at_end THEN x.next_tx ELSE "NULL") /\ f.fcf2 \in Steps
           /\ f.page = x.page % Mod /\ f.block = x.ecm_block % Mod
           /\ Full(x) => f.count = x.ecm_frames
           /\ y.fallback = x.fallback
           /\ y.page < Len(Doc) => y.next_rx = "MPS"
           /\ AtOne(x, y) \/ Ahead(x, y)
           /\ Receiving(y)
  <1>1. /\ x \in EndRecord /\ SenderPlace(x) /\ InStep(x, y) /\ y \in EndRecord
    BY HearingFacts
  <1>2. /\ x.state \in {"IV_PPS_NULL", "IV_PPS_Q"}
        /\ f.fcf2 = (IF x.at_end THEN x.next_tx ELSE "NULL")
        /\ f.page = x.page % Mod /\ f.block = x.ecm_block % Mod
        /\ f.count = Max({1, x.burst})
    BY DEF Hearing, SenderSays
  <1>3. f.fcf2 \in Steps
    <2>1. f \in [t : {"PPS"}, fcf2 : Steps, page : Nat, block : Nat, count : Nat \ {0}]
      BY DEF Hearing, LineFrame, SimpleFrame
    <2> QED
      BY <2>1
  <1>4. x.state \in Asking /\ x.state # "IV"
    BY <1>2 DEF Asking
  <1>5. x.page < Len(Doc) /\ SenderBlock(x)
    BY <1>1, <1>2 DEF SenderPlace, Ended
  <1>6. x.page # Len(Doc)
    <2>1. x.page \in 0 .. Len(Doc)
      BY <1>1, Fields
    <2> QED
      BY ONLY <1>5, <2>1
  <1>7. Full(x) => f.count = x.ecm_frames
    <2>1. SUFFICES ASSUME Full(x) PROVE f.count = x.ecm_frames
      OBVIOUS
    <2>2. x.burst = x.ecm_frames /\ x.ecm_frames \in 1 .. EcmFrames /\ EcmFrames \in Nat
      BY <1>1, <1>4, <1>5, <2>1, BlockFacts, Constants DEF SenderPlace
    <2> DEFINE n == x.ecm_frames
    <2>3. f.count = Max({1, n})
      BY <1>2, <2>2
    <2>4. n \in 1 .. EcmFrames /\ EcmFrames \in Nat
      BY <2>2
    <2> HIDE DEF n
    <2>5. n \in Nat /\ {1, n} \in SUBSET (0 .. n) /\ {1, n} # {}
      BY ONLY <2>4
    <2>6. Max({1, n}) \in {1, n} /\ n <= Max({1, n})
      BY <2>5, MaxIsLargest
    <2>7. Max({1, n}) = n
      BY ONLY <2>4, <2>6
    <2> QED
      BY <2>3, <2>7 DEF n
  <1>8. Receiving(y) /\ ~Done(x, y)
    BY <1>6 DEF Receiving, Done
  <1>9. AtOne(x, y) \/ Ahead(x, y)
    BY <1>1, <1>8 DEF InStep
  <1>10. y.fallback = x.fallback
    BY <1>1, <1>4 DEF InStep
  <1>11. y.page < Len(Doc) => y.next_rx = "MPS"
    BY <1>1, <1>2 DEF InStep, Ending, Ended
  <1> QED
    BY <1>2, <1>3, <1>4, <1>5, <1>6, <1>7, <1>8, <1>9, <1>10, <1>11

\* The PPS is of the block that the receiver is at.
LEMMA HearingPpsExpected ==
    ASSUME NEW x, NEW y, NEW f, Hearing(x, y, f), f.t = "PPS", y.state \in {"F_DOC_ECM", "F_POST_DOC_ECM"},
           AtOne(x, y), NEW v, v = process_rx_pps(y, f)
    PROVE  Pair(x, v)
  <1> DEFINE k == f.fcf2
             n == IF y.ecm_frames < 0 THEN f.count ELSE y.ecm_frames
             a == Noted(y, k, n)
             bad == {i \in Slots : a.ecm_len[i] = None}
             ok == (\A i \in bad : i >= a.ecm_frames)
             z == Judged(a, bad, ok)
             c == Commit(z)
  <1>1. /\ x \in EndRecord /\ SenderPlace(x) /\ InStep(x, y) /\ Receiver(y) /\ y \in EndRecord /\ ReceiverPlace(y)
        /\ y.signal # "none" /\ Line(y) /\ ReceiverLine(y)
    BY HearingFacts
  <1>2. /\ x.state \in Asking /\ x.state # "IV" /\ x.page < Len(Doc) /\ x.page # Len(Doc) /\ SenderBlock(x)
        /\ k = (IF x.at_end THEN x.next_tx ELSE "NULL") /\ k \in Steps
        /\ f.page = x.page % Mod /\ f.block = x.ecm_block % Mod
        /\ Full(x) => f.count = x.ecm_frames
        /\ y.fallback = x.fallback
        /\ Receiving(y)
    BY HearingPpsFacts
  <1>3. Stored(x, y) /\ ~Ahead(x, y) /\ y.page = x.page /\ y.ecm_block = x.ecm_block /\ y.next_rx = "MPS"
    <2>1. Stored(x, y)
      BY <1>1, <1>2 DEF InStep
    <2>2. ~Ahead(x, y)
      BY <1>1, OnlyOnePlace
    <2>3. y.page = x.page /\ y.ecm_block = x.ecm_block
      BY DEF AtOne, Place
    <2>4. y.next_rx = "MPS"
      BY <1>2, <2>3, HearingPpsFacts
    <2> QED
      BY <2>1, <2>2, <2>3, <2>4
  <1>4. n = x.ecm_frames /\ n \in 1 .. EcmFrames /\ n \in -1 .. EcmFrames /\ n >= 0
    <2>1. x.ecm_frames \in 1 .. EcmFrames /\ EcmFrames \in Nat
      BY <1>1, <1>2, BlockFacts, Constants
    <2>2. y.ecm_frames \in {-1, x.ecm_frames} /\ (y.ecm_frames = -1 => f.count = x.ecm_frames)
      BY <1>2, <1>3 DEF Stored
    <2>3. n = x.ecm_frames
      BY ONLY <2>1, <2>2
    <2> HIDE DEF n
    <2> QED
      BY ONLY <2>1, <2>3
  <1>5. v = IF Expected(a, f) THEN Answer(IF z.block_ok THEN c ELSE z)
            ELSE IF Previous(a, f) THEN send_mcf(ClearBuffer(a)) ELSE send_dcn(set_status(a, "RX_ECMPHD"))
    BY DEF process_rx_pps, Noted, Judged
  <1> HIDE DEF k, n, c
  <1>6. /\ a \in EndRecord /\ KeepsLine(y, a) /\ KeepsPage(y, a) /\ a.state = y.state
        /\ a.ecm_len = y.ecm_len /\ a.ecm_frames = n /\ a.last_pps = k
    BY <1>1, <1>2, <1>4, NotedFields
  <1>7. Expected(a, f)
    BY <1>2, <1>3, <1>6 DEF Expected, KeepsPage
  <1> HIDE DEF a
  <1>8. bad \in SUBSET Slots /\ ok \in BOOLEAN
    OBVIOUS
  <1>9. bad = Missing(y) /\ (ok <=> \A i \in Missing(y) : i >= n)
    BY <1>6 DEF Missing
  <1> HIDE DEF bad, ok
  <1>10. /\ z \in EndRecord /\ KeepsLine(a, z) /\ KeepsPage(a, z) /\ z.state = a.state
         /\ z.ecm_len = a.ecm_len /\ z.ecm_frames = a.ecm_frames /\ z.last_pps = a.last_pps
         /\ z.map = bad /\ z.block_ok = ok
    BY <1>6, <1>8, JudgedFields
  <1> HIDE DEF z
  <1>11. /\ KeepsLine(y, z) /\ KeepsPage(y, z) /\ z.state = y.state
         /\ z.ecm_len = y.ecm_len /\ z.ecm_frames = n /\ z.last_pps = k
    BY ONLY <1>6, <1>10 DEF KeepsLine, KeepsPage
  <1>12. Receiving(z) /\ ReceiverPlace(z)
    <2>1. Receiving(z)
      BY <1>2, <1>11 DEF Receiving
    <2> QED
      BY <1>1, <1>2, <1>11, <2>1, ReceiverPageKept DEF Answering, Ended
  <1>13. AtOne(x, z) /\ ~Ahead(x, z) /\ Stored(x, z) /\ Missing(z) = Missing(y)
    <2>1. Place(z) = Place(y)
      BY <1>11 DEF Place, KeepsPage
    <2>2. z.ecm_len = y.ecm_len /\ z.ecm_frames = x.ecm_frames /\ x.ecm_frames # -1
      BY <1>4, <1>11
    <2>3. Stored(x, z)
      BY <1>3, <2>2 DEF Stored
    <2> QED
      BY <1>3, <1>11, <2>1, <2>3 DEF AtOne, Ahead, Missing
  <1>14. ASSUME NEW w \in EndRecord, KeepsLine(y, w), w.state = y.state PROVE Line(w) /\ ReceiverLine(w)
    <2>1. Line(w)
      BY <1>1, <1>14, LineKept
    <2>2. ReceiverLine(w)
      <3>1. Receiving(w) <=> Receiving(y)
        BY <1>14 DEF Receiving
      <3>2. w.out # <<>> => ReceiverSays(w, Head(w.out))
        BY <1>1, <1>14 DEF ReceiverLine, ReceiverSays, KeepsLine
      <3> QED
        BY <1>1, <1>14, <3>1, <3>2 DEF ReceiverLine, KeepsLine
    <2> QED
      BY <2>1, <2>2
  <1>15. CASE ok
    <2>1. v = Answer(c)
      BY <1>5, <1>7, <1>10, <1>15
    <2>2. \A i \in Slots : i < x.ecm_frames => z.ecm_len[i] = <<x.page, x.ecm_block, i>>
      <3> SUFFICES ASSUME NEW i \in Slots, i < x.ecm_frames PROVE z.ecm_len[i] = <<x.page, x.ecm_block, i>>
        OBVIOUS
      <3>1. i \notin Missing(y)
        <4>1. SUFFICES ASSUME i \in Missing(y) PROVE FALSE
          OBVIOUS
        <4>2. i >= n /\ i < n /\ n \in Int
          BY <1>4, <1>9, <1>15, <4>1
        <4>3. i \in Int
          BY <4>1, Constants DEF Missing, Slots
        <4> QED
          BY ONLY <4>2, <4>3
      <3>2. z.ecm_len[i] # None
        BY <1>11, <3>1 DEF Missing
      <3> QED
        BY <1>13, <3>2 DEF Stored
    <2>3. z.next_rx = "MPS" /\ z.ecm_frames = x.ecm_frames /\ z.last_pps = (IF x.at_end THEN x.next_tx ELSE "NULL")
      BY <1>2, <1>3, <1>4, <1>11 DEF KeepsPage
    <2>4. /\ c \in EndRecord /\ KeepsLine(z, c) /\ c.state = z.state
          /\ c.fallback = z.fallback /\ c.eop = z.eop /\ c.last_pps = z.last_pps
          /\ c.map = z.map /\ c.block_ok = z.block_ok /\ c.ecm_len = Empty /\ c.ecm_frames = -1
          /\ Ahead(x, c) /\ ReceiverPlace(c) /\ c.next_rx \in Steps
          /\ c.page < Len(Doc) => c.next_rx = "MPS"
          /\ c.last_pps = "EOP" => c.page = Len(Doc)
      BY <1>1, <1>2, <1>10, <1>12, <1>13, <2>2, <2>3, Committed DEF c
    <2>5. KeepsLine(y, c) /\ c.state = y.state /\ c.fallback = y.fallback /\ c.block_ok
      BY ONLY <1>10, <1>11, <1>15, <2>4 DEF KeepsLine, KeepsPage
    <2>6. Receiver(c) /\ Receiving(c) /\ c.signal = y.signal
      BY <1>2, <1>14, <2>4, <2>5 DEF Receiver, Receiving, KeepsLine
    <2>7. ~AtOne(x, c)
      BY <1>1, <2>4, OnlyOnePlace
    <2>8. Answerable(x, c)
      BY <1>1, <1>2, <2>4, <2>5, <2>6, <2>7 DEF Answerable
    <2> QED
      BY <1>2, <2>1, <2>6, <2>8, PairAnswered
  <1>16. CASE ~ok
    <2>1. v = Answer(z)
      BY <1>5, <1>7, <1>10, <1>16
    <2>2. Receiver(z) /\ z.signal = y.signal
      BY <1>10, <1>11, <1>12, <1>14 DEF Receiver, KeepsLine
    <2>3. /\ z.fallback = x.fallback /\ z.next_rx = "MPS" /\ "MPS" \in Steps /\ ~z.block_ok
          /\ Missing(z) \subseteq z.map /\ z.ecm_frames >= 0
      BY <1>2, <1>3, <1>4, <1>9, <1>10, <1>11, <1>13, <1>16 DEF KeepsPage, Steps
    <2>4. Answerable(x, z)
      BY <1>1, <1>2, <1>12, <1>13, <2>2, <2>3 DEF Answerable
    <2> QED
      BY <1>2, <2>1, <2>2, <2>4, PairAnswered
  <1> QED
    BY <1>15, <1>16

LEMMA RepeatNotedFields ==
    ASSUME NEW y \in EndRecord, NEW k \in Steps, NEW n, NEW v, v = ClearBuffer(Noted(y, k, n))
    PROVE  /\ v \in EndRecord /\ KeepsLine(y, v) /\ KeepsPage(y, v) /\ v.state = y.state
           /\ v.ecm_len = Empty /\ v.ecm_frames = -1 /\ v.last_pps = k
  <1>1. v = [[y EXCEPT !.last_pps = k, !.ecm_frames = n] EXCEPT !.ecm_len = Empty, !.ecm_frames = -1]
    BY DEF ClearBuffer, Noted
  <1>2. v = [y EXCEPT !.last_pps = k, !.ecm_len = Empty, !.ecm_frames = -1]
    BY ONLY <1>1, y \in EndRecord DEF EndRecord
  <1>3. v \in EndRecord
    BY ONLY <1>2, EmptyBuffer, k \in Steps, y \in EndRecord, ZenonT(40) DEF EndRecord
  <1>4. KeepsLine(y, v) /\ KeepsPage(y, v)
    BY ONLY <1>2, y \in EndRecord DEF EndRecord, KeepsLine, KeepsPage
  <1>5. v.state = y.state /\ v.ecm_len = Empty /\ v.ecm_frames = -1 /\ v.last_pps = k
    BY ONLY <1>2, y \in EndRecord DEF EndRecord
  <1> QED
    BY <1>3, <1>4, <1>5

\* The PPS is of the block before: its answer was lost, and is given again.
LEMMA HearingPpsRepeated ==
    ASSUME NEW x, NEW y, NEW f, Hearing(x, y, f), f.t = "PPS", y.state \in {"F_DOC_ECM", "F_POST_DOC_ECM"},
           Ahead(x, y), NEW v, v = process_rx_pps(y, f)
    PROVE  Pair(x, v)
  <1> DEFINE k == f.fcf2
             n == IF y.ecm_frames < 0 THEN f.count ELSE y.ecm_frames
             a == Noted(y, k, n)
             w == ClearBuffer(a)
             s == "F_POST_RCP_MCF"
             g == [t |-> "MCF"]
  <1>1. /\ x \in EndRecord /\ SenderPlace(x) /\ InStep(x, y) /\ Receiver(y) /\ y \in EndRecord /\ ReceiverPlace(y)
        /\ y.signal = "slow" /\ Free(y) /\ y.state \notin {"B", "CALL_FINISHED"}
    BY HearingFacts, HearingPpsFacts DEF Hearing
  <1>2. /\ x.state \in Asking /\ x.page < Len(Doc) /\ x.page # Len(Doc) /\ SenderBlock(x) /\ k \in Steps
        /\ f.page = x.page % Mod /\ f.block = x.ecm_block % Mod
        /\ y.fallback = x.fallback
        /\ Receiving(y)
    BY HearingPpsFacts
  <1>3. y.page < Len(Doc) => y.next_rx = "MPS"
    BY HearingPpsFacts
  <1>4. ~AtOne(x, y)
    BY <1>1, OnlyOnePlace
  <1>5. v = IF Expected(a, f)
            THEN Answer(IF Judged(a, {i \in Slots : a.ecm_len[i] = None},
                                  \A i \in {j \in Slots : a.ecm_len[j] = None} : i >= a.ecm_frames).block_ok
                        THEN Commit(Judged(a, {i \in Slots : a.ecm_len[i] = None},
                                           \A i \in {j \in Slots : a.ecm_len[j] = None} : i >= a.ecm_frames))
                        ELSE Judged(a, {i \in Slots : a.ecm_len[i] = None},
                                    \A i \in {j \in Slots : a.ecm_len[j] = None} : i >= a.ecm_frames))
            ELSE IF Previous(a, f) THEN send_mcf(w) ELSE send_dcn(set_status(a, "RX_ECMPHD"))
    BY DEF process_rx_pps, Noted, Judged
  <1>6. a.page = y.page /\ a.ecm_block = y.ecm_block
    BY <1>1 DEF Noted, EndRecord
  <1>7. /\ x.page \in Nat /\ x.ecm_block \in Nat /\ x.page \in Int /\ x.ecm_block \in Int
    BY <1>1, PlaceNumbers
  <1>8. \/ y.page = x.page /\ y.ecm_block = x.ecm_block + 1
        \/ y.page = x.page + 1 /\ y.ecm_block = 0
    BY DEF Ahead, After, Place
  <1> HIDE DEF a, k, n
  <1>9. ~Expected(a, f) /\ Previous(a, f)
    <2>1. CASE y.page = x.page /\ y.ecm_block = x.ecm_block + 1
      <3>0. (x.ecm_block % Mod) # ((x.ecm_block + 1) % Mod) /\ (x.ecm_block + 1) - 1 = x.ecm_block
        BY ONLY <1>7, Modulo
      <3>1. f.block # a.ecm_block % Mod
        BY ONLY <1>2, <1>6, <2>1, <3>0
      <3>2. f.block = (a.ecm_block - 1) % Mod /\ f.page = a.page % Mod
        BY ONLY <1>2, <1>6, <2>1, <3>0
      <3> QED
        BY <3>1, <3>2 DEF Expected, Previous
    <2>2. CASE y.page = x.page + 1 /\ y.ecm_block = 0
      <3>0. (x.page % Mod) # ((x.page + 1) % Mod) /\ (x.page + 1) - 1 = x.page
        BY ONLY <1>7, Modulo
      <3>1. f.page # a.page % Mod
        BY ONLY <1>2, <1>6, <2>2, <3>0
      <3>2. f.page = (a.page - 1) % Mod /\ a.ecm_block = 0
        BY ONLY <1>2, <1>6, <2>2, <3>0
      <3> QED
        BY <3>1, <3>2 DEF Expected, Previous
    <2> QED
      BY <1>8, <2>1, <2>2
  <1>10. v = send_frame(set_state(queue_phase(w, "D_TX"), s), g)
    BY <1>5, <1>9 DEF send_mcf, send_simple_frame
  <1>11. s \in States /\ g \in LineFrame /\ g.t = "MCF" /\ s \in Answering /\ "D_TX" \in Phases \cap Queable
    BY SimpleFrames DEF States, Answering, Phases, Queable
  <1>12. /\ w \in EndRecord /\ KeepsLine(y, w) /\ KeepsPage(y, w) /\ w.state = y.state
         /\ w.ecm_len = Empty /\ w.ecm_frames = -1 /\ w.last_pps = k
    BY <1>1, <1>2, RepeatNotedFields DEF a
  <1> HIDE DEF w, g
  <1>13. Free(w)
    BY <1>1, <1>12 DEF Free, KeepsLine
  <1>14. /\ v \in EndRecord /\ KeepsBlock(w, v) /\ v.state = s /\ Turned(w, v, "D_TX") /\ v.out = <<g>>
    BY <1>10, <1>11, <1>12, <1>13, Say
  <1>15. KeepsPage(y, v) /\ Turned(y, v, "D_TX") /\ v.ecm_len = Empty /\ v.ecm_frames = -1
    BY ONLY <1>12, <1>14 DEF KeepsBlock, KeepsPage, KeepsLine, Turned
  <1>16. Place(v) = Place(y) /\ Blocks(v) = Blocks(y) /\ Receiving(v)
    BY <1>14, <1>15 DEF Place, Blocks, KeepsPage, Receiving
  <1>17. v.page < Len(Doc) => v.next_rx = "MPS"
    BY <1>3, <1>15 DEF KeepsPage
  <1>18. ReceiverPlace(v)
    BY <1>1, <1>2, <1>14, <1>15, <1>16, <1>17 DEF ReceiverPlace, KeepsPage, Ended
  <1>19. ReceiverSays(v, g)
    BY <1>11, <1>14 DEF ReceiverSays
  <1>20. Receiver(v)
    BY <1>1, <1>2, <1>11, <1>14, <1>15, <1>18, <1>19, ReceiverTurned
  <1>21. Ahead(x, v) /\ ~AtOne(x, v)
    BY <1>4, <1>16 DEF Ahead, AtOne
  <1>22. InStep(x, v)
    <2>1. v.fallback = x.fallback
      BY <1>2, <1>15 DEF KeepsPage
    <2> QED
      BY ONLY <1>2, <1>14, <1>15, <1>17, <1>21, <2>1 DEF InStep, Late
  <1>23. v.signal = "slow" /\ v.next_phase = "D_TX"
    BY <1>1, <1>15 DEF Turned
  <1> QED
    BY <1>2, <1>20, <1>22, <1>23, PairHeard

LEMMA HearingPps ==
    ASSUME NEW x, NEW y, NEW f, Hearing(x, y, f), f.t = "PPS", y.state \in {"F_DOC_ECM", "F_POST_DOC_ECM"},
           NEW v, v = process_rx_pps(y, f)
    PROVE  Pair(x, v)
  BY HearingPpsFacts, HearingPpsExpected, HearingPpsRepeated

-----------------------------------------------------------------------------
(* The receiver hears a frame.                                              *)

LEMMA HearingDcnAfterMcf ==
    ASSUME NEW x, NEW y, NEW f, Hearing(x, y, f), f.t = "DCN", y.state = "F_POST_RCP_MCF", NEW v, v = terminate_call(y)
    PROVE  Pair(x, v)
  <1>1. y \in EndRecord /\ ReceiverPlace(y) /\ Turns(x, y) /\ ~Sending(y)
    BY HearingFacts
  <1>2. x.state \notin Asking
    <2>1. x.state = "C"
      BY DEF Hearing, SenderSays
    <2> QED
      BY <2>1 DEF Asking
  <1>3. y.next_rx # "MPS"
    BY <1>1, <1>2 DEF Turns
  <1>4. ~(y.page < Len(Doc))
    BY <1>1, <1>3 DEF ReceiverPlace, Answering
  <1>5. y.page = Len(Doc)
    <2>1. y.page \in 0 .. Len(Doc) /\ Len(Doc) \in Nat
      BY <1>1, Fields, DocumentParts
    <2> QED
      BY ONLY <1>4, <2>1
  <1>6. KeepsBlock(y, y)
    BY DEF KeepsBlock
  <1> QED
    BY <1>1, <1>5, <1>6, HearingFinished

LEMMA HearingFrame ==
    ASSUME NEW x, NEW y, NEW f, Hearing(x, y, f), x.state # "IV", NEW v, v = process_final_frame(y, f)
    PROVE  Pair(x, v)
  <1>1. y \in EndRecord /\ ReceiverLine(y) /\ y.state \notin {"B", "CALL_FINISHED"} /\ Pair(x, y)
    BY HearingFacts DEF Hearing
  <1>2. f.t \in {"CRP", "PPS", "RR", "CTC", "EOR", "DCN"}
    BY DEF Hearing, SenderSays
  <1>3. y.state \in {"F_DOC_ECM", "F_POST_DOC_ECM", "F_POST_RCP_MCF", "F_POST_RCP_RNR", "F_POST_RCP_PPR", "R", "C"}
    BY <1>1 DEF ReceiverLine, Answering, Ended
  <1>4. ASSUME NEW s \in Status \ {"OK"}, v = terminate_call(set_status(y, s)) PROVE Pair(x, v)
    <2> DEFINE a == set_status(y, s)
    <2>1. a \in EndRecord /\ KeepsBlock(y, a) /\ a.status # "OK"
      BY <1>1, SetStatus
    <2>2. v = terminate_call(a)
      BY <1>4
    <2> HIDE DEF a
    <2> QED
      BY <2>1, <2>2, HearingFinished
  <1>5. CASE f.t = "CRP"
    <2>1. v = repeat_last_command(y)
      BY <1>1, <1>5 DEF process_final_frame
    <2> QED
      BY <2>1, HearingCrp
  <1>6. CASE f.t # "CRP" /\ y.state \in {"F_DOC_ECM", "F_POST_DOC_ECM"}
    <2>1. v = process_state_f_doc_and_post_doc_ecm(y, f)
      BY <1>6 DEF process_final_frame
    <2>2. CASE f.t = "PPS"
      BY <1>6, <2>1, <2>2, HearingPps DEF process_state_f_doc_and_post_doc_ecm
    <2>3. CASE f.t = "EOR"
      BY <1>6, <2>1, <2>3, HearingEor DEF process_state_f_doc_and_post_doc_ecm
    <2>4. CASE f.t = "CTC"
      BY <1>6, <2>1, <2>4, HearingCtc DEF process_state_f_doc_and_post_doc_ecm
    <2>5. CASE f.t = "RR"
      BY <1>1, <2>1, <2>5 DEF process_state_f_doc_and_post_doc_ecm
    <2>6. CASE f.t = "DCN"
      <3>1. "RX_DCNDATA" \in Status \ {"OK"}
        BY DEF Status
      <3> QED
        BY <1>4, <2>1, <2>6, <3>1 DEF process_state_f_doc_and_post_doc_ecm
    <2> QED
      BY <1>2, <1>6, <2>2, <2>3, <2>4, <2>5, <2>6
  <1>7. CASE f.t # "CRP" /\ y.state = "F_POST_RCP_MCF"
    <2>1. v = IF f.t = "DCN" THEN terminate_call(y) ELSE unexpected_final_frame(y)
      BY <1>7 DEF process_final_frame, process_state_f_post_rcp_mcf
    <2> QED
      BY <1>7, <2>1, HearingDcnAfterMcf, HearingUnexpected
  <1>8. CASE f.t # "CRP" /\ y.state = "F_POST_RCP_RNR"
    <2>1. v = IF f.t = "RR" THEN Answer(y) ELSE unexpected_final_frame(y)
      BY <1>8 DEF process_final_frame, process_state_f_post_rcp_rnr
    <2> QED
      BY <1>8, <2>1, HearingRr, HearingUnexpected
  <1>9. CASE f.t # "CRP" /\ y.state = "F_POST_RCP_PPR"
    <2>1. v = unexpected_final_frame(y)
      BY <1>9 DEF process_final_frame
    <2> QED
      BY <2>1, HearingUnexpected
  <1>10. CASE f.t # "CRP" /\ y.state = "R"
    <2>1. v = IF f.t = "DCN" THEN terminate_call(set_status(y, "RX_DCNWHY")) ELSE unexpected_final_frame(y)
      BY <1>10 DEF process_final_frame, process_state_r
    <2>2. "RX_DCNWHY" \in Status \ {"OK"}
      BY DEF Status
    <2> QED
      BY <1>4, <2>1, <2>2, HearingUnexpected
  <1>11. CASE f.t # "CRP" /\ y.state = "C"
    <2>1. v = IF f.t = "DCN" THEN y ELSE unexpected_final_frame(y)
      BY <1>11 DEF process_final_frame, process_state_b_or_c
    <2> QED
      BY <1>1, <2>1, HearingUnexpected
  <1> QED
    BY <1>3, <1>5, <1>6, <1>7, <1>8, <1>9, <1>10, <1>11

LEMMA HearingWaits ==
    ASSUME NEW x, NEW y, NEW f, Hearing(x, y, f), NEW a \in EndRecord, KeepsBlock(y, a), KeepsLine(y, a),
           a.state = y.state, a.status = y.status
    PROVE  Hearing(x, a, f)
  <1>1. y.state # "CALL_FINISHED"
    BY HearingFacts
  <1>2. Pair(x, a)
    BY <1>1, PairReceiverWaits DEF Hearing
  <1> QED
    BY <1>2 DEF Hearing, KeepsLine

\* The receiver hears the frame that the sender sends.
LEMMA ReceiverAccepts ==
    ASSUME NEW x, NEW y, Pair(x, y), Sending(x), x.out # <<>>, Hears(y) = Carrier(x), y.signal # "untrained",
           NEW u, u = Emptying(x), NEW v, v = hdlc_accept(y, Head(x.out))
    PROVE  Pair(u, v)
  <1> DEFINE f == Head(x.out)
             a == timer_t2_t4_stop(y)
             n == 0
             b == [a EXCEPT !.t1 = n]
  <1>1. Hearing(u, y, f) /\ y \in EndRecord
    BY SenderSent, HearingFacts
  <1>2. \/ f.t = "FCD" /\ v = process_rx_fcd(a, f)
        \/ f.t = "RCP" /\ v = process_rx_rcp(a)
        \/ f.t \notin {"FCD", "RCP"} /\ v = process_final_frame(b, f)
    BY DEF hdlc_accept
  <1> HIDE DEF f
  <1>3. n \in 0 .. T1
    BY ZeroOne
  <1> HIDE DEF n
  <1>4. a \in EndRecord /\ KeepsBlock(y, a) /\ KeepsLine(y, a) /\ a.state = y.state /\ a.status = y.status
    BY <1>1, StopTimer
  <1> HIDE DEF a
  <1>5. b \in EndRecord /\ KeepsBlock(a, b) /\ KeepsLine(a, b) /\ b.state = a.state /\ b.status = a.status
    BY <1>3, <1>4, SetT1
  <1> HIDE DEF b
  <1>6. Hearing(u, a, f)
    BY <1>1, <1>4, HearingWaits
  <1>7. Hearing(u, b, f)
    BY <1>5, <1>6, HearingWaits
  <1>8. f.t \notin {"FCD", "RCP"} => u.state # "IV"
    BY <1>1 DEF Hearing, SenderSays
  <1> QED
    BY <1>2, <1>6, <1>7, <1>8, HearingFcd, HearingRcp, HearingFrame

LEMMA InStepAsksAgain ==
    ASSUME NEW x, NEW y, InStep(x, y), NEW v, KeepsBlock(y, v), v.state = y.state, ~Late(x, y),
           v.out = <<[t |-> "CRP"]>>
    PROVE  InStep(x, v)
  <1>1. /\ v.page = y.page /\ v.ecm_block = y.ecm_block /\ v.ecm_len = y.ecm_len
        /\ v.ecm_frames = y.ecm_frames /\ v.fallback = y.fallback /\ v.next_rx = y.next_rx
        /\ v.block_ok = y.block_ok /\ v.last_pps = y.last_pps /\ v.map = y.map
        /\ Place(v) = Place(y) /\ Missing(v) = Missing(y)
    BY Alternatives DEF KeepsBlock
  <1>2. /\ AtOne(x, v) <=> AtOne(x, y)
        /\ Ahead(x, v) <=> Ahead(x, y)
        /\ Done(x, v) <=> Done(x, y)
        /\ Late(x, v) <=> Late(x, y)
        /\ Receiving(v) <=> Receiving(y)
    BY <1>1 DEF AtOne, Ahead, Done, Late, Receiving
  <1>3. Stored(x, y) => Stored(x, v)
    BY <1>1 DEF Stored
  <1>4. v.out # <<[t |-> "CTR"]>>
    OBVIOUS
  <1> QED
    BY ONLY InStep(x, y), ~Late(x, y), v.state = y.state, <1>1, <1>2, <1>3, <1>4 DEF InStep

\* A spoilt frame is asked for again, or ignored.
LEMMA ReceiverAcceptsBad ==
    ASSUME NEW x, NEW y, Pair(x, y), Sending(x), x.out # <<>>, Hears(y) = Carrier(x), y.signal # "untrained",
           NEW u, u = Emptying(x), NEW v, v = hdlc_accept_bad(y)
    PROVE  Pair(u, v)
  <1> DEFINE f == Head(x.out)
  <1>1. Hearing(u, y, f) /\ Pair(u, y)
    BY SenderSent
  <1> HIDE DEF f
  <1>2. /\ y \in EndRecord /\ Receiver(y) /\ ReceiverLine(y) /\ ReceiverPlace(y) /\ Free(y) /\ InStep(u, y)
        /\ y.state \notin {"B", "CALL_FINISHED"} /\ ~Late(u, y) /\ Line(y) /\ Turns(u, y) /\ ~Sending(y)
    BY <1>1, HearingFacts
  <1>3. CommandRepeat \in BOOLEAN
    BY T30CoreAssumption
  <1>4. CASE y.phase = "C_ECM_RX"
    BY <1>1, <1>4 DEF hdlc_accept_bad
  <1>5. CASE y.phase # "C_ECM_RX" /\ CommandRepeat
    <2> DEFINE n == 0
               a == [y EXCEPT !.step = n]
               p == IF y.phase = "B_RX" THEN "B_TX" ELSE "D_TX"
               g == [t |-> "CRP"]
    <2>1. n \in 0 .. 1 /\ g \in LineFrame /\ p \in Phases \cap Queable
      BY SimpleFrames DEF Phases, Queable
    <2>2. a.phase = y.phase
      BY <1>2 DEF EndRecord
    <2>3. v = send_frame(queue_phase(a, p), g)
      BY <1>5, <2>2 DEF hdlc_accept_bad, send_simple_frame
    <2> HIDE DEF n
    <2>4. Alike(y, a)
      BY <1>2, <2>1, SetStep
    <2> HIDE DEF a
    <2>5. a \in EndRecord /\ Free(a)
      BY <1>2, <2>4 DEF Alike, Free, KeepsLine
    <2>6. p \in {"B_TX", "D_TX"} /\ p # "IDLE" /\ (y.phase # "B_RX" => p = "D_TX")
      OBVIOUS
    <2> HIDE DEF p, g
    <2>7. /\ v \in EndRecord /\ KeepsBlock(a, v) /\ KeepsTimers(a, v)
          /\ v.state = a.state /\ v.step = a.step /\ v.status = a.status
          /\ Turned(a, v, p) /\ v.out = <<g>>
      BY <2>1, <2>3, <2>5, SayAgain
    <2>8. KeepsBlock(y, v) /\ Turned(y, v, p) /\ v.state = y.state /\ v.status = y.status
      BY ONLY <2>4, <2>7 DEF Alike, KeepsBlock, KeepsLine, Turned
    <2>9. Line(v)
      BY <1>2, <2>1, <2>6, <2>7, <2>8, LineTurned
    <2>10. ReceiverLine(v)
      <3>1. ReceiverSays(v, g)
        BY DEF ReceiverSays, g
      <3>2. Receiving(v) <=> Receiving(y)
        BY <2>8 DEF Receiving
      <3>3. v.phase # "C_ECM_TX" /\ v.next_phase # "C_ECM_TX"
        BY <1>2, <2>6, <2>8 DEF ReceiverLine, Turned
      <3>4. Receiving(v) => v.phase \notin {"B_RX", "B_TX"} /\ v.next_phase # "B_TX"
        BY <1>2, <2>6, <2>8, <3>2 DEF ReceiverLine, Turned
      <3> QED
        BY <1>2, <2>7, <2>8, <3>1, <3>3, <3>4 DEF ReceiverLine
    <2>11. ReceiverPlace(v)
      BY <1>2, <2>8, ReceiverPlaceKept DEF Receiving
    <2>12. Receiver(v)
      BY <2>7, <2>9, <2>10, <2>11 DEF Receiver
    <2>13. InStep(u, v)
      BY <1>2, <2>7, <2>8, InStepAsksAgain DEF g
    <2>14. v.state = "F_POST_RCP_MCF" /\ v.next_rx = "MPS" /\ ~Sending(v) =>
              v.signal = "slow" /\ v.next_phase = "D_TX" /\ u.state \in Asking
      <3>1. v.next_rx = y.next_rx
        BY <2>8 DEF KeepsBlock
      <3>2. y.state = "F_POST_RCP_MCF" => p = "D_TX"
        BY <1>2, <2>6 DEF ReceiverLine, Receiving
      <3> QED
        BY <1>2, <2>8, <3>1, <3>2 DEF Turns, Turned
    <2> QED
      BY <1>1, <2>12, <2>13, <2>14, PairHeard
  <1>6. CASE y.phase # "C_ECM_RX" /\ ~CommandRepeat
    <2>1. v = IF y.t24_is = "T2_FLAGGED" THEN timer_t2_t4_stop(y) ELSE y
      BY ONLY <1>3, <1>6, v = hdlc_accept_bad(y) DEF hdlc_accept_bad
    <2>2. CASE y.t24_is = "T2_FLAGGED"
      <3>1. v \in EndRecord /\ KeepsBlock(y, v) /\ KeepsLine(y, v) /\ v.state = y.state /\ v.status = y.status
        BY <1>2, <2>1, <2>2, StopTimer
      <3> QED
        BY <1>1, <1>2, <3>1, PairReceiverWaits
    <2>3. CASE y.t24_is # "T2_FLAGGED"
      BY <1>1, <2>1, <2>3
    <2> QED
      BY <2>2, <2>3
  <1> QED
    BY <1>3, <1>4, <1>5, <1>6

-----------------------------------------------------------------------------
(* A carrier comes and goes.                                                *)

\* What an end keeps when only its signal and its timers change.
KeepsRest(x, u) ==
    /\ KeepsBlock(x, u) /\ u.state = x.state /\ u.step = x.step
    /\ u.phase = x.phase /\ u.next_phase = x.next_phase /\ u.out = x.out

Signalled(x, s) == [x EXCEPT !.signal = s]

LEMMA SetSignal ==
    ASSUME NEW x \in EndRecord, NEW s \in Signals, NEW u, u = Signalled(x, s)
    PROVE  u \in EndRecord /\ KeepsRest(x, u) /\ KeepsTimers(x, u) /\ u.status = x.status /\ u.signal = s
  <1>1. u = [x EXCEPT !.signal = s]
    BY DEF Signalled
  <1>2. u \in EndRecord
    BY ONLY <1>1, s \in Signals, x \in EndRecord, ZenonT(40) DEF EndRecord
  <1>3. KeepsBlock(x, u) /\ KeepsTimers(x, u)
    BY ONLY <1>1, x \in EndRecord DEF EndRecord, KeepsBlock, KeepsTimers
  <1>4. /\ u.state = x.state /\ u.step = x.step /\ u.phase = x.phase /\ u.next_phase = x.next_phase /\ u.out = x.out
        /\ u.status = x.status /\ u.signal = s
    BY ONLY <1>1, x \in EndRecord DEF EndRecord
  <1> QED
    BY <1>2, <1>3, <1>4 DEF KeepsRest

LEMMA CarrierIsUp ==
    ASSUME NEW x \in EndRecord, NEW s \in Signals, NEW u, u = carrier_up(x, s)
    PROVE  /\ u \in EndRecord /\ KeepsRest(x, u) /\ u.status = x.status /\ u.signal = s
           /\ x.t24_is \in SenderTimers => u.t24_is \in SenderTimers
  <1> DEFINE y == Signalled(x, s)
             n == 0
             k == IF x.t24_is = "T2_DROPPED" THEN "T2C" ELSE "T4C"
             w == Timed(y, n, k)
  <1>1. /\ x.t24_is \in {"T2_DROPPED", "T4_DROPPED"} => u = w
        /\ x.t24_is \notin {"T2_DROPPED", "T4_DROPPED"} => u = y
    BY DEF carrier_up, Signalled, Timed
  <1>2. y \in EndRecord /\ KeepsRest(x, y) /\ KeepsTimers(x, y) /\ y.status = x.status /\ y.signal = s
    BY SetSignal
  <1>3. k \in Timers /\ n \in 0 .. T1
    BY ZeroOne DEF Timers
  <1> HIDE DEF y, n
  <1>4. CASE x.t24_is \in {"T2_DROPPED", "T4_DROPPED"}
    <2>1. x.t24_is \in SenderTimers => k \in SenderTimers
      BY <1>4 DEF SenderTimers
    <2> HIDE DEF k
    <2>2. /\ w \in EndRecord /\ KeepsBlock(y, w) /\ KeepsLine(y, w)
          /\ w.state = y.state /\ w.step = y.step /\ w.status = y.status /\ w.t24_is = k
      BY <1>2, <1>3, SetTimer
    <2>3. u = w
      BY <1>1, <1>4
    <2> HIDE DEF w
    <2>4. KeepsRest(x, u) /\ u.status = x.status /\ u.signal = s
      BY ONLY <1>2, <2>2, <2>3 DEF KeepsRest, KeepsBlock, KeepsLine
    <2> QED
      BY <2>1, <2>2, <2>3, <2>4
  <1>5. CASE x.t24_is \notin {"T2_DROPPED", "T4_DROPPED"}
    BY <1>1, <1>2, <1>5 DEF KeepsTimers
  <1> QED
    BY <1>4, <1>5

LEMMA FramingIsOk ==
    ASSUME NEW x \in EndRecord, NEW u, u = framing_ok(x)
    PROVE  /\ u \in EndRecord /\ KeepsRest(x, u) /\ u.status = x.status /\ u.signal = x.signal
           /\ x.t24_is \in SenderTimers => u.t24_is \in SenderTimers
  <1>1. x.far = TRUE
    BY Fields
  <1>2. \/ x.t24_is \notin SenderTimers /\ u = timer_t2_flagged_start(x)
        \/ u = start_timer(x, "T4_FLAGGED")
        \/ u = x
    BY <1>1 DEF framing_ok, FarEnd, SenderTimers
  <1>3. ASSUME NEW k \in {"T1A", "T2_FLAGGED", "T4_FLAGGED"}, u = start_timer(x, k)
        PROVE  u \in EndRecord /\ KeepsRest(x, u) /\ u.status = x.status /\ u.signal = x.signal /\ u.t24_is = k
    <2>1. /\ u \in EndRecord /\ KeepsBlock(x, u) /\ KeepsLine(x, u)
          /\ u.state = x.state /\ u.step = x.step /\ u.status = x.status /\ u.t24_is = k
      BY <1>3, StartTimer
    <2> QED
      BY <2>1 DEF KeepsRest, KeepsLine
  <1>4. CASE x.t24_is \notin SenderTimers /\ u = timer_t2_flagged_start(x)
    <2> DEFINE k == IF x.phase = "C_ECM_RX" THEN "T1A" ELSE "T2_FLAGGED"
    <2>1. u = start_timer(x, k) /\ k \in {"T1A", "T2_FLAGGED", "T4_FLAGGED"}
      BY <1>4 DEF timer_t2_flagged_start
    <2> HIDE DEF k
    <2> QED
      BY <1>3, <1>4, <2>1
  <1>5. CASE u = start_timer(x, "T4_FLAGGED")
    <2>1. "T4_FLAGGED" \in SenderTimers
      BY DEF SenderTimers
    <2> QED
      BY <1>3, <1>5, <2>1
  <1>6. CASE u = x
    BY <1>6 DEF KeepsRest, KeepsBlock
  <1> QED
    BY <1>2, <1>4, <1>5, <1>6

\* An end that notices a carrier was listening, and had nothing to say.
LEMMA Noticing ==
    ASSUME NEW x \in EndRecord, Line(x), x.signal = "none", x.phase \in {"C_ECM_RX", "B_RX", "D_RX"}
    PROVE  x.out = <<>> /\ x.next_phase = "IDLE" /\ ~Sending(x) /\ x.state \notin {"B", "CALL_FINISHED"}
  BY DEF Line, Sending, Slow

LEMMA CanHearPhase ==
    ASSUME NEW x \in EndRecord, NEW c, c \in CanHear(x)
    PROVE  x.phase \in {"C_ECM_RX", "B_RX", "D_RX"} /\ (c = "fast" => x.phase = "C_ECM_RX")
  <1>1. x.phase \in Phases
    BY Fields
  <1> QED
    BY <1>1 DEF CanHear, Phases

LEMMA ReceiverNotices ==
    ASSUME NEW x, NEW y, Pair(x, y), Sending(x), y.signal = "none", y.phase \in {"C_ECM_RX", "B_RX", "D_RX"},
           NEW v \in EndRecord, KeepsRest(y, v), v.status = y.status, v.signal # "none"
    PROVE  Pair(x, v)
  <1>1. /\ Sender(x) /\ Line(x) /\ Receiver(y) /\ y \in EndRecord /\ Line(y) /\ ReceiverLine(y) /\ ReceiverPlace(y)
        /\ InStep(x, y) /\ Turns(x, y)
    BY DEF Pair, Sender, Receiver
  <1>2. y.out = <<>> /\ y.next_phase = "IDLE" /\ ~Sending(y) /\ y.state \notin {"B", "CALL_FINISHED"}
    BY <1>1, Noticing
  <1>3. x.signal = "none" /\ x.next_phase = "IDLE"
    BY <1>1 DEF Line, Sending, Slow
  <1>4. KeepsBlock(y, v) /\ v.state = y.state /\ v.phase = y.phase /\ v.next_phase = "IDLE" /\ v.out = <<>>
    BY <1>2 DEF KeepsRest
  <1>5. Line(v)
    BY <1>2, <1>4 DEF Line
  <1>6. Receiving(v) <=> Receiving(y)
    BY <1>4 DEF Receiving
  <1>7. ReceiverLine(v)
    BY <1>1, <1>4, <1>6 DEF ReceiverLine
  <1>8. ReceiverPlace(v)
    BY <1>1, <1>4, <1>6, ReceiverPlaceKept
  <1>9. InStep(x, v)
    BY <1>1, <1>2, <1>4, <1>6, InStepReceiver
  <1>10. v.next_rx = y.next_rx
    BY <1>4 DEF KeepsBlock
  <1>11. Turns(x, v)
    <2>1. ~(v.state = "F_POST_RCP_MCF" /\ v.next_rx = "MPS")
      BY <1>1, <1>2, <1>4, <1>10 DEF Turns
    <2> QED
      BY <1>3, <1>4, <2>1, Sending(x) DEF Turns
  <1> QED
    BY <1>1, <1>5, <1>7, <1>8, <1>9, <1>11 DEF Pair, Receiver

LEMMA SenderNotices ==
    ASSUME NEW x, NEW y, Pair(x, y), Sending(y), x.signal = "none", x.phase = "D_RX",
           NEW u \in EndRecord, KeepsRest(x, u), u.status = x.status, u.signal = "slow", u.t24_is \in SenderTimers
    PROVE  Pair(u, y)
  <1>1. /\ Receiver(y) /\ Line(y) /\ Sender(x) /\ x \in EndRecord /\ Line(x) /\ SenderLine(x) /\ SenderPlace(x)
        /\ InStep(x, y) /\ Turns(x, y)
    BY DEF Pair, Sender, Receiver
  <1>2. x.out = <<>> /\ x.next_phase = "IDLE" /\ ~Sending(x) /\ x.state \notin {"B", "CALL_FINISHED"}
    BY <1>1, Noticing
  <1>3. y.signal = "none"
    BY <1>1 DEF Line, Sending, Slow
  <1>4. /\ KeepsBlock(x, u) /\ u.state = x.state /\ u.step = x.step /\ u.phase = x.phase
        /\ u.next_phase = "IDLE" /\ u.out = <<>>
    BY <1>2 DEF KeepsRest
  <1>5. x.state # "IV"
    BY <1>1, <1>2 DEF SenderLine
  <1>6. Line(u)
    BY <1>2, <1>4 DEF Line
  <1>7. SenderLine(u)
    BY <1>1, <1>2, <1>4, <1>5 DEF SenderLine
  <1>8. SenderPlace(u)
    BY <1>1, <1>4, SenderPlaceKept
  <1>9. InStep(u, y)
    <2>1. ~Late(x, y)
      BY <1>1, <1>5 DEF InStep
    <2> QED
      BY <1>1, <1>4, <2>1, InStepSender
  <1>10. Turns(u, y)
    BY <1>3, <1>4, <1>5, Sending(y) DEF Turns
  <1> QED
    BY <1>1, <1>6, <1>7, <1>8, <1>9, <1>10 DEF Pair, Sender

-----------------------------------------------------------------------------
(* The carrier that an end heard is over.                                   *)

\* The last part of what the end does: a phase that was queued begins.
CarrierLost(x, u) ==
    /\ u \in EndRecord /\ KeepsBlock(x, u) /\ u.state = x.state /\ u.step = x.step
    /\ u.signal = "none" /\ u.next_phase = "IDLE" /\ u.out = x.out
    /\ u.phase = IF x.next_phase = "IDLE" THEN x.phase ELSE x.next_phase

LEMMA AfterTheCarrier ==
    ASSUME NEW x \in EndRecord, NEW a \in EndRecord, KeepsRest(x, a), a.signal = "none", KeepsTimers(x, a),
           NEW u, u = AfterCarrier(a)
    PROVE  /\ CarrierLost(x, u) /\ u.status = a.status
           /\ x.t24_is \in SenderTimers => u.t24_is \in SenderTimers
           /\ x.next_phase # "IDLE" => KeepsTimers(x, u)
  <1>1. /\ KeepsBlock(x, a) /\ a.state = x.state /\ a.step = x.step
        /\ a.phase = x.phase /\ a.next_phase = x.next_phase /\ a.out = x.out
    BY DEF KeepsRest
  <1>2. CASE x.next_phase # "IDLE"
    <2> DEFINE p == a.next_phase
    <2>1. u = set_phase(a, p)
      BY <1>1, <1>2 DEF AfterCarrier
    <2>2. p \in Phases
      BY <1>1, <1>2, Fields DEF Queable, Phases
    <2> HIDE DEF p
    <2>3. /\ u \in EndRecord /\ KeepsBlock(a, u) /\ KeepsTimers(a, u)
          /\ u.state = a.state /\ u.step = a.step /\ u.status = a.status
          /\ u.out = (IF a.next_phase \in {p, "IDLE"} THEN a.out ELSE <<>>)
          /\ u.phase = p /\ u.next_phase = "IDLE" /\ u.signal = "none"
      BY <2>1, <2>2, SetPhase
    <2>4. u.out = a.out /\ u.phase = a.next_phase
      BY <2>3 DEF p
    <2>5. KeepsBlock(x, u) /\ KeepsTimers(x, u)
      BY ONLY <1>1, <2>3, KeepsTimers(x, a) DEF KeepsBlock, KeepsTimers
    <2>6. x.t24_is \in SenderTimers => u.t24_is \in SenderTimers
      BY <2>5 DEF KeepsTimers
    <2> QED
      BY <1>1, <1>2, <2>3, <2>4, <2>5, <2>6 DEF CarrierLost
  <1>3. CASE x.next_phase = "IDLE"
    <2>1. \/ u = a
          \/ x.t24_is \notin SenderTimers /\ u = start_timer(a, "T2_DROPPED")
          \/ u = start_timer(a, "T4_DROPPED")
      BY <1>1, <1>3 DEF AfterCarrier, KeepsTimers, SenderTimers
    <2>2. /\ u \in EndRecord /\ KeepsBlock(a, u) /\ KeepsLine(a, u)
          /\ u.state = a.state /\ u.step = a.step /\ u.status = a.status
          /\ x.t24_is \in SenderTimers => u.t24_is \in SenderTimers
      <3>1. ASSUME NEW k \in {"T2_DROPPED", "T4_DROPPED"}, u = start_timer(a, k)
            PROVE  /\ u \in EndRecord /\ KeepsBlock(a, u) /\ KeepsLine(a, u)
                   /\ u.state = a.state /\ u.step = a.step /\ u.status = a.status /\ u.t24_is = k
        BY <3>1, StartTimer
      <3>2. "T4_DROPPED" \in SenderTimers
        BY DEF SenderTimers
      <3>3. CASE u = a
        BY <3>3 DEF KeepsTimers, KeepsBlock, KeepsLine
      <3> QED
        BY <2>1, <3>1, <3>2, <3>3
    <2>3. KeepsBlock(x, u)
      BY ONLY <1>1, <2>2 DEF KeepsBlock
    <2> QED
      BY <1>1, <1>3, <2>2, <2>3 DEF CarrierLost, KeepsLine
  <1> QED
    BY <1>2, <1>3

LEMMA SenderLosesCarrier ==
    ASSUME NEW x, NEW y, Pair(x, y), x.signal # "none", x.state # "D", y.phase \notin Slow,
           NEW u, CarrierLost(x, u), u.status = x.status, u.t24_is \in SenderTimers,
           x.next_phase # "IDLE" => KeepsTimers(x, u)
    PROVE  Pair(u, y)
  <1>1. /\ Receiver(y) /\ Line(y) /\ Sender(x) /\ x \in EndRecord /\ Line(x) /\ SenderLine(x) /\ SenderPlace(x)
        /\ InStep(x, y) /\ Turns(x, y)
    BY DEF Pair, Sender, Receiver
  <1>2. /\ u \in EndRecord /\ KeepsBlock(x, u) /\ u.state = x.state /\ u.step = x.step
        /\ u.signal = "none" /\ u.next_phase = "IDLE" /\ u.out = x.out
        /\ u.phase = IF x.next_phase = "IDLE" THEN x.phase ELSE x.next_phase
    BY DEF CarrierLost
  <1>3. /\ x.phase = "D_RX" /\ x.state \notin {"B", "CALL_FINISHED"} /\ ~Sending(x)
        /\ x.next_phase \in {"IDLE", "C_ECM_TX", "D_TX"} /\ y.signal = "none"
        /\ x.next_phase = "IDLE" => x.out = <<>>
    BY <1>1, LineIsFree DEF SenderLine, Turns, Slow
  <1>4. Line(u)
    BY <1>2, <1>3 DEF Line, Sending, Slow
  <1>5. SenderLine(u)
    <2>1. u.out # <<>> => SenderSays(u, Head(u.out)) \/ u.state = "CALL_FINISHED"
      BY <1>1, <1>2, SaysTheSame DEF SenderLine
    <2>2. u.state = "IV" => u.t24 = 0 /\ u.t1 = 0
      BY <1>1, <1>2, <1>3 DEF SenderLine, KeepsTimers
    <2>3. u.phase = "C_ECM_TX" \/ u.next_phase = "C_ECM_TX" <=> u.state = "IV"
      BY <1>1, <1>2, <1>3 DEF SenderLine
    <2> QED
      BY <1>1, <1>2, <1>3, <2>1, <2>2, <2>3 DEF SenderLine
  <1>6. SenderPlace(u)
    BY <1>1, <1>2, SenderPlaceKept
  <1>7. InStep(u, y)
    <2>1. ~Late(x, y)
      BY <1>1 DEF InStep
    <2> QED
      BY <1>1, <1>2, <2>1, InStepSender
  <1>8. Turns(u, y)
    <2>1. u.state = "IV" => Sending(u)
      BY <1>2, <1>5 DEF SenderLine, Sending
    <2>2. ~(y.state = "F_POST_RCP_MCF" /\ y.next_rx = "MPS" /\ ~Sending(y))
      BY <1>1, <1>3 DEF Turns
    <2> QED
      BY <1>2, <1>3, <2>1, <2>2 DEF Turns
  <1> QED
    BY <1>1, <1>2, <1>4, <1>5, <1>6, <1>7, <1>8 DEF Pair, Sender

\* Of the two carriers at most one is noticed, so the sender has nothing queued.
LEMMA ReceiverHeardIt ==
    ASSUME NEW x, NEW y, Pair(x, y), y.signal # "none"
    PROVE  /\ x.signal = "none" /\ x.next_phase = "IDLE" /\ ~Late(x, y) /\ (x.state = "IV" => Sending(x))
           /\ y.phase \in {"C_ECM_RX", "B_RX", "D_RX"} /\ ~Sending(y) /\ y.state \notin {"B", "CALL_FINISHED"}
           /\ y \in EndRecord /\ x \in EndRecord
  <1>1. /\ Receiver(y) /\ y \in EndRecord /\ Line(y) /\ Sender(x) /\ x \in EndRecord /\ Line(x)
        /\ InStep(x, y) /\ Turns(x, y)
    BY DEF Pair, Sender, Receiver
  <1>2. x.signal = "none" /\ (x.state = "IV" => Sending(x))
    BY <1>1 DEF Turns
  <1>3. x.next_phase = "IDLE"
    BY <1>1, <1>2 DEF Line
  <1>4. ~Late(x, y)
    BY <1>1, <1>2 DEF InStep
  <1>5. y.phase \in {"C_ECM_RX", "B_RX", "D_RX"} /\ ~Sending(y) /\ y.state \notin {"B", "CALL_FINISHED"}
    BY <1>1, LineIsFree
  <1> QED
    BY <1>1, <1>2, <1>3, <1>4, <1>5

LEMMA ReceiverLosesCarrier ==
    ASSUME NEW x, NEW y, Pair(x, y), y.signal # "none",
           NEW v, CarrierLost(y, v), v.status \in {y.status} \/ v.status # "OK"
    PROVE  Pair(x, v)
  <1>1. /\ Receiver(y) /\ y \in EndRecord /\ Line(y) /\ ReceiverLine(y) /\ ReceiverPlace(y)
        /\ InStep(x, y) /\ Turns(x, y) /\ Sender(x)
    BY DEF Pair, Receiver
  <1>2. /\ v \in EndRecord /\ KeepsBlock(y, v) /\ v.state = y.state
        /\ v.signal = "none" /\ v.next_phase = "IDLE" /\ v.out = y.out
        /\ v.phase = IF y.next_phase = "IDLE" THEN y.phase ELSE y.next_phase
    BY DEF CarrierLost
  <1>3. /\ x.signal = "none" /\ x.next_phase = "IDLE" /\ ~Late(x, y) /\ (x.state = "IV" => Sending(x))
        /\ y.phase \in {"C_ECM_RX", "B_RX", "D_RX"} /\ ~Sending(y) /\ y.state \notin {"B", "CALL_FINISHED"}
        /\ y.next_phase \in Queable
    BY <1>1, ReceiverHeardIt, Fields
  <1>4. Line(v)
    BY <1>1, <1>2, <1>3 DEF Line, Sending, Slow, Queable
  <1>5. Receiving(v) <=> Receiving(y)
    BY <1>2 DEF Receiving
  <1>6. ReceiverLine(v)
    <2>1. v.out # <<>> => ReceiverSays(v, Head(v.out)) \/ v.state = "CALL_FINISHED"
      BY <1>1, <1>2 DEF ReceiverLine, ReceiverSays, KeepsBlock
    <2> QED
      BY <1>1, <1>2, <1>3, <1>5, <2>1 DEF ReceiverLine, Queable
  <1>7. ReceiverPlace(v)
    BY <1>1, <1>2, <1>5, ReceiverPlaceKept
  <1>8. InStep(x, v)
    BY <1>1, <1>2, <1>3, <1>5, InStepReceiver
  <1>9. Turns(x, v)
    <2>1. v.next_rx = y.next_rx
      BY <1>2 DEF KeepsBlock
    <2>2. ~(v.state = "F_POST_RCP_MCF" /\ v.next_rx = "MPS" /\ ~Sending(v))
      BY <1>1, <1>2, <1>3, <2>1 DEF Turns, Sending, Slow
    <2> QED
      BY <1>2, <1>3, <2>2 DEF Turns
  <1> QED
    BY <1>1, <1>2, <1>4, <1>6, <1>7, <1>8, <1>9 DEF Pair, Receiver

LEMMA SenderCarrierDown ==
    ASSUME NEW x, NEW y, Pair(x, y), Hears(x) \notin {"none", Carrier(y)}, x.state # "D", NEW u, u = carrier_down(x)
    PROVE  Pair(u, y)
  <1> DEFINE n == "none"
             a == Signalled(x, n)
  <1>1. Sender(x) /\ x \in EndRecord /\ SenderLine(x)
    BY DEF Pair, Sender
  <1>2. x.signal = "slow" /\ x.signal # "none" /\ x.state # "F_DOC_ECM"
    BY <1>1 DEF SenderLine, Hears, Asking, Ending, Ended
  <1>3. y.phase \notin Slow
    BY <1>2 DEF Hears, Carrier, Sending
  <1>4. u = AfterCarrier(a)
    BY <1>2 DEF carrier_down, Signalled
  <1>5. n \in Signals
    BY DEF Signals
  <1> HIDE DEF n
  <1>6. a \in EndRecord /\ KeepsRest(x, a) /\ KeepsTimers(x, a) /\ a.status = x.status /\ a.signal = "none"
    BY <1>1, <1>5, SetSignal DEF n
  <1> HIDE DEF a
  <1>7. /\ CarrierLost(x, u) /\ u.status = x.status
        /\ x.t24_is \in SenderTimers => u.t24_is \in SenderTimers
        /\ x.next_phase # "IDLE" => KeepsTimers(x, u)
    BY <1>1, <1>4, <1>6, AfterTheCarrier
  <1>8. u.t24_is \in SenderTimers
    BY <1>1, <1>7 DEF SenderLine
  <1> QED
    BY <1>2, <1>3, <1>7, <1>8, SenderLosesCarrier

\* Image data ended without the RCP that should end them.
LEMMA ImageEnded ==
    ASSUME NEW x, NEW y, Pair(x, y), y.signal # "none", y.state = "F_DOC_ECM",
           NEW a \in EndRecord, KeepsRest(y, a), a.signal = "none", NEW v, v = AfterCarrier(EndOfBlock(a))
    PROVE  Pair(x, v)
  <1> DEFINE s == "F_POST_DOC_ECM"
             b == set_state(a, s)
             c == queue_phase(b, "D_RX")
             d == start_timer(c, "T2")
             e == CarrierFound(d)
  <1>1. /\ Receiver(y) /\ y \in EndRecord /\ Line(y) /\ ReceiverLine(y) /\ ReceiverPlace(y)
        /\ InStep(x, y) /\ Turns(x, y) /\ Sender(x)
    BY DEF Pair, Receiver
  <1>2. /\ x.signal = "none" /\ x.next_phase = "IDLE" /\ ~Late(x, y) /\ (x.state = "IV" => Sending(x))
        /\ y.phase \in {"C_ECM_RX", "B_RX", "D_RX"} /\ ~Sending(y)
    BY <1>1, ReceiverHeardIt
  <1>3. s \in States /\ "D_RX" \in Phases
    BY DEF States, Phases
  <1>4. b \in EndRecord /\ KeepsBlock(a, b) /\ KeepsLine(a, b) /\ b.state = s
    BY <1>3, SetState
  <1> HIDE DEF b
  <1>5. c = set_phase(b, "D_RX")
    BY <1>4 DEF KeepsLine, queue_phase, Present
  <1>6. /\ c \in EndRecord /\ KeepsBlock(b, c) /\ c.state = b.state
        /\ c.phase = "D_RX" /\ c.next_phase = "IDLE" /\ c.signal = "none"
    BY <1>3, <1>4, <1>5, SetPhase
  <1>7. c.out = <<>>
    <2>1. c.out = (IF b.next_phase \in {"D_RX", "IDLE"} THEN b.out ELSE <<>>)
      BY <1>3, <1>4, <1>5, SetPhase
    <2>2. b.next_phase = y.next_phase /\ b.out = y.out
      BY <1>4 DEF KeepsLine, KeepsRest
    <2>3. y.next_phase \in {"D_RX", "IDLE"} => y.out = <<>>
      BY <1>1, <1>2, y.state = "F_DOC_ECM" DEF Line, Slow
    <2> QED
      BY <2>1, <2>2, <2>3
  <1> HIDE DEF c
  <1>8. d \in EndRecord /\ KeepsBlock(c, d) /\ KeepsLine(c, d) /\ d.state = c.state /\ d.t24_is = "T2"
    BY <1>6, StartTimer
  <1> HIDE DEF d
  <1>9. e \in EndRecord /\ KeepsBlock(d, e) /\ KeepsLine(d, e) /\ e.state = d.state /\ e.t24_is = "T2"
    BY <1>8, CarrierWasFound DEF KeepsTimers
  <1>10. e = EndOfBlock(a)
    BY DEF EndOfBlock, b, c, d
  <1> HIDE DEF e
  <1>11. v = e
    BY <1>6, <1>8, <1>9, <1>10 DEF KeepsLine, AfterCarrier
  <1>12. /\ v \in EndRecord /\ KeepsBlock(y, v) /\ v.state = "F_POST_DOC_ECM" /\ v.phase = "D_RX"
         /\ v.next_phase = "IDLE" /\ v.signal = "none" /\ v.out = <<>>
    <2>1. v \in EndRecord /\ v.state = "F_POST_DOC_ECM"
      BY ONLY <1>4, <1>6, <1>8, <1>9, <1>11 DEF s
    <2>2. KeepsBlock(y, v)
      BY ONLY KeepsRest(y, a), <1>4, <1>6, <1>8, <1>9, <1>11 DEF KeepsRest, KeepsBlock
    <2>3. v.phase = "D_RX" /\ v.next_phase = "IDLE" /\ v.signal = "none" /\ v.out = <<>>
      BY ONLY <1>6, <1>7, <1>8, <1>9, <1>11 DEF KeepsLine
    <2> QED
      BY <2>1, <2>2, <2>3
  <1>13. Line(v)
    BY <1>12, LineListens
  <1>14. ReceiverLine(v)
    BY <1>12 DEF ReceiverLine
  <1>15. ReceiverPlace(v)
    BY <1>1, <1>12, ReceiverPlaceKept, y.state = "F_DOC_ECM" DEF Receiving, Answering, Ended
  <1>16. InStep(x, v)
    BY <1>1, <1>2, <1>12, InStepReceiver, y.state = "F_DOC_ECM" DEF Receiving, Answering
  <1>17. Turns(x, v)
    BY <1>2, <1>12 DEF Turns
  <1> QED
    BY <1>1, <1>12, <1>13, <1>14, <1>15, <1>16, <1>17 DEF Pair, Receiver

LEMMA ReceiverCarrierDown ==
    ASSUME NEW x, NEW y, Pair(x, y), y.signal # "none", NEW v, v = carrier_down(y)
    PROVE  Pair(x, v)
  <1> DEFINE n == "none"
             a == Signalled(y, n)
             b == set_status(a, "RX_NOCARRIER")
  <1>1. y \in EndRecord
    BY DEF Pair, Receiver
  <1>2. n \in Signals /\ "RX_NOCARRIER" \in Status
    BY DEF Signals, Status
  <1>3. \/ y.state = "F_DOC_ECM" /\ v = AfterCarrier(EndOfBlock(a))
        \/ v = AfterCarrier(b)
        \/ v = AfterCarrier(a)
    BY DEF carrier_down, Signalled
  <1> HIDE DEF n
  <1>4. a \in EndRecord /\ KeepsRest(y, a) /\ KeepsTimers(y, a) /\ a.status = y.status /\ a.signal = "none"
    BY <1>1, <1>2, SetSignal DEF n
  <1> HIDE DEF a
  <1>5. CASE y.state = "F_DOC_ECM" /\ v = AfterCarrier(EndOfBlock(a))
    BY <1>4, <1>5, ImageEnded
  <1>6. CASE v = AfterCarrier(a)
    <2>1. CarrierLost(y, v) /\ v.status = a.status
      BY <1>1, <1>4, <1>6, AfterTheCarrier
    <2> QED
      BY <1>4, <2>1, ReceiverLosesCarrier
  <1>7. CASE v = AfterCarrier(b)
    <2>1. /\ b \in EndRecord /\ KeepsBlock(a, b) /\ KeepsLine(a, b) /\ KeepsTimers(a, b)
          /\ b.state = a.state /\ b.step = a.step /\ b.status = "RX_NOCARRIER"
      BY <1>2, <1>4, SetStatus
    <2> HIDE DEF b
    <2>2. KeepsRest(y, b) /\ KeepsTimers(y, b) /\ b.signal = "none"
      <3>1. KeepsBlock(y, b)
        BY ONLY <1>4, <2>1 DEF KeepsRest, KeepsBlock
      <3> QED
        BY <1>4, <2>1, <3>1 DEF KeepsRest, KeepsLine, KeepsTimers
    <2>3. CarrierLost(y, v) /\ v.status = b.status
      BY <1>1, <1>7, <2>1, <2>2, AfterTheCarrier
    <2> QED
      BY <2>1, <2>3, ReceiverLosesCarrier
  <1> QED
    BY <1>3, <1>5, <1>6, <1>7

-----------------------------------------------------------------------------
(* What the sender sends is complete.                                       *)

\* It holds the line.
LEMMA SenderHasLine ==
    ASSUME NEW x, NEW y, Pair(x, y), Sending(x) \/ x.phase = "E"
    PROVE  /\ x \in EndRecord /\ Line(x) /\ SenderLine(x) /\ SenderPlace(x) /\ Sender(x) /\ Receiver(y)
           /\ InStep(x, y) /\ Turns(x, y) /\ y \in EndRecord
           /\ x.signal = "none" /\ x.next_phase = "IDLE" /\ x.state # "CALL_FINISHED" /\ Free(x) = (x.out = <<>>)
           /\ ~Late(x, y) /\ (x.state = "IV" => x.phase = "C_ECM_TX")
           /\ ~Sending(x) => x.state = "B"
  <1>1. /\ x \in EndRecord /\ Line(x) /\ SenderLine(x) /\ SenderPlace(x) /\ Sender(x) /\ Receiver(y) /\ y \in EndRecord
        /\ InStep(x, y) /\ Turns(x, y)
    BY DEF Pair, Sender, Receiver
  <1>2. x.signal = "none" /\ x.next_phase = "IDLE" /\ x.state # "CALL_FINISHED" /\ (~Sending(x) => x.state = "B")
    BY <1>1 DEF Line, Sending, Slow
  <1>3. x.state = "IV" => x.phase = "C_ECM_TX"
    BY <1>1, <1>2 DEF SenderLine
  <1>4. ~Late(x, y)
    BY <1>1, <1>3 DEF InStep, Sending
  <1> QED
    BY <1>1, <1>2, <1>3, <1>4 DEF Free

\* It goes on, or ends, or lets the receiver speak.
LEMMA SenderGoesOn ==
    ASSUME NEW x, NEW y, Pair(x, y), Sending(x) \/ x.phase = "E", NEW u, Sender(u),
           KeepsBlock(x, u) \/ KeepsHeld(x, u), u.signal = "none", u.next_phase = "IDLE",
           u.state = x.state \/ (x.state \in {"B", "C"} /\ u.state \in Ended), u.state = "IV" => Sending(u),
           u.out # <<>> => u.state \notin Asking
    PROVE  Pair(u, y)
  <1>1. Receiver(y) /\ InStep(x, y) /\ Turns(x, y) /\ ~Late(x, y)
    BY SenderHasLine
  <1>2. InStep(u, y)
    BY <1>1, InStepSender
  <1>3. Turns(u, y)
    <2>1. y.state = "F_POST_RCP_MCF" /\ y.next_rx = "MPS" /\ ~Sending(y) =>
             y.signal = "slow" /\ y.next_phase = "D_TX" /\ u.state \in Asking
      BY <1>1 DEF Turns, Asking
    <2> QED
      BY <1>1, <2>1 DEF Turns
  <1> QED
    BY <1>1, <1>2, <1>3 DEF Pair

LEMMA FinalPause ==
    ASSUME NEW x \in EndRecord, x.next_phase = "IDLE", NEW u, u = start_final_pause(x)
    PROVE  /\ u \in EndRecord /\ KeepsBlock(x, u)
           /\ u.state = "B" /\ u.step = 0 /\ u.status = x.status /\ u.t24 = 0 /\ u.t1 = 0 /\ u.t24_is = x.t24_is
           /\ u.phase = "E" /\ u.next_phase = "IDLE" /\ u.signal = "none" /\ u.out = x.out
  <1> DEFINE a == StopAll(x)
             b == set_phase(a, "E")
  <1>1. /\ a \in EndRecord /\ KeepsBlock(x, a) /\ KeepsLine(x, a)
        /\ a.t24 = 0 /\ a.t1 = 0 /\ a.t24_is = x.t24_is /\ a.status = x.status
    <2> DEFINE n == 0
               m == 0
    <2>1. a = [x EXCEPT !.t24 = n, !.t1 = n, !.t5 = m]
      BY DEF StopAll
    <2>2. n \in 0 .. T1 /\ m \in 0 .. 1
      BY Constants
    <2> HIDE DEF n, m, a
    <2>3. a \in EndRecord
      BY ONLY <2>1, <2>2, x \in EndRecord DEF EndRecord
    <2>4. KeepsBlock(x, a) /\ a.t24 = n /\ a.t1 = n /\ a.t24_is = x.t24_is /\ a.status = x.status
      BY ONLY <2>1, x \in EndRecord DEF EndRecord, KeepsBlock
    <2>5. KeepsLine(x, a)
      BY ONLY <2>1, x \in EndRecord DEF EndRecord, KeepsLine
    <2> QED
      BY <2>3, <2>4, <2>5 DEF n
  <1>2. u = set_state(b, "B")
    BY DEF start_final_pause
  <1> HIDE DEF a
  <1>3. "B" \in States /\ "E" \in Phases
    BY DEF States, Phases
  <1>4. /\ b \in EndRecord /\ KeepsBlock(a, b) /\ KeepsTimers(a, b) /\ b.status = a.status
        /\ b.out = (IF a.next_phase \in {"E", "IDLE"} THEN a.out ELSE <<>>)
        /\ b.phase = "E" /\ b.next_phase = "IDLE" /\ b.signal = "none"
    BY <1>1, <1>3, SetPhase
  <1> HIDE DEF b
  <1>5. b.out = x.out
    BY <1>1, <1>4 DEF KeepsLine
  <1>6. /\ u \in EndRecord /\ KeepsBlock(b, u) /\ KeepsTimers(b, u) /\ KeepsLine(b, u)
        /\ u.state = "B" /\ u.step = 0 /\ u.status = b.status
    BY <1>2, <1>3, <1>4, SetState
  <1>7. KeepsBlock(x, u)
    BY ONLY <1>1, <1>4, <1>6 DEF KeepsBlock
  <1> QED
    BY <1>1, <1>4, <1>5, <1>6, <1>7 DEF KeepsTimers, KeepsLine

LEMMA Listening ==
    ASSUME NEW x \in EndRecord, x.out = <<>>, NEW p \in Phases, NEW k \in {"T2", "T4"}, NEW u, u = Listen(x, p, k)
    PROVE  /\ u \in EndRecord /\ KeepsBlock(x, u) /\ u.state = x.state /\ u.step = x.step /\ u.status = x.status
           /\ u.phase = p /\ u.next_phase = "IDLE" /\ u.signal = "none" /\ u.out = <<>>
           /\ u.t24_is = k /\ u.t1 = x.t1
  <1> DEFINE a == set_phase(x, p)
  <1>1. /\ a \in EndRecord /\ KeepsBlock(x, a) /\ KeepsTimers(x, a)
        /\ a.state = x.state /\ a.step = x.step /\ a.status = x.status
        /\ a.out = (IF x.next_phase \in {p, "IDLE"} THEN x.out ELSE <<>>)
        /\ a.phase = p /\ a.next_phase = "IDLE" /\ a.signal = "none"
    BY SetPhase
  <1>2. u = start_timer(a, k)
    BY DEF Listen
  <1> HIDE DEF a
  <1>3. a.out = <<>>
    BY <1>1
  <1>4. /\ u \in EndRecord /\ KeepsBlock(a, u) /\ KeepsLine(a, u)
        /\ u.state = a.state /\ u.step = a.step /\ u.status = a.status /\ u.t24_is = k /\ u.t1 = a.t1
    BY <1>1, <1>2, StartTimer
  <1>5. KeepsBlock(x, u)
    BY ONLY <1>1, <1>4 DEF KeepsBlock
  <1> QED
    BY <1>1, <1>3, <1>4, <1>5 DEF KeepsLine, KeepsTimers

\* The transmitter is shut down in one step more.
LEMMA SenderShutsDown ==
    ASSUME NEW x, NEW y, Pair(x, y), Sending(x) \/ x.phase = "E", x.out = <<>>,
           x.state = "IV" => x.cur >= x.ecm_frames, NEW n \in {1}, NEW u, u = [x EXCEPT !.step = n]
    PROVE  Pair(u, y)
  <1>1. /\ x \in EndRecord /\ Line(x) /\ SenderLine(x) /\ SenderPlace(x)
        /\ x.signal = "none" /\ x.next_phase = "IDLE" /\ (x.state = "IV" => x.phase = "C_ECM_TX")
    BY SenderHasLine
  <1>2. Alike(x, u) /\ u.step = 1
    <2>1. n \in 0 .. 1 /\ n = 1
      BY ZeroOne
    <2> QED
      BY <1>1, <2>1, SetStep
  <1>3. /\ u \in EndRecord /\ KeepsBlock(x, u) /\ KeepsLine(x, u) /\ KeepsTimers(x, u)
        /\ u.state = x.state /\ u.status = x.status
    BY <1>2 DEF Alike
  <1>4. Line(u)
    <2>1. u.state = "CALL_FINISHED" => u.t24 = 0 /\ u.t1 = 0
      BY <1>1, <1>3 DEF Line, KeepsTimers
    <2> QED
      BY <1>1, <1>3, <2>1, LineKept
  <1>5. SenderLine(u)
    BY <1>1, <1>3 DEF SenderLine, KeepsLine, KeepsTimers
  <1>6. SenderPlace(u)
    <2>1. /\ u.page = x.page /\ u.eop = x.eop /\ u.at_end = x.at_end /\ u.next_tx = x.next_tx
          /\ u.burst = x.burst /\ u.cur = x.cur /\ u.ecm_frames = x.ecm_frames
      BY <1>3 DEF KeepsBlock
    <2>2. (SenderBlock(x) => SenderBlock(u)) /\ (Full(u) <=> Full(x))
      BY <1>3, BlockKept
    <2> QED
      BY <1>1, <1>3, <2>1, <2>2 DEF SenderPlace
  <1>7. Sender(u)
    BY <1>3, <1>4, <1>5, <1>6 DEF Sender
  <1>8. u.signal = "none" /\ u.next_phase = "IDLE" /\ u.out = <<>> /\ (u.state = "IV" => Sending(u))
    BY <1>1, <1>3 DEF KeepsLine, Sending
  <1> QED
    BY <1>3, <1>7, <1>8, SenderGoesOn

LEMMA SenderNextFrame ==
    ASSUME NEW x, NEW y, Pair(x, y), Sending(x), x.out = <<>>, x.state = "IV", x.step = 0, MoreEcmFrames(x),
           NEW u, u = send_next_ecm_frame(x)
    PROVE  Pair(u, y)
  <1>1. /\ x \in EndRecord /\ Line(x) /\ SenderLine(x) /\ SenderPlace(x)
        /\ x.signal = "none" /\ x.next_phase = "IDLE" /\ x.phase = "C_ECM_TX"
    BY SenderHasLine
  <1>2. x.page < Len(Doc) /\ SenderBlock(x) /\ Counted(x) /\ ~x.eop
    BY <1>1 DEF SenderPlace, Counted, Ended
  <1>3. /\ u \in EndRecord /\ KeepsHeld(x, u) /\ KeepsTimers(x, u)
        /\ u.state = "IV" /\ u.step = 0 /\ u.status = x.status
        /\ u.phase = "C_ECM_TX" /\ u.next_phase = "IDLE" /\ u.signal = "none"
        /\ Counted(u)
    BY <1>1, <1>2, NextFrameSent
  <1>4. PICK f \in LineFrame : u.out = <<f>> /\ SenderSays(u, f)
    BY <1>1, <1>2, NextFrameSent
  <1>5. Line(u)
    BY <1>3 DEF Line, Sending
  <1>6. SenderLine(u)
    <2>1. Head(u.out) = f
      BY <1>4
    <2> QED
      BY <1>1, <1>3, <1>4, <2>1 DEF SenderLine, KeepsTimers
  <1>7. SenderPlace(u)
    <2>1. u.page = x.page /\ u.eop = x.eop /\ SenderBlock(u)
      BY <1>2, <1>3, HeldBlock DEF KeepsHeld
    <2> QED
      BY <1>2, <1>3, <2>1 DEF SenderPlace, Counted, Asking, Ended
  <1>8. Sender(u)
    BY <1>3, <1>5, <1>6, <1>7 DEF Sender
  <1>9. u.state = x.state /\ Sending(u) /\ u.state \notin Asking
    BY <1>3 DEF Sending, Asking
  <1> QED
    BY <1>3, <1>8, <1>9, SenderGoesOn

NextTx(x, k) == [x EXCEPT !.next_tx = k]

LEMMA NextTxFields ==
    ASSUME NEW x \in EndRecord, NEW k \in Steps, NEW u, u = NextTx(x, k)
    PROVE  /\ u \in EndRecord /\ KeepsLine(x, u) /\ KeepsTimers(x, u)
           /\ u.state = x.state /\ u.step = x.step /\ u.status = x.status /\ u.next_tx = k
           /\ u.page = x.page /\ u.ecm_block = x.ecm_block /\ u.read = x.read /\ u.at_end = x.at_end
           /\ u.ecm_len = x.ecm_len /\ u.ecm_frames = x.ecm_frames /\ u.burst = x.burst /\ u.cur = x.cur
           /\ u.fallback = x.fallback /\ u.eop = x.eop
  <1>1. u = [x EXCEPT !.next_tx = k]
    BY DEF NextTx
  <1>2. u \in EndRecord
    BY ONLY <1>1, k \in Steps, x \in EndRecord, ZenonT(40) DEF EndRecord
  <1>3. KeepsLine(x, u) /\ KeepsTimers(x, u)
    BY ONLY <1>1, x \in EndRecord DEF EndRecord, KeepsLine, KeepsTimers
  <1>4. /\ u.state = x.state /\ u.step = x.step /\ u.status = x.status /\ u.next_tx = k
        /\ u.page = x.page /\ u.ecm_block = x.ecm_block /\ u.read = x.read /\ u.at_end = x.at_end
    BY ONLY <1>1, x \in EndRecord DEF EndRecord
  <1>5. /\ u.ecm_len = x.ecm_len /\ u.ecm_frames = x.ecm_frames /\ u.burst = x.burst /\ u.cur = x.cur
        /\ u.fallback = x.fallback /\ u.eop = x.eop
    BY ONLY <1>1, x \in EndRecord DEF EndRecord
  <1> QED
    BY <1>2, <1>3, <1>4, <1>5

\* What is said after a page was decided: neither the block nor the place is
\* another.
LEMMA InStepNextTx ==
    ASSUME NEW x, NEW y, InStep(x, y), ~Late(x, y), NEW u, u.page = x.page, u.ecm_block = x.ecm_block,
           u.ecm_len = x.ecm_len, u.ecm_frames = x.ecm_frames, u.fallback = x.fallback, u.state = x.state
    PROVE  InStep(u, y) /\ ~Late(u, y)
  <1>1. /\ Place(u) = Place(x) /\ After(u) = After(x) /\ (Full(u) <=> Full(x))
    BY DEF Place, After, Blocks, Full
  <1>2. /\ AtOne(u, y) <=> AtOne(x, y)
        /\ Ahead(u, y) <=> Ahead(x, y)
        /\ Done(u, y) <=> Done(x, y)
        /\ Late(u, y) <=> Late(x, y)
    BY <1>1 DEF AtOne, Ahead, Done, Late
  <1>3. Stored(x, y) => Stored(u, y)
    BY <1>1 DEF Stored
  <1> QED
    BY ONLY InStep(x, y), <1>1, <1>2, <1>3, ~Late(x, y), u.page = x.page, u.fallback = x.fallback, u.state = x.state
       DEF InStep

LEMMA SenderBlockSent ==
    ASSUME NEW x, NEW y, Pair(x, y), Sending(x), x.out = <<>>, x.state = "IV", x.step = 1,
           Hears(y) \in {"none", "fast"}, NEW more \in EndSteps, NEW u, u = BlockSent(x, more)
    PROVE  Pair(u, y)
  <1> DEFINE k == IF x.at_end THEN NextStep(x, more) ELSE x.next_tx
             a == NextTx(x, k)
             b == set_phase(a, "D_TX")
             c == send_pps_frame(b)
             s == IF b.at_end THEN "IV_PPS_Q" ELSE "IV_PPS_NULL"
  <1>1. /\ x \in EndRecord /\ Line(x) /\ SenderLine(x) /\ SenderPlace(x) /\ Receiver(y) /\ y \in EndRecord
        /\ x.signal = "none" /\ x.next_phase = "IDLE" /\ InStep(x, y) /\ Turns(x, y) /\ ~Late(x, y)
    BY SenderHasLine
  <1>2. u = set_state(c, s)
    BY DEF BlockSent, NextTx
  <1>3. k \in Steps /\ s \in States /\ "D_TX" \in Phases
    BY <1>1, Fields, T30EcmAssumption DEF Steps, NextStep, States, Phases
  <1>4. x.at_end => IF x.page + 1 < Len(Doc) THEN k = "MPS" ELSE k \in {"EOP", "EOM"}
    BY T30EcmAssumption DEF NextStep
  <1> HIDE DEF k
  <1>5. /\ a \in EndRecord /\ KeepsLine(x, a) /\ KeepsTimers(x, a)
        /\ a.state = x.state /\ a.step = x.step /\ a.status = x.status /\ a.next_tx = k
        /\ a.page = x.page /\ a.ecm_block = x.ecm_block /\ a.read = x.read /\ a.at_end = x.at_end
        /\ a.ecm_len = x.ecm_len /\ a.ecm_frames = x.ecm_frames /\ a.burst = x.burst /\ a.cur = x.cur
        /\ a.fallback = x.fallback /\ a.eop = x.eop
    BY <1>1, <1>3, NextTxFields
  <1> HIDE DEF a
  <1>6. /\ b \in EndRecord /\ KeepsBlock(a, b) /\ KeepsTimers(a, b)
        /\ b.state = a.state /\ b.step = a.step /\ b.status = a.status
        /\ b.phase = "D_TX" /\ b.next_phase = "IDLE" /\ b.signal = "none" /\ b.out = <<>>
    <2>1. a.out = <<>>
      BY <1>5 DEF KeepsLine
    <2>2. b.out = (IF a.next_phase \in {"D_TX", "IDLE"} THEN a.out ELSE <<>>)
      BY <1>3, <1>5, SetPhase
    <2> QED
      BY <1>3, <1>5, <2>1, <2>2, SetPhase
  <1> HIDE DEF b
  <1>7. /\ c \in EndRecord /\ KeepsBlock(b, c) /\ KeepsTimers(b, c)
        /\ c.phase = b.phase /\ c.next_phase = b.next_phase /\ c.signal = b.signal
        /\ \E f \in LineFrame :
              /\ c.out = <<f>>
              /\ \A w : KeepsBlock(b, w) /\ w.state \in {"IV_PPS_NULL", "IV_PPS_Q"} => SenderSays(w, f)
    BY <1>6, PpsSent
  <1> HIDE DEF c
  <1>8. /\ u \in EndRecord /\ KeepsBlock(c, u) /\ KeepsLine(c, u) /\ KeepsTimers(c, u)
        /\ u.state = s
    BY <1>2, <1>3, <1>7, SetState
  <1>9. s \in {"IV_PPS_NULL", "IV_PPS_Q"} /\ s \in Asking
    BY DEF Asking
  <1> HIDE DEF s
  <1>10. KeepsBlock(a, u) /\ KeepsBlock(b, u)
    BY ONLY <1>6, <1>7, <1>8 DEF KeepsBlock
  <1>11. u.phase = "D_TX" /\ u.next_phase = "IDLE" /\ u.signal = "none" /\ u.out = c.out
    BY <1>6, <1>7, <1>8 DEF KeepsLine
  <1>12. PICK f \in LineFrame : u.out = <<f>> /\ SenderSays(u, f)
    BY <1>7, <1>8, <1>9, <1>10, <1>11
  <1>13. Line(u)
    BY <1>8, <1>9, <1>11 DEF Line, Sending, Slow
  <1>14. SenderLine(u)
    <2>1. Head(u.out) = f
      BY <1>12
    <2>2. u.t24_is = x.t24_is
      BY ONLY <1>5, <1>6, <1>7, <1>8 DEF KeepsTimers
    <2> QED
      BY <1>1, <1>8, <1>9, <1>11, <1>12, <2>1, <2>2 DEF SenderLine, Asking
  <1>15. SenderPlace(u)
    <2>1. /\ u.page = x.page /\ u.at_end = x.at_end /\ u.next_tx = k /\ u.eop = x.eop
          /\ u.burst = x.burst /\ u.ecm_frames = x.ecm_frames /\ u.ecm_len = x.ecm_len
      BY <1>5, <1>10 DEF KeepsBlock
    <2>2. x.page < Len(Doc) /\ SenderBlock(x) /\ ~x.eop
      BY <1>1 DEF SenderPlace, Ended
    <2>3. SenderBlock(u)
      <3>1. SenderBlock(a)
        BY <1>5, <2>2 DEF SenderBlock, Blocks
      <3> QED
        BY <1>10, <3>1, BlockKept
    <2>4. Full(u) => u.burst = u.ecm_frames
      <3>1. x.cur \in Nat /\ x.ecm_frames \in Int /\ x.cur >= x.ecm_frames
        <4>1. x.ecm_frames \in 1 .. EcmFrames /\ EcmFrames \in Nat \ {0} /\ x.cur \in 0 .. EcmFrames + 3
          BY <1>1, <2>2, BlockFacts, Fields
        <4>2. x.cur >= x.ecm_frames
          BY <1>1 DEF SenderPlace
        <4> QED
          BY ONLY <4>1, <4>2
      <3>2. Full(x) => x.burst = x.ecm_frames
        BY <1>1, <3>1 DEF SenderPlace
      <3>3. Full(u) <=> Full(x)
        BY <2>1 DEF Full
      <3> QED
        BY <2>1, <3>2, <3>3
    <2> QED
      BY <1>4, <1>8, <1>9, <2>1, <2>2, <2>3, <2>4 DEF SenderPlace, Asking, Ended
  <1>16. InStep(u, y)
    <2>1. InStep(a, y) /\ ~Late(a, y)
      BY <1>1, <1>5, InStepNextTx
    <2>2. u.state \in Asking /\ a.state \in Asking \cup {"IV"}
      BY <1>5, <1>8, <1>9
    <2> QED
      BY <1>10, <2>1, <2>2, InStepSender
  <1>17. Turns(u, y)
    <2>1. y.signal # "slow"
      BY DEF Hears
    <2>2. ~(y.state = "F_POST_RCP_MCF" /\ y.next_rx = "MPS" /\ ~Sending(y))
      BY <1>1, <2>1 DEF Turns
    <2>3. u.state # "IV"
      BY <1>8, <1>9
    <2> QED
      BY <1>11, <2>1, <2>2, <2>3 DEF Turns
  <1> QED
    BY <1>1, <1>8, <1>13, <1>14, <1>15, <1>16, <1>17 DEF Pair, Sender

LEMMA SenderMessageSent ==
    ASSUME NEW x, NEW y, Pair(x, y), Sending(x) \/ x.phase = "E", x.out = <<>>, x.state \in OneFrame,
           NEW u, u = MessageSent(x)
    PROVE  Pair(u, y)
  <1>1. /\ x \in EndRecord /\ Line(x) /\ SenderLine(x) /\ SenderPlace(x) /\ Sender(x)
        /\ x.signal = "none" /\ x.next_phase = "IDLE"
    BY SenderHasLine
  <1>2. CASE x.state = "C"
    <2>1. u = start_final_pause(x)
      BY <1>2 DEF MessageSent
    <2>2. /\ u \in EndRecord /\ KeepsBlock(x, u)
          /\ u.state = "B" /\ u.step = 0 /\ u.status = x.status /\ u.t24 = 0 /\ u.t1 = 0 /\ u.t24_is = x.t24_is
          /\ u.phase = "E" /\ u.next_phase = "IDLE" /\ u.signal = "none" /\ u.out = <<>>
      BY <1>1, <2>1, FinalPause
    <2>3. Line(u)
      BY <2>2 DEF Line
    <2>4. SenderLine(u)
      BY <1>1, <2>2 DEF SenderLine, Ended
    <2>5. SenderPlace(u)
      <3>1. u.page = x.page /\ u.eop = x.eop
        BY <2>2 DEF KeepsBlock
      <3> QED
        BY <1>1, <1>2, <2>2, <3>1, BlockKept DEF SenderPlace, Ended, Asking
    <2>6. Sender(u)
      BY <2>2, <2>3, <2>4, <2>5 DEF Sender
    <2>7. u.state \in Ended
      BY <2>2 DEF Ended
    <2> QED
      BY <1>2, <2>2, <2>6, <2>7, SenderGoesOn
  <1>3. CASE x.state # "C"
    <2>1. x.state \in {"IV_PPS_NULL", "IV_PPS_Q", "IV_PPS_RNR", "IV_EOR", "IV_EOR_RNR", "IV_CTC"}
      BY <1>1, <1>3 DEF SenderLine, Asking, Ending, Ended, OneFrame
    <2>2. u = Listen(x, "D_RX", "T4")
      BY <2>1 DEF MessageSent
    <2>3. "D_RX" \in Phases
      BY DEF Phases
    <2>4. /\ u \in EndRecord /\ KeepsBlock(x, u) /\ u.state = x.state /\ u.step = x.step /\ u.status = x.status
          /\ u.phase = "D_RX" /\ u.next_phase = "IDLE" /\ u.signal = "none" /\ u.out = <<>>
          /\ u.t24_is = "T4"
      BY <1>1, <2>2, <2>3, Listening
    <2>5. Line(u)
      BY <2>1, <2>4, LineListens
    <2>6. SenderLine(u)
      BY <1>1, <2>1, <2>4 DEF SenderLine, SenderTimers
    <2>7. SenderPlace(u)
      BY <1>1, <2>4, SenderPlaceKept
    <2>8. Sender(u)
      BY <2>4, <2>5, <2>6, <2>7 DEF Sender
    <2>9. u.state # "IV"
      BY <2>1, <2>4
    <2> QED
      BY <2>4, <2>8, <2>9, SenderGoesOn
  <1> QED
    BY <1>2, <1>3

LEMMA SenderStepped ==
    ASSUME NEW x, NEW y, Pair(x, y), Sending(x) \/ x.phase = "E", x.out = <<>>, Hears(y) \in {"none", Carrier(x)},
           x.state \in Handled, NEW more \in EndSteps, NEW u, u = send_step_complete(x, more)
    PROVE  Pair(u, y)
  <1>1. /\ x \in EndRecord /\ Line(x) /\ SenderLine(x) /\ SenderPlace(x) /\ Sender(x)
        /\ x.signal = "none" /\ x.next_phase = "IDLE" /\ (x.state = "IV" => x.phase = "C_ECM_TX")
    BY SenderHasLine
  <1>2. x.step \in {0, 1}
    <2>1. x.step \in 0 .. 1
      BY <1>1, Fields
    <2> QED
      BY ONLY <2>1
  <1>3. CASE x.state = "B"
    <2>1. u = terminate_call(x)
      BY <1>3 DEF send_step_complete, OneFrame
    <2>2. /\ u \in EndRecord /\ KeepsBlock(x, u)
          /\ u.state = "CALL_FINISHED" /\ u.status = x.status /\ u.t24 = 0 /\ u.t1 = 0 /\ u.t24_is = x.t24_is
          /\ u.phase = "CALL_FINISHED" /\ u.next_phase = "IDLE" /\ u.signal = "none"
      BY <1>1, <2>1, Terminate
    <2>3. u.status # "OK" \/ x.page = Len(Doc)
      BY <1>1, <1>3, <2>2 DEF SenderPlace, Ended
    <2>4. Sender(u)
      BY <1>1, <2>2, <2>3, SenderFinished
    <2>5. u.state \in Ended /\ u.state \notin Asking
      BY <2>2 DEF Ended, Asking
    <2> QED
      BY <1>3, <2>2, <2>4, <2>5, SenderGoesOn
  <1>4. CASE x.state = "IV"
    <2>1. Sending(x) /\ Hears(y) \in {"none", "fast"}
      BY <1>1, <1>4 DEF Sending, Carrier, Slow
    <2>2. CASE x.step = 0 /\ MoreEcmFrames(x)
      <3>1. u = send_next_ecm_frame(x)
        BY <1>4, <2>2 DEF send_step_complete, OneFrame
      <3> QED
        BY <1>4, <2>1, <2>2, <3>1, SenderNextFrame
    <2>3. CASE x.step = 0 /\ ~MoreEcmFrames(x)
      <3> DEFINE n == 1
      <3>1. u = [x EXCEPT !.step = n]
        BY <1>4, <2>3 DEF send_step_complete, OneFrame
      <3>2. x.cur >= x.ecm_frames
        <4>1. x.page < Len(Doc) /\ SenderBlock(x)
          BY <1>1, <1>4 DEF SenderPlace, Ended
        <4>2. x.ecm_frames \in 1 .. EcmFrames /\ EcmFrames \in Nat \ {0} /\ x.cur \in 0 .. EcmFrames + 3
          BY <1>1, <4>1, BlockFacts, Fields
        <4>3. ~(x.cur < x.ecm_frames + 3)
          BY <2>3 DEF MoreEcmFrames
        <4> QED
          BY ONLY <4>2, <4>3
      <3>3. n \in {1}
        OBVIOUS
      <3> HIDE DEF n
      <3> QED
        BY <3>1, <3>2, <3>3, SenderShutsDown
    <2>4. CASE x.step = 1
      <3>1. u = BlockSent(x, more)
        BY <1>4, <2>4 DEF send_step_complete, OneFrame
      <3> QED
        BY <1>4, <2>1, <2>4, <3>1, SenderBlockSent
    <2> QED
      BY <1>2, <2>2, <2>3, <2>4
  <1>5. CASE x.state \notin {"B", "IV"}
    <2>1. x.state \in OneFrame
      BY <1>5 DEF Handled
    <2>2. CASE x.step = 0
      <3> DEFINE n == 1
      <3>1. u = [x EXCEPT !.step = n]
        BY <1>5, <2>1, <2>2 DEF send_step_complete, OneFrame
      <3>2. n \in {1}
        OBVIOUS
      <3> HIDE DEF n
      <3> QED
        BY <1>5, <3>1, <3>2, SenderShutsDown
    <2>3. CASE x.step = 1
      <3>1. u = MessageSent(x)
        BY <1>5, <2>1, <2>3 DEF send_step_complete, OneFrame
      <3> QED
        BY <2>1, <3>1, SenderMessageSent
    <2> QED
      BY <1>2, <2>2, <2>3
  <1> QED
    BY <1>3, <1>4, <1>5

\* The receiver has the line.
LEMMA ReceiverHasLine ==
    ASSUME NEW x, NEW y, Pair(x, y), Sending(y) \/ y.phase = "E"
    PROVE  /\ y \in EndRecord /\ Line(y) /\ ReceiverLine(y) /\ ReceiverPlace(y) /\ Sender(x) /\ Receiver(y)
           /\ InStep(x, y) /\ Turns(x, y) /\ x \in EndRecord
           /\ y.signal = "none" /\ y.next_phase = "IDLE" /\ y.state # "CALL_FINISHED"
           /\ ~Sending(y) => y.state = "B"
           /\ y.phase \in Slow \cup {"E"}
  <1>1. /\ y \in EndRecord /\ Line(y) /\ ReceiverLine(y) /\ ReceiverPlace(y) /\ Sender(x) /\ Receiver(y) /\ x \in EndRecord
        /\ InStep(x, y) /\ Turns(x, y)
    BY DEF Pair, Sender, Receiver
  <1>2. y.phase \in Phases
    BY <1>1, Fields
  <1>3. y.signal = "none" /\ y.next_phase = "IDLE" /\ y.state # "CALL_FINISHED" /\ (~Sending(y) => y.state = "B")
    BY <1>1 DEF Line, Sending, Slow
  <1>4. y.phase \in Slow \cup {"E"}
    BY <1>1, <1>2 DEF ReceiverLine, Phases, Sending, Slow
  <1> QED
    BY <1>1, <1>3, <1>4

\* It ends the call, or listens.
LEMMA ReceiverGoesOn ==
    ASSUME NEW x, NEW y, Pair(x, y), Sending(y) \/ y.phase = "E", NEW v, Receiver(v), InStep(x, v),
           v.signal = "none", v.phase \notin Slow, v.state = "F_POST_RCP_MCF" => v.next_rx # "MPS"
    PROVE  Pair(x, v)
  <1>1. Sender(x) /\ Turns(x, y) /\ y.signal = "none"
    BY ReceiverHasLine
  <1>2. Turns(x, v)
    BY <1>1 DEF Turns
  <1> QED
    BY <1>1, <1>2 DEF Pair

LEMMA ReceiverListens ==
    ASSUME NEW x, NEW y, Pair(x, y), Sending(y), NEW v \in EndRecord, KeepsBlock(y, v),
           v.phase \in {"C_ECM_RX", "B_RX", "D_RX"}, v.next_phase = "IDLE", v.signal = "none", v.out = <<>>,
           v.state = y.state \/ (v.state = "F_DOC_ECM" /\ y.state \in {"F_POST_RCP_PPR", "F_POST_RCP_MCF"}),
           v.state \notin {"B", "CALL_FINISHED"}, v.status = y.status, Receiving(y) => v.phase # "B_RX",
           v.state = "F_POST_RCP_MCF" => v.next_rx # "MPS"
    PROVE  Pair(x, v)
  <1>1. /\ y \in EndRecord /\ ReceiverLine(y) /\ ReceiverPlace(y) /\ InStep(x, y)
    BY ReceiverHasLine
  <1>2. Line(v)
    BY LineListens
  <1>3. Receiving(v) => Receiving(y)
    BY DEF Receiving
  <1>4. ReceiverLine(v)
    BY <1>1, <1>3 DEF ReceiverLine
  <1>5. ReceiverPlace(v)
    <2>1. v.state \in Answering => y.state \in Answering
      BY DEF Answering
    <2>2. v.state \in Ended => y.state \in Ended
      BY DEF Ended
    <2> QED
      BY <1>1, <1>3, <2>1, <2>2, ReceiverPlaceKept
  <1>6. InStep(x, v)
    <2>1. v.state \in Answering => v.state = y.state
      BY DEF Answering
    <2>2. Late(x, y) => v.state # y.state
      <3>1. SUFFICES ASSUME Late(x, y), v.state = y.state
                     PROVE  FALSE
        OBVIOUS
      <3>2. y.page = x.page /\ x.page < Len(Doc) /\ y.state = "F_POST_RCP_MCF"
        BY <3>1 DEF Late, AtOne, Place
      <3>3. y.next_rx = "MPS"
        BY <1>1, <3>2 DEF ReceiverPlace, Answering
      <3> QED
        BY <3>1, <3>2, <3>3 DEF KeepsBlock
    <2> QED
      BY <1>1, <1>3, <2>1, <2>2, InStepReceiver
  <1>7. Receiver(v) /\ v.phase \notin Slow
    BY <1>2, <1>4, <1>5 DEF Receiver, Slow
  <1> QED
    BY <1>6, <1>7, ReceiverGoesOn

LEMMA ReceiverEnds ==
    ASSUME NEW x, NEW y, Pair(x, y), Sending(y) \/ y.phase = "E",
           y.page = Len(Doc) \/ (y.state \in Ended /\ y.status = "OK") \/ y.status # "OK", NEW v, v = terminate_call(y)
    PROVE  Pair(x, v)
  <1>1. /\ y \in EndRecord /\ Receiver(y) /\ InStep(x, y)
    BY ReceiverHasLine
  <1>2. /\ v \in EndRecord /\ KeepsBlock(y, v)
        /\ v.state = "CALL_FINISHED" /\ v.status = y.status /\ v.t24 = 0 /\ v.t1 = 0
        /\ v.phase = "CALL_FINISHED" /\ v.next_phase = "IDLE" /\ v.signal = "none"
    BY <1>1, Terminate
  <1>3. Receiver(v)
    BY <1>1, <1>2, ReceiverFinished
  <1>4. InStep(x, v)
    <2>1. v.state \in Ended \cup {"R"} /\ v.page = y.page /\ v.next_rx = y.next_rx /\ v.fallback = y.fallback
      BY <1>2 DEF Ended, KeepsBlock
    <2> QED
      BY <1>1, <2>1, InStepLeft
  <1> QED
    BY <1>2, <1>3, <1>4, ReceiverGoesOn DEF Slow

\* Image data are to come.
LEMMA ReceiverGoesToImage ==
    ASSUME NEW x, NEW y, Pair(x, y), Sending(y), y.out = <<>>, NEW a \in EndRecord, KeepsBlock(y, a), KeepsLine(y, a),
           a.state = "F_DOC_ECM", y.state \in {"F_DOC_ECM", "F_POST_RCP_PPR", "F_POST_RCP_MCF"}, a.status = y.status,
           NEW v, v = start_timer(queue_phase(a, "C_ECM_RX"), "T2")
    PROVE  Pair(x, v)
  <1> DEFINE b == queue_phase(a, "C_ECM_RX")
  <1>1. y \in EndRecord /\ y.signal = "none" /\ y.next_phase = "IDLE"
    BY ReceiverHasLine
  <1>2. "C_ECM_RX" \in Phases \cap Queable
    BY DEF Phases, Queable
  <1>3. Free(a) /\ a.signal = "none"
    BY <1>1 DEF Free, KeepsLine
  <1>4. /\ b \in EndRecord /\ KeepsBlock(a, b) /\ b.state = a.state /\ b.status = a.status
        /\ Turned(a, b, "C_ECM_RX") /\ b.out = <<>>
    BY <1>2, <1>3, QueuePhase
  <1> HIDE DEF b
  <1>5. b.phase = "C_ECM_RX" /\ b.next_phase = "IDLE" /\ b.signal = "none"
    BY <1>3, <1>4 DEF Turned
  <1>6. v \in EndRecord /\ KeepsBlock(b, v) /\ KeepsLine(b, v) /\ v.state = b.state /\ v.status = b.status
    BY <1>4, StartTimer DEF b
  <1>7. KeepsBlock(y, v)
    BY ONLY <1>4, <1>6, KeepsBlock(y, a) DEF KeepsBlock
  <1>8. v.phase = "C_ECM_RX" /\ v.next_phase = "IDLE" /\ v.signal = "none" /\ v.out = <<>>
    BY <1>4, <1>5, <1>6 DEF KeepsLine
  <1>9. v.state = "F_DOC_ECM" /\ v.status = y.status
    BY <1>4, <1>6
  <1>10. v.state = y.state \/ (v.state = "F_DOC_ECM" /\ y.state \in {"F_POST_RCP_PPR", "F_POST_RCP_MCF"})
    BY <1>9
  <1>11. v.state \notin {"B", "CALL_FINISHED"} /\ (v.state = "F_POST_RCP_MCF" => v.next_rx # "MPS")
         /\ (Receiving(y) => v.phase # "B_RX")
    BY <1>8, <1>9
  <1> QED
    BY <1>6, <1>7, <1>8, <1>9, <1>10, <1>11, ReceiverListens

LEMMA ReceiverMessageSent ==
    ASSUME NEW x, NEW y, Pair(x, y), Sending(y) \/ y.phase = "E", y.out = <<>>, y.state \in OneFrame,
           NEW v, v = MessageSent(y)
    PROVE  Pair(x, v)
  <1>1. /\ y \in EndRecord /\ Receiver(y) /\ ReceiverLine(y) /\ ReceiverPlace(y) /\ InStep(x, y)
        /\ y.signal = "none" /\ y.next_phase = "IDLE"
    BY ReceiverHasLine
  <1>2. Sending(y)
    BY ReceiverHasLine DEF OneFrame
  <1>3. y.state \in {"R", "C", "F_DOC_ECM", "F_POST_RCP_PPR", "F_POST_RCP_MCF", "F_POST_RCP_RNR"}
    BY <1>1 DEF ReceiverLine, Answering, Ended, OneFrame
  <1>4. ASSUME NEW p \in {"B_RX", "D_RX"}, NEW k \in {"T2", "T4"}, v = Listen(y, p, k),
               Receiving(y) => p = "D_RX", y.state = "F_POST_RCP_MCF" => y.next_rx # "MPS"
        PROVE  Pair(x, v)
    <2>1. p \in Phases
      BY DEF Phases
    <2>2. /\ v \in EndRecord /\ KeepsBlock(y, v) /\ v.state = y.state /\ v.step = y.step /\ v.status = y.status
          /\ v.phase = p /\ v.next_phase = "IDLE" /\ v.signal = "none" /\ v.out = <<>>
      BY <1>1, <1>4, <2>1, Listening
    <2>3. v.state \notin {"B", "CALL_FINISHED"} /\ v.next_rx = y.next_rx
      BY <1>3, <2>2 DEF KeepsBlock
    <2>4. v.phase \in {"C_ECM_RX", "B_RX", "D_RX"} /\ (Receiving(y) => v.phase # "B_RX")
          /\ (v.state = "F_POST_RCP_MCF" => v.next_rx # "MPS")
      BY <1>4, <2>2, <2>3
    <2>5. v.state = y.state \/ (v.state = "F_DOC_ECM" /\ y.state \in {"F_POST_RCP_PPR", "F_POST_RCP_MCF"})
      BY <2>2
    <2> QED
      BY <1>2, <2>2, <2>3, <2>4, <2>5, ReceiverListens
  <1>5. CASE y.state = "R"
    <2>1. v = Listen(y, "B_RX", "T4")
      BY <1>5 DEF MessageSent
    <2> QED
      BY <1>4, <1>5, <2>1 DEF Receiving
  <1>6. CASE y.state = "C"
    <2>1. v = start_final_pause(y)
      BY <1>6 DEF MessageSent
    <2>2. /\ v \in EndRecord /\ KeepsBlock(y, v)
          /\ v.state = "B" /\ v.status = y.status /\ v.t24 = 0 /\ v.t1 = 0
          /\ v.phase = "E" /\ v.next_phase = "IDLE" /\ v.signal = "none" /\ v.out = <<>>
      BY <1>1, <2>1, FinalPause
    <2>3. Line(v)
      BY <2>2 DEF Line
    <2>4. ~Receiving(v) /\ v.state \notin Answering /\ v.state \in Ended \cup {"R"}
      BY <2>2 DEF Receiving, Answering, Ended
    <2>5. ReceiverLine(v)
      BY <2>2, <2>4 DEF ReceiverLine, Ended
    <2>6. ReceiverPlace(v)
      BY <1>1, <1>6, <2>2, <2>4, ReceiverPlaceKept DEF Ended
    <2>7. InStep(x, v)
      BY <1>1, <2>2, <2>4, InStepLeft DEF KeepsBlock
    <2> QED
      BY <2>2, <2>3, <2>5, <2>6, <2>7, ReceiverGoesOn DEF Receiver, Slow
  <1>7. CASE y.state = "F_DOC_ECM"
    <2>1. v = start_timer(queue_phase(y, "C_ECM_RX"), "T2")
      BY <1>7 DEF MessageSent
    <2> QED
      BY <1>1, <1>2, <1>7, <2>1, ReceiverGoesToImage DEF KeepsBlock, KeepsLine
  <1>8. CASE y.state \in {"F_POST_RCP_PPR", "F_POST_RCP_MCF"} /\ y.next_rx = "MPS"
    <2> DEFINE s == "F_DOC_ECM"
               a == set_state(y, s)
    <2>1. v = start_timer(queue_phase(a, "C_ECM_RX"), "T2")
      BY <1>8 DEF MessageSent, NextImage
    <2>2. s \in States
      BY DEF States
    <2>3. a \in EndRecord /\ KeepsBlock(y, a) /\ KeepsLine(y, a) /\ a.state = s /\ a.status = y.status
      BY <1>1, <2>2, SetState
    <2> HIDE DEF a
    <2> QED
      BY <1>2, <1>8, <2>1, <2>3, ReceiverGoesToImage
  <1>9. CASE y.state \in {"F_POST_RCP_PPR", "F_POST_RCP_MCF"} /\ y.next_rx \in {"EOM", "EOP"}
    <2>1. v = Listen(y, "D_RX", "T2") \/ v = Listen(y, "D_RX", "T4")
      BY <1>9 DEF MessageSent
    <2> QED
      BY <1>4, <1>9, <2>1
  <1>10. CASE y.state \in {"F_POST_RCP_PPR", "F_POST_RCP_MCF"} /\ y.next_rx \notin {"MPS", "EOM", "EOP"}
    <2>1. v = terminate_call(y)
      BY <1>10 DEF MessageSent
    <2>2. y.page = Len(Doc)
      <3>1. y.page \in Nat /\ y.page <= Len(Doc) /\ Len(Doc) \in Nat
        BY <1>1, PlaceNumbers
      <3>2. ~(y.page < Len(Doc))
        BY <1>1, <1>10 DEF ReceiverPlace, Answering
      <3> QED
        BY ONLY <3>1, <3>2
    <2> QED
      BY <2>1, <2>2, ReceiverEnds
  <1>11. CASE y.state = "F_POST_RCP_RNR"
    <2>1. v = Listen(y, "D_RX", "T4")
      BY <1>11 DEF MessageSent
    <2> QED
      BY <1>4, <1>11, <2>1
  <1> QED
    BY <1>3, <1>5, <1>6, <1>7, <1>8, <1>9, <1>10, <1>11

LEMMA ReceiverStepped ==
    ASSUME NEW x, NEW y, Pair(x, y), Sending(y) \/ y.phase = "E", y.out = <<>>,
           y.state \in Handled, NEW more \in EndSteps, NEW v, v = send_step_complete(y, more)
    PROVE  Pair(x, v)
  <1>1. /\ y \in EndRecord /\ Line(y) /\ ReceiverLine(y) /\ ReceiverPlace(y)
        /\ y.signal = "none" /\ y.next_phase = "IDLE" /\ y.state # "CALL_FINISHED"
    BY ReceiverHasLine
  <1>2. y.step \in {0, 1}
    <2>1. y.step \in 0 .. 1
      BY <1>1, Fields
    <2> QED
      BY ONLY <2>1
  <1>3. CASE y.state = "B"
    <2>1. v = terminate_call(y)
      BY <1>3 DEF send_step_complete, OneFrame
    <2> QED
      BY <1>3, <2>1, ReceiverEnds DEF Ended
  <1>4. CASE y.state # "B"
    <2>1. y.state \in OneFrame
      BY <1>1, <1>4 DEF Handled, ReceiverLine, Answering, Ended
    <2>2. CASE y.step = 0
      <3> DEFINE n == 1
      <3>1. v = [y EXCEPT !.step = n]
        BY <1>4, <2>1, <2>2 DEF send_step_complete, OneFrame
      <3>2. n \in 0 .. 1
        BY ZeroOne
      <3> HIDE DEF n
      <3>3. Alike(y, v)
        BY <1>1, <3>1, <3>2, SetStep
      <3>4. /\ v \in EndRecord /\ KeepsBlock(y, v) /\ KeepsLine(y, v) /\ v.state = y.state /\ v.status = y.status
        BY <3>3 DEF Alike
      <3> QED
        BY <1>1, <3>4, PairReceiverWaits
    <2>3. CASE y.step = 1
      <3>1. v = MessageSent(y)
        BY <1>4, <2>1, <2>3 DEF send_step_complete, OneFrame
      <3> QED
        BY <2>1, <3>1, ReceiverMessageSent
    <2> QED
      BY <1>2, <2>2, <2>3
  <1> QED
    BY <1>3, <1>4

-----------------------------------------------------------------------------
(* Time passes while nobody signals.                                        *)

\* Nobody has a message under way, and the carriers that are heard are there.
Quiet(x, y) ==
    /\ x.phase \in Slow \cup {"E"} => x.out = <<>> /\ x.state \notin Handled
    /\ y.phase \in Slow \cup {"E"} => y.out = <<>> /\ y.state \notin Handled
    /\ Hears(x) \in {"none", Carrier(y)} /\ Hears(y) \in {"none", Carrier(x)}

LEMMA QuietFacts ==
    ASSUME NEW x, NEW y, Pair(x, y), Quiet(x, y)
    PROVE  /\ ~Late(x, y) /\ (x.state = "IV" => Sending(x)) /\ x.state # "B" /\ y.state # "B"
           /\ ~(y.state = "F_POST_RCP_MCF" /\ y.next_rx = "MPS" /\ ~Sending(y))
           /\ x.signal # "none" => x.phase = "D_RX" /\ y.phase \in Slow /\ y.state \notin Handled
           /\ x.state \notin {"IV", "CALL_FINISHED"} => Free(x)
           /\ y.state # "CALL_FINISHED" => Free(y)
  <1>1. /\ Receiver(y) /\ Line(y) /\ ReceiverLine(y) /\ y \in EndRecord
        /\ Sender(x) /\ Line(x) /\ SenderLine(x) /\ x \in EndRecord /\ InStep(x, y) /\ Turns(x, y)
    BY DEF Pair, Sender, Receiver
  <1>2. x.signal # "none" => x.phase = "D_RX" /\ y.phase \in Slow /\ y.state \notin Handled
    BY <1>1 DEF Quiet, Line, SenderLine, Hears, Carrier, Sending
  <1>3. y.phase \in Slow => y.state # "F_POST_RCP_MCF" /\ y.state \notin {"F_POST_RCP_PPR", "F_DOC_ECM"}
    BY DEF Quiet, Handled, OneFrame
  <1>4. ~Late(x, y) /\ (x.state = "IV" => Sending(x))
    BY <1>1, <1>2, <1>3 DEF InStep, Turns
  <1>5. x.state # "B" /\ y.state # "B"
    BY <1>1 DEF Line, Quiet, Handled
  <1>6. ~(y.state = "F_POST_RCP_MCF" /\ y.next_rx = "MPS" /\ ~Sending(y))
    <2>1. SUFFICES ASSUME y.state = "F_POST_RCP_MCF", y.next_rx = "MPS", ~Sending(y)
                   PROVE  FALSE
      OBVIOUS
    <2>2. y.signal = "slow" /\ x.state \in Asking
      BY <1>1, <2>1 DEF Turns
    <2>3. x.phase \in Slow
      BY <2>2 DEF Quiet, Hears, Carrier, Sending
    <2> QED
      BY <2>2, <2>3 DEF Quiet, Asking, Handled, OneFrame
  <1>7. x.state \notin {"IV", "CALL_FINISHED"} => Free(x)
    BY <1>1 DEF Line, SenderLine, Quiet, Free, Sending, Slow
  <1>8. y.state # "CALL_FINISHED" => Free(y)
    <2>1. y.phase \notin {"C_ECM_TX", "C_NON_ECM_TX"}
      BY <1>1, Fields DEF ReceiverLine, Phases
    <2> QED
      BY <1>1, <2>1 DEF Line, ReceiverLine, Quiet, Free, Sending, Slow
  <1> QED
    BY <1>2, <1>4, <1>5, <1>6, <1>7, <1>8

LEMMA SenderTurnsQuietly ==
    ASSUME NEW x, NEW y, Pair(x, y), Quiet(x, y), NEW u, Sender(u), KeepsBlock(x, u), u.signal \in {x.signal, "none"},
           u.state # "IV", u.state \in {x.state} \cup Ended
    PROVE  Pair(u, y)
  <1>1. Receiver(y) /\ InStep(x, y) /\ Turns(x, y)
    BY DEF Pair
  <1>2. /\ ~Late(x, y) /\ ~(y.state = "F_POST_RCP_MCF" /\ y.next_rx = "MPS" /\ ~Sending(y))
    BY QuietFacts
  <1>3. InStep(u, y)
    BY <1>1, <1>2, InStepSender
  <1>4. Turns(u, y)
    <2>1. x.signal = "none" \/ y.signal = "none"
      BY <1>1 DEF Turns
    <2>2. ~(y.signal = "slow" /\ y.next_phase # "IDLE" /\ u.phase \in Slow /\ u.state \in Asking)
      <3>1. SUFFICES ASSUME y.signal = "slow", u.state \in Asking
                     PROVE  FALSE
        OBVIOUS
      <3>2. x.state \in Asking
        BY <3>1 DEF Asking, Ended
      <3>3. x.phase \in Slow
        BY <3>1 DEF Quiet, Hears, Carrier, Sending
      <3> QED
        BY <3>2, <3>3 DEF Quiet, Asking, Handled, OneFrame
    <2>3. y.phase \in Slow => y.out = <<>>
      BY DEF Quiet
    <2> QED
      BY <1>2, <2>1, <2>2, <2>3 DEF Turns
  <1> QED
    BY <1>1, <1>3, <1>4 DEF Pair

LEMMA ReceiverTurnsQuietly ==
    ASSUME NEW x, NEW y, Pair(x, y), Quiet(x, y), NEW v, Receiver(v), InStep(x, v), v.signal \in {y.signal, "none"},
           v.state \in {y.state} \cup Ended \cup {"R"}, v.next_rx = y.next_rx,
           v.state = "F_POST_RCP_MCF" /\ y.signal = "none" => Sending(v)
    PROVE  Pair(x, v)
  <1>1. Sender(x) /\ Turns(x, y) /\ Receiver(y) /\ Line(y) /\ Line(x)
    BY DEF Pair, Receiver, Sender
  <1>2. /\ (x.state = "IV" => Sending(x)) /\ ~(y.state = "F_POST_RCP_MCF" /\ y.next_rx = "MPS" /\ ~Sending(y))
        /\ x.signal # "none" => y.phase \in Slow /\ y.state \notin Handled
    BY QuietFacts
  <1>3. Turns(x, v)
    <2>1. x.signal = "none" \/ v.signal = "none"
      BY <1>1 DEF Turns
    <2>2. x.phase \in Slow => x.out = <<>>
      BY DEF Quiet
    <2>3. x.next_phase # "IDLE" => v.state \notin Answering \cup {"F_DOC_ECM"}
      <3>1. x.next_phase # "IDLE" => y.state \notin Handled
        BY <1>1, <1>2 DEF Line
      <3> QED
        BY <3>1 DEF Answering, Ended, Handled, OneFrame
    <2>4. ~(v.state = "F_POST_RCP_MCF" /\ v.next_rx = "MPS" /\ ~Sending(v))
      <3>1. v.state = "F_POST_RCP_MCF" => y.state = "F_POST_RCP_MCF"
        BY DEF Ended
      <3>2. y.signal # "none" => ~Sending(y)
        BY <1>1, LineIsFree DEF Pair, Receiver
      <3> QED
        BY <1>2, <3>1, <3>2
    <2> QED
      BY <1>2, <2>1, <2>2, <2>3, <2>4 DEF Turns
  <1> QED
    BY <1>1, <1>3 DEF Pair

\* A timer of the sender expires.
LEMMA SenderQuits ==
    ASSUME NEW x, NEW y, Pair(x, y), Quiet(x, y), NEW a \in EndRecord, KeepsBlock(x, a), a.t24_is \in SenderTimers,
           a.status # "OK", NEW u, u = terminate_call(a)
    PROVE  Pair(u, y)
  <1>1. Sender(x)
    BY DEF Pair
  <1>2. /\ u \in EndRecord /\ KeepsBlock(a, u)
        /\ u.state = "CALL_FINISHED" /\ u.status = a.status /\ u.t24 = 0 /\ u.t1 = 0 /\ u.t24_is = a.t24_is
        /\ u.phase = "CALL_FINISHED" /\ u.next_phase = "IDLE" /\ u.signal = "none"
    BY Terminate
  <1>3. KeepsBlock(x, u)
    BY ONLY <1>2, KeepsBlock(x, a) DEF KeepsBlock
  <1>4. Line(u)
    BY <1>2, LineFinished
  <1>5. SenderLine(u)
    BY <1>2 DEF SenderLine, Ended
  <1>6. SenderPlace(u)
    <2>1. u.page = x.page /\ u.eop = x.eop /\ SenderPlace(x)
      BY <1>1, <1>3 DEF KeepsBlock, Sender
    <2> QED
      BY <1>2, <1>3, <2>1, BlockKept DEF SenderPlace, Ended, Asking
  <1>7. Sender(u) /\ u.state # "IV" /\ u.state \in {x.state} \cup Ended
    BY <1>2, <1>4, <1>5, <1>6 DEF Sender, Ended
  <1> QED
    BY <1>2, <1>3, <1>7, SenderTurnsQuietly

LEMMA SenderT24Expired ==
    ASSUME NEW x, NEW y, Pair(x, y), Quiet(x, y), x.t24 # 0, NEW u, u = t24_expired(x)
    PROVE  Pair(u, y)
  <1> DEFINE n == 0
             k == "IDLE"
             a == Timed(x, n, k)
             b == set_status(a, "HDLC_CARRIER")
  <1>1. /\ Sender(x) /\ Line(x) /\ SenderLine(x) /\ x \in EndRecord
    BY DEF Pair, Sender
  <1>2. x.state \notin {"IV", "B", "CALL_FINISHED"} /\ Free(x) /\ (x.signal # "none" => x.phase = "D_RX")
    BY <1>1, QuietFacts DEF Line, SenderLine
  <1>3. /\ x.t24_is \in {"T4", "T4_DROPPED"} => u = repeat_last_command(a)
        /\ x.t24_is \notin {"T4", "T4_DROPPED"} => u = terminate_call(b)
    BY <1>1 DEF t24_expired, Timed, SenderLine, SenderTimers
  <1>4. n \in 0 .. T1 /\ k \in Timers /\ k \in SenderTimers /\ "HDLC_CARRIER" \in Status
    BY ZeroOne DEF Timers, SenderTimers, Status
  <1> HIDE DEF n, k
  <1>5. /\ a \in EndRecord /\ KeepsBlock(x, a) /\ KeepsLine(x, a)
        /\ a.state = x.state /\ a.step = x.step /\ a.status = x.status
        /\ a.t24 = n /\ a.t24_is = k /\ a.t1 = x.t1
    BY <1>1, <1>4, SetTimer
  <1> HIDE DEF a
  <1>6. CASE x.t24_is \in {"T4", "T4_DROPPED"}
    <2>1. Sender(a)
      BY <1>1, <1>2, <1>4, <1>5, SenderWaits
    <2>2. Free(a) /\ (a.signal = "slow" => a.phase = "D_RX") /\ a.state \notin {"IV", "B", "CALL_FINISHED"}
      BY <1>2, <1>5 DEF Free, KeepsLine
    <2>3. u = repeat_last_command(a)
      BY <1>3, <1>6
    <2>4. Sender(u) /\ KeepsBlock(a, u) /\ u.state \in {a.state, "C"} /\ u.signal = a.signal
      BY <2>1, <2>2, <2>3, SenderRepeated
    <2>5. KeepsBlock(x, u)
      BY ONLY <1>5, <2>4 DEF KeepsBlock
    <2>6. u.state # "IV" /\ u.state \in {x.state} \cup Ended /\ u.signal \in {x.signal, "none"}
      BY <1>5, <2>2, <2>4 DEF Ended, KeepsLine
    <2> QED
      BY <2>4, <2>5, <2>6, SenderTurnsQuietly
  <1>7. CASE x.t24_is \notin {"T4", "T4_DROPPED"}
    <2>1. b \in EndRecord /\ KeepsBlock(a, b) /\ KeepsTimers(a, b) /\ b.status = "HDLC_CARRIER"
      BY <1>4, <1>5, SetStatus
    <2>2. u = terminate_call(b)
      BY <1>3, <1>7
    <2> HIDE DEF b
    <2>3. KeepsBlock(x, b)
      BY ONLY <1>5, <2>1 DEF KeepsBlock
    <2>4. b.t24_is \in SenderTimers /\ b.status # "OK"
      BY <1>4, <1>5, <2>1 DEF KeepsTimers
    <2> QED
      BY <2>1, <2>2, <2>3, <2>4, SenderQuits
  <1> QED
    BY <1>6, <1>7

LEMMA SenderT1Expired ==
    ASSUME NEW x, NEW y, Pair(x, y), Quiet(x, y), x.t1 # 0, NEW u, u = timer_t0_t1_expired(x)
    PROVE  Pair(u, y)
  <1> DEFINE n == 0
             a == [x EXCEPT !.t1 = n]
             b == set_status(a, "T1_EXPIRED")
  <1>1. /\ Sender(x) /\ Line(x) /\ SenderLine(x) /\ x \in EndRecord /\ x.far = TRUE
    BY Fields DEF Pair, Sender
  <1>2. x.state \notin {"IV", "CALL_FINISHED"}
    BY <1>1 DEF Line, SenderLine
  <1>3. u = terminate_call(b) \/ u = b
    BY <1>1 DEF timer_t0_t1_expired, SenderLine, Asking, Ending, Ended
  <1>4. n \in 0 .. T1 /\ "T1_EXPIRED" \in Status
    BY ZeroOne DEF Status
  <1> HIDE DEF n
  <1>5. /\ a \in EndRecord /\ KeepsBlock(x, a) /\ KeepsLine(x, a)
        /\ a.state = x.state /\ a.step = x.step /\ a.t24_is = x.t24_is
    BY <1>1, <1>4, SetT1
  <1> HIDE DEF a
  <1>6. /\ b \in EndRecord /\ KeepsBlock(a, b) /\ KeepsLine(a, b) /\ KeepsTimers(a, b) /\ b.status = "T1_EXPIRED"
        /\ b.state = a.state /\ b.step = a.step
    BY <1>4, <1>5, SetStatus
  <1> HIDE DEF b
  <1>7. KeepsBlock(x, b) /\ KeepsLine(x, b)
    BY ONLY <1>5, <1>6 DEF KeepsBlock, KeepsLine
  <1>8. b.t24_is \in SenderTimers /\ b.status # "OK"
    BY <1>1, <1>5, <1>6 DEF KeepsTimers, SenderLine
  <1>9. CASE u = terminate_call(b)
    BY <1>6, <1>7, <1>8, <1>9, SenderQuits
  <1>10. CASE u = b
    BY <1>2, <1>5, <1>6, <1>7, <1>8, <1>10, PairSenderWaits
  <1> QED
    BY <1>3, <1>9, <1>10

\* A timer of the receiver expires.
LEMMA ReceiverQuits ==
    ASSUME NEW x, NEW y, Pair(x, y), Quiet(x, y), NEW a \in EndRecord, KeepsBlock(y, a),
           a.status # "OK", NEW v, v = terminate_call(a)
    PROVE  Pair(x, v)
  <1>1. Receiver(y) /\ InStep(x, y)
    BY DEF Pair
  <1>2. /\ v \in EndRecord /\ KeepsBlock(a, v)
        /\ v.state = "CALL_FINISHED" /\ v.status = a.status /\ v.t24 = 0 /\ v.t1 = 0
        /\ v.phase = "CALL_FINISHED" /\ v.next_phase = "IDLE" /\ v.signal = "none"
    BY Terminate
  <1>3. KeepsBlock(y, v)
    BY ONLY <1>2, KeepsBlock(y, a) DEF KeepsBlock
  <1>4. Receiver(v)
    BY <1>1, <1>2, <1>3, ReceiverFinished
  <1>5. v.page = y.page /\ v.next_rx = y.next_rx /\ v.fallback = y.fallback
    BY <1>3 DEF KeepsBlock
  <1>6. v.state \in Ended \cup {"R"} /\ v.state # "F_POST_RCP_MCF" /\ v.state \in {y.state} \cup Ended \cup {"R"}
    BY <1>2 DEF Ended
  <1>7. InStep(x, v)
    BY <1>1, <1>5, <1>6, InStepLeft
  <1> QED
    BY <1>2, <1>4, <1>5, <1>6, <1>7, ReceiverTurnsQuietly

\* It asks for another document: by the DIS it says when it gives up waiting.
LEMMA ReceiverStartsAgain ==
    ASSUME NEW x, NEW y, Pair(x, y), Quiet(x, y), y.state # "CALL_FINISHED",
           NEW a \in EndRecord, KeepsBlock(y, a), KeepsLine(y, a), NEW v, v = start_receiving_document(queue_phase(a, "B_TX"))
    PROVE  Pair(x, v)
  <1> DEFINE q == queue_phase(a, "B_TX")
             n == 0
             b == [q EXCEPT !.ecm_block = n]
             s == "R"
             c == set_state(b, s)
             f == [t |-> "DIS"]
  <1>1. Receiver(y) /\ InStep(x, y) /\ y.state # "B" /\ Free(y)
    BY QuietFacts DEF Pair
  <1>2. Free(a)
    BY <1>1 DEF Free, KeepsLine
  <1>3. v = send_frame(c, f)
    BY DEF start_receiving_document, send_dis_or_dtc_sequence, send_simple_frame
  <1>4. "B_TX" \in Phases \cap Queable /\ n \in Nat /\ s \in States /\ f \in LineFrame
    BY SimpleFrames DEF Phases, Queable, States
  <1> HIDE DEF n, f
  <1>5. q \in EndRecord /\ KeepsBlock(a, q) /\ Turned(a, q, "B_TX") /\ q.out = <<>>
    BY <1>2, <1>4, QueuePhase
  <1> HIDE DEF q
  <1>6. KeepsCall(q, b) /\ b.page = q.page /\ b.ecm_block = n /\ b.put = q.put /\ b.next_rx = q.next_rx
    BY <1>4, <1>5, BlockNumbered
  <1> HIDE DEF b
  <1>7. b \in EndRecord /\ KeepsLine(q, b) /\ b.fallback = q.fallback /\ b.eop = q.eop
    BY <1>6 DEF KeepsCall
  <1>8. c \in EndRecord /\ KeepsBlock(b, c) /\ KeepsLine(b, c) /\ c.state = s
    BY <1>4, <1>7, SetState
  <1> HIDE DEF c
  <1>9. c.out = <<>>
    BY <1>5, <1>7, <1>8 DEF KeepsLine
  <1>10. /\ v \in EndRecord /\ KeepsBlock(c, v) /\ v.state = c.state
         /\ v.phase = c.phase /\ v.next_phase = c.next_phase /\ v.signal = c.signal /\ v.out = <<f>>
    BY <1>3, <1>4, <1>8, <1>9, SendFrame
  <1>11. /\ v.page = y.page /\ v.ecm_block = n /\ v.put = y.put /\ v.next_rx = y.next_rx
         /\ v.fallback = y.fallback /\ v.eop = y.eop
    BY ONLY <1>5, <1>6, <1>7, <1>8, <1>10, KeepsBlock(y, a) DEF KeepsBlock
  <1>12. Turned(y, v, "B_TX")
    <2>1. v.phase = q.phase /\ v.next_phase = q.next_phase /\ v.signal = q.signal
      BY <1>7, <1>8, <1>10 DEF KeepsLine
    <2> QED
      BY <1>5, <2>1 DEF Turned, KeepsLine
  <1>13. v.state = "R" /\ v.out = <<[t |-> "DIS"]>> /\ v.ecm_block \in {y.ecm_block, 0}
    BY <1>8, <1>10, <1>11 DEF f, n
  <1>14. Receiver(v)
    BY <1>1, <1>10, <1>11, <1>12, <1>13, ReceiverAsksAnew
  <1>15. v.state \in Ended \cup {"R"} /\ v.state # "F_POST_RCP_MCF" /\ v.state \in {y.state} \cup Ended \cup {"R"}
         /\ v.signal \in {y.signal, "none"}
    BY <1>12, <1>13 DEF Turned
  <1>16. InStep(x, v)
    BY <1>1, <1>11, <1>15, InStepLeft
  <1> QED
    BY <1>11, <1>14, <1>15, <1>16, ReceiverTurnsQuietly

LEMMA ReceiverBackToPhaseB ==
    ASSUME NEW x, NEW y, Pair(x, y), Quiet(x, y), y.state \in Answering,
           NEW a \in EndRecord, KeepsBlock(y, a), KeepsLine(y, a), NEW v, v = BackToPhaseB(a)
    PROVE  Pair(x, v)
  <1> DEFINE m == T1
             e == [a EXCEPT !.t1 = m]
             p == set_phase(e, "B_TX")
             g == start_timer(p, "T2")
             s == "R"
             c == set_state(g, s)
             f == [t |-> "DIS"]
  <1>1. /\ Receiver(y) /\ InStep(x, y) /\ y.state \notin {"B", "CALL_FINISHED"} /\ Free(y)
        /\ ReceiverLine(y) /\ ReceiverPlace(y) /\ y.next_phase # "B_TX"
    <2>1. y.state \notin {"B", "CALL_FINISHED"} /\ Receiving(y)
      BY DEF Answering, Receiving
    <2> QED
      BY <2>1, QuietFacts DEF Pair, Receiver, ReceiverLine
  <1>2. v = send_frame(c, f)
    BY DEF BackToPhaseB, send_dis_or_dtc_sequence, send_simple_frame
  <1>3. "B_TX" \in Phases /\ m \in 0 .. T1 /\ s \in States /\ f \in LineFrame
    BY SimpleFrames, ZeroOne DEF Phases, States
  <1> HIDE DEF m, f
  <1>4. e \in EndRecord /\ KeepsBlock(a, e) /\ KeepsLine(a, e)
    BY <1>3, SetT1
  <1> HIDE DEF e
  <1>5. /\ p \in EndRecord /\ KeepsBlock(e, p)
        /\ p.out = (IF e.next_phase \in {"B_TX", "IDLE"} THEN e.out ELSE <<>>)
        /\ p.phase = "B_TX" /\ p.next_phase = "IDLE" /\ p.signal = "none"
    BY <1>3, <1>4, SetPhase
  <1>6. p.out = <<>>
    BY <1>1, <1>4, <1>5 DEF KeepsLine, Free
  <1> HIDE DEF p
  <1>7. g \in EndRecord /\ KeepsBlock(p, g) /\ KeepsLine(p, g)
    BY <1>5, StartTimer
  <1> HIDE DEF g
  <1>8. c \in EndRecord /\ KeepsBlock(g, c) /\ KeepsLine(g, c) /\ c.state = s
    BY <1>3, <1>7, SetState
  <1> HIDE DEF c
  <1>9. c.out = <<>> /\ c.phase = "B_TX" /\ c.next_phase = "IDLE" /\ c.signal = "none"
    BY <1>5, <1>6, <1>7, <1>8 DEF KeepsLine
  <1>10. /\ v \in EndRecord /\ KeepsBlock(c, v) /\ v.state = c.state
         /\ v.phase = c.phase /\ v.next_phase = c.next_phase /\ v.signal = c.signal /\ v.out = <<f>>
    BY <1>2, <1>3, <1>8, <1>9, SendFrame
  <1>11. KeepsBlock(y, v)
    BY ONLY <1>4, <1>5, <1>7, <1>8, <1>10, KeepsBlock(y, a) DEF KeepsBlock
  <1>12. /\ v.page = y.page /\ v.ecm_block = y.ecm_block /\ v.put = y.put /\ v.next_rx = y.next_rx
         /\ v.fallback = y.fallback /\ v.eop = y.eop
    BY <1>11 DEF KeepsBlock
  <1>13. v.state = "R" /\ v.phase = "B_TX" /\ v.next_phase = "IDLE" /\ v.signal = "none" /\ v.out = <<[t |-> "DIS"]>>
    BY <1>8, <1>9, <1>10 DEF f
  <1>14. Line(v)
    BY <1>13 DEF Line, Sending, Slow
  <1>15. ReceiverLine(v)
    <2>1. ReceiverSays(v, [t |-> "DIS"])
      BY <1>13, SimpleFrames DEF ReceiverSays
    <2> QED
      BY <1>13, <2>1 DEF ReceiverLine, Receiving
  <1>16. Receiver(v)
    BY <1>1, <1>10, <1>12, <1>13, <1>14, <1>15, PlaceAsksAnew DEF Receiver
  <1>17. v.state \in Ended \cup {"R"} /\ v.state # "F_POST_RCP_MCF" /\ v.state \in {y.state} \cup Ended \cup {"R"}
         /\ v.signal \in {y.signal, "none"}
    BY <1>13
  <1>18. InStep(x, v)
    BY <1>1, <1>12, <1>17, InStepLeft
  <1> QED
    BY <1>12, <1>16, <1>17, <1>18, ReceiverTurnsQuietly

LEMMA T2StatusKept ==
    ASSUME NEW x \in EndRecord, NEW u, u = T2Status(x)
    PROVE  /\ u \in EndRecord /\ KeepsBlock(x, u) /\ KeepsLine(x, u) /\ KeepsTimers(x, u) /\ u.state = x.state
  <1>1. u = x \/ \E s \in Status : u = set_status(x, s)
    BY DEF T2Status, Status
  <1>2. CASE u = x
    BY <1>2 DEF KeepsBlock, KeepsLine, KeepsTimers
  <1>3. ASSUME NEW s \in Status, u = set_status(x, s)
        PROVE  u \in EndRecord /\ KeepsBlock(x, u) /\ KeepsLine(x, u) /\ KeepsTimers(x, u) /\ u.state = x.state
    BY <1>3, SetStatus
  <1> QED
    BY <1>1, <1>2, <1>3

LEMMA ReceiverT24Expired ==
    ASSUME NEW x, NEW y, Pair(x, y), Quiet(x, y), y.t24 # 0, NEW v, v = t24_expired(y)
    PROVE  Pair(x, v)
  <1> DEFINE n == 0
             k == "IDLE"
             a == Timed(y, n, k)
             b == set_status(a, "HDLC_CARRIER")
             d == T2Status(a)
  <1>1. /\ Receiver(y) /\ Line(y) /\ InStep(x, y) /\ y \in EndRecord
    BY DEF Pair, Receiver
  <1>2. y.state \notin {"B", "CALL_FINISHED"} /\ Free(y) /\ ~Late(x, y)
    BY <1>1, QuietFacts DEF Line
  <1>3. \/ v = BackToPhaseB(a) /\ a.state \in {"F_POST_RCP_PPR", "F_POST_RCP_MCF"}
        \/ v = start_receiving_document(queue_phase(d, "B_TX"))
        \/ v = repeat_last_command(a)
        \/ v = terminate_call(b)
    BY DEF t24_expired, timer_t2_expired, Timed
  <1>4. n \in 0 .. T1 /\ k \in Timers /\ "HDLC_CARRIER" \in Status
    BY ZeroOne DEF Timers, Status
  <1> HIDE DEF n, k
  <1>5. /\ a \in EndRecord /\ KeepsBlock(y, a) /\ KeepsLine(y, a)
        /\ a.state = y.state /\ a.status = y.status /\ a.t24 = n /\ a.t1 = y.t1
    BY <1>1, <1>4, SetTimer
  <1> HIDE DEF a
  <1>6. CASE v = BackToPhaseB(a) /\ a.state \in {"F_POST_RCP_PPR", "F_POST_RCP_MCF"}
    <2>1. y.state \in Answering
      BY <1>5, <1>6 DEF Answering
    <2> QED
      BY <1>5, <1>6, <2>1, ReceiverBackToPhaseB
  <1>7. CASE v = start_receiving_document(queue_phase(d, "B_TX"))
    <2>1. d \in EndRecord /\ KeepsBlock(a, d) /\ KeepsLine(a, d)
      BY <1>5, T2StatusKept
    <2> HIDE DEF d
    <2>2. KeepsBlock(y, d) /\ KeepsLine(y, d)
      BY ONLY <1>5, <2>1 DEF KeepsBlock, KeepsLine
    <2> QED
      BY <1>2, <1>7, <2>1, <2>2, ReceiverStartsAgain
  <1>8. CASE v = repeat_last_command(a)
    <2>1. Receiver(a)
      BY <1>1, <1>2, <1>5, ReceiverWaits
    <2>2. Free(a)
      BY <1>2, <1>5 DEF Free, KeepsLine
    <2>3. /\ Receiver(v) /\ KeepsBlock(a, v) /\ v.state \in {a.state, "C"} /\ v.signal = a.signal
          /\ v.state = "F_POST_RCP_MCF" => Turned(a, v, "D_TX")
          /\ v.state \in {"F_DOC_ECM", "F_POST_DOC_ECM"} => KeepsLine(a, v)
      BY <1>2, <1>5, <1>8, <2>1, <2>2, ReceiverRepeated
    <2>4. KeepsBlock(y, v)
      BY ONLY <1>5, <2>3 DEF KeepsBlock
    <2>5. v.state \in {y.state, "C"} /\ v.signal = y.signal
      BY <1>5, <2>3 DEF KeepsLine
    <2>6. Receiving(v) => Receiving(y)
      BY <2>5 DEF Receiving
    <2>7. v.state = "F_DOC_ECM" => v.out = y.out /\ y.state = "F_DOC_ECM"
      BY <1>5, <2>3, <2>5 DEF KeepsLine
    <2>8. v.state \in Answering => v.state = y.state
      BY <2>5 DEF Answering
    <2>9. InStep(x, v)
      BY <1>1, <1>2, <2>4, <2>6, <2>7, <2>8, InStepReceiver
    <2>10. v.state = "F_POST_RCP_MCF" /\ y.signal = "none" => Sending(v)
      BY <1>5, <2>3 DEF Turned, KeepsLine, Sending, Slow
    <2>11. v.state \in {y.state} \cup Ended \cup {"R"} /\ v.next_rx = y.next_rx /\ v.signal \in {y.signal, "none"}
      BY <2>4, <2>5 DEF KeepsBlock, Ended
    <2> QED
      BY <2>3, <2>9, <2>10, <2>11, ReceiverTurnsQuietly
  <1>9. CASE v = terminate_call(b)
    <2>1. b \in EndRecord /\ KeepsBlock(a, b) /\ b.status = "HDLC_CARRIER"
      BY <1>4, <1>5, SetStatus
    <2> HIDE DEF b
    <2>2. KeepsBlock(y, b) /\ b.status # "OK"
      BY ONLY <1>5, <2>1 DEF KeepsBlock
    <2> QED
      BY <1>9, <2>1, <2>2, ReceiverQuits
  <1> QED
    BY <1>3, <1>6, <1>7, <1>8, <1>9

LEMMA ReceiverT1Expired ==
    ASSUME NEW x, NEW y, Pair(x, y), Quiet(x, y), y.t1 # 0, NEW v, v = timer_t0_t1_expired(y)
    PROVE  Pair(x, v)
  <1> DEFINE n == 0
             a == [y EXCEPT !.t1 = n]
             b == set_status(a, "T1_EXPIRED")
  <1>1. /\ Receiver(y) /\ Line(y) /\ ReceiverLine(y) /\ InStep(x, y) /\ y \in EndRecord /\ y.far = TRUE
    BY Fields DEF Pair, Receiver
  <1>2. y.state \notin {"B", "CALL_FINISHED"} /\ Free(y) /\ ~Late(x, y)
    BY <1>1, QuietFacts DEF Line
  <1>3. v = send_dcn(b) \/ v = b
    BY <1>1 DEF timer_t0_t1_expired, ReceiverLine, Answering, Ended
  <1>4. n \in 0 .. T1 /\ "T1_EXPIRED" \in Status
    BY ZeroOne DEF Status
  <1> HIDE DEF n
  <1>5. a \in EndRecord /\ KeepsBlock(y, a) /\ KeepsLine(y, a) /\ a.state = y.state
    BY <1>1, <1>4, SetT1
  <1> HIDE DEF a
  <1>6. b \in EndRecord /\ KeepsBlock(a, b) /\ KeepsLine(a, b) /\ b.status = "T1_EXPIRED" /\ b.state = a.state
    BY <1>4, <1>5, SetStatus
  <1> HIDE DEF b
  <1>7. KeepsBlock(y, b) /\ KeepsLine(y, b) /\ b.state = y.state /\ b.status # "OK"
    BY ONLY <1>5, <1>6 DEF KeepsBlock, KeepsLine
  <1>8. CASE v = send_dcn(b)
    <2>1. Free(b)
      BY <1>2, <1>7 DEF Free, KeepsLine
    <2>2. /\ v \in EndRecord /\ KeepsBlock(b, v) /\ v.state = "C" /\ v.status = b.status
          /\ Turned(b, v, "D_TX") /\ v.out = <<[t |-> "DCN"]>>
      BY <1>6, <1>8, <2>1, SendDcn
    <2>3. KeepsBlock(y, v) /\ Turned(y, v, "D_TX")
      BY ONLY <1>7, <2>2 DEF KeepsBlock, KeepsLine, Turned
    <2>4. Receiver(v)
      BY <1>1, <1>2, <1>7, <2>2, <2>3, ReceiverDcn
    <2>5. v.state \in Ended \cup {"R"} /\ v.state # "F_POST_RCP_MCF" /\ v.state \in {y.state} \cup Ended \cup {"R"}
          /\ v.signal \in {y.signal, "none"}
      BY <2>2, <2>3 DEF Turned, Ended
    <2>6. v.page = y.page /\ v.next_rx = y.next_rx /\ v.fallback = y.fallback
      BY <2>3 DEF KeepsBlock
    <2>7. InStep(x, v)
      BY <1>1, <2>5, <2>6, InStepLeft
    <2> QED
      BY <2>4, <2>5, <2>6, <2>7, ReceiverTurnsQuietly
  <1>9. CASE v = b
    BY <1>2, <1>6, <1>7, <1>9, PairReceiverWaits
  <1> QED
    BY <1>3, <1>8, <1>9

\* All that changes while time passes is what is left of it.
LEMMA Advanced ==
    ASSUME NEW m \in 0 .. T1, NEW d \in Nat, m # 0 => d < m
    PROVE  Advance(m, d) \in 0 .. T1 /\ (m = 0 <=> Advance(m, d) = 0)
  <1>1. T1 \in Nat
    BY Constants
  <1>2. m = 0 => Advance(m, d) = 0
    BY DEF Advance
  <1>3. m # 0 => Advance(m, d) = m - d /\ m - d \in 1 .. T1
    <2>1. m # 0 => m - d \in 1 .. T1
      BY ONLY <1>1, m \in 0 .. T1, d \in Nat, m # 0 => d < m
    <2> QED
      BY <2>1 DEF Advance
  <1> QED
    BY <1>1, <1>2, <1>3

LEMMA LaterFields ==
    ASSUME NEW x \in EndRecord, NEW d \in Nat, \A n \in Running(x) : d < n, NEW u, u = Later(x, d)
    PROVE  /\ u \in EndRecord /\ KeepsBlock(x, u) /\ KeepsLine(x, u)
           /\ u.state = x.state /\ u.step = x.step /\ u.status = x.status /\ u.t24_is = x.t24_is
           /\ (x.t24 = 0 <=> u.t24 = 0) /\ (x.t1 = 0 <=> u.t1 = 0)
  <1> DEFINE a == Advance(x.t24, d)
             b == Advance(x.t1, d)
  <1>1. u = [x EXCEPT !.t24 = a, !.t1 = b]
    BY DEF Later
  <1>2. x.t24 \in 0 .. T1 /\ x.t1 \in 0 .. T1
    BY Fields
  <1>3. (x.t24 # 0 => d < x.t24) /\ (x.t1 # 0 => d < x.t1)
    BY DEF Running
  <1>4. /\ a \in 0 .. T1 /\ (x.t24 = 0 <=> a = 0)
        /\ b \in 0 .. T1 /\ (x.t1 = 0 <=> b = 0)
    BY <1>2, <1>3, Advanced
  <1> HIDE DEF a, b
  <1>5. u \in EndRecord
    BY ONLY <1>1, <1>4, x \in EndRecord, ZenonT(40) DEF EndRecord
  <1>6. KeepsBlock(x, u) /\ KeepsLine(x, u)
    BY ONLY <1>1, x \in EndRecord DEF EndRecord, KeepsBlock, KeepsLine
  <1>7. /\ u.state = x.state /\ u.step = x.step /\ u.status = x.status /\ u.t24_is = x.t24_is
        /\ u.t24 = a /\ u.t1 = b
    BY ONLY <1>1, x \in EndRecord DEF EndRecord
  <1> QED
    BY <1>4, <1>5, <1>6, <1>7

LEMMA TimePasses ==
    ASSUME NEW x, NEW y, Pair(x, y), Quiet(x, y), NEW d \in Nat, \A n \in Running(x) \cup Running(y) : d < n,
           NEW u, u = Later(x, d), NEW v, v = Later(y, d)
    PROVE  /\ Pair(u, v) /\ Quiet(u, v)
           /\ (x.t24 = 0 <=> u.t24 = 0) /\ (x.t1 = 0 <=> u.t1 = 0)
           /\ (y.t24 = 0 <=> v.t24 = 0) /\ (y.t1 = 0 <=> v.t1 = 0)
  <1>1. /\ x \in EndRecord /\ Line(x) /\ SenderLine(x) /\ y \in EndRecord /\ Line(y)
    BY DEF Pair, Sender, Receiver
  <1>2. /\ u \in EndRecord /\ KeepsBlock(x, u) /\ KeepsLine(x, u)
        /\ u.state = x.state /\ u.step = x.step /\ u.status = x.status /\ u.t24_is = x.t24_is
        /\ (x.t24 = 0 <=> u.t24 = 0) /\ (x.t1 = 0 <=> u.t1 = 0)
    BY <1>1, LaterFields
  <1>3. /\ v \in EndRecord /\ KeepsBlock(y, v) /\ KeepsLine(y, v)
        /\ v.state = y.state /\ v.step = y.step /\ v.status = y.status
        /\ (y.t24 = 0 <=> v.t24 = 0) /\ (y.t1 = 0 <=> v.t1 = 0)
    BY <1>1, LaterFields
  <1>4. Pair(u, y)
    <2>1. u.t24_is \in SenderTimers /\ (u.state \in {"IV", "CALL_FINISHED"} => u.t24 = 0 /\ u.t1 = 0)
      BY <1>1, <1>2 DEF Line, SenderLine
    <2> QED
      BY <1>2, <2>1, PairSenderWaits
  <1>5. Pair(u, v)
    <2>1. v.state = "CALL_FINISHED" => v.t24 = 0 /\ v.t1 = 0
      BY <1>1, <1>3 DEF Line
    <2> QED
      BY <1>3, <1>4, <2>1, PairReceiverWaits
  <1>6. Quiet(u, v)
    BY <1>2, <1>3 DEF Quiet, KeepsLine, Hears, Carrier, Sending
  <1> QED
    BY <1>2, <1>3, <1>5, <1>6

-----------------------------------------------------------------------------
(* One end has finished: the other hangs up.                                *)

LEMMA HangingUp ==
    ASSUME NEW x \in EndRecord, NEW u, u = terminate(x)
    PROVE  /\ u \in EndRecord /\ KeepsBlock(x, u)
           /\ u.state = "CALL_FINISHED" /\ u.t24 = 0 /\ u.t1 = 0 /\ u.t24_is = x.t24_is
           /\ u.phase = "CALL_FINISHED" /\ u.next_phase = "IDLE" /\ u.signal = "none"
           /\ u.status # "OK" \/ (u.status = x.status /\ (x.eop \/ x.state \in {"B", "C"}))
  <1> DEFINE a == IF x.eop \/ x.state \in {"B", "C"} THEN x ELSE set_status(x, "CALLDROPPED")
  <1>1. u = terminate_call(a)
    BY DEF terminate
  <1>2. "CALLDROPPED" \in Status
    BY DEF Status
  <1>3. /\ a \in EndRecord /\ KeepsBlock(x, a) /\ KeepsTimers(x, a)
        /\ a.status # "OK" \/ (a.status = x.status /\ (x.eop \/ x.state \in {"B", "C"}))
    <2>1. CASE x.eop \/ x.state \in {"B", "C"}
      BY <2>1 DEF KeepsBlock, KeepsTimers
    <2>2. CASE ~(x.eop \/ x.state \in {"B", "C"})
      BY <1>2, <2>2, SetStatus
    <2> QED
      BY <2>1, <2>2
  <1> HIDE DEF a
  <1>4. /\ u \in EndRecord /\ KeepsBlock(a, u)
        /\ u.state = "CALL_FINISHED" /\ u.status = a.status /\ u.t24 = 0 /\ u.t1 = 0 /\ u.t24_is = a.t24_is
        /\ u.phase = "CALL_FINISHED" /\ u.next_phase = "IDLE" /\ u.signal = "none"
    BY <1>1, <1>3, Terminate
  <1>5. KeepsBlock(x, u)
    BY ONLY <1>3, <1>4 DEF KeepsBlock
  <1> QED
    BY <1>3, <1>4, <1>5 DEF KeepsTimers

LEMMA SenderHangsUp ==
    ASSUME NEW x, NEW y, Pair(x, y), y.state = "CALL_FINISHED", NEW u, u = terminate(x)
    PROVE  Pair(u, y)
  <1>1. /\ Sender(x) /\ x \in EndRecord /\ SenderPlace(x) /\ Receiver(y) /\ Line(y) /\ InStep(x, y) /\ Turns(x, y)
    BY DEF Pair, Sender, Receiver
  <1>2. /\ u \in EndRecord /\ KeepsBlock(x, u)
        /\ u.state = "CALL_FINISHED" /\ u.t24 = 0 /\ u.t1 = 0 /\ u.t24_is = x.t24_is
        /\ u.phase = "CALL_FINISHED" /\ u.next_phase = "IDLE" /\ u.signal = "none"
        /\ u.status # "OK" \/ (u.status = x.status /\ (x.eop \/ x.state \in {"B", "C"}))
    BY <1>1, HangingUp
  <1>3. u.status # "OK" \/ x.page = Len(Doc)
    BY <1>1, <1>2 DEF SenderPlace, Ended
  <1>4. Sender(u)
    BY <1>1, <1>2, <1>3, SenderFinished
  <1>5. InStep(u, y)
    <2>1. ~Late(x, y) /\ u.state \in Ended
      BY <1>2 DEF Late, Ended
    <2> QED
      BY <1>1, <1>2, <2>1, InStepSender
  <1>6. Turns(u, y)
    BY <1>1, <1>2 DEF Turns, Slow
  <1> QED
    BY <1>1, <1>4, <1>5, <1>6 DEF Pair

LEMMA ReceiverHangsUp ==
    ASSUME NEW x, NEW y, Pair(x, y), x.state = "CALL_FINISHED", NEW v, v = terminate(y)
    PROVE  Pair(x, v)
  <1>1. /\ Sender(x) /\ Line(x) /\ Receiver(y) /\ y \in EndRecord /\ ReceiverPlace(y) /\ InStep(x, y)
    BY DEF Pair, Sender, Receiver
  <1>2. /\ v \in EndRecord /\ KeepsBlock(y, v)
        /\ v.state = "CALL_FINISHED" /\ v.t24 = 0 /\ v.t1 = 0
        /\ v.phase = "CALL_FINISHED" /\ v.next_phase = "IDLE" /\ v.signal = "none"
        /\ v.status # "OK" \/ (v.status = y.status /\ (y.eop \/ y.state \in {"B", "C"}))
    BY <1>1, HangingUp
  <1>3. v.status # "OK" \/ y.page = Len(Doc)
    BY <1>1, <1>2 DEF ReceiverPlace, Ended
  <1>4. Receiver(v)
    BY <1>1, <1>2, <1>3, ReceiverFinished
  <1>5. InStep(x, v)
    <2>1. v.state \in Ended \cup {"R"} /\ v.page = y.page /\ v.next_rx = y.next_rx /\ v.fallback = y.fallback
      BY <1>2 DEF Ended, KeepsBlock
    <2> QED
      BY <1>1, <2>1, InStepLeft
  <1>6. Turns(x, v)
    BY <1>1, <1>2 DEF Turns, Line, Slow
  <1> QED
    BY <1>1, <1>4, <1>5, <1>6 DEF Pair

-----------------------------------------------------------------------------
(* The ends as the CFR leaves them.                                         *)

LEMMA NewEnd ==
    /\ New \in EndRecord
    /\ New.state = "F_DOC_ECM" /\ New.phase = "C_ECM_RX" /\ New.next_phase = "IDLE" /\ New.signal = "none"
    /\ New.t1 = 0 /\ New.status = "OK" /\ New.out = <<>> /\ New.ecm_len = Empty /\ New.ecm_frames = -1
    /\ New.ecm_block = 0 /\ New.page = 0 /\ New.read = 0 /\ New.fallback = 0 /\ New.next_rx = "MPS"
    /\ ~New.eop /\ New.put = <<>>
  <1>1. /\ T2 \in 0 .. T1 /\ 0 \in 0 .. T1 /\ 0 \in 0 .. 1 /\ 0 \in Nat /\ -1 \in -1 .. EcmFrames
        /\ 0 \in 0 .. Len(Doc) /\ 0 \in 0 .. EcmFrames + 3 /\ 0 \in 0 .. PprLimit /\ 0 \in 0 .. Fallbacks /\ 0 \in 0 .. NotReady
    BY Constants, DocumentParts
  <1>2. Empty \in [Slots -> Frames]
    <2>1. None \in Frames
      BY DEF Frames
    <2> QED
      BY <2>1 DEF Empty
  <1>3. <<>> \in Seq(Triple) /\ <<>> \in Outbox /\ Slots \in SUBSET Slots
    BY DEF Outbox
  <1>4. /\ "F_DOC_ECM" \in States /\ "C_ECM_RX" \in Phases /\ "IDLE" \in Queable /\ "none" \in Signals /\ "T2" \in Timers
        /\ "OK" \in Status /\ "NULL" \in Steps /\ "MPS" \in Steps /\ TRUE \in {TRUE}
    BY DEF States, Phases, Queable, Signals, Timers, Status, Steps
  <1>5. New \in EndRecord
    BY ONLY <1>1, <1>2, <1>3, <1>4 DEF New, EndRecord
  <1> QED
    BY <1>5 DEF New

\* The first block is on its way.
LEMMA FirstBlock ==
    ASSUME NEW x, x = SendBlock(timer_t2_t4_stop([get_partial_ecm_page(New) EXCEPT !.phase = "B_RX"]))
    PROVE  /\ Sender(x) /\ x.state = "IV" /\ x.signal = "none" /\ x.phase = "C_ECM_TX" /\ x.next_phase = "IDLE"
           /\ x.page = 0 /\ x.ecm_block = 0 /\ x.fallback = 0 /\ Full(x) /\ x.page < Len(Doc)
  <1> DEFINE a == get_partial_ecm_page(New)
             s == "B_RX"
             b == [a EXCEPT !.phase = s]
             c == timer_t2_t4_stop(b)
             z == 0
  <1>1. z \in 0 .. Len(Doc) - 1 /\ z \in 0 .. Len(Doc[z + 1]) - 1
    <2>1. Len(Doc) \in Nat \ {0} /\ z \in 0 .. Len(Doc) - 1
      BY DocumentParts
    <2>2. Len(Doc[z + 1]) \in Nat \ {0}
      <3> HIDE DEF z
      <3> QED
        BY <2>1, DocumentParts
    <2> QED
      BY <2>1, <2>2
  <1>2. New.page = z /\ New.read = z /\ New.ecm_block = z
    BY NewEnd
  <1> HIDE DEF z
  <1>3. /\ KeepsCall(New, a) /\ a.page = z /\ a.ecm_block = z
        /\ a.read = z + 1 /\ a.ecm_frames = Doc[z + 1][z + 1]
        /\ a.at_end = (z + 1 = Len(Doc[z + 1])) /\ a.ecm_len = Held(z, z)
    BY <1>1, <1>2, NewEnd, GetBlock
  <1>4. s \in Phases
    BY DEF Phases
  <1> HIDE DEF a
  <1>5. a \in EndRecord /\ KeepsLine(New, a) /\ KeepsTimers(New, a) /\ a.state = "F_DOC_ECM" /\ a.fallback = 0 /\ ~a.eop
    BY <1>3, NewEnd DEF KeepsCall
  <1>6. b \in EndRecord
    <2>1. b = [a EXCEPT !.phase = s]
      OBVIOUS
    <2>2. a \in EndRecord /\ s \in Phases
      BY <1>4, <1>5
    <2> HIDE DEF b, s
    <2> QED
      BY ONLY <2>1, <2>2, ZenonT(40) DEF EndRecord
  <1>7. /\ KeepsBlock(a, b) /\ KeepsTimers(a, b) /\ b.phase = s /\ b.next_phase = a.next_phase
        /\ b.signal = a.signal /\ b.out = a.out /\ b.state = a.state
    <2>1. KeepsBlock(a, b) /\ KeepsTimers(a, b)
      BY ONLY <1>5 DEF EndRecord, KeepsBlock, KeepsTimers
    <2>2. b.phase = s /\ b.next_phase = a.next_phase /\ b.signal = a.signal /\ b.out = a.out /\ b.state = a.state
      BY ONLY <1>5 DEF EndRecord
    <2> QED
      BY <2>1, <2>2
  <1> HIDE DEF b
  <1>8. /\ c \in EndRecord /\ KeepsBlock(b, c) /\ KeepsLine(b, c) /\ c.state = b.state
        /\ c.t24 = 0 /\ c.t24_is = "IDLE" /\ c.t1 = b.t1
    BY <1>6, StopTimer
  <1> HIDE DEF c
  <1>9. KeepsBlock(a, c)
    BY ONLY <1>7, <1>8 DEF KeepsBlock
  <1>10. /\ c.state = "F_DOC_ECM" /\ c.phase = "B_RX" /\ c.next_phase = "IDLE" /\ c.signal = "none" /\ c.out = <<>>
         /\ c.t1 = 0
    BY <1>5, <1>7, <1>8, NewEnd DEF KeepsLine, KeepsTimers
  <1>11. SenderBlock(c) /\ Full(c) /\ c.page < Len(Doc)
    BY <1>1, <1>3, <1>8, <1>9, NewBlockIsFull DEF KeepsBlock
  <1>12. Line(c)
    BY <1>10 DEF Line
  <1>13. c.t24_is \in SenderTimers /\ ~c.eop /\ c.page = 0 /\ c.ecm_block = 0 /\ c.fallback = 0
    BY <1>3, <1>5, <1>8, <1>9 DEF SenderTimers, KeepsBlock, z
  <1>14. x = SendBlock(c)
    BY DEF c, b, a
  <1>15. Sender(x) /\ KeepsHeld(c, x) /\ x.state = "IV" /\ Turned(c, x, "C_ECM_TX")
    BY <1>8, <1>10, <1>11, <1>12, <1>13, <1>14, SenderBegins
  <1>16. Full(x)
    BY <1>11, <1>15, HeldBlock
  <1> QED
    BY <1>10, <1>11, <1>13, <1>15, <1>16 DEF Turned, KeepsHeld

LEMMA PairBegins ==
    ASSUME NEW x, x = SendBlock(timer_t2_t4_stop([get_partial_ecm_page(New) EXCEPT !.phase = "B_RX"]))
    PROVE  Pair(x, New)
  <1> DEFINE y == New
  <1>1. /\ Sender(x) /\ x.state = "IV" /\ x.signal = "none" /\ x.phase = "C_ECM_TX" /\ x.next_phase = "IDLE"
        /\ x.page = 0 /\ x.ecm_block = 0 /\ x.fallback = 0 /\ Full(x) /\ x.page < Len(Doc)
    BY FirstBlock
  <1>2. /\ y \in EndRecord
        /\ y.state = "F_DOC_ECM" /\ y.phase = "C_ECM_RX" /\ y.next_phase = "IDLE" /\ y.signal = "none"
        /\ y.status = "OK" /\ y.out = <<>> /\ y.ecm_len = Empty /\ y.ecm_frames = -1
        /\ y.ecm_block = 0 /\ y.page = 0 /\ y.fallback = 0 /\ y.next_rx = "MPS" /\ ~y.eop /\ y.put = <<>>
    BY NewEnd
  <1> HIDE DEF y
  <1>3. Line(y)
    BY <1>2, LineListens
  <1>4. ReceiverLine(y)
    BY <1>2 DEF ReceiverLine
  <1>5. ReceiverPlace(y)
    <2>1. Len(Doc) \in Nat \ {0} /\ 0 \in 0 .. Len(Doc) - 1
      BY DocumentParts
    <2>2. 0 \in 0 .. Len(Blocks(y)) - 1 /\ 0 \in 0 .. Len(Doc[0 + 1])
      <3> DEFINE z == 0
                 m == Len(Doc[z + 1])
      <3>1. m \in Nat \ {0}
        <4>1. z \in 0 .. Len(Doc) - 1
          BY <2>1
        <4> HIDE DEF z
        <4> QED
          BY <4>1, DocumentParts
      <3>2. Len(Blocks(y)) = m
        BY <1>2 DEF Blocks
      <3> HIDE DEF m
      <3>3. 0 \in 0 .. m - 1 /\ 0 \in 0 .. m
        BY ONLY <3>1
      <3> QED
        BY <3>2, <3>3 DEF m
    <2>3. y.put = UpTo(y.page, y.ecm_block)
      BY <1>2, StartOfDocument
    <2>4. IsPrefix(y.put, Document)
      BY <1>2, <2>1, <2>2, <2>3, UpToIsPrefix
    <2>5. y.page # Len(Doc)
      BY <1>2, <2>1
    <2> QED
      BY <1>2, <2>2, <2>3, <2>4, <2>5 DEF ReceiverPlace, Ended
  <1>6. AtOne(x, y)
    BY <1>1, <1>2 DEF AtOne, Place
  <1>7. x \in EndRecord /\ ~Ahead(x, y) /\ ~Done(x, y) /\ x.page # Len(Doc)
    BY <1>1, <1>6, OnlyOnePlace DEF Sender
  <1>8. Stored(x, y)
    <2>1. SenderBlock(x) /\ \A i \in Slots : y.ecm_len[i] = None
      BY <1>1, <1>2 DEF Empty, Sender, SenderPlace
    <2> QED
      BY <1>1, <1>2, <2>1 DEF Stored, Full
  <1>9. InStep(x, y)
    BY <1>1, <1>2, <1>6, <1>7, <1>8 DEF InStep, Late
  <1>10. Turns(x, y)
    BY <1>1, <1>2 DEF Turns, Sending
  <1> QED
    BY <1>1, <1>2, <1>3, <1>4, <1>5, <1>9, <1>10 DEF Pair, Receiver, y

-----------------------------------------------------------------------------
(* From the pair of ends to the state of the whole.                         *)

TwoEnds(f) == f = [e \in {S, R} |-> f[e]]
Changed(f, e, u) == [f EXCEPT ![e] = u]

LEMMA Peers == S # R /\ Peer(S) = R /\ Peer(R) = S
  BY Constants DEF Peer

LEMMA InvIsPair ==
    ASSUME Inv
    PROVE  /\ Pair(t30[S], t30[R]) /\ Losses /\ TwoEnds(t30)
           /\ t30[S] \in EndRecord /\ t30[R] \in EndRecord
  BY DEF Inv, Pair, Sender, Receiver, TwoEnds

\* One end changes, or both.

LEMMA OneEnd ==
    ASSUME NEW f, TwoEnds(f), NEW e \in {S, R}, NEW u, NEW g, g = Changed(f, e, u)
    PROVE  /\ TwoEnds(g)
           /\ g[e] = u /\ g[Peer(e)] = f[Peer(e)]
  <1>1. DOMAIN f = {S, R} /\ Peer(e) \in {S, R} /\ Peer(e) # e
    BY Peers DEF TwoEnds
  <1>2. g = [i \in {S, R} |-> IF i = e THEN u ELSE f[i]]
    BY <1>1 DEF Changed
  <1> QED
    BY <1>1, <1>2 DEF TwoEnds

LEMMA BothEnds ==
    ASSUME NEW f, TwoEnds(f), NEW e \in {S, R}, NEW u, NEW v,
           NEW g, g = Changed(Changed(f, e, u), Peer(e), v)
    PROVE  /\ TwoEnds(g)
           /\ g[e] = u /\ g[Peer(e)] = v
  <1> DEFINE p == Peer(e)
             h == Changed(f, e, u)
  <1>1. TwoEnds(h) /\ h[e] = u /\ h[p] = f[p]
    BY ONLY TwoEnds(f), e \in {S, R}, OneEnd
  <1>2. p \in {S, R} /\ Peer(p) = e
    BY Peers
  <1>3. g = Changed(h, p, v)
    OBVIOUS
  <1> HIDE DEF h, p
  <1>4. TwoEnds(g) /\ g[p] = v /\ g[Peer(p)] = h[Peer(p)]
    BY ONLY <1>1, <1>2, <1>3, OneEnd
  <1> QED
    BY <1>1, <1>2, <1>4 DEF p

\* A frame leaves the one end, and the other has done with it.
Delivered(f, e, v) == [f EXCEPT ![e].out = Tail(@), ![Peer(e)] = v]

LEMMA FrameSent ==
    ASSUME NEW f, TwoEnds(f), f[S] \in EndRecord, f[R] \in EndRecord, NEW e \in {S, R}, NEW v,
           NEW g, g = Delivered(f, e, v)
    PROVE  /\ TwoEnds(g)
           /\ g[e] = Emptying(f[e]) /\ g[Peer(e)] = v
  <1>1. g = [f EXCEPT ![e] = Emptying(f[e]), ![Peer(e)] = v]
    BY DEF Emptying, Delivered
  <1> DEFINE u == Emptying(f[e])
  <1>2. g = Changed(Changed(f, e, u), Peer(e), v)
    BY <1>1 DEF Changed
  <1> HIDE DEF u
  <1>3. TwoEnds(g) /\ g[e] = u /\ g[Peer(e)] = v
    BY ONLY TwoEnds(f), e \in {S, R}, <1>2, BothEnds
  <1> QED
    BY <1>3 DEF u

LEMMA InvFromPair ==
    ASSUME TwoEnds(t30'), Pair(t30'[S], t30'[R]), Losses'
    PROVE  Inv'
  BY DEF Inv, Pair, TwoEnds

LEMMA SenderMoves ==
    ASSUME Inv, NEW u, t30' = Changed(t30, S, u), Pair(u, t30[R]), Losses'
    PROVE  Inv'
  <1>0. t30' = Changed(t30, S, u) /\ TwoEnds(t30) /\ S \in {S, R}
    BY InvIsPair
  <1>1. TwoEnds(t30') /\ t30'[S] = u /\ t30'[R] = t30[R]
    BY ONLY <1>0, Peers, OneEnd
  <1> QED
    BY <1>1, InvFromPair

LEMMA ReceiverMoves ==
    ASSUME Inv, NEW v, t30' = Changed(t30, R, v), Pair(t30[S], v), Losses'
    PROVE  Inv'
  <1>0. t30' = Changed(t30, R, v) /\ TwoEnds(t30) /\ R \in {S, R}
    BY InvIsPair
  <1>1. TwoEnds(t30') /\ t30'[R] = v /\ t30'[S] = t30[S]
    BY ONLY <1>0, Peers, OneEnd
  <1> QED
    BY <1>1, InvFromPair

\* What the line may lose is bounded.
LEMMA Lost ==
    ASSUME Losses, NEW k, Lose(k)
    PROVE  Losses'
  <1> DEFINE c == Class(k)
  <1>1. c \in {"image", "answer", "other"}
    BY DEF Class
  <1>2. losses' = [losses EXCEPT ![c] = @ + 1]
    BY DEF Lose
  <1>3. losses.image + losses.answer + losses.other < MaxLoss
    BY DEF Lose
  <1>4. losses.image \in 0 .. MaxLoss /\ losses.answer \in 0 .. MaxLoss /\ losses.other \in 0 .. MaxLoss
    BY DEF Losses
  <1>5. losses.image + 1 \in 0 .. MaxLoss /\ losses.answer + 1 \in 0 .. MaxLoss /\ losses.other + 1 \in 0 .. MaxLoss
    BY ONLY <1>3, <1>4, Constants
  <1> HIDE DEF c
  <1> DEFINE n == losses[c] + 1
  <1>6. n \in 0 .. MaxLoss
    BY <1>1, <1>5
  <1> HIDE DEF n
  <1>7. losses' = [losses EXCEPT ![c] = n]
    BY <1>2 DEF n
  <1> QED
    BY <1>1, <1>6, <1>7 DEF Losses

-----------------------------------------------------------------------------
(* The steps of the line.                                                   *)

LEMMA LossesStay ==
    ASSUME Losses, UNCHANGED losses
    PROVE  Losses'
  BY DEF Losses

LEMMA KeepsRestTwice ==
    ASSUME NEW x, NEW a, NEW u, KeepsRest(x, a), KeepsRest(a, u)
    PROVE  KeepsRest(x, u)
  BY DEF KeepsRest, KeepsBlock

LEMMA Noticed ==
    ASSUME NEW x \in EndRecord, NEW s \in Signals, NEW u, u = framing_ok(carrier_up(x, s))
    PROVE  /\ u \in EndRecord /\ KeepsRest(x, u) /\ u.status = x.status /\ u.signal = s
           /\ x.t24_is \in SenderTimers => u.t24_is \in SenderTimers
  <1> DEFINE a == carrier_up(x, s)
  <1>1. /\ a \in EndRecord /\ KeepsRest(x, a) /\ a.status = x.status /\ a.signal = s
        /\ x.t24_is \in SenderTimers => a.t24_is \in SenderTimers
    BY CarrierIsUp
  <1>2. u = framing_ok(a)
    OBVIOUS
  <1> HIDE DEF a
  <1>3. /\ u \in EndRecord /\ KeepsRest(a, u) /\ u.status = a.status /\ u.signal = a.signal
        /\ a.t24_is \in SenderTimers => u.t24_is \in SenderTimers
    BY <1>1, <1>2, FramingIsOk
  <1> QED
    BY <1>1, <1>3, KeepsRestTwice

LEMMA CarrierMeansSending ==
    ASSUME NEW x, Carrier(x) \in {"slow", "fast"}
    PROVE  Sending(x) /\ (Carrier(x) = "slow" <=> x.phase \in Slow)
  BY DEF Carrier

LEMMA LossesAfter ==
    ASSUME Losses, \/ UNCHANGED losses
                   \/ \E k : Lose(k)
    PROVE  Losses'
  BY LossesStay, Lost

LEMMA ReceiverHearsCarrier ==
    ASSUME Inv, CarrierUp(S) \/ TrainingFailed(S)
    PROVE  Inv'
  <1> DEFINE x == t30[S]
             y == t30[R]
  <1>1. Pair(x, y) /\ y \in EndRecord /\ Losses /\ Peer(S) = R
    BY InvIsPair, Peers
  <1>2. /\ y.signal = "none" /\ Carrier(x) \in {"slow", "fast"} /\ Carrier(x) \in CanHear(y)
        /\ \/ UNCHANGED losses
           \/ \E k : Lose(k)
        /\ \/ \E s \in {"slow", "trained"} : t30' = Changed(t30, R, framing_ok(carrier_up(y, s)))
           \/ t30' = Changed(t30, R, carrier_up(y, "untrained"))
    <2>1. CASE CarrierUp(S)
      BY <1>1, <2>1 DEF CarrierUp, Changed
    <2>2. CASE TrainingFailed(S)
      BY <1>1, <2>2 DEF TrainingFailed, Changed
    <2> QED
      BY <2>1, <2>2
  <1>3. Losses'
    BY <1>1, <1>2, LossesAfter
  <1>4. Sending(x) /\ y.phase \in {"C_ECM_RX", "B_RX", "D_RX"}
    BY <1>1, <1>2, CarrierMeansSending, CanHearPhase
  <1>5. PICK v : /\ t30' = Changed(t30, R, v)
                 /\ \/ \E s \in {"slow", "trained"} : v = framing_ok(carrier_up(y, s))
                    \/ v = carrier_up(y, "untrained")
    BY <1>2
  <1>6. v \in EndRecord /\ KeepsRest(y, v) /\ v.status = y.status /\ v.signal # "none"
    <2>1. ASSUME NEW s \in {"slow", "trained"}, v = framing_ok(carrier_up(y, s))
          PROVE  v \in EndRecord /\ KeepsRest(y, v) /\ v.status = y.status /\ v.signal # "none"
      <3>1. s \in Signals /\ s # "none"
        BY DEF Signals
      <3> HIDE DEF y
      <3> QED
        BY <1>1, <2>1, <3>1, Noticed
    <2>2. CASE v = carrier_up(y, "untrained")
      <3> DEFINE s == "untrained"
      <3>1. s \in Signals /\ s # "none"
        BY DEF Signals
      <3>2. v = carrier_up(y, s)
        BY <2>2
      <3> HIDE DEF y, s
      <3> QED
        BY <1>1, <3>1, <3>2, CarrierIsUp
    <2> QED
      BY <1>5, <2>1, <2>2
  <1>7. Pair(x, v)
    <2> HIDE DEF x, y
    <2> QED
      BY <1>1, <1>2, <1>4, <1>6, ReceiverNotices
  <1> QED
    BY <1>3, <1>5, <1>7, ReceiverMoves

LEMMA SenderHearsCarrier ==
    ASSUME Inv, CarrierUp(R) \/ TrainingFailed(R)
    PROVE  Inv'
  <1> DEFINE x == t30[S]
             y == t30[R]
             s == "slow"
  <1>1. Pair(x, y) /\ x \in EndRecord /\ y \in EndRecord /\ Losses /\ Peer(R) = S
    BY InvIsPair, Peers
  <1>2. /\ Line(x) /\ SenderLine(x) /\ Line(y) /\ ReceiverLine(y)
    BY <1>1 DEF Pair, Sender, Receiver
  <1>3. Carrier(y) \in {"slow", "none"}
    BY <1>1, <1>2, Fields DEF Carrier, ReceiverLine, Sending, Phases
  <1>4. CarrierUp(R)
    BY <1>3 DEF TrainingFailed
  <1>5. /\ x.signal = "none" /\ Carrier(y) = "slow" /\ Carrier(y) \in CanHear(x) /\ UNCHANGED losses
        /\ t30' = Changed(t30, S, framing_ok(carrier_up(x, s)))
    BY <1>1, <1>3, <1>4 DEF CarrierUp, Changed
  <1>6. Losses'
    BY <1>1, <1>5, LossesStay
  <1>7. Sending(y) /\ x.phase = "D_RX"
    BY <1>1, <1>2, <1>5, CarrierMeansSending, CanHearPhase DEF SenderLine
  <1>8. s \in Signals /\ x.t24_is \in SenderTimers
    BY <1>2 DEF Signals, SenderLine
  <1> DEFINE u == framing_ok(carrier_up(x, s))
  <1>9. u \in EndRecord /\ KeepsRest(x, u) /\ u.status = x.status /\ u.signal = s /\ u.t24_is \in SenderTimers
    <2> HIDE DEF x, s
    <2> QED
      BY <1>1, <1>8, Noticed
  <1> HIDE DEF u
  <1>10. Pair(u, y)
    <2> HIDE DEF x, y
    <2> QED
      BY <1>1, <1>5, <1>7, <1>9, SenderNotices
  <1> QED
    BY <1>5, <1>6, <1>10, SenderMoves DEF u

LEMMA SenderLosesSight ==
    ASSUME Inv, CarrierDown(S)
    PROVE  Inv'
  <1> DEFINE x == t30[S]
             y == t30[R]
             u == carrier_down(x)
  <1>1. Pair(x, y) /\ Losses /\ Peer(S) = R
    BY InvIsPair, Peers
  <1>2. /\ Hears(x) \notin {"none", Carrier(y)} /\ x.state # "D" /\ UNCHANGED losses
        /\ t30' = Changed(t30, S, u)
    BY <1>1 DEF CarrierDown, Dropped, Over, Changed
  <1>3. Losses'
    BY <1>1, <1>2, LossesStay
  <1>4. Pair(u, y)
    <2> HIDE DEF x, y
    <2> QED
      BY <1>1, <1>2, SenderCarrierDown
  <1> QED
    BY <1>2, <1>3, <1>4, SenderMoves

LEMMA ReceiverLosesSight ==
    ASSUME Inv, CarrierDown(R)
    PROVE  Inv'
  <1> DEFINE x == t30[S]
             y == t30[R]
             v == carrier_down(y)
  <1>1. Pair(x, y) /\ Losses
    BY InvIsPair
  <1>2. y.signal # "none" /\ UNCHANGED losses /\ t30' = Changed(t30, R, v)
    BY <1>1 DEF CarrierDown, Dropped, Hears, Changed
  <1>3. Losses'
    BY <1>1, <1>2, LossesStay
  <1>4. Pair(x, v)
    <2> HIDE DEF x, y
    <2> QED
      BY <1>1, <1>2, ReceiverCarrierDown
  <1> QED
    BY <1>2, <1>3, <1>4, ReceiverMoves

LEMMA SenderTransmits ==
    ASSUME Inv, Transmit(S)
    PROVE  Inv'
  <1> DEFINE x == t30[S]
             y == t30[R]
             f == Head(x.out)
             u == Emptying(x)
  <1>1. /\ Pair(x, y) /\ Losses /\ TwoEnds(t30) /\ x \in EndRecord /\ y \in EndRecord
        /\ Peer(S) = R /\ S \in {S, R}
    BY InvIsPair, Peers
  <1>2. /\ Sending(x) /\ x.out # <<>>
        /\ \/ UNCHANGED losses
           \/ \E k : Lose(k)
        /\ \/ Listens(S) /\ Sent(S, hdlc_accept(y, f))
           \/ Listens(S) /\ Sent(S, hdlc_accept_bad(y))
           \/ Sent(S, y)
    BY <1>1 DEF Transmit
  <1>3. Losses'
    BY <1>1, <1>2, LossesAfter
  <1>4. Listens(S) => Hears(y) = Carrier(x) /\ y.signal # "untrained"
    BY <1>1 DEF Listens
  <1>5. PICK v : /\ Sent(S, v)
                 /\ \/ Listens(S) /\ v = hdlc_accept(y, f)
                    \/ Listens(S) /\ v = hdlc_accept_bad(y)
                    \/ v = y
    BY <1>2
  <1>6. Pair(u, v)
    <2> HIDE DEF x, y
    <2>1. CASE Listens(S) /\ v = hdlc_accept(y, f)
      BY <1>1, <1>2, <1>4, <2>1, ReceiverAccepts
    <2>2. CASE Listens(S) /\ v = hdlc_accept_bad(y)
      BY <1>1, <1>2, <1>4, <2>2, ReceiverAcceptsBad
    <2>3. CASE v = y
      BY <1>1, <1>2, <2>3, SenderSent
    <2> QED
      BY <1>5, <2>1, <2>2, <2>3
  <1>7. TwoEnds(t30') /\ t30'[S] = u /\ t30'[R] = v
    <2>1. t30' = Delivered(t30, S, v)
      BY <1>5 DEF Sent, Delivered
    <2> QED
      BY ONLY <1>1, <2>1, FrameSent
  <1> QED
    BY <1>3, <1>6, <1>7, InvFromPair

LEMMA ReceiverTransmits ==
    ASSUME Inv, Transmit(R)
    PROVE  Inv'
  <1> DEFINE x == t30[S]
             y == t30[R]
             f == Head(y.out)
             v == Emptying(y)
  <1>1. /\ Pair(x, y) /\ Losses /\ TwoEnds(t30) /\ x \in EndRecord /\ y \in EndRecord
        /\ Peer(R) = S /\ R \in {S, R}
    BY InvIsPair, Peers
  <1>2. /\ Sending(y) /\ y.out # <<>> /\ x.state # "D"
        /\ \/ UNCHANGED losses
           \/ \E k : Lose(k)
        /\ \/ Listens(R) /\ Sent(R, hdlc_accept(x, f))
           \/ Listens(R) /\ Sent(R, hdlc_accept_bad(x))
           \/ Sent(R, x)
    BY <1>1 DEF Transmit, Over
  <1>3. Losses'
    BY <1>1, <1>2, LossesAfter
  <1>4. Listens(R) => Hears(x) = Carrier(y)
    BY <1>1 DEF Listens
  <1>5. PICK u : /\ Sent(R, u)
                 /\ \/ Listens(R) /\ u = hdlc_accept(x, f)
                    \/ Listens(R) /\ u = hdlc_accept_bad(x)
                    \/ u = x
    BY <1>2
  <1>6. Pair(u, v)
    <2> HIDE DEF x, y
    <2>1. CASE Listens(R) /\ u = hdlc_accept(x, f)
      BY <1>1, <1>2, <1>4, <2>1, SenderAccepts
    <2>2. CASE Listens(R) /\ u = hdlc_accept_bad(x)
      BY <1>1, <1>2, <1>4, <2>2, SenderAcceptsBad
    <2>3. CASE u = x
      BY <1>1, <1>2, <2>3, ReceiverSent
    <2> QED
      BY <1>5, <2>1, <2>2, <2>3
  <1>7. TwoEnds(t30') /\ t30'[R] = v /\ t30'[S] = u
    <2>1. t30' = Delivered(t30, R, u)
      BY <1>5 DEF Sent, Delivered
    <2> QED
      BY ONLY <1>1, <2>1, FrameSent
  <1> QED
    BY <1>3, <1>6, <1>7, InvFromPair

\* Neither end hears a carrier that has ended.
LEMMA SteadyFacts ==
    ASSUME Steady
    PROVE  /\ Hears(t30[S]) \in {"none", Carrier(t30[R])}
           /\ Hears(t30[R]) \in {"none", Carrier(t30[S])}
  BY Peers DEF Steady, Dropped

LEMMA SenderSteps ==
    ASSUME Inv, SendStepComplete(S)
    PROVE  Inv'
  <1> DEFINE x == t30[S]
             y == t30[R]
  <1>1. Pair(x, y) /\ Losses
    BY InvIsPair
  <1>2. /\ Sending(x) \/ x.phase = "E"
        /\ x.out = <<>> /\ x.state \in Handled /\ UNCHANGED losses /\ Hears(y) \in {"none", Carrier(x)}
        /\ \E more \in EndSteps : t30' = Changed(t30, S, send_step_complete(x, more))
    BY SteadyFacts DEF SendStepComplete, Changed
  <1>3. Losses'
    BY <1>1, <1>2, LossesStay
  <1>4. PICK more \in EndSteps : t30' = Changed(t30, S, send_step_complete(x, more))
    BY <1>2
  <1> DEFINE u == send_step_complete(x, more)
  <1>5. Pair(u, y)
    <2> HIDE DEF x, y
    <2> QED
      BY <1>1, <1>2, SenderStepped
  <1> QED
    BY <1>3, <1>4, <1>5, SenderMoves

LEMMA ReceiverSteps ==
    ASSUME Inv, SendStepComplete(R)
    PROVE  Inv'
  <1> DEFINE x == t30[S]
             y == t30[R]
  <1>1. Pair(x, y) /\ Losses
    BY InvIsPair
  <1>2. /\ Sending(y) \/ y.phase = "E"
        /\ y.out = <<>> /\ y.state \in Handled /\ UNCHANGED losses
        /\ \E more \in EndSteps : t30' = Changed(t30, R, send_step_complete(y, more))
    BY DEF SendStepComplete, Changed
  <1>3. Losses'
    BY <1>1, <1>2, LossesStay
  <1>4. PICK more \in EndSteps : t30' = Changed(t30, R, send_step_complete(y, more))
    BY <1>2
  <1> DEFINE v == send_step_complete(y, more)
  <1>5. Pair(x, v)
    <2> HIDE DEF x, y
    <2> QED
      BY <1>1, <1>2, ReceiverStepped
  <1> QED
    BY <1>3, <1>4, <1>5, ReceiverMoves

-----------------------------------------------------------------------------
(* The steps of the clocks and of the application.                          *)

\* Nothing is said or heard while the clocks run to the next expiry, and no
\* timer runs out before it.
LEMMA Quietly ==
    ASSUME Steady, ~\E i \in {S, R} : Signalling(i)
    PROVE  Quiet(t30[S], t30[R])
  <1>1. ~Signalling(S) /\ ~Signalling(R)
    OBVIOUS
  <1>2. \A e \in {S, R} : ~Signalling(e) /\ t30[e].phase \in Slow \cup {"E"} => t30[e].out = <<>> /\ t30[e].state \notin Handled
    BY DEF Signalling
  <1> QED
    BY <1>1, <1>2, SteadyFacts DEF Quiet

LEMMA ExpiryIsNext ==
    ASSUME t30[S] \in EndRecord, t30[R] \in EndRecord, NEW e \in {S, R}, Running(t30[e]) # {}
    PROVE  NextExpiry \in Nat /\ \A n \in Running(t30[S]) \cup Running(t30[R]) : NextExpiry < n
  <1> DEFINE A == Running(t30[S])
             B == Running(t30[R])
             T == A \cup B
             m == Min(T)
  <1>1. ASSUME NEW x \in EndRecord PROVE Running(x) \subseteq Nat \ {0}
    <2>1. x.t24 \in 0 .. T1 /\ x.t1 \in 0 .. T1
      BY Fields
    <2> QED
      BY <2>1, Constants DEF Running
  <1>2. A \subseteq Nat \ {0} /\ B \subseteq Nat \ {0}
    BY <1>1
  <1>3. UNION {Running(t30[i]) : i \in {S, R}} = T
    OBVIOUS
  <1>4. NextExpiry = m - 1
    BY <1>3 DEF NextExpiry
  <1>5. T # {}
    OBVIOUS
  <1> HIDE DEF A, B
  <1>6. T \in SUBSET Nat /\ T \subseteq Nat \ {0}
    BY <1>2
  <1> HIDE DEF T
  <1>7. m \in T /\ \A n \in T : m <= n
    BY <1>5, <1>6, MinIsLeast
  <1> HIDE DEF m
  <1>8. m - 1 \in Nat /\ \A n \in T : m - 1 < n
    BY <1>6, <1>7
  <1> QED
    BY <1>4, <1>8 DEF T, A, B

LEMMA ExpireFacts ==
    ASSUME Inv, NEW e \in {S, R}, Expire(e)
    PROVE  /\ UNCHANGED losses /\ NextExpiry \in Nat /\ Quiet(t30[S], t30[R])
           /\ \A n \in Running(t30[S]) \cup Running(t30[R]) : NextExpiry < n
           /\ \E u : /\ \/ Later(t30[e], NextExpiry).t24 # 0 /\ u = t24_expired(Later(t30[e], NextExpiry))
                        \/ Later(t30[e], NextExpiry).t1 # 0 /\ u = timer_t0_t1_expired(Later(t30[e], NextExpiry))
                     /\ TwoEnds(t30') /\ t30'[e] = u /\ t30'[Peer(e)] = Later(t30[Peer(e)], NextExpiry)
  <1> DEFINE x == Later(t30[e], NextExpiry)
             v == Later(t30[Peer(e)], NextExpiry)
  <1>1. t30[S] \in EndRecord /\ t30[R] \in EndRecord /\ TwoEnds(t30)
    BY InvIsPair
  <1>2. Steady /\ ~(\E i \in {S, R} : Signalling(i)) /\ Running(t30[e]) # {} /\ UNCHANGED losses
    BY DEF Expire
  <1>3. PICK u : /\ \/ x.t24 = 1 /\ u = t24_expired(x)
                    \/ x.t1 = 1 /\ u = timer_t0_t1_expired(x)
                 /\ t30' = [t30 EXCEPT ![e] = u, ![Peer(e)] = Later(@, NextExpiry)]
    BY DEF Expire
  <1>4. TwoEnds(t30') /\ t30'[e] = u /\ t30'[Peer(e)] = v
    <2>1. Peer(e) # e
      BY Peers
    <2>2. t30' = Changed(Changed(t30, e, u), Peer(e), v)
      BY <1>3, <2>1 DEF Changed
    <2> HIDE DEF v
    <2> QED
      BY ONLY <1>1, <2>2, e \in {S, R}, BothEnds
  <1>5. x.t24 = 1 => x.t24 # 0
    OBVIOUS
  <1>6. x.t1 = 1 => x.t1 # 0
    OBVIOUS
  <1> QED
    BY <1>1, <1>2, <1>3, <1>4, <1>5, <1>6, Quietly, ExpiryIsNext

LEMMA SenderExpires ==
    ASSUME Inv, Expire(S)
    PROVE  Inv'
  <1> DEFINE x == t30[S]
             y == t30[R]
             d == NextExpiry
             a == Later(x, d)
             b == Later(y, d)
  <1>1. Pair(x, y) /\ Losses /\ Peer(S) = R /\ S \in {S, R}
    BY InvIsPair, Peers
  <1>2. /\ UNCHANGED losses /\ d \in Nat /\ Quiet(x, y)
        /\ \A n \in Running(x) \cup Running(y) : d < n
        /\ \E u : /\ \/ a.t24 # 0 /\ u = t24_expired(a)
                     \/ a.t1 # 0 /\ u = timer_t0_t1_expired(a)
                  /\ TwoEnds(t30') /\ t30'[S] = u /\ t30'[R] = b
    BY <1>1, ExpireFacts
  <1>3. PICK u : /\ \/ a.t24 # 0 /\ u = t24_expired(a)
                    \/ a.t1 # 0 /\ u = timer_t0_t1_expired(a)
                 /\ TwoEnds(t30') /\ t30'[S] = u /\ t30'[R] = b
    BY <1>2
  <1> HIDE DEF x, y, d
  <1>4. Pair(a, b) /\ Quiet(a, b)
    BY <1>1, <1>2, TimePasses
  <1> HIDE DEF a, b
  <1>5. Pair(u, b)
    BY <1>3, <1>4, SenderT24Expired, SenderT1Expired
  <1> QED
    BY <1>1, <1>2, <1>3, <1>5, LossesStay, InvFromPair

LEMMA ReceiverExpires ==
    ASSUME Inv, Expire(R)
    PROVE  Inv'
  <1> DEFINE x == t30[S]
             y == t30[R]
             d == NextExpiry
             a == Later(x, d)
             b == Later(y, d)
  <1>1. Pair(x, y) /\ Losses /\ Peer(R) = S /\ R \in {S, R}
    BY InvIsPair, Peers
  <1>2. /\ UNCHANGED losses /\ d \in Nat /\ Quiet(x, y)
        /\ \A n \in Running(x) \cup Running(y) : d < n
        /\ \E v : /\ \/ b.t24 # 0 /\ v = t24_expired(b)
                     \/ b.t1 # 0 /\ v = timer_t0_t1_expired(b)
                  /\ TwoEnds(t30') /\ t30'[R] = v /\ t30'[S] = a
    BY <1>1, ExpireFacts
  <1>3. PICK v : /\ \/ b.t24 # 0 /\ v = t24_expired(b)
                    \/ b.t1 # 0 /\ v = timer_t0_t1_expired(b)
                 /\ TwoEnds(t30') /\ t30'[R] = v /\ t30'[S] = a
    BY <1>2
  <1> HIDE DEF x, y, d
  <1>4. Pair(a, b) /\ Quiet(a, b)
    BY <1>1, <1>2, TimePasses
  <1> HIDE DEF a, b
  <1>5. Pair(a, v)
    BY <1>3, <1>4, ReceiverT24Expired, ReceiverT1Expired
  <1> QED
    BY <1>1, <1>2, <1>3, <1>5, LossesStay, InvFromPair

LEMMA SenderT5Expires ==
    ASSUME Inv, ExpireT5(S)
    PROVE  Inv'
  <1> DEFINE x == t30[S]
             y == t30[R]
             n == 0
             s == "TX_T5EXP"
             a == [x EXCEPT !.t5 = n]
             u == set_status(a, s)
  <1>1. Pair(x, y) /\ Losses /\ x \in EndRecord
    BY InvIsPair
  <1>2. UNCHANGED losses /\ t30' = Changed(t30, S, u)
    BY DEF ExpireT5, timer_t5_expired, Changed
  <1>3. n \in 0 .. 1 /\ s \in Status /\ s # "OK"
    BY DEF Status
  <1>4. SenderLine(x) /\ Line(x)
    BY <1>1 DEF Pair, Sender
  <1> HIDE DEF x, y, n, s
  <1>5. Alike(x, a) /\ a.step = x.step
    BY <1>1, <1>3, SetT5
  <1> HIDE DEF a
  <1>6. /\ u \in EndRecord /\ KeepsBlock(a, u) /\ KeepsLine(a, u) /\ KeepsTimers(a, u)
        /\ u.state = a.state /\ u.step = a.step /\ u.status = s
    BY <1>3, <1>5, SetStatus DEF Alike
  <1> HIDE DEF u
  <1>7. KeepsBlock(x, u) /\ KeepsLine(x, u) /\ KeepsTimers(x, u) /\ u.state = x.state /\ u.step = x.step
    BY ONLY <1>5, <1>6 DEF Alike, KeepsBlock, KeepsLine, KeepsTimers
  <1>8. u.t24_is \in SenderTimers /\ (u.state \in {"IV", "CALL_FINISHED"} => u.t24 = 0 /\ u.t1 = 0)
    BY <1>4, <1>7 DEF SenderLine, Line, KeepsTimers
  <1>9. Pair(u, y)
    BY <1>1, <1>3, <1>6, <1>7, <1>8, PairSenderWaits
  <1> QED
    BY <1>1, <1>2, <1>9, LossesStay, SenderMoves DEF y

LEMMA ReceiverT5Expires ==
    ASSUME Inv, ExpireT5(R)
    PROVE  Inv'
  <1> DEFINE x == t30[S]
             y == t30[R]
             n == 0
             s == "TX_T5EXP"
             a == [y EXCEPT !.t5 = n]
             v == set_status(a, s)
  <1>1. Pair(x, y) /\ Losses /\ y \in EndRecord
    BY InvIsPair
  <1>2. UNCHANGED losses /\ t30' = Changed(t30, R, v)
    BY DEF ExpireT5, timer_t5_expired, Changed
  <1>3. n \in 0 .. 1 /\ s \in Status /\ s # "OK"
    BY DEF Status
  <1>4. Line(y)
    BY <1>1 DEF Pair, Receiver
  <1> HIDE DEF x, y, n, s
  <1>5. Alike(y, a) /\ a.step = y.step
    BY <1>1, <1>3, SetT5
  <1> HIDE DEF a
  <1>6. /\ v \in EndRecord /\ KeepsBlock(a, v) /\ KeepsLine(a, v) /\ KeepsTimers(a, v)
        /\ v.state = a.state /\ v.step = a.step /\ v.status = s
    BY <1>3, <1>5, SetStatus DEF Alike
  <1> HIDE DEF v
  <1>7. KeepsBlock(y, v) /\ KeepsLine(y, v) /\ KeepsTimers(y, v) /\ v.state = y.state
    BY ONLY <1>5, <1>6 DEF Alike, KeepsBlock, KeepsLine, KeepsTimers
  <1>8. v.state = "CALL_FINISHED" => v.t24 = 0 /\ v.t1 = 0
    BY <1>4, <1>7 DEF Line, KeepsTimers
  <1>9. Pair(x, v)
    BY <1>1, <1>3, <1>6, <1>7, <1>8, PairReceiverWaits
  <1> QED
    BY <1>1, <1>2, <1>9, LossesStay, ReceiverMoves DEF x

LEMMA ReceiverSetNotReady ==
    ASSUME Inv, SetNotReady
    PROVE  Inv'
  <1> DEFINE x == t30[S]
             y == t30[R]
             v == [y EXCEPT !.not_ready = NotReady]
  <1>1. Pair(x, y) /\ Losses /\ y \in EndRecord
    BY InvIsPair
  <1>2. Lose("busy") /\ y.state # "CALL_FINISHED" /\ t30' = Changed(t30, R, v)
    BY DEF SetNotReady, Changed
  <1>3. NotReady \in 0 .. NotReady
    BY Constants
  <1> HIDE DEF x, y
  <1>4. Alike(y, v)
    BY <1>1, <1>3, SetNotReadyCount
  <1> HIDE DEF v
  <1>5. Pair(x, v)
    BY <1>1, <1>2, <1>4, PairReceiverWaits DEF Alike
  <1> QED
    BY <1>1, <1>2, <1>5, Lost, ReceiverMoves DEF x

LEMMA SenderFollows ==
    ASSUME Inv, HangUp(S)
    PROVE  Inv'
  <1> DEFINE x == t30[S]
             y == t30[R]
             u == terminate(x)
  <1>1. Pair(x, y) /\ Losses /\ Peer(S) = R
    BY InvIsPair, Peers
  <1>2. y.state = "CALL_FINISHED" /\ UNCHANGED losses /\ t30' = Changed(t30, S, u)
    BY <1>1 DEF HangUp, Changed
  <1>3. Pair(u, y)
    <2> HIDE DEF x, y
    <2> QED
      BY <1>1, <1>2, SenderHangsUp
  <1> QED
    BY <1>1, <1>2, <1>3, LossesStay, SenderMoves

LEMMA ReceiverFollows ==
    ASSUME Inv, HangUp(R)
    PROVE  Inv'
  <1> DEFINE x == t30[S]
             y == t30[R]
             v == terminate(y)
  <1>1. Pair(x, y) /\ Losses /\ Peer(R) = S
    BY InvIsPair, Peers
  <1>2. x.state = "CALL_FINISHED" /\ UNCHANGED losses /\ t30' = Changed(t30, R, v)
    BY <1>1 DEF HangUp, Changed
  <1>3. Pair(x, v)
    <2> HIDE DEF x, y
    <2> QED
      BY <1>1, <1>2, ReceiverHangsUp
  <1> QED
    BY <1>1, <1>2, <1>3, LossesStay, ReceiverMoves

-----------------------------------------------------------------------------
(* The invariant holds, and the properties follow.                          *)

LEMMA InvAtFirst ==
    ASSUME Init
    PROVE  Inv
  <1> DEFINE x == SendBlock(timer_t2_t4_stop([get_partial_ecm_page(New) EXCEPT !.phase = "B_RX"]))
  <1>1. Pair(x, New)
    BY PairBegins
  <1>2. t30[S] = x /\ t30[R] = New /\ TwoEnds(t30)
    <2> HIDE DEF x
    <2>1. t30 = [e \in {S, R} |-> IF e = R THEN New ELSE x]
      BY DEF Init, x
    <2> QED
      BY <2>1, Peers DEF TwoEnds
  <1>3. Losses
    <2>1. 0 \in 0 .. MaxLoss
      BY Constants
    <2> QED
      BY <2>1 DEF Init, Losses
  <1> QED
    BY <1>1, <1>2, <1>3 DEF Inv, Pair, TwoEnds

LEMMA InvKept ==
    ASSUME Inv, [Next]_vars
    PROVE  Inv'
  <1>1. CASE SetNotReady
    BY <1>1, ReceiverSetNotReady
  <1>2. ASSUME NEW e \in {S, R}, CarrierUp(e) \/ TrainingFailed(e)
        PROVE  Inv'
    BY <1>2, ReceiverHearsCarrier, SenderHearsCarrier
  <1>3. ASSUME NEW e \in {S, R}, Transmit(e)
        PROVE  Inv'
    BY <1>3, SenderTransmits, ReceiverTransmits
  <1>4. ASSUME NEW e \in {S, R}, CarrierDown(e)
        PROVE  Inv'
    BY <1>4, SenderLosesSight, ReceiverLosesSight
  <1>5. ASSUME NEW e \in {S, R}, SendStepComplete(e)
        PROVE  Inv'
    BY <1>5, SenderSteps, ReceiverSteps
  <1>6. ASSUME NEW e \in {S, R}, Expire(e)
        PROVE  Inv'
    BY <1>6, SenderExpires, ReceiverExpires
  <1>7. ASSUME NEW e \in {S, R}, ExpireT5(e)
        PROVE  Inv'
    BY <1>7, SenderT5Expires, ReceiverT5Expires
  <1>8. ASSUME NEW e \in {S, R}, HangUp(e)
        PROVE  Inv'
    BY <1>8, SenderFollows, ReceiverFollows
  <1>9. CASE UNCHANGED vars
    <2>1. t30' = t30 /\ losses' = losses
      BY <1>9 DEF vars
    <2>2. TwoEnds(t30) /\ Pair(t30[S], t30[R]) /\ Losses
      BY InvIsPair
    <2>3. TwoEnds(t30') /\ Pair(t30'[S], t30'[R])
      BY ONLY <2>1, <2>2
    <2>4. Losses'
      BY <2>1, <2>2, LossesStay
    <2> QED
      BY <2>3, <2>4, InvFromPair
  <1> QED
    BY <1>1, <1>2, <1>3, <1>4, <1>5, <1>6, <1>7, <1>8, <1>9 DEF Next

\* The two ends stay in step through the document, whatever is lost, and each
\* keeps to its turn on the line: what t30.c relies on without checking it.
THEOREM EcmInvariant == Spec => []Inv
  <1>1. Init => Inv
    BY InvAtFirst
  <1>2. Inv /\ [Next]_vars => Inv'
    BY InvKept
  <1> QED
    BY <1>1, <1>2, PTL DEF Spec

LEMMA InvIsTypeOK ==
    ASSUME Inv
    PROVE  TypeOK
  <1>1. ASSUME NEW x \in EndRecord
        PROVE  /\ x.state \in Handled \cup {"F_POST_DOC_ECM", "T", "D", "CALL_FINISHED"}
               /\ {x.phase, x.next_phase} \subseteq Slow \cup
                     {"IDLE", "C_ECM_TX", "C_ECM_RX", "B_RX", "D_RX", "E", "CALL_FINISHED"}
               /\ x.signal \in {"none", "slow", "trained", "untrained"}
               /\ x.step \in 0 .. 1 /\ Len(x.out) <= 1
               /\ x.ecm_len \in [Slots -> Frames] /\ x.ecm_frames \in -1 .. EcmFrames
               /\ x.page \in 0 .. Len(Doc) /\ x.cur \in 0 .. EcmFrames + 3
               /\ x.retries \in Nat /\ x.ppr_count \in 0 .. PprLimit
               /\ x.fallback \in 0 .. Fallbacks /\ x.not_ready \in 0 .. NotReady
               /\ x.t24 \in 0 .. T1 /\ x.t1 \in 0 .. T1 /\ x.t5 \in 0 .. 1
    <2>1. /\ x.state \in States /\ x.phase \in Phases /\ x.next_phase \in Queable /\ x.signal \in Signals
          /\ x.out \in Outbox
          /\ x.step \in 0 .. 1
          /\ x.ecm_len \in [Slots -> Frames] /\ x.ecm_frames \in -1 .. EcmFrames
          /\ x.page \in 0 .. Len(Doc) /\ x.cur \in 0 .. EcmFrames + 3
          /\ x.retries \in Nat /\ x.ppr_count \in 0 .. PprLimit
          /\ x.fallback \in 0 .. Fallbacks /\ x.not_ready \in 0 .. NotReady
          /\ x.t24 \in 0 .. T1 /\ x.t1 \in 0 .. T1 /\ x.t5 \in 0 .. 1
      BY Fields
    <2>2. States = Handled \cup {"F_POST_DOC_ECM", "T", "D", "CALL_FINISHED"}
      BY DEF States, Handled, OneFrame
    <2>3. \A p \in Phases \cup Queable :
             p \in Slow \cup {"IDLE", "C_ECM_TX", "C_ECM_RX", "B_RX", "D_RX", "E", "CALL_FINISHED"}
      BY DEF Phases, Queable, Slow
    <2>4. Len(x.out) <= 1
      <3>1. x.out = <<>> \/ \E f \in LineFrame : x.out = <<f>>
        BY <2>1 DEF Outbox
      <3>2. CASE x.out = <<>>
        BY <3>2
      <3>3. ASSUME NEW f, x.out = <<f>> PROVE Len(x.out) = 1
        BY <3>3
      <3>4. \A n \in {0, 1} : n <= 1
        OBVIOUS
      <3> QED
        BY <3>1, <3>2, <3>3, <3>4
    <2>5. Signals = {"none", "slow", "trained", "untrained"}
      BY DEF Signals
    <2>6. {x.phase, x.next_phase} \subseteq Slow \cup
              {"IDLE", "C_ECM_TX", "C_ECM_RX", "B_RX", "D_RX", "E", "CALL_FINISHED"}
      BY <2>1, <2>3
    <2> QED
      BY <2>1, <2>2, <2>4, <2>5, <2>6
  <1>2. t30[S] \in EndRecord /\ t30[R] \in EndRecord /\ Losses
    BY InvIsPair
  <1> QED
    BY <1>1, <1>2 DEF TypeOK, Losses

\* The ends keep to their states, phases and timers, no more than a frame ever
\* waits to be sent, and no count of t30_state_t passes its limit.
THEOREM EcmTypeOK == Spec => []TypeOK
  BY EcmInvariant, InvIsTypeOK, PTL

LEMMA InvIsInOrder ==
    ASSUME Inv
    PROVE  DeliveredInOrder
  BY DEF Inv, Receiver, ReceiverPlace, DeliveredInOrder

\* t4_rx_put gets the document block by block, in order and once: whatever the
\* line loses, no PPS, MCF or PPR is ever taken for one of another block.
THEOREM EcmDeliversInOrder == Spec => []DeliveredInOrder
  BY EcmInvariant, InvIsInOrder, PTL

LEMMA InvIsLockStep ==
    ASSUME Inv
    PROVE  LockStep
  <1> DEFINE x == t30[S]
             y == t30[R]
  <1>1. /\ x \in EndRecord /\ SenderLine(x) /\ SenderPlace(x) /\ InStep(x, y)
    BY InvIsPair DEF Pair, Sender
  <1>2. SamePlace
    BY <1>1 DEF SamePlace, InStep, AtOne, Ahead, Done
  <1>3. NothingForgotten
    <2>1. SUFFICES ASSUME Receiving(y), x.page < Len(Doc), Place(x) = Place(y), NEW i \in Slots
                   PROVE  /\ y.ecm_len[i] \in {None, <<x.page, x.ecm_block, i>>}
                          /\ y.ecm_len[i] = None /\ i < Doc[x.page + 1][x.ecm_block + 1] => x.ecm_len[i] # None
      BY DEF NothingForgotten
    <2>2. Stored(x, y)
      BY <1>1, <2>1 DEF InStep, AtOne
    <2>3. x.ecm_frames = Doc[x.page + 1][x.ecm_block + 1]
      BY <1>1, <2>1, BlockFacts DEF SenderPlace
    <2> HIDE DEF x, y
    <2> QED
      BY <2>1, <2>2, <2>3 DEF Stored
  <1>4. SameModem
    BY <1>1 DEF SameModem, SenderLine, InStep
  <1> QED
    BY <1>2, <1>3, <1>4 DEF LockStep

\* No answer is taken for one to another block, no frame is stored for one of
\* another, what the receiver lacks can still be had, and image data are sent
\* by the modem that listens.
THEOREM EcmLockStep == Spec => []LockStep
  BY EcmInvariant, InvIsLockStep, PTL

LEMMA InvIsGoodEnd ==
    ASSUME Inv
    PROVE  GoodEndMeansWhole
  <1> DEFINE x == t30[S]
             y == t30[R]
  <1>1. SenderPlace(x) /\ InStep(x, y) /\ ReceiverLine(y) /\ ReceiverPlace(y)
    BY InvIsPair DEF Pair, Sender, Receiver
  <1>2. x.page = Len(Doc) \/ y.page = Len(Doc) => y.put = Document
    BY <1>1 DEF InStep, ReceiverPlace
  <1>3. x.state \in {"T", "D"} \/ (x.state = "CALL_FINISHED" /\ x.status = "OK") => x.page = Len(Doc)
    BY <1>1 DEF SenderPlace, Ended
  <1>4. y.state \in {"T", "D"} \/ (y.state = "CALL_FINISHED" /\ y.status = "OK") => y.page = Len(Doc)
    BY <1>1 DEF ReceiverLine, ReceiverPlace, Answering, Ended
  <1> QED
    BY <1>2, <1>3, <1>4 DEF GoodEndMeansWhole

\* An end that reports T30_ERR_OK, and a sender that goes on to the next
\* document, did so because the decoder at the far end has all of this one.
THEOREM EcmGoodEndMeansWhole == Spec => []GoodEndMeansWhole
  BY EcmInvariant, InvIsGoodEnd, PTL
=============================================================================

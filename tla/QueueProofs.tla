---------------------------- MODULE QueueProofs ----------------------------
(***************************************************************************)
(* Proofs about the lock free queue.  Of octets, for every ring size, octet *)
(* set, block length and flag setting: the inductive invariant QueueInv,   *)
(* and what follows from it, that the queue implements a FIFO.  Of         *)
(* messages, for every set of messages whose length fits its two octets:   *)
(* between the reader's calls the queue holds whole messages and nothing   *)
(* else, and a read returns the oldest.                                    *)
(***************************************************************************)
EXTENDS QueueMsg, CommonLemmas

\* The pointer arithmetic of queue.c, without a modulus: free space and
\* contents of a ring always add up to its size less the one spare slot.
LEMMA RingArithmetic ==
    ASSUME NEW i \in Slots, NEW o \in Slots
    PROVE  /\ FreeSpace(i, o) \in Slots
           /\ Contents(i, o) \in Slots
           /\ FreeSpace(i, o) + Contents(i, o) = QLen - 1
BY QueueAssumption DEF Slots, FreeSpace, Contents

\* What queue_free_space and queue_contents return is never negative.
LEMMA RingNat ==
    \A i, o \in Slots : FreeSpace(i, o) \in Nat /\ Contents(i, o) \in Nat
BY QueueAssumption DEF Slots, FreeSpace, Contents

\* Both copy shapes of queue_write (one step, two step) store octet k of the
\* block k - 1 slots after iptr, wrapping at the end of the ring.
LEMMA WriteSlotIsWrap ==
    ASSUME TypeOK, WriterInv, wpc = "copy", NEW k \in DOMAIN wbuf
    PROVE  /\ WriteSlot(k) = Wrap(iptr + k - 1)
           /\ WriteSlot(k) \in Slots
           /\ k \in 1 .. FreeSpace(iptr, optr)
<1>1. k \in 1 .. Len(wbuf) /\ Len(wbuf) \in Nat
  BY DEF TypeOK
<1>2. /\ wi = iptr
      /\ Len(wbuf) <= FreeSpace(wi, wo)
      /\ FreeSpace(wi, wo) <= FreeSpace(iptr, optr)
  BY DEF WriterInv
<1>3. wi \in Slots /\ wo \in Slots /\ optr \in Slots
  BY DEF TypeOK
<1> QED
  BY <1>1, <1>2, <1>3, QueueAssumption, SMTT(60) DEF WriteSlot, Wrap, Slots, FreeSpace

\* Both copy shapes of queue_read and queue_view take octet k from k - 1
\* slots after optr, wrapping at the end of the ring.
LEMMA ReadSlotIsWrap ==
    ASSUME TypeOK, ReaderInv, Reading, NEW k \in 1 .. rn
    PROVE  /\ ReadSlot(k) = Wrap(optr + k - 1)
           /\ ReadSlot(k) \in Slots
           /\ k \in 1 .. Contents(iptr, optr)
<1>1. /\ ro = optr
      /\ rn \in 1 .. Contents(ri, ro)
      /\ Contents(ri, ro) <= Contents(iptr, optr)
  BY DEF ReaderInv
<1>2. ri \in Slots /\ ro \in Slots /\ iptr \in Slots
  BY DEF TypeOK
<1> QED
  BY <1>1, <1>2, QueueAssumption DEF ReadSlot, TwoStepRead, Wrap, Slots, Contents

\* The slots that hold queued octets and the free ones are disjoint.
LEMMA FreeSlotsAreNotQueued ==
    ASSUME NEW i \in Slots, NEW o \in Slots,
           NEW k \in 1 .. FreeSpace(i, o), NEW j \in 1 .. Contents(i, o)
    PROVE  Wrap(i + k - 1) # Wrap(o + j - 1)
BY QueueAssumption DEF Slots, FreeSpace, Contents, Wrap

\* Two octets of one block never share a slot.
LEMMA FreeSlotsAreDistinct ==
    ASSUME NEW i \in Slots, NEW o \in Slots,
           NEW k \in 1 .. FreeSpace(i, o), NEW j \in 1 .. FreeSpace(i, o), k # j
    PROVE  Wrap(i + k - 1) # Wrap(i + j - 1)
BY QueueAssumption DEF Slots, FreeSpace, Contents, Wrap

\* A finished write moves iptr on by the length of the block.
LEMMA NewIptrIsWrap ==
    ASSUME TypeOK, WriterInv, wpc = "copy"
    PROVE  NewIptr = Wrap(iptr + Len(wbuf)) /\ NewIptr \in Slots
<1>1. wi = iptr /\ Len(wbuf) \in 1 .. FreeSpace(wi, wo)
  BY DEF WriterInv
<1>2. wi \in Slots /\ wo \in Slots
  BY DEF TypeOK
<1> QED
  BY <1>1, <1>2, QueueAssumption DEF NewIptr, Wrap, Slots, FreeSpace

\* A finished read moves optr on by the number of octets taken.
LEMMA NewOptrIsWrap ==
    ASSUME TypeOK, ReaderInv, Reading
    PROVE  NewOptr = Wrap(optr + rn) /\ NewOptr \in Slots
<1>1. /\ ro = optr
      /\ rn \in 1 .. Contents(ri, ro)
      /\ Contents(ri, ro) <= Contents(iptr, optr)
  BY DEF ReaderInv
<1>2. ri \in Slots /\ ro \in Slots /\ iptr \in Slots
  BY DEF TypeOK
<1> QED
  BY <1>1, <1>2, QueueAssumption DEF NewOptr, TwoStepRead, Wrap, Slots, Contents

\* Moving iptr on by n turns n free slots into contents.
LEMMA AdvanceIptr ==
    ASSUME NEW i \in Slots, NEW o \in Slots, NEW n \in 1 .. FreeSpace(i, o)
    PROVE  /\ Wrap(i + n) \in Slots
           /\ Contents(Wrap(i + n), o) = Contents(i, o) + n
           /\ FreeSpace(Wrap(i + n), o) = FreeSpace(i, o) - n
BY QueueAssumption DEF Slots, FreeSpace, Contents, Wrap

\* Moving optr on by n turns n slots of contents into free ones.
LEMMA AdvanceOptr ==
    ASSUME NEW i \in Slots, NEW o \in Slots, NEW n \in 0 .. Contents(i, o)
    PROVE  /\ Wrap(o + n) \in Slots
           /\ Contents(i, Wrap(o + n)) = Contents(i, o) - n
           /\ FreeSpace(i, Wrap(o + n)) = FreeSpace(i, o) + n
BY QueueAssumption DEF Slots, FreeSpace, Contents, Wrap

-----------------------------------------------------------------------------
\* Every write starts with a non-empty block of octets that fits the room its
\* snapshot shows.
LEMMA WriteFits ==
    ASSUME TypeOK,
           \/ \E buf \in Requests : queue_write(buf)
           \/ \E byte \in Octet : queue_write_byte(byte)
    PROVE  \E block \in Seq(Octet) :
              /\ Len(block) \in 1 .. FreeSpace(iptr, optr)
              /\ StartWrite(block)
<1>0. FreeSpace(iptr, optr) \in Nat
  BY RingNat DEF TypeOK
<1>1. ASSUME NEW buf \in Requests, queue_write(buf)
      PROVE  \E block \in Seq(Octet) :
                /\ Len(block) \in 1 .. FreeSpace(iptr, optr)
                /\ StartWrite(block)
  <2>1. PICK n \in 1 .. MaxReq : buf \in [1 .. n -> Octet]
    BY DEF Requests
  <2>2. buf \in Seq(Octet) /\ Len(buf) = n /\ n \in Nat
    BY <2>1, QueueAssumption
  <2>3. CASE FreeSpace(iptr, optr) < Len(buf)
    <3> DEFINE b == SubSeq(buf, 1, FreeSpace(iptr, optr))
    <3>1. StartWrite(b)
      BY <1>1, <2>3 DEF queue_write
    <3>2. b # <<>>
      BY <3>1 DEF StartWrite
    <3>3. b \in Seq(Octet) /\ Len(b) = FreeSpace(iptr, optr)
      BY <1>0, <2>2, <2>3
    <3>4. Len(b) # 0
      BY <3>2, <3>3
    <3>5. Len(b) \in 1 .. FreeSpace(iptr, optr)
      BY <1>0, <3>3, <3>4
    <3> HIDE DEF b
    <3> QED
      BY <3>1, <3>3, <3>5
  <2>4. CASE ~(FreeSpace(iptr, optr) < Len(buf))
    <3>1. StartWrite(buf)
      BY <1>1, <2>4 DEF queue_write
    <3> QED
      BY <1>0, <2>1, <2>2, <2>4, <3>1
  <2> QED
    BY <2>3, <2>4
<1>2. ASSUME NEW byte \in Octet, queue_write_byte(byte)
      PROVE  \E block \in Seq(Octet) :
                /\ Len(block) \in 1 .. FreeSpace(iptr, optr)
                /\ StartWrite(block)
  <2> DEFINE b == <<byte>>
  <2>1. b \in Seq(Octet) /\ Len(b) = 1
    OBVIOUS
  <2>2. FreeSpace(iptr, optr) >= 1 /\ StartWrite(b)
    BY <1>2 DEF queue_write_byte
  <2> HIDE DEF b
  <2>3. Len(b) \in 1 .. FreeSpace(iptr, optr)
    BY <1>0, <2>1, <2>2
  <2> QED
    BY <2>1, <2>2, <2>3
<1> QED
  BY <1>1, <1>2

\* A read or view starts with a count of octets its snapshot shows queued.
LEMMA ReadSnapshot ==
    ASSUME TypeOK, NEW op, NEW len \in Nat, StartRead(op, len)
    PROVE  /\ rpc = "idle" /\ rpc' = op
           /\ ri' = iptr /\ ro' = optr
           /\ rn' \in 1 .. Contents(iptr, optr)
           /\ rbuf' = <<>> /\ rcount' = Unknown
           /\ UNCHANGED <<shared, writer>>
<1>1. Contents(iptr, optr) \in Nat
  BY RingNat DEF TypeOK
<1> QED
  BY <1>1 DEF StartRead

\* So does each of the calls.
LEMMA ReadFits ==
    ASSUME \/ \E len \in 1 .. MaxReq : queue_read(len) \/ queue_view(len) \/ queue_skip(len)
           \/ queue_read_byte
    PROVE  \E op \in {"read", "view", "discard"}, len \in Nat : StartRead(op, len)
BY QueueAssumption DEF queue_read, queue_view, queue_skip, queue_read_byte

-----------------------------------------------------------------------------
\* A write of a block that fits starts well.
LEMMA WriteStarts ==
    ASSUME QueueInv, NEW block \in Seq(Octet),
           Len(block) \in 1 .. FreeSpace(iptr, optr), StartWrite(block)
    PROVE  QueueInv'
<1> USE DEF QueueInv
<1>2. /\ wpc' = "copy" /\ wi' = iptr /\ wo' = optr /\ wbuf' = block
      /\ wdone' = {} /\ wspace' = Unknown
      /\ UNCHANGED <<shared, reader>>
  BY DEF StartWrite
<1>3. TypeOK'
  BY <1>2 DEF TypeOK, shared, reader, Slots
<1>4. WriterInv'
  <2>1. FreeSpace(iptr, optr) \in Nat
    BY RingNat DEF TypeOK
  <2> QED
    BY <1>2, <2>1 DEF WriterInv, shared, FreeSpace
<1>5. ReaderInv'
  BY <1>2 DEF ReaderInv, Reading, shared, reader, Contents, Wrap
<1>6. ReportsStayValid'
  <2>1. FreeSpace(iptr, optr) \in Nat
    BY RingNat DEF TypeOK
  <2> QED
    BY <1>2, <2>1 DEF ReportsStayValid, Unknown, shared, reader, FreeSpace, Contents
<1> QED
  BY <1>3, <1>4, <1>5, <1>6

\* The steps of the writing thread keep the invariant.
LEMMA WriterStep ==
    ASSUME QueueInv, WriterNext
    PROVE  QueueInv'
<1> USE DEF QueueInv
<1>1. ASSUME \/ \E buf \in Requests : queue_write(buf)
             \/ \E byte \in Octet : queue_write_byte(byte)
      PROVE  QueueInv'
  <2>1. PICK block \in Seq(Octet) :
                /\ Len(block) \in 1 .. FreeSpace(iptr, optr)
                /\ StartWrite(block)
    BY <1>1, WriteFits
  <2> QED
    BY <2>1, WriteStarts
<1>2. ASSUME NEW k \in DOMAIN wbuf \ wdone, WriteCopy(k)
      PROVE  QueueInv'
  <2>1. /\ wpc = "copy"
        /\ data' = [data EXCEPT ![WriteSlot(k)] = wbuf[k]]
        /\ wdone' = wdone \cup {k}
        /\ UNCHANGED <<iptr, optr, wpc, wi, wo, wbuf, wspace, reader>>
    BY <1>2 DEF WriteCopy
  <2>2. /\ WriteSlot(k) = Wrap(iptr + k - 1) /\ WriteSlot(k) \in Slots
        /\ k \in 1 .. FreeSpace(iptr, optr)
    BY <2>1, WriteSlotIsWrap
  <2>3. TypeOK'
    <3>1. wbuf[k] \in Octet
      BY DEF TypeOK
    <3> QED
      BY <2>1, <2>2, <3>1 DEF TypeOK, reader
  <2>4. WriterInv'
    <3>1. ASSUME NEW j \in wdone'
          PROVE  data'[Wrap(wi + j - 1)] = wbuf[j]
      <4>1. j \in DOMAIN wbuf /\ wi = iptr
        BY <2>1 DEF TypeOK, WriterInv
      <4>2. /\ WriteSlot(j) = Wrap(iptr + j - 1) /\ WriteSlot(j) \in Slots
            /\ j \in 1 .. FreeSpace(iptr, optr)
        BY <2>1, <4>1, WriteSlotIsWrap
      <4>3. CASE j = k
        BY <2>1, <2>2, <4>1, <4>2, <4>3 DEF TypeOK
      <4>4. CASE j # k
        <5>1. Wrap(iptr + j - 1) # Wrap(iptr + k - 1)
          BY <2>2, <4>2, <4>4, FreeSlotsAreDistinct DEF TypeOK
        <5>2. data[Wrap(wi + j - 1)] = wbuf[j]
          BY <2>1, <4>4 DEF WriterInv
        <5> QED
          BY <2>1, <2>2, <4>1, <4>2, <5>1, <5>2 DEF TypeOK
      <4> QED
        BY <4>3, <4>4
    <3> QED
      BY <2>1, <3>1 DEF WriterInv, FreeSpace, Wrap
  <2>5. ReaderInv'
    <3>1. ASSUME Reading, NEW j \in DOMAIN rbuf
          PROVE  data'[Wrap(ro + j - 1)] = data[Wrap(ro + j - 1)]
      <4>1. j \in 1 .. rn /\ ro = optr
        BY <3>1 DEF ReaderInv
      <4>2. /\ ReadSlot(j) = Wrap(optr + j - 1) /\ ReadSlot(j) \in Slots
            /\ j \in 1 .. Contents(iptr, optr)
        BY <3>1, <4>1, ReadSlotIsWrap
      <4>3. Wrap(iptr + k - 1) # Wrap(optr + j - 1)
        BY <2>2, <4>2, FreeSlotsAreNotQueued DEF TypeOK
      <4> QED
        BY <2>1, <2>2, <4>1, <4>2, <4>3 DEF TypeOK
    <3> QED
      BY <2>1, <3>1 DEF ReaderInv, Reading, reader, Contents, Wrap
  <2>6. ReportsStayValid'
    BY <2>1 DEF ReportsStayValid, reader, FreeSpace, Contents
  <2> QED
    BY <2>3, <2>4, <2>5, <2>6
<1>3. ASSUME WritePublish
      PROVE  QueueInv'
  <2>1. /\ wpc = "copy"
        /\ iptr' = NewIptr
        /\ wpc' = "idle" /\ wi' = 0 /\ wo' = 0 /\ wbuf' = <<>> /\ wdone' = {}
        /\ UNCHANGED <<data, optr, wspace, reader>>
    BY <1>3 DEF WritePublish
  <2>2. /\ NewIptr = Wrap(iptr + Len(wbuf)) /\ NewIptr \in Slots
        /\ Len(wbuf) \in 1 .. FreeSpace(iptr, optr)
    <3>1. FreeSpace(iptr, optr) \in Nat /\ FreeSpace(wi, wo) \in Nat
      BY RingNat DEF TypeOK
    <3> QED
      BY <2>1, <3>1, NewIptrIsWrap DEF WriterInv
  <2>3. TypeOK'
    BY <2>1, <2>2, QueueAssumption DEF TypeOK, reader, Slots
  <2>4. WriterInv'
    BY <2>1 DEF WriterInv
  <2>5. /\ Contents(iptr', optr) = Contents(iptr, optr) + Len(wbuf)
        /\ FreeSpace(iptr', optr) = FreeSpace(iptr, optr) - Len(wbuf)
    BY <2>1, <2>2, AdvanceIptr DEF TypeOK
  <2>6. ReaderInv'
    <3>1. /\ Contents(ri, ro) \in Nat /\ Contents(ri, optr) \in Nat
          /\ Contents(iptr, optr) \in Nat /\ Contents(iptr', optr) \in Nat
      <4>1. ri \in Slots /\ ro \in Slots /\ iptr \in Slots /\ iptr' \in Slots /\ optr \in Slots
        BY <2>1, <2>2 DEF TypeOK
      <4> QED
        BY <4>1, RingNat
    <3>2. Contents(iptr, optr) <= Contents(iptr', optr)
      BY <2>2, <2>5, <3>1
    <3>3. Reading => Contents(ri, ro) <= Contents(iptr, optr)
      BY DEF ReaderInv
    <3>4. rpc = "flush" => Contents(ri, optr) <= Contents(iptr, optr)
      BY DEF ReaderInv
    <3>5. /\ Reading => Contents(ri, ro) <= Contents(iptr', optr)
          /\ rpc = "flush" => Contents(ri, optr) <= Contents(iptr', optr)
      BY <3>1, <3>2, <3>3, <3>4
    <3> QED
      BY <2>1, <3>5 DEF ReaderInv, Reading, reader, Contents, Wrap
  <2>7. ReportsStayValid'
    <3>1. wspace' = Unknown /\ rcount' = rcount
      BY <2>1 DEF WriterInv, reader
    <3>2. /\ Contents(iptr, optr) \in Nat /\ Contents(iptr', optr) \in Nat
          /\ FreeSpace(iptr', optr) \in Nat
      BY <2>1, <2>2, RingNat DEF TypeOK
    <3>3. rcount \in Int /\ rcount <= Contents(iptr, optr)
      BY DEF TypeOK, ReportsStayValid, Unknown, Slots
    <3>4. Unknown <= FreeSpace(iptr', optr) /\ rcount <= Contents(iptr', optr)
      BY <2>2, <2>5, <3>2, <3>3 DEF Unknown
    <3> QED
      BY <2>1, <3>1, <3>4 DEF ReportsStayValid, FreeSpace, Contents
  <2> QED
    BY <2>3, <2>4, <2>6, <2>7
<1>4. ASSUME queue_free_space
      PROVE  QueueInv'
  <2>1. /\ wpc = "idle" /\ wspace' = FreeSpace(iptr, optr)
        /\ UNCHANGED <<shared, wpc, wi, wo, wbuf, wdone, reader>>
    BY <1>4 DEF queue_free_space
  <2>2. FreeSpace(iptr, optr) \in Slots
    BY RingArithmetic DEF TypeOK
  <2>3. TypeOK'
    BY <2>1, <2>2 DEF TypeOK, shared, reader
  <2>4. WriterInv'
    BY <2>1 DEF WriterInv
  <2>5. ReaderInv'
    BY <2>1 DEF ReaderInv, Reading, shared, reader, Contents, Wrap
  <2>6. ReportsStayValid'
    <3>1. FreeSpace(iptr, optr) <= FreeSpace(iptr, optr)
      BY <2>2, QueueAssumption DEF Slots
    <3> QED
      BY <2>1, <3>1 DEF ReportsStayValid, shared, reader, FreeSpace, Contents
  <2> QED
    BY <2>3, <2>4, <2>5, <2>6
<1> QED
  BY <1>1, <1>2, <1>3, <1>4 DEF WriterNext

\* Taking n octets off the front leaves the writing thread's invariant and its
\* report as they are: room only grows under the writer.
LEMMA WriterUnderAdvance ==
    ASSUME QueueInv, NEW n \in 0 .. Contents(iptr, optr),
           optr' = Wrap(optr + n), UNCHANGED <<data, iptr, writer>>
    PROVE  /\ optr' \in Slots
           /\ Contents(iptr, optr') = Contents(iptr, optr) - n
           /\ WriterInv'
           /\ wspace <= FreeSpace(iptr, optr')
<1> USE DEF QueueInv
<1>1. /\ optr' \in Slots
      /\ Contents(iptr, optr') = Contents(iptr, optr) - n
      /\ FreeSpace(iptr, optr') = FreeSpace(iptr, optr) + n
  BY AdvanceOptr DEF TypeOK
<1>2. /\ FreeSpace(iptr, optr) \in Nat /\ FreeSpace(iptr, optr') \in Nat
      /\ FreeSpace(wi, wo) \in Nat /\ Contents(iptr, optr) \in Nat
  BY <1>1, RingNat DEF TypeOK
<1>3. wspace \in Int /\ wspace <= FreeSpace(iptr, optr)
  BY QueueAssumption DEF TypeOK, ReportsStayValid, Unknown, Slots
<1>4. wspace <= FreeSpace(iptr, optr')
  BY <1>1, <1>2, <1>3
<1>5. wpc = "copy" => FreeSpace(wi, wo) <= FreeSpace(iptr, optr)
  BY DEF WriterInv
<1>6. wpc = "copy" => FreeSpace(wi, wo) <= FreeSpace(iptr, optr')
  BY <1>1, <1>2, <1>5
<1>7. WriterInv'
  BY <1>6 DEF WriterInv, writer, FreeSpace, Wrap
<1> QED
  BY <1>1, <1>4, <1>7

\* queue_flush moves optr to a place the octets between the pointers reach.
LEMMA FlushAdvances ==
    ASSUME NEW i \in Slots, NEW o \in Slots, NEW r \in Slots,
           Contents(r, o) <= Contents(i, o)
    PROVE  r = Wrap(o + Contents(r, o)) /\ Contents(r, o) \in 0 .. Contents(i, o)
BY QueueAssumption DEF Slots, Contents, Wrap

\* A read or view that starts, of whatever length.
LEMMA ReadStarts ==
    ASSUME QueueInv, NEW op \in {"read", "view", "discard"}, NEW len \in Nat, StartRead(op, len)
    PROVE  QueueInv'
<1> USE DEF QueueInv
<1>1. /\ rpc = "idle" /\ rpc' = op
      /\ ri' = iptr /\ ro' = optr
      /\ rn' \in 1 .. Contents(iptr, optr)
      /\ rbuf' = <<>> /\ rcount' = Unknown
      /\ UNCHANGED <<shared, writer>>
  BY ReadSnapshot
<1>2. Contents(iptr, optr) \in Slots /\ Contents(iptr, optr) \in Nat
  BY RingArithmetic, RingNat DEF TypeOK
<1>3. rn' \in Slots
  BY <1>1, <1>2, QueueAssumption DEF Slots
<1>4. rbuf' \in [DOMAIN rbuf' -> Octet] /\ DOMAIN rbuf' = {}
  BY <1>1
<1>5. TypeOK'
  BY <1>1, <1>3, <1>4 DEF TypeOK, shared, writer
<1>6. WriterInv'
  BY <1>1 DEF WriterInv, shared, writer, FreeSpace, Wrap
<1>7. ReaderInv'
  BY <1>1, <1>2, <1>4 DEF ReaderInv, shared, Contents
<1>8. ReportsStayValid'
  BY <1>1, <1>2 DEF ReportsStayValid, Unknown, shared, writer, FreeSpace, Contents
<1> QED
  BY <1>5, <1>6, <1>7, <1>8

\* The steps of the reading thread keep the invariant.
LEMMA ReaderStep ==
    ASSUME QueueInv, ReaderNext
    PROVE  QueueInv'
<1> USE DEF QueueInv
<1>1. ASSUME \/ \E len \in 1 .. MaxReq : queue_read(len) \/ queue_view(len) \/ queue_skip(len)
             \/ queue_read_byte
      PROVE  QueueInv'
  BY <1>1, ReadFits, ReadStarts
<1>2. ASSUME NEW k \in (1 .. rn) \ DOMAIN rbuf, ReadCopy(k)
      PROVE  QueueInv'
  <2>1. /\ rpc \in {"read", "view"}
        /\ rbuf' = [j \in DOMAIN rbuf \cup {k} |->
                       IF j = k THEN data[ReadSlot(k)] ELSE rbuf[j]]
        /\ UNCHANGED <<shared, rpc, ri, ro, rn, rcount, writer>>
    BY <1>2 DEF ReadCopy
  <2>2. Reading
    BY <2>1 DEF Reading
  <2>3. ReadSlot(k) = Wrap(optr + k - 1) /\ ReadSlot(k) \in Slots
    BY <2>2, ReadSlotIsWrap
  <2>4. data[ReadSlot(k)] \in Octet /\ \A j \in DOMAIN rbuf : rbuf[j] \in Octet
    BY <2>3 DEF TypeOK
  <2>5. DOMAIN rbuf' = DOMAIN rbuf \cup {k} /\ rbuf' \in [DOMAIN rbuf' -> Octet]
    BY <2>1, <2>4
  <2>6. TypeOK'
    BY <2>1, <2>5 DEF TypeOK, shared, writer
  <2>7. WriterInv'
    BY <2>1 DEF WriterInv, shared, writer, FreeSpace, Wrap
  <2>8. ReaderInv'
    <3>1. ro = optr /\ DOMAIN rbuf \subseteq 1 .. rn
      BY <2>2 DEF ReaderInv
    <3>2. \A j \in DOMAIN rbuf' : rbuf'[j] = data[Wrap(ro + j - 1)]
      BY <2>1, <2>2, <2>3, <2>5, <3>1 DEF ReaderInv
    <3> QED
      BY <2>1, <2>2, <2>5, <3>1, <3>2 DEF ReaderInv, Reading, shared, Contents, Wrap
  <2>9. ReportsStayValid'
    BY <2>1 DEF ReportsStayValid, shared, writer, FreeSpace, Contents
  <2> QED
    BY <2>6, <2>7, <2>8, <2>9
<1>3. ASSUME ReadPublish
      PROVE  QueueInv'
  <2>1. /\ Reading
        /\ optr' = NewOptr /\ rpc' = "idle" /\ ri' = 0 /\ ro' = 0 /\ rn' = 0
        /\ UNCHANGED <<data, iptr, rbuf, rcount, writer>>
    BY <1>3 DEF ReadPublish, Reading
  <2>2. NewOptr = Wrap(optr + rn) /\ rn \in 0 .. Contents(iptr, optr)
    <3>1. rn \in 1 .. Contents(ri, ro) /\ Contents(ri, ro) <= Contents(iptr, optr)
      BY <2>1 DEF ReaderInv
    <3>2. Contents(ri, ro) \in Nat /\ Contents(iptr, optr) \in Nat
      BY RingNat DEF TypeOK
    <3> QED
      BY <2>1, <3>1, <3>2, NewOptrIsWrap
  <2>3. /\ optr' \in Slots /\ WriterInv' /\ wspace <= FreeSpace(iptr, optr')
    BY <2>1, <2>2, WriterUnderAdvance
  <2>4. TypeOK'
    BY <2>1, <2>3, QueueAssumption DEF TypeOK, writer, Slots
  <2>5. ReaderInv'
    BY <2>1 DEF ReaderInv, Reading
  <2>6. ReportsStayValid'
    <3>1. rcount = Unknown /\ Contents(iptr, optr') \in Nat
      BY <2>1, <2>3, RingNat DEF ReaderInv, Reading, TypeOK
    <3> QED
      BY <2>1, <2>3, <3>1 DEF ReportsStayValid, Unknown, writer, FreeSpace, Contents
  <2> QED
    BY <2>3, <2>4, <2>5, <2>6
<1>4. ASSUME ViewEnd
      PROVE  QueueInv'
  <2>1. /\ rpc' = "idle" /\ ri' = 0 /\ ro' = 0 /\ rn' = 0
        /\ UNCHANGED <<shared, rbuf, rcount, writer>>
    BY <1>4 DEF ViewEnd
  <2>2. TypeOK'
    BY <2>1, QueueAssumption DEF TypeOK, shared, writer, Slots
  <2>3. WriterInv'
    BY <2>1 DEF WriterInv, shared, writer, FreeSpace, Wrap
  <2>4. ReaderInv'
    BY <2>1 DEF ReaderInv, Reading
  <2>5. ReportsStayValid'
    BY <2>1 DEF ReportsStayValid, shared, writer, FreeSpace, Contents
  <2> QED
    BY <2>2, <2>3, <2>4, <2>5
<1>5. ASSUME FlushLoad
      PROVE  QueueInv'
  <2>1. /\ rpc' = "flush" /\ ri' = iptr /\ rbuf' = <<>> /\ rcount' = Unknown
        /\ UNCHANGED <<shared, ro, rn, writer>>
    BY <1>5 DEF FlushLoad
  <2>2. Contents(iptr, optr) \in Nat
    BY RingNat DEF TypeOK
  <2>3. TypeOK'
    BY <2>1 DEF TypeOK, shared, writer
  <2>4. WriterInv'
    BY <2>1 DEF WriterInv, shared, writer, FreeSpace, Wrap
  <2>5. ReaderInv'
    BY <2>1, <2>2 DEF ReaderInv, Reading, shared, Contents
  <2>6. ReportsStayValid'
    BY <2>1, <2>2 DEF ReportsStayValid, Unknown, shared, writer, FreeSpace, Contents
  <2> QED
    BY <2>3, <2>4, <2>5, <2>6
<1>6. ASSUME FlushStore
      PROVE  QueueInv'
  <2>1. /\ rpc = "flush" /\ optr' = ri /\ rpc' = "idle" /\ ri' = 0
        /\ UNCHANGED <<data, iptr, ro, rn, rbuf, rcount, writer>>
    BY <1>6 DEF FlushStore
  <2>2. ri = Wrap(optr + Contents(ri, optr)) /\ Contents(ri, optr) \in 0 .. Contents(iptr, optr)
    BY <2>1, FlushAdvances DEF TypeOK, ReaderInv
  <2>3. /\ optr' \in Slots /\ WriterInv' /\ wspace <= FreeSpace(iptr, optr')
    BY <2>1, <2>2, WriterUnderAdvance
  <2>4. TypeOK'
    BY <2>1, <2>3, QueueAssumption DEF TypeOK, writer, Slots
  <2>5. ReaderInv'
    BY <2>1 DEF ReaderInv, Reading
  <2>6. ReportsStayValid'
    <3>1. rcount = Unknown /\ Contents(iptr, optr') \in Nat
      BY <2>1, <2>3, RingNat DEF ReaderInv, TypeOK
    <3> QED
      BY <2>1, <2>3, <3>1 DEF ReportsStayValid, Unknown, writer, FreeSpace, Contents
  <2> QED
    BY <2>3, <2>4, <2>5, <2>6
<1>7. ASSUME queue_contents
      PROVE  QueueInv'
  <2>1. /\ rpc = "idle" /\ rcount' = Contents(iptr, optr)
        /\ UNCHANGED <<shared, rpc, ri, ro, rn, rbuf, writer>>
    BY <1>7 DEF queue_contents
  <2>2. Contents(iptr, optr) \in Slots /\ Contents(iptr, optr) <= Contents(iptr, optr)
    BY RingArithmetic, QueueAssumption DEF TypeOK, Slots
  <2>3. TypeOK'
    BY <2>1, <2>2 DEF TypeOK, shared, writer
  <2>4. WriterInv'
    BY <2>1 DEF WriterInv, shared, writer, FreeSpace, Wrap
  <2>5. ReaderInv'
    BY <2>1 DEF ReaderInv, Reading
  <2>6. ReportsStayValid'
    BY <2>1, <2>2 DEF ReportsStayValid, shared, writer, FreeSpace, Contents
  <2> QED
    BY <2>3, <2>4, <2>5, <2>6
<1> QED
  BY <1>1, <1>2, <1>3, <1>4, <1>5, <1>6, <1>7 DEF ReaderNext

-----------------------------------------------------------------------------
\* The queue as queue_init leaves it.
LEMMA QueueStarts ==
    ASSUME Init
    PROVE  QueueInv
<1>1. 0 \in Slots /\ FreeSpace(0, 0) \in Nat /\ Contents(0, 0) \in Nat
  BY QueueAssumption DEF Slots, FreeSpace, Contents
<1>2. TypeOK
  BY <1>1 DEF Init, TypeOK
<1>3. WriterInv /\ ReaderInv
  BY <1>1 DEF Init, WriterInv, ReaderInv, Reading
<1>4. ReportsStayValid
  BY <1>1 DEF Init, ReportsStayValid, Unknown
<1> QED
  BY <1>2, <1>3, <1>4 DEF QueueInv

\* A step of neither thread.
LEMMA QueueStutters ==
    ASSUME QueueInv, UNCHANGED vars
    PROVE  QueueInv'
BY DEF QueueInv, TypeOK, WriterInv, ReaderInv, ReportsStayValid, Reading,
       vars, shared, writer, reader, FreeSpace, Contents, Wrap

\* Whatever the two threads do, each one's picture of the queue stays valid:
\* QueueInv (and so TypeOK and ReportsStayValid) holds in every state, for
\* every ring size, block length and flag setting of queue_init.
THEOREM QueueInvariant == Spec => []QueueInv
<1>1. Init => QueueInv
  BY QueueStarts
<1>2. QueueInv /\ [Next]_vars => QueueInv'
  BY WriterStep, ReaderStep, QueueStutters DEF Next
<1> QED
  BY <1>1, <1>2, PTL DEF Spec

\* No octet is stored over one the reader has yet to take, and none is read
\* before it is stored, in any interleaving of the two threads.
THEOREM QueueNoOverlap == Spec => []NoOverlap
<1>1. QueueInv => NoOverlap
  <2> SUFFICES ASSUME QueueInv PROVE NoOverlap
    OBVIOUS
  <2> USE DEF QueueInv
  <2>1. /\ FreeSpace(iptr, optr) \in Nat /\ Contents(iptr, optr) \in Nat
        /\ FreeSpace(wi, wo) \in Nat /\ Contents(ri, ro) \in Nat
    BY RingNat DEF TypeOK
  <2>2. wpc = "copy" => Len(wbuf) <= FreeSpace(iptr, optr)
    BY <2>1 DEF WriterInv
  <2>3. Reading => rn <= Contents(iptr, optr)
    BY <2>1 DEF ReaderInv
  <2>4. ASSUME wpc = "copy", rpc \in {"read", "view"},
               NEW k \in DOMAIN wbuf, NEW j \in 1 .. rn
        PROVE  WriteSlot(k) # ReadSlot(j)
    <3>1. WriteSlot(k) = Wrap(iptr + k - 1) /\ k \in 1 .. FreeSpace(iptr, optr)
      BY <2>4, WriteSlotIsWrap
    <3>2. ReadSlot(j) = Wrap(optr + j - 1) /\ j \in 1 .. Contents(iptr, optr)
      BY <2>4, ReadSlotIsWrap DEF Reading
    <3> QED
      BY <3>1, <3>2, FreeSlotsAreNotQueued DEF TypeOK
  <2> QED
    BY <2>2, <2>3, <2>4 DEF NoOverlap
<1> QED
  BY <1>1, QueueInvariant, PTL

-----------------------------------------------------------------------------
\* The queued octets are a sequence as long as queue_contents says.
LEMMA QueuedType ==
    ASSUME TypeOK
    PROVE  /\ Queued \in Seq(Octet)
           /\ Len(Queued) = Contents(iptr, optr)
           /\ DOMAIN Queued = 1 .. Contents(iptr, optr)
           /\ \A k \in 1 .. Contents(iptr, optr) : Queued[k] = data[Wrap(optr + k - 1)]
<1>1. Contents(iptr, optr) \in Nat /\ iptr \in Slots /\ optr \in Slots
  BY RingNat DEF TypeOK
<1>2. ASSUME NEW k \in 1 .. Contents(iptr, optr)
      PROVE  data[Wrap(optr + k - 1)] \in Octet
  <2>1. Wrap(optr + k - 1) \in Slots
    BY <1>1, QueueAssumption DEF Wrap, Slots, Contents
  <2> QED
    BY <2>1 DEF TypeOK
<1> QED
  BY <1>1, <1>2 DEF Queued

\* Taking n octets off the front of the ring is SubSeq on the queued octets.
LEMMA AdvanceIsSubSeq ==
    ASSUME TypeOK, TypeOK', NEW n \in 0 .. Contents(iptr, optr),
           optr' = Wrap(optr + n), UNCHANGED <<data, iptr>>
    PROVE  Queued' = SubSeq(Queued, n + 1, Len(Queued))
<1>0. Contents(iptr, optr) \in Nat /\ iptr \in Slots /\ optr \in Slots
  BY RingNat DEF TypeOK
<1>1. Contents(iptr', optr') = Contents(iptr, optr) - n
  BY <1>0, AdvanceOptr
<1>2. \A k \in 1 .. Contents(iptr, optr) - n :
         Wrap(optr' + k - 1) = Wrap(optr + (n + k) - 1)
  BY <1>0, <1>1, QueueAssumption DEF Wrap, Slots, Contents
<1>3. Queued' = [k \in 1 .. Contents(iptr, optr) - n |-> data[Wrap(optr + (n + k) - 1)]]
  BY <1>1, <1>2 DEF Queued, Wrap
<1>4. SubSeq(Queued, n + 1, Len(Queued))
         = [k \in 1 .. Contents(iptr, optr) - n |-> Queued[n + k]]
  BY <1>0, <1>1, QueuedType
<1>5. \A k \in 1 .. Contents(iptr, optr) - n :
         Queued[n + k] = data[Wrap(optr + (n + k) - 1)]
  BY <1>0, <1>1, QueuedType
<1> QED
  BY <1>3, <1>4, <1>5

\* What a finished read or view has copied is the front of the queued octets.
LEMMA CopiedIsPrefix ==
    ASSUME QueueInv, Reading, DOMAIN rbuf = 1 .. rn
    PROVE  /\ rbuf = SubSeq(Queued, 1, rn)
           /\ rn \in 1 .. Len(Queued)
<1> USE DEF QueueInv
<1>1. Contents(iptr, optr) \in Nat /\ Contents(ri, ro) \in Nat
  BY RingNat DEF TypeOK
<1>2. /\ ro = optr /\ rn \in 1 .. Contents(ri, ro)
      /\ Contents(ri, ro) <= Contents(iptr, optr)
      /\ \A k \in DOMAIN rbuf : rbuf[k] = data[Wrap(ro + k - 1)]
  BY DEF ReaderInv
<1>3. rn \in 1 .. Len(Queued) /\ rn <= Contents(iptr, optr)
  BY <1>1, <1>2, QueuedType
<1>4. SubSeq(Queued, 1, rn) = [k \in 1 .. rn |-> Queued[k]]
  BY <1>3, QueuedType
<1>5. rbuf = [k \in 1 .. rn |-> rbuf[k]]
  BY DEF TypeOK
<1>6. \A k \in 1 .. rn : rbuf[k] = Queued[k]
  BY <1>1, <1>2, <1>3, QueuedType
<1> QED
  BY <1>3, <1>4, <1>5, <1>6

\* The octets of a concatenation, one by one.
LEMMA Concatenation ==
    ASSUME NEW S, NEW s \in Seq(S), NEW t \in Seq(S)
    PROVE  s \o t = [k \in 1 .. Len(s) + Len(t) |->
                        IF k <= Len(s) THEN s[k] ELSE t[k - Len(s)]]
<1> DEFINE c == s \o t
<1>1. /\ c \in Seq(S) /\ Len(c) = Len(s) + Len(t)
      /\ \A k \in 1 .. Len(s) + Len(t) : c[k] = IF k <= Len(s) THEN s[k] ELSE t[k - Len(s)]
  BY ConcatProperties
<1> HIDE DEF c
<1>2. c = [k \in 1 .. Len(s) + Len(t) |-> c[k]]
  BY <1>1
<1>3. c = [k \in 1 .. Len(s) + Len(t) |-> IF k <= Len(s) THEN s[k] ELSE t[k - Len(s)]]
  BY <1>1, <1>2
<1> QED
  BY <1>3 DEF c

\* An octet that is stored does not touch those that are queued.
LEMMA CopyUnseen ==
    ASSUME QueueInv, NEW k \in DOMAIN wbuf \ wdone, WriteCopy(k)
    PROVE  Queued' = Queued
<1> USE DEF QueueInv
<1>1. /\ wpc = "copy" /\ data' = [data EXCEPT ![WriteSlot(k)] = wbuf[k]]
      /\ UNCHANGED <<iptr, optr, wbuf, reader>>
  BY DEF WriteCopy
<1>2. /\ WriteSlot(k) = Wrap(iptr + k - 1) /\ WriteSlot(k) \in Slots
      /\ k \in 1 .. FreeSpace(iptr, optr)
  BY <1>1, WriteSlotIsWrap
<1>3. \A j \in 1 .. Contents(iptr, optr) : Wrap(iptr + k - 1) # Wrap(optr + j - 1)
  BY <1>2, FreeSlotsAreNotQueued DEF TypeOK
<1> QED
  BY <1>1, <1>2, <1>3 DEF Queued, Contents, Wrap, TypeOK

\* Storing the pointer puts the block behind the queued octets.
LEMMA PublishAppends ==
    ASSUME QueueInv, WritePublish
    PROVE  Queued' = Queued \o wbuf
<1> USE DEF QueueInv
<1>1. /\ wpc = "copy" /\ wdone = DOMAIN wbuf /\ iptr' = NewIptr /\ wbuf' = <<>>
      /\ UNCHANGED <<data, optr, reader>>
  BY DEF WritePublish
<1>2. /\ iptr' = Wrap(iptr + Len(wbuf))
      /\ Len(wbuf) \in 1 .. FreeSpace(iptr, optr)
      /\ wi = iptr
  <2>1. FreeSpace(iptr, optr) \in Nat /\ FreeSpace(wi, wo) \in Nat
    BY RingNat DEF TypeOK
  <2> QED
    BY <1>1, <2>1, NewIptrIsWrap DEF WriterInv
<1>3. Contents(iptr', optr') = Contents(iptr, optr) + Len(wbuf)
  BY <1>1, <1>2, AdvanceIptr DEF TypeOK
<1>4. /\ Contents(iptr, optr) \in Nat /\ Len(wbuf) \in Nat
      /\ iptr \in Slots /\ optr \in Slots /\ wbuf \in Seq(Octet)
  BY RingNat DEF TypeOK
<1> DEFINE C == Contents(iptr, optr)
           L == Len(wbuf)
<1>5. \A k \in 1 .. L : data[Wrap(iptr + k - 1)] = wbuf[k]
  BY <1>1, <1>2, <1>4 DEF WriterInv
<1>6. \A k \in 1 .. L : Wrap(optr + (C + k) - 1) = Wrap(iptr + k - 1)
  BY <1>2, <1>4, QueueAssumption DEF Wrap, Slots, Contents, FreeSpace
<1>7. Queued' = [k \in 1 .. C + L |-> data[Wrap(optr + k - 1)]]
  BY <1>1, <1>3 DEF Queued, Wrap
<1>8. Queued \o wbuf = [k \in 1 .. C + L |-> IF k <= C THEN Queued[k] ELSE wbuf[k - C]]
  <2>1. Queued \in Seq(Octet) /\ Len(Queued) = C
    BY QueuedType
  <2>2. Queued \o wbuf = [k \in 1 .. Len(Queued) + Len(wbuf) |->
                             IF k <= Len(Queued) THEN Queued[k] ELSE wbuf[k - Len(Queued)]]
    BY <1>4, <2>1, Concatenation
  <2> QED
    BY <2>1, <2>2
<1>9. ASSUME NEW k \in 1 .. C + L
      PROVE  data[Wrap(optr + k - 1)] = IF k <= C THEN Queued[k] ELSE wbuf[k - C]
  <2>1. CASE k <= C
    BY <1>4, <2>1, QueuedType
  <2>2. CASE ~(k <= C)
    <3>1. k - C \in 1 .. L /\ C + (k - C) = k
      BY <1>4, <2>2
    <3> QED
      BY <1>5, <1>6, <2>2, <3>1
  <2> QED
    BY <2>1, <2>2
<1> QED
  BY <1>7, <1>8, <1>9

\* Each step of the writing thread is a step of the FIFO or leaves it alone.
LEMMA WriterImplementsFifo ==
    ASSUME QueueInv, QueueInv', WriterNext
    PROVE  [Fifo!Next]_(Fifo!vars)
<1> USE DEF QueueInv
<1> DEFINE Same == Queued' = Queued /\ Given' = Given
<1>1. ASSUME \/ \E buf \in Requests : queue_write(buf)
             \/ \E byte \in Octet : queue_write_byte(byte)
      PROVE  Fifo!Offer
  <2>1. PICK block \in Seq(Octet) :
                /\ Len(block) \in 1 .. FreeSpace(iptr, optr)
                /\ StartWrite(block)
    BY <1>1, WriteFits
  <2>2. wpc = "idle" /\ wbuf' = block /\ UNCHANGED <<shared, reader>>
    BY <2>1 DEF StartWrite
  <2>3. Same /\ wbuf = <<>>
    BY <2>2 DEF Queued, Given, Contents, Wrap, shared, reader, WriterInv
  <2>4. Len(Queued) + Len(wbuf') <= QLen - 1
    <3>1. /\ Contents(iptr, optr) \in Nat /\ FreeSpace(iptr, optr) \in Nat
          /\ FreeSpace(iptr, optr) + Contents(iptr, optr) = QLen - 1
      BY RingNat, RingArithmetic DEF TypeOK
    <3> QED
      BY <2>1, <2>2, <3>1, QueuedType, QueueAssumption
  <2> QED
    BY <2>1, <2>2, <2>3, <2>4 DEF Fifo!Offer
<1>2. ASSUME NEW k \in DOMAIN wbuf \ wdone, WriteCopy(k)
      PROVE  Same /\ wbuf' = wbuf
  <2>1. wbuf' = wbuf /\ UNCHANGED reader
    BY <1>2 DEF WriteCopy
  <2>2. Queued' = Queued
    BY <1>2, CopyUnseen
  <2> QED
    BY <2>1, <2>2 DEF Given, reader
<1>3. ASSUME WritePublish
      PROVE  Fifo!Put
  <2>1. wbuf' = <<>> /\ UNCHANGED reader
    BY <1>3 DEF WritePublish
  <2>2. Queued' = Queued \o wbuf
    BY <1>3, PublishAppends
  <2> QED
    BY <2>1, <2>2 DEF Fifo!Put, Given, reader
<1>4. ASSUME queue_free_space
      PROVE  Same /\ wbuf' = wbuf
  BY <1>4 DEF queue_free_space, Queued, Given, Contents, Wrap, shared, reader
<1> QED
  <2>1. CASE \/ \E buf \in Requests : queue_write(buf)
             \/ \E byte \in Octet : queue_write_byte(byte)
    BY <1>1, <2>1 DEF Fifo!Next
  <2>2. CASE \E k \in DOMAIN wbuf \ wdone : WriteCopy(k)
    BY <1>2, <2>2 DEF Fifo!vars
  <2>3. CASE WritePublish
    BY <1>3, <2>3 DEF Fifo!Next
  <2>4. CASE queue_free_space
    BY <1>4, <2>4 DEF Fifo!vars
  <2> QED
    BY <2>1, <2>2, <2>3, <2>4 DEF WriterNext

\* Storing the pointer after a read takes its octets off the queue.
LEMMA PublishTakes ==
    ASSUME QueueInv, QueueInv', ReadPublish
    PROVE  Queued' = SubSeq(Queued, rn + 1, Len(Queued)) /\ rn \in 1 .. Len(Queued)
<1> USE DEF QueueInv
<1>1. Reading /\ optr' = NewOptr /\ UNCHANGED <<data, iptr>>
  BY DEF ReadPublish, Reading
<1>2. optr' = Wrap(optr + rn) /\ rn \in 1 .. Contents(iptr, optr)
  <2>1. rn \in 1 .. Contents(ri, ro) /\ Contents(ri, ro) <= Contents(iptr, optr)
    BY <1>1 DEF ReaderInv
  <2>2. Contents(ri, ro) \in Nat /\ Contents(iptr, optr) \in Nat
    BY RingNat DEF TypeOK
  <2> QED
    BY <1>1, <2>1, <2>2, NewOptrIsWrap
<1> QED
  BY <1>1, <1>2, AdvanceIsSubSeq, QueuedType

\* Storing the pointer of a flush takes what was queued when it was loaded.
LEMMA FlushTakes ==
    ASSUME QueueInv, QueueInv', FlushStore
    PROVE  /\ Queued' = SubSeq(Queued, Contents(ri, optr) + 1, Len(Queued))
           /\ Contents(ri, optr) \in 0 .. Len(Queued)
<1> USE DEF QueueInv
<1>1. rpc = "flush" /\ optr' = ri /\ UNCHANGED <<data, iptr>>
  BY DEF FlushStore
<1>2. ri = Wrap(optr + Contents(ri, optr)) /\ Contents(ri, optr) \in 0 .. Contents(iptr, optr)
  BY <1>1, FlushAdvances DEF TypeOK, ReaderInv
<1> QED
  BY <1>1, <1>2, AdvanceIsSubSeq, QueuedType

\* Each step of the reading thread is a step of the FIFO or leaves it alone.
LEMMA ReaderImplementsFifo ==
    ASSUME QueueInv, QueueInv', ReaderNext
    PROVE  [Fifo!Next]_(Fifo!vars)
<1> USE DEF QueueInv
<1>1. ASSUME \/ \E len \in 1 .. MaxReq : queue_read(len) \/ queue_view(len) \/ queue_skip(len)
             \/ queue_read_byte
      PROVE  Fifo!Ask
  <2>1. /\ rpc' \in {"read", "view", "discard"} /\ UNCHANGED <<shared, writer>>
    BY <1>1, ReadFits, ReadSnapshot
  <2> QED
    BY <2>1 DEF Fifo!Ask, Queued, Given, Contents, Wrap, shared, writer
<1>2. ASSUME NEW k \in (1 .. rn) \ DOMAIN rbuf, ReadCopy(k)
      PROVE  UNCHANGED <<Queued, wbuf, Given>>
  BY <1>2 DEF ReadCopy, Queued, Given, Contents, Wrap, shared, writer
<1>3. ASSUME ReadPublish
      PROVE  Fifo!Get \/ Fifo!Drop
  <2>1. /\ Reading /\ rpc # "idle" /\ rpc' = "idle" /\ UNCHANGED <<rbuf, writer>>
    BY <1>3 DEF ReadPublish, Reading
  <2>2. Queued' = SubSeq(Queued, rn + 1, Len(Queued)) /\ rn \in 0 .. Len(Queued)
    BY <1>3, PublishTakes
  <2>3. Given = <<>> /\ Given' = rbuf /\ wbuf' = wbuf
    BY <2>1 DEF Given, writer
  <2>5. CASE rpc = "discard"
    <3>1. rbuf = <<>>
      BY <2>5 DEF ReaderInv
    <3> QED
      BY <2>2, <2>3, <3>1 DEF Fifo!Drop
  <2>6. CASE rpc = "read" /\ DOMAIN rbuf = 1 .. rn
    BY <2>1, <2>2, <2>3, <2>6, CopiedIsPrefix DEF Fifo!Get
  <2> QED
    BY <1>3, <2>5, <2>6 DEF ReadPublish
<1>4. ASSUME ViewEnd
      PROVE  Fifo!View
  <2>1. /\ Reading /\ DOMAIN rbuf = 1 .. rn /\ rpc # "idle" /\ rpc' = "idle"
        /\ UNCHANGED <<shared, rbuf, writer>>
    BY <1>4 DEF ViewEnd, Reading
  <2>2. Given = <<>> /\ Given' = rbuf /\ wbuf' = wbuf /\ Queued' = Queued
    BY <2>1 DEF Given, Queued, Contents, Wrap, shared, writer
  <2> QED
    BY <2>1, <2>2, CopiedIsPrefix DEF Fifo!View
<1>5. ASSUME FlushLoad
      PROVE  Fifo!Ask
  BY <1>5 DEF FlushLoad, Fifo!Ask, Queued, Given, Contents, Wrap, shared, writer
<1>6. ASSUME FlushStore
      PROVE  Fifo!Drop
  <2>1. rpc = "flush" /\ rpc' = "idle" /\ UNCHANGED <<rbuf, writer>>
    BY <1>6 DEF FlushStore
  <2>2. /\ Queued' = SubSeq(Queued, Contents(ri, optr) + 1, Len(Queued))
        /\ Contents(ri, optr) \in 0 .. Len(Queued)
    BY <1>6, FlushTakes
  <2>3. Given = <<>> /\ Given' = <<>> /\ wbuf' = wbuf
    BY <2>1 DEF Given, ReaderInv, writer
  <2> QED
    BY <2>2, <2>3 DEF Fifo!Drop
<1>7. ASSUME queue_contents
      PROVE  UNCHANGED <<Queued, wbuf, Given>>
  BY <1>7 DEF queue_contents, Queued, Given, Contents, Wrap, shared, writer
<1> QED
  BY <1>1, <1>2, <1>3, <1>4, <1>5, <1>6, <1>7 DEF ReaderNext, Fifo!Next, Fifo!vars

\* The octet queue, used without locks by one writing and one reading thread,
\* implements a FIFO whose operations happen at one instant each.
THEOREM QueueIsFifo == Spec => FifoRefinement
<1>1. Init => Fifo!Init
  <2> SUFFICES ASSUME Init PROVE Fifo!Init
    OBVIOUS
  <2>1. Contents(iptr, optr) = 0
    BY DEF Init, Contents
  <2>2. Queued = <<>>
    <3>1. Queued = [k \in {} |-> data[Wrap(optr + k - 1)]]
      BY <2>1 DEF Queued
    <3> QED
      BY <3>1
  <2> QED
    BY <2>2 DEF Init, Given, Fifo!Init
<1>2. QueueInv /\ QueueInv' /\ [Next]_vars => [Fifo!Next]_(Fifo!vars)
  <2>1. ASSUME UNCHANGED vars
        PROVE  UNCHANGED Fifo!vars
    BY <2>1 DEF vars, shared, writer, reader, Fifo!vars, Queued, Given, Contents, Wrap
  <2> QED
    BY <2>1, WriterImplementsFifo, ReaderImplementsFifo DEF Next
<1> QED
  BY <1>1, <1>2, QueueInvariant, PTL DEF Spec, FifoRefinement, Fifo!Spec
-----------------------------------------------------------------------------
(* Sequences cut in two.                                                    *)

\* What is taken off a concatenation within its first part.
LEMMA CutFirst ==
    ASSUME NEW T, NEW a \in Seq(T), NEW b \in Seq(T), NEW n \in 0 .. Len(a)
    PROVE  /\ SubSeq(a \o b, 1, n) = SubSeq(a, 1, n)
           /\ SubSeq(a \o b, n + 1, Len(a \o b)) = SubSeq(a, n + 1, Len(a)) \o b
  <1> DEFINE c == a \o b
             k == Len(a)
             l == Len(b)
  <1>1. /\ c \in Seq(T) /\ Len(c) = k + l /\ k \in Nat /\ l \in Nat /\ n \in 0 .. k
        /\ \A i \in 1 .. k + l : c[i] = IF i <= k THEN a[i] ELSE b[i - k]
    <2>1. k \in Nat /\ l \in Nat /\ n \in 0 .. k
      OBVIOUS
    <2>2. /\ c \in Seq(T) /\ Len(c) = k + l
          /\ \A i \in 1 .. k + l : c[i] = IF i <= k THEN a[i] ELSE b[i - k]
      BY ConcatProperties
    <2> QED
      BY ONLY <2>1, <2>2
  <1> DEFINE p == SubSeq(c, n + 1, k + l)
             q == SubSeq(a, n + 1, k)
             r == SubSeq(c, 1, n)
             s == SubSeq(a, 1, n)
  <1>2. /\ p \in Seq(T) /\ Len(p) = k + l - n
        /\ \A i \in 1 .. k + l - n : p[i] = c[n + i]
    BY <1>1, SMTT(60)
  <1>3. /\ q \in Seq(T) /\ Len(q) = k - n
        /\ \A i \in 1 .. k - n : q[i] = a[n + i]
    BY <1>1
  <1>4. /\ r \in Seq(T) /\ Len(r) = n /\ \A i \in 1 .. n : r[i] = c[i]
        /\ s \in Seq(T) /\ Len(s) = n /\ \A i \in 1 .. n : s[i] = a[i]
    BY <1>1
  <1>5. /\ q \o b \in Seq(T) /\ Len(q \o b) = k - n + l
        /\ \A i \in 1 .. k - n + l : (q \o b)[i] = IF i <= k - n THEN q[i] ELSE b[i - (k - n)]
    <2>1. /\ q \o b \in Seq(T) /\ Len(q \o b) = Len(q) + Len(b)
          /\ \A i \in 1 .. Len(q) + Len(b) :
                (q \o b)[i] = IF i <= Len(q) THEN q[i] ELSE b[i - Len(q)]
      BY <1>3, ConcatProperties
    <2> HIDE DEF q
    <2> QED
      BY <1>3, <2>1
  <1> DEFINE d == q \o b
  <1> HIDE DEF d, p, q, r, s, c, k, l
  <1>6. r = s
    <2>1. ASSUME NEW i \in 1 .. Len(r) PROVE r[i] = s[i]
      BY <1>1, <1>4
    <2> QED
      BY <1>4, <2>1, SeqEqual
  <1>7. p = d
    <2>1. d \in Seq(T) /\ Len(d) = Len(p)
      BY <1>1, <1>2, <1>5 DEF d
    <2>2. ASSUME NEW i \in 1 .. Len(p) PROVE p[i] = d[i]
      <3>1. i \in 1 .. k + l - n /\ n + i \in 1 .. k + l /\ i \in 1 .. k - n + l
        BY <1>1, <1>2
      <3>2. p[i] = IF n + i <= k THEN a[n + i] ELSE b[(n + i) - k]
        BY <1>1, <1>2, <3>1
      <3>3. d[i] = IF i <= k - n THEN q[i] ELSE b[i - (k - n)]
        BY <1>5, <3>1 DEF d
      <3>4. CASE i <= k - n
        <4>1. i \in 1 .. k - n /\ n + i <= k
          BY <1>1, <3>1, <3>4
        <4> QED
          BY <1>3, <3>2, <3>3, <3>4, <4>1
      <3>5. CASE ~ (i <= k - n)
        <4>1. ~ (n + i <= k) /\ (n + i) - k = i - (k - n)
          BY <1>1, <3>1, <3>5
        <4> QED
          BY <3>2, <3>3, <3>5, <4>1
      <3> QED
        BY <3>4, <3>5
    <2> QED
      BY <1>2, <2>1, <2>2, SeqEqual
  <1> QED
    BY <1>1, <1>6, <1>7 DEF c, d, k, l, p, q, r, s

\* All of the first part.
LEMMA CutBetween ==
    ASSUME NEW T, NEW a \in Seq(T), NEW b \in Seq(T)
    PROVE  /\ SubSeq(a \o b, 1, Len(a)) = a
           /\ SubSeq(a \o b, Len(a) + 1, Len(a \o b)) = b
  <1>1. Len(a) \in 0 .. Len(a)
    OBVIOUS
  <1>2. SubSeq(a, 1, Len(a)) = a
    BY SubSeqFull
  <1>3. SubSeq(a, Len(a) + 1, Len(a)) = <<>> /\ <<>> \o b = b
    OBVIOUS
  <1> QED
    BY <1>1, <1>2, <1>3, CutFirst

\* The two parts of a sequence make it up.
LEMMA CutAnywhere ==
    ASSUME NEW T, NEW a \in Seq(T), NEW n \in 0 .. Len(a)
    PROVE  /\ SubSeq(a, 1, n) \in Seq(T) /\ Len(SubSeq(a, 1, n)) = n
           /\ SubSeq(a, n + 1, Len(a)) \in Seq(T) /\ Len(SubSeq(a, n + 1, Len(a))) = Len(a) - n
           /\ a = SubSeq(a, 1, n) \o SubSeq(a, n + 1, Len(a))
  <1> DEFINE k == Len(a)
             p == SubSeq(a, 1, n)
             q == SubSeq(a, n + 1, k)
  <1>1. k \in Nat /\ n \in 0 .. k
    OBVIOUS
  <1>2. /\ p \in Seq(T) /\ Len(p) = n /\ \A i \in 1 .. n : p[i] = a[i]
        /\ q \in Seq(T) /\ Len(q) = k - n /\ \A i \in 1 .. k - n : q[i] = a[n + i]
    BY <1>1
  <1> HIDE DEF k, p, q
  <1>3. /\ p \o q \in Seq(T) /\ Len(p \o q) = Len(p) + Len(q)
        /\ \A i \in 1 .. Len(p) + Len(q) : (p \o q)[i] = IF i <= Len(p) THEN p[i] ELSE q[i - Len(p)]
    BY <1>2, ConcatProperties
  <1> DEFINE c == p \o q
  <1> HIDE DEF c
  <1>4. c \in Seq(T) /\ Len(c) = k
    BY <1>1, <1>2, <1>3 DEF c
  <1>5. ASSUME NEW i \in 1 .. k PROVE a[i] = c[i]
    <2>1. c[i] = IF i <= n THEN p[i] ELSE q[i - n]
      BY <1>1, <1>2, <1>3, SMTT(60) DEF c
    <2>2. CASE i <= n
      BY <1>1, <1>2, <2>1, <2>2
    <2>3. CASE ~ (i <= n)
      <3>1. i - n \in 1 .. k - n /\ n + (i - n) = i
        BY <1>1, <2>3
      <3> QED
        BY <1>2, <2>1, <2>3, <3>1
    <2> QED
      BY <2>2, <2>3
  <1>6. a = c
    BY <1>4, <1>5, SeqEqual DEF k
  <1> QED
    BY <1>2, <1>6 DEF c, k, p, q

-----------------------------------------------------------------------------
(* Messages and their encoding.                                             *)

Message == {m \in Seq(Octet) : Len(m) < Base * Base}

Encoded(ms) == [i \in DOMAIN ms |-> Encode(ms[i])]

\* The octets of messages in the queue, as WholeMessages has it.
Flat(ms) == FlattenSeq(Encoded(ms))

\* The two octets of a length give it back.
LEMMA HeaderTells ==
    ASSUME NEW m \in Message
    PROVE  /\ Header(m) \in Seq(Octet) /\ Len(Header(m)) = 2
           /\ Header(m)[1] + Base * Header(m)[2] = Len(m)
  <1> DEFINE n == Len(m)
             h == n \div Base
  <1>1. /\ n \in Nat /\ n < Base * Base /\ Base \in Nat \ {0} /\ Octet = 0 .. Base - 1
        /\ n \in Int
    BY MsgAssumption DEF Message
  <1> HIDE DEF n
  <1>2. h \in Int /\ (n % Base) \in 0 .. Base - 1 /\ n = Base * h + (n % Base)
    BY <1>1, DivMod
  <1> HIDE DEF h
  <1>3. h \in 0 .. Base - 1
    <2>1. h >= 0
      <3> SUFFICES ASSUME h <= -1 PROVE FALSE
        BY <1>2
      <3>1. Base * h <= Base * (-1)
        BY <1>1, <1>2
      <3> QED
        BY <1>1, <1>2, <3>1
    <2>2. h < Base
      <3> SUFFICES ASSUME h >= Base PROVE FALSE
        BY <1>1, <1>2
      <3>1. Base * h >= Base * Base
        BY <1>1, <1>2
      <3> QED
        BY <1>1, <1>2, <3>1
    <2> QED
      BY <1>1, <1>2, <2>1, <2>2
  <1>4. h % Base = h
    BY <1>1, <1>3, ModSmall
  <1>5. Header(m) = <<n % Base, h>>
    BY <1>4 DEF Header, n, h
  <1> QED
    BY <1>1, <1>2, <1>3, <1>5 DEF n

\* A message is two octets longer when it is encoded, and can be had back.
LEMMA EncodeFacts ==
    ASSUME NEW m \in Message
    PROVE  /\ Encode(m) \in Seq(Octet) /\ Len(Encode(m)) = Len(m) + 2
           /\ SubSeq(Encode(m), 1, 2) = Header(m)
           /\ SubSeq(Encode(m), 3, Len(Encode(m))) = m
           /\ m \in Seq(Octet) /\ Len(m) \in Nat
  <1>1. m \in Seq(Octet) /\ Header(m) \in Seq(Octet) /\ Len(Header(m)) = 2
    BY HeaderTells DEF Message
  <1> DEFINE h == Header(m)
             e == h \o m
  <1>2. e \in Seq(Octet) /\ Len(e) = Len(h) + Len(m)
    BY <1>1, ConcatProperties
  <1>3. SubSeq(e, 1, Len(h)) = h /\ SubSeq(e, Len(h) + 1, Len(e)) = m
    BY <1>1, CutBetween
  <1>4. Encode(m) = e
    BY DEF Encode
  <1>5. Len(h) = 2 /\ Len(m) \in Nat
    BY <1>1
  <1> HIDE DEF e, h
  <1>6. Len(h) + 1 = 3 /\ Len(h) + Len(m) = Len(m) + 2
    BY <1>5
  <1> QED
    BY <1>1, <1>2, <1>3, <1>4, <1>5, <1>6 DEF h

\* Encoding goes message by message.
LEMMA EncodedFacts ==
    ASSUME NEW ms \in Seq(Message)
    PROVE  /\ Encoded(ms) \in Seq(Seq(Octet)) /\ Len(Encoded(ms)) = Len(ms)
           /\ \A i \in 1 .. Len(ms) : Encoded(ms)[i] = Encode(ms[i])
  <1>1. DOMAIN ms = 1 .. Len(ms) /\ Len(ms) \in Nat /\ \A i \in 1 .. Len(ms) : ms[i] \in Message
    OBVIOUS
  <1>2. \A i \in 1 .. Len(ms) : Encode(ms[i]) \in Seq(Octet)
    BY <1>1, EncodeFacts
  <1> QED
    BY <1>1, <1>2 DEF Encoded

\* The octets of some messages and then others.
LEMMA FlatConcat ==
    ASSUME NEW a \in Seq(Message), NEW b \in Seq(Message)
    PROVE  Flat(a \o b) = Flat(a) \o Flat(b)
  <1> DEFINE c == a \o b
             ea == Encoded(a)
             eb == Encoded(b)
             ec == Encoded(c)
             ed == ea \o eb
  <1>1. /\ c \in Seq(Message) /\ Len(c) = Len(a) + Len(b)
        /\ \A i \in 1 .. Len(a) + Len(b) : c[i] = IF i <= Len(a) THEN a[i] ELSE b[i - Len(a)]
    BY ConcatProperties
  <1>2. /\ ea \in Seq(Seq(Octet)) /\ Len(ea) = Len(a)
        /\ \A i \in 1 .. Len(a) : ea[i] = Encode(a[i])
        /\ eb \in Seq(Seq(Octet)) /\ Len(eb) = Len(b)
        /\ \A i \in 1 .. Len(b) : eb[i] = Encode(b[i])
        /\ Len(a) \in Nat /\ Len(b) \in Nat
    BY EncodedFacts
  <1> HIDE DEF c
  <1>3. /\ ec \in Seq(Seq(Octet)) /\ Len(ec) = Len(c)
        /\ \A i \in 1 .. Len(c) : ec[i] = Encode(c[i])
    BY <1>1, EncodedFacts
  <1> HIDE DEF ea, eb, ec
  <1>4. /\ ed \in Seq(Seq(Octet)) /\ Len(ed) = Len(ea) + Len(eb)
        /\ \A i \in 1 .. Len(ea) + Len(eb) : ed[i] = IF i <= Len(ea) THEN ea[i] ELSE eb[i - Len(ea)]
    <2> DEFINE T == Seq(Octet)
    <2>1. ea \in Seq(T) /\ eb \in Seq(T)
      BY <1>2
    <2> HIDE DEF T
    <2>2. /\ ed \in Seq(T) /\ Len(ed) = Len(ea) + Len(eb)
          /\ \A i \in 1 .. Len(ea) + Len(eb) : ed[i] = IF i <= Len(ea) THEN ea[i] ELSE eb[i - Len(ea)]
      BY <2>1, ConcatProperties
    <2> QED
      BY <2>2 DEF T
  <1> HIDE DEF ed
  <1>5. ec = ed
    <2>1. Len(ec) = Len(ed)
      BY <1>1, <1>2, <1>3, <1>4
    <2>2. ASSUME NEW i \in 1 .. Len(ec) PROVE ec[i] = ed[i]
      <3>1. i \in 1 .. Len(a) + Len(b)
        BY <1>1, <1>3
      <3>2. CASE i <= Len(a)
        <4>1. i \in 1 .. Len(a)
          BY <1>2, <3>1, <3>2
        <4> QED
          BY <1>1, <1>2, <1>3, <1>4, <3>1, <3>2, <4>1
      <3>3. CASE ~ (i <= Len(a))
        <4>1. i - Len(a) \in 1 .. Len(b)
          BY <1>2, <3>1, <3>3
        <4> QED
          BY <1>1, <1>2, <1>3, <1>4, <3>1, <3>3, <4>1
      <3> QED
        BY <3>2, <3>3
    <2> QED
      BY <1>3, <1>4, <2>1, <2>2, SeqEqual
  <1>6. FlattenSeq(ed) = FlattenSeq(ea) \o FlattenSeq(eb)
    BY <1>2, FlattenConcat DEF ed
  <1> QED
    BY <1>5, <1>6 DEF Flat, c, ea, eb, ec

\* The octets of messages, of none, and of one.
LEMMA FlatFacts ==
    /\ \A ms \in Seq(Message) : Flat(ms) \in Seq(Octet) /\ Len(Flat(ms)) \in Nat
    /\ Flat(<<>>) = <<>>
    /\ \A m \in Message : Flat(<<m>>) = Encode(m)
  <1>1. ASSUME NEW ms \in Seq(Message) PROVE Flat(ms) \in Seq(Octet)
    BY EncodedFacts, FlattenType DEF Flat
  <1>2. Flat(<<>>) = <<>>
    <2>1. Encoded(<<>>) = <<>>
      BY DEF Encoded
    <2> QED
      BY <2>1 DEF Flat, FlattenSeq
  <1>3. ASSUME NEW m \in Message PROVE Flat(<<m>>) = Encode(m)
    <2>1. Encoded(<<m>>) = <<Encode(m)>>
      BY DEF Encoded
    <2>2. Encode(m) \in Seq(Octet)
      BY EncodeFacts
    <2> QED
      BY <2>1, <2>2, FlattenOne DEF Flat
  <1> QED
    BY <1>1, <1>2, <1>3

\* A message goes behind the others.
LEMMA FlatAppend ==
    ASSUME NEW ms \in Seq(Message), NEW m \in Message
    PROVE  Flat(Append(ms, m)) = Flat(ms) \o Encode(m)
  <1>1. <<m>> \in Seq(Message) /\ Append(ms, m) = ms \o <<m>>
    BY AppendIsConcat
  <1> QED
    BY <1>1, FlatConcat, FlatFacts

\* The oldest message comes first.
LEMMA FlatHead ==
    ASSUME NEW ms \in Seq(Message), ms # <<>>
    PROVE  /\ Flat(ms) = Encode(ms[1]) \o Flat(Tail(ms))
           /\ ms[1] \in Message /\ Tail(ms) \in Seq(Message)
  <1>1. ms[1] \in Message /\ Tail(ms) \in Seq(Message) /\ Tail(ms) = SubSeq(ms, 2, Len(ms))
        /\ 1 \in 0 .. Len(ms) /\ Len(ms) \in Nat
    BY EmptySeq, HeadTailProperties
  <1>2. SubSeq(ms, 1, 1) = <<ms[1]>>
    <2> DEFINE p == SubSeq(ms, 1, 1)
               q == <<ms[1]>>
    <2>1. p \in Seq(Message) /\ Len(p) = 1 /\ p[1] = ms[1]
      BY <1>1
    <2>2. q \in Seq(Message) /\ Len(q) = 1 /\ q[1] = ms[1]
      BY <1>1
    <2> HIDE DEF p, q
    <2>3. \A i \in 1 .. Len(p) : p[i] = q[i]
      BY <2>1, <2>2
    <2>4. p = q
      BY <2>1, <2>2, <2>3, SeqEqual
    <2> QED
      BY <2>4 DEF p, q
  <1>3. ms = SubSeq(ms, 1, 1) \o SubSeq(ms, 2, Len(ms))
    BY <1>1, CutAnywhere
  <1>4. <<ms[1]>> \in Seq(Message)
    BY <1>1
  <1> QED
    BY <1>1, <1>2, <1>3, <1>4, FlatConcat, FlatFacts

-----------------------------------------------------------------------------
(* The invariant.                                                           *)

\* What is in the queue once the length and n octets of the oldest are taken.
Remains(ms, n) == SubSeq(ms[1], n + 1, Len(ms[1])) \o Flat(Tail(ms))

\* The octets in the queue, by where the reader's call has got to.
Place ==
    /\ mpc = "idle" => rpc = "idle" /\ Queued = Flat(msgs)
    /\ mpc = "test" => rpc = "view" /\ rn = 2 /\ msgs # <<>> /\ Queued = Flat(msgs)
    /\ mpc = "header" =>
          rpc = "read" /\ rn = 2 /\ msgs # <<>> /\ Queued = Flat(msgs) /\ mgot = <<>>
    /\ mpc = "body" =>
          /\ msgs # <<>> /\ mlen > 0 /\ mlen + mrest = Len(msgs[1])
          /\ Queued = Remains(msgs, 0)
          /\ rpc = "idle" \/ (rpc = "read" /\ rn = mlen)
    /\ mpc = "discard" =>
          /\ msgs # <<>> /\ mrest > 0 /\ mlen + mrest = Len(msgs[1])
          /\ Queued = Remains(msgs, mlen) /\ mgot = SubSeq(msgs[1], 1, mlen)
          /\ rpc = "idle" \/ (rpc = "discard" /\ rn = mrest)
    /\ mpc = "flush" =>
          /\ rpc = "flush" /\ Queued = Flat(msgs)
          /\ Contents(ri, optr) = Len(Flat(SubSeq(msgs, 1, mflush)))

\* A block being written is a message with its length.
Written == wpc = "copy" => \E m \in Message : wbuf = Encode(m)

\* What a test said is still so.
Known == mtest # Unknown => mpc = "idle" /\ msgs # <<>> /\ mtest = Len(msgs[1])

MsgTypes ==
    /\ mpc \in {"idle", "test", "header", "body", "discard", "flush"}
    /\ mlen \in Nat /\ mrest \in Nat /\ mgot \in Seq(Octet)
    /\ mtest \in {Unknown} \cup Nat
    /\ msgs \in Seq(Message) /\ mflush \in 0 .. Len(msgs)
    /\ mpc # "flush" => mflush = 0

MsgInv == QueueInv /\ MsgTypes /\ Place /\ Written /\ Known

-----------------------------------------------------------------------------
(* What the two threads do.                                                 *)

\* The writer has not yet stored its pointer.
LEMMA WriterUnseen ==
    ASSUME MsgInv, QueueInv', Queued' = Queued, Written',
           UNCHANGED <<optr, reader>>, UNCHANGED msgVars
    PROVE  MsgInv'
  <1>1. MsgTypes'
    BY DEF MsgInv, MsgTypes, msgVars
  <1>2. Place'
    BY DEF MsgInv, Place, msgVars, reader
  <1>3. Known'
    BY DEF MsgInv, Known, msgVars
  <1> QED
    BY <1>1, <1>2, <1>3 DEF MsgInv

LEMMA WriteBegins ==
    ASSUME MsgInv, NEW m \in Messages, queue_write_msg(m)
    PROVE  MsgInv'
  <1>1. m \in Message
    BY MsgAssumption DEF Message
  <1>2. Encode(m) \in Seq(Octet) /\ Len(Encode(m)) = Len(m) + 2 /\ Len(m) \in Nat
    BY <1>1, EncodeFacts
  <1>3. FreeSpace(iptr, optr) >= Len(m) + 2 /\ StartWrite(Encode(m)) /\ UNCHANGED msgVars
    BY DEF queue_write_msg
  <1>4. QueueInv'
    <2>1. FreeSpace(iptr, optr) \in Nat
      BY RingNat DEF MsgInv, QueueInv, TypeOK
    <2>2. Len(Encode(m)) \in 1 .. FreeSpace(iptr, optr)
      BY <1>2, <1>3, <2>1
    <2> QED
      BY <1>2, <1>3, <2>2, WriteStarts DEF MsgInv
  <1>5. wbuf' = Encode(m) /\ UNCHANGED <<shared, reader>>
    BY <1>3 DEF StartWrite
  <1>6. Queued' = Queued
    BY <1>5 DEF Queued, Contents, Wrap, shared
  <1>7. Written'
    BY <1>1, <1>5 DEF Written
  <1> QED
    BY <1>3, <1>4, <1>5, <1>6, <1>7, WriterUnseen DEF shared

LEMMA WriteGoesOn ==
    ASSUME MsgInv, MsgWriteCopy
    PROVE  MsgInv'
  <1>1. PICK k \in DOMAIN wbuf \ wdone : WriteCopy(k)
    BY DEF MsgWriteCopy
  <1>2. QueueInv'
    BY <1>1, WriterStep DEF WriterNext, MsgInv
  <1>3. Queued' = Queued
    BY <1>1, CopyUnseen DEF MsgInv
  <1>4. wpc' = wpc /\ wbuf' = wbuf /\ UNCHANGED <<optr, reader>> /\ UNCHANGED msgVars
    BY <1>1 DEF WriteCopy, MsgWriteCopy
  <1>5. Written'
    BY <1>4 DEF Written, MsgInv
  <1> QED
    BY <1>2, <1>3, <1>4, <1>5, WriterUnseen

\* What remains of the oldest is not changed by a message behind it.
LEMMA RemainsAppend ==
    ASSUME NEW ms \in Seq(Message), ms # <<>>, NEW m \in Message, NEW n \in 0 .. Len(ms[1])
    PROVE  /\ Remains(Append(ms, m), n) = Remains(ms, n) \o Encode(m)
           /\ Append(ms, m)[1] = ms[1]
  <1>1. ms[1] \in Message /\ Tail(ms) \in Seq(Message) /\ ms[1] \in Seq(Octet)
    BY FlatHead DEF Message
  <1>2. Append(ms, m)[1] = ms[1]
    BY EmptySeq, AppendProperties
  <1>3. Tail(Append(ms, m)) = Append(Tail(ms), m)
    BY HeadTailAppend
  <1>4. Flat(Append(Tail(ms), m)) = Flat(Tail(ms)) \o Encode(m)
    BY <1>1, FlatAppend
  <1> DEFINE p == SubSeq(ms[1], n + 1, Len(ms[1]))
             q == Flat(Tail(ms))
             e == Encode(m)
  <1>5. p \in Seq(Octet) /\ q \in Seq(Octet) /\ e \in Seq(Octet)
    BY <1>1, CutAnywhere, FlatFacts, EncodeFacts
  <1> HIDE DEF p, q, e
  <1>6. Regroups(Octet)
    BY Together
  <1>7. (p \o q) \o e = p \o (q \o e)
    BY ONLY <1>5, <1>6 DEF Regroups
  <1> QED
    BY <1>2, <1>3, <1>4, <1>7 DEF Remains, p, q, e

LEMMA WriteEnds ==
    ASSUME MsgInv, MsgWritePublish
    PROVE  MsgInv'
  <1>1. /\ WritePublish /\ wpc = "copy" /\ wpc' = "idle" /\ UNCHANGED <<optr, reader>>
        /\ msgs' = Append(msgs, SubSeq(wbuf, 3, Len(wbuf)))
        /\ UNCHANGED <<mpc, mlen, mrest, mgot, mtest, mflush>>
    BY DEF MsgWritePublish, WritePublish
  <1>2. PICK m \in Message : wbuf = Encode(m)
    BY <1>1 DEF MsgInv, Written
  <1>3. /\ SubSeq(wbuf, 3, Len(wbuf)) = m /\ msgs' = Append(msgs, m)
        /\ msgs \in Seq(Message)
    BY <1>1, <1>2, EncodeFacts DEF MsgInv, MsgTypes
  <1>4. QueueInv'
    BY <1>1, WriterStep DEF WriterNext, MsgInv
  <1>5. Queued' = Queued \o Encode(m)
    BY <1>1, <1>2, PublishAppends DEF MsgInv
  <1>6. /\ msgs' \in Seq(Message) /\ msgs' # <<>> /\ Len(msgs') = Len(msgs) + 1
        /\ Flat(msgs') = Flat(msgs) \o Encode(m)
    BY <1>3, AppendProperties, FlatAppend
  <1>7. ASSUME msgs # <<>>
        PROVE  /\ msgs'[1] = msgs[1] /\ msgs[1] \in Seq(Octet)
               /\ \A n \in 0 .. Len(msgs[1]) : Remains(msgs', n) = Remains(msgs, n) \o Encode(m)
    <2>1. msgs[1] \in Message /\ msgs[1] \in Seq(Octet)
      BY <1>3, <1>7, FlatHead DEF Message
    <2>2. ASSUME NEW n \in 0 .. Len(msgs[1])
          PROVE  msgs'[1] = msgs[1] /\ Remains(msgs', n) = Remains(msgs, n) \o Encode(m)
      <3>1. /\ Remains(Append(msgs, m), n) = Remains(msgs, n) \o Encode(m)
            /\ Append(msgs, m)[1] = msgs[1]
        BY <1>3, <1>7, RemainsAppend
      <3> QED
        BY <1>3, <3>1
    <2>3. 0 \in 0 .. Len(msgs[1])
      BY <2>1
    <2> QED
      BY <2>1, <2>2, <2>3
  <1>8. MsgTypes'
    BY <1>1, <1>6 DEF MsgInv, MsgTypes
  <1>9. Place'
    <2>1. CASE mpc \in {"idle", "test", "header"}
      BY <1>1, <1>5, <1>6, <2>1 DEF MsgInv, Place, reader
    <2>2. CASE mpc = "body"
      <3>1. /\ msgs # <<>> /\ mlen > 0 /\ mlen + mrest = Len(msgs[1]) /\ Queued = Remains(msgs, 0)
            /\ rpc = "idle" \/ (rpc = "read" /\ rn = mlen)
        BY <2>2 DEF MsgInv, Place
      <3>2. 0 \in 0 .. Len(msgs[1])
        BY <1>7, <3>1
      <3>3. Queued' = Remains(msgs', 0)
        BY <1>5, <1>7, <3>1, <3>2
      <3> QED
        BY <1>1, <1>6, <1>7, <2>2, <3>1, <3>3 DEF Place, reader
    <2>3. CASE mpc = "discard"
      <3>1. /\ msgs # <<>> /\ mrest > 0 /\ mlen + mrest = Len(msgs[1])
            /\ Queued = Remains(msgs, mlen) /\ mgot = SubSeq(msgs[1], 1, mlen)
            /\ rpc = "idle" \/ (rpc = "discard" /\ rn = mrest)
            /\ mlen \in Nat /\ mrest \in Nat
        BY <2>3 DEF MsgInv, Place, MsgTypes
      <3>2. mlen \in 0 .. Len(msgs[1])
        BY <1>7, <3>1
      <3>3. Queued' = Remains(msgs', mlen)
        BY <1>5, <1>7, <3>1, <3>2
      <3> QED
        BY <1>1, <1>6, <1>7, <2>3, <3>1, <3>3 DEF Place, reader
    <2>4. CASE mpc = "flush"
      <3>1. /\ rpc = "flush" /\ Queued = Flat(msgs)
            /\ Contents(ri, optr) = Len(Flat(SubSeq(msgs, 1, mflush)))
            /\ mflush \in 0 .. Len(msgs)
        BY <2>4 DEF MsgInv, Place, MsgTypes
      <3>2. SubSeq(msgs', 1, mflush) = SubSeq(msgs, 1, mflush)
        <4>1. <<m>> \in Seq(Message) /\ msgs' = msgs \o <<m>>
          BY <1>3, AppendIsConcat
        <4> QED
          BY <1>3, <3>1, <4>1, CutFirst
      <3> QED
        BY <1>1, <1>5, <1>6, <2>4, <3>1, <3>2 DEF Place, reader
    <2> QED
      BY <2>1, <2>2, <2>3, <2>4 DEF MsgInv, MsgTypes
  <1>10. Known'
    BY <1>1, <1>6, <1>7 DEF MsgInv, Known
  <1>11. Written'
    BY <1>1 DEF Written
  <1> QED
    BY <1>4, <1>8, <1>9, <1>10, <1>11 DEF MsgInv

\* The reader's step leaves the writer alone.
LEMMA ReaderOnly ==
    ASSUME MsgInv, UNCHANGED writer
    PROVE  Written'
  BY DEF MsgInv, Written, writer

\* A queue with messages in it has at least the two octets of a length, and the
\* first two are that of the oldest.
LEMMA LengthFirst ==
    ASSUME NEW ms \in Seq(Message), ms # <<>>
    PROVE  /\ Len(Flat(ms)) >= 2 /\ ms[1] \in Message /\ Tail(ms) \in Seq(Message)
           /\ SubSeq(Flat(ms), 1, 2) = Header(ms[1])
           /\ SubSeq(Flat(ms), 3, Len(Flat(ms))) = Remains(ms, 0)
           /\ ms[1] \in Seq(Octet) /\ Len(ms[1]) \in Nat
  <1> DEFINE m == ms[1]
             a == Header(m)
             b == m \o Flat(Tail(ms))
  <1>1. /\ Flat(ms) = Encode(m) \o Flat(Tail(ms)) /\ m \in Message /\ Tail(ms) \in Seq(Message)
    BY FlatHead
  <1>2. /\ a \in Seq(Octet) /\ Len(a) = 2 /\ m \in Seq(Octet) /\ Flat(Tail(ms)) \in Seq(Octet)
        /\ Len(m) \in Nat
    <2>1. m \in Message /\ Tail(ms) \in Seq(Message)
      BY <1>1
    <2> HIDE DEF m
    <2>2. a \in Seq(Octet) /\ Len(a) = 2
      BY <2>1, HeaderTells
    <2>3. m \in Seq(Octet) /\ Len(m) \in Nat
      BY <2>1, EncodeFacts
    <2> HIDE DEF a
    <2>4. Flat(Tail(ms)) \in Seq(Octet)
      BY <2>1, FlatFacts
    <2> QED
      BY <2>2, <2>3, <2>4
  <1>3. Flat(ms) = a \o b
    <2>1. Encode(m) = a \o m
      BY DEF Encode
    <2> DEFINE q == Flat(Tail(ms))
    <2> HIDE DEF a, m, q
    <2>2. a \in Seq(Octet) /\ m \in Seq(Octet) /\ q \in Seq(Octet)
      BY <1>2 DEF q
    <2>3. Regroups(Octet)
      BY Together
    <2>4. (a \o m) \o q = a \o (m \o q)
      BY ONLY <2>2, <2>3 DEF Regroups
    <2> QED
      BY <1>1, <2>1, <2>4 DEF q
  <1>4. b = Remains(ms, 0)
    <2>1. SubSeq(m, 0 + 1, Len(m)) = m
      BY <1>2, SubSeqFull
    <2> QED
      BY <2>1 DEF Remains
  <1>5. b \in Seq(Octet)
    BY <1>2, ConcatProperties
  <1> DEFINE f == Flat(ms)
  <1> HIDE DEF a, b, f
  <1>6. f = a \o b
    BY <1>3 DEF f
  <1>7. f \in Seq(Octet) /\ Len(f) = 2 + Len(b) /\ Len(b) \in Nat
    <2>1. a \o b \in Seq(Octet) /\ Len(a \o b) = Len(a) + Len(b)
      BY <1>2, <1>5, ConcatProperties
    <2>2. Len(a) = 2 /\ Len(b) \in Nat
      BY <1>2, <1>5
    <2> QED
      BY ONLY <1>6, <2>1, <2>2
  <1>8. SubSeq(f, 1, 2) = a /\ SubSeq(f, 3, Len(f)) = b
    <2>1. /\ SubSeq(a \o b, 1, Len(a)) = a
          /\ SubSeq(a \o b, Len(a) + 1, Len(a \o b)) = b
      BY <1>2, <1>5, CutBetween
    <2>2. Len(a) + 1 = 3 /\ Len(a) = 2
      BY <1>2
    <2> QED
      BY <1>6, <2>1, <2>2
  <1>9. Len(f) >= 2
    BY ONLY <1>7
  <1> HIDE DEF m
  <1> QED
    BY ONLY <1>1, <1>2, <1>4, <1>8, <1>9 DEF a, f, m

\* A call begins by asking for two octets.
LEMMA Begins ==
    ASSUME MsgInv, mpc = "idle", NEW op \in {"read", "view", "discard"}, StartRead(op, 2)
    PROVE  /\ QueueInv' /\ Queued' = Queued /\ rpc' = op /\ rn' = 2 /\ Written'
           /\ msgs # <<>> /\ Queued = Flat(msgs)
  <1>1. Queued = Flat(msgs) /\ msgs \in Seq(Message) /\ TypeOK /\ QueueInv
    BY DEF MsgInv, Place, MsgTypes, QueueInv
  <1>2. /\ rpc' = op /\ (IF Contents(iptr, optr) < 2 THEN Contents(iptr, optr) ELSE 2) > 0
        /\ rn' = (IF Contents(iptr, optr) < 2 THEN Contents(iptr, optr) ELSE 2)
        /\ UNCHANGED <<shared, writer>>
    BY DEF StartRead
  <1>3. Contents(iptr, optr) = Len(Queued)
    BY <1>1, QueuedType
  <1>4. msgs # <<>>
    <2> SUFFICES ASSUME msgs = <<>> PROVE FALSE
      OBVIOUS
    <2>1. Len(Queued) = 0
      BY <1>1, FlatFacts
    <2> QED
      BY <1>2, <1>3, <2>1
  <1>5. rn' = 2
    <2>1. Len(Queued) >= 2 /\ Len(Queued) \in Nat
      BY <1>1, <1>4, LengthFirst, FlatFacts
    <2> QED
      BY <1>2, <1>3, <2>1
  <1>6. QueueInv'
    BY <1>1, ReadStarts
  <1>7. Queued' = Queued
    BY <1>2 DEF Queued, Contents, Wrap, shared
  <1> QED
    BY <1>1, <1>2, <1>4, <1>5, <1>6, <1>7, ReaderOnly

LEMMA ReadBegins ==
    ASSUME MsgInv, NEW len \in Nat, queue_read_msg(len)
    PROVE  MsgInv'
  <1>1. /\ mpc = "idle" /\ StartRead("read", 2) /\ mpc' = "header" /\ mlen' = len /\ mgot' = <<>>
        /\ mtest' = Unknown /\ UNCHANGED <<mrest, msgs, mflush>>
    BY DEF queue_read_msg
  <1>2. /\ QueueInv' /\ Queued' = Queued /\ rpc' = "read" /\ rn' = 2 /\ Written'
        /\ msgs # <<>> /\ Queued = Flat(msgs)
    BY <1>1, Begins
  <1>3. MsgTypes'
    BY <1>1 DEF MsgInv, MsgTypes
  <1>4. Place' /\ Known'
    BY <1>1, <1>2 DEF Place, Known
  <1> QED
    BY <1>2, <1>3, <1>4 DEF MsgInv

LEMMA TestBegins ==
    ASSUME MsgInv, queue_state_test_msg
    PROVE  MsgInv'
  <1>1. /\ mpc = "idle" /\ StartRead("view", 2) /\ mpc' = "test" /\ mtest' = Unknown
        /\ UNCHANGED <<mlen, mrest, mgot, msgs, mflush>>
    BY DEF queue_state_test_msg
  <1>2. /\ QueueInv' /\ Queued' = Queued /\ rpc' = "view" /\ rn' = 2 /\ Written'
        /\ msgs # <<>> /\ Queued = Flat(msgs)
    BY <1>1, Begins
  <1>3. MsgTypes'
    BY <1>1 DEF MsgInv, MsgTypes
  <1>4. Place' /\ Known'
    BY <1>1, <1>2 DEF Place, Known
  <1> QED
    BY <1>2, <1>3, <1>4 DEF MsgInv

LEMMA ReadGoesOn ==
    ASSUME MsgInv, MsgReadCopy
    PROVE  MsgInv'
  <1>1. PICK k \in (1 .. rn) \ DOMAIN rbuf : ReadCopy(k)
    BY DEF MsgReadCopy
  <1>2. QueueInv'
    BY <1>1, ReaderStep DEF ReaderNext, MsgInv
  <1>3. UNCHANGED <<shared, rpc, ri, ro, rn, rcount, writer>> /\ UNCHANGED msgVars
    BY <1>1 DEF ReadCopy, MsgReadCopy
  <1>4. Queued' = Queued
    BY <1>3 DEF Queued, Contents, Wrap, shared
  <1>5. MsgTypes' /\ Place' /\ Known'
    BY <1>3, <1>4 DEF MsgInv, MsgTypes, Place, Known, msgVars, shared
  <1> QED
    BY <1>2, <1>3, <1>5, ReaderOnly DEF MsgInv

\* Octets of the oldest are taken.
LEMMA TakenOfOldest ==
    ASSUME NEW ms \in Seq(Message), ms # <<>>, NEW k \in 0 .. Len(ms[1])
    PROVE  /\ SubSeq(Remains(ms, 0), 1, k) = SubSeq(ms[1], 1, k)
           /\ SubSeq(Remains(ms, 0), k + 1, Len(Remains(ms, 0))) = Remains(ms, k)
           /\ SubSeq(ms[1], 1, k) \in Seq(Octet)
           /\ Len(Remains(ms, 0)) \in Nat /\ Len(Remains(ms, 0)) >= Len(ms[1])
  <1> DEFINE m == ms[1]
             q == Flat(Tail(ms))
  <1>1. m \in Seq(Octet) /\ q \in Seq(Octet) /\ Len(m) \in Nat /\ Len(q) \in Nat /\ k \in 0 .. Len(m)
    BY LengthFirst, FlatFacts
  <1>2. SubSeq(m, 0 + 1, Len(m)) = m
    BY <1>1, SubSeqFull
  <1>3. Remains(ms, 0) = m \o q
    BY <1>2 DEF Remains
  <1>4. Remains(ms, k) = SubSeq(m, k + 1, Len(m)) \o q
    BY DEF Remains
  <1> HIDE DEF m, q
  <1>5. /\ SubSeq(m \o q, 1, k) = SubSeq(m, 1, k)
        /\ SubSeq(m \o q, k + 1, Len(m \o q)) = SubSeq(m, k + 1, Len(m)) \o q
    BY <1>1, CutFirst
  <1>6. SubSeq(m, 1, k) \in Seq(Octet)
    BY <1>1, CutAnywhere
  <1>7. Len(m \o q) = Len(m) + Len(q)
    BY <1>1, ConcatProperties
  <1>8. Len(m \o q) \in Nat /\ Len(m \o q) >= Len(m)
    BY ONLY <1>1, <1>7
  <1> QED
    BY ONLY <1>3, <1>4, <1>5, <1>6, <1>8 DEF m

\* All that is left of it is taken.
LEMMA TakenWhole ==
    ASSUME NEW ms \in Seq(Message), ms # <<>>, NEW n \in 0 .. Len(ms[1])
    PROVE  /\ Remains(ms, Len(ms[1])) = Flat(Tail(ms))
           /\ SubSeq(Remains(ms, n), (Len(ms[1]) - n) + 1, Len(Remains(ms, n))) = Flat(Tail(ms))
           /\ Len(Remains(ms, n)) \in Nat /\ Len(Remains(ms, n)) >= Len(ms[1]) - n
  <1> DEFINE m == ms[1]
             q == Flat(Tail(ms))
             p == SubSeq(m, n + 1, Len(m))
  <1>1. m \in Seq(Octet) /\ q \in Seq(Octet) /\ Len(m) \in Nat /\ Len(q) \in Nat /\ n \in 0 .. Len(m)
    BY LengthFirst, FlatFacts
  <1>2. p \in Seq(Octet) /\ Len(p) = Len(m) - n
    BY <1>1, CutAnywhere
  <1>3. SubSeq(m, Len(m) + 1, Len(m)) = <<>> /\ <<>> \o q = q
    BY <1>1
  <1>4. Remains(ms, Len(m)) = q /\ Remains(ms, n) = p \o q
    BY <1>3 DEF Remains
  <1> HIDE DEF m, q, p
  <1>5. SubSeq(p \o q, Len(p) + 1, Len(p \o q)) = q
    BY <1>1, <1>2, CutBetween
  <1>6. Len(p \o q) = Len(p) + Len(q)
    BY <1>1, <1>2, ConcatProperties
  <1>7. Len(p \o q) \in Nat /\ Len(p \o q) >= Len(m) - n
    BY ONLY <1>1, <1>2, <1>6
  <1> QED
    BY ONLY <1>2, <1>4, <1>5, <1>7 DEF m, q

\* A call of queue_read_msg returns.
LEMMA Returns ==
    ASSUME MsgInv, msgs # <<>>, mpc \in {"header", "body", "discard"},
           NEW got \in Seq(Octet), Return(got),
           QueueInv', rpc' = "idle", Queued' = Flat(Tail(msgs)), UNCHANGED writer
    PROVE  MsgInv'
  <1>1. /\ mpc' = "idle" /\ mlen' = 0 /\ mrest' = 0 /\ mgot' = got /\ msgs' = Tail(msgs)
        /\ mtest' = mtest /\ mflush' = mflush
    BY DEF Return, Rest
  <1>2. Tail(msgs) \in Seq(Message) /\ Len(Tail(msgs)) \in Nat /\ mflush = 0 /\ mtest = Unknown
    BY FlatHead DEF MsgInv, MsgTypes, Known
  <1>3. MsgTypes'
    BY <1>1, <1>2 DEF MsgInv, MsgTypes
  <1>4. Place' /\ Known'
    BY <1>1, <1>2 DEF Place, Known
  <1> QED
    BY <1>3, <1>4, ReaderOnly DEF MsgInv

\* Storing the pointer ends a piece.
LEMMA PieceEnds ==
    ASSUME MsgInv, ReadPublish
    PROVE  /\ QueueInv' /\ rpc' = "idle" /\ UNCHANGED writer
           /\ Queued' = SubSeq(Queued, rn + 1, Len(Queued))
           /\ rpc = "read" => rbuf = SubSeq(Queued, 1, rn)
  <1>1. QueueInv'
    BY ReaderStep DEF ReaderNext, MsgInv
  <1>2. rpc = "read" => rbuf = SubSeq(Queued, 1, rn)
    BY CopiedIsPrefix DEF ReadPublish, Reading, MsgInv
  <1>3. Queued' = SubSeq(Queued, rn + 1, Len(Queued))
    BY <1>1, PublishTakes DEF MsgInv
  <1> QED
    BY <1>1, <1>2, <1>3 DEF ReadPublish

\* The length that was read is that of the oldest message.
LEMMA LengthRead ==
    ASSUME NEW ms \in Seq(Message), ms # <<>>, rbuf = SubSeq(Flat(ms), 1, 2)
    PROVE  Lenx = Len(ms[1]) /\ Len(ms[1]) \in Nat
  <1>1. rbuf = Header(ms[1]) /\ ms[1] \in Message /\ Len(ms[1]) \in Nat
    BY LengthFirst
  <1>2. Header(ms[1])[1] + Base * Header(ms[1])[2] = Len(ms[1])
    BY <1>1, HeaderTells
  <1> QED
    BY <1>1, <1>2 DEF Lenx

LEMMA HeaderEnds ==
    ASSUME MsgInv, HeaderDone
    PROVE  MsgInv'
  <1>1. /\ mpc = "header" /\ ReadPublish
        /\ IF rn # 2 \/ Lenx = 0
           THEN Return(<<>>)
           ELSE /\ mpc' = IF mlen = 0 THEN "discard" ELSE "body"
                /\ mlen' = ShorterOf(Lenx, mlen)
                /\ mrest' = Lenx - ShorterOf(Lenx, mlen)
                /\ UNCHANGED <<mgot, mtest, msgs, mflush>>
    BY DEF HeaderDone
  <1>2. /\ rpc = "read" /\ rn = 2 /\ msgs # <<>> /\ Queued = Flat(msgs) /\ mgot = <<>>
        /\ msgs \in Seq(Message) /\ mflush = 0 /\ mtest = Unknown /\ mlen \in Nat
    BY <1>1 DEF MsgInv, Place, MsgTypes, Known
  <1>3. /\ QueueInv' /\ rpc' = "idle" /\ UNCHANGED writer
        /\ Queued' = SubSeq(Queued, 3, Len(Queued)) /\ rbuf = SubSeq(Queued, 1, 2)
    BY <1>1, <1>2, PieceEnds
  <1>4. Queued' = Remains(msgs, 0)
    BY <1>2, <1>3, LengthFirst
  <1>5. Lenx = Len(msgs[1]) /\ Len(msgs[1]) \in Nat
    BY <1>2, <1>3, LengthRead
  <1>6. CASE Lenx = 0
    <2>1. Queued' = Flat(Tail(msgs))
      <3>1. 0 \in 0 .. Len(msgs[1])
        BY <1>5
      <3>2. Remains(msgs, Len(msgs[1])) = Flat(Tail(msgs))
        BY <1>2, <3>1, TakenWhole
      <3> QED
        BY <1>4, <1>5, <1>6, <3>2
    <2>2. Return(<<>>) /\ <<>> \in Seq(Octet)
      BY <1>1, <1>6
    <2> QED
      BY <1>1, <1>2, <1>3, <2>1, <2>2, Returns
  <1>7. CASE Lenx # 0
    <2>1. /\ mpc' = (IF mlen = 0 THEN "discard" ELSE "body")
          /\ mlen' = ShorterOf(Lenx, mlen) /\ mrest' = Lenx - ShorterOf(Lenx, mlen)
          /\ UNCHANGED <<mgot, mtest, msgs, mflush>>
      BY <1>1, <1>2, <1>7
    <2>2. /\ mlen' \in Nat /\ mrest' \in Nat /\ mlen' + mrest' = Len(msgs[1])
          /\ mlen = 0 => mlen' = 0 /\ mrest' > 0
          /\ mlen # 0 => mlen' > 0
      <3> DEFINE n == Len(msgs[1])
      <3>1. n \in Nat /\ n # 0 /\ mlen \in Nat
        BY <1>2, <1>5, <1>7
      <3>2. mlen' = ShorterOf(n, mlen) /\ mrest' = n - ShorterOf(n, mlen)
        BY <1>5, <2>1
      <3> HIDE DEF n
      <3>3. /\ mlen' \in Nat /\ mrest' \in Nat /\ mlen' + mrest' = n
            /\ mlen = 0 => mlen' = 0 /\ mrest' > 0
            /\ mlen # 0 => mlen' > 0
        <4>1. CASE n < mlen
          BY ONLY <3>1, <3>2, <4>1 DEF ShorterOf
        <4>2. CASE ~ (n < mlen)
          BY ONLY <3>1, <3>2, <4>2 DEF ShorterOf
        <4> QED
          BY ONLY <4>1, <4>2
      <3> QED
        BY <3>3 DEF n
    <2>3. MsgTypes'
      BY <1>2, <2>1, <2>2 DEF MsgInv, MsgTypes
    <2>4. Place'
      <3>1. CASE mlen = 0
        <4>1. mgot' = SubSeq(msgs[1], 1, 0)
          <5>1. msgs[1] \in Seq(Octet)
            BY <1>2, LengthFirst
          <5>2. SubSeq(msgs[1], 1, 0) = <<>>
            BY <5>1
          <5> QED
            BY <1>2, <2>1, <5>2
        <4>2. mpc' = "discard" /\ mlen' = 0 /\ mrest' > 0
          BY <2>1, <2>2, <3>1
        <4> QED
          BY <1>2, <1>3, <1>4, <2>1, <2>2, <4>1, <4>2 DEF Place
      <3>2. CASE mlen # 0
        BY <1>2, <1>3, <1>4, <2>1, <2>2, <3>2 DEF Place
      <3> QED
        BY <3>1, <3>2
    <2>5. Known'
      BY <1>2, <2>1 DEF Known
    <2> QED
      BY <1>3, <2>3, <2>4, <2>5, ReaderOnly DEF MsgInv
  <1> QED
    BY <1>6, <1>7

\* What a piece after the length asks for is in the queue, as a message is
\* stored whole.
LEMMA PieceThere ==
    ASSUME MsgInv, rpc = "idle"
    PROVE  /\ mpc = "body" => ~ (Contents(iptr, optr) < mlen)
           /\ mpc = "discard" => ~ (Contents(iptr, optr) < mrest)
  <1>1. /\ Contents(iptr, optr) = Len(Queued) /\ Contents(iptr, optr) \in Nat
        /\ msgs \in Seq(Message) /\ mlen \in Nat /\ mrest \in Nat
    BY QueuedType, RingNat DEF MsgInv, MsgTypes, QueueInv, TypeOK
  <1>2. ASSUME mpc = "body" PROVE ~ (Contents(iptr, optr) < mlen)
    <2>1. msgs # <<>> /\ mlen + mrest = Len(msgs[1]) /\ Queued = Remains(msgs, 0)
      BY <1>2 DEF MsgInv, Place
    <2>2. Len(msgs[1]) \in Nat
      BY <1>1, <2>1, LengthFirst
    <2>3. 0 \in 0 .. Len(msgs[1])
      BY <2>2
    <2>4. Len(Remains(msgs, 0)) >= Len(msgs[1])
      BY <1>1, <2>1, <2>3, TakenOfOldest
    <2> QED
      BY <1>1, <2>1, <2>2, <2>4
  <1>3. ASSUME mpc = "discard" PROVE ~ (Contents(iptr, optr) < mrest)
    <2>1. msgs # <<>> /\ mlen + mrest = Len(msgs[1]) /\ Queued = Remains(msgs, mlen)
      BY <1>3 DEF MsgInv, Place
    <2>2. Len(msgs[1]) \in Nat
      BY <1>1, <2>1, LengthFirst
    <2>3. mlen \in 0 .. Len(msgs[1])
      BY <1>1, <2>1, <2>2
    <2>4. Len(Remains(msgs, mlen)) >= Len(msgs[1]) - mlen
      BY <1>1, <2>1, <2>3, TakenWhole
    <2> QED
      BY <1>1, <2>1, <2>2, <2>4
  <1> QED
    BY <1>2, <1>3

\* The body is asked for: it is all there, as the message was stored at once.
LEMMA BodyBegins ==
    ASSUME MsgInv, ReadBody
    PROVE  MsgInv'
  <1>1. /\ mpc = "body" /\ rpc = "idle" /\ NextPiece("read", mlen)
        /\ msgs # <<>> /\ mlen > 0 /\ mlen + mrest = Len(msgs[1]) /\ Queued = Remains(msgs, 0)
        /\ msgs \in Seq(Message) /\ mlen \in Nat /\ mrest \in Nat
    BY DEF ReadBody, MsgInv, Place, MsgTypes
  <1>2. ~ (Contents(iptr, optr) < mlen)
    BY <1>1, PieceThere
  <1>3. StartRead("read", mlen) /\ UNCHANGED msgVars
    BY <1>1, <1>2 DEF NextPiece
  <1>4. QueueInv'
    BY <1>1, <1>3, ReadStarts DEF MsgInv
  <1>5. /\ rpc' = "read" /\ rn' = mlen /\ UNCHANGED <<shared, writer>>
    BY <1>2, <1>3 DEF StartRead
  <1>6. Queued' = Queued
    BY <1>5 DEF Queued, Contents, Wrap, shared
  <1>7. MsgTypes' /\ Known'
    BY <1>3 DEF MsgInv, MsgTypes, Known, msgVars
  <1>8. Place'
    BY <1>1, <1>3, <1>5, <1>6 DEF Place, msgVars
  <1> QED
    BY <1>4, <1>5, <1>7, <1>8, ReaderOnly DEF MsgInv

\* So is what is to be discarded.
LEMMA DiscardBegins ==
    ASSUME MsgInv, DiscardRest
    PROVE  MsgInv'
  <1>1. /\ mpc = "discard" /\ rpc = "idle" /\ NextPiece("discard", mrest)
        /\ msgs # <<>> /\ mrest > 0 /\ mlen + mrest = Len(msgs[1]) /\ Queued = Remains(msgs, mlen)
        /\ mgot = SubSeq(msgs[1], 1, mlen)
        /\ msgs \in Seq(Message) /\ mlen \in Nat /\ mrest \in Nat
    BY DEF DiscardRest, MsgInv, Place, MsgTypes
  <1>2. ~ (Contents(iptr, optr) < mrest)
    BY <1>1, PieceThere
  <1>3. StartRead("discard", mrest) /\ UNCHANGED msgVars
    BY <1>1, <1>2 DEF NextPiece
  <1>4. QueueInv'
    BY <1>1, <1>3, ReadStarts DEF MsgInv
  <1>5. /\ rpc' = "discard" /\ rn' = mrest /\ UNCHANGED <<shared, writer>>
    BY <1>2, <1>3 DEF StartRead
  <1>6. Queued' = Queued
    BY <1>5 DEF Queued, Contents, Wrap, shared
  <1>7. MsgTypes' /\ Known'
    BY <1>3 DEF MsgInv, MsgTypes, Known, msgVars
  <1>8. Place'
    BY <1>1, <1>3, <1>5, <1>6 DEF Place, msgVars
  <1> QED
    BY <1>4, <1>5, <1>7, <1>8, ReaderOnly DEF MsgInv

\* What the body was found to be, and what its end leaves in the queue.
LEMMA BodyRead ==
    ASSUME MsgInv, mpc = "body", ReadPublish
    PROVE  /\ rbuf = SubSeq(msgs[1], 1, mlen) /\ rbuf \in Seq(Octet)
           /\ Queued' = Remains(msgs, mlen)
           /\ msgs # <<>> /\ mlen + mrest = Len(msgs[1]) /\ mlen \in 0 .. Len(msgs[1])
           /\ msgs[1] \in Seq(Octet) /\ msgs \in Seq(Message)
  <1>1. rpc # "idle"
    BY DEF ReadPublish
  <1>2. /\ msgs # <<>> /\ mlen + mrest = Len(msgs[1]) /\ Queued = Remains(msgs, 0)
        /\ rpc = "read" /\ rn = mlen /\ msgs \in Seq(Message) /\ mlen \in Nat /\ mrest \in Nat
    BY <1>1 DEF MsgInv, Place, MsgTypes
  <1>3. Len(msgs[1]) \in Nat /\ msgs[1] \in Seq(Octet)
    BY <1>2, LengthFirst
  <1>4. mlen \in 0 .. Len(msgs[1])
    BY <1>2, <1>3
  <1>5. /\ SubSeq(Remains(msgs, 0), 1, mlen) = SubSeq(msgs[1], 1, mlen)
        /\ SubSeq(Remains(msgs, 0), mlen + 1, Len(Remains(msgs, 0))) = Remains(msgs, mlen)
        /\ SubSeq(msgs[1], 1, mlen) \in Seq(Octet)
    BY <1>2, <1>4, TakenOfOldest
  <1>6. rbuf = SubSeq(Queued, 1, rn) /\ Queued' = SubSeq(Queued, rn + 1, Len(Queued))
    BY <1>2, PieceEnds
  <1> QED
    BY <1>2, <1>3, <1>4, <1>5, <1>6

LEMMA BodyEnds ==
    ASSUME MsgInv, BodyDone
    PROVE  MsgInv'
  <1>1. /\ mpc = "body" /\ ReadPublish
        /\ IF mrest = 0
           THEN Return(rbuf)
           ELSE /\ mpc' = "discard" /\ mgot' = rbuf
                /\ UNCHANGED <<mlen, mrest, mtest, msgs, mflush>>
        /\ mrest \in Nat /\ mlen \in Nat /\ mflush = 0 /\ mtest = Unknown
    BY DEF BodyDone, MsgInv, MsgTypes, Known
  <1>2. /\ rbuf = SubSeq(msgs[1], 1, mlen) /\ rbuf \in Seq(Octet)
        /\ Queued' = Remains(msgs, mlen)
        /\ msgs # <<>> /\ mlen + mrest = Len(msgs[1]) /\ mlen \in 0 .. Len(msgs[1])
        /\ msgs \in Seq(Message)
    BY <1>1, BodyRead
  <1>3. QueueInv' /\ rpc' = "idle" /\ UNCHANGED writer
    BY <1>1, PieceEnds
  <1>4. CASE mrest = 0
    <2>1. mlen = Len(msgs[1])
      BY <1>1, <1>2, <1>4
    <2>2. Queued' = Flat(Tail(msgs))
      BY <1>2, <2>1, TakenWhole
    <2>3. Return(rbuf)
      BY <1>1, <1>4
    <2> QED
      BY <1>1, <1>2, <1>3, <2>2, <2>3, Returns
  <1>5. CASE mrest # 0
    <2>1. mpc' = "discard" /\ mgot' = rbuf /\ UNCHANGED <<mlen, mrest, mtest, msgs, mflush>>
      BY <1>1, <1>5
    <2>2. mrest > 0
      BY <1>1, <1>5
    <2>3. MsgTypes'
      BY <1>1, <1>2, <2>1 DEF MsgInv, MsgTypes
    <2>4. Place'
      BY <1>2, <1>3, <2>1, <2>2 DEF Place
    <2>5. Known'
      BY <1>1, <2>1 DEF Known
    <2> QED
      BY <1>3, <2>3, <2>4, <2>5, ReaderOnly DEF MsgInv
  <1> QED
    BY <1>4, <1>5

LEMMA DiscardEnds ==
    ASSUME MsgInv, DiscardDone
    PROVE  MsgInv'
  <1>1. mpc = "discard" /\ ReadPublish /\ Return(mgot) /\ rpc # "idle"
    BY DEF DiscardDone, ReadPublish
  <1>2. /\ msgs # <<>> /\ mlen + mrest = Len(msgs[1]) /\ Queued = Remains(msgs, mlen)
        /\ rn = mrest /\ msgs \in Seq(Message) /\ mlen \in Nat /\ mrest \in Nat /\ mgot \in Seq(Octet)
    BY <1>1 DEF MsgInv, Place, MsgTypes
  <1>3. /\ QueueInv' /\ rpc' = "idle" /\ UNCHANGED writer
        /\ Queued' = SubSeq(Queued, rn + 1, Len(Queued))
    BY <1>1, PieceEnds
  <1>4. Queued' = Flat(Tail(msgs))
    <2>1. Len(msgs[1]) \in Nat
      BY <1>2, LengthFirst
    <2>2. mlen \in 0 .. Len(msgs[1]) /\ Len(msgs[1]) - mlen = rn
      BY <1>2, <2>1
    <2>3. SubSeq(Remains(msgs, mlen), (Len(msgs[1]) - mlen) + 1, Len(Remains(msgs, mlen))) = Flat(Tail(msgs))
      BY <1>2, <2>2, TakenWhole
    <2> QED
      BY <1>2, <1>3, <2>2, <2>3
  <1> QED
    BY <1>1, <1>2, <1>3, <1>4, Returns

LEMMA TestEnds ==
    ASSUME MsgInv, TestDone
    PROVE  MsgInv'
  <1>1. /\ mpc = "test" /\ ViewEnd /\ mpc' = "idle"
        /\ mtest' = (IF rn = 2 THEN Lenx ELSE Unknown)
        /\ UNCHANGED <<mlen, mrest, mgot, msgs, mflush>>
        /\ rpc = "view" /\ DOMAIN rbuf = 1 .. rn /\ rpc' = "idle" /\ UNCHANGED <<shared, writer>>
    BY DEF TestDone, ViewEnd
  <1>2. /\ rn = 2 /\ msgs # <<>> /\ Queued = Flat(msgs) /\ msgs \in Seq(Message) /\ mflush = 0
    BY <1>1 DEF MsgInv, Place, MsgTypes
  <1>3. rbuf = SubSeq(Flat(msgs), 1, 2)
    BY <1>1, <1>2, CopiedIsPrefix DEF MsgInv, Reading
  <1>4. mtest' = Len(msgs[1]) /\ Len(msgs[1]) \in Nat
    BY <1>1, <1>2, <1>3, LengthRead
  <1>5. QueueInv'
    BY <1>1, ReaderStep DEF ReaderNext, MsgInv
  <1>6. Queued' = Queued
    BY <1>1 DEF Queued, Contents, Wrap, shared
  <1>7. MsgTypes'
    BY <1>1, <1>2, <1>4 DEF MsgInv, MsgTypes
  <1>8. Place' /\ Known'
    BY <1>1, <1>2, <1>4, <1>6 DEF Place, Known
  <1> QED
    BY <1>1, <1>5, <1>7, <1>8, ReaderOnly DEF MsgInv

LEMMA FlushBegins ==
    ASSUME MsgInv, MsgFlushLoad
    PROVE  MsgInv'
  <1>1. /\ mpc = "idle" /\ FlushLoad /\ mtest' = Unknown /\ mgot' = <<>> /\ mpc' = "flush"
        /\ mflush' = Len(msgs) /\ UNCHANGED <<mlen, mrest, msgs>>
        /\ rpc' = "flush" /\ ri' = iptr /\ UNCHANGED <<shared, writer>>
    BY DEF MsgFlushLoad, FlushLoad
  <1>2. Queued = Flat(msgs) /\ msgs \in Seq(Message) /\ Len(msgs) \in Nat
    BY <1>1 DEF MsgInv, Place, MsgTypes
  <1>3. QueueInv'
    BY <1>1, ReaderStep DEF ReaderNext, MsgInv
  <1>4. Queued' = Queued /\ Contents(ri', optr') = Contents(iptr, optr)
    BY <1>1 DEF Queued, Contents, Wrap, shared
  <1>5. Contents(iptr, optr) = Len(Flat(SubSeq(msgs, 1, Len(msgs))))
    <2>1. SubSeq(msgs, 1, Len(msgs)) = msgs
      BY <1>2, SubSeqFull
    <2>2. Contents(iptr, optr) = Len(Queued)
      BY QueuedType DEF MsgInv, QueueInv
    <2> QED
      BY <1>2, <2>1, <2>2
  <1>6. MsgTypes'
    BY <1>1, <1>2 DEF MsgInv, MsgTypes
  <1>7. Place' /\ Known'
    BY <1>1, <1>2, <1>4, <1>5 DEF Place, Known
  <1> QED
    BY <1>1, <1>3, <1>6, <1>7, ReaderOnly DEF MsgInv

LEMMA FlushEnds ==
    ASSUME MsgInv, MsgFlushStore
    PROVE  MsgInv'
  <1>1. /\ FlushStore /\ mpc' = "idle" /\ mflush' = 0 /\ msgs' = SubSeq(msgs, mflush + 1, Len(msgs))
        /\ UNCHANGED <<mlen, mrest, mgot, mtest>>
        /\ rpc = "flush" /\ rpc' = "idle" /\ UNCHANGED writer
    BY DEF MsgFlushStore, FlushStore
  <1>2. mpc = "flush"
    BY <1>1 DEF MsgInv, Place, MsgTypes
  <1>3. /\ Queued = Flat(msgs) /\ Contents(ri, optr) = Len(Flat(SubSeq(msgs, 1, mflush)))
        /\ msgs \in Seq(Message) /\ mflush \in 0 .. Len(msgs) /\ mtest = Unknown
    BY <1>2 DEF MsgInv, Place, MsgTypes, Known
  <1>4. QueueInv'
    BY <1>1, ReaderStep DEF ReaderNext, MsgInv
  <1>5. Queued' = SubSeq(Queued, Contents(ri, optr) + 1, Len(Queued))
    BY <1>1, <1>4, FlushTakes DEF MsgInv
  <1> DEFINE a == SubSeq(msgs, 1, mflush)
             b == SubSeq(msgs, mflush + 1, Len(msgs))
  <1>6. a \in Seq(Message) /\ b \in Seq(Message) /\ msgs = a \o b
    BY <1>3, CutAnywhere
  <1>7. /\ Contents(ri, optr) = Len(Flat(a)) /\ msgs' = b
    BY <1>1, <1>3
  <1> HIDE DEF a, b
  <1>8. Flat(msgs) = Flat(a) \o Flat(b) /\ Flat(a) \in Seq(Octet) /\ Flat(b) \in Seq(Octet)
    BY <1>6, FlatConcat, FlatFacts
  <1>9. Queued' = Flat(b)
    BY <1>3, <1>5, <1>7, <1>8, CutBetween
  <1>10. MsgTypes'
    BY <1>1, <1>6, <1>7 DEF MsgInv, MsgTypes
  <1>11. Place' /\ Known'
    BY <1>1, <1>3, <1>7, <1>9 DEF Place, Known
  <1> QED
    BY <1>1, <1>4, <1>10, <1>11, ReaderOnly DEF MsgInv

-----------------------------------------------------------------------------
(* The theorems.                                                            *)

LEMMA MsgStarts ==
    ASSUME MsgInit
    PROVE  MsgInv
  <1>1. Init /\ mpc = "idle" /\ mlen = 0 /\ mrest = 0 /\ mgot = <<>> /\ mtest = Unknown
        /\ msgs = <<>> /\ mflush = 0 /\ wpc = "idle" /\ rpc = "idle"
    BY DEF MsgInit, Init
  <1>2. QueueInv
    BY <1>1, QueueStarts
  <1>3. Queued = <<>>
    <2>1. Contents(iptr, optr) = 0
      BY <1>1 DEF Init, Contents
    <2>2. Queued \in Seq(Octet) /\ Len(Queued) = 0
      BY <1>2, <2>1, QueuedType DEF QueueInv
    <2> QED
      BY <2>2, EmptySeq
  <1>4. MsgTypes
    BY <1>1 DEF MsgTypes
  <1>5. Place
    BY <1>1, <1>3, FlatFacts DEF Place
  <1>6. Written /\ Known
    BY <1>1 DEF Written, Known
  <1> QED
    BY <1>2, <1>4, <1>5, <1>6 DEF MsgInv

LEMMA MsgStep ==
    ASSUME MsgInv, [MsgNext]_<<vars, msgVars>>
    PROVE  MsgInv'
  <1>1. ASSUME NEW m \in Messages, queue_write_msg(m) PROVE MsgInv'
    BY <1>1, WriteBegins
  <1>2. ASSUME NEW len \in 0 .. MaxReq, queue_read_msg(len) PROVE MsgInv'
    <2>1. len \in Nat
      BY QueueAssumption
    <2> QED
      BY <1>2, <2>1, ReadBegins
  <1>3. CASE MsgWriteCopy \/ MsgWritePublish
    BY <1>3, WriteGoesOn, WriteEnds
  <1>4. CASE queue_state_test_msg \/ MsgReadCopy \/ TestDone
    BY <1>4, TestBegins, ReadGoesOn, TestEnds
  <1>5. CASE HeaderDone \/ ReadBody \/ BodyDone \/ DiscardRest \/ DiscardDone
    BY <1>5, HeaderEnds, BodyBegins, BodyEnds, DiscardBegins, DiscardEnds
  <1>6. CASE MsgFlushLoad \/ MsgFlushStore
    BY <1>6, FlushBegins, FlushEnds
  <1>7. CASE UNCHANGED <<vars, msgVars>>
    <2>1. QueueInv'
      BY <1>7, QueueStutters DEF MsgInv
    <2>2. UNCHANGED <<shared, writer, reader>> /\ UNCHANGED msgVars
      BY <1>7 DEF vars
    <2>3. Queued' = Queued
      BY <2>2 DEF Queued, Contents, Wrap, shared
    <2>4. Written'
      BY <2>2, ReaderOnly
    <2> QED
      BY <2>1, <2>2, <2>3, <2>4, WriterUnseen DEF shared
  <1> QED
    BY <1>1, <1>2, <1>3, <1>4, <1>5, <1>6, <1>7 DEF MsgNext

\* The inductive invariant of the message queue: what is in the queue is told
\* by the messages not yet read and where the reader's call has got to.
THEOREM MsgInvariant == MsgSpec => []MsgInv
  <1>1. MsgInit => MsgInv
    BY MsgStarts
  <1>2. MsgInv /\ [MsgNext]_<<vars, msgVars>> => MsgInv'
    BY MsgStep
  <1> QED
    BY <1>1, <1>2, PTL DEF MsgSpec

\* Types of the message queue, the messages in it and the call that runs.
THEOREM MsgTypesAlways == MsgSpec => []MsgTypeOK
  <1>1. MsgInv => MsgTypeOK
    <2> SUFFICES ASSUME MsgInv PROVE MsgTypeOK
      OBVIOUS
    <2>1. msgs \in Seq(Seq(Octet))
      <3>1. msgs \in Seq(Message)
        BY DEF MsgInv, MsgTypes
      <3> QED
        BY <3>1 DEF Message
    <2> QED
      BY <2>1 DEF MsgInv, QueueInv, MsgTypes, MsgTypeOK
  <1> QED
    BY <1>1, MsgInvariant, PTL

\* Between calls of the reader the queue holds whole messages, and the length
\* queue_state_test_msg gave is still that of the one at its head.
THEOREM FramingAlways == MsgSpec => []Framing
  <1>1. MsgInv => Framing
    <2> SUFFICES ASSUME MsgInv PROVE Framing
      OBVIOUS
    <2>1. WholeMessages
      BY DEF MsgInv, Place, WholeMessages, Flat, Encoded
    <2>2. TestStaysTrue
      BY DEF MsgInv, Known, TestStaysTrue
    <2> QED
      BY <2>1, <2>2 DEF Framing
  <1> QED
    BY <1>1, MsgInvariant, PTL

\* A read returns the oldest message, cut to the caller's buffer, and takes all
\* of that message and no other off the queue.
THEOREM OldestIsRead == MsgSpec => ReadMsgReturnsOldest
  <1> DEFINE Oldest ==
               mpc' = "idle" /\ mpc \in {"body", "discard"} =>
                 /\ msgs # <<>>
                 /\ mlen + mrest = Len(msgs[1])
                 /\ mlen <= Len(msgs[1]) /\ Len(mgot') = mlen
                 /\ mgot' = SubSeq(msgs[1], 1, mlen)
  <1>1. MsgInv /\ [MsgNext]_<<vars, msgVars>> => [Oldest]_<<vars, msgVars>>
    <2> SUFFICES ASSUME MsgInv, MsgInv', MsgNext, mpc' = "idle", mpc \in {"body", "discard"}
                 PROVE  Oldest
      BY MsgStep
    <2>1. CASE BodyDone
      <3>1. mpc = "body" /\ ReadPublish /\ mgot' = rbuf
        BY <2>1 DEF BodyDone, Return
      <3>2. /\ rbuf = SubSeq(msgs[1], 1, mlen)
            /\ msgs # <<>> /\ mlen + mrest = Len(msgs[1]) /\ mlen \in 0 .. Len(msgs[1])
            /\ msgs[1] \in Seq(Octet)
        BY <3>1, BodyRead
      <3>3. Len(SubSeq(msgs[1], 1, mlen)) = mlen
        BY <3>2, CutAnywhere
      <3> QED
        BY <3>1, <3>2, <3>3
    <2>2. CASE DiscardDone
      <3>1. mpc = "discard" /\ mgot' = mgot
        BY <2>2 DEF DiscardDone, Return
      <3>2. /\ msgs # <<>> /\ mlen + mrest = Len(msgs[1]) /\ mgot = SubSeq(msgs[1], 1, mlen)
            /\ mlen \in Nat /\ mrest \in Nat /\ msgs \in Seq(Message)
        BY <3>1 DEF MsgInv, Place, MsgTypes
      <3>3. msgs[1] \in Seq(Octet) /\ Len(msgs[1]) \in Nat
        BY <3>2, LengthFirst
      <3>4. mlen \in 0 .. Len(msgs[1])
        BY <3>2, <3>3
      <3>5. Len(SubSeq(msgs[1], 1, mlen)) = mlen
        BY <3>3, <3>4, CutAnywhere
      <3> QED
        BY <3>1, <3>2, <3>4, <3>5
    <2>3. ~ ReadBody
      <3> SUFFICES ASSUME ReadBody PROVE FALSE
        OBVIOUS
      <3>1. mpc = "body" /\ NextPiece("read", mlen)
        BY DEF ReadBody
      <3>2. Contents(iptr, optr) < mlen
        BY <3>1 DEF NextPiece, msgVars
      <3>3. ~ (Contents(iptr, optr) < mlen)
        BY PieceThere DEF ReadBody
      <3> QED
        BY <3>2, <3>3
    <2>4. ~ DiscardRest
      <3> SUFFICES ASSUME DiscardRest PROVE FALSE
        OBVIOUS
      <3>1. mpc = "discard" /\ NextPiece("discard", mrest)
        BY DEF DiscardRest
      <3>2. Contents(iptr, optr) < mrest
        BY <3>1 DEF NextPiece, msgVars
      <3>3. ~ (Contents(iptr, optr) < mrest)
        BY PieceThere DEF DiscardRest
      <3> QED
        BY <3>2, <3>3
    <2>5. ASSUME NEW m \in Messages, queue_write_msg(m) PROVE FALSE
      BY <2>5 DEF queue_write_msg, msgVars
    <2>6. ASSUME NEW len \in 0 .. MaxReq, queue_read_msg(len) PROVE FALSE
      BY <2>6 DEF queue_read_msg
    <2>7. ~ MsgWriteCopy /\ ~ MsgWritePublish /\ ~ MsgReadCopy
      BY DEF MsgWriteCopy, MsgWritePublish, MsgReadCopy, msgVars
    <2>8. ~ queue_state_test_msg /\ ~ HeaderDone /\ ~ TestDone /\ ~ MsgFlushLoad
      BY DEF queue_state_test_msg, HeaderDone, TestDone, MsgFlushLoad
    <2>9. ~ MsgFlushStore
      BY DEF MsgFlushStore, FlushStore, MsgInv, Place
    <2> QED
      BY <2>1, <2>2, <2>3, <2>4, <2>5, <2>6, <2>7, <2>8, <2>9 DEF MsgNext
  <1> QED
    BY <1>1, MsgInvariant, PTL DEF MsgSpec, ReadMsgReturnsOldest
=============================================================================

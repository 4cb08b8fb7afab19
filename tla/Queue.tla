------------------------------- MODULE Queue -------------------------------
(***************************************************************************)
(* The lock free octet queue of src/queue.c, used by one writing thread    *)
(* and one reading thread that take no lock.  The ring holds QLen octets,  *)
(* one more than the capacity queue_init was asked for.  Each operation    *)
(* is split where the other thread can interleave: the snapshot of the     *)
(* pointers, every octet of the memcpy (in any order, as memcpy gives      *)
(* none), and the store that publishes the moved pointer.                  *)
(* Calls that return without touching the queue are stuttering steps.      *)
(***************************************************************************)
EXTENDS Integers, Sequences

CONSTANTS QLen,         \* s->len, the size of data[]
          Octet,        \* the values of an octet
          ReadAtomic,   \* flag QUEUE_READ_ATOMIC
          WriteAtomic,  \* flag QUEUE_WRITE_ATOMIC
          MaxReq        \* longest block a caller asks to move (a bound)

ASSUME QueueAssumption ==
    /\ QLen \in Nat \ {0}
    /\ MaxReq \in Nat
    /\ ReadAtomic \in BOOLEAN
    /\ WriteAtomic \in BOOLEAN

VARIABLES
    data, iptr, optr,   \* queue_state_t
    wpc,                \* what the writing thread is in the middle of
    wi, wo,             \* its snapshots of iptr and optr
    wbuf,               \* the real_len octets it is storing
    wdone,              \* which of them have been stored
    wspace,             \* what queue_free_space last told it, until it acts
    rpc,                \* what the reading thread is in the middle of
    ri, ro,             \* its snapshots of iptr and optr
    rn,                 \* its real_len
    rbuf,               \* the octets copied out by its read or view, by position
    rcount              \* what queue_contents last told it, until it acts

shared == <<data, iptr, optr>>
writer == <<wpc, wi, wo, wbuf, wdone, wspace>>
reader == <<rpc, ri, ro, rn, rbuf, rcount>>
vars   == <<shared, writer, reader>>

Slots    == 0 .. QLen - 1
Unknown  == -1
Requests == UNION {[1 .. n -> Octet] : n \in 1 .. MaxReq}

\* Fault: a full queue that looks empty.
FreeSpaceToTheBrim(i, o) == IF o - i <= 0 THEN o - i + QLen ELSE o - i

FreeSpace(i, o) == IF o - i - 1 < 0 THEN o - i - 1 + QLen ELSE o - i - 1
Contents(i, o)  == IF i - o < 0 THEN i - o + QLen ELSE i - o

Init ==
    /\ data \in [Slots -> Octet]
    /\ iptr = 0 /\ optr = 0
    /\ wpc = "idle" /\ wi = 0 /\ wo = 0 /\ wbuf = <<>> /\ wdone = {}
    /\ wspace = Unknown
    /\ rpc = "idle" /\ ri = 0 /\ ro = 0 /\ rn = 0 /\ rbuf = <<>>
    /\ rcount = Unknown

-----------------------------------------------------------------------------
(* The writing thread.                                                      *)

\* Snapshot the pointers and settle on the octets to store.  A write that
\* finds no room, or not enough of it in atomic mode, returns at once.
StartWrite(block) ==
    /\ wpc = "idle"
    /\ block # <<>>
    /\ wpc' = "copy"
    /\ wi' = iptr /\ wo' = optr
    /\ wbuf' = block
    /\ wdone' = {}
    /\ wspace' = Unknown
    /\ UNCHANGED <<shared, reader>>

queue_write(buf) ==
    LET room == FreeSpace(iptr, optr)
    IN  /\ ~(room < Len(buf) /\ WriteAtomic)
        /\ StartWrite(IF room < Len(buf) THEN SubSeq(buf, 1, room) ELSE buf)

\* queue_write for a single octet.
queue_write_byte(byte) ==
    /\ FreeSpace(iptr, optr) >= 1
    /\ StartWrite(<<byte>>)

\* Where the k-th octet of the block goes: the one step and the two step copy.
WriteSlot(k) ==
    IF wi < wo \/ QLen - wi >= Len(wbuf) \/ k <= QLen - wi
    THEN wi + k - 1
    ELSE k - 1 - (QLen - wi)

WriteCopy(k) ==
    /\ wpc = "copy"
    /\ data' = [data EXCEPT ![WriteSlot(k)] = wbuf[k]]
    /\ wdone' = wdone \cup {k}
    /\ UNCHANGED <<iptr, optr, wpc, wi, wo, wbuf, wspace, reader>>

NewIptr ==
    IF wi < wo \/ QLen - wi >= Len(wbuf)
    THEN IF wi + Len(wbuf) >= QLen THEN 0 ELSE wi + Len(wbuf)
    ELSE Len(wbuf) - (QLen - wi)

\* Fault: the pointer is changed before the octets are stored.
WritePublishEarly ==
    /\ wpc = "copy"
    /\ iptr' = NewIptr
    /\ wpc' = "idle"
    /\ wi' = 0 /\ wo' = 0 /\ wbuf' = <<>> /\ wdone' = {}
    /\ UNCHANGED <<data, optr, wspace, reader>>

\* The pointer is only changed once the octets are really stored.
WritePublish ==
    /\ wpc = "copy"
    /\ wdone = DOMAIN wbuf
    /\ iptr' = NewIptr
    /\ wpc' = "idle"
    /\ wi' = 0 /\ wo' = 0 /\ wbuf' = <<>> /\ wdone' = {}
    /\ UNCHANGED <<data, optr, wspace, reader>>

queue_free_space ==
    /\ wpc = "idle"
    /\ wspace' = FreeSpace(iptr, optr)
    /\ UNCHANGED <<shared, wpc, wi, wo, wbuf, wdone, reader>>

WriterNext ==
    \/ \E buf \in Requests : queue_write(buf)
    \/ \E byte \in Octet : queue_write_byte(byte)
    \/ \E k \in DOMAIN wbuf \ wdone : WriteCopy(k)
    \/ WritePublish
    \/ queue_free_space

-----------------------------------------------------------------------------
(* The reading thread.                                                      *)

\* Snapshot the pointers and settle on how much to copy out.  op is "read",
\* "view", or "discard" for a read into a NULL buffer.
StartRead(op, len) ==
    LET have == Contents(iptr, optr)
    IN  /\ rpc = "idle"
        /\ ~(have < len /\ ReadAtomic)
        /\ (IF have < len THEN have ELSE len) > 0
        /\ rpc' = op
        /\ ri' = iptr /\ ro' = optr
        /\ rn' = IF have < len THEN have ELSE len
        /\ rbuf' = <<>>
        /\ rcount' = Unknown
        /\ UNCHANGED <<shared, writer>>

queue_read(len)    == StartRead("read", len)
queue_view(len)    == StartRead("view", len)
queue_skip(len)    == StartRead("discard", len)

\* queue_read of a single octet.
queue_read_byte == Contents(iptr, optr) >= 1 /\ StartRead("read", 1)

TwoStepRead == ri < ro /\ QLen - ro < rn

ReadSlot(k) == IF TwoStepRead /\ k > QLen - ro THEN k - 1 - (QLen - ro) ELSE ro + k - 1

ReadCopy(k) ==
    /\ rpc \in {"read", "view"}
    /\ rbuf' = [j \in DOMAIN rbuf \cup {k} |->
                   IF j = k THEN data[ReadSlot(k)] ELSE rbuf[j]]
    /\ UNCHANGED <<shared, rpc, ri, ro, rn, rcount, writer>>

NewOptr ==
    IF TwoStepRead THEN rn - (QLen - ro)
                   ELSE IF ro + rn >= QLen THEN 0 ELSE ro + rn

\* The pointer is only changed once the octets are really copied.
ReadPublish ==
    /\ rpc = "discard" \/ (rpc = "read" /\ DOMAIN rbuf = 1 .. rn)
    /\ optr' = NewOptr
    /\ rpc' = "idle"
    /\ ri' = 0 /\ ro' = 0 /\ rn' = 0
    /\ UNCHANGED <<data, iptr, rbuf, rcount, writer>>

\* A view ends without moving the pointer.
ViewEnd ==
    /\ rpc = "view"
    /\ DOMAIN rbuf = 1 .. rn
    /\ rpc' = "idle"
    /\ ri' = 0 /\ ro' = 0 /\ rn' = 0
    /\ UNCHANGED <<shared, rbuf, rcount, writer>>

\* queue_flush is a load of iptr and a store to optr.
FlushLoad ==
    /\ rpc = "idle"
    /\ rpc' = "flush"
    /\ ri' = iptr
    /\ rbuf' = <<>>
    /\ rcount' = Unknown
    /\ UNCHANGED <<shared, ro, rn, writer>>

\* Fault: a flush that starts again at the beginning of the ring.
FlushStoreReset ==
    /\ rpc = "flush"
    /\ optr' = 0 /\ iptr' = 0
    /\ rpc' = "idle"
    /\ ri' = 0
    /\ UNCHANGED <<data, ro, rn, rbuf, rcount, writer>>

FlushStore ==
    /\ rpc = "flush"
    /\ optr' = ri
    /\ rpc' = "idle"
    /\ ri' = 0
    /\ UNCHANGED <<data, iptr, ro, rn, rbuf, rcount, writer>>

queue_contents ==
    /\ rpc = "idle"
    /\ rcount' = Contents(iptr, optr)
    /\ UNCHANGED <<shared, rpc, ri, ro, rn, rbuf, writer>>

ReaderNext ==
    \/ \E len \in 1 .. MaxReq : queue_read(len) \/ queue_view(len) \/ queue_skip(len)
    \/ queue_read_byte
    \/ \E k \in (1 .. rn) \ DOMAIN rbuf : ReadCopy(k)
    \/ ReadPublish
    \/ ViewEnd
    \/ FlushLoad
    \/ FlushStore
    \/ queue_contents

-----------------------------------------------------------------------------
Next == WriterNext \/ ReaderNext
Spec == Init /\ [][Next]_vars

Reading == rpc \in {"read", "view", "discard"}

TypeOK ==
    /\ data \in [Slots -> Octet]
    /\ iptr \in Slots /\ optr \in Slots
    /\ wpc \in {"idle", "copy"}
    /\ wi \in Slots /\ wo \in Slots
    /\ wbuf \in Seq(Octet)
    /\ wdone \subseteq DOMAIN wbuf
    /\ wspace \in {Unknown} \cup Slots
    /\ rpc \in {"idle", "read", "view", "discard", "flush"}
    /\ ri \in Slots /\ ro \in Slots
    /\ rn \in Slots
    /\ rbuf \in [DOMAIN rbuf -> Octet]
    /\ rcount \in {Unknown} \cup Slots

(* The octets between the two published pointers, oldest first.             *)
Wrap(x) == IF x >= QLen THEN x - QLen ELSE x
Queued  == [k \in 1 .. Contents(iptr, optr) |-> data[Wrap(optr + k - 1)]]
Given   == IF rpc = "idle" THEN rbuf ELSE <<>>

Fifo == INSTANCE QueueFifo
            WITH Capacity <- QLen - 1, q <- Queued, offered <- wbuf, got <- Given

\* The two threads of the lock free queue see one FIFO of octets: every
\* operation of queue.c, however its steps interleave with the other
\* thread's, takes effect at the store of the pointer (src/queue.c).
FifoRefinement == Fifo!Spec

\* While a block is being stored, none of its slots holds an octet the reader
\* has yet to take, and while a block is being copied out all of its slots do:
\* the pointer snapshots may be stale, but only to the safe side.
NoOverlap ==
    /\ wpc = "copy" => Len(wbuf) <= FreeSpace(iptr, optr)
    /\ Reading => rn <= Contents(iptr, optr)
    /\ wpc = "copy" /\ rpc \in {"read", "view"} =>
          {WriteSlot(k) : k \in DOMAIN wbuf} \cap {ReadSlot(k) : k \in 1 .. rn} = {}

\* The space or contents a thread was told of (dtmf_tx_put and v8 test it
\* before they act) is still there when it acts on it, whatever the other
\* thread has done meanwhile.
ReportsStayValid ==
    /\ wspace <= FreeSpace(iptr, optr)
    /\ rcount <= Contents(iptr, optr)

\* What the writing thread relies on: its own pointer is where it left it, the
\* room of its snapshot is no more than there is now, and the octets it has
\* stored stay as it stored them until it publishes them.
WriterInv ==
    /\ wpc = "idle" => wbuf = <<>> /\ wdone = {}
    /\ wpc = "copy" =>
          /\ wi = iptr /\ wspace = Unknown
          /\ Len(wbuf) \in 1 .. FreeSpace(wi, wo)
          /\ FreeSpace(wi, wo) <= FreeSpace(iptr, optr)
          /\ \A k \in wdone : data[Wrap(wi + k - 1)] = wbuf[k]

\* What the reading thread relies on: its own pointer is where it left it, the
\* octets of its snapshot are still queued, and those it has copied are the
\* ones that were queued.
ReaderInv ==
    /\ Reading =>
          /\ ro = optr
          /\ rn \in 1 .. Contents(ri, ro)
          /\ Contents(ri, ro) <= Contents(iptr, optr)
          /\ DOMAIN rbuf \subseteq 1 .. rn
          /\ \A k \in DOMAIN rbuf : rbuf[k] = data[Wrap(ro + k - 1)]
    /\ rpc = "flush" => Contents(ri, optr) <= Contents(iptr, optr)
    /\ rpc \in {"discard", "flush"} => rbuf = <<>>
    /\ rpc # "idle" => rcount = Unknown

\* The inductive invariant: each thread's view of the shared queue stays valid
\* under the steps of the other.
QueueInv == TypeOK /\ WriterInv /\ ReaderInv /\ ReportsStayValid
=============================================================================

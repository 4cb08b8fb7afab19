------------------------------ MODULE QueueMsg ------------------------------
(***************************************************************************)
(* The message functions of src/queue.c, over the octet queue of Queue.    *)
(* A message is stored as one block: its length as a 16 bit little endian  *)
(* integer, then its octets.  It is read in pieces, the length first, with *)
(* the writing thread free to run between the pieces.                      *)
(***************************************************************************)
EXTENDS Queue, SequencesExt, FiniteSetsExt

CONSTANTS Base,      \* number of octet values: 256 in the code, 16 bits being Base^2
          Messages   \* what the writer may send

ASSUME MsgAssumption ==
    /\ Base \in Nat \ {0} /\ Octet = 0 .. Base - 1
    /\ \A m \in Messages : m \in Seq(Octet) /\ Len(m) < Base * Base   \* lenx is a uint16_t

VARIABLES
    mpc,     \* where queue_read_msg or queue_state_test_msg has got to
    mlen,    \* the len given to queue_read_msg
    mrest,   \* octets of the message it will still have to discard
    mgot,    \* what the last queue_read_msg returned, <<>> while one runs
    mtest,   \* what queue_state_test_msg last said, until the reader acts again
    msgs,    \* history: the messages written and not yet read, oldest first
    mflush   \* history: how many of them a flush under way will drop

msgVars == <<mpc, mlen, mrest, mgot, mtest, msgs, mflush>>

\* Fault: the longer for the shorter.
LongerOf(a, b)  == IF a < b THEN b ELSE a

Header(m)  == <<Len(m) % Base, (Len(m) \div Base) % Base>>   \* lenx = (uint16_t) len
Encode(m)  == Header(m) \o m
Lenx       == rbuf[1] + Base * rbuf[2]
ShorterOf(a, b) == IF a < b THEN a ELSE b
Rest(q)         == IF q = <<>> THEN <<>> ELSE Tail(q)

MsgInit ==
    /\ Init
    /\ mpc = "idle" /\ mlen = 0 /\ mrest = 0 /\ mgot = <<>>
    /\ mtest = Unknown /\ msgs = <<>> /\ mflush = 0

-----------------------------------------------------------------------------
\* The message is refused unless all of it fits.
queue_write_msg(m) ==
    /\ FreeSpace(iptr, optr) >= Len(m) + 2
    /\ StartWrite(Encode(m))
    /\ UNCHANGED msgVars

MsgWriteCopy == (\E k \in DOMAIN wbuf \ wdone : WriteCopy(k)) /\ UNCHANGED msgVars

MsgWritePublish ==
    /\ WritePublish
    /\ msgs' = Append(msgs, SubSeq(wbuf, 3, Len(wbuf)))
    /\ UNCHANGED <<mpc, mlen, mrest, mgot, mtest, mflush>>

-----------------------------------------------------------------------------
\* First piece: the length.
queue_read_msg(len) ==
    /\ mpc = "idle"
    /\ StartRead("read", 2)
    /\ mpc' = "header"
    /\ mlen' = len
    /\ mgot' = <<>>
    /\ mtest' = Unknown
    /\ UNCHANGED <<mrest, msgs, mflush>>

queue_state_test_msg ==
    /\ mpc = "idle"
    /\ StartRead("view", 2)
    /\ mpc' = "test"
    /\ mtest' = Unknown
    /\ UNCHANGED <<mlen, mrest, mgot, msgs, mflush>>

MsgReadCopy == (\E k \in (1 .. rn) \ DOMAIN rbuf : ReadCopy(k)) /\ UNCHANGED msgVars

\* A call is over: its locals go, and the message it was reading is gone.
Return(got) ==
    /\ mpc' = "idle" /\ mlen' = 0 /\ mrest' = 0
    /\ mgot' = got
    /\ msgs' = Rest(msgs)
    /\ UNCHANGED <<mtest, mflush>>

\* The length is in: it says how much to read, and how much to discard.  An
\* empty message is complete, and a caller with no room reads nothing.
HeaderDone ==
    /\ mpc = "header"
    /\ ReadPublish
    /\ IF rn # 2 \/ Lenx = 0
       THEN Return(<<>>)
       ELSE /\ mpc' = IF mlen = 0 THEN "discard" ELSE "body"
            /\ mlen' = ShorterOf(Lenx, mlen)
            /\ mrest' = Lenx - ShorterOf(Lenx, mlen)
            /\ UNCHANGED <<mgot, mtest, msgs, mflush>>

\* A piece after the length: asked for as one block, and taken as found.
NextPiece(op, len) ==
    IF Contents(iptr, optr) < len
    THEN /\ mpc' = "idle" /\ mlen' = 0 /\ mrest' = 0 /\ msgs' = Rest(msgs)
         /\ UNCHANGED <<vars, mgot, mtest, mflush>>
    ELSE StartRead(op, len) /\ UNCHANGED msgVars

ReadBody    == mpc = "body"    /\ rpc = "idle" /\ NextPiece("read", mlen)
DiscardRest == mpc = "discard" /\ rpc = "idle" /\ NextPiece("discard", mrest)

\* Fault: what does not fit the caller's buffer is left in the queue.
BodyDoneKeepingRest == mpc = "body" /\ ReadPublish /\ Return(rbuf)

BodyDone ==
    /\ mpc = "body"
    /\ ReadPublish
    /\ IF mrest = 0
       THEN Return(rbuf)
       ELSE /\ mpc' = "discard"
            /\ mgot' = rbuf
            /\ UNCHANGED <<mlen, mrest, mtest, msgs, mflush>>

DiscardDone == mpc = "discard" /\ ReadPublish /\ Return(mgot)

TestDone ==
    /\ mpc = "test"
    /\ ViewEnd
    /\ mtest' = IF rn = 2 THEN Lenx ELSE Unknown
    /\ mpc' = "idle"
    /\ UNCHANGED <<mlen, mrest, mgot, msgs, mflush>>

\* T.31 flushes its receive queue, from the side that reads it.
MsgFlushLoad ==
    /\ mpc = "idle"
    /\ FlushLoad
    /\ mtest' = Unknown
    /\ mgot' = <<>>
    /\ mpc' = "flush"
    /\ mflush' = Len(msgs)
    /\ UNCHANGED <<mlen, mrest, msgs>>

MsgFlushStore ==
    /\ FlushStore
    /\ mpc' = "idle"
    /\ mflush' = 0
    /\ msgs' = SubSeq(msgs, mflush + 1, Len(msgs))
    /\ UNCHANGED <<mlen, mrest, mgot, mtest>>

MsgNext ==
    \/ \E m \in Messages : queue_write_msg(m)
    \/ MsgWriteCopy
    \/ MsgWritePublish
    \/ \E len \in 0 .. MaxReq : queue_read_msg(len)
    \/ queue_state_test_msg
    \/ MsgReadCopy
    \/ HeaderDone \/ ReadBody \/ BodyDone \/ DiscardRest \/ DiscardDone
    \/ TestDone
    \/ MsgFlushLoad \/ MsgFlushStore

MsgSpec == MsgInit /\ [][MsgNext]_<<vars, msgVars>>

-----------------------------------------------------------------------------
MsgTypeOK ==
    /\ TypeOK
    /\ mpc \in {"idle", "test", "header", "body", "discard", "flush"}
    /\ mlen \in Nat /\ mrest \in Nat
    /\ mgot \in Seq(Octet)
    /\ mtest \in {Unknown} \cup Nat
    /\ msgs \in Seq(Seq(Octet))
    /\ mflush \in 0 .. Len(msgs)

\* queue_read_msg returns the oldest message, cut to the length of the buffer
\* of the call, and takes all of that message and no other off the queue.
ReadMsgReturnsOldest ==
    [][mpc' = "idle" /\ mpc \in {"body", "discard"} =>
          /\ msgs # <<>>
          /\ mlen + mrest = Len(msgs[1])
          /\ mlen <= Len(msgs[1]) /\ Len(mgot') = mlen
          /\ mgot' = SubSeq(msgs[1], 1, mlen)]_<<vars, msgVars>>

\* Between calls of the reader the queue holds whole messages and nothing
\* else: no read, truncation, discard or flush loses the framing, wherever the
\* length and the octets of a message wrap (queue_read_msg, queue_write_msg).
WholeMessages == mpc = "idle" => Queued = FlattenSeq([i \in DOMAIN msgs |-> Encode(msgs[i])])

\* The length queue_state_test_msg gave is still that of the message at the
\* head when the reader next acts, whatever the writer has added.
TestStaysTrue == mtest # Unknown => msgs # <<>> /\ mtest = Len(msgs[1])

\* The octets in the queue are those of the messages the callers know of:
\* between the reader's calls, and between a test and the read it is for.
Framing == WholeMessages /\ TestStaysTrue
=============================================================================

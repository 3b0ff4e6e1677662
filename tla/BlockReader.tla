----------------------------- MODULE BlockReader ----------------------------
(***************************************************************************)
(* wire/block_reader.go: the queue between a connection's read loop, which *)
(* calls Enqueue, and the goroutine that reads a stream with TryRead and   *)
(* Read.  internalClose is called by the read loop (a RESET_STREAM frame)  *)
(* and by the application (Stream.Reset).                                  *)
(*                                                                         *)
(* A block is the interval [from, to) of offsets of its bytes in the       *)
(* stream, so a lost, repeated or reordered byte shows as a wrong offset.  *)
(* Read loop and reader are one goroutine each.  A critical section that   *)
(* cannot block is one step; the one that can is Enqueue's, which sends on *)
(* the channel while holding closedMu.                                     *)
(***************************************************************************)
EXTENDS Naturals, Sequences

CONSTANTS
  Cap,       \* capacity of the channel r.blocks (128 in the code)
  Lens,      \* payload lengths given to Enqueue
  Intos,     \* lengths of the buffers given to TryRead and Read
  MaxBytes   \* bound on the bytes accepted

ASSUME CapAssumption == Cap \in Nat \ {0}
ASSUME LensAssumption == Lens \subseteq Nat
ASSUME IntosAssumption == Intos \subseteq Nat
ASSUME MaxBytesAssumption == MaxBytes \in Nat

VARIABLES
  blocks,    \* contents of the channel r.blocks
  buf,       \* r.buf; clearBuffer turns an empty slice into nil, so nil = empty
  closed,    \* r.closed; the channel is closed in the same critical section
  closedMu,  \* r.closedMu is held across steps
  sending,   \* the block a parked Enqueue is sending, or Nothing
  reader,    \* the reader's call: where it is, which one, len(into)
  accepted,  \* bytes that entered r.blocks (history)
  got,       \* bytes copied out to the reader (history)
  result     \* outcome of the reader's last call

vars == <<blocks, buf, closed, closedMu, sending, reader, accepted, got, result>>

\* The mapping is the identity: the history variables are ByteStream's state.
Abstract == INSTANCE ByteStream WITH
  accepted <- accepted, got <- got, closed <- closed, result <- result

Interval == [from : Nat, to : Nat]
Nothing == [from |-> 0, to |-> 0]
IsNil(b) == b.from = b.to
Size(b) == b.to - b.from

\* A send on r.blocks does not block.
HasRoom == Len(blocks) < Cap

Idle == [at |-> "idle", op |-> "none", n |-> 0]

Init ==
  /\ blocks = <<>>
  /\ buf = Nothing
  /\ closed = FALSE
  /\ closedMu = FALSE
  /\ sending = Nothing
  /\ reader = Idle
  /\ accepted = 0
  /\ got = 0
  /\ result = Abstract!NoResult

---------------------------------------------------------------------------
\* The read loop.

InternalCloseUnlocked ==
  /\ ~closed
  /\ closed' = TRUE
  /\ UNCHANGED <<blocks, buf, closedMu, sending, reader, accepted, got, result>>

\* internalClose and Close.  A second call finds r.closed and changes nothing.
InternalClose ==
  /\ ~closedMu
  /\ ~closed
  /\ closed' = TRUE
  /\ UNCHANGED <<blocks, buf, closedMu, sending, reader, accepted, got, result>>

\* Enqueue of len bytes: an empty block, or any block once closed, is dropped
\* without a change.  With the channel full the goroutine parks in the send
\* and keeps closedMu.
Enqueue(len) ==
  /\ len # 0
  /\ ~closedMu
  /\ ~closed
  /\ accepted + len <= MaxBytes
  /\ LET b == [from |-> accepted, to |-> accepted + len]
     IN  \/ /\ HasRoom
            /\ blocks' = Append(blocks, b)
            /\ accepted' = b.to
            /\ UNCHANGED <<closedMu, sending>>
         \/ /\ ~HasRoom
            /\ sending' = b
            /\ closedMu' = TRUE
            /\ UNCHANGED <<blocks, accepted>>
  /\ UNCHANGED <<buf, closed, reader, got, result>>

\* The parked send finds room, Enqueue returns and releases closedMu.
EnqueueResume ==
  /\ ~IsNil(sending)
  /\ HasRoom
  /\ blocks' = Append(blocks, sending)
  /\ accepted' = sending.to
  /\ sending' = Nothing
  /\ closedMu' = FALSE
  /\ UNCHANGED <<buf, closed, reader, got, result>>

---------------------------------------------------------------------------
\* The reader.

CopyOutDropsRest(b, n) ==
  LET k == IF Size(b) >= n THEN n ELSE Size(b)
  IN  /\ buf' = [from |-> b.to, to |-> b.to]
      /\ got' = got + k
      /\ result' = Abstract!Bytes(b.from, k)
      /\ reader' = Idle

CopyOutRepeats(b, n) ==
  LET k == IF Size(b) >= n THEN n ELSE Size(b)
  IN  /\ buf' = IF k = n THEN b ELSE [from |-> b.to, to |-> b.to]
      /\ got' = got + k
      /\ result' = Abstract!Bytes(b.from, k)
      /\ reader' = Idle

\* Copy min(len(b), n) bytes, keep the rest in r.buf, return.
CopyOut(b, n) ==
  LET k == IF Size(b) >= n THEN n ELSE Size(b)
  IN  /\ buf' = [from |-> b.from + k, to |-> b.to]
      /\ got' = got + k
      /\ result' = Abstract!Bytes(b.from, k)
      /\ reader' = Idle

Return(r) ==
  /\ result' = r
  /\ reader' = Idle
  /\ UNCHANGED <<buf, got>>

\* Entry of TryRead and Read: bytes left in r.buf are served without a lock.
Call(op, n) ==
  /\ reader.at = "idle"
  /\ \/ ~IsNil(buf) /\ CopyOut(buf, n)
     \/ /\ IsNil(buf)
        /\ reader' = [at |-> "lock", op |-> op, n |-> n]
        /\ UNCHANGED <<buf, got, result>>
  /\ UNCHANGED <<blocks, closed, closedMu, sending, accepted>>

CheckClosedUnlocked ==
  /\ reader.at = "lock"
  /\ \/ closed /\ Return(Abstract!EOF)
     \/ /\ ~closed
        /\ reader' = [reader EXCEPT !.at = "recv"]
        /\ UNCHANGED <<buf, got, result>>
  /\ UNCHANGED <<blocks, closed, closedMu, sending, accepted>>

\* The check of r.closed under closedMu, released before the receive.
CheckClosed ==
  /\ reader.at = "lock"
  /\ ~closedMu
  /\ \/ closed /\ Return(Abstract!EOF)
     \/ /\ ~closed
        /\ reader' = [reader EXCEPT !.at = "recv"]
        /\ UNCHANGED <<buf, got, result>>
  /\ UNCHANGED <<blocks, closed, closedMu, sending, accepted>>

\* The receive: a closed and drained channel yields nil.  On an empty open
\* channel TryRead returns (false, 0, nil) and Read stays blocked.
Receive ==
  /\ reader.at = "recv"
  /\ \/ /\ blocks # <<>>
        /\ CopyOut(Head(blocks), reader.n)
        /\ blocks' = Tail(blocks)
     \/ blocks = <<>> /\ closed /\ Return(Abstract!EOF) /\ UNCHANGED blocks
     \/ /\ blocks = <<>> /\ ~closed /\ reader.op = "TryRead"
        /\ Return(Abstract!Again)
        /\ UNCHANGED blocks
  /\ UNCHANGED <<closed, closedMu, sending, accepted>>

---------------------------------------------------------------------------
ReaderCalls(lens) == \E op \in {"TryRead", "Read"}, n \in lens : Call(op, n)

Next ==
  \/ \E len \in Lens : Enqueue(len)
  \/ EnqueueResume
  \/ InternalClose
  \/ ReaderCalls(Intos)
  \/ CheckClosed
  \/ Receive

Spec == Init /\ [][Next]_vars

\* A goroutine that can run does run, and the application keeps reading.
\* Nothing is assumed of the peer: it need not send, nor close.
Fairness ==
  /\ WF_vars(EnqueueResume)
  /\ WF_vars(CheckClosed)
  /\ WF_vars(Receive)
  /\ WF_vars(ReaderCalls(Intos \ {0}))

FairSpec == Spec /\ Fairness

---------------------------------------------------------------------------
TypeOK ==
  /\ blocks \in Seq(Interval)
  /\ Len(blocks) <= Cap
  /\ buf \in Interval
  /\ closed \in BOOLEAN
  /\ closedMu \in BOOLEAN
  /\ sending \in Interval
  /\ reader \in [at : {"idle", "lock", "recv"},
                 op : {"none", "TryRead", "Read"}, n : Nat]
  /\ accepted \in Nat
  /\ got \in Nat
  /\ result \in [kind : {"none", "data", "eof", "again"}, from : Nat, n : Nat]

\* No byte is lost, repeated or reordered between Enqueue and the reader:
\* r.buf, then the blocks of the channel, hold exactly the accepted bytes the
\* reader has not had yet, in order, and a parked block comes right after.
Contiguous ==
  /\ buf.from <= buf.to
  /\ ~IsNil(buf) => buf.from = got
  /\ LET next == IF IsNil(buf) THEN got ELSE buf.to
     IN  IF blocks = <<>> THEN next = accepted
         ELSE blocks[1].from = next /\ blocks[Len(blocks)].to = accepted
  /\ \A i \in 1 .. Len(blocks) : blocks[i].from < blocks[i].to
  /\ \A i \in 1 .. Len(blocks) - 1 : blocks[i].to = blocks[i + 1].from
  /\ ~IsNil(sending) => sending.from = accepted /\ sending.from < sending.to

\* A parked Enqueue never has its channel closed under it (that send would
\* panic): it holds closedMu, which internalClose needs.
NoSendOnClosed == ~IsNil(sending) => closedMu /\ ~closed

\* The channel is full, Enqueue is parked in the send holding closedMu, and
\* the reader has nothing in r.buf and has not passed its check of r.closed.
Wedged ==
  /\ ~IsNil(sending)
  /\ Len(blocks) = Cap
  /\ IsNil(buf)
  /\ reader.at \in {"idle", "lock"}

\* Once wedged, always wedged: the reader waits for the mutex of the Enqueue
\* that waits for the reader, and internalClose waits for both.
WedgeIsPermanent == [][Wedged => Wedged']_vars

\* The reader's view of the whole is the abstract byte stream.
ImplementsByteStream == Abstract!Spec

\* What Enqueue took in, a reader that keeps reading gets, unless the stream
\* is closed or the queue wedged first: nothing else loses a wakeup.
ReadUnlessWedged ==
  \A k \in 1 .. MaxBytes : accepted >= k ~> (got >= k \/ closed \/ Wedged)

\* "receiving data enqueues it for reading" (stream_test.go), false of this
\* code: what Enqueue took in, a reader that keeps reading gets, unless the
\* stream is closed first.
EnqueuedIsRead ==
  \A k \in 1 .. MaxBytes : accepted >= k ~> (got >= k \/ closed)
=============================================================================

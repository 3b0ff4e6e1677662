------------------------- MODULE BlockReaderProofs --------------------------
(***************************************************************************)
(* Proofs about BlockReader for every capacity, every set of block lengths *)
(* and every set of read lengths.                                          *)
(***************************************************************************)
EXTENDS BlockReader, TLAPS

USE DEF HasRoom

\* The inductive invariant.  Contiguous alone is not inductive: a call under
\* way must find r.buf nil, or Receive would overwrite bytes not read yet;
\* closedMu must be held by the parked Enqueue only; and no block may reach
\* past what was accepted.  QueueOK is about the channel's contents, RestOK
\* about everything else.
QueueOK ==
  /\ blocks \in Seq(Interval) /\ Len(blocks) <= Cap
  /\ LET next == IF IsNil(buf) THEN got ELSE buf.to
     IN  IF blocks = <<>> THEN next = accepted
         ELSE blocks[1].from = next /\ blocks[Len(blocks)].to = accepted
  /\ \A i \in 1 .. Len(blocks) : blocks[i].from < blocks[i].to
  /\ \A i \in 1 .. Len(blocks) - 1 : blocks[i].to = blocks[i + 1].from
  /\ \A i \in 1 .. Len(blocks) : blocks[i].to <= accepted

RestOK ==
  /\ buf \in Interval /\ buf.from <= buf.to
  /\ closed \in BOOLEAN /\ closedMu \in BOOLEAN
  /\ sending \in Interval
  /\ reader \in [at : {"idle", "lock", "recv"},
                 op : {"none", "TryRead", "Read"}, n : Nat]
  /\ accepted \in Nat /\ got \in Nat
  /\ result \in [kind : {"none", "data", "eof", "again"}, from : Nat, n : Nat]
  /\ ~IsNil(buf) => buf.from = got /\ buf.to <= accepted
  /\ ~IsNil(sending) => /\ sending.from = accepted /\ sending.from < sending.to
                        /\ sending.to <= MaxBytes
                        /\ closedMu /\ ~closed
  /\ closedMu => ~IsNil(sending)
  /\ reader.at # "idle" => IsNil(buf)
  /\ got <= accepted /\ accepted <= MaxBytes

IInv == QueueOK /\ RestOK

\* A new block reader (NewBlockReader) satisfies the invariant.
LEMMA InitIInv == Init => IInv
<1> SUFFICES ASSUME Init PROVE IInv
  OBVIOUS
<1>1. QueueOK
  <2>1. blocks \in Seq(Interval) /\ Len(blocks) = 0
    BY DEF Init
  <2> QED BY <2>1, CapAssumption DEF Init, QueueOK, Nothing, IsNil
<1>2. RestOK
  <2>1. /\ buf \in Interval /\ sending \in Interval
        /\ IsNil(buf) /\ IsNil(sending) /\ buf.from <= buf.to
    BY DEF Init, Nothing, Interval, IsNil
  <2>2. /\ reader \in [at : {"idle", "lock", "recv"},
                       op : {"none", "TryRead", "Read"}, n : Nat]
        /\ reader.at = "idle"
    BY DEF Init, Idle
  <2>3. result \in [kind : {"none", "data", "eof", "again"}, from : Nat, n : Nat]
    BY DEF Init, Abstract!NoResult
  <2>4. closed \in BOOLEAN /\ closedMu \in BOOLEAN /\ ~closedMu
    BY Zenon DEF Init
  <2>5. /\ accepted \in Nat /\ got \in Nat
        /\ got <= accepted /\ accepted <= MaxBytes
    BY MaxBytesAssumption DEF Init
  <2> QED BY <2>1, <2>2, <2>3, <2>4, <2>5 DEF RestOK
<1> QED BY <1>1, <1>2 DEF IInv

\* The inductive invariant contains the invariants the runs check.
LEMMA IInvImplies == IInv => TypeOK /\ Contiguous /\ NoSendOnClosed
  BY DEF IInv, QueueOK, RestOK, TypeOK, Contiguous, NoSendOnClosed

\* Appending the block that starts at offset accepted (Enqueue and the send
\* of a parked Enqueue) keeps the channel's contents contiguous.
LEMMA AppendStep ==
  ASSUME IInv, NEW b \in Interval, b.from = accepted, b.from < b.to,
         Len(blocks) < Cap, blocks' = Append(blocks, b), accepted' = b.to,
         UNCHANGED <<buf, got>>
  PROVE  QueueOK'
<1>1. /\ blocks \in Seq(Interval) /\ Len(blocks) \in Nat
      /\ accepted \in Nat /\ Cap \in Nat
  BY CapAssumption DEF IInv, QueueOK, RestOK
<1>2. /\ blocks' \in Seq(Interval)
      /\ Len(blocks') = Len(blocks) + 1
      /\ \A i \in 1 .. Len(blocks) : blocks'[i] = blocks[i]
      /\ blocks'[Len(blocks) + 1] = b
      /\ blocks' # <<>>
  BY <1>1
<1>3. \A i \in 1 .. Len(blocks) : blocks[i] \in Interval
  BY <1>1
<1>4. CASE blocks = <<>>
  BY <1>1, <1>2, <1>4 DEF IInv, QueueOK, RestOK, IsNil, Interval
<1>5. CASE blocks # <<>>
  <2>1. Len(blocks) >= 1
    BY <1>1, <1>5
  <2>2. blocks'[1].from = (IF IsNil(buf') THEN got' ELSE buf'.to)
    BY <1>2, <1>5, <2>1 DEF IInv, QueueOK, IsNil
  <2>3. \A i \in 1 .. Len(blocks') : /\ blocks'[i].from < blocks'[i].to
                                     /\ blocks'[i].to <= accepted'
    BY <1>1, <1>2, <1>3 DEF IInv, QueueOK, Interval
  <2>4. \A i \in 1 .. Len(blocks') - 1 : blocks'[i].to = blocks'[i + 1].from
    <3> SUFFICES ASSUME NEW i \in 1 .. Len(blocks)
                 PROVE  blocks'[i].to = blocks'[i + 1].from
      BY <1>1, <1>2
    <3>1. CASE i = Len(blocks)
      BY <1>1, <1>2, <1>5, <3>1 DEF IInv, QueueOK
    <3>2. CASE i # Len(blocks)
      BY <1>1, <1>2, <3>2 DEF IInv, QueueOK
    <3> QED BY <3>1, <3>2
  <2>5. blocks'[Len(blocks')].to = accepted' /\ Len(blocks') <= Cap
    BY <1>1, <1>2
  <2> QED BY <1>2, <2>2, <2>3, <2>4, <2>5 DEF QueueOK
<1> QED BY <1>4, <1>5

\* Receiving the first block (Receive) and copying k of its bytes keeps the
\* remaining contents contiguous with what stays in r.buf.
LEMMA TailStep ==
  ASSUME IInv, IsNil(buf), blocks # <<>>, NEW k \in Nat,
         k <= Size(Head(blocks)),
         buf' = [from |-> Head(blocks).from + k, to |-> Head(blocks).to],
         got' = got + k, blocks' = Tail(blocks), accepted' = accepted
  PROVE  /\ QueueOK'
         /\ Head(blocks) \in Interval /\ Head(blocks).from = got
         /\ Head(blocks).to <= accepted /\ got + k <= accepted
<1>1. /\ blocks \in Seq(Interval) /\ Len(blocks) \in Nat /\ Len(blocks) >= 1
      /\ accepted \in Nat /\ Cap \in Nat /\ got \in Nat
  BY CapAssumption DEF IInv, QueueOK, RestOK
<1>2. /\ blocks' \in Seq(Interval)
      /\ Len(blocks') = Len(blocks) - 1
      /\ \A i \in 1 .. Len(blocks') : blocks'[i] = blocks[i + 1]
      /\ Head(blocks) = blocks[1]
  BY <1>1
<1>3. \A i \in 1 .. Len(blocks) : blocks[i] \in Interval
  BY <1>1
<1>4. /\ blocks[1].from = got
      /\ blocks[Len(blocks)].to = accepted
      /\ \A i \in 1 .. Len(blocks) : /\ blocks[i].from < blocks[i].to
                                     /\ blocks[i].to <= accepted
      /\ \A i \in 1 .. Len(blocks) - 1 : blocks[i].to = blocks[i + 1].from
  BY <1>1 DEF IInv, QueueOK
<1>5. /\ Head(blocks) \in Interval /\ Head(blocks).from = got
      /\ Head(blocks).to <= accepted /\ got + k <= accepted
  BY <1>1, <1>2, <1>3, <1>4 DEF Size, Interval
<1>6. (IF IsNil(buf') THEN got' ELSE buf'.to) = Head(blocks).to
  BY <1>1, <1>2, <1>3, <1>4 DEF IsNil, Size, Interval
<1>7. IF blocks' = <<>> THEN Head(blocks).to = accepted'
      ELSE /\ blocks'[1].from = Head(blocks).to
           /\ blocks'[Len(blocks')].to = accepted'
  <2>1. CASE Len(blocks) = 1
    BY <1>1, <1>2, <1>4, <2>1
  <2>2. CASE Len(blocks) # 1
    <3>1. 1 \in 1 .. Len(blocks) - 1 /\ 1 \in 1 .. Len(blocks')
      BY <1>1, <1>2, <2>2
    <3>2. blocks'[1].from = Head(blocks).to
      BY <1>2, <1>4, <3>1
    <3>3. Len(blocks') \in 1 .. Len(blocks') /\ Len(blocks') + 1 = Len(blocks)
      BY <1>1, <1>2, <2>2
    <3>4. blocks'[Len(blocks')].to = accepted'
      BY <1>2, <1>4, <3>3
    <3>5. blocks' # <<>>
      <4>1. Len(blocks') # 0
        BY <1>1, <1>2, <2>2
      <4> QED BY <4>1
    <3> QED BY <3>2, <3>4, <3>5
  <2> QED BY <2>1, <2>2
<1>8. /\ \A i \in 1 .. Len(blocks') : /\ blocks'[i].from < blocks'[i].to
                                      /\ blocks'[i].to <= accepted'
      /\ \A i \in 1 .. Len(blocks') - 1 : blocks'[i].to = blocks'[i + 1].from
  BY <1>1, <1>2, <1>4
<1>9. Len(blocks') <= Cap
  BY <1>1, <1>2 DEF IInv, QueueOK, RestOK
<1> QED BY <1>2, <1>5, <1>6, <1>7, <1>8, <1>9 DEF QueueOK

\* Every step of Enqueue, TryRead, Read and Close preserves the invariant.
LEMMA IInvStep == IInv /\ [Next]_vars => IInv'
<1> SUFFICES ASSUME IInv, [Next]_vars PROVE QueueOK' /\ RestOK'
  BY DEF IInv
<1> USE CapAssumption, MaxBytesAssumption, LensAssumption, IntosAssumption
<1>q. QueueOK /\ RestOK
  BY DEF IInv
<1>1. ASSUME NEW len \in Lens, Enqueue(len) PROVE QueueOK' /\ RestOK'
  <2> DEFINE b == [from |-> accepted, to |-> accepted + len]
  <2>1. /\ b \in Interval /\ b.from = accepted /\ b.from < b.to
        /\ b.to = accepted + len /\ len \in Nat /\ b.to <= MaxBytes
    BY <1>1, <1>q DEF Enqueue, RestOK, Interval
  <2>2. CASE Len(blocks) < Cap
    <3>1. /\ blocks' = Append(blocks, b) /\ accepted' = b.to
          /\ UNCHANGED <<buf, got>>
      BY <1>1, <1>q, <2>2 DEF Enqueue, QueueOK
    <3>2. QueueOK'
      <4> HIDE DEF b
      <4> QED BY <2>1, <2>2, <3>1, AppendStep
    <3>3. RestOK'
      <4>1. UNCHANGED <<closedMu, sending>>
        BY <1>1, <1>q, <2>2 DEF Enqueue, QueueOK
      <4>2. IsNil(sending)
        BY <1>1, <1>q DEF Enqueue, RestOK
      <4> HIDE DEF b
      <4>3. accepted' \in Nat /\ accepted <= accepted' /\ accepted' <= MaxBytes
        BY <1>q, <2>1, <3>1 DEF RestOK, Interval
      <4>4. ~IsNil(buf) => buf.to <= accepted'
        BY <1>q, <4>3 DEF RestOK, Interval
      <4>5. got <= accepted'
        BY <1>q, <4>3 DEF RestOK
      <4> QED BY <1>1, <1>q, <3>1, <4>1, <4>2, <4>3, <4>4, <4>5
                 DEF Enqueue, RestOK, IsNil
    <3> QED BY <3>2, <3>3
  <2>3. CASE ~(Len(blocks) < Cap)
    <3>1. sending' = b /\ closedMu' = TRUE /\ UNCHANGED <<blocks, accepted>>
      BY <1>1, <2>3 DEF Enqueue
    <3>2. QueueOK'
      BY <1>1, <1>q, <3>1 DEF Enqueue, QueueOK
    <3> HIDE DEF b
    <3>3. RestOK'
      BY <1>1, <1>q, <2>1, <3>1 DEF Enqueue, RestOK, IsNil
    <3> QED BY <3>2, <3>3
  <2> QED BY <2>2, <2>3
<1>2. CASE EnqueueResume
  <2>1. QueueOK'
    BY <1>2, <1>q, AppendStep DEF EnqueueResume, RestOK, IsNil
  <2>2. accepted' \in Nat /\ accepted <= accepted' /\ accepted' <= MaxBytes
    BY <1>2, <1>q DEF EnqueueResume, RestOK, Interval
  <2>3. ~IsNil(buf) => buf.to <= accepted'
    BY <1>q, <2>2 DEF RestOK, Interval
  <2>4. got <= accepted'
    BY <1>q, <2>2 DEF RestOK
  <2>5. sending' \in Interval /\ IsNil(sending')
    BY <1>2 DEF EnqueueResume, Nothing, IsNil, Interval
  <2>6. RestOK'
    BY <1>2, <1>q, <2>2, <2>3, <2>4, <2>5 DEF EnqueueResume, RestOK, IsNil
  <2> QED BY <2>1, <2>6
<1>3. CASE InternalClose
  BY <1>3, <1>q DEF InternalClose, QueueOK, RestOK
<1>4. ASSUME NEW op \in {"TryRead", "Read"}, NEW n \in Intos, Call(op, n)
      PROVE QueueOK' /\ RestOK'
  <2>1. CASE IsNil(buf)
    BY <1>4, <1>q, <2>1 DEF Call, QueueOK, RestOK
  <2>2. CASE ~IsNil(buf)
    <3> DEFINE k == IF Size(buf) >= n THEN n ELSE Size(buf)
    <3>1. k \in Nat /\ k <= Size(buf) /\ n \in Nat
      BY <1>q DEF RestOK, Interval, Size
    <3>2. /\ buf' = [from |-> buf.from + k, to |-> buf.to]
          /\ got' = got + k
          /\ result' = Abstract!Bytes(buf.from, k)
          /\ reader' = Idle
          /\ UNCHANGED <<blocks, closed, closedMu, sending, accepted>>
      BY <1>4, <2>2 DEF Call, CopyOut
    <3> HIDE DEF k
    <3>3. QueueOK'
      BY <1>q, <2>2, <3>1, <3>2 DEF QueueOK, RestOK, IsNil, Size, Interval
    <3>4. RestOK'
      BY <1>q, <2>2, <3>1, <3>2
         DEF RestOK, IsNil, Size, Interval, Idle, Abstract!Bytes
    <3> QED BY <3>3, <3>4
  <2> QED BY <2>1, <2>2
<1>5. CASE CheckClosed
  BY <1>5, <1>q DEF CheckClosed, Return, QueueOK, RestOK, Idle, Abstract!EOF
<1>6. CASE Receive
  <2>1. IsNil(buf)
    BY <1>6, <1>q DEF Receive, RestOK
  <2>2. CASE blocks # <<>>
    <3> DEFINE b == Head(blocks)
               k == IF Size(b) >= reader.n THEN reader.n ELSE Size(b)
    <3>1. b \in Interval /\ b.from < b.to
      BY <1>q, <2>2 DEF QueueOK
    <3>2. k \in Nat /\ k <= Size(b)
      BY <1>q, <3>1 DEF RestOK, Interval, Size
    <3>3. /\ buf' = [from |-> b.from + k, to |-> b.to]
          /\ got' = got + k
          /\ result' = Abstract!Bytes(b.from, k)
          /\ reader' = Idle
          /\ blocks' = Tail(blocks)
          /\ UNCHANGED <<closed, closedMu, sending, accepted>>
      BY <1>6, <2>2 DEF Receive, CopyOut
    <3> HIDE DEF k
    <3>4. /\ QueueOK' /\ b.from = got /\ b.to <= accepted /\ got + k <= accepted
      BY <2>1, <2>2, <3>2, <3>3, TailStep
    <3> HIDE DEF b
    <3>5. RestOK'
      BY <1>q, <2>1, <3>1, <3>2, <3>3, <3>4
         DEF RestOK, IsNil, Size, Interval, Idle, Abstract!Bytes
    <3> QED BY <3>4, <3>5
  <2>3. CASE blocks = <<>>
    <3>1. /\ UNCHANGED <<buf, got, blocks, closed, closedMu, sending, accepted>>
          /\ reader' = Idle
          /\ result' \in {Abstract!EOF, Abstract!Again}
      BY <1>6, <2>3 DEF Receive, Return
    <3>2. QueueOK'
      BY <1>q, <3>1 DEF QueueOK
    <3>3. RestOK'
      BY <1>q, <3>1 DEF RestOK, Idle, Abstract!EOF, Abstract!Again
    <3> QED BY <3>2, <3>3
  <2> QED BY <2>2, <2>3
<1>7. CASE UNCHANGED vars
  BY <1>7, <1>q DEF vars, QueueOK, RestOK
<1> QED BY <1>1, <1>2, <1>3, <1>4, <1>5, <1>6, <1>7 DEF Next, ReaderCalls

\* The invariant holds of every reachable state of the block reader.
LEMMA Invariance == Spec => []IInv
  BY InitIInv, IInvStep, PTL DEF Spec

---------------------------------------------------------------------------
\* Every reachable state is well typed, for every capacity and every choice
\* of block and read lengths.
THEOREM TypeCorrect == Spec => []TypeOK
  BY Invariance, IInvImplies, PTL

\* The reader of a stream can lose, repeat or reorder no byte that Enqueue
\* accepted: r.buf and the channel hold the unread bytes, in order.
THEOREM ContiguousAlways == Spec => []Contiguous
  BY Invariance, IInvImplies, PTL

\* A parked Enqueue never panics on a channel closed by internalClose.
THEOREM NoSendOnClosedAlways == Spec => []NoSendOnClosed
  BY Invariance, IInvImplies, PTL

\* Once Enqueue is parked on a full channel while the reader has yet to take
\* closedMu, nothing any of the goroutines does can ever release them.
THEOREM WedgeForever == Spec => WedgeIsPermanent
<1>1. IInv /\ [Next]_vars => [Wedged => Wedged']_vars
  <2> SUFFICES ASSUME IInv, Next, Wedged PROVE Wedged'
    BY DEF vars
  <2>1. closedMu /\ Len(blocks) = Cap /\ Cap \in Nat /\ ~IsNil(sending) /\ IsNil(buf)
    BY CapAssumption DEF IInv, RestOK, Wedged
  <2>2. \A len \in Lens : ~Enqueue(len)
    BY <2>1 DEF Enqueue
  <2>3. ~EnqueueResume /\ ~InternalClose /\ ~CheckClosed
    BY <2>1 DEF EnqueueResume, InternalClose, CheckClosed
  <2>4. ~Receive
    BY DEF Receive, Wedged
  <2>5. PICK op \in {"TryRead", "Read"}, n \in Intos : Call(op, n)
    BY <2>2, <2>3, <2>4 DEF Next, ReaderCalls
  <2> QED BY <2>1, <2>5 DEF Call, Wedged, IsNil
<1> QED BY <1>1, Invariance, PTL DEF Spec, WedgeIsPermanent

\* BlockReader implements ByteStream: seen from its users, the locks, the
\* channel and the leftover buffer are a byte stream with a close.
THEOREM Refinement == Spec => ImplementsByteStream
<1>1. Init => Abstract!Init
  BY DEF Init, Abstract!Init
<1>2. IInv /\ [Next]_vars => [Abstract!Next]_(Abstract!vars)
  <2> SUFFICES ASSUME IInv, [Next]_vars PROVE [Abstract!Next]_(Abstract!vars)
    OBVIOUS
  <2> USE LensAssumption, IntosAssumption, MaxBytesAssumption
  <2>q. QueueOK /\ RestOK
    BY DEF IInv
  <2>1. ASSUME NEW len \in Lens, Enqueue(len) PROVE [Abstract!Next]_(Abstract!vars)
    <3>1. CASE Len(blocks) < Cap
      <4>1. Abstract!Put(len) /\ len \in 0 .. MaxBytes
        BY <2>1, <2>q, <3>1, CapAssumption
           DEF Enqueue, Abstract!Put, QueueOK, RestOK
      <4> QED BY <4>1 DEF Abstract!Next
    <3>2. CASE ~(Len(blocks) < Cap)
      BY <2>1, <3>2 DEF Enqueue, Abstract!vars
    <3> QED BY <3>1, <3>2
  <2>2. CASE EnqueueResume
    <3>1. /\ sending.to - sending.from \in 0 .. MaxBytes
          /\ sending.to = accepted + (sending.to - sending.from)
      BY <2>2, <2>q DEF EnqueueResume, RestOK, Interval
    <3>2. Abstract!Put(sending.to - sending.from)
      BY <2>2, <2>q, <3>1 DEF EnqueueResume, RestOK, Abstract!Put
    <3> QED BY <3>1, <3>2 DEF Abstract!Next
  <2>3. CASE InternalClose
    BY <2>3 DEF InternalClose, Abstract!Next, Abstract!Shut
  <2>4. ASSUME NEW op \in {"TryRead", "Read"}, NEW n \in Intos, Call(op, n)
        PROVE  [Abstract!Next]_(Abstract!vars)
    <3>1. CASE IsNil(buf)
      BY <2>4, <3>1 DEF Call, Abstract!vars
    <3>2. CASE ~IsNil(buf)
      <4> DEFINE k == IF Size(buf) >= n THEN n ELSE Size(buf)
      <4>1. k \in 0 .. MaxBytes /\ got + k <= accepted /\ buf.from = got
        BY <2>q, <3>2 DEF RestOK, Interval, Size
      <4>2. Abstract!Get(k)
        BY <2>4, <3>2, <4>1 DEF Call, CopyOut, Abstract!Get
      <4> QED BY <4>1, <4>2 DEF Abstract!Next
    <3> QED BY <3>1, <3>2
  <2>5. CASE CheckClosed
    BY <2>5 DEF CheckClosed, Return, Abstract!Next, Abstract!GetEOF, Abstract!vars
  <2>6. CASE Receive
    <3>1. IsNil(buf)
      BY <2>6, <2>q DEF Receive, RestOK
    <3>2. CASE blocks # <<>>
      <4> DEFINE k == IF Size(Head(blocks)) >= reader.n THEN reader.n
                      ELSE Size(Head(blocks))
      <4>1. /\ Head(blocks) \in Interval /\ Head(blocks).from = got
            /\ Head(blocks).from < Head(blocks).to /\ Head(blocks).to <= accepted
        BY <2>q, <3>1, <3>2 DEF QueueOK
      <4>2. k \in 0 .. MaxBytes /\ got + k <= accepted
        BY <2>q, <4>1 DEF RestOK, Interval, Size
      <4>3. Abstract!Get(k)
        BY <2>6, <3>2, <4>1, <4>2 DEF Receive, CopyOut, Abstract!Get
      <4> QED BY <4>2, <4>3 DEF Abstract!Next
    <3>3. CASE blocks = <<>>
      <4>1. got = accepted
        BY <2>q, <3>1, <3>3 DEF QueueOK
      <4> QED BY <2>6, <3>3, <4>1
                 DEF Receive, Return, Abstract!Next, Abstract!GetEOF, Abstract!GetAgain
    <3> QED BY <3>2, <3>3
  <2>7. CASE UNCHANGED vars
    BY <2>7 DEF vars, Abstract!vars
  <2> QED BY <2>1, <2>2, <2>3, <2>4, <2>5, <2>6, <2>7 DEF Next, ReaderCalls
<1> QED BY <1>1, <1>2, Invariance, PTL
           DEF Spec, ImplementsByteStream, Abstract!Spec
=============================================================================

----------------------------- MODULE ConnProofs ------------------------------
(***************************************************************************)
(* The handshake comes first, a panic only while the connection stops, an  *)
(* outboundFrame has one writer, and the deadlock of Shutdown is for good: *)
(* for any number of handlers, pooled frames, streams and reads, and any   *)
(* capacity of c.toWrite.                                                  *)
(***************************************************************************)
EXTENDS Conn, TLAPS

\* What the proofs need of the types.
Types ==
  /\ toWrite \in Seq(Outs)
  /\ DOMAIN pc = Threads /\ DOMAIN frameOf = Outs
  /\ DOMAIN outOf = Writers /\ DOMAIN result = Writers /\ DOMAIN then = Writers
  /\ \A t \in Writers : result[t] \in {"none", "ok", "err"}
  /\ acks \in Nat

\* terminate clears running before it closes anything, and nothing sets it.
Closing == {"closeDrop", "closeIO", "closeToWrite", "leave"}
StoppingOK ==
  /\ \A t \in {"reads", "writes"} : pc[t] \in Closing => ~running
  /\ toWriteClosed => ~running
  /\ dropClosed => ~running
  /\ PanicOnlyWhenStopping

\* A Write has an out, and no result before the frame is queued.
OutsOK ==
  /\ \A t \in Writers : InWrite(t) => outOf[t] \in Outs
  /\ \A t \in Writers : pc[t] = "send" => result[t] = "none"
  /\ OneWriterPerOut

\* The kind of the frame that t is writing.
Kind(t) == frameOf[outOf[t]].kind

\* Where the read loop is between a HELLO that was not written and its end.
Leaving ==
  \/ InWrite("reads") /\ then["reads"] = "hello"
  \/ pc["reads"] \in Closing \cup {"check", "stop", "done"}
  \/ pc["reads"] = "loop" /\ ~running

\* Until something is written only HELLO and GOAWAY are being written, and the
\* read loop, once configured, handles no other frame.  Only the read loop
\* writes a HELLO, and one that is not written yet is the first.
HandshakeOK ==
  /\ first = "none" => \A t \in Writers : InWrite(t) => Kind(t) \in {"HELLO", "GOAWAY"}
  /\ first = "none" /\ configured => Leaving
  /\ first = "none" => \A t \in Writers : result[t] # "ok"
  /\ \A t \in Writers : InWrite(t) /\ Kind(t) = "HELLO" =>
       t = "reads" /\ configured /\ (result[t] = "none" => acks = 0)
  /\ ~configured => acks = 0
  /\ streams # {} => first # "none"
  /\ pc["reads"] = "cancel" \/ then["reads"] = "cancel" => first # "none"
  /\ HandshakeFirst

\* Inductive.
IInv == Types /\ StoppingOK /\ OutsOK /\ HandshakeOK

---------------------------------------------------------------------------
\* Who is who.
LEMMA Places ==
  /\ Handlers \subseteq Writers /\ Writers \subseteq Threads /\ "writes" \in Threads
  /\ "reads" \in Writers /\ "shutdown" \in Writers /\ "writes" \notin Writers
  /\ "reads" \notin Handlers /\ "shutdown" \notin Handlers
BY ConnAssumption, Zenon DEF Writers, Threads

\* The places of a sequence with one element more.
LEMMA UpTo == ASSUME NEW n \in Nat PROVE \A i \in 1 .. (n + 1) : i \in 1 .. n \/ i = n + 1
OBVIOUS

\* Init => IInv
LEMMA InitIInv == Init => IInv
<1> SUFFICES ASSUME Init PROVE IInv
  BY Zenon
<1> USE Places DEF Init
<1>1. Types
  BY DEF Types
<1>2. StoppingOK
  BY Zenon DEF StoppingOK, Closing, PanicOnlyWhenStopping
<1>3. OutsOK
  BY DEF OutsOK, InWrite, OneWriterPerOut
<1>4. HandshakeOK
  BY DEF HandshakeOK, HandshakeFirst, InWrite
<1> QED
  BY <1>1, <1>2, <1>3, <1>4, Zenon DEF IInv

\* What the actions do to the pool, the queue and the results: nothing; or one
\* Write starts, or returns.  (Send and ServiceWrite are the other two.)
Quiet ==
  /\ UNCHANGED <<toWrite, call>> /\ DOMAIN pc' = Threads
  /\ \A t \in Writers : pc'[t] # pc[t] => ~InWrite(t) /\ ~InWrite(t)'
Starts(t, f, k) == ~InWrite(t) /\ StartWrite(t, f, k) /\ UNCHANGED toWrite
Returns(t) ==
  /\ pc[t] = "result" /\ result[t] # "none"
  /\ PutOut(t) /\ UNCHANGED toWrite
  /\ \E l \in {"check", "cancel", "loop", "done", "idle"} : Goto(t, l)

\* Every step has one of these shapes.
LEMMA Shape ==
  ASSUME Types, [Next]_vars
  PROVE  \/ Quiet \/ ServiceWrite
         \/ \E t \in Writers : Send(t) \/ Returns(t) \/ \E f, k : Starts(t, f, k)
<1> DEFINE Goal == \/ Quiet \/ ServiceWrite
                   \/ \E t \in Writers : Send(t) \/ Returns(t) \/ \E f, k : Starts(t, f, k)
<1> SUFFICES Goal
  BY Zenon
<1> USE Places DEF Types, InWrite, chan, call
<1>1. ASSUME NEW t \in Writers, NEW f, NEW k, Starts(t, f, k) PROVE Goal
  BY <1>1, Zenon
<1> HIDE DEF Goal
<1>2. CASE ReadProtocolError
  BY <1>1, <1>2, Zenon DEF ReadProtocolError, Reads, GoAway, Starts
<1>3. CASE ReadHello
  BY <1>1, <1>3, Zenon DEF ReadHello, Reads, GoAway, Starts, Answer
<1>4. Continue /\ (\E k : Reads(k)) => Quiet
  BY Zenon DEF Continue, Reads, Goto, Quiet
<1>5. CASE ReadPing
  BY <1>1, <1>4, <1>5, Zenon DEF ReadPing, Reads, Answer, Starts, Goal
<1>6. CASE ReadGoAway \/ Cancelled
  BY <1>6, Zenon DEF ReadGoAway, Reads, Cancelled, Goto, Quiet, Goal
<1>7. ASSUME NEW id, CancelStream(id) PROVE Goal
  <2>1. CASE StartWrite("reads", Frame("RESET_STREAM"), "cancel")
    BY <1>1, <1>7, <2>1, Zenon DEF CancelStream, Starts
  <2>2. CASE UNCHANGED <<call, pc>>
    BY <1>7, <2>2, Zenon DEF CancelStream, Quiet, Goal
  <2> QED
    BY <1>7, <2>1, <2>2, Zenon DEF CancelStream
<1>8. ASSUME NEW id, ReadMakeStream(id) PROVE Goal
  BY <1>1, <1>4, <1>8, Zenon DEF ReadMakeStream, Reads, GoAway, Starts, Goal
<1>9. ASSUME NEW id, ReadStreamFrame(id) PROVE Goal
  BY <1>1, <1>4, <1>9, Zenon DEF ReadStreamFrame, Reads, Answer, Starts, Goal
<1>10. CASE ReadError \/ CheckRunning
  BY <1>10, Zenon DEF ReadError, CheckRunning, Goto, Quiet, Goal
<1>11. CASE ReadsReturn
  BY <1>11, Zenon DEF ReadsReturn, Returns, Goal
<1>12. ASSUME NEW t \in Writers, OthersReturn(t) PROVE Goal
  BY <1>12, Zenon DEF OthersReturn, Returns, Goal
<1>13. ASSUME NEW t \in {"reads", "writes"}, Terminate(t) PROVE Goal
  <2>1. UNCHANGED <<toWrite, call>> /\ pc[t] \notin {"send", "result"}
        /\ \E l : Goto(t, l) /\ l \notin {"send", "result"}
    BY <1>13 DEF Terminate, TerminateCheck, TerminateStop, TerminateDrop, TerminateIO,
                 TerminateToWrite, TerminateLeave, Loop, rest
  <2> QED
    BY <2>1, Zenon DEF Goto, Quiet, Goal
<1>14. CASE CompareFrame \/ WritesDone
  BY <1>14, Zenon DEF CompareFrame, WritesDone, Goto, Quiet, Goal
<1>15. ASSUME NEW h \in Handlers, HandlerWrite(h) PROVE Goal
  BY <1>1, <1>15, Zenon DEF HandlerWrite, Starts
<1>16. CASE Shutdown
  BY <1>1, <1>16, Zenon DEF Shutdown, GoAway, Starts
<1>17. CASE PeerLeaves \/ UNCHANGED vars
  BY <1>17, Zenon DEF PeerLeaves, vars, Quiet, Goal
<1>18. ASSUME NEW t \in Writers, Send(t) PROVE Goal
  BY <1>18, Zenon DEF Goal
<1>19. CASE ServiceWrite
  BY <1>19, Zenon DEF Goal
<1>20. CASE ReadLoop
  BY <1>6, <1>7, <1>10, <1>11, <1>13, <1>18, <1>20, Zenon DEF ReadLoop
<1>21. CASE ReadFrame
  BY <1>2, <1>3, <1>5, <1>6, <1>8, <1>9, <1>21, Zenon DEF ReadFrame
<1> QED
  BY <1>10, <1>12, <1>13, <1>14, <1>15, <1>16, <1>17, <1>18, <1>19, <1>20, <1>21, Zenon
  DEF Next, WriteLoop, Other

\* Only the write loop writes frames.
LEMMA OnlyServiceWrites == ASSUME [Next]_vars PROVE ServiceWrite \/ UNCHANGED hist
<1>1. ReadLoop \/ ReadError => UNCHANGED hist
  BY Zenon DEF ReadLoop, ReadError, CheckRunning, ReadsReturn, Send, Terminate, TerminateCheck,
         TerminateStop, TerminateDrop, TerminateIO, TerminateToWrite, TerminateLeave, rest,
         Cancelled, CancelStream
<1>2. ReadFrame => UNCHANGED hist
  BY Zenon DEF ReadFrame, ReadProtocolError, ReadHello, ReadPing, ReadGoAway, ReadMakeStream,
         ReadStreamFrame, Reads
<1>3. WriteLoop => ServiceWrite \/ UNCHANGED hist
  BY Zenon DEF WriteLoop, CompareFrame, WritesDone, Terminate, TerminateCheck, TerminateStop,
         TerminateDrop, TerminateIO, TerminateToWrite, TerminateLeave, rest
<1>4. ASSUME NEW t, Other(t) \/ HandlerWrite(t) PROVE UNCHANGED hist
  BY <1>4, Zenon DEF Other, Send, OthersReturn, HandlerWrite
<1>5. Shutdown \/ PeerLeaves \/ UNCHANGED vars => UNCHANGED hist
  BY Zenon DEF Shutdown, PeerLeaves, vars
<1> QED
  BY <1>1, <1>2, <1>3, <1>4, <1>5, SMTT(30) DEF Next

\* The Write of t is answered, its frame being the head of the queue.
Answers(t) ==
  /\ pc[t] = "result" /\ result[t] = "none" /\ outOf[t] = Head(toWrite)
  /\ \/ /\ result' = [result EXCEPT ![t] = "ok"]
        /\ pc' = [pc EXCEPT !["writes"] = "compare"]
        /\ first' = IF first = "none" THEN Kind(t) ELSE first
        /\ acks' = acks + (IF Kind(t) = "HELLO" THEN 1 ELSE 0)
     \/ /\ result' = [result EXCEPT ![t] = "err"]
        /\ UNCHANGED <<pc, first, acks>>
  /\ toWrite # <<>> /\ toWrite' = Tail(toWrite)
  /\ UNCHANGED <<frameOf, outOf, then, shared>>

\* ServiceWrite answers a Write that waits.
LEMMA ServiceAnswers ==
  ASSUME Types, OutsOK, ServiceWrite
  PROVE  \E t \in Writers : Answers(t)
<1> USE DEF Types, ServiceWrite, Answers
<1>1. PICK t \in Writers :
        pc[t] = "result" /\ result[t] = "none" /\ outOf[t] = toWrite[1]
  <2>1. 1 \in 1 .. Len(toWrite)
    OBVIOUS
  <2> QED
    BY <2>1, Zenon DEF OutsOK, OneWriterPerOut
<1>2. toWrite # <<>> /\ Head(toWrite) = outOf[t]
  BY <1>1
<1>3. ASSUME NEW ok, AnswerWriter(ok)
      PROVE  result' = [result EXCEPT ![t] = IF ok THEN "ok" ELSE "err"]
  <2>1. PICK u \in Writers :
          /\ pc[u] = "result" /\ outOf[u] = Head(toWrite)
          /\ result' = [result EXCEPT ![u] = IF ok THEN "ok" ELSE "err"]
    BY <1>3, Zenon DEF AnswerWriter
  <2>2. u = t
    BY <1>1, <1>2, <2>1 DEF OutsOK, OneWriterPerOut, InWrite
  <2> QED
    BY <2>1, <2>2, Zenon
<1>4. CASE Outcome(TRUE, frameOf[Head(toWrite)])
  BY <1>1, <1>2, <1>3, <1>4, Zenon DEF Outcome, Goto, Kind
<1>5. CASE Outcome(FALSE, NoFrame)
  BY <1>1, <1>2, <1>3, <1>5, Zenon DEF Outcome
<1> QED
  BY <1>4, <1>5, Zenon

\* Every step keeps the types,
LEMMA TypeStep == IInv /\ [Next]_vars => Types'
<1> SUFFICES ASSUME IInv, [Next]_vars PROVE Types'
  BY Zenon
<1> USE Places DEF IInv, Types, call
<1>1. CASE ServiceWrite
  <2>1. PICK t \in Writers : Answers(t)
    BY <1>1, ServiceAnswers, Zenon
  <2>2. Tail(toWrite) \in Seq(Outs)
    BY <2>1 DEF Answers
  <2> QED
    BY <2>1, <2>2 DEF Answers
<1>2. acks' \in Nat
  BY <1>1, OnlyServiceWrites, Zenon DEF hist
<1>3. CASE Quiet
  BY <1>2, <1>3, Zenon DEF Quiet
<1>4. ASSUME NEW t \in Writers, Send(t) PROVE Types'
  <2>1. Append(toWrite, outOf[t]) \in Seq(Outs)
    BY <1>4 DEF Send, OutsOK, InWrite
  <2> QED
    BY <1>2, <1>4, <2>1, SMTT(30) DEF Send, Goto
<1>5. ASSUME NEW t \in Writers, Returns(t) PROVE Types'
  BY <1>2, <1>5, Zenon DEF Returns, PutOut, Goto
<1>6. ASSUME NEW t \in Writers, NEW f, NEW k, Starts(t, f, k) PROVE Types'
  BY <1>2, <1>6, Zenon DEF Starts, StartWrite, Goto
<1> QED
  BY <1>1, <1>3, <1>4, <1>5, <1>6, Shape, Zenon

\* ... that every queued frame has its writer and every writer its out,
LEMMA OutsStep == IInv /\ [Next]_vars => OutsOK'
<1> SUFFICES ASSUME IInv, [Next]_vars PROVE OutsOK'
  BY Zenon
<1> USE Places DEF IInv, Types, OutsOK, OneWriterPerOut, InWrite, call
<1>1. CASE Quiet
  <2>1. /\ UNCHANGED <<toWrite, outOf, result>>
        /\ \A t \in Writers : /\ InWrite(t)' <=> InWrite(t)
                              /\ InWrite(t) => pc'[t] = pc[t]
    BY <1>1, Zenon DEF Quiet
  <2> QED
    BY <2>1
<1>2. ASSUME NEW t \in Writers, NEW f, NEW k, Starts(t, f, k) PROVE OutsOK'
  <2>1. PICK o \in Available :
          /\ outOf' = [outOf EXCEPT ![t] = o]
          /\ result' = [result EXCEPT ![t] = "none"] /\ pc' = [pc EXCEPT ![t] = "send"]
          /\ UNCHANGED toWrite /\ ~InWrite(t)
    BY <1>2, ZenonT(30) DEF Starts, StartWrite, Goto
  <2>2. o \in Outs /\ \A u \in Writers : InWrite(u) => outOf[u] # o
    BY DEF Available
  <2>3. \A u \in Writers : u # t =>
          outOf'[u] = outOf[u] /\ result'[u] = result[u] /\ pc'[u] = pc[u]
    BY <2>1, Zenon
  <2>4. outOf'[t] = o /\ result'[t] = "none" /\ pc'[t] = "send"
    BY <2>1, Zenon
  <2>5. \A u, v \in Writers : InWrite(u)' /\ InWrite(v)' /\ outOf'[u] = outOf'[v] => u = v
    BY <2>1, <2>2, <2>3, <2>4
  <2>6. \A i \in 1 .. Len(toWrite') : \E u \in Writers :
          pc'[u] = "result" /\ result'[u] = "none" /\ outOf'[u] = toWrite'[i]
    BY <2>1, <2>3
  <2> QED
    BY <2>1, <2>2, <2>3, <2>4, <2>5, <2>6
<1>3. ASSUME NEW t \in Writers, Send(t) PROVE OutsOK'
  <2>1. CASE toWriteClosed
    BY <1>3, <2>1, SMTT(30) DEF Send
  <2>2. CASE ~toWriteClosed
    <3> DEFINE n == Len(toWrite)
    <3>1. /\ toWrite' = Append(toWrite, outOf[t]) /\ pc' = [pc EXCEPT ![t] = "result"]
          /\ UNCHANGED <<result, outOf>> /\ pc[t] = "send" /\ result[t] = "none"
      BY <1>3, <2>2, Zenon DEF Send, Goto
    <3>2. /\ Len(toWrite') = n + 1 /\ toWrite'[n + 1] = outOf[t]
          /\ \A i \in 1 .. n : toWrite'[i] = toWrite[i] /\ toWrite[i] \in Outs
      BY <3>1
    <3>3. n \in Nat /\ \A i \in 1 .. (n + 1) : i \in 1 .. n \/ i = n + 1
      <4>1. n \in Nat
        OBVIOUS
      <4> QED
        BY <4>1, UpTo, Zenon
    <3>4. \A u \in Writers : u # t => pc'[u] = pc[u]
      BY <3>1, Zenon
    <3>5. \A i \in 1 .. n : toWrite[i] # outOf[t]
      BY <3>1
    <3>6. pc'[t] = "result" /\ \A u \in Writers : InWrite(u)' <=> InWrite(u)
      BY <3>1, <3>4, Zenon
    <3>7. \A i \in 1 .. n : \E u \in Writers :
            pc'[u] = "result" /\ result'[u] = "none" /\ outOf'[u] = toWrite'[i]
      BY <3>1, <3>2, <3>4
    <3> HIDE DEF n
    <3>8. \A i \in 1 .. (n + 1) : \E u \in Writers :
            pc'[u] = "result" /\ result'[u] = "none" /\ outOf'[u] = toWrite'[i]
      BY <3>1, <3>2, <3>3, <3>6, <3>7
    <3>9. \A i, j \in 1 .. (n + 1) : toWrite'[i] = toWrite'[j] => i = j
      BY <3>2, <3>3, <3>5 DEF n
    <3>10. \A u, v \in Writers : InWrite(u)' /\ InWrite(v)' /\ outOf'[u] = outOf'[v] => u = v
      BY <3>1, <3>6
    <3>11. \A u \in Writers : /\ InWrite(u)' => outOf'[u] \in Outs
                              /\ pc'[u] = "send" => result'[u] = "none"
      BY <3>1, <3>4, <3>6, Zenon
    <3> HIDE DEF IInv
    <3> QED
      BY <3>2, <3>8, <3>9, <3>10, <3>11, Zenon
  <2> QED
    BY <2>1, <2>2, SMTT(30)
<1>4. ASSUME NEW t \in Writers, Returns(t) PROVE OutsOK'
  <2>1. /\ \A u \in Writers : u # t =>
             outOf'[u] = outOf[u] /\ result'[u] = result[u] /\ pc'[u] = pc[u]
        /\ ~InWrite(t)' /\ result[t] # "none" /\ UNCHANGED toWrite
    BY <1>4 DEF Returns, PutOut, Goto
  <2> QED
    BY <2>1
<1>5. CASE ServiceWrite
  <2>1. PICK t \in Writers : Answers(t)
    BY <1>5, ServiceAnswers, Zenon
  <2>2. /\ Head(toWrite) = toWrite[1] /\ 1 \in 1 .. Len(toWrite)
        /\ Len(toWrite') \in Nat
        /\ \A i \in 1 .. Len(toWrite') :
             /\ i + 1 \in 1 .. Len(toWrite) /\ i + 1 # 1 /\ i \in Nat
             /\ toWrite'[i] = toWrite[i + 1]
    BY <2>1 DEF Answers
  <2>3. /\ UNCHANGED outOf /\ outOf[t] = toWrite[1] /\ pc[t] = "result"
        /\ \A u \in Writers : pc'[u] = pc[u] /\ (u # t => result'[u] = result[u])
    BY <2>1, <2>2, SMTT(30) DEF Answers
  <2>4. \A i \in 1 .. Len(toWrite') : \E u \in Writers :
          pc'[u] = "result" /\ result'[u] = "none" /\ outOf'[u] = toWrite'[i]
    <3> TAKE i \in 1 .. Len(toWrite')
    <3>1. PICK u \in Writers :
            pc[u] = "result" /\ result[u] = "none" /\ outOf[u] = toWrite[i + 1]
      BY <2>2, Zenon
    <3>2. u # t
      BY <2>2, <2>3, <3>1
    <3>3. pc'[u] = "result" /\ result'[u] = "none" /\ outOf'[u] = toWrite'[i]
      BY <2>2, <2>3, <3>1, <3>2
    <3> QED
      BY <3>3, Zenon
  <2>5. \A i, j \in 1 .. Len(toWrite') : toWrite'[i] = toWrite'[j] => i = j
    <3> SUFFICES ASSUME NEW i \in 1 .. Len(toWrite'), NEW j \in 1 .. Len(toWrite'),
                        toWrite'[i] = toWrite'[j]
                 PROVE  i = j
      BY Zenon
    <3>1. i + 1 = j + 1
      BY <2>2
    <3> QED
      BY <2>2, <3>1
  <2>6. /\ \A u, v \in Writers : InWrite(u)' /\ InWrite(v)' /\ outOf'[u] = outOf'[v] => u = v
        /\ \A u \in Writers : /\ InWrite(u)' => outOf'[u] \in Outs
                              /\ pc'[u] = "send" => result'[u] = "none"
    BY <2>3, SMTT(30)
  <2> QED
    BY <2>4, <2>5, <2>6, SMTT(30)
<1> QED
  BY <1>1, <1>2, <1>3, <1>4, <1>5, Shape, Zenon

\* ... and that nothing is closed, and nothing panics, before running is
\* cleared.
LEMMA StoppingStep == IInv /\ [Next]_vars => StoppingOK'
<1> SUFFICES ASSUME IInv, [Next]_vars PROVE StoppingOK'
  BY Zenon
<1> USE Places DEF IInv, Types, StoppingOK, PanicOnlyWhenStopping, Closing, Goto, chan, shared
<1>1. ASSUME /\ UNCHANGED <<running, toWriteClosed, dropClosed, panicked>>
             /\ DOMAIN pc' = Threads
             /\ \A t \in {"reads", "writes"} : pc'[t] \in Closing => pc'[t] = pc[t]
      PROVE  StoppingOK'
  BY <1>1, Zenon
<1>2. ASSUME NEW t \in Writers, NEW f, NEW k, StartWrite(t, f, k),
             UNCHANGED <<running, toWriteClosed, dropClosed, panicked>>
      PROVE  StoppingOK'
  BY <1>2, Zenon DEF StartWrite
<1>3. CASE ReadFrame
  <2> USE DEF Reads, GoAway, Continue, Answer
  <2>1. CASE ReadProtocolError
    BY <1>2, <2>1, Zenon DEF ReadProtocolError
  <2>2. CASE ReadHello
    BY <1>2, <2>2, Zenon DEF ReadHello
  <2>3. CASE ReadPing
    BY <1>1, <1>2, <2>3, Zenon DEF ReadPing
  <2>4. CASE ReadGoAway
    BY <1>1, <2>4, Zenon DEF ReadGoAway
  <2>5. ASSUME NEW id \in StreamIDs, ReadMakeStream(id) PROVE StoppingOK'
    BY <1>1, <1>2, <2>5 DEF ReadMakeStream
  <2>6. ASSUME NEW id \in StreamIDs, ReadStreamFrame(id) PROVE StoppingOK'
    BY <1>1, <1>2, <2>6, SMTT(30) DEF ReadStreamFrame
  <2> QED
    BY <1>3, <2>1, <2>2, <2>3, <2>4, <2>5, <2>6, Zenon DEF ReadFrame
<1>4. CASE CheckRunning \/ ReadError \/ Cancelled \/ ReadsReturn
  BY <1>1, <1>4, Zenon DEF CheckRunning, ReadError, Cancelled, ReadsReturn
<1>5. ASSUME NEW id \in StreamIDs, CancelStream(id) PROVE StoppingOK'
  BY <1>1, <1>2, <1>5, Zenon DEF CancelStream
<1>6. ASSUME NEW t \in Writers, Send(t) PROVE StoppingOK'
  BY <1>6 DEF Send
<1>7. ASSUME NEW t \in Writers, OthersReturn(t) PROVE StoppingOK'
  BY <1>1, <1>7, Zenon DEF OthersReturn
<1>8. ASSUME NEW h \in Handlers, HandlerWrite(h) PROVE StoppingOK'
  BY <1>2, <1>8, SMTT(30) DEF HandlerWrite
<1>9. CASE Shutdown
  BY <1>2, <1>9, SMTT(30) DEF Shutdown, GoAway
<1>10. ASSUME NEW t \in {"reads", "writes"}, Terminate(t) PROVE StoppingOK'
  <2>1. CASE TerminateCheck(t)
    BY <1>1, <2>1, Zenon DEF TerminateCheck, Loop
  <2>2. CASE TerminateStop(t)
    BY <2>2, Zenon DEF TerminateStop
  <2>3. CASE TerminateDrop(t)
    BY <2>3, Zenon DEF TerminateDrop
  <2>4. CASE TerminateIO(t)
    BY <2>4, Zenon DEF TerminateIO
  <2>5. CASE TerminateToWrite(t)
    BY <2>5, Zenon DEF TerminateToWrite
  <2>6. CASE TerminateLeave(t)
    BY <1>1, <2>6, Zenon DEF TerminateLeave, Loop
  <2> QED
    BY <1>10, <2>1, <2>2, <2>3, <2>4, <2>5, <2>6, SMTT(30) DEF Terminate
<1>11. CASE ServiceWrite
  <2>1. PICK t \in Writers : Answers(t)
    BY <1>11, ServiceAnswers, Zenon
  <2>2. DOMAIN pc' = Threads /\ \A u \in {"reads", "writes"} : pc'[u] \in {pc[u], "compare"}
    BY <2>1, SMTT(30) DEF Answers
  <2> QED
    BY <1>1, <1>11, <2>2, Zenon DEF ServiceWrite
<1>12. CASE CompareFrame \/ WritesDone
  BY <1>1, <1>12, SMTT(30) DEF CompareFrame, WritesDone
<1>13. CASE PeerLeaves \/ UNCHANGED vars
  BY <1>1, <1>13, SMTT(30) DEF PeerLeaves, vars
<1> QED
  BY <1>3, <1>4, <1>5, <1>6, <1>7, <1>8, <1>9, <1>10, <1>11, <1>12, <1>13, Zenon
  DEF Next, ReadLoop, WriteLoop, Other

\* A Write that starts leaves the frames of the others alone.
LEMMA StartFrames ==
  ASSUME IInv, NEW t \in Writers, NEW f, NEW k, Starts(t, f, k)
  PROVE  /\ InWrite(t)' /\ Kind(t)' = f.kind /\ result'[t] = "none" /\ then'[t] = k
         /\ ~InWrite(t) /\ pc'[t] = "send"
         /\ \A u \in Writers \ {t} :
              /\ pc'[u] = pc[u] /\ result'[u] = result[u] /\ then'[u] = then[u]
              /\ InWrite(u)' <=> InWrite(u)
              /\ InWrite(u) => Kind(u)' = Kind(u)
<1> USE Places DEF IInv, Types, InWrite
<1>1. PICK o \in Available :
        /\ outOf' = [outOf EXCEPT ![t] = o] /\ frameOf' = [frameOf EXCEPT ![o] = f]
        /\ result' = [result EXCEPT ![t] = "none"] /\ then' = [then EXCEPT ![t] = k]
        /\ pc' = [pc EXCEPT ![t] = "send"] /\ ~InWrite(t)
  BY Zenon DEF Starts, StartWrite, Goto
<1>2. o \in Outs /\ \A u \in Writers : InWrite(u) => outOf[u] # o
  BY Zenon DEF Available
<1>3. Kind(t)' = f.kind
  BY <1>1, <1>2, Zenon DEF Kind
<1>4. ASSUME NEW u \in Writers \ {t}
      PROVE  /\ pc'[u] = pc[u] /\ result'[u] = result[u] /\ then'[u] = then[u]
             /\ outOf'[u] = outOf[u]
  BY <1>1, Zenon
<1>5. ASSUME NEW u \in Writers \ {t}, InWrite(u) PROVE Kind(u)' = Kind(u)
  BY <1>1, <1>2, <1>4, <1>5, Zenon DEF Kind, OutsOK
<1> QED
  BY <1>1, <1>3, <1>4, <1>5, Zenon

\* The read loop, when it handles a frame of a configured connection, and when
\* it cancels streams, does so after a first frame was written.
LEMMA FirstWritten ==
  ASSUME IInv PROVE /\ configured /\ pc["reads"] = "reading" => first # "none"
                    /\ pc["reads"] = "cancel" => first # "none"
BY Zenon DEF IInv, HandshakeOK, Leaving, Closing, InWrite

\* A step that starts no Write and writes nothing keeps HandshakeOK when it
\* does not bring the read loop back to work before the first frame.
LEMMA QuietKeeps ==
  ASSUME IInv, Quiet, UNCHANGED <<hist, configured>>, UNCHANGED streams \/ first # "none",
         first = "none" => (configured => Leaving') /\ pc'["reads"] # "cancel",
         streams' # {} => configured
  PROVE  HandshakeOK'
<1> USE Places DEF IInv, HandshakeOK, HandshakeFirst, hist
<1>1. /\ \A t \in Writers : InWrite(t)' <=> InWrite(t)
      /\ UNCHANGED <<result, outOf, frameOf, then>>
  BY SMTT(30) DEF Quiet, InWrite, call
<1>2. \A t \in Writers : Kind(t)' = Kind(t)
  BY <1>1, Zenon DEF Kind
<1> QED
  BY <1>1, <1>2, Zenon

\* The same for a step that starts a Write.
LEMMA StartKeeps ==
  ASSUME IInv, NEW t \in Writers, NEW f, NEW k, Starts(t, f, k), UNCHANGED hist,
         \/ f.kind # "HELLO" /\ (configured' <=> configured)
            /\ (f.kind = "GOAWAY" \/ first # "none")
            /\ (t = "reads" /\ configured => first # "none")
         \/ f.kind = "HELLO" /\ ~configured /\ configured' = TRUE /\ t = "reads" /\ k = "hello",
         UNCHANGED streams \/ (first # "none" /\ configured),
         UNCHANGED running, k = "cancel" => first # "none"
  PROVE  HandshakeOK'
<1> USE Places DEF IInv, HandshakeOK, HandshakeFirst, hist
<1>1. /\ InWrite(t)' /\ Kind(t)' = f.kind /\ result'[t] = "none" /\ then'[t] = k
      /\ \A u \in Writers \ {t} :
           /\ pc'[u] = pc[u] /\ result'[u] = result[u] /\ then'[u] = then[u]
           /\ InWrite(u)' <=> InWrite(u)
           /\ InWrite(u) => Kind(u)' = Kind(u)
  BY StartFrames, Zenon
<1>2. first' = "none" /\ configured' => Leaving'
  <2>1. CASE t = "reads"
    BY <1>1, <2>1, Zenon DEF Leaving
  <2>2. CASE t # "reads"
    BY <1>1, <2>2, Zenon DEF Leaving, InWrite
  <2> QED
    BY <2>1, <2>2, Zenon
<1>3. first' = "none" => \A u \in Writers : InWrite(u)' => Kind(u)' \in {"HELLO", "GOAWAY"}
  BY <1>1, Zenon
<1>4. first' = "none" => \A u \in Writers : result'[u] # "ok"
  BY <1>1, Zenon
<1>5. \A u \in Writers : InWrite(u)' /\ Kind(u)' = "HELLO" =>
        u = "reads" /\ configured' /\ (result'[u] = "none" => acks' = 0)
  BY <1>1
<1>6. HandshakeFirst' /\ (~configured' => acks' = 0) /\ (streams' # {} => first' # "none")
  BY Zenon
<1>7. pc'["reads"] = "cancel" \/ then'["reads"] = "cancel" => first' # "none"
  BY <1>1, Zenon DEF InWrite
<1> QED
  BY <1>2, <1>3, <1>4, <1>5, <1>6, <1>7, SMTT(30)

\* ... that the handshake comes first.
LEMMA HandshakeStep == IInv /\ [Next]_vars => HandshakeOK'
<1> SUFFICES ASSUME IInv, [Next]_vars PROVE HandshakeOK'
  BY Zenon
<1> USE Places DEF Goto, InWrite
<1>1. /\ configured /\ pc["reads"] = "reading" => first # "none"
      /\ pc["reads"] = "cancel" => first # "none"
  BY FirstWritten, Zenon
<1>2. /\ streams # {} => configured /\ first # "none"
      /\ first = "none" /\ configured => Leaving
      /\ DOMAIN pc = Threads
  BY Zenon DEF IInv, HandshakeOK, HandshakeFirst, Types
<1>3. CASE ReadFrame
  <2> USE DEF Reads
  <2>1. CASE ReadProtocolError
    <3> DEFINE f == [kind |-> "GOAWAY", id |-> goAways + 1]
    <3>1. /\ Starts("reads", f, "loop") /\ f.kind = "GOAWAY"
          /\ UNCHANGED <<hist, configured, streams, running>> /\ pc["reads"] = "reading"
      BY <2>1, Zenon DEF ReadProtocolError, GoAway, Starts, chan
    <3> HIDE DEF f
    <3> QED
      BY <1>1, <3>1, StartKeeps, Zenon
  <2>2. CASE ReadHello
    <3>1. CASE configured
      <4> DEFINE f == [kind |-> "GOAWAY", id |-> goAways + 1]
      <4>1. /\ Starts("reads", f, "loop") /\ f.kind = "GOAWAY"
            /\ UNCHANGED <<hist, streams, running>> /\ configured' = TRUE
            /\ pc["reads"] = "reading"
        BY <2>2, <3>1, Zenon DEF ReadHello, GoAway, Starts, chan
      <4> HIDE DEF f
      <4> QED
        BY <1>1, <3>1, <4>1, StartKeeps, Zenon
    <3>2. CASE ~configured
      <4> DEFINE f == Frame("HELLO")
      <4>1. /\ Starts("reads", f, "hello") /\ f.kind = "HELLO"
            /\ UNCHANGED <<hist, streams, running>> /\ configured' = TRUE
        BY <2>2, <3>2, Zenon DEF ReadHello, Answer, Starts, chan, Frame
      <4> HIDE DEF f
      <4> QED
        BY <3>2, <4>1, StartKeeps, Zenon
    <3> QED
      BY <3>1, <3>2, Zenon
  <2>3. ASSUME NEW k, configured, Reads(k), Continue, UNCHANGED <<configured, toCancel>>,
               streams' \in {streams} \/ configured
        PROVE  HandshakeOK'
    <3>1. first # "none"
      BY <1>1, <2>3, Zenon
    <3>2. Quiet /\ UNCHANGED hist
      BY <1>2, <2>3, Zenon DEF Continue, Quiet, chan, call
    <3> QED
      BY <2>3, <3>1, <3>2, QuietKeeps, Zenon
  <2>4. ASSUME NEW f, NEW k \in {"ping", "loop"}, NEW m, configured, Reads(m),
               f.kind # "HELLO", StartWrite("reads", f, k), UNCHANGED <<configured>>
        PROVE  HandshakeOK'
    <3>1. first # "none"
      BY <1>1, <2>4, Zenon
    <3>2. Starts("reads", f, k) /\ UNCHANGED <<hist, running>>
      BY <2>4, SMTT(30) DEF Starts, chan
    <3> QED
      BY <2>4, <3>1, <3>2, StartKeeps, Zenon
  <2>5. CASE ReadPing
    BY <2>3, <2>4, <2>5, Zenon DEF ReadPing, Answer, Frame
  <2>6. CASE ReadGoAway
    <3>1. Quiet /\ UNCHANGED <<hist, streams, configured>> /\ first # "none" /\ configured
      BY <1>1, <1>2, <2>6, SMTT(30) DEF ReadGoAway, Quiet, chan, call
    <3> QED
      BY <3>1, QuietKeeps, Zenon
  <2>7. ASSUME NEW id \in StreamIDs, ReadMakeStream(id) PROVE HandshakeOK'
    BY <2>3, <2>4, <2>7, SMTT(30) DEF ReadMakeStream, GoAway
  <2>8. ASSUME NEW id \in StreamIDs, ReadStreamFrame(id) PROVE HandshakeOK'
    BY <2>3, <2>4, <2>8, Zenon DEF ReadStreamFrame, Answer, Frame
  <2> QED
    BY <1>3, <2>1, <2>2, <2>5, <2>6, <2>7, <2>8, Zenon DEF ReadFrame
<1>4. ASSUME Quiet, UNCHANGED <<hist, configured, streams>>,
             first = "none" => (configured => Leaving') /\ pc'["reads"] # "cancel"
      PROVE  HandshakeOK'
  BY <1>2, <1>4, QuietKeeps, Zenon
<1>5. CASE CheckRunning \/ ReadError
  <2>1. Quiet /\ UNCHANGED <<hist, configured, streams>>
    BY <1>2, <1>5, Zenon DEF CheckRunning, ReadError, Quiet, chan, call, shared
  <2>2. first = "none" => (configured => Leaving') /\ pc'["reads"] # "cancel"
    BY <1>1, <1>2, <1>5, Zenon DEF CheckRunning, ReadError, Leaving, Closing, shared
  <2> QED
    BY <1>4, <2>1, <2>2, Zenon
<1>6. CASE Cancelled
  <2>1. Quiet /\ UNCHANGED <<hist, configured, streams>> /\ first # "none"
    BY <1>1, <1>2, <1>6, Zenon DEF Cancelled, Quiet, chan, call, shared
  <2> QED
    BY <1>4, <2>1, Zenon
<1>7. ASSUME NEW id \in StreamIDs, CancelStream(id) PROVE HandshakeOK'
  <2>1. first # "none" /\ UNCHANGED <<hist, configured, streams, running>>
    BY <1>1, <1>7, Zenon DEF CancelStream, shared
  <2>2. CASE StartWrite("reads", Frame("RESET_STREAM"), "cancel")
    <3> DEFINE f == Frame("RESET_STREAM")
    <3>1. Starts("reads", f, "cancel") /\ f.kind = "RESET_STREAM"
      BY <1>7, <2>2, Zenon DEF CancelStream, Starts, chan, Frame
    <3> HIDE DEF f
    <3> QED
      BY <2>1, <3>1, StartKeeps, Zenon
  <2>3. CASE UNCHANGED <<call, pc>>
    <3>1. Quiet
      BY <1>2, <1>7, <2>3, Zenon DEF CancelStream, Quiet, chan
    <3> QED
      BY <1>4, <2>1, <3>1, Zenon
  <2> QED
    BY <1>7, <2>2, <2>3, Zenon DEF CancelStream
<1>8. ASSUME NEW t \in {"reads", "writes"}, Terminate(t) PROVE HandshakeOK'
  <2>1. Quiet /\ UNCHANGED <<hist, configured, streams>>
    <3>1. /\ UNCHANGED <<toWrite, call, hist, configured, streams>>
          /\ pc[t] \notin {"send", "result"}
          /\ \E l : pc' = [pc EXCEPT ![t] = l] /\ l \notin {"send", "result"}
      BY <1>8, SMTT(30) DEF Terminate, TerminateCheck, TerminateStop, TerminateDrop, TerminateIO,
                  TerminateToWrite, TerminateLeave, Loop, rest
    <3> QED
      BY <1>2, <3>1, SMTT(30) DEF Quiet
  <2>2. (pc["reads"] \in Closing => ~running) /\ (running' => running)
    BY <1>8 DEF Terminate, TerminateCheck, TerminateStop, TerminateDrop, TerminateIO,
                TerminateToWrite, TerminateLeave, IInv, StoppingOK
  <2>3. CASE t = "reads"
    <3>1. pc'["reads"] # "cancel"
      BY <1>2, <1>8, <2>3, SMTT(30) DEF Terminate, TerminateCheck, TerminateStop, TerminateDrop,
                              TerminateIO, TerminateToWrite, TerminateLeave, Loop
    <3>2. Leaving'
      BY <1>2, <1>8, <2>2, <2>3, Zenon DEF Leaving, Closing, Terminate, TerminateCheck,
           TerminateStop, TerminateDrop, TerminateIO, TerminateToWrite, TerminateLeave, Loop
    <3> QED
      BY <1>4, <2>1, <3>1, <3>2, SMTT(30)
  <2>4. CASE t = "writes"
    <3>1. pc'["reads"] = pc["reads"] /\ then' = then
      BY <1>2, <1>8, <2>4, Zenon DEF Terminate, TerminateCheck, TerminateStop, TerminateDrop,
           TerminateIO, TerminateToWrite, TerminateLeave, rest, call
    <3> QED
      BY <1>1, <1>2, <1>4, <2>1, <2>2, <3>1, SMTT(30) DEF Leaving
  <2> QED
    BY <2>3, <2>4, Zenon
<1>9. CASE CompareFrame \/ WritesDone \/ PeerLeaves \/ UNCHANGED vars
  <2>1. Quiet /\ UNCHANGED <<hist, configured, streams>>
    BY <1>2, <1>9, SMTT(30) DEF CompareFrame, WritesDone, PeerLeaves, vars, Quiet, chan, shared
  <2>2. pc'["reads"] = pc["reads"] /\ UNCHANGED <<then, running>>
    BY <1>2, <1>9, Zenon DEF CompareFrame, WritesDone, PeerLeaves, vars, call, shared
  <2> QED
    BY <1>1, <1>2, <1>4, <2>1, <2>2, SMTT(30) DEF Leaving
<1>10. ASSUME NEW h \in Handlers, HandlerWrite(h) PROVE HandshakeOK'
  <2> DEFINE f == Frame("DATA")
  <2>1. /\ Starts(h, f, "loop") /\ f.kind = "DATA" /\ streams # {}
        /\ UNCHANGED <<hist, configured, streams, running>>
    BY <1>10, Zenon DEF HandlerWrite, Starts, chan, shared, Frame
  <2> HIDE DEF f
  <2> QED
    BY <1>2, <2>1, StartKeeps, Zenon
<1>11. CASE Shutdown
  <2> DEFINE f == [kind |-> "GOAWAY", id |-> goAways + 1]
  <2>1. /\ Starts("shutdown", f, "loop") /\ f.kind = "GOAWAY"
        /\ UNCHANGED <<hist, configured, streams, running>>
    BY <1>11, Zenon DEF Shutdown, GoAway, Starts, chan
  <2> HIDE DEF f
  <2> QED
    BY <2>1, StartKeeps, Zenon
<1>12. ASSUME NEW t \in Writers, Send(t) PROVE HandshakeOK'
  <2>1. /\ UNCHANGED <<hist, configured, streams, running, frameOf, outOf, result, then>>
        /\ \A u \in Writers : /\ InWrite(u)' <=> InWrite(u)
                              /\ InWrite(u) \/ pc'[u] = pc[u]
    BY <1>2, <1>12, SMTT(30) DEF Send, call, shared
  <2>2. \A u \in Writers : Kind(u)' = Kind(u)
    BY <2>1, Zenon DEF Kind
  <2>3. first' = "none" /\ configured' => Leaving'
    <3>1. first' = first /\ configured' = configured /\ running' = running /\ then' = then
      BY <2>1, Zenon DEF hist
    <3>2. Leaving => Leaving'
      <4>1. CASE InWrite("reads")
        BY <2>1, <3>1, <4>1, Zenon DEF Leaving, Closing
      <4>2. CASE ~InWrite("reads")
        BY <2>1, <3>1, <4>2 DEF Leaving
      <4> QED
        BY <4>1, <4>2, Zenon
    <3> QED
      BY <1>2, <3>1, <3>2, Zenon
  <2>4. pc'["reads"] = "cancel" => first # "none"
    BY <1>1, <2>1, SMTT(30)
  <2> QED
    BY <2>1, <2>2, <2>3, <2>4, Zenon DEF IInv, HandshakeOK, HandshakeFirst, hist
<1>13. ASSUME NEW t \in Writers, Returns(t), UNCHANGED <<hist, configured, streams>>,
              first = "none" => (configured => Leaving') /\ pc'["reads"] # "cancel"
       PROVE  HandshakeOK'
  <2>1. /\ ~InWrite(t)' /\ result'[t] = "none" /\ then'[t] = "loop" /\ UNCHANGED frameOf
        /\ \A u \in Writers \ {t} : /\ InWrite(u)' <=> InWrite(u)
                                    /\ result'[u] = result[u] /\ outOf'[u] = outOf[u]
                                    /\ then'[u] = then[u]
    BY <1>2, <1>13, Zenon DEF Returns, PutOut, IInv, Types
  <2>2. \A u \in Writers \ {t} : Kind(u)' = Kind(u)
    BY <2>1, Zenon DEF Kind
  <2> QED
    BY <1>13, <2>1, <2>2, ZenonT(30) DEF IInv, HandshakeOK, HandshakeFirst, hist
<1>14. CASE ReadsReturn
  <2>1. Returns("reads") /\ UNCHANGED <<hist, configured, streams>>
    BY <1>14, Zenon DEF ReadsReturn, Returns, chan
  <2>2. ASSUME first = "none" PROVE (configured => Leaving') /\ pc'["reads"] # "cancel"
    <3>1. result["reads"] = "err" /\ then["reads"] # "cancel" /\ pc["reads"] = "result"
      BY <1>14, <2>2, Zenon DEF ReadsReturn, IInv, Types, HandshakeOK
    <3>2. configured => then["reads"] = "hello"
      BY <1>2, <2>2, <3>1, SMTT(30) DEF Leaving, Closing
    <3> QED
      BY <1>2, <1>14, <3>1, <3>2, Zenon DEF ReadsReturn, Leaving
  <2> QED
    BY <1>13, <2>1, <2>2, Zenon
<1>15. ASSUME NEW t \in Writers, OthersReturn(t) PROVE HandshakeOK'
  <2>1. Returns(t) /\ UNCHANGED <<hist, configured, streams, running>> /\ t # "reads"
    BY <1>15, Zenon DEF OthersReturn, Returns, chan, shared
  <2>2. pc'["reads"] = pc["reads"] /\ then'["reads"] = then["reads"]
    BY <1>2, <1>15, Zenon DEF OthersReturn, PutOut, IInv, Types
  <2> QED
    BY <1>1, <1>2, <1>13, <2>1, <2>2, SMTT(30) DEF Leaving
<1>16. CASE ServiceWrite
  <2> USE DEF IInv, HandshakeOK, HandshakeFirst
  <2>1. PICK t \in Writers : Answers(t)
    BY <1>16, ServiceAnswers, SMTT(30)
  <2>2. /\ UNCHANGED <<configured, streams, running, then>> /\ InWrite(t)
        /\ \A u \in Writers : pc'[u] = pc[u] /\ (u # t => result'[u] = result[u])
        /\ result[t] = "none" /\ result'[t] \in {"ok", "err"}
    BY <1>2, <2>1, SMTT(30) DEF Answers, shared, Types
  <2>3. \A u \in Writers : Kind(u)' = Kind(u) /\ (InWrite(u)' <=> InWrite(u))
    BY <2>1, <2>2, SMTT(30) DEF Answers, Kind
  <2>4. \/ UNCHANGED <<first, acks>> /\ result'[t] = "err"
        \/ /\ first' = IF first = "none" THEN Kind(t) ELSE first
           /\ acks' = acks + (IF Kind(t) = "HELLO" THEN 1 ELSE 0)
    BY <2>1, SMTT(30) DEF Answers, Types
  <2>5. first' \in {"none", "HELLO", "GOAWAY"} /\ (first' = "none" => first = "none")
    BY <2>2, <2>4, SMTT(30)
  <2>6. first' = "none" => result'[t] = "err"
    BY <2>2, <2>4, SMTT(30)
  <2>7. first' = "none" /\ configured' => Leaving'
    BY <2>2, <2>5, SMTT(30) DEF Leaving
  <2>8. acks' <= 1 /\ (~configured' => acks' = 0)
    BY <2>2, <2>4, SMTT(30) DEF Types
  <2>9. \A u \in Writers : InWrite(u)' /\ Kind(u)' = "HELLO" =>
          u = "reads" /\ configured' /\ (result'[u] = "none" => acks' = 0)
    BY <2>2, <2>3, <2>4, SMTT(30) DEF Types
  <2>10. first' = "none" => \A u \in Writers : InWrite(u)' => Kind(u)' \in {"HELLO", "GOAWAY"}
    BY <2>3, <2>5, SMTT(30)
  <2>11. first' = "none" => \A u \in Writers : result'[u] # "ok"
    BY <2>2, <2>5, <2>6, SMTT(30)
  <2>12. /\ streams' # {} => first' # "none" /\ configured'
         /\ pc'["reads"] = "cancel" \/ then'["reads"] = "cancel" => first' # "none"
    BY <2>2, <2>5, Zenon
  <2> QED
    BY <2>5, <2>7, <2>8, <2>9, <2>10, <2>11, <2>12, Zenon
<1> QED
  BY <1>3, <1>5, <1>6, <1>7, <1>8, <1>9, <1>10, <1>11, <1>12, <1>14, <1>15, <1>16, Zenon
  DEF Next, ReadLoop, WriteLoop, Other

\* IInv holds in every reachable state.
LEMMA Inductive == Spec => []IInv
<1>1. IInv /\ [Next]_vars => IInv'
  BY TypeStep, StoppingStep, OutsStep, HandshakeStep, Zenon DEF IInv
<1> QED
  BY InitIInv, <1>1, PTL DEF Spec

\* Whatever the peer sends and however the goroutines interleave, the first
\* frame written is the HELLO acknowledgement or a GOAWAY, at most one HELLO is
\* acknowledged, and streams exist only on a configured connection.
THEOREM HandshakeComesFirst == Spec => []HandshakeFirst
<1>1. IInv => HandshakeFirst
  BY Zenon DEF IInv, HandshakeOK
<1> QED
  BY Inductive, <1>1, PTL

\* The unsynchronised terminate panics only on a connection already stopping.
THEOREM PanicsOnlyWhenStopping == Spec => []PanicOnlyWhenStopping
<1>1. IInv => PanicOnlyWhenStopping
  BY SMTT(30) DEF IInv, StoppingOK
<1> QED
  BY Inductive, <1>1, PTL

\* The pool never gives one outboundFrame to two Writes, and every queued one
\* has a Write that waits for its result.
THEOREM OutsAreOwned == Spec => []OneWriterPerOut
<1>1. IInv => OneWriterPerOut
  BY Zenon DEF IInv, OutsOK
<1> QED
  BY Inductive, <1>1, PTL

\* Shutdown waits under connectionsMu for an answer of the write loop, which
\* waits for connectionsMu: no step of any goroutine resolves that.
THEOREM ShutdownStaysStuck == Spec => ShutdownStuckIsPermanent
<1>1. IInv /\ [Next]_vars => (ShutdownStuck => ShutdownStuck')
  <2> SUFFICES ASSUME IInv, [Next]_vars, ShutdownStuck PROVE ShutdownStuck'
    BY Zenon
  <2> USE Places DEF ShutdownStuck, Goto
  <2>1. DOMAIN pc = Threads /\ DOMAIN result = Writers
    BY Zenon DEF IInv, Types
  <2>2. ASSUME NEW t \in Writers \ {"shutdown"}, NEW f, NEW k, StartWrite(t, f, k),
               UNCHANGED connectionsMu
        PROVE  ShutdownStuck'
    BY <2>1, <2>2, Zenon DEF StartWrite
  <2>3. CASE ReadFrame
    <3> USE DEF Reads, GoAway, Continue, Answer, call
    <3>1. CASE ReadProtocolError \/ ReadHello
      BY <2>2, <3>1, Zenon DEF ReadProtocolError, ReadHello
    <3>2. CASE ReadPing
      BY <2>1, <2>2, <3>2, ZenonT(30) DEF ReadPing
    <3>3. CASE ReadGoAway
      BY <2>1, <3>3, Zenon DEF ReadGoAway
    <3>4. ASSUME NEW id \in StreamIDs, ReadMakeStream(id) PROVE ShutdownStuck'
      BY <2>1, <2>2, <3>4, Zenon DEF ReadMakeStream
    <3>5. ASSUME NEW id \in StreamIDs, ReadStreamFrame(id) PROVE ShutdownStuck'
      BY <2>1, <2>2, <3>5, SMTT(30) DEF ReadStreamFrame
    <3> QED
      BY <2>3, <3>1, <3>2, <3>3, <3>4, <3>5, SMTT(30) DEF ReadFrame
  <2>4. CASE CheckRunning \/ ReadError \/ Cancelled \/ ReadsReturn
    BY <2>1, <2>4, Zenon DEF CheckRunning, ReadError, Cancelled, ReadsReturn, PutOut, call
  <2>5. ASSUME NEW id \in StreamIDs, CancelStream(id) PROVE ShutdownStuck'
    BY <2>1, <2>2, <2>5, Zenon DEF CancelStream, call
  <2>6. ASSUME NEW t \in Writers, Other(t) PROVE ShutdownStuck'
    BY <2>1, <2>6, Zenon DEF Other, Send, OthersReturn, PutOut, call
  <2>7. CASE Send("reads")
    BY <2>1, <2>7, Zenon DEF Send, call
  <2>8. ASSUME NEW h \in Handlers, HandlerWrite(h) PROVE ShutdownStuck'
    BY <2>2, <2>8, Zenon DEF HandlerWrite
  <2>9. CASE Shutdown
    BY <2>9, SMTT(30) DEF Shutdown
  <2>10. CASE Terminate("reads")
    BY <2>1, <2>10, ZenonT(30)
       DEF Terminate, TerminateCheck, TerminateStop, TerminateDrop, TerminateIO,
         TerminateToWrite, TerminateLeave, rest, call
  <2>11. CASE WriteLoop
    BY <2>11, SMTT(30)
       DEF WriteLoop, ServiceWrite, CompareFrame, WritesDone, Terminate, TerminateCheck,
         TerminateStop, TerminateDrop, TerminateIO, TerminateToWrite, TerminateLeave
  <2>12. CASE PeerLeaves \/ UNCHANGED vars
    BY <2>12, Zenon DEF PeerLeaves, vars, call
  <2> QED
    BY <2>3, <2>4, <2>5, <2>6, <2>7, <2>8, <2>9, <2>10, <2>11, <2>12, Zenon DEF Next, ReadLoop
<1> QED
  BY Inductive, <1>1, PTL DEF Spec, ShutdownStuckIsPermanent
=============================================================================

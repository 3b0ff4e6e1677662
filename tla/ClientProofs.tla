----------------------------- MODULE ClientProofs ----------------------------
(***************************************************************************)
(* Streams are announced before they are used and under ids of their own,  *)
(* a GOAWAY leaks the goroutines for good and a loss of the connection is  *)
(* never reported: for any number of goroutines, calls and frames, and any *)
(* capacity of c.toWrite.                                                  *)
(***************************************************************************)
EXTENDS Client, TLAPS

\* What the proofs need of the types.
Types ==
  /\ toWrite \in Seq(Writers) /\ cur \in Writers \cup {Nobody}
  /\ DOMAIN pc = Threads /\ DOMAIN op = Writers /\ DOMAIN result = Writers
  /\ id \in [Writers -> Nat] /\ streams \subseteq Nat /\ lastStreamID \in Nat

\* The Write of t has queued its frame and has no result yet.
Waits(t) == pc[t] = "result" /\ result[t] = "none"

\* Every frame in c.toWrite, and the one serviceWrites holds, belongs to a
\* Write of its own that waits for the result.
QueueOK ==
  /\ \A i \in 1 .. Len(toWrite) : Waits(toWrite[i])
  /\ \A i, j \in 1 .. Len(toWrite) : toWrite[i] = toWrite[j] => i = j
  /\ cur # Nobody => Waits(cur) /\ \A i \in 1 .. Len(toWrite) : toWrite[i] # cur
  /\ pc["writes"] \in {"lock", "copy", "checkRunning"} => cur # Nobody
  /\ \A t \in Writers : result[t] # "none" => pc[t] = "result"

\* A NewStream whose Write succeeded has its MAKE_STREAM on the wire.
AnnouncedOK ==
  /\ \A t \in Writers : op[t] = "NewStream" /\ result[t] = "ok" => id[t] \in announced
  /\ \A t \in Writers : pc[t] = "register" => id[t] \in announced

\* No id is above the last one given out.
IdsOK ==
  /\ \A n \in streams : n <= lastStreamID
  /\ \A t \in Apps : id[t] <= lastStreamID

\* Before service starts the loops there is no read loop.
NotYet == pc["service"] = "start" => pc["reads"] = "unborn"

\* Inductive.
IInv == Types /\ QueueOK /\ AnnouncedOK /\ IdsOK /\ NotYet /\ StreamsAreAnnounced

\* Who is who.
LEMMA Places ==
  /\ Apps \subseteq Writers /\ "reads" \in Writers /\ Writers \subseteq Threads
  /\ "writes" \in Threads /\ "service" \in Threads
  /\ "writes" \notin Writers /\ "service" \notin Writers /\ Nobody \notin Writers
  /\ "reads" \notin Apps /\ \A t \in Writers : t # "reads" => t \in Apps
BY ClientAssumption, Zenon DEF Writers, Threads, Nobody

\* The places of a sequence with one element more.
LEMMA UpTo == ASSUME NEW n \in Nat PROVE \A i \in 1 .. (n + 1) : i \in 1 .. n \/ i = n + 1
OBVIOUS

\* Init => IInv
LEMMA InitIInv == Init => IInv
<1> SUFFICES ASSUME Init PROVE IInv
  BY Zenon
<1> USE Places DEF Init
<1>1. Types
  BY DEF Types
<1>2. QueueOK
  BY DEF QueueOK
<1>3. AnnouncedOK
  BY Zenon DEF AnnouncedOK
<1>4. IdsOK
  BY DEF IdsOK
<1>5. NotYet
  BY Zenon DEF NotYet
<1>6. StreamsAreAnnounced
  BY SMTT(30) DEF StreamsAreAnnounced
<1> QED
  BY <1>1, <1>2, <1>3, <1>4, <1>5, <1>6, Zenon DEF IInv

\* Every action keeps the types.
LEMMA TypeStep == IInv /\ [Next]_vars => Types'
<1> SUFFICES ASSUME IInv, [Next]_vars PROVE Types'
  BY Zenon
<1> USE Places DEF IInv, Types, Goto, chan, table
<1>1. ASSUME NEW t \in Apps, AppCall(t) PROVE Types'
  <2> USE DEF Begin
  <2>1. CASE Configure(t)
    BY <2>1, Zenon DEF Configure
  <2>2. CASE NewStream(t)
    BY <2>2 DEF NewStream
  <2>3. CASE StreamWrite(t) \/ TerminateCall(t)
    BY <2>3, Zenon DEF StreamWrite, TerminateCall
  <2>4. CASE Close(t)
    BY <2>4, Zenon DEF Close
  <2> QED
    BY <1>1, <2>1, <2>2, <2>3, <2>4, Zenon DEF AppCall
<1>2. ASSUME NEW t \in Writers, WriteCheck(t) PROVE Types'
  BY <1>2 DEF WriteCheck, WriteReturns, After
<1>3. ASSUME NEW t \in Writers, Send(t) PROVE Types'
  <2>1. Append(toWrite, t) \in Seq(Writers)
    OBVIOUS
  <2> QED
    BY <1>3, <2>1, Zenon DEF Send
<1>4. ASSUME NEW t \in Writers, Answered(t) PROVE Types'
  BY <1>4, Zenon DEF Answered, WriteReturns, After
<1>5. ASSUME NEW t \in Apps, WaitForHello(t) PROVE Types'
  BY <1>5, Zenon DEF WaitForHello
<1>6. ASSUME NEW t \in Apps, Register(t) PROVE Types'
  BY <1>6, Zenon DEF Register
<1>7. ASSUME NEW t \in Apps, CloseSignal(t) PROVE Types'
  BY <1>7, Zenon DEF CloseSignal
<1>8. CASE ReadFrame
  BY <1>8, Zenon DEF ReadFrame, Reads, ReadUnexpected, ReadMalformed, ReadHello, ReadPing,
              ReadStreamFrame, ReadOther, ReadGoAway
<1>9. CASE ReadError \/ ReadFailed \/ Report \/ Pong \/ GoAwayStop \/ GoAwayErr
  BY <1>9, Zenon DEF ReadError, ReadFailed, Report, Pong, GoAwayStop, GoAwayErr
<1>10. CASE Take
  <2>1. toWrite # <<>> => Head(toWrite) \in Writers /\ Tail(toWrite) \in Seq(Writers)
    OBVIOUS
  <2> QED
    BY <1>10, <2>1, ZenonT(30) DEF Take
<1>11. CASE Copied \/ CopyFails \/ CheckRunning
  BY <1>11, Zenon DEF Copied, CopyFails, CheckRunning, Answer
<1>12. ASSUME NEW t \in {"reads", "writes"}, Lock(t) PROVE Types'
  BY <1>12, Zenon DEF Lock
<1>13. CASE Service
  BY <1>13, Zenon DEF Service, Start, ServiceEnds
<1>14. CASE PeerLeaves \/ UNCHANGED vars
  BY <1>14, ZenonT(30) DEF PeerLeaves, vars
<1> QED
  BY <1>1, <1>2, <1>3, <1>4, <1>5, <1>6, <1>7, <1>8, <1>9, <1>10, <1>11, <1>12, <1>13, <1>14, Zenon
  DEF Next, AppRun, ReadLoop, WriteLoop

\* ... and the discipline of c.toWrite.
LEMMA QueueStep == IInv /\ [Next]_vars => QueueOK'
<1> SUFFICES ASSUME IInv, [Next]_vars PROVE QueueOK'
  BY Zenon
<1> USE Places DEF IInv, Types, QueueOK, Waits, Goto, chan
<1>1. ASSUME NEW t \in Apps, AppCall(t) PROVE QueueOK'
  <2> USE DEF Begin
  <2>1. CASE Configure(t)
    BY <2>1 DEF Configure
  <2>2. CASE NewStream(t)
    BY <2>2 DEF NewStream
  <2>3. CASE StreamWrite(t) \/ TerminateCall(t)
    BY <2>3, SMTT(30) DEF StreamWrite, TerminateCall
  <2>4. CASE Close(t)
    BY <2>4 DEF Close
  <2> QED
    BY <1>1, <2>1, <2>2, <2>3, <2>4, Zenon DEF AppCall
<1>2. ASSUME NEW t \in Writers, WriteCheck(t) PROVE QueueOK'
  <2>1. CASE cerr
    BY <1>2, <2>1 DEF WriteCheck, WriteReturns
  <2>2. CASE ~cerr
    BY <1>2, <2>2 DEF WriteCheck
  <2> QED
    BY <2>1, <2>2, Zenon
<1>3. ASSUME NEW t \in Writers, Send(t) PROVE QueueOK'
  <2>1. CASE toWriteClosed
    BY <1>3, <2>1 DEF Send
  <2>2. CASE ~toWriteClosed
    <3> DEFINE n == Len(toWrite)
    <3>1. /\ toWrite' = Append(toWrite, t) /\ pc' = [pc EXCEPT ![t] = "result"]
          /\ UNCHANGED <<result, cur>> /\ pc[t] = "send"
      BY <1>3, <2>2, Zenon DEF Send
    <3>2. /\ Len(toWrite') = n + 1 /\ toWrite'[n + 1] = t
          /\ \A i \in 1 .. n : toWrite'[i] = toWrite[i] /\ toWrite[i] \in Writers
      BY <3>1
    <3>3. n \in Nat /\ \A i \in 1 .. (n + 1) : i \in 1 .. n \/ i = n + 1
      <4>1. n \in Nat
        OBVIOUS
      <4> QED
        BY <4>1, UpTo, Zenon
    <3>4. Waits(t)' /\ \A i \in 1 .. n : Waits(toWrite[i])' /\ toWrite[i] # t
      BY <3>1, <3>2
    <3> HIDE DEF n
    <3> QED
      BY <3>1, <3>2, <3>3, <3>4, SMTT(30)
  <2> QED
    BY <2>1, <2>2, Zenon
<1>4. ASSUME NEW t \in Writers, Answered(t) PROVE QueueOK'
  BY <1>4 DEF Answered, WriteReturns
<1>5. ASSUME NEW t \in Apps, WaitForHello(t) PROVE QueueOK'
  BY <1>5 DEF WaitForHello
<1>6. ASSUME NEW t \in Apps, Register(t) PROVE QueueOK'
  BY <1>6 DEF Register
<1>7. ASSUME NEW t \in Apps, CloseSignal(t) PROVE QueueOK'
  BY <1>7, SMTT(30) DEF CloseSignal
<1>8. CASE ReadFrame
  BY <1>8 DEF ReadFrame, Reads, ReadUnexpected, ReadMalformed, ReadHello, ReadPing,
              ReadStreamFrame, ReadOther, ReadGoAway
<1>9. CASE ReadError \/ ReadFailed \/ Report \/ Pong \/ GoAwayStop \/ GoAwayErr
  <2>1. CASE ReadError \/ ReadFailed \/ Report
    <3>1. CASE ReadError
      <4>1. pc["reads"] # "result" /\ pc' = [pc EXCEPT !["reads"] = "failed"]
        BY <3>1, Zenon DEF ReadError
      <4>2. UNCHANGED <<toWrite, cur, result>>
        BY <3>1, Zenon DEF ReadError
      <4> QED
        BY <4>1, <4>2
    <3>2. CASE ReadFailed
      BY <3>2 DEF ReadFailed
    <3>3. CASE Report
      BY <3>3 DEF Report
    <3> QED
      BY <2>1, <3>1, <3>2, <3>3, Zenon
  <2>2. CASE Pong
    BY <2>2 DEF Pong
  <2>3. CASE GoAwayStop \/ GoAwayErr
    BY <2>3 DEF GoAwayStop, GoAwayErr
  <2> QED
    BY <1>9, <2>1, <2>2, <2>3, Zenon
<1>10. CASE Take
  <2>1. CASE toWrite = <<>>
    BY <1>10, <2>1 DEF Take
  <2>2. CASE toWrite # <<>>
    <3>1. /\ cur' = Head(toWrite) /\ toWrite' = Tail(toWrite)
          /\ pc' = [pc EXCEPT !["writes"] = "lock"] /\ UNCHANGED result
      BY <1>10, <2>2, Zenon DEF Take
    <3>2. /\ Head(toWrite) = toWrite[1] /\ 1 \in 1 .. Len(toWrite)
          /\ Len(toWrite') = Len(toWrite) - 1
          /\ \A i \in 1 .. Len(toWrite') :
               /\ i + 1 \in 1 .. Len(toWrite) /\ i + 1 # 1
               /\ toWrite'[i] = toWrite[i + 1]
      BY <2>2, <3>1
    <3>3. /\ \A i \in 1 .. Len(toWrite) : toWrite[i] \in Writers
          /\ \A u \in Writers : Waits(u) => Waits(u)'
      BY <3>1
    <3>4. \A i, j \in 1 .. Len(toWrite') : toWrite'[i] = toWrite'[j] => i = j
      <4> SUFFICES ASSUME NEW i \in 1 .. Len(toWrite'), NEW j \in 1 .. Len(toWrite'),
                          toWrite'[i] = toWrite'[j]
                   PROVE  i = j
        BY Zenon
      <4>1. /\ i + 1 \in 1 .. Len(toWrite) /\ j + 1 \in 1 .. Len(toWrite)
            /\ toWrite[i + 1] = toWrite[j + 1]
        BY <3>2, SMTT(30)
      <4>2. i + 1 = j + 1
        BY <4>1, Zenon
      <4>3. i \in Nat /\ j \in Nat
        BY <3>2
      <4> QED
        BY <4>2, <4>3
    <3> QED
      BY <3>1, <3>2, <3>3, <3>4
  <2> QED
    BY <2>1, <2>2, SMTT(30)
<1>11. CASE Copied \/ CopyFails \/ CheckRunning
  <2>1. ASSUME NEW r, pc["writes"] \in {"copy", "checkRunning"}, Answer(r), UNCHANGED toWrite
        PROVE  QueueOK'
    BY <2>1 DEF Answer
  <2>2. CASE Copied
    BY <2>1, <2>2 DEF Copied
  <2>3. CASE CopyFails
    <3>1. CASE cerr
      BY <2>1, <2>3, <3>1 DEF CopyFails
    <3>2. CASE ~cerr
      BY <2>3, <3>2 DEF CopyFails
    <3> QED
      BY <3>1, <3>2, Zenon
  <2>4. CASE CheckRunning
    <3>1. CASE running
      BY <2>1, <2>4, <3>1, SMTT(30) DEF CheckRunning
    <3>2. CASE ~running
      BY <2>4, <3>2 DEF CheckRunning
    <3> QED
      BY <3>1, <3>2, Zenon
  <2> QED
    BY <1>11, <2>2, <2>3, <2>4, Zenon
<1>12. ASSUME NEW t \in {"reads", "writes"}, Lock(t) PROVE QueueOK'
  BY <1>12 DEF Lock
<1>13. CASE Service
  <2>1. CASE Start
    <3>1. \A u \in Writers : Waits(u) => Waits(u)'
      BY <2>1, Zenon DEF Start, NotYet
    <3>2. \A u \in Writers : result[u] # "none" => u # "reads" /\ pc'[u] = pc[u]
      BY <2>1, Zenon DEF Start, NotYet
    <3>3. pc'["writes"] = "range" /\ UNCHANGED <<toWrite, cur, result>>
      BY <2>1, Zenon DEF Start
    <3> QED
      BY <3>1, <3>2, <3>3
  <2>2. CASE ServiceEnds
    BY <2>2 DEF ServiceEnds
  <2> QED
    BY <1>13, <2>1, <2>2, Zenon DEF Service
<1>14. CASE PeerLeaves \/ UNCHANGED vars
  BY <1>14, SMTT(30) DEF PeerLeaves, vars
<1> QED
  BY <1>1, <1>2, <1>3, <1>4, <1>5, <1>6, <1>7, <1>8, <1>9, <1>10, <1>11, <1>12, <1>13, <1>14, Zenon
  DEF Next, AppRun, ReadLoop, WriteLoop
\* ... that a NewStream goes on only when its frame is on the wire,
LEMMA AnnouncedStep == IInv /\ [Next]_vars => AnnouncedOK'
<1> SUFFICES ASSUME IInv, [Next]_vars PROVE AnnouncedOK'
  BY Zenon
<1> USE Places DEF IInv, Types, AnnouncedOK, Goto, net
<1>1. ASSUME NEW t \in Apps, AppCall(t) PROVE AnnouncedOK'
  <2> USE DEF Begin, QueueOK
  <2>1. CASE Configure(t)
    BY <2>1, Zenon DEF Configure
  <2>2. CASE NewStream(t)
    BY <2>2, Zenon DEF NewStream
  <2>3. CASE StreamWrite(t) \/ TerminateCall(t)
    BY <2>3, Zenon DEF StreamWrite, TerminateCall
  <2>4. CASE Close(t)
    BY <2>4, Zenon DEF Close
  <2> QED
    BY <1>1, <2>1, <2>2, <2>3, <2>4, Zenon DEF AppCall
<1>2. ASSUME NEW t \in Writers, WriteReturns(t, FALSE), UNCHANGED announced PROVE AnnouncedOK'
  BY <1>2, Zenon DEF WriteReturns, After
<1>3. ASSUME NEW t \in Writers, WriteCheck(t) PROVE AnnouncedOK'
  <2>1. CASE cerr
    BY <1>2, <1>3, <2>1, Zenon DEF WriteCheck
  <2>2. CASE ~cerr
    BY <1>3, <2>2, Zenon DEF WriteCheck
  <2> QED
    BY <2>1, <2>2, Zenon
<1>4. ASSUME NEW t \in Writers, Send(t) PROVE AnnouncedOK'
  BY <1>4, Zenon DEF Send
<1>5. ASSUME NEW t \in Writers, Answered(t) PROVE AnnouncedOK'
  <2>1. CASE result[t] = "ok"
    <3>1. WriteReturns(t, TRUE) /\ UNCHANGED announced
      BY <1>5, <2>1, Zenon DEF Answered
    <3>2. After(t, TRUE) = "register" => op[t] = "NewStream"
      BY Zenon DEF After
    <3>3. \A u \in Writers : u # t => /\ op'[u] = op[u] /\ pc'[u] = pc[u]
                                      /\ id'[u] = id[u] /\ result'[u] = result[u]
      BY <3>1, Zenon DEF WriteReturns
    <3>4. /\ pc'[t] = After(t, TRUE) /\ result'[t] = "none"
          /\ pc'[t] = "register" => id'[t] = id[t]
      BY <3>1, Zenon DEF WriteReturns
    <3> QED
      BY <2>1, <3>1, <3>2, <3>3, <3>4, Zenon
  <2>2. CASE result[t] # "ok"
    BY <1>2, <1>5, <2>2, Zenon DEF Answered
  <2> QED
    BY <2>1, <2>2, Zenon
<1>6. ASSUME NEW t \in Apps, WaitForHello(t) PROVE AnnouncedOK'
  BY <1>6, Zenon DEF WaitForHello
<1>7. ASSUME NEW t \in Apps, Register(t) PROVE AnnouncedOK'
  BY <1>7, Zenon DEF Register
<1>8. ASSUME NEW t \in Apps, CloseSignal(t) PROVE AnnouncedOK'
  BY <1>8, Zenon DEF CloseSignal
<1>9. CASE ReadFrame
  <2> USE DEF Reads
  <2>1. CASE ReadUnexpected \/ ReadMalformed \/ ReadHello
    BY <2>1, SMTT(30) DEF ReadUnexpected, ReadMalformed, ReadHello
  <2>2. CASE ReadPing \/ ReadOther \/ ReadGoAway
    BY <2>2, ZenonT(30) DEF ReadPing, ReadOther, ReadGoAway
  <2>3. CASE ReadStreamFrame
    BY <2>3, SMTT(30) DEF ReadStreamFrame
  <2> QED
    BY <1>9, <2>1, <2>2, <2>3, Zenon DEF ReadFrame
<1>10. CASE ReadError \/ ReadFailed \/ Report \/ Pong \/ GoAwayStop \/ GoAwayErr
  BY <1>10, SMTT(30) DEF ReadError, ReadFailed, Report, Pong, GoAwayStop, GoAwayErr
<1>11. CASE Take
  BY <1>11, Zenon DEF Take
<1>12. CASE Copied
  BY <1>12, Zenon DEF Copied, Answer
<1>13. CASE CopyFails \/ CheckRunning
  BY <1>13, Zenon DEF CopyFails, CheckRunning, Answer
<1>14. ASSUME NEW t \in {"reads", "writes"}, Lock(t) PROVE AnnouncedOK'
  BY <1>14, SMTT(30) DEF Lock
<1>15. CASE Service
  BY <1>15, Zenon DEF Service, Start, ServiceEnds
<1>16. CASE PeerLeaves \/ UNCHANGED vars
  BY <1>16, SMTT(30) DEF PeerLeaves, vars
<1> QED
  BY <1>1, <1>3, <1>4, <1>5, <1>6, <1>7, <1>8, <1>9, <1>10, <1>11, <1>12, <1>13, <1>14, <1>15,
     <1>16, SMTT(30)
  DEF Next, AppRun, ReadLoop, WriteLoop

\* ... that its id is new,
LEMMA IdsStep == IInv /\ [Next]_vars => IdsOK' /\ StreamsAreAnnounced'
<1> SUFFICES ASSUME IInv, [Next]_vars PROVE IdsOK' /\ StreamsAreAnnounced'
  BY SMTT(30)
<1> USE Places DEF IInv, Types, IdsOK, StreamsAreAnnounced, net, table
<1>1. ASSUME NEW t \in Apps, AppCall(t) PROVE IdsOK' /\ StreamsAreAnnounced'
  <2> USE DEF Begin
  <2>1. CASE NewStream(t)
    <3>1. /\ id' = [id EXCEPT ![t] = lastStreamID + 1] /\ lastStreamID' = lastStreamID + 1
          /\ UNCHANGED <<streams, announced>>
      BY <2>1, Zenon DEF NewStream
    <3>2. \A u \in Apps : u # t => id'[u] = id[u] /\ id[u] < lastStreamID + 1
      BY <3>1
    <3>3. id'[t] = lastStreamID + 1 /\ lastStreamID + 1 \notin streams
      BY <3>1
    <3>4. IdsOK'
      BY <3>1, <3>2, <3>3
    <3> QED
      BY <3>1, <3>2, <3>3, <3>4
  <2>2. CASE Configure(t) \/ StreamWrite(t) \/ TerminateCall(t) \/ Close(t)
    <3>1. UNCHANGED <<id, streams, lastStreamID, announced>>
      BY <2>2, Zenon DEF Configure, StreamWrite, TerminateCall, Close
    <3> QED
      BY <3>1, SMTT(30)
  <2> QED
    BY <1>1, <2>1, <2>2, Zenon DEF AppCall
<1>2. ASSUME NEW t \in Writers, WriteCheck(t) \/ Answered(t)
      PROVE  IdsOK' /\ StreamsAreAnnounced'
  <2>1. /\ \A u \in Apps : id'[u] \in {id[u], 0}
        /\ UNCHANGED <<streams, lastStreamID, announced>>
    BY <1>2, ZenonT(30) DEF WriteCheck, Answered, WriteReturns
  <2> QED
    BY <2>1, SMTT(30)
<1>3. ASSUME NEW t \in Apps, Register(t) PROVE IdsOK' /\ StreamsAreAnnounced'
  <2>1. /\ streams' = streams \cup {id[t]} /\ id[t] \in announced
        /\ id'[t] = 0 /\ \A u \in Apps : u # t => id'[u] = id[u]
        /\ UNCHANGED <<lastStreamID, announced>>
    BY <1>3, Zenon DEF Register, AnnouncedOK
  <2>2. \A u \in Apps : u # t /\ id[u] # 0 => id[u] # id[t]
    BY Zenon
  <2>3. IdsOK'
    <3>1. \A n \in streams' : n <= lastStreamID
      <4>1. id[t] <= lastStreamID /\ \A n \in streams : n <= lastStreamID
        BY Zenon
      <4> HIDE DEF IInv
      <4> QED
        BY <2>1, <4>1, Zenon
    <3>2. \A u \in Apps : id'[u] <= lastStreamID
      <4>1. lastStreamID >= 0 /\ \A u \in Apps : id[u] <= lastStreamID
        OBVIOUS
      <4> HIDE DEF IInv
      <4> QED
        BY <2>1, <4>1, Zenon
    <3> QED
      BY <2>1, <3>1, <3>2, Zenon
  <2>4. streams' \subseteq announced'
    BY <2>1, Zenon
  <2>5. \A u \in Apps : id'[u] # 0 =>
          id'[u] \notin streams' /\ \A v \in Apps : id'[v] = id'[u] => v = u
    <3> SUFFICES ASSUME NEW u \in Apps, id'[u] # 0
                 PROVE  id'[u] \notin streams' /\ \A v \in Apps : id'[v] = id'[u] => v = u
      BY Zenon
    <3>1. u # t /\ id'[u] = id[u]
      BY <2>1, Zenon
    <3> QED
      BY <2>1, <2>2, <3>1, Zenon
  <2> QED
    BY <2>3, <2>4, <2>5, Zenon
<1>4. CASE Copied
  BY <1>4, Zenon DEF Copied
<1>5. CASE UNCHANGED <<id, streams, lastStreamID, announced>>
  BY <1>5, Zenon
<1>6. ASSUME NEW t \in Writers, Send(t) \/ WaitForHello(t) \/ CloseSignal(t)
      PROVE  UNCHANGED <<id, streams, lastStreamID, announced>>
  BY <1>6, SMTT(30) DEF Send, WaitForHello, CloseSignal
<1>7. ReadFrame => UNCHANGED <<id, streams, lastStreamID, announced>>
  BY ZenonT(30) DEF ReadFrame, Reads, ReadUnexpected, ReadMalformed, ReadHello, ReadPing,
         ReadStreamFrame, ReadOther, ReadGoAway
<1>8. CASE ReadError \/ ReadFailed \/ Report \/ Pong \/ GoAwayStop \/ GoAwayErr
  BY <1>5, <1>8, ZenonT(30) DEF ReadError, ReadFailed, Report, Pong, GoAwayStop, GoAwayErr
<1>9. CASE Take \/ CopyFails \/ CheckRunning
  BY <1>5, <1>9, ZenonT(30) DEF Take, CopyFails, CheckRunning
<1>10. ASSUME NEW t \in {"reads", "writes"}, Lock(t) PROVE IdsOK' /\ StreamsAreAnnounced'
  BY <1>5, <1>10, ZenonT(30) DEF Lock
<1>11. CASE Service \/ PeerLeaves \/ UNCHANGED vars
  BY <1>5, <1>11, ZenonT(30) DEF Service, Start, ServiceEnds, PeerLeaves, vars
<1> QED
  BY <1>1, <1>2, <1>3, <1>4, <1>5, <1>6, <1>7, <1>8, <1>9, <1>10, <1>11, Zenon
  DEF Next, AppRun, ReadLoop, WriteLoop

\* ... and that nothing is read before the start.
LEMMA NotYetStep == IInv /\ [Next]_vars => NotYet'
<1> SUFFICES ASSUME IInv, [Next]_vars, pc'["service"] = "start" PROVE pc'["reads"] = "unborn"
  BY SMTT(30) DEF NotYet
<1> USE Places DEF IInv, Types, NotYet, Goto
<1>1. ASSUME NEW t \in Apps, AppCall(t) PROVE pc'["reads"] = "unborn"
  BY <1>1, ZenonT(30) DEF AppCall, Begin, Configure, NewStream, StreamWrite, TerminateCall, Close
<1>2. ASSUME NEW t \in Writers, WriteCheck(t) \/ Answered(t) PROVE pc'["reads"] = "unborn"
  <2>1. pc[t] # "unborn" /\ \E l : pc' = [pc EXCEPT ![t] = l]
    BY <1>2, Zenon DEF WriteCheck, Answered, WriteReturns
  <2> QED
    BY <2>1, Zenon
<1>3. ASSUME NEW t \in Writers, Send(t) PROVE pc'["reads"] = "unborn"
  BY <1>3, Zenon DEF Send
<1>4. ASSUME NEW t \in Apps, WaitForHello(t) \/ Register(t) \/ CloseSignal(t)
      PROVE  pc'["reads"] = "unborn"
  BY <1>4, Zenon DEF WaitForHello, Register, CloseSignal
<1>5. ASSUME ReadFrame PROVE pc'["reads"] = "unborn"
  BY <1>5, ZenonT(30) DEF ReadFrame, Reads, ReadUnexpected, ReadMalformed, ReadHello, ReadPing,
              ReadStreamFrame, ReadOther, ReadGoAway
<1>6. ASSUME ReadError \/ ReadFailed \/ Report \/ Pong \/ GoAwayStop \/ GoAwayErr
      PROVE  pc'["reads"] = "unborn"
  BY <1>6, ZenonT(30) DEF ReadError, ReadFailed, Report, Pong, GoAwayStop, GoAwayErr
<1>7. ASSUME WriteLoop PROVE pc'["reads"] = "unborn"
  BY <1>7, ZenonT(30) DEF WriteLoop, Take, Copied, CopyFails, CheckRunning, Answer
<1>8. ASSUME NEW t \in {"reads", "writes"}, Lock(t) PROVE pc'["reads"] = "unborn"
  BY <1>8, ZenonT(30) DEF Lock
<1>9. ASSUME Service PROVE pc'["reads"] = "unborn"
  BY <1>9, Zenon DEF Service, Start, ServiceEnds
<1>10. ASSUME PeerLeaves \/ UNCHANGED vars PROVE pc'["reads"] = "unborn"
  BY <1>10, Zenon DEF PeerLeaves, vars
<1> QED
  BY <1>1, <1>2, <1>3, <1>4, <1>5, <1>6, <1>7, <1>8, <1>9, <1>10, Zenon
  DEF Next, AppRun, ReadLoop

\* IInv holds in every reachable state.
LEMMA Inductive == Spec => []IInv
<1>1. IInv /\ [Next]_vars => IInv'
  BY TypeStep, QueueStep, AnnouncedStep, IdsStep, NotYetStep, Zenon DEF IInv
<1> QED
  BY InitIInv, <1>1, PTL DEF Spec

\* However calls of NewStream, writes, failures and the end of the connection
\* interleave, every stream of c.streams has its MAKE_STREAM on the wire and an
\* id that no other has.
THEOREM StreamsAnnounced == Spec => []StreamsAreAnnounced
<1>1. IInv => StreamsAreAnnounced
  BY Zenon DEF IInv
<1> QED
  BY Inductive, <1>1, PTL

\* After handleGoAway has stopped the client nothing closes c.toWrite and
\* c.drop any more: service and the write loop wait for good.
THEOREM LeaksForGood == Spec => LeakIsPermanent
<1>1. IInv /\ [Next]_vars => (Leaked => Leaked')
  <2> SUFFICES ASSUME IInv, [Next]_vars, Leaked PROVE Leaked'
    BY Zenon
  <2>0. DOMAIN pc = Threads
    BY SMTT(30) DEF IInv, Types
  <2> USE <2>0, Places DEF Leaked, Goto, flags, chan
  <2>1. ASSUME NEW t \in Apps, AppCall(t) PROVE Leaked'
    BY <2>1 DEF AppCall, Begin, Configure, NewStream, StreamWrite, TerminateCall, Close
  <2>2. ASSUME NEW t \in Writers, WriteCheck(t) PROVE Leaked'
    BY <2>2, Zenon DEF WriteCheck, WriteReturns, After
  <2>3. ASSUME NEW t \in Writers, Send(t) PROVE Leaked'
    BY <2>3, Zenon DEF Send
  <2>4. ASSUME NEW t \in Writers, Answered(t) PROVE Leaked'
    BY <2>4, Zenon DEF Answered, WriteReturns, After
  <2>5. ASSUME NEW t \in Apps, WaitForHello(t) \/ Register(t) \/ CloseSignal(t) PROVE Leaked'
    BY <2>5 DEF WaitForHello, Register, CloseSignal
  <2>6. CASE ReadFrame
    <3> USE DEF Reads
    <3>1. CASE ReadUnexpected \/ ReadMalformed \/ ReadHello
      BY <3>1 DEF ReadUnexpected, ReadMalformed, ReadHello
    <3>2. CASE ReadPing
      BY <3>2 DEF ReadPing
    <3>3. CASE ReadStreamFrame
      BY <3>3, Zenon DEF ReadStreamFrame
    <3>4. CASE ReadOther
      BY <3>4, Zenon DEF ReadOther, Terminate
    <3>5. CASE ReadGoAway
      BY <3>5, Zenon DEF ReadGoAway
    <3> QED
      BY <2>6, <3>1, <3>2, <3>3, <3>4, <3>5, SMTT(30) DEF ReadFrame
  <2>7. CASE ReadError \/ ReadFailed \/ Report \/ Pong
    BY <2>7 DEF ReadError, ReadFailed, Report, Pong
  <2>8. CASE GoAwayStop
    BY <2>8, Zenon DEF GoAwayStop
  <2>9. CASE GoAwayErr
    BY <2>9, ZenonT(30) DEF GoAwayErr, Terminate
  <2>10. CASE Take \/ Copied
    BY <2>10 DEF Take, Copied, Answer
  <2>11. CASE CopyFails
    BY <2>11, Zenon DEF CopyFails, Answer
  <2>12. CASE CheckRunning
    BY <2>12, Zenon DEF CheckRunning, Answer
  <2>13. ASSUME NEW t \in {"reads", "writes"}, Lock(t) PROVE Leaked'
    BY <2>13, Zenon DEF Lock
  <2>14. CASE Service \/ PeerLeaves \/ UNCHANGED vars
    BY <2>14 DEF Service, Start, ServiceEnds, PeerLeaves, vars
  <2> QED
    BY <2>1, <2>2, <2>3, <2>4, <2>5, <2>6, <2>7, <2>8, <2>9, <2>10, <2>11, <2>12, <2>13, <2>14,
       Zenon
    DEF Next, AppRun, ReadLoop, WriteLoop
<1> QED
  BY Inductive, <1>1, PTL DEF Spec, LeakIsPermanent

\* Once the read loop has returned with c.err nil, c.err stays nil: service
\* drops the error, and Write never learns of the loss.
THEOREM LossStaysSilent == Spec => LossIsSilent
<1>1. IInv /\ [Next]_vars => (Unreported => Unreported')
  <2> SUFFICES ASSUME IInv, [Next]_vars, Unreported PROVE Unreported'
    BY Zenon
  <2>0. DOMAIN pc = Threads /\ NotYet
    BY SMTT(30) DEF IInv, Types
  <2> USE <2>0, Places DEF Unreported, Goto, flags
  <2>1. ASSUME NEW t \in Apps, AppCall(t) PROVE Unreported'
    BY <2>1 DEF AppCall, Begin, Configure, NewStream, StreamWrite, TerminateCall, Close
  <2>2. ASSUME NEW t \in Writers, WriteCheck(t) PROVE Unreported'
    BY <2>2, Zenon DEF WriteCheck, WriteReturns, After
  <2>3. ASSUME NEW t \in Writers, Send(t) PROVE Unreported'
    BY <2>3, Zenon DEF Send
  <2>4. ASSUME NEW t \in Writers, Answered(t) PROVE Unreported'
    BY <2>4, Zenon DEF Answered, WriteReturns, After
  <2>5. ASSUME NEW t \in Apps, WaitForHello(t) \/ Register(t) \/ CloseSignal(t)
        PROVE  Unreported'
    BY <2>5, SMTT(30) DEF WaitForHello, Register, CloseSignal
  <2>6. CASE ReadFrame
    BY <2>6, ZenonT(30) DEF ReadFrame, Reads, ReadUnexpected, ReadMalformed, ReadHello, ReadPing,
                ReadStreamFrame, ReadOther, ReadGoAway
  <2>7. CASE ReadError \/ ReadFailed \/ Report \/ Pong \/ GoAwayStop \/ GoAwayErr
    BY <2>7, SMTT(30) DEF ReadError, ReadFailed, Report, Pong, GoAwayStop, GoAwayErr
  <2>8. CASE WriteLoop
    BY <2>8 DEF WriteLoop, Take, Copied, CopyFails, CheckRunning, Answer
  <2>9. ASSUME NEW t \in {"reads", "writes"}, Lock(t) PROVE Unreported'
    BY <2>9, SMTT(30) DEF Lock
  <2>10. CASE Service \/ PeerLeaves \/ UNCHANGED vars
    BY <2>10 DEF Service, Start, ServiceEnds, PeerLeaves, vars, NotYet
  <2> QED
    BY <2>1, <2>2, <2>3, <2>4, <2>5, <2>6, <2>7, <2>8, <2>9, <2>10, Zenon DEF Next, AppRun, ReadLoop
<1> QED
  BY Inductive, <1>1, PTL DEF Spec, LossIsSilent
=============================================================================

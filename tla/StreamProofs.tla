---------------------------- MODULE StreamProofs ----------------------------
(***************************************************************************)
(* The frames of a message stay together, a gap in the bytes received and  *)
(* a stream left half closed come only of a lost update of the code, a     *)
(* storm of RESET_STREAM frames and a stranded reader are for good: for    *)
(* any number of goroutines, calls and bytes, with or without a failure of *)
(* the connection.                                                         *)
(***************************************************************************)
EXTENDS Stream, TLAPS

\* Frames.  A RESET_STREAM is empty and has a reason.
Frames == {f \in FrameType : f.kind = "RESET" => f.len = 0 /\ f.endData /\ ~f.endStream
                                                 /\ f.reason # "none"}
Ops == {"none", "Write", "WriteEnd", "CloseLocal", "Reset", "Read", "reply",
        "handleReset", "handleData"}
Jobs == [op : Ops, todo : Seq(Frames), snap : Codes]

Types ==
  /\ code \in [Sides -> Codes] /\ DOMAIN err = Sides
  /\ DOMAIN writeMu = Sides
  /\ link \in [Sides -> Seq(Frames)] /\ down \in BOOLEAN
  /\ sent \in [Sides -> Nat] /\ last \in [Sides -> FrameType]
  /\ lost \in [Sides -> BOOLEAN]
  /\ accepted \in [Sides -> Nat] /\ got \in [Sides -> Nat] /\ rclosed \in [Sides -> BOOLEAN]
  /\ DOMAIN pc = Threads /\ job \in [Threads -> Jobs]

---------------------------------------------------------------------------
\* A goroutine: where it can be in which operation, and what it has to write.

Sends(o) == o \in {"Write", "WriteEnd", "CloseLocal", "Reset", "reply"}
PlaceOK(t) ==
  /\ pc[t] \in {"lock", "write"} => Sends(job[t].op)
  /\ pc[t] = "close" => job[t].op \in {"Reset", "handleReset"}
  /\ pc[t] \in {"setError", "closeReader"} => job[t].op \in {"Reset", "handleReset"}
  /\ pc[t] \in {"readCode", "writeCode"} => job[t].op \in {"WriteEnd", "CloseLocal", "handleData"}
  /\ pc[t] = "enqueue" => job[t].op = "handleData"
  /\ job[t].op \in {"reply", "handleReset", "handleData"} => t \in Sides
  /\ Sends(job[t].op) /\ job[t].op # "reply" => t \in Apps

\* The frames of one message: t's own, END_DATA on the last, a RESET_STREAM is
\* alone, and END_STREAM only where the half is closed as well.
TodoOK(t) ==
  LET q == job[t].todo
  IN  /\ Sends(job[t].op) =>
           /\ q # <<>> /\ q[Len(q)].endData
           /\ \A i \in 1 .. Len(q) :
                /\ q[i].by = t /\ (q[i].kind = "DATA" \/ Len(q) = 1)
                /\ q[i].endStream => job[t].op \in {"WriteEnd", "CloseLocal"}
      /\ job[t].op = "reply" => q[1].kind = "RESET"
      /\ job[t].op \in {"handleReset", "handleData"} =>
           q # <<>> /\ q[1].kind = IF job[t].op = "handleData" THEN "DATA" ELSE "RESET"

\* writeMu is held from the first frame to the last, or to the close.
LockOK(t) ==
  \/ pc[t] = "write"
  \/ pc[t] \in {"readCode", "writeCode"} /\ job[t].op = "WriteEnd"
  => writeMu[Side(t)] = t

\* The code an operation has set stays set, unless an update was lost.
Ended(s) == code[s] \in {"halfClosedLocal", "closed"}
CodeOK(t) ==
  ~lost[Side(t)] =>
    /\ pc[t] \in {"setError", "closeReader"} => code[Side(t)] = "closed"
    /\ job[t].op = "CloseLocal" /\ pc[t] \in {"lock", "write"} => Ended(Side(t))

ThreadOK(t) == PlaceOK(t) /\ TodoOK(t) /\ LockOK(t) /\ CodeOK(t)

---------------------------------------------------------------------------
\* An end.

Refusing(s) == RecvData(code[s], err[s])

\* A message half on the wire is being written.
MessageOK(s) ==
  LET t == last[s].by
  IN  HalfWritten(s) /\ ~down =>
        /\ t \in Threads /\ Side(t) = s /\ pc[t] = "write"
        /\ \A i \in 1 .. Len(job[t].todo) : job[t].todo[i].kind = "DATA"

\* The frames under way follow one another up to what the peer has sent; they
\* are lost when the connection fails.
Chain(q, n) ==
  /\ \A i \in 1 .. Len(q) - 1 : q[i].from + q[i].len = q[i + 1].from
  /\ q # <<>> => q[Len(q)].from + q[Len(q)].len = n
Upcoming(s) == IF link[s] = <<>> THEN sent[Peer(s)] ELSE link[s][1].from
LinkOK(s) ==
  /\ down => link[s] = <<>>
  /\ Chain(link[s], sent[Peer(s)])
  /\ link[s] # <<>> => link[s][Len(link[s])] = last[Peer(s)]

\* What is accepted reaches to the frame at hand, or to the next one.
AcceptOK(s) ==
  ~lost[s] =>
    /\ rclosed[s] => code[s] = "closed"
    /\ pc[s] = "enqueue" =>
         /\ accepted[s] = job[s].todo[1].from
         /\ ~down => accepted[s] + job[s].todo[1].len = Upcoming(s)
    /\ pc[s] # "enqueue" /\ ~down => accepted[s] = Upcoming(s) \/ Refusing(s)

\* After an END_STREAM the half is closed, at the end that sent it and at the
\* one that received it, or about to be.
SentEndOK(s) ==
  LET t == last[s].by
  IN  last[s].endStream /\ ~lost[s] /\ ~down =>
        \/ Ended(s)
        \/ /\ t \in Threads /\ Side(t) = s /\ job[t].op = "WriteEnd"
           /\ pc[t] \in {"write", "readCode", "writeCode"}
ReceivedEndOK(s) ==
  last[Peer(s)].endStream /\ ~lost[s] /\ ~down =>
    \/ Refusing(s) \/ link[s] # <<>>
    \/ /\ pc[s] \in {"enqueue", "readCode", "writeCode"}
       /\ job[s].op = "handleData" /\ job[s].todo[1].endStream

EndOK(s) == MessageOK(s) /\ LinkOK(s) /\ AcceptOK(s) /\ SentEndOK(s) /\ ReceivedEndOK(s)

\* Inductive.
IInv ==
  /\ Types
  /\ \A t \in Threads : ThreadOK(t)
  /\ \A s \in Sides : EndOK(s)

---------------------------------------------------------------------------
\* Who is who.
LEMMA Places ==
  /\ \A s \in Sides : /\ Peer(s) \in Sides /\ Peer(s) # s /\ Peer(Peer(s)) = s /\ Side(s) = s
                      /\ s \in Threads /\ s \notin Apps
  /\ \A s, r \in Sides : r = s \/ r = Peer(s)
  /\ \A t \in Threads : Side(t) \in Sides /\ (t \in Apps \/ t \in Sides) /\ t # Nobody
  /\ Apps \subseteq Threads /\ Nobody \notin Threads
<1>1. \A t \in Threads : Side(t) \in Sides
  BY Zenon DEF Side, Sides
<1>2. \A s \in Sides : Side(s) = s
  BY ThreadsAssumption, Zenon DEF Side, Sides, Apps
<1>3. Nobody \notin Threads /\ \A s \in Sides : s \notin Apps
  BY ThreadsAssumption, Zenon DEF Threads, Sides, Nobody
<1> QED
  BY <1>1, <1>2, <1>3, Zenon DEF Peer, Sides, Threads

\* The fields of a frame.
LEMMA FrameFields ==
  \A f \in Frames :
    /\ f \in FrameType /\ f.kind \in {"DATA", "RESET"} /\ f.from \in Nat /\ f.len \in Nat
    /\ f.endData \in BOOLEAN /\ f.endStream \in BOOLEAN
    /\ f.kind = "RESET" => f.len = 0 /\ f.endData /\ ~f.endStream /\ f.reason # "none"
BY Zenon DEF Frames, FrameType
\* The fields of a job.
LEMMA JobFields ==
  \A j \in Jobs : j.op \in Ops /\ j.todo \in Seq(Frames) /\ j.snap \in Codes
BY Zenon DEF Jobs

\* A new job.
LEMMA NewJob ==
  ASSUME NEW o \in Ops, NEW q \in Seq(Frames)
  PROVE  Job(o, q) \in Jobs /\ Job(o, q).op = o /\ Job(o, q).todo = q
BY Zenon DEF Job, Jobs, Codes
\* A goroutine without a job has nothing to write.
LEMMA NoJobFields == NoJob \in Jobs /\ NoJob.op = "none" /\ NoJob.todo = <<>>
<1>1. "none" \in Ops /\ <<>> \in Seq(Frames)
  BY DEF Ops
<1> QED
  BY <1>1, NewJob, Zenon DEF NoJob

\* A message has at least one frame, and its frames have lengths.
LEMMA Lengthwise ==
  ASSUME NEW len \in Nat
  PROVE  Segments(len) \in Nat \ {0} /\ \A i \in 1 .. Segments(len) : Segment(len, i) \in Nat
<1> DEFINE d == (len + MaxPayload - 1) \div MaxPayload
<1>1. MaxPayload \in Nat /\ MaxPayload > 0
  BY NumbersAssumption
<1>2. CASE len <= MaxPayload
  BY <1>1, <1>2 DEF Segments, Segment
<1>3. CASE ~(len <= MaxPayload)
  <2>1. /\ d \in Int /\ d * MaxPayload <= len + MaxPayload - 1
        /\ len + MaxPayload - 1 < (d + 1) * MaxPayload
    BY <1>1
  <2>2. d > 0 /\ (d - 1) * MaxPayload <= len - 1 /\ (d - 1) * MaxPayload \in Int
    BY <1>1, <1>3, <2>1
  <2> HIDE DEF d
  <2>3. Segments(len) = d
    BY <1>3, Zenon DEF Segments, d
  <2> QED
    BY <1>1, <2>1, <2>2, <2>3 DEF Segment
<1> QED
  BY <1>2, <1>3, Zenon

\* The frames that Write makes of a buffer.
LEMMA DataFrames ==
  ASSUME NEW len \in Nat, NEW b \in BOOLEAN, NEW t \in Threads
  PROVE  LET q == DataFramesFromBuffer(len, b, t)
         IN  /\ q \in Seq(Frames) /\ q # <<>> /\ q[Len(q)].endData
             /\ \A i \in 1 .. Len(q) : /\ q[i].by = t /\ q[i].kind = "DATA"
                                       /\ q[i].endStream = b
<1> DEFINE q == DataFramesFromBuffer(len, b, t)
           n == Segments(len)
           F(i) == Frame("DATA", Segment(len, i), i = n, b, "none", t)
<1>1. n \in Nat \ {0} /\ \A i \in 1 .. n : Segment(len, i) \in Nat
  BY Lengthwise, Zenon
<1>2. ASSUME NEW i \in 1 .. n
      PROVE  /\ F(i) \in Frames /\ F(i).by = t /\ F(i).kind = "DATA" /\ F(i).endStream = b
             /\ F(i).endData = (i = n)
  <2>1. Segment(len, i) \in Nat /\ (i = n) \in BOOLEAN /\ b \in BOOLEAN
    BY <1>1, Zenon
  <2> DEFINE l == Segment(len, i)
             e == (i = n)
  <2>2. l \in Nat /\ e \in BOOLEAN /\ F(i) = Frame("DATA", l, e, b, "none", t)
    BY <2>1, Zenon
  <2> HIDE DEF l, e, F
  <2> QED
    BY <2>2 DEF Frame, Frames, FrameType, e
<1>3. q = [i \in 1 .. n |-> F(i)]
  BY Zenon DEF DataFramesFromBuffer
<1> HIDE DEF n, F, q
<1>4. q \in Seq(Frames) /\ Len(q) = n
  BY <1>1, <1>2, <1>3
<1>5. \A i \in 1 .. n : q[i] = F(i)
  BY <1>3, Zenon
<1>6. n \in 1 .. n /\ q # <<>>
  BY <1>1, <1>4
<1> QED
  BY <1>2, <1>4, <1>5, <1>6, ZenonT(30) DEF q

\* The frame of CloseLocal, and a RESET_STREAM.
LEMMA SingleFrames ==
  ASSUME NEW t \in Threads
  PROVE  /\ Frame("DATA", 0, TRUE, TRUE, "none", t) \in Frames
         /\ Frame("DATA", 0, TRUE, TRUE, "none", t).by = t
         /\ Frame("DATA", 0, TRUE, TRUE, "none", t).kind = "DATA"
         /\ Frame("DATA", 0, TRUE, TRUE, "none", t).endData
         /\ \A r \in {"cancel", "streamClosed"} :
              /\ ResetStreamFrame(r, t) \in Frames /\ ResetStreamFrame(r, t).kind = "RESET"
              /\ ResetStreamFrame(r, t).by = t
BY Zenon DEF Frame, ResetStreamFrame, Frames, FrameType

---------------------------------------------------------------------------
\* The goroutine t moves, and no other.
Moved(t) ==
  /\ DOMAIN pc' = Threads /\ job' \in [Threads -> Jobs]
  /\ \A u \in Threads : u # t => pc'[u] = pc[u] /\ job'[u] = job[u]

\* Goto moves t to l with the job j.
LEMMA GotoEffect ==
  ASSUME Types, NEW t \in Threads, NEW l, NEW j \in Jobs, Goto(t, l, j)
  PROVE  Moved(t) /\ pc'[t] = l /\ job'[t] = j
BY Zenon DEF Types, Goto, Moved
\* At moves t and keeps its job.
LEMMA AtEffect ==
  ASSUME Types, NEW t \in Threads, NEW a, NEW b, At(t, a, b)
  PROVE  Moved(t) /\ pc[t] = a /\ pc'[t] = b /\ job'[t] = job[t]
BY Zenon DEF Types, At, Moved
\* Return leaves t idle.
LEMMA ReturnEffect ==
  ASSUME Types, NEW t \in Threads, Return(t)
  PROVE  Moved(t) /\ pc'[t] = "idle" /\ job'[t] = NoJob
BY GotoEffect, NoJobFields, Zenon DEF Return

\* A code that is closed, or half closed, and a refusal stay, unless an update
\* of the code is lost.
StateKept ==
  \A s \in Sides : ~lost'[s] =>
    /\ ~lost[s] /\ (code[s] = "closed" => code'[s] = "closed")
    /\ Ended(s) => Ended(s)'
    /\ Refusing(s) => Refusing(s)'
\* writeMu is taken or released by t.
MutexKept(t) ==
  \A s \in Sides : writeMu'[s] = writeMu[s] \/ (s = Side(t) /\ writeMu[s] \in {t, Nobody})

\* The other goroutines are where they were.
LEMMA OthersOK ==
  ASSUME Types, NEW t \in Threads, Moved(t), StateKept, MutexKept(t),
         NEW u \in Threads, u # t, ThreadOK(u)
  PROVE  ThreadOK(u)'
<1> DEFINE s == Side(u)
<1>1. pc'[u] = pc[u] /\ job'[u] = job[u] /\ s \in Sides /\ u # Nobody
  BY Places, Zenon DEF Moved
<1>2. PlaceOK(u)' /\ TodoOK(u)'
  BY <1>1, Zenon DEF ThreadOK, PlaceOK, TodoOK, Sends
<1>3. LockOK(u)'
  <2>1. writeMu[s] = u => writeMu'[s] = u
    BY <1>1, Places, Zenon DEF MutexKept
  <2> QED
    BY <1>1, <2>1, Zenon DEF ThreadOK, LockOK
<1>4. CodeOK(u)'
  <2>1. ~lost'[s] => /\ ~lost[s] /\ (code[s] = "closed" => code'[s] = "closed")
                     /\ Ended(s) => Ended(s)'
    BY <1>1, Zenon DEF StateKept
  <2> QED
    BY <1>1, <2>1, Zenon DEF ThreadOK, CodeOK, Ended
<1> QED
  BY <1>2, <1>3, <1>4, Zenon DEF ThreadOK

\* The state is left alone.
LEMMA StateAlone == ASSUME UNCHANGED <<code, err, lost>> PROVE StateKept
BY Zenon DEF StateKept, Ended, Refusing

\* s is handling a frame with END_STREAM; t has sent one and is to close its
\* half.
Handling(s) ==
  /\ pc[s] \in {"enqueue", "readCode", "writeCode"}
  /\ job[s].op = "handleData" /\ job[s].todo[1].endStream
Closing(t) == job[t].op = "WriteEnd" /\ pc[t] \in {"write", "readCode", "writeCode"}

\* A step of t that puts nothing on the wire and takes nothing from it.
Quiet(t) ==
  /\ Types' /\ UNCHANGED <<link, sent, last, down>>
  /\ Moved(t) /\ StateKept /\ MutexKept(t) /\ ThreadOK(t)'
  /\ pc[t] # "write" \/ down
  /\ Closing(t) => Closing(t)' \/ Ended(Side(t))' \/ lost'[Side(t)] \/ down
  /\ t \in Sides /\ Handling(t) => Handling(t)' \/ Refusing(t)' \/ lost'[t]
  /\ \A s \in Sides : AcceptOK(s)'

\* It keeps the invariant.
LEMMA QuietStep ==
  ASSUME IInv, NEW t \in Threads, Quiet(t) PROVE IInv'
<1>1. \A u \in Threads : ThreadOK(u)'
  BY OthersOK, Zenon DEF IInv, Quiet
<1>2. ASSUME NEW s \in Sides PROVE EndOK(s)'
  <2> DEFINE u == last[s].by
  <2>1. EndOK(s) /\ s \in Threads /\ Side(s) = s
    BY Places, Zenon DEF IInv
  <2>2. UNCHANGED <<link, sent, last, down>>
    BY Zenon DEF Quiet
  <2>3. /\ StateKept
        /\ \A v \in Threads : v # t => pc'[v] = pc[v] /\ job'[v] = job[v]
    BY Zenon DEF Quiet, Moved
  <2>4. MessageOK(s)'
    <3>1. u \in Threads /\ pc[u] = "write" /\ ~down => pc'[u] = pc[u] /\ job'[u] = job[u]
      BY <2>3, Zenon DEF Quiet
    <3> QED
      BY <2>1, <2>2, <3>1, Zenon DEF EndOK, MessageOK, HalfWritten
  <2>5. LinkOK(s)'
    BY <2>1, <2>2, Zenon DEF EndOK, LinkOK
  <2>6. SentEndOK(s)'
    <3>1. u \in Threads /\ Side(u) = s /\ Closing(u) /\ ~down =>
            Closing(u)' \/ Ended(s)' \/ lost'[s]
      BY <2>3, Zenon DEF Quiet, Closing
    <3>2. ~lost'[s] => ~lost[s] /\ (Ended(s) => Ended(s)')
      BY <2>3, Zenon DEF StateKept
    <3> QED
      BY <2>1, <2>2, <3>1, <3>2, Zenon DEF EndOK, SentEndOK, Closing
  <2>7. ReceivedEndOK(s)'
    <3>1. Handling(s) => Handling(s)' \/ Refusing(s)' \/ lost'[s]
      BY <2>1, <2>3, Zenon DEF Quiet, Handling
    <3>2. ~lost'[s] => ~lost[s] /\ (Refusing(s) => Refusing(s)')
      BY <2>3, Zenon DEF StateKept
    <3> QED
      BY <2>1, <2>2, <3>1, <3>2, Zenon DEF EndOK, ReceivedEndOK, Handling
  <2> QED
    BY <2>4, <2>5, <2>6, <2>7, Zenon DEF Quiet, EndOK
<1> QED
  BY <1>1, <1>2, Zenon DEF IInv, Quiet

\* What is accepted stays, and so does the place of the read loop.
LEMMA AcceptKeep ==
  ASSUME \A s \in Sides : AcceptOK(s), NEW t \in Threads, Moved(t), StateKept,
         UNCHANGED <<link, sent, last, down, accepted>>,
         \A s \in Sides : rclosed'[s] /\ ~lost'[s] => rclosed[s] \/ code'[s] = "closed",
         pc[t] # "enqueue", pc'[t] # "enqueue"
  PROVE  \A s \in Sides : AcceptOK(s)'
<1> SUFFICES ASSUME NEW s \in Sides PROVE AcceptOK(s)'
  BY Zenon
<1>1. /\ pc[s] = "enqueue" => pc'[s] = pc[s] /\ job'[s] = job[s]
      /\ pc'[s] = "enqueue" => pc'[s] = pc[s]
  BY Places, Zenon DEF Moved
<1>2. ~lost'[s] => /\ ~lost[s] /\ (code[s] = "closed" => code'[s] = "closed")
                   /\ Refusing(s) => Refusing(s)'
  BY Zenon DEF StateKept
<1>3. AcceptOK(s) /\ Upcoming(s)' = Upcoming(s)
  BY Zenon DEF Upcoming
<1> QED
  BY <1>1, <1>2, <1>3, Zenon DEF AcceptOK

---------------------------------------------------------------------------
\* Nothing that the invariant is about changes.
LEMMA SameStep ==
  ASSUME IInv, UNCHANGED <<state, wire, down, accepted, rclosed, pc, job>>,
         got' \in [Sides -> Nat]
  PROVE  IInv'
<1>1. Types'
  BY Zenon DEF IInv, Types, state, wire
<1>2. ASSUME NEW t \in Threads PROVE ThreadOK(t)'
  <2>1. ThreadOK(t)
    BY Zenon DEF IInv
  <2> QED
    BY <2>1, Zenon DEF state, wire, ThreadOK, PlaceOK, TodoOK, LockOK, CodeOK, Ended, Sends
<1>3. ASSUME NEW s \in Sides PROVE EndOK(s)'
  <2>1. EndOK(s)
    BY Zenon DEF IInv
  <2> QED
    BY <2>1 DEF state, wire, EndOK, MessageOK, LinkOK, AcceptOK, SentEndOK, ReceivedEndOK,
                HalfWritten, Upcoming, Ended, Refusing
<1> QED
  BY <1>1, <1>2, <1>3, Zenon DEF IInv

\* A step of t that changes only where t is, and what has been read.
Control(t) ==
  /\ Moved(t) /\ UNCHANGED <<state, wire, down, accepted, rclosed>> /\ got' \in [Sides -> Nat]
  /\ pc[t] \notin {"write", "enqueue"} /\ pc'[t] # "enqueue"
  /\ Closing(t) => Closing(t)'
  /\ t \in Sides /\ Handling(t) => Handling(t)'

\* It keeps the invariant if t is where it may be.
LEMMA ControlQuiet ==
  ASSUME IInv, NEW t \in Threads, Control(t), ThreadOK(t)' PROVE IInv'
<1>1. UNCHANGED <<code, err, lost, writeMu, link, sent, last, down, accepted, rclosed>>
  BY Zenon DEF Control, state, wire
<1>2. Types'
  BY <1>1, Zenon DEF IInv, Types, Control, Moved
<1>3. StateKept /\ MutexKept(t)
  BY <1>1, StateAlone, Zenon DEF MutexKept
<1>4. \A s \in Sides : AcceptOK(s)'
  <2>1. \A s \in Sides : AcceptOK(s)
    BY Zenon DEF IInv, EndOK
  <2> QED
    BY <1>1, <1>3, <2>1, AcceptKeep, Zenon DEF Control
<1>5. Quiet(t)
  BY <1>1, <1>2, <1>3, <1>4, Zenon DEF Quiet, Control
<1> QED
  BY <1>5, QuietStep, Zenon

\* A call that starts at l with the frames q.
Fits(t, o, l, q) ==
  /\ \/ l = "lock" /\ o \in {"Write", "WriteEnd"}
     \/ l = "readCode" /\ o = "CloseLocal"
     \/ l = "close" /\ o = "Reset"
     \/ l = "tryRead" /\ o = "Read"
  /\ o # "Read" =>
       /\ q # <<>> /\ q[Len(q)].endData
       /\ \A i \in 1 .. Len(q) : /\ q[i].by = t /\ (q[i].kind = "DATA" \/ Len(q) = 1)
                                 /\ q[i].endStream => o \in {"WriteEnd", "CloseLocal"}

\* A call that is refused changes nothing; one that fits starts.
LEMMA BeginStep ==
  ASSUME IInv, NEW t \in Apps, NEW o \in Ops, NEW r, NEW l, NEW q \in Seq(Frames),
         Begin(t, o, r, l, q), Fits(t, o, l, q)
  PROVE  IInv'
<1>1. CASE UNCHANGED <<pc, job>>
  BY <1>1, SameStep, Zenon DEF Begin, reader, IInv, Types
<1>2. CASE Goto(t, l, Job(o, q))
  <2>1. t \in Threads /\ t \notin Sides /\ Types /\ pc[t] = "idle"
    BY Places, Zenon DEF IInv, Begin
  <2>2. /\ Moved(t) /\ pc'[t] = l /\ job'[t].op = o /\ job'[t].todo = q
    BY <1>2, <2>1, NewJob, GotoEffect
  <2>3. Control(t)
    BY <2>1, <2>2, Zenon DEF Control, Begin, reader, Fits, Closing, Types
  <2>4. PlaceOK(t)' /\ LockOK(t)' /\ CodeOK(t)'
    BY <2>1, <2>2, Zenon DEF Fits, PlaceOK, LockOK, CodeOK, Sends
  <2>5. TodoOK(t)'
    BY <2>1, <2>2, Zenon DEF Fits, TodoOK, Sends
  <2> QED
    BY <2>1, <2>3, <2>4, <2>5, ControlQuiet, Zenon DEF ThreadOK
<1> QED
  BY <1>1, <1>2, Zenon DEF Begin

\* A Write, with or without endStream, starts.
LEMMA WriteStep ==
  ASSUME IInv, NEW t \in Apps, NEW len \in Nat, NEW b \in BOOLEAN,
         NEW o \in {"Write", "WriteEnd"}, o = "Write" => ~b, NEW r,
         Begin(t, o, r, "lock", DataFramesFromBuffer(len, b, t))
  PROVE  IInv'
<1> DEFINE q == DataFramesFromBuffer(len, b, t)
<1>1. t \in Threads /\ o \in Ops
  BY Places, Zenon DEF Ops
<1>2. /\ q \in Seq(Frames) /\ q # <<>> /\ q[Len(q)].endData
      /\ \A i \in 1 .. Len(q) : q[i].by = t /\ q[i].kind = "DATA" /\ q[i].endStream = b
  BY <1>1, DataFrames
<1>3. Begin(t, o, r, "lock", q)
  BY Zenon
<1> HIDE DEF q
<1>4. Fits(t, o, "lock", q)
  <2>1. ASSUME NEW i \in 1 .. Len(q)
        PROVE  /\ q[i].by = t /\ q[i].kind = "DATA"
               /\ q[i].endStream => o \in {"WriteEnd", "CloseLocal"}
    <3>1. q[i].by = t /\ q[i].kind = "DATA" /\ q[i].endStream = b
      BY <1>2, Zenon
    <3>2. b => o = "WriteEnd"
      BY Zenon
    <3> QED
      BY <3>1, <3>2, Zenon
  <2>2. o \in {"Write", "WriteEnd"} /\ q # <<>> /\ q[Len(q)].endData
    BY <1>2, Zenon
  <2> QED
    BY <2>1, <2>2, Zenon DEF Fits
<1> QED
  BY <1>1, <1>2, <1>3, <1>4, BeginStep, Zenon

\* Write, CloseLocal, Reset and Read start.
LEMMA AppCallStep == ASSUME IInv, NEW t \in Apps, AppCall(t) PROVE IInv'
<1>0. t \in Threads
  BY Places, Zenon
<1>1. ASSUME NEW len \in Lengths, Write(t, len) PROVE IInv'
  <2>1. len \in Nat /\ FALSE \in BOOLEAN
    BY NumbersAssumption, Zenon
  <2> QED
    BY <1>1, <2>1, WriteStep, Zenon DEF Write
<1>2. ASSUME NEW len \in EndLengths, WriteEnd(t, len) PROVE IInv'
  <2>1. len \in Nat /\ TRUE \in BOOLEAN
    BY NumbersAssumption, Zenon
  <2> QED
    BY <1>2, <2>1, WriteStep, Zenon DEF WriteEnd
<1>3. CASE CloseLocalCall(t)
  <2> DEFINE f == Frame("DATA", 0, TRUE, TRUE, "none", t)
  <2>1. f \in Frames /\ f.by = t /\ f.kind = "DATA" /\ f.endData
    BY <1>0, SingleFrames, Zenon
  <2>2. Begin(t, "CloseLocal", SendData(code[Side(t)], err[Side(t)]), "readCode", <<f>>)
    BY <1>3, Zenon DEF CloseLocalCall
  <2> HIDE DEF f
  <2>3. Fits(t, "CloseLocal", "readCode", <<f>>) /\ "CloseLocal" \in Ops /\ <<f>> \in Seq(Frames)
    BY <2>1 DEF Fits, Ops
  <2> QED
    BY <2>2, <2>3, BeginStep, Zenon
<1>4. CASE Reset(t)
  <2> DEFINE f == ResetStreamFrame("cancel", t)
  <2>1. f \in Frames /\ f.by = t /\ f.kind = "RESET"
    BY <1>0, SingleFrames, Zenon
  <2>2. Begin(t, "Reset", SendResetStream(code[Side(t)], err[Side(t)]), "close", <<f>>)
    BY <1>4, Zenon DEF Reset
  <2> HIDE DEF f
  <2>3. f.endData = TRUE /\ f.endStream = FALSE
    BY <2>1, FrameFields, Zenon
  <2> DEFINE q == <<f>>
  <2>4. q \in Seq(Frames) /\ Len(q) = 1 /\ q # <<>> /\ q[1] = f /\ 1 .. 1 = {1}
    BY <2>1
  <2> HIDE DEF q
  <2>5. Fits(t, "Reset", "close", q)
    <3>1. \A i \in 1 .. Len(q) : q[i].by = t /\ Len(q) = 1 /\ ~q[i].endStream
      BY <2>1, <2>3, <2>4, Zenon
    <3>2. q[Len(q)].endData
      BY <2>3, <2>4, Zenon
    <3> QED
      BY <2>4, <3>1, <3>2, Zenon DEF Fits
  <2>6. Fits(t, "Reset", "close", <<f>>) /\ "Reset" \in Ops /\ <<f>> \in Seq(Frames)
    BY <2>4, <2>5, Zenon DEF Ops, q
  <2> QED
    BY <2>2, <2>6, BeginStep, Zenon
<1>5. CASE Read(t)
  <2>1. Begin(t, "Read", err[Side(t)] # "none", "tryRead", <<>>)
    BY <1>5, Zenon DEF Read
  <2>2. Fits(t, "Read", "tryRead", <<>>) /\ "Read" \in Ops /\ <<>> \in Seq(Frames)
    BY DEF Fits, Ops
  <2> QED
    BY <2>1, <2>2, BeginStep, Zenon
<1> QED
  BY <1>1, <1>2, <1>3, <1>4, <1>5, Zenon DEF AppCall

\* t returns: it is at rest.
LEMMA AtRest ==
  ASSUME NEW t \in Threads, pc'[t] = "idle", job'[t] = NoJob PROVE ThreadOK(t)'
<1>1. job'[t].op = "none"
  BY NoJobFields, Zenon
<1> QED
  BY <1>1, Zenon DEF ThreadOK, PlaceOK, TodoOK, LockOK, CodeOK, Sends

\* The steps of a Read.
LEMMA ReadStep ==
  ASSUME IInv, NEW t \in Apps, TryRead(t) \/ CheckRecv(t) \/ BlockingRead(t) PROVE IInv'
<1>0. t \in Threads /\ t \notin Sides /\ Types /\ ThreadOK(t) /\ Side(t) \in Sides
  BY Places, Zenon DEF IInv
<1>1. /\ UNCHANGED <<state, wire, down, accepted, rclosed>>
      /\ pc[t] \in {"tryRead", "checkRecv", "read"}
      /\ \/ Return(t)
         \/ At(t, "tryRead", "checkRecv") \/ At(t, "checkRecv", "read")
  BY Zenon DEF TryRead, CheckRecv, BlockingRead, Take, TakeEOF, reader
<1>2. got' \in [Sides -> Nat]
  <2>1. got' = got \/ \E n \in Nat : got' = [got EXCEPT ![Side(t)] = @ + n]
    <3>1. 1 .. accepted[Side(t)] - got[Side(t)] \subseteq Nat
      BY <1>0 DEF Types
    <3> QED
      BY <3>1, Zenon DEF TryRead, CheckRecv, BlockingRead, Take, TakeEOF, reader
  <2>2. got \in [Sides -> Nat]
    BY <1>0, Zenon DEF Types
  <2> QED
    BY <1>0, <2>1, <2>2
<1>3. CASE Return(t)
  <2>1. Moved(t) /\ pc'[t] = "idle" /\ job'[t] = NoJob
    BY <1>0, <1>3, ReturnEffect, Zenon
  <2>2. Control(t)
    BY <1>0, <1>1, <1>2, <2>1, Zenon DEF Control, Closing
  <2> QED
    BY <1>0, <2>1, <2>2, AtRest, ControlQuiet, Zenon
<1>4. ASSUME NEW a \in {"tryRead", "checkRecv"}, NEW b \in {"checkRecv", "read"}, At(t, a, b)
      PROVE  IInv'
  <2>1. Moved(t) /\ pc[t] = a /\ pc'[t] = b /\ job'[t] = job[t]
    BY <1>0, <1>4, AtEffect, Zenon
  <2>2. Control(t)
    BY <1>0, <1>1, <1>2, <2>1, Zenon DEF Control, Closing
  <2>3. PlaceOK(t)' /\ LockOK(t)' /\ CodeOK(t)'
    BY <1>0, <2>1, Zenon DEF ThreadOK, PlaceOK, LockOK, CodeOK, Sends
  <2>4. TodoOK(t)'
    BY <1>0, <2>1 DEF ThreadOK, TodoOK, Sends
  <2> QED
    BY <1>0, <2>2, <2>3, <2>4, ControlQuiet, Zenon DEF ThreadOK
<1> QED
  BY <1>1, <1>3, <1>4, Zenon

\* The switch of CloseLocal, or of CloseRemote, reads the code.
LEMMA ReadCodeStep == ASSUME IInv, NEW t \in Threads, ReadCode(t) PROVE IInv'
<1> DEFINE c == code[Side(t)]
           j == [job[t] EXCEPT !.snap = c]
<1>0. Types /\ ThreadOK(t) /\ c \in Codes /\ job[t] \in Jobs
  BY Places, Zenon DEF IInv, Types
<1>1. j \in Jobs /\ j.op = job[t].op /\ j.todo = job[t].todo
  <2> HIDE DEF c
  <2> QED
    BY <1>0, Zenon DEF Jobs
<1>2. Moved(t) /\ pc[t] = "readCode" /\ pc'[t] = "writeCode" /\ job'[t] = j
  <2> HIDE DEF j
  <2>1. pc[t] = "readCode" /\ Goto(t, "writeCode", j)
    BY Zenon DEF ReadCode, j
  <2> QED
    BY <1>0, <1>1, <2>1, GotoEffect, Zenon
<1> HIDE DEF j
<1>3. Control(t)
  BY <1>0, <1>1, <1>2, Zenon DEF Control, ReadCode, reader, Closing, Handling, Types
<1>4. PlaceOK(t)' /\ LockOK(t)' /\ CodeOK(t)'
  BY <1>0, <1>1, <1>2, Zenon DEF ThreadOK, PlaceOK, LockOK, CodeOK, Sends, ReadCode, wire
<1>5. TodoOK(t)'
  BY <1>0, <1>1, <1>2 DEF ThreadOK, TodoOK, Sends
<1> QED
  BY <1>3, <1>4, <1>5, ControlQuiet, Zenon DEF ThreadOK

\* A step of t that leaves the wire and what is accepted alone.
LEMMA MoveStep ==
  ASSUME IInv, NEW t \in Threads, Moved(t), Types', UNCHANGED <<link, sent, last, down, accepted>>,
         StateKept, MutexKept(t), ThreadOK(t)', pc[t] # "enqueue", pc'[t] # "enqueue",
         \A s \in Sides : rclosed'[s] /\ ~lost'[s] => rclosed[s] \/ code'[s] = "closed",
         pc[t] # "write" \/ down,
         Closing(t) => Ended(Side(t))' \/ lost'[Side(t)] \/ down,
         t \in Sides /\ Handling(t) => Refusing(t)' \/ lost'[t]
  PROVE  IInv'
<1>1. \A s \in Sides : AcceptOK(s)
  BY Zenon DEF IInv, EndOK
<1>2. \A s \in Sides : AcceptOK(s)'
  BY <1>1, AcceptKeep, Zenon
<1>3. Quiet(t)
  BY <1>2, Zenon DEF Quiet
<1> QED
  BY <1>3, QuietStep, Zenon

\* What is known of t before its step.
LEMMA Before ==
  ASSUME IInv, NEW t \in Threads
  PROVE  /\ Types /\ PlaceOK(t) /\ TodoOK(t) /\ LockOK(t) /\ CodeOK(t) /\ Side(t) \in Sides
         /\ job[t] \in Jobs /\ t # Nobody
BY Places, Zenon DEF IInv, ThreadOK, Types

\* A goroutine that goes on with the same job keeps its frames.
LEMMA SameTodo == ASSUME NEW t \in Threads, TodoOK(t), job'[t] = job[t] PROVE TodoOK(t)'
BY Zenon DEF TodoOK, Sends

\* state.Close.
LEMMA CloseStep == ASSUME IInv, NEW t \in Threads, Close(t) PROVE IInv' /\ StateKept
<1> DEFINE l == IF job[t].op = "Reset" THEN "closeReader" ELSE "setError"
<1>1. Moved(t) /\ pc[t] = "close" /\ pc'[t] = l /\ job'[t] = job[t]
  BY Before, AtEffect DEF Close
<1>2. /\ UNCHANGED <<err, lost, writeMu, link, sent, last, down, accepted, got, rclosed>>
      /\ code' = [code EXCEPT ![Side(t)] = "closed"]
  BY Zenon DEF Close, wire, reader
<1>3. Types'
  BY <1>1, <1>2, Before, Zenon DEF Types, Moved, Codes
<1>4. code'[Side(t)] = "closed" /\ \A s \in Sides : code'[s] \in {code[s], "closed"}
  BY <1>2, Before, Zenon DEF Types
<1>5. StateKept /\ MutexKept(t)
  BY <1>2, <1>4, Zenon DEF StateKept, MutexKept, Ended, Refusing, RecvData
<1>6. PlaceOK(t)' /\ LockOK(t)' /\ CodeOK(t)' /\ TodoOK(t)'
  <2>1. PlaceOK(t)'
    BY <1>1, Before, Zenon DEF PlaceOK
  <2>2. LockOK(t)' /\ CodeOK(t)'
    BY <1>1, <1>4, Zenon DEF LockOK, CodeOK
  <2> QED
    BY <1>1, <2>1, <2>2, Before, SameTodo, Zenon
<1>7. ~Closing(t) /\ ~Handling(t) /\ pc'[t] # "enqueue"
  BY <1>1, Zenon DEF Closing, Handling
<1> QED
  BY <1>1, <1>2, <1>3, <1>5, <1>6, <1>7, MoveStep, Zenon DEF ThreadOK

\* state.SetError.
LEMMA SetErrorStep ==
  ASSUME IInv, NEW s \in Sides, SetError(s)
  PROVE  IInv' /\ StateKept /\ err'[s] # "none" /\ \A r \in Sides : r # s => err'[r] = err[r]
<1> DEFINE q == job[s].todo
<1>0. s \in Threads /\ Side(s) = s /\ s \notin Apps
  BY Places, Zenon
<1>1. Moved(s) /\ pc[s] = "setError" /\ pc'[s] = "closeReader" /\ job'[s] = job[s]
  BY <1>0, Before, AtEffect, Zenon DEF SetError
<1>2. /\ UNCHANGED <<code, lost, writeMu, link, sent, last, down, accepted, got, rclosed>>
      /\ err' = [err EXCEPT ![s] = Head(q).reason]
  BY Zenon DEF SetError, wire, reader
<1>3. Head(q).reason # "none"
  <2>1. job[s].op = "handleReset" /\ q \in Seq(Frames)
    BY <1>0, <1>1, Before, JobFields, Zenon DEF PlaceOK, Sends
  <2>2. q # <<>> /\ q[1].kind = "RESET"
    BY <1>0, <2>1, Before, Zenon DEF TodoOK
  <2> HIDE DEF q
  <2>3. Head(q) = q[1] /\ q[1] \in Frames
    BY <2>1, <2>2
  <2> QED
    BY <2>2, <2>3, FrameFields, Zenon
<1>4. Types'
  BY <1>0, <1>1, <1>2, Before, Zenon DEF Types, Moved
<1>5. err'[s] # "none" /\ \A r \in Sides : r # s => err'[r] = err[r]
  BY <1>0, <1>2, <1>3, Before, Zenon DEF Types
<1>6. StateKept /\ MutexKept(s)
  BY <1>2, <1>5, Zenon DEF StateKept, MutexKept, Ended, Refusing, RecvData
<1>7. PlaceOK(s)' /\ LockOK(s)' /\ CodeOK(s)' /\ TodoOK(s)'
  <2>1. PlaceOK(s)'
    BY <1>0, <1>1, Before, Zenon DEF PlaceOK
  <2>2. LockOK(s)' /\ CodeOK(s)'
    BY <1>0, <1>1, <1>2, Before, Zenon DEF LockOK, CodeOK, Ended
  <2> QED
    BY <1>0, <1>1, <2>1, <2>2, Before, SameTodo, Zenon
<1>8. ~Closing(s) /\ ~Handling(s)
  BY <1>1, Zenon DEF Closing, Handling
<1> QED
  BY <1>0, <1>1, <1>2, <1>4, <1>5, <1>6, <1>7, <1>8, MoveStep, Zenon DEF ThreadOK

\* reader.internalClose: the code is closed by then.
LEMMA CloseReaderStep == ASSUME IInv, NEW t \in Threads, CloseReader(t) PROVE IInv'
<1>1. /\ pc[t] = "closeReader"
      /\ UNCHANGED <<code, err, lost, writeMu, link, sent, last, down, accepted, got>>
      /\ rclosed' = [rclosed EXCEPT ![Side(t)] = TRUE]
  BY Zenon DEF CloseReader, state, wire
<1>2. \/ /\ job[t].op = "Reset" /\ Moved(t) /\ pc'[t] = "lock" /\ job'[t] = job[t]
      \/ Moved(t) /\ pc'[t] = "idle" /\ job'[t] = NoJob
  BY Before, AtEffect, ReturnEffect DEF CloseReader
<1>3. Types' /\ Moved(t)
  BY <1>1, <1>2, Before, Zenon DEF Types, Moved
<1>4. StateKept /\ MutexKept(t)
  BY <1>1, StateAlone, Zenon DEF MutexKept
<1>5. \A s \in Sides : rclosed'[s] /\ ~lost'[s] => rclosed[s] \/ code'[s] = "closed"
  BY <1>1, Before, Zenon DEF CodeOK, Types
<1>6. ThreadOK(t)'
  <2>1. CASE job[t].op = "Reset" /\ pc'[t] = "lock" /\ job'[t] = job[t]
    <3>1. PlaceOK(t)'
      BY <2>1, Before, Zenon DEF PlaceOK, Sends
    <3>2. LockOK(t)' /\ CodeOK(t)'
      BY <2>1, Zenon DEF LockOK, CodeOK
    <3> QED
      BY <2>1, <3>1, <3>2, Before, SameTodo, Zenon DEF ThreadOK
  <2> QED
    BY <1>2, <2>1, AtRest, Zenon
<1>7. ~Closing(t) /\ ~Handling(t) /\ pc'[t] # "enqueue"
  BY <1>1, <1>2, Zenon DEF Closing, Handling
<1> QED
  BY <1>1, <1>3, <1>4, <1>5, <1>6, <1>7, MoveStep, Zenon

\* writeMu.Lock.
LEMMA LockStep == ASSUME IInv, NEW t \in Threads, Lock(t) PROVE IInv'
<1>1. Moved(t) /\ pc[t] = "lock" /\ pc'[t] = "write" /\ job'[t] = job[t]
  BY Before, AtEffect, Zenon DEF Lock
<1>2. /\ UNCHANGED <<code, err, lost, link, sent, last, down, accepted, got, rclosed>>
      /\ writeMu[Side(t)] = Nobody /\ writeMu' = [writeMu EXCEPT ![Side(t)] = t]
  BY Zenon DEF Lock, Free, state, reader
<1>3. Types'
  BY <1>1, <1>2, Before, Zenon DEF Types, Moved
<1>4. StateKept /\ MutexKept(t) /\ writeMu'[Side(t)] = t
  BY <1>2, StateAlone, Before, Zenon DEF MutexKept, Types
<1>5. PlaceOK(t)' /\ LockOK(t)' /\ CodeOK(t)' /\ TodoOK(t)'
  <2>1. PlaceOK(t)'
    BY <1>1, Before, Zenon DEF PlaceOK, Sends
  <2>2. LockOK(t)' /\ CodeOK(t)'
    BY <1>1, <1>2, <1>4, Before, Zenon DEF LockOK, CodeOK, Ended
  <2> QED
    BY <1>1, <2>1, <2>2, Before, SameTodo, Zenon
<1>6. ~Closing(t) /\ ~Handling(t)
  BY <1>1, Zenon DEF Closing, Handling
<1> QED
  BY <1>1, <1>2, <1>3, <1>4, <1>5, <1>6, MoveStep, Zenon DEF ThreadOK

\* The new code is written, and an update in between is lost.
LEMMA WriteCodeStep == ASSUME IInv, NEW t \in Threads, WriteCode(t) PROVE IInv' /\ StateKept
<1> DEFINE s == Side(t)
           c == IF job[t].op = "handleData" THEN CloseRemote(job[t].snap)
                ELSE CloseLocal(job[t].snap)
<1>1. /\ pc[t] = "writeCode"
      /\ UNCHANGED <<err, link, sent, last, down, accepted, got, rclosed>>
      /\ code' = [code EXCEPT ![s] = c]
      /\ lost' = [lost EXCEPT ![s] = lost[s] \/ code[s] # job[t].snap]
      /\ writeMu' = IF job[t].op = "WriteEnd" THEN [writeMu EXCEPT ![s] = Nobody] ELSE writeMu
  BY Zenon DEF WriteCode, reader
<1>2. \/ /\ job[t].op = "CloseLocal" /\ Moved(t) /\ pc'[t] = "lock" /\ job'[t] = job[t]
      \/ /\ job[t].op # "CloseLocal" /\ Moved(t) /\ pc'[t] = "idle" /\ job'[t] = NoJob
  BY Before, AtEffect, ReturnEffect DEF WriteCode
<1>3. /\ s \in Sides /\ code[s] \in Codes /\ job[t].snap \in Codes /\ lost[s] \in BOOLEAN
      /\ job[t].op \in {"WriteEnd", "CloseLocal", "handleData"}
  BY <1>1, Before, JobFields, Zenon DEF PlaceOK, Types
<1>4. /\ c \in Codes
      /\ job[t].op # "handleData" => c \in {"halfClosedLocal", "closed"}
      /\ job[t].op = "handleData" => c \in {"halfClosedRemote", "closed"}
      /\ job[t].snap = "closed" => c = "closed"
      /\ job[t].snap = "halfClosedLocal" => c \in {"halfClosedLocal", "closed"}
      /\ job[t].snap = "halfClosedRemote" => c \in {"halfClosedRemote", "closed"}
  BY <1>3, Zenon DEF Codes, CloseLocal, CloseRemote
<1> HIDE DEF c
<1>5. /\ code'[s] = c /\ \A r \in Sides : r # s => code'[r] = code[r] /\ lost'[r] = lost[r]
      /\ ~lost'[s] => ~lost[s] /\ code[s] = job[t].snap
  BY <1>1, <1>3, Before, Zenon DEF Types
<1>6. Types' /\ Moved(t)
  <2>1. (lost[s] \/ code[s] # job[t].snap) \in BOOLEAN
    BY Zenon
  <2> QED
    BY <1>1, <1>2, <1>3, <1>4, <2>1, Before, Zenon DEF Types, Moved
<1>7. StateKept
  <2> SUFFICES ASSUME NEW r \in Sides, ~lost'[r]
               PROVE  /\ ~lost[r] /\ (code[r] = "closed" => code'[r] = "closed")
                      /\ Ended(r) => Ended(r)'
                      /\ Refusing(r) => Refusing(r)'
    BY Zenon DEF StateKept
  <2>1. CASE r # s
    BY <1>1, <1>5, <2>1, Zenon DEF Ended, Refusing
  <2>2. CASE r = s
    BY <1>1, <1>4, <1>5, <2>2, Zenon DEF Ended, Refusing, RecvData
  <2> QED
    BY <2>1, <2>2, Zenon
<1>8. MutexKept(t)
  <2>1. job[t].op = "WriteEnd" => writeMu[s] = t
    BY <1>1, Before, Zenon DEF LockOK
  <2> QED
    BY <1>1, <2>1, Before, Zenon DEF MutexKept, Types
<1>9. ThreadOK(t)'
  <2>1. CASE job[t].op = "CloseLocal" /\ pc'[t] = "lock" /\ job'[t] = job[t]
    <3>1. PlaceOK(t)'
      BY <2>1, Before, Zenon DEF PlaceOK, Sends
    <3>2. LockOK(t)' /\ CodeOK(t)'
      BY <1>4, <1>5, <2>1, Zenon DEF LockOK, CodeOK, Ended
    <3> QED
      BY <2>1, <3>1, <3>2, Before, SameTodo, Zenon DEF ThreadOK
  <2> QED
    BY <1>2, <2>1, AtRest, Zenon
<1>10. Closing(t) => Ended(s)'
  BY <1>4, <1>5, Zenon DEF Closing, Ended
<1>11. t \in Sides /\ Handling(t) => Refusing(t)'
  BY <1>4, <1>5, Places, Zenon DEF Handling, Refusing, RecvData
<1>12. pc[t] # "enqueue" /\ pc'[t] # "enqueue" /\ pc[t] # "write"
  BY <1>1, <1>2, Zenon
<1> QED
  BY <1>1, <1>6, <1>7, <1>8, <1>9, <1>10, <1>11, <1>12, MoveStep, Zenon

\* conn.Write fails.
LEMMA EmitFailsStep == ASSUME IInv, NEW t \in Threads, EmitFails(t) PROVE IInv'
<1>1. Moved(t) /\ pc[t] = "write" /\ pc'[t] = "idle" /\ job'[t] = NoJob /\ down
  BY Before, ReturnEffect, Zenon DEF EmitFails
<1>2. /\ UNCHANGED <<code, err, lost, link, sent, last, down, accepted, got, rclosed>>
      /\ writeMu[Side(t)] = t /\ writeMu' = [writeMu EXCEPT ![Side(t)] = Nobody]
  BY <1>1, Before, Zenon DEF EmitFails, state, reader, LockOK
<1>3. Types'
  BY <1>1, <1>2, Before, Zenon DEF Types, Moved
<1>4. StateKept /\ MutexKept(t)
  BY <1>2, StateAlone, Before, Zenon DEF MutexKept, Types
<1>5. ThreadOK(t)'
  BY <1>1, AtRest, Zenon
<1>6. ~Handling(t)
  BY <1>1, Zenon DEF Handling
<1> QED
  BY <1>1, <1>2, <1>3, <1>4, <1>5, <1>6, MoveStep, Zenon

\* reader.Enqueue.
LEMMA EnqueueStep == ASSUME IInv, NEW s \in Sides, Enqueue(s) PROVE IInv'
<1> DEFINE f == Head(job[s].todo)
<1>0. s \in Threads /\ Side(s) = s
  BY Places, Zenon
<1>1. /\ pc[s] = "enqueue"
      /\ UNCHANGED <<code, err, lost, writeMu, link, sent, last, down, got, rclosed>>
      /\ accepted' = IF rclosed[s] THEN accepted ELSE [accepted EXCEPT ![s] = accepted[s] + f.len]
  BY Zenon DEF Enqueue, state, wire
<1>2. /\ job[s].op = "handleData" /\ f = job[s].todo[1] /\ f \in Frames
      /\ f.len \in Nat /\ f.from \in Nat /\ f.endStream \in BOOLEAN
  <2>1. job[s].op = "handleData" /\ job[s].todo \in Seq(Frames) /\ job[s].todo # <<>>
    BY <1>0, <1>1, Before, JobFields, Zenon DEF PlaceOK, TodoOK
  <2>2. f = job[s].todo[1] /\ f \in Frames
    BY <2>1
  <2> HIDE DEF f
  <2> QED
    BY <2>1, <2>2, FrameFields, Zenon
<1>3. \/ f.endStream /\ Moved(s) /\ pc'[s] = "readCode" /\ job'[s] = job[s]
      \/ ~f.endStream /\ Moved(s) /\ pc'[s] = "idle" /\ job'[s] = NoJob
  BY <1>0, Before, AtEffect, ReturnEffect DEF Enqueue
<1> HIDE DEF f
<1>4. Types' /\ Moved(s)
  BY <1>0, <1>1, <1>2, <1>3, Before DEF Types, Moved
<1>5. StateKept /\ MutexKept(s)
  BY <1>1, StateAlone, Zenon DEF MutexKept
<1>6. ThreadOK(s)'
  <2>1. CASE pc'[s] = "readCode" /\ job'[s] = job[s]
    <3>1. PlaceOK(s)'
      BY <1>0, <1>2, <2>1, Before, Zenon DEF PlaceOK, Sends
    <3>2. LockOK(s)' /\ CodeOK(s)'
      BY <1>2, <2>1, Zenon DEF LockOK, CodeOK
    <3> QED
      BY <1>0, <2>1, <3>1, <3>2, Before, SameTodo, Zenon DEF ThreadOK
  <2> QED
    BY <1>0, <1>3, <2>1, AtRest, Zenon
<1>7. ASSUME NEW r \in Sides PROVE AcceptOK(r)'
  <2>1. AcceptOK(r) /\ Upcoming(r)' = Upcoming(r) /\ Refusing(r)' = Refusing(r)
    BY <1>1, Zenon DEF IInv, EndOK, Upcoming, Refusing
  <2>2. CASE r # s
    <3>1. accepted'[r] = accepted[r] /\ pc'[r] = pc[r] /\ job'[r] = job[r]
      BY <1>0, <1>1, <1>4, <2>2, Before, Places, Zenon DEF Types, Moved
    <3> QED
      BY <1>1, <2>1, <3>1, Zenon DEF AcceptOK
  <2>3. CASE r = s
    <3>1. accepted'[s] = IF rclosed[s] THEN accepted[s] ELSE accepted[s] + f.len
      BY <1>0, <1>1, Before, Zenon DEF Types
    <3>2. code[s] = "closed" => Refusing(s)
      BY Zenon DEF Refusing, RecvData
    <3>3. pc'[s] # "enqueue"
      BY <1>3, Zenon
    <3> QED
      BY <1>1, <1>2, <2>1, <2>3, <3>1, <3>2, <3>3, Zenon DEF AcceptOK
  <2> QED
    BY <2>2, <2>3, Zenon
<1>8. ~Closing(s) /\ (Handling(s) => Handling(s)')
  BY <1>1, <1>2, <1>3, Zenon DEF Closing, Handling
<1>9. Quiet(s)
  BY <1>1, <1>4, <1>5, <1>6, <1>7, <1>8, Zenon DEF Quiet
<1> QED
  BY <1>0, <1>9, QuietStep, Zenon

---------------------------------------------------------------------------
\* A queue of frames with one more.
LEMMA ChainAppend ==
  ASSUME NEW q \in Seq(Frames), NEW n \in Nat, NEW f \in Frames, Chain(q, n), f.from = n
  PROVE  LET r == Append(q, f)
         IN  /\ r \in Seq(Frames) /\ r # <<>> /\ r[Len(r)] = f /\ Chain(r, n + f.len)
             /\ r[1].from = IF q = <<>> THEN n ELSE q[1].from
<1> DEFINE r == Append(q, f)
<1>1. /\ r \in Seq(Frames) /\ Len(r) = Len(q) + 1 /\ Len(q) \in Nat /\ r[Len(r)] = f
      /\ \A i \in 1 .. Len(q) : r[i] = q[i]
  OBVIOUS
<1>2. r # <<>>
  BY <1>1
<1> HIDE DEF r
<1>3. ASSUME NEW i \in 1 .. Len(r) - 1 PROVE r[i].from + r[i].len = r[i + 1].from
  <2>1. CASE i = Len(q)
    <3>1. q # <<>> /\ r[i] = q[Len(q)] /\ r[i + 1] = f
      BY <1>1, <2>1
    <3> QED
      BY <2>1, <3>1, Zenon DEF Chain
  <2>2. CASE i # Len(q)
    <3>1. i \in 1 .. Len(q) - 1 /\ r[i] = q[i] /\ r[i + 1] = q[i + 1]
      BY <1>1, <2>2
    <3> QED
      BY <3>1, Zenon DEF Chain
  <2> QED
    BY <2>1, <2>2, Zenon
<1>4. Chain(r, n + f.len)
  BY <1>1, <1>3, Zenon DEF Chain
<1>5. r[1].from = IF q = <<>> THEN n ELSE q[1].from
  <2>1. CASE q = <<>>
    BY <1>1, <2>1
  <2>2. CASE q # <<>>
    BY <1>1, <2>2
  <2> QED
    BY <2>1, <2>2, Zenon
<1> QED
  BY <1>1, <1>2, <1>4, <1>5, Zenon DEF r

\* A queue of frames with one less.
LEMMA ChainTail ==
  ASSUME NEW q \in Seq(Frames), NEW n \in Nat, q # <<>>, Chain(q, n)
  PROVE  LET r == Tail(q)
         IN  /\ r \in Seq(Frames) /\ Chain(r, n)
             /\ q[1].from + q[1].len = IF r = <<>> THEN n ELSE r[1].from
             /\ r # <<>> => r[Len(r)] = q[Len(q)]
             /\ r = <<>> => q[1] = q[Len(q)]
             /\ Head(q) = q[1] /\ q[1] \in Frames
<1> DEFINE r == Tail(q)
<1>1. /\ r \in Seq(Frames) /\ Len(r) = Len(q) - 1 /\ Len(q) \in Nat \ {0} /\ Len(r) \in Nat
      /\ \A i \in 1 .. Len(r) : r[i] = q[i + 1]
      /\ Head(q) = q[1] /\ q[1] \in Frames
  OBVIOUS
<1> HIDE DEF r
<1>2. r = <<>> <=> Len(r) = 0
  BY <1>1
<1>3. r # <<>> => r[Len(r)] = q[Len(q)]
  <2>1. r # <<>> => Len(r) \in 1 .. Len(r) /\ Len(r) + 1 = Len(q)
    BY <1>1, <1>2
  <2> QED
    BY <1>1, <2>1, Zenon
<1>4. r = <<>> => q[1] = q[Len(q)]
  <2>1. r = <<>> => Len(q) = 1
    BY <1>1, <1>2
  <2> QED
    BY <2>1, Zenon
<1>5. ASSUME NEW i \in 1 .. Len(r) - 1 PROVE r[i].from + r[i].len = r[i + 1].from
  <2>1. i + 1 \in 1 .. Len(q) - 1 /\ r[i] = q[i + 1] /\ r[i + 1] = q[(i + 1) + 1]
    BY <1>1
  <2> QED
    BY <2>1, Zenon DEF Chain
<1>6. Chain(r, n)
  BY <1>3, <1>5, Zenon DEF Chain
<1>7. q[1].from + q[1].len = IF r = <<>> THEN n ELSE r[1].from
  <2>1. CASE r = <<>>
    BY <1>4, <2>1, Zenon DEF Chain
  <2>2. CASE r # <<>>
    <3>1. 1 \in 1 .. Len(q) - 1 /\ r[1] = q[1 + 1]
      BY <1>1, <1>2, <2>2
    <3> QED
      BY <2>2, <3>1, Zenon DEF Chain
  <2> QED
    BY <2>1, <2>2, Zenon
<1> QED
  BY <1>1, <1>3, <1>4, <1>6, <1>7, Zenon DEF r

\* What the read loop does with the frame it takes.
LEMMA ReceiveDoes ==
  ASSUME IInv, NEW s \in Sides, Receive(s)
  PROVE  LET f == link[s][1]
         IN  /\ UNCHANGED <<code, err, lost, writeMu, sent, last, down, accepted, got, rclosed>>
             /\ link[s] # <<>> /\ link' = [link EXCEPT ![s] = Tail(link[s])]
             /\ f \in Frames /\ Moved(s) /\ pc[s] = "idle"
             /\ \/ /\ f.kind = "DATA" => Refusing(s)
                   /\ pc'[s] = "lock" /\ job'[s].op = "reply"
                   /\ job'[s].todo = <<ResetStreamFrame("streamClosed", s)>>
                \/ /\ f.kind = "RESET" /\ pc'[s] = "close" /\ job'[s].op = "handleReset"
                   /\ job'[s].todo = <<f>>
                \/ /\ f.kind = "DATA" /\ ~Refusing(s)
                   /\ pc'[s] = "enqueue" /\ job'[s].op = "handleData" /\ job'[s].todo = <<f>>
<1> DEFINE f == Head(link[s])
           g == ResetStreamFrame("streamClosed", s)
<1>0. s \in Threads /\ Types
  BY Places, Zenon DEF IInv
<1>1. /\ UNCHANGED <<code, err, lost, writeMu, sent, last, down, accepted, got, rclosed>>
      /\ link[s] # <<>> /\ link' = [link EXCEPT ![s] = Tail(link[s])] /\ pc[s] = "idle"
  BY Zenon DEF Receive, state, reader
<1>2. f = link[s][1] /\ f \in Frames
  <2>1. link[s] \in Seq(Frames)
    BY <1>0, Zenon DEF Types
  <2> QED
    BY <1>1, <2>1
<1>3. \/ (f.kind = "DATA" => Refusing(s)) /\ Goto(s, "lock", Job("reply", <<g>>))
      \/ f.kind = "RESET" /\ Goto(s, "close", Job("handleReset", <<f>>))
      \/ f.kind = "DATA" /\ ~Refusing(s) /\ Goto(s, "enqueue", Job("handleData", <<f>>))
  BY Zenon DEF Receive, Refusing
<1> HIDE DEF f
<1>4. /\ <<g>> \in Seq(Frames) /\ <<f>> \in Seq(Frames)
      /\ "reply" \in Ops /\ "handleReset" \in Ops /\ "handleData" \in Ops
  <2>1. g \in Frames
    BY <1>0, SingleFrames, Zenon
  <2> HIDE DEF g
  <2> QED
    BY <1>2, <2>1 DEF Ops
<1> HIDE DEF g
<1>5. ASSUME NEW o \in Ops, NEW q \in Seq(Frames), NEW l, Goto(s, l, Job(o, q))
      PROVE  Moved(s) /\ pc'[s] = l /\ job'[s].op = o /\ job'[s].todo = q
  BY <1>0, <1>5, NewJob, GotoEffect
<1>6. \/ /\ f.kind = "DATA" => Refusing(s)
         /\ Moved(s) /\ pc'[s] = "lock" /\ job'[s].op = "reply" /\ job'[s].todo = <<g>>
      \/ /\ f.kind = "RESET" /\ Moved(s)
         /\ pc'[s] = "close" /\ job'[s].op = "handleReset" /\ job'[s].todo = <<f>>
      \/ /\ f.kind = "DATA" /\ ~Refusing(s) /\ Moved(s)
         /\ pc'[s] = "enqueue" /\ job'[s].op = "handleData" /\ job'[s].todo = <<f>>
  BY <1>3, <1>4, <1>5, Zenon
<1> QED
  BY <1>1, <1>2, <1>6, Zenon DEF g

\* handleResetStream and handleData, up to the first check.
LEMMA ReceiveStep == ASSUME IInv, NEW s \in Sides, Receive(s) PROVE IInv'
<1> DEFINE f == link[s][1]
           g == ResetStreamFrame("streamClosed", s)
<1>0. s \in Threads /\ Side(s) = s /\ Peer(s) \in Sides /\ Peer(s) # s /\ Types /\ EndOK(s)
  BY Places, Zenon DEF IInv
<1>1. /\ UNCHANGED <<code, err, lost, writeMu, sent, last, down, accepted, got, rclosed>>
      /\ link[s] # <<>> /\ link' = [link EXCEPT ![s] = Tail(link[s])]
      /\ f \in Frames /\ Moved(s) /\ pc[s] = "idle"
  BY ReceiveDoes, Zenon
<1>2. \/ /\ f.kind = "DATA" => Refusing(s)
         /\ pc'[s] = "lock" /\ job'[s].op = "reply" /\ job'[s].todo = <<g>>
      \/ /\ f.kind = "RESET"
         /\ pc'[s] = "close" /\ job'[s].op = "handleReset" /\ job'[s].todo = <<f>>
      \/ /\ f.kind = "DATA" /\ ~Refusing(s)
         /\ pc'[s] = "enqueue" /\ job'[s].op = "handleData" /\ job'[s].todo = <<f>>
  BY ReceiveDoes, Zenon
<1>3. /\ g \in Frames /\ g.kind = "RESET" /\ g.by = s /\ g.endData /\ ~g.endStream
      /\ f.kind \in {"DATA", "RESET"} /\ f.from \in Nat /\ f.len \in Nat
      /\ f.kind = "RESET" => f.len = 0 /\ ~f.endStream
  <2>1. g \in Frames /\ g.kind = "RESET" /\ g.by = s
    BY <1>0, SingleFrames, Zenon
  <2> HIDE DEF f, g
  <2> QED
    BY <1>1, <2>1, FrameFields, Zenon
<1>4. /\ link[s] \in Seq(Frames) /\ sent[Peer(s)] \in Nat /\ Chain(link[s], sent[Peer(s)])
      /\ link[s][Len(link[s])] = last[Peer(s)] /\ ~down
  BY <1>0, <1>1, Zenon DEF EndOK, LinkOK, Types
<1>5. /\ link'[s] = Tail(link[s]) /\ link'[s] \in Seq(Frames)
      /\ \A r \in Sides : r # s => link'[r] = link[r]
      /\ Chain(link'[s], sent[Peer(s)])
      /\ f.from + f.len = Upcoming(s)' /\ f.from = Upcoming(s)
      /\ link'[s] # <<>> => link'[s][Len(link'[s])] = last[Peer(s)]
      /\ link'[s] = <<>> => f = last[Peer(s)]
  <2>1. link'[s] = Tail(link[s]) /\ \A r \in Sides : r # s => link'[r] = link[r]
    BY <1>0, <1>1, Zenon DEF Types
  <2> QED
    BY <1>1, <1>4, <2>1, ChainTail, Zenon DEF Upcoming
<1> HIDE DEF f, g
<1>6. Types'
  BY <1>0, <1>1, <1>5, Zenon DEF Types, Moved
<1>7. StateKept /\ MutexKept(s)
  BY <1>1, StateAlone, Zenon DEF MutexKept
<1>8. ThreadOK(s)'
  <2> DEFINE q == job'[s].todo
  <2>1. PlaceOK(s)' /\ LockOK(s)' /\ CodeOK(s)'
    BY <1>0, <1>2, Zenon DEF PlaceOK, LockOK, CodeOK, Sends
  <2>2. \/ job'[s].op = "reply" /\ Len(q) = 1 /\ q # <<>> /\ q[1] = g
        \/ job'[s].op = "handleReset" /\ q # <<>> /\ q[1].kind = "RESET"
        \/ job'[s].op = "handleData" /\ q # <<>> /\ q[1].kind = "DATA"
    <3>1. ASSUME NEW h, q = <<h>> PROVE Len(q) = 1 /\ q # <<>> /\ q[1] = h
      BY <3>1
    <3> HIDE DEF q
    <3> QED
      BY <1>2, <3>1, Zenon DEF q
  <2> HIDE DEF q
  <2>3. Sends(job'[s].op) => job'[s].op = "reply"
    BY <2>2, Zenon DEF Sends
  <2>4. job'[s].op = "reply" => /\ q # <<>> /\ q[Len(q)].endData /\ q[1].kind = "RESET"
                                /\ \A i \in 1 .. Len(q) : q[i] = g /\ Len(q) = 1
    <3>1. job'[s].op = "reply" => q # <<>> /\ Len(q) = 1 /\ q[1] = g
      BY <2>2, Zenon
    <3>2. Len(q) = 1 => \A i \in 1 .. Len(q) : i = 1
      OBVIOUS
    <3>3. Len(q) = 1 => q[Len(q)] = q[1]
      BY Zenon
    <3> QED
      BY <1>3, <3>1, <3>2, <3>3, Zenon
  <2>5. TodoOK(s)'
    BY <1>3, <2>2, <2>3, <2>4, Zenon DEF TodoOK, Sends, q
  <2> QED
    BY <2>1, <2>5, Zenon DEF ThreadOK
<1>9. \A u \in Threads : ThreadOK(u)'
  BY <1>0, <1>1, <1>7, <1>8, OthersOK, Zenon DEF IInv
<1>10. ASSUME NEW r \in Sides PROVE MessageOK(r)' /\ SentEndOK(r)'
  <2> DEFINE u == last[r].by
  <2>1. MessageOK(r) /\ SentEndOK(r)
    BY Zenon DEF IInv, EndOK
  <2>2. u \in Threads /\ pc[u] # "idle" => pc'[u] = pc[u] /\ job'[u] = job[u]
    BY <1>1, Zenon DEF Moved
  <2> QED
    BY <1>1, <2>1, <2>2, Zenon DEF MessageOK, SentEndOK, HalfWritten, Ended
<1>11. LinkOK(s)' /\ AcceptOK(s)' /\ ReceivedEndOK(s)'
  <2>1. LinkOK(s)'
    BY <1>1, <1>4, <1>5, Zenon DEF LinkOK
  <2>2. AcceptOK(s) /\ ReceivedEndOK(s) /\ Refusing(s)' = Refusing(s)
    BY <1>0, <1>1, Zenon DEF EndOK, Refusing
  <2>3. job'[s].op = "handleData" => job'[s].todo[1] = f
    BY <1>2
  <2>4. AcceptOK(s)'
    BY <1>0, <1>1, <1>2, <1>3, <1>4, <1>5, <2>2, <2>3, SMTT(30) DEF AcceptOK, Types
  <2>5. ReceivedEndOK(s)'
    BY <1>0, <1>1, <1>2, <1>3, <1>5, <2>2, <2>3, Zenon DEF ReceivedEndOK
  <2> QED
    BY <2>1, <2>4, <2>5, Zenon
<1>12. ASSUME NEW r \in Sides, r # s PROVE LinkOK(r)' /\ AcceptOK(r)' /\ ReceivedEndOK(r)'
  <2>1. /\ pc'[r] = pc[r] /\ job'[r] = job[r] /\ link'[r] = link[r] /\ EndOK(r)
    BY <1>1, <1>5, <1>12, Places, Zenon DEF Moved, IInv
  <2>2. LinkOK(r)'
    BY <1>1, <2>1, Zenon DEF EndOK, LinkOK
  <2>3. AcceptOK(r)' /\ ReceivedEndOK(r)'
    BY <1>1, <2>1, Zenon DEF EndOK, AcceptOK, ReceivedEndOK, Upcoming, Refusing
  <2> QED
    BY <2>2, <2>3, Zenon
<1> QED
  BY <1>6, <1>9, <1>10, <1>11, <1>12, Zenon DEF IInv, EndOK

\* What conn.Write does: the next frame of t goes out.
LEMMA EmitDoes ==
  ASSUME IInv, NEW t \in Threads, Emit(t)
  PROVE  LET s == Side(t)
             q == job[t].todo
             f == [Head(q) EXCEPT !.from = sent[s]]
         IN  /\ UNCHANGED <<code, err, lost, down, accepted, got, rclosed>> /\ ~down
             /\ pc[t] = "write" /\ Sends(job[t].op) /\ writeMu[s] = t
             /\ link' = [link EXCEPT ![Peer(s)] = Append(link[Peer(s)], f)]
             /\ sent' = [sent EXCEPT ![s] = sent[s] + f.len]
             /\ last' = [last EXCEPT ![s] = f]
             /\ q \in Seq(Frames) /\ q # <<>> /\ q[1] \in Frames /\ f \in Frames
             /\ f.from = sent[s] /\ f.len = q[1].len /\ f.kind = q[1].kind
             /\ f.endData = q[1].endData /\ f.endStream = q[1].endStream /\ f.by = t
             /\ Moved(t) /\ writeMu' \in {writeMu, [writeMu EXCEPT ![s] = Nobody]}
             /\ \/ /\ Tail(q) # <<>> /\ pc'[t] = "write" /\ UNCHANGED writeMu
                   /\ job'[t].op = job[t].op /\ job'[t].todo = Tail(q)
                \/ /\ Tail(q) = <<>> /\ job[t].op = "WriteEnd" /\ pc'[t] = "readCode"
                   /\ job'[t] = job[t] /\ UNCHANGED writeMu
                \/ /\ Tail(q) = <<>> /\ job[t].op # "WriteEnd" /\ pc'[t] = "idle"
                   /\ job'[t] = NoJob /\ writeMu' = [writeMu EXCEPT ![s] = Nobody]
<1> DEFINE s == Side(t)
           q == job[t].todo
           f == [Head(q) EXCEPT !.from = sent[s]]
           j == [job[t] EXCEPT !.todo = Tail(q)]
<1>1. /\ UNCHANGED <<code, err, lost, down, accepted, got, rclosed>> /\ ~down
      /\ pc[t] = "write"
      /\ link' = [link EXCEPT ![Peer(s)] = Append(link[Peer(s)], f)]
      /\ sent' = [sent EXCEPT ![s] = sent[s] + f.len]
      /\ last' = [last EXCEPT ![s] = f]
  BY Zenon DEF Emit, state, reader
<1>2. Sends(job[t].op) /\ writeMu[s] = t /\ job[t] \in Jobs /\ sent[s] \in Nat
  BY <1>1, Before, Zenon DEF PlaceOK, LockOK, Types
<1>3. q \in Seq(Frames) /\ q # <<>> /\ q[1].by = t
  <2>1. q \in Seq(Frames) /\ q # <<>>
    BY <1>2, Before, JobFields, Zenon DEF TodoOK
  <2>2. 1 \in 1 .. Len(q)
    BY <2>1
  <2> QED
    BY <1>2, <2>1, <2>2, Before, Zenon DEF TodoOK
<1>4. q[1] \in Frames /\ Head(q) = q[1] /\ Tail(q) \in Seq(Frames)
  BY <1>3
<1>5. /\ f \in Frames /\ f.from = sent[s] /\ f.len = q[1].len /\ f.kind = q[1].kind
      /\ f.endData = q[1].endData /\ f.endStream = q[1].endStream /\ f.by = t
  <2> DEFINE h == Head(q)
             n == sent[s]
  <2>1. h \in Frames /\ n \in Nat /\ h = q[1] /\ h.by = t /\ f = [h EXCEPT !.from = n]
    BY <1>2, <1>3, <1>4, Zenon
  <2> HIDE DEF h, n, f
  <2>2. /\ h \in FrameType
        /\ h.kind = "RESET" => h.len = 0 /\ h.endData /\ ~h.endStream /\ h.reason # "none"
    BY <2>1, FrameFields, Zenon
  <2>3. /\ f \in FrameType /\ f.from = n /\ f.len = h.len /\ f.kind = h.kind /\ f.by = h.by
        /\ f.endData = h.endData /\ f.endStream = h.endStream /\ f.reason = h.reason
    BY <2>1, <2>2, Zenon DEF FrameType
  <2>4. f \in Frames
    BY <2>2, <2>3, Zenon DEF Frames
  <2> QED
    BY <2>1, <2>3, <2>4, Zenon DEF n
<1>6. j \in Jobs /\ j.op = job[t].op /\ j.todo = Tail(q)
  <2> DEFINE r == Tail(q)
  <2>1. r \in Seq(Frames)
    BY <1>4, Zenon
  <2> HIDE DEF r
  <2> QED
    BY <1>2, <2>1, Zenon DEF Jobs, r
<1>7. \/ Tail(q) # <<>> /\ Goto(t, "write", j) /\ UNCHANGED writeMu
      \/ Tail(q) = <<>> /\ job[t].op = "WriteEnd" /\ At(t, "write", "readCode") /\ UNCHANGED writeMu
      \/ /\ Tail(q) = <<>> /\ job[t].op # "WriteEnd" /\ Return(t)
         /\ writeMu' = [writeMu EXCEPT ![s] = Nobody]
  BY Zenon DEF Emit
<1> HIDE DEF f, q, j
<1>8. /\ Moved(t) /\ writeMu' \in {writeMu, [writeMu EXCEPT ![s] = Nobody]}
      /\ \/ /\ Tail(q) # <<>> /\ pc'[t] = "write" /\ UNCHANGED writeMu
            /\ job'[t].op = job[t].op /\ job'[t].todo = Tail(q)
         \/ /\ Tail(q) = <<>> /\ job[t].op = "WriteEnd" /\ pc'[t] = "readCode"
            /\ job'[t] = job[t] /\ UNCHANGED writeMu
         \/ /\ Tail(q) = <<>> /\ job[t].op # "WriteEnd" /\ pc'[t] = "idle"
            /\ job'[t] = NoJob /\ writeMu' = [writeMu EXCEPT ![s] = Nobody]
  <2>1. Goto(t, "write", j) => Moved(t) /\ pc'[t] = "write" /\ job'[t] = j
    BY <1>6, Before, GotoEffect, Zenon
  <2>2. At(t, "write", "readCode") => Moved(t) /\ pc'[t] = "readCode" /\ job'[t] = job[t]
    BY Before, AtEffect, Zenon
  <2>3. Return(t) => Moved(t) /\ pc'[t] = "idle" /\ job'[t] = NoJob
    BY Before, ReturnEffect, Zenon
  <2> QED
    BY <1>6, <1>7, <2>1, <2>2, <2>3, Zenon
<1> QED
  BY <1>1, <1>2, <1>3, <1>4, <1>5, <1>8, Zenon DEF f, q

\* The frames that are left after the first one.
LEMMA MessageTail ==
  ASSUME IInv, NEW t \in Threads, Sends(job[t].op)
  PROVE  LET q == job[t].todo
             r == Tail(q)
         IN  /\ r # <<>> => /\ r \in Seq(Frames) /\ r[Len(r)].endData /\ job[t].op # "reply"
                            /\ \A i \in 1 .. Len(r) :
                                 /\ r[i].by = t /\ r[i].kind = "DATA"
                                 /\ r[i].endStream => job[t].op \in {"WriteEnd", "CloseLocal"}
             /\ r = <<>> => q[1].endData
             /\ q[1].endStream => job[t].op \in {"WriteEnd", "CloseLocal"}
<1> DEFINE q == job[t].todo
           r == Tail(q)
<1>1. /\ q \in Seq(Frames) /\ q # <<>> /\ q[Len(q)].endData
      /\ \A i \in 1 .. Len(q) :
           /\ q[i].by = t /\ (q[i].kind = "DATA" \/ Len(q) = 1)
           /\ q[i].endStream => job[t].op \in {"WriteEnd", "CloseLocal"}
      /\ job[t].op = "reply" => q[1].kind = "RESET"
  BY Before, JobFields, Zenon DEF TodoOK
<1> HIDE DEF q
<1>2. /\ r \in Seq(Frames) /\ Len(r) = Len(q) - 1 /\ Len(q) \in Nat \ {0} /\ Len(r) \in Nat
      /\ \A i \in 1 .. Len(r) : r[i] = q[i + 1] /\ i + 1 \in 1 .. Len(q)
      /\ 1 \in 1 .. Len(q)
  BY <1>1
<1> HIDE DEF r
<1>3. CASE r # <<>>
  <2>1. Len(q) # 1 /\ Len(r) \in 1 .. Len(r) /\ Len(r) + 1 = Len(q)
    BY <1>2, <1>3
  <2>2. r[Len(r)] = q[Len(q)] /\ q[1].kind = "DATA"
    BY <1>1, <1>2, <2>1, Zenon
  <2>3. job[t].op # "reply"
    BY <1>1, <2>2, Zenon
  <2>4. \A i \in 1 .. Len(r) : /\ r[i].by = t /\ r[i].kind = "DATA"
                               /\ r[i].endStream => job[t].op \in {"WriteEnd", "CloseLocal"}
    BY <1>1, <1>2, <2>1, ZenonT(30)
  <2>5. r[Len(r)].endData /\ (q[1].endStream => job[t].op \in {"WriteEnd", "CloseLocal"})
    BY <1>1, <1>2, <2>2, Zenon
  <2> QED
    BY <1>2, <1>3, <2>3, <2>4, <2>5, Zenon DEF q, r
<1>4. CASE r = <<>>
  <2>1. Len(q) = 1
    BY <1>2, <1>4
  <2>2. q[1].endData /\ (q[1].endStream => job[t].op \in {"WriteEnd", "CloseLocal"})
    BY <1>1, <1>2, <2>1, Zenon
  <2> QED
    BY <1>4, <2>2, Zenon DEF q, r
<1> QED
  BY <1>3, <1>4, Zenon

\* conn.Write.
LEMMA EmitStep == ASSUME IInv, NEW t \in Threads, Emit(t) PROVE IInv'
<1> DEFINE s == Side(t)
           p == Peer(s)
           q == job[t].todo
           f == [Head(q) EXCEPT !.from = sent[s]]
           r == Tail(q)
<1>1. /\ UNCHANGED <<code, err, lost, down, accepted, got, rclosed>> /\ ~down
      /\ pc[t] = "write" /\ Sends(job[t].op) /\ writeMu[s] = t
      /\ link' = [link EXCEPT ![p] = Append(link[p], f)]
      /\ sent' = [sent EXCEPT ![s] = sent[s] + f.len]
      /\ last' = [last EXCEPT ![s] = f]
      /\ f \in Frames /\ f.from = sent[s] /\ f.kind = q[1].kind
      /\ f.endData = q[1].endData /\ f.endStream = q[1].endStream /\ f.by = t
      /\ Moved(t) /\ writeMu' \in {writeMu, [writeMu EXCEPT ![s] = Nobody]}
  BY EmitDoes, Zenon
<1>2. \/ /\ r # <<>> /\ pc'[t] = "write" /\ UNCHANGED writeMu
         /\ job'[t].op = job[t].op /\ job'[t].todo = r
      \/ /\ r = <<>> /\ job[t].op = "WriteEnd" /\ pc'[t] = "readCode"
         /\ job'[t] = job[t] /\ UNCHANGED writeMu
      \/ /\ r = <<>> /\ job[t].op # "WriteEnd" /\ pc'[t] = "idle" /\ job'[t] = NoJob
  BY EmitDoes, Zenon
<1>3. /\ r # <<>> => /\ r \in Seq(Frames) /\ r[Len(r)].endData /\ job[t].op # "reply"
                     /\ \A i \in 1 .. Len(r) :
                          /\ r[i].by = t /\ r[i].kind = "DATA"
                          /\ r[i].endStream => job[t].op \in {"WriteEnd", "CloseLocal"}
      /\ r = <<>> => f.endData
      /\ f.endStream => job[t].op \in {"WriteEnd", "CloseLocal"}
  BY <1>1, MessageTail, Zenon
<1> HIDE DEF f, q, r
<1>4. /\ s \in Sides /\ p \in Sides /\ p # s /\ Peer(p) = s
      /\ \A a \in Sides : a = s \/ a = p
      /\ link \in [Sides -> Seq(Frames)] /\ sent \in [Sides -> Nat]
      /\ last \in [Sides -> FrameType] /\ DOMAIN writeMu = Sides
      /\ f.len \in Nat /\ f \in FrameType
  BY <1>1, Before, Places, FrameFields, Zenon DEF Types
<1> HIDE DEF s, p
<1>5. /\ link'[s] = link[s] /\ link'[p] = Append(link[p], f)
      /\ sent'[s] = sent[s] + f.len /\ sent'[p] = sent[p]
      /\ last'[s] = f /\ last'[p] = last[p]
  BY <1>1, <1>4, Zenon
<1>6. /\ link'[p] \in Seq(Frames) /\ link'[p] # <<>> /\ link'[p][Len(link'[p])] = f
      /\ Chain(link'[p], sent'[s]) /\ Upcoming(p)' = Upcoming(p)
  <2>1. Chain(link[p], sent[s])
    BY <1>4, Zenon DEF IInv, EndOK, LinkOK
  <2> DEFINE a == link[p]
             n == sent[s]
  <2>2. a \in Seq(Frames) /\ n \in Nat /\ Chain(a, n) /\ f.from = n /\ f \in Frames
    BY <1>1, <1>4, <2>1, Zenon
  <2>3. link'[p] = Append(a, f) /\ sent'[s] = n + f.len
    BY <1>5, Zenon
  <2> HIDE DEF a, n
  <2>4. /\ link'[p] \in Seq(Frames) /\ link'[p] # <<>> /\ link'[p][Len(link'[p])] = f
        /\ Chain(link'[p], sent'[s]) /\ link'[p][1].from = IF a = <<>> THEN n ELSE a[1].from
    BY <2>2, <2>3, ChainAppend
  <2> QED
    BY <1>4, <2>4, Zenon DEF Upcoming, a, n
<1>7. Types'
  <2>1. /\ link' \in [Sides -> Seq(Frames)] /\ sent' \in [Sides -> Nat]
        /\ last' \in [Sides -> FrameType] /\ DOMAIN writeMu' = Sides
    BY <1>1, <1>4, <1>5, <1>6
  <2> QED
    BY <1>1, <2>1, Before, Zenon DEF Types, Moved
<1>8. StateKept /\ MutexKept(t)
  BY <1>1, <1>4, StateAlone, Zenon DEF MutexKept, s
<1>9. ThreadOK(t)'
  <2>1. CASE r # <<>>
    <3>1. /\ pc'[t] = pc[t] /\ job'[t].op = job[t].op /\ job'[t].todo = r
          /\ writeMu' = writeMu /\ r \in Seq(Frames)
      BY <1>1, <1>2, <1>3, <2>1, Zenon
    <3>2. PlaceOK(t)' /\ LockOK(t)'
      BY <3>1, Before, Zenon DEF PlaceOK, LockOK, Sends
    <3>3. CodeOK(t)'
      BY <1>1, <3>1, Before, Zenon DEF CodeOK, Ended
    <3>4. job[t].op \notin {"reply", "handleReset", "handleData"}
      BY <1>1, <1>3, <2>1, Zenon DEF Sends
    <3>5. TodoOK(t)'
      BY <1>3, <2>1, <3>1, <3>4, Zenon DEF TodoOK
    <3> QED
      BY <3>2, <3>3, <3>5, Zenon DEF ThreadOK
  <2>2. CASE r = <<>> /\ job[t].op = "WriteEnd"
    <3>1. pc'[t] = "readCode" /\ job'[t] = job[t] /\ writeMu' = writeMu
      BY <1>2, <2>2, Zenon
    <3>2. PlaceOK(t)'
      BY <2>2, <3>1, Before, Zenon DEF PlaceOK, Sends
    <3>3. LockOK(t)' /\ CodeOK(t)'
      BY <1>1, <2>2, <3>1, Zenon DEF LockOK, CodeOK, s
    <3> QED
      BY <3>1, <3>2, <3>3, Before, SameTodo, Zenon DEF ThreadOK
  <2> QED
    BY <1>2, <2>1, <2>2, AtRest, Zenon
<1>10. \A u \in Threads : ThreadOK(u)'
  BY <1>1, <1>7, <1>8, <1>9, Before, OthersOK, Zenon DEF IInv
<1>11. EndOK(s)'
  <2>0. EndOK(s) /\ s \in Threads
    BY <1>4, Places, Zenon DEF IInv
  <2>1. MessageOK(s)'
    BY <1>1, <1>2, <1>3, <1>5 DEF MessageOK, HalfWritten, s
  <2>2. LinkOK(s)'
    BY <1>1, <1>5, <2>0, Zenon DEF EndOK, LinkOK, p
  <2>3. \/ pc[s] # "enqueue" /\ pc'[s] # "enqueue"
        \/ pc'[s] = pc[s] /\ job'[s] = job[s]
    <3>1. CASE s = t
      <4>1. pc'[t] \in {"write", "readCode", "idle"}
        BY <1>2, Zenon
      <4> QED
        BY <1>1, <3>1, <4>1, Zenon
    <3>2. CASE s # t
      BY <1>1, <2>0, <3>2, Zenon DEF Moved
    <3> QED
      BY <3>1, <3>2, Zenon
  <2>4. AcceptOK(s)'
    <3>1. Upcoming(s)' = Upcoming(s) /\ Refusing(s)' = Refusing(s)
      BY <1>1, <1>5 DEF Upcoming, Refusing, p
    <3> QED
      BY <1>1, <2>0, <2>3, <3>1, Zenon DEF EndOK, AcceptOK
  <2>5. SentEndOK(s)'
    <3>1. job[t].op = "CloseLocal" => lost[s] \/ Ended(s)
      BY <1>1, Before, Zenon DEF CodeOK, s
    <3>2. job[t].op = "WriteEnd" => job'[t].op = "WriteEnd" /\ pc'[t] \in {"write", "readCode"}
      BY <1>2, Zenon
    <3> QED
      BY <1>1, <1>3, <1>5, <3>1, <3>2, Zenon DEF SentEndOK, Ended, s
  <2>6. ReceivedEndOK(s)'
    <3>1. Handling(s) => pc'[s] = pc[s] /\ job'[s] = job[s]
      BY <1>1, <2>0, Zenon DEF Handling, Moved
    <3> QED
      BY <1>1, <1>5, <2>0, <3>1, Zenon DEF EndOK, ReceivedEndOK, Refusing, Handling, p
  <2> QED
    BY <2>1, <2>2, <2>4, <2>5, <2>6, Zenon DEF EndOK
<1>12. EndOK(p)'
  <2>0. EndOK(p) /\ \A u \in Threads : Side(u) = p => pc'[u] = pc[u] /\ job'[u] = job[u]
    BY <1>1, <1>4, ZenonT(30) DEF IInv, Moved, s
  <2>1. MessageOK(p)' /\ SentEndOK(p)'
    BY <1>1, <1>5, <2>0, SMTT(30) DEF EndOK, MessageOK, HalfWritten, SentEndOK, Ended
  <2>2. LinkOK(p)'
    BY <1>1, <1>4, <1>5, <1>6, Zenon DEF LinkOK
  <2>3. pc'[p] = pc[p] /\ job'[p] = job[p]
    BY <1>4, <2>0, Places, Zenon
  <2>4. AcceptOK(p)'
    <3>1. Refusing(p)' = Refusing(p)
      BY <1>1, Zenon DEF Refusing
    <3> QED
      BY <1>1, <1>6, <2>0, <2>3, <3>1, Zenon DEF EndOK, AcceptOK
  <2>5. ReceivedEndOK(p)'
    BY <1>6, Zenon DEF ReceivedEndOK
  <2> QED
    BY <2>1, <2>2, <2>4, <2>5, Zenon DEF EndOK
<1> QED
  BY <1>4, <1>7, <1>10, <1>11, <1>12, Zenon DEF IInv

---------------------------------------------------------------------------
\* The connection goes down: the frames under way are lost, the goroutines are
\* where they were.
LEMMA ConnFailsStep == ASSUME IInv, ConnFails PROVE IInv' /\ StateKept
<1>1. /\ UNCHANGED <<code, err, lost, writeMu, sent, last, accepted, got, rclosed, pc, job>>
      /\ down' = TRUE /\ link' = [s \in Sides |-> <<>>]
  BY Zenon DEF ConnFails, state, reader
<1>2. link' \in [Sides -> Seq(Frames)] /\ \A s \in Sides : link'[s] = <<>>
  BY <1>1
<1>3. Types'
  BY <1>1, <1>2, Zenon DEF IInv, Types
<1>4. ASSUME NEW t \in Threads PROVE ThreadOK(t)'
  <2>1. ThreadOK(t)
    BY Zenon DEF IInv
  <2> QED
    BY <1>1, <2>1, Zenon DEF ThreadOK, PlaceOK, TodoOK, LockOK, CodeOK, Ended, Sends
<1>5. ASSUME NEW s \in Sides PROVE EndOK(s)'
  <2>1. AcceptOK(s)
    BY Zenon DEF IInv, EndOK
  <2>2. AcceptOK(s)' /\ MessageOK(s)' /\ SentEndOK(s)' /\ ReceivedEndOK(s)'
    BY <1>1, <2>1, Zenon DEF AcceptOK, MessageOK, SentEndOK, ReceivedEndOK
  <2>3. LinkOK(s)'
    <3>1. Len(link'[s]) = 0
      BY <1>2
    <3> QED
      BY <1>2, <3>1 DEF LinkOK, Chain
  <2> QED
    BY <2>2, <2>3, Zenon DEF EndOK
<1> QED
  BY <1>1, <1>3, <1>4, <1>5, StateAlone, Zenon DEF IInv

\* The first state.
LEMMA InitIInv == Init => IInv
<1> SUFFICES ASSUME Init PROVE IInv
  BY Zenon
<1>1. \A s \in Sides : /\ code[s] = "open" /\ err[s] = "none" /\ link[s] = <<>> /\ sent[s] = 0
                       /\ lost[s] = FALSE /\ accepted[s] = 0 /\ got[s] = 0
                       /\ rclosed[s] = FALSE /\ last[s] = ResetStreamFrame("none", Nobody)
  BY Zenon DEF Init
<1>2. ~down /\ \A t \in Threads : pc[t] = "idle" /\ job[t] = NoJob
  BY Zenon DEF Init
<1>3. /\ ResetStreamFrame("none", Nobody) \in FrameType
      /\ ResetStreamFrame("none", Nobody).kind = "RESET"
      /\ ResetStreamFrame("none", Nobody).endStream = FALSE
  BY Zenon DEF ResetStreamFrame, Frame, FrameType
<1>4. Types
  <2>1. NoJob \in Jobs /\ "open" \in Codes
    BY NoJobFields, Zenon DEF Codes
  <2>2. code \in [Sides -> Codes] /\ job \in [Threads -> Jobs] /\ last \in [Sides -> FrameType]
    BY <1>3, <2>1, Zenon DEF Init
  <2>3. /\ link \in [Sides -> Seq(Frames)] /\ sent \in [Sides -> Nat]
        /\ accepted \in [Sides -> Nat] /\ got \in [Sides -> Nat]
        /\ lost \in [Sides -> BOOLEAN] /\ rclosed \in [Sides -> BOOLEAN]
    BY DEF Init
  <2>4. DOMAIN err = Sides /\ DOMAIN writeMu = Sides /\ DOMAIN pc = Threads /\ down \in BOOLEAN
    BY Zenon DEF Init
  <2> QED
    BY <2>2, <2>3, <2>4, Zenon DEF Types
<1>5. ASSUME NEW t \in Threads PROVE ThreadOK(t)
  <2>1. pc[t] = "idle" /\ job[t].op = "none"
    BY <1>2, NoJobFields, Zenon
  <2> QED
    BY <2>1, Zenon DEF ThreadOK, PlaceOK, TodoOK, LockOK, CodeOK, Sends
<1>6. ASSUME NEW s \in Sides PROVE EndOK(s)
  <2>0. s \in Threads /\ Peer(s) \in Sides /\ pc[s] = "idle"
    BY <1>2, Places, Zenon
  <2>1. MessageOK(s) /\ SentEndOK(s) /\ ReceivedEndOK(s)
    BY <1>1, <1>3, <2>0, Zenon DEF MessageOK, HalfWritten, SentEndOK, ReceivedEndOK
  <2>2. LinkOK(s)
    <3>1. Len(link[s]) = 0
      BY <1>1
    <3> QED
      BY <1>1, <1>2, <3>1 DEF LinkOK, Chain
  <2>3. AcceptOK(s)
    BY <1>1, <2>0, Zenon DEF AcceptOK, Upcoming
  <2> QED
    BY <2>1, <2>2, <2>3, Zenon DEF EndOK
<1> QED
  BY <1>4, <1>5, <1>6, Zenon DEF IInv

\* A step of a goroutine; every other step is a failure of the connection.
Step(t) ==
  \/ t \in Apps /\ AppCall(t)
  \/ Run(t)
  \/ Lock(t)
\* So it is.
LEMMA NextIs == ASSUME Next PROVE ConnFails \/ \E t \in Threads : Step(t)
BY Places, Zenon DEF Next, Step

\* Every step keeps the invariant.
LEMMA StepIInv == ASSUME IInv, [Next]_vars PROVE IInv'
<1>1. CASE UNCHANGED vars
  <2>1. UNCHANGED <<state, wire, down, accepted, rclosed, pc, job>> /\ got' = got
    BY <1>1, Zenon DEF vars, reader
  <2>2. got \in [Sides -> Nat]
    BY Zenon DEF IInv, Types
  <2> QED
    BY <2>1, <2>2, SameStep, Zenon
<1>2. CASE ConnFails
  BY <1>2, ConnFailsStep, Zenon
<1>3. ASSUME NEW t \in Threads, Step(t) PROVE IInv'
  <2>1. CASE t \in Apps /\ AppCall(t)
    BY <2>1, AppCallStep, Zenon
  <2>2. CASE Close(t) \/ CloseReader(t) \/ ReadCode(t)
    BY <2>2, CloseStep, CloseReaderStep, ReadCodeStep, Zenon
  <2>3. CASE WriteCode(t) \/ Emit(t) \/ EmitFails(t) \/ Lock(t)
    BY <2>3, WriteCodeStep, EmitStep, EmitFailsStep, LockStep, Zenon
  <2>4. CASE t \in Apps /\ (TryRead(t) \/ CheckRecv(t) \/ BlockingRead(t))
    BY <2>4, ReadStep, Zenon
  <2>5. CASE t \in Sides /\ (Receive(t) \/ Enqueue(t) \/ SetError(t))
    BY <2>5, ReceiveStep, EnqueueStep, SetErrorStep, Zenon
  <2> QED
    BY <1>3, <2>1, <2>2, <2>3, <2>4, <2>5, Zenon DEF Step, Run
<1> QED
  BY <1>1, <1>2, <1>3, NextIs, Zenon

\* The inductive invariant holds throughout.
THEOREM Inductive == Spec => []IInv
BY InitIInv, StepIInv, PTL DEF Spec

\* When both ends have sent END_STREAM, the connection lives and nothing is left
\* to do, both codes are closed, unless an update was lost.
THEOREM Closed == Spec => []BothEndedIsClosed
<1>1. IInv => BothEndedIsClosed
  <2> SUFFICES ASSUME IInv, ~down, \A t \in Threads : pc[t] = "idle",
                      \A s \in Sides : /\ last[s].endStream /\ link[s] = <<>> /\ err[s] = "none"
                                       /\ ~lost[s],
                      NEW s \in Sides
               PROVE  code[s] = "closed"
    BY Zenon DEF BothEndedIsClosed
  <2>1. SentEndOK(s) /\ ReceivedEndOK(s) /\ s \in Threads /\ Peer(s) \in Sides
    BY Places, Zenon DEF IInv, EndOK
  <2>2. Ended(s)
    BY <2>1, Zenon DEF SentEndOK
  <2>3. Refusing(s)
    BY <2>1, Zenon DEF ReceivedEndOK
  <2> QED
    BY <2>2, <2>3, Zenon DEF Ended, Refusing, RecvData
<1> QED
  BY <1>1, Inductive, PTL

---------------------------------------------------------------------------
\* What a step of t leaves alone: only the steps named change these variables.
LEMMA Touches ==
  ASSUME NEW t \in Threads, Step(t)
  PROVE  /\ \/ UNCHANGED <<code, err, lost>>
            \/ Close(t) \/ WriteCode(t)
            \/ t \in Sides /\ SetError(t)
         /\ UNCHANGED accepted \/ (t \in Sides /\ Enqueue(t))
         /\ UNCHANGED <<sent, last>> \/ Emit(t)
         /\ UNCHANGED link \/ Emit(t) \/ (t \in Sides /\ Receive(t))
         /\ down' = down
         /\ \/ UNCHANGED got
            \/ /\ t \in Apps
               /\ \E n \in 1 .. accepted[Side(t)] - got[Side(t)] :
                    got' = [got EXCEPT ![Side(t)] = @ + n]
<1> USE DEF state, wire, reader
<1>1. CASE t \in Apps /\ AppCall(t)
  BY <1>1, Zenon DEF AppCall, Write, WriteEnd, CloseLocalCall, Reset, Read, Begin
<1>2. CASE Close(t) \/ CloseReader(t) \/ ReadCode(t) \/ WriteCode(t)
  BY <1>2, Zenon DEF Close, CloseReader, ReadCode, WriteCode
<1>3. CASE Emit(t) \/ EmitFails(t) \/ Lock(t)
  BY <1>3, Zenon DEF Emit, EmitFails, Lock
<1>4. CASE t \in Apps /\ (TryRead(t) \/ CheckRecv(t) \/ BlockingRead(t))
  <2>1. UNCHANGED <<code, err, lost, accepted, sent, last, link, down>>
    BY <1>4, Zenon DEF TryRead, CheckRecv, BlockingRead, Take, TakeEOF
  <2>2. \/ UNCHANGED got
        \/ \E n \in 1 .. accepted[Side(t)] - got[Side(t)] : got' = [got EXCEPT ![Side(t)] = @ + n]
    BY <1>4, Zenon DEF TryRead, CheckRecv, BlockingRead, Take, TakeEOF
  <2> QED
    BY <1>4, <2>1, <2>2, Zenon
<1>5. CASE t \in Sides /\ Receive(t)
  BY <1>5, Zenon DEF Receive
<1>6. CASE t \in Sides /\ (Enqueue(t) \/ SetError(t))
  BY <1>6, Zenon DEF Enqueue, SetError
<1> QED
  BY <1>1, <1>2, <1>3, <1>4, <1>5, <1>6, Zenon DEF Step, Run

\* Goto and At move t alone.
LEMMA GotoAlone ==
  ASSUME Types, NEW t \in Threads, NEW l, NEW j, Goto(t, l, j)
  PROVE  pc'[t] = l /\ \A u \in Threads : u # t => pc'[u] = pc[u] /\ job'[u] = job[u]
BY Zenon DEF Types, Goto

\* A step of t is at one place, moves t alone, and only ReadCode and Receive lead
\* to "writeCode" and "enqueue".
LEMMA Alone ==
  ASSUME Types, NEW t \in Threads, Step(t)
  PROVE  /\ \A u \in Threads : u # t => pc'[u] = pc[u] /\ job'[u] = job[u]
         /\ pc'[t] = "writeCode" => ReadCode(t)
         /\ pc'[t] = "enqueue" => t \in Sides /\ Receive(t)
<1> DEFINE Others == \A u \in Threads : u # t => pc'[u] = pc[u] /\ job'[u] = job[u]
<1>0. /\ \A a, b : At(t, a, b) => Others /\ pc'[t] = b
      /\ Return(t) => Others /\ pc'[t] = "idle"
      /\ \A l, j : Goto(t, l, j) => Others /\ pc'[t] = l
  <2>1. \A l, j : Goto(t, l, j) => Others /\ pc'[t] = l
    BY GotoAlone, Zenon
  <2>2. Return(t) => Others /\ pc'[t] = "idle"
    BY <2>1, Zenon DEF Return
  <2>3. \A a, b : At(t, a, b) => Others /\ pc'[t] = b
    BY Zenon DEF At, Types
  <2> QED
    BY <2>1, <2>2, <2>3, Zenon
<1> HIDE DEF Others
<1>1. CASE t \in Apps /\ AppCall(t)
  <2>1. \/ UNCHANGED <<pc, job>> /\ pc[t] = "idle"
        \/ \E j : Goto(t, "lock", j)
        \/ \E j : Goto(t, "readCode", j)
        \/ \E j : Goto(t, "close", j)
        \/ \E j : Goto(t, "tryRead", j)
    BY <1>1, Zenon DEF AppCall, Write, WriteEnd, CloseLocalCall, Reset, Read, Begin
  <2>2. CASE UNCHANGED <<pc, job>> /\ pc[t] = "idle"
    BY <2>2, Zenon
  <2> QED
    BY <1>0, <2>1, <2>2 DEF Others
<1>2. CASE Close(t)
  BY <1>0, <1>2 DEF Close, Others
<1>3. CASE CloseReader(t)
  BY <1>0, <1>3 DEF CloseReader, Others
<1>4. CASE ReadCode(t)
  BY <1>0, <1>4, SMTT(30) DEF ReadCode, Others
<1>5. CASE WriteCode(t)
  BY <1>0, <1>5 DEF WriteCode, Others
<1>6. CASE Emit(t)
  <2>1. Others /\ pc'[t] \in {"write", "readCode", "idle"}
    BY <1>0, <1>6, Zenon DEF Emit
  <2> QED
    BY <2>1, Zenon DEF Others
<1>7. CASE EmitFails(t)
  BY <1>0, <1>7, ZenonT(30) DEF EmitFails, Others
<1>8. CASE Lock(t)
  BY <1>0, <1>8, SMTT(30) DEF Lock, Others
<1>9. CASE TryRead(t) \/ CheckRecv(t) \/ BlockingRead(t)
  <2>1. Return(t) \/ At(t, "tryRead", "checkRecv") \/ At(t, "checkRecv", "read")
    BY <1>9, Zenon DEF TryRead, CheckRecv, BlockingRead, Take, TakeEOF
  <2> QED
    BY <1>0, <2>1 DEF Others
<1>10. CASE t \in Sides /\ Receive(t)
  <2>1. \E l, j : Goto(t, l, j)
    BY <1>10, Zenon DEF Receive
  <2>2. pc'[t] # "writeCode"
    BY <1>0, <1>10 DEF Receive
  <2> QED
    BY <1>0, <1>10, <2>1, <2>2, Zenon DEF Others
<1>11. CASE Enqueue(t) \/ SetError(t)
  <2>1. Return(t) \/ At(t, "enqueue", "readCode") \/ At(t, "setError", "closeReader")
    BY <1>11, Zenon DEF Enqueue, SetError
  <2> QED
    BY <1>0, <2>1 DEF Others
<1> QED
  BY <1>1, <1>2, <1>3, <1>4, <1>5, <1>6, <1>7, <1>8, <1>9, <1>10, <1>11, Zenon DEF Step, Run

\* A step keeps a code that is closed, and a refusal, unless it loses an update.
LEMMA Keeps == ASSUME IInv, Next PROVE StateKept
<1>1. CASE ConnFails
  BY <1>1, ConnFailsStep, Zenon
<1>2. ASSUME NEW t \in Threads, Step(t) PROVE StateKept
  <2>1. CASE UNCHANGED <<code, err, lost>>
    BY <2>1, StateAlone, Zenon
  <2>2. CASE Close(t) \/ WriteCode(t)
    BY <2>2, CloseStep, WriteCodeStep, Zenon
  <2>3. CASE t \in Sides /\ SetError(t)
    BY <2>3, SetErrorStep, Zenon
  <2> QED
    BY <1>2, <2>1, <2>2, <2>3, Touches, Zenon
<1> QED
  BY <1>1, <1>2, NextIs, Zenon

---------------------------------------------------------------------------
\* stream.Write keeps the frames of one message together: after a frame without
\* END_DATA the end sends nothing but the rest of the same Write.
THEOREM WritesStayTogether == Spec => MessagesNotInterleaved
<1> DEFINE Together(s) == HalfWritten(s) /\ last'[s] # last[s] =>
                            last'[s].kind = "DATA" /\ last'[s].by = last[s].by
<1>1. IInv /\ [Next]_vars => [\A s \in Sides : Together(s)]_vars
  <2> SUFFICES ASSUME IInv, Next, NEW s \in Sides, HalfWritten(s), last'[s] # last[s]
               PROVE  last'[s].kind = "DATA" /\ last'[s].by = last[s].by
    BY Zenon
  <2>1. PICK t \in Threads : Step(t)
    BY NextIs, Zenon DEF ConnFails
  <2>2. Emit(t)
    BY <2>1, Touches, Zenon
  <2> DEFINE q == job[t].todo
             f == [Head(q) EXCEPT !.from = sent[Side(t)]]
             u == last[s].by
  <2>3. /\ ~down /\ pc[t] = "write" /\ Sends(job[t].op) /\ writeMu[Side(t)] = t
        /\ last' = [last EXCEPT ![Side(t)] = f] /\ f.by = t /\ f.kind = q[1].kind
        /\ q \in Seq(Frames) /\ q # <<>>
    BY <2>2, EmitDoes, Zenon
  <2>4. DOMAIN last = Sides /\ Side(t) \in Sides
    BY Before, Zenon DEF Types
  <2> HIDE DEF f, q
  <2>5. Side(t) = s /\ last'[s] = f
    BY <2>3, <2>4, Zenon
  <2>6. /\ u \in Threads /\ Side(u) = s /\ pc[u] = "write"
        /\ \A i \in 1 .. Len(job[u].todo) : job[u].todo[i].kind = "DATA"
    BY <2>3, Zenon DEF IInv, EndOK, MessageOK
  <2>7. writeMu[s] = u
    BY <2>6, Before, Zenon DEF LockOK
  <2>8. u = t /\ 1 \in 1 .. Len(q)
    BY <2>3, <2>5, <2>7
  <2>9. q[1].kind = "DATA"
    BY <2>6, <2>8, Zenon DEF q
  <2> QED
    BY <2>3, <2>5, <2>8, <2>9, Zenon
<1> QED
  BY <1>1, Inductive, PTL DEF Spec, MessagesNotInterleaved

\* handleData accepts no frame after one it left out, unless this end lost an
\* update of its code.
THEOREM GapsNeedARace == Spec => NoGapWithoutRace
<1> DEFINE InOrder(s) == ~lost[s] /\ accepted'[s] # accepted[s] =>
                         Head(job[s].todo).from = accepted[s]
<1>1. IInv /\ [Next]_vars => [\A s \in Sides : InOrder(s)]_vars
  <2> SUFFICES ASSUME IInv, Next, NEW s \in Sides, ~lost[s], accepted'[s] # accepted[s]
               PROVE  Head(job[s].todo).from = accepted[s]
    BY Zenon
  <2>1. PICK t \in Threads : Step(t)
    BY NextIs, Zenon DEF ConnFails, reader
  <2>2. t \in Sides /\ Enqueue(t)
    BY <2>1, Touches, Zenon
  <2>3. t = s /\ pc[s] = "enqueue"
    <3>1. accepted \in [Sides -> Nat]
      BY Zenon DEF IInv, Types
    <3> QED
      BY <2>2, <3>1, Zenon DEF Enqueue
  <2>4. accepted[s] = job[s].todo[1].from
    BY <2>3, Zenon DEF IInv, EndOK, AcceptOK
  <2>5. job[s].todo # <<>> /\ job[s].todo \in Seq(Frames)
    BY <2>1, <2>3, Before, JobFields, Zenon DEF PlaceOK, TodoOK
  <2> QED
    BY <2>4, <2>5
<1> QED
  BY <1>1, Inductive, PTL DEF Spec, NoGapWithoutRace

\* A reader that END_STREAM found waiting waits until a reset closes the
\* BlockReader, unless an update of the code is lost.
THEOREM StrandedForGood == Spec => StrandedUntilReset
<1> DEFINE Stays(t) == Stranded(t) =>
                         LET s == Side(t) IN Stranded(t)' \/ rclosed'[s] \/ lost'[s]
<1>1. IInv /\ [Next]_vars => [\A t \in Apps : Stays(t)]_vars
  <2> SUFFICES ASSUME IInv, Next, NEW t \in Apps, Stranded(t), ~rclosed'[Side(t)], ~lost'[Side(t)]
               PROVE  Stranded(t)'
    BY Zenon
  <2> DEFINE s == Side(t)
  <2>0. /\ t \in Threads /\ s \in Sides /\ s \in Threads /\ t # s /\ t \notin Sides /\ Side(s) = s
        /\ Types
    BY Places, Zenon DEF IInv
  <2>1. /\ pc[t] = "read" /\ got[s] = accepted[s] /\ ~rclosed[s] /\ pc[s] # "enqueue"
        /\ Refusing(s)
    BY Zenon DEF Stranded, Refusing
  <2>2. Refusing(s)'
    BY <2>0, <2>1, Keeps, Zenon DEF StateKept
  <2>3. CASE ConnFails
    BY <2>1, <2>2, <2>3, Zenon DEF ConnFails, state, reader, Stranded, Refusing
  <2>4. ASSUME NEW u \in Threads, Step(u) PROVE Stranded(t)'
    <3>1. pc'[t] = "read"
      <4>1. CASE u # t
        BY <2>0, <2>1, <2>4, <4>1, Alone, Zenon
      <4>2. CASE u = t
        <5>1. 1 .. accepted[s] - got[s] = {}
          BY <2>0, <2>1 DEF Types
        <5>2. ~BlockingRead(t)
          BY <2>1, <5>1, Zenon DEF BlockingRead, Take, TakeEOF
        <5>3. ~AppCall(t) /\ ~TryRead(t) /\ ~CheckRecv(t) /\ ~Lock(t)
          BY <2>1, Zenon DEF AppCall, Write, WriteEnd, CloseLocalCall, Reset, Read, Begin, TryRead,
                      CheckRecv, Lock, At
        <5>4. ~Close(t) /\ ~CloseReader(t) /\ ~ReadCode(t) /\ ~WriteCode(t) /\ ~Emit(t)
              /\ ~EmitFails(t)
          BY <2>1, Zenon DEF Close, CloseReader, ReadCode, WriteCode, Emit, EmitFails, At
        <5> QED
          BY <2>0, <2>4, <4>2, <5>2, <5>3, <5>4, Zenon DEF Step, Run
      <4> QED
        BY <4>1, <4>2, Zenon
    <3>2. pc'[s] # "enqueue"
      <4>1. CASE u # s
        BY <2>0, <2>1, <2>4, <4>1, Alone, Zenon
      <4>2. CASE u = s
        <5>1. ASSUME pc'[s] = "enqueue" PROVE Receive(s)
          BY <2>0, <2>4, <4>2, <5>1, Alone, Zenon
        <5>2. Receive(s) => pc'[s] # "enqueue"
          BY <2>0, <2>1, ReceiveDoes, Zenon
        <5> QED
          BY <5>1, <5>2, Zenon
      <4> QED
        BY <4>1, <4>2, Zenon
    <3>3. accepted'[s] = accepted[s]
      <4>1. u \in Sides /\ Enqueue(u) => u # s
        BY <2>1, Zenon DEF Enqueue
      <4>2. UNCHANGED accepted \/ (u \in Sides /\ Enqueue(u))
        BY <2>4, Touches, Zenon
      <4> QED
        BY <2>0, <4>1, <4>2, Zenon DEF Enqueue, Types
    <3>4. got'[s] = got[s]
      <4>1. \/ UNCHANGED got
            \/ \E n \in 1 .. accepted[Side(u)] - got[Side(u)] :
                 got' = [got EXCEPT ![Side(u)] = @ + n]
        BY <2>4, Touches, Zenon
      <4>2. 1 .. accepted[s] - got[s] = {}
        BY <2>0, <2>1 DEF Types
      <4> QED
        BY <2>0, <4>1, <4>2, Zenon DEF Types
    <3> QED
      BY <2>1, <2>2, <3>1, <3>2, <3>3, <3>4, Zenon DEF Stranded, Refusing
  <2> QED
    BY <2>3, <2>4, NextIs, Zenon
<1> QED
  BY <1>1, Inductive, PTL DEF Spec, StrandedUntilReset

---------------------------------------------------------------------------
\* An end that refuses every frame does so for good.
LEMMA DeadStays == ASSUME IInv, Next, NEW s \in Sides, Dead(s) PROVE Dead(s)'
<1>1. CASE ConnFails
  BY <1>1, Zenon DEF ConnFails, state, Dead
<1>2. ASSUME NEW t \in Threads, Step(t) PROVE Dead(s)'
  <2>0. Types /\ DOMAIN err = Sides /\ code \in [Sides -> Codes] /\ Side(t) \in Sides
    BY Before, Zenon DEF Types
  <2>1. \/ UNCHANGED <<code, err, lost>>
        \/ Close(t) \/ WriteCode(t)
        \/ t \in Sides /\ SetError(t)
    BY <1>2, Touches, Zenon
  <2>2. CASE err[s] # "none"
    <3>1. err'[s] # "none"
      BY <2>1, <2>2, SetErrorStep, Zenon DEF Close, WriteCode
    <3> QED
      BY <3>1, Zenon DEF Dead
  <2>3. CASE err[s] = "none"
    <3>0. /\ code[s] = "closed"
          /\ \A u \in Threads : Side(u) = s /\ pc[u] = "writeCode" => job[u].snap = "closed"
      BY <2>3, Zenon DEF Dead
    <3>1. code'[s] = "closed"
      <4>1. CASE WriteCode(t)
        <5>1. Side(t) = s => job[t].snap = "closed"
          BY <3>0, <4>1, Zenon DEF WriteCode
        <5> QED
          BY <2>0, <3>0, <4>1, <5>1, Zenon DEF WriteCode, CloseLocal, CloseRemote
      <4>2. CASE Close(t)
        BY <2>0, <3>0, <4>2, Zenon DEF Close
      <4> QED
        BY <2>1, <3>0, <4>1, <4>2, Zenon DEF SetError
    <3>2. ASSUME NEW u \in Threads, Side(u) = s, pc'[u] = "writeCode"
          PROVE  job'[u].snap = "closed"
      <4>1. CASE u # t
        BY <1>2, <2>0, <3>0, <3>2, <4>1, Alone, Zenon
      <4>2. CASE u = t
        <5>1. ReadCode(u)
          BY <1>2, <2>0, <3>2, <4>2, Alone, Zenon
        <5>2. job' = [job EXCEPT ![u] = [job[u] EXCEPT !.snap = code[s]]] /\ job[u] \in Jobs
          BY <3>2, <5>1, Before, Zenon DEF ReadCode, Goto
        <5>3. job \in [Threads -> Jobs]
          BY <2>0, Zenon DEF Types
        <5> QED
          BY <3>0, <5>2, <5>3, Zenon DEF Jobs
      <4> QED
        BY <4>1, <4>2, Zenon
    <3> QED
      BY <3>1, <3>2, Zenon DEF Dead
  <2> QED
    BY <2>2, <2>3, Zenon
<1> QED
  BY <1>1, <1>2, NextIs, Zenon

\* A RESET_STREAM is under way to s, or s is answering one.
Pending(s) ==
  \/ \E i \in 1 .. Len(link[s]) : link[s][i].kind = "RESET"
  \/ pc[s] \in {"lock", "write"} /\ job[s].op = "reply"

\* One that is under way arrives at an end that answers it.
LEMMA UnderWay ==
  ASSUME IInv, NEW s \in Sides, Dead(s), NEW t \in Threads, Step(t),
         NEW i \in 1 .. Len(link[s]), link[s][i].kind = "RESET"
  PROVE  Pending(s)'
<1>0. /\ s \in Threads /\ Types /\ link \in [Sides -> Seq(Frames)] /\ DOMAIN link = Sides
      /\ Peer(Side(t)) \in Sides /\ DOMAIN pc = Threads /\ DOMAIN job = Threads
  BY Places, Zenon DEF IInv, Types
<1>1. \/ link'[s] = link[s]
      \/ \E f : link'[s] = Append(link[s], f)
      \/ Receive(s)
  <2>1. CASE UNCHANGED link
    BY <2>1, Zenon
  <2>2. CASE Emit(t)
    BY <1>0, <2>2, Zenon DEF Emit
  <2>3. CASE t \in Sides /\ Receive(t) /\ t # s
    BY <1>0, <2>3, Zenon DEF Receive
  <2> QED
    BY <2>1, <2>2, <2>3, Touches, Zenon
<1> DEFINE q == link[s]
<1>2. q \in Seq(Frames) /\ i \in 1 .. Len(q) /\ q[i].kind = "RESET"
  BY <1>0, Zenon
<1>3. CASE link'[s] = link[s]
  BY <1>3, Zenon DEF Pending
<1>4. ASSUME NEW f, link'[s] = Append(link[s], f) PROVE Pending(s)'
  <2> HIDE DEF q
  <2>1. i \in 1 .. Len(Append(q, f)) /\ Append(q, f)[i] = q[i]
    BY <1>2
  <2>2. link'[s] = Append(q, f)
    BY <1>4, Zenon DEF q
  <2> QED
    BY <1>2, <2>1, <2>2, Zenon DEF Pending
<1>5. CASE Receive(s)
  <2>1. link'[s] = Tail(q) /\ q # <<>> /\ Head(q) = q[1]
    BY <1>0, <1>2, <1>5 DEF Receive
  <2>2. CASE i # 1
    <3> HIDE DEF q
    <3>1. i - 1 \in 1 .. Len(Tail(q)) /\ Tail(q)[i - 1] = q[i]
      BY <1>2, <2>2
    <3> QED
      BY <1>2, <2>1, <3>1, Zenon DEF Pending
  <2>3. CASE i = 1
    <3>1. RecvResetStream(code[s], err[s]) /\ Head(q).kind = "RESET"
      BY <1>2, <2>1, <2>3, Zenon DEF Dead, RecvResetStream
    <3>2. Goto(s, "lock", Job("reply", <<ResetStreamFrame("streamClosed", s)>>))
      BY <1>5, <3>1, Zenon DEF Receive
    <3>3. pc'[s] = "lock" /\ job'[s] = Job("reply", <<ResetStreamFrame("streamClosed", s)>>)
      BY <1>0, <3>2, Zenon DEF Goto
    <3>4. job'[s].op = "reply"
      BY <3>3 DEF Job
    <3> QED
      BY <3>3, <3>4, Zenon DEF Pending
  <2> QED
    BY <2>2, <2>3, Zenon
<1> QED
  BY <1>1, <1>3, <1>4, <1>5, Zenon

\* An answer goes out while the connection lives.
LEMMA Answering ==
  ASSUME IInv, NEW s \in Sides, NEW t \in Threads, Step(t), ~down',
         pc[s] \in {"lock", "write"}, job[s].op = "reply"
  PROVE  \E r \in Sides : Pending(r)'
<1>0. s \in Threads /\ s \notin Apps /\ Side(s) = s /\ Peer(s) \in Sides /\ Types
  BY Places, Zenon DEF IInv
<1>1. CASE t # s
  <2>1. pc'[s] = pc[s] /\ job'[s] = job[s]
    BY <1>0, <1>1, Alone, Zenon
  <2> QED
    BY <2>1, Zenon DEF Pending
<1>2. CASE t = s
  <2>1. Lock(s) \/ Emit(s)
    <3>1. ~EmitFails(s)
      BY <1>2, Touches DEF EmitFails
    <3>2. ~Close(s) /\ ~CloseReader(s) /\ ~ReadCode(s) /\ ~WriteCode(s)
      BY Zenon DEF Close, CloseReader, ReadCode, WriteCode, At
    <3>3. ~Receive(s) /\ ~Enqueue(s) /\ ~SetError(s)
      BY Zenon DEF Receive, Enqueue, SetError, At
    <3> QED
      BY <1>0, <1>2, <3>1, <3>2, <3>3, Zenon DEF Step, Run
  <2>2. CASE Lock(s)
    <3>1. pc'[s] = "write" /\ job'[s] = job[s]
      BY <1>0, <2>2, AtEffect, ZenonT(30) DEF Lock
    <3> QED
      BY <3>1, Zenon DEF Pending
  <2>3. CASE Emit(s)
    <3> DEFINE p == Peer(s)
               q == job[s].todo
               f == [Head(q) EXCEPT !.from = sent[s]]
               a == link[p]
    <3>1. /\ link' = [link EXCEPT ![p] = Append(a, f)] /\ f.kind = q[1].kind /\ f \in Frames
      BY <1>0, <2>3, EmitDoes
    <3>2. q[1].kind = "RESET"
      BY <1>0, Before, Zenon DEF TodoOK
    <3>3. link'[p] = Append(a, f) /\ a \in Seq(Frames)
      BY <1>0, <3>1, Zenon DEF Types
    <3> HIDE DEF f, a, q
    <3>4. Len(a) + 1 \in 1 .. Len(Append(a, f)) /\ Append(a, f)[Len(a) + 1] = f
      BY <3>1, <3>3
    <3>5. Pending(p)'
      BY <3>1, <3>2, <3>3, <3>4, Zenon DEF Pending
    <3> QED
      BY <1>0, <3>5, Zenon
  <2> QED
    BY <2>1, <2>2, <2>3, Zenon
<1> QED
  BY <1>1, <1>2, Zenon

\* Two dead ends answer each other's RESET_STREAM for as long as the connection
\* lives.
THEOREM StormForGood == Spec => StormIsPermanent
<1>1. IInv /\ [Next]_vars => [Storm /\ ~down' => Storm']_vars
  <2> SUFFICES ASSUME IInv, Next, Storm, ~down' PROVE Storm'
    BY Zenon
  <2>1. \A s \in Sides : Dead(s) /\ Dead(s)'
    BY DeadStays, Zenon DEF Storm
  <2>2. PICK s \in Sides : Pending(s)
    BY Zenon DEF Storm, Pending
  <2>3. PICK t \in Threads : Step(t)
    BY NextIs, Zenon DEF ConnFails
  <2>4. \E r \in Sides : Pending(r)'
    <3>1. CASE \E i \in 1 .. Len(link[s]) : link[s][i].kind = "RESET"
      BY <2>1, <2>3, <3>1, UnderWay, Zenon
    <3>2. CASE pc[s] \in {"lock", "write"} /\ job[s].op = "reply"
      BY <2>3, <3>2, Answering, Zenon
    <3> QED
      BY <2>2, <3>1, <3>2, Zenon DEF Pending
  <2> QED
    BY <2>1, <2>4, Zenon DEF Storm, Pending
<1> QED
  BY <1>1, Inductive, PTL DEF Spec, StormIsPermanent
=============================================================================

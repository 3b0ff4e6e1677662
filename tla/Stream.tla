------------------------------- MODULE Stream -------------------------------
(***************************************************************************)
(* wire/stream.go, both ends of one stream.  At each end the connection's  *)
(* read loop (serviceReads) runs handleData and handleResetStream, while   *)
(* application goroutines call Write, CloseLocal, Reset and Read.  Nothing *)
(* protects stream.state: a check, a read of the code and a write of it    *)
(* are separate steps, and CloseLocal and CloseRemote lose each other's    *)
(* update.  writeMu orders the frames of one end.                          *)
(*                                                                         *)
(* The connection is a FIFO per direction; a frame's place is fixed when   *)
(* conn.Write queues it.  Once the connection is down every conn.Write     *)
(* returns an error.  A payload is its length and the offset of its first  *)
(* byte; the BlockReader is used as the byte stream BlockReader implements.*)
(***************************************************************************)
EXTENDS Integers, Sequences, StreamState

CONSTANTS
  ClientApps, ServerApps,  \* application goroutines of each end
  Readers,     \* those that read; a BlockReader has one reader per end
  MaxPayload,  \* 65535 in the code
  Lengths,     \* buffer lengths given to Write(.., false)
  EndLengths,  \* buffer lengths given to Write(.., true)
  Calls,       \* the calls the applications make
  MaxCalls,    \* bound on the calls of one goroutine
  MayFail      \* whether the connection can go down

Sides == {"client", "server"}
Apps == ClientApps \cup ServerApps
\* The read loop of an end carries the name of the end.
Threads == Apps \cup Sides
Nobody == "nobody"

ASSUME ThreadsAssumption ==
  /\ ClientApps \cap ServerApps = {}
  /\ Apps \cap (Sides \cup {Nobody}) = {}
  /\ Readers \subseteq Apps
ASSUME NumbersAssumption ==
  /\ MaxPayload \in Nat \ {0} /\ MaxCalls \in Nat
  /\ Lengths \subseteq Nat /\ EndLengths \subseteq Nat
ASSUME SwitchesAssumption ==
  /\ Calls \subseteq {"Write", "WriteEnd", "CloseLocal", "Reset", "Read"}
  /\ MayFail \in BOOLEAN

Peer(s) == IF s = "client" THEN "server" ELSE "client"
Side(t) == IF t \in ClientApps \cup {"client"} THEN "client" ELSE "server"

VARIABLES
  code, err,     \* stream.state of each end
  writeMu,       \* holder of stream.writeMu of each end
  link,          \* frames under way to each end
  down,          \* the connection failed
  sent,          \* payload bytes each end put on its link (history)
  last,          \* last frame each end put on its link (history)
  lost,          \* an update of each end's code overwrote another (history)
  accepted, got, rclosed,  \* each end's BlockReader, as a ByteStream
  pc,            \* where each goroutine is
  job,           \* what it is doing: operation, frames to write, code read
  calls          \* calls made by each application goroutine

reader == <<accepted, got, rclosed>>
state == <<code, err, lost>>
wire == <<writeMu, link, sent, last>>
vars == <<state, wire, down, reader, pc, job, calls>>

---------------------------------------------------------------------------
\* Frames.  "by" names the goroutine whose Write the frame belongs to.

Frame(kind, len, endData, endStream, reason, by) ==
  [kind |-> kind, from |-> 0, len |-> len, endData |-> endData,
   endStream |-> endStream, reason |-> reason, by |-> by]

ResetStreamFrame(reason, by) == Frame("RESET", 0, TRUE, FALSE, reason, by)

Segments(len) == IF len <= MaxPayload THEN 1 ELSE (len + MaxPayload - 1) \div MaxPayload

\* Length of the i-th segment of a buffer of length len.
Segment(len, i) ==
  IF i < Segments(len) THEN MaxPayload ELSE len - (Segments(len) - 1) * MaxPayload

\* wire/data.go: every frame but the last carries MaxPayload bytes, the last
\* one END_DATA; endStream is set on all of them.
DataFramesFromBuffer(len, endStream, by) ==
  [i \in 1 .. Segments(len) |->
     Frame("DATA", Segment(len, i), i = Segments(len), endStream, "none", by)]

Job(op, todo) == [op |-> op, todo |-> todo, snap |-> "open"]
NoJob == Job("none", <<>>)

Init ==
  /\ code = [s \in Sides |-> "open"]
  /\ err = [s \in Sides |-> "none"]
  /\ writeMu = [s \in Sides |-> Nobody]
  /\ link = [s \in Sides |-> <<>>]
  /\ down = FALSE
  /\ sent = [s \in Sides |-> 0]
  /\ last = [s \in Sides |-> ResetStreamFrame("none", Nobody)]
  /\ lost = [s \in Sides |-> FALSE]
  /\ accepted = [s \in Sides |-> 0]
  /\ got = [s \in Sides |-> 0]
  /\ rclosed = [s \in Sides |-> FALSE]
  /\ pc = [t \in Threads |-> "idle"]
  /\ job = [t \in Threads |-> NoJob]
  /\ calls = [t \in Apps |-> 0]

---------------------------------------------------------------------------
\* Control of a goroutine: go on at l with job j, go on at l, or return.

Goto(t, l, j) == pc' = [pc EXCEPT ![t] = l] /\ job' = [job EXCEPT ![t] = j]
At(t, from, to) == pc[t] = from /\ pc' = [pc EXCEPT ![t] = to] /\ UNCHANGED job
Return(t) == Goto(t, "idle", NoJob)

\* An application call op: its check refuses it, or it starts at l.
Begin(t, op, refused, l, todo) ==
  /\ op \in Calls
  /\ pc[t] = "idle"
  /\ calls[t] < MaxCalls
  /\ calls' = [calls EXCEPT ![t] = @ + 1]
  /\ IF refused THEN UNCHANGED <<pc, job>> ELSE Goto(t, l, Job(op, todo))
  /\ UNCHANGED <<state, wire, down, reader>>

\* stream.Write: the state is checked before writeMu is taken.
Write(t, len) ==
  Begin(t, "Write", SendData(code[Side(t)], err[Side(t)]), "lock",
        DataFramesFromBuffer(len, FALSE, t))
WriteEnd(t, len) ==
  Begin(t, "WriteEnd", SendData(code[Side(t)], err[Side(t)]), "lock",
        DataFramesFromBuffer(len, TRUE, t))

\* stream.CloseLocal: half-closes first, then sends an empty END_STREAM frame.
CloseLocalCall(t) ==
  Begin(t, "CloseLocal", SendData(code[Side(t)], err[Side(t)]), "readCode",
        <<Frame("DATA", 0, TRUE, TRUE, "none", t)>>)

\* stream.Reset
Reset(t) ==
  Begin(t, "Reset", SendResetStream(code[Side(t)], err[Side(t)]), "close",
        <<ResetStreamFrame("cancel", t)>>)

\* stream.Read
Read(t) == t \in Readers /\ Begin(t, "Read", err[Side(t)] # "none", "tryRead", <<>>)
---------------------------------------------------------------------------
\* The read loop: handleResetStream and handleData up to their first check.
\* A refused frame is answered with RESET_STREAM(STREAM_CLOSED).

Receive(s) ==
  /\ pc[s] = "idle"
  /\ link[s] # <<>>
  /\ link' = [link EXCEPT ![s] = Tail(@)]
  /\ LET f == Head(link[s])
         refused == IF f.kind = "RESET" THEN RecvResetStream(code[s], err[s])
                    ELSE RecvData(code[s], err[s])
     IN  \/ refused /\ Goto(s, "lock", Job("reply", <<ResetStreamFrame("streamClosed", s)>>))
         \/ ~refused /\ f.kind = "RESET" /\ Goto(s, "close", Job("handleReset", <<f>>))
         \/ ~refused /\ f.kind = "DATA" /\ Goto(s, "enqueue", Job("handleData", <<f>>))
  /\ UNCHANGED <<state, writeMu, sent, last, down, reader, calls>>

\* reader.Enqueue: dropped when the reader is closed.
Enqueue(s) ==
  /\ pc[s] = "enqueue"
  /\ LET f == Head(job[s].todo)
     IN  /\ accepted' = IF rclosed[s] THEN accepted
                        ELSE [accepted EXCEPT ![s] = @ + f.len]
         /\ IF f.endStream THEN At(s, "enqueue", "readCode") ELSE Return(s)
  /\ UNCHANGED <<state, wire, down, got, rclosed, calls>>

\* state.SetError
SetError(s) ==
  /\ At(s, "setError", "closeReader")
  /\ err' = [err EXCEPT ![s] = Head(job[s].todo).reason]
  /\ UNCHANGED <<code, lost, wire, down, reader, calls>>

---------------------------------------------------------------------------
\* Steps of any goroutine.

\* state.Close, in Reset and in handleResetStream
Close(t) ==
  /\ At(t, "close", IF job[t].op = "Reset" THEN "closeReader" ELSE "setError")
  /\ code' = [code EXCEPT ![Side(t)] = "closed"]
  /\ UNCHANGED <<err, lost, wire, down, reader, calls>>

CloseReaderOnlyLocal(t) ==
  /\ pc[t] = "closeReader"
  /\ rclosed' = [rclosed EXCEPT ![Side(t)] = @ \/ job[t].op = "Reset"]
  /\ IF job[t].op = "Reset" THEN At(t, "closeReader", "lock") ELSE Return(t)
  /\ UNCHANGED <<state, wire, down, accepted, got, calls>>

\* reader.internalClose, in Reset and in handleResetStream
CloseReader(t) ==
  /\ pc[t] = "closeReader"
  /\ rclosed' = [rclosed EXCEPT ![Side(t)] = TRUE]
  /\ IF job[t].op = "Reset" THEN At(t, "closeReader", "lock") ELSE Return(t)
  /\ UNCHANGED <<state, wire, down, accepted, got, calls>>

\* The switch of state.CloseLocal or state.CloseRemote reads the code ...
ReadCode(t) ==
  /\ pc[t] = "readCode"
  /\ Goto(t, "writeCode", [job[t] EXCEPT !.snap = code[Side(t)]])
  /\ UNCHANGED <<state, wire, down, reader, calls>>

\* ... and then writes the new one.  CloseLocal (the call) goes on to send its
\* frame; Write returns and releases writeMu; handleData returns.
WriteCode(t) ==
  LET s == Side(t)
      done == job[t].op # "CloseLocal"
  IN  /\ pc[t] = "writeCode"
      /\ code' = [code EXCEPT ![s] = IF job[t].op = "handleData"
                                     THEN CloseRemote(job[t].snap)
                                     ELSE CloseLocal(job[t].snap)]
      /\ lost' = [lost EXCEPT ![s] = @ \/ code[s] # job[t].snap]
      /\ IF done THEN Return(t) ELSE At(t, "writeCode", "lock")
      /\ writeMu' = IF job[t].op = "WriteEnd" THEN [writeMu EXCEPT ![s] = Nobody]
                    ELSE writeMu
      /\ UNCHANGED <<err, link, sent, last, down, reader, calls>>

FreeAlways(s) == TRUE
Free(s) == writeMu[s] = Nobody

\* writeMu.Lock
Lock(t) ==
  /\ At(t, "lock", "write")
  /\ Free(Side(t))
  /\ writeMu' = [writeMu EXCEPT ![Side(t)] = t]
  /\ UNCHANGED <<state, link, sent, last, down, reader, calls>>

\* conn.Write of the next frame.  The last one ends the call, except that a
\* Write with endStream still closes its half, holding writeMu.
Emit(t) ==
  LET s == Side(t)
      f == [Head(job[t].todo) EXCEPT !.from = sent[s]]
      rest == Tail(job[t].todo)
  IN  /\ pc[t] = "write"
      /\ ~down
      /\ link' = [link EXCEPT ![Peer(s)] = Append(@, f)]
      /\ sent' = [sent EXCEPT ![s] = @ + f.len]
      /\ last' = [last EXCEPT ![s] = f]
      /\ \/ /\ rest # <<>>
            /\ Goto(t, "write", [job[t] EXCEPT !.todo = rest])
            /\ UNCHANGED writeMu
         \/ /\ rest = <<>> /\ job[t].op = "WriteEnd"
            /\ At(t, "write", "readCode")
            /\ UNCHANGED writeMu
         \/ /\ rest = <<>> /\ job[t].op # "WriteEnd"
            /\ Return(t)
            /\ writeMu' = [writeMu EXCEPT ![s] = Nobody]
      /\ UNCHANGED <<state, down, reader, calls>>

EmitFailsKeepsLock(t) ==
  /\ pc[t] = "write"
  /\ down
  /\ Return(t)
  /\ UNCHANGED <<state, wire, down, reader, calls>>

\* conn.Write fails: the error is returned and the half is not closed.
EmitFails(t) ==
  /\ pc[t] = "write"
  /\ down
  /\ Return(t)
  /\ writeMu' = [writeMu EXCEPT ![Side(t)] = Nobody]
  /\ UNCHANGED <<state, link, sent, last, down, reader, calls>>

---------------------------------------------------------------------------
\* stream.Read: TryRead, then the check, then the blocking Read.

Take(t) ==
  LET s == Side(t)
  IN  /\ \E n \in 1 .. accepted[s] - got[s] : got' = [got EXCEPT ![s] = @ + n]
      /\ Return(t)
      /\ UNCHANGED <<accepted, rclosed>>
TakeEOFWhenEnded(t) ==
  (rclosed[Side(t)] \/ code[Side(t)] = "halfClosedRemote") /\ Return(t) /\ UNCHANGED reader
TakeEOF(t) == rclosed[Side(t)] /\ Return(t) /\ UNCHANGED reader

TryRead(t) ==
  /\ pc[t] = "tryRead"
  /\ \/ Take(t)
     \/ TakeEOF(t)
     \/ /\ got[Side(t)] = accepted[Side(t)] /\ ~rclosed[Side(t)]
        /\ At(t, "tryRead", "checkRecv")
        /\ UNCHANGED reader
  /\ UNCHANGED <<state, wire, down, calls>>

CheckRecv(t) ==
  /\ pc[t] = "checkRecv"
  /\ IF RecvData(code[Side(t)], err[Side(t)]) THEN Return(t)
     ELSE At(t, "checkRecv", "read")
  /\ UNCHANGED <<state, wire, down, reader, calls>>

BlockingRead(t) ==
  /\ pc[t] = "read"
  /\ Take(t) \/ TakeEOF(t)
  /\ UNCHANGED <<state, wire, down, calls>>

---------------------------------------------------------------------------
\* The connection goes down; frames under way are lost with it.
ConnFails ==
  /\ MayFail /\ ~down
  /\ down' = TRUE
  /\ link' = [s \in Sides |-> <<>>]
  /\ UNCHANGED <<state, writeMu, sent, last, reader, pc, job, calls>>

AppCall(t) ==
  \/ \E len \in Lengths : Write(t, len)
  \/ \E len \in EndLengths : WriteEnd(t, len)
  \/ CloseLocalCall(t) \/ Reset(t) \/ Read(t)

\* The step a goroutine is at, other than waiting for writeMu.
Run(t) ==
  \/ Close(t) \/ CloseReader(t) \/ ReadCode(t) \/ WriteCode(t)
  \/ Emit(t) \/ EmitFails(t)
  \/ t \in Apps /\ (TryRead(t) \/ CheckRecv(t) \/ BlockingRead(t))
  \/ t \in Sides /\ (Receive(t) \/ Enqueue(t) \/ SetError(t))

Next ==
  \/ \E t \in Apps : AppCall(t)
  \/ \E t \in Threads : Run(t) \/ Lock(t)
  \/ ConnFails

Spec == Init /\ [][Next]_vars

\* Goroutines run; sync.Mutex hands itself to a waiter that starves, hence
\* strong fairness for Lock.  Applications need not call anything.
Fairness == \A t \in Threads : WF_vars(Run(t)) /\ SF_vars(Lock(t))

FairSpec == Spec /\ Fairness

---------------------------------------------------------------------------
FrameType ==
  [kind : {"DATA", "RESET"}, from : Nat, len : Nat, endData : BOOLEAN,
   endStream : BOOLEAN, reason : {"none", "cancel", "streamClosed"},
   by : Threads \cup {Nobody}]

TypeOK ==
  /\ code \in [Sides -> Codes]
  /\ err \in [Sides -> {"none", "cancel", "streamClosed"}]
  /\ writeMu \in [Sides -> Threads \cup {Nobody}]
  /\ link \in [Sides -> Seq(FrameType)]
  /\ down \in BOOLEAN
  /\ sent \in [Sides -> Nat]
  /\ last \in [Sides -> FrameType]
  /\ lost \in [Sides -> BOOLEAN]
  /\ accepted \in [Sides -> Nat] /\ \A s \in Sides : got[s] \in 0 .. accepted[s]
  /\ rclosed \in [Sides -> BOOLEAN]
  /\ pc \in [Threads -> {"idle", "lock", "write", "readCode", "writeCode", "close",
                         "closeReader", "setError", "enqueue", "tryRead",
                         "checkRecv", "read"}]
  /\ job \in [Threads -> [op : {"none", "Write", "WriteEnd", "CloseLocal", "Reset",
                                "Read", "reply", "handleReset", "handleData"},
                          todo : Seq(FrameType), snap : Codes]]
  /\ calls \in [Apps -> Nat]

\* A message of several frames is half on the wire.
HalfWritten(s) == last[s].kind = "DATA" /\ ~last[s].endData

\* stream.Write keeps the frames of one message together: after a frame
\* without END_DATA the end sends nothing but the rest of the same Write.
MessagesNotInterleaved ==
  [][\A s \in Sides : HalfWritten(s) /\ last'[s] # last[s] =>
       last'[s].kind = "DATA" /\ last'[s].by = last[s].by]_vars

\* The bytes a stream hands to its reader are a prefix of the bytes the peer
\* wrote, handleData accepts no frame after one it left out, unless this end
\* lost an update of its code: the race is the only way to a gap.
NoGapWithoutRace ==
  [][\A s \in Sides : ~lost[s] /\ accepted'[s] # accepted[s] =>
       Head(job[s].todo).from = accepted[s]]_vars

\* The end refuses every frame from now on: it was reset by the peer, or it
\* is closed and no goroutine is about to overwrite that code.
Dead(s) ==
  \/ err[s] # "none"
  \/ /\ code[s] = "closed"
     /\ \A t \in Threads : Side(t) = s /\ pc[t] = "writeCode" => job[t].snap = "closed"

\* Both ends are dead and a RESET_STREAM is under way or being answered.
Storm ==
  /\ \A s \in Sides : Dead(s)
  /\ \E s \in Sides : \/ \E i \in 1 .. Len(link[s]) : link[s][i].kind = "RESET"
                      \/ pc[s] \in {"lock", "write"} /\ job[s].op = "reply"

\* Each end answers the other's RESET_STREAM with another, for as long as the
\* connection lives.
StormIsPermanent == [][Storm /\ ~down' => Storm']_vars

\* A call other than a Read that waits for data returns.
CallsReturn ==
  \A t \in Apps : pc[t] \notin {"idle", "read"} ~> pc[t] \in {"idle", "read"}

\* A reset by the peer, or by another goroutine of this end, wakes the reader.
ResetWakesReader ==
  \A t \in Readers : pc[t] = "read" /\ (err[Side(t)] # "none" \/ rclosed[Side(t)])
                   ~> pc[t] # "read"

\* When both ends have sent END_STREAM, the connection lives and nothing is left
\* to do, both codes are closed, unless one of CloseLocal and CloseRemote
\* overwrote the other.
BothEndedIsClosed ==
  /\ ~down
  /\ \A t \in Threads : pc[t] = "idle"
  /\ \A s \in Sides : last[s].endStream /\ link[s] = <<>> /\ err[s] = "none" /\ ~lost[s]
  => \A s \in Sides : code[s] = "closed"

\* The reader waits for data after the peer ended its half: stream.Read tested
\* the code before handleData changed it.
Stranded(t) ==
  LET s == Side(t)
  IN  pc[t] = "read" /\ got[s] = accepted[s] /\ ~rclosed[s]
      /\ pc[s] # "enqueue" /\ RecvData(code[s], err[s])

\* Nothing but a reset ever wakes a reader that END_STREAM found waiting: an
\* empty last frame puts nothing in the BlockReader and does not close it.
StrandedUntilReset ==
  [][\A t \in Apps : Stranded(t) =>
       LET s == Side(t) IN Stranded(t)' \/ rclosed'[s] \/ lost'[s]]_vars
=============================================================================

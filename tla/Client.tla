------------------------------- MODULE Client -------------------------------
(***************************************************************************)
(* wire/client.go: the client's end of a connection.  Three goroutines     *)
(* serve it: "service" (which waits for the first error), "reads"          *)
(* (serviceReads) and "writes" (serviceWrites).  Application goroutines    *)
(* call Configure, NewStream, Close, Terminate and, through a stream,      *)
(* Write.  c.err is read and written without a lock, c.running mostly      *)
(* under runningMu, whose sections are single steps here.                  *)
(*                                                                         *)
(* A goroutine has at most one frame in c.toWrite, so the channel holds    *)
(* goroutines.  A pooled outboundFrame is not touched after its result is  *)
(* sent and needs no identity (in Conn it does).  A panic (a send on the   *)
(* closed c.toWrite) stops the process.                                    *)
(***************************************************************************)
EXTENDS Naturals, Sequences

CONSTANTS
  Apps,      \* application goroutines
  Calls,     \* the calls they make
  Cap,       \* capacity of c.toWrite (128 in the code)
  Inbound,   \* kinds of frames the peer sends
  MaxCalls,  \* bound on the calls of one goroutine
  MaxReads   \* bound on the frames read

Nobody == "nobody"
Writers == Apps \cup {"reads"}
Threads == Writers \cup {"writes", "service"}
\* Malformed is a frame whose FromFrame fails; a frame the FrameReader rejects
\* is a read error, as is the end of the connection.
Kinds == {"hello", "helloNoAck", "ping", "pingAck", "goaway", "stream",
          "makeStream", "malformed"}

ASSUME ClientAssumption ==
  /\ Cap \in Nat \ {0} /\ MaxCalls \in Nat /\ MaxReads \in Nat
  /\ Apps \cap {"reads", "writes", "service", Nobody} = {}
  /\ Calls \subseteq {"Configure", "NewStream", "Write", "Terminate", "Close"}
  /\ Inbound \subseteq Kinds

VARIABLES
  running, cerr, setup,      \* c.running, c.err # nil, c.setup
  helloOK,                   \* c.helloOK is closed
  toWrite, toWriteClosed,    \* the channel c.toWrite
  dropClosed, errCh,         \* c.drop is closed, service's channel has an error
  writeMu,                   \* holder of c.writeMu
  ioOpen, peerGone,          \* c.io is open, the peer or the network is gone
  streams, lastStreamID,     \* ids in c.streams, c.lastStreamID
  announced,                 \* ids whose MAKE_STREAM was written (history)
  pc, op, id,                \* of each goroutine: place, call, NewStream's id
  result,                    \* what out.result of its Write holds
  cur,                       \* the goroutine whose frame serviceWrites holds
  panicked, calls, reads     \* calls and reads are the counters of the bounds

flags == <<running, cerr, setup, helloOK>>
chan == <<toWrite, toWriteClosed, dropClosed, errCh>>
net == <<ioOpen, peerGone, announced>>
table == <<streams, lastStreamID>>
bounds == <<calls, reads>>
vars == <<flags, chan, writeMu, net, table, pc, op, id, result, cur, panicked, bounds>>

Init ==
  /\ running = FALSE /\ cerr = FALSE /\ setup = FALSE /\ helloOK = FALSE
  /\ toWrite = <<>> /\ toWriteClosed = FALSE
  /\ dropClosed = FALSE /\ errCh = FALSE
  /\ writeMu = Nobody
  /\ ioOpen = TRUE /\ peerGone = FALSE /\ announced = {}
  /\ streams = {} /\ lastStreamID = 0
  /\ pc = [t \in Threads |-> IF t = "service" THEN "start" ELSE
                             IF t \in Apps THEN "idle" ELSE "unborn"]
  /\ op = [t \in Writers |-> "none"]
  /\ id = [t \in Writers |-> 0]
  /\ result = [t \in Writers |-> "none"]
  /\ cur = Nobody
  /\ panicked = FALSE
  /\ calls = [t \in Apps |-> 0] /\ reads = 0

Goto(t, l) == pc' = [pc EXCEPT ![t] = l]

---------------------------------------------------------------------------
\* client.Write: c.err is checked, the frame queued and its result awaited.

AfterIgnoresError(t, ok) ==
  CASE op[t] = "Configure" /\ ok -> "waitHello"
    [] op[t] = "NewStream"       -> "register"
    [] t = "reads"               -> "reading"
    [] OTHER -> "idle"

\* Where the caller of Write goes on, given whether it succeeded.
After(t, ok) ==
  CASE op[t] = "Configure" /\ ok    -> "waitHello"
    [] op[t] = "NewStream" /\ ok    -> "register"
    [] op[t] = "resetStream" /\ ~ok -> "failed"
    [] t = "reads" /\ (op[t] = "reply" \/ ok) -> "reading"
    [] OTHER -> "idle"

WriteReturns(t, ok) ==
  LET l == After(t, ok)
      done == l \in {"idle", "reading", "failed"}
  IN  /\ Goto(t, l)
      /\ op' = [op EXCEPT ![t] = IF done THEN "none" ELSE @]
      /\ id' = [id EXCEPT ![t] = IF done THEN 0 ELSE @]
      /\ result' = [result EXCEPT ![t] = "none"]

\* if c.err != nil { return c.err }
WriteCheck(t) ==
  /\ pc[t] = "check"
  /\ IF cerr THEN WriteReturns(t, FALSE)
     ELSE Goto(t, "send") /\ UNCHANGED <<op, id, result>>
  /\ UNCHANGED <<flags, chan, writeMu, net, table, cur, panicked, bounds>>

HasRoom == Len(toWrite) < Cap

\* c.toWrite <- out
Send(t) ==
  /\ pc[t] = "send"
  /\ \/ /\ toWriteClosed
        /\ panicked' = TRUE
        /\ UNCHANGED <<toWrite, pc>>
     \/ /\ ~toWriteClosed /\ HasRoom
        /\ toWrite' = Append(toWrite, t)
        /\ Goto(t, "result")
        /\ UNCHANGED panicked
  /\ UNCHANGED <<flags, toWriteClosed, dropClosed, errCh, writeMu, net, table, op, id,
                 result, cur, bounds>>

\* return <-out.result
Answered(t) ==
  /\ pc[t] = "result" /\ result[t] # "none"
  /\ WriteReturns(t, result[t] = "ok")
  /\ UNCHANGED <<flags, chan, writeMu, net, table, cur, panicked, bounds>>

---------------------------------------------------------------------------
\* The calls of the application.

\* A call of kind "call" that goes on at l; when op is "Write" its result is
\* handed to the caller and nothing follows.
Begin(t, call, l) ==
  /\ call \in Calls
  /\ pc[t] = "idle"
  /\ calls[t] < MaxCalls
  /\ calls' = [calls EXCEPT ![t] = @ + 1]
  /\ op' = [op EXCEPT ![t] = IF call = "Terminate" THEN "Write" ELSE call]
  /\ Goto(t, l)
  /\ UNCHANGED <<flags, chan, writeMu, announced, peerGone, streams, result, cur,
                 panicked, reads>>

\* Configure writes a HELLO and waits for the answer.
Configure(t) ==
  /\ Begin(t, "Configure", "check")
  /\ UNCHANGED <<ioOpen, lastStreamID, id>>

WaitForHello(t) ==
  /\ pc[t] = "waitHello" /\ helloOK
  /\ Goto(t, "idle")
  /\ op' = [op EXCEPT ![t] = "none"]
  /\ UNCHANGED <<flags, chan, writeMu, net, table, id, result, cur, panicked, bounds>>

\* NewStream takes the next id, writes MAKE_STREAM ...
NewStream(t) ==
  /\ Begin(t, "NewStream", "check")
  /\ ~cerr
  /\ id' = [id EXCEPT ![t] = lastStreamID + 1]
  /\ lastStreamID' = lastStreamID + 1
  /\ UNCHANGED ioOpen

\* ... and enters the stream in the table when the frame has been written.
Register(t) ==
  /\ pc[t] = "register"
  /\ streams' = streams \cup {id[t]}
  /\ Goto(t, "idle")
  /\ op' = [op EXCEPT ![t] = "none"]
  /\ id' = [id EXCEPT ![t] = 0]
  /\ UNCHANGED <<flags, chan, writeMu, net, lastStreamID, result, cur, panicked, bounds>>

\* A stream writes one of its frames.
StreamWrite(t) ==
  /\ streams # {}
  /\ Begin(t, "Write", "check")
  /\ UNCHANGED <<ioOpen, lastStreamID, id>>

\* Terminate writes a GOAWAY, and does nothing else.
TerminateCall(t) ==
  /\ Begin(t, "Terminate", "check")
  /\ UNCHANGED <<ioOpen, lastStreamID, id>>

\* Close: io.Close, then signalHelloOK.
Close(t) ==
  /\ Begin(t, "Close", "signal")
  /\ ioOpen' = FALSE
  /\ UNCHANGED <<lastStreamID, id>>

CloseSignalForgotten(t) ==
  /\ pc[t] = "signal"
  /\ Goto(t, "idle")
  /\ op' = [op EXCEPT ![t] = "none"]
  /\ UNCHANGED <<flags, chan, writeMu, net, table, id, result, cur, panicked, bounds>>

CloseSignal(t) ==
  /\ pc[t] = "signal"
  /\ helloOK' = TRUE
  /\ Goto(t, "idle")
  /\ op' = [op EXCEPT ![t] = "none"]
  /\ UNCHANGED <<running, cerr, setup, chan, writeMu, net, table, id, result, cur,
                 panicked, bounds>>

---------------------------------------------------------------------------
TerminateAlways ==
  /\ running' = FALSE /\ toWriteClosed' = TRUE /\ dropClosed' = TRUE

\* client.terminate, under runningMu: it does nothing unless c.running.
Terminate ==
  /\ running' = FALSE
  /\ toWriteClosed' = (toWriteClosed \/ running)
  /\ dropClosed' = (dropClosed \/ running)

\* service starts the two loops ...
Start ==
  /\ pc["service"] = "start"
  /\ running' = TRUE
  /\ pc' = [pc EXCEPT !["service"] = "select", !["reads"] = "reading", !["writes"] = "range"]
  /\ UNCHANGED <<cerr, setup, helloOK, chan, writeMu, net, table, op, id, result, cur,
                 panicked, bounds>>

ServiceEndsReports ==
  /\ pc["service"] = "select"
  /\ errCh \/ dropClosed
  /\ Terminate
  /\ cerr' = (cerr \/ errCh)
  /\ Goto("service", "done")
  /\ UNCHANGED <<setup, helloOK, toWrite, errCh, writeMu, net, table, op, id,
                 result, cur, panicked, bounds>>

\* ... and waits for an error or for c.drop.  It returns nil in both cases, as
\* terminate has just cleared c.running: c.err does not get the error.
ServiceEnds ==
  /\ pc["service"] = "select"
  /\ errCh \/ dropClosed
  /\ Terminate
  /\ Goto("service", "done")
  /\ UNCHANGED <<cerr, setup, helloOK, toWrite, errCh, writeMu, net, table, op, id,
                 result, cur, panicked, bounds>>

---------------------------------------------------------------------------
\* writeMu, taken by serviceWrites and by handlePing around io.Copy.

Free == writeMu = Nobody

Lock(t) ==
  /\ t \in {"reads", "writes"} /\ pc[t] = "lock"
  /\ Free
  /\ writeMu' = t
  /\ Goto(t, "copy")
  /\ UNCHANGED <<flags, chan, net, table, op, id, result, cur, panicked, bounds>>

\* io.Copy fails on a connection that is closed, and may once the peer is gone.
CanFail == ~ioOpen \/ peerGone

---------------------------------------------------------------------------
\* serviceWrites

\* for out := range c.toWrite
Take ==
  /\ pc["writes"] = "range"
  /\ \/ /\ toWrite # <<>>
        /\ cur' = Head(toWrite)
        /\ toWrite' = Tail(toWrite)
        /\ Goto("writes", "lock")
     \/ /\ toWrite = <<>> /\ toWriteClosed
        /\ Goto("writes", "done")
        /\ UNCHANGED <<cur, toWrite>>
  /\ UNCHANGED <<flags, toWriteClosed, dropClosed, errCh, writeMu, net, table, op, id,
                 result, panicked, bounds>>

\* The result is sent, writeMu released, and the loop goes on.
Answer(r) ==
  /\ result' = [result EXCEPT ![cur] = r]
  /\ writeMu' = Nobody
  /\ cur' = Nobody
  /\ Goto("writes", "range")

\* The frame is on the wire.
Copied ==
  /\ pc["writes"] = "copy" /\ ioOpen
  /\ announced' = IF op[cur] = "NewStream" THEN announced \cup {id[cur]} ELSE announced
  /\ Answer("ok")
  /\ UNCHANGED <<flags, chan, ioOpen, peerGone, table, op, id, panicked, bounds>>

CopyFailsSilently ==
  /\ pc["writes"] = "copy" /\ CanFail
  /\ IF cerr THEN Answer("none")
     ELSE Goto("writes", "checkRunning") /\ UNCHANGED <<result, writeMu, cur>>
  /\ UNCHANGED <<flags, chan, net, table, op, id, panicked, bounds>>

\* A failed write is answered with c.err when there is one.
CopyFails ==
  /\ pc["writes"] = "copy" /\ CanFail
  /\ IF cerr THEN Answer("err")
     ELSE Goto("writes", "checkRunning") /\ UNCHANGED <<result, writeMu, cur>>
  /\ UNCHANGED <<flags, chan, net, table, op, id, panicked, bounds>>

\* Otherwise, when the client has stopped, the loop returns and the writer, and
\* those still queued, get no answer.
CheckRunning ==
  /\ pc["writes"] = "checkRunning"
  /\ \/ running /\ Answer("err")
     \/ /\ ~running
        /\ writeMu' = Nobody
        /\ Goto("writes", "done")
        /\ UNCHANGED <<result, cur>>
  /\ UNCHANGED <<flags, chan, net, table, op, id, panicked, bounds>>

---------------------------------------------------------------------------
\* serviceReads

\* reader.Read fails, or dispatch returns an error.
ReadError ==
  /\ pc["reads"] = "reading"
  /\ Goto("reads", "failed")
  /\ UNCHANGED <<flags, chan, writeMu, net, table, op, id, result, cur, panicked, bounds>>

\* The error is reported, unless the client has stopped.
ReadFailed ==
  /\ pc["reads"] = "failed"
  /\ Goto("reads", IF running THEN "report" ELSE "done")
  /\ UNCHANGED <<flags, chan, writeMu, net, table, op, id, result, cur, panicked, bounds>>

ReportForgotten ==
  /\ pc["reads"] = "report"
  /\ Goto("reads", "done")
  /\ UNCHANGED <<flags, chan, writeMu, net, table, op, id, result, cur, panicked, bounds>>

Report ==
  /\ pc["reads"] = "report"
  /\ errCh' = TRUE
  /\ Goto("reads", "done")
  /\ UNCHANGED <<flags, toWrite, toWriteClosed, dropClosed, writeMu, net, table, op, id,
                 result, cur, panicked, bounds>>

\* reader.Read returns a frame of kind k for dispatch.
Reads(k) ==
  /\ k \in Inbound
  /\ pc["reads"] = "reading" /\ ioOpen
  /\ reads < MaxReads
  /\ reads' = reads + 1
  /\ UNCHANGED <<writeMu, net, table, toWrite, errCh, id, result, cur, panicked, calls>>

\* A DATA or MAKE_STREAM frame before the HELLO: client.reset sets c.err and
\* returns, its GOAWAY is never sent.
ReadUnexpected ==
  /\ ~setup
  /\ Reads("stream") \/ Reads("makeStream")
  /\ cerr' = TRUE
  /\ UNCHANGED <<running, setup, helloOK, toWriteClosed, dropClosed, pc, op>>

ReadMalformed ==
  /\ Reads("malformed")
  /\ Goto("reads", "failed")
  /\ UNCHANGED <<flags, toWriteClosed, dropClosed, op>>

\* handleHello: one that is no acknowledgement sets c.err, and still counts.
ReadHello ==
  /\ \/ Reads("hello") /\ UNCHANGED cerr
     \/ Reads("helloNoAck") /\ cerr' = TRUE
  /\ setup' = TRUE
  /\ helloOK' = TRUE
  /\ UNCHANGED <<running, toWriteClosed, dropClosed, pc, op>>

\* handlePing answers under writeMu, past c.toWrite.
ReadPing ==
  /\ \/ Reads("ping") /\ Goto("reads", "lock")
     \/ Reads("pingAck") /\ UNCHANGED pc
  /\ UNCHANGED <<flags, toWriteClosed, dropClosed, op>>

Pong ==
  /\ pc["reads"] = "copy"
  /\ \/ ioOpen /\ Goto("reads", "reading")
     \/ CanFail /\ Goto("reads", "failed")
  /\ writeMu' = Nobody
  /\ UNCHANGED <<flags, chan, net, table, op, id, result, cur, panicked, bounds>>

\* handleData and handleResetStream.  Only DATA needs the HELLO.  The peer
\* uses the ids announced to it: one that NewStream has not entered yet is
\* answered with RESET_STREAM; a stream may answer so as well.
ReadStreamFrame ==
  /\ Reads("stream")
  /\ \E n \in announced :
       \/ /\ n \notin streams
          /\ op' = [op EXCEPT !["reads"] = "resetStream"]
          /\ Goto("reads", "check")
       \/ /\ n \in streams
          /\ op' = [op EXCEPT !["reads"] = "reply"]
          /\ Goto("reads", "check")
       \/ n \in streams /\ UNCHANGED <<op, pc>>
  /\ UNCHANGED <<flags, toWriteClosed, dropClosed>>

\* Any other kind, once set up: terminate.
ReadOther ==
  /\ setup /\ Reads("makeStream")
  /\ Terminate
  /\ UNCHANGED <<cerr, setup, helloOK, pc, op>>

\* handleGoAway: clears c.running without runningMu, sets c.err and calls
\* terminate, which finds c.running cleared and closes nothing.
ReadGoAway ==
  /\ Reads("goaway")
  /\ IF running THEN Goto("reads", "goAwayStop") ELSE UNCHANGED pc
  /\ UNCHANGED <<flags, toWriteClosed, dropClosed, op>>

GoAwayStop ==
  /\ pc["reads"] = "goAwayStop"
  /\ running' = FALSE
  /\ Goto("reads", "goAwayErr")
  /\ UNCHANGED <<cerr, setup, helloOK, chan, writeMu, net, table, op, id, result, cur,
                 panicked, bounds>>

GoAwayErr ==
  /\ pc["reads"] = "goAwayErr"
  /\ cerr' = TRUE
  /\ Terminate
  /\ Goto("reads", "reading")
  /\ UNCHANGED <<setup, helloOK, toWrite, errCh, writeMu, net, table, op, id, result,
                 cur, panicked, bounds>>

---------------------------------------------------------------------------
\* The peer closes the connection, or the network fails.
PeerLeaves ==
  /\ ~peerGone
  /\ peerGone' = TRUE
  /\ UNCHANGED <<flags, chan, writeMu, ioOpen, announced, table, pc, op, id, result, cur,
                 panicked, bounds>>

AppCall(t) ==
  \/ Configure(t) \/ NewStream(t) \/ StreamWrite(t) \/ TerminateCall(t) \/ Close(t)
AppRun(t) ==
  \/ WriteCheck(t) \/ Send(t) \/ Answered(t)
  \/ WaitForHello(t) \/ Register(t) \/ CloseSignal(t)
ReadFrame ==
  \/ ReadUnexpected \/ ReadMalformed \/ ReadHello \/ ReadPing \/ ReadStreamFrame
  \/ ReadOther \/ ReadGoAway
ReadLoop ==
  \/ WriteCheck("reads") \/ Send("reads") \/ Answered("reads")
  \/ ReadFailed \/ Report \/ Pong \/ GoAwayStop \/ GoAwayErr
WriteLoop == Take \/ Copied \/ CopyFails \/ CheckRunning
Service == Start \/ ServiceEnds

Next ==
  /\ ~panicked
  /\ \/ \E t \in Apps : AppCall(t) \/ AppRun(t)
     \/ ReadFrame \/ ReadError \/ ReadLoop
     \/ WriteLoop
     \/ \E t \in {"reads", "writes"} : Lock(t)
     \/ Service
     \/ PeerLeaves

Spec == Init /\ [][Next]_vars

\* Goroutines that can run do run; writeMu is a channel, which serves its
\* senders in order, hence strong fairness; a Read of a connection that is
\* closed or lost returns.  Peer and application act only if they wish.
Fairness ==
  /\ \A t \in Apps : WF_vars(~panicked /\ AppRun(t))
  /\ WF_vars(~panicked /\ ReadLoop)
  /\ WF_vars(~panicked /\ CanFail /\ ReadError)
  /\ WF_vars(~panicked /\ WriteLoop)
  /\ WF_vars(~panicked /\ Service)
  /\ \A t \in {"reads", "writes"} : SF_vars(~panicked /\ Lock(t))

FairSpec == Spec /\ Fairness

---------------------------------------------------------------------------
TypeOK ==
  /\ running \in BOOLEAN /\ cerr \in BOOLEAN /\ setup \in BOOLEAN /\ helloOK \in BOOLEAN
  /\ toWrite \in Seq(Writers) /\ Len(toWrite) <= Cap
  /\ toWriteClosed \in BOOLEAN /\ dropClosed \in BOOLEAN /\ errCh \in BOOLEAN
  /\ writeMu \in {Nobody, "reads", "writes"}
  /\ ioOpen \in BOOLEAN /\ peerGone \in BOOLEAN
  /\ announced \subseteq Nat /\ streams \subseteq Nat /\ lastStreamID \in Nat
  /\ pc \in [Threads -> {"idle", "unborn", "start", "select", "done", "check", "send",
                         "result", "waitHello", "register", "signal", "range", "lock",
                         "copy", "checkRunning", "reading", "failed", "report",
                         "goAwayStop", "goAwayErr"}]
  /\ op \in [Writers -> {"none", "Configure", "NewStream", "Write", "Close",
                         "resetStream", "reply"}]
  /\ id \in [Writers -> Nat]
  /\ result \in [Writers -> {"none", "ok", "err"}]
  /\ cur \in Writers \cup {Nobody}
  /\ panicked \in BOOLEAN
  /\ calls \in [Apps -> Nat] /\ reads \in Nat

\* NewStream hands out a stream only after its MAKE_STREAM is on the wire, and
\* under an id of its own, however concurrent calls, the write, its failure and
\* the end of the connection interleave.
StreamsAreAnnounced ==
  /\ streams \subseteq announced
  /\ \A t \in Apps : id[t] # 0 =>
       id[t] \notin streams /\ \A u \in Apps : id[u] = id[t] => u = t

\* handleGoAway has stopped the client: c.toWrite and c.drop stay open, and
\* no error can reach service.
Leaked ==
  /\ pc["service"] = "select" /\ ~running
  /\ ~dropClosed /\ ~toWriteClosed
  /\ ~errCh /\ pc["reads"] # "report"

\* The goroutines of a client stopped by a GOAWAY are never released.
LeakIsPermanent == [][Leaked => Leaked']_vars

\* The read loop ended, on the loss of the connection or a bad frame, and
\* c.err is nil.
Unreported == pc["reads"] = "done" /\ ~cerr

\* The error never gets into c.err (service drops it), so that the check of
\* Write lets every later call through to the send on the closed channel.
LossIsSilent == [][Unreported => Unreported']_vars

\* The writer waits for an answer of a write loop that has returned.
Abandoned(t) == pc[t] = "result" /\ result[t] = "none" /\ pc["writes"] = "done"

\* Every Write is answered, unless the write loop returned without doing so:
\* nobody is left waiting for good.  (Calls are finitely many here, so that the
\* waits of all writers are over together again and again.)
WritesAnswered ==
  []<>(panicked \/ \A t \in Writers : pc[t] = "result" => Abandoned(t))

\* Close releases every Configure that waits for a HELLO.
CloseReleasesConfigure == ~ioOpen ~> (panicked \/ \A t \in Apps : pc[t] # "waitHello")

\* When the connection is lost the three goroutines end, unless a GOAWAY came
\* first.
LossEndsLoops ==
  CanFail ~> (panicked \/ Leaked \/ \A t \in {"service", "reads", "writes"} : pc[t] = "done")
=============================================================================

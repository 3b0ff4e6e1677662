-------------------------------- MODULE Conn --------------------------------
(***************************************************************************)
(* wire/conn.go: one connection of a server.  Its read loop ("reads", the  *)
(* serviceReads goroutine), its write loop ("writes", serviceWrites), the  *)
(* goroutines serving its streams (Handlers) and Server.Shutdown           *)
(* ("shutdown") share running, err, terminateAfter and the pooled          *)
(* outboundFrames with no lock at all.                                     *)
(*                                                                         *)
(* A frame is its kind, and for GOAWAY its identity, since terminateAfter  *)
(* is a pointer comparison.  What a stream does with its frames is the     *)
(* Stream module: here it answers with a RESET_STREAM or not.  A panic     *)
(* (send on a closed channel, close of a closed one) stops the process.    *)
(***************************************************************************)
EXTENDS Naturals, Sequences, FiniteSets

CONSTANTS
  Handlers,    \* goroutines that serve streams
  Outs,        \* outboundFrames the pool may hand out
  Cap,         \* capacity of c.toWrite (128 in the code)
  StreamIDs,   \* ids the peer uses
  Inbound,     \* kinds of frames the peer sends
  MaxReads,    \* bound on the frames read
  MaxWrites,   \* bound on the frames written by one handler
  Shutdowns    \* whether Server.Shutdown may be called

Writers == Handlers \cup {"reads", "shutdown"}
Threads == Writers \cup {"writes"}
NoOut == "noOut"
\* Malformed is any frame whose FromFrame fails, unknown one whose kind byte
\* the FrameReader rejects.
Kinds == {"hello", "ping", "pingAck", "goaway", "makeStream", "stream",
          "malformed", "unknown"}

ASSUME ConnAssumption ==
  /\ Cap \in Nat \ {0} /\ MaxReads \in Nat /\ MaxWrites \in Nat
  /\ Handlers \cap {"reads", "shutdown", "writes"} = {}
  /\ Inbound \subseteq Kinds /\ Shutdowns \in BOOLEAN
  /\ NoOut \notin Outs

VARIABLES
  running, cerr, configured,  \* c.running, c.err # nil, c.configured
  terminateAfter,             \* c.terminateAfter
  streams,                    \* ids in c.streams
  toWrite, toWriteClosed,     \* the channel c.toWrite
  dropClosed, ioOpen,         \* c.drop is closed, c.io is open
  frameOf,                    \* out.frame of every outboundFrame
  outOf, result, then,        \* of each Conn.Write: out, outcome, continuation
  cur,                        \* the out serviceWrites holds
  toCancel,                   \* streams cancelStreams still has to reset
  connectionsMu,              \* Server.connectionsMu is held by Shutdown
  peerGone,                   \* the peer closed, or the network failed
  pc, panicked,
  reads, writes, goAways,     \* counters of the bounds
  first, acks, goneAway       \* what was written (history)

shared == <<running, cerr, configured, terminateAfter, streams>>
chan == <<toWrite, toWriteClosed, dropClosed, ioOpen>>
call == <<frameOf, outOf, result, then>>
hist == <<first, acks, goneAway>>
bounds == <<reads, writes, goAways>>
vars == <<shared, chan, call, cur, toCancel, connectionsMu, peerGone, pc,
          panicked, bounds, hist>>

NoFrame == [kind |-> "nil", id |-> 0]
Frame(kind) == [kind |-> kind, id |-> 0]

Init ==
  /\ running = TRUE /\ cerr = FALSE /\ configured = FALSE
  /\ terminateAfter = NoFrame
  /\ streams = {}
  /\ toWrite = <<>> /\ toWriteClosed = FALSE
  /\ dropClosed = FALSE /\ ioOpen = TRUE
  /\ frameOf = [o \in Outs |-> NoFrame]
  /\ outOf = [t \in Writers |-> NoOut]
  /\ result = [t \in Writers |-> "none"]
  /\ then = [t \in Writers |-> "loop"]
  /\ cur = NoOut
  /\ toCancel = {}
  /\ connectionsMu = FALSE
  /\ peerGone = FALSE
  /\ pc = [t \in Threads |-> IF t = "reads" THEN "loop"
                             ELSE IF t = "writes" THEN "range" ELSE "idle"]
  /\ panicked = FALSE
  /\ reads = 0 /\ writes = [h \in Handlers |-> 0] /\ goAways = 0
  /\ first = "none" /\ acks = 0 /\ goneAway = FALSE

Goto(t, l) == pc' = [pc EXCEPT ![t] = l]

---------------------------------------------------------------------------
\* Conn.Write, called by every goroutine but the write loop.

InWrite(t) == pc[t] \in {"send", "result"}

AvailableAll == Outs
Available == Outs \ {outOf[u] : u \in {u \in Writers : InWrite(u)}}

\* A send on c.toWrite does not block.
HasRoom == Len(toWrite) < Cap

\* Take an out from the pool, or a new one: any that no other call is using.
\* The write loop may still be holding it.  Go on at k when Write returns.
StartWrite(t, f, k) ==
  /\ \E o \in Available :
       /\ outOf' = [outOf EXCEPT ![t] = o]
       /\ frameOf' = [frameOf EXCEPT ![o] = f]
  /\ result' = [result EXCEPT ![t] = "none"]
  /\ then' = [then EXCEPT ![t] = k]
  /\ Goto(t, "send")

\* c.toWrite <- out
Send(t) ==
  /\ pc[t] = "send"
  /\ \/ /\ toWriteClosed
        /\ panicked' = TRUE
        /\ UNCHANGED <<toWrite, pc>>
     \/ /\ ~toWriteClosed /\ HasRoom
        /\ toWrite' = Append(toWrite, outOf[t])
        /\ Goto(t, "result")
        /\ UNCHANGED panicked
  /\ UNCHANGED <<shared, toWriteClosed, dropClosed, ioOpen, call, cur, toCancel,
                 connectionsMu, peerGone, bounds, hist>>

\* Conn.goAway(code, nil, true): the connection is to end after this frame.
GoAway(t, k) ==
  LET f == [kind |-> "GOAWAY", id |-> goAways + 1]
  IN  /\ goAways' = f.id
      /\ terminateAfter' = f
      /\ StartWrite(t, f, k)

\* The out goes back to the pool with its frame in it.
PutOut(t) ==
  /\ outOf' = [outOf EXCEPT ![t] = NoOut]
  /\ result' = [result EXCEPT ![t] = "none"]
  /\ then' = [then EXCEPT ![t] = "loop"]
  /\ UNCHANGED frameOf

\* Write returns to the read loop.  A failed HELLO or PING answer terminates.
ReadsReturn ==
  LET failed == result["reads"] = "err" /\ then["reads"] \in {"hello", "ping"}
  IN  /\ pc["reads"] = "result" /\ result["reads"] # "none"
      /\ cerr' = (cerr \/ (failed /\ then["reads"] = "ping"))
      /\ Goto("reads", IF failed THEN "check"
                       ELSE IF then["reads"] = "cancel" THEN "cancel" ELSE "loop")
      /\ PutOut("reads")
      /\ UNCHANGED <<running, configured, terminateAfter, streams, chan, cur, toCancel,
                     connectionsMu, peerGone, panicked, bounds, hist>>

\* Write returns to a stream's goroutine, or to Shutdown, which is then done.
OthersReturn(t) ==
  /\ t # "reads" /\ pc[t] = "result" /\ result[t] # "none"
  /\ Goto(t, IF t = "shutdown" THEN "done" ELSE "idle")
  /\ connectionsMu' = IF t = "shutdown" THEN FALSE ELSE connectionsMu
  /\ PutOut(t)
  /\ UNCHANGED <<shared, chan, cur, toCancel, peerGone, panicked, bounds, hist>>

\* A goroutine serving a stream writes one of its frames.
HandlerWrite(h) ==
  /\ pc[h] = "idle" /\ streams # {}
  /\ writes[h] < MaxWrites
  /\ writes' = [writes EXCEPT ![h] = @ + 1]
  /\ StartWrite(h, Frame("DATA"), "loop")
  /\ UNCHANGED <<shared, chan, cur, toCancel, connectionsMu, peerGone, panicked,
                 reads, goAways, hist>>

\* Server.Shutdown, for this connection: goAway under connectionsMu.
Shutdown ==
  /\ Shutdowns /\ pc["shutdown"] = "idle"
  /\ ~connectionsMu
  /\ connectionsMu' = TRUE
  /\ GoAway("shutdown", "loop")
  /\ UNCHANGED <<running, cerr, configured, streams, chan, cur, toCancel, peerGone,
                 panicked, reads, writes, hist>>
---------------------------------------------------------------------------
\* serviceReads

\* for c.running
CheckRunning ==
  /\ pc["reads"] = "loop"
  /\ Goto("reads", IF running THEN "reading" ELSE "done")
  /\ UNCHANGED <<shared, chan, call, cur, toCancel, connectionsMu, peerGone,
                 panicked, bounds, hist>>

\* reader.Read returns an error: end of file, a closed socket, or a frame of
\* an unknown kind.
ReadError ==
  /\ pc["reads"] = "reading"
  /\ \/ ~ioOpen \/ peerGone
     \/ "unknown" \in Inbound
  /\ cerr' = TRUE
  /\ Goto("reads", "check")
  /\ UNCHANGED <<running, configured, terminateAfter, streams, chan, call, cur,
                 toCancel, connectionsMu, peerGone, panicked, bounds, hist>>

\* reader.Read returns a frame of kind k, which dispatchFrame handles.
Reads(k) ==
  /\ k \in Inbound
  /\ pc["reads"] = "reading" /\ ioOpen
  /\ reads < MaxReads
  /\ reads' = reads + 1
  /\ UNCHANGED <<running, cerr, chan, cur, connectionsMu, peerGone, panicked,
                 writes, hist>>

Continue ==
  /\ Goto("reads", "loop")
  /\ UNCHANGED <<call, goAways, terminateAfter>>

Answer(f, k) ==
  /\ StartWrite("reads", f, k)
  /\ UNCHANGED <<goAways, terminateAfter>>

\* A frame that does not parse, or any but HELLO before the handshake.
ReadProtocolError ==
  /\ \/ Reads("malformed")
     \/ \E k \in Kinds \ {"hello", "malformed", "unknown"} : ~configured /\ Reads(k)
  /\ GoAway("reads", "loop")
  /\ UNCHANGED <<configured, streams, toCancel>>

ReadHelloAgain ==
  /\ Reads("hello")
  /\ configured' = TRUE
  /\ Answer(Frame("HELLO"), "hello")
  /\ UNCHANGED <<streams, toCancel>>

\* handleHello
ReadHello ==
  /\ Reads("hello")
  /\ configured' = TRUE
  /\ IF configured THEN GoAway("reads", "loop") ELSE Answer(Frame("HELLO"), "hello")
  /\ UNCHANGED <<streams, toCancel>>

\* handlePing: an acknowledgement is ignored.
ReadPing ==
  /\ configured
  /\ \/ Reads("ping") /\ Answer(Frame("PING"), "ping")
     \/ Reads("pingAck") /\ Continue
  /\ UNCHANGED <<configured, streams, toCancel>>

\* handleGoAway: cancelStreams, then terminate.
ReadGoAway ==
  /\ configured /\ Reads("goaway")
  /\ toCancel' = streams
  /\ Goto("reads", "cancel")
  /\ UNCHANGED <<configured, streams, call, goAways, terminateAfter>>

CancelStream(id) ==
  /\ pc["reads"] = "cancel" /\ id \in toCancel
  /\ toCancel' = toCancel \ {id}
  /\ \/ StartWrite("reads", Frame("RESET_STREAM"), "cancel")
     \/ UNCHANGED <<call, pc>>   \* Reset returned ClosedStreamErr
  /\ UNCHANGED <<shared, chan, cur, connectionsMu, peerGone, panicked, bounds, hist>>

Cancelled ==
  /\ pc["reads"] = "cancel" /\ toCancel = {}
  /\ Goto("reads", "check")
  /\ UNCHANGED <<shared, chan, call, cur, toCancel, connectionsMu, peerGone,
                 panicked, bounds, hist>>

\* handleMakeStream
ReadMakeStream(id) ==
  /\ configured /\ Reads("makeStream")
  /\ streams' = streams \cup {id}
  /\ IF id \in streams THEN GoAway("reads", "loop") ELSE Continue
  /\ UNCHANGED <<configured, toCancel>>

\* handleData and handleResetFrame: reset an unknown stream, else the stream
\* takes the frame or answers it with a RESET_STREAM.
ReadStreamFrame(id) ==
  /\ configured /\ Reads("stream")
  /\ \/ Answer(Frame("RESET_STREAM"), "loop")
     \/ id \in streams /\ Continue
  /\ UNCHANGED <<configured, streams, toCancel>>

---------------------------------------------------------------------------
\* serviceWrites

AnswerOnlyOk(ok) ==
  \E t \in Writers :
    /\ pc[t] = "result" /\ outOf[t] = Head(toWrite)
    /\ result' = [result EXCEPT ![t] = IF ok THEN "ok" ELSE @]

\* out.result <- err
AnswerWriter(ok) ==
  \E t \in Writers :
    /\ pc[t] = "result" /\ outOf[t] = Head(toWrite)
    /\ result' = [result EXCEPT ![t] = IF ok THEN "ok" ELSE "err"]

Outcome(ok, f) ==
  /\ AnswerWriter(ok)
  /\ IF ok THEN /\ first' = IF first = "none" THEN f.kind ELSE first
                /\ acks' = acks + (IF f.kind = "HELLO" THEN 1 ELSE 0)
                /\ goneAway' = (goneAway \/ f.kind = "GOAWAY")
                /\ Goto("writes", "compare")
     ELSE UNCHANGED <<first, acks, goneAway, pc>>

\* Take the next out, write its frame, send the result.
ServiceWrite ==
  /\ pc["writes"] = "range" /\ toWrite # <<>>
  /\ \/ ~cerr /\ ioOpen /\ Outcome(TRUE, frameOf[Head(toWrite)])
     \/ (cerr \/ ~ioOpen \/ peerGone) /\ Outcome(FALSE, NoFrame)
  /\ toWrite' = Tail(toWrite)
  /\ cur' = IF pc'["writes"] = "compare" THEN Head(toWrite) ELSE NoOut
  /\ UNCHANGED <<shared, toWriteClosed, dropClosed, ioOpen, frameOf, outOf, then,
                 toCancel, connectionsMu, peerGone, panicked, bounds>>

\* out.frame == c.terminateAfter, read after the result was sent: the writer
\* may have returned its out to the pool, and another may have filled it.
CompareFrame ==
  /\ pc["writes"] = "compare"
  /\ Goto("writes", IF frameOf[cur] = terminateAfter THEN "check" ELSE "range")
  /\ cur' = NoOut
  /\ UNCHANGED <<shared, chan, call, toCancel, connectionsMu, peerGone,
                 panicked, bounds, hist>>

\* The range loop ends when the channel is closed and drained.
WritesDone ==
  /\ pc["writes"] = "range" /\ toWrite = <<>> /\ toWriteClosed
  /\ Goto("writes", "done")
  /\ UNCHANGED <<shared, chan, call, cur, toCancel, connectionsMu, peerGone,
                 panicked, bounds, hist>>

---------------------------------------------------------------------------
\* Conn.terminate, by the read loop or the write loop.

Loop(t) == IF t = "reads" THEN "loop" ELSE "range"
rest == <<cerr, configured, terminateAfter, streams, toWrite, call, cur, toCancel,
          connectionsMu, peerGone, bounds, hist>>

\* if !c.running { return }
TerminateCheck(t) ==
  /\ pc[t] = "check"
  /\ Goto(t, IF running THEN "stop" ELSE Loop(t))
  /\ UNCHANGED <<rest, running, toWriteClosed, dropClosed, ioOpen, panicked>>

TerminateStopLater(t) ==
  /\ pc[t] = "stop"
  /\ Goto(t, "closeDrop")
  /\ UNCHANGED <<rest, running, toWriteClosed, dropClosed, ioOpen, panicked>>

\* c.running = false
TerminateStop(t) ==
  /\ pc[t] = "stop"
  /\ running' = FALSE
  /\ Goto(t, "closeDrop")
  /\ UNCHANGED <<rest, toWriteClosed, dropClosed, ioOpen, panicked>>

\* close(c.drop) panics when another goroutine passed the check as well.
TerminateDrop(t) ==
  /\ pc[t] = "closeDrop"
  /\ dropClosed' = TRUE
  /\ panicked' = dropClosed
  /\ Goto(t, "closeIO")
  /\ UNCHANGED <<rest, running, toWriteClosed, ioOpen>>

\* c.io.Close()
TerminateIO(t) ==
  /\ pc[t] = "closeIO"
  /\ ioOpen' = FALSE
  /\ Goto(t, "closeToWrite")
  /\ UNCHANGED <<rest, running, toWriteClosed, dropClosed, panicked>>

TerminateToWriteForgotten(t) ==
  /\ pc[t] = "closeToWrite"
  /\ Goto(t, "leave")
  /\ UNCHANGED <<rest, running, toWriteClosed, dropClosed, ioOpen, panicked>>

\* close(c.toWrite)
TerminateToWrite(t) ==
  /\ pc[t] = "closeToWrite"
  /\ toWriteClosed' = TRUE
  /\ panicked' = toWriteClosed
  /\ Goto(t, "leave")
  /\ UNCHANGED <<rest, running, dropClosed, ioOpen>>

TerminateLeaveUnlocked(t) ==
  /\ pc[t] = "leave"
  /\ Goto(t, Loop(t))
  /\ UNCHANGED <<rest, running, toWriteClosed, dropClosed, ioOpen, panicked>>

\* c.parent.connectionClosed(c.id) needs connectionsMu.  The entry it deletes
\* is not this connection's: Serve stores a connection under its id + 1.
TerminateLeave(t) ==
  /\ pc[t] = "leave" /\ ~connectionsMu
  /\ Goto(t, Loop(t))
  /\ UNCHANGED <<rest, running, toWriteClosed, dropClosed, ioOpen, panicked>>

Terminate(t) ==
  \/ TerminateCheck(t) \/ TerminateStop(t) \/ TerminateDrop(t)
  \/ TerminateIO(t) \/ TerminateToWrite(t) \/ TerminateLeave(t)

---------------------------------------------------------------------------
\* The peer closes the connection, or the network fails.
PeerLeaves ==
  /\ ~peerGone
  /\ peerGone' = TRUE
  /\ UNCHANGED <<shared, chan, call, cur, toCancel, connectionsMu, pc, panicked,
                 bounds, hist>>

ReadFrame ==
  \/ ReadProtocolError \/ ReadHello \/ ReadPing \/ ReadGoAway
  \/ \E id \in StreamIDs : ReadMakeStream(id) \/ ReadStreamFrame(id)

ReadLoop ==
  \/ CheckRunning \/ ReadsReturn \/ Send("reads") \/ Terminate("reads")
  \/ Cancelled \/ \E id \in StreamIDs : CancelStream(id)
WriteLoop == ServiceWrite \/ CompareFrame \/ WritesDone \/ Terminate("writes")
Other(t) == Send(t) \/ OthersReturn(t)

Next ==
  /\ ~panicked
  /\ \/ ReadLoop \/ ReadError \/ ReadFrame
     \/ WriteLoop
     \/ \E t \in Writers \ {"reads"} : Other(t)
     \/ \E h \in Handlers : HandlerWrite(h)
     \/ Shutdown
     \/ PeerLeaves

Spec == Init /\ [][Next]_vars

\* Goroutines that can run do run, and a Read of a socket that is closed or
\* whose peer has gone returns.  The peer, the handlers and Shutdown act only
\* if they wish.
Fairness ==
  /\ WF_vars(~panicked /\ ReadLoop)
  /\ WF_vars(~panicked /\ (~ioOpen \/ peerGone) /\ ReadError)
  /\ WF_vars(~panicked /\ WriteLoop)
  /\ \A t \in Writers \ {"reads"} : WF_vars(~panicked /\ Other(t))

FairSpec == Spec /\ Fairness
---------------------------------------------------------------------------
FrameType == [kind : {"nil", "HELLO", "PING", "GOAWAY", "RESET_STREAM", "DATA"},
              id : Nat]

TypeOK ==
  /\ running \in BOOLEAN /\ cerr \in BOOLEAN /\ configured \in BOOLEAN
  /\ terminateAfter \in FrameType
  /\ streams \subseteq StreamIDs /\ toCancel \subseteq StreamIDs
  /\ toWrite \in Seq(Outs) /\ Len(toWrite) <= Cap
  /\ toWriteClosed \in BOOLEAN /\ dropClosed \in BOOLEAN /\ ioOpen \in BOOLEAN
  /\ frameOf \in [Outs -> FrameType]
  /\ outOf \in [Writers -> Outs \cup {NoOut}]
  /\ result \in [Writers -> {"none", "ok", "err"}]
  /\ then \in [Writers -> {"loop", "hello", "ping", "cancel"}]
  /\ cur \in Outs \cup {NoOut}
  /\ connectionsMu \in BOOLEAN /\ peerGone \in BOOLEAN /\ panicked \in BOOLEAN
  /\ pc \in [Threads -> {"idle", "loop", "reading", "cancel", "range", "compare",
                         "send", "result", "check", "stop", "closeDrop", "closeIO",
                         "closeToWrite", "leave", "done"}]
  /\ reads \in Nat /\ writes \in [Handlers -> Nat] /\ goAways \in Nat
  /\ first \in {"none", "HELLO", "PING", "GOAWAY", "RESET_STREAM", "DATA"}
  /\ acks \in Nat /\ goneAway \in BOOLEAN

\* The handshake comes first: before the HELLO acknowledgement the connection
\* writes nothing but GOAWAY, it acknowledges at most one HELLO, and a stream
\* exists only on a configured connection.
HandshakeFirst ==
  /\ first \in {"none", "HELLO", "GOAWAY"}
  /\ acks <= 1
  /\ streams # {} => configured

\* A send on the closed toWrite, or a second close, happens only on a
\* connection that is being terminated.
PanicOnlyWhenStopping == panicked => ~running

\* Every queued frame has one writer waiting for its result, and no two
\* writers share a pooled outboundFrame.
OneWriterPerOut ==
  /\ \A t, u \in Writers : InWrite(t) /\ InWrite(u) /\ outOf[t] = outOf[u] => t = u
  /\ \A i \in 1 .. Len(toWrite) :
       \E t \in Writers : pc[t] = "result" /\ result[t] = "none" /\ outOf[t] = toWrite[i]
  /\ \A i, j \in 1 .. Len(toWrite) : toWrite[i] = toWrite[j] => i = j

\* Shutdown waits, holding connectionsMu, for a frame still in the queue of a
\* write loop that waits for connectionsMu in terminate.
ShutdownStuck ==
  /\ pc["shutdown"] = "result" /\ result["shutdown"] = "none"
  /\ pc["writes"] = "leave" /\ connectionsMu

\* That deadlock of Server.Shutdown and Conn.terminate never resolves.
ShutdownStuckIsPermanent == [][ShutdownStuck => ShutdownStuck']_vars

\* Every Conn.Write is answered, even when the connection ends meanwhile.
WritesAnswered ==
  \A t \in Writers : pc[t] = "result" ~> (pc[t] # "result" \/ panicked)

\* Once the connection stops, its two goroutines end: none is leaked.
LoopsEnd ==
  ~running ~> (panicked \/ (pc["reads"] = "done" /\ pc["writes"] = "done"))

---------------------------------------------------------------------------
\* A statement of conn_test.go, false of this code (see the README).

\* "sending an ill-encoded frame causes a GOAWAY", after which the test waits
\* for the connection to stop: a written GOAWAY ends the connection.
GoAwayEndsConnection == goneAway ~> (~running \/ panicked)
=============================================================================

------------------------------- MODULE Server -------------------------------
(***************************************************************************)
(* A whole server: wire/server.go (the accept loop, the table of           *)
(* connections, Shutdown), the end of each of its connections              *)
(* (wire/conn.go) and the dispatch of their streams (server.go).           *)
(*                                                                         *)
(* A connection is reduced to what Conn shows of it without its races:     *)
(* where it is in terminate, and which of its loops is there.  Each        *)
(* connection of Streamers opens at most one stream.  A panic, or the      *)
(* runtime's "concurrent map writes", ends the process.                    *)
(***************************************************************************)
EXTENDS Integers

CONSTANTS
  MaxConns,    \* bound on the connections accepted
  Streamers,   \* connections that open a stream
  Services     \* services the application may register

Conns == 0 .. MaxConns - 1
NoConn == -1

ASSUME ServerAssumption == MaxConns \in Nat /\ Streamers \subseteq Conns

VARIABLES
  services,     \* keys of srv.services
  listening,    \* the listener is open
  serve,        \* where Serve is; "register": accepted, wants connectionsMu
  connID, connections,   \* of wire.Server; key -> Conn
  phase, by,    \* of each connection: how far terminate is, in which loop
  reading,      \* connections whose read loop runs
  shutdown,     \* where Shutdown is; it holds connectionsMu in between
  todo, target, \* keys left to visit, connection whose Write it waits for
  told,         \* live connections Shutdown sent a GOAWAY (history)
  h,            \* goroutine of ServiceStream, for the stream of a connection
  arrived,      \* connections whose stream holds a Request, unread
  panicked

conn == <<phase, by, reading>>
table == <<connID, connections>>
down == <<shutdown, todo, target, told>>
disp == <<h, arrived>>
vars == <<services, listening, serve, table, conn, down, disp, panicked>>

Init ==
  /\ services = {}
  /\ listening = TRUE /\ serve = "setup"
  /\ connID = 0
  /\ connections = [k \in 0 .. MaxConns |-> NoConn]
  /\ phase = [c \in Conns |-> "unborn"] /\ by = [c \in Conns |-> "none"]
  /\ reading = {}
  /\ shutdown = "idle" /\ todo = {} /\ target = NoConn /\ told = {}
  /\ h = [c \in Conns |-> "none"] /\ arrived = {}
  /\ panicked = FALSE

connectionsMu == shutdown \in {"notify", "wait"}

---------------------------------------------------------------------------
\* The application registers its services, then calls Serve.

RegisterService(s) ==
  /\ serve = "setup" /\ s \notin services
  /\ services' = services \cup {s}
  /\ UNCHANGED <<listening, serve, table, conn, down, disp, panicked>>

Serve ==
  /\ serve = "setup" /\ serve' = "accept"
  /\ UNCHANGED <<services, listening, table, conn, down, disp, panicked>>

\* listener.Accept, without the lock; any error ends the loop.
Accept ==
  /\ serve = "accept"
  /\ \/ listening /\ connID < MaxConns /\ serve' = "register"
     \/ serve' = "done"
  /\ UNCHANGED <<services, listening, table, conn, down, disp, panicked>>

RegisterOwnKey ==
  /\ serve = "register" /\ ~connectionsMu
  /\ phase' = [phase EXCEPT ![connID] = "live"]
  /\ reading' = reading \cup {connID}
  /\ connID' = connID + 1
  /\ connections' = [connections EXCEPT ![connID] = connID]
  /\ serve' = "accept"
  /\ UNCHANGED <<services, listening, by, down, disp, panicked>>

\* NewConn gets the id connID and is stored under the next one.
Register ==
  /\ serve = "register" /\ ~connectionsMu
  /\ phase' = [phase EXCEPT ![connID] = "live"]
  /\ reading' = reading \cup {connID}
  /\ connID' = connID + 1
  /\ connections' = [connections EXCEPT ![connID + 1] = connID]
  /\ serve' = "accept"
  /\ UNCHANGED <<services, listening, by, down, disp, panicked>>

---------------------------------------------------------------------------
Handle(c, l) == h' = [h EXCEPT ![c] = l]

\* A reset stream fails the Read of its goroutine and then refuses its answer:
\* nothing else is left for the goroutine to do.
WakeByReset(c) ==
  /\ IF h[c] = "request" THEN Handle(c, "done") ELSE UNCHANGED h
  /\ arrived' = arrived \ {c}

\* Conn.terminate, in the read loop (the peer left) or in the write loop (it
\* wrote the GOAWAY that ends the connection: Shutdown, or a protocol error).

Stop(c, loop) ==
  /\ phase[c] = "live"
  /\ phase' = [phase EXCEPT ![c] = "stopping"]
  /\ by' = [by EXCEPT ![c] = loop]
  /\ reading' = IF loop = "reads" THEN reading \ {c} ELSE reading
  /\ UNCHANGED <<services, listening, serve, table, down, disp, panicked>>

\* handleGoAway: cancelStreams resets the stream, then terminate.
PeerGoAway(c) ==
  /\ phase[c] = "live"
  /\ phase' = [phase EXCEPT ![c] = "stopping"]
  /\ by' = [by EXCEPT ![c] = "reads"] /\ reading' = reading \ {c}
  /\ WakeByReset(c)
  /\ UNCHANGED <<services, listening, serve, table, down, panicked>>

\* The read loop notices that the write loop terminated the connection.
ReadsEnd(c) ==
  /\ c \in reading /\ phase[c] # "live"
  /\ reading' = reading \ {c}
  /\ UNCHANGED <<services, listening, serve, table, phase, by, down, disp, panicked>>

\* close(c.toWrite)
Seal(c) ==
  /\ phase[c] = "stopping"
  /\ phase' = [phase EXCEPT ![c] = "sealed"]
  /\ UNCHANGED <<services, listening, serve, table, by, reading, down, disp, panicked>>

\* connectionClosed(c.id): the entry under this id is another connection's.
Leave(c) ==
  /\ phase[c] = "sealed" /\ ~connectionsMu
  /\ phase' = [phase EXCEPT ![c] = "gone"]
  /\ by' = [by EXCEPT ![c] = "none"]
  /\ connections' = [connections EXCEPT ![c] = NoConn]
  /\ UNCHANGED <<services, listening, serve, connID, reading, down, disp, panicked>>

\* c.toWrite is closed: a Write panics.
Dead(c) == phase[c] \in {"sealed", "gone"}

\* The write loop serves its queue, being live, draining, or out of terminate.
Answers(c) == ~(by[c] = "writes" /\ phase[c] \in {"stopping", "sealed"})

---------------------------------------------------------------------------
\* Server.Shutdown

VisitedAllButLast == {k \in 0 .. MaxConns : connections[k] # NoConn /\ k < connID}
Visited == {k \in 0 .. MaxConns : connections[k] # NoConn}

ShutdownKeepsListening ==
  /\ shutdown = "idle"
  /\ shutdown' = "notify"
  /\ todo' = Visited
  /\ UNCHANGED <<services, listening, serve, table, conn, target, told, disp, panicked>>

ShutdownBegin ==
  /\ shutdown = "idle"
  /\ shutdown' = "notify"
  /\ listening' = FALSE
  /\ todo' = Visited
  /\ UNCHANGED <<services, serve, table, conn, target, told, disp, panicked>>

\* conn.goAway for one entry of the table, in any order.
GoAway(k) ==
  LET c == connections[k] IN
  /\ shutdown = "notify" /\ k \in todo
  /\ todo' = todo \ {k}
  /\ IF Dead(c)
     THEN panicked' = TRUE /\ UNCHANGED <<shutdown, target, told>>
     ELSE /\ shutdown' = "wait" /\ target' = c
          /\ told' = IF phase[c] = "live" THEN told \cup {c} ELSE told
          /\ UNCHANGED panicked
  /\ UNCHANGED <<services, listening, serve, table, conn, disp>>

GoAwayWritten ==
  /\ shutdown = "wait" /\ Answers(target)
  /\ shutdown' = "notify" /\ target' = NoConn
  /\ UNCHANGED <<services, listening, serve, table, conn, todo, told, disp, panicked>>

ShutdownEnd ==
  /\ shutdown = "notify" /\ todo = {}
  /\ shutdown' = "done"
  /\ UNCHANGED <<services, listening, serve, table, conn, todo, target, told, disp,
                 panicked>>

---------------------------------------------------------------------------
\* handleMakeStream and srv.ServiceStream

\* The read loop starts the goroutine that serves the stream, which resets it
\* when idGenerator fails.
MakeStream(c) ==
  /\ c \in reading /\ c \in Streamers /\ h[c] = "none"
  /\ Handle(c, "request") \/ Handle(c, "respond")
  /\ UNCHANGED <<services, listening, serve, table, conn, down, arrived, panicked>>

ArriveLate(c) ==
  /\ h[c] = "request" /\ c \notin arrived
  /\ arrived' = arrived \cup {c}
  /\ UNCHANGED <<services, listening, serve, table, conn, down, h, panicked>>

\* The read loop hands the stream its Request.
Arrive(c) ==
  /\ c \in reading /\ h[c] = "request" /\ c \notin arrived
  /\ arrived' = arrived \cup {c}
  /\ UNCHANGED <<services, listening, serve, table, conn, down, h, panicked>>

\* The peer resets the stream (handleResetFrame).
ResetStream(c) ==
  /\ c \in reading /\ h[c] = "request"
  /\ WakeByReset(c)
  /\ UNCHANGED <<services, listening, serve, table, conn, down, panicked>>

\* The Request names a registered service, or is rejected with a Response.
ReadRequest(c) ==
  /\ h[c] = "request" /\ c \in arrived
  /\ \/ services # {} /\ Handle(c, "storing")
     \/ Handle(c, "respond")
  /\ arrived' = arrived \ {c}
  /\ UNCHANGED <<services, listening, serve, table, conn, down, panicked>>

Storing == {c \in Conns : h[c] = "storing"}

\* srv.streams[reqID] = str and srv.streamContext[reqID] = ... without a lock:
\* overlapping writes may or may not be noticed by the runtime.  Then the
\* handler runs, until it has something to write.
Store(c) ==
  /\ h[c] = "storing"
  /\ \/ Handle(c, "respond") /\ UNCHANGED panicked
     \/ Storing # {c} /\ panicked' = TRUE /\ UNCHANGED h
  /\ UNCHANGED <<services, listening, serve, table, conn, down, arrived>>

RespondEarlyPanic(c) ==
  /\ h[c] = "respond"
  /\ IF phase[c] # "live" THEN panicked' = TRUE /\ UNCHANGED h
     ELSE UNCHANGED panicked /\ (Handle(c, "result") \/ Handle(c, "done"))
  /\ UNCHANGED <<services, listening, serve, table, conn, down, arrived>>

\* str.Write or str.Reset: the stream refuses it or it goes to Conn.Write.
Respond(c) ==
  /\ h[c] = "respond"
  /\ \/ Dead(c) /\ panicked' = TRUE /\ UNCHANGED h
     \/ ~Dead(c) /\ Handle(c, "result") /\ UNCHANGED panicked
     \/ Handle(c, "done") /\ UNCHANGED panicked
  /\ UNCHANGED <<services, listening, serve, table, conn, down, arrived>>

RespondedOnlyLive(c) ==
  /\ h[c] = "result" /\ phase[c] = "live"
  /\ Handle(c, "done")
  /\ UNCHANGED <<services, listening, serve, table, conn, down, arrived, panicked>>

Responded(c) ==
  /\ h[c] = "result" /\ Answers(c)
  /\ Handle(c, "done")
  /\ UNCHANGED <<services, listening, serve, table, conn, down, arrived, panicked>>

---------------------------------------------------------------------------
Terminate(c) == Seal(c) \/ Leave(c)
ShutdownStep == (\E k \in 0 .. MaxConns : GoAway(k)) \/ GoAwayWritten \/ ShutdownEnd
ServiceStream(c) ==
  ReadRequest(c) \/ Store(c) \/ Respond(c) \/ Responded(c)

Next ==
  /\ ~panicked
  /\ \/ \E s \in Services : RegisterService(s)
     \/ Serve \/ Accept \/ Register
     \/ ShutdownBegin \/ ShutdownStep
     \/ \E c \in Conns :
          \/ \E loop \in {"reads", "writes"} : Stop(c, loop)
          \/ PeerGoAway(c) \/ ReadsEnd(c) \/ Terminate(c)
          \/ MakeStream(c) \/ Arrive(c) \/ ResetStream(c) \/ ServiceStream(c)

Spec == Init /\ [][Next]_vars

\* Goroutines that can run do run: a closed listener's Accept returns, and a
\* handler returns.  Peers, and the caller of Shutdown, act if they wish.
Fairness ==
  /\ WF_vars(~panicked /\ ~listening /\ (Accept \/ Register))
  /\ WF_vars(~panicked /\ ShutdownStep)
  /\ \A c \in Conns : /\ WF_vars(~panicked /\ Terminate(c))
                      /\ WF_vars(~panicked /\ ServiceStream(c))

FairSpec == Spec /\ Fairness

---------------------------------------------------------------------------
TypeOK ==
  /\ services \subseteq Services
  /\ listening \in BOOLEAN /\ panicked \in BOOLEAN
  /\ serve \in {"setup", "accept", "register", "done"}
  /\ connID \in 0 .. MaxConns
  /\ connections \in [0 .. MaxConns -> Conns \cup {NoConn}]
  /\ phase \in [Conns -> {"unborn", "live", "stopping", "sealed", "gone"}]
  /\ by \in [Conns -> {"none", "reads", "writes"}]
  /\ reading \subseteq Conns
  /\ shutdown \in {"idle", "notify", "wait", "done"}
  /\ todo \subseteq 0 .. MaxConns /\ target \in Conns \cup {NoConn}
  /\ told \subseteq Conns /\ arrived \subseteq Conns
  /\ h \in [Conns -> {"none", "request", "storing", "respond", "result", "done"}]

Gone(c) == c \in Conns /\ phase[c] = "gone"

\* Serve and connectionClosed disagree by one about a connection's key: its
\* entry stays after its own end, and goes when the next connection ends.
ShiftedTable ==
  \A c \in 0 .. connID - 1 : connections[c + 1] = IF Gone(c + 1) THEN NoConn ELSE c

\* After Shutdown a live connection that got no GOAWAY either lost its entry
\* to the end of the next one, or is the last, accepted before the listener
\* closed and stored afterwards.
UntoldAfterShutdown ==
  shutdown = "done" =>
    \A c \in Conns : phase[c] = "live" /\ c \notin told => Gone(c + 1) \/ c = connID - 1

\* The process dies only of a stale entry that Shutdown visits, of a response
\* on a connection that ended, or of two handlers storing their streams.
PanicIsExplained ==
  panicked =>
    \/ shutdown = "notify" /\ \E c \in Conns : Dead(c) /\ connections[c + 1] = c
    \/ \E c \in Conns : Dead(c) /\ h[c] = "respond"
    \/ \E c, d \in Storing : c # d

\* Shutdown waits, holding connectionsMu, for a write loop that waits for it.
Stuck == shutdown = "wait" /\ by[target] = "writes" /\ phase[target] = "sealed"

Over == panicked \/ Stuck

\* Shutdown and Serve return, but for that deadlock.
ShutdownEnds ==
  /\ shutdown = "notify" ~> (shutdown = "done" \/ Over)
  /\ shutdown = "notify" /\ serve = "accept" ~> (serve = "done" \/ Over)

\* Its stream's goroutine waits for a Request the lost connection cannot bring:
\* terminate does not touch the streams.
Orphaned(c) == h[c] = "request" /\ c \notin arrived \cup reading

\* A goroutine orphaned by the loss of its connection is leaked for good.
OrphanedForever == [][\A c \in Conns : Orphaned(c) => Orphaned(c)']_vars

\* Every other stream is answered, reset or dropped, once its Request is in.
StreamsServed ==
  \A c \in Conns : (c \in arrived \/ h[c] = "respond") ~> (h[c] = "done" \/ Over)
=============================================================================

----------------------------- MODULE ServerProofs ----------------------------
(***************************************************************************)
(* What the table of connections holds, whom Shutdown tells, what stops    *)
(* the process and which goroutines are leaked, for every MaxConns.        *)
(***************************************************************************)
EXTENDS Server, TLAPS

\* A connection Serve has not registered has no life, no reader, no stream.
Unborn(c) == phase[c] = "unborn" /\ c \notin reading /\ h[c] = "none"

\* The read loop of a live connection runs.
LiveReads == \A c \in Conns : phase[c] = "live" => c \in reading

\* Shutdown has entries left to visit only while it holds connectionsMu, so
\* that they stay in the table.
TodoStays == \A k \in todo : connectionsMu /\ connections[k] \in Conns

\* Inductive: ShiftedTable alone allows a later connection to be gone already.
IInv ==
  /\ TypeOK
  /\ ShiftedTable
  /\ serve = "register" => connID < MaxConns
  /\ \A c \in Conns : c >= connID => Unborn(c)
  /\ LiveReads
  /\ TodoStays

\* Init => IInv
LEMMA InitIInv == Init => IInv
<1> SUFFICES ASSUME Init PROVE IInv
  OBVIOUS
<1> USE ServerAssumption DEF Init, Conns, NoConn
<1>1. TypeOK
  <2>1. connections \in [0 .. MaxConns -> Conns \cup {NoConn}]
    OBVIOUS
  <2>2. /\ phase \in [Conns -> {"unborn", "live", "stopping", "sealed", "gone"}]
        /\ by \in [Conns -> {"none", "reads", "writes"}]
        /\ h \in [Conns -> {"none", "request", "storing", "respond", "result", "done"}]
    OBVIOUS
  <2>3. connID \in 0 .. MaxConns /\ target \in Conns \cup {NoConn}
    OBVIOUS
  <2>4. /\ services \subseteq Services /\ reading \subseteq Conns
        /\ todo \subseteq 0 .. MaxConns /\ told \subseteq Conns /\ arrived \subseteq Conns
    OBVIOUS
  <2>5. /\ listening \in BOOLEAN /\ panicked \in BOOLEAN
        /\ serve \in {"setup", "accept", "register", "done"}
        /\ shutdown \in {"idle", "notify", "wait", "done"}
    BY Zenon
  <2> HIDE DEF Init
  <2> QED
    BY <2>1, <2>2, <2>3, <2>4, <2>5 DEF TypeOK
<1>2. ShiftedTable
  BY DEF ShiftedTable
<1>3. \A c \in Conns : Unborn(c)
  BY DEF Unborn
<1> QED
  BY <1>1, <1>2, <1>3 DEF IInv, LiveReads, TodoStays, Unborn

\* Every action keeps the types.
LEMMA TypeStep == IInv /\ [Next]_vars => TypeOK'
<1> SUFFICES ASSUME IInv, [Next]_vars PROVE TypeOK'
  OBVIOUS
<1> USE ServerAssumption DEF IInv, TypeOK, Conns,
       NoConn, conn, table, down, disp
<1>1. ASSUME NEW s \in Services, RegisterService(s) PROVE TypeOK'
  BY <1>1 DEF RegisterService
<1>2. CASE Serve
  BY <1>2 DEF Serve
<1>3. CASE Accept
  BY <1>3 DEF Accept
<1>4. CASE Register
  BY <1>4 DEF Register
<1>5. CASE ShutdownBegin
  BY <1>5, Zenon DEF ShutdownBegin, Visited
<1>6. CASE ShutdownStep
  <2>1. ASSUME NEW k \in 0 .. MaxConns, GoAway(k) PROVE TypeOK'
    <3>1. connections[k] \in Conns
      BY <2>1 DEF GoAway, TodoStays
    <3> QED
      BY <2>1, <3>1, ZenonT(30) DEF GoAway
  <2>2. CASE GoAwayWritten
    BY <2>2 DEF GoAwayWritten
  <2>3. CASE ShutdownEnd
    BY <2>3 DEF ShutdownEnd
  <2> QED
    BY <1>6, <2>1, <2>2, <2>3 DEF ShutdownStep
<1>7. ASSUME NEW c \in Conns, NEW l \in {"reads", "writes"}, Stop(c, l) PROVE TypeOK'
  BY <1>7 DEF Stop
<1>8. ASSUME NEW c \in Conns, PeerGoAway(c) PROVE TypeOK'
  BY <1>8 DEF PeerGoAway, WakeByReset, Handle
<1>9. ASSUME NEW c \in Conns, ReadsEnd(c) PROVE TypeOK'
  BY <1>9 DEF ReadsEnd
<1>10. ASSUME NEW c \in Conns, Terminate(c) PROVE TypeOK'
  BY <1>10, ZenonT(30) DEF Terminate, Seal, Leave
<1>11. ASSUME NEW c \in Conns, MakeStream(c) \/ Arrive(c) \/ ResetStream(c) PROVE TypeOK'
  BY <1>11, ZenonT(30) DEF MakeStream, Arrive, ResetStream, WakeByReset, Handle
<1>12. ASSUME NEW c \in Conns, ServiceStream(c) PROVE TypeOK'
  BY <1>12, ZenonT(30) DEF ServiceStream, ReadRequest, Store, Respond, Responded, Handle
<1>13. CASE UNCHANGED vars
  BY <1>13 DEF vars
<1> QED
  BY <1>1, <1>2, <1>3, <1>4, <1>5, <1>6, <1>7, <1>8, <1>9, <1>10, <1>11, <1>12, <1>13, Zenon
     DEF Next

\* A step that leaves the table and the ends of connections alone keeps IInv.
LEMMA TableFrame ==
  ASSUME IInv, TypeOK',
         UNCHANGED <<connID, connections>>,
         serve' = "register" => connID < MaxConns,
         \A c \in Conns : Gone(c)' <=> Gone(c),
         \A c \in Conns : Unborn(c) => Unborn(c)',
         LiveReads', TodoStays'
  PROVE  IInv'
<1>1. ShiftedTable'
  <2>1. ASSUME NEW c \in 0 .. connID - 1
        PROVE  connections[c + 1] = IF Gone(c + 1)' THEN NoConn ELSE c
    <3>1. Gone(c + 1)' <=> Gone(c + 1)
      BY DEF Gone, Conns
    <3> QED
      BY <3>1, <2>1 DEF IInv, ShiftedTable
  <2> QED
    BY <2>1 DEF ShiftedTable
<1> QED
  BY <1>1 DEF IInv

\* Register keeps the invariant: the connection after the new one is unborn.
LEMMA RegisterStep == IInv /\ Register /\ TypeOK' => IInv'
<1> SUFFICES ASSUME IInv, Register, TypeOK' PROVE IInv'
  OBVIOUS
<1> USE ServerAssumption DEF Register, Conns, NoConn, down, disp, connectionsMu
<1>1. connID \in Conns /\ connID' = connID + 1 /\ serve' = "accept"
  BY DEF IInv, TypeOK
<1>2. \A c \in Conns : Gone(c)' <=> Gone(c)
  BY <1>1 DEF IInv, TypeOK, Gone, Unborn
<1>3. ASSUME NEW c \in Conns, c >= connID' PROVE Unborn(c)'
  <2>1. Unborn(c) /\ c # connID
    BY <1>1, <1>3 DEF IInv, TypeOK
  <2> QED
    BY <2>1 DEF IInv, TypeOK, Unborn
<1>4. ~Gone(connID + 1)
  BY <1>1 DEF IInv, TypeOK, Gone, Unborn
<1>5. ShiftedTable'
  <2>1. ASSUME NEW c \in 0 .. connID
        PROVE  connections'[c + 1] = IF Gone(c + 1)' THEN NoConn ELSE c
    <3>1. Gone(c + 1)' <=> Gone(c + 1)
      BY <1>2 DEF Gone
    <3>2. CASE c = connID
      BY <1>1, <1>4, <3>1, <3>2 DEF IInv, TypeOK
    <3>3. CASE c < connID
      <4>1. c \in 0 .. connID - 1
        BY <1>1, <3>3
      <4>2. connections'[c + 1] = connections[c + 1]
        BY <1>1, <3>3 DEF IInv, TypeOK
      <4> QED
        BY <3>1, <4>1, <4>2 DEF IInv, ShiftedTable
    <3> QED
      BY <1>1, <3>2, <3>3
  <2>2. 0 .. connID' - 1 = 0 .. connID
    BY <1>1
  <2> QED
    BY <2>1, <2>2, Zenon DEF ShiftedTable
<1>6. LiveReads' /\ TodoStays'
  BY <1>1 DEF IInv, TypeOK, LiveReads, TodoStays
<1> QED
  BY <1>1, <1>3, <1>5, <1>6 DEF IInv

\* connectionClosed removes the entry of the connection before c.
LEMMA LeaveStep == ASSUME NEW c \in Conns, IInv, Leave(c), TypeOK' PROVE IInv'
<1> USE ServerAssumption DEF Leave, Conns, NoConn, down, disp, connectionsMu
<1>1. \A d \in Conns : d # c => (Gone(d)' <=> Gone(d))
  BY DEF IInv, TypeOK, Gone
<1>2. Gone(c)'
  BY DEF IInv, TypeOK, Gone
<1>3. ASSUME NEW d \in Conns, Unborn(d) PROVE Unborn(d)'
  <2>1. d # c
    BY <1>3 DEF Unborn
  <2> QED
    BY <1>3, <2>1 DEF IInv, TypeOK, Unborn
<1>4. ShiftedTable'
  <2>1. ASSUME NEW d \in 0 .. connID - 1
        PROVE  connections'[d + 1] = IF Gone(d + 1)' THEN NoConn ELSE d
    <3>1. CASE d + 1 = c
      BY <1>2, <3>1 DEF IInv, TypeOK
    <3>2. CASE d + 1 # c
      <4>1. connections'[d + 1] = connections[d + 1]
        BY <3>2 DEF IInv, TypeOK
      <4>2. Gone(d + 1)' <=> Gone(d + 1)
        BY <1>1, <3>2 DEF Gone
      <4> QED
        BY <4>1, <4>2 DEF IInv, ShiftedTable
    <3> QED
      BY <3>1, <3>2
  <2> QED
    BY <2>1 DEF ShiftedTable
<1>5. LiveReads' /\ TodoStays'
  BY DEF IInv, TypeOK, LiveReads, TodoStays
<1> QED
  BY <1>3, <1>4, <1>5 DEF IInv

\* Every step keeps the invariant.
LEMMA NextIInv == IInv /\ [Next]_vars => IInv'
<1> SUFFICES ASSUME IInv, [Next]_vars PROVE IInv'
  OBVIOUS
<1>0. TypeOK'
  BY TypeStep
<1> DEFINE Same == /\ UNCHANGED <<connID, connections>>
                   /\ serve' = "register" => connID < MaxConns
                   /\ \A c \in Conns : Gone(c)' <=> Gone(c)
                   /\ \A c \in Conns : Unborn(c) => Unborn(c)'
                   /\ LiveReads' /\ TodoStays'
<1>1. Same => IInv'
  BY <1>0, TableFrame
<1> HIDE DEF Same
<1>2. CASE Register
  BY <1>0, <1>2, RegisterStep
<1>3. ASSUME NEW c \in Conns, Leave(c) PROVE IInv'
  BY <1>0, <1>3, LeaveStep
<1> USE
   DEF Same, IInv, TypeOK, Gone, Unborn, LiveReads, TodoStays, connectionsMu, Conns,
       NoConn, conn, table, down, disp
<1>4. ASSUME NEW s \in Services, RegisterService(s) PROVE Same
  BY <1>4 DEF RegisterService
<1>5. ASSUME Serve \/ Accept PROVE Same
  BY <1>5, Zenon DEF Serve, Accept
<1>6. ASSUME ShutdownBegin PROVE Same
  BY <1>6 DEF ShutdownBegin, Visited
<1>13. ASSUME ShutdownStep PROVE Same
  BY <1>13, Zenon DEF ShutdownStep, GoAway, GoAwayWritten, ShutdownEnd
<1>7. ASSUME NEW c \in Conns, NEW l \in {"reads", "writes"}, Stop(c, l) PROVE Same
  BY <1>7 DEF Stop
<1>8. ASSUME NEW c \in Conns, PeerGoAway(c) PROVE Same
  BY <1>8, Zenon DEF PeerGoAway, WakeByReset, Handle
<1>9. ASSUME NEW c \in Conns, ReadsEnd(c) \/ Seal(c) PROVE Same
  BY <1>9, Zenon DEF ReadsEnd, Seal
<1>10. ASSUME NEW c \in Conns, MakeStream(c) \/ Arrive(c) \/ ResetStream(c) PROVE Same
  BY <1>10, Zenon DEF MakeStream, Arrive, ResetStream, WakeByReset, Handle
<1>11. ASSUME NEW c \in Conns, ServiceStream(c) PROVE Same
  BY <1>11, Zenon DEF ServiceStream, ReadRequest, Store, Respond, Responded, Handle
<1>12. ASSUME UNCHANGED vars PROVE Same
  BY <1>12 DEF vars
<1> HIDE DEF Same, IInv
<1> QED
  BY <1>1, <1>2, <1>3, <1>4, <1>5, <1>6, <1>7, <1>8, <1>9, <1>10, <1>11, <1>12, <1>13
  DEF Next, Terminate

---------------------------------------------------------------------------
\* The variables of the server keep their types.
THEOREM TypeCorrect == Spec => []TypeOK
<1>1. IInv => TypeOK
  BY DEF IInv
<1> QED
  BY <1>1, InitIInv, NextIInv, PTL DEF Spec

\* However many connections come and go, and in whatever order, a connection's
\* entry is in the table until the NEXT connection ends (Serve stores it under
\* connID + 1, connectionClosed deletes c.id).
THEOREM ShiftedTableAlways == Spec => []ShiftedTable
<1>1. IInv => ShiftedTable
  BY DEF IInv
<1> QED
  BY <1>1, InitIInv, NextIInv, PTL DEF Spec

\* No step wakes a goroutine of ServiceStream that waits for the Request of a
\* connection whose read loop has ended.
LEMMA OrphanStep == IInv /\ [Next]_vars => [\A c \in Conns : Orphaned(c) => Orphaned(c)']_vars
<1> SUFFICES ASSUME IInv, [Next]_vars, NEW o \in Conns, Orphaned(o) PROVE Orphaned(o)'
  BY DEF Orphaned
<1> USE DEF IInv, TypeOK, Orphaned, Unborn, Conns, NoConn, conn, table, down, disp, Handle
<1>1. ASSUME NEW s \in Services, RegisterService(s) PROVE Orphaned(o)'
  BY <1>1 DEF RegisterService
<1>2. CASE Serve \/ Accept
  BY <1>2, Zenon DEF Serve, Accept
<1>3. CASE Register
  BY <1>3, ServerAssumption DEF Register
<1>4. CASE ShutdownBegin \/ ShutdownStep
  BY <1>4, Zenon DEF ShutdownBegin, ShutdownStep, GoAway, GoAwayWritten, ShutdownEnd
<1>5. ASSUME NEW c \in Conns, NEW l \in {"reads", "writes"}, Stop(c, l) PROVE Orphaned(o)'
  BY <1>5 DEF Stop
<1>6. ASSUME NEW c \in Conns, PeerGoAway(c) PROVE Orphaned(o)'
  <2>1. c # o
    BY <1>6 DEF PeerGoAway, LiveReads
  <2> QED
    BY <1>6, <2>1, Zenon DEF PeerGoAway, WakeByReset
<1>7. ASSUME NEW c \in Conns, ReadsEnd(c) \/ Terminate(c) PROVE Orphaned(o)'
  BY <1>7, Zenon DEF ReadsEnd, Terminate, Seal, Leave
<1>8. ASSUME NEW c \in Conns, MakeStream(c) \/ Arrive(c) \/ ResetStream(c) PROVE Orphaned(o)'
  BY <1>8, Zenon DEF MakeStream, Arrive, ResetStream, WakeByReset
<1>9. ASSUME NEW c \in Conns, ServiceStream(c) PROVE Orphaned(o)'
  BY <1>9, ZenonT(30) DEF ServiceStream, ReadRequest, Store, Respond, Responded
<1>10. CASE UNCHANGED vars
  BY <1>10 DEF vars
<1> QED
  BY <1>1, <1>2, <1>3, <1>4, <1>5, <1>6, <1>7, <1>8, <1>9, <1>10 DEF Next

\* A handler orphaned by the loss of its connection is leaked for good.
THEOREM OrphanedForeverAlways == Spec => OrphanedForever
  BY InitIInv, NextIInv, OrphanStep, PTL DEF Spec, OrphanedForever

---------------------------------------------------------------------------
\* What the table and Shutdown know of each other.

\* An entry is the connection before its key.
KeyOK == \A k \in 0 .. MaxConns : connections[k] # NoConn => connections[k] = k - 1

\* Shutdown still has to visit c, or its entry is gone, or Serve stored it
\* after Shutdown was over.
Excused(c) ==
  \/ Gone(c + 1)
  \/ shutdown \in {"notify", "wait"} /\ c + 1 \in todo
  \/ shutdown = "done" /\ c = connID - 1 /\ serve # "register"

UntoldInv ==
  shutdown # "idle" =>
    ~listening /\ \A c \in Conns : phase[c] = "live" /\ c \notin told => Excused(c)

\* Inductive: what the theorems about Shutdown and about panics rest on.
SInv == IInv /\ KeyOK /\ UntoldInv /\ PanicIsExplained

\* Only Register and Leave change the table.
LEMMA KeyStep == IInv /\ KeyOK /\ [Next]_vars => KeyOK'
<1> SUFFICES ASSUME IInv, KeyOK, [Next]_vars PROVE KeyOK'
  OBVIOUS
<1> USE ServerAssumption DEF IInv, TypeOK, KeyOK, Conns, NoConn, table
<1>1. CASE Register
  BY <1>1 DEF Register
<1>2. ASSUME NEW c \in Conns, Leave(c) PROVE KeyOK'
  BY <1>2 DEF Leave
<1>3. CASE UNCHANGED connections
  BY <1>3
<1>4. Register \/ (\E c \in Conns : Leave(c)) \/ UNCHANGED connections
  BY DEF Next, RegisterService, Serve, Accept, ShutdownBegin, ShutdownStep, GoAway,
         GoAwayWritten, ShutdownEnd, Stop, PeerGoAway, ReadsEnd, Terminate, Seal,
         MakeStream, Arrive, ResetStream, ServiceStream, ReadRequest, Store, Respond,
         Responded, vars
<1> QED
  BY <1>1, <1>2, <1>3, <1>4

\* The three ways to die, each at the step that causes it.
LEMMA PanicStep == SInv /\ [Next]_vars => PanicIsExplained'
<1> SUFFICES ASSUME SInv, [Next]_vars, panicked' PROVE PanicIsExplained'
  BY DEF PanicIsExplained
<1> USE DEF SInv, IInv, TypeOK, Conns, NoConn
<1>1. CASE UNCHANGED vars
  BY <1>1 DEF vars, conn, table, down, disp, PanicIsExplained, Dead, Storing
<1>2. CASE Next
  <2>1. ~panicked
    BY <1>2, SMTT(30) DEF Next
  <2>2. \/ \E k \in 0 .. MaxConns : GoAway(k)
        \/ \E c \in Conns : Store(c) \/ Respond(c)
    BY <1>2, <2>1, Zenon
    DEF Next, RegisterService, Serve, Accept, Register, ShutdownBegin, ShutdownStep,
        GoAwayWritten, ShutdownEnd, Stop, PeerGoAway, ReadsEnd, Terminate, Seal, Leave,
        MakeStream, Arrive, ResetStream, ServiceStream, ReadRequest, Responded
  <2>3. ASSUME NEW k \in 0 .. MaxConns, GoAway(k) PROVE PanicIsExplained'
    <3>1. connections[k] \in Conns /\ Dead(connections[k]) /\ shutdown = "notify"
      BY <2>1, <2>3, Zenon DEF GoAway, TodoStays
    <3>2. connections[connections[k] + 1] = connections[k]
      BY <3>1 DEF KeyOK
    <3> QED
      BY <2>1, <2>3, <3>1, <3>2 DEF GoAway, conn, table, PanicIsExplained, Dead
  <2>4. ASSUME NEW c \in Conns, Store(c) PROVE PanicIsExplained'
    <3>1. PICK d \in Storing : d # c
      BY <2>1, <2>4, Zenon DEF Store, Storing
    <3> QED
      BY <2>1, <2>4, <3>1, Zenon DEF Store, Storing, PanicIsExplained
  <2>5. ASSUME NEW c \in Conns, Respond(c) PROVE PanicIsExplained'
    BY <2>1, <2>5, Zenon DEF Respond, conn, PanicIsExplained, Dead
  <2> QED
    BY <2>2, <2>3, <2>4, <2>5
<1> QED
  BY <1>1, <1>2

\* Actions that change neither the table, nor Shutdown, nor what Serve is at,
\* excuse whom they excused.
LEMMA UntoldFrame ==
  ASSUME IInv, UntoldInv, UNCHANGED <<shutdown, todo, told, listening, connID, serve>>,
         \A c \in Conns : Gone(c) => Gone(c)',
         \A c \in Conns : phase'[c] = "live" => phase[c] = "live"
  PROVE  UntoldInv'
  BY DEF UntoldInv, Excused, Gone

\* Every live connection is told, excused, or still to be visited.
LEMMA UntoldStep == SInv /\ [Next]_vars => UntoldInv'
<1> SUFFICES ASSUME SInv, [Next]_vars PROVE UntoldInv'
  OBVIOUS
<1> USE ServerAssumption DEF SInv, IInv, TypeOK, Conns, NoConn, conn, table, down
<1>1. ASSUME UNCHANGED conn, UNCHANGED table, UNCHANGED down, UNCHANGED listening,
             serve' = "register" => serve = "register" \/ listening
      PROVE  UntoldInv'
  BY <1>1 DEF UntoldInv, Excused, Gone
<1>2. ASSUME NEW s \in Services, RegisterService(s) PROVE UntoldInv'
  BY <1>1, <1>2 DEF RegisterService
<1>3. CASE Serve \/ Accept
  BY <1>1, <1>3 DEF Serve, Accept
<1>4. CASE Register
  <2> SUFFICES ASSUME shutdown # "idle", NEW c \in Conns, phase'[c] = "live", c \notin told
               PROVE  ~listening /\ Excused(c)'
    BY <1>4 DEF Register, UntoldInv
  <2>1. shutdown = "done" /\ ~listening /\ connID' = connID + 1 /\ serve' = "accept"
    BY <1>4 DEF Register, connectionsMu, UntoldInv
  <2>2. CASE c = connID
    BY <1>4, <2>1, <2>2 DEF Register, Excused
  <2>3. CASE c # connID
    <3>1. Gone(c + 1)
      BY <1>4, <2>1, <2>3 DEF Register, UntoldInv, Excused
    <3>2. c + 1 # connID
      BY <3>1 DEF Gone, Unborn
    <3> QED
      BY <1>4, <2>1, <3>1, <3>2 DEF Register, Excused, Gone
  <2> QED
    BY <2>1, <2>2, <2>3
<1>5. CASE ShutdownBegin
  <2> SUFFICES ASSUME NEW c \in Conns, phase[c] = "live" PROVE Gone(c + 1) \/ c + 1 \in Visited
    BY <1>5 DEF ShutdownBegin, UntoldInv, Excused, Gone
  <2>1. c \in 0 .. connID - 1
    BY DEF Unborn
  <2> QED
    BY <2>1 DEF ShiftedTable, Visited
<1>6. ASSUME NEW k \in 0 .. MaxConns, GoAway(k) PROVE UntoldInv'
  <2>1. connections[k] = k - 1 /\ connections[k] \in Conns /\ shutdown = "notify"
    BY <1>6 DEF GoAway, TodoStays, KeyOK
  <2> SUFFICES ASSUME NEW c \in Conns, phase[c] = "live", c \notin told' PROVE Excused(c)'
    BY <1>6, <2>1 DEF GoAway, UntoldInv
  <2>2. ~Dead(c)
    BY DEF Dead
  <2>3. c \notin told /\ (Gone(c + 1) \/ c + 1 \in todo)
    BY <1>6, <2>1 DEF GoAway, UntoldInv, Excused
  <2>4. CASE Dead(connections[k])
    BY <1>6, <2>1, <2>2, <2>3, <2>4 DEF GoAway, Excused, Gone
  <2>5. CASE ~Dead(connections[k])
    BY <1>6, <2>1, <2>3, <2>5 DEF GoAway, Excused, Gone
  <2> QED
    BY <2>4, <2>5
<1>7. CASE GoAwayWritten
  BY <1>7 DEF GoAwayWritten, UntoldInv, Excused, Gone
<1>8. CASE ShutdownEnd
  BY <1>8 DEF ShutdownEnd, UntoldInv, Excused, Gone
<1>9. ASSUME NEW c \in Conns, NEW l \in {"reads", "writes"}, Stop(c, l) PROVE UntoldInv'
  BY <1>9, UntoldFrame, SMTT(30) DEF Stop, Gone
<1>10. ASSUME NEW c \in Conns, PeerGoAway(c) \/ ReadsEnd(c) \/ Terminate(c) PROVE UntoldInv'
  BY <1>10, UntoldFrame, SMTT(30) DEF PeerGoAway, ReadsEnd, Terminate, Seal, Leave, Gone
<1>11. ASSUME NEW c \in Conns,
              MakeStream(c) \/ Arrive(c) \/ ResetStream(c) \/ ServiceStream(c)
       PROVE  UntoldInv'
  BY <1>1, <1>11 DEF MakeStream, Arrive, ResetStream, ServiceStream, ReadRequest, Store,
                     Respond, Responded
<1>12. CASE UNCHANGED vars
  BY <1>1, <1>12 DEF vars
<1> QED
  BY <1>2, <1>3, <1>4, <1>5, <1>6, <1>7, <1>8, <1>9, <1>10, <1>11, <1>12 DEF Next, ShutdownStep

\* Init => SInv
LEMMA InitSInv == Init => SInv
  BY InitIInv DEF Init, SInv, KeyOK, UntoldInv, PanicIsExplained

\* Every step keeps SInv.
LEMMA NextSInv == SInv /\ [Next]_vars => SInv'
  BY NextIInv, KeyStep, UntoldStep, PanicStep DEF SInv

\* A live connection without a GOAWAY after Shutdown is one whose entry the end
\* of the next connection removed, or the last one, stored too late.
THEOREM UntoldAlways == Spec => []UntoldAfterShutdown
<1>1. SInv => UntoldAfterShutdown
  BY DEF SInv, UntoldInv, UntoldAfterShutdown, Excused
<1> QED
  BY <1>1, InitSInv, NextSInv, PTL DEF Spec

\* The process dies of nothing but the three causes named.
THEOREM PanicAlways == Spec => []PanicIsExplained
<1>1. SInv => PanicIsExplained
  BY DEF SInv
<1> QED
  BY <1>1, InitSInv, NextSInv, PTL DEF Spec
=============================================================================

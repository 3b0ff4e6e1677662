--------------------------- MODULE SessionProofs ----------------------------
(***************************************************************************)
(* Items arrive in order and without a gap, the Response comes first, the  *)
(* items of a client are refused, no end reads past the end of the stream, *)
(* and the cancellation of a unary call never reaches the server: for any  *)
(* number of Send, Recv and SendResponse calls.                            *)
(***************************************************************************)
EXTENDS SessionEffects

---------------------------------------------------------------------------
\* The Contexts stay in order, the Response comes first, a unary call has
\* ended its half before it can be cancelled, and the items of the server
\* arrive in order and without a gap.

\* Every step keeps the Contexts in order.
LEMMA ContextStep ==
  ASSUME Types, ContextOK, [Next]_vars PROVE ContextOK'
<1> SUFFICES ContextOK'
  BY Zenon
<1>1. ASSUME NEW s \in Sides, Send(s) PROVE ContextOK'
  <2>1. HalfOK(s)'
    BY <1>1, SendDoes, Ends, Zenon DEF ContextOK, HalfOK, Fresh, Moves, SameRecv, SameSend, SameErr
  <2>2. HalfOK(Peer(s))'
    <3>1. pc'[Peer(s)] = pc[Peer(s)] /\ ctx'[Peer(s)] = ctx[Peer(s)]
      BY <1>1, SendDoes, Ends, Zenon DEF Moves
    <3> QED
      BY <3>1, Ends, Zenon DEF ContextOK, HalfOK
  <2>3. CallOK'
    BY <1>1, SendDoes, Ends, Zenon DEF ContextOK, CallOK, Fresh, Moves, Sides
  <2>4. ServeOK'
    BY <1>1, SendDoes, Ends, Zenon DEF ContextOK, ServeOK, Moves, Sides
  <2> QED
    BY <2>1, <2>2, <2>3, <2>4, Ends DEF ContextOK
<1>2. ASSUME NEW s \in Sides, SendStart(s) PROVE ContextOK'
  <2>1. HalfOK(s)'
    BY <1>2, SendStartDoes, Ends, Zenon
       DEF ContextOK, HalfOK, Fresh, Moves, SameRecv, SameSend, SameErr
  <2>2. HalfOK(Peer(s))'
    <3>1. pc'[Peer(s)] = pc[Peer(s)] /\ ctx'[Peer(s)] = ctx[Peer(s)]
      BY <1>2, SendStartDoes, Ends, Zenon DEF Moves
    <3> QED
      BY <3>1, Ends, Zenon DEF ContextOK, HalfOK
  <2>3. CallOK'
    BY <1>2, SendStartDoes, Ends, Zenon DEF ContextOK, CallOK, Fresh, Moves, Sides
  <2>4. ServeOK'
    BY <1>2, SendStartDoes, Ends, Zenon DEF ContextOK, ServeOK, Moves, Sides
  <2> QED
    BY <2>1, <2>2, <2>3, <2>4, Ends, Zenon DEF ContextOK
<1>3. ASSUME NEW s \in Sides, SendItem(s) PROVE ContextOK'
  <2>1. HalfOK(s)'
    BY <1>3, SendItemDoes, Ends, Zenon
       DEF ContextOK, HalfOK, Fresh, Moves, SameRecv, SameSend, SameErr
  <2>2. HalfOK(Peer(s))'
    <3>1. pc'[Peer(s)] = pc[Peer(s)] /\ ctx'[Peer(s)] = ctx[Peer(s)]
      BY <1>3, SendItemDoes, Ends, Zenon DEF Moves
    <3> QED
      BY <3>1, Ends, Zenon DEF ContextOK, HalfOK
  <2>3. CallOK'
    BY <1>3, SendItemDoes, Ends, Zenon DEF ContextOK, CallOK, Fresh, Moves, Sides
  <2>4. ServeOK'
    BY <1>3, SendItemDoes, Ends, Zenon DEF ContextOK, ServeOK, Moves, Sides
  <2> QED
    BY <2>1, <2>2, <2>3, <2>4, Ends, Zenon DEF ContextOK
<1>4. ASSUME NEW s \in Sides, EndSend(s) PROVE ContextOK'
  <2>1. HalfOK(s)'
    BY <1>4, EndSendDoes, Ends, Zenon
       DEF ContextOK, HalfOK, Fresh, Moves, SameRecv, SameSend, SameErr
  <2>2. HalfOK(Peer(s))'
    <3>1. pc'[Peer(s)] = pc[Peer(s)] /\ ctx'[Peer(s)] = ctx[Peer(s)]
      BY <1>4, EndSendDoes, Ends, Zenon DEF Moves
    <3> QED
      BY <3>1, Ends, Zenon DEF ContextOK, HalfOK
  <2>3. CallOK'
    BY <1>4, EndSendDoes, Ends, Zenon DEF ContextOK, CallOK, Fresh, Moves, Sides
  <2>4. ServeOK'
    BY <1>4, EndSendDoes, Ends, Zenon DEF ContextOK, ServeOK, Moves, Sides
  <2> QED
    BY <2>1, <2>2, <2>3, <2>4, Ends, Zenon DEF ContextOK
<1>5. ASSUME NEW s \in Sides, Recv(s) PROVE ContextOK'
  <2>1. HalfOK(s)'
    BY <1>5, RecvDoes, Ends, Zenon DEF ContextOK, HalfOK, Fresh, Moves, SameRecv, SameSend, SameErr
  <2>2. HalfOK(Peer(s))'
    <3>1. pc'[Peer(s)] = pc[Peer(s)] /\ ctx'[Peer(s)] = ctx[Peer(s)]
      BY <1>5, RecvDoes, Ends, Zenon DEF Moves
    <3> QED
      BY <3>1, Ends, Zenon DEF ContextOK, HalfOK
  <2>3. CallOK'
    BY <1>5, RecvDoes, Ends, Zenon DEF ContextOK, CallOK, Fresh, Moves, Sides
  <2>4. ServeOK'
    BY <1>5, RecvDoes, Ends, Zenon DEF ContextOK, ServeOK, Moves, Sides
  <2> QED
    BY <2>1, <2>2, <2>3, <2>4, Ends, Zenon DEF ContextOK
<1>6. ASSUME NEW s \in Sides, RecvStart(s) PROVE ContextOK'
  <2>1. HalfOK(s)'
    BY <1>6, RecvStartDoes, Ends, Zenon
       DEF ContextOK, HalfOK, Fresh, Moves, SameRecv, SameSend, SameErr
  <2>2. HalfOK(Peer(s))'
    <3>1. pc'[Peer(s)] = pc[Peer(s)] /\ ctx'[Peer(s)] = ctx[Peer(s)]
      BY <1>6, RecvStartDoes, Ends, Zenon DEF Moves
    <3> QED
      BY <3>1, Ends, Zenon DEF ContextOK, HalfOK
  <2>3. CallOK'
    BY <1>6, RecvStartDoes, Ends, Zenon DEF ContextOK, CallOK, Fresh, Moves, Sides
  <2>4. ServeOK'
    BY <1>6, RecvStartDoes, Ends, Zenon DEF ContextOK, ServeOK, Moves, Sides
  <2> QED
    BY <2>1, <2>2, <2>3, <2>4, Ends, Zenon DEF ContextOK
<1>7. ASSUME NEW s \in Sides, RecvItem(s) PROVE ContextOK'
  <2>1. HalfOK(s)'
    BY <1>7, RecvItemDoes, Ends, Zenon
       DEF ContextOK, HalfOK, Fresh, Moves, SameRecv, SameSend, SameErr
  <2>2. HalfOK(Peer(s))'
    <3>1. pc'[Peer(s)] = pc[Peer(s)] /\ ctx'[Peer(s)] = ctx[Peer(s)]
      BY <1>7, RecvItemDoes, Ends, Zenon DEF Moves
    <3> QED
      BY <3>1, Ends, Zenon DEF ContextOK, HalfOK
  <2>3. CallOK'
    BY <1>7, RecvItemDoes, Ends, Zenon DEF ContextOK, CallOK, Fresh, Moves, Sides
  <2>4. ServeOK'
    BY <1>7, RecvItemDoes, Ends, Zenon DEF ContextOK, ServeOK, Moves, Sides
  <2> QED
    BY <2>1, <2>2, <2>3, <2>4, Ends, Zenon DEF ContextOK
<1>8. ASSUME NEW b \in BOOLEAN, CallRequest(b) PROVE ContextOK'
  <2>1. HalfOK("client")'
    BY <1>8, CallRequestDoes, Ends, Zenon
       DEF ContextOK, HalfOK, Fresh, Moves, SameRecv, SameSend, SameErr
  <2>2. HalfOK(Peer("client"))'
    <3>1. pc'[Peer("client")] = pc[Peer("client")] /\ ctx'[Peer("client")] = ctx[Peer("client")]
      BY <1>8, CallRequestDoes, Ends, Zenon DEF Moves
    <3> QED
      BY <3>1, Ends, Zenon DEF ContextOK, HalfOK
  <2>3. CallOK'
    BY <1>8, CallRequestDoes, Ends, Zenon DEF ContextOK, CallOK, Fresh, Moves, Sides
  <2>4. ServeOK'
    BY <1>8, CallRequestDoes, Ends, Zenon DEF ContextOK, ServeOK, Moves, Sides
  <2> QED
    BY <2>1, <2>2, <2>3, <2>4, Ends, Zenon DEF ContextOK
<1>9. CASE CallUnencodable
  <2>1. HalfOK("client")'
    BY <1>9, CallUnencodableDoes, Ends, Zenon
       DEF ContextOK, HalfOK, Fresh, Moves, SameRecv, SameSend, SameErr
  <2>2. HalfOK(Peer("client"))'
    <3>1. pc'[Peer("client")] = pc[Peer("client")] /\ ctx'[Peer("client")] = ctx[Peer("client")]
      BY <1>9, CallUnencodableDoes, Ends, Zenon DEF Moves
    <3> QED
      BY <3>1, Ends, Zenon DEF ContextOK, HalfOK
  <2>3. CallOK'
    BY <1>9, CallUnencodableDoes, Ends, Zenon DEF ContextOK, CallOK, Fresh, Moves, Sides
  <2>4. ServeOK'
    BY <1>9, CallUnencodableDoes, Ends, Zenon DEF ContextOK, ServeOK, Moves, Sides
  <2> QED
    BY <2>1, <2>2, <2>3, <2>4, Ends, Zenon DEF ContextOK
<1>10. CASE CallCancel
  <2>1. HalfOK("client")'
    BY <1>10, CallCancelDoes, Ends, Zenon
       DEF ContextOK, HalfOK, Fresh, Moves, SameRecv, SameSend, SameErr
  <2>2. HalfOK(Peer("client"))'
    <3>1. pc'[Peer("client")] = pc[Peer("client")] /\ ctx'[Peer("client")] = ctx[Peer("client")]
      BY <1>10, CallCancelDoes, Ends, Zenon DEF Moves
    <3> QED
      BY <3>1, Ends, Zenon DEF ContextOK, HalfOK
  <2>3. CallOK'
    BY <1>10, CallCancelDoes, Ends, Zenon DEF ContextOK, CallOK, Fresh, Moves, Sides
  <2>4. ServeOK'
    BY <1>10, CallCancelDoes, Ends, Zenon DEF ContextOK, ServeOK, Moves, Sides
  <2> QED
    BY <2>1, <2>2, <2>3, <2>4, Ends, Zenon DEF ContextOK
<1>11. CASE CallStartStream
  <2>1. HalfOK("client")'
    BY <1>11, CallStartStreamDoes, Ends, Zenon
       DEF ContextOK, HalfOK, Fresh, Moves, SameRecv, SameSend, SameErr
  <2>2. HalfOK(Peer("client"))'
    <3>1. pc'[Peer("client")] = pc[Peer("client")] /\ ctx'[Peer("client")] = ctx[Peer("client")]
      BY <1>11, CallStartStreamDoes, Ends, Zenon DEF Moves
    <3> QED
      BY <3>1, Ends, Zenon DEF ContextOK, HalfOK
  <2>3. CallOK'
    BY <1>11, CallStartStreamDoes, Ends, Zenon DEF ContextOK, CallOK, Fresh, Moves, Sides
  <2>4. ServeOK'
    BY <1>11, CallStartStreamDoes, Ends, Zenon DEF ContextOK, ServeOK, Moves, Sides
  <2> QED
    BY <2>1, <2>2, <2>3, <2>4, Ends, Zenon DEF ContextOK
<1>12. CASE CallResponse
  <2>1. HalfOK("client")'
    BY <1>12, CallResponseDoes, Ends, Zenon
       DEF ContextOK, HalfOK, Fresh, Moves, SameRecv, SameSend, SameErr
  <2>2. HalfOK(Peer("client"))'
    <3>1. pc'[Peer("client")] = pc[Peer("client")] /\ ctx'[Peer("client")] = ctx[Peer("client")]
      BY <1>12, CallResponseDoes, Ends, Zenon DEF Moves
    <3> QED
      BY <3>1, Ends, Zenon DEF ContextOK, HalfOK
  <2>3. CallOK'
    BY <1>12, CallResponseDoes, Ends, Zenon DEF ContextOK, CallOK, Fresh, Moves, Sides
  <2>4. ServeOK'
    BY <1>12, CallResponseDoes, Ends, Zenon DEF ContextOK, ServeOK, Moves, Sides
  <2> QED
    BY <2>1, <2>2, <2>3, <2>4, Ends, Zenon DEF ContextOK
<1>13. CASE ServeStart
  <2>1. HalfOK("server")'
    BY <1>13, ServeStartDoes, Ends, Zenon
       DEF ContextOK, HalfOK, Fresh, Moves, SameRecv, SameSend, SameErr
  <2>2. HalfOK(Peer("server"))'
    <3>1. pc'[Peer("server")] = pc[Peer("server")] /\ ctx'[Peer("server")] = ctx[Peer("server")]
      BY <1>13, ServeStartDoes, Ends, Zenon DEF Moves
    <3> QED
      BY <3>1, Ends, Zenon DEF ContextOK, HalfOK
  <2>3. CallOK'
    BY <1>13, ServeStartDoes, Ends, Zenon DEF ContextOK, CallOK, Fresh, Moves, Sides
  <2>4. ServeOK'
    BY <1>13, ServeStartDoes, Ends, Zenon DEF ContextOK, ServeOK, Moves, Sides
  <2> QED
    BY <2>1, <2>2, <2>3, <2>4, Ends, Zenon DEF ContextOK
<1>14. CASE ServeRequest
  <2>1. HalfOK("server")'
    BY <1>14, ServeRequestDoes, Ends, Zenon
       DEF ContextOK, HalfOK, Fresh, Moves, SameRecv, SameSend, SameErr
  <2>2. HalfOK(Peer("server"))'
    <3>1. pc'[Peer("server")] = pc[Peer("server")] /\ ctx'[Peer("server")] = ctx[Peer("server")]
      BY <1>14, ServeRequestDoes, Ends, Zenon DEF Moves
    <3> QED
      BY <3>1, Ends, Zenon DEF ContextOK, HalfOK
  <2>3. CallOK'
    BY <1>14, ServeRequestDoes, Ends, Zenon DEF ContextOK, CallOK, Fresh, Moves, Sides
  <2>4. ServeOK'
    BY <1>14, ServeRequestDoes, Ends, SMTT(30) DEF ContextOK, ServeOK, Moves, Sides
  <2> QED
    BY <2>1, <2>2, <2>3, <2>4, Ends, Zenon DEF ContextOK
<1>15. CASE ServeReject
  <2>1. HalfOK("server")'
    BY <1>15, ServeRejectDoes, Ends, Zenon
       DEF ContextOK, HalfOK, Fresh, Moves, SameRecv, SameSend, SameErr
  <2>2. HalfOK(Peer("server"))'
    <3>1. pc'[Peer("server")] = pc[Peer("server")] /\ ctx'[Peer("server")] = ctx[Peer("server")]
      BY <1>15, ServeRejectDoes, Ends, Zenon DEF Moves
    <3> QED
      BY <3>1, Ends, Zenon DEF ContextOK, HalfOK
  <2>3. CallOK'
    BY <1>15, ServeRejectDoes, Ends, Zenon DEF ContextOK, CallOK, Fresh, Moves, Sides
  <2>4. ServeOK'
    BY <1>15, ServeRejectDoes, Ends, Zenon DEF ContextOK, ServeOK, Moves, Sides
  <2> QED
    BY <2>1, <2>2, <2>3, <2>4, Ends, Zenon DEF ContextOK
<1>16. ASSUME NEW b \in BOOLEAN, NEW l \in {"ready", "done"}, SendResponse(b, l) PROVE ContextOK'
  <2>1. HalfOK("server")'
    BY <1>16, SendResponseDoes, Ends, Zenon
       DEF ContextOK, HalfOK, Fresh, Moves, SameRecv, SameSend, SameErr
  <2>2. HalfOK(Peer("server"))'
    <3>1. pc'[Peer("server")] = pc[Peer("server")] /\ ctx'[Peer("server")] = ctx[Peer("server")]
      BY <1>16, SendResponseDoes, Ends, Zenon DEF Moves
    <3> QED
      BY <3>1, Ends, Zenon DEF ContextOK, HalfOK
  <2>3. CallOK'
    BY <1>16, SendResponseDoes, Ends, Zenon DEF ContextOK, CallOK, Fresh, Moves, Sides
  <2>4. ServeOK'
    BY <1>16, SendResponseDoes, Ends, Zenon DEF ContextOK, ServeOK, Moves, Sides
  <2> QED
    BY <2>1, <2>2, <2>3, <2>4, Ends, Zenon DEF ContextOK
<1>17. CASE (HandlerReturns \/ InterceptorReturns) /\ ~SendResponse(FALSE, "done")
  <2>1. HalfOK("server")'
    BY <1>17, ReturnDoes, Ends, Zenon
       DEF ContextOK, HalfOK, Fresh, Moves, SameRecv, SameSend, SameErr
  <2>2. HalfOK(Peer("server"))'
    <3>1. pc'[Peer("server")] = pc[Peer("server")] /\ ctx'[Peer("server")] = ctx[Peer("server")]
      BY <1>17, ReturnDoes, Ends, Zenon DEF Moves
    <3> QED
      BY <3>1, Ends, Zenon DEF ContextOK, HalfOK
  <2>3. CallOK'
    BY <1>17, ReturnDoes, Ends, Zenon DEF ContextOK, CallOK, Fresh, Moves, Sides
  <2>4. ServeOK'
    BY <1>17, ReturnDoes, Ends, Zenon DEF ContextOK, ServeOK, Moves, Sides
  <2> QED
    BY <2>1, <2>2, <2>3, <2>4, Ends, Zenon DEF ContextOK
<1>18. CASE HandlerFails
  <2>1. HalfOK("server")'
    BY <1>18, HandlerFailsDoes, Ends, Zenon
       DEF ContextOK, HalfOK, Fresh, Moves, SameRecv, SameSend, SameErr
  <2>2. HalfOK(Peer("server"))'
    <3>1. pc'[Peer("server")] = pc[Peer("server")] /\ ctx'[Peer("server")] = ctx[Peer("server")]
      BY <1>18, HandlerFailsDoes, Ends, Zenon DEF Moves
    <3> QED
      BY <3>1, Ends, Zenon DEF ContextOK, HalfOK
  <2>3. CallOK'
    BY <1>18, HandlerFailsDoes, Ends, Zenon DEF ContextOK, CallOK, Fresh, Moves, Sides
  <2>4. ServeOK'
    BY <1>18, HandlerFailsDoes, Ends, Zenon DEF ContextOK, ServeOK, Moves, Sides
  <2> QED
    BY <2>1, <2>2, <2>3, <2>4, Ends, Zenon DEF ContextOK
<1>19. ASSUME NEW s \in Sides, RecvReset(s) PROVE ContextOK'
  <2>1. HalfOK(s)'
    BY <1>19, RecvResetDoes, Ends, Zenon
       DEF ContextOK, HalfOK, Fresh, Moves, SameRecv, SameSend, SameErr
  <2>2. HalfOK(Peer(s))'
    <3>1. pc'[Peer(s)] = pc[Peer(s)] /\ ctx'[Peer(s)] = ctx[Peer(s)]
      BY <1>19, RecvResetDoes, Ends, Zenon DEF Moves
    <3> QED
      BY <3>1, Ends, Zenon DEF ContextOK, HalfOK
  <2>3. CallOK'
    BY <1>19, RecvResetDoes, Ends, Zenon DEF ContextOK, CallOK, Fresh, Moves, Sides
  <2>4. ServeOK'
    BY <1>19, RecvResetDoes, Ends, Zenon DEF ContextOK, ServeOK, Moves, Sides
  <2> QED
    BY <2>1, <2>2, <2>3, <2>4, Ends, Zenon DEF ContextOK
<1>20. CASE UNCHANGED vars
  BY <1>20, Zenon DEF vars, ContextOK, HalfOK, CallOK, ServeOK, Fresh
<1> QED
  BY <1>1, <1>2, <1>3, <1>4, <1>5, <1>6, <1>7, <1>8, <1>9, <1>10, <1>11, <1>12, <1>13,
     <1>14, <1>15, <1>16, <1>17, <1>18, <1>19, <1>20, Ends, ZenonT(30)
     DEF Next, ClientStep, ServerStep, Busy, Calls, HandlerReturns

---------------------------------------------------------------------------
\* The items of the server.

\* What a step does to neither the received items nor the number of them.
ItemsFrame ==
  /\ got'["client"] = got["client"] /\ Sent' = Sent
  /\ pc'["server"] \in {"sendStart", "sendItem"} => sends'["server"] > 0
  /\ Fresh("client")' /\ ~closed'["client"] => Fresh("client") /\ ~closed["client"]
  /\ ~ctx'["server"].sendStreamError /\ CanWrite("server")' =>
       ~ctx["server"].sendStreamError /\ CanWrite("server")

\* Sent counts.
LEMMA SentIsNat ==
  ASSUME Types, ItemsOK
  PROVE  /\ Sent \in Nat /\ sends["server"] \in Nat /\ got["client"] \in Seq(Nat)
         /\ Len(got["client"]) \in Nat /\ inbox["client"] \in Seq(Messages)
<1>1. sends["server"] \in Nat /\ got["client"] \in Seq(Nat) /\ inbox["client"] \in Seq(Messages)
  BY Ends, Zenon DEF Types, StreamOK
<1> QED
  BY <1>1 DEF Sent, ItemsOK

\* The queue of the client is left alone.
LEMMA ItemsKeep ==
  ASSUME Types, ItemsOK, ItemsFrame, inbox'["client"] = inbox["client"] PROVE ItemsOK'
<1> DEFINE q == inbox["client"]
           g == Len(got["client"])
<1>1. /\ UpTo(q, Sent)
      /\ Fresh("client") /\ ~closed["client"] =>
           /\ InOrder(q, g)
           /\ ~ctx["server"].sendStreamError /\ CanWrite("server") => Reaches(q, g, Sent)
  BY Zenon DEF ItemsOK
<1>2. UpTo(inbox'["client"], Sent')
  BY <1>1, Zenon DEF ItemsFrame
<1>3. Fresh("client")' /\ ~closed'["client"] =>
        /\ InOrder(inbox'["client"], Len(got'["client"]))
        /\ ~ctx'["server"].sendStreamError /\ CanWrite("server")' =>
             Reaches(inbox'["client"], Len(got'["client"]), Sent')
  BY <1>1, Zenon DEF ItemsFrame
<1>4. \A i \in 1 .. Len(got'["client"]) : got'["client"][i] = i
  BY Zenon DEF ItemsFrame, ItemsOK
<1> QED
  BY <1>2, <1>3, <1>4, Zenon DEF ItemsFrame, ItemsOK

\* A message that is no item is added, unless the client's end is closed.
LEMMA ItemsAppend ==
  ASSUME Types, ItemsOK, ItemsFrame, NEW m \in Messages, m.kind # "StreamItem",
         UNCHANGED closed,
         inbox'["client"] = IF closed["client"] THEN inbox["client"]
                            ELSE Append(inbox["client"], m)
  PROVE  ItemsOK'
<1> DEFINE q == inbox["client"]
           r == Append(q, m)
           g == Len(got["client"])
<1>1. CASE closed["client"]
  BY <1>1, ItemsKeep, Zenon
<1>2. CASE ~closed["client"]
  <2>1. /\ UpTo(q, Sent) /\ q \in Seq(Messages) /\ g \in Nat /\ Sent \in Nat
        /\ Fresh("client") /\ ~closed["client"] =>
             /\ InOrder(q, g)
             /\ ~ctx["server"].sendStreamError /\ CanWrite("server") => Reaches(q, g, Sent)
    BY SentIsNat, Zenon DEF ItemsOK
  <2>2. inbox'["client"] = r /\ Len(got'["client"]) = g /\ Sent' = Sent
    BY <1>2, Zenon DEF ItemsFrame
  <2>3. /\ InOrder(q, g) => InOrder(r, g)
        /\ UpTo(q, Sent) => UpTo(r, Sent)
        /\ Reaches(q, g, Sent) => Reaches(r, g, Sent)
    BY <2>1, AppendOther, Zenon
  <2> HIDE DEF q, r, g
  <2>4. UpTo(inbox'["client"], Sent')
    BY <2>1, <2>2, <2>3, Zenon
  <2>5. Fresh("client")' /\ ~closed'["client"] =>
          /\ InOrder(inbox'["client"], Len(got'["client"]))
          /\ ~ctx'["server"].sendStreamError /\ CanWrite("server")' =>
               Reaches(inbox'["client"], Len(got'["client"]), Sent')
    BY <2>1, <2>2, <2>3, Zenon DEF ItemsFrame
  <2>6. \A i \in 1 .. Len(got'["client"]) : got'["client"][i] = i
    BY Zenon DEF ItemsFrame, ItemsOK
  <2> QED
    BY <2>4, <2>5, <2>6, Zenon DEF ItemsFrame, ItemsOK
<1> QED
  BY <1>1, <1>2, Zenon

\* The client's end is closed.
LEMMA ItemsGone ==
  ASSUME Types, ItemsOK, got'["client"] = got["client"], closed'["client"],
         inbox'["client"] = <<>>, pc'["server"] = pc["server"], UNCHANGED sends
  PROVE  ItemsOK'
<1>1. UpTo(inbox'["client"], Sent')
  BY DEF UpTo
<1> QED
  BY <1>1, Zenon DEF ItemsOK

\* A step of the client leaves the server alone.
LEMMA ItemsOfClient ==
  ASSUME Types, ItemsOK, got'["client"] = got["client"], pc'["server"] = pc["server"],
         ctx'["server"] = ctx["server"], sends'["server"] = sends["server"],
         Fresh("client")' => Fresh("client"), closed'["client"] = closed["client"],
         closed'["server"] = closed["server"], ended'["server"] = ended["server"]
  PROVE  ItemsFrame
<1>1. Sent' = Sent
  BY Zenon DEF Sent
<1> QED
  BY <1>1, Zenon DEF ItemsFrame, ItemsOK, CanWrite

\* A step of the server that neither starts nor ends a Send.
LEMMA ItemsOfServer ==
  ASSUME Types, ItemsOK, got'["client"] = got["client"], closed'["client"] = closed["client"],
         ctx'["client"] = ctx["client"], sends'["server"] = sends["server"],
         pc["server"] \in {"sendStart", "sendItem"} <=> pc'["server"] \in {"sendStart", "sendItem"},
         ctx'["server"].sendStreamError = ctx["server"].sendStreamError \/
           (~ctx["server"].sendStreamError /\ ~ctx'["server"].sendStreamError),
         CanWrite("server")' => CanWrite("server")
  PROVE  ItemsFrame
<1>1. Sent' = Sent
  BY Zenon DEF Sent
<1> QED
  BY <1>1, Zenon DEF ItemsFrame, ItemsOK, Fresh

\* The other end's part of the stream, its place and its Context.
Leaves(t) ==
  /\ pc'[t] = pc[t] /\ ctx'[t] = ctx[t] /\ sends'[t] = sends[t] /\ got'[t] = got[t]
  /\ first'[t] = first[t] /\ ended'[t] = ended[t] /\ closed'[t] = closed[t]

\* A call on the Context of one end leaves the other end alone.
LEMMA CallsLeave ==
  ASSUME Types, NEW s \in Sides,
     Calls(s) \/ Busy(s) PROVE Types' /\ Leaves(Peer(s)) /\ UNCHANGED call
<1> SUFFICES Types' /\ Leaves(Peer(s)) /\ UNCHANGED call
  BY Zenon
<1>1. CASE Send(s)
  <2>1. Types' /\ UNCHANGED call
    BY <1>1, SendDoes, Zenon
  <2>2. pc'[Peer(s)] = pc[Peer(s)] /\ ctx'[Peer(s)] = ctx[Peer(s)]
    BY <1>1, SendDoes, Ends, Zenon DEF Moves
  <2>3. sends'[Peer(s)] = sends[Peer(s)] /\ got'[Peer(s)] = got[Peer(s)]
    BY <1>1, SendDoes, Ends, Zenon
  <2>4. /\ first'[Peer(s)] = first[Peer(s)] /\ ended'[Peer(s)] = ended[Peer(s)]
        /\ closed'[Peer(s)] = closed[Peer(s)]
    BY <1>1, SendDoes, Ends, Zenon DEF Quiet, Wrote, Took
  <2> QED
    BY <2>1, <2>2, <2>3, <2>4, Zenon DEF Leaves
<1>2. CASE SendStart(s)
  <2>1. Types' /\ UNCHANGED call
    BY <1>2, SendStartDoes, Zenon
  <2>2. pc'[Peer(s)] = pc[Peer(s)] /\ ctx'[Peer(s)] = ctx[Peer(s)]
    BY <1>2, SendStartDoes, Ends, Zenon DEF Moves
  <2>3. sends'[Peer(s)] = sends[Peer(s)] /\ got'[Peer(s)] = got[Peer(s)]
    BY <1>2, SendStartDoes, Ends, Zenon
  <2>4. /\ first'[Peer(s)] = first[Peer(s)] /\ ended'[Peer(s)] = ended[Peer(s)]
        /\ closed'[Peer(s)] = closed[Peer(s)]
    BY <1>2, SendStartDoes, Ends, Zenon DEF Quiet, Wrote, Took
  <2> QED
    BY <2>1, <2>2, <2>3, <2>4, Zenon DEF Leaves
<1>3. CASE SendItem(s)
  <2>1. Types' /\ UNCHANGED call
    BY <1>3, SendItemDoes, Zenon
  <2>2. pc'[Peer(s)] = pc[Peer(s)] /\ ctx'[Peer(s)] = ctx[Peer(s)]
    BY <1>3, SendItemDoes, Ends, Zenon DEF Moves
  <2>3. sends'[Peer(s)] = sends[Peer(s)] /\ got'[Peer(s)] = got[Peer(s)]
    BY <1>3, SendItemDoes, Ends, ZenonT(30)
  <2>4. /\ first'[Peer(s)] = first[Peer(s)] /\ ended'[Peer(s)] = ended[Peer(s)]
        /\ closed'[Peer(s)] = closed[Peer(s)]
    BY <1>3, SendItemDoes, Ends, Zenon DEF Quiet, Wrote, Took
  <2> QED
    BY <2>1, <2>2, <2>3, <2>4, Zenon DEF Leaves
<1>4. CASE EndSend(s)
  <2>1. Types' /\ UNCHANGED call
    BY <1>4, EndSendDoes, Zenon
  <2>2. pc'[Peer(s)] = pc[Peer(s)] /\ ctx'[Peer(s)] = ctx[Peer(s)]
    BY <1>4, EndSendDoes, Ends, Zenon DEF Moves
  <2>3. sends'[Peer(s)] = sends[Peer(s)] /\ got'[Peer(s)] = got[Peer(s)]
    BY <1>4, EndSendDoes, Ends, Zenon
  <2>4. /\ first'[Peer(s)] = first[Peer(s)] /\ ended'[Peer(s)] = ended[Peer(s)]
        /\ closed'[Peer(s)] = closed[Peer(s)]
    BY <1>4, EndSendDoes, Ends, ZenonT(30) DEF Quiet, Wrote, Took
  <2> QED
    BY <2>1, <2>2, <2>3, <2>4, Zenon DEF Leaves
<1>5. CASE Recv(s)
  <2>1. Types' /\ UNCHANGED call
    BY <1>5, RecvDoes, Zenon
  <2>2. pc'[Peer(s)] = pc[Peer(s)] /\ ctx'[Peer(s)] = ctx[Peer(s)]
    BY <1>5, RecvDoes, Ends, Zenon DEF Moves
  <2>3. sends'[Peer(s)] = sends[Peer(s)] /\ got'[Peer(s)] = got[Peer(s)]
    BY <1>5, RecvDoes, Ends, Zenon
  <2>4. /\ first'[Peer(s)] = first[Peer(s)] /\ ended'[Peer(s)] = ended[Peer(s)]
        /\ closed'[Peer(s)] = closed[Peer(s)]
    BY <1>5, RecvDoes, Ends, Zenon DEF Quiet, Wrote, Took
  <2> QED
    BY <2>1, <2>2, <2>3, <2>4, Zenon DEF Leaves
<1>6. CASE RecvStart(s)
  <2>1. Types' /\ UNCHANGED call
    BY <1>6, RecvStartDoes, Zenon
  <2>2. pc'[Peer(s)] = pc[Peer(s)] /\ ctx'[Peer(s)] = ctx[Peer(s)]
    BY <1>6, RecvStartDoes, Ends, Zenon DEF Moves
  <2>3. sends'[Peer(s)] = sends[Peer(s)] /\ got'[Peer(s)] = got[Peer(s)]
    BY <1>6, RecvStartDoes, Ends, Zenon
  <2>4. /\ first'[Peer(s)] = first[Peer(s)] /\ ended'[Peer(s)] = ended[Peer(s)]
        /\ closed'[Peer(s)] = closed[Peer(s)]
    BY <1>6, RecvStartDoes, Ends, Zenon DEF Quiet, Wrote, Took
  <2> QED
    BY <2>1, <2>2, <2>3, <2>4, Zenon DEF Leaves
<1>7. CASE RecvItem(s)
  <2>1. Types' /\ UNCHANGED call
    BY <1>7, RecvItemDoes, Zenon
  <2>2. pc'[Peer(s)] = pc[Peer(s)] /\ ctx'[Peer(s)] = ctx[Peer(s)]
    BY <1>7, RecvItemDoes, Ends, Zenon DEF Moves
  <2>3. sends'[Peer(s)] = sends[Peer(s)] /\ got'[Peer(s)] = got[Peer(s)]
    BY <1>7, RecvItemDoes, Ends, Zenon
  <2>4. /\ first'[Peer(s)] = first[Peer(s)] /\ ended'[Peer(s)] = ended[Peer(s)]
        /\ closed'[Peer(s)] = closed[Peer(s)]
    BY <1>7, RecvItemDoes, Ends, Zenon DEF Quiet, Wrote, Took
  <2> QED
    BY <2>1, <2>2, <2>3, <2>4, Zenon DEF Leaves
<1> QED
  BY <1>1, <1>2, <1>3, <1>4, <1>5, <1>6, <1>7, Zenon DEF Calls, Busy

\* A step of the client leaves the server's end alone.
LEMMA ClientLeaves ==
  ASSUME Types, ClientStep \/ Calls("client") PROVE Types' /\ Leaves("server")
<1> SUFFICES Types' /\ Leaves("server")
  BY Zenon
<1> USE Ends
<1>1. CASE Calls("client") \/ Busy("client")
  BY <1>1, CallsLeave, Zenon
<1>2. ASSUME NEW b \in BOOLEAN, CallRequest(b) PROVE Types' /\ Leaves("server")
  BY <1>2, CallRequestDoes, ZenonT(30) DEF Leaves, Moves, Quiet, Wrote
<1>3. CASE CallUnencodable
  BY <1>3, CallUnencodableDoes, Zenon DEF Leaves, Moves, Quiet, WasReset
<1>4. CASE CallCancel
  BY <1>4, CallCancelDoes, Zenon DEF Leaves, Moves, Quiet, WasReset
<1>5. CASE CallStartStream
  BY <1>5, CallStartStreamDoes, Zenon DEF Leaves, Moves, Quiet, Wrote
<1>6. CASE CallResponse
  BY <1>6, CallResponseDoes, Zenon DEF Leaves, Moves, Quiet, WasReset, Took
<1> QED
  BY <1>1, <1>2, <1>3, <1>4, <1>5, <1>6, Zenon DEF ClientStep

\* A step of the server leaves the client's end alone.
LEMMA ServerLeaves ==
  ASSUME Types, ServerStep \/ Calls("server")
  PROVE  /\ Types' /\ UNCHANGED call
         /\ pc'["client"] = pc["client"] /\ ctx'["client"] = ctx["client"]
         /\ sends'["client"] = sends["client"] /\ got'["client"] = got["client"]
         /\ ended'["client"] = ended["client"] /\ closed'["client"] = closed["client"]
<1> DEFINE Goal == /\ Types' /\ UNCHANGED call
                   /\ pc'["client"] = pc["client"] /\ ctx'["client"] = ctx["client"]
                   /\ sends'["client"] = sends["client"] /\ got'["client"] = got["client"]
                   /\ ended'["client"] = ended["client"] /\ closed'["client"] = closed["client"]
<1> SUFFICES Goal
  BY Zenon
<1> USE Ends
<1>1. CASE Calls("server") \/ Busy("server")
  BY <1>1, CallsLeave DEF Leaves
<1>2. ASSUME NEW b \in BOOLEAN, NEW l \in {"ready", "done"}, SendResponse(b, l) PROVE Goal
  BY <1>2, SendResponseDoes, Zenon DEF Moves, Quiet, Wrote
<1>3. CASE ServeStart
  BY <1>3, ServeStartDoes, Zenon DEF Moves, Quiet, WasReset
<1>4. CASE ServeRequest
  BY <1>4, ServeRequestDoes, Zenon DEF Moves, Took
<1>5. CASE ServeReject
  BY <1>5, ServeRejectDoes, Zenon DEF Moves, Quiet
<1>6. CASE (HandlerReturns \/ InterceptorReturns) /\ ~SendResponse(FALSE, "done")
  BY <1>6, ReturnDoes, Zenon DEF Moves, Quiet
<1>7. CASE HandlerFails
  BY <1>7, HandlerFailsDoes, Zenon DEF Moves, Quiet, Wrote
<1> HIDE DEF Goal
<1> QED
  BY <1>1, <1>2, <1>3, <1>4, <1>5, <1>6, <1>7, Zenon DEF ServerStep, HandlerReturns

\* A step of the client, or a reset, leaves the Response alone.
LEMMA ResponseKeep ==
  ASSUME ResponseOK, pc'["server"] = pc["server"], ctx'["server"] = ctx["server"],
         first'["server"] = first["server"], CanWrite("server")' => CanWrite("server")
  PROVE  ResponseOK'
BY Zenon DEF ResponseOK

\* The first message of the server stays a Response.
LEMMA ResponseStep ==
  ASSUME Types, ContextOK, ResponseOK, [Next]_vars PROVE ResponseOK'
<1> SUFFICES ResponseOK'
  BY Zenon
<1>1. CASE ClientStep \/ Calls("client")
  BY <1>1, ClientLeaves, ResponseKeep, Zenon DEF Leaves, CanWrite
<1>2. ASSUME NEW s \in Sides, RecvReset(s) PROVE ResponseOK'
  <2>1. CanWrite("server")' => CanWrite("server")
    <3>1. UNCHANGED ended /\ closed'[s] = TRUE /\ closed'[Peer(s)] = closed[Peer(s)]
      BY <1>2, RecvResetEffect, Zenon DEF Types
    <3>2. "server" = s \/ "server" = Peer(s)
      BY Ends, Zenon
    <3> QED
      BY <3>1, <3>2, Zenon DEF CanWrite
  <2> QED
    BY <1>2, <2>1, RecvResetDoes, ResponseKeep, Zenon
<1>3. ASSUME NEW s \in Sides, s = "server", Send(s) PROVE ResponseOK'
  <2>1. /\ pc[s] = "ready" /\ ctx[s].hasSendStream /\ Quiet /\ ctx' = ctx
        /\ pc'[s] \in {"sendItem", "sendStart"}
    BY <1>3, SendDoes, Zenon DEF Moves
  <2> QED
    BY <1>3, <2>1, Zenon DEF ResponseOK, Quiet, CanWrite
<1>4. ASSUME NEW s \in Sides, s = "server", SendStart(s) PROVE ResponseOK'
  <2>1. pc[s] = "sendStart"
    BY <1>4, SendStartDoes, Zenon
  <2>2. CASE CanWrite(s)
    <3>1. Wrote(s, Msg("StartStream", FALSE, 0), FALSE)
      BY <1>4, <2>2, SendStartDoes, Zenon
    <3> QED
      BY <1>4, <2>1, <2>2, <3>1, Zenon DEF ResponseOK, Wrote
  <2>3. CASE ~CanWrite(s)
    <3>1. Quiet
      BY <1>4, <2>3, SendStartDoes, Zenon
    <3> QED
      BY <1>4, <2>1, <2>3, <3>1, Zenon DEF ResponseOK, Quiet, CanWrite
  <2> QED
    BY <2>2, <2>3, Zenon
<1>5. ASSUME NEW s \in Sides, s = "server", SendItem(s) PROVE ResponseOK'
  <2>1. pc[s] = "sendItem"
    BY <1>5, SendItemDoes, Zenon
  <2>2. Quiet \/ (CanWrite(s) /\ Wrote(s, Msg("StreamItem", FALSE, sends[s]), FALSE))
    BY <1>5, SendItemDoes, Zenon
  <2> QED
    BY <1>5, <2>1, <2>2, Zenon DEF ResponseOK, Quiet, CanWrite, Wrote
<1>6. ASSUME NEW s \in Sides, s = "server", EndSend(s) PROVE ResponseOK'
  <2>1. ctx[s].hasSendStream /\ pc[s] = "ready"
    BY <1>6, EndSendDoes, Zenon
  <2>2. Quiet \/ (CanWrite(s) /\ Wrote(s, Msg("EndStream", FALSE, 0), TRUE))
    BY <1>6, EndSendDoes, Zenon
  <2> QED
    BY <1>6, <2>1, <2>2, Zenon DEF ResponseOK, Quiet, CanWrite, Wrote
<1>7. ASSUME NEW s \in Sides, s = "server", Recv(s) PROVE ResponseOK'
  <2>1. pc'[s] \in {"recvItem", "recvStart"} /\ Quiet /\ ctx' = ctx
    BY <1>7, RecvDoes, Zenon DEF Moves
  <2> QED
    BY <1>7, <2>1, Zenon DEF ResponseOK, Quiet, CanWrite
<1>8. ASSUME NEW s \in Sides, s = "server", RecvStart(s) PROVE ResponseOK'
  <2>1. pc'[s] \in {"recvItem", "ready"} /\ (Quiet \/ Took(s)) /\ SameSend(s)
    BY <1>8, RecvStartDoes, Zenon DEF Moves
  <2> QED
    BY <1>8, <2>1, Zenon DEF ResponseOK, Quiet, Took, CanWrite, SameSend
<1>9. ASSUME NEW s \in Sides, s = "server", RecvItem(s) PROVE ResponseOK'
  <2>1. pc'[s] = "ready" /\ (Quiet \/ Took(s)) /\ SameSend(s)
    BY <1>9, RecvItemDoes, Zenon DEF Moves
  <2> QED
    BY <1>9, <2>1, Zenon DEF ResponseOK, Quiet, Took, CanWrite, SameSend
<1>10. ASSUME NEW b \in BOOLEAN, NEW l \in {"ready", "done"}, SendResponse(b, l) PROVE ResponseOK'
  <2>1. /\ pc'["server"] = l /\ ctx'["server"].hasSendStream = b
        /\ ctx'["server"].sendStreamStarted = FALSE
        /\ \/ CanWrite("server") /\ Wrote("server", Msg("Response", b, 0), ~b)
           \/ ~CanWrite("server") /\ Quiet
    BY <1>10, SendResponseDoes, Zenon DEF Moves
  <2>2. Msg("Response", b, 0).kind = "Response"
    BY Zenon DEF Msg
  <2> QED
    BY <1>10, <2>1, <2>2, Zenon DEF ResponseOK, Quiet, Wrote, CanWrite
<1>11. CASE ServeStart
  <2>1. pc'["server"] \in {"request", "done"} /\ (Quiet \/ WasReset("server")) /\ ctx' = ctx
    BY <1>11, ServeStartDoes, Zenon DEF Moves
  <2> QED
    BY <2>1, Zenon DEF ResponseOK, Quiet, WasReset, CanWrite
<1>12. CASE ServeRequest
  BY <1>12, ServeRequestDoes, Zenon DEF ResponseOK, Took, Moves
<1>13. CASE ServeReject
  BY <1>13, ServeRejectDoes, Zenon DEF ResponseOK, Quiet, Moves, CanWrite
<1>14. CASE (HandlerReturns \/ InterceptorReturns) /\ ~SendResponse(FALSE, "done")
  BY <1>14, ReturnDoes, Zenon DEF ResponseOK, Quiet, Moves, CanWrite
<1>15. CASE HandlerFails
  <2>1. /\ pc'["server"] = "failed" /\ ctx' = ctx
        /\ \/ CanWrite("server") /\ Wrote("server", ErrorMsg, TRUE)
           \/ ~CanWrite("server") /\ Quiet
    BY <1>15, HandlerFailsDoes, Zenon DEF Moves
  <2>2. ErrorMsg.kind = IF ctx["server"].sendStreamStarted THEN "StreamError" ELSE "Response"
    BY Zenon DEF ErrorMsg, Msg
  <2> QED
    BY <2>1, <2>2, Zenon DEF ResponseOK, Quiet, Wrote, CanWrite
<1>16. CASE UNCHANGED vars
  BY <1>16, ResponseKeep, Zenon DEF vars, stream, CanWrite
<1> QED
  BY <1>1, <1>2, <1>3, <1>4, <1>5, <1>6, <1>7, <1>8, <1>9, <1>10, <1>11, <1>12, <1>13, <1>14,
     <1>15, <1>16, Ends, ZenonT(30) DEF Next, ServerStep, Calls, Busy, HandlerReturns

\* A step of the server, or a reset, leaves a cancelled call as it is.
LEMMA CancelKeep ==
  ASSUME CancelOK, pc'["client"] = pc["client"], ctx'["client"] = ctx["client"],
         ended'["client"] = ended["client"], UNCHANGED call
  PROVE  CancelOK'
BY Zenon DEF CancelOK

\* A unary call can be cancelled only after its END_STREAM.
LEMMA CancelStep ==
  ASSUME Types, CancelOK, [Next]_vars PROVE CancelOK'
<1> SUFFICES CancelOK'
  BY Zenon
<1>1. CASE ServerStep \/ Calls("server")
  BY <1>1, ServerLeaves, CancelKeep, Zenon
<1>2. ASSUME NEW s \in Sides, RecvReset(s) PROVE CancelOK'
  BY <1>2, RecvResetEffect, RecvResetDoes, CancelKeep, Zenon DEF Types
<1>3. CASE Calls("client") \/ Busy("client")
  <2>1. pc["client"] \notin {"cancel", "done"} /\ pc'["client"] \notin {"cancel", "done"}
    <3>1. ASSUME NEW s \in Sides, Calls(s) \/ Busy(s)
          PROVE  pc[s] \notin {"cancel", "done"} /\ pc'[s] \notin {"cancel", "done"}
      BY <3>1, Zenon DEF Types, Calls, Busy, Send, SendStart, SendItem, EndSend, Recv, RecvStart,
                  RecvItem, Usable, Goto
    <3> QED
      BY <1>3, <3>1, Ends, Zenon
  <2>2. UNCHANGED call
    BY <1>3, CallsLeave, Ends, Zenon
  <2> QED
    BY <2>1, <2>2, Zenon DEF CancelOK
<1>4. ASSUME NEW b \in BOOLEAN, CallRequest(b) PROVE CancelOK'
  BY <1>4, CallRequestDoes, Zenon DEF CancelOK, Wrote, Moves
<1>5. CASE CallUnencodable
  BY <1>5, CallUnencodableDoes, Zenon DEF CancelOK, Moves
<1>6. CASE CallCancel
  BY <1>6, CallCancelDoes, Zenon DEF CancelOK, Quiet, WasReset, Moves
<1>7. CASE CallStartStream
  BY <1>7, CallStartStreamDoes, Zenon DEF CancelOK, Moves
<1>8. CASE CallResponse
  BY <1>8, CallResponseDoes, Zenon DEF CancelOK, Moves
<1>9. CASE UNCHANGED vars
  BY <1>9, CancelKeep, SMTT(30) DEF vars, stream
<1> QED
  BY <1>1, <1>2, <1>3, <1>4, <1>5, <1>6, <1>7, <1>8, <1>9, SMTT(30) DEF Next, ClientStep

\* The client takes a message from its queue that is no item, or is spoilt.
LEMMA ItemsTake ==
  ASSUME Types, ItemsOK, ItemsFrame, Took("client"),
         Head(inbox["client"]).kind # "StreamItem" \/ ~Fresh("client")'
  PROVE  ItemsOK'
<1> DEFINE q == inbox["client"]
           r == Tail(q)
           g == Len(got["client"])
<1>1. /\ UpTo(q, Sent) /\ q \in Seq(Messages) /\ q # <<>> /\ g \in Nat /\ Sent \in Nat
      /\ Fresh("client") /\ ~closed["client"] =>
           /\ InOrder(q, g)
           /\ ~ctx["server"].sendStreamError /\ CanWrite("server") => Reaches(q, g, Sent)
  BY SentIsNat, Zenon DEF ItemsOK, Took
<1>2. inbox'["client"] = r /\ Len(got'["client"]) = g /\ Sent' = Sent
  BY Zenon DEF ItemsFrame, Took
<1>3. UpTo(r, Sent)
  BY <1>1, TailUpTo, Zenon
<1>4. Head(q).kind # "StreamItem" =>
        (InOrder(q, g) => InOrder(r, g)) /\ (Reaches(q, g, Sent) => Reaches(r, g, Sent))
  BY <1>1, TailOther, Zenon
<1>5. Head(q).kind # "StreamItem" \/ ~Fresh("client")'
  BY Zenon
<1> HIDE DEF q, r, g
<1>6. UpTo(inbox'["client"], Sent')
  BY <1>2, <1>3, Zenon
<1>7. Fresh("client")' /\ ~closed'["client"] =>
        /\ InOrder(inbox'["client"], Len(got'["client"]))
        /\ ~ctx'["server"].sendStreamError /\ CanWrite("server")' =>
             Reaches(inbox'["client"], Len(got'["client"]), Sent')
  BY <1>1, <1>2, <1>4, <1>5, SMTT(30) DEF ItemsFrame
<1>8. \A i \in 1 .. Len(got'["client"]) : got'["client"][i] = i
  BY Zenon DEF ItemsFrame, ItemsOK
<1> QED
  BY <1>6, <1>7, <1>8, SMTT(30) DEF ItemsFrame, ItemsOK

\* The client receives an item.
LEMMA ItemsReceive ==
  ASSUME Types, ItemsOK, Took("client"), Head(inbox["client"]).kind = "StreamItem",
         Fresh("client"), ~closed["client"],
         got'["client"] = Append(got["client"], Head(inbox["client"]).n),
         pc'["server"] = pc["server"], ctx'["server"] = ctx["server"],
         sends'["server"] = sends["server"]
  PROVE  ItemsOK'
<1> DEFINE q == inbox["client"]
           r == Tail(q)
           g == Len(got["client"])
<1>1. /\ UpTo(q, Sent) /\ q \in Seq(Messages) /\ q # <<>> /\ g \in Nat /\ Sent \in Nat
      /\ InOrder(q, g)
      /\ ~ctx["server"].sendStreamError /\ CanWrite("server") => Reaches(q, g, Sent)
  BY SentIsNat, Zenon DEF ItemsOK, Took
<1>2. inbox'["client"] = r /\ Sent' = Sent
  BY Zenon DEF Took, Sent
<1>3. UpTo(r, Sent)
  BY <1>1, TailUpTo, Zenon
<1>4. /\ Head(q).n = g + 1 /\ InOrder(r, g + 1)
      /\ Reaches(q, g, Sent) => Reaches(r, g + 1, Sent)
  BY <1>1, TailItem, Zenon
<1>5. Len(got'["client"]) = g + 1 /\ \A i \in 1 .. Len(got'["client"]) : got'["client"][i] = i
  <2>1. got["client"] \in Seq(Nat) /\ \A i \in 1 .. g : got["client"][i] = i
    BY SentIsNat, Zenon DEF ItemsOK
  <2> QED
    BY <1>4, <2>1
<1> HIDE DEF q, r, g
<1>6. UpTo(inbox'["client"], Sent')
  BY <1>2, <1>3, Zenon
<1>7. /\ InOrder(inbox'["client"], Len(got'["client"]))
      /\ ~ctx'["server"].sendStreamError /\ CanWrite("server")' =>
           Reaches(inbox'["client"], Len(got'["client"]), Sent')
  BY <1>1, <1>2, <1>4, <1>5, SMTT(30) DEF CanWrite, Took
<1> QED
  BY <1>5, <1>6, <1>7, SMTT(30) DEF ItemsOK

\* A Send of the server is over without its item: none can follow.
LEMMA ItemsSkip ==
  ASSUME Types, ItemsOK, pc["server"] \in {"sendStart", "sendItem"}, pc'["server"] = "ready",
         Quiet, UNCHANGED <<sends, got>>, ctx'["client"] = ctx["client"],
         ctx'["server"].sendStreamError \/ ~CanWrite("server")
  PROVE  ItemsOK'
<1> DEFINE q == inbox["client"]
<1>1. UpTo(q, Sent) /\ Sent \in Nat /\ Sent' = Sent + 1 /\ inbox'["client"] = q
  BY SentIsNat DEF ItemsOK, Sent, Quiet
<1>2. \A i \in 1 .. Len(q) : q[i].n \in Nat
  BY SentIsNat, NumbersAt, Zenon
<1> HIDE DEF q
<1>3. UpTo(q, Sent + 1)
  BY <1>1, <1>2 DEF UpTo
<1>4. UpTo(inbox'["client"], Sent')
  BY <1>1, <1>3, Zenon
<1>5. ~(~ctx'["server"].sendStreamError /\ CanWrite("server")')
  BY Zenon DEF CanWrite, Quiet
<1>6. Fresh("client")' /\ ~closed'["client"] =>
        InOrder(inbox'["client"], Len(got'["client"]))
  BY Zenon DEF ItemsOK, Fresh, Quiet
<1> QED
  BY <1>4, <1>5, <1>6, SMTT(30) DEF ItemsOK

\* The item of a Send goes out.
LEMMA ItemsSend ==
  ASSUME Types, ContextOK, ItemsOK, pc["server"] = "sendItem", pc'["server"] = "ready",
         CanWrite("server"), Wrote("server", Msg("StreamItem", FALSE, sends["server"]), FALSE),
         UNCHANGED <<sends, got>>, ctx'["client"] = ctx["client"], SameSend("server")
  PROVE  ItemsOK'
<1> DEFINE q == inbox["client"]
           m == Msg("StreamItem", FALSE, sends["server"])
           r == Append(q, m)
           g == Len(got["client"])
<1>1. /\ UpTo(q, Sent) /\ q \in Seq(Messages) /\ g \in Nat /\ Sent \in Nat
      /\ sends["server"] = Sent + 1 /\ Sent' = Sent + 1
      /\ Fresh("client") /\ ~closed["client"] =>
           InOrder(q, g) /\ (~ctx["server"].sendStreamError => Reaches(q, g, Sent))
  <2>1. /\ UpTo(q, Sent)
        /\ Fresh("client") /\ ~closed["client"] =>
             InOrder(q, g) /\ (~ctx["server"].sendStreamError => Reaches(q, g, Sent))
    BY Zenon DEF ItemsOK
  <2>2. q \in Seq(Messages) /\ g \in Nat /\ Sent \in Nat /\ sends["server"] \in Nat
    BY SentIsNat, Zenon
  <2>3. Sent = sends["server"] - 1 /\ Sent' = sends["server"]
    BY ZenonT(30) DEF Sent
  <2> QED
    BY <2>1, <2>2, <2>3
<1>2. m \in Messages /\ m.kind = "StreamItem" /\ m.n = Sent + 1
  <2>1. sends["server"] \in Nat /\ "StreamItem" \in Kinds
    BY SentIsNat, Zenon DEF Kinds
  <2> QED
    BY <1>1, <2>1, Zenon DEF Msg, Messages
<1>3. inbox'["client"] = (IF closed["client"] THEN q ELSE r) /\ closed' = closed
  BY Ends, ZenonT(30) DEF Wrote
<1>4. \A i \in 1 .. Len(q) : q[i].n \in Nat
  BY <1>1, NumbersAt, Zenon
<1> HIDE DEF q, m, g
<1>5. UpTo(q, Sent + 1)
  BY <1>1, <1>4 DEF UpTo
<1>6. /\ UpTo(r, Sent + 1) /\ Reaches(r, g, Sent + 1)
      /\ InOrder(q, g) /\ Reaches(q, g, Sent) => InOrder(r, g)
  BY <1>1, <1>2, AppendItem, SMTT(30)
<1> HIDE DEF r
<1>7. UpTo(inbox'["client"], Sent')
  BY <1>1, <1>3, <1>5, <1>6, Zenon
<1>8. ~ctx["server"].sendStreamError
  BY Ends, ZenonT(30) DEF ContextOK, HalfOK
<1>9. Fresh("client")' /\ ~closed'["client"] =>
        /\ InOrder(inbox'["client"], Len(got'["client"]))
        /\ Reaches(inbox'["client"], Len(got'["client"]), Sent')
  BY <1>1, <1>3, <1>6, <1>8, Zenon DEF Fresh, g
<1> QED
  BY <1>7, <1>9, SMTT(30) DEF ItemsOK

\* The steps of the client keep the items of the server.
LEMMA ItemsClientStep ==
  ASSUME Types, ContextOK, ItemsOK, ClientStep \/ Calls("client") PROVE ItemsOK'
<1> SUFFICES ItemsOK'
  BY Zenon
<1>0. Leaves("server")
  BY ClientLeaves, Zenon
<1>1. ASSUME got'["client"] = got["client"], Fresh("client")' => Fresh("client"),
             closed'["client"] = closed["client"]
      PROVE  ItemsFrame
  BY <1>0, <1>1, ItemsOfClient, Zenon DEF Leaves
<1>2. ASSUME NEW s \in Sides, s = "client",
             Send(s) \/ SendStart(s) \/ SendItem(s) \/ EndSend(s) \/ Recv(s)
      PROVE  ItemsOK'
  <2>1. inbox'[s] = inbox[s] /\ closed'[s] = closed[s] /\ got' = got /\ (Fresh(s)' => Fresh(s))
    <3> DEFINE Goal == /\ inbox'[s] = inbox[s] /\ closed'[s] = closed[s] /\ got' = got
                       /\ Fresh(s)' => Fresh(s)
    <3> SUFFICES Goal
      BY SMTT(30)
    <3>1. CASE Send(s)
      BY <3>1, SendDoes, Zenon DEF Quiet, Fresh
    <3>2. CASE SendStart(s)
      BY <3>2, SendStartDoes, Zenon DEF Quiet, Wrote, Fresh, SameRecv, SameErr
    <3>3. CASE SendItem(s)
      <4>1. got' = got /\ SameRecv(s) /\ (Quiet \/ \E m, e : Wrote(s, m, e))
        BY <3>3, SendItemDoes, ZenonT(30)
      <4>2. inbox'[s] = inbox[s] /\ closed'[s] = closed[s]
        BY <4>1, Zenon DEF Quiet, Wrote
      <4>3. ~ctx[s].err
        BY <3>3, SendItemDoes, Zenon DEF ContextOK, HalfOK
      <4> QED
        BY <4>1, <4>2, <4>3, Zenon DEF Fresh, SameRecv
    <3>4. CASE EndSend(s)
      <4>1. got' = got /\ SameRecv(s) /\ ~ctx[s].err /\ (Quiet \/ \E m, e : Wrote(s, m, e))
        BY <3>4, EndSendDoes, Zenon
      <4> QED
        BY <4>1, Zenon DEF Quiet, Wrote, Fresh, SameRecv
    <3>5. CASE Recv(s)
      BY <3>5, RecvDoes, Zenon DEF Quiet, Fresh
    <3> QED
      BY <1>2, <3>1, <3>2, <3>3, <3>4, <3>5, SMTT(30)
  <2> QED
    BY <1>1, <1>2, <2>1, ItemsKeep, SMTT(30)
<1>3. ASSUME NEW s \in Sides, s = "client", RecvStart(s) PROVE ItemsOK'
  <2>1. pc[s] = "recvStart" /\ got' = got /\ Fresh(s)
    BY <1>3, RecvStartDoes, Zenon DEF ContextOK, HalfOK, Fresh
  <2>2. CASE Took(s)
    <3>1. Head(inbox[s]).kind # "StreamItem" \/ ~Fresh(s)'
      BY <1>3, RecvStartDoes, Zenon DEF Fresh
    <3>2. ItemsFrame
      BY <1>1, <1>3, <2>1, <2>2, Zenon DEF Took
    <3> QED
      BY <1>3, <2>2, <3>1, <3>2, ItemsTake, Zenon
  <2>3. CASE Quiet
    <3>1. ItemsFrame
      BY <1>1, <1>3, <2>1, <2>3, Zenon DEF Quiet
    <3> QED
      BY <2>3, <3>1, ItemsKeep, Zenon DEF Quiet
  <2> QED
    BY <1>3, <2>2, <2>3, RecvStartDoes, Zenon
<1>4. ASSUME NEW s \in Sides, s = "client", RecvItem(s) PROVE ItemsOK'
  <2>1. pc[s] = "recvItem" /\ Fresh(s)
    BY <1>4, RecvItemDoes, Zenon DEF ContextOK, HalfOK, Fresh
  <2>2. CASE /\ Took(s) /\ ~closed[s] /\ Head(inbox[s]).kind = "StreamItem"
             /\ got'[s] = Append(got[s], Head(inbox[s]).n)
    BY <1>0, <1>4, <2>1, <2>2, ItemsReceive, Zenon DEF Leaves
  <2>3. CASE Took(s) /\ got' = got /\ ~Fresh(s)'
    <3>1. ItemsFrame
      BY <1>1, <1>4, <2>1, <2>3, Zenon DEF Took
    <3> QED
      BY <1>4, <2>3, <3>1, ItemsTake, Zenon
  <2>4. CASE Quiet /\ got' = got /\ ~Fresh(s)'
    <3>1. ItemsFrame
      BY <1>1, <1>4, <2>1, <2>4, Zenon DEF Quiet
    <3> QED
      BY <2>4, <3>1, ItemsKeep, Zenon DEF Quiet
  <2> QED
    BY <1>4, <2>2, <2>3, <2>4, RecvItemDoes, Zenon DEF Fresh
<1>5. ASSUME NEW b \in BOOLEAN, CallRequest(b) PROVE ItemsOK'
  <2>1. got' = got /\ Fresh("client") /\ (Quiet \/ \E m, e : Wrote("client", m, e))
    BY <1>5, CallRequestDoes, Zenon DEF ContextOK, CallOK
  <2>2. inbox'["client"] = inbox["client"] /\ ItemsFrame
    BY <1>1, <2>1, Ends, Zenon DEF Quiet, Wrote
  <2> QED
    BY <2>2, ItemsKeep, Zenon
<1>6. CASE WasReset("client") /\ got' = got /\ UNCHANGED sends
  BY <1>0, <1>6, ItemsGone, Zenon DEF WasReset, Leaves
<1>7. CASE CallUnencodable
  <2>1. CASE Quiet
    <3>1. ItemsFrame
      BY <1>1, <1>7, <2>1, CallUnencodableDoes, Zenon DEF Quiet, Fresh
    <3> QED
      BY <2>1, <3>1, ItemsKeep, Zenon DEF Quiet
  <2> QED
    BY <1>6, <1>7, <2>1, CallUnencodableDoes, Zenon
<1>8. CASE CallCancel
  <2>1. CASE Quiet
    <3>1. ItemsFrame
      BY <1>1, <1>8, <2>1, CallCancelDoes, Zenon DEF Quiet, Fresh
    <3> QED
      BY <2>1, <3>1, ItemsKeep, Zenon DEF Quiet
  <2> QED
    BY <1>6, <1>8, <2>1, CallCancelDoes, SMTT(30)
<1>9. CASE CallStartStream
  <2>1. got' = got /\ ctx' = ctx /\ (Quiet \/ \E m, e : Wrote("client", m, e))
    BY <1>9, CallStartStreamDoes, Zenon
  <2>2. inbox'["client"] = inbox["client"] /\ ItemsFrame
    BY <1>1, <2>1, Ends, Zenon DEF Quiet, Wrote, Fresh
  <2> QED
    BY <2>2, ItemsKeep, Zenon
<1>10. CASE CallResponse
  <2>1. got' = got /\ UNCHANGED sends /\ Fresh("client")
    BY <1>10, CallResponseDoes, Zenon DEF ContextOK, CallOK
  <2>2. CASE Took("client") /\ Head(inbox["client"]).kind = "Response"
    <3>1. ItemsFrame
      BY <1>1, <2>1, <2>2, Zenon DEF Took
    <3> QED
      BY <2>2, <3>1, ItemsTake, Zenon
  <2>3. CASE Quiet
    <3>1. ItemsFrame
      BY <1>1, <2>1, <2>3, Zenon DEF Quiet
    <3> QED
      BY <2>3, <3>1, ItemsKeep, Zenon DEF Quiet
  <2> QED
    BY <1>6, <1>10, <2>1, <2>2, <2>3, CallResponseDoes, SMTT(30)
<1> QED
  BY <1>2, <1>3, <1>4, <1>5, <1>7, <1>8, <1>9, <1>10, Ends, SMTT(30) DEF ClientStep, Calls, Busy

\* The steps of the server add to its items only what Send numbers.
LEMMA ItemsServerStep ==
  ASSUME Types, ContextOK, ItemsOK, ServerStep \/ Calls("server") PROVE ItemsOK'
<1> SUFFICES ItemsOK'
  BY Zenon
<1>0. /\ ctx'["client"] = ctx["client"] /\ got'["client"] = got["client"]
      /\ closed'["client"] = closed["client"]
  BY ServerLeaves, Zenon
<1> DEFINE Sending(p) == p \in {"sendStart", "sendItem"}
<1>1. ASSUME sends'["server"] = sends["server"], Sending(pc["server"]) <=> Sending(pc'["server"]),
             ctx'["server"].sendStreamError = ctx["server"].sendStreamError,
             CanWrite("server")' => CanWrite("server")
      PROVE  ItemsFrame
  BY <1>0, <1>1, ItemsOfServer, Zenon
<1> HIDE DEF Sending
<1>2. ASSUME NEW s \in Sides, s = "server", Send(s) PROVE ItemsOK'
  <2>1. /\ Quiet /\ UNCHANGED <<ctx, got>> /\ sends'[s] = sends[s] + 1
        /\ pc[s] = "ready" /\ pc'[s] \in {"sendStart", "sendItem"} /\ sends[s] \in Nat
    BY <1>2, SendDoes, Zenon DEF Moves, Types
  <2>2. Sent' = Sent
    BY <1>2, <2>1 DEF Sent
  <2>3. ItemsFrame
    BY <1>2, <2>1, <2>2 DEF ItemsFrame, Quiet, Fresh, CanWrite
  <2> QED
    BY <2>1, <2>3, ItemsKeep, SMTT(30) DEF Quiet
<1>3. ASSUME NEW s \in Sides, s = "server", SendStart(s) PROVE ItemsOK'
  <2>1. pc[s] = "sendStart" /\ UNCHANGED <<sends, got>>
    BY <1>3, SendStartDoes, Zenon
  <2>2. CASE CanWrite(s)
    <3>1. /\ Wrote(s, Msg("StartStream", FALSE, 0), FALSE) /\ pc'[s] = "sendItem"
          /\ ctx'[s].sendStreamError = ctx[s].sendStreamError
      BY <1>3, <2>2, SendStartDoes, Zenon DEF Moves
    <3>2. ItemsFrame
      BY <1>1, <1>3, <2>1, <2>2, <3>1, Zenon DEF Sending
    <3>3. Msg("StartStream", FALSE, 0) \in Messages /\ Msg("StartStream", FALSE,
       0).kind # "StreamItem"
      BY Zenon DEF Msg, Messages, Kinds
    <3> QED
      BY <1>3, <3>1, <3>2, <3>3, ItemsAppend, Ends, ZenonT(30) DEF Wrote
  <2>3. CASE ~CanWrite(s)
    <3>1. Quiet /\ pc'[s] = "ready"
      BY <1>3, <2>3, SendStartDoes, Zenon DEF Moves
    <3> QED
      BY <1>0, <1>3, <2>1, <2>3, <3>1, ItemsSkip, Zenon
  <2> QED
    BY <2>2, <2>3, Zenon
<1>4. ASSUME NEW s \in Sides, s = "server", SendItem(s) PROVE ItemsOK'
  <2>1. pc[s] = "sendItem" /\ pc'[s] = "ready" /\ UNCHANGED <<sends, got>>
    BY <1>4, SendItemDoes, ZenonT(30) DEF Moves
  <2>2. CASE /\ CanWrite(s) /\ Wrote(s, Msg("StreamItem", FALSE, sends[s]), FALSE)
             /\ SameSend(s)
    BY <1>0, <1>4, <2>1, <2>2, ItemsSend, SMTT(30)
  <2>3. CASE Quiet /\ (ctx'[s].sendStreamError = TRUE \/ ~CanWrite(s))
    BY <1>0, <1>4, <2>1, <2>3, ItemsSkip, Zenon
  <2> QED
    BY <1>4, <2>2, <2>3, SendItemDoes, Zenon
<1>5. ASSUME NEW s \in Sides, s = "server", EndSend(s) PROVE ItemsOK'
  <2>1. UNCHANGED <<sends, got, pc>> /\ SameSend(s)
    BY <1>5, EndSendDoes, Zenon
  <2>2. CASE CanWrite(s) /\ Wrote(s, Msg("EndStream", FALSE, 0), TRUE)
    <3>1. ItemsFrame
      BY <1>1, <1>5, <2>1, <2>2, Zenon DEF SameSend
    <3>2. Msg("EndStream", FALSE, 0) \in Messages /\ Msg("EndStream", FALSE, 0).kind # "StreamItem"
      BY Zenon DEF Msg, Messages, Kinds
    <3> QED
      BY <1>5, <2>2, <3>1, <3>2, ItemsAppend, Ends, Zenon DEF Wrote
  <2>3. CASE Quiet
    <3>1. ItemsFrame
      BY <1>1, <1>5, <2>1, <2>3, SMTT(30) DEF SameSend, Quiet, CanWrite
    <3> QED
      BY <2>3, <3>1, ItemsKeep, Zenon DEF Quiet
  <2> QED
    BY <1>5, <2>2, <2>3, EndSendDoes, Zenon
<1>6. ASSUME NEW s \in Sides, s = "server", Recv(s) \/ RecvStart(s) \/ RecvItem(s) PROVE ItemsOK'
  <2>1. /\ UNCHANGED sends /\ SameSend(s) /\ (Quiet \/ Took(s))
        /\ ~Sending(pc[s]) /\ ~Sending(pc'[s])
    <3>1. CASE Recv(s)
      BY <3>1, RecvDoes, Zenon DEF Moves, Sending, SameSend
    <3>2. CASE RecvStart(s)
      BY <3>2, RecvStartDoes, Zenon DEF Moves, Sending
    <3>3. CASE RecvItem(s)
      BY <3>3, RecvItemDoes, Zenon DEF Moves, Sending
    <3> QED
      BY <1>6, <3>1, <3>2, <3>3, SMTT(30)
  <2>2. ItemsFrame
    BY <1>1, <1>6, <2>1, Zenon DEF SameSend, Quiet, Took, CanWrite
  <2> QED
    BY <1>6, <2>1, <2>2, ItemsKeep, Ends, SMTT(30) DEF Quiet, Took
<1>7. ASSUME NEW b \in BOOLEAN, NEW l \in {"ready", "done"}, SendResponse(b, l) PROVE ItemsOK'
  <2>1. /\ UNCHANGED sends /\ pc["server"] = "ready" /\ pc'["server"] = l
        /\ ctx'["server"].sendStreamError = ctx["server"].sendStreamError
    BY <1>7, SendResponseDoes, Zenon DEF Moves
  <2>2. CASE CanWrite("server") /\ Wrote("server", Msg("Response", b, 0), ~b)
    <3>1. ItemsFrame
      BY <1>1, <1>7, <2>1, <2>2, Zenon DEF Sending
    <3>2. Msg("Response", b, 0) \in Messages /\ Msg("Response", b, 0).kind # "StreamItem"
      BY Zenon DEF Msg, Messages, Kinds
    <3> QED
      BY <2>2, <3>1, <3>2, ItemsAppend, Ends, SMTT(30) DEF Wrote
  <2>3. CASE Quiet
    <3>1. ItemsFrame
      BY <1>1, <1>7, <2>1, <2>3, SMTT(30) DEF Sending, Quiet, CanWrite
    <3> QED
      BY <2>3, <3>1, ItemsKeep, Zenon DEF Quiet
  <2> QED
    BY <1>7, <2>2, <2>3, SendResponseDoes, Zenon
<1>8. CASE ServeStart
  <2>1. /\ UNCHANGED <<sends, ctx>> /\ pc["server"] = "start"
        /\ pc'["server"] \in {"request", "done"} /\ (Quiet \/ WasReset("server"))
    BY <1>8, ServeStartDoes, SMTT(30) DEF Moves
  <2>2. ItemsFrame
    BY <1>1, <2>1, SMTT(30) DEF Sending, Quiet, WasReset, CanWrite
  <2> QED
    BY <2>1, <2>2, ItemsKeep, Ends, Zenon DEF Quiet, WasReset
<1>9. CASE ServeRequest
  <2>1. /\ UNCHANGED sends /\ pc["server"] = "request" /\ pc'["server"] = "ready"
        /\ Took("server") /\ ~ctx'["server"].sendStreamError
    BY <1>9, ServeRequestDoes, SMTT(30) DEF Moves
  <2>2. ~ctx["server"].sendStreamError
    BY <2>1, SMTT(30) DEF ContextOK, ServeOK, NewCtx
  <2>3. ItemsFrame
    BY <1>0, <2>1, <2>2, ItemsOfServer, Zenon DEF Took, CanWrite
  <2> QED
    BY <2>1, <2>3, ItemsKeep, Ends, SMTT(30) DEF Took
<1>10. CASE ServeReject
  <2>1. UNCHANGED <<sends, ctx, closed>> /\ pc["server"] = "request" /\ pc'["server"] = "done"
    BY <1>10, ServeRejectDoes, Zenon DEF Moves
  <2>2. CASE Quiet
    <3>1. ItemsFrame
      BY <1>1, <2>1, <2>2, Zenon DEF Sending, Quiet, CanWrite
    <3> QED
      BY <2>2, <3>1, ItemsKeep, Zenon DEF Quiet
  <2>3. CASE /\ ended'["server"] = TRUE
             /\ inbox'["client"] = IF closed["client"] THEN inbox["client"]
                                   ELSE Append(inbox["client"], Msg("Response", FALSE, 0))
    <3>1. ItemsFrame
      BY <1>1, <2>1, <2>3, Zenon DEF Sending, CanWrite
    <3>2. Msg("Response", FALSE, 0) \in Messages /\ Msg("Response", FALSE, 0).kind # "StreamItem"
      BY Zenon DEF Msg, Messages, Kinds
    <3> QED
      BY <2>1, <2>3, <3>1, <3>2, ItemsAppend, Zenon
  <2> QED
    BY <1>10, <2>2, <2>3, ServeRejectDoes, ZenonT(30)
<1>11. CASE (HandlerReturns \/ InterceptorReturns) /\ ~SendResponse(FALSE, "done")
  <2>1. /\ UNCHANGED <<sends, ctx>> /\ pc["server"] = "ready"
        /\ pc'["server"] \in {"done", "swallowed"} /\ Quiet
    BY <1>11, ReturnDoes, Zenon DEF Moves
  <2>2. ItemsFrame
    BY <1>1, <2>1, Zenon DEF Sending, Quiet, CanWrite
  <2> QED
    BY <2>1, <2>2, ItemsKeep, Zenon DEF Quiet
<1>12. CASE HandlerFails
  <2>1. UNCHANGED <<sends, ctx>> /\ pc["server"] = "ready" /\ pc'["server"] = "failed"
    BY <1>12, HandlerFailsDoes, Zenon DEF Moves
  <2>2. CASE CanWrite("server") /\ Wrote("server", ErrorMsg, TRUE)
    <3>1. ItemsFrame
      BY <1>1, <2>1, <2>2, Zenon DEF Sending
    <3>2. ErrorMsg \in Messages /\ ErrorMsg.kind # "StreamItem"
      BY NewMessages, Zenon DEF ErrorMsg, Msg
    <3> QED
      BY <2>2, <3>1, <3>2, ItemsAppend, Ends, Zenon DEF Wrote
  <2>3. CASE Quiet
    <3>1. ItemsFrame
      BY <1>1, <2>1, <2>3, Zenon DEF Sending, Quiet, CanWrite
    <3> QED
      BY <2>3, <3>1, ItemsKeep, Zenon DEF Quiet
  <2> QED
    BY <1>12, <2>2, <2>3, HandlerFailsDoes, Zenon
<1> QED
  BY <1>2, <1>3, <1>4, <1>5, <1>6, <1>7, <1>8, <1>9, <1>10, <1>11, <1>12, Ends, ZenonT(30)
     DEF ServerStep, Calls, Busy, HandlerReturns

\* Every step keeps the items in order.
LEMMA ItemsStep ==
  ASSUME Types, ContextOK, ItemsOK, [Next]_vars PROVE ItemsOK'
<1> SUFFICES ItemsOK'
  BY Zenon
<1>1. ASSUME NEW s \in Sides, RecvReset(s) PROVE ItemsOK'
  <2>1. UNCHANGED <<ctx, pc, sends, got>>
    BY <1>1, RecvResetDoes, Zenon
  <2>2. /\ UNCHANGED ended /\ closed'[s] = TRUE /\ closed'[Peer(s)] = closed[Peer(s)]
        /\ inbox'[s] = <<>> /\ inbox'[Peer(s)] = inbox[Peer(s)]
    BY <1>1, RecvResetEffect, ZenonT(30) DEF Types
  <2>3. CASE s = "client"
    BY <2>1, <2>2, <2>3, ItemsGone, Zenon
  <2>4. CASE s = "server"
    <3>1. Sent' = Sent
      BY <2>1, SMTT(30) DEF Sent
    <3>2. ItemsFrame
      BY <2>1, <2>2, <2>4, <3>1, Ends, Zenon DEF ItemsFrame, ItemsOK, Fresh, CanWrite
    <3> QED
      BY <2>2, <2>4, <3>2, ItemsKeep, Ends, Zenon
  <2> QED
    BY <2>3, <2>4, Zenon DEF Sides
<1>2. CASE UNCHANGED vars
  <2>1. ItemsFrame
    BY <1>2, Zenon DEF ItemsFrame, ItemsOK, vars, stream, bounds, Sent, Fresh, CanWrite
  <2> QED
    BY <1>2, <2>1, ItemsKeep, SMTT(30) DEF vars, stream
<1> QED
  BY <1>1, <1>2, ItemsClientStep, ItemsServerStep, Zenon DEF Next

---------------------------------------------------------------------------
\* The messages of the client.

\* The server's queue is left alone, and so is what it has to hold.
LEMMA SendsKeep ==
  ASSUME ClientSendsOK, inbox'["server"] = inbox["server"], got'["server"] = got["server"],
         closed'["server"] = closed["server"],
         pc'["client"] # "start" \/ pc["client"] = "start",
         Opening' => Opening, Opening' /\ InCall' => InCall,
         Listens' => Listens /\ ctx'["server"].recvStreamStarted = ctx["server"].recvStreamStarted,
         Begun' => Begun, Announced' => Announced,
         pc'["client"] \in {"sendStart", "sendItem"} => ctx'["client"].hasSendStream
  PROVE  ClientSendsOK'
<1>1. Listens' => Starts(inbox["server"])'
  BY Zenon DEF ClientSendsOK, Starts
<1> QED
  BY <1>1, Zenon DEF ClientSendsOK

\* The client adds a message: an item after two StartStreams only.
LEMMA SendsAppend ==
  ASSUME Types, ClientSendsOK, Leaves("server"), NEW m \in Messages,
         inbox'["server"] = IF closed["server"] THEN inbox["server"]
                            ELSE Append(inbox["server"], m),
         InCall, pc'["client"] # "start",
         m.kind = "StreamItem" => Begun,
         Begun' => Begun \/ (m.kind = "StartStream" /\ Announced),
         Announced' => Announced \/ m.kind = "StartStream",
         pc'["client"] \in {"sendStart", "sendItem"} => ctx'["client"].hasSendStream
  PROVE  ClientSendsOK'
<1> DEFINE q == inbox["server"]
           r == Append(q, m)
<1>0. (Opening' <=> Opening) /\ (Listens' <=> Listens)
  BY Zenon DEF Leaves, Opening, Listens, Fresh
<1>1. CASE closed["server"]
  BY <1>0, <1>1, Zenon DEF ClientSendsOK, Leaves, Listens
<1>2. CASE ~closed["server"]
  <2>1. q \in Seq(Messages)
    BY Ends, Zenon DEF Types, StreamOK
  <2>2. inbox'["server"] = r /\ r # <<>>
    BY <1>2, <2>1
  <2>3. ASSUME Listens PROVE Starts(inbox["server"])'
    <3>1. Starts(q)
      BY <2>3, Zenon DEF ClientSendsOK
    <3>2. /\ One(q) => One(r)
          /\ Two(q) => Two(r)
          /\ m.kind = "StartStream" => One(r) /\ (One(q) => Two(r))
          /\ One(q) /\ OneBefore(q) => OneBefore(r)
          /\ Two(q) /\ TwoBefore(q) => TwoBefore(r)
      BY <2>1, AppendStart, Zenon
    <3>3. m.kind # "StreamItem" => (OneBefore(q) => OneBefore(r)) /\ (TwoBefore(q) => TwoBefore(r))
      BY <2>1, AppendOther, Zenon
    <3>4. ctx'["server"].recvStreamStarted = ctx["server"].recvStreamStarted
      BY Zenon DEF Leaves
    <3> HIDE DEF q, r
    <3>5. IF ctx["server"].recvStreamStarted
          THEN OneBefore(r) /\ (Begun' => One(r))
          ELSE TwoBefore(r) /\ (Begun' => Two(r)) /\ (Announced' => One(r))
      BY <3>1, <3>2, <3>3, Zenon DEF Starts
    <3> QED
      BY <2>2, <3>4, <3>5, Zenon DEF Starts
  <2>4. Opening => r[1].kind = "Request"
    <3>1. Opening => q # <<>> /\ q[1].kind = "Request"
      BY <1>2, Zenon DEF ClientSendsOK
    <3> QED
      BY <2>1, <3>1
  <2>5. Listens' => Starts(inbox["server"])'
    BY <1>0, <2>3, Zenon
  <2> HIDE DEF r
  <2> QED
    BY <1>0, <2>2, <2>4, <2>5, Zenon DEF ClientSendsOK, Leaves
<1> QED
  BY <1>1, <1>2, Zenon

\* The Request of the client.
LEMMA SendsRequest ==
  ASSUME Types, ClientSendsOK, Leaves("server"), NEW b \in BOOLEAN,
         inbox'["server"] = IF closed["server"] THEN inbox["server"]
                            ELSE Append(inbox["server"], Msg("Request", b, 0)),
         pc["client"] = "start", pc'["client"] = "cancel", ~ctx'["client"].sendStreamStarted
  PROVE  ClientSendsOK'
<1> DEFINE m == Msg("Request", b, 0)
           r == Append(<<>>, m)
<1>0. (Opening' <=> Opening) /\ (Listens' <=> Listens) /\ ~Begun' /\ ~Announced'
  BY Zenon DEF Leaves, Opening, Listens, Fresh, Begun, Announced
<1>1. CASE closed["server"]
  BY <1>0, <1>1, Zenon DEF ClientSendsOK, Leaves, Listens
<1>2. CASE ~closed["server"]
  <2>1. m \in Messages /\ m.kind = "Request"
    BY Zenon DEF Msg, Messages, Kinds
  <2>2. inbox'["server"] = r
    BY <1>2, Zenon DEF ClientSendsOK
  <2> HIDE DEF m
  <2>3. r # <<>> /\ r[1] = m /\ Len(r) = 1
    BY <2>1
  <2> HIDE DEF r
  <2>4. OneBefore(r) /\ TwoBefore(r)
    BY <2>1, <2>3 DEF OneBefore, TwoBefore, Item
  <2>5. Starts(inbox["server"])'
    BY <1>0, <2>2, <2>4, Zenon DEF Starts
  <2> QED
    BY <2>1, <2>2, <2>3, <2>5, Zenon DEF ClientSendsOK, Leaves
<1> QED
  BY <1>1, <1>2, Zenon

\* The handler's end is closed, spoilt or over: nothing is received any more.
LEMMA SendsDeaf ==
  ASSUME ClientSendsOK, got'["server"] = got["server"], ~Listens', ~Opening',
         pc'["client"] = pc["client"], pc["client"] = "start" => inbox'["server"] = <<>>,
         ctx'["client"] = ctx["client"]
  PROVE  ClientSendsOK'
BY Zenon DEF ClientSendsOK

\* The steps of the client send two StartStreams before an item.
LEMMA SendsClientStep ==
  ASSUME Types, ContextOK, ClientSendsOK, ClientStep \/ Calls("client") PROVE ClientSendsOK'
<1> SUFFICES ClientSendsOK'
  BY Zenon
<1>0. Leaves("server")
  BY ClientLeaves, Zenon
<1>1. ASSUME inbox'["server"] = inbox["server"], pc["client"] # "start", pc'["client"] # "start",
             InCall' => InCall, Begun' => Begun, Announced' => Announced,
             pc'["client"] \in {"sendStart", "sendItem"} => ctx'["client"].hasSendStream
      PROVE  ClientSendsOK'
  BY <1>0, <1>1, SendsKeep, Zenon DEF Leaves, Opening, Listens, Fresh
<1> DEFINE Added(m) == inbox'["server"] = IF closed["server"] THEN inbox["server"]
                                          ELSE Append(inbox["server"], m)
<1> HIDE DEF Added
<1>2. ASSUME NEW s \in Sides, s = "client", Send(s) PROVE ClientSendsOK'
  <2>1. /\ pc[s] = "ready" /\ Quiet /\ ctx' = ctx /\ ctx[s].hasSendStream
        /\ pc'[s] = "sendStart" \/ (pc'[s] = "sendItem" /\ ctx[s].sendStreamStarted)
    BY <1>2, SendDoes, Zenon DEF Moves
  <2> QED
    BY <1>1, <1>2, <2>1, Zenon DEF Quiet, InCall, Begun, Announced
<1>3. ASSUME NEW s \in Sides, s = "client", SendStart(s) PROVE ClientSendsOK'
  <2>1. /\ pc[s] = "sendStart" /\ ctx'[s].hasSendStream = ctx[s].hasSendStream
        /\ ctx[s].hasSendStream
    BY <1>3, SendStartDoes, Zenon DEF SameSend, ClientSendsOK
  <2>2. CASE CanWrite(s)
    <3> DEFINE m == Msg("StartStream", FALSE, 0)
    <3>1. Wrote(s, m, FALSE) /\ pc'[s] = "sendItem"
      BY <1>3, <2>2, SendStartDoes, Zenon DEF Moves
    <3>2. m \in Messages /\ m.kind = "StartStream"
      BY Zenon DEF Msg, Messages, Kinds
    <3>3. Added(m)
      BY <1>3, <3>1, Ends, Zenon DEF Wrote, Added
    <3> HIDE DEF m
    <3>4. InCall /\ Announced
      BY <1>3, <2>1, Zenon DEF InCall, Announced
    <3> QED
      BY <1>0, <1>3, <2>1, <3>1, <3>2, <3>3, <3>4, SendsAppend, SMTT(30) DEF Added
  <2>3. CASE ~CanWrite(s)
    <3>1. Quiet /\ pc'[s] = "ready" /\ SameSend(s)
      BY <1>3, <2>3, SendStartDoes, Zenon DEF Moves
    <3> QED
      BY <1>1, <1>3, <2>1, <3>1, Zenon DEF Quiet, InCall, Begun, Announced, SameSend
  <2> QED
    BY <2>2, <2>3, Zenon
<1>4. ASSUME NEW s \in Sides, s = "client", SendItem(s) PROVE ClientSendsOK'
  <2>1. /\ pc[s] = "sendItem" /\ pc'[s] = "ready"
        /\ ctx'[s].hasSendStream = ctx[s].hasSendStream
        /\ ctx'[s].sendStreamStarted = ctx[s].sendStreamStarted
    BY <1>4, SendItemDoes, Zenon DEF SameSend, Moves
  <2>2. (Begun' => Begun) /\ (Announced' => Announced) /\ InCall /\ Begun
    BY <1>4, <2>1, Zenon DEF InCall, Begun, Announced
  <2>3. CASE Wrote(s, Msg("StreamItem", FALSE, sends[s]), FALSE)
    <3> DEFINE m == Msg("StreamItem", FALSE, sends[s])
    <3>1. m \in Messages
      BY Zenon DEF Msg, Messages, Kinds, Types
    <3>2. Added(m)
      BY <1>4, <2>3, Ends, Zenon DEF Wrote, Added
    <3> HIDE DEF m
    <3> QED
      BY <1>0, <1>4, <2>1, <2>2, <3>1, <3>2, SendsAppend, SMTT(30) DEF Added
  <2>4. CASE Quiet
    BY <1>1, <1>4, <2>1, <2>2, <2>4, Zenon DEF Quiet, InCall
  <2> QED
    BY <1>4, <2>3, <2>4, SendItemDoes, Zenon
<1>5. ASSUME NEW s \in Sides, s = "client", EndSend(s) PROVE ClientSendsOK'
  <2>1. pc[s] = "ready" /\ pc' = pc /\ SameSend(s)
    BY <1>5, EndSendDoes, Zenon
  <2>2. (Begun' => Begun) /\ (Announced' => Announced) /\ InCall
    BY <1>5, <2>1, Zenon DEF InCall, Begun, Announced, SameSend
  <2>3. CASE Wrote(s, Msg("EndStream", FALSE, 0), TRUE)
    <3> DEFINE m == Msg("EndStream", FALSE, 0)
    <3>1. m \in Messages /\ m.kind # "StreamItem"
      BY Zenon DEF Msg, Messages, Kinds
    <3>2. Added(m)
      BY <1>5, <2>3, Ends, Zenon DEF Wrote, Added
    <3> HIDE DEF m
    <3> QED
      BY <1>0, <1>5, <2>1, <2>2, <3>1, <3>2, SendsAppend, SMTT(30) DEF Added
  <2>4. CASE Quiet
    BY <1>1, <1>5, <2>1, <2>2, <2>4, Zenon DEF Quiet, InCall
  <2> QED
    BY <1>5, <2>3, <2>4, EndSendDoes, Zenon
<1>6. ASSUME NEW s \in Sides, s = "client", Recv(s) \/ RecvStart(s) \/ RecvItem(s)
      PROVE  ClientSendsOK'
  <2>1. /\ SameSend(s) /\ (Quiet \/ Took(s)) /\ pc[s] \in {"ready", "recvStart", "recvItem"}
        /\ pc'[s] \in {"ready", "recvStart", "recvItem"}
    <3>1. CASE Recv(s)
      BY <3>1, RecvDoes, Zenon DEF Moves, SameSend
    <3>2. CASE RecvStart(s)
      BY <3>2, RecvStartDoes, Zenon DEF Moves
    <3>3. CASE RecvItem(s)
      BY <3>3, RecvItemDoes, Zenon DEF Moves
    <3> QED
      BY <1>6, <3>1, <3>2, <3>3, Zenon
  <2>2. inbox'["server"] = inbox["server"]
    BY <1>6, <2>1, Ends, Zenon DEF Quiet, Took
  <2> QED
    BY <1>1, <1>6, <2>1, <2>2, Zenon DEF InCall, Begun, Announced, SameSend
<1>7. ASSUME NEW b \in BOOLEAN, CallRequest(b) PROVE ClientSendsOK'
  <2>1. /\ pc["client"] = "start" /\ ~ctx'["client"].sendStreamStarted
        /\ \/ pc'["client"] = "cancel" /\ Wrote("client", Msg("Request", b, 0), ~b)
           \/ pc'["client"] = "done" /\ Quiet
    BY <1>7, CallRequestDoes, Zenon DEF Moves
  <2>2. CASE pc'["client"] = "cancel" /\ Wrote("client", Msg("Request", b, 0), ~b)
    BY <1>0, <1>7, <2>1, <2>2, SendsRequest, Ends, Zenon DEF Wrote
  <2>3. CASE pc'["client"] = "done" /\ Quiet
    BY <1>0, <2>1, <2>3, SendsKeep, Zenon
       DEF Quiet, Leaves, InCall, Begun, Announced, Opening, Listens, Fresh
  <2> QED
    BY <2>1, <2>2, <2>3, Zenon
<1>8. CASE CallUnencodable
  <2>1. /\ pc["client"] = "start" /\ pc'["client"] = "done" /\ ctx' = ctx
        /\ Quiet \/ WasReset("client")
    BY <1>8, CallUnencodableDoes, Zenon DEF Moves
  <2>2. inbox'["server"] = inbox["server"]
    BY <2>1, Ends, Zenon DEF Quiet, WasReset
  <2> QED
    BY <1>0, <2>1, <2>2, SendsKeep, Zenon
       DEF Leaves, InCall, Begun, Announced, Opening, Listens, Fresh
<1>9. CASE CallCancel
  <2>1. /\ pc["client"] = "cancel" /\ ctx' = ctx /\ (Quiet \/ WasReset("client"))
        /\ \/ pc'["client"] \in {"done", "startStream"}
           \/ pc'["client"] = "response" /\ ~ctx["client"].hasSendStream
    BY <1>9, CallCancelDoes, Zenon DEF Moves
  <2>2. inbox'["server"] = inbox["server"]
    BY <2>1, Ends, Zenon DEF Quiet, WasReset
  <2> QED
    BY <1>1, <2>1, <2>2, Zenon DEF InCall, Begun, Announced
<1>10. CASE CallStartStream
  <2>1. pc["client"] = "startStream" /\ ctx' = ctx
    BY <1>10, CallStartStreamDoes, Zenon
  <2>2. CASE pc'["client"] = "response" /\ Wrote("client", Msg("StartStream", FALSE, 0), FALSE)
    <3> DEFINE m == Msg("StartStream", FALSE, 0)
    <3>1. m \in Messages /\ m.kind = "StartStream"
      BY Zenon DEF Msg, Messages, Kinds
    <3>2. Added(m)
      BY <2>2, Ends, Zenon DEF Wrote, Added
    <3> HIDE DEF m
    <3>3. InCall /\ (Begun' => Begun)
      BY <2>1, <2>2, Zenon DEF InCall, Begun
    <3> QED
      BY <1>0, <2>1, <2>2, <3>1, <3>2, <3>3, SendsAppend, SMTT(30) DEF Added
  <2>3. CASE pc'["client"] = "done" /\ Quiet
    BY <1>1, <2>1, <2>3, Zenon DEF Quiet, InCall, Begun, Announced
  <2> QED
    BY <1>10, <2>2, <2>3, CallStartStreamDoes, Zenon DEF Moves
<1>11. CASE CallResponse
  <2>1. /\ pc["client"] = "response" /\ (Quiet \/ WasReset("client") \/ Took("client"))
        /\ \/ pc'["client"] = "done" /\ ctx' = ctx
           \/ /\ pc'["client"] = "ready" /\ ~ctx'["client"].sendStreamStarted
              /\ ctx'["client"].hasSendStream = ctx["client"].hasSendStream
    BY <1>11, CallResponseDoes, Zenon DEF Moves
  <2>2. inbox'["server"] = inbox["server"]
    BY <2>1, Ends, Zenon DEF Quiet, WasReset, Took
  <2> QED
    BY <1>1, <2>1, <2>2, Zenon DEF InCall, Begun, Announced
<1> QED
  BY <1>2, <1>3, <1>4, <1>5, <1>6, <1>7, <1>8, <1>9, <1>10, <1>11, Ends, SMTT(30)
     DEF ClientStep, Calls, Busy

\* The steps of the server take one StartStream and no item.
LEMMA SendsServerStep ==
  ASSUME Types, ContextOK, ClientSendsOK, ServerStep \/ Calls("server") PROVE ClientSendsOK'
<1> SUFFICES ClientSendsOK'
  BY Zenon
<1>0. pc'["client"] = pc["client"] /\ ctx'["client"] = ctx["client"]
  BY ServerLeaves, Zenon
<1>1. /\ (InCall' <=> InCall) /\ (Begun' <=> Begun) /\ (Announced' <=> Announced)
      /\ pc'["client"] \in {"sendStart", "sendItem"} => ctx'["client"].hasSendStream
  BY <1>0, Zenon DEF InCall, Begun, Announced, ClientSendsOK
<1>2. ASSUME inbox'["server"] = inbox["server"], got'["server"] = got["server"],
             closed'["server"] = closed["server"], Opening' => Opening,
             Listens' => Listens,
             Listens' => ctx'["server"].recvStreamStarted = ctx["server"].recvStreamStarted
      PROVE  ClientSendsOK'
  BY <1>0, <1>1, <1>2, SendsKeep, SMTT(30)
<1>3. ASSUME got'["server"] = got["server"], ~Listens', ~Opening',
             inbox["server"] = <<>> => inbox'["server"] = <<>>
      PROVE  ClientSendsOK'
  BY <1>0, <1>3, SendsDeaf, SMTT(30) DEF ClientSendsOK
<1>4. ASSUME NEW s \in Sides, s = "server",
             Send(s) \/ SendStart(s) \/ SendItem(s) \/ EndSend(s) \/ Recv(s)
      PROVE  ClientSendsOK'
  <2>1. /\ inbox'[s] = inbox[s] /\ closed'[s] = closed[s] /\ got' = got /\ SameRecv(s)
        /\ ctx'[s].err = TRUE \/ ~ctx[s].err
        /\ pc[s] \notin {"start", "request", "done", "failed", "swallowed"}
        /\ pc'[s] \notin {"start", "request"}
    <3> DEFINE Goal ==
                 /\ inbox'[s] = inbox[s] /\ closed'[s] = closed[s] /\ got' = got /\ SameRecv(s)
                 /\ ctx'[s].err = TRUE \/ ~ctx[s].err
                 /\ pc[s] \notin {"start", "request", "done", "failed", "swallowed"}
                 /\ pc'[s] \notin {"start", "request"}
    <3> SUFFICES Goal
      BY Zenon
    <3>1. CASE Send(s)
      BY <3>1, SendDoes, Zenon DEF Quiet, SameRecv, Moves
    <3>2. CASE SendStart(s)
      <4>1. /\ got' = got /\ SameRecv(s) /\ pc[s] = "sendStart"
            /\ pc'[s] \in {"ready", "sendItem"} /\ (Quiet \/ \E m, e : Wrote(s, m, e))
        BY <3>2, SendStartDoes, Zenon DEF Moves
      <4>2. inbox'[s] = inbox[s] /\ closed'[s] = closed[s] /\ ~ctx[s].err
        BY <4>1, Zenon DEF Quiet, Wrote, ContextOK, HalfOK
      <4> QED
        BY <4>1, <4>2, Zenon
    <3>3. CASE SendItem(s)
      <4>1. /\ got' = got /\ SameRecv(s) /\ pc[s] = "sendItem" /\ pc'[s] = "ready"
            /\ Quiet \/ \E m, e : Wrote(s, m, e)
        BY <3>3, SendItemDoes, Zenon DEF Moves
      <4>2. inbox'[s] = inbox[s] /\ closed'[s] = closed[s] /\ ~ctx[s].err
        BY <4>1, Zenon DEF Quiet, Wrote, ContextOK, HalfOK
      <4> QED
        BY <4>1, <4>2, Zenon
    <3>4. CASE EndSend(s)
      <4>1. /\ got' = got /\ SameRecv(s) /\ pc[s] = "ready" /\ pc' = pc /\ ~ctx[s].err
            /\ Quiet \/ \E m, e : Wrote(s, m, e)
        BY <3>4, EndSendDoes, Zenon
      <4>2. inbox'[s] = inbox[s] /\ closed'[s] = closed[s]
        BY <4>1, Zenon DEF Quiet, Wrote
      <4> QED
        BY <4>1, <4>2, Zenon
    <3>5. CASE Recv(s)
      BY <3>5, RecvDoes, SMTT(30) DEF Quiet, SameRecv, Moves
    <3> QED
      BY <1>4, <3>1, <3>2, <3>3, <3>4, <3>5, ZenonT(30)
  <2>2. ~Opening' /\ (Listens' => Listens)
    BY <1>4, <2>1, Zenon DEF Opening, Listens, Fresh, SameRecv
  <2> QED
    BY <1>2, <1>4, <2>1, <2>2, Zenon DEF SameRecv
<1>5. ASSUME NEW s \in Sides, s = "server", RecvStart(s) PROVE ClientSendsOK'
  <2>1. got' = got /\ pc[s] = "recvStart" /\ Fresh(s) /\ ~ctx[s].recvStreamStarted
    BY <1>5, RecvStartDoes, Zenon DEF ContextOK, HalfOK, Fresh
  <2>2. CASE /\ Took(s) /\ ~closed[s] /\ Head(inbox[s]).kind = "StartStream"
             /\ pc'[s] = "recvItem" /\ ctx'[s].recvStreamStarted
    <3> DEFINE q == inbox["server"]
    <3>1. q \in Seq(Messages) /\ q # <<>> /\ inbox'["server"] = Tail(q)
          /\ Head(q).kind = "StartStream" /\ Listens /\ Starts(q)
      BY <1>5, <2>1, <2>2, Zenon DEF Took, Listens, ClientSendsOK
    <3>2. (Two(q) => One(Tail(q))) /\ (TwoBefore(q) => OneBefore(Tail(q)))
      BY <3>1, TailStart, SMTT(30)
    <3>3. Starts(inbox["server"])'
      BY <1>1, <1>5, <2>1, <2>2, <3>1, <3>2, SMTT(30) DEF Starts
    <3>4. ~Opening' /\ pc["client"] # "start"
      BY <1>5, <2>2, <3>1, Zenon DEF Opening, ClientSendsOK
    <3> QED
      BY <1>0, <1>1, <2>1, <3>3, <3>4, SMTT(30) DEF ClientSendsOK
  <2>3. CASE (Took(s) \/ Quiet) /\ pc'[s] = "ready" /\ ctx'[s].err
    <3>1. ~Listens' /\ ~Opening'
      BY <1>5, <2>3, Zenon DEF Listens, Opening, Fresh
    <3>2. inbox["server"] = <<>> => inbox'["server"] = <<>>
      BY <1>5, <2>3, Zenon DEF Took, Quiet
    <3> QED
      BY <1>3, <2>1, <3>1, <3>2, Zenon
  <2> QED
    BY <1>5, <2>2, <2>3, RecvStartDoes, Zenon DEF Moves
<1>6. ASSUME NEW s \in Sides, s = "server", RecvItem(s) PROVE ClientSendsOK'
  <2>1. pc[s] = "recvItem" /\ pc'[s] = "ready" /\ Fresh(s) /\ ctx[s].recvStreamStarted
    BY <1>6, RecvItemDoes, Zenon DEF ContextOK, HalfOK, Fresh, Moves
  <2>2. ~(Took(s) /\ ~closed[s] /\ Head(inbox[s]).kind = "StreamItem")
    <3> SUFFICES ASSUME Took(s), ~closed[s] PROVE Head(inbox[s]).kind # "StreamItem"
      BY Zenon
    <3> DEFINE q == inbox["server"]
    <3>1. q \in Seq(Messages) /\ q # <<>> /\ Listens /\ Starts(q)
      BY <1>6, <2>1, Zenon DEF Took, Listens, ClientSendsOK
    <3>2. OneBefore(q)
      BY <1>6, <2>1, <3>1, Zenon DEF Starts
    <3> QED
      BY <1>6, <3>1, <3>2, TailStart, Zenon
  <2>3. (Took(s) \/ Quiet) /\ got' = got /\ ~Fresh(s)'
    BY <1>6, <2>2, RecvItemDoes, Zenon DEF Fresh
  <2>4. ~Listens' /\ ~Opening'
    BY <1>6, <2>1, <2>3, Zenon DEF Listens, Opening
  <2>5. inbox["server"] = <<>> => inbox'["server"] = <<>>
    BY <1>6, <2>3, Zenon DEF Took, Quiet
  <2> QED
    BY <1>3, <2>3, <2>4, <2>5, Zenon
<1>7. ASSUME NEW b \in BOOLEAN, NEW l \in {"ready", "done"}, SendResponse(b, l)
      PROVE  ClientSendsOK'
  <2>1. /\ got' = got /\ pc["server"] = "ready" /\ pc'["server"] = l
        /\ SameRecv("server") /\ SameErr("server")
        /\ Quiet \/ \E m, e : Wrote("server", m, e)
    BY <1>7, SendResponseDoes, Zenon DEF Moves
  <2>2. inbox'["server"] = inbox["server"] /\ closed' = closed
    BY <2>1, Zenon DEF Quiet, Wrote
  <2>3. ~Opening' /\ (Listens' => Listens)
    BY <1>7, <2>1, <2>2, Zenon DEF Opening, Listens, Fresh, SameRecv, SameErr
  <2> QED
    BY <1>2, <2>1, <2>2, <2>3, Zenon DEF SameRecv
<1>8. CASE ServeStart
  <2>1. got' = got /\ ctx' = ctx /\ pc["server"] = "start"
    BY <1>8, ServeStartDoes, Zenon
  <2>2. CASE Quiet /\ pc'["server"] \in {"request", "done"}
    BY <1>2, <2>1, <2>2, Zenon DEF Quiet, Opening, Listens, Fresh
  <2>3. CASE WasReset("server") /\ pc'["server"] = "done"
    BY <1>3, <2>1, <2>3, Zenon DEF WasReset, Listens, Opening
  <2> QED
    BY <1>8, <2>2, <2>3, ServeStartDoes, Zenon DEF Moves
<1>9. CASE ServeRequest
  <2>1. /\ got' = got /\ pc["server"] = "request" /\ pc'["server"] = "ready"
        /\ Took("server") /\ ~closed["server"] /\ ~ctx'["server"].recvStreamStarted
    BY <1>9, ServeRequestDoes, Zenon DEF Moves
  <2> DEFINE q == inbox["server"]
  <2>2. ~ctx["server"].recvStreamStarted /\ Fresh("server")
    BY <2>1 DEF ContextOK, ServeOK, NewCtx, Fresh
  <2>3. /\ q \in Seq(Messages) /\ q # <<>> /\ inbox'["server"] = Tail(q)
        /\ q[1].kind = "Request" /\ Starts(q) /\ pc["client"] # "start"
    BY <2>1, <2>2, Zenon DEF Took, Listens, Opening, ClientSendsOK
  <2>4. Head(q).kind # "StartStream"
    BY <2>3, TailAt, Zenon
  <2>5. /\ One(q) => One(Tail(q))
        /\ Two(q) => Two(Tail(q))
        /\ TwoBefore(q) => TwoBefore(Tail(q))
    BY <2>3, <2>4, TailStart, SMTT(30)
  <2>6. Starts(inbox["server"])'
    BY <1>1, <2>1, <2>2, <2>3, <2>5, Zenon DEF Starts
  <2>7. ~Opening'
    BY <2>1, Zenon DEF Opening
  <2> QED
    BY <1>0, <1>1, <2>1, <2>3, <2>6, <2>7, SMTT(30) DEF ClientSendsOK
<1>10. CASE ServeReject
  <2>1. got' = got /\ pc'["server"] = "done" /\ (inbox["server"] # <<>> \/ Quiet)
    BY <1>10, ServeRejectDoes, Zenon DEF Moves
  <2> QED
    BY <1>3, <2>1, Zenon DEF Quiet, Listens, Opening
<1>11. CASE (HandlerReturns \/ InterceptorReturns) /\ ~SendResponse(FALSE, "done")
  <2>1. got' = got /\ Quiet /\ pc'["server"] \in {"done", "swallowed"}
    BY <1>11, ReturnDoes, Zenon DEF Moves
  <2> QED
    BY <1>3, <2>1, Zenon DEF Quiet, Listens, Opening
<1>12. CASE HandlerFails
  <2>1. got' = got /\ pc'["server"] = "failed" /\ (Quiet \/ \E m, e : Wrote("server", m, e))
    BY <1>12, HandlerFailsDoes, Zenon DEF Moves
  <2> QED
    BY <1>3, <2>1, Zenon DEF Quiet, Wrote, Listens, Opening
<1> QED
  BY <1>4, <1>5, <1>6, <1>7, <1>8, <1>9, <1>10, <1>11, <1>12, Ends, ZenonT(30)
     DEF ServerStep, Calls, Busy, HandlerReturns

\* Every step keeps the order of the client's messages.
LEMMA SendsStep ==
  ASSUME Types, ContextOK, ClientSendsOK, [Next]_vars PROVE ClientSendsOK'
<1> SUFFICES ClientSendsOK'
  BY Zenon
<1>1. ASSUME NEW s \in Sides, RecvReset(s) PROVE ClientSendsOK'
  <2>1. UNCHANGED <<ctx, pc, got>>
    BY <1>1, RecvResetDoes, Zenon
  <2>2. /\ closed'[s] = TRUE /\ closed'[Peer(s)] = closed[Peer(s)]
        /\ inbox'[s] = <<>> /\ inbox'[Peer(s)] = inbox[Peer(s)]
    BY <1>1, RecvResetEffect, ZenonT(30) DEF Types
  <2>3. CASE s = "client"
    BY <2>1, <2>2, <2>3, SendsKeep, Ends, SMTT(30)
       DEF Opening, InCall, Listens, Fresh, Begun, Announced, ClientSendsOK
  <2>4. CASE s = "server"
    BY <2>1, <2>2, <2>4, SMTT(30) DEF ClientSendsOK, Listens
  <2> QED
    BY <2>3, <2>4, Zenon DEF Sides
<1>2. CASE UNCHANGED vars
  BY <1>2, SendsKeep, Zenon
     DEF vars, stream, Opening, InCall, Listens, Fresh, Begun, Announced, ClientSendsOK
<1> QED
  BY <1>1, <1>2, SendsClientStep, SendsServerStep, Zenon DEF Next

---------------------------------------------------------------------------
\* The end of the stream.

\* What a step of the other end leaves alone.
Kept(t) ==
  /\ pc'[t] = pc[t] /\ ctx'[t] = ctx[t] /\ ended'[t] = ended[t] /\ closed'[t] = closed[t]

\* The end that takes a step does not come back from where it reads nothing.
GoesOn(s) == (Past(s) => Past(s)') /\ (pc[s] = "done" => pc'[s] = "done")

\* The other end is where it was.
LEMMA KeptPast ==
  ASSUME NEW t \in Sides, Kept(t) PROVE Past(t)' <=> Past(t)
BY Zenon DEF Kept, Past, Fresh

\* The last message stays the last one until it is taken.
LEMMA LastMessage ==
  ASSUME NEW q \in Seq(Messages), NEW m \in Messages
  PROVE  /\ LastTerminal(Append(q, m)) <=> Terminal(m)
         /\ q # <<>> /\ LastTerminal(q) => LastTerminal(Tail(q)) \/ Terminal(Head(q))
<1>1. LastTerminal(Append(q, m)) <=> Terminal(m)
  <2>1. Append(q, m) # <<>> /\ Append(q, m)[Len(Append(q, m))] = m
    OBVIOUS
  <2> QED
    BY <2>1, Zenon DEF LastTerminal
<1>2. ASSUME q # <<>>, LastTerminal(q) PROVE LastTerminal(Tail(q)) \/ Terminal(Head(q))
  <2>1. CASE Tail(q) = <<>>
    <3>1. Len(q) = 1 /\ Head(q) = q[1]
      <4>1. Len(Tail(q)) = 0
        <5>1. \A r \in Seq(Messages) : r = <<>> => Len(r) = 0
          OBVIOUS
        <5>2. Tail(q) \in Seq(Messages)
          BY <1>2, TailAt, Zenon
        <5> QED
          BY <2>1, <5>1, <5>2, Zenon
      <4>2. Len(q) \in Nat /\ Len(Tail(q)) = Len(q) - 1 /\ Head(q) = q[1]
        BY <1>2, TailAt
      <4> QED
        BY <4>1, <4>2
    <3> QED
      BY <1>2, <3>1, Zenon DEF LastTerminal
  <2>2. CASE Tail(q) # <<>>
    <3>1. Tail(q)[Len(Tail(q))] = q[Len(q)]
      BY <1>2, <2>2
    <3> QED
      BY <1>2, <2>2, <3>1, Zenon DEF LastTerminal
  <2> QED
    BY <2>1, <2>2, Zenon
<1> QED
  BY <1>1, <1>2, Zenon

\* A step that leaves the stream alone.
LEMMA EndQuiet ==
  ASSUME EndOK, NEW s \in Sides, Quiet, Kept(Peer(s)), GoesOn(s) PROVE EndOK'
<1>1. ResetOK(s) /\ LastOK(s) /\ ResetOK(Peer(s)) /\ LastOK(Peer(s))
  BY Ends, Zenon DEF EndOK
<1>2. Past(Peer(s))' <=> Past(Peer(s))
  BY KeptPast, Ends, SMTT(30)
<1>3. ResetOK(s)' /\ LastOK(s)'
  BY <1>1, SMTT(30) DEF ResetOK, LastOK, GoesOn, Quiet
<1>4. ResetOK(Peer(s))' /\ LastOK(Peer(s))'
  BY <1>1, <1>2, Zenon DEF ResetOK, LastOK, Quiet, Kept
<1> QED
  BY <1>3, <1>4, Ends DEF EndOK

\* A message goes out, with END_STREAM if it is the last one.
LEMMA EndWrote ==
  ASSUME Types, EndOK, NEW s \in Sides, NEW m \in Messages, NEW e \in BOOLEAN,
         CanWrite(s), Wrote(s, m, e), e => Terminal(m), Kept(Peer(s)), GoesOn(s)
  PROVE  EndOK'
<1> USE Ends
<1>1. ResetOK(s) /\ LastOK(s) /\ ResetOK(Peer(s)) /\ LastOK(Peer(s))
  BY SMTT(30) DEF EndOK
<1>2. ResetOK(s)' /\ LastOK(s)'
  BY <1>1, Zenon DEF ResetOK, LastOK, GoesOn, Wrote
<1>3. ResetOK(Peer(s))'
  BY <1>1, ZenonT(30) DEF ResetOK, Wrote, Kept, CanWrite
<1>4. LastOK(Peer(s))'
  <2> SUFFICES ASSUME ended'[Peer(Peer(s))], ~closed'[Peer(s)]
               PROVE  LastTerminal(inbox'[Peer(s)])
    BY SMTT(30) DEF LastOK
  <2>1. e /\ inbox'[Peer(s)] = Append(inbox[Peer(s)], m)
    BY Zenon DEF Wrote
  <2>2. inbox[Peer(s)] \in Seq(Messages)
    BY Zenon DEF Types, StreamOK
  <2> QED
    BY <2>1, <2>2, LastMessage
<1> QED
  BY <1>2, <1>3, <1>4, SMTT(30) DEF EndOK

\* A message is taken; after the last one nothing is read.
LEMMA EndTook ==
  ASSUME Types, EndOK, NEW s \in Sides, Took(s), ~closed[s], Kept(Peer(s)), GoesOn(s),
         Past(s)' \/ ~Terminal(Head(inbox[s]))
  PROVE  EndOK'
<1> USE Ends
<1>1. ResetOK(s) /\ LastOK(s) /\ ResetOK(Peer(s)) /\ LastOK(Peer(s))
  BY SMTT(30) DEF EndOK
<1>2. ResetOK(s)'
  BY <1>1, SMTT(30) DEF ResetOK, GoesOn, Took
<1>3. LastOK(s)'
  <2> SUFFICES ASSUME ended'[Peer(s)], ~Past(s)' PROVE LastTerminal(inbox'[s])
    BY SMTT(30) DEF LastOK
  <2>1. LastTerminal(inbox[s]) /\ inbox'[s] = Tail(inbox[s]) /\ inbox[s] # <<>>
    BY <1>1, SMTT(30) DEF LastOK, Took, GoesOn
  <2>2. inbox[s] \in Seq(Messages) /\ Head(inbox[s]) \in Messages
    BY Zenon DEF Took
  <2> QED
    BY <2>1, <2>2, LastMessage
<1>4. Past(Peer(s))' <=> Past(Peer(s))
  BY KeptPast, Zenon
<1>5. ResetOK(Peer(s))' /\ LastOK(Peer(s))'
  BY <1>1, <1>4, Zenon DEF ResetOK, LastOK, Took, Kept
<1> QED
  BY <1>2, <1>3, <1>5 DEF EndOK

\* An end that is done resets the stream.
LEMMA EndReset ==
  ASSUME EndOK, NEW s \in Sides, CanWrite(s), WasReset(s), Kept(Peer(s)), pc'[s] = "done"
  PROVE  EndOK'
<1> USE Ends
<1>1. ResetOK(s) /\ LastOK(s) /\ ResetOK(Peer(s)) /\ LastOK(Peer(s))
  BY SMTT(30) DEF EndOK
<1>2. ResetOK(s)' /\ LastOK(s)'
  BY <1>1, Zenon DEF ResetOK, LastOK, WasReset
<1>3. Past(Peer(s))' <=> Past(Peer(s))
  BY KeptPast, SMTT(30)
<1>4. ResetOK(Peer(s))' /\ LastOK(Peer(s))'
  BY <1>1, <1>3, Zenon DEF ResetOK, LastOK, WasReset, Kept, CanWrite
<1> QED
  BY <1>2, <1>4, Zenon DEF EndOK

\* The calls on the Context of either end.
LEMMA EndCallsStep ==
  ASSUME Types, ContextOK, EndOK, NEW s \in Sides, Calls(s) \/ Busy(s) PROVE EndOK'
<1> SUFFICES EndOK'
  BY Zenon
<1>0. Kept(Peer(s)) /\ HalfOK(s)
  BY CallsLeave, ZenonT(30) DEF Leaves, Kept, ContextOK
<1>1. CASE Send(s)
  <2>1. Quiet /\ ctx' = ctx /\ pc[s] = "ready" /\ pc'[s] \in {"sendStart", "sendItem"}
    BY <1>1, SendDoes, SMTT(30) DEF Moves
  <2>2. GoesOn(s)
    BY <2>1, Zenon DEF GoesOn, Past, Fresh
  <2> QED
    BY <1>0, <2>1, <2>2, EndQuiet, ZenonT(30)
<1>2. CASE SendStart(s)
  <2>1. pc[s] = "sendStart" /\ pc'[s] \in {"sendItem", "ready"} /\ SameRecv(s)
    BY <1>2, SendStartDoes, Zenon DEF Moves
  <2>2. GoesOn(s)
    BY <1>0, <2>1, Zenon DEF GoesOn, Past, Fresh, HalfOK, SameRecv
  <2>3. Msg("StartStream", FALSE, 0) \in Messages
    BY Zenon DEF Msg, Messages, Kinds
  <2>4. Quiet \/ (CanWrite(s) /\ Wrote(s, Msg("StartStream", FALSE, 0), FALSE))
    BY <1>2, SendStartDoes, Zenon
  <2> QED
    BY <1>0, <2>2, <2>3, <2>4, EndQuiet, EndWrote, Zenon
<1>3. CASE SendItem(s)
  <2>1. pc[s] = "sendItem" /\ pc'[s] = "ready" /\ SameRecv(s)
    BY <1>3, SendItemDoes, ZenonT(30) DEF Moves
  <2>2. GoesOn(s)
    BY <1>0, <2>1, Zenon DEF GoesOn, Past, Fresh, HalfOK, SameRecv
  <2>3. Msg("StreamItem", FALSE, sends[s]) \in Messages
    BY Zenon DEF Msg, Messages, Kinds, Types
  <2>4. Quiet \/ (CanWrite(s) /\ Wrote(s, Msg("StreamItem", FALSE, sends[s]), FALSE))
    BY <1>3, SendItemDoes, Zenon
  <2> QED
    BY <1>0, <2>2, <2>3, <2>4, EndQuiet, EndWrote, Zenon
<1>4. CASE EndSend(s)
  <2>1. pc[s] = "ready" /\ pc' = pc /\ SameRecv(s) /\ ~ctx[s].err
    BY <1>4, EndSendDoes, Zenon
  <2>2. GoesOn(s)
    BY <2>1, Zenon DEF GoesOn, Past, Fresh, SameRecv
  <2>3. Msg("EndStream", FALSE, 0) \in Messages /\ Terminal(Msg("EndStream", FALSE, 0))
    BY Zenon DEF Msg, Messages, Kinds, Terminal
  <2>4. Quiet \/ (CanWrite(s) /\ Wrote(s, Msg("EndStream", FALSE, 0), TRUE))
    BY <1>4, EndSendDoes, ZenonT(30)
  <2> QED
    BY <1>0, <2>2, <2>3, <2>4, EndQuiet, EndWrote, ZenonT(30)
<1>5. CASE Recv(s)
  <2>1. /\ Quiet /\ pc[s] = "ready" /\ ~ctx[s].err /\ ctx[s].hasRecvStream
        /\ ~ctx[s].recvStreamError
    BY <1>5, RecvDoes, Zenon
  <2>2. GoesOn(s)
    BY <2>1, Zenon DEF GoesOn, Past, Fresh
  <2> QED
    BY <1>0, <2>1, <2>2, EndQuiet, SMTT(30)
<1>6. CASE RecvStart(s)
  <2>1. GoesOn(s)
    BY <1>6, RecvStartDoes, Zenon DEF GoesOn, Past
  <2>2. CASE Took(s) /\ ~closed[s]
    <3>1. Past(s)' \/ ~Terminal(Head(inbox[s]))
      BY <1>6, RecvStartDoes, ZenonT(30) DEF Past, Fresh, Moves, Terminal
    <3> QED
      BY <1>0, <2>1, <2>2, <3>1, EndTook, Zenon
  <2>3. CASE Quiet
    BY <1>0, <2>1, <2>3, EndQuiet, SMTT(30)
  <2>4. Took(s) => ~closed[s]
    BY Zenon DEF Took, Types, StreamOK
  <2> QED
    BY <1>6, <2>2, <2>3, <2>4, RecvStartDoes, Zenon
<1>7. CASE RecvItem(s)
  <2>1. GoesOn(s)
    BY <1>7, RecvItemDoes, ZenonT(30) DEF GoesOn, Past
  <2>2. CASE Took(s) /\ ~closed[s]
    <3>1. Past(s)' \/ ~Terminal(Head(inbox[s]))
      BY <1>7, RecvItemDoes, ZenonT(30) DEF Past, Fresh, Moves, Terminal
    <3> QED
      BY <1>0, <2>1, <2>2, <3>1, EndTook, Zenon
  <2>3. CASE Quiet
    BY <1>0, <2>1, <2>3, EndQuiet, Zenon
  <2>4. Took(s) => ~closed[s]
    BY Zenon DEF Took, Types, StreamOK
  <2> QED
    BY <1>7, <2>2, <2>3, <2>4, RecvItemDoes, ZenonT(30)
<1> QED
  BY <1>1, <1>2, <1>3, <1>4, <1>5, <1>6, <1>7, SMTT(30) DEF Calls, Busy

\* The steps of Call.
LEMMA EndClientStep ==
  ASSUME Types, ContextOK, EndOK, ClientStep \/ Calls("client") PROVE EndOK'
<1> SUFFICES EndOK'
  BY Zenon
<1> USE Ends
<1>0. Kept("server") /\ Kept(Peer("client"))
  BY ClientLeaves, Zenon DEF Leaves, Kept
<1>1. CASE Calls("client") \/ Busy("client")
  BY <1>1, EndCallsStep, Zenon
<1>2. CASE Quiet /\ GoesOn("client")
  BY <1>0, <1>2, EndQuiet, Zenon
<1>3. CASE CanWrite("client") /\ WasReset("client") /\ pc'["client"] = "done"
  BY <1>0, <1>3, EndReset, Zenon
<1>4. ASSUME NEW b \in BOOLEAN, CallRequest(b) PROVE EndOK'
  <2> DEFINE m == Msg("Request", b, 0)
             e == ~b
  <2>1. m \in Messages /\ e \in BOOLEAN /\ (e => Terminal(m))
    BY Zenon DEF Msg, Messages, Kinds, Terminal
  <2>2. pc["client"] = "start" /\ (Quiet \/ (CanWrite("client") /\ Wrote("client", m, e)))
    BY <1>4, CallRequestDoes, Zenon
  <2>3. GoesOn("client")
    BY <2>2, Zenon DEF GoesOn, Past
  <2> HIDE DEF m, e
  <2> QED
    BY <1>0, <1>2, <2>1, <2>2, <2>3, EndWrote, SMTT(30)
<1>5. CASE CallUnencodable
  <2>1. GoesOn("client") /\ pc'["client"] = "done"
    BY <1>5, CallUnencodableDoes, SMTT(30) DEF GoesOn, Past, Moves
  <2> QED
    BY <1>2, <1>3, <1>5, <2>1, CallUnencodableDoes, SMTT(30)
<1>6. CASE CallCancel
  <2>1. GoesOn("client")
    BY <1>6, CallCancelDoes, Zenon DEF GoesOn, Past, Moves
  <2> QED
    BY <1>2, <1>3, <1>6, <2>1, CallCancelDoes, SMTT(30) DEF Moves
<1>7. CASE CallStartStream
  <2> DEFINE m == Msg("StartStream", FALSE, 0)
  <2>1. m \in Messages
    BY Zenon DEF Msg, Messages, Kinds
  <2>2. /\ pc["client"] = "startStream"
        /\ Quiet \/ (CanWrite("client") /\ Wrote("client", m, FALSE))
    BY <1>7, CallStartStreamDoes, Zenon
  <2>3. GoesOn("client")
    BY <2>2, SMTT(30) DEF GoesOn, Past
  <2> HIDE DEF m
  <2> QED
    BY <1>0, <1>2, <2>1, <2>2, <2>3, EndWrote, Zenon
<1>8. CASE CallResponse
  <2>1. GoesOn("client")
    BY <1>8, CallResponseDoes, Zenon DEF GoesOn, Past
  <2>2. CASE /\ Took("client") /\ ~closed["client"] /\ Head(inbox["client"]).kind = "Response"
             /\ pc'["client"] = "ready"
             /\ ctx'["client"].hasRecvStream = Head(inbox["client"]).streaming
    <3>1. Past("client")' \/ ~Terminal(Head(inbox["client"]))
      BY <2>2, Zenon DEF Past, Terminal
    <3> QED
      BY <1>0, <2>1, <2>2, <3>1, EndTook, SMTT(30)
  <2> QED
    BY <1>2, <1>3, <1>8, <2>1, <2>2, CallResponseDoes, SMTT(30) DEF Moves
<1> QED
  BY <1>1, <1>4, <1>5, <1>6, <1>7, <1>8, SMTT(30) DEF ClientStep

\* The steps of ServiceStream and of the handler.
LEMMA EndServerStep ==
  ASSUME Types, ContextOK, ClientSendsOK, EndOK, ServerStep \/ Calls("server") PROVE EndOK'
<1> SUFFICES EndOK'
  BY Zenon
<1> USE Ends
<1>0. Kept("client") /\ Kept(Peer("server"))
  BY ServerLeaves, Zenon DEF Kept
<1>1. CASE Calls("server") \/ Busy("server")
  BY <1>1, EndCallsStep, Zenon
<1>2. CASE Quiet /\ GoesOn("server")
  BY <1>0, <1>2, EndQuiet, Zenon
<1>3. ASSUME NEW b \in BOOLEAN, NEW l \in {"ready", "done"}, SendResponse(b, l) PROVE EndOK'
  <2> DEFINE m == Msg("Response", b, 0)
             e == ~b
  <2>1. m \in Messages /\ e \in BOOLEAN /\ (e => Terminal(m))
    BY Zenon DEF Msg, Messages, Kinds, Terminal
  <2>2. /\ pc["server"] = "ready" /\ pc'["server"] = l
        /\ SameRecv("server") /\ SameErr("server")
        /\ Quiet \/ (CanWrite("server") /\ Wrote("server", m, e))
    BY <1>3, SendResponseDoes, ZenonT(30) DEF Moves
  <2>3. GoesOn("server")
    BY <1>3, <2>2, Zenon DEF GoesOn, Past, Fresh, SameRecv, SameErr
  <2> HIDE DEF m, e
  <2> QED
    BY <1>0, <1>2, <2>1, <2>2, <2>3, EndWrote, SMTT(30)
<1>4. CASE ServeStart
  <2>1. GoesOn("server")
    BY <1>4, ServeStartDoes, SMTT(30) DEF GoesOn, Past
  <2> QED
    BY <1>0, <1>2, <1>4, <2>1, ServeStartDoes, EndReset, SMTT(30) DEF Moves
<1>5. CASE ServeRequest
  <2>1. /\ pc["server"] = "request" /\ pc'["server"] = "ready"
        /\ Took("server") /\ ~closed["server"]
        /\ ctx'["server"].hasRecvStream = Head(inbox["server"]).streaming
    BY <1>5, ServeRequestDoes, Zenon DEF Moves
  <2>2. Head(inbox["server"]).kind = "Request"
    <3>1. inbox["server"] \in Seq(Messages) /\ inbox["server"] # <<>>
      BY <2>1, Zenon DEF Took
    <3>2. inbox["server"][1].kind = "Request"
      BY <2>1, <3>1, Zenon DEF ClientSendsOK, Opening
    <3> QED
      BY <3>1, <3>2, TailAt, SMTT(30)
  <2>3. GoesOn("server")
    BY <2>1, Zenon DEF GoesOn, Past
  <2>4. Past("server")' \/ ~Terminal(Head(inbox["server"]))
    BY <2>1, <2>2, Zenon DEF Past, Terminal
  <2> QED
    BY <1>0, <2>1, <2>3, <2>4, EndTook, SMTT(30)
<1>6. CASE ServeReject
  <2>1. pc["server"] = "request" /\ pc'["server"] = "done" /\ UNCHANGED <<closed, rst>>
    BY <1>6, ServeRejectDoes, Zenon DEF Moves
  <2>2. CASE Quiet
    BY <1>2, <2>1, <2>2, Zenon DEF GoesOn, Past
  <2>3. CASE /\ ~closed["server"] /\ ended'["server"] = TRUE
             /\ inbox'["client"] = IF closed["client"] THEN inbox["client"]
                                   ELSE Append(inbox["client"], Msg("Response", FALSE, 0))
    <3>1. ResetOK("client") /\ ResetOK("server")
      BY Zenon DEF EndOK
    <3>2. ResetOK("server")' /\ LastOK("server")'
      BY <1>0, <2>1, <3>1, SMTT(30) DEF ResetOK, LastOK, Past, Kept
    <3>3. ResetOK("client")'
      BY <1>0, <2>1, <2>3, <3>1, Zenon DEF ResetOK, Kept
    <3>4. LastOK("client")'
      <4> DEFINE m == Msg("Response", FALSE, 0)
      <4>1. m \in Messages /\ Terminal(m)
        BY Zenon DEF Msg, Messages, Kinds, Terminal
      <4>2. inbox["client"] \in Seq(Messages)
        BY Zenon DEF Types, StreamOK
      <4>3. ~closed["client"] => inbox'["client"] = Append(inbox["client"], m)
        BY <2>3, Zenon
      <4> HIDE DEF m
      <4>4. ~closed["client"] => LastTerminal(inbox'["client"])
        BY <4>1, <4>2, <4>3, LastMessage, Zenon
      <4> QED
        BY <2>1, <4>4, Zenon DEF LastOK
    <3> QED
      BY <3>2, <3>3, <3>4, Zenon DEF EndOK, Sides
  <2> QED
    BY <1>6, <2>2, <2>3, ServeRejectDoes, ZenonT(30)
<1>7. CASE (HandlerReturns \/ InterceptorReturns) /\ ~SendResponse(FALSE, "done")
  <2>1. Quiet /\ GoesOn("server")
    BY <1>7, ReturnDoes, Zenon DEF GoesOn, Past, Moves
  <2> QED
    BY <1>2, <2>1, Zenon
<1>8. CASE HandlerFails
  <2>1. /\ pc["server"] = "ready" /\ pc'["server"] = "failed" /\ ErrorMsg \in Messages
        /\ Quiet \/ (CanWrite("server") /\ Wrote("server", ErrorMsg, TRUE))
    BY <1>8, HandlerFailsDoes, Zenon DEF Moves
  <2>2. GoesOn("server") /\ Terminal(ErrorMsg)
    BY <2>1, Zenon DEF GoesOn, Past, Terminal, ErrorMsg, Msg
  <2> QED
    BY <1>0, <1>2, <2>1, <2>2, EndWrote, Zenon
<1> QED
  BY <1>1, <1>3, <1>4, <1>5, <1>6, <1>7, <1>8, ZenonT(30) DEF ServerStep, HandlerReturns

\* Every step keeps the end of the stream readable.
LEMMA EndStep ==
  ASSUME Types, ContextOK, ClientSendsOK, EndOK, [Next]_vars PROVE EndOK'
<1> SUFFICES EndOK'
  BY Zenon
<1>1. ASSUME NEW s \in Sides, RecvReset(s) PROVE EndOK'
  <2> USE Ends
  <2>1. UNCHANGED <<ctx, pc, ended>>
    BY <1>1, RecvResetDoes, RecvResetEffect, Zenon DEF Types
  <2>2. /\ rst[s] /\ rst'[s] = FALSE /\ rst'[Peer(s)] = rst[Peer(s)]
        /\ closed'[s] = TRUE /\ closed'[Peer(s)] = closed[Peer(s)]
        /\ inbox'[Peer(s)] = inbox[Peer(s)]
    BY <1>1, RecvResetEffect, Zenon DEF Types
  <2>3. ResetOK(s) /\ LastOK(s) /\ ResetOK(Peer(s)) /\ LastOK(Peer(s))
    BY SMTT(30) DEF EndOK
  <2>4. ResetOK(s)' /\ LastOK(s)'
    BY <2>1, <2>2, <2>3, SMTT(30) DEF ResetOK, LastOK
  <2>5. ResetOK(Peer(s))' /\ LastOK(Peer(s))'
    BY <2>1, <2>2, <2>3, SMTT(30) DEF ResetOK, LastOK, Past, Fresh
  <2> QED
    BY <2>4, <2>5 DEF EndOK
<1>2. CASE UNCHANGED vars
  BY <1>2, Zenon DEF vars, stream, EndOK, ResetOK, LastOK, Past, Fresh
<1> QED
  BY <1>1, <1>2, EndClientStep, EndServerStep, Zenon DEF Next

---------------------------------------------------------------------------
\* Every action keeps the types.
LEMMA TypesStep ==
  ASSUME Types, [Next]_vars PROVE Types'
<1>1. ASSUME NEW s \in Sides, RecvReset(s) PROVE Types'
  BY <1>1, RecvResetDoes, SMTT(30)
<1>2. CASE UNCHANGED vars
  BY <1>2, Zenon DEF Types, StreamOK, vars, stream, bounds
<1> QED
  BY <1>1, <1>2, ClientLeaves, ServerLeaves, Zenon DEF Next

\* IInv is inductive.
THEOREM Inductive == Spec => []IInv
<1>1. IInv /\ [Next]_vars => IInv'
  BY TypesStep, ContextStep, ItemsStep, SendsStep, ResponseStep, EndStep, CancelStep,
     SMTT(30) DEF IInv
<1> QED
  BY InitIInv, <1>1, PTL DEF Spec

\* Whatever the handler does and however often, the first message of the
\* server is the Response that client.Call waits for, and Recv returns the
\* items of the peer's Send calls in order and without a gap.
THEOREM ItemsInOrder == Spec => []MessagesInOrder
<1>1. IInv => MessagesInOrder
  <2> SUFFICES ASSUME IInv PROVE MessagesInOrder
    BY Zenon
  <2>1. first["server"] \in {"none", "Response"}
    BY Zenon DEF IInv, ResponseOK
  <2>2. \A i \in 1 .. Len(got["client"]) : got["client"][i] = i
    BY Zenon DEF IInv, ItemsOK
  <2>3. \A i \in 1 .. Len(got["server"]) : got["server"][i] = i
    BY DEF IInv, ClientSendsOK
  <2> QED
    BY <2>1, <2>2, <2>3, Zenon DEF MessagesInOrder, Sides
<1> QED
  BY <1>1, Inductive, PTL

\* No item a client sends reaches the handler: the StartStream of Call is
\* followed by that of the first Send, which Recv refuses.
THEOREM ClientItemsNeverArrive == Spec => []ClientItemsRefused
<1>1. IInv => ClientItemsRefused
  BY Zenon DEF IInv, ClientSendsOK, ClientItemsRefused
<1> QED
  BY <1>1, Inductive, PTL

\* No end ever waits for a message after the last one: a Read that
\* MessageFromReader blocks in has something to wait for.
THEOREM ReadsEndInTime == Spec => []NoReadPastEnd
<1>1. IInv => NoReadPastEnd
  <2> SUFFICES ASSUME IInv, NEW s \in Sides, Reading(s), inbox[s] = <<>>, ended[Peer(s)]
               PROVE  FALSE
    BY Zenon DEF NoReadPastEnd
  <2>1. ResetOK(s) /\ LastOK(s)
    BY Zenon DEF IInv, EndOK
  <2>2. pc[s] # "done" /\ ~Past(s) /\ ~LastTerminal(inbox[s])
    BY Zenon DEF Reading, Past, LastTerminal
  <2> QED
    BY <2>1, <2>2, Zenon DEF ResetOK, LastOK
<1> QED
  BY <1>1, Inductive, PTL

\* The Reset of a cancelled unary Call never goes out: no RESET_STREAM is
\* under way to the server, and the server's end is closed only by a
\* ServiceStream that failed to make an id.
UnaryCancelRefused ==
  call = "nil" /\ ~ctx["client"].hasSendStream =>
    ~rst["server"] /\ (closed["server"] => pc["server"] = "done")

\* A cancelled call that is not streaming is served to the end: END_STREAM
\* went out with its Request, so that the Reset of cancelErr is refused.
THEOREM UnaryCancelIsRefused == Spec => []UnaryCancelRefused
<1>1. IInv => UnaryCancelRefused
  <2> SUFFICES ASSUME IInv, call = "nil", ~ctx["client"].hasSendStream
               PROVE  ~rst["server"] /\ (closed["server"] => pc["server"] = "done")
    BY Zenon DEF UnaryCancelRefused
  <2>1. ended["client"]
    BY Zenon DEF IInv, CancelOK
  <2>2. ResetOK("server") /\ Peer("server") = "client"
    BY Ends, Zenon DEF IInv, EndOK
  <2> QED
    BY <2>1, <2>2, Zenon DEF ResetOK
<1> QED
  BY <1>1, Inductive, PTL
=============================================================================

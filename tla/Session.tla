------------------------------ MODULE Session -------------------------------
(***************************************************************************)
(* One call of the RPC layer: client.Call and the Context it returns       *)
(* (client.go, context.go) against srv.ServiceStream, a handler and its    *)
(* Context (server.go, context.go).  The handler and the client's          *)
(* application make any calls on their Context, in any order; a call that  *)
(* a Context refuses changes nothing and is no step.                       *)
(*                                                                         *)
(* The stream below is reduced to what Stream shows of it without its      *)
(* races: messages arrive in order, a Write or Reset is refused once this  *)
(* end has sent END_STREAM or was reset, and a reset discards what is not  *)
(* read yet.  A message is its kind, with the streaming flag of a Request  *)
(* or Response and the number of an item.  Every message fits one frame.   *)
(* The parameters of a Request and an item may be values that proto cannot *)
(* encode; what the library itself makes up can be encoded.                *)
(***************************************************************************)
EXTENDS Naturals, Sequences

CONSTANTS
  Streaming,   \* whether a Request may have the streaming flag
  MaxOps,      \* bound on the Send and on the Recv calls of each end
  MaxResponses,  \* bound on the SendResponse calls of the handler
  MayCancel    \* whether the context given to Call may be cancelled

Sides == {"client", "server"}
Peer(s) == IF s = "client" THEN "server" ELSE "client"

ASSUME SessionAssumption ==
  /\ Streaming \in BOOLEAN /\ MayCancel \in BOOLEAN /\ MaxOps \in Nat
  /\ MaxResponses \in Nat

VARIABLES
  inbox,            \* messages each end has received and not read
  ended, closed,    \* each end sent END_STREAM; it was reset
  rst,              \* a RESET_STREAM is under way to each end
  ctx,              \* each end's ctx: the fields that steer it
  pc,
  call,             \* what Call returned
  sends, recvs, responses,  \* counters of the bounds
  got,              \* items each end received (history)
  first             \* kind of the first message each end wrote (history)

stream == <<inbox, ended, closed, rst>>
bounds == <<sends, recvs, responses>>
vars == <<stream, ctx, pc, call, bounds, got, first>>

Msg(kind, streaming, n) == [kind |-> kind, streaming |-> streaming, n |-> n]

NewCtx(hasRecv, hasSend) ==
  [hasRecvStream |-> hasRecv, recvStreamStarted |-> FALSE, recvStreamError |-> FALSE,
   hasSendStream |-> hasSend, sendStreamStarted |-> FALSE, sendStreamError |-> FALSE,
   hasSentResponse |-> FALSE, err |-> FALSE]

Init ==
  /\ inbox = [s \in Sides |-> <<>>]
  /\ ended = [s \in Sides |-> FALSE]
  /\ closed = [s \in Sides |-> FALSE]
  /\ rst = [s \in Sides |-> FALSE]
  /\ ctx = [s \in Sides |-> NewCtx(FALSE, FALSE)]
  /\ pc = [s \in Sides |-> "start"]
  /\ call = "none"
  /\ sends = [s \in Sides |-> 0] /\ recvs = [s \in Sides |-> 0]
  /\ responses = 0
  /\ got = [s \in Sides |-> <<>>]
  /\ first = [s \in Sides |-> "none"]

Goto(s, l) == pc' = [pc EXCEPT ![s] = l]
Set(s, c) == ctx' = [ctx EXCEPT ![s] = c]

---------------------------------------------------------------------------
\* The stream, as the two ends use it.

CanWrite(s) == ~ended[s] /\ ~closed[s]

WriteDropsWhenFull(s, m, endStream) ==
  /\ inbox' = IF closed[Peer(s)] \/ Len(inbox[Peer(s)]) > 1 THEN inbox
              ELSE [inbox EXCEPT ![Peer(s)] = Append(@, m)]
  /\ ended' = [ended EXCEPT ![s] = endStream]
  /\ first' = [first EXCEPT ![s] = IF @ = "none" THEN m.kind ELSE @]
  /\ UNCHANGED <<closed, rst>>

\* str.Write of a message.  What reaches a stream that was reset is lost.
Write(s, m, endStream) ==
  /\ inbox' = IF closed[Peer(s)] THEN inbox ELSE [inbox EXCEPT ![Peer(s)] = Append(@, m)]
  /\ ended' = [ended EXCEPT ![s] = endStream]
  /\ first' = [first EXCEPT ![s] = IF @ = "none" THEN m.kind ELSE @]
  /\ UNCHANGED <<closed, rst>>

\* A message, or nothing where the stream refuses it.
WriteOrNot(s, m, endStream) ==
  IF CanWrite(s) THEN Write(s, m, endStream) ELSE UNCHANGED <<stream, first>>

ResetLocalOnly(s) ==
  IF CanWrite(s)
  THEN /\ closed' = [closed EXCEPT ![s] = TRUE]
       /\ inbox' = [inbox EXCEPT ![s] = <<>>]
       /\ UNCHANGED <<ended, rst>>
  ELSE UNCHANGED stream

\* str.Reset, which is refused like a Write.
Reset(s) ==
  IF CanWrite(s)
  THEN /\ closed' = [closed EXCEPT ![s] = TRUE]
       /\ inbox' = [inbox EXCEPT ![s] = <<>>]
       /\ rst' = [rst EXCEPT ![Peer(s)] = TRUE]
       /\ UNCHANGED ended
  ELSE UNCHANGED stream

\* The read loop handles a RESET_STREAM.
RecvReset(s) ==
  /\ rst[s]
  /\ rst' = [rst EXCEPT ![s] = FALSE]
  /\ closed' = [closed EXCEPT ![s] = TRUE]
  /\ inbox' = [inbox EXCEPT ![s] = <<>>]
  /\ UNCHANGED <<ended, ctx, pc, call, bounds, got, first>>

\* MessageFromReader takes the next message, or fails on a reset stream.
ReadMsg(s) ==
  /\ inbox[s] # <<>>
  /\ inbox' = [inbox EXCEPT ![s] = Tail(@)]
  /\ UNCHANGED <<ended, closed, rst>>
ReadFails(s) == closed[s] /\ UNCHANGED stream

---------------------------------------------------------------------------
\* Context: Send, EndSend and Recv, for either end.

Usable(s) == pc[s] = "ready" /\ ~ctx[s].err

\* Send writes StartStream before the first item.
Send(s) ==
  /\ Usable(s) /\ ctx[s].hasSendStream /\ ~ctx[s].sendStreamError
  /\ sends[s] < MaxOps
  /\ sends' = [sends EXCEPT ![s] = @ + 1]
  /\ Goto(s, IF ctx[s].sendStreamStarted THEN "sendItem" ELSE "sendStart")
  /\ UNCHANGED <<stream, ctx, call, recvs, responses, got, first>>

SendStart(s) ==
  /\ pc[s] = "sendStart"
  /\ WriteOrNot(s, Msg("StartStream", FALSE, 0), FALSE)
  /\ IF CanWrite(s)
     THEN Set(s, [ctx[s] EXCEPT !.sendStreamStarted = TRUE]) /\ Goto(s, "sendItem")
     ELSE Set(s, [ctx[s] EXCEPT !.err = TRUE]) /\ Goto(s, "ready")
  /\ UNCHANGED <<call, bounds, got>>

\* An item that cannot be encoded fails the sending half: no other item and
\* no EndStream can follow.
SendItem(s) ==
  /\ pc[s] = "sendItem"
  /\ \/ /\ WriteOrNot(s, Msg("StreamItem", FALSE, sends[s]), FALSE)
        /\ Set(s, [ctx[s] EXCEPT !.err = ~CanWrite(s)])
     \/ /\ Set(s, [ctx[s] EXCEPT !.sendStreamError = TRUE])
        /\ UNCHANGED <<stream, first>>
  /\ Goto(s, "ready")
  /\ UNCHANGED <<call, bounds, got>>

\* EndSend writes EndStream, whether or not a StartStream came before it.
EndSend(s) ==
  /\ Usable(s) /\ ctx[s].hasSendStream /\ ~ctx[s].sendStreamError
  /\ WriteOrNot(s, Msg("EndStream", FALSE, 0), TRUE)
  /\ Set(s, [ctx[s] EXCEPT !.err = ~CanWrite(s)])
  /\ UNCHANGED <<pc, call, bounds, got>>

Recv(s) ==
  /\ Usable(s) /\ ctx[s].hasRecvStream /\ ~ctx[s].recvStreamError
  /\ recvs[s] < MaxOps
  /\ recvs' = [recvs EXCEPT ![s] = @ + 1]
  /\ Goto(s, IF ctx[s].recvStreamStarted THEN "recvItem" ELSE "recvStart")
  /\ UNCHANGED <<stream, ctx, call, sends, responses, got, first>>

\* Before the first item Recv wants a StartStream.
RecvStart(s) ==
  /\ pc[s] = "recvStart"
  /\ \/ /\ ReadMsg(s) /\ Head(inbox[s]).kind = "StartStream"
        /\ Set(s, [ctx[s] EXCEPT !.recvStreamStarted = TRUE])
        /\ Goto(s, "recvItem")
     \/ /\ \/ ReadMsg(s) /\ Head(inbox[s]).kind # "StartStream"
           \/ ReadFails(s)
        /\ Set(s, [ctx[s] EXCEPT !.err = TRUE])
        /\ Goto(s, "ready")
  /\ UNCHANGED <<call, bounds, got, first>>

RecvEndForgotten(s) ==
  /\ ReadMsg(s) /\ Head(inbox[s]).kind \in {"EndStream", "StreamError"}
  /\ UNCHANGED <<ctx, got>>

\* EndStream and StreamError end the stream for good.
RecvEnd(s) ==
  /\ ReadMsg(s) /\ Head(inbox[s]).kind \in {"EndStream", "StreamError"}
  /\ Set(s, [ctx[s] EXCEPT !.recvStreamError = TRUE])
  /\ UNCHANGED got

\* An item is returned; any other message is a failure of the Context.
\* (No code of the library writes a StreamMetadata.)
RecvItem(s) ==
  /\ pc[s] = "recvItem"
  /\ \/ /\ ReadMsg(s) /\ Head(inbox[s]).kind = "StreamItem"
        /\ got' = [got EXCEPT ![s] = Append(@, Head(inbox[s]).n)]
        /\ UNCHANGED ctx
     \/ RecvEnd(s)
     \/ /\ \/ ReadMsg(s) /\ Head(inbox[s]).kind \in {"StartStream", "Request", "Response"}
           \/ ReadFails(s)
        /\ Set(s, [ctx[s] EXCEPT !.err = TRUE])
        /\ UNCHANGED got
  /\ Goto(s, "ready")
  /\ UNCHANGED <<call, bounds, first>>

---------------------------------------------------------------------------
\* client.Call

\* Go on at l; c is what Call has returned.
CallGoes(l, c) == Goto("client", l) /\ call' = c

\* The Request; a failed Write makes CloseLocal fail as well.
CallRequest(streaming) ==
  /\ pc["client"] = "start"
  /\ WriteOrNot("client", Msg("Request", streaming, 0), ~streaming)
  /\ IF CanWrite("client") THEN CallGoes("cancel", "none") ELSE CallGoes("done", "err")
  /\ Set("client", NewCtx(FALSE, streaming))
  /\ UNCHANGED <<bounds, got>>

\* The Request cannot be encoded: cancelErr.
CallUnencodable ==
  /\ pc["client"] = "start"
  /\ Reset("client")
  /\ CallGoes("done", "err")
  /\ UNCHANGED <<ctx, bounds, got, first>>

\* A context cancelled by now resets the stream, which is refused when the
\* Request ended it, and Call returns neither a Context nor an error.
CallCancel ==
  /\ pc["client"] = "cancel"
  /\ \/ /\ Goto("client", IF ctx["client"].hasSendStream THEN "startStream" ELSE "response")
        /\ UNCHANGED <<stream, call>>
     \/ /\ MayCancel
        /\ Reset("client")
        /\ CallGoes("done", "nil")
  /\ UNCHANGED <<ctx, bounds, got, first>>

\* The StartStream of a streaming Request.
CallStartStream ==
  /\ pc["client"] = "startStream"
  /\ WriteOrNot("client", Msg("StartStream", FALSE, 0), FALSE)
  /\ IF CanWrite("client") THEN CallGoes("response", "none") ELSE CallGoes("done", "err")
  /\ UNCHANGED <<ctx, bounds, got>>

CallContextStarted(streaming) ==
  [NewCtx(streaming, ctx["client"].hasSendStream)
     EXCEPT !.sendStreamStarted = ctx["client"].hasSendStream]

\* The Context that Call returns does not know of the StartStream Call wrote.
CallContext(streaming) == NewCtx(streaming, ctx["client"].hasSendStream)

\* The Response; a message of another kind resets the stream.
CallResponse ==
  /\ pc["client"] = "response"
  /\ \/ /\ inbox["client"] # <<>>
        /\ IF Head(inbox["client"]).kind = "Response"
           THEN /\ ReadMsg("client")
                /\ Set("client", CallContext(Head(inbox["client"]).streaming))
                /\ CallGoes("ready", "ctx")
           ELSE Reset("client") /\ CallGoes("done", "err") /\ UNCHANGED ctx
     \/ ReadFails("client") /\ CallGoes("done", "err") /\ UNCHANGED ctx
  /\ UNCHANGED <<bounds, got, first>>

---------------------------------------------------------------------------
\* srv.ServiceStream

\* The id generator may fail.
ServeStart ==
  /\ pc["server"] = "start"
  /\ \/ Goto("server", "request") /\ UNCHANGED stream
     \/ Goto("server", "done") /\ Reset("server")
  /\ UNCHANGED <<ctx, call, bounds, got, first>>

\* The Request names a method the server has: the handler is invoked, through
\* the interceptors.
ServeRequest ==
  /\ pc["server"] = "request"
  /\ ReadMsg("server")
  /\ Set("server", NewCtx(Head(inbox["server"]).streaming, FALSE))
  /\ Goto("server", "ready")
  /\ UNCHANGED <<call, bounds, got, first>>

ServeRejectSilently ==
  /\ pc["server"] = "request"
  /\ inbox["server"] # <<>> \/ closed["server"]
  /\ Goto("server", "done")
  /\ UNCHANGED <<stream, ctx, call, bounds, got, first>>

\* It does not, or it does not parse.
ServeReject ==
  /\ pc["server"] = "request"
  /\ IF inbox["server"] # <<>>
     THEN /\ inbox' = [inbox EXCEPT !["server"] = Tail(@),
                                    !["client"] = IF closed["client"] THEN @
                                                  ELSE Append(@, Msg("Response", FALSE, 0))]
          /\ ended' = [ended EXCEPT !["server"] = TRUE]
          /\ first' = [first EXCEPT !["server"] = "Response"]
     ELSE closed["server"] /\ UNCHANGED <<inbox, ended, first>>
  /\ Goto("server", "done")
  /\ UNCHANGED <<closed, rst, ctx, call, bounds, got>>

\* ctx.SendResponse: its Write may be refused after the fields are set.
\* Nothing keeps the handler from calling it again.
SendResponse(streaming, l) ==
  /\ pc["server"] = "ready" /\ responses < MaxResponses
  /\ responses' = responses + 1
  /\ Set("server", [ctx["server"] EXCEPT !.hasSentResponse = TRUE,
                                         !.hasSendStream = streaming,
                                         !.sendStreamStarted = FALSE])
  /\ WriteOrNot("server", Msg("Response", streaming, 0), ~streaming)
  /\ Goto("server", l)
  /\ UNCHANGED <<call, sends, recvs, got>>

\* The handler returns nil: guardInvoke responds if the handler did not.
HandlerReturns ==
  \/ ~ctx["server"].hasSentResponse /\ SendResponse(FALSE, "done")
  \/ /\ pc["server"] = "ready" /\ ctx["server"].hasSentResponse
     /\ Goto("server", "done")
     /\ UNCHANGED <<stream, ctx, call, bounds, got, first>>

\* An interceptor returns nil without having called the next one: nobody
\* responds in its place.
InterceptorReturns ==
  /\ pc["server"] = "ready" /\ ~ctx["server"].hasSentResponse
  /\ Goto("server", "swallowed")
  /\ UNCHANGED <<stream, ctx, call, bounds, got, first>>

\* emitError: a StreamError or, when no item was sent, a Response, even if it
\* is the second one.
ErrorMsg ==
  Msg(IF ctx["server"].sendStreamStarted THEN "StreamError" ELSE "Response", FALSE, 0)

HandlerFailsOnlyBeforeSend ==
  /\ pc["server"] = "ready"
  /\ Goto("server", "failed")
  /\ IF ctx["server"].sendStreamStarted THEN UNCHANGED <<stream, first>>
     ELSE WriteOrNot("server", ErrorMsg, TRUE)
  /\ UNCHANGED <<ctx, call, bounds, got>>

\* The handler, or an interceptor, returns an error.
HandlerFails ==
  /\ pc["server"] = "ready"
  /\ Goto("server", "failed")
  /\ WriteOrNot("server", ErrorMsg, TRUE)
  /\ UNCHANGED <<ctx, call, bounds, got>>

---------------------------------------------------------------------------
\* An end inside one of its own steps, or reading.
Busy(s) == SendStart(s) \/ SendItem(s) \/ RecvStart(s) \/ RecvItem(s)
Calls(s) == Send(s) \/ EndSend(s) \/ Recv(s)

ClientStep ==
  \/ \E b \in BOOLEAN : (b => Streaming) /\ CallRequest(b)
  \/ CallUnencodable \/ CallCancel \/ CallStartStream \/ CallResponse
  \/ Busy("client")
ServerStep ==
  \/ ServeStart \/ ServeRequest \/ ServeReject
  \/ \E b \in BOOLEAN : SendResponse(b, "ready")
  \/ HandlerReturns \/ HandlerFails \/ InterceptorReturns
  \/ Busy("server")

Next ==
  \/ ClientStep \/ Calls("client")
  \/ ServerStep \/ Calls("server")
  \/ \E s \in Sides : RecvReset(s)

Spec == Init /\ [][Next]_vars

\* Goroutines run and frames arrive; a handler that is neither sending nor
\* receiving eventually responds or returns.  The application of the client
\* need not use its Context.
Fairness ==
  /\ WF_vars(ClientStep)
  /\ WF_vars(ServerStep)
  /\ \A s \in Sides : WF_vars(RecvReset(s))

FairSpec == Spec /\ Fairness

---------------------------------------------------------------------------
Kinds == {"Request", "Response", "StartStream", "StreamItem", "EndStream", "StreamError"}

TypeOK ==
  /\ inbox \in [Sides -> Seq([kind : Kinds, streaming : BOOLEAN, n : Nat])]
  /\ ended \in [Sides -> BOOLEAN] /\ closed \in [Sides -> BOOLEAN]
  /\ rst \in [Sides -> BOOLEAN]
  /\ ctx \in [Sides -> [hasRecvStream : BOOLEAN, recvStreamStarted : BOOLEAN,
                        recvStreamError : BOOLEAN, hasSendStream : BOOLEAN,
                        sendStreamStarted : BOOLEAN, sendStreamError : BOOLEAN,
                        hasSentResponse : BOOLEAN, err : BOOLEAN]]
  /\ pc \in [Sides -> {"start", "cancel", "startStream", "response", "request", "ready",
                       "sendStart", "sendItem", "recvStart", "recvItem", "done", "failed",
                       "swallowed"}]
  /\ call \in {"none", "ctx", "err", "nil"}
  /\ sends \in [Sides -> Nat] /\ recvs \in [Sides -> 0 .. MaxOps]
  /\ responses \in 0 .. MaxResponses
  /\ got \in [Sides -> Seq(Nat)]
  /\ first \in [Sides -> Kinds \cup {"none"}]

\* Whatever the handler does, the first message of the server is the Response
\* that client.Call waits for, and Recv returns the items of the peer's Send
\* calls in order and without a gap, up to where the stream failed or ended.
MessagesInOrder ==
  /\ first["server"] \in {"none", "Response"}
  /\ \A s \in Sides : \A i \in 1 .. Len(got[s]) : got[s][i] = i

Reading(s) == pc[s] \in {"request", "response", "recvStart", "recvItem"}

\* No end ever waits for a message after the last one: the peer sent
\* END_STREAM and everything it sent is read.  (Such a Read may never return.)
NoReadPastEnd == \A s \in Sides : Reading(s) /\ inbox[s] = <<>> => ~ended[Peer(s)]

\* No item a client sends reaches the handler: the StartStream of Call is
\* followed by that of the first Send, which Recv refuses.
ClientItemsRefused == got["server"] = <<>>

HandlerWaits == pc["server"] \in {"recvStart", "recvItem"} /\ inbox["server"] = <<>>

\* The handler waits in Recv for items of a client that is still in Call.
CallStuck ==
  /\ pc["client"] = "response" /\ inbox["client"] = <<>>
  /\ HandlerWaits /\ ~ctx["server"].hasSentResponse

\* An interceptor took the Request and nobody responded.
Swallowed == pc["server"] = "swallowed"

\* Call returns, unless the handler receives before it responds or an
\* interceptor keeps the Request to itself.
CallEnds == pc["client"] = "response" ~> (pc["client"] # "response" \/ CallStuck \/ Swallowed)

\* The handler returned nil with its stream still open, after a response that
\* announced one; after an item that cannot be encoded it has no choice.
Unended == pc["server"] = "done" /\ ~ended["server"] /\ ctx["server"].hasSendStream

\* Recv of the client returns, unless the handler returned without EndSend
\* or is itself waiting for the client.
RecvEnds ==
  pc["client"] \in {"recvStart", "recvItem"} ~>
    \/ pc["client"] \notin {"recvStart", "recvItem"}
    \/ Unended
    \/ HandlerWaits

\* A cancelled Call that is not streaming is served to the end: END_STREAM
\* went out with its Request, so that the Reset of cancelErr is refused.  One
\* that streams resets the server's end.
CancelReachesStreamingOnly ==
  /\ [](call = "nil" /\ ~ctx["client"].hasSendStream =>
          ~rst["server"] /\ (closed["server"] => pc["server"] = "done"))
  /\ call = "nil" /\ ctx["client"].hasSendStream ~> closed["server"]
=============================================================================

--------------------------- MODULE SessionEffects ---------------------------
(***************************************************************************)
(* The inductive invariant of a session, what it says of a queue of        *)
(* messages, and what every step of Call, of ServiceStream and of the      *)
(* calls on a Context does to the state it is about.                       *)
(***************************************************************************)
EXTENDS Session, TLAPS

Messages == [kind : Kinds, streaming : BOOLEAN, n : Nat]

---------------------------------------------------------------------------
\* What a queue of messages says of the items in it.

Item(q, i) == q[i].kind = "StreamItem"
Start(q, i) == q[i].kind = "StartStream"

\* The items of q go on from g, in order and without a gap.
InOrder(q, g) ==
  /\ \A i, j \in 1 .. Len(q) : i < j /\ Item(q, i) /\ Item(q, j) => q[i].n < q[j].n
  /\ \A j \in 1 .. Len(q) : Item(q, j) =>
       q[j].n = g + 1 \/ \E i \in 1 .. Len(q) : i < j /\ Item(q, i) /\ q[i].n + 1 = q[j].n
\* None is above w.
UpTo(q, w) == \A i \in 1 .. Len(q) : Item(q, i) => q[i].n <= w
\* With what is received, up to g, they reach w.
Reaches(q, g, w) == w = g \/ \E i \in 1 .. Len(q) : Item(q, i) /\ q[i].n = w

\* One StartStream, two of them; before every item.
One(q) == \E i \in 1 .. Len(q) : Start(q, i)
Two(q) == \E i, k \in 1 .. Len(q) : i < k /\ Start(q, i) /\ Start(q, k)
OneBefore(q) ==
  \A j \in 1 .. Len(q) : Item(q, j) => \E i \in 1 .. Len(q) : i < j /\ Start(q, i)
TwoBefore(q) ==
  \A j \in 1 .. Len(q) : Item(q, j) =>
    \E i, k \in 1 .. Len(q) : i < k /\ k < j /\ Start(q, i) /\ Start(q, k)

\* A message that is sent with END_STREAM.
Terminal(m) ==
  \/ m.kind \in {"EndStream", "StreamError"}
  \/ m.kind \in {"Request", "Response"} /\ ~m.streaming

---------------------------------------------------------------------------
Contexts == [hasRecvStream : BOOLEAN, recvStreamStarted : BOOLEAN,
             recvStreamError : BOOLEAN, hasSendStream : BOOLEAN,
             sendStreamStarted : BOOLEAN, sendStreamError : BOOLEAN,
             hasSentResponse : BOOLEAN, err : BOOLEAN]
\* A closed end has discarded what it had received.
StreamOK ==
  /\ inbox \in [Sides -> Seq(Messages)]
  /\ ended \in [Sides -> BOOLEAN] /\ closed \in [Sides -> BOOLEAN] /\ rst \in [Sides -> BOOLEAN]
  /\ DOMAIN first = Sides
  /\ \A s \in Sides : closed[s] => inbox[s] = <<>>
Types ==
  /\ StreamOK
  /\ ctx \in [Sides -> Contexts]
  /\ DOMAIN pc = Sides
  /\ sends \in [Sides -> Nat] /\ got \in [Sides -> Seq(Nat)]

\* The Context is unspoilt: nothing it read, or wrote, has failed.
Fresh(s) == ~ctx[s].err /\ ~ctx[s].recvStreamError
\* The places of a call that the Context lets through, and of Call.
HalfOK(s) ==
  /\ pc[s] \in {"sendStart", "sendItem", "recvStart", "recvItem"} => ~ctx[s].err
  /\ pc[s] \in {"sendStart", "sendItem"} => ~ctx[s].sendStreamError
  /\ pc[s] \in {"recvStart", "recvItem"} => ~ctx[s].recvStreamError /\ ctx[s].hasRecvStream
  /\ pc[s] = "recvItem" => ctx[s].recvStreamStarted
  /\ pc[s] = "recvStart" => ~ctx[s].recvStreamStarted
CallOK ==
  pc["client"] \in {"start", "cancel", "startStream", "response"} =>
    Fresh("client") /\ ~ctx["client"].sendStreamStarted
ServeOK == pc["server"] \in {"start", "request"} => ctx["server"] = NewCtx(FALSE, FALSE)
ContextOK == (\A s \in Sides : HalfOK(s)) /\ CallOK /\ ServeOK

\* The number of the last Send of the server that is over.
Sent == IF pc["server"] \in {"sendStart", "sendItem"} THEN sends["server"] - 1 ELSE sends["server"]
\* The items of the server, received or on their way.
ItemsOK ==
  /\ pc["server"] \in {"sendStart", "sendItem"} => sends["server"] > 0
  /\ \A i \in 1 .. Len(got["client"]) : got["client"][i] = i
  /\ UpTo(inbox["client"], Sent)
  /\ Fresh("client") /\ ~closed["client"] =>
       /\ InOrder(inbox["client"], Len(got["client"]))
       /\ ~ctx["server"].sendStreamError /\ CanWrite("server") =>
            Reaches(inbox["client"], Len(got["client"]), Sent)

\* The handler may yet receive, and has not read the Request.
Listens ==
  /\ pc["server"] \notin {"done", "failed", "swallowed"}
  /\ Fresh("server") /\ ~closed["server"]
Opening == pc["server"] \in {"start", "request"}
\* The client is past its Request, past the StartStream of Call, and past the
\* one of Send.
InCall == pc["client"] \notin {"start", "done"}
Announced ==
  InCall /\ pc["client"] \notin {"cancel", "startStream"} /\ ctx["client"].hasSendStream
Begun == ctx["client"].sendStreamStarted \/ pc["client"] = "sendItem"
\* The StartStreams that are left in the server's queue q.
Starts(q) ==
  IF ctx["server"].recvStreamStarted
  THEN OneBefore(q) /\ (Begun => One(q))
  ELSE TwoBefore(q) /\ (Begun => Two(q)) /\ (Announced => One(q))
\* What the client sends: the Request first, then two StartStreams before any
\* item.  The handler's Context takes one of them.
ClientSendsOK ==
  /\ got["server"] = <<>>
  /\ pc["client"] = "start" => inbox["server"] = <<>>
  /\ Opening /\ inbox["server"] # <<>> => inbox["server"][1].kind = "Request"
  /\ Opening /\ ~closed["server"] /\ InCall => inbox["server"] # <<>>
  /\ Listens => Starts(inbox["server"])
  /\ pc["client"] \in {"sendStart", "sendItem"} => ctx["client"].hasSendStream

\* The first message of the server is a Response.
ResponseOK ==
  /\ first["server"] \in {"none", "Response"}
  /\ \/ ctx["server"].hasSendStream \/ ctx["server"].sendStreamStarted
     \/ pc["server"] \in {"sendStart", "sendItem"}
     => first["server"] # "none" \/ ~CanWrite("server")

\* The end s reads nothing any more.
Past(s) ==
  \/ pc[s] \in {"done", "failed", "swallowed"}
  \/ /\ pc[s] \in {"ready", "sendStart", "sendItem"}
     /\ ~Fresh(s) \/ ~ctx[s].hasRecvStream

\* A reset and an END_STREAM exclude each other, and after an END_STREAM there
\* is a last message to read, or nobody who reads.
ResetOK(s) ==
  rst[s] \/ (closed[s] /\ pc[s] # "done") => closed[Peer(s)] /\ ~ended[Peer(s)]
LastTerminal(q) == q # <<>> /\ Terminal(q[Len(q)])
LastOK(s) == ended[Peer(s)] => closed[s] \/ Past(s) \/ LastTerminal(inbox[s])
EndOK == \A s \in Sides : ResetOK(s) /\ LastOK(s)

\* A unary call has sent END_STREAM by the time it can be cancelled.
CancelOK ==
  /\ pc["client"] = "cancel" /\ ~ctx["client"].hasSendStream => ended["client"]
  /\ call = "nil" => pc["client"] = "done" /\ (~ctx["client"].hasSendStream => ended["client"])

\* Inductive.
IInv == Types /\ ContextOK /\ ItemsOK /\ ClientSendsOK /\ ResponseOK /\ EndOK /\ CancelOK

---------------------------------------------------------------------------
\* Lemmas about queues: a message is appended, or the first one taken.

\* Append keeps the places of a queue and adds one.
LEMMA AppendAt ==
  ASSUME NEW q \in Seq(Messages), NEW m \in Messages
  PROVE  /\ Append(q, m) \in Seq(Messages) /\ Len(Append(q, m)) = Len(q) + 1
         /\ \A i \in 1 .. Len(q) : i \in 1 .. Len(Append(q, m)) /\ Append(q, m)[i] = q[i]
         /\ \A i \in 1 .. Len(Append(q, m)) : i \in 1 .. Len(q) \/ i = Len(q) + 1
         /\ Append(q, m)[Len(q) + 1] = m
         /\ Len(q) \in Nat /\ Len(q) + 1 \in 1 .. Len(Append(q, m))
         /\ \A i \in 1 .. Len(q) : i < Len(q) + 1
OBVIOUS

\* Tail shifts the places by one.
LEMMA TailAt ==
  ASSUME NEW q \in Seq(Messages), q # <<>>
  PROVE  /\ Tail(q) \in Seq(Messages) /\ Len(Tail(q)) = Len(q) - 1 /\ Head(q) = q[1]
         /\ Head(q) \in Messages /\ 1 \in 1 .. Len(q)
         /\ \A i \in 1 .. Len(Tail(q)) : i + 1 \in 1 .. Len(q) /\ Tail(q)[i] = q[i + 1]
         /\ \A i \in 1 .. Len(q) : i = 1 \/ i - 1 \in 1 .. Len(Tail(q))
OBVIOUS

\* The messages of a queue have numbers.
LEMMA NumbersAt ==
  ASSUME NEW q \in Seq(Messages) PROVE \A i \in 1 .. Len(q) : q[i] \in Messages /\ q[i].n \in Nat
<1> SUFFICES ASSUME NEW i \in 1 .. Len(q) PROVE q[i] \in Messages /\ q[i].n \in Nat
  BY Zenon
<1>1. q[i] \in Messages
  OBVIOUS
<1> QED
  BY <1>1, Zenon DEF Messages

\* The items of a queue to which no item is added are the same.
LEMMA AppendOther ==
  ASSUME NEW q \in Seq(Messages), NEW m \in Messages, m.kind # "StreamItem",
         NEW g \in Nat, NEW w \in Nat
  PROVE  /\ InOrder(q, g) => InOrder(Append(q, m), g)
         /\ UpTo(q, w) => UpTo(Append(q, m), w)
         /\ Reaches(q, g, w) => Reaches(Append(q, m), g, w)
         /\ OneBefore(q) => OneBefore(Append(q, m))
         /\ TwoBefore(q) => TwoBefore(Append(q, m))
<1> DEFINE r == Append(q, m)
<1>1. /\ \A i \in 1 .. Len(q) : i \in 1 .. Len(r) /\ r[i] = q[i]
      /\ \A i \in 1 .. Len(r) : Item(r, i) => i \in 1 .. Len(q)
  BY AppendAt, Zenon DEF Item
<1> HIDE DEF r
<1>2. InOrder(q, g) => InOrder(r, g)
  BY <1>1, Zenon DEF InOrder, Item
<1>3. (UpTo(q, w) => UpTo(r, w)) /\ (Reaches(q, g, w) => Reaches(r, g, w))
  BY <1>1, Zenon DEF UpTo, Reaches, Item
<1>4. OneBefore(q) => OneBefore(r)
  BY <1>1, Zenon DEF OneBefore, Item, Start
<1>5. TwoBefore(q) => TwoBefore(r)
  BY <1>1, SMTT(30) DEF TwoBefore, Item, Start
<1> QED
  BY <1>2, <1>3, <1>4, <1>5, Zenon DEF r

\* The item after the last one goes on in order.
LEMMA AppendItem ==
  ASSUME NEW q \in Seq(Messages), NEW m \in Messages, m.kind = "StreamItem",
         NEW g \in Nat, NEW w \in Nat, m.n = w + 1, UpTo(q, w)
  PROVE  /\ UpTo(Append(q, m), w + 1)
         /\ Reaches(Append(q, m), g, w + 1)
         /\ InOrder(q, g) /\ Reaches(q, g, w) => InOrder(Append(q, m), g)
<1> DEFINE r == Append(q, m)
           l == Len(q) + 1
<1>1. /\ \A i \in 1 .. Len(q) : i \in 1 .. Len(r) /\ r[i] = q[i] /\ q[i].n \in Nat
      /\ \A i \in 1 .. Len(r) : i \in 1 .. Len(q) \/ i = l
      /\ r[l] = m /\ l \in 1 .. Len(r) /\ l \in Nat /\ \A i \in 1 .. Len(q) : i < l
  <2>1. \A i \in 1 .. Len(q) : q[i].n \in Nat
    BY NumbersAt, Zenon
  <2>2. l \in Nat
    OBVIOUS
  <2> QED
    BY AppendAt, <2>1, <2>2
<1>2. \A i \in 1 .. Len(q) : ~(l < i)
  BY <1>1
<1> HIDE DEF r, l
<1>3. UpTo(r, w + 1)
  BY <1>1 DEF UpTo, Item
<1>4. Reaches(r, g, w + 1)
  BY <1>1, Zenon DEF Reaches, Item
<1>5. ASSUME InOrder(q, g), Reaches(q, g, w) PROVE InOrder(r, g)
  <2>1. \A i, j \in 1 .. Len(r) : i < j /\ Item(r, i) /\ Item(r, j) => r[i].n < r[j].n
    <3> SUFFICES ASSUME NEW i \in 1 .. Len(r), NEW j \in 1 .. Len(r),
                        i < j, Item(r, i), Item(r, j)
                 PROVE  r[i].n < r[j].n
      BY Zenon
    <3>1. i \in 1 .. Len(q)
      BY <1>1, <1>2
    <3>2. CASE j \in 1 .. Len(q)
      BY <1>1, <1>5, <3>1, <3>2, Zenon DEF InOrder, Item
    <3>3. CASE j = l
      BY <1>1, <3>1, <3>3 DEF UpTo, Item
    <3> QED
      BY <1>1, <3>2, <3>3, Zenon
  <2>2. \A j \in 1 .. Len(r) : Item(r, j) =>
          r[j].n = g + 1 \/ \E i \in 1 .. Len(r) : i < j /\ Item(r, i) /\ r[i].n + 1 = r[j].n
    <3> SUFFICES ASSUME NEW j \in 1 .. Len(r), Item(r, j)
                 PROVE  r[j].n = g + 1 \/
                        \E i \in 1 .. Len(r) : i < j /\ Item(r, i) /\ r[i].n + 1 = r[j].n
      BY Zenon
    <3>1. CASE j \in 1 .. Len(q)
      BY <1>1, <1>5, <3>1, Zenon DEF InOrder, Item
    <3>2. CASE j = l
      BY <1>1, <1>5, <3>2, Zenon DEF Reaches, Item
    <3> QED
      BY <1>1, <3>1, <3>2, Zenon
  <2> QED
    BY <2>1, <2>2, Zenon DEF InOrder
<1> QED
  BY <1>3, <1>4, <1>5, Zenon DEF r

\* Neither is a StartStream lost, and one that is added counts.
LEMMA AppendStart ==
  ASSUME NEW q \in Seq(Messages), NEW m \in Messages
  PROVE  /\ One(q) => One(Append(q, m))
         /\ Two(q) => Two(Append(q, m))
         /\ m.kind = "StartStream" => One(Append(q, m)) /\ (One(q) => Two(Append(q, m)))
         /\ One(q) /\ OneBefore(q) => OneBefore(Append(q, m))
         /\ Two(q) /\ TwoBefore(q) => TwoBefore(Append(q, m))
<1> DEFINE r == Append(q, m)
           l == Len(q) + 1
<1>1. /\ \A i \in 1 .. Len(q) : i \in 1 .. Len(r) /\ r[i] = q[i] /\ i < l
      /\ \A i \in 1 .. Len(r) : i \in 1 .. Len(q) \/ i = l
      /\ r[l] = m /\ l \in 1 .. Len(r)
  BY AppendAt, Zenon
<1> HIDE DEF r, l
<1>2. One(q) => One(r)
  BY <1>1, Zenon DEF One, Start
<1>3. Two(q) => Two(r)
  BY <1>1, Zenon DEF Two, Start
<1>4. m.kind = "StartStream" => One(r) /\ (One(q) => Two(r))
  BY <1>1, Zenon DEF One, Two, Start
<1>5. One(q) /\ OneBefore(q) => OneBefore(r)
  BY <1>1 DEF One, OneBefore, Start, Item
<1>6. Two(q) /\ TwoBefore(q) => TwoBefore(r)
  BY <1>1, SMTT(30) DEF Two, TwoBefore, Start, Item
<1> QED
  BY <1>2, <1>3, <1>4, <1>5, <1>6, Zenon DEF r

\* A message that is no item is taken from the front.
LEMMA TailOther ==
  ASSUME NEW q \in Seq(Messages), q # <<>>, Head(q).kind # "StreamItem",
         NEW g \in Nat, NEW w \in Nat
  PROVE  /\ InOrder(q, g) => InOrder(Tail(q), g)
         /\ Reaches(q, g, w) => Reaches(Tail(q), g, w)
<1> DEFINE r == Tail(q)
<1>1. /\ \A i \in 1 .. Len(r) : i + 1 \in 1 .. Len(q) /\ r[i] = q[i + 1]
      /\ \A i \in 1 .. Len(q) : Item(q, i) => i - 1 \in 1 .. Len(r) /\ r[i - 1] = q[i]
  BY TailAt DEF Item
<1>2. /\ \A i, j \in 1 .. Len(r) : i < j => i + 1 < j + 1
      /\ \A i \in 1 .. Len(q), j \in 1 .. Len(r) : i < j + 1 => i - 1 < j
  BY TailAt
<1> HIDE DEF r
<1>3. ASSUME InOrder(q, g) PROVE InOrder(r, g)
  <2>1. ASSUME NEW i \in 1 .. Len(r), NEW j \in 1 .. Len(r), i < j, Item(r, i), Item(r, j)
        PROVE  r[i].n < r[j].n
    <3>1. /\ i + 1 \in 1 .. Len(q) /\ j + 1 \in 1 .. Len(q) /\ i + 1 < j + 1
          /\ r[i] = q[i + 1] /\ r[j] = q[j + 1] /\ Item(q, i + 1) /\ Item(q, j + 1)
      BY <1>1, <1>2, <2>1, Zenon DEF Item
    <3> QED
      BY <1>3, <3>1, Zenon DEF InOrder
  <2>2. \A j \in 1 .. Len(r) : Item(r, j) =>
          r[j].n = g + 1 \/ \E i \in 1 .. Len(r) : i < j /\ Item(r, i) /\ r[i].n + 1 = r[j].n
    <3> SUFFICES ASSUME NEW j \in 1 .. Len(r), Item(r, j), r[j].n # g + 1
                 PROVE  \E i \in 1 .. Len(r) : i < j /\ Item(r, i) /\ r[i].n + 1 = r[j].n
      BY Zenon
    <3>1. PICK i \in 1 .. Len(q) : i < j + 1 /\ Item(q, i) /\ q[i].n + 1 = q[j + 1].n
      BY <1>1, <1>3, Zenon DEF InOrder, Item
    <3>2. i - 1 \in 1 .. Len(r) /\ i - 1 < j /\ Item(r, i - 1) /\ r[i - 1].n + 1 = r[j].n
      BY <1>1, <1>2, <3>1, Zenon DEF Item
    <3> QED
      BY <3>2, Zenon
  <2> QED
    BY <2>1, <2>2, Zenon DEF InOrder
<1>4. Reaches(q, g, w) => Reaches(r, g, w)
  BY <1>1 DEF Reaches, Item
<1> QED
  BY <1>3, <1>4, Zenon DEF r

\* None is added to those below w.
LEMMA TailUpTo ==
  ASSUME NEW q \in Seq(Messages), q # <<>>, NEW w \in Nat, UpTo(q, w)
  PROVE  UpTo(Tail(q), w)
BY TailAt DEF UpTo, Item

\* An item at the front is the next one.
LEMMA TailItem ==
  ASSUME NEW q \in Seq(Messages), q # <<>>, Head(q).kind = "StreamItem",
         NEW g \in Nat, NEW w \in Nat, InOrder(q, g), UpTo(q, w)
  PROVE  /\ Head(q).n = g + 1
         /\ InOrder(Tail(q), g + 1)
         /\ Reaches(q, g, w) => Reaches(Tail(q), g + 1, w)
<1> DEFINE r == Tail(q)
<1>1. /\ \A i \in 1 .. Len(r) : i + 1 \in 1 .. Len(q) /\ r[i] = q[i + 1] /\ 1 < i + 1
      /\ \A i \in 1 .. Len(q) : i = 1 \/ (i - 1 \in 1 .. Len(r) /\ r[i - 1] = q[i])
      /\ 1 \in 1 .. Len(q) /\ Item(q, 1) /\ Head(q) = q[1]
      /\ \A i \in 1 .. Len(q) : ~(i < 1)
  BY TailAt DEF Item
<1>2. /\ \A i, j \in 1 .. Len(r) : i < j => i + 1 < j + 1
      /\ \A i \in 1 .. Len(q), j \in 1 .. Len(r) : i < j + 1 => i - 1 < j
  BY TailAt
<1>3. \A i \in 1 .. Len(q) : q[i].n \in Nat
  BY NumbersAt, Zenon
<1> HIDE DEF r
<1>4. q[1].n = g + 1
  BY <1>1, Zenon DEF InOrder
<1>5. ASSUME NEW i \in 1 .. Len(r), NEW j \in 1 .. Len(r), i < j, Item(r, i), Item(r, j)
      PROVE  r[i].n < r[j].n
  <2>1. i + 1 < j + 1 /\ i + 1 \in 1 .. Len(q) /\ j + 1 \in 1 .. Len(q)
    BY <1>1, <1>2, <1>5, Zenon
  <2>2. Item(q, i + 1) /\ Item(q, j + 1)
    BY <1>1, <1>5, SMTT(30) DEF Item
  <2>3. q[i + 1].n < q[j + 1].n
    BY <2>1, <2>2, Zenon DEF InOrder
  <2> QED
    BY <1>1, <2>3, SMTT(30)
<1>6. \A j \in 1 .. Len(r) : Item(r, j) =>
        r[j].n = (g + 1) + 1 \/
        \E i \in 1 .. Len(r) : i < j /\ Item(r, i) /\ r[i].n + 1 = r[j].n
  <2> SUFFICES ASSUME NEW j \in 1 .. Len(r), Item(r, j)
               PROVE  r[j].n = (g + 1) + 1 \/
                      \E i \in 1 .. Len(r) : i < j /\ Item(r, i) /\ r[i].n + 1 = r[j].n
    BY Zenon
  <2>1. g + 1 < q[j + 1].n
    BY <1>1, <1>4 DEF InOrder, Item
  <2>2. PICK i \in 1 .. Len(q) : i < j + 1 /\ Item(q, i) /\ q[i].n + 1 = q[j + 1].n
    <3>1. j + 1 \in 1 .. Len(q) /\ Item(q, j + 1) /\ q[j + 1].n # g + 1
      BY <1>1, <1>3, <2>1 DEF Item
    <3> QED
      BY <3>1, Zenon DEF InOrder
  <2>3. CASE i = 1
    BY <1>1, <1>4, <2>2, <2>3, Zenon
  <2>4. CASE i # 1
    <3>1. i - 1 \in 1 .. Len(r) /\ r[i - 1] = q[i] /\ i - 1 < j /\ r[j] = q[j + 1]
      BY <1>1, <1>2, <2>2, <2>4, Zenon
    <3>2. Item(r, i - 1) /\ r[i - 1].n + 1 = r[j].n
      BY <2>2, <3>1, Zenon DEF Item
    <3> QED
      BY <3>1, <3>2, SMTT(30)
  <2> QED
    BY <2>3, <2>4, Zenon
<1>7. Reaches(q, g, w) => Reaches(r, g + 1, w)
  <2>1. w # g
    BY <1>1, <1>4 DEF UpTo
  <2>2. ASSUME NEW i \in 1 .. Len(q), Item(q, i), q[i].n = w PROVE Reaches(r, g + 1, w)
    BY <1>1, <1>4, <2>2, Zenon DEF Reaches, Item
  <2> QED
    BY <2>1, <2>2, Zenon DEF Reaches
<1> QED
  BY <1>1, <1>4, <1>5, <1>6, <1>7, Zenon DEF InOrder, r

\* A StartStream, or a message that is neither, is taken from the front.
LEMMA TailStart ==
  ASSUME NEW q \in Seq(Messages), q # <<>>
  PROVE  /\ Head(q).kind = "StartStream" /\ Two(q) => One(Tail(q))
         /\ Head(q).kind = "StartStream" /\ TwoBefore(q) => OneBefore(Tail(q))
         /\ Head(q).kind # "StartStream" /\ One(q) => One(Tail(q))
         /\ Head(q).kind # "StartStream" /\ Two(q) => Two(Tail(q))
         /\ Head(q).kind # "StartStream" /\ OneBefore(q) => OneBefore(Tail(q))
         /\ Head(q).kind # "StartStream" /\ TwoBefore(q) => TwoBefore(Tail(q))
         /\ OneBefore(q) => Head(q).kind # "StreamItem"
<1> DEFINE r == Tail(q)
<1>1. /\ \A i \in 1 .. Len(r) : i + 1 \in 1 .. Len(q) /\ r[i] = q[i + 1]
      /\ \A i \in 1 .. Len(q) : i = 1 \/ (i - 1 \in 1 .. Len(r) /\ r[i - 1] = q[i])
      /\ 1 \in 1 .. Len(q) /\ Head(q) = q[1]
      /\ \A i \in 1 .. Len(q) : ~(i < 1)
  BY TailAt
<1>2. /\ \A i, k \in 1 .. Len(q) : i < k => k # 1 /\ i - 1 < k - 1
      /\ \A i \in 1 .. Len(q), j \in 1 .. Len(r) : i < j + 1 => i - 1 < j
  BY TailAt
<1> HIDE DEF r
<1>3. Head(q).kind = "StartStream" /\ Two(q) => One(r)
  BY <1>1, <1>2, Zenon DEF One, Two, Start
<1>4. ASSUME TwoBefore(q), NEW j \in 1 .. Len(r), Item(r, j)
      PROVE  \E i \in 1 .. Len(r) : i < j /\ Start(r, i)
  <2>1. j + 1 \in 1 .. Len(q) /\ Item(q, j + 1)
    BY <1>1, <1>4, Zenon DEF Item
  <2>2. PICK i, k \in 1 .. Len(q) : i < k /\ k < j + 1 /\ Start(q, i) /\ Start(q, k)
    BY <1>4, <2>1, Zenon DEF TwoBefore
  <2>3. k - 1 \in 1 .. Len(r) /\ k - 1 < j /\ Start(r, k - 1)
    BY <1>1, <1>2, <2>2, Zenon DEF Start
  <2> QED
    BY <2>3, Zenon
<1>5. Head(q).kind # "StartStream" /\ One(q) => One(r)
  BY <1>1 DEF One, Start
<1>6. Head(q).kind # "StartStream" /\ Two(q) => Two(r)
  BY <1>1, <1>2, ZenonT(30) DEF Two, Start
<1>7. ASSUME Head(q).kind # "StartStream", OneBefore(q), NEW j \in 1 .. Len(r), Item(r, j)
      PROVE  \E i \in 1 .. Len(r) : i < j /\ Start(r, i)
  <2>1. j + 1 \in 1 .. Len(q) /\ Item(q, j + 1)
    BY <1>1, <1>7, Zenon DEF Item
  <2>2. PICK i \in 1 .. Len(q) : i < j + 1 /\ Start(q, i)
    BY <1>7, <2>1, Zenon DEF OneBefore
  <2>3. i - 1 \in 1 .. Len(r) /\ i - 1 < j /\ Start(r, i - 1)
    BY <1>1, <1>2, <1>7, <2>2, Zenon DEF Start
  <2> QED
    BY <2>3, Zenon
<1>8. ASSUME Head(q).kind # "StartStream", TwoBefore(q), NEW j \in 1 .. Len(r), Item(r, j)
      PROVE  \E i, k \in 1 .. Len(r) : i < k /\ k < j /\ Start(r, i) /\ Start(r, k)
  <2>1. j + 1 \in 1 .. Len(q) /\ Item(q, j + 1)
    BY <1>1, <1>8, Zenon DEF Item
  <2>2. PICK i, k \in 1 .. Len(q) : i < k /\ k < j + 1 /\ Start(q, i) /\ Start(q, k)
    BY <1>8, <2>1, Zenon DEF TwoBefore
  <2>3. i - 1 \in 1 .. Len(r) /\ Start(r, i - 1) /\ k - 1 \in 1 .. Len(r) /\ Start(r, k - 1)
    BY <1>1, <1>8, <2>2, SMTT(30) DEF Start
  <2>4. i - 1 < k - 1 /\ k - 1 < j
    BY <1>2, <2>2, Zenon
  <2> QED
    BY <2>3, <2>4, Zenon
<1>9. OneBefore(q) => Head(q).kind # "StreamItem"
  BY <1>1, Zenon DEF OneBefore, Item
<1> QED
  BY <1>3, <1>4, <1>5, <1>6, <1>7, <1>8, <1>9, Zenon DEF OneBefore, TwoBefore, r

---------------------------------------------------------------------------
\* The two ends.
LEMMA Ends ==
  /\ "client" \in Sides /\ "server" \in Sides
  /\ Peer("client") = "server" /\ Peer("server") = "client"
  /\ \A s \in Sides : Peer(s) \in Sides /\ Peer(s) # s /\ Peer(Peer(s)) = s
  /\ \A s, t \in Sides : t = s \/ t = Peer(s)
BY Zenon DEF Sides, Peer

\* What the operations of the stream do, on each variable.
Wrote(s, m, e) ==
  /\ UNCHANGED <<closed, rst>>
  /\ inbox'[s] = inbox[s]
  /\ inbox'[Peer(s)] = IF closed[Peer(s)] THEN inbox[Peer(s)] ELSE Append(inbox[Peer(s)], m)
  /\ ended'[s] = e /\ ended'[Peer(s)] = ended[Peer(s)]
  /\ first'[s] = (IF first[s] = "none" THEN m.kind ELSE first[s])
  /\ first'[Peer(s)] = first[Peer(s)]
WasReset(s) ==
  /\ UNCHANGED <<ended, first>>
  /\ inbox'[s] = <<>> /\ inbox'[Peer(s)] = inbox[Peer(s)]
  /\ closed'[s] = TRUE /\ closed'[Peer(s)] = closed[Peer(s)]
  /\ rst'[s] = rst[s] /\ rst'[Peer(s)] = TRUE
Took(s) ==
  /\ UNCHANGED <<ended, closed, rst, first>>
  /\ inbox[s] # <<>> /\ inbox[s] \in Seq(Messages) /\ Head(inbox[s]) \in Messages
  /\ inbox'[s] = Tail(inbox[s]) /\ inbox'[Peer(s)] = inbox[Peer(s)]
Quiet == UNCHANGED <<inbox, ended, closed, rst, first>>

\* A step that leaves the stream alone.
LEMMA QuietEffect ==
  ASSUME StreamOK, UNCHANGED <<stream, first>> PROVE StreamOK' /\ Quiet
BY Zenon DEF StreamOK, stream, Quiet

\* Write.
LEMMA WriteEffect ==
  ASSUME StreamOK, NEW s \in Sides, NEW m \in Messages, NEW e \in BOOLEAN,
         CanWrite(s), WriteOrNot(s, m, e)
  PROVE  StreamOK' /\ Wrote(s, m, e)
<1> USE Ends DEF StreamOK
<1>1. /\ inbox' = IF closed[Peer(s)] THEN inbox
                  ELSE [inbox EXCEPT ![Peer(s)] = Append(inbox[Peer(s)], m)]
      /\ ended' = [ended EXCEPT ![s] = e]
      /\ first' = [first EXCEPT ![s] = IF first[s] = "none" THEN m.kind ELSE first[s]]
      /\ UNCHANGED <<closed, rst>>
  BY Zenon DEF WriteOrNot, Write
<1>2. Append(inbox[Peer(s)], m) \in Seq(Messages)
  BY AppendAt, Zenon
<1>3. /\ inbox' \in [Sides -> Seq(Messages)] /\ inbox'[s] = inbox[s]
      /\ inbox'[Peer(s)] = IF closed[Peer(s)] THEN inbox[Peer(s)]
                           ELSE Append(inbox[Peer(s)], m)
  BY <1>1, <1>2, Zenon
<1>4. ended' \in [Sides -> BOOLEAN] /\ ended'[s] = e /\ ended'[Peer(s)] = ended[Peer(s)]
  BY <1>1, Zenon
<1>5. \A t \in Sides : closed'[t] => inbox'[t] = <<>>
  BY <1>1, <1>3
<1>6. StreamOK'
  BY <1>1, <1>3, <1>4, <1>5, Zenon
<1> QED
  BY <1>1, <1>3, <1>4, <1>6, Zenon DEF Wrote

\* Where it is refused.
LEMMA NoWriteEffect ==
  ASSUME StreamOK, NEW s \in Sides, NEW m, NEW e, ~CanWrite(s), WriteOrNot(s, m, e)
  PROVE  StreamOK' /\ Quiet
BY QuietEffect, Zenon DEF WriteOrNot

\* Reset.
LEMMA ResetEffect ==
  ASSUME StreamOK, NEW s \in Sides, Reset(s), UNCHANGED first
  PROVE  StreamOK' /\ IF CanWrite(s) THEN WasReset(s) ELSE Quiet
<1> USE Ends
<1>1. CASE CanWrite(s)
  <2> USE DEF StreamOK
  <2>1. /\ closed' = [closed EXCEPT ![s] = TRUE] /\ inbox' = [inbox EXCEPT ![s] = <<>>]
        /\ rst' = [rst EXCEPT ![Peer(s)] = TRUE] /\ UNCHANGED ended
    BY <1>1, Zenon DEF Reset
  <2>2. /\ inbox' \in [Sides -> Seq(Messages)] /\ inbox'[s] = <<>>
        /\ inbox'[Peer(s)] = inbox[Peer(s)]
    BY <2>1
  <2>3. /\ closed' \in [Sides -> BOOLEAN] /\ closed'[s] = TRUE
        /\ closed'[Peer(s)] = closed[Peer(s)]
    BY <2>1, Zenon
  <2>4. rst' \in [Sides -> BOOLEAN] /\ rst'[s] = rst[s] /\ rst'[Peer(s)] = TRUE
    BY <2>1, Zenon
  <2>5. \A t \in Sides : closed'[t] => inbox'[t] = <<>>
    BY <2>2, <2>3, Zenon
  <2>6. StreamOK'
    BY <2>1, <2>2, <2>3, <2>4, <2>5, Zenon
  <2> QED
    BY <1>1, <2>1, <2>2, <2>3, <2>4, <2>6, Zenon DEF WasReset
<1>2. CASE ~CanWrite(s)
  BY <1>2, QuietEffect, Zenon DEF Reset, stream
<1> QED
  BY <1>1, <1>2, Zenon

\* ReadMsg.
LEMMA ReadEffect ==
  ASSUME StreamOK, NEW s \in Sides, ReadMsg(s), UNCHANGED first
  PROVE  StreamOK' /\ Took(s) /\ ~closed[s]
<1> USE Ends DEF StreamOK
<1>1. inbox[s] \in Seq(Messages) /\ inbox[s] # <<>> /\ ~closed[s]
  BY Zenon DEF ReadMsg
<1>2. Tail(inbox[s]) \in Seq(Messages) /\ Head(inbox[s]) \in Messages
  BY <1>1, TailAt, Zenon
<1>3. /\ inbox' \in [Sides -> Seq(Messages)] /\ UNCHANGED <<ended, closed, rst>>
      /\ inbox'[s] = Tail(inbox[s]) /\ inbox'[Peer(s)] = inbox[Peer(s)]
  BY <1>1, <1>2, Zenon DEF ReadMsg
<1>4. \A t \in Sides : closed'[t] => inbox'[t] = <<>>
  BY <1>1, <1>3, ZenonT(30)
<1>5. StreamOK'
  BY <1>3, <1>4, Zenon
<1> QED
  BY <1>1, <1>2, <1>3, <1>5, Zenon DEF Took

\* What the actions do to the Context of an end: the fields of the receiving
\* half, of the sending half, and err.
SameRecv(s) ==
  /\ ctx'[s].hasRecvStream = ctx[s].hasRecvStream
  /\ ctx'[s].recvStreamStarted = ctx[s].recvStreamStarted
  /\ ctx'[s].recvStreamError = ctx[s].recvStreamError
SameSend(s) ==
  /\ ctx'[s].hasSendStream = ctx[s].hasSendStream
  /\ ctx'[s].sendStreamStarted = ctx[s].sendStreamStarted
  /\ ctx'[s].sendStreamError = ctx[s].sendStreamError
SameErr(s) == ctx'[s].err = ctx[s].err
OnlyContext(s) == ctx' \in [Sides -> Contexts] /\ ctx'[Peer(s)] = ctx[Peer(s)]

\* Setting the whole Context.
LEMMA SetContext ==
  ASSUME ctx \in [Sides -> Contexts], NEW s \in Sides, NEW c \in Contexts, Set(s, c)
  PROVE  OnlyContext(s) /\ ctx'[s] = c
BY Ends, Zenon DEF Set, OnlyContext

\* A new Context.
LEMMA SetNew ==
  ASSUME ctx \in [Sides -> Contexts], NEW s \in Sides, NEW a \in BOOLEAN, NEW b \in BOOLEAN,
         Set(s, NewCtx(a, b))
  PROVE  /\ OnlyContext(s)
         /\ ctx'[s].hasRecvStream = a /\ ctx'[s].hasSendStream = b
         /\ ~ctx'[s].recvStreamStarted /\ ~ctx'[s].recvStreamError /\ ~ctx'[s].err
         /\ ~ctx'[s].sendStreamStarted /\ ~ctx'[s].sendStreamError
<1>1. NewCtx(a, b) \in Contexts
  BY Zenon DEF NewCtx, Contexts
<1>2. OnlyContext(s) /\ ctx'[s] = NewCtx(a, b)
  BY <1>1, SetContext, Zenon
<1> QED
  BY <1>2 DEF NewCtx

\* A single field.
LEMMA SetErr ==
  ASSUME ctx \in [Sides -> Contexts], NEW s \in Sides, NEW b \in BOOLEAN,
         Set(s, [ctx[s] EXCEPT !.err = b])
  PROVE  OnlyContext(s) /\ SameRecv(s) /\ SameSend(s) /\ ctx'[s].err = b
<1>1. [ctx[s] EXCEPT !.err = b] \in Contexts
  BY Zenon DEF Contexts
<1>2. OnlyContext(s) /\ ctx'[s] = [ctx[s] EXCEPT !.err = b]
  BY <1>1, SetContext, Zenon
<1> QED
  BY <1>2, Zenon DEF SameRecv, SameSend, Contexts

\* The StartStream of Send has been written.
LEMMA SetSendStarted ==
  ASSUME ctx \in [Sides -> Contexts], NEW s \in Sides,
         Set(s, [ctx[s] EXCEPT !.sendStreamStarted = TRUE])
  PROVE  /\ OnlyContext(s) /\ SameRecv(s) /\ SameErr(s)
         /\ ctx'[s].hasSendStream = ctx[s].hasSendStream
         /\ ctx'[s].sendStreamStarted = TRUE
         /\ ctx'[s].sendStreamError = ctx[s].sendStreamError
<1>1. [ctx[s] EXCEPT !.sendStreamStarted = TRUE] \in Contexts
  BY Zenon DEF Contexts
<1>2. OnlyContext(s) /\ ctx'[s] = [ctx[s] EXCEPT !.sendStreamStarted = TRUE]
  BY <1>1, SetContext, Zenon
<1> QED
  BY <1>2, Zenon DEF SameRecv, SameErr, Contexts

\* Send, or CloseSend, remembers that its write failed.
LEMMA SetSendError ==
  ASSUME ctx \in [Sides -> Contexts], NEW s \in Sides,
         Set(s, [ctx[s] EXCEPT !.sendStreamError = TRUE])
  PROVE  /\ OnlyContext(s) /\ SameRecv(s) /\ SameErr(s)
         /\ ctx'[s].hasSendStream = ctx[s].hasSendStream
         /\ ctx'[s].sendStreamStarted = ctx[s].sendStreamStarted
         /\ ctx'[s].sendStreamError = TRUE
<1>1. [ctx[s] EXCEPT !.sendStreamError = TRUE] \in Contexts
  BY Zenon DEF Contexts
<1>2. OnlyContext(s) /\ ctx'[s] = [ctx[s] EXCEPT !.sendStreamError = TRUE]
  BY <1>1, SetContext, Zenon
<1> QED
  BY <1>2, Zenon DEF SameRecv, SameErr, Contexts

\* The StartStream of the peer has been read.
LEMMA SetRecvStarted ==
  ASSUME ctx \in [Sides -> Contexts], NEW s \in Sides,
         Set(s, [ctx[s] EXCEPT !.recvStreamStarted = TRUE])
  PROVE  /\ OnlyContext(s) /\ SameSend(s) /\ SameErr(s)
         /\ ctx'[s].hasRecvStream = ctx[s].hasRecvStream
         /\ ctx'[s].recvStreamStarted = TRUE
         /\ ctx'[s].recvStreamError = ctx[s].recvStreamError
<1>1. [ctx[s] EXCEPT !.recvStreamStarted = TRUE] \in Contexts
  BY Zenon DEF Contexts
<1>2. OnlyContext(s) /\ ctx'[s] = [ctx[s] EXCEPT !.recvStreamStarted = TRUE]
  BY <1>1, SetContext, Zenon
<1> QED
  BY <1>2, Zenon DEF SameSend, SameErr, Contexts

\* Recv remembers that its read failed.
LEMMA SetRecvError ==
  ASSUME ctx \in [Sides -> Contexts], NEW s \in Sides,
         Set(s, [ctx[s] EXCEPT !.recvStreamError = TRUE])
  PROVE  /\ OnlyContext(s) /\ SameSend(s) /\ SameErr(s)
         /\ ctx'[s].hasRecvStream = ctx[s].hasRecvStream
         /\ ctx'[s].recvStreamStarted = ctx[s].recvStreamStarted
         /\ ctx'[s].recvStreamError = TRUE
<1>1. [ctx[s] EXCEPT !.recvStreamError = TRUE] \in Contexts
  BY Zenon DEF Contexts
<1>2. OnlyContext(s) /\ ctx'[s] = [ctx[s] EXCEPT !.recvStreamError = TRUE]
  BY <1>1, SetContext, Zenon
<1> QED
  BY <1>2, Zenon DEF SameSend, SameErr, Contexts

\* The fields that SendResponse sets.
LEMMA SetResponse ==
  ASSUME ctx \in [Sides -> Contexts], NEW s \in Sides, NEW b \in BOOLEAN,
         Set(s, [ctx[s] EXCEPT !.hasSentResponse = TRUE, !.hasSendStream = b,
                               !.sendStreamStarted = FALSE])
  PROVE  /\ OnlyContext(s) /\ SameRecv(s) /\ SameErr(s)
         /\ ctx'[s].hasSendStream = b /\ ctx'[s].sendStreamStarted = FALSE
         /\ ctx'[s].sendStreamError = ctx[s].sendStreamError
<1> DEFINE c == [ctx[s] EXCEPT !.hasSentResponse = TRUE, !.hasSendStream = b,
                               !.sendStreamStarted = FALSE]
<1>1. c \in Contexts
  BY Zenon DEF Contexts
<1>2. OnlyContext(s) /\ ctx'[s] = c
  <2> HIDE DEF c
  <2>1. Set(s, c)
    BY Zenon DEF c
  <2> QED
    BY <1>1, <2>1, SetContext, Zenon
<1> QED
  BY <1>2, Zenon DEF SameRecv, SameErr, Contexts

\* The messages that the actions write.
LEMMA NewMessages ==
  /\ \A b \in BOOLEAN, k \in Kinds, n \in Nat :
       /\ Msg(k, b, n) \in Messages
       /\ Msg(k, b, n).kind = k /\ Msg(k, b, n).streaming = b /\ Msg(k, b, n).n = n
  /\ Types => ErrorMsg \in Messages
<1>1. \A b \in BOOLEAN, k \in Kinds, n \in Nat :
       /\ Msg(k, b, n) \in Messages
       /\ Msg(k, b, n).kind = k /\ Msg(k, b, n).streaming = b /\ Msg(k, b, n).n = n
  BY Zenon DEF Msg, Messages
<1>2. ErrorMsg \in Messages
  BY Zenon DEF ErrorMsg, Msg, Messages, Kinds
<1> QED
  BY <1>1, <1>2, Zenon

---------------------------------------------------------------------------
\* Init => IInv
LEMMA InitIInv == Init => IInv
<1> SUFFICES ASSUME Init PROVE IInv
  BY Zenon
<1> USE Ends DEF Init
<1>1. StreamOK
  BY DEF StreamOK
<1>2. Types
  <2>1. ctx \in [Sides -> Contexts]
    BY Zenon DEF NewCtx, Contexts
  <2>2. sends \in [Sides -> Nat] /\ got \in [Sides -> Seq(Nat)] /\ DOMAIN pc = Sides
    OBVIOUS
  <2> QED
    BY <1>1, <2>1, <2>2, Zenon DEF Types
<1>3. ContextOK
  BY Zenon DEF ContextOK, HalfOK, CallOK, ServeOK, Fresh, NewCtx
<1>4. ItemsOK
  BY DEF ItemsOK, UpTo, InOrder, Reaches, Sent
<1>5. ClientSendsOK
  BY DEF ClientSendsOK, Starts, Begun, Announced, InCall, NewCtx, OneBefore, TwoBefore
<1>6. ResponseOK
  BY Zenon DEF ResponseOK, NewCtx
<1>7. EndOK /\ CancelOK
  BY Zenon DEF EndOK, ResetOK, LastOK, CancelOK
<1> QED
  BY <1>2, <1>3, <1>4, <1>5, <1>6, <1>7, Zenon DEF IInv

\* What the two steps do that touch both queues, or a reset.
LEMMA ServeRejectEffect ==
  ASSUME StreamOK, ServeReject
  PROVE  /\ StreamOK' /\ UNCHANGED <<closed, rst>>
         /\ \/ /\ inbox["server"] # <<>> /\ inbox'["server"] = Tail(inbox["server"])
               /\ inbox'["client"] = IF closed["client"] THEN inbox["client"]
                                     ELSE Append(inbox["client"], Msg("Response", FALSE, 0))
               /\ ended'["server"] = TRUE /\ ended'["client"] = ended["client"]
               /\ first'["server"] = "Response"
            \/ closed["server"] /\ UNCHANGED <<inbox, ended, first>>
<1> USE Ends DEF StreamOK
<1>1. CASE inbox["server"] # <<>>
  <2> DEFINE r == IF closed["client"] THEN inbox["client"]
                  ELSE Append(inbox["client"], Msg("Response", FALSE, 0))
  <2>1. /\ inbox' = [inbox EXCEPT !["server"] = Tail(inbox["server"]), !["client"] = r]
        /\ ended' = [ended EXCEPT !["server"] = TRUE]
        /\ first' = [first EXCEPT !["server"] = "Response"] /\ UNCHANGED <<closed, rst>>
    BY <1>1, Zenon DEF ServeReject
  <2>2. r \in Seq(Messages) /\ Tail(inbox["server"]) \in Seq(Messages)
    <3>1. Msg("Response", FALSE, 0) \in Messages
      BY NewMessages, Zenon DEF Kinds
    <3> QED
      BY <1>1, <3>1, AppendAt, TailAt, Zenon
  <2> HIDE DEF r
  <2>3. /\ inbox' \in [Sides -> Seq(Messages)]
        /\ inbox'["server"] = Tail(inbox["server"]) /\ inbox'["client"] = r
    BY <2>1, <2>2, Zenon
  <2>4. /\ ended' \in [Sides -> BOOLEAN] /\ ended'["server"] = TRUE
        /\ ended'["client"] = ended["client"]
    BY <2>1, Zenon
  <2>5. DOMAIN first' = Sides /\ first'["server"] = "Response"
    BY <2>1, Zenon
  <2>6. ~closed["server"] /\ (closed["client"] => r = <<>>)
    BY <1>1, Zenon DEF r
  <2>7. \A t \in Sides : closed'[t] => inbox'[t] = <<>>
    BY <2>1, <2>3, <2>6, Zenon
  <2> QED
    BY <1>1, <2>1, <2>3, <2>4, <2>5, <2>7, Zenon DEF r
<1>2. CASE inbox["server"] = <<>>
  BY <1>2, Zenon DEF ServeReject
<1> QED
  BY <1>1, <1>2, Zenon

\* A RESET_STREAM closes the end it reaches.
LEMMA RecvResetEffect ==
  ASSUME StreamOK, NEW s \in Sides, RecvReset(s)
  PROVE  /\ StreamOK' /\ UNCHANGED ended /\ rst[s]
         /\ rst'[s] = FALSE /\ rst'[Peer(s)] = rst[Peer(s)]
         /\ closed'[s] = TRUE /\ closed'[Peer(s)] = closed[Peer(s)]
         /\ inbox'[s] = <<>> /\ inbox'[Peer(s)] = inbox[Peer(s)]
<1> USE Ends DEF StreamOK, RecvReset
<1>1. inbox' \in [Sides -> Seq(Messages)] /\ inbox'[s] = <<>> /\ inbox'[Peer(s)] = inbox[Peer(s)]
  OBVIOUS
<1>2. /\ closed' \in [Sides -> BOOLEAN] /\ closed'[s] = TRUE
      /\ closed'[Peer(s)] = closed[Peer(s)]
  BY Zenon
<1>3. rst' \in [Sides -> BOOLEAN] /\ rst'[s] = FALSE /\ rst'[Peer(s)] = rst[Peer(s)]
  BY Zenon
<1>4. \A t \in Sides : closed'[t] => inbox'[t] = <<>>
  BY <1>1, <1>2, Zenon
<1> QED
  BY <1>1, <1>2, <1>3, <1>4, Zenon

---------------------------------------------------------------------------
\* What each action does, variable by variable.

Moves(s, l) == DOMAIN pc' = Sides /\ pc'[s] = l /\ pc'[Peer(s)] = pc[Peer(s)]

\* Goto.
LEMMA GotoEffect ==
  ASSUME DOMAIN pc = Sides, NEW s \in Sides, NEW l, Goto(s, l) PROVE Moves(s, l)
BY Ends, Zenon DEF Goto, Moves

\* The types after a step that keeps sends and got.
LEMMA TypesKept ==
  ASSUME Types, StreamOK', ctx' \in [Sides -> Contexts], DOMAIN pc' = Sides,
         UNCHANGED <<sends, got>>
  PROVE  Types'
BY Zenon DEF Types

\* Send.
LEMMA SendDoes ==
  ASSUME Types, NEW s \in Sides, Send(s)
  PROVE  /\ Types' /\ Quiet /\ UNCHANGED <<ctx, call, got>>
         /\ pc[s] = "ready" /\ ~ctx[s].err /\ ctx[s].hasSendStream /\ ~ctx[s].sendStreamError
         /\ sends'[s] = sends[s] + 1 /\ sends'[Peer(s)] = sends[Peer(s)]
         /\ \/ Moves(s, "sendItem") /\ ctx[s].sendStreamStarted
            \/ Moves(s, "sendStart")
<1> USE Ends DEF Types
<1>1. StreamOK' /\ Quiet /\ UNCHANGED <<ctx, call, got>>
  BY QuietEffect, Zenon DEF Send
<1>2. /\ sends' \in [Sides -> Nat]
      /\ sends'[s] = sends[s] + 1 /\ sends'[Peer(s)] = sends[Peer(s)]
  BY DEF Send
<1>3. \/ Moves(s, "sendItem") /\ ctx[s].sendStreamStarted
      \/ Moves(s, "sendStart")
  <2>1. Goto(s, IF ctx[s].sendStreamStarted THEN "sendItem" ELSE "sendStart")
    BY Zenon DEF Send
  <2> QED
    BY <2>1, GotoEffect, Zenon
<1>4. Types'
  BY <1>1, <1>2, <1>3, Zenon DEF Moves
<1> QED
  BY <1>1, <1>2, <1>3, <1>4, Zenon DEF Send, Usable

\* SendStart.
LEMMA SendStartDoes ==
  ASSUME Types, NEW s \in Sides, SendStart(s)
  PROVE  /\ Types' /\ UNCHANGED <<call, sends, got>> /\ pc[s] = "sendStart"
         /\ ctx'[Peer(s)] = ctx[Peer(s)] /\ SameRecv(s)
         /\ \/ /\ CanWrite(s) /\ Wrote(s, Msg("StartStream", FALSE, 0), FALSE)
               /\ Moves(s, "sendItem") /\ SameErr(s)
               /\ ctx'[s].hasSendStream = ctx[s].hasSendStream
               /\ ctx'[s].sendStreamStarted = TRUE
               /\ ctx'[s].sendStreamError = ctx[s].sendStreamError
            \/ /\ ~CanWrite(s) /\ Quiet /\ Moves(s, "ready")
               /\ SameSend(s) /\ ctx'[s].err = TRUE
<1> DEFINE m == Msg("StartStream", FALSE, 0)
<1>1. m \in Messages
  BY NewMessages, Zenon DEF Kinds
<1>2. WriteOrNot(s, m, FALSE) /\ UNCHANGED <<call, sends, got>> /\ pc[s] = "sendStart"
  BY Zenon DEF SendStart, bounds
<1> HIDE DEF m
<1>3. CASE CanWrite(s)
  <2>1. StreamOK' /\ Wrote(s, m, FALSE)
    BY <1>1, <1>2, <1>3, WriteEffect, Zenon DEF Types
  <2>2. Set(s, [ctx[s] EXCEPT !.sendStreamStarted = TRUE]) /\ Goto(s, "sendItem")
    BY <1>3, Zenon DEF SendStart
  <2>3. /\ OnlyContext(s) /\ SameRecv(s) /\ SameErr(s)
        /\ ctx'[s].hasSendStream = ctx[s].hasSendStream
        /\ ctx'[s].sendStreamStarted = TRUE
        /\ ctx'[s].sendStreamError = ctx[s].sendStreamError
    BY <2>2, SetSendStarted, Zenon DEF Types
  <2>4. Moves(s, "sendItem")
    BY <2>2, GotoEffect, Zenon DEF Types
  <2>5. Types'
    BY <1>2, <2>1, <2>3, <2>4, TypesKept, Zenon DEF OnlyContext, Moves
  <2> QED
    BY <1>2, <1>3, <2>1, <2>3, <2>4, <2>5, Zenon DEF OnlyContext, m
<1>4. CASE ~CanWrite(s)
  <2>1. StreamOK' /\ Quiet
    BY <1>2, <1>4, NoWriteEffect, Zenon DEF Types
  <2>2. Set(s, [ctx[s] EXCEPT !.err = TRUE]) /\ Goto(s, "ready")
    BY <1>4, Zenon DEF SendStart
  <2>3. OnlyContext(s) /\ SameRecv(s) /\ SameSend(s) /\ ctx'[s].err = TRUE
    BY <2>2, SetErr, Zenon DEF Types
  <2>4. Moves(s, "ready")
    BY <2>2, GotoEffect, Zenon DEF Types
  <2>5. Types'
    BY <1>2, <2>1, <2>3, <2>4, TypesKept, Zenon DEF OnlyContext, Moves
  <2> QED
    BY <1>2, <1>4, <2>1, <2>3, <2>4, <2>5, Zenon DEF OnlyContext
<1> QED
  BY <1>3, <1>4, Zenon

\* A message and its error, as SendItem and EndSend have it.
LEMMA WriteSetsErr ==
  ASSUME Types, NEW s \in Sides, NEW m \in Messages, NEW e \in BOOLEAN,
         WriteOrNot(s, m, e), Set(s, [ctx[s] EXCEPT !.err = ~CanWrite(s)])
  PROVE  /\ StreamOK' /\ OnlyContext(s) /\ SameRecv(s) /\ SameSend(s)
         /\ \/ CanWrite(s) /\ Wrote(s, m, e) /\ ctx'[s].err = FALSE
            \/ ~CanWrite(s) /\ Quiet /\ ctx'[s].err = TRUE
<1>1. CASE CanWrite(s)
  <2>1. StreamOK' /\ Wrote(s, m, e)
    BY <1>1, WriteEffect, Zenon DEF Types
  <2>2. (~CanWrite(s)) = FALSE
    BY <1>1, Zenon
  <2>3. Set(s, [ctx[s] EXCEPT !.err = FALSE])
    BY <2>2, Zenon
  <2>4. OnlyContext(s) /\ SameRecv(s) /\ SameSend(s) /\ ctx'[s].err = FALSE
    BY <2>3, SetErr, Zenon DEF Types
  <2> QED
    BY <1>1, <2>1, <2>4, Zenon
<1>2. CASE ~CanWrite(s)
  <2>1. StreamOK' /\ Quiet
    BY <1>2, NoWriteEffect, Zenon DEF Types
  <2>2. (~CanWrite(s)) = TRUE
    BY <1>2, Zenon
  <2>3. Set(s, [ctx[s] EXCEPT !.err = TRUE])
    BY <2>2, Zenon
  <2>4. OnlyContext(s) /\ SameRecv(s) /\ SameSend(s) /\ ctx'[s].err = TRUE
    BY <2>3, SetErr, Zenon DEF Types
  <2> QED
    BY <1>2, <2>1, <2>4, Zenon
<1> QED
  BY <1>1, <1>2, Zenon

\* SendItem.
LEMMA SendItemDoes ==
  ASSUME Types, NEW s \in Sides, SendItem(s)
  PROVE  /\ Types' /\ UNCHANGED <<call, sends, got>> /\ pc[s] = "sendItem"
         /\ ctx'[Peer(s)] = ctx[Peer(s)] /\ SameRecv(s) /\ Moves(s, "ready")
         /\ \/ /\ CanWrite(s) /\ Wrote(s, Msg("StreamItem", FALSE, sends[s]), FALSE)
               /\ SameSend(s) /\ ctx'[s].err = FALSE
            \/ ~CanWrite(s) /\ Quiet /\ SameSend(s) /\ ctx'[s].err = TRUE
            \/ /\ Quiet /\ SameErr(s)
               /\ ctx'[s].hasSendStream = ctx[s].hasSendStream
               /\ ctx'[s].sendStreamStarted = ctx[s].sendStreamStarted
               /\ ctx'[s].sendStreamError = TRUE
<1> DEFINE m == Msg("StreamItem", FALSE, sends[s])
<1>1. m \in Messages
  <2>1. sends[s] \in Nat /\ "StreamItem" \in Kinds
    BY Zenon DEF Types, Kinds
  <2> QED
    BY <2>1, NewMessages, Zenon
<1>2. UNCHANGED <<call, sends, got>> /\ pc[s] = "sendItem" /\ Moves(s, "ready")
  BY GotoEffect, Zenon DEF SendItem, bounds, Types
<1>3. CASE WriteOrNot(s, m, FALSE) /\ Set(s, [ctx[s] EXCEPT !.err = ~CanWrite(s)])
  <2> HIDE DEF m
  <2>1. /\ StreamOK' /\ OnlyContext(s) /\ SameRecv(s) /\ SameSend(s)
        /\ \/ CanWrite(s) /\ Wrote(s, m, FALSE) /\ ctx'[s].err = FALSE
           \/ ~CanWrite(s) /\ Quiet /\ ctx'[s].err = TRUE
    BY <1>1, <1>3, WriteSetsErr, Zenon
  <2>2. Types'
    BY <1>2, <2>1, TypesKept, Zenon DEF OnlyContext, Moves
  <2> QED
    BY <1>2, <2>1, <2>2, Zenon DEF OnlyContext, m
<1>4. CASE Set(s, [ctx[s] EXCEPT !.sendStreamError = TRUE]) /\ UNCHANGED <<stream, first>>
  <2>1. StreamOK' /\ Quiet
    BY <1>4, QuietEffect, Zenon DEF Types
  <2>2. /\ OnlyContext(s) /\ SameRecv(s) /\ SameErr(s)
        /\ ctx'[s].hasSendStream = ctx[s].hasSendStream
        /\ ctx'[s].sendStreamStarted = ctx[s].sendStreamStarted
        /\ ctx'[s].sendStreamError = TRUE
    BY <1>4, SetSendError, Zenon DEF Types
  <2>3. Types'
    BY <1>2, <2>1, <2>2, TypesKept, Zenon DEF OnlyContext, Moves
  <2> QED
    BY <1>2, <2>1, <2>2, <2>3, Zenon DEF OnlyContext
<1> QED
  BY <1>3, <1>4, Zenon DEF SendItem

\* EndSend.
LEMMA EndSendDoes ==
  ASSUME Types, NEW s \in Sides, EndSend(s)
  PROVE  /\ Types' /\ UNCHANGED <<call, sends, got, pc>>
         /\ pc[s] = "ready" /\ ~ctx[s].err /\ ctx[s].hasSendStream
         /\ ctx'[Peer(s)] = ctx[Peer(s)] /\ SameRecv(s) /\ SameSend(s)
         /\ \/ CanWrite(s) /\ Wrote(s, Msg("EndStream", FALSE, 0), TRUE) /\ ctx'[s].err = FALSE
            \/ ~CanWrite(s) /\ Quiet /\ ctx'[s].err = TRUE
<1> DEFINE m == Msg("EndStream", FALSE, 0)
<1>1. m \in Messages
  BY NewMessages, Zenon DEF Kinds
<1>2. /\ WriteOrNot(s, m, TRUE) /\ Set(s, [ctx[s] EXCEPT !.err = ~CanWrite(s)])
      /\ UNCHANGED <<call, sends, got, pc>>
      /\ pc[s] = "ready" /\ ~ctx[s].err /\ ctx[s].hasSendStream
  BY Zenon DEF EndSend, Usable, bounds
<1> HIDE DEF m
<1>3. /\ StreamOK' /\ OnlyContext(s) /\ SameRecv(s) /\ SameSend(s)
      /\ \/ CanWrite(s) /\ Wrote(s, m, TRUE) /\ ctx'[s].err = FALSE
         \/ ~CanWrite(s) /\ Quiet /\ ctx'[s].err = TRUE
  BY <1>1, <1>2, WriteSetsErr, Zenon
<1>4. Types'
  BY <1>2, <1>3, TypesKept, Zenon DEF OnlyContext, Types
<1> QED
  BY <1>2, <1>3, <1>4, Zenon DEF OnlyContext, m

\* Recv.
LEMMA RecvDoes ==
  ASSUME Types, NEW s \in Sides, Recv(s)
  PROVE  /\ Types' /\ Quiet /\ UNCHANGED <<ctx, call, sends, got>>
         /\ pc[s] = "ready" /\ ~ctx[s].err /\ ctx[s].hasRecvStream /\ ~ctx[s].recvStreamError
         /\ \/ Moves(s, "recvItem") /\ ctx[s].recvStreamStarted
            \/ Moves(s, "recvStart") /\ ~ctx[s].recvStreamStarted
<1>1. StreamOK' /\ Quiet /\ UNCHANGED <<ctx, call, sends, got>>
  BY QuietEffect, Zenon DEF Recv, Types
<1>2. \/ Moves(s, "recvItem") /\ ctx[s].recvStreamStarted
      \/ Moves(s, "recvStart") /\ ~ctx[s].recvStreamStarted
  <2>1. Goto(s, IF ctx[s].recvStreamStarted THEN "recvItem" ELSE "recvStart")
    BY Zenon DEF Recv
  <2> QED
    BY <2>1, GotoEffect, Zenon DEF Types
<1>3. Types'
  BY <1>1, <1>2, TypesKept, Zenon DEF Types, Moves
<1> QED
  BY <1>1, <1>2, <1>3, Zenon DEF Recv, Usable

\* A failed read, with the Context's err.
LEMMA ReadSetsErr ==
  ASSUME Types, NEW s \in Sides, ReadMsg(s) \/ ReadFails(s), UNCHANGED <<first, sends, got>>,
         Set(s, [ctx[s] EXCEPT !.err = TRUE]), Moves(s, "ready")
  PROVE  /\ Types' /\ (Took(s) \/ (closed[s] /\ Quiet))
         /\ ctx'[Peer(s)] = ctx[Peer(s)] /\ SameRecv(s) /\ SameSend(s) /\ ctx'[s].err = TRUE
<1>1. StreamOK' /\ (Took(s) \/ (closed[s] /\ Quiet))
  BY ReadEffect, QuietEffect, Zenon DEF Types, ReadFails
<1>2. OnlyContext(s) /\ SameRecv(s) /\ SameSend(s) /\ ctx'[s].err = TRUE
  BY SetErr, Zenon DEF Types
<1>3. Types'
  BY <1>1, <1>2, TypesKept, Zenon DEF OnlyContext, Moves
<1> QED
  BY <1>1, <1>2, <1>3, Zenon DEF OnlyContext

\* RecvStart.
LEMMA RecvStartDoes ==
  ASSUME Types, NEW s \in Sides, RecvStart(s)
  PROVE  /\ Types' /\ UNCHANGED <<call, sends, got>> /\ pc[s] = "recvStart"
         /\ ctx'[Peer(s)] = ctx[Peer(s)] /\ SameSend(s)
         /\ \/ /\ Took(s) /\ ~closed[s] /\ Head(inbox[s]).kind = "StartStream"
               /\ Moves(s, "recvItem") /\ SameErr(s)
               /\ ctx'[s].hasRecvStream = ctx[s].hasRecvStream
               /\ ctx'[s].recvStreamStarted = TRUE
               /\ ctx'[s].recvStreamError = ctx[s].recvStreamError
            \/ /\ Took(s) \/ (closed[s] /\ Quiet)
               /\ Moves(s, "ready") /\ SameRecv(s) /\ ctx'[s].err = TRUE
<1>1. UNCHANGED <<call, sends, got, first>> /\ pc[s] = "recvStart"
  BY Zenon DEF RecvStart, bounds
<1>2. CASE /\ ReadMsg(s) /\ Head(inbox[s]).kind = "StartStream"
           /\ Set(s, [ctx[s] EXCEPT !.recvStreamStarted = TRUE]) /\ Goto(s, "recvItem")
  <2>1. StreamOK' /\ Took(s) /\ ~closed[s]
    BY <1>1, <1>2, ReadEffect, Zenon DEF Types
  <2>2. /\ OnlyContext(s) /\ SameSend(s) /\ SameErr(s)
        /\ ctx'[s].hasRecvStream = ctx[s].hasRecvStream
        /\ ctx'[s].recvStreamStarted = TRUE
        /\ ctx'[s].recvStreamError = ctx[s].recvStreamError
    BY <1>2, SetRecvStarted, Zenon DEF Types
  <2>3. Moves(s, "recvItem")
    BY <1>2, GotoEffect, Zenon DEF Types
  <2>4. Types'
    BY <1>1, <2>1, <2>2, <2>3, TypesKept, SMTT(30) DEF OnlyContext, Moves
  <2> QED
    BY <1>1, <1>2, <2>1, <2>2, <2>3, <2>4, Zenon DEF OnlyContext
<1>3. CASE /\ ReadMsg(s) \/ ReadFails(s)
           /\ Set(s, [ctx[s] EXCEPT !.err = TRUE]) /\ Goto(s, "ready")
  <2>1. Moves(s, "ready")
    BY <1>3, GotoEffect, Zenon DEF Types
  <2>2. /\ Types' /\ (Took(s) \/ (closed[s] /\ Quiet))
        /\ ctx'[Peer(s)] = ctx[Peer(s)] /\ SameRecv(s) /\ SameSend(s) /\ ctx'[s].err = TRUE
    BY <1>1, <1>3, <2>1, ReadSetsErr, Zenon
  <2> QED
    BY <1>1, <2>1, <2>2, Zenon
<1> QED
  BY <1>2, <1>3, Zenon DEF RecvStart

\* RecvItem.
LEMMA RecvItemDoes ==
  ASSUME Types, NEW s \in Sides, RecvItem(s)
  PROVE  /\ Types' /\ UNCHANGED <<call, sends>> /\ pc[s] = "recvItem" /\ Moves(s, "ready")
         /\ ctx'[Peer(s)] = ctx[Peer(s)] /\ SameSend(s)
         /\ \/ /\ Took(s) /\ ~closed[s] /\ Head(inbox[s]).kind = "StreamItem" /\ ctx' = ctx
               /\ got'[s] = Append(got[s], Head(inbox[s]).n) /\ got'[Peer(s)] = got[Peer(s)]
            \/ Took(s) /\ got' = got /\ SameErr(s) /\ ctx'[s].recvStreamError = TRUE
            \/ /\ Took(s) \/ (closed[s] /\ Quiet)
               /\ got' = got /\ SameRecv(s) /\ ctx'[s].err = TRUE
<1>1. UNCHANGED <<call, sends, first>> /\ pc[s] = "recvItem" /\ Moves(s, "ready")
  BY GotoEffect, Zenon DEF RecvItem, bounds, Types
<1>2. CASE /\ ReadMsg(s) /\ Head(inbox[s]).kind = "StreamItem"
           /\ got' = [got EXCEPT ![s] = Append(@, Head(inbox[s]).n)]
           /\ UNCHANGED ctx
  <2>1. StreamOK' /\ Took(s) /\ ~closed[s]
    BY <1>1, <1>2, ReadEffect, Zenon DEF Types
  <2>2. Head(inbox[s]).n \in Nat
    BY <2>1, Zenon DEF Took, Messages
  <2>3. Append(got[s], Head(inbox[s]).n) \in Seq(Nat)
    BY <2>2 DEF Types
  <2>4. /\ got' \in [Sides -> Seq(Nat)]
        /\ got'[s] = Append(got[s], Head(inbox[s]).n) /\ got'[Peer(s)] = got[Peer(s)]
    BY <1>2, <2>3, Ends, SMTT(30) DEF Types
  <2>5. Types'
    BY <1>1, <1>2, <2>1, <2>4, Zenon DEF Types, Moves
  <2>6. SameSend(s)
    BY <1>2, Zenon DEF SameSend
  <2> QED
    BY <1>1, <1>2, <2>1, <2>4, <2>5, <2>6, Zenon
<1>3. CASE RecvEnd(s)
  <2>1. StreamOK' /\ Took(s) /\ ~closed[s]
    BY <1>1, <1>3, ReadEffect, Zenon DEF Types, RecvEnd
  <2>2. /\ OnlyContext(s) /\ SameSend(s) /\ SameErr(s)
        /\ ctx'[s].recvStreamError = TRUE
    BY <1>3, SetRecvError, Zenon DEF Types, RecvEnd
  <2>3. Types'
    BY <1>1, <1>3, <2>1, <2>2, TypesKept, Zenon DEF OnlyContext, Moves, RecvEnd
  <2> QED
    BY <1>1, <1>3, <2>1, <2>2, <2>3, Zenon DEF OnlyContext, RecvEnd
<1>4. CASE /\ ReadMsg(s) \/ ReadFails(s)
           /\ Set(s, [ctx[s] EXCEPT !.err = TRUE]) /\ UNCHANGED got
  <2>1. /\ Types' /\ (Took(s) \/ (closed[s] /\ Quiet))
        /\ ctx'[Peer(s)] = ctx[Peer(s)] /\ SameRecv(s) /\ SameSend(s) /\ ctx'[s].err = TRUE
    BY <1>1, <1>4, ReadSetsErr, Zenon
  <2> QED
    BY <1>1, <1>4, <2>1, Zenon
<1> QED
  BY <1>2, <1>3, <1>4, Zenon DEF RecvItem

\* The Request of Call.
LEMMA CallRequestDoes ==
  ASSUME Types, NEW b \in BOOLEAN, CallRequest(b)
  PROVE  /\ Types' /\ UNCHANGED <<sends, got>> /\ pc["client"] = "start"
         /\ ctx'["server"] = ctx["server"]
         /\ ctx'["client"].hasRecvStream = FALSE /\ ctx'["client"].hasSendStream = b
         /\ ~ctx'["client"].recvStreamStarted /\ ~ctx'["client"].recvStreamError
         /\ ~ctx'["client"].err
         /\ ~ctx'["client"].sendStreamStarted /\ ~ctx'["client"].sendStreamError
         /\ \/ /\ CanWrite("client") /\ Moves("client", "cancel") /\ call' = "none"
               /\ Wrote("client", Msg("Request", b, 0), ~b)
            \/ ~CanWrite("client") /\ Moves("client", "done") /\ call' = "err" /\ Quiet
<1> DEFINE m == Msg("Request", b, 0)
           e == ~b
<1>1. m \in Messages /\ e \in BOOLEAN
  BY NewMessages, Zenon DEF Kinds
<1>2. /\ WriteOrNot("client", m, e) /\ UNCHANGED <<sends, got>> /\ pc["client"] = "start"
      /\ Set("client", NewCtx(FALSE, b))
  BY Zenon DEF CallRequest, bounds
<1> HIDE DEF m, e
<1>3. /\ OnlyContext("client")
      /\ ctx'["client"].hasRecvStream = FALSE /\ ctx'["client"].hasSendStream = b
      /\ ~ctx'["client"].recvStreamStarted /\ ~ctx'["client"].recvStreamError
      /\ ~ctx'["client"].err
      /\ ~ctx'["client"].sendStreamStarted /\ ~ctx'["client"].sendStreamError
  BY <1>2, SetNew, Ends, Zenon DEF Types
<1>4. CASE CanWrite("client")
  <2>1. StreamOK' /\ Wrote("client", m, e)
    BY <1>1, <1>2, <1>4, WriteEffect, Ends DEF Types
  <2>2. Moves("client", "cancel") /\ call' = "none"
    BY <1>4, GotoEffect, Ends, Zenon DEF CallRequest, CallGoes, Types
  <2>3. Types'
    BY <1>2, <1>3, <2>1, <2>2, TypesKept, Zenon DEF OnlyContext, Moves
  <2> QED
    BY <1>2, <1>3, <1>4, <2>1, <2>2, <2>3, Ends, Zenon DEF OnlyContext, m, e
<1>5. CASE ~CanWrite("client")
  <2>1. StreamOK' /\ Quiet
    BY <1>2, <1>5, NoWriteEffect, Ends, Zenon DEF Types
  <2>2. Moves("client", "done") /\ call' = "err"
    BY <1>5, GotoEffect, Ends, Zenon DEF CallRequest, CallGoes, Types
  <2>3. Types'
    BY <1>2, <1>3, <2>1, <2>2, TypesKept, Zenon DEF OnlyContext, Moves
  <2> QED
    BY <1>2, <1>3, <1>5, <2>1, <2>2, <2>3, Ends, Zenon DEF OnlyContext
<1> QED
  BY <1>4, <1>5, Zenon

\* The other steps of Call.
LEMMA CallUnencodableDoes ==
  ASSUME Types, CallUnencodable
  PROVE  /\ Types' /\ UNCHANGED <<ctx, sends, got>> /\ pc["client"] = "start"
         /\ Moves("client", "done") /\ call' = "err"
         /\ IF CanWrite("client") THEN WasReset("client") ELSE Quiet
<1>1. /\ UNCHANGED <<ctx, sends, got>> /\ pc["client"] = "start"
      /\ Moves("client", "done") /\ call' = "err"
  BY GotoEffect, Ends, Zenon DEF CallUnencodable, CallGoes, bounds, Types
<1>2. StreamOK' /\ IF CanWrite("client") THEN WasReset("client") ELSE Quiet
  BY ResetEffect, Ends, Zenon DEF CallUnencodable, Types
<1>3. Types'
  BY <1>1, <1>2, TypesKept, Zenon DEF Types, Moves
<1> QED
  BY <1>1, <1>2, <1>3, Zenon

\* Call goes on, or cancelErr resets the stream.
LEMMA CallCancelDoes ==
  ASSUME Types, CallCancel
  PROVE  /\ Types' /\ UNCHANGED <<ctx, sends, got>> /\ pc["client"] = "cancel"
         /\ \/ /\ Quiet /\ UNCHANGED call
               /\ \/ ctx["client"].hasSendStream /\ Moves("client", "startStream")
                  \/ ~ctx["client"].hasSendStream /\ Moves("client", "response")
            \/ /\ Moves("client", "done") /\ call' = "nil"
               /\ IF CanWrite("client") THEN WasReset("client") ELSE Quiet
<1>1. UNCHANGED <<ctx, sends, got, first>> /\ pc["client"] = "cancel"
  BY Zenon DEF CallCancel, bounds
<1>2. CASE /\ Goto("client", IF ctx["client"].hasSendStream THEN "startStream" ELSE "response")
           /\ UNCHANGED <<stream, call>>
  <2>1. StreamOK' /\ Quiet
    BY <1>1, <1>2, QuietEffect, Zenon DEF Types
  <2>2. \/ ctx["client"].hasSendStream /\ Moves("client", "startStream")
        \/ ~ctx["client"].hasSendStream /\ Moves("client", "response")
    BY <1>2, GotoEffect, Ends, Zenon DEF Types
  <2>3. Types'
    BY <1>1, <2>1, <2>2, TypesKept, Zenon DEF Types, Moves
  <2> QED
    BY <1>1, <1>2, <2>1, <2>2, <2>3, Zenon
<1>3. CASE Reset("client") /\ CallGoes("done", "nil")
  <2>1. StreamOK' /\ IF CanWrite("client") THEN WasReset("client") ELSE Quiet
    BY <1>1, <1>3, ResetEffect, Ends, Zenon DEF Types
  <2>2. Moves("client", "done") /\ call' = "nil"
    BY <1>3, GotoEffect, Ends, Zenon DEF Types, CallGoes
  <2>3. Types'
    BY <1>1, <2>1, <2>2, TypesKept, Zenon DEF Types, Moves
  <2> QED
    BY <1>1, <2>1, <2>2, <2>3, Zenon
<1> QED
  BY <1>2, <1>3, Zenon DEF CallCancel

\* Call announces its own stream.
LEMMA CallStartStreamDoes ==
  ASSUME Types, CallStartStream
  PROVE  /\ Types' /\ UNCHANGED <<ctx, sends, got>> /\ pc["client"] = "startStream"
         /\ \/ /\ CanWrite("client") /\ Moves("client", "response") /\ call' = "none"
               /\ Wrote("client", Msg("StartStream", FALSE, 0), FALSE)
            \/ ~CanWrite("client") /\ Moves("client", "done") /\ call' = "err" /\ Quiet
<1> DEFINE m == Msg("StartStream", FALSE, 0)
<1>1. m \in Messages
  BY NewMessages, Zenon DEF Kinds
<1>2. /\ WriteOrNot("client", m, FALSE) /\ UNCHANGED <<ctx, sends, got>>
      /\ pc["client"] = "startStream"
  BY Zenon DEF CallStartStream, bounds
<1> HIDE DEF m
<1>3. CASE CanWrite("client")
  <2>1. StreamOK' /\ Wrote("client", m, FALSE)
    BY <1>1, <1>2, <1>3, WriteEffect, Ends, Zenon DEF Types
  <2>2. Moves("client", "response") /\ call' = "none"
    BY <1>3, GotoEffect, Ends, Zenon DEF CallStartStream, CallGoes, Types
  <2>3. Types'
    BY <1>2, <2>1, <2>2, TypesKept, Zenon DEF Types, Moves
  <2> QED
    BY <1>2, <1>3, <2>1, <2>2, <2>3, Zenon DEF m
<1>4. CASE ~CanWrite("client")
  <2>1. StreamOK' /\ Quiet
    BY <1>2, <1>4, NoWriteEffect, Ends, Zenon DEF Types
  <2>2. Moves("client", "done") /\ call' = "err"
    BY <1>4, GotoEffect, Ends, Zenon DEF CallStartStream, CallGoes, Types
  <2>3. Types'
    BY <1>2, <2>1, <2>2, TypesKept, Zenon DEF Types, Moves
  <2> QED
    BY <1>2, <1>4, <2>1, <2>2, <2>3, Zenon
<1> QED
  BY <1>3, <1>4, Zenon

\* Call reads the Response, or what comes in its place.
LEMMA CallResponseDoes ==
  ASSUME Types, CallResponse
  PROVE  /\ Types' /\ UNCHANGED <<sends, got>> /\ pc["client"] = "response"
         /\ ctx'["server"] = ctx["server"]
         /\ \/ /\ Took("client") /\ ~closed["client"] /\ Head(inbox["client"]).kind = "Response"
               /\ Moves("client", "ready") /\ call' = "ctx"
               /\ ctx'["client"].hasRecvStream = Head(inbox["client"]).streaming
               /\ ctx'["client"].hasSendStream = ctx["client"].hasSendStream
               /\ ~ctx'["client"].recvStreamStarted /\ ~ctx'["client"].recvStreamError
               /\ ~ctx'["client"].err
               /\ ~ctx'["client"].sendStreamStarted /\ ~ctx'["client"].sendStreamError
            \/ /\ (CanWrite("client") /\ WasReset("client")) \/ Quiet
               /\ Moves("client", "done") /\ call' = "err" /\ ctx' = ctx
<1>1. UNCHANGED <<sends, got, first>> /\ pc["client"] = "response"
  BY SMTT(30) DEF CallResponse, bounds
<1>2. CASE /\ Head(inbox["client"]).kind = "Response" /\ ReadMsg("client")
           /\ Set("client", CallContext(Head(inbox["client"]).streaming))
           /\ CallGoes("ready", "ctx")
  <2>1. StreamOK' /\ Took("client") /\ ~closed["client"]
    BY <1>1, <1>2, ReadEffect, Ends, Zenon DEF Types
  <2> DEFINE a == Head(inbox["client"]).streaming
             b == ctx["client"].hasSendStream
  <2>2. a \in BOOLEAN /\ b \in BOOLEAN
    BY <2>1, Ends, SMTT(30) DEF Took, Messages, Types, Contexts
  <2>3. Set("client", NewCtx(a, b))
    BY <1>2, Zenon DEF CallContext
  <2> HIDE DEF a, b
  <2>4. /\ OnlyContext("client")
        /\ ctx'["client"].hasRecvStream = a /\ ctx'["client"].hasSendStream = b
        /\ ~ctx'["client"].recvStreamStarted /\ ~ctx'["client"].recvStreamError
        /\ ~ctx'["client"].err
        /\ ~ctx'["client"].sendStreamStarted /\ ~ctx'["client"].sendStreamError
    BY <2>2, <2>3, SetNew, Ends, Zenon DEF Types
  <2>5. Moves("client", "ready") /\ call' = "ctx"
    BY <1>2, GotoEffect, Ends, Zenon DEF CallGoes, Types
  <2>6. Types'
    BY <1>1, <2>1, <2>4, <2>5, TypesKept, Zenon DEF OnlyContext, Moves
  <2> QED
    BY <1>1, <1>2, <2>1, <2>4, <2>5, <2>6, Ends, Zenon DEF OnlyContext, a, b
<1>3. CASE (Reset("client") \/ ReadFails("client")) /\ CallGoes("done", "err") /\ UNCHANGED ctx
  <2>1. StreamOK' /\ ((CanWrite("client") /\ WasReset("client")) \/ Quiet)
    BY <1>1, <1>3, ResetEffect, QuietEffect, Ends, Zenon DEF Types, ReadFails
  <2>2. Moves("client", "done") /\ call' = "err"
    BY <1>3, GotoEffect, Ends, Zenon DEF CallGoes, Types
  <2>3. Types'
    BY <1>1, <1>3, <2>1, <2>2, TypesKept, Zenon DEF Types, Moves
  <2> QED
    BY <1>1, <1>3, <2>1, <2>2, <2>3, Zenon
<1> QED
  BY <1>2, <1>3, Zenon DEF CallResponse

\* ServiceStream.
LEMMA ServeStartDoes ==
  ASSUME Types, ServeStart
  PROVE  /\ Types' /\ UNCHANGED <<ctx, call, sends, got>> /\ pc["server"] = "start"
         /\ \/ Moves("server", "request") /\ Quiet
            \/ /\ Moves("server", "done")
               /\ IF CanWrite("server") THEN WasReset("server") ELSE Quiet
<1>1. UNCHANGED <<ctx, call, sends, got, first>> /\ pc["server"] = "start"
  BY Zenon DEF ServeStart, bounds
<1>2. /\ StreamOK'
      /\ \/ Moves("server", "request") /\ Quiet
         \/ /\ Moves("server", "done")
            /\ IF CanWrite("server") THEN WasReset("server") ELSE Quiet
  <2>1. CASE Goto("server", "request") /\ UNCHANGED stream
    BY <1>1, <2>1, QuietEffect, GotoEffect, Ends, Zenon DEF Types
  <2>2. CASE Goto("server", "done") /\ Reset("server")
    BY <1>1, <2>2, ResetEffect, GotoEffect, Ends, Zenon DEF Types
  <2> QED
    BY <2>1, <2>2, Zenon DEF ServeStart
<1>3. Types'
  BY <1>1, <1>2, TypesKept, Zenon DEF Types, Moves
<1> QED
  BY <1>1, <1>2, <1>3, Zenon

\* ServiceStream takes the Request.
LEMMA ServeRequestDoes ==
  ASSUME Types, ServeRequest
  PROVE  /\ Types' /\ UNCHANGED <<call, sends, got>> /\ pc["server"] = "request"
         /\ Took("server") /\ ~closed["server"] /\ Moves("server", "ready")
         /\ ctx'["client"] = ctx["client"]
         /\ ctx'["server"].hasRecvStream = Head(inbox["server"]).streaming
         /\ ~ctx'["server"].hasSendStream
         /\ ~ctx'["server"].recvStreamStarted /\ ~ctx'["server"].recvStreamError
         /\ ~ctx'["server"].err
         /\ ~ctx'["server"].sendStreamStarted /\ ~ctx'["server"].sendStreamError
<1>1. UNCHANGED <<call, sends, got, first>> /\ pc["server"] = "request"
  BY Zenon DEF ServeRequest, bounds
<1>2. StreamOK' /\ Took("server") /\ ~closed["server"]
  BY <1>1, ReadEffect, Ends, Zenon DEF Types, ServeRequest
<1>3. Moves("server", "ready")
  BY GotoEffect, Ends, Zenon DEF ServeRequest, Types
<1> DEFINE a == Head(inbox["server"]).streaming
<1>4. a \in BOOLEAN /\ Set("server", NewCtx(a, FALSE))
  BY <1>2, Zenon DEF Took, Messages, ServeRequest
<1> HIDE DEF a
<1>5. /\ OnlyContext("server")
      /\ ctx'["server"].hasRecvStream = a /\ ctx'["server"].hasSendStream = FALSE
      /\ ~ctx'["server"].recvStreamStarted /\ ~ctx'["server"].recvStreamError
      /\ ~ctx'["server"].err
      /\ ~ctx'["server"].sendStreamStarted /\ ~ctx'["server"].sendStreamError
  BY <1>4, SetNew, Ends, Zenon DEF Types
<1>6. Types'
  BY <1>1, <1>2, <1>3, <1>5, TypesKept, Zenon DEF OnlyContext, Moves
<1> QED
  BY <1>1, <1>2, <1>3, <1>5, <1>6, Ends, Zenon DEF OnlyContext, a

\* ServiceStream reads what is no Request, and answers it.
LEMMA ServeRejectDoes ==
  ASSUME Types, ServeReject
  PROVE  /\ Types' /\ UNCHANGED <<ctx, call, sends, got, closed, rst>> /\ pc["server"] = "request"
         /\ Moves("server", "done")
         /\ \/ /\ inbox["server"] # <<>> /\ inbox'["server"] = Tail(inbox["server"])
               /\ ~closed["server"]
               /\ inbox'["client"] = IF closed["client"] THEN inbox["client"]
                                     ELSE Append(inbox["client"], Msg("Response", FALSE, 0))
               /\ ended'["server"] = TRUE /\ ended'["client"] = ended["client"]
               /\ first'["server"] = "Response"
            \/ Quiet
<1>1. /\ UNCHANGED <<ctx, call, sends, got>> /\ pc["server"] = "request"
      /\ Moves("server", "done")
  BY GotoEffect, Ends, Zenon DEF ServeReject, bounds, Types
<1>2. StreamOK'
  BY ServeRejectEffect, Zenon DEF Types
<1>3. Types'
  BY <1>1, <1>2, TypesKept, Zenon DEF Types, Moves
<1> QED
  BY <1>1, <1>3, ServeRejectEffect, Ends, Zenon DEF Types, StreamOK, Quiet

\* SendResponse sets the Context and writes the Response.
LEMMA SendResponseDoes ==
  ASSUME Types, NEW b \in BOOLEAN, NEW l, SendResponse(b, l)
  PROVE  /\ Types' /\ UNCHANGED <<call, sends, got>> /\ pc["server"] = "ready"
         /\ Moves("server", l) /\ ctx'["client"] = ctx["client"]
         /\ SameRecv("server") /\ SameErr("server")
         /\ ctx'["server"].hasSendStream = b /\ ctx'["server"].sendStreamStarted = FALSE
         /\ ctx'["server"].sendStreamError = ctx["server"].sendStreamError
         /\ \/ CanWrite("server") /\ Wrote("server", Msg("Response", b, 0), ~b)
            \/ ~CanWrite("server") /\ Quiet
<1> DEFINE m == Msg("Response", b, 0)
           e == ~b
<1>1. m \in Messages /\ e \in BOOLEAN
  BY NewMessages, Zenon DEF Kinds
<1>2. /\ WriteOrNot("server", m, e) /\ UNCHANGED <<call, sends, got>> /\ pc["server"] = "ready"
      /\ Moves("server", l)
  BY GotoEffect, Ends, Zenon DEF SendResponse, Types
<1>3. /\ OnlyContext("server") /\ SameRecv("server") /\ SameErr("server")
      /\ ctx'["server"].hasSendStream = b /\ ctx'["server"].sendStreamStarted = FALSE
      /\ ctx'["server"].sendStreamError = ctx["server"].sendStreamError
  BY SetResponse, Ends, Zenon DEF SendResponse, Types
<1> HIDE DEF m, e
<1>4. /\ StreamOK'
      /\ \/ CanWrite("server") /\ Wrote("server", m, e)
         \/ ~CanWrite("server") /\ Quiet
  BY <1>1, <1>2, WriteEffect, NoWriteEffect, Ends, SMTT(30) DEF Types
<1>5. Types'
  BY <1>2, <1>3, <1>4, TypesKept, Zenon DEF OnlyContext, Moves
<1> QED
  BY <1>2, <1>3, <1>4, <1>5, Ends, Zenon DEF OnlyContext, m, e

\* The handler or an interceptor returns.
LEMMA ReturnDoes ==
  ASSUME Types, HandlerReturns \/ InterceptorReturns, ~SendResponse(FALSE, "done")
  PROVE  /\ Types' /\ Quiet /\ UNCHANGED <<ctx, call, sends, got>> /\ pc["server"] = "ready"
         /\ Moves("server", "done") \/ Moves("server", "swallowed")
<1>1. /\ UNCHANGED <<ctx, call, sends, got, first, stream>> /\ pc["server"] = "ready"
      /\ Moves("server", "done") \/ Moves("server", "swallowed")
  BY GotoEffect, Ends, Zenon DEF HandlerReturns, InterceptorReturns, bounds, Types
<1>2. StreamOK' /\ Quiet
  BY <1>1, QuietEffect, Zenon DEF Types
<1>3. Types'
  BY <1>1, <1>2, TypesKept, Zenon DEF Types, Moves
<1> QED
  BY <1>1, <1>2, <1>3, Zenon

\* The handler returns an error, which goes out as a Response.
LEMMA HandlerFailsDoes ==
  ASSUME Types, HandlerFails
  PROVE  /\ Types' /\ UNCHANGED <<ctx, call, sends, got>> /\ pc["server"] = "ready"
         /\ Moves("server", "failed") /\ ErrorMsg \in Messages
         /\ \/ CanWrite("server") /\ Wrote("server", ErrorMsg, TRUE)
            \/ ~CanWrite("server") /\ Quiet
<1>1. ErrorMsg \in Messages
  BY NewMessages, Zenon
<1>2. /\ WriteOrNot("server", ErrorMsg, TRUE) /\ UNCHANGED <<ctx, call, sends, got>>
      /\ pc["server"] = "ready" /\ Moves("server", "failed")
  BY GotoEffect, Ends, Zenon DEF HandlerFails, bounds, Types
<1>3. /\ StreamOK'
      /\ \/ CanWrite("server") /\ Wrote("server", ErrorMsg, TRUE)
         \/ ~CanWrite("server") /\ Quiet
  BY <1>1, <1>2, WriteEffect, NoWriteEffect, Ends, Zenon DEF Types
<1>4. Types'
  BY <1>2, <1>3, TypesKept, Zenon DEF Types, Moves
<1> QED
  BY <1>1, <1>2, <1>3, <1>4, Zenon

\* A RESET_STREAM arrives.
LEMMA RecvResetDoes ==
  ASSUME Types, NEW s \in Sides, RecvReset(s)
  PROVE  /\ Types' /\ UNCHANGED <<ctx, pc, call, sends, got, first>>
<1>1. UNCHANGED <<ctx, pc, call, sends, got, first>>
  BY Zenon DEF RecvReset, bounds
<1>2. StreamOK'
  BY RecvResetEffect, Zenon DEF Types
<1> QED
  BY <1>1, <1>2, TypesKept, Zenon DEF Types
=============================================================================

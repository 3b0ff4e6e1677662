------------------------------ MODULE Transfer ------------------------------
(***************************************************************************)
(* The path of messages from one end of a stream to the other: Wrap        *)
(* (Message), the stream and its connection down to bytes (Framing),       *)
(* MessageFromReader.                                                      *)
(***************************************************************************)
EXTENDS Framing, Message

CONSTANTS
  Messages,  \* of each sender: for each message of the stream, the choices
  Orders     \* orders of iteration over a struct's fields

VARIABLES msgs, read  \* messages written, messages read

vars == <<framing, msgs, read>>

Init == FramingInit /\ msgs = <<>> /\ read = <<>>

\* The endStream argument of the Write: nothing follows this message.
Ends(m) ==
  \/ m[1] \in {"EndStream", "StreamError"}
  \/ m[1] = "Request" /\ ~m[4]
  \/ m[1] = "Response" /\ ~m[3]

\* Wrap, then stream.Write.
WriteMessage(m) ==
  /\ Write(Wrap(m), Ends(m))
  /\ msgs' = Append(msgs, m)
  /\ UNCHANGED read

\* MessageFromReader on the stream; a Context stops at the first error.
ReadMessage(order) ==
  LET d == MessageFromReader(Reader(blocks, order)) IN
  /\ Len(read) < whole
  /\ read # <<>> => Last(read).ok
  /\ read' = Append(read, [ok |-> d.ok, m |-> d.v, short |-> d.r.short])
  /\ blocks' = d.r.blocks
  /\ Consume
  /\ UNCHANGED msgs

Next ==
  \/ Carry /\ UNCHANGED <<msgs, read>>
  \/ Len(msgs) < Len(Messages[from]) /\ \E m \in Messages[from][Len(msgs) + 1] : WriteMessage(m)
  \/ \E order \in Orders : ReadMessage(order)

Spec == Init /\ [][Next]_vars

---------------------------------------------------------------------------
\* What the receiver may expect.

\* The value DecodeAny gives for v, when nothing is lost.
RECURSIVE Plain(_)
Plain(v) ==
  CASE v[1] = "int" -> <<"u64", v[4]>>
    [] v[1] = "float" -> <<"f64", v[3]>>
    [] v[1] = "ptr" -> Plain(v[2])
    [] v[1] = "array" -> <<"array", [i \in DOMAIN v[2] |-> Plain(v[2][i])]>>
    [] v[1] = "map" ->
         <<"map", [i \in DOMAIN v[2] |-> <<Plain(v[2][i][1]), Plain(v[2][i][2])>>]>>
    [] OTHER -> v
PlainAll(vs) == [i \in DOMAIN vs |-> Plain(vs[i])]
PlainMessage(m) ==
  CASE m[1] = "Request" -> Request(m[2], m[3], m[4], m[5], PlainAll(m[6]))
    [] m[1] = "Response" -> Response(m[2], m[3], m[4], PlainAll(m[5]))
    [] m[1] = "StreamItem" -> StreamItem(Plain(m[2]))
    [] OTHER -> m

\* The codec loses nothing of v: the shapes it does not carry are left out.
Elementary == {"int", "bool", "float", "string", "bytes"}
RECURSIVE Carried(_), CarriedAs(_, _)
CarriedAs(v, T) ==
  CASE v[1] = "int" -> v[4] >= 0 \/ v[4] = -(2 ^ (v[2] - 1))
    [] v[1] = "array" -> \A i \in DOMAIN v[2] :
         T[2][1] \in Elementary \cup {"struct"} /\ CarriedAs(v[2][i], T[2])
    [] v[1] = "map" -> \A i \in DOMAIN v[2] :
         /\ T[3][1] \in Elementary \cup {"struct"}
         /\ CarriedAs(v[2][i][1], T[2]) /\ CarriedAs(v[2][i][2], T[3])
    [] v[1] = "ptr" -> T[2][1] \in Elementary \cup {"struct"} /\ CarriedAs(v[2], T[2])
    [] OTHER -> Carried(v)
Carried(v) ==
  CASE v[1] = "int" -> v[4] >= 0
    [] v[1] = "float" -> v[3] # NegZero
    [] v[1] = "ptr" -> Carried(v[2])
    [] v[1] = "array" -> \A i \in DOMAIN v[2] : Carried(v[2][i])
    [] v[1] = "map" -> \A i \in DOMAIN v[2] : Carried(v[2][i][1]) /\ Carried(v[2][i][2])
    [] v[1] = "struct" ->
         /\ DOMAIN v[3] = DOMAIN Registry[v[2]]
         /\ \A i \in DOMAIN v[3] : CarriedAs(v[3][i], Registry[v[2]][i])
    [] OTHER -> TRUE

Parts(m) == CASE m[1] = "Request" -> m[6] [] m[1] = "Response" -> m[5]
              [] m[1] = "StreamItem" -> <<m[2]>> [] OTHER -> <<>>
Counted(m) == Len(Parts(m)) <= MaxUint16
CarriedMessage(m) == Counted(m) /\ \A i \in DOMAIN Parts(m) : Carried(Parts(m)[i])

\* No decoder took less than it wanted up to the i-th message read.
Unbroken(i) == \A j \in 1 .. i : ~read[j].short /\ Counted(msgs[j])

\* Nothing is under way, and all that arrived was read.
AtRest == Arrived /\ Len(read) = whole

TypeOK ==
  /\ Len(msgs) = Len(writes) /\ Len(msgs) <= Len(Messages[from])
  /\ Len(read) <= Len(msgs) /\ whole <= Len(msgs)
  /\ \A i \in DOMAIN wire : wire[i] \in 0 .. 255

\* Messages are read as they were written and in order, as long as the codec
\* carries their values and no string or byte slice straddled two segments,
\* which takes a message of several segments (decodeString and decodeBytes
\* read the contents with one Read).
MessagesIntact ==
  \A i \in DOMAIN read :
    /\ Unbroken(i) /\ CarriedMessage(msgs[i]) =>
         read[i].ok /\ read[i].m = PlainMessage(msgs[i])
    /\ read[i].short /\ (\A j \in 1 .. i - 1 : Unbroken(j)) =>
         Len(Wrap(msgs[i])) > maxPayload

\* What the codec cannot carry is lost from its own message only: reading it
\* succeeds and leaves the stream at the start of the next one.
SelfDelimiting ==
  /\ \A i \in DOMAIN read : Unbroken(i) => read[i].ok
  /\ AtRest /\ Unbroken(whole) /\ ~EndsInSegments => blocks = <<>>

\* A field of a decoded struct has the value that was sent, without its sign,
\* or its zero value: decodeIntoInstance and setValue drop but never mix.
Unsigned(v) == IF v[1] = "int" THEN [v EXCEPT ![4] = Truncate(v[2], v[3], Magnitude(v[2], @) % 2 ^ Wide)] ELSE v
FieldsKeptOrZero ==
  \A i \in DOMAIN read :
    Unbroken(i) /\ msgs[i][1] = "StreamItem" /\ msgs[i][2][1] = "struct" =>
      LET s == msgs[i][2]  known == Registry[s[2]] IN
      \A f \in DOMAIN known :
        read[i].m[2][3][f] \in {Zero(known[f])} \cup {Unsigned(s[3][g]) : g \in {f} \cap DOMAIN s[3]}

\* A response that takes several segments is read as it was written.
LargeResponseSurvives ==
  \A i \in DOMAIN read : msgs[i][1] = "Response" => read[i].m = PlainMessage(msgs[i])
=============================================================================

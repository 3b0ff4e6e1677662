------------------------------- MODULE Framing ------------------------------
(***************************************************************************)
(* The path of what is written on a stream from one end to the other, down *)
(* to bytes: stream.Write, DataFramesFromBuffer (wire/data.go),            *)
(* Frame.Bytes, the network, FrameReader.Read, FromFrame, the blocks of    *)
(* the stream.  The sender is the client or the server of the connection;  *)
(* frames of other kinds come between the segments of what it writes.  The *)
(* connection may be cut at any byte.                                      *)
(***************************************************************************)
EXTENDS Frame

CONSTANTS
  Methods,      \* compression methods the client may ask for
  Buffers,      \* what may be written on the stream
  Controls,     \* of each sender: frames written between those of the stream
  MaxControls   \* bound on the other frames sent

\* The other frames fit the wire format; those of the stream and the HELLO are
\* written by the actions below.
ASSUME FramingAssumption ==
  /\ Methods \subseteq {"none", "gzip"} /\ Buffers \subseteq Seq(Nat) /\ MaxControls \in Nat
  /\ \A s \in {"client", "server"} : \A f \in Controls[s] :
       Fits(f) /\ f.kind \notin {"HELLO", "DATA"}

VARIABLES
  from, method,      \* the sender, the compression the client asked for
  writes, pending,   \* arguments of each stream.Write, frames of the last left to write
  sent, controls,    \* frames written; how many of Controls
  wire, cut,         \* bytes under way; the connection was cut
  got, receiving,    \* frames accepted; the read loop goes on
  blocks, whole      \* the stream's unread blocks; messages complete so far

sender == <<from, method, writes, pending, sent, controls>>
receiver == <<got, receiving, blocks, whole>>
framing == <<sender, wire, cut, receiver>>

FramingInit ==
  /\ from \in {"client", "server"} /\ method \in Methods
  /\ writes = <<>> /\ pending = <<>> /\ sent = <<>> /\ controls = 0
  /\ wire = <<>> /\ cut = FALSE
  /\ got = <<>> /\ receiving = TRUE
  /\ blocks = <<>> /\ whole = 0

StreamID == 1
maxPayload == MaxUint16

\* The i-th segment of n, which starts where i - 1 full ones end.
Segment(endStream, buffer, i, n) ==
  LET written == (i - 1) * maxPayload
      toWrite == SmallerOf(Len(buffer) - written, maxPayload)
  IN  Data(StreamID, i = n, endStream, SubSeq(buffer, written + 1, written + toWrite))

\* Mutant: the number of segments is rounded down.
DataFramesRoundedDown(endStream, buffer) ==
  LET n == Len(buffer) \div maxPayload IN [i \in 1 .. n |-> Segment(endStream, buffer, i, n)]

\* DataFramesFromBuffer
DataFrames(endStream, buffer) ==
  LET n == IF Len(buffer) <= maxPayload THEN 1
           ELSE (Len(buffer) + maxPayload - 1) \div maxPayload
  IN  [i \in 1 .. n |-> Segment(endStream, buffer, i, n)]

---------------------------------------------------------------------------
\* handleHello: the server compresses from its answer on; a client when that
\* answer reaches it, which it does not (Delivered).
Compression == IF from = "server" THEN method ELSE "none"

\* The sender's write loop: Frame.Bytes, onto the network.  What is written
\* after the end of the connection reaches nobody and is left out.
Transmit(f) ==
  /\ ~cut /\ receiving
  /\ wire' = wire \o Bytes(IntoFrame(f), Compression)
  /\ sent' = Append(sent, f)
  /\ UNCHANGED <<from, method, cut, receiver>>

Handshake ==
  /\ sent = <<>>
  /\ Transmit(Hello(from = "server", method = "gzip", 0))
  /\ UNCHANGED <<writes, pending, controls>>

\* stream.Write, refused once the local side has ended the stream.
Write(buffer, endStream) ==
  /\ sent # <<>> /\ pending = <<>> /\ ~cut /\ receiving
  /\ writes # <<>> => ~writes[Len(writes)].end
  /\ writes' = Append(writes, [data |-> buffer, end |-> endStream])
  /\ pending' = DataFrames(endStream, buffer)
  /\ UNCHANGED <<from, method, sent, controls, wire, cut, receiver>>

WriteSegment ==
  /\ pending # <<>>
  /\ Transmit(Head(pending))
  /\ pending' = Tail(pending)
  /\ UNCHANGED <<writes, controls>>

WriteControl(f) ==
  /\ sent # <<>> /\ controls < MaxControls
  /\ controls' = controls + 1
  /\ Transmit(f)
  /\ UNCHANGED <<writes, pending>>

\* The connection is lost, and with it what follows the first n bytes, which
\* hold no whole frame: those before were read earlier.
Cut(n) ==
  /\ ~cut /\ receiving /\ cut' = TRUE
  /\ ReadFrame(SubSeq(wire, 1, n)).st = "wait"
  /\ wire' = SubSeq(wire, 1, n)
  /\ UNCHANGED <<sender, receiver>>

---------------------------------------------------------------------------
\* The receiver's read loop.

RemoteEnded == \E i \in DOMAIN got : got[i].kind = "DATA" /\ got[i].endStream

\* stream.handleData: after END_STREAM a DATA frame is refused.
HandleData(f) ==
  IF f.kind # "DATA" \/ RemoteEnded THEN UNCHANGED <<blocks, whole>>
  ELSE /\ blocks' = Append(blocks, f.payload)
       /\ whole' = whole + (IF f.endData THEN 1 ELSE 0)

\* Conn.handleGoAway: the stream is reset, which drops what it holds, and the
\* connection ends.  A client goes on reading after a GOAWAY.
HandleGoAway ==
  /\ receiving' = FALSE /\ wire' = <<>>
  /\ blocks' = <<>> /\ whole' = 0

Receive ==
  LET x == ReadFrame(wire)
      f == FromFrame(x.frame)
  IN
  /\ receiving /\ x.st = "ok" /\ Accepts(x.frame)
  /\ got' = Append(got, f)
  /\ IF f.kind = "GO_AWAY" /\ from = "client" THEN HandleGoAway
     ELSE /\ wire' = SubSeq(wire, x.n + 1, Len(wire))
          /\ HandleData(f)
          /\ UNCHANGED receiving
  /\ UNCHANGED <<sender, cut>>

\* An unknown header, a frame that FromFrame refuses, or end of file: the
\* connection ends, and what it holds is dropped.
ReceiveFails ==
  LET x == ReadFrame(wire) IN
  /\ receiving
  /\ \/ x.st = "bad"
     \/ x.st = "wait" /\ cut
     \/ x.st = "ok" /\ ~Accepts(x.frame)
  /\ receiving' = FALSE /\ wire' = <<>>
  /\ UNCHANGED <<sender, cut, got, blocks, whole>>

\* The reader of the stream takes some of what the blocks hold.
Consume == UNCHANGED <<sender, wire, cut, got, receiving, whole>>

\* The steps of the connection's own goroutines and of the network.
Carry ==
  \/ Handshake \/ WriteSegment \/ Receive \/ ReceiveFails
  \/ \E f \in Controls[from] : WriteControl(f)
  \/ \E n \in 0 .. Len(wire) : Cut(n)

FramingNext ==
  \/ Carry \/ Consume
  \/ \E buffer \in Buffers, endStream \in BOOLEAN : Write(buffer, endStream)

FramingSpec == FramingInit /\ [][FramingNext]_framing

---------------------------------------------------------------------------
\* Nothing is under way.
Arrived == pending = <<>> /\ wire = <<>> /\ ~cut /\ receiving

EndsInSegments ==
  /\ writes # <<>> /\ writes[Len(writes)].end
  /\ Len(writes[Len(writes)].data) > maxPayload

\* Frames arrive as they were written, each once and in order, whatever comes
\* between the segments of a message and wherever the connection is cut
\* (Frame.Bytes, FrameReader.Read, FromFrame).
Frames == INSTANCE Fifo WITH in <- sent, out <- got
FramesArriveInOrder == Frames!Spec

\* Once everything is transferred, every message written is there to be read,
\* except one that ends the stream and has several segments: those after the
\* first are refused (DataFramesFromBuffer marks each with END_STREAM;
\* handleData).  A client that asked for compression accepts no frame at all:
\* payloads are compressed from the HELLO on, and no reader decompresses.
Delivered ==
  /\ Arrived => \/ whole = Len(writes)
                \/ whole = Len(writes) - 1 /\ EndsInSegments
  /\ from = "server" /\ method = "gzip" => got = <<>>
=============================================================================

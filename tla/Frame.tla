-------------------------------- MODULE Frame -------------------------------
(***************************************************************************)
(* wire/frame.go, frame_kind.go, frame_reader.go, compression.go: what a   *)
(* frame looks like on the wire.  A byte is a natural number.  The text    *)
(* and the type of an error are left out.                                  *)
(***************************************************************************)
EXTENDS Digits

Magic == <<97, 114, 102>>
HeaderLen == Len(Magic) + 4 + 1 + 1 + 2

FrameKind == [HELLO |-> 0, PING |-> 1, GO_AWAY |-> 2, MAKE_STREAM |-> 3,
              RESET_STREAM |-> 4, DATA |-> 5]
Kinds == {FrameKind[k] : k \in DOMAIN FrameKind}
Associated == {FrameKind[k] : k \in {"MAKE_STREAM", "RESET_STREAM", "DATA"}}

Flag(on, mask) == IF on THEN mask ELSE 0
Bit(flags, mask) == (flags \div mask) % 2 = 1

Uint32 == 0 .. MaxUint32

Raw(id, kind, flags, payload) ==
  [id |-> id, kind |-> FrameKind[kind], flags |-> flags, payload |-> payload]

\* The frames, as the structs of frame.go.
Hello(ack, gzip, max) == [kind |-> "HELLO", ack |-> ack, gzip |-> gzip, max |-> max]
Ping(ack, payload) == [kind |-> "PING", ack |-> ack, payload |-> payload]
GoAway(last, code, data) == [kind |-> "GO_AWAY", last |-> last, code |-> code, data |-> data]
MakeStream(id) == [kind |-> "MAKE_STREAM", id |-> id]
ResetStream(id, code) == [kind |-> "RESET_STREAM", id |-> id, code |-> code]
Data(id, endData, endStream, payload) ==
  [kind |-> "DATA", id |-> id, endData |-> endData, endStream |-> endStream,
   payload |-> payload]

\* f is a frame whose fields fit the widths the wire format has for them.
Fits(f) ==
  \/ /\ f.kind = "HELLO" /\ f = Hello(f.ack, f.gzip, f.max)
     /\ f.ack \in BOOLEAN /\ f.gzip \in BOOLEAN /\ f.max \in Uint32
  \/ /\ f.kind = "PING" /\ f = Ping(f.ack, f.payload)
     /\ f.ack \in BOOLEAN /\ f.payload \in Seq(Nat) /\ Len(f.payload) <= MaxUint16
  \/ /\ f.kind = "GO_AWAY" /\ f = GoAway(f.last, f.code, f.data)
     /\ f.last \in Uint32 /\ f.code \in Uint32
     /\ f.data \in Seq(Nat) /\ Len(f.data) + 8 <= MaxUint16
  \/ f.kind = "MAKE_STREAM" /\ f = MakeStream(f.id) /\ f.id \in Uint32
  \/ /\ f.kind = "RESET_STREAM" /\ f = ResetStream(f.id, f.code)
     /\ f.id \in Uint32 /\ f.code \in Uint32
  \/ /\ f.kind = "DATA" /\ f = Data(f.id, f.endData, f.endStream, f.payload)
     /\ f.id \in Uint32 /\ f.endData \in BOOLEAN /\ f.endStream \in BOOLEAN
     /\ f.payload \in Seq(Nat) /\ Len(f.payload) <= MaxUint16

\* IntoFrame of each kind.
IntoHello(f) == Raw(0, f.kind, Flag(f.ack, 1) + Flag(f.gzip, 2), encodeUint32(f.max))
IntoPing(f) == Raw(0, f.kind, Flag(f.ack, 4), f.payload)
IntoGoAway(f) == Raw(0, f.kind, 0, encodeUint32(f.last) \o encodeUint32(f.code) \o f.data)
IntoMakeStream(f) == Raw(f.id, f.kind, 0, <<>>)
IntoResetStream(f) == Raw(f.id, f.kind, 0, encodeUint32(f.code))
\* Mutant: the two flags are swapped.
IntoDataSwapped(f) == Raw(f.id, f.kind, Flag(f.endData, 1) + Flag(f.endStream, 2), f.payload)
IntoData(f) == Raw(f.id, f.kind, Flag(f.endStream, 1) + Flag(f.endData, 2), f.payload)

IntoFrame(f) ==
  CASE f.kind = "HELLO" -> IntoHello(f)
    [] f.kind = "PING" -> IntoPing(f)
    [] f.kind = "GO_AWAY" -> IntoGoAway(f)
    [] f.kind = "MAKE_STREAM" -> IntoMakeStream(f)
    [] f.kind = "RESET_STREAM" -> IntoResetStream(f)
    [] f.kind = "DATA" -> IntoData(f)

\* FromFrame of each kind.
FromHello(fr) ==
  Hello(Bit(fr.flags, 1), Bit(fr.flags, 2),
        IF fr.payload = <<>> THEN 0 ELSE decodeUint32(fr.payload))
FromPing(fr) == Ping(Bit(fr.flags, 4), fr.payload)
FromGoAway(fr) ==
  GoAway(decodeUint32(SubSeq(fr.payload, 1, 4)), decodeUint32(SubSeq(fr.payload, 5, 8)),
         SubSeq(fr.payload, 9, Len(fr.payload)))
FromMakeStream(fr) == MakeStream(fr.id)
FromResetStream(fr) == ResetStream(fr.id, decodeUint32(fr.payload))
FromData(fr) == Data(fr.id, Bit(fr.flags, 2), Bit(fr.flags, 1), fr.payload)

\* ValidateKind's second half: only a frame of a stream has a stream id.
ValidateKind(fr) == (fr.kind \in Associated) <=> (fr.id # 0)

\* FromFrame of the struct for the frame's kind: whether it accepts, and its
\* result then.
Accepts(fr) ==
  LET n == Len(fr.payload) IN
  /\ ValidateKind(fr)
  /\ fr.kind = FrameKind.HELLO =>
       n \in {0, 4} /\ (FromHello(fr).max # 0 => FromHello(fr).ack)
  /\ fr.kind = FrameKind.PING => n = 8
  /\ fr.kind = FrameKind.GO_AWAY => n >= 8
  /\ fr.kind = FrameKind.MAKE_STREAM => n = 0
  /\ fr.kind = FrameKind.RESET_STREAM => n = 4

FromFrame(fr) ==
  CASE fr.kind = FrameKind.HELLO -> FromHello(fr)
    [] fr.kind = FrameKind.PING -> FromPing(fr)
    [] fr.kind = FrameKind.GO_AWAY -> FromGoAway(fr)
    [] fr.kind = FrameKind.MAKE_STREAM -> FromMakeStream(fr)
    [] fr.kind = FrameKind.RESET_STREAM -> FromResetStream(fr)
    [] fr.kind = FrameKind.DATA -> FromData(fr)

\* The deflated form of a payload is another one, longer for a short payload.
Compress(method, p) == IF method = "none" THEN p ELSE <<1>> \o p

\* Frame.Bytes: the length is that of the compressed payload, in 16 bits.
Bytes(fr, method) ==
  LET p == Compress(method, fr.payload) IN
  Magic \o encodeUint32(fr.id) \o <<fr.kind, fr.flags>> \o encodeUint16(Len(p)) \o p

\* FrameReader.Read, on the bytes w that arrived: wait for more, fail on a
\* header it does not know, or return the frame and the number of its bytes.
ReadFrame(w) ==
  LET len == decodeUint16(SubSeq(w, 10, 11)) IN
  CASE Len(w) < HeaderLen -> [st |-> "wait"]
    [] Len(w) >= HeaderLen /\ (SubSeq(w, 1, 3) # Magic \/ w[8] \notin Kinds) ->
         [st |-> "bad"]
    [] OTHER ->
         IF Len(w) < HeaderLen + len THEN [st |-> "wait"]
         ELSE [st |-> "ok", n |-> HeaderLen + len,
               frame |-> [id |-> decodeUint32(SubSeq(w, 4, 7)), kind |-> w[8], flags |-> w[9],
                          payload |-> SubSeq(w, HeaderLen + 1, HeaderLen + len)]]
=============================================================================

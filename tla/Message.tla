------------------------------- MODULE Message ------------------------------
(***************************************************************************)
(* rpc/structs.go, message_kind.go, metadata.go: the messages of the RPC   *)
(* layer, as tuples headed by their kind, and their encoding.  Metadata is *)
(* a sequence of <<key, value>> pairs.                                     *)
(***************************************************************************)
EXTENDS Proto

MessageKind == [Request |-> 1, Response |-> 2, StartStream |-> 3, StreamItem |-> 4,
                StreamMetadata |-> 5, EndStream |-> 6, StreamError |-> 7]

Request(service, method, streaming, meta, params) ==
  <<"Request", service, method, streaming, meta, params>>
Response(status, streaming, meta, params) == <<"Response", status, streaming, meta, params>>
StreamItem(v) == <<"StreamItem", v>>
StreamMetadata(meta) == <<"StreamMetadata", meta>>
StreamError(status, meta) == <<"StreamError", status, meta>>

---------------------------------------------------------------------------
MetadataEncode(meta) ==
  encodeUint16(Len(meta))
    \o FlattenSeq([i \in DOMAIN meta |-> EncodeString(meta[i][1])])
    \o FlattenSeq([i \in DOMAIN meta |-> EncodeBytes(meta[i][2])])

RECURSIVE DecodeRuns(_, _, _)
DecodeRuns(type, n, r) ==
  IF n = 0 THEN Ok(<<>>, r)
  ELSE Then(DecodeRun(type, r), LAMBDA s, q :
         Then(DecodeRuns(type, n - 1, q), LAMBDA ss, p : Ok(<<s>> \o ss, p)))

MetadataFromReader(r) ==
  Then(ReadUint(r, 2), LAMBDA n, r1 :
    Then(DecodeRuns(Type.String, n, r1), LAMBDA keys, r2 :
      Then(DecodeRuns(Type.Bytes, n, r2), LAMBDA values, r3 :
        Ok([i \in 1 .. n |-> <<keys[i], values[i]>>], r3))))

---------------------------------------------------------------------------
\* The tail of a Request and of a Response: flags, metadata, parameters.
EncodeTail(streaming, meta, params) ==
  <<IF streaming THEN 1 ELSE 0>> \o MetadataEncode(meta)
    \o encodeUint16(Len(params)) \o EncodeAll(params)

RequestEncode(m) == EncodeString(m[2]) \o EncodeString(m[3]) \o EncodeTail(m[4], m[5], m[6])
ResponseEncode(m) == encodeUint16(m[2]) \o EncodeTail(m[3], m[4], m[5])
StreamErrorEncode(m) == encodeUint16(m[2]) \o MetadataEncode(m[3])

MessageEncode(m) ==
  CASE m[1] = "Request" -> RequestEncode(m)
    [] m[1] = "Response" -> ResponseEncode(m)
    [] m[1] = "StreamItem" -> Encode(m[2])
    [] m[1] = "StreamMetadata" -> MetadataEncode(m[2])
    [] m[1] = "StreamError" -> StreamErrorEncode(m)
    [] OTHER -> <<>>

\* wrapMessage
Wrap(m) == <<MessageKind[m[1]]>> \o MessageEncode(m)

\* What FromReader of Request and of Response reads last.
TailFromReader(r) ==
  Then(ReadByte(r), LAMBDA flags, r1 :
    Then(MetadataFromReader(r1), LAMBDA meta, r2 :
      Then(ReadUint(r2, 2), LAMBDA n, r3 :
        Then(DecodeMany(n, r3), LAMBDA params, r4 :
          Ok([streaming |-> flags % 2 = 1, meta |-> meta, params |-> params], r4)))))

RequestFromReader(r) ==
  Then(DecodeString(r), LAMBDA service, r1 :
    Then(DecodeString(r1), LAMBDA method, r2 :
      Then(TailFromReader(r2), LAMBDA t, r3 :
        Ok(Request(service, method, t.streaming, t.meta, t.params), r3))))

ResponseFromReader(r) ==
  Then(ReadUint(r, 2), LAMBDA status, q :
    Then(TailFromReader(q), LAMBDA t, p :
      Ok(Response(status, t.streaming, t.meta, t.params), p)))

StreamErrorFromReader(r) ==
  Then(ReadUint(r, 2), LAMBDA status, q :
    Then(MetadataFromReader(q), LAMBDA meta, p : Ok(StreamError(status, meta), p)))

\* FromReader of the message InitializeMessageKind makes for a kind.
FromReader(kind, r) ==
  CASE kind = MessageKind.Request -> RequestFromReader(r)
    [] kind = MessageKind.Response -> ResponseFromReader(r)
    [] kind = MessageKind.StartStream -> Ok(<<"StartStream">>, r)
    [] kind = MessageKind.StreamItem -> Then(DecodeAny(r), LAMBDA v, q : Ok(StreamItem(v), q))
    [] kind = MessageKind.StreamMetadata ->
         Then(MetadataFromReader(r), LAMBDA meta, q : Ok(StreamMetadata(meta), q))
    [] kind = MessageKind.EndStream -> Ok(<<"EndStream">>, r)
    [] kind = MessageKind.StreamError -> StreamErrorFromReader(r)
    [] OTHER -> Err(r)

MessageFromReader(r) == Then(ReadByte(r), LAMBDA kind, q : FromReader(kind, q))
=============================================================================

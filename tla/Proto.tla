-------------------------------- MODULE Proto -------------------------------
(***************************************************************************)
(* proto/*.go: how values are encoded and decoded.  A Go value is a tuple  *)
(* headed by its kind; integers carry their width and sign, a struct its   *)
(* id and its fields by index.  What DecodeAny returns has kinds of its    *)
(* own where the type is lost: every integer is a uint64, every float a    *)
(* float64.                                                                *)
(*                                                                         *)
(* A reader is the queue of blocks a stream holds, the limit of the        *)
(* enclosing io.LimitReader and the order in which Go iterates over the    *)
(* fields of a decoded struct.  One Read returns at most the rest of one   *)
(* block; short records that a decoder took less than it wanted (history). *)
(* Running out of bytes is an error here; on a stream it may also be a     *)
(* wait.  Left out: fields of interface type, pointers to a map, pointers  *)
(* inside a slice or a map, and a field whose types at the two ends differ *)
(* in kind (some of these panic in reflect).                               *)
(***************************************************************************)
EXTENDS Digits, SequencesExt

CONSTANTS
  Radix,     \* values of a digit of a varint (128 in the code)
  Wide,      \* bits of a uint64
  Registry   \* struct id -> field index -> type: what RegisterMessage stored

ASSUME ProtoAssumption == Radix \in Nat /\ Radix > 1 /\ Wide \in Nat

---------------------------------------------------------------------------
\* Encoding.

Type == [Void |-> 0, Scalar |-> 1, Boolean |-> 2, Float |-> 3, String |-> 4,
         Bytes |-> 5, Array |-> 6, Map |-> 7, Struct |-> 8]
Mask4 == 16
Mask5 == 32
Mask6 == 64
Set(b, mask) == IF b THEN mask ELSE 0
Has(header, mask) == (header \div mask) % 2 = 1

RECURSIVE encodeUint64(_)
encodeUint64(x) ==
  IF x < Radix THEN <<x>> ELSE <<Radix + (x % Radix)>> \o encodeUint64(x \div Radix)

\* v *= -1 for a negative v: the least value of its type stays as it is.
Magnitude(bits, n) == IF n < 0 /\ n # -(2 ^ (bits - 1)) THEN -n ELSE n

encodeScalar(bits, signed, n) ==
  <<Type.Scalar + Set(signed, Mask4) + Set(n = 0, Mask5) + Set(n < 0, Mask6)>>
    \o IF n = 0 THEN <<>> ELSE encodeUint64(Magnitude(bits, n) % 2 ^ Wide)

\* binary.BigEndian, for n bytes.
encodeUint(n, v) == [i \in 1 .. n |-> (v \div Base ^ (n - i)) % Base]
decodeUint(b) == FoldLeft(LAMBDA x, d : x * Base + d, 0, b)

\* A float is a number that stands for it; NegZero == 0 in Go.
NegZero == -1
\* Mutant: a zero is written out although its flag says it is not.
encodeFloatZeroBody(bits, x) ==
  LET zero == x \in {0, NegZero} IN
  <<Type.Float + Set(bits = 64, Mask4) + Set(zero, Mask5)>>
    \o encodeUint(bits \div 8, IF zero THEN 0 ELSE x)
encodeFloat(bits, x) ==
  LET zero == x \in {0, NegZero} IN
  <<Type.Float + Set(bits = 64, Mask4) + Set(zero, Mask5)>>
    \o IF zero THEN <<>> ELSE encodeUint(bits \div 8, x)

\* EncodeString and EncodeBytes.
encodeRun(type, s) ==
  IF s = <<>> THEN <<type + Mask4>> ELSE <<type>> \o encodeUint64(Len(s)) \o s
EncodeString(s) == encodeRun(Type.String, s)
EncodeBytes(s) == encodeRun(Type.Bytes, s)

RECURSIVE Encode(_)
EncodeAll(vs) == FlattenSeq([i \in DOMAIN vs |-> Encode(vs[i])])

encodeArray(vs) ==
  IF vs = <<>> THEN <<Type.Array + Mask4>>
  ELSE <<Type.Array>> \o encodeUint64(Len(vs)) \o EncodeAll(vs)

\* All keys, then all values, in the order Go iterates over the map.
encodeMap(pairs) ==
  LET n == encodeUint64(Len(pairs))
      keys == EncodeAll([i \in DOMAIN pairs |-> pairs[i][1]])
      values == EncodeAll([i \in DOMAIN pairs |-> pairs[i][2]])
  IN  IF pairs = <<>> THEN <<Type.Map + Mask4>>
      ELSE <<Type.Map>> \o encodeUint64(Len(keys \o values \o n)) \o n \o keys \o values

\* The fields that have an index, sorted by it.
encodableFields(fields) == SetToSortSeq(DOMAIN fields, <)

encodeStruct(id, fields) ==
  LET order == encodableFields(fields)
      payload == FlattenSeq([i \in DOMAIN order |->
                   encodeUint64(order[i]) \o Encode(fields[order[i]])])
  IN  <<Type.Struct>> \o EncodeString(id) \o encodeUint64(Len(payload)) \o payload

Encode(v) ==
  CASE v[1] = "nil" -> <<Type.Void>>
    [] v[1] = "ptr" -> Encode(v[2])
    [] v[1] = "int" -> encodeScalar(v[2], v[3], v[4])
    [] v[1] = "bool" -> <<Type.Boolean + Set(v[2], Mask4)>>
    [] v[1] = "float" -> encodeFloat(v[2], v[3])
    [] v[1] = "string" -> EncodeString(v[2])
    [] v[1] = "bytes" -> EncodeBytes(v[2])
    [] v[1] = "array" -> encodeArray(v[2])
    [] v[1] = "map" -> encodeMap(v[2])
    [] v[1] = "struct" -> encodeStruct(v[2], v[3])

---------------------------------------------------------------------------
\* Readers.  A decoder returns [ok, v, r]: a value and the reader after it.

NoLimit == 1000000
Reader(blocks, order) ==
  [blocks |-> blocks, left |-> NoLimit, order |-> order, short |-> FALSE]
Ok(v, r) == [ok |-> TRUE, v |-> v, r |-> r]
Err(r) == [ok |-> FALSE, v |-> <<>>, r |-> r]
\* d, then F of what it returns; written so that TLC evaluates d once.
Then(d, F(_, _)) ==
  CHOOSE y \in {IF x.ok THEN F(x.v, x.r) ELSE Err(x.r) : x \in {d}} : TRUE

\* One r.Read of a buffer of n bytes.
Read(r, n) ==
  LET b == Head(r.blocks)
      k == SmallerOf(SmallerOf(n, r.left), Len(b))
  IN  IF r.left = 0 \/ r.blocks = <<>> THEN Err(r)
      ELSE Ok(SubSeq(b, 1, k),
              [r EXCEPT !.left = @ - k,
                        !.blocks = IF k = Len(b) THEN Tail(@)
                                   ELSE <<SubSeq(b, k + 1, Len(b))>> \o Tail(@)])

\* io.ReadFull
RECURSIVE ReadFull(_, _)
ReadFull(r, n) ==
  IF n = 0 THEN Ok(<<>>, r)
  ELSE Then(Read(r, n), LAMBDA b, q :
         Then(ReadFull(q, n - Len(b)), LAMBDA c, p : Ok(b \o c, p)))

ReadByte(r) == Then(Read(r, 1), LAMBDA b, q : Ok(b[1], q))
ReadUint(r, n) == Then(ReadFull(r, n), LAMBDA b, q : Ok(decodeUint(b), q))

\* The loop of decodeUint64, with x read so far and the next digit's weight.
RECURSIVE decodeDigits(_, _, _)
decodeDigits(r, x, weight) ==
  Then(ReadByte(r), LAMBDA b, q :
    IF b < Radix THEN Ok((x + b * weight) % 2 ^ Wide, q)
    ELSE decodeDigits(q, (x + (b % Radix) * weight) % 2 ^ Wide, weight * Radix))
decodeUint64(r) == decodeDigits(r, 0, 1)

\* decodeString and decodeBytes read the contents with ONE Read: what it does
\* not fill stays zero.
decodeRun(header, r) ==
  IF Has(header, Mask4) THEN Ok(<<>>, r)
  ELSE Then(decodeUint64(r), LAMBDA n, q :
         Then(Read(q, n), LAMBDA b, p :
           Ok([i \in 1 .. n |-> IF i <= Len(b) THEN b[i] ELSE 0],
              [p EXCEPT !.short = @ \/ Len(b) < n])))
decodeBytes(header, r) == decodeRun(header, r)

\* DecodeString and DecodeBytes.
DecodeRun(type, r) ==
  Then(ReadByte(r), LAMBDA b, q : IF b % 16 = type THEN decodeRun(b, q) ELSE Err(q))
DecodeString(r) == DecodeRun(Type.String, r)

decodeScalar(header, r) ==
  IF Has(header, Mask5) THEN Ok(<<"u64", 0>>, r)
  ELSE Then(decodeUint64(r), LAMBDA n, q : Ok(<<"u64", n>>, q))

decodeFloat(header, r) ==
  IF Has(header, Mask5) THEN Ok(<<"f64", 0>>, r)
  ELSE Then(ReadUint(r, IF Has(header, Mask4) THEN 8 ELSE 4), LAMBDA x, q : Ok(<<"f64", x>>, q))

---------------------------------------------------------------------------
\* setValue: from what DecodeAny returned to the type of a struct's field.
\* Types are tuples headed by their kind, as values are.  DecodeAny returns a
\* pointer for a struct and for a map.

\* Mutant: the sign bit is not looked at.
TruncateUnsigned(bits, signed, n) == n % 2 ^ bits
Truncate(bits, signed, n) ==
  LET m == n % 2 ^ bits IN IF signed /\ m >= 2 ^ (bits - 1) THEN m - 2 ^ bits ELSE m

\* reflect's ConvertibleTo, from v's type to T; and from what v points to.
Convertible(v, T) ==
  \/ v[1] \in {"u64", "f64"} /\ T[1] \in {"int", "float"}
  \/ v[1] = "bool" /\ T[1] = "bool"
  \/ v[1] \in {"string", "bytes"} /\ T[1] \in {"string", "bytes"}
  \/ v[1] = "struct" /\ T = <<"ptr", <<"struct", v[2]>>>>
ElemConvertible(v, T) == v[1] = "struct" /\ T = <<"struct", v[2]>>

RECURSIVE Convert(_, _)
\* Mutant: an integer is stored as it came.
ConvertUntruncated(v, T) ==
  CASE T[1] = "ptr" -> <<"ptr", IF v[1] = "struct" THEN v ELSE Convert(v, T[2])>>
    [] T[1] = "int" -> <<"int", T[2], T[3], v[2]>>
    [] T[1] = "float" -> <<"float", T[2], v[2]>>
    [] T[1] \in {"string", "bytes"} -> <<T[1], v[2]>>
    [] OTHER -> v
Convert(v, T) ==
  CASE T[1] = "ptr" -> <<"ptr", IF v[1] = "struct" THEN v ELSE Convert(v, T[2])>>
    [] T[1] = "int" -> <<"int", T[2], T[3], Truncate(T[2], T[3], v[2])>>
    [] T[1] = "float" -> <<"float", T[2], v[2]>>
    [] T[1] \in {"string", "bytes"} -> <<T[1], v[2]>>
    [] OTHER -> v

RECURSIVE Zero(_)
Zero(T) ==
  CASE T[1] = "int" -> <<"int", T[2], T[3], 0>>
    [] T[1] = "bool" -> <<"bool", FALSE>>
    [] T[1] = "float" -> <<"float", T[2], 0>>
    [] T[1] = "slice" -> <<"array", <<>>>>
    [] T[1] \in {"string", "bytes", "map"} -> <<T[1], <<>>>>
    [] T[1] = "ptr" -> <<"nil">>
    [] T[1] = "struct" ->
         <<"struct", T[2], [i \in DOMAIN Registry[T[2]] |-> Zero(Registry[T[2]][i])]>>

\* isConvertible, for the keys and values of a map.
isConvertible(v, T) ==
  Convertible(v, T) \/ ElemConvertible(v, T) \/ (T[1] = "ptr" /\ Convertible(v, T[2]))

makeMap(pairs, T) ==
  IF \A i \in DOMAIN pairs : isConvertible(pairs[i][1], T[2]) /\ isConvertible(pairs[i][2], T[3])
  THEN <<"map", [i \in DOMAIN pairs |-> <<Convert(pairs[i][1], T[2]), Convert(pairs[i][2], T[3])>>]>>
  ELSE Zero(T)

\* The elements are all converted, or the field stays as it was.
makeSlice(vs, T) ==
  IF \A i \in DOMAIN vs : IF vs[1][1] \in {"struct", "map"} THEN ElemConvertible(vs[i], T[2])
                          ELSE Convertible(vs[i], T[2])
  THEN <<"array", [i \in DOMAIN vs |-> Convert(vs[i], T[2])]>>
  ELSE Zero(T)

\* A value that fits no case leaves the field at its zero value.
setValue(T, v) ==
  CASE T[1] = "ptr" /\ v[1] = "nil" -> <<"nil">>
    [] isConvertible(v, T) -> Convert(v, T)
    [] v[1] = "array" /\ T[1] = "slice" -> makeSlice(v[2], T)
    [] v[1] = "map" /\ T[1] = "map" -> makeMap(v[2], T)
    [] OTHER -> Zero(T)

\* The fields are visited in a random order, up to the first unknown one.
decodeIntoInstance(id, fields, order) ==
  LET known == Registry[id]
      At(i) == CHOOSE n \in DOMAIN order : order[n] = i
      Visited(i) == i \in DOMAIN fields
                    /\ \A j \in DOMAIN fields \ DOMAIN known : At(i) < At(j)
  IN  <<"struct", id, [i \in DOMAIN known |->
         IF Visited(i) THEN setValue(known[i], fields[i]) ELSE Zero(known[i])]>>

RECURSIVE DecodeAny(_), DecodeMany(_, _), decodeFields(_, _)

DecodeMany(n, r) ==
  IF n = 0 THEN Ok(<<>>, r)
  ELSE Then(DecodeAny(r), LAMBDA v, q :
         Then(DecodeMany(n - 1, q), LAMBDA vs, p : Ok(<<v>> \o vs, p)))

decodeArray(header, r) ==
  IF Has(header, Mask4) THEN Ok(<<"array", <<>>>>, r)
  ELSE Then(decodeUint64(r), LAMBDA n, q :
         Then(DecodeMany(n, q), LAMBDA vs, p : Ok(<<"array", vs>>, p)))

\* The length in bytes is read and ignored.
decodeMap(header, r) ==
  IF Has(header, Mask4) THEN Ok(<<"map", <<>>>>, r)
  ELSE Then(decodeUint64(r), LAMBDA len, r1 :
         Then(decodeUint64(r1), LAMBDA n, r2 :
           Then(DecodeMany(n, r2), LAMBDA keys, r3 :
             Then(DecodeMany(n, r3), LAMBDA values, r4 :
               Ok(<<"map", [i \in 1 .. n |-> <<keys[i], values[i]>>]>>, r4)))))

\* Until the limit: any end of file in an index ends the struct.
decodeFields(r, fields) ==
  LET i == decodeUint64(r) IN
  IF ~i.ok THEN Ok(fields, i.r)
  ELSE Then(DecodeAny(i.r), LAMBDA v, q : decodeFields(q, (i.v :> v) @@ fields))

decodeStruct(r) ==
  Then(DecodeString(r), LAMBDA id, r1 :
    Then(decodeUint64(r1), LAMBDA n, r2 :
      LET limit == SmallerOf(n, r2.left) IN
      Then(decodeFields([r2 EXCEPT !.left = limit], <<>>), LAMBDA fields, r3 :
        IF id \notin DOMAIN Registry THEN Err(r3)
        ELSE Ok(decodeIntoInstance(id, fields, r.order),
                [r3 EXCEPT !.left = r2.left - (limit - r3.left)]))))

DecodeAny(r) ==
  Then(ReadByte(r), LAMBDA b, q :
    LET t == b % 16 IN
    CASE t = Type.Void -> Ok(<<"nil">>, q)
      [] t = Type.Scalar -> decodeScalar(b, q)
      [] t = Type.Boolean -> Ok(<<"bool", Has(b, Mask4)>>, q)
      [] t = Type.Float -> decodeFloat(b, q)
      [] t = Type.String -> Then(decodeRun(b, q), LAMBDA s, p : Ok(<<"string", s>>, p))
      [] t = Type.Bytes -> Then(decodeBytes(b, q), LAMBDA s, p : Ok(<<"bytes", s>>, p))
      [] t = Type.Array -> decodeArray(b, q)
      [] t = Type.Map -> decodeMap(b, q)
      [] t = Type.Struct -> decodeStruct(q)
      [] OTHER -> Err(q))
=============================================================================

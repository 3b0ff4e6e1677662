---------------------------- MODULE FramingProofs ---------------------------
(***************************************************************************)
(* Proofs about Framing: the wire format loses nothing and needs no        *)
(* separator, frames arrive in order, what is written is delivered.        *)
(***************************************************************************)
EXTENDS Framing, TLAPS

\* v is made of its last digit and the ones before it.
LEMMA DivFacts ==
  ASSUME NEW v \in Nat
  PROVE  /\ v \div Base \in Nat /\ v % Base \in 0 .. Base - 1
         /\ v = Base * (v \div Base) + (v % Base)
<1>1. v \div Base \in Nat
  BY BaseAssumption
<1>2. v % Base \in 0 .. Base - 1
  BY BaseAssumption
<1>3. v % Base = v - Base * (v \div Base)
  BY BaseAssumption
<1>4. Base * (v \div Base) \in Nat
  BY <1>1, BaseAssumption
<1>5. ASSUME NEW p \in Nat, v % Base = v - p
      PROVE  v = p + (v % Base)
  BY <1>2, <1>5, BaseAssumption
<1>6. v = Base * (v \div Base) + (v % Base)
  BY <1>3, <1>4, <1>5, Zenon
<1> QED BY <1>1, <1>2, <1>6, Zenon

\* Dropping the last digit divides the bound.
LEMMA DivBound ==
  ASSUME NEW v \in Nat, NEW k \in Nat, v < k * Base
  PROVE  v \div Base < k
<1>1. v \div Base \in Nat /\ v % Base \in 0 .. Base - 1 /\ v = Base * (v \div Base) + (v % Base)
  BY DivFacts
<1> DEFINE q == v \div Base
<1>2. q \in Nat /\ Base * q <= v
  BY <1>1, BaseAssumption
<1> HIDE DEF q
<1>3. ASSUME q >= k PROVE FALSE
  <2>1. q - k \in Nat BY <1>2, <1>3
  <2>2. Base * q = Base * k + Base * (q - k) BY <1>2, <2>1, BaseAssumption
  <2>3. Base * (q-k) \in Nat BY <2>1, BaseAssumption
  <2>4. Base * k = k * Base BY BaseAssumption
  <2> QED BY <2>2, <2>3, <2>4, <1>2, BaseAssumption
<1> QED BY <1>2, <1>3 DEF q

\* A digit is its own remainder.
LEMMA Small == ASSUME NEW v \in Nat, v < Base PROVE v % Base = v
  BY BaseAssumption

\* decodeUint16 undoes encodeUint16 of what fits 16 bits.
LEMMA RoundTrip16 ==
  ASSUME NEW v \in 0 .. MaxUint16
  PROVE  decodeUint16(encodeUint16(v)) = v
<1> DEFINE a == v \div Base
<1>1. a \in Nat /\ v % Base \in Nat /\ v = Base * a + (v % Base)
  BY DivFacts
<1>2. a < Base
  BY DivBound, BaseAssumption DEF MaxUint16
<1>3. a % Base = a
  BY <1>1, <1>2, Small
<1>4. decodeUint16(encodeUint16(v)) = (a % Base) * Base + (v % Base)
  <2>1. ASSUME NEW p, NEW q PROVE decodeUint16(<<p, q>>) = p * Base + q
    BY DEF decodeUint16
  <2> QED BY <2>1, Zenon DEF encodeUint16
<1> HIDE DEF a
<1> QED BY <1>1, <1>3, <1>4, BaseAssumption

\* decodeUint32 undoes encodeUint32 of what fits 32 bits.
LEMMA RoundTrip32 ==
  ASSUME NEW v \in 0 .. MaxUint32
  PROVE  decodeUint32(encodeUint32(v)) = v
<1> DEFINE a == v \div Base
           b == a \div Base
           c == b \div Base
<1>0. v \in Nat /\ Base \in Nat /\ Base * Base \in Nat /\ Base * Base * Base \in Nat
  BY BaseAssumption DEF MaxUint32
<1>1. a \in Nat /\ v % Base \in Nat /\ v = Base * a + (v % Base)
  BY <1>0, DivFacts
<1>2. a < Base * Base * Base
  BY <1>0, DivBound, BaseAssumption DEF MaxUint32
<1> HIDE DEF a
<1>3. b \in Nat /\ a % Base \in Nat /\ a = Base * b + (a % Base)
  BY <1>1, DivFacts
<1>4. b < Base * Base
  BY <1>0, <1>1, <1>2, DivBound
<1> HIDE DEF b
<1>5. c \in Nat /\ b % Base \in Nat /\ b = Base * c + (b % Base)
  BY <1>3, DivFacts
<1>6. c < Base
  BY <1>0, <1>3, <1>4, DivBound
<1> HIDE DEF c
<1>7. c % Base = c
  BY <1>5, <1>6, Small
<1>8. decodeUint32(encodeUint32(v)) =
        (((c % Base) * Base + (b % Base)) * Base + (a % Base)) * Base + (v % Base)
  <2>1. ASSUME NEW p, NEW q, NEW r, NEW s
        PROVE  decodeUint32(<<p, q, r, s>>) = ((p * Base + q) * Base + r) * Base + s
    BY DEF decodeUint32
  <2>2. encodeUint32(v) = <<c % Base, b % Base, a % Base, v % Base>>
    BY Zenon DEF encodeUint32, a, b, c
  <2> QED BY <2>1, <2>2
<1>9. (c % Base) * Base + (b % Base) = b
  <2>1. c * Base = Base * c
    BY <1>5, <1>0
  <2> QED BY <1>5, <1>7, <2>1, Zenon
<1>10. b * Base + (a % Base) = a
  BY <1>3, <1>0
<1>11. a * Base + (v % Base) = v
  BY <1>1, <1>0
<1> QED BY <1>8, <1>9, <1>10, <1>11

\* encodeUint16 returns two bytes.
LEMMA Width16 == ASSUME NEW v \in Nat
  PROVE  encodeUint16(v) \in Seq(Nat) /\ Len(encodeUint16(v)) = 2
  BY BaseAssumption DEF encodeUint16

\* encodeUint32 returns four bytes.
LEMMA Width32 == ASSUME NEW v \in Nat
  PROVE  encodeUint32(v) \in Seq(Nat) /\ Len(encodeUint32(v)) = 4
  BY BaseAssumption DEF encodeUint32

\* The widths are those of numbers, and a length of eight fits.
LEMMA Widths ==
  /\ MaxUint16 \in Nat /\ MaxUint32 \in Nat /\ MaxUint16 >= 8
  BY BaseAssumption DEF MaxUint16, MaxUint32

\* The bytes FrameReader.Read knows as kinds.
LEMMA KindsAre == Kinds = {0, 1, 2, 3, 4, 5}
  BY DEF Kinds, FrameKind

---------------------------------------------------------------------------
\* Bytes and ReadFrame.

\* The contents of a concatenation.
LEMMA Cat ==
  ASSUME NEW a \in Seq(Nat), NEW b \in Seq(Nat)
  PROVE  /\ a \o b \in Seq(Nat) /\ Len(a \o b) = Len(a) + Len(b)
         /\ \A i \in 1 .. Len(a) : (a \o b)[i] = a[i]
         /\ \A i \in 1 .. Len(b) : (a \o b)[Len(a) + i] = b[i]
  OBVIOUS

\* Two bytes more.
LEMMA Cat2 ==
  ASSUME NEW a \in Seq(Nat), NEW b \in Seq(Nat), Len(b) = 2
  PROVE  /\ a \o b \in Seq(Nat) /\ Len(a \o b) = Len(a) + 2
         /\ \A i \in 1 .. Len(a) : (a \o b)[i] = a[i]
         /\ (a \o b)[Len(a) + 1] = b[1] /\ (a \o b)[Len(a) + 2] = b[2]
<1>1. 1 \in 1 .. Len(b) /\ 2 \in 1 .. Len(b)
  OBVIOUS
<1>2. /\ a \o b \in Seq(Nat) /\ Len(a \o b) = Len(a) + Len(b)
      /\ \A i \in 1 .. Len(a) : (a \o b)[i] = a[i]
      /\ \A i \in 1 .. Len(b) : (a \o b)[Len(a) + i] = b[i]
  BY Cat, Zenon
<1>3. Len(a \o b) = Len(a) + 2
  BY <1>2, Zenon
<1> QED BY <1>1, <1>2, <1>3, Zenon

\* Four bytes more.
LEMMA Cat4 ==
  ASSUME NEW a \in Seq(Nat), NEW b \in Seq(Nat), Len(b) = 4
  PROVE  /\ a \o b \in Seq(Nat) /\ Len(a \o b) = Len(a) + 4
         /\ \A i \in 1 .. Len(a) : (a \o b)[i] = a[i]
         /\ (a \o b)[Len(a) + 1] = b[1] /\ (a \o b)[Len(a) + 2] = b[2]
         /\ (a \o b)[Len(a) + 3] = b[3] /\ (a \o b)[Len(a) + 4] = b[4]
<1>1. 1 \in 1 .. Len(b) /\ 2 \in 1 .. Len(b) /\ 3 \in 1 .. Len(b) /\ 4 \in 1 .. Len(b)
  OBVIOUS
<1>2. /\ a \o b \in Seq(Nat) /\ Len(a \o b) = Len(a) + Len(b)
      /\ \A i \in 1 .. Len(a) : (a \o b)[i] = a[i]
      /\ \A i \in 1 .. Len(b) : (a \o b)[Len(a) + i] = b[i]
  BY Cat, Zenon
<1>3. Len(a \o b) = Len(a) + 4
  BY <1>2, Zenon
<1> QED BY <1>1, <1>2, <1>3, Zenon

\* The kind and the flags are two bytes.
LEMMA Pair == ASSUME NEW k \in Nat, NEW g \in Nat
  PROVE <<k, g>> \in Seq(Nat) /\ Len(<<k, g>>) = 2 /\ <<k, g>>[1] = k /\ <<k, g>>[2] = g
  OBVIOUS

\* The magic number is three bytes.
LEMMA MagicIs == Magic \in Seq(Nat) /\ Len(Magic) = 3
  BY DEF Magic

\* The offsets of a header's parts.
LEMMA Sums == /\ 3 + 1 = 4 /\ 3 + 2 = 5 /\ 3 + 3 = 6 /\ 3 + 4 = 7
              /\ 7 + 1 = 8 /\ 7 + 2 = 9 /\ 9 + 1 = 10 /\ 9 + 2 = 11
  OBVIOUS

\* The parts of a header that precede another.
LEMMA Within ==
  /\ 1 .. 3 \subseteq 1 .. 7 /\ 1 .. 7 \subseteq 1 .. 9 /\ 1 .. 9 \subseteq 1 .. 11
  /\ {1, 2, 3} \subseteq 1 .. 3 /\ {4, 5, 6, 7} \subseteq 1 .. 7
  /\ {8, 9} \subseteq 1 .. 9 /\ {10, 11} \subseteq 1 .. 11
  OBVIOUS

\* Where the parts of a frame are in its bytes b.
Laid(b, d, k, g, e, p) ==
  /\ b \in Seq(Nat) /\ Len(b) = 11 + Len(p)
  /\ \A i \in 1 .. 3 : b[i] = Magic[i]
  /\ b[4] = d[1] /\ b[5] = d[2] /\ b[6] = d[3] /\ b[7] = d[4]
  /\ b[8] = k /\ b[9] = g
  /\ b[10] = e[1] /\ b[11] = e[2]
  /\ \A i \in 1 .. Len(p) : b[11 + i] = p[i]

\* Frame.Bytes puts them there.
LEMMA Join ==
  ASSUME NEW d \in Seq(Nat), Len(d) = 4, NEW k \in Nat, NEW g \in Nat,
         NEW e \in Seq(Nat), Len(e) = 2, NEW p \in Seq(Nat)
  PROVE  Laid(Magic \o d \o <<k, g>> \o e \o p, d, k, g, e, p)
<1> DEFINE a0 == Magic
           a1 == a0 \o d
           kg == <<k, g>>
           a2 == a1 \o kg
           a3 == a2 \o e
           b == a3 \o p
<1>0. a0 \in Seq(Nat) /\ Len(a0) = 3 
  BY MagicIs, Zenon
<1>k. kg \in Seq(Nat) /\ Len(kg) = 2 /\ kg[1] = k /\ kg[2] = g
  BY Pair, Zenon
<1> SUFFICES Laid(b, d, k, g, e, p)
  BY Zenon
<1> HIDE DEF a0, kg
<1>1. /\ a1 \in Seq(Nat) /\ Len(a1) = 7
      /\ \A i \in 1 .. 3 : a1[i] = a0[i]
      /\ a1[4] = d[1] /\ a1[5] = d[2] /\ a1[6] = d[3] /\ a1[7] = d[4]
  <2>1. /\ a1 \in Seq(Nat) /\ Len(a1) = Len(a0) + 4
        /\ \A i \in 1 .. Len(a0) : a1[i] = a0[i]
        /\ a1[Len(a0) + 1] = d[1] /\ a1[Len(a0) + 2] = d[2]
        /\ a1[Len(a0) + 3] = d[3] /\ a1[Len(a0) + 4] = d[4]
    BY <1>0, Cat4, Zenon
  <2> HIDE DEF a1
  <2>2. Len(a1) = 7 /\ \A i \in 1 .. 3 : a1[i] = a0[i]
    BY <1>0, <2>1, Sums, Zenon
  <2>3. a1[3 + 1] = d[1] /\ a1[3 + 2] = d[2] /\ a1[3 + 3] = d[3] /\ a1[3 + 4] = d[4]
    BY <1>0, <2>1, Zenon
  <2> QED BY <2>1, <2>2, <2>3, Sums, Zenon
<1> HIDE DEF a1
<1>2. /\ a2 \in Seq(Nat) /\ Len(a2) = 9
      /\ \A i \in 1 .. 7 : a2[i] = a1[i]
      /\ a2[8] = k /\ a2[9] = g
  <2>1. /\ a2 \in Seq(Nat) /\ Len(a2) = Len(a1) + 2
        /\ \A i \in 1 .. Len(a1) : a2[i] = a1[i]
        /\ a2[Len(a1) + 1] = kg[1] /\ a2[Len(a1) + 2] = kg[2]
    BY <1>1, <1>k, Cat2, Zenon
  <2> HIDE DEF a2
  <2>2. Len(a2) = 9 /\ \A i \in 1 .. 7 : a2[i] = a1[i]
    BY <1>1, <2>1, Sums, Zenon
  <2>3. a2[7 + 1] = k /\ a2[7 + 2] = g
    BY <1>1, <1>k, <2>1, Zenon
  <2> QED BY <2>1, <2>2, <2>3, Sums, Zenon
<1> HIDE DEF a2
<1>3. /\ a3 \in Seq(Nat) /\ Len(a3) = 11
      /\ \A i \in 1 .. 9 : a3[i] = a2[i]
      /\ a3[10] = e[1] /\ a3[11] = e[2]
  <2>1. /\ a3 \in Seq(Nat) /\ Len(a3) = Len(a2) + 2
        /\ \A i \in 1 .. Len(a2) : a3[i] = a2[i]
        /\ a3[Len(a2) + 1] = e[1] /\ a3[Len(a2) + 2] = e[2]
    BY <1>2, Cat2, Zenon
  <2> HIDE DEF a3
  <2>2. Len(a3) = 11 /\ \A i \in 1 .. 9 : a3[i] = a2[i]
    BY <1>2, <2>1, Sums, Zenon
  <2>3. a3[9 + 1] = e[1] /\ a3[9 + 2] = e[2]
    BY <1>2, <2>1, Zenon
  <2> QED BY <2>1, <2>2, <2>3, Sums, Zenon
<1> HIDE DEF a3
<1>4. /\ b \in Seq(Nat) /\ Len(b) = 11 + Len(p)
      /\ \A i \in 1 .. 11 : b[i] = a3[i]
      /\ \A i \in 1 .. Len(p) : b[11 + i] = p[i]
  <2>1. /\ b \in Seq(Nat) /\ Len(b) = Len(a3) + Len(p)
        /\ \A i \in 1 .. Len(a3) : b[i] = a3[i]
        /\ \A i \in 1 .. Len(p) : b[Len(a3) + i] = p[i]
    BY <1>3, Cat, Zenon
  <2> HIDE DEF b
  <2>2. /\ b \in Seq(Nat) /\ Len(b) = 11 + Len(p)
        /\ \A i \in 1 .. 11 : b[i] = a3[i]
    BY <1>3, <2>1, Zenon
  <2> QED BY <1>3, <2>1, <2>2, Zenon
<1> HIDE DEF b
<1>5. /\ \A i \in 1 .. 9 : b[i] = a2[i]
      /\ \A i \in 1 .. 7 : b[i] = a1[i]
      /\ \A i \in 1 .. 3 : b[i] = a0[i]
  <2>1. \A i \in 1 .. 9 : b[i] = a2[i]
    BY <1>3, <1>4, Within, Zenon
  <2>2. \A i \in 1 .. 7 : b[i] = a1[i]
    BY <1>2, <2>1, Within, Zenon
  <2>3. \A i \in 1 .. 3 : b[i] = a0[i]
    BY <1>1, <2>2, Within, Zenon
  <2> QED BY <2>1, <2>2, <2>3, Zenon
<1>6. \A i \in 1 .. 3 : b[i] = Magic[i]
  BY <1>5, Zenon DEF a0
<1>7. b[4] = d[1] /\ b[5] = d[2] /\ b[6] = d[3] /\ b[7] = d[4]
  BY <1>1, <1>5, Within, Zenon
<1>8. b[8] = k /\ b[9] = g
  BY <1>2, <1>5, Within, Zenon
<1>9. b[10] = e[1] /\ b[11] = e[2]
  BY <1>3, <1>4, Within, Zenon
<1> QED BY <1>4, <1>6, <1>7, <1>8, <1>9, Zenon DEF Laid

\* The bytes w start with the frame of these fields.
Starts(w, id, k, g, p) ==
  /\ Len(w) >= 11 + Len(p)
  /\ \A i \in 1 .. 3 : w[i] = Magic[i]
  /\ \A i \in 1 .. 4 : w[3 + i] = encodeUint32(id)[i]
  /\ w[8] = k /\ w[9] = g
  /\ \A i \in 1 .. 2 : w[9 + i] = encodeUint16(Len(p))[i]
  /\ \A i \in 1 .. Len(p) : w[11 + i] = p[i]

\* FrameReader.Read finds a frame of these fields in w.
Yields(w, id, k, g, p) ==
  ReadFrame(w) = [st |-> "ok", n |-> 11 + Len(p),
                  frame |-> [id |-> id, kind |-> k, flags |-> g, payload |-> p]]

\* It does when w starts with them, whatever follows.
LEMMA Parse ==
  ASSUME NEW id \in 0 .. MaxUint32, NEW k \in Kinds, NEW g \in Nat,
         NEW p \in Seq(Nat), Len(p) <= MaxUint16,
         NEW w \in Seq(Nat), Starts(w, id, k, g, p)
  PROVE  Yields(w, id, k, g, p)
<1>1. HeaderLen = 11
  BY DEF HeaderLen, Magic
<1>2. id \in Nat /\ Len(p) \in 0 .. MaxUint16 /\ Len(w) \in Nat
  BY Widths
<1>3. Len(w) >= 11 + Len(p) /\ w[8] = k /\ w[9] = g
  BY Zenon DEF Starts
<1>4. SubSeq(w, 1, 3) = Magic
  <2>1. \A i \in 1 .. 3 : w[i] = Magic[i]
    BY Zenon DEF Starts
  <2>2. Len(w) >= 3
    BY <1>2, <1>3
  <2>3. Magic \in Seq(Nat) /\ Len(Magic) = 3
    BY DEF Magic
  <2> QED BY <2>1, <2>2, <2>3
<1>5. SubSeq(w, 4, 7) = encodeUint32(id)
  <2>1. \A i \in 1 .. 4 : w[3 + i] = encodeUint32(id)[i]
    BY Zenon DEF Starts
  <2>2. Len(w) >= 7
    BY <1>2, <1>3
  <2> QED BY <1>2, <2>1, <2>2, Width32
<1>6. SubSeq(w, 10, 11) = encodeUint16(Len(p))
  <2>1. \A i \in 1 .. 2 : w[9 + i] = encodeUint16(Len(p))[i]
    BY Zenon DEF Starts
  <2>2. Len(w) >= 11
    BY <1>2, <1>3
  <2> QED BY <1>2, <2>1, <2>2, Width16
<1>7. SubSeq(w, 12, 11 + Len(p)) = p
  <2>1. \A i \in 1 .. Len(p) : w[11 + i] = p[i]
    BY Zenon DEF Starts
  <2> QED BY <1>3, <2>1
<1>8. decodeUint32(SubSeq(w, 4, 7)) = id
  BY <1>5, RoundTrip32, Zenon
<1>9. decodeUint16(SubSeq(w, 10, 11)) = Len(p)
  BY <1>2, <1>6, RoundTrip16, Zenon
<1>10. ~(Len(w) < HeaderLen) /\ ~(Len(w) < HeaderLen + Len(p)) /\ HeaderLen + 1 = 12
  BY <1>1, <1>2, <1>3
<1>11. SubSeq(w, HeaderLen + 1, HeaderLen + Len(p)) = p
  BY <1>1, <1>7, <1>10, Zenon
<1>12. ~(Len(w) >= HeaderLen /\ (SubSeq(w, 1, 3) # Magic \/ w[8] \notin Kinds))
  BY <1>3, <1>4, Zenon
<1>13. ReadFrame(w) = [st |-> "ok", n |-> HeaderLen + Len(p),
                       frame |-> [id |-> id, kind |-> k, flags |-> g, payload |-> p]]
  BY <1>3, <1>8, <1>9, <1>10, <1>11, <1>12, Zenon DEF ReadFrame
<1> QED BY <1>1, <1>13, Zenon DEF Yields

---------------------------------------------------------------------------
\* IntoFrame and FromFrame.

RawFrames == [id : Uint32, kind : Kinds, flags : Nat, payload : Seq(Nat)]

\* The flags of every frame, and what their bits are.
LEMMA Bits ==
  /\ Bit(0, 1) = FALSE /\ Bit(1, 1) = TRUE /\ Bit(2, 1) = FALSE /\ Bit(3, 1) = TRUE
  /\ Bit(0, 2) = FALSE /\ Bit(1, 2) = FALSE /\ Bit(2, 2) = TRUE /\ Bit(3, 2) = TRUE
  /\ Bit(0, 4) = FALSE /\ Bit(4, 4) = TRUE
  /\ 0 + 0 = 0 /\ 1 + 0 = 1 /\ 0 + 2 = 2 /\ 1 + 2 = 3
  /\ 0 \in Nat /\ 1 \in Nat /\ 2 \in Nat /\ 3 \in Nat /\ 4 \in Nat
  BY DEF Bit

\* Two flags of a frame are read as they were set.
LEMMA TwoFlags ==
  ASSUME NEW a \in BOOLEAN, NEW b \in BOOLEAN
  PROVE  /\ Flag(a, 1) + Flag(b, 2) \in Nat
         /\ Bit(Flag(a, 1) + Flag(b, 2), 1) = a /\ Bit(Flag(a, 1) + Flag(b, 2), 2) = b
<1>1. CASE a = TRUE /\ b = TRUE
  <2>1. Flag(a, 1) = 1 /\ Flag(b, 2) = 2
    BY <1>1, Zenon DEF Flag
  <2> QED BY <1>1, <2>1, Bits, Zenon
<1>2. CASE a = TRUE /\ b = FALSE
  <2>1. Flag(a, 1) = 1 /\ Flag(b, 2) = 0
    BY <1>2, Zenon DEF Flag
  <2> QED BY <1>2, <2>1, Bits, Zenon
<1>3. CASE a = FALSE /\ b = TRUE
  <2>1. Flag(a, 1) = 0 /\ Flag(b, 2) = 2
    BY <1>3, Zenon DEF Flag
  <2> QED BY <1>3, <2>1, Bits, Zenon
<1>4. CASE a = FALSE /\ b = FALSE
  <2>1. Flag(a, 1) = 0 /\ Flag(b, 2) = 0
    BY <1>4, Zenon DEF Flag
  <2> QED BY <1>4, <2>1, Bits, Zenon
<1> QED BY <1>1, <1>2, <1>3, <1>4, Zenon

\* So is the flag of a PING.
LEMMA PingFlag ==
  ASSUME NEW a \in BOOLEAN
  PROVE  Flag(a, 4) \in Nat /\ Bit(Flag(a, 4), 4) = a
<1>1. CASE a = TRUE
  BY <1>1, Bits, Zenon DEF Flag
<1>2. CASE a = FALSE
  BY <1>2, Bits, Zenon DEF Flag
<1> QED BY <1>1, <1>2, Zenon

\* What the conversion of a frame to the wire format and back must give.
Faithful(f) ==
  /\ IntoFrame(f) \in RawFrames /\ Len(IntoFrame(f).payload) <= MaxUint16
  /\ FromFrame(IntoFrame(f)) = f

\* HELLO
LEMMA HelloFaithful ==
  ASSUME NEW a \in BOOLEAN, NEW g \in BOOLEAN, NEW m \in Uint32
  PROVE  Faithful(Hello(a, g, m))
<1> DEFINE f == Hello(a, g, m)
           r == [id |-> 0, kind |-> 0, flags |-> Flag(a, 1) + Flag(g, 2),
                 payload |-> encodeUint32(m)]
<1>1. IntoFrame(f) = r
  BY DEF IntoFrame, IntoHello, Hello, Raw, FrameKind
<1>2. m \in Nat /\ m \in 0 .. MaxUint32
  BY Widths DEF Uint32
<1>3. encodeUint32(m) \in Seq(Nat) /\ Len(encodeUint32(m)) = 4 /\ encodeUint32(m) # <<>>
  BY <1>2, Width32
<1>4. r \in RawFrames /\ Len(r.payload) <= MaxUint16
  <2>1. 0 \in Uint32 /\ 0 \in Kinds /\ 4 <= MaxUint16
    BY Widths, KindsAre DEF Uint32
  <2>2. Flag(a, 1) + Flag(g, 2) \in Nat
    BY TwoFlags, Zenon
  <2> QED BY <1>3, <2>1, <2>2, Zenon DEF RawFrames
<1>5. FromFrame(r) = FromHello(r)
  BY DEF FromFrame, FrameKind
<1>6. FromHello(r) = Hello(a, g, m)
  BY <1>2, <1>3, TwoFlags, RoundTrip32, Zenon DEF FromHello
<1> QED BY <1>1, <1>4, <1>5, <1>6, Zenon DEF Faithful

\* PING
LEMMA PingFaithful ==
  ASSUME NEW a \in BOOLEAN, NEW p \in Seq(Nat), Len(p) <= MaxUint16
  PROVE  Faithful(Ping(a, p))
<1> DEFINE r == [id |-> 0, kind |-> 1, flags |-> Flag(a, 4), payload |-> p]
<1>1. IntoFrame(Ping(a, p)) = r
  BY DEF IntoFrame, IntoPing, Ping, Raw, FrameKind
<1>2. 0 \in Uint32 /\ 1 \in Kinds
  BY Widths, KindsAre DEF Uint32
<1>3. r \in RawFrames /\ Len(r.payload) <= MaxUint16
  BY <1>2, PingFlag, Zenon DEF RawFrames
<1>4. FromFrame(r) = FromPing(r)
  BY DEF FromFrame, FrameKind
<1>5. FromPing(r) = Ping(a, p)
  BY PingFlag, Zenon DEF FromPing
<1> QED BY <1>1, <1>3, <1>4, <1>5, Zenon DEF Faithful

\* Sequences with the same contents are the same.
LEMMA SameSeq ==
  ASSUME NEW a \in Seq(Nat), NEW b \in Seq(Nat), Len(a) = Len(b),
         \A i \in 1 .. Len(b) : a[i] = b[i]
  PROVE  a = b
  OBVIOUS

\* A part of a sequence, given its contents.
LEMMA Slice ==
  ASSUME NEW a \in Seq(Nat), NEW b \in Seq(Nat), NEW m \in Nat, m + Len(b) <= Len(a),
         \A i \in 1 .. Len(b) : a[m + i] = b[i]
  PROVE  SubSeq(a, m + 1, m + Len(b)) = b
<1> DEFINE s == SubSeq(a, m + 1, m + Len(b))
<1>1. s \in Seq(Nat) /\ Len(s) = Len(b)
  OBVIOUS
<1>2. \A i \in 1 .. Len(b) : s[i] = a[m + i]
  OBVIOUS
<1> HIDE DEF s
<1>3. \A i \in 1 .. Len(b) : s[i] = b[i]
  BY <1>2, Zenon
<1>4. s = b
  BY <1>1, <1>3, SameSeq, Zenon
<1> QED BY <1>4 DEF s

\* p is the payload of a GOAWAY: two numbers and the rest.
GoAwayParts(p, a, b, d) ==
  /\ p \in Seq(Nat) /\ Len(p) = 8 + Len(d)
  /\ SubSeq(p, 1, 4) = a /\ SubSeq(p, 5, 8) = b /\ SubSeq(p, 9, Len(p)) = d

\* The two numbers at the start of a GOAWAY's payload.
LEMMA TwoNumbers ==
  ASSUME NEW a \in Seq(Nat), Len(a) = 4, NEW b \in Seq(Nat), Len(b) = 4, NEW d \in Seq(Nat)
  PROVE  GoAwayParts(a \o b \o d, a, b, d)
<1> DEFINE ab == a \o b
           p == ab \o d
<1>1. /\ ab \in Seq(Nat) /\ Len(ab) = Len(a) + Len(b)
      /\ \A i \in 1 .. Len(a) : ab[i] = a[i]
      /\ \A i \in 1 .. Len(b) : ab[Len(a) + i] = b[i]
  BY Cat, Zenon
<1> HIDE DEF ab
<1>2. /\ Len(ab) = 4 + 4
      /\ \A i \in 1 .. 4 : ab[i] = a[i]
      /\ \A i \in 1 .. 4 : ab[4 + i] = b[i]
  BY <1>1, Zenon
<1>3. /\ p \in Seq(Nat) /\ Len(p) = Len(ab) + Len(d)
      /\ \A i \in 1 .. Len(ab) : p[i] = ab[i]
      /\ \A i \in 1 .. Len(d) : p[Len(ab) + i] = d[i]
  BY <1>1, Cat, Zenon
<1> HIDE DEF p
<1>4. Len(ab) = 8
  BY <1>2
<1>5. /\ Len(p) = 8 + Len(d)
      /\ \A i \in 1 .. 8 : p[i] = ab[i]
      /\ \A i \in 1 .. Len(d) : p[8 + i] = d[i]
  BY <1>3, <1>4, Zenon
<1>w. \A i \in 1 .. 4 : i \in 1 .. 8 /\ 4 + i \in 1 .. 8
  OBVIOUS
<1>6. \A i \in 1 .. 4 : p[i] = a[i]
  BY <1>2, <1>5, <1>w, Zenon
<1>b. \A i \in 1 .. 4 : p[4 + i] = b[i]
  BY <1>2, <1>5, <1>w, Zenon
<1>7. Len(p) \in Nat /\ Len(p) >= 8
  BY <1>3, <1>5
<1>8. SubSeq(p, 1, 4) = a
  BY <1>3, <1>6, <1>7
<1>9. SubSeq(p, 5, 8) = b
  <2>1. 4 + Len(b) <= Len(p) /\ 4 \in Nat
    BY <1>7
  <2>2. SubSeq(p, 4 + 1, 4 + Len(b)) = b
    BY <1>3, <1>b, <2>1, Slice
  <2> QED BY <2>2
<1>10. SubSeq(p, 9, 8 + Len(d)) = d
  BY <1>3, <1>5, <1>7
<1> QED BY <1>3, <1>5, <1>8, <1>9, <1>10, Zenon DEF p, ab, GoAwayParts

\* GO_AWAY
LEMMA GoAwayFaithful ==
  ASSUME NEW last \in Uint32, NEW code \in Uint32, NEW data \in Seq(Nat),
         Len(data) + 8 <= MaxUint16
  PROVE  Faithful(GoAway(last, code, data))
<1> DEFINE l == encodeUint32(last)
           c == encodeUint32(code)
           p == l \o c \o data
           r == [id |-> 0, kind |-> 2, flags |-> 0, payload |-> p]
<1>1. IntoFrame(GoAway(last, code, data)) = r
  BY DEF IntoFrame, IntoGoAway, GoAway, Raw, FrameKind
<1>2. last \in Nat /\ code \in Nat /\ last \in 0 .. MaxUint32 /\ code \in 0 .. MaxUint32
  BY Widths DEF Uint32
<1>3. l \in Seq(Nat) /\ Len(l) = 4 /\ c \in Seq(Nat) /\ Len(c) = 4
  BY <1>2, Width32, Zenon
<1>d. decodeUint32(l) = last /\ decodeUint32(c) = code
  BY <1>2, RoundTrip32, Zenon
<1> HIDE DEF l, c
<1>4. /\ p \in Seq(Nat) /\ Len(p) = 8 + Len(data)
      /\ SubSeq(p, 1, 4) = l /\ SubSeq(p, 5, 8) = c
      /\ SubSeq(p, 9, Len(p)) = data
  <2>1. GoAwayParts(p, l, c, data)
    BY <1>3, TwoNumbers, Zenon
  <2> QED BY <2>1, Zenon DEF GoAwayParts
<1> HIDE DEF p
<1>5. 0 \in Uint32 /\ 2 \in Kinds /\ 0 \in Nat /\ 8 + Len(data) <= MaxUint16
  BY Widths, KindsAre DEF Uint32
<1>6. r \in RawFrames /\ Len(r.payload) <= MaxUint16
  BY <1>4, <1>5, Zenon DEF RawFrames
<1>7. FromFrame(r) = FromGoAway(r)
  BY DEF FromFrame, FrameKind
<1>8. FromGoAway(r) = GoAway(last, code, data)
  BY <1>4, <1>d, Zenon DEF FromGoAway
<1> QED BY <1>1, <1>6, <1>7, <1>8, Zenon DEF Faithful

\* MAKE_STREAM
LEMMA MakeStreamFaithful ==
  ASSUME NEW id \in Uint32
  PROVE  Faithful(MakeStream(id))
<1> DEFINE r == [id |-> id, kind |-> 3, flags |-> 0, payload |-> <<>>]
<1>1. IntoFrame(MakeStream(id)) = r
  BY DEF IntoFrame, IntoMakeStream, MakeStream, Raw, FrameKind
<1>2. 3 \in Kinds /\ 0 \in Nat /\ <<>> \in Seq(Nat) /\ Len(<<>>) <= MaxUint16
  BY Widths, KindsAre
<1>3. r \in RawFrames /\ Len(r.payload) <= MaxUint16
  BY <1>2, Zenon DEF RawFrames
<1>4. FromFrame(r) = FromMakeStream(r)
  BY DEF FromFrame, FrameKind
<1> QED BY <1>1, <1>3, <1>4, Zenon DEF Faithful, FromMakeStream

\* RESET_STREAM
LEMMA ResetStreamFaithful ==
  ASSUME NEW id \in Uint32, NEW code \in Uint32
  PROVE  Faithful(ResetStream(id, code))
<1> DEFINE r == [id |-> id, kind |-> 4, flags |-> 0, payload |-> encodeUint32(code)]
<1>1. IntoFrame(ResetStream(id, code)) = r
  BY DEF IntoFrame, IntoResetStream, ResetStream, Raw, FrameKind
<1>2. code \in Nat /\ code \in 0 .. MaxUint32 /\ 4 \in Kinds /\ 0 \in Nat /\ 4 <= MaxUint16
  BY Widths, KindsAre DEF Uint32
<1>3. encodeUint32(code) \in Seq(Nat) /\ Len(encodeUint32(code)) = 4
  BY <1>2, Width32, Zenon
<1>4. r \in RawFrames /\ Len(r.payload) <= MaxUint16
  BY <1>2, <1>3, Zenon DEF RawFrames
<1>5. FromFrame(r) = FromResetStream(r)
  BY DEF FromFrame, FrameKind
<1>6. FromResetStream(r) = ResetStream(id, code)
  BY <1>2, RoundTrip32, Zenon DEF FromResetStream
<1> QED BY <1>1, <1>4, <1>5, <1>6, Zenon DEF Faithful

\* DATA
LEMMA DataFaithful ==
  ASSUME NEW id \in Uint32, NEW d \in BOOLEAN, NEW s \in BOOLEAN,
         NEW p \in Seq(Nat), Len(p) <= MaxUint16
  PROVE  Faithful(Data(id, d, s, p))
<1> DEFINE r == [id |-> id, kind |-> 5, flags |-> Flag(s, 1) + Flag(d, 2), payload |-> p]
<1>1. IntoFrame(Data(id, d, s, p)) = r
  BY DEF IntoFrame, IntoData, Data, Raw, FrameKind
<1>2. 5 \in Kinds
  BY KindsAre
<1>3. r \in RawFrames /\ Len(r.payload) <= MaxUint16
  BY <1>2, TwoFlags, Zenon DEF RawFrames
<1>4. FromFrame(r) = FromData(r)
  BY DEF FromFrame, FrameKind
<1>5. FromData(r) = Data(id, d, s, p)
  BY TwoFlags, Zenon DEF FromData
<1> QED BY <1>1, <1>3, <1>4, <1>5, Zenon DEF Faithful

\* FromFrame undoes IntoFrame of every frame whose fields fit.
LEMMA FrameFaithful ==
  ASSUME NEW f, Fits(f)
  PROVE  Faithful(f)
BY HelloFaithful, PingFaithful, GoAwayFaithful, MakeStreamFaithful, ResetStreamFaithful,
   DataFaithful, Zenon DEF Fits

---------------------------------------------------------------------------
\* Frames on the wire.

\* The bytes w begin with the bytes b.
Begins(w, b) == Len(b) <= Len(w) /\ \A i \in 1 .. Len(b) : w[i] = b[i]

\* What FrameReader.Read makes of bytes that begin with those of a frame.
LEMMA ReadBack ==
  ASSUME NEW fr \in RawFrames, NEW m, NEW p \in Seq(Nat), p = Compress(m, fr.payload),
         Len(p) <= MaxUint16, NEW w \in Seq(Nat), Begins(w, Bytes(fr, m))
  PROVE  Yields(w, fr.id, fr.kind, fr.flags, p)
<1> DEFINE d == encodeUint32(fr.id)
           e == encodeUint16(Len(p))
           b == Magic \o d \o <<fr.kind, fr.flags>> \o e \o p
<1>1. Bytes(fr, m) = b
  BY Zenon DEF Bytes
<1>2. fr.id \in 0 .. MaxUint32 /\ fr.kind \in Kinds /\ fr.flags \in Nat
  BY Zenon DEF RawFrames, Uint32
<1>3. fr.id \in Nat /\ fr.kind \in Nat /\ Len(p) \in Nat
  BY <1>2, KindsAre, Widths
<1>4. d \in Seq(Nat) /\ Len(d) = 4 /\ e \in Seq(Nat) /\ Len(e) = 2
  BY <1>3, Width16, Width32, Zenon
<1> HIDE DEF d, e
<1>5. Laid(b, d, fr.kind, fr.flags, e, p)
  BY <1>2, <1>3, <1>4, Join, Zenon
<1>6. Len(b) <= Len(w) /\ \A i \in 1 .. Len(b) : w[i] = b[i]
  BY <1>1, Zenon DEF Begins
<1> HIDE DEF b
<1>l. Len(b) = 11 + Len(p)
  BY <1>5, Zenon DEF Laid
<1>7. \A i \in 1 .. 11 : i \in 1 .. Len(b)
  BY <1>3, <1>l
<1>8. \A i \in 1 .. Len(p) : 11 + i \in 1 .. Len(b)
  BY <1>3, <1>l
<1>9. \A i \in 1 .. 3 : w[i] = Magic[i]
  <2>1. \A i \in 1 .. 3 : i \in 1 .. 11
    OBVIOUS
  <2> QED BY <1>5, <1>6, <1>7, <2>1, Zenon DEF Laid
<1>10. \A i \in 1 .. 4 : w[3 + i] = d[i]
  <2>1. w[4] = d[1] /\ w[5] = d[2] /\ w[6] = d[3] /\ w[7] = d[4]
    <3>1. 4 \in 1 .. 11 /\ 5 \in 1 .. 11 /\ 6 \in 1 .. 11 /\ 7 \in 1 .. 11
      OBVIOUS
    <3> QED BY <1>5, <1>6, <1>7, <3>1, Zenon DEF Laid
  <2>2. \A i \in 1 .. 4 : i = 1 \/ i = 2 \/ i = 3 \/ i = 4
    OBVIOUS
  <2> QED BY <2>1, <2>2, Sums, Zenon
<1>11. w[8] = fr.kind /\ w[9] = fr.flags
  <2>1. 8 \in 1 .. 11 /\ 9 \in 1 .. 11
    OBVIOUS
  <2> QED BY <1>5, <1>6, <1>7, <2>1, Zenon DEF Laid
<1>12. \A i \in 1 .. 2 : w[9 + i] = e[i]
  <2>1. w[10] = e[1] /\ w[11] = e[2]
    <3>1. 10 \in 1 .. 11 /\ 11 \in 1 .. 11
      OBVIOUS
    <3> QED BY <1>5, <1>6, <1>7, <3>1, Zenon DEF Laid
  <2>2. \A i \in 1 .. 2 : i = 1 \/ i = 2
    OBVIOUS
  <2> QED BY <2>1, <2>2, Sums, Zenon
<1>13. \A i \in 1 .. Len(p) : w[11 + i] = p[i]
  BY <1>5, <1>6, <1>8, Zenon DEF Laid
<1>14. Len(w) >= 11 + Len(p)
  BY <1>3, <1>l, <1>6
<1>15. Starts(w, fr.id, fr.kind, fr.flags, p)
  BY <1>9, <1>10, <1>11, <1>12, <1>13, <1>14, Zenon DEF Starts, d, e
<1> QED BY <1>2, <1>15, Parse, Zenon

\* The number of bytes of a frame.
LEMMA BytesLen ==
  ASSUME NEW fr \in RawFrames, NEW m, NEW p \in Seq(Nat), p = Compress(m, fr.payload)
  PROVE  Bytes(fr, m) \in Seq(Nat) /\ Len(Bytes(fr, m)) = 11 + Len(p)
<1> DEFINE d == encodeUint32(fr.id)
           e == encodeUint16(Len(p))
           b == Magic \o d \o <<fr.kind, fr.flags>> \o e \o p
<1>1. Bytes(fr, m) = b
  BY Zenon DEF Bytes
<1>2. fr.id \in 0 .. MaxUint32 /\ fr.kind \in Kinds /\ fr.flags \in Nat
  BY Zenon DEF RawFrames, Uint32
<1>3. fr.id \in Nat /\ fr.kind \in Nat /\ Len(p) \in Nat
  BY <1>2, KindsAre, Widths
<1>4. d \in Seq(Nat) /\ Len(d) = 4 /\ e \in Seq(Nat) /\ Len(e) = 2
  BY <1>3, Width16, Width32, Zenon
<1> HIDE DEF d, e
<1>5. Laid(b, d, fr.kind, fr.flags, e, p)
  BY <1>2, <1>3, <1>4, Join, Zenon
<1> QED BY <1>1, <1>5, Zenon DEF Laid

\* A sequence begins with its first part.
LEMMA CatBegins ==
  ASSUME NEW a \in Seq(Nat), NEW b \in Seq(Nat)
  PROVE  a \o b \in Seq(Nat) /\ Begins(a \o b, a)
<1>1. /\ a \o b \in Seq(Nat) /\ Len(a \o b) = Len(a) + Len(b)
      /\ \A i \in 1 .. Len(a) : (a \o b)[i] = a[i]
  BY Cat, Zenon
<1>2. Len(a) \in Nat /\ Len(b) \in Nat
  OBVIOUS
<1>3. ASSUME NEW c, NEW k \in Nat, NEW l \in Nat, c = k + l PROVE k <= c
  BY <1>3
<1> QED BY <1>1, <1>2, <1>3, Zenon DEF Begins

\* The bytes of a frame as its sender writes them, uncompressed.
OnWire(f) == Bytes(IntoFrame(f), "none")

\* What FrameReader.Read and FromFrame make of bytes that begin with those of f.
TakesFrom(w, f) ==
  LET x == ReadFrame(w) IN
  x.st = "ok" /\ x.n = Len(OnWire(f)) /\ FromFrame(x.frame) = f

\* They return f, when its fields fit their widths.
LEMMA Taken ==
  ASSUME NEW f, Fits(f), NEW w \in Seq(Nat), Begins(w, OnWire(f))
  PROVE  TakesFrom(w, f)
<1> DEFINE fr == IntoFrame(f)
<1>1. fr \in RawFrames /\ Len(fr.payload) <= MaxUint16 /\ FromFrame(fr) = f
  BY FrameFaithful, Zenon DEF Faithful
<1> HIDE DEF fr
<1>2. fr.payload \in Seq(Nat) /\ fr.payload = Compress("none", fr.payload)
  BY <1>1, Zenon DEF RawFrames, Compress
<1>3. OnWire(f) \in Seq(Nat) /\ Len(OnWire(f)) = 11 + Len(fr.payload)
  BY <1>1, <1>2, BytesLen, Zenon DEF OnWire, fr
<1>5. Yields(w, fr.id, fr.kind, fr.flags, fr.payload)
  BY <1>1, <1>2, ReadBack, Zenon DEF OnWire, fr
<1>6. fr = [id |-> fr.id, kind |-> fr.kind, flags |-> fr.flags, payload |-> fr.payload]
  BY <1>1 DEF RawFrames
<1>7. ReadFrame(w) = [st |-> "ok", n |-> 11 + Len(fr.payload), frame |-> fr]
  BY <1>5, <1>6, Zenon DEF Yields
<1> DEFINE x == ReadFrame(w)
<1> HIDE DEF x
<1>8. x.st = "ok" /\ x.n = 11 + Len(fr.payload) /\ x.frame = fr
  BY <1>7 DEF x
<1> QED BY <1>1, <1>3, <1>8, Zenon DEF x, TakesFrom

\* The bytes of a frame are its header and more.
LEMMA OnWireLen ==
  ASSUME NEW f, Fits(f)
  PROVE  OnWire(f) \in Seq(Nat) /\ Len(OnWire(f)) \in Nat /\ Len(OnWire(f)) >= 11
<1> DEFINE fr == IntoFrame(f)
<1>1. fr \in RawFrames
  BY FrameFaithful, Zenon DEF Faithful
<1> HIDE DEF fr
<1>2. fr.payload \in Seq(Nat) /\ fr.payload = Compress("none", fr.payload)
  BY <1>1, Zenon DEF RawFrames, Compress
<1>3. OnWire(f) \in Seq(Nat) /\ Len(OnWire(f)) = 11 + Len(fr.payload)
  BY <1>1, <1>2, BytesLen, Zenon DEF OnWire, fr
<1>4. Len(fr.payload) \in Nat
  BY <1>2
<1> QED BY <1>3, <1>4

\* Frame.Bytes, FrameReader.Read and FromFrame lose nothing and need no
\* separator: from bytes that begin with those of a frame whose fields fit
\* their widths, whatever follows, the reader takes exactly the bytes of that
\* frame, and the frame it returns converts back to the one that was written.
THEOREM FrameRoundTrip ==
  ASSUME NEW f, Fits(f), NEW rest \in Seq(Nat)
  PROVE  TakesFrom(OnWire(f) \o rest, f)
<1>1. OnWire(f) \o rest \in Seq(Nat) /\ Begins(OnWire(f) \o rest, OnWire(f))
  BY OnWireLen, CatBegins, Zenon
<1> QED BY <1>1, Taken, Zenon

---------------------------------------------------------------------------
\* The frames under way, as the bytes they are.

\* Every frame whose fields have some type, and those whose fields fit.
AllFrames ==
  [kind : {"HELLO"}, ack : BOOLEAN, gzip : BOOLEAN, max : Uint32]
    \cup [kind : {"PING"}, ack : BOOLEAN, payload : Seq(Nat)]
    \cup [kind : {"GO_AWAY"}, last : Uint32, code : Uint32, data : Seq(Nat)]
    \cup [kind : {"MAKE_STREAM"}, id : Uint32]
    \cup [kind : {"RESET_STREAM"}, id : Uint32, code : Uint32]
    \cup [kind : {"DATA"}, id : Uint32, endData : BOOLEAN, endStream : BOOLEAN,
          payload : Seq(Nat)]
Fitting == {f \in AllFrames : Fits(f)}

\* A frame that fits is one of them.
LEMMA FitIn == ASSUME NEW f, Fits(f) PROVE f \in Fitting
<1>1. CASE f.kind = "HELLO"
  <2>1. f = Hello(f.ack, f.gzip, f.max) /\ f.ack \in BOOLEAN /\ f.gzip \in BOOLEAN
        /\ f.max \in Uint32
    BY <1>1 DEF Fits
  <2>2. f \in [kind : {"HELLO"}, ack : BOOLEAN, gzip : BOOLEAN, max : Uint32]
    BY <2>1 DEF Hello
  <2> QED BY <2>2, Zenon DEF Fitting, AllFrames
<1>2. CASE f.kind = "PING"
  <2>1. f = Ping(f.ack, f.payload) /\ f.ack \in BOOLEAN /\ f.payload \in Seq(Nat)
    BY <1>2 DEF Fits
  <2>2. f \in [kind : {"PING"}, ack : BOOLEAN, payload : Seq(Nat)]
    BY <2>1 DEF Ping
  <2> QED BY <2>2, Zenon DEF Fitting, AllFrames
<1>3. CASE f.kind = "GO_AWAY"
  <2>1. f = GoAway(f.last, f.code, f.data) /\ f.last \in Uint32 /\ f.code \in Uint32
        /\ f.data \in Seq(Nat)
    BY <1>3 DEF Fits
  <2>2. f \in [kind : {"GO_AWAY"}, last : Uint32, code : Uint32, data : Seq(Nat)]
    BY <2>1 DEF GoAway
  <2> QED BY <2>2, Zenon DEF Fitting, AllFrames
<1>4. CASE f.kind = "MAKE_STREAM"
  <2>1. f = MakeStream(f.id) /\ f.id \in Uint32
    BY <1>4 DEF Fits
  <2>2. f \in [kind : {"MAKE_STREAM"}, id : Uint32]
    BY <2>1 DEF MakeStream
  <2> QED BY <2>2, Zenon DEF Fitting, AllFrames
<1>5. CASE f.kind = "RESET_STREAM"
  <2>1. f = ResetStream(f.id, f.code) /\ f.id \in Uint32 /\ f.code \in Uint32
    BY <1>5 DEF Fits
  <2>2. f \in [kind : {"RESET_STREAM"}, id : Uint32, code : Uint32]
    BY <2>1 DEF ResetStream
  <2> QED BY <2>2, Zenon DEF Fitting, AllFrames
<1>6. CASE f.kind = "DATA"
  <2>1. f = Data(f.id, f.endData, f.endStream, f.payload) /\ f.id \in Uint32
        /\ f.endData \in BOOLEAN /\ f.endStream \in BOOLEAN /\ f.payload \in Seq(Nat)
    BY <1>6 DEF Fits
  <2>2. f \in [kind : {"DATA"}, id : Uint32, endData : BOOLEAN, endStream : BOOLEAN,
               payload : Seq(Nat)]
    BY <2>1 DEF Data
  <2> QED BY <2>2, Zenon DEF Fitting, AllFrames
<1> QED BY <1>1, <1>2, <1>3, <1>4, <1>5, <1>6, Zenon DEF Fits

\* The i-th frame of s ends after byte p[i] of all those written.
Marks(p, s) ==
  /\ p \in [Nat -> Nat]
  /\ \A i \in 1 .. Len(s) : p[i] = p[i - 1] + Len(OnWire(s[i]))
  /\ \A i, j \in 0 .. Len(s) : i <= j => p[i] <= p[j]

\* The bytes w are those of the frames of s after the k-th.
Spells(w, p, s, k) ==
  /\ Len(w) = p[Len(s)] - p[k]
  /\ \A i \in (k + 1) .. Len(s) : \A j \in 1 .. Len(OnWire(s[i])) :
       w[(p[i - 1] - p[k]) + j] = OnWire(s[i])[j]

\* When a frame is under way, the bytes begin with the first that is.
LEMMA FirstBegins ==
  ASSUME NEW w \in Seq(Nat), NEW p, NEW s \in Seq(Fitting), NEW k \in Nat,
         Marks(p, s), Spells(w, p, s, k), k < Len(s)
  PROVE  Begins(w, OnWire(s[k + 1])) /\ Len(OnWire(s[k + 1])) = p[k + 1] - p[k]
<1> DEFINE o == OnWire(s[k + 1])
<1>1. k + 1 \in (k + 1) .. Len(s) /\ k + 1 \in 1 .. Len(s) /\ (k + 1) - 1 = k
      /\ k \in Nat /\ Len(s) \in Nat /\ k + 1 \in 0 .. Len(s) /\ k + 1 <= Len(s)
      /\ Len(s) \in 0 .. Len(s) /\ k + 1 \in Nat
  OBVIOUS
<1>2. p[k + 1] = p[k] + Len(o) /\ p[k + 1] <= p[Len(s)]
  BY <1>1, Zenon DEF Marks
<1>3. \A j \in 1 .. Len(o) : w[(p[k] - p[k]) + j] = o[j]
  BY <1>1, Zenon DEF Spells
<1>4. Len(w) = p[Len(s)] - p[k] /\ p \in [Nat -> Nat]
  BY Zenon DEF Spells, Marks
<1>5. s[k + 1] \in Fitting
  BY <1>1
<1>6. Len(o) \in Nat
  BY <1>5, OnWireLen, Zenon DEF Fitting
<1> HIDE DEF o
<1>7. p[k] \in Nat /\ p[k + 1] \in Nat /\ p[Len(s)] \in Nat
  BY <1>1, <1>4
<1>8. Len(o) <= Len(w) /\ Len(o) = p[k + 1] - p[k]
  <2>1. \A a, b, c, n \in Nat : \A m :
          (b = a + n /\ b <= c /\ m = c - a) => (n <= m /\ n = b - a)
    OBVIOUS
  <2>2. Len(w) = p[Len(s)] - p[k]
    BY <1>4, Zenon
  <2>3. ASSUME NEW a, NEW b, NEW c, a = p[k], b = p[k + 1], c = p[Len(s)]
        PROVE  Len(o) <= Len(w) /\ Len(o) = p[k + 1] - p[k]
    <3>1. a \in Nat /\ b \in Nat /\ c \in Nat /\ b = a + Len(o) /\ b <= c /\ Len(w) = c - a
      BY <1>2, <1>7, <2>2, <2>3, Zenon
    <3>2. Len(o) <= Len(w) /\ Len(o) = b - a
      BY <1>6, <2>1, <3>1, Zenon
    <3> QED BY <2>3, <3>2, Zenon
  <2> QED BY <2>3, Zenon
<1>9. \A j \in 1 .. Len(o) : (p[k] - p[k]) + j = j
  BY <1>6, <1>7
<1> QED BY <1>3, <1>8, <1>9, Zenon DEF Begins, o

\* No byte is left exactly when no frame is.
LEMMA NoneLeft ==
  ASSUME NEW w \in Seq(Nat), NEW p, NEW s \in Seq(Fitting), NEW k \in Nat,
         Marks(p, s), Spells(w, p, s, k), k <= Len(s)
  PROVE  Len(w) = 0 <=> k = Len(s)
<1>1. k = Len(s) => Len(w) = 0
  <2>1. Len(w) = p[Len(s)] - p[k] /\ p \in [Nat -> Nat]
    BY Zenon DEF Spells, Marks
  <2>2. p[k] \in Nat
    BY <2>1
  <2>3. p[k] - p[k] = 0
    BY <2>2
  <2> QED BY <2>1, <2>3, Zenon
<1>2. ASSUME k # Len(s) PROVE Len(w) # 0
  <2>1. k < Len(s) /\ k + 1 \in 1 .. Len(s)
    BY <1>2
  <2>2. Begins(w, OnWire(s[k + 1]))
    BY <2>1, FirstBegins, Zenon
  <2>3. s[k + 1] \in Fitting
    BY <2>1
  <2>4. Len(OnWire(s[k + 1])) \in Nat /\ Len(OnWire(s[k + 1])) >= 11
    BY <2>3, OnWireLen, Zenon DEF Fitting
  <2>5. Len(OnWire(s[k + 1])) <= Len(w)
    BY <2>2, Zenon DEF Begins
  <2>6. ASSUME NEW a \in Nat, NEW b \in Nat, a >= 11, a <= b PROVE b # 0
    BY <2>6
  <2> QED BY <2>4, <2>5, <2>6
<1> QED BY <1>1, <1>2, Zenon

\* What is left of a sequence after its first m elements.
LEMMA Drop ==
  ASSUME NEW a \in Seq(Nat), NEW m \in Nat, m <= Len(a)
  PROVE  /\ SubSeq(a, m + 1, Len(a)) \in Seq(Nat)
         /\ Len(SubSeq(a, m + 1, Len(a))) = Len(a) - m
         /\ \A i \in 1 .. (Len(a) - m) : SubSeq(a, m + 1, Len(a))[i] = a[m + i]
  OBVIOUS

\* Where byte j of a frame is, relative to two frames before it: a and b are
\* the ends of those, c the end of the frame before it, d its own and e the end
\* of all.
Shift(a, b, c, e, j) ==
  /\ (c - b) + j \in 1 .. ((e - a) - (b - a))
  /\ (b - a) + ((c - b) + j) = (c - a) + j

\* It is there.
LEMMA Shifted ==
  ASSUME NEW a \in Nat, NEW b \in Nat, NEW c \in Nat, NEW d \in Nat, NEW e \in Nat,
         NEW n \in Nat, NEW j \in 1 .. n, a <= b, b <= c, d = c + n, d <= e
  PROVE  Shift(a, b, c, e, j)
  BY DEF Shift

\* The bytes after those of the first frame are those of the frames after it.
LEMMA RestSpells ==
  ASSUME NEW w \in Seq(Nat), NEW p, NEW s \in Seq(Fitting), NEW k \in Nat,
         Marks(p, s), Spells(w, p, s, k), k < Len(s)
  PROVE  Spells(SubSeq(w, Len(OnWire(s[k + 1])) + 1, Len(w)), p, s, k + 1)
<1> DEFINE m == Len(OnWire(s[k + 1]))
           v == SubSeq(w, m + 1, Len(w))
<1>1. k + 1 \in 1 .. Len(s) /\ k + 1 \in 0 .. Len(s) /\ k \in 0 .. Len(s) /\ k <= k + 1
      /\ k + 1 \in Nat /\ Len(s) \in Nat /\ Len(s) \in 0 .. Len(s) /\ k + 1 <= Len(s)
  OBVIOUS
<1>2. s[k + 1] \in Fitting
  BY <1>1
<1>3. m \in Nat
  BY <1>2, OnWireLen, Zenon DEF Fitting
<1>4. m <= Len(w) /\ m = p[k + 1] - p[k]
  BY FirstBegins, Zenon DEF Begins
<1> HIDE DEF m
<1>5. /\ v \in Seq(Nat) /\ Len(v) = Len(w) - m
      /\ \A i \in 1 .. (Len(w) - m) : v[i] = w[m + i]
  BY <1>3, <1>4, Drop, Zenon
<1> HIDE DEF v
<1>6. p \in [Nat -> Nat] /\ Len(w) = p[Len(s)] - p[k]
  BY Zenon DEF Marks, Spells
<1>7. p[k] \in Nat /\ p[k + 1] \in Nat /\ p[Len(s)] \in Nat
  BY <1>1, <1>6
<1>8. Len(v) = p[Len(s)] - p[k + 1]
  <2>1. Len(v) = (p[Len(s)] - p[k]) - (p[k + 1] - p[k])
    BY <1>4, <1>5, <1>6, Zenon
  <2> QED BY <1>7, <2>1
<1>9. ASSUME NEW i \in ((k + 1) + 1) .. Len(s), NEW j \in 1 .. Len(OnWire(s[i]))
      PROVE  v[(p[i - 1] - p[k + 1]) + j] = OnWire(s[i])[j]
  <2>1. i \in 1 .. Len(s) /\ i - 1 \in 0 .. Len(s) /\ i \in 0 .. Len(s) /\ i - 1 \in Nat
        /\ k + 1 <= i - 1 /\ i <= Len(s) /\ i \in Nat /\ i \in (k + 1) .. Len(s)
    BY <1>1
  <2>2. s[i] \in Fitting
    BY <2>1
  <2>3. Len(OnWire(s[i])) \in Nat
    BY <2>2, OnWireLen, Zenon DEF Fitting
  <2>4. p[i - 1] \in Nat /\ p[i] \in Nat
    BY <1>6, <2>1
  <2>5. /\ p[k] <= p[k + 1] /\ p[k + 1] <= p[i - 1] /\ p[i] <= p[Len(s)]
        /\ p[i] = p[i - 1] + Len(OnWire(s[i]))
    BY <1>1, <2>1, Zenon DEF Marks
  <2>6. Shift(p[k], p[k + 1], p[i - 1], p[Len(s)], j)
    BY <1>7, <2>3, <2>4, <2>5, Shifted, Zenon
  <2>7. v[(p[i - 1] - p[k + 1]) + j] = w[(p[i - 1] - p[k]) + j]
    BY <1>4, <1>5, <1>6, <2>6, Zenon DEF Shift
  <2> QED BY <2>1, <2>7, Zenon DEF Spells
<1> QED BY <1>8, <1>9, Zenon DEF Spells, v, m

\* The contents of a sequence with one element more.
LEMMA Added ==
  ASSUME NEW S, NEW s \in Seq(S), NEW f \in S
  PROVE  /\ Append(s, f) \in Seq(S) /\ Len(Append(s, f)) = Len(s) + 1
         /\ \A i \in 1 .. Len(s) : Append(s, f)[i] = s[i]
         /\ Append(s, f)[Len(s) + 1] = f
  OBVIOUS

\* Byte j of a frame that ends at d and starts after c, in bytes that start
\* after a and end at e.
Placed(a, c, e, j) == (c - a) + j \in 1 .. (e - a)

\* It is among them.
LEMMA InPlace ==
  ASSUME NEW a \in Nat, NEW c \in Nat, NEW d \in Nat, NEW e \in Nat,
         NEW n \in Nat, NEW j \in 1 .. n, a <= c, d = c + n, d <= e
  PROVE  Placed(a, c, e, j)
  BY DEF Placed

\* The bytes of a frame that is written come after those of the others.
LEMMA MoreSpells ==
  ASSUME NEW w \in Seq(Nat), NEW p, NEW s \in Seq(Fitting), NEW k \in Nat,
         Marks(p, s), Spells(w, p, s, k), k <= Len(s), NEW f \in Fitting
  PROVE  \E q : Marks(q, Append(s, f)) /\ Spells(w \o OnWire(f), q, Append(s, f), k)
<1> DEFINE n == Len(s)
           t == Append(s, f)
           o == OnWire(f)
           q == [p EXCEPT ![n + 1] = p[n] + Len(o)]
<1>1. n \in Nat /\ n + 1 \in Nat /\ k \in 0 .. n /\ n \in 0 .. n
  OBVIOUS
<1>2. /\ t \in Seq(Fitting) /\ Len(t) = n + 1
      /\ \A i \in 1 .. n : t[i] = s[i]
      /\ t[n + 1] = f
  BY Added, Zenon
<1>3. o \in Seq(Nat) /\ Len(o) \in Nat
  BY OnWireLen, Zenon DEF Fitting
<1>4. /\ p \in [Nat -> Nat] /\ Len(w) = p[n] - p[k]
  BY Zenon DEF Marks, Spells
<1> HIDE DEF t, o
<1>5. p[n] \in Nat /\ p[k] \in Nat
  BY <1>1, <1>4
<1>6. p[n] + Len(o) \in Nat
  BY <1>3, <1>5
<1>7. /\ q \in [Nat -> Nat] /\ q[n + 1] = p[n] + Len(o)
      /\ \A i \in Nat : i # n + 1 => q[i] = p[i]
  BY <1>1, <1>4, <1>6, Zenon
<1> HIDE DEF n, q
<1>8. \A i \in 0 .. n : i # n + 1 /\ i \in Nat
  BY <1>1
<1>9. \A i \in 0 .. n : q[i] = p[i]
  BY <1>7, <1>8, Zenon
<1>10. \A i \in 1 .. n : i \in 0 .. n /\ i - 1 \in 0 .. n
  BY <1>1
<1>11. (n + 1) - 1 = n
  BY <1>1
<1>12. \A i \in 1 .. (n + 1) : i \in 1 .. n \/ i = n + 1
  BY <1>1
<1>13. \A i \in 1 .. n : p[i] = p[i - 1] + Len(OnWire(s[i]))
  BY Zenon DEF Marks, n
<1>14. ASSUME NEW i \in 1 .. (n + 1)
       PROVE  q[i] = q[i - 1] + Len(OnWire(t[i]))
  <2>1. CASE i \in 1 .. n
    BY <1>2, <1>9, <1>10, <1>13, <2>1, Zenon
  <2>2. CASE i = n + 1
    BY <1>1, <1>2, <1>7, <1>9, <1>11, <2>2, Zenon DEF o
  <2> QED BY <1>12, <2>1, <2>2, Zenon
<1>15. \A i, j \in 0 .. n : i <= j => p[i] <= p[j]
  BY Zenon DEF Marks, n
<1>16. ASSUME NEW i \in 0 .. (n + 1), NEW j \in 0 .. (n + 1), i <= j
       PROVE  q[i] <= q[j]
  <2>1. CASE j \in 0 .. n
    <3>1. i \in 0 .. n
      BY <1>1, <1>16, <2>1
    <3> QED BY <1>9, <1>15, <1>16, <2>1, <3>1, Zenon
  <2>2. CASE j = n + 1 /\ i = n + 1
    <3>1. q[n + 1] \in Nat
      BY <1>6, <1>7, Zenon
    <3>2. \A a \in Nat : a <= a
      OBVIOUS
    <3> QED BY <2>2, <3>1, <3>2, Zenon
  <2>3. CASE j = n + 1 /\ i \in 0 .. n
    <3>1. i <= n /\ i \in Nat
      BY <2>3
    <3>2. p[i] <= p[n]
      BY <1>1, <1>15, <2>3, <3>1, Zenon
    <3>3. p[i] \in Nat
      BY <1>4, <3>1
    <3>4. \A a, b, l \in Nat : a <= b => a <= b + l
      OBVIOUS
    <3>5. p[i] <= p[n] + Len(o)
      BY <1>3, <1>5, <3>2, <3>3, <3>4, Zenon
    <3> QED BY <1>7, <1>9, <2>3, <3>5, Zenon
  <2>4. i \in 0 .. n \/ i = n + 1
    BY <1>1
  <2>5. j \in 0 .. n \/ j = n + 1
    BY <1>1
  <2>6. i = n + 1 => j = n + 1
    BY <1>1, <1>16
  <2> QED BY <2>1, <2>2, <2>3, <2>4, <2>5, <2>6, Zenon
<1>17. Marks(q, t)
  BY <1>2, <1>7, <1>14, <1>16, Zenon DEF Marks
<1>18. /\ w \o o \in Seq(Nat) /\ Len(w \o o) = Len(w) + Len(o)
       /\ \A i \in 1 .. Len(w) : (w \o o)[i] = w[i]
       /\ \A i \in 1 .. Len(o) : (w \o o)[Len(w) + i] = o[i]
  BY <1>3, Cat, Zenon
<1>19. Len(w \o o) = q[n + 1] - q[k]
  <2>2. (p[n] - p[k]) + Len(o) = (p[n] + Len(o)) - p[k]
    BY <1>3, <1>5
  <2> QED BY <1>1, <1>4, <1>7, <1>9, <1>18, <2>2, Zenon
<1>20. ASSUME NEW i \in (k + 1) .. (n + 1), NEW j \in 1 .. Len(OnWire(t[i]))
       PROVE  (w \o o)[(q[i - 1] - q[k]) + j] = OnWire(t[i])[j]
  <2>1. CASE i \in 1 .. n
    <3>1. i \in (k + 1) .. n /\ i - 1 \in 0 .. n /\ i \in 0 .. n /\ k <= i - 1
          /\ i - 1 \in Nat /\ i \in Nat /\ i <= n
      BY <1>1, <2>1
    <3>2. t[i] = s[i] /\ q[i - 1] = p[i - 1] /\ q[k] = p[k]
      BY <1>1, <1>2, <1>9, <2>1, <3>1, Zenon
    <3>3. s[i] \in Fitting
      BY <2>1 DEF n
    <3>4. Len(OnWire(s[i])) \in Nat
      BY <3>3, OnWireLen, Zenon DEF Fitting
    <3>5. p[i - 1] \in Nat /\ p[i] \in Nat
      BY <1>4, <3>1
    <3>6. /\ p[k] <= p[i - 1] /\ p[i] <= p[n] /\ p[i] = p[i - 1] + Len(OnWire(s[i]))
      BY <1>1, <1>13, <1>15, <2>1, <3>1, Zenon
    <3>7. Placed(p[k], p[i - 1], p[n], j)
      BY <1>5, <3>2, <3>4, <3>5, <3>6, InPlace, Zenon
    <3>8. (w \o o)[(p[i - 1] - p[k]) + j] = w[(p[i - 1] - p[k]) + j]
      BY <1>4, <1>18, <3>7, Zenon DEF Placed
    <3>9. w[(p[i - 1] - p[k]) + j] = OnWire(s[i])[j]
      BY <3>1, <3>2, Zenon DEF Spells, n
    <3> QED BY <3>2, <3>8, <3>9, Zenon
  <2>2. CASE i = n + 1
    <3>1. OnWire(t[i]) = o
      BY <1>2, <2>2, Zenon DEF o
    <3>2. q[i - 1] = p[n] /\ q[k] = p[k]
      BY <1>1, <1>9, <1>11, <2>2, Zenon
    <3>3. q[i - 1] - q[k] = Len(w)
      BY <1>4, <3>2, Zenon
    <3> QED BY <1>18, <3>1, <3>3, Zenon
  <2>3. i \in 1 .. n \/ i = n + 1
    BY <1>1
  <2> QED BY <2>1, <2>2, <2>3, Zenon
<1>21. Spells(w \o o, q, t, k)
  BY <1>2, <1>19, <1>20, Zenon DEF Spells
<1> QED BY <1>17, <1>21, Zenon DEF t, o

\* The answer to a HELLO that asks for compression.
Answer == Hello(TRUE, TRUE, 0)

\* It is compressed, and so refused.
LEMMA AnswerRefused ==
  ASSUME NEW w \in Seq(Nat), Begins(w, Bytes(IntoFrame(Answer), "gzip"))
  PROVE  Len(w) # 0 /\ ReadFrame(w).st = "ok" /\ ~Accepts(ReadFrame(w).frame)
<1> DEFINE fr == IntoFrame(Answer)
           p == Compress("gzip", fr.payload)
<1>1. 0 \in Uint32 /\ 0 \in Nat
  BY Widths DEF Uint32
<1>2. Fits(Answer)
  <2>1. Answer.kind = "HELLO" /\ Answer.ack = TRUE /\ Answer.gzip = TRUE /\ Answer.max = 0
    BY DEF Answer, Hello
  <2> QED BY <1>1, <2>1, Zenon DEF Fits, Answer
<1>3. fr \in RawFrames
  BY <1>2, FrameFaithful, Zenon DEF Faithful
<1>4. fr.payload = encodeUint32(0) /\ fr.kind = 0
  BY DEF IntoFrame, IntoHello, Answer, Hello, Raw, FrameKind
<1>5. fr.payload \in Seq(Nat) /\ Len(fr.payload) = 4
  BY <1>1, <1>4, Width32, Zenon
<1>6. p = <<1>> \o fr.payload
  BY Zenon DEF Compress
<1> HIDE DEF fr, p
<1>7. p \in Seq(Nat) /\ Len(p) = 5
  <2>1. <<1>> \in Seq(Nat) /\ Len(<<1>>) = 1
    OBVIOUS
  <2>2. <<1>> \o fr.payload \in Seq(Nat)
        /\ Len(<<1>> \o fr.payload) = Len(<<1>>) + Len(fr.payload)
    BY <1>5, <2>1, Cat, Zenon
  <2>3. 1 + 4 = 5
    OBVIOUS
  <2> QED BY <1>5, <1>6, <2>1, <2>2, <2>3, Zenon
<1>8. Len(p) <= MaxUint16
  BY <1>7, Widths
<1>9. Yields(w, fr.id, fr.kind, fr.flags, p)
  BY <1>3, <1>7, <1>8, ReadBack, Zenon DEF fr, p
<1> DEFINE x == ReadFrame(w)
<1>10. x = [st |-> "ok", n |-> 11 + Len(p),
            frame |-> [id |-> fr.id, kind |-> fr.kind, flags |-> fr.flags, payload |-> p]]
  BY <1>9, Zenon DEF Yields
<1> HIDE DEF x
<1>11. x.st = "ok" /\ x.frame.kind = 0 /\ x.frame.payload = p
  BY <1>4, <1>10
<1>12. ~Accepts(x.frame)
  <2>1. FrameKind.HELLO = 0
    BY DEF FrameKind
  <2>2. Accepts(x.frame) => Len(p) \in {0, 4}
    BY <1>11, <2>1, Zenon DEF Accepts
  <2>3. 5 \notin {0, 4}
    OBVIOUS
  <2> QED BY <1>7, <2>2, <2>3, Zenon
<1>13. Len(w) # 0
  <2>1. Bytes(fr, "gzip") \in Seq(Nat) /\ Len(Bytes(fr, "gzip")) = 11 + Len(p)
    BY <1>3, <1>7, BytesLen, Zenon DEF p
  <2>2. 11 + Len(p) <= Len(w)
    BY <2>1, Zenon DEF Begins, fr
  <2> QED BY <1>7, <2>2
<1> QED BY <1>11, <1>12, <1>13, Zenon DEF x

---------------------------------------------------------------------------
\* DataFramesFromBuffer.

\* What is longer than a frame's payload takes two frames or more.
LEMMA TwoOrMore ==
  ASSUME NEW l \in Nat, NEW m \in Nat, m > 0, l > m
  PROVE  (l + m - 1) \div m \in Nat /\ (l + m - 1) \div m >= 2
<1> DEFINE v == l + m - 1
           q == v \div m
<1>1. v \in Nat /\ v >= m + m
  OBVIOUS
<1> HIDE DEF v
<1>2. q \in Nat
  BY <1>1
<1>3. v % m = v - m * q /\ v % m \in 0 .. m - 1
  BY <1>1
<1> HIDE DEF q
<1>4. q # 0
  <2>1. q = 0 => m * q = 0
    BY <1>2
  <2> QED BY <1>1, <1>3, <2>1
<1>5. q # 1
  <2>1. q = 1 => m * q = m
    BY <1>2
  <2> QED BY <1>1, <1>3, <2>1
<1>6. q >= 2
  BY <1>2, <1>4, <1>5
<1> QED BY <1>2, <1>6 DEF q, v

\* A segment fits the payload of a frame.
LEMMA SegmentLen ==
  ASSUME NEW b \in Seq(Nat), NEW w \in Nat, NEW m \in Nat
  PROVE  LET n == SmallerOf(Len(b) - w, m)
             s == SubSeq(b, w + 1, w + n)
         IN  s \in Seq(Nat) /\ Len(s) <= m
<1> DEFINE n == SmallerOf(Len(b) - w, m)
           s == SubSeq(b, w + 1, w + n)
<1> SUFFICES s \in Seq(Nat) /\ Len(s) <= m
  BY Zenon
<1>1. n \in Int /\ n <= m /\ n <= Len(b) - w
  BY DEF SmallerOf
<1> HIDE DEF n
<1>2. CASE n >= 1
  <2>1. w + 1 \in 1 .. Len(b) /\ w + n \in 1 .. Len(b) /\ (w + n) - (w + 1) + 1 = n
    BY <1>1, <1>2
  <2>2. s \in Seq(Nat) /\ Len(s) = (w + n) - (w + 1) + 1
    BY <1>1, <1>2, <2>1
  <2> QED BY <1>1, <2>1, <2>2, Zenon
<1>3. CASE n < 1
  <2>1. s = <<>>
    BY <1>1, <1>3
  <2>2. <<>> \in Seq(Nat) /\ Len(<<>>) <= m
    OBVIOUS
  <2> QED BY <2>1, <2>2, Zenon
<1> QED BY <1>1, <1>2, <1>3

\* The segments of a buffer b: the last alone has END_DATA, each the END_STREAM
\* flag e, and they are several when b does not fit one frame.
Segmented(d, e, b) ==
  /\ d \in Seq(Fitting) /\ Len(d) \in Nat \ {0}
  /\ Len(d) = 1 <=> Len(b) <= maxPayload
  /\ \A i \in 1 .. Len(d) : /\ d[i].kind = "DATA" /\ d[i].endStream = e
                            /\ d[i].endData <=> i = Len(d)

\* DataFramesFromBuffer returns such segments.
LEMMA Segments ==
  ASSUME NEW e \in BOOLEAN, NEW b \in Seq(Nat)
  PROVE  Segmented(DataFrames(e, b), e, b)
<1> DEFINE n == IF Len(b) <= maxPayload THEN 1
                ELSE (Len(b) + maxPayload - 1) \div maxPayload
           d == [i \in 1 .. n |-> Segment(e, b, i, n)]
<1>1. maxPayload \in Nat /\ maxPayload > 0 /\ Len(b) \in Nat
  BY Widths DEF maxPayload
<1>2. n \in Nat \ {0} /\ (n = 1 <=> Len(b) <= maxPayload)
  <2>1. CASE Len(b) <= maxPayload
    BY <2>1
  <2>2. CASE ~(Len(b) <= maxPayload)
    <3>1. Len(b) > maxPayload
      BY <1>1, <2>2
    <3>2. n = (Len(b) + maxPayload - 1) \div maxPayload
      BY <2>2, Zenon
    <3> HIDE DEF n
    <3>3. n \in Nat /\ n >= 2
      BY <1>1, <3>1, <3>2, TwoOrMore, Zenon
    <3> QED BY <2>2, <3>3
  <2> QED BY <2>1, <2>2, Zenon
<1>3. DataFrames(e, b) = d
  BY Zenon DEF DataFrames
<1> HIDE DEF n
<1>4. ASSUME NEW i \in 1 .. n
      PROVE  /\ Segment(e, b, i, n) \in Fitting
             /\ Segment(e, b, i, n).kind = "DATA"
             /\ Segment(e, b, i, n).endStream = e
             /\ Segment(e, b, i, n).endData <=> i = n
  <2> DEFINE w == (i - 1) * maxPayload
             m == SmallerOf(Len(b) - w, maxPayload)
             s == SubSeq(b, w + 1, w + m)
             f == Data(1, i = n, e, s)
  <2>1. i - 1 \in Nat
    BY <1>2
  <2>2. w \in Nat
    BY <1>1, <2>1
  <2>3. Segment(e, b, i, n) = f
    BY Zenon DEF Segment, StreamID
  <2> HIDE DEF w
  <2>4. s \in Seq(Nat) /\ Len(s) <= maxPayload
    BY <1>1, <2>2, SegmentLen, Zenon
  <2> HIDE DEF s
  <2>5. /\ f.kind = "DATA" /\ f.id = 1 /\ f.endStream = e /\ f.endData = (i = n)
        /\ f.payload = s
    BY Zenon DEF Data
  <2>6. 1 \in Uint32
    BY BaseAssumption DEF Uint32, MaxUint32
  <2>7. f = Data(f.id, f.endData, f.endStream, f.payload)
    BY <2>5, Zenon
  <2> HIDE DEF f
  <2>8. Fits(f)
    BY <2>4, <2>5, <2>6, <2>7, Zenon DEF Fits, maxPayload
  <2>9. f \in Fitting
    BY <2>8, FitIn, Zenon
  <2> QED BY <2>3, <2>5, <2>9, Zenon
<1>5. d \in Seq(Fitting) /\ Len(d) = n
  BY <1>2, <1>4
<1>6. \A i \in 1 .. n : d[i] = Segment(e, b, i, n)
  BY Zenon
<1> HIDE DEF d
<1>7. ASSUME NEW i \in 1 .. Len(d)
      PROVE  d[i].kind = "DATA" /\ d[i].endStream = e /\ (d[i].endData <=> i = Len(d))
  <2>1. i \in 1 .. n
    BY <1>5, Zenon
  <2> QED BY <1>4, <1>5, <1>6, <2>1, Zenon
<1>8. Len(d) \in Nat \ {0} /\ (Len(d) = 1 <=> Len(b) <= maxPayload)
  BY <1>2, <1>5, Zenon
<1> QED BY <1>3, <1>5, <1>7, <1>8, Zenon DEF Segmented

\* How many segments of m bytes a buffer of l takes.
LEMMA RoundedUp ==
  ASSUME NEW l \in Nat, NEW m \in Nat, m > 0, l > m, NEW n, n = (l + m - 1) \div m
  PROVE  n \in Nat /\ (n - 1) * m < l /\ l <= (n - 1) * m + m
<1> DEFINE v == l + m - 1
<1>1. v \in Nat
  OBVIOUS
<1>2. n = v \div m
  OBVIOUS
<1> HIDE DEF v
<1>3. n \in Nat
  BY <1>1, <1>2
<1>4. v % m = v - m * n /\ v % m \in 0 .. m - 1
  BY <1>1, <1>2
<1>5. (n - 1) * m = m * n - m /\ m * n \in Nat
  BY <1>3
<1> DEFINE a == m * n
           b == (n - 1) * m
           r == v % m
<1>6. a \in Nat /\ b = a - m /\ r = v - a /\ r \in 0 .. m - 1
  BY <1>4, <1>5, Zenon
<1> HIDE DEF a, b, r
<1>7. v = l + m - 1
  BY DEF v
<1>8. b < l /\ l <= b + m
  BY <1>6, <1>7
<1> QED BY <1>3, <1>8, Zenon DEF b

\* Segment i of n of a buffer of l bytes starts after byte w, which is at most
\* where the last one does.
LEMMA Offsets ==
  ASSUME NEW m \in Nat, NEW n \in Nat, NEW i \in 1 .. n
  PROVE  /\ (i - 1) * m \in Nat
         /\ i < n => (i - 1) * m + m <= (n - 1) * m
<1>1. i - 1 \in Nat /\ n - 1 \in Nat
  OBVIOUS
<1>2. (i - 1) * m \in Nat /\ (n - 1) * m \in Nat
  BY <1>1
<1>3. ASSUME i < n PROVE (i - 1) * m + m <= (n - 1) * m
  <2>1. n - 1 - i \in Nat
    BY <1>3
  <2>2. (n - 1) * m = (i - 1) * m + m + (n - 1 - i) * m
    BY <1>1, <2>1
  <2>3. (n - 1 - i) * m \in Nat
    BY <2>1
  <2> QED BY <1>2, <2>2, <2>3
<1> QED BY <1>2, <1>3

\* A part of a sequence.
LEMMA Part ==
  ASSUME NEW b \in Seq(Nat), NEW w \in Nat, NEW t \in Nat, w + t <= Len(b)
  PROVE  /\ Len(SubSeq(b, w + 1, w + t)) = t
         /\ \A j \in 1 .. t : SubSeq(b, w + 1, w + t)[j] = b[w + j]
  OBVIOUS

\* Segment i of n is s: the bytes of b after those of the segments before it.
Holds(i, n, b, s) ==
  LET w == (i - 1) * maxPayload IN
  /\ w + Len(s) <= Len(b)
  /\ \A j \in 1 .. Len(s) : s[j] = b[w + j]
  /\ i < n => Len(s) = maxPayload
  /\ i = n => w + Len(s) = Len(b)

\* Each of the segments d of b holds the part of b that is its own, and
\* together they hold all of it.
Covers(d, b) == \A i \in 1 .. Len(d) : Holds(i, Len(d), b, d[i].payload)

\* DataFramesFromBuffer loses, repeats and reorders no byte: every segment but
\* the last is full, each continues where the one before it ended, and the last
\* one ends where the buffer does.
THEOREM SegmentsCover ==
  ASSUME NEW e \in BOOLEAN, NEW b \in Seq(Nat)
  PROVE  Covers(DataFrames(e, b), b)
<1> DEFINE n == IF Len(b) <= maxPayload THEN 1
                ELSE (Len(b) + maxPayload - 1) \div maxPayload
           d == [i \in 1 .. n |-> Segment(e, b, i, n)]
           m == maxPayload
           l == Len(b)
           z == (n - 1) * m
<1>1. m \in Nat /\ m > 0 /\ l \in Nat
  BY Widths DEF maxPayload
<1>2. n \in Nat \ {0} /\ z \in Nat /\ z <= l /\ l <= z + m /\ (n # 1 => z < l)
  <2>1. CASE l <= m
    <3>1. n = 1
      BY <2>1, Zenon
    <3> HIDE DEF n, m, l
    <3>2. z = 0
      BY <1>1, <3>1
    <3> HIDE DEF z
    <3> QED BY <1>1, <2>1, <3>1, <3>2
  <2>2. CASE ~(l <= m)
    <3>1. l > m
      BY <1>1, <2>2
    <3>2. n = (l + m - 1) \div m
      BY <2>2, Zenon
    <3> HIDE DEF n, m, l
    <3>3. n \in Nat /\ z < l /\ l <= z + m
      BY <1>1, <3>1, <3>2, RoundedUp, Zenon
    <3>4. n \in Nat /\ n >= 2
      BY <1>1, <3>1, <3>2, TwoOrMore, Zenon
    <3>5. n - 1 \in Nat
      BY <3>4
    <3>6. z \in Nat
      BY <1>1, <3>5
    <3> HIDE DEF z
    <3> QED BY <1>1, <3>3, <3>4, <3>6
  <2> QED BY <2>1, <2>2, Zenon
<1>3. DataFrames(e, b) = d
  BY Zenon DEF DataFrames
<1> HIDE DEF n
<1>4. ASSUME NEW i \in 1 .. n
      PROVE  Holds(i, n, b, Segment(e, b, i, n).payload)
  <2> DEFINE w == (i - 1) * m
             t == SmallerOf(l - w, m)
             s == SubSeq(b, w + 1, w + t)
  <2>1. Segment(e, b, i, n).payload = s
    <3>1. Segment(e, b, i, n) = Data(StreamID, i = n, e, s)
      BY Zenon DEF Segment
    <3>2. Data(StreamID, i = n, e, s).payload = s
      BY Zenon DEF Data
    <3> QED BY <3>1, <3>2, Zenon
  <2>2. w \in Nat /\ (i < n => w + m <= z)
    BY <1>1, <1>2, Offsets, Zenon
  <2>3. i = n => w = z
    BY Zenon
  <2> HIDE DEF m, l, w, z
  <2>4. i < n \/ i = n
    BY <1>2
  <2>5. CASE i < n
    <3>1. n # 1
      BY <1>2, <2>5
    <3>2. w + m <= z /\ z < l
      BY <1>2, <2>2, <2>5, <3>1, Zenon
    <3>3. t = m
      BY <1>1, <1>2, <2>2, <3>2 DEF SmallerOf
    <3>4. w + t <= l /\ t \in Nat
      BY <1>1, <1>2, <2>2, <3>2, <3>3
    <3> HIDE DEF t
    <3>5. Len(s) = t /\ \A j \in 1 .. t : s[j] = b[w + j]
      BY <2>2, <3>4, Part, Zenon DEF l
    <3> HIDE DEF s
    <3>6. i # n
      BY <1>2, <2>5
    <3> QED BY <2>1, <3>3, <3>4, <3>5, <3>6, Zenon DEF Holds, w, m, l
  <2>6. CASE i = n
    <3>1. w <= l /\ l <= w + m
      BY <1>2, <2>3, <2>6, Zenon
    <3>2. t = l - w
      BY <1>1, <2>2, <3>1 DEF SmallerOf
    <3>3. w + t = l /\ t \in Nat /\ w + t <= l
      BY <1>1, <2>2, <3>1, <3>2
    <3> HIDE DEF t
    <3>4. Len(s) = t /\ \A j \in 1 .. t : s[j] = b[w + j]
      BY <2>2, <3>3, Part, Zenon DEF l
    <3> HIDE DEF s
    <3>5. ~(i < n)
      BY <1>2, <2>6
    <3> QED BY <2>1, <3>3, <3>4, <3>5, Zenon DEF Holds, w, m, l
  <2> QED BY <2>4, <2>5, <2>6, Zenon
<1>5. Len(d) = n
  BY <1>2
<1>6. \A i \in 1 .. n : d[i] = Segment(e, b, i, n)
  BY Zenon
<1> HIDE DEF d
<1> QED BY <1>3, <1>4, <1>5, <1>6, Zenon DEF Covers
---------------------------------------------------------------------------
\* The invariant of the wire.

\* What was accepted is what was written, up to some point.
InOrder ==
  /\ Len(got) <= Len(sent)
  /\ \A i \in 1 .. Len(got) : got[i] = sent[i]

WireTypes ==
  /\ from \in {"client", "server"} /\ method \in {"none", "gzip"}
  /\ sent \in Seq(Fitting) /\ got \in Seq(Fitting) /\ wire \in Seq(Nat)
  /\ cut \in BOOLEAN /\ receiving \in BOOLEAN

\* As long as the connection lasts, the bytes under way are those of the
\* frames that have not been accepted yet.
UnderWay ==
  Compression = "none" /\ receiving /\ ~cut =>
    \E p : Marks(p, sent) /\ Spells(wire, p, sent, Len(got))

\* Of a connection that was cut no whole frame is left.
AtCut == receiving /\ cut => ReadFrame(wire).st = "wait"

\* A compressed answer to the HELLO is never got past.
Compressed ==
  Compression # "none" =>
    /\ got = <<>>
    /\ receiving /\ ~cut => IF sent = <<>> THEN wire = <<>>
                            ELSE Begins(wire, Bytes(IntoFrame(Answer), "gzip"))

WireInv == WireTypes /\ InOrder /\ UnderWay /\ AtCut /\ Compressed

wireVars == <<from, method, sent, got, wire, cut, receiving>>

\* FrameReader.Read waits when there is nothing.
LEMMA EmptyWaits ==
  ASSUME NEW w \in Seq(Nat), Len(w) = 0
  PROVE  ReadFrame(w).st = "wait"
<1>1. Len(w) < HeaderLen
  BY MagicIs DEF HeaderLen
<1>2. ~(Len(w) >= HeaderLen)
  BY MagicIs DEF HeaderLen
<1>3. ReadFrame(w) = [st |-> "wait"]
  BY <1>1, <1>2, Zenon DEF ReadFrame
<1> QED BY <1>3

\* The bytes of a frame, compressed or not.
LEMMA BytesSeq ==
  ASSUME NEW f \in Fitting, NEW m
  PROVE  Bytes(IntoFrame(f), m) \in Seq(Nat)
<1> DEFINE fr == IntoFrame(f)
<1>1. fr \in RawFrames
  BY FrameFaithful, Zenon DEF Faithful, Fitting
<1> HIDE DEF fr
<1>2. fr.payload \in Seq(Nat)
  BY <1>1, Zenon DEF RawFrames
<1>3. Compress(m, fr.payload) \in Seq(Nat)
  <2>1. <<1>> \in Seq(Nat)
    OBVIOUS
  <2>2. <<1>> \o fr.payload \in Seq(Nat)
    BY <1>2, <2>1, Cat, Zenon
  <2> QED BY <1>2, <2>2, Zenon DEF Compress
<1> QED BY <1>1, <1>3, BytesLen, Zenon DEF fr

\* The parts of WireInv depend on nothing else.
LEMMA WireStutter == WireInv /\ UNCHANGED wireVars => WireInv'
<1> SUFFICES ASSUME WireInv, UNCHANGED wireVars PROVE WireInv'
  OBVIOUS
<1>1. /\ from' = from /\ method' = method /\ sent' = sent /\ got' = got /\ wire' = wire
      /\ cut' = cut /\ receiving' = receiving
  BY Zenon DEF wireVars
<1>2. Compression' = Compression
  BY <1>1, Zenon DEF Compression
<1> QED BY <1>1, <1>2, Zenon DEF WireInv, WireTypes, InOrder, UnderWay, AtCut, Compressed

\* FramingInit
LEMMA WireInit == FramingInit => WireInv
<1> SUFFICES ASSUME FramingInit PROVE WireInv
  OBVIOUS
<1>1. /\ from \in {"client", "server"} /\ method \in {"none", "gzip"}
      /\ sent = <<>> /\ got = <<>> /\ wire = <<>> /\ cut = FALSE /\ receiving = TRUE
  BY FramingAssumption, Zenon DEF FramingInit
<1>2. <<>> \in Seq(Fitting) /\ <<>> \in Seq(Nat) /\ Len(<<>>) = 0
  OBVIOUS
<1>3. WireTypes
  BY <1>1, <1>2, Zenon DEF WireTypes
<1>4. InOrder
  <2>1. Len(got) = 0 /\ Len(sent) = 0
    BY <1>1, <1>2, Zenon
  <2>2. 0 <= 0 /\ \A i \in 1 .. 0 : FALSE
    OBVIOUS
  <2> QED BY <2>1, <2>2, Zenon DEF InOrder
<1>5. UnderWay
  <2> DEFINE p == [i \in Nat |-> 0]
  <2>1. p \in [Nat -> Nat] /\ \A i \in Nat : p[i] = 0
    OBVIOUS
  <2>2. Marks(p, <<>>)
    BY <2>1 DEF Marks
  <2>3. Spells(<<>>, p, <<>>, 0)
    BY <2>1 DEF Spells
  <2> HIDE DEF p
  <2>4. Marks(p, sent) /\ Spells(wire, p, sent, Len(got))
    BY <1>1, <1>2, <2>2, <2>3, Zenon
  <2> QED BY <2>4, Zenon DEF UnderWay
<1>6. AtCut /\ Compressed
  BY <1>1, Zenon DEF AtCut, Compressed
<1> QED BY <1>3, <1>4, <1>5, <1>6, Zenon DEF WireInv

\* A frame is written.  The first is the HELLO.
LEMMA TransmitWire ==
  ASSUME WireInv, NEW f \in Fitting, Transmit(f),
         (Compression # "none" /\ sent = <<>>) => (f = Answer /\ Compression = "gzip")
  PROVE  WireInv'
<1>1. /\ from' = from /\ method' = method /\ cut' = cut /\ got' = got
      /\ receiving' = receiving /\ ~cut /\ receiving
      /\ sent' = Append(sent, f) /\ wire' = wire \o Bytes(IntoFrame(f), Compression)
  BY Zenon DEF Transmit, receiver
<1>2. Compression' = Compression
  BY <1>1, Zenon DEF Compression
<1>3. /\ sent \in Seq(Fitting) /\ got \in Seq(Fitting) /\ wire \in Seq(Nat)
      /\ Len(got) <= Len(sent)
  BY Zenon DEF WireInv, WireTypes, InOrder
<1>4. /\ Append(sent, f) \in Seq(Fitting) /\ Len(Append(sent, f)) = Len(sent) + 1
      /\ \A i \in 1 .. Len(sent) : Append(sent, f)[i] = sent[i]
      /\ Append(sent, f)[Len(sent) + 1] = f
  BY <1>3, Added, Zenon
<1>5. Bytes(IntoFrame(f), Compression) \in Seq(Nat)
  BY BytesSeq, Zenon
<1>6. wire' \in Seq(Nat)
  BY <1>1, <1>3, <1>5, Cat, Zenon
<1>7. WireTypes'
  BY <1>1, <1>4, <1>6, Zenon DEF WireInv, WireTypes
<1>8. Len(got) \in Nat /\ Len(sent) \in Nat
  BY <1>3
<1>9. InOrder'
  <2>1. Len(got) <= Len(sent) + 1 /\ \A i \in 1 .. Len(got) : i \in 1 .. Len(sent)
    BY <1>3, <1>8
  <2>2. \A i \in 1 .. Len(got) : got[i] = sent[i]
    BY Zenon DEF WireInv, InOrder
  <2>3. \A i \in 1 .. Len(got) : got[i] = Append(sent, f)[i]
    BY <1>4, <2>1, <2>2, Zenon
  <2> QED BY <1>1, <1>4, <2>1, <2>3, Zenon DEF InOrder
<1>10. UnderWay'
  <2> SUFFICES ASSUME Compression = "none"
               PROVE  \E q : Marks(q, sent') /\ Spells(wire', q, sent', Len(got'))
    BY <1>2, Zenon DEF UnderWay
  <2>1. PICK p : Marks(p, sent) /\ Spells(wire, p, sent, Len(got))
    BY <1>1, Zenon DEF WireInv, UnderWay
  <2>2. \E q : Marks(q, Append(sent, f))
               /\ Spells(wire \o OnWire(f), q, Append(sent, f), Len(got))
    BY <1>3, <1>8, <2>1, MoreSpells, Zenon
  <2> QED BY <1>1, <2>2, Zenon DEF OnWire
<1>11. AtCut'
  BY <1>1, Zenon DEF AtCut
<1>12. Compressed'
  <2> SUFFICES ASSUME Compression # "none"
               PROVE  got' = <<>> /\ sent' # <<>>
                      /\ Begins(wire', Bytes(IntoFrame(Answer), "gzip"))
    BY <1>2, Zenon DEF Compressed
  <2>1. got = <<>>
    BY Zenon DEF WireInv, Compressed
  <2>2. Append(sent, f) # <<>>
    BY <1>3
  <2>3. CASE sent = <<>>
    <3> DEFINE b == Bytes(IntoFrame(Answer), "gzip")
    <3>1. wire = <<>>
      BY <1>1, <2>3, Zenon DEF WireInv, Compressed
    <3>2. wire' = <<>> \o b /\ b \in Seq(Nat)
      BY <1>1, <1>5, <2>3, <3>1, Zenon
    <3> HIDE DEF b
    <3>3. Begins(b, b)
      BY <3>2 DEF Begins
    <3>4. <<>> \o b = b
      BY <3>2
    <3> QED BY <1>1, <2>1, <2>2, <3>2, <3>3, <3>4, Zenon DEF b
  <2>4. CASE sent # <<>>
    <3> DEFINE a == Bytes(IntoFrame(Answer), "gzip")
               b == Bytes(IntoFrame(f), Compression)
    <3>1. Begins(wire, a)
      BY <1>1, <2>4, Zenon DEF WireInv, Compressed
    <3>2. /\ Len(wire \o b) = Len(wire) + Len(b)
          /\ \A i \in 1 .. Len(wire) : (wire \o b)[i] = wire[i]
      BY <1>3, <1>5, Cat, Zenon
    <3>3. Answer \in Fitting
      <4>1. 0 \in Uint32
        BY Widths DEF Uint32
      <4>2. Answer.kind = "HELLO" /\ Answer.ack = TRUE /\ Answer.gzip = TRUE /\ Answer.max = 0
        BY DEF Answer, Hello
      <4>3. Fits(Answer)
        BY <4>1, <4>2, Zenon DEF Fits, Answer
      <4> QED BY <4>3, FitIn, Zenon
    <3>4. a \in Seq(Nat)
      BY <3>3, BytesSeq, Zenon
    <3>5. Len(a) \in Nat /\ Len(wire) \in Nat /\ Len(b) \in Nat
      BY <1>3, <1>5, <3>4
    <3> HIDE DEF a, b
    <3>6. ASSUME NEW x \in Nat, NEW y \in Nat, NEW z \in Nat, x <= y
          PROVE  x <= y + z /\ 1 .. x \subseteq 1 .. y
      BY <3>6
    <3>7. Len(a) <= Len(wire) /\ \A i \in 1 .. Len(a) : wire[i] = a[i]
      BY <3>1, Zenon DEF Begins
    <3>8. Len(a) <= Len(wire) + Len(b) /\ 1 .. Len(a) \subseteq 1 .. Len(wire)
      BY <3>5, <3>6, <3>7, Zenon
    <3>9. Begins(wire \o b, a)
      BY <3>2, <3>7, <3>8, Zenon DEF Begins
    <3> QED BY <1>1, <2>1, <2>2, <3>9, Zenon DEF a, b
  <2> QED BY <2>3, <2>4, Zenon
<1> QED BY <1>7, <1>9, <1>10, <1>11, <1>12, Zenon DEF WireInv

\* What a frame that is accepted is: the first that has not been.
LEMMA ReceiveNext ==
  ASSUME WireInv, Receive
  PROVE  /\ Compression = "none" /\ ~cut /\ Len(got) < Len(sent)
         /\ TakesFrom(wire, sent[Len(got) + 1])
         /\ got' = Append(got, sent[Len(got) + 1])
<1>1. /\ receiving /\ ReadFrame(wire).st = "ok" /\ Accepts(ReadFrame(wire).frame)
      /\ got' = Append(got, FromFrame(ReadFrame(wire).frame))
  BY Zenon DEF Receive
<1>2. "ok" # "wait"
  OBVIOUS
<1>3. ~cut /\ cut \in BOOLEAN
  BY <1>1, <1>2, Zenon DEF WireInv, AtCut, WireTypes
<1>4. /\ sent \in Seq(Fitting) /\ got \in Seq(Fitting) /\ wire \in Seq(Nat)
      /\ Len(got) <= Len(sent)
  BY Zenon DEF WireInv, WireTypes, InOrder
<1>5. Len(wire) # 0
  BY <1>1, <1>2, <1>4, EmptyWaits, Zenon
<1>6. Compression = "none"
  <2>1. ASSUME Compression # "none", sent = <<>> PROVE FALSE
    <3>1. wire = <<>>
      BY <1>1, <1>3, <2>1, Zenon DEF WireInv, Compressed
    <3>2. Len(<<>>) = 0
      OBVIOUS
    <3> QED BY <1>5, <3>1, <3>2, Zenon
  <2>2. ASSUME Compression # "none", sent # <<>> PROVE FALSE
    <3>1. Begins(wire, Bytes(IntoFrame(Answer), "gzip"))
      BY <1>1, <1>3, <2>2, Zenon DEF WireInv, Compressed
    <3> QED BY <1>1, <1>4, <3>1, AnswerRefused, Zenon
  <2> QED BY <2>1, <2>2, Zenon
<1>7. PICK p : Marks(p, sent) /\ Spells(wire, p, sent, Len(got))
  BY <1>1, <1>3, <1>6, Zenon DEF WireInv, UnderWay
<1>8. Len(got) \in Nat /\ Len(sent) \in Nat
  BY <1>4
<1>9. Len(got) # Len(sent)
  BY <1>4, <1>5, <1>7, <1>8, NoneLeft, Zenon
<1>10. Len(got) < Len(sent) /\ Len(got) + 1 \in 1 .. Len(sent)
  BY <1>4, <1>8, <1>9
<1>11. Begins(wire, OnWire(sent[Len(got) + 1]))
  BY <1>4, <1>7, <1>8, <1>10, FirstBegins, Zenon
<1>12. sent[Len(got) + 1] \in Fitting
  BY <1>4, <1>10
<1>13. TakesFrom(wire, sent[Len(got) + 1])
  BY <1>4, <1>11, <1>12, Taken, Zenon DEF Fitting
<1>14. got' = Append(got, sent[Len(got) + 1])
  BY <1>1, <1>13, Zenon DEF TakesFrom
<1> QED BY <1>3, <1>6, <1>10, <1>13, <1>14, Zenon

\* Receive
LEMMA ReceiveWire ==
  ASSUME WireInv, Receive
  PROVE  WireInv'
<1> DEFINE k == Len(got)
           f == sent[k + 1]
           m == Len(OnWire(f))
<1>1. /\ Compression = "none" /\ ~cut /\ k < Len(sent) /\ TakesFrom(wire, f)
      /\ got' = Append(got, f)
  BY ReceiveNext, Zenon
<1>2. /\ sent \in Seq(Fitting) /\ got \in Seq(Fitting) /\ wire \in Seq(Nat)
      /\ \A i \in 1 .. Len(got) : got[i] = sent[i]
  BY Zenon DEF WireInv, WireTypes, InOrder
<1>3. k \in Nat /\ Len(sent) \in Nat /\ k + 1 \in 1 .. Len(sent) /\ k + 1 \in Nat
      /\ k + 1 <= Len(sent)
  BY <1>1, <1>2
<1>4. f \in Fitting
  BY <1>2, <1>3
<1> HIDE DEF k, f
<1>5. /\ from' = from /\ method' = method /\ sent' = sent /\ cut' = cut /\ receiving
  BY Zenon DEF Receive, sender
<1>6. \/ receiving' = FALSE /\ wire' = <<>>
      \/ receiving' = receiving /\ wire' = SubSeq(wire, m + 1, Len(wire))
  <2>1. ReadFrame(wire).n = m
    BY <1>1, Zenon DEF TakesFrom
  <2> QED BY <2>1, Zenon DEF Receive, HandleGoAway
<1>7. /\ Append(got, f) \in Seq(Fitting) /\ Len(Append(got, f)) = k + 1
      /\ \A i \in 1 .. k : Append(got, f)[i] = got[i]
      /\ Append(got, f)[k + 1] = f
  BY <1>2, <1>4, Added, Zenon DEF k
<1>8. Compression' = Compression
  BY <1>5, Zenon DEF Compression
<1>9. PICK p : Marks(p, sent) /\ Spells(wire, p, sent, k)
  BY <1>1, <1>5, Zenon DEF WireInv, UnderWay, k
<1>10. Spells(SubSeq(wire, m + 1, Len(wire)), p, sent, k + 1)
  BY <1>1, <1>2, <1>3, <1>9, RestSpells, Zenon DEF f
<1>11. m \in Nat /\ m <= Len(wire)
  <2>1. m \in Nat
    BY <1>4, OnWireLen, Zenon DEF Fitting
  <2>2. Begins(wire, OnWire(f))
    BY <1>1, <1>2, <1>3, <1>9, FirstBegins, Zenon DEF f
  <2> QED BY <2>1, <2>2, Zenon DEF Begins
<1> HIDE DEF m
<1>12. wire' \in Seq(Nat)
  <2>1. <<>> \in Seq(Nat)
    OBVIOUS
  <2>2. SubSeq(wire, m + 1, Len(wire)) \in Seq(Nat)
    BY <1>2, <1>11, Drop, Zenon
  <2> QED BY <1>6, <2>1, <2>2, Zenon
<1>13. WireTypes'
  <2>1. receiving' \in BOOLEAN
    BY <1>5, <1>6, Zenon
  <2> QED BY <1>1, <1>5, <1>7, <1>12, <2>1, Zenon DEF WireInv, WireTypes
<1>14. InOrder'
  <2>1. \A i \in 1 .. (k + 1) : i \in 1 .. k \/ i = k + 1
    BY <1>3
  <2>2. \A i \in 1 .. k : got[i] = sent[i]
    BY <1>2, Zenon DEF k
  <2>3. \A i \in 1 .. (k + 1) : Append(got, f)[i] = sent[i]
    BY <1>7, <2>1, <2>2, Zenon DEF f
  <2> QED BY <1>1, <1>3, <1>5, <1>7, <2>3, Zenon DEF InOrder
<1>15. UnderWay'
  <2>1. CASE receiving' = FALSE
    BY <2>1, Zenon DEF UnderWay
  <2>2. CASE wire' = SubSeq(wire, m + 1, Len(wire))
    <3>1. Marks(p, sent') /\ Spells(wire', p, sent', Len(got'))
      BY <1>1, <1>5, <1>7, <1>9, <1>10, <2>2, Zenon
    <3> QED BY <3>1, Zenon DEF UnderWay
  <2> QED BY <1>6, <2>1, <2>2, Zenon
<1>16. AtCut' /\ Compressed'
  BY <1>1, <1>5, <1>8, Zenon DEF AtCut, Compressed
<1> QED BY <1>13, <1>14, <1>15, <1>16, Zenon DEF WireInv

\* ReceiveFails: the read loop has ended.
LEMMA FailWire ==
  ASSUME WireInv, ReceiveFails
  PROVE  WireInv'
<1>1. /\ from' = from /\ method' = method /\ sent' = sent /\ got' = got /\ cut' = cut
      /\ receiving' = FALSE /\ wire' = <<>>
  BY Zenon DEF ReceiveFails, sender
<1>2. Compression' = Compression
  BY <1>1, Zenon DEF Compression
<1>3. <<>> \in Seq(Nat)
  OBVIOUS
<1> QED BY <1>1, <1>2, <1>3, Zenon DEF WireInv, WireTypes, InOrder, UnderWay, AtCut, Compressed

\* Cut: what is left is no frame.
LEMMA CutWire ==
  ASSUME WireInv, NEW n \in 0 .. Len(wire), Cut(n)
  PROVE  WireInv'
<1>1. /\ from' = from /\ method' = method /\ sent' = sent /\ got' = got /\ cut' = TRUE
      /\ receiving' = receiving /\ wire' = SubSeq(wire, 1, n)
      /\ ReadFrame(SubSeq(wire, 1, n)).st = "wait"
  BY Zenon DEF Cut, sender, receiver
<1>2. Compression' = Compression
  BY <1>1, Zenon DEF Compression
<1>3. wire \in Seq(Nat)
  BY Zenon DEF WireInv, WireTypes
<1>4. SubSeq(wire, 1, n) \in Seq(Nat)
  BY <1>3
<1> QED BY <1>1, <1>2, <1>4, Zenon DEF WireInv, WireTypes, InOrder, UnderWay, AtCut, Compressed

\* What stream.Write is called with.
Writes == [data : Seq(Nat), end : BOOLEAN]

\* What is written on the stream, and its frames that are still to be written.
Pending ==
  /\ writes \in Seq(Writes)
  /\ pending \in Seq(Fitting)
  /\ pending # <<>> => sent # <<>>

FramingInv == WireInv /\ Pending

\* The HELLO of either side.
LEMMA HelloFits ==
  ASSUME NEW a \in BOOLEAN, NEW g \in BOOLEAN
  PROVE  Hello(a, g, 0) \in Fitting
<1> DEFINE h == Hello(a, g, 0)
<1>1. 0 \in Uint32
  BY Widths DEF Uint32
<1>2. h.kind = "HELLO" /\ h.ack = a /\ h.gzip = g /\ h.max = 0
  BY Zenon DEF Hello
<1>3. h = Hello(h.ack, h.gzip, h.max)
  BY <1>2, Zenon
<1> HIDE DEF h
<1>4. Fits(h)
  BY <1>1, <1>2, <1>3, Zenon DEF Fits
<1> QED BY <1>4, FitIn, Zenon DEF h

\* FramingInit
LEMMA FramingInitInv == FramingInit => FramingInv
<1> SUFFICES ASSUME FramingInit PROVE FramingInv
  OBVIOUS
<1>1. <<>> \in Seq(Fitting) /\ <<>> \in Seq(Writes)
  OBVIOUS
<1> QED BY <1>1, WireInit, Zenon DEF FramingInit, FramingInv, Pending

\* Handshake
LEMMA HandshakeInv == FramingInv /\ Handshake => FramingInv'
<1> SUFFICES ASSUME FramingInv, Handshake PROVE FramingInv'
  OBVIOUS
<1> DEFINE f == Hello(from = "server", method = "gzip", 0)
<1>1. f \in Fitting
  BY HelloFits, Zenon
<1>2. /\ Transmit(f) /\ writes' = writes /\ pending' = pending
  BY Zenon DEF Handshake
<1>3. Compression # "none" => f = Answer /\ Compression = "gzip"
  <2>1. Compression # "none" => from = "server" /\ method = "gzip"
    BY Zenon DEF FramingInv, WireInv, WireTypes, Compression
  <2> QED BY <2>1, Zenon DEF Answer, Compression
<1> HIDE DEF f
<1>4. WireInv'
  BY <1>1, <1>2, <1>3, TransmitWire, Zenon DEF FramingInv
<1>5. sent' = Append(sent, f) /\ sent \in Seq(Fitting)
  BY <1>2, Zenon DEF Transmit, FramingInv, WireInv, WireTypes
<1>6. sent' # <<>>
  BY <1>1, <1>5
<1> QED BY <1>2, <1>4, <1>6, Zenon DEF FramingInv, Pending

\* WriteSegment
LEMMA WriteSegmentInv == FramingInv /\ WriteSegment => FramingInv'
<1> SUFFICES ASSUME FramingInv, WriteSegment PROVE FramingInv'
  OBVIOUS
<1>1. /\ pending # <<>> /\ Transmit(Head(pending)) /\ writes' = writes
      /\ pending' = Tail(pending) /\ pending \in Seq(Fitting) /\ sent # <<>>
  BY Zenon DEF WriteSegment, FramingInv, Pending
<1>2. Head(pending) \in Fitting /\ Tail(pending) \in Seq(Fitting)
  BY <1>1
<1>3. WireInv'
  BY <1>1, <1>2, TransmitWire, Zenon DEF FramingInv
<1>4. sent' = Append(sent, Head(pending)) /\ sent \in Seq(Fitting)
  BY <1>1, Zenon DEF Transmit, FramingInv, WireInv, WireTypes
<1>5. sent' # <<>>
  BY <1>2, <1>4
<1> QED BY <1>1, <1>2, <1>3, <1>5, Zenon DEF FramingInv, Pending

\* WriteControl
LEMMA WriteControlInv ==
  FramingInv /\ (\E f \in Controls[from] : WriteControl(f)) => FramingInv'
<1> SUFFICES ASSUME FramingInv, NEW f \in Controls[from], WriteControl(f) PROVE FramingInv'
  BY Zenon
<1>1. from \in {"client", "server"}
  BY Zenon DEF FramingInv, WireInv, WireTypes
<1>2. Fits(f)
  BY <1>1, FramingAssumption, Zenon
<1>3. f \in Fitting
  BY <1>2, FitIn, Zenon
<1>4. /\ sent # <<>> /\ Transmit(f) /\ writes' = writes /\ pending' = pending
  BY Zenon DEF WriteControl
<1>5. WireInv'
  BY <1>3, <1>4, TransmitWire, Zenon DEF FramingInv
<1>6. sent' = Append(sent, f) /\ sent \in Seq(Fitting)
  BY <1>4, Zenon DEF Transmit, FramingInv, WireInv, WireTypes
<1>7. sent' # <<>>
  BY <1>3, <1>6
<1> QED BY <1>4, <1>5, <1>7, Zenon DEF FramingInv, Pending

\* Write
LEMMA WriteInv ==
  ASSUME FramingInv, NEW buffer \in Buffers, NEW endStream \in BOOLEAN,
         Write(buffer, endStream)
  PROVE  FramingInv'
<1>1. /\ writes' = Append(writes, [data |-> buffer, end |-> endStream])
      /\ pending' = DataFrames(endStream, buffer)
      /\ UNCHANGED wireVars /\ sent # <<>> /\ sent' = sent
  BY Zenon DEF Write, receiver, wireVars
<1>2. buffer \in Seq(Nat)
  BY FramingAssumption, Zenon
<1>3. pending' \in Seq(Fitting)
  BY <1>1, <1>2, Segments, Zenon DEF Segmented
<1>4. [data |-> buffer, end |-> endStream] \in Writes
  BY <1>2, Zenon DEF Writes
<1>5. writes \in Seq(Writes)
  BY Zenon DEF FramingInv, Pending
<1>6. writes' \in Seq(Writes)
  BY <1>1, <1>4, <1>5, Added, Zenon
<1>7. WireInv'
  BY <1>1, WireStutter, Zenon DEF FramingInv
<1> QED BY <1>1, <1>3, <1>6, <1>7, Zenon DEF FramingInv, Pending

\* Every step.
LEMMA FramingStep == FramingInv /\ [FramingNext]_framing => FramingInv'
<1> SUFFICES ASSUME FramingInv, [FramingNext]_framing PROVE FramingInv'
  OBVIOUS
<1>1. WireInv /\ Pending
  BY Zenon DEF FramingInv
<1>2. CASE Handshake
  BY <1>2, HandshakeInv, Zenon
<1>3. CASE WriteSegment
  BY <1>3, WriteSegmentInv, Zenon
<1>4. CASE Receive
  <2>1. writes' = writes /\ pending' = pending /\ sent' = sent
    BY <1>4, Zenon DEF Receive, sender
  <2> QED BY <1>1, <1>4, <2>1, ReceiveWire, Zenon DEF FramingInv, Pending
<1>5. CASE ReceiveFails
  <2>1. writes' = writes /\ pending' = pending /\ sent' = sent
    BY <1>5, Zenon DEF ReceiveFails, sender
  <2> QED BY <1>1, <1>5, <2>1, FailWire, Zenon DEF FramingInv, Pending
<1>6. CASE \E f \in Controls[from] : WriteControl(f)
  BY <1>6, WriteControlInv, Zenon
<1>7. ASSUME NEW n \in 0 .. Len(wire), Cut(n) PROVE FramingInv'
  <2>1. writes' = writes /\ pending' = pending /\ sent' = sent
    BY <1>7, Zenon DEF Cut, sender
  <2> QED BY <1>1, <1>7, <2>1, CutWire, Zenon DEF FramingInv, Pending
<1>8. CASE Consume
  <2>1. writes' = writes /\ pending' = pending /\ sent' = sent /\ UNCHANGED wireVars
    BY <1>8, Zenon DEF Consume, sender, wireVars
  <2> QED BY <1>1, <2>1, WireStutter, Zenon DEF FramingInv, Pending
<1>9. ASSUME NEW buffer \in Buffers, NEW endStream \in BOOLEAN, Write(buffer, endStream)
      PROVE  FramingInv'
  BY <1>9, WriteInv, Zenon
<1>10. CASE UNCHANGED framing
  <2>1. writes' = writes /\ pending' = pending /\ sent' = sent /\ UNCHANGED wireVars
    BY <1>10, Zenon DEF framing, sender, receiver, wireVars
  <2> QED BY <1>1, <2>1, WireStutter, Zenon DEF FramingInv, Pending
<1> QED BY <1>2, <1>3, <1>4, <1>5, <1>6, <1>7, <1>8, <1>9, <1>10, Zenon DEF FramingNext, Carry

\* The inductive invariant of the wire and of the writer.
THEOREM FramingInvariance == FramingSpec => []FramingInv
<1> QED BY FramingInitInv, FramingStep, PTL DEF FramingSpec

\* A frame that is written is put in.
LEMMA TransmitPuts ==
  ASSUME FramingInv, NEW f \in Fitting, Transmit(f)
  PROVE  Frames!Put
<1>1. sent' = Append(sent, f) /\ got' = got /\ sent \in Seq(Fitting)
  BY Zenon DEF Transmit, receiver, FramingInv, WireInv, WireTypes
<1>2. Len(Append(sent, f)) = Len(sent) + 1 /\ SubSeq(Append(sent, f), 1, Len(sent)) = sent
  BY <1>1
<1> QED BY <1>1, <1>2, Zenon DEF Frames!Put

\* Every step puts one frame in, takes the next one out, or does neither.
LEMMA FifoStep ==
  FramingInv /\ [FramingNext]_framing => [Frames!Put \/ Frames!Get]_<<sent, got>>
<1> SUFFICES ASSUME FramingInv, [FramingNext]_framing
             PROVE  [Frames!Put \/ Frames!Get]_<<sent, got>>
  OBVIOUS
<1>1. CASE Handshake
  <2>1. Hello(from = "server", method = "gzip", 0) \in Fitting
    BY HelloFits, Zenon
  <2> QED BY <1>1, <2>1, TransmitPuts, Zenon DEF Handshake
<1>2. CASE WriteSegment
  <2>1. pending # <<>> /\ pending \in Seq(Fitting)
    BY <1>2, Zenon DEF WriteSegment, FramingInv, Pending
  <2>2. Head(pending) \in Fitting
    BY <2>1
  <2> QED BY <1>2, <2>2, TransmitPuts, Zenon DEF WriteSegment
<1>3. CASE Receive
  <2>1. Len(got) < Len(sent) /\ got' = Append(got, sent[Len(got) + 1])
    BY <1>3, ReceiveNext, Zenon DEF FramingInv
  <2>2. sent' = sent
    BY <1>3, Zenon DEF Receive, sender
  <2> QED BY <2>1, <2>2, Zenon DEF Frames!Get
<1>4. CASE ReceiveFails
  BY <1>4, Zenon DEF ReceiveFails, sender
<1>5. ASSUME NEW f \in Controls[from], WriteControl(f)
      PROVE  Frames!Put
  <2>1. from \in {"client", "server"}
    BY Zenon DEF FramingInv, WireInv, WireTypes
  <2>2. Fits(f)
    BY <2>1, FramingAssumption, Zenon
  <2>3. f \in Fitting
    BY <2>2, FitIn, Zenon
  <2> QED BY <1>5, <2>3, TransmitPuts, Zenon DEF WriteControl
<1>6. ASSUME NEW n, Cut(n) PROVE UNCHANGED <<sent, got>>
  BY <1>6, Zenon DEF Cut, sender, receiver
<1>7. CASE Consume
  BY <1>7, Zenon DEF Consume, sender
<1>8. ASSUME NEW buffer, NEW endStream, Write(buffer, endStream)
      PROVE  UNCHANGED <<sent, got>>
  BY <1>8, Zenon DEF Write, receiver
<1>9. CASE UNCHANGED framing
  BY <1>9, Zenon DEF framing, sender, receiver
<1> QED BY <1>1, <1>2, <1>3, <1>4, <1>5, <1>6, <1>7, <1>8, <1>9, Zenon DEF FramingNext, Carry

\* FramesArriveInOrder: whatever comes between the segments of a message and
\* wherever the connection is cut, the frames FrameReader.Read and FromFrame
\* return are those that were written, each once and in order.
THEOREM InOrderAlways == FramingSpec => FramesArriveInOrder
<1>1. FramingInit => Frames!Init
  BY Zenon DEF FramingInit, Frames!Init
<1> QED
  BY <1>1, FifoStep, FramingInvariance, PTL DEF FramingSpec, FramesArriveInOrder, Frames!Spec

---------------------------------------------------------------------------
\* Messages that are complete.

\* One of the first i frames of s ends the stream.
Ended(s, i) == \E j \in 1 .. i : s[j].kind = "DATA" /\ s[j].endStream

\* The i-th frame of s completes a message: after END_STREAM none does.
Completes(s, i) == s[i].kind = "DATA" /\ s[i].endData /\ ~Ended(s, i - 1)

\* The first i frames of s complete e[i] messages.
Counts(e, s) ==
  /\ e \in [Nat -> Nat] /\ e[0] = 0
  /\ \A i \in 1 .. Len(s) : e[i] = e[i - 1] + (IF Completes(s, i) THEN 1 ELSE 0)

LastEnds == writes # <<>> /\ writes[Len(writes)].end
LastFits == Len(writes[Len(writes)].data) <= maxPayload

\* The frames still to be written are the last of the last message.
PendingIs ==
  /\ pending # <<>> => writes # <<>>
  /\ \A i \in 1 .. Len(pending) :
       /\ pending[i].kind = "DATA"
       /\ pending[i].endStream = writes[Len(writes)].end
       /\ pending[i].endData <=> i = Len(pending)

\* What the c messages that the frames written complete are of those written,
\* before a frame ends the stream.
Before(c) ==
  /\ pending = <<>> => c = Len(writes)
  /\ pending # <<>> => c = Len(writes) - 1
  /\ pending = <<>> => ~LastEnds
  /\ LastEnds => (Len(pending) = 1 <=> LastFits)

\* After it: the segments of the last message after the first are refused.
After(c) ==
  /\ LastEnds
  /\ LastFits => pending = <<>> /\ c = Len(writes)
  /\ ~LastFits => c = Len(writes) - 1

Complete(e) ==
  /\ Counts(e, sent)
  /\ receiving => whole = e[Len(got)]
  /\ IF Ended(sent, Len(sent)) THEN After(e[Len(sent)]) ELSE Before(e[Len(sent)])

DeliveredInv == PendingIs /\ \E e : Complete(e)

\* What one more frame adds to the count.
LEMMA CountMore ==
  ASSUME NEW s \in Seq(Fitting), NEW f \in Fitting, NEW e, Counts(e, s)
  PROVE  \E c : /\ Counts(c, Append(s, f))
                /\ \A i \in 0 .. Len(s) : c[i] = e[i]
                /\ c[Len(s) + 1] = e[Len(s)] +
                     (IF f.kind = "DATA" /\ f.endData /\ ~Ended(s, Len(s)) THEN 1 ELSE 0)
<1> DEFINE n == Len(s)
           t == Append(s, f)
           x == IF f.kind = "DATA" /\ f.endData /\ ~Ended(s, n) THEN 1 ELSE 0
           c == [e EXCEPT ![n + 1] = e[n] + x]
<1>1. n \in Nat /\ n + 1 \in Nat /\ n \in 0 .. n /\ (n + 1) - 1 = n /\ 0 \in 0 .. n
  OBVIOUS
<1>2. /\ t \in Seq(Fitting) /\ Len(t) = n + 1
      /\ \A i \in 1 .. n : t[i] = s[i]
      /\ t[n + 1] = f
  BY Added, Zenon
<1>3. x \in Nat
  <2>1. 0 \in Nat /\ 1 \in Nat
    OBVIOUS
  <2> QED BY <2>1, Zenon
<1>4. e \in [Nat -> Nat] /\ e[0] = 0
  BY Zenon DEF Counts
<1>5. e[n] \in Nat
  BY <1>1, <1>4
<1>6. \A i \in 1 .. n : e[i] = e[i - 1] + (IF Completes(s, i) THEN 1 ELSE 0)
  BY Zenon DEF Counts
<1> HIDE DEF n, t, x
<1>7. e[n] + x \in Nat
  BY <1>3, <1>5
<1>8. /\ c \in [Nat -> Nat] /\ c[n + 1] = e[n] + x
      /\ \A i \in Nat : i # n + 1 => c[i] = e[i]
  BY <1>1, <1>4, <1>7, Zenon
<1> HIDE DEF c
<1>9. \A i \in 0 .. n : i # n + 1 /\ i \in Nat
  BY <1>1
<1>10. \A i \in 0 .. n : c[i] = e[i]
  BY <1>8, <1>9, Zenon
<1>11. \A i \in 0 .. n : Ended(t, i) <=> Ended(s, i)
  <2>1. ASSUME NEW i \in 0 .. n, NEW j \in 1 .. i PROVE j \in 1 .. n
    BY <1>1
  <2> QED BY <1>2, <2>1, Zenon DEF Ended
<1>12. \A i \in 1 .. n : i \in 0 .. n /\ i - 1 \in 0 .. n
  BY <1>1
<1>13. \A i \in 1 .. n : Completes(t, i) <=> Completes(s, i)
  BY <1>2, <1>11, <1>12, Zenon DEF Completes
<1>14. x = IF Completes(t, n + 1) THEN 1 ELSE 0
  BY <1>1, <1>2, <1>11, Zenon DEF Completes, x
<1>15. ASSUME NEW i \in 1 .. (n + 1)
       PROVE  c[i] = c[i - 1] + (IF Completes(t, i) THEN 1 ELSE 0)
  <2>1. CASE i \in 1 .. n
    <3>1. (IF Completes(t, i) THEN 1 ELSE 0) = (IF Completes(s, i) THEN 1 ELSE 0)
      BY <1>13, <2>1, Zenon
    <3>2. c[i] = e[i] /\ c[i - 1] = e[i - 1]
      BY <1>10, <1>12, <2>1, Zenon
    <3> QED BY <1>6, <2>1, <3>1, <3>2, Zenon
  <2>2. CASE i = n + 1
    <3>1. c[i - 1] = e[n]
      BY <1>1, <1>10, <2>2, Zenon
    <3> QED BY <1>8, <1>14, <2>2, <3>1, Zenon
  <2>3. i \in 1 .. n \/ i = n + 1
    BY <1>1
  <2> QED BY <2>1, <2>2, <2>3, Zenon
<1>16. c[0] = 0
  BY <1>1, <1>4, <1>10, Zenon
<1>17. Counts(c, t)
  BY <1>2, <1>8, <1>15, <1>16, Zenon DEF Counts
<1> QED BY <1>8, <1>10, <1>17, Zenon DEF n, t, x

\* What a frame f that is written completes.
Gain(f) == IF f.kind = "DATA" /\ f.endData /\ ~Ended(sent, Len(sent)) THEN 1 ELSE 0

\* The count c after f was written, when it was e before.
Grown(c, e, f) ==
  /\ Counts(c, sent') /\ c[Len(sent')] = e[Len(sent)] + Gain(f)
  /\ receiving' => whole' = c[Len(got')]
  /\ Ended(sent', Len(sent')) <=> (Ended(sent, Len(sent)) \/ (f.kind = "DATA" /\ f.endStream))

\* A frame is written.
LEMMA TransmitCounts ==
  ASSUME FramingInv, NEW f \in Fitting, Transmit(f), NEW e, Complete(e)
  PROVE  \E c : Grown(c, e, f)
<1> DEFINE n == Len(sent)
           k == Len(got)
<1>1. /\ sent' = Append(sent, f) /\ got' = got /\ receiving' = receiving /\ whole' = whole
      /\ receiving
  BY Zenon DEF Transmit, receiver
<1>2. sent \in Seq(Fitting) /\ got \in Seq(Fitting) /\ k <= n
  BY Zenon DEF FramingInv, WireInv, WireTypes, InOrder
<1>3. n \in Nat /\ k \in 0 .. n
  BY <1>2
<1>4. Counts(e, sent) /\ whole = e[k]
  BY <1>1, Zenon DEF Complete
<1>5. PICK c : /\ Counts(c, Append(sent, f))
               /\ \A i \in 0 .. n : c[i] = e[i]
               /\ c[n + 1] = e[n] +
                     (IF f.kind = "DATA" /\ f.endData /\ ~Ended(sent, n) THEN 1 ELSE 0)
  BY <1>2, <1>4, CountMore, Zenon
<1>6. /\ Append(sent, f) \in Seq(Fitting) /\ Len(Append(sent, f)) = n + 1
      /\ \A i \in 1 .. n : Append(sent, f)[i] = sent[i]
      /\ Append(sent, f)[n + 1] = f
  BY <1>2, Added, Zenon
<1> DEFINE t == Append(sent, f)
<1> HIDE DEF n, k, t
<1>7. Ended(t, n + 1) <=> (Ended(sent, n) \/ (f.kind = "DATA" /\ f.endStream))
  <2>1. \A j \in 1 .. (n + 1) : j \in 1 .. n \/ j = n + 1
    BY <1>3
  <2>2. \A j \in 1 .. n : j \in 1 .. (n + 1)
    BY <1>3
  <2>3. n + 1 \in 1 .. (n + 1)
    BY <1>3
  <2>4. (\A i \in 1 .. n : t[i] = sent[i]) /\ t[n + 1] = f
    BY <1>6, Zenon DEF t
  <2> QED BY <2>1, <2>2, <2>3, <2>4, Zenon DEF Ended
<1>8. c[n + 1] = e[n] + Gain(f)
  BY <1>5, Zenon DEF Gain, n
<1>9. c[k] = e[k]
  BY <1>3, <1>5, Zenon
<1>10. Grown(c, e, f)
  BY <1>1, <1>4, <1>5, <1>6, <1>7, <1>8, <1>9, Zenon DEF Grown, n, k, t
<1> QED BY <1>10, Zenon

\* A frame of another kind changes nothing for the messages.
LEMMA ControlCounts ==
  ASSUME FramingInv, DeliveredInv, NEW f \in Fitting, Transmit(f), f.kind # "DATA",
         writes' = writes, pending' = pending
  PROVE  DeliveredInv'
<1>1. PICK e : Complete(e)
  BY Zenon DEF DeliveredInv
<1>2. PICK c : Grown(c, e, f)
  BY <1>1, TransmitCounts, Zenon
<1>3. Gain(f) = 0
  BY Zenon DEF Gain
<1>4. e[Len(sent)] \in Nat
  <2>1. e \in [Nat -> Nat] /\ sent \in Seq(Fitting)
    BY <1>1, Zenon DEF Complete, Counts, FramingInv, WireInv, WireTypes
  <2>2. Len(sent) \in Nat
    BY <2>1
  <2> QED BY <2>1, <2>2
<1>5. e[Len(sent)] + 0 = e[Len(sent)]
  BY <1>4
<1>6. c[Len(sent')] = e[Len(sent)]
  BY <1>2, <1>3, <1>5, Zenon DEF Grown
<1>7. Ended(sent', Len(sent')) <=> Ended(sent, Len(sent))
  BY <1>2, Zenon DEF Grown
<1>8. PendingIs'
  BY Zenon DEF DeliveredInv, PendingIs
<1>9. LastEnds' <=> LastEnds
  BY Zenon DEF LastEnds
<1>10. LastFits' <=> LastFits
  BY Zenon DEF LastFits
<1>11. ASSUME Ended(sent, Len(sent)) PROVE After(c[Len(sent)])'
  <2>1. After(e[Len(sent)])
    BY <1>1, <1>11, Zenon DEF Complete
  <2> QED BY <1>6, <1>9, <1>10, <2>1, Zenon DEF After
<1>12. ASSUME ~Ended(sent, Len(sent)) PROVE Before(c[Len(sent)])'
  <2>1. Before(e[Len(sent)])
    BY <1>1, <1>12, Zenon DEF Complete
  <2> QED BY <1>6, <1>9, <1>10, <2>1, Zenon DEF Before
<1>13. Complete(c)'
  BY <1>2, <1>7, <1>11, <1>12, Zenon DEF Complete, Grown
<1> QED BY <1>8, <1>13, Zenon DEF DeliveredInv

\* The empty sequence is the one without elements.
LEMMA NoElement == ASSUME NEW S, NEW s \in Seq(S) PROVE s = <<>> <=> Len(s) = 0
  OBVIOUS

\* WriteSegment
LEMMA SegmentCounts ==
  ASSUME FramingInv, DeliveredInv, WriteSegment
  PROVE  DeliveredInv'
<1> DEFINE f == Head(pending)
           m == Len(pending)
           l == writes[Len(writes)]
<1>1. /\ pending # <<>> /\ Transmit(f) /\ writes' = writes /\ pending' = Tail(pending)
      /\ pending \in Seq(Fitting) /\ sent \in Seq(Fitting)
      /\ writes \in Seq(Writes)
  BY Zenon DEF WriteSegment, FramingInv, Pending, WireInv, WireTypes
<1>2. /\ f \in Fitting /\ f = pending[1] /\ m \in Nat /\ m >= 1 /\ 1 \in 1 .. m
      /\ Len(Tail(pending)) = m - 1 /\ \A i \in 1 .. (m - 1) : Tail(pending)[i] = pending[i + 1]
  BY <1>1
<1>3. Tail(pending) = <<>> <=> m = 1
  <2>1. Tail(pending) \in Seq(Fitting)
    BY <1>1
  <2>2. Tail(pending) = <<>> <=> Len(Tail(pending)) = 0
    BY <2>1, NoElement, Zenon
  <2>3. m - 1 = 0 <=> m = 1
    BY <1>2
  <2> QED BY <1>2, <2>2, <2>3, Zenon
<1>4. PendingIs
  BY Zenon DEF DeliveredInv
<1>5. writes # <<>> /\ f.kind = "DATA" /\ f.endStream = l.end /\ (f.endData <=> 1 = m)
  BY <1>1, <1>2, <1>4, Zenon DEF PendingIs
<1>6. PICK e : Complete(e)
  BY Zenon DEF DeliveredInv
<1> HIDE DEF f, m
<1>7. PICK c : Grown(c, e, f)
  BY <1>1, <1>2, <1>6, TransmitCounts, Zenon
<1> DEFINE a == e[Len(sent)]
           b == c[Len(sent')]
<1>8. a \in Nat /\ b = a + Gain(f)
  <2>1. e \in [Nat -> Nat]
    BY <1>6, Zenon DEF Complete, Counts
  <2>2. Len(sent) \in Nat
    BY <1>1
  <2>3. a \in Nat
    BY <2>1, <2>2
  <2> QED BY <1>7, <2>3, Zenon DEF Grown
<1>9. Len(writes) \in Nat
  BY <1>1
<1>10. PendingIs'
  <2>1. ASSUME NEW i \in 1 .. Len(pending')
        PROVE  /\ pending'[i].kind = "DATA" /\ pending'[i].endStream = l.end
               /\ pending'[i].endData <=> i = Len(pending')
    <3>1. Len(pending') = m - 1
      BY <1>1, <1>2, Zenon
    <3>2. i \in 1 .. (m - 1)
      BY <3>1, Zenon
    <3>3. i + 1 \in 1 .. m /\ (i + 1 = m <=> i = m - 1)
      BY <1>2, <3>2
    <3>4. pending'[i] = pending[i + 1]
      BY <1>1, <1>2, <3>2, Zenon
    <3>5. pending[i + 1].kind = "DATA" /\ pending[i + 1].endStream = l.end
          /\ (pending[i + 1].endData <=> i + 1 = m)
      BY <1>4, <3>3, Zenon DEF PendingIs, m
    <3> QED BY <3>1, <3>3, <3>4, <3>5, Zenon
  <2> QED BY <1>1, <1>5, <2>1, Zenon DEF PendingIs
<1>11. (LastEnds' <=> LastEnds) /\ (LastEnds <=> l.end)
  BY <1>1, <1>5, Zenon DEF LastEnds
<1>12. LastFits' <=> LastFits
  BY <1>1, Zenon DEF LastFits
<1>13. Ended(sent', Len(sent')) <=> (Ended(sent, Len(sent)) \/ l.end)
  BY <1>5, <1>7, Zenon DEF Grown
<1> HIDE DEF a, b, l
<1>14. a + 0 = a /\ (a = Len(writes) - 1 => a + 1 = Len(writes))
  BY <1>8, <1>9
<1>15. CASE Ended(sent, Len(sent))
  <2>1. After(a)
    BY <1>6, <1>15, Zenon DEF Complete, a
  <2>2. LastEnds /\ ~LastFits /\ a = Len(writes) - 1
    BY <1>1, <2>1, Zenon DEF After
  <2>3. Gain(f) = 0
    BY <1>15, Zenon DEF Gain
  <2>4. b = Len(writes) - 1
    BY <1>8, <1>14, <2>2, <2>3, Zenon
  <2>5. After(c[Len(sent)])'
    BY <1>1, <1>11, <1>12, <2>2, <2>4, Zenon DEF After, b
  <2>6. Complete(c)'
    BY <1>7, <1>13, <1>15, <2>5, Zenon DEF Complete, Grown
  <2> QED BY <1>10, <2>6, Zenon DEF DeliveredInv
<1>16. CASE ~Ended(sent, Len(sent))
  <2>1. Before(a)
    BY <1>6, <1>16, Zenon DEF Complete, a
  <2>2. a = Len(writes) - 1 /\ (LastEnds => (m = 1 <=> LastFits))
    BY <1>1, <2>1, Zenon DEF Before, m
  <2>3. m = 1 => Gain(f) = 1
    BY <1>5, <1>16, Zenon DEF Gain
  <2>4. m # 1 => Gain(f) = 0
    BY <1>5, <1>16, Zenon DEF Gain
  <2>5. m = 1 => b = Len(writes)
    BY <1>8, <1>14, <2>2, <2>3, Zenon
  <2>6. m # 1 => b = Len(writes) - 1
    BY <1>8, <1>14, <2>2, <2>4, Zenon
  <2>7. CASE l.end
    <3>1. After(c[Len(sent)])'
      BY <1>1, <1>3, <1>11, <1>12, <2>2, <2>5, <2>6, <2>7, Zenon DEF After, b
    <3>2. Complete(c)'
      BY <1>7, <1>13, <2>7, <3>1, Zenon DEF Complete, Grown
    <3> QED BY <1>10, <3>2, Zenon DEF DeliveredInv
  <2>8. CASE ~l.end
    <3>1. Before(c[Len(sent)])'
      BY <1>1, <1>3, <1>11, <2>5, <2>6, <2>8, Zenon DEF Before, b
    <3>2. Complete(c)'
      BY <1>7, <1>13, <1>16, <2>8, <3>1, Zenon DEF Complete, Grown
    <3> QED BY <1>10, <3>2, Zenon DEF DeliveredInv
  <2> QED BY <2>7, <2>8, Zenon
<1> QED BY <1>15, <1>16, Zenon

\* Write
LEMMA WriteCounts ==
  ASSUME FramingInv, DeliveredInv, NEW buffer \in Buffers, NEW endStream \in BOOLEAN,
         Write(buffer, endStream)
  PROVE  DeliveredInv'
<1> DEFINE r == [data |-> buffer, end |-> endStream]
<1>1. /\ writes' = Append(writes, r) /\ pending = <<>>
      /\ pending' = DataFrames(endStream, buffer)
      /\ sent' = sent /\ got' = got /\ receiving' = receiving /\ whole' = whole
      /\ writes # <<>> => ~writes[Len(writes)].end
  BY Zenon DEF Write, receiver
<1>2. buffer \in Seq(Nat) /\ writes \in Seq(Writes)
  BY FramingAssumption, Zenon DEF FramingInv, Pending
<1>3. r \in Writes /\ r.data = buffer /\ r.end = endStream
  BY <1>2, Zenon DEF Writes
<1> HIDE DEF r
<1>4. /\ Append(writes, r) \in Seq(Writes) /\ Len(Append(writes, r)) = Len(writes) + 1
      /\ \A i \in 1 .. Len(writes) : Append(writes, r)[i] = writes[i]
      /\ Append(writes, r)[Len(writes) + 1] = r
  BY <1>2, <1>3, Added, Zenon
<1>5. Append(writes, r) # <<>>
  BY <1>2, <1>3
<1>6. Segmented(pending', endStream, buffer)
  BY <1>1, <1>2, Segments, Zenon
<1>7. writes'[Len(writes')] = r /\ writes' # <<>>
  BY <1>1, <1>4, <1>5, Zenon
<1>8. pending' # <<>>
  <2>1. Len(<<>>) \notin Nat \ {0}
    OBVIOUS
  <2> QED BY <1>6, <2>1, Zenon DEF Segmented
<1>9. PendingIs'
  BY <1>3, <1>6, <1>7, Zenon DEF PendingIs, Segmented
<1>10. PICK e : Complete(e)
  BY Zenon DEF DeliveredInv
<1>11. ~LastEnds
  BY <1>1, Zenon DEF LastEnds
<1>12. ~Ended(sent, Len(sent))
  BY <1>10, <1>11, Zenon DEF Complete, After
<1>13. e[Len(sent)] = Len(writes)
  BY <1>1, <1>10, <1>12, Zenon DEF Complete, Before
<1>14. Len(writes) = (Len(writes) + 1) - 1
  BY <1>2
<1>15. e[Len(sent')] = Len(writes') - 1
  BY <1>1, <1>4, <1>13, <1>14, Zenon
<1>16. LastFits' <=> Len(buffer) <= maxPayload
  BY <1>3, <1>7, Zenon DEF LastFits, maxPayload
<1>17. Len(pending') = 1 <=> LastFits'
  BY <1>6, <1>16, Zenon DEF Segmented
<1>18. Before(e[Len(sent)])'
  BY <1>8, <1>15, <1>17, Zenon DEF Before
<1>19. Complete(e)'
  BY <1>1, <1>10, <1>12, <1>18, Zenon DEF Complete
<1> QED BY <1>9, <1>19, Zenon DEF DeliveredInv

\* Receive
LEMMA ReceiveCounts ==
  ASSUME FramingInv, DeliveredInv, Receive
  PROVE  DeliveredInv'
<1> DEFINE k == Len(got)
           f == sent[k + 1]
<1>1. k < Len(sent) /\ TakesFrom(wire, f) /\ got' = Append(got, f)
  BY ReceiveNext, Zenon DEF FramingInv
<1>2. /\ sent \in Seq(Fitting) /\ got \in Seq(Fitting)
      /\ \A i \in 1 .. k : got[i] = sent[i]
  BY Zenon DEF FramingInv, WireInv, WireTypes, InOrder
<1>3. k \in Nat /\ k + 1 \in 1 .. Len(sent) /\ (k + 1) - 1 = k
  BY <1>1, <1>2
<1>4. f \in Fitting
  BY <1>2, <1>3
<1>5. DOMAIN got = 1 .. k
  BY <1>2
<1> HIDE DEF k, f
<1>6. RemoteEnded <=> Ended(sent, k)
  BY <1>2, <1>5, Zenon DEF RemoteEnded, Ended
<1>7. Len(got') = k + 1
  <2>1. /\ Append(got, f) \in Seq(Fitting) /\ Len(Append(got, f)) = Len(got) + 1
        /\ \A i \in 1 .. Len(got) : Append(got, f)[i] = got[i]
        /\ Append(got, f)[Len(got) + 1] = f
    BY <1>2, <1>4, Added, Zenon
  <2> QED BY <1>1, <2>1, Zenon DEF k
<1>8. /\ writes' = writes /\ pending' = pending /\ sent' = sent /\ receiving
  BY Zenon DEF Receive, sender
<1>9. receiving' => HandleData(f)
  <2>1. FromFrame(ReadFrame(wire).frame) = f
    BY <1>1, Zenon DEF TakesFrom
  <2> QED BY <2>1, Zenon DEF Receive, HandleGoAway
<1>10. PICK e : Complete(e)
  BY Zenon DEF DeliveredInv
<1>11. /\ e \in [Nat -> Nat] /\ whole = e[k]
       /\ e[k + 1] = e[k] + (IF Completes(sent, k + 1) THEN 1 ELSE 0)
  BY <1>3, <1>8, <1>10, Zenon DEF Complete, Counts, k
<1>12. e[k] \in Nat
  BY <1>3, <1>11
<1>13. e[k] + 0 = e[k]
  BY <1>12
<1>14. ASSUME receiving' PROVE whole' = e[k + 1]
  <2>1. CASE f.kind # "DATA" \/ RemoteEnded
    <3>1. ~Completes(sent, k + 1)
      BY <1>3, <1>6, <2>1, Zenon DEF Completes, f
    <3>2. whole' = whole
      BY <1>9, <1>14, <2>1, Zenon DEF HandleData
    <3> QED BY <1>11, <1>13, <3>1, <3>2, Zenon
  <2>2. CASE ~(f.kind # "DATA" \/ RemoteEnded)
    <3>1. whole' = whole + (IF f.endData THEN 1 ELSE 0)
      BY <1>9, <1>14, <2>2, Zenon DEF HandleData
    <3>2. Completes(sent, k + 1) <=> f.endData
      BY <1>3, <1>6, <2>2, Zenon DEF Completes, f
    <3>3. (IF Completes(sent, k + 1) THEN 1 ELSE 0) = (IF f.endData THEN 1 ELSE 0)
      BY <3>2, Zenon
    <3> QED BY <1>11, <3>1, <3>3, Zenon
  <2> QED BY <2>1, <2>2, Zenon
<1>15. PendingIs'
  BY <1>8, Zenon DEF DeliveredInv, PendingIs
<1>16. After(e[Len(sent)]) => After(e[Len(sent)])'
  BY <1>8, Zenon DEF After, LastEnds, LastFits
<1>17. Before(e[Len(sent)]) => Before(e[Len(sent)])'
  BY <1>8, Zenon DEF Before, LastEnds, LastFits
<1>18. Complete(e)'
  BY <1>7, <1>8, <1>10, <1>14, <1>16, <1>17, Zenon DEF Complete
<1> QED BY <1>15, <1>18, Zenon DEF DeliveredInv

\* Steps that move no frame.
LEMMA QuietCounts ==
  ASSUME DeliveredInv, writes' = writes, pending' = pending, sent' = sent, got' = got,
         receiving' => receiving /\ whole' = whole
  PROVE  DeliveredInv'
<1>1. PICK e : Complete(e)
  BY Zenon DEF DeliveredInv
<1>2. PendingIs'
  BY Zenon DEF DeliveredInv, PendingIs
<1>3. After(e[Len(sent)]) => After(e[Len(sent)])'
  BY Zenon DEF After, LastEnds, LastFits
<1>4. Before(e[Len(sent)]) => Before(e[Len(sent)])'
  BY Zenon DEF Before, LastEnds, LastFits
<1>5. Complete(e)'
  BY <1>1, <1>3, <1>4, Zenon DEF Complete
<1> QED BY <1>2, <1>5, Zenon DEF DeliveredInv

\* FramingInit
LEMMA DeliveredInit == FramingInit => DeliveredInv
<1> SUFFICES ASSUME FramingInit PROVE DeliveredInv
  OBVIOUS
<1>1. /\ sent = <<>> /\ got = <<>> /\ writes = <<>> /\ pending = <<>> /\ whole = 0
  BY Zenon DEF FramingInit
<1>2. Len(<<>>) = 0 /\ \A i \in 1 .. 0 : FALSE
  OBVIOUS
<1> DEFINE e == [i \in Nat |-> 0]
<1>3. e \in [Nat -> Nat] /\ e[0] = 0
  OBVIOUS
<1> HIDE DEF e
<1>4. PendingIs
  BY <1>1, <1>2, Zenon DEF PendingIs
<1>5. Counts(e, sent)
  BY <1>1, <1>2, <1>3, Zenon DEF Counts
<1>6. ~Ended(sent, Len(sent))
  BY <1>1, <1>2, Zenon DEF Ended
<1>7. Before(e[Len(sent)])
  BY <1>1, <1>2, <1>3, Zenon DEF Before, LastEnds
<1>8. Complete(e)
  BY <1>1, <1>2, <1>3, <1>5, <1>6, <1>7, Zenon DEF Complete
<1> QED BY <1>4, <1>8, Zenon DEF DeliveredInv

\* Every step.
LEMMA DeliveredStep ==
  FramingInv /\ DeliveredInv /\ [FramingNext]_framing => DeliveredInv'
<1> SUFFICES ASSUME FramingInv, DeliveredInv, [FramingNext]_framing PROVE DeliveredInv'
  OBVIOUS
<1>1. CASE Handshake
  <2>1. Hello(from = "server", method = "gzip", 0) \in Fitting
    BY HelloFits, Zenon
  <2>2. Hello(from = "server", method = "gzip", 0).kind # "DATA"
    BY DEF Hello
  <2> QED BY <1>1, <2>1, <2>2, ControlCounts, Zenon DEF Handshake
<1>2. CASE WriteSegment
  BY <1>2, SegmentCounts, Zenon
<1>3. CASE Receive
  BY <1>3, ReceiveCounts, Zenon
<1>4. CASE ReceiveFails
  <2>1. /\ writes' = writes /\ pending' = pending /\ sent' = sent /\ got' = got
        /\ receiving' = FALSE
    BY <1>4, Zenon DEF ReceiveFails, sender
  <2> QED BY <2>1, QuietCounts, Zenon
<1>5. ASSUME NEW f \in Controls[from], WriteControl(f)
      PROVE  DeliveredInv'
  <2>1. from \in {"client", "server"}
    BY Zenon DEF FramingInv, WireInv, WireTypes
  <2>2. Fits(f) /\ f.kind # "DATA"
    BY <2>1, FramingAssumption, Zenon
  <2>3. f \in Fitting
    BY <2>2, FitIn, Zenon
  <2> QED BY <1>5, <2>2, <2>3, ControlCounts, Zenon DEF WriteControl
<1>6. ASSUME NEW n, Cut(n) PROVE DeliveredInv'
  <2>1. /\ writes' = writes /\ pending' = pending /\ sent' = sent /\ got' = got
        /\ receiving' = receiving /\ whole' = whole
    BY <1>6, Zenon DEF Cut, sender, receiver
  <2> QED BY <2>1, QuietCounts, Zenon
<1>7. CASE Consume
  <2>1. /\ writes' = writes /\ pending' = pending /\ sent' = sent /\ got' = got
        /\ receiving' = receiving /\ whole' = whole
    BY <1>7, Zenon DEF Consume, sender
  <2> QED BY <2>1, QuietCounts, Zenon
<1>8. ASSUME NEW buffer \in Buffers, NEW endStream \in BOOLEAN, Write(buffer, endStream)
      PROVE  DeliveredInv'
  BY <1>8, WriteCounts, Zenon
<1>9. CASE UNCHANGED framing
  <2>1. /\ writes' = writes /\ pending' = pending /\ sent' = sent /\ got' = got
        /\ receiving' = receiving /\ whole' = whole
    BY <1>9, Zenon DEF framing, sender, receiver
  <2> QED BY <2>1, QuietCounts, Zenon
<1> QED BY <1>1, <1>2, <1>3, <1>4, <1>5, <1>6, <1>7, <1>8, <1>9, Zenon DEF FramingNext, Carry

\* Nothing under way means that every frame has been accepted.
LEMMA AllArrived ==
  ASSUME FramingInv, Arrived
  PROVE  Len(got) = Len(sent)
<1>1. wire = <<>> /\ ~cut /\ receiving
  BY Zenon DEF Arrived
<1>2. /\ sent \in Seq(Fitting) /\ got \in Seq(Fitting) /\ wire \in Seq(Nat)
      /\ Len(got) <= Len(sent)
  BY Zenon DEF FramingInv, WireInv, WireTypes, InOrder
<1>3. Len(got) \in Nat /\ Len(<<>>) = 0
  BY <1>2
<1>4. Len(wire) = 0
  BY <1>1, <1>3, Zenon
<1>5. CASE Compression = "none"
  <2>1. PICK p : Marks(p, sent) /\ Spells(wire, p, sent, Len(got))
    BY <1>1, <1>5, Zenon DEF FramingInv, WireInv, UnderWay
  <2> QED BY <1>2, <1>3, <1>4, <2>1, NoneLeft, Zenon
<1>6. CASE Compression # "none"
  <2>1. got = <<>>
    BY <1>6, Zenon DEF FramingInv, WireInv, Compressed
  <2>2. ASSUME sent # <<>> PROVE FALSE
    <3>1. Begins(wire, Bytes(IntoFrame(Answer), "gzip"))
      BY <1>1, <1>6, <2>2, Zenon DEF FramingInv, WireInv, Compressed
    <3> QED BY <1>2, <1>4, <3>1, AnswerRefused, Zenon
  <2> QED BY <2>1, <2>2, Zenon
<1> QED BY <1>5, <1>6, Zenon

\* Delivered follows.
LEMMA DeliveredHolds == FramingInv /\ DeliveredInv => Delivered
<1> SUFFICES ASSUME FramingInv, DeliveredInv PROVE Delivered
  OBVIOUS
<1>1. PICK e : Complete(e)
  BY Zenon DEF DeliveredInv
<1>2. ASSUME Arrived
      PROVE  whole = Len(writes) \/ (whole = Len(writes) - 1 /\ EndsInSegments)
  <2>1. whole = e[Len(sent)] /\ pending = <<>>
    BY <1>1, <1>2, AllArrived, Zenon DEF Complete, Arrived
  <2>2. CASE ~Ended(sent, Len(sent))
    BY <1>1, <2>1, <2>2, Zenon DEF Complete, Before
  <2>3. CASE Ended(sent, Len(sent)) /\ LastFits
    BY <1>1, <2>1, <2>3, Zenon DEF Complete, After
  <2>4. CASE Ended(sent, Len(sent)) /\ ~LastFits
    <3>1. LastEnds /\ whole = Len(writes) - 1
      BY <1>1, <2>1, <2>4, Zenon DEF Complete, After
    <3>2. writes \in Seq(Writes) /\ writes # <<>>
      BY <3>1, Zenon DEF FramingInv, Pending, LastEnds
    <3>3. writes[Len(writes)] \in Writes
      BY <3>2
    <3>4. Len(writes[Len(writes)].data) \in Nat /\ maxPayload \in Nat
      BY <3>3, Widths DEF Writes, maxPayload
    <3>5. Len(writes[Len(writes)].data) > maxPayload
      BY <2>4, <3>4 DEF LastFits
    <3> QED BY <3>1, <3>5, Zenon DEF EndsInSegments, LastEnds
  <2> QED BY <2>2, <2>3, <2>4, Zenon
<1>3. from = "server" /\ method = "gzip" => got = <<>>
  <2>1. "gzip" # "none"
    OBVIOUS
  <2>2. from = "server" /\ method = "gzip" => Compression # "none"
    BY <2>1, Zenon DEF Compression
  <2> QED BY <2>2, Zenon DEF FramingInv, WireInv, Compressed
<1> QED BY <1>2, <1>3, Zenon DEF Delivered

\* Delivered: once nothing is under way, every message written on the stream is
\* there to be read, but for one that ends the stream in several segments
\* (DataFramesFromBuffer, stream.handleData), and a client that asked for
\* compression has accepted nothing.
THEOREM DeliveredAlways == FramingSpec => []Delivered
<1> QED
  BY FramingInvariance, FramingStep, DeliveredInit, DeliveredStep, DeliveredHolds, PTL
  DEF FramingSpec
=============================================================================

------------------------------- MODULE Digits -------------------------------
\* The fixed-width numbers of wire/frame.go, big endian.  Digits are taken in
\* base Base, so that a 16-bit count wraps within reach.
EXTENDS Integers, Sequences

CONSTANT Base  \* values of a digit of a number (256 in the code)

\* The fixed part of every payload fits the length of a frame.
ASSUME BaseAssumption == Base \in Nat /\ Base > 2

\* With the truncation of the conversion to uint16.
encodeUint16(v) == <<(v \div Base) % Base, v % Base>>
encodeUint32(v) ==
  LET a == v \div Base  b == a \div Base  c == b \div Base IN
  <<c % Base, b % Base, a % Base, v % Base>>

decodeUint16(b) == b[1] * Base + b[2]
decodeUint32(b) == ((b[1] * Base + b[2]) * Base + b[3]) * Base + b[4]

MaxUint16 == Base * Base - 1
MaxUint32 == Base * Base * Base * Base - 1

SmallerOf(a, b) == IF a < b THEN a ELSE b
=============================================================================

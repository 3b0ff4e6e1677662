----------------------------- MODULE ByteStream -----------------------------
(***************************************************************************)
(* What a wire.BlockReader promises its two users: the connection's read   *)
(* loop, which puts payload bytes in, and the goroutine reading the        *)
(* stream.  Bytes are named by their offset: byte i is the i-th accepted,  *)
(* so "the reader gets every accepted byte once and in order" is "each     *)
(* read starts at offset got".                                             *)
(***************************************************************************)
EXTENDS Naturals

CONSTANT MaxBytes  \* bound on the bytes accepted

VARIABLES
  accepted,  \* bytes taken in so far
  got,       \* bytes handed to the reader so far
  closed,    \* the stream was closed
  result     \* outcome of the reader's last completed call

vars == <<accepted, got, closed, result>>

NoResult == [kind |-> "none", from |-> 0, n |-> 0]
EOF      == [kind |-> "eof", from |-> 0, n |-> 0]
Again    == [kind |-> "again", from |-> 0, n |-> 0]
Bytes(from, n) == [kind |-> "data", from |-> from, n |-> n]

Init == accepted = 0 /\ got = 0 /\ closed = FALSE /\ result = NoResult

Put(n) ==
  /\ ~closed
  /\ accepted + n <= MaxBytes
  /\ accepted' = accepted + n
  /\ UNCHANGED <<got, closed, result>>

\* The reader gets the next n bytes; nothing forbids this after a close.
Get(n) ==
  /\ got + n <= accepted
  /\ got' = got + n
  /\ result' = Bytes(got, n)
  /\ UNCHANGED <<accepted, closed>>

\* End of file only once closed; unread bytes may be lost to a close.
GetEOF ==
  /\ closed
  /\ result' = EOF
  /\ UNCHANGED <<accepted, got, closed>>

\* "Nothing yet" only when every accepted byte has been read.
GetAgain ==
  /\ got = accepted
  /\ result' = Again
  /\ UNCHANGED <<accepted, got, closed>>

Shut == closed' = TRUE /\ UNCHANGED <<accepted, got, result>>

Next ==
  \/ \E n \in 0 .. MaxBytes : Put(n) \/ Get(n)
  \/ GetEOF \/ GetAgain \/ Shut

Spec == Init /\ [][Next]_vars
=============================================================================

-------------------------------- MODULE Fifo --------------------------------
\* What a connection promises about its frames: those the receiver accepts are
\* those the sender wrote, each once and in order, up to some point.
EXTENDS Naturals, Sequences

VARIABLES in, out  \* everything put in, everything taken out

Init == in = <<>> /\ out = <<>>

Put ==
  /\ Len(in') = Len(in) + 1 /\ SubSeq(in', 1, Len(in)) = in
  /\ UNCHANGED out

Get ==
  /\ Len(out) < Len(in)
  /\ out' = Append(out, in[Len(out) + 1])
  /\ UNCHANGED in

Spec == Init /\ [][Put \/ Get]_<<in, out>>
=============================================================================

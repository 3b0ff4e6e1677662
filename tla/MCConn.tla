------------------------------- MODULE MCConn -------------------------------
\* Instances of Conn.  The outboundFrames of the pool are interchangeable.
EXTENDS Conn, TLC

OutSymmetry == Permutations(Outs)
=============================================================================

----------------------------- MODULE MCXorbox -----------------------------
(* XorboxDevice for TLC: the bitwise exclusive or, and short writes.       *)
EXTENDS XorboxDevice, Bitwise

MCByteXor(x, y) == x ^^ y

\* An empty write, one that leaves room, and one longer than the ring.
MCData == {<<>>, <<1>>, <<1, 1, 0, 0>>}
=============================================================================

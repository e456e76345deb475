---------------------------- MODULE MCPacketSlot ----------------------------
(* PacketSlot for TLC: the bitwise exclusive or.                           *)
EXTENDS PacketSlot, Bitwise

MCByteXor(x, y) == x ^^ y

\* An empty packet, one that fits and one that is longer than the buffer.
MCData == {<<>>, <<1>>, <<2, 3, 1>>}
=============================================================================

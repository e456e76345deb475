-------------------------- MODULE MCCircularBuffer --------------------------
(* CircularBuffer for TLC: the real bitwise AND in place of BitAnd.        *)
EXTENDS CircularBuffer, Bitwise

MCBitAnd(x, y) == x & y
=============================================================================

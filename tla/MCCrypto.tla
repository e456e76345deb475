------------------------------ MODULE MCCrypto ------------------------------
(* CryptoBuffer for TLC: the bitwise exclusive or.                         *)
EXTENDS CryptoBuffer, Bitwise

MCByteXor(x, y) == x ^^ y

MCData == {<<>>, <<0>>, <<1, 0>>, <<0, 1, 1, 1>>}
MCShortData == {<<1>>, <<1, 1>>}

MCSeekTo == {-1, 0, 2, 4} \X {0, 1, 2, 3}
MCSeekSome == {0, 2} \X {0, 1}
=============================================================================

\* Two processes and the length they share.
SPECIFICATION Spec
CONSTANTS
  Proc = {p, q}
  Byte = {0, 1}
  ByteXor <- MCByteXor
  Key = 1
  Size = 3
  Outside = Outside
  Data <- MCShortData
  ReadLen = {2}
  SeekTo <- MCSeekSome
INVARIANT
  CompletedWritesReadable

\* One process, every call, every failure.
SPECIFICATION Spec
CONSTANTS
  Proc = {p}
  Byte = {0, 1}
  ByteXor <- MCByteXor
  Key = 1
  Size = 3
  Outside = Outside
  Data <- MCData
  ReadLen = {0, 1, 4}
  SeekTo <- MCSeekTo
INVARIANTS
  CompletedWritesReadable
  ReadsWithinData
  WritesInBounds
PROPERTY
  FileSpec

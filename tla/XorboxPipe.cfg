\* Two processes, any call, any failure, whatever the stack holds; every call is answered.
SPECIFICATION FairSpec
CONSTANTS
  Proc = {p, q}
  Byte = {0, 1}
  ByteXor <- MCByteXor
  InitKey = 1
  BufferSize = 3
  ChunkSize = 2
  StackValue = {0, 2, 5}
  Data <- MCData
  ReadLen = {1, 4}
  KeyArg = {0}
  Untouched = Untouched
  NoProc = NoProc
INVARIANTS
  RingConsistent
  LockHeldInLoop
  LoopWithinRing
PROPERTIES
  PipeSpec
  EveryCallAnswered

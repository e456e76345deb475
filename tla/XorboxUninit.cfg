\* What a read answers when bytes_read begins with what the stack held.
SPECIFICATION Spec
CONSTANTS
  Proc = {p, q}
  Byte = {0, 1}
  ByteXor <- MCByteXor
  InitKey = 1
  BufferSize = 3
  ChunkSize = 2
  StackValue = {0, 5}
  Data <- MCData
  ReadLen = {1, 4}
  KeyArg = {0}
  Untouched = Untouched
  NoProc = NoProc
INVARIANT
  ReportedBytesDelivered

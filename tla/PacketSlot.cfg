\* Both devices, two processes that take turns or overlap, every failing copy.
SPECIFICATION Spec
CONSTANTS
  Proc = {p, q}
  Byte = {0, 1, 2, 3}
  Zero = 0
  ByteXor <- MCByteXor
  Key = 1
  Size = 2
  Garbage = Garbage
  Data <- MCData
  ReadLen = {0, 1, 2}
INVARIANTS
  OnlyWrittenBytes
PROPERTY
  DeviceSpec

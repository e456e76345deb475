\* Both programs; requests, pings, forwarded packets, short frames and wrong sums on
\* both taps.  One ping across the router and one to it, one frame lost.  Messages
\* of three words and a byte, every carry, a word damaged or two swapped.
SPECIFICATION MCSpec
CONSTANTS
  QueueLen = 1
  Traffic <- MCTraffic
  Pings <- MCPings
  MaxLosses = 1
  NoMac = NoMac
  Message <- MCMessage
  Field = 2
  Noise = {0, 1, 255, 65535}
CHECK_DEADLOCK FALSE
INVARIANTS
  ReadNeverBlocks
  GatewayKnownRightly
  SumTellsDamage
PROPERTIES
  SpeaksForItsTap
  LeavesVerifiable
  NoTapStarves
  PingSpec
  PingsAnswered

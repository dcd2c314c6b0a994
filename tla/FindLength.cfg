SPECIFICATION Spec
CONSTANTS
  Base = 2
  Packets <- LongPackets
  Overlong <- Nothing
  MaxSent = 1
  ClosesMidPacket = FALSE
INVARIANT NothingPending

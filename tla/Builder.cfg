SPECIFICATION Spec
CONSTANTS
  Base = 2
  Packets <- ShortPackets
  Overlong <- Endless
  MaxSent = 3
  ClosesMidPacket = FALSE
INVARIANTS Framing NothingPending SizeExact DecodesNext

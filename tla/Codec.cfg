CONSTANTS
  Base = 16
  Radix = 2
  PidSize = 2
  Types <- AllTypes
  Calls <- AllCalls
  MaxFields = 4
  OnlyOnce = {"will"}
  Noise = {0, 3, 16, 255}
  AliasTopic <- Full
SPECIFICATION Spec
CHECK_DEADLOCK FALSE
INVARIANTS
  TypeOK
  BuiltAsAsked
  Delivered
  SizeExact
  
  AccessorsSafe
  SameMessage

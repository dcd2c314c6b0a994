SPECIFICATION Spec
CONSTANTS
  Version = "V5"
  Messages <- ThreeMessages
  MaxId = 2
  CountMod = 4
  Offline = {"client"}
  BeforeSession = FALSE
  BeforeConnect = FALSE
  MaxFaults = 2
CHECK_DEADLOCK FALSE
INVARIANTS LinkInv NoError NothingLost HandledInUse
PROPERTIES DeliverySpec Progress

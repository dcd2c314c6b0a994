SPECIFICATION Spec
CONSTANTS
  Role = "Client"
  InitVersion = "V5"
  MaxId = 2
  CountMod = 4
  Topics <- OneTopic
  AppPackets <- Client5
  Publishes <- Shapes
  Requests <- Nothing
  PeerPackets <- Server5
  Settings <- AutoResponse
  Intervals <- Nothing
  Malformed = FALSE
  PubrelOffline = FALSE
  ChecksVacancy = TRUE
  ForgetsIds = TRUE
  ReleasesOnSendError = FALSE
  BeforeConnect = FALSE
  OneConnack = TRUE
  Crashes = TRUE
INVARIANTS ClientInv DeliveredInv FlowAccounting ReceiveMaximumKept
  IdOwnership NoPanic
PROPERTY ExactlyOnce

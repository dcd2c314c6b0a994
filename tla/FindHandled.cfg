SPECIFICATION Spec
CONSTANTS
  Role = "Server"
  InitVersion = "V3"
  MaxId = 2
  CountMod = 4
  Topics <- OneTopic
  AppPackets <- OnlyConnack
  Publishes <- Nothing
  Requests <- Nothing
  PeerPackets <- TwoSessions
  Settings <- Nothing
  Intervals <- Nothing
  Malformed = FALSE
  PubrelOffline = FALSE
  ChecksVacancy = FALSE
  ForgetsIds = TRUE
  ReleasesOnSendError = FALSE
  BeforeConnect = FALSE
  OneConnack = TRUE
  Crashes = FALSE
INVARIANT HandledDelivered

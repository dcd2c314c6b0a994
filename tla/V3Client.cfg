SPECIFICATION Spec
CONSTANTS
  Role = "Client"
  InitVersion = "V3"
  MaxId = 2
  CountMod = 4
  Topics <- OneTopic
  AppPackets <- SessionClient
  Publishes <- Shapes
  Requests <- Subscribes
  PeerPackets <- SessionServer
  Settings <- SessionSettings
  Intervals <- Nothing
  Malformed = FALSE
  PubrelOffline = FALSE
  ChecksVacancy = FALSE
  ForgetsIds = TRUE
  ReleasesOnSendError = FALSE
  BeforeConnect = FALSE
  OneConnack = TRUE
  Crashes = TRUE
INVARIANTS ClientInv IdOwnership OneOwner StoreAwaited NoPanic

SPECIFICATION Spec
CONSTANTS
  Role = "Client"
  InitVersion = "V5"
  MaxId = 1
  CountMod = 4
  Topics <- ThreeTopics
  AppPackets <- AliasClient
  Publishes <- AutoShapes
  Requests <- Nothing
  PeerPackets <- AliasServer
  Settings <- AutoMap
  Intervals <- Nothing
  Malformed = FALSE
  PubrelOffline = FALSE
  ChecksVacancy = FALSE
  ForgetsIds = TRUE
  ReleasesOnSendError = FALSE
  BeforeConnect = FALSE
  OneConnack = TRUE
  Crashes = FALSE
INVARIANT AliasResolves

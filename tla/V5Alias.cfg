SPECIFICATION Spec
CONSTANTS
  Role = "Client"
  InitVersion = "V5"
  MaxId = 2
  CountMod = 4
  Topics <- TwoTopics
  AppPackets <- AliasClient
  Publishes <- AliasShapes
  Requests <- Nothing
  PeerPackets <- AliasServer
  Settings <- AutoReplace
  Intervals <- Nothing
  Malformed = FALSE
  PubrelOffline = FALSE
  ChecksVacancy = TRUE
  ForgetsIds = TRUE
  ReleasesOnSendError = FALSE
  BeforeConnect = FALSE
  OneConnack = FALSE
  Crashes = FALSE
INVARIANTS AliasTableOK AliasResolves WireInv

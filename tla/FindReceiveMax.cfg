SPECIFICATION Spec
CONSTANTS
  Role = "Client"
  InitVersion = "V5"
  MaxId = 2
  CountMod = 4
  Topics <- OneTopic
  AppPackets <- ResumeClient
  Publishes <- Shapes
  Requests <- Nothing
  PeerPackets <- SmallWindow
  Settings <- Nothing
  Intervals <- Nothing
  Malformed = FALSE
  PubrelOffline = FALSE
  ChecksVacancy = FALSE
  ForgetsIds = TRUE
  ReleasesOnSendError = FALSE
  BeforeConnect = FALSE
  OneConnack = TRUE
  Crashes = FALSE
INVARIANT NoPanic

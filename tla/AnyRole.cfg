SPECIFICATION Spec
CONSTANTS
  Role = "Any"
  InitVersion = "Undetermined"
  MaxId = 1
  CountMod = 4
  Topics <- OneTopic
  AppPackets <- AnyPackets
  Publishes <- Nothing
  Requests <- Unsubscribes
  PeerPackets <- AnyPeer
  Settings <- AnySettings
  Intervals <- AnyIntervals
  Malformed = TRUE
  PubrelOffline = FALSE
  ChecksVacancy = FALSE
  ForgetsIds = TRUE
  ReleasesOnSendError = TRUE
  BeforeConnect = TRUE
  OneConnack = FALSE
  Crashes = FALSE
INVARIANTS TypeOK TimerInv NoTimerWhenClosed TimersAgree ClientWatched

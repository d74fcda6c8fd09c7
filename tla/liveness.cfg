SPECIFICATION FairSpec

CONSTANTS
  Sources = {s1}
  Slots = {k1, k2}
  None = None
  StreamsGrace = 1
  TeardownWindow = 1
  DeliveryWatchdog = 0
  HealthyRun = 1
  SilenceTimeout = 1
  FrameWatchdog = 1
  Backoff <- MCBackoff
  Alphabet <- AudioAlphabet
  MaxInFlight = 1
  Commands = {"TogglePlay"}
  SpawnMayFail = FALSE
  StartupMayTimeOut = TRUE

PROPERTIES
  DeadIsReaped
  BackoffEnds
  SilentIsStopped

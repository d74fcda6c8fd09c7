SPECIFICATION Spec

CONSTANTS
  Sources = {s1}
  Slots = {k1, k2}
  None = None
  StreamsGrace = 1
  TeardownWindow = 1
  DeliveryWatchdog = 0
  HealthyRun = 1
  SilenceTimeout = 1
  FrameWatchdog = 1
  Backoff <- MCBackoff
  Alphabet <- TopologyAlphabet
  MaxInFlight = 1
  Commands = {"Reboot", "Kill", "TogglePlay"}
  SpawnMayFail = TRUE
  StartupMayTimeOut = FALSE

SYMMETRY Symmetry

INVARIANTS
  ChainFollowsAdapter
  PlayReachesReady

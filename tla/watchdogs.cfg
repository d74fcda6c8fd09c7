SPECIFICATION Spec

CONSTANTS
  Sources = {s1}
  Slots = {k1, k2}
  None = None
  StreamsGrace = 1
  TeardownWindow = 1
  DeliveryWatchdog = 1
  HealthyRun = 1
  SilenceTimeout = 1
  FrameWatchdog = 1
  Backoff <- MCBackoff
  Alphabet <- WatchdogAlphabet
  MaxInFlight = 1
  Commands = {}
  SpawnMayFail = FALSE
  StartupMayTimeOut = TRUE

SYMMETRY Symmetry

PROPERTIES
  NoInheritedVerdict
  DeliverySparesChained

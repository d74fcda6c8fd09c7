SPECIFICATION Spec

CONSTANTS
  Sources = {s1}
  Slots = {k1, k2}
  None = None
  StreamsGrace = 1
  TeardownWindow = 1
  DeliveryWatchdog = 0
  HealthyRun = 1
  SilenceTimeout = 1
  FrameWatchdog = 1
  Backoff <- MCBackoff
  Alphabet <- LifecycleAlphabet
  MaxInFlight = 1
  Commands = {"Reboot", "Kill", "TogglePlay", "Quit"}
  SpawnMayFail = TRUE
  StartupMayTimeOut = TRUE

SYMMETRY Symmetry

INVARIANTS
  TypeOK
  Bookkeeping
  NoOrphan
  StoppedIsDown

PROPERTY ImplementsLifecycle

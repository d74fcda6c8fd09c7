SPECIFICATION FairSpec

CONSTANTS
  Kinds = {"rtsp"}
  Threads = {r1, r2}
  None = None
  MaxReconnects = 1
  PadStability = 1
  HardDeadline = 1
  MaxBus = 1
  LinkMayFail = FALSE

PROPERTIES
  FailureIsRecovered

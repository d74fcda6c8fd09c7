SPECIFICATION FairSpec

CONSTANTS
  Kinds = {"rtsp", "youtube"}
  Threads = {r1, r2}
  None = None
  MaxReconnects = 1
  PadStability = 1
  HardDeadline = 2
  MaxBus = 2
  LinkMayFail = TRUE

INVARIANTS
  TypeOK
  OneRestart
  ReportIsTrue

PROPERTIES
  SaysReady
  ImplementsContract

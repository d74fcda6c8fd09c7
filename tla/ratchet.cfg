SPECIFICATION FairSpec

CONSTANTS
  Sources = {a, b}
  None = None
  Rates = {33, 48, 60, 100}
  GridFps = 30
  MinDelta = 5
  MaxSourceFps = 65
  Window = 2
  Settle = 2
  MaxResets = 1

INVARIANTS
  TypeOK

PROPERTIES
  NeverFallsBack
  BothWindowsPass
  SteadySourceRaises

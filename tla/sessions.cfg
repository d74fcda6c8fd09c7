SPECIFICATION Spec

CONSTANTS
  Launches = 3
  None = None
  Torn = Torn
  Offsets <- Scene
  FileBounds <- Live
  Bounds <- JustLive
  MaxEdits = 2
  MaxMishaps = 1

INVARIANTS
  TypeOK
  LaterOneStaysOut
  OrphansGo
  EditsAreDue

PROPERTIES
  SceneStaysWhole
  CleanExitPersists

CHECK_DEADLOCK FALSE

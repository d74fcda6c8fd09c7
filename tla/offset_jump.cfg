SPECIFICATION Spec

CONSTANTS
  Sources = {cam}
  External = {cam}
  None = None
  SceneOffsets = {3}
  Typed <- Below
  Deltas = {2}
  Declared = {1}
  FileBound = 3
  Ceiling = 2
  CorrectionFloor = 0
  MaxTime = 2
  Outcomes = {"built", "absent", "loose", "leaked"}
  MaxLost = 1

PROPERTIES
  OffsetIsAShift

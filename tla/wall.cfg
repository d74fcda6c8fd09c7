SPECIFICATION FairSpec

CONSTANTS
  None = None
  Offsets = {0, 1}
  FirstOffset = 1
  Heights = {1, 4}
  FirstHeight = 4
  Chrome = 2
  Ceiling = 1
  Slack = 1
  Channel = 1
  LastEpoch = 1
  MaxTime = 4
  MaxPauses = 1
  MaxMissed = 0
  MaxEdits = 1

INVARIANTS
  TypeOK

PROPERTIES
  NeverStepsBack
  OnTime
  OldPictureLeaves
  WallCatchesUp

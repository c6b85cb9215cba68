SPECIFICATION Spec
CONSTANTS
  Page = {1, 2, 3, 4, 5}
  NumFrames = 3
  Null = Null
PROPERTY EvictsOldest

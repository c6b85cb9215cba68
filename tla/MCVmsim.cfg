SPECIFICATION Spec
CONSTANTS
  Page = {1, 2, 3, 4}
  NumFrames = 3
  RefreshRate = 3
  MaxLines = 7
  NoPage = 0
  Null = Null
CONSTRAINT NumberedByFirstUse
CHECK_DEADLOCK FALSE
INVARIANTS
  TypeOK
  ClassesMatchBits
  Optimal
PROPERTIES
  SecondChance
  AccessEnds
  KeepsNewest
  EvictsLeastWorth
  KeepsPromise

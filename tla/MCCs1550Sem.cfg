SPECIFICATION Spec
CONSTANTS
  p1 = p1
  p2 = p2
  p3 = p3
  s1 = s1
  s2 = s2
  Proc = {p1, p2, p3}
  Sem = {s1, s2}
  InitValue <- MCInitValue
  MaxValue = 2
INVARIANTS
  ListMatchesValue
  SleepsIffListed
PROPERTIES
  WokenReturns
  KeepsPromise
CHECK_DEADLOCK FALSE

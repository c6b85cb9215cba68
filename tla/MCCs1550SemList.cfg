SPECIFICATION Spec
CONSTANTS
  p1 = p1
  p2 = p2
  p3 = p3
  s1 = s1
  s2 = s2
  Proc = {p1, p2, p3}
  Sem = {s1, s2}
  Node = {n1, n2, n3}
  NULL = NULL
  JUNK = JUNK
  InitValue <- MCInitValue
  MaxValue = 1
INVARIANT
  ListsOwnTheMemory
PROPERTY
  ImplementsQueue
CHECK_DEADLOCK FALSE

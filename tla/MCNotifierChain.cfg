SPECIFICATION Spec
CONSTANTS
  n1 = n1
  n2 = n2
  n3 = n3
  c1 = c1
  c2 = c2
  Block = {n1, n2, n3}
  Priority <- MCPriority
  Writer = {w1, w2}
  Caller = {c1, c2}
  Limit <- MCLimit
  Kind = {"srcu", "blocking"}
  NULL = NULL
INVARIANTS
  TypeOK
  OldBlockUnseen
  CallsThoseWhoStay
PROPERTIES
  KeepsOrder
  UnregisterReturns

SPECIFICATION UsageSpec
CONSTANTS
  Task = {init, p2, p3, p4}
  InitPid = init
  NoTask = NoTask
  Field = {utime, stime}
  MaxTime = 2
  MaxTasks = 3
SYMMETRY Renumbering
INVARIANTS
  GroupsInOneSession
  SessionLeaderLeads
  SampleIsBetween
  ChildrenAllOrNone
PROPERTY SessionsAreEntered

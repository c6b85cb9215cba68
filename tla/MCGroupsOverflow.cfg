SPECIFICATION GroupsSpec
CONSTANTS
  Task = {t1, t2}
  Info = {init, i1, i2, i3}
  init_groups = init
  NoInfo = NoInfo
  GroupId = {0, 5, 9}
  Width = 4
  Size = {0, 2, 5, 6}
  NGROUPS_MAX = 5
  NGROUPS_SMALL = 1
  NGROUPS_PER_BLOCK = 2
  NumPages = 5
SYMMETRY Renaming
INVARIANT IsInGroup

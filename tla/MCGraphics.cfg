SPECIFICATION ProgramsSpec
CONSTANTS
  Low <- MCLow
  High = 4
  MAX_X = 3
  MAX_Y = 2
CHECK_DEADLOCK FALSE
INVARIANTS
  GameTypeOK
  StaysOnLine
  EndsAtEnd
  FollowsArrows
  NeverBlank

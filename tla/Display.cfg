SPECIFICATION Spec
CONSTANTS
  Rows = 7
  FirstLines = 6
  LinesPerBuf = 2
  BarFrom = 3
  DescCnt = 4
  Boots = 1
  Clears = 2
  MaxDraws = 3
INVARIANTS TypeOK LinesFollowCopy CrashedByRace EngineSpins PacketsOnce
PROPERTIES CopyFollows
CHECK_DEADLOCK FALSE

SPECIFICATION Spec
CONSTANTS
  nPowTargetSpacing = 4
  nDifficultyWindow = 3
  nDifficultyMin = 1024
  fPowNoRetargeting = FALSE
  Unit = 1024
  Word = 16777216
  LogTarget = 90851
  MAX_FUTURE_BLOCK_TIME = 2
  MaxBack = 2
  nMedianTimeSpan = 3
  GenesisDifficulty = 3000
  MaxTime = 104
  MaxLen = 6
  Log <- MCLog
  TimeSteps <- MCTimeSteps
  ClockSteps <- MCClockSteps
INVARIANTS
  DifficultyBounds
  AverageInRange
  Response
  TemplateTimeAllowed
PROPERTY
  MedianMonotone
CHECK_DEADLOCK FALSE

CONSTANTS
  Workers = {w1, w2}
  Master = m
  BatchSize = 2
  MaxBlocks = 2
  MaxChecks = 4
SPECIFICATION Spec
CHECK_DEADLOCK FALSE
INVARIANTS
  TypeOK
  Counters
  AnswerExact
  NoCheckOutlives
PROPERTIES
  CompleteReturns
  DestructorReturns

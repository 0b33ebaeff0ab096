SPECIFICATION FairSpec
CONSTANTS
  Proofs <- MCProofs
  MaxBlocks = 3
  MaxPosted = 2
INVARIANTS
  ExitAccounted
  
PROPERTIES
  HandOver
  FailureShown
  StopEndsThread
CHECK_DEADLOCK FALSE

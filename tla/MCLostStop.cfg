SPECIFICATION FairSpec
CONSTANTS
  Proofs <- MCProofs
  MaxBlocks = 2
  MaxPosted = 2
PROPERTY
  StopMiningStops
CHECK_DEADLOCK FALSE

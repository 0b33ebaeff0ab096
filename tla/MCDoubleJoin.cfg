SPECIFICATION Spec
CONSTANTS
  Proofs <- MCProofs
  MaxBlocks = 2
  MaxPosted = 2
INVARIANT
  JoinedOnce
CHECK_DEADLOCK FALSE

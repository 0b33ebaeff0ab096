SPECIFICATION FairSpec
CONSTANTS
  Proofs <- MCProofs
  Requested <- MCRequested
  MaxHeight = 4
INVARIANTS
  StoppedBeforeReset
  
  NewParent
PROPERTY
  ShutdownIfProofs
CHECK_DEADLOCK FALSE

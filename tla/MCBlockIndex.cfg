CONSTANTS
  Blocks <- MCBlocks
  HashPrev <- MCHashPrev
  Time <- MCTime
  Merit <- MCMerit
  Stored <- MCStored
  Base = 14
  MinTip = 11
  MaxShift = 12
SPECIFICATION Spec
INVARIANTS
  ChainConsistent
  AncestorExact
  ForkExact
  LocatorFindsFork
  EarliestExact
  
  
  

  

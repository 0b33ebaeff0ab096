SPECIFICATION Spec
CONSTANTS
  Batch = 2
  Hashes = {1, 3, 4, 5, 6, 7, 8, 9, 10, 11, 12, 13, 14, 15, 16, 17, 18, 19, 20, 21}
  MinHash = 3
  Shift = 6
  MinShift = 2
  MaxShift = 8
  Seg = 13
  SieveCap = 40
  SievePrimes <- MCSievePrimes
  WheelPrimes = {2, 3, 5, 7, 11}
  Primes <- MCPrimes
  Unit = 16
  Word = 65536
  Ln <- MCLn
  Rand <- MCRand
  Target = 24
  DifficultyMin = 16
INVARIANTS NoPrimeLost NoSmallMultiple ReportedAccepted OnlyNearMisses
CHECK_DEADLOCK FALSE

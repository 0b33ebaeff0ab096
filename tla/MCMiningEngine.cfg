SPECIFICATION Spec
CONSTANTS
  NThreads = 2
  Batch = 2
  NonceMod = 4
  StartNonce = 0
  Segments = 3
  HasGpu = TRUE
  GpuCanFail = TRUE
  GpuMin = 2
  Requests = {r1, r2, r3}
  MaxAbandoned = 1
  ValidHash <- MCValidHash
  Cands <- MCCands3
  Primes <- MCPrimes3
  MinGap = 6
  Valid <- MCValid3
  NoReq = NoReq
SYMMETRY MCSymmetry
INVARIANTS RequestOwnership Quiescent ProofKept NonceDisjoint Exhaustive

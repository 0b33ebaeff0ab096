SPECIFICATION Spec
CONSTANTS
  NThreads = 2
  Batch = 1
  NonceMod = 4
  StartNonce = 0
  Segments = 2
  HasGpu = TRUE
  GpuCanFail = FALSE
  GpuMin = 2
  Requests = {r1, r2, r3}
  MaxAbandoned = 1
  ValidHash <- MCValidHash
  Cands <- MCCands2
  Primes <- MCPrimes2
  MinGap = 6
  Valid <- MCValid2
  NoReq = NoReq
SYMMETRY MCSymmetry
INVARIANT WholeProof

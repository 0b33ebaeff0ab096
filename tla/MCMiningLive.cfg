SPECIFICATION FairSpec
CONSTANTS
  NThreads = 2
  Batch = 1
  NonceMod = 2
  StartNonce = 0
  Segments = 1
  HasGpu = TRUE
  GpuCanFail = TRUE
  GpuMin = 2
  Requests = {r1, r2, r3}
  MaxAbandoned = 1
  ValidHash = {0}
  Cands <- MCCands1
  Primes <- MCPrimes1
  MinGap = 6
  Valid <- MCValid1
  NoReq = NoReq
PROPERTIES RefinesSession StopReturns

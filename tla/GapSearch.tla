----------------------------- MODULE GapSearch -----------------------------
(***************************************************************************)
(* The arithmetic of the search for a prime gap, on real integers:         *)
(* CombinedSegmentedSieve (src/pow/combined_sieve.cpp) strikes out         *)
(* multiples of the sieve primes segment by segment, parallel_worker()     *)
(* (src/pow/mining_engine.cpp) looks for gaps between the survivors that   *)
(* are prime, PoW::valid() (src/pow/pow.cpp) decides what is reported, and *)
(* CheckProofOfWork() (src/pow.cpp) is what the rest of the network will   *)
(* say to it.                                                              *)
(*                                                                         *)
(* One worker and one batch of nonces at a time: threads, GPU and stop     *)
(* requests are the business of MiningEngine, which takes the candidates   *)
(* of this module as a constant.  A nonce is represented by its hash.  Bit *)
(* b of segment s stands for the odd number start + 2 * (s * Seg + b) + 1. *)
(* BPSW is taken to be exact, in the miner and in consensus alike: Primes  *)
(* is the set of numbers that pass it.                                     *)
(***************************************************************************)
EXTENDS Integers, FiniteSets

CONSTANTS
  Batch,        \* COMBINED_SIEVE_BATCH
  Hashes,       \* the hashes nonces can have
  MinHash,      \* smallest number with 200 bits
  Shift, MinShift, MaxShift,
  Seg,          \* SEGMENT_SIZE_BITS
  SieveCap,     \* intensity_to_sieve_cap()
  SievePrimes,  \* the odd primes of the sieve's table
  WheelPrimes,  \* 2, 3, 5, 7, 11
  Primes,       \* the numbers that pass BPSW
  Unit,         \* 2^48, a merit of one
  Word,         \* 2^64
  Ln(_),        \* Ln(n): the integer nearest to ln(n) * Unit
  Rand(_, _),   \* rand(), GapRandom(): hash of the end points of a gap
  Target,       \* target_difficulty, the block's nDifficulty
  DifficultyMin \* params.nDifficultyMin

Intervals == 0 .. Batch - 1

\* The numbers an adder may take: [0, 2^shift).
Range == 2 ^ Shift

Start(h) == h * Range

Odd(n) == n % 2 = 1

SmallPrimes == {p \in SievePrimes : p <= Seg}

LargePrimes == SievePrimes \ SmallPrimes

ASSUME SieveAssumption ==
  /\ Batch \in Nat \ {0} /\ Hashes \subseteq Nat
  /\ MinHash \in Nat /\ MinHash > 1
  /\ Shift \in MinShift .. MaxShift /\ MinShift \in Nat \ {0} /\ MaxShift \in Nat
  /\ Range \in Nat \ {0} /\ Range % 2 = 0
  /\ Seg \in Nat \ {0} /\ SieveCap \in Nat \ {0}

\* A sieve prime is odd and smaller than every number that is sieved, and a
\* prime has no divisor but one and itself.
ASSUME PrimeAssumption ==
  /\ SievePrimes \subseteq Nat
  /\ \A p \in SievePrimes : p > 1 /\ Odd(p) /\ p <= MinHash * Range
  /\ WheelPrimes \subseteq Nat
  /\ \A p \in WheelPrimes : p > 1 /\ p <= MinHash * Range
  /\ Primes \subseteq Nat
  /\ \A n \in Primes : \A d \in 2 .. n - 1 : n % d # 0

ASSUME FixedPointAssumption ==
  /\ Unit \in Nat \ {0} /\ Word \in Nat \ {0}
  /\ DifficultyMin \in Nat \ {0} /\ Target \in Nat /\ Target >= DifficultyMin

VARIABLES
  pc,               \* where the worker is in parallel_worker()
  hash,             \* states[k].mpz_hash
  active,           \* the intervals in use
  starts,           \* small_starts and large_starts: bit of the next multiple
  bucket,           \* buckets[0]: <<interval, prime, bit>> for this segment
  segment,          \* the bits struck out in each interval's segment
  current_segment,
  k,                \* interval whose candidates are tested next
  last_prime,       \* last_prime_offset per interval, 0 for none
  reported          \* <<hash, adder>> pairs of this batch given to process()

vars == <<pc, hash, active, starts, bucket, segment, current_segment, k,
          last_prime, reported>>

-----------------------------------------------------------------------------
(* The sieve *)

RoundUp(n, m) == ((n + m - 1) \div m) * m

TotalSize ==
  RoundUp(IF Range \div 2 < SieveCap THEN Range \div 2 ELSE SieveCap, Seg)

TotalSegments == TotalSize \div Seg

\* The number that bit b of segment s stands for, as an offset from the start.
Offset(s, b) == 2 * (s * Seg + b) + 1

\* Mutant of CalcStart: the first multiple, even or odd.
CalcStartAny(h, p) ==
  LET remainder == Start(h) % p
  IN  (IF remainder = 0 THEN 0 ELSE p - remainder) \div 2

\* calc_starts(): the bit of the first odd multiple of p after the start.
CalcStart(h, p) ==
  LET remainder == Start(h) % p
      offset    == IF remainder = 0 THEN 0 ELSE p - remainder
  IN  (IF Odd(offset) THEN offset ELSE offset + p) \div 2

Bits == 0 .. Seg - 1

\* The bits the loop `for (; pos < SEGMENT_SIZE_BITS; pos += p)` sets.
Struck(pos, p) == {b \in Bits : b >= pos /\ (b - pos) % p = 0}

\* Mutant of NextStart: one multiple too far when the last one ends the segment.
NextStartSkips(pos, p) ==
  IF pos >= Seg THEN pos - Seg ELSE pos + ((Seg - pos) \div p + 1) * p - Seg

\* Where that loop leaves pos, relative to the next segment.
NextStart(pos, p) ==
  IF pos >= Seg THEN pos - Seg ELSE pos + ((Seg - 1 - pos) \div p + 1) * p - Seg

\* Bits of interval i that small primes and the current bucket strike out.
SmallHits(i) == UNION {Struck(starts[i][p], p) : p \in SmallPrimes}

BucketHits(i) == {e[3] : e \in {f \in bucket : f[1] = i}} \cap Bits

\* process_buckets_combined(): an entry is kept if its next multiple lies in
\* the very next segment.
Carried ==
  {<<e[1], e[2], e[3] + e[2] - Seg>> :
     e \in {f \in bucket : /\ f[1] \in active
                           /\ f[3] + f[2] >= Seg
                           /\ f[3] + f[2] < 2 * Seg}}

\* advance_buckets() after the first segment: the large primes whose first
\* multiple lies in the second one.  A prime whose first multiple lay in the
\* first segment would be kept only if the multiple after it lay there too.
FirstBucket ==
  {<<ip[1], ip[2], starts[ip[1]][ip[2]] % Seg>> :
     ip \in {jp \in active \X LargePrimes : starts[jp[1]][jp[2]] \div Seg = 1}}
  \cup
  {<<ip[1], ip[2], (starts[ip[1]][ip[2]] + ip[2]) % Seg>> :
     ip \in {jp \in active \X LargePrimes :
               /\ starts[jp[1]][jp[2]] \div Seg = 0
               /\ (starts[jp[1]][jp[2]] + jp[2]) \div Seg = 0}}

\* get_candidates(): the surviving bits that pass the wheel.
Candidates(i) ==
  {Offset(current_segment - 1, b) :
     b \in {c \in Bits \ segment[i] : \A p \in WheelPrimes :
              (Start(hash[i]) + Offset(current_segment - 1, c)) % p # 0}}

-----------------------------------------------------------------------------
(* Merit and difficulty *)

\* mpz_fits_ui64() and mpz_get_uint64(): zero for what needs more than 64 bits.
Fit(n) == IF n < Word THEN n ELSE 0

AtLeastOne(n) == IF n = 0 THEN 1 ELSE n

\* PoWUtils::merit() and CalculateMerit(); difficulty() and
\* CalculateDifficulty() of the gap from prime p to prime q.
Merit(p, q) == Fit(((q - p) * Unit * Unit) \div Ln(p))

Difficulty(p, q) ==
  (Merit(p, q) + (Rand(p, q) % AtLeastOne(Fit((2 * Unit * Unit) \div Ln(p))))) % Word

\* PoWUtils::target_size()
TargetSize(n) == Fit((Target * Ln(n)) \div (Unit * Unit))

\* Mutant of MinGap: an even target is raised as well.
MinGapStrict(h) == LET t == TargetSize(Start(h)) IN t + 2 - (t % 2)

\* The gap the miner looks for, rounded up to an even number.
MinGap(h) == LET t == TargetSize(Start(h)) IN t + (t % 2)

\* freycoin_nextprime()
NextPrime(n) ==
  CHOOSE q \in Primes : q > n /\ \A r \in Primes : r > n => q <= r

\* For every hash that can be searched: logarithms are positive and increase,
\* a hash of two end points is a number, and primes do not run out.
ASSUME SearchAssumption ==
  \A h \in {g \in Hashes : g >= MinHash} :
    /\ Ln(Start(h)) \in Nat \ {0}
    /\ \A n \in Start(h) .. Start(h) + 2 * TotalSize :
         Ln(n) \in Nat /\ Ln(Start(h)) <= Ln(n)
    /\ \A m, n \in Start(h) .. Start(h) + 2 * TotalSize : Rand(m, n) \in Nat
    /\ \E q \in Primes : q > Start(h) + 2 * TotalSize

\* Mutant of EndPoints: no test of the adder.
EndPointsAnyAdder(h, add) ==
  Shift >= MinShift /\ Shift <= MaxShift /\ h >= MinHash /\ Start(h) + add \in Primes

\* PoW::get_end_points()
EndPoints(h, add) ==
  /\ Shift >= MinShift /\ Shift <= MaxShift
  /\ h >= MinHash
  /\ add < Range
  /\ Start(h) + add \in Primes

\* PoW::difficulty() and PoW::valid(): without end points the difficulty is 0.
PowDifficulty(h, add) ==
  IF EndPoints(h, add)
  THEN Difficulty(Start(h) + add, NextPrime(Start(h) + add)) ELSE 0

Valid(h, add) == PowDifficulty(h, add) >= Target

\* CheckProofOfWork() of a block with this hash, adder and nDifficulty.
CheckProofOfWork(h, add, difficulty) ==
  /\ ~(Shift < MinShift) /\ ~(Shift > MaxShift)
  /\ ~(difficulty < DifficultyMin)
  /\ ~(h < MinHash)
  /\ ~(add >= Range)
  /\ Start(h) + add \in Primes
  /\ Difficulty(Start(h) + add, NextPrime(Start(h) + add)) >= difficulty

-----------------------------------------------------------------------------
(* The worker *)

Init ==
  /\ pc = "batch"
  /\ hash = [i \in Intervals |-> 0] /\ active = {}
  /\ starts = [i \in Intervals |-> [p \in SievePrimes |-> 0]]
  /\ bucket = {} /\ segment = [i \in Intervals |-> {}]
  /\ current_segment = 0 /\ k = 0
  /\ last_prime = [i \in Intervals |-> 0] /\ reported = {}

\* Phase 1: reset_segments(), then the hash of every nonce of the batch and
\* init_interval() or deactivate_interval().  A batch without a usable hash
\* is skipped.
NewBatch ==
  /\ pc \in {"batch", "done"}
  /\ \E h \in [Intervals -> Hashes] :
       /\ hash' = h
       /\ active' = {i \in Intervals : h[i] >= MinHash}
       /\ starts' = [i \in Intervals |->
                       IF h[i] >= MinHash
                       THEN [p \in SievePrimes |-> CalcStart(h[i], p)]
                       ELSE starts[i]]
       /\ pc' = IF active' = {} THEN "batch" ELSE "sieve"
  /\ bucket' = {} /\ current_segment' = 0 /\ k' = 0
  /\ last_prime' = [i \in Intervals |-> 0] /\ reported' = {}
  /\ UNCHANGED segment

\* sieve_next_segment(): presieve tables are never ready, so every segment
\* starts out empty; then the small primes, the bucket, and advance_buckets().
SieveNextSegment ==
  /\ pc = "sieve" /\ current_segment < TotalSegments
  /\ segment' = [i \in Intervals |->
                   IF i \in active THEN SmallHits(i) \cup BucketHits(i)
                                   ELSE segment[i]]
  /\ starts' = [i \in Intervals |-> [p \in SievePrimes |->
                  IF i \in active /\ p \in SmallPrimes
                  THEN NextStart(starts[i][p], p) ELSE starts[i][p]]]
  /\ current_segment' = current_segment + 1
  /\ bucket' = IF current_segment + 1 < TotalSegments
               THEN Carried \cup (IF current_segment = 0 THEN FirstBucket ELSE {})
               ELSE {}
  /\ pc' = "scan" /\ k' = 0
  /\ UNCHANGED <<hash, active, last_prime, reported>>

\* sieve_next_segment() returns false: the batch is through.
EndBatch ==
  /\ pc = "sieve" /\ current_segment >= TotalSegments
  /\ pc' = "done"
  /\ UNCHANGED <<hash, active, starts, bucket, segment, current_segment, k,
                 last_prime, reported>>

PrimesIn(i) == {o \in Candidates(i) : Start(hash[i]) + o \in Primes}

\* <<last prime, prime>> for every prime of the segment but the first of the
\* interval.
Pairs(i) ==
  LET primes == PrimesIn(i)
      known  == primes \cup (IF last_prime[i] = 0 THEN {} ELSE {last_prime[i]})
  IN  {ab \in known \X primes :
         ab[1] < ab[2] /\ \A c \in primes : ~(ab[1] < c /\ c < ab[2])}

\* The adders that reach process() if it asks to go on every time.
Proofs(i) ==
  LET long == {ab \in Pairs(i) : ab[2] - ab[1] >= MinGap(hash[i])}
  IN  {a \in {ab[1] : ab \in long} : Valid(hash[i], a)}

NewLast(i) ==
  LET primes == PrimesIn(i)
  IN  IF primes = {} THEN last_prime[i]
      ELSE CHOOSE a \in primes : \A b \in primes : b <= a

NextInterval ==
  /\ k' = IF k + 1 < Batch THEN k + 1 ELSE 0
  /\ pc' = IF k + 1 < Batch THEN "scan" ELSE "sieve"

\* Phase 3 for one interval whose hash is usable: every proof goes to
\* process(), which asks to go on each time.
Scan ==
  /\ pc = "scan" /\ k \in active
  /\ reported' = reported \cup {<<hash[k], a>> : a \in Proofs(k)}
  /\ last_prime' = [last_prime EXCEPT ![k] = NewLast(k)]
  /\ NextInterval
  /\ UNCHANGED <<hash, active, starts, bucket, segment, current_segment>>

SkipInterval ==
  /\ pc = "scan" /\ k \notin active
  /\ NextInterval
  /\ UNCHANGED <<hash, active, starts, bucket, segment, current_segment,
                 last_prime, reported>>

\* process() returns false: the worker leaves everything as it is.
ScanUntilAccepted ==
  /\ pc = "scan" /\ k \in active
  /\ LET proofs == Proofs(k)
     IN  \E a \in proofs :
           reported' = reported \cup {<<hash[k], b>> : b \in {c \in proofs : c <= a}}
  /\ pc' = "found"
  /\ UNCHANGED <<hash, active, starts, bucket, segment, current_segment, k,
                 last_prime>>

Next ==
  NewBatch \/ SieveNextSegment \/ EndBatch \/ Scan \/ SkipInterval \/ ScanUntilAccepted

Spec == Init /\ [][Next]_vars

-----------------------------------------------------------------------------
(* Properties *)

\* Types: in particular the position kept for a sieve prime never reaches the
\* prime, the bit of a bucket entry never its segment.
TypeOK ==
  /\ pc \in {"batch", "sieve", "scan", "done", "found"}
  /\ hash \in [Intervals -> Nat] /\ active \subseteq Intervals
  /\ starts \in [Intervals -> [SievePrimes -> Nat]]
  /\ \A i \in Intervals : \A p \in SievePrimes : starts[i][p] < p
  /\ bucket \subseteq Intervals \X LargePrimes \X Bits
  /\ segment \in [Intervals -> SUBSET Bits]
  /\ current_segment \in 0 .. TotalSegments /\ k \in Intervals
  /\ last_prime \in [Intervals -> Nat]

Scanning == pc = "scan" /\ current_segment > 0

\* No prime is lost by the sieve: every prime of the segment being scanned is
\* among the candidates of its interval, whatever positions small primes and
\* buckets carry over from earlier segments and earlier batches.  A lost prime
\* would make the miner see a gap that is not there and miss the two that are.
NoPrimeLost ==
  Scanning =>
    \A i \in active : \A b \in Bits :
      Start(hash[i]) + Offset(current_segment - 1, b) \in Primes
        => Offset(current_segment - 1, b) \in Candidates(i)

\* No multiple of a small prime is left: the positions carried from segment to
\* segment never skip one (sieve_small_primes_combined()).
NoSmallMultiple ==
  Scanning =>
    \A i \in active : \A p \in SmallPrimes : \A b \in Bits :
      (Start(hash[i]) + Offset(current_segment - 1, b)) % p = 0 => b \in segment[i]

\* What the miner reports, the network accepts: every proof given to process()
\* passes CheckProofOfWork(), although the sieve, rounded up to whole segments,
\* reaches beyond the adders a block may have.
ReportedAccepted ==
  \A r \in reported : CheckProofOfWork(r[1], r[2], Target)

\* What the network would accept, the miner reports: of the adders of a batch
\* that was searched to its end, those CheckProofOfWork() accepts and process()
\* never saw start a gap that ends beyond the sieve, or one exactly two short
\* of the rounded target_size(), which only the random part of the difficulty
\* lifts over the target.
OnlyNearMisses ==
  pc = "done" =>
    \A i \in active : \A add \in 0 .. 2 * TotalSize :
      LET p    == Start(hash[i]) + add
          size == TargetSize(Start(hash[i]))
      IN  CheckProofOfWork(hash[i], add, Target) /\ <<hash[i], add>> \notin reported
            => \/ NextPrime(p) > Start(hash[i]) + 2 * TotalSize
               \/ NextPrime(p) - p = (IF Odd(size) THEN size - 1 ELSE size - 2)
=============================================================================

----------------------------- MODULE HeaderChain -----------------------------
(***************************************************************************)
(* Headers extending a chain: the required difficulty                      *)
(* (GetNextWorkRequired and CalculateNextWorkRequired in src/pow.cpp), the *)
(* header rules (ContextualCheckBlockHeader in src/validation.cpp,         *)
(* CBlockIndex::GetMedianTimePast in src/chain.h) and the time a miner     *)
(* puts into its template (UpdateTime in src/node/miner.cpp).              *)
(*                                                                         *)
(* Merit is fixed point with unit 2^48 in uint64_t arithmetic; both are    *)
(* constants here, and ln(t) * 2^48 is the constant function Log.          *)
(***************************************************************************)
EXTENDS Integers, Sequences, FiniteSets

CONSTANTS
  nPowTargetSpacing, nDifficultyWindow, nDifficultyMin,
  fPowNoRetargeting,
  Unit,              \* TWO_POW48
  Word,              \* 2^64
  Log,               \* Log[t] = round(ln(t) * Unit)
  LogTarget,         \* LOG_TARGET_SPACING_48
  MAX_FUTURE_BLOCK_TIME, MaxBack, nMedianTimeSpan,
  GenesisDifficulty,
  TimeSteps,         \* bound: a block's time relative to its parent's
  ClockSteps,        \* bound: how far the clock moves at a time
  MaxTime, MaxLen    \* bounds: the clock and the length of the chain

MaxSpan == 12 * nPowTargetSpacing

ASSUME ParamsAssumption ==
  /\ nPowTargetSpacing \in Nat \ {0} /\ nDifficultyWindow \in Nat \ {0}
  /\ nDifficultyMin \in Nat /\ GenesisDifficulty \in Nat
  /\ nDifficultyMin <= GenesisDifficulty
  /\ fPowNoRetargeting \in BOOLEAN
  /\ Unit \in Nat \ {0} /\ Word \in Nat /\ Unit < Word

\* ln is increasing.  The hard-coded ln(150) is 1410368452711334, that is the
\* exact 1410368452711334.56... cut off; Log rounds it up.
ASSUME LogAssumption ==
  /\ Log \in [1 .. MaxSpan -> Nat]
  /\ \A s, t \in 1 .. MaxSpan : s <= t => Log[s] <= Log[t]
  /\ LogTarget \in Nat /\ LogTarget \div 256 <= Unit
  /\ Log[nPowTargetSpacing] \in {LogTarget, LogTarget + 1}

ASSUME TimeAssumption ==
  /\ MAX_FUTURE_BLOCK_TIME \in Nat /\ MaxBack \in Nat
  /\ nMedianTimeSpan \in Nat \ {0}
  /\ TimeSteps \subseteq Int /\ ClockSteps \subseteq Nat
  /\ MaxTime \in Nat /\ MaxLen \in Nat

VARIABLES
  chain,                     \* headers from genesis on: time, difficulty
  now,                       \* the node's clock
  pc,                        \* where the computation of the next difficulty is
  pindex, i, weighted_sum, weight_total,    \* the locals of its loop
  next                       \* the difficulty required of the next block

loop == <<pindex, i, weighted_sum, weight_total>>
vars == <<chain, now, pc, loop, next>>

Tip == chain[Len(chain)]

Init ==
  /\ chain = << [time |-> 0, difficulty |-> GenesisDifficulty] >>
  /\ now = 0 /\ pc = "idle"
  /\ pindex = 1 /\ i = 0 /\ weighted_sum = 0 /\ weight_total = 0
  /\ next = GenesisDifficulty

-----------------------------------------------------------------------------
(* GetNextWorkRequired(pindexLast), pindexLast the tip *)

\* Mutant: only large timespans are clamped.
ClampAbove(t) == IF t > MaxSpan THEN MaxSpan ELSE t

Clamp(t) == IF t < 1 THEN 1 ELSE IF t > MaxSpan THEN MaxSpan ELSE t

\* Timespan of the block at index k.
Timespan(k) == Clamp(chain[k].time - chain[k - 1].time)

\* No retargeting on the genesis block and on regtest.
KeepDifficulty ==
  /\ pc = "idle" /\ (Len(chain) = 1 \/ fPowNoRetargeting)
  /\ pc' = "ready" /\ next' = Tip.difficulty
  /\ UNCHANGED <<chain, now, loop>>

BeginRetarget ==
  /\ pc = "idle" /\ Len(chain) > 1 /\ ~fPowNoRetargeting
  /\ pc' = "weigh"
  /\ pindex' = Len(chain) /\ i' = 0
  /\ weighted_sum' = 0 /\ weight_total' = 0
  /\ UNCHANGED <<chain, now, next>>

More == i < nDifficultyWindow /\ pindex > 1

\* One round of the loop: the newer the block the larger its weight.
WeighBlock ==
  /\ pc = "weigh" /\ More
  /\ LET weight == nDifficultyWindow - i IN
       /\ weighted_sum' = weighted_sum + weight * Timespan(pindex)
       /\ weight_total' = weight_total + weight
  /\ pindex' = pindex - 1 /\ i' = i + 1
  /\ UNCHANGED <<chain, now, pc, next>>

\* uint64_t arithmetic
Add(a, b) == (a + b) % Word
Sub(a, b) == (a - b) % Word

\* Mutant: the bound on a decrease is not applied.
ClampChangeUp(d, n) == IF n > Add(d, Unit) THEN Add(d, Unit) ELSE n

\* The change per block is at most 1.0 merit.
ClampChange(d, n) ==
  IF n > Add(d, Unit) THEN Add(d, Unit)
  ELSE IF n < Sub(d, Unit) /\ d >= Unit THEN Sub(d, Unit) ELSE n

\* Mutant: the sign of the adjustment is mixed up.
AdjustSwapped(d, actual) ==
  IF LogTarget >= actual
    THEN IF d >= (LogTarget - actual) \div 256
           THEN Sub(d, (LogTarget - actual) \div 256) ELSE nDifficultyMin
    ELSE Add(d, (actual - LogTarget) \div 64)

\* Damped adjustment: 1/256 up, 1/64 down.
Adjust(d, actual) ==
  IF LogTarget >= actual
    THEN Add(d, (LogTarget - actual) \div 256)
    ELSE IF d >= (actual - LogTarget) \div 64
           THEN Sub(d, (actual - LogTarget) \div 64) ELSE nDifficultyMin

CalculateNextWorkRequired(d, timespan) ==
  LET n == ClampChange(d, Adjust(d, Log[Clamp(timespan)]))
  IN  IF n < nDifficultyMin THEN nDifficultyMin ELSE n

\* The weighted average of the timespans, and the difficulty it requires.
FinishRetarget ==
  /\ pc = "weigh" /\ ~More
  /\ LET average == IF weight_total > 0 THEN weighted_sum \div weight_total
                                        ELSE nPowTargetSpacing
     IN  next' = CalculateNextWorkRequired(Tip.difficulty, average)
  /\ pc' = "ready"
  /\ UNCHANGED <<chain, now, loop>>

-----------------------------------------------------------------------------
(* Header rules, and the miner's choice of time *)

\* Indices of the last n headers of c.
LastOf(c, n) == {k \in 1 .. Len(c) : k > Len(c) - n}

\* GetMedianTimePast(): the element at place m \div 2 of the m last times in
\* order.
MedianTimePast(c) ==
  LET w == LastOf(c, nMedianTimeSpan)
      below(t) == Cardinality({k \in w : c[k].time < t})
      upto(t)  == Cardinality({k \in w : c[k].time <= t})
  IN  CHOOSE t \in {c[k].time : k \in w} :
        below(t) <= Cardinality(w) \div 2 /\ Cardinality(w) \div 2 < upto(t)

\* Mutant: the rule against the parent's time is forgotten, and with it that
\* against the median.
TimeAllowedFuture(t) == t <= now + MAX_FUTURE_BLOCK_TIME

\* Time rules of ContextualCheckBlockHeader().
TimeAllowed(t) ==
  /\ t > MedianTimePast(chain)
  /\ t <= now + MAX_FUTURE_BLOCK_TIME
  /\ t >= Tip.time - MaxBack

\* A header with the required difficulty and an allowed time is accepted.
AcceptHeader ==
  /\ pc = "ready" /\ Len(chain) < MaxLen
  /\ \E s \in TimeSteps :
       /\ TimeAllowed(Tip.time + s)
       /\ chain' = Append(chain, [time |-> Tip.time + s, difficulty |-> next])
  /\ pc' = "idle"
  /\ UNCHANGED <<now, loop, next>>

Tick ==
  /\ pc = "ready"
  /\ \E s \in ClockSteps : now + s <= MaxTime /\ now' = now + s
  /\ UNCHANGED <<chain, pc, loop, next>>

\* Mutant: the template carries the clock's time as it is.
UpdateTimeClock == now

\* UpdateTime(): the time of a template made now.
UpdateTime ==
  IF MedianTimePast(chain) + 1 > now THEN MedianTimePast(chain) + 1 ELSE now

Next ==
  \/ KeepDifficulty \/ BeginRetarget \/ WeighBlock \/ FinishRetarget
  \/ AcceptHeader \/ Tick

Spec == Init /\ [][Next]_vars

-----------------------------------------------------------------------------
Header == [time : Int, difficulty : Nat]

TypeOK ==
  /\ chain \in Seq(Header) /\ Len(chain) >= 1
  /\ now \in Nat
  /\ pc \in {"idle", "weigh", "ready"}
  /\ pindex \in 1 .. Len(chain) /\ i \in 0 .. nDifficultyWindow
  /\ weighted_sum \in Nat /\ weight_total \in Nat
  /\ next \in Nat

\* Along the chain the difficulty never falls below the minimum and never
\* changes by more than one unit of merit from a block to the next.
DifficultyBounds ==
  \A k \in 2 .. Len(chain) :
    LET d == chain[k - 1].difficulty  e == chain[k].difficulty
    IN  nDifficultyMin <= e /\ e <= d + Unit /\ d <= e + Unit

\* The average GetNextWorkRequired() divides out lies between one second and
\* twelve times the target, whatever the timestamps (some run backwards), and
\* the sums stay far from int64_t's limits.
AverageInRange ==
  /\ weight_total <= weighted_sum /\ weighted_sum <= MaxSpan * weight_total
  /\ weight_total <= nDifficultyWindow * i

\* Blocks of the window of the retarget that follows the tip.
WindowBlocks == {k \in 2 .. Len(chain) : k > Len(chain) - nDifficultyWindow}

\* The difficulty answers the right way: when no block of the window was
\* faster than the target it does not rise, when none was slower it does not
\* fall; so blocks on target leave it alone.
Response ==
  pc = "ready" /\ WindowBlocks # {} =>
    /\ (\A k \in WindowBlocks : Timespan(k) >= nPowTargetSpacing)
         => next <= Tip.difficulty
    /\ (\A k \in WindowBlocks : Timespan(k) <= nPowTargetSpacing)
         => next >= Tip.difficulty

\* Each header's time lies above the median of its predecessors, so the median
\* never goes back although single times do.
MedianMonotone ==
  [][MedianTimePast(chain') >= MedianTimePast(chain)]_vars

\* The time UpdateTime() puts into a template passes the time rules of
\* ContextualCheckBlockHeader(), save that it can be one second too far in the
\* future, when the median already is at the limit: waiting a second is enough
\* and a miner is never unable to extend the tip.
TemplateTimeAllowed ==
  pc = "ready" =>
    /\ UpdateTime > MedianTimePast(chain) /\ UpdateTime >= Tip.time - MaxBack
    /\ UpdateTime <= now + MAX_FUTURE_BLOCK_TIME + 1
=============================================================================

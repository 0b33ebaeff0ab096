# TLA+ models of Freycoin's mining, difficulty and chain code

Freycoin is a Bitcoin Core derivative whose proof of work is a large gap between
consecutive primes. This directory holds TLA+ specifications of the parts that
are Freycoin's own and concurrent or arithmetically delicate: the parallel mining
engine, its three users (the GUI's mining tab, the background miner, the generate
calls), the sieve and the verification of proofs, the difficulty and timestamp
rules that connect one header to the next; and of two inherited parts everything
rests on, the block index with its flushes and restarts, and the script check
queue. TLC checks them on small instances; TLAPS proves the most important
invariants for every value of the constants.

Paths below are relative to the repository's `src/`.

## 1. Inventory

| part | state | operations | what is hard about it |
|---|---|---|---|
| `MiningEngine` (`pow/mining_engine.{h,cpp}`) | stop flag, worker threads, one GPU thread, GPU request queue, counters | `mine_parallel`, `parallel_worker`, `gpu_worker_func`, `request_stop`, `stop`, `get_stats` | n workers, a GPU thread, the caller and a stopping thread interleave; waits time out; requests outlive the wait and the session |
| proof processors (`qt/miningpage.cpp`, `init.cpp`, `rpc/mining.cpp`) | found flag, nonce, adder | `process` | called by every worker without a lock |
| `MiningPage` (`qt/miningpage.cpp`) | `m_isMining`, `m_stopRequested`, `m_engine`, the mining thread, queued calls, counters | `startMining`, `stopMining`, `miningThreadFunc`, destructor, `updateStats` | two threads share an unsynchronised `unique_ptr`; a stop can arrive at any line; joins on the GUI thread |
| background miner (`init.cpp`) | template, engine | `MiningThread`, `Interrupt`, `Shutdown` | the engine is not told about a new tip or about shutdown |
| generate calls (`rpc/mining.cpp`) | template, engine, blocks to go | `generateBlocks`, `GenerateBlock` | compete with the background miner and with blocks from the network for the tip |
| difficulty (`pow.cpp`) | a chain of headers | `GetNextWorkRequired`, `CalculateNextWorkRequired` | `uint64_t` differences, clamps in a particular order, logarithms in fixed point, short chains |
| header times (`validation.cpp`, `chain.h`, `node/miner.cpp`) | clock, the last 11 times | `ContextualCheckBlockHeader`, `GetMedianTimePast`, `UpdateTime` | times run backwards; three limits chosen independently |
| sieve (`pow/combined_sieve.cpp`) | bit arrays, positions per prime, buckets | `init_interval`, `reset_segments`, `sieve_next_segment`, `get_candidates` | positions carried from one segment to the next, state left from the batch before |
| proof-of-work verification (`pow.cpp`, `pow/pow.cpp`, `pow/pow_utils.cpp`) | none | `CheckProofOfWork`, `PoW::valid`, merit, difficulty, target size | miner and consensus have separate code that has to agree |
| block index and active chain (`chain.{h,cpp}`, `node/blockstorage.cpp`, `validation.cpp`) | headers with skip pointers, best header, active chain, dirty set, two databases | `AddToBlockIndex`, `ConnectTip`, `DisconnectTip`, `FlushStateToDisk`, `LoadBlockIndex`, `LoadChainTip`, `GetAncestor`, `FindFork`, `LastCommonAncestor`, locators, `FindEarliestAtLeast` | two databases are written one after the other, also in the middle of a tip change; a crash can come anywhere; shortcuts through skip pointers |
| script check queue (`checkqueue.h`) | queue, counters, result, two condition variables | `Loop`, `Add`, `Complete`, destructor | one critical section per batch, notifications outside the lock, an error stops the rest |
| `MiningPipeline`, `SegmentedSieve` (`pow/mining_engine.cpp`) | sieve workers, GPU worker, gap state | `start_mining`, `stop_mining`, `wait_for_completion` | reached only through `run_sieve`, which nothing calls |
| primality tests (`pow/pow_utils.cpp`, `pow/mining_engine.cpp`) | none | Fermat, Miller-Rabin, Lucas, BPSW | rare composites |
| GPU drivers (`gpu/`) | device handles, buffers | `gpu_fermat_init`, `gpu_fermat_batch`, `gpu_fermat_cleanup` | device failures |
| subsidy (`validation.cpp`) | none | `GetBlockSubsidy` | shifts |
| the rest of validation and storage, mempool, network, scheduler, wallet, script | as in Bitcoin Core | as in Bitcoin Core | inherited, largely unchanged |

`PROJECT.json` lists every part with its status and, line by line, the hazards
this code is exposed to together with the properties that address them.

### How the parts interact

```
 GUI thread --start/stop/destroy--> mining thread --+
 init/Shutdown --join--> MiningThread --------------+--> MiningEngine.mine_parallel
 RPC worker --> GenerateBlock ----------------------+      |-- n sieve workers --+
                                                           |                     | requests
                                                           +-- GPU thread <------+
                 each worker: sieve -> candidates -> gaps -> PoW::valid
                 workers --process(proof)--> the caller's processor
                 the caller --ProcessNewBlock--> CheckProofOfWork, difficulty, times
                        --> block index --ConnectTip--> script check queue, coins
                        --FlushStateToDisk--> disk --restart--> block index
```

## 2. Modules

| module | models | role |
|---|---|---|
| `MiningSession` | what `mine_parallel()` promises its users | abstract specification |
| `MiningEngine` | `mine_parallel`, `parallel_worker`, `gpu_worker_func`, `request_stop`, `stop` on an idle engine, `process` | implements `MiningSession` |
| `MiningPage` | `qt/miningpage.cpp` | composes GUI thread, mining thread and a `MiningSession` |
| `NodeMiner` | `MiningThread`, generate calls, `Shutdown` | composes two `MiningSession`s with a chain tip |
| `HeaderChain` | difficulty, header time rules, template time | state machine over headers |
| `GapSearch` | `CombinedSegmentedSieve`, the scan of `parallel_worker`, `PoW::valid`, `CheckProofOfWork` | one worker's search on real integers |
| `BlockIndex` | `CBlockIndex`, `CChain`, `AddToBlockIndex`, tip changes, flushes, crashes, loading | state machine over a tree of headers and two databases |
| `CheckQueue` | `checkqueue.h` as `ConnectBlock` uses it | workers, master and destructor |
| `MC*` | | constants for TLC |
| `MiningEngineTypes`, `MiningEngineProofs`, `MiningPageProofs`, `NodeMinerProofs`, `HeaderChainProofs`, `GapSearchProofs`, `BlockIndexProofs`, `CheckQueueProofs` | | theorems and proofs |

Definitions keep the names of the source where TLA+ allows it. `PROJECT.json`
("map") names the lines every definition stands for. Definitions called *Mutant*
in a comment are deliberately wrong variants of the definition that follows them.
They are not part of any specification; substituting one must make a run fail,
which shows that the property really depends on that line of the code.

### MiningEngine

A state is the program counter of every thread (`mp` caller, `wpc[w]` workers,
`gpc` GPU thread, `stopper` the thread in `request_stop`) and the variables they
share. One action is one stretch of code without a visible intermediate state:

- `MineParallel`, `LaunchWorkers`, `JoinWorkers`, `StopGpu`, `Return`: the body of
  `mine_parallel`. `MineParallel` does not empty `gpu_request_queue`, as the code
  does not, so requests of an earlier session are served by the next.
- `BeginBatch` ... `EndBatch`: the nested loops over batches, segments, intervals
  and candidates, with a test of `stop_requested` wherever the code has one.
- `Submit`, `AwaitDone`, `AwaitGiveUp`: the hand-off to the GPU. A `GPURequest` is
  one of the model values `Requests`; `Submit` takes any that no `shared_ptr`
  refers to, so memory reuse is part of the model. `AwaitGiveUp` is the ten-second
  timeout or a stop.
- `ProcessNonce`, `ProcessAdd`, `ProcessFound`: the processor's stores, one by one,
  because no lock protects them.
- `GpuCheck`/`GpuBlock`: the wait on the condition variable, split where the
  predicate has been evaluated and the thread does not block yet. `request_stop`
  does not take the mutex and can fall into that window.

Abstracted data: a nonce stands for its hash; the constants `Cands`, `Primes`,
`MinGap` and `Valid` stand for the answers of sieve, BPSW, `target_size` and
`PoW::valid` (`GapSearch` models those). The AVX-512 and the scalar path differ only in a pre-filter and share
the action `TakeCpuPath`.

### MiningPage, NodeMiner

The engine appears as the abstract `MiningSession`, which `MiningEngine` is shown to
implement; this keeps the compositions small enough to check completely. Undefined
behaviour of the GUI thread (a call through a destroyed engine, two threads joining
one `std::thread`) leads to a state of its own. In `NodeMiner` the chain is its
height: a block on the tip advances it, a block on an older parent is accepted and
does not. `ProcessNewBlock`, `CreateNewBlock` and the network may succeed or fail
at any time.

### HeaderChain

`GetNextWorkRequired` is a loop of steps (`BeginRetarget`, `WeighBlock`,
`FinishRetarget`), so its running sums can be spoken about. Arithmetic is modulo
`Word` (2^64 in the code). The fixed-point unit and the logarithm are constants;
`LogAssumption` states all that is used of the logarithm: it is monotone, and the
hard-coded value for the target may be one below the rounded one. It is: ln(150) *
2^48 is 1410368452711334.56..., the constant in `pow.cpp:39` is the truncated
value while the MPFR path rounds to nearest. The difference disappears in the
damping, which `Response` confirms.

### GapSearch

One worker without threads, GPU and stop requests, on integers. `NewBatch` is phase 1
of the loop (`reset_segments`, then `init_interval` or `deactivate_interval` for every
hash), `SieveNextSegment` is the whole of `sieve_next_segment`, `Scan` and
`ScanUntilAccepted` are phase 3 for one interval, with a processor that asks to go on
or to stop. `starts`, `bucket` and `segment` keep what an inactive interval had before,
as in the code. `Merit`, `Difficulty` and `Fit` stand for the two copies of each in
`pow.cpp` and `pow/pow_utils.cpp`; `Valid` and `CheckProofOfWork` are the two
verifiers, each with its own guards. Abstracted: a nonce is its hash, `Ln` and `Rand`
are constants, and `Primes` is what passes BPSW. Three things the code does and its
comments do not say are part of the model:

- `tables_initialized` in `simd_presieve.cpp` is never set to true, so every segment
  starts out empty;
- primes above the segment size are not sieved in segment 0, and those whose first
  multiple lies there or beyond segment 1 are dropped (`combined_sieve.cpp:321` says
  "Already processed in segment 0"). Candidates then contain more composites, which
  costs tests and no proof;
- the sieve, rounded up to whole segments, goes beyond the adders a block may have;
  `PoW::valid` rejects what is found there (`ReportedAccepted`).

### BlockIndex

A block is a number that stands for its hash; the tree is a constant, and headers
arrive in any order in which parents come first. `index` is `m_block_index` with
`nHeight`, `pskip`, `nTimeMax` and `nChainWork`; `vChain` the active chain. `disk` is
the block tree database, `coins_tip` the best block of the coins database,
`coins_best` that of the coins in memory. `ConnectTip` and `DisconnectTip` first move
the coins (`pc = "view"`), may flush, and then call `SetTip` (`UpdateChain`). A flush
is two writes (`WriteBlockIndexDB`, `FlushCoins`), and `Crash` may come before,
between or after them; `LoadBlocks` and `LoadChainTip` are the restart. A header or
tip change that the code would make under `cs_main` is one action. The queries
(`GetAncestor`, `FindFork`, `LastCommonAncestor`, `LocatorEntries`,
`FindForkInGlobalIndex`, `FindEarliestAtLeast`) are operators over the state with the
loops of the code; the properties compare them with the path from genesis.

### CheckQueue

One critical section of `Loop` is one action: the clean-up of the previous batch, then
waiting, returning, leaving or taking the next batch. Condition variables have no
memory, notifications outside the lock are steps of their own, and spurious wake-ups
happen. A check is its result, `None` or the number of the block it fails for, so a
result that leaks into the next block would be seen.

## 3. Runs

| run | result | what it shows |
|---|---|---|
| `engine_two_workers` | pass | `RequestOwnership`, `Quiescent`, `ProofKept`, `NonceDisjoint`, `Exhaustive` with two workers, batches of two of four nonces that wrap, three segments, a GPU that may fail, and any number of sessions (1,588,768 states) |
| `engine_live` | pass | `RefinesSession` and `StopReturns` under fairness (76,966 states) |
| `page` | pass | `HandOver`, `ExitAccounted`, `AtMostOneLateBlock`, `FailureShown`, `StopEndsThread` over all interleavings of the tab (8,455 states) |
| `node_miners` | pass | `StoppedBeforeReset`, `NewParent`, `GenerateExact`, `ShutdownIfProofs` (148,610 states) |
| `headers` | pass | `DifficultyBounds`, `AverageInRange`, `Response`, `MedianMonotone`, `TemplateTimeAllowed` on chains of up to six headers (172,097 states) |
| `gap_search` | pass | `NoPrimeLost`, `NoSmallMultiple`, `ReportedAccepted`, `OnlyNearMisses` for all pairs of twenty hashes (174,712 states) |
| `block_index` | pass | `AncestorExact`, `ForkExact`, `LocatorFindsFork`, `EarliestExact`, `ChainConsistent`, `BestHeaderMost`, `BestHeaderKept`, `IndexSaved`, `RestartLoads` (41,323 states) |
| `check_queue` | pass | `TypeOK`, `Counters`, `AnswerExact`, `NoCheckOutlives`, `CompleteReturns`, `DestructorReturns` (79,882 states) |
| `torn_proof` | violation | two workers in `process()` leave the nonce of one proof and the adder of another |
| `gpu_timeout` | violation | after a GPU timeout candidates stay untested, although the comment announces the CPU path |
| `lost_stop` | violation | a stop between the loop's test and the start of `mine_parallel()` is forgotten |
| `double_join` | violation | the destructor's `stop()` and `mine_parallel()` join the same threads |

A violation run states what a comment of the code says and shows a behaviour of the
code that contradicts it; "findings" in `PROJECT.json` quotes the comment. In
`torn_proof` the caller's `CheckProofOfWork()` rejects the mixture, so what is lost
is work, not correctness of the chain.

The disagreements without a run of their own:

- `pow.cpp:319-320` says the newest block gets "weight = window_used"; the code
  uses `window - i` also when fewer blocks exist. The theorems hold for the code's
  weights.
- `rpc/mining.cpp:339` documents `maxtries`; `GenerateBlock` never uses it.
- `stopMining()` can call through an engine that the mining thread has just
  destroyed, and so can the queued hardware message; both are steps of
  `MiningPage` that end in `gui = "dangling"`.
- `updateStats()` (`qt/miningpage.cpp:738-742`) carries the counters over when it
  sees "engine stats reset"; `mine_parallel()` resets all of them but `par_nonces`
  (`pow/mining_engine.cpp:1153-1155`), so nonces are counted again with every
  template. It also shares `m_lastStats` with the mining thread without a lock. The
  numbers are display only and are not modelled.
- `init.cpp:1391-1393` says the background miner makes a new template "when the tip
  changes"; nothing tells its engine about a new tip, and it goes on with the old
  parent until it finds a proof there. `NodeMiner` has this behaviour: no step of it
  ends a session because `height` moved.
- `combined_sieve.cpp:321`, quoted above.
- The miner skips a gap exactly two short of the rounded target size although the
  random part of the difficulty may lift it over the target; consensus would accept
  it. `OnlyNearMisses` and the theorem `NearMiss` show that nothing else is skipped
  inside the sieve.
- `chain.h:498` says `FindEarliestAtLeast` finds the earliest block "with timestamp
  equal or greater"; it compares `nTimeMax`, and the block it returns may itself be
  older. `EarliestExact` states what does hold.

### Bounds, and why they are enough

- `MiningEngine`: two workers are the least that can collide in `process()` or on
  requests; three requests allow both workers to wait while an abandoned one is
  still queued (`MaxAbandoned = 1`); four nonces make each worker wrap; three
  segments make gaps across a border and across an empty segment, with proofs for both
  workers and a bad hash. A gap inside a segment is in the world of `engine_live`, one
  that `PoW::valid` rejects in that of `torn_proof`; in the model a rejected gap is
  passed over by the same step as one that is too short. Requests are interchangeable, so symmetry is used where
  only invariants are checked.
- `MiningPage`: one proof (the page only asks whether there is one), three counted
  blocks, two queued stops; clicks are unbounded.
- `NodeMiner`: heights up to four, calls for zero to two blocks.
- `GapSearch`: segments of 13 bits, three of them, for adders below 64: 3 to 13 are
  small primes, 17 to 41 go through the buckets, and the sieve reaches up to 78. All
  pairs of twenty hashes are tried one batch after the other, so state left from a
  batch meets every other. Among them are one too small, gaps two short of the
  target, proofs with adders a block may not have, proofs across segment borders and
  one that ends beyond the sieve.
- `BlockIndex`: 23 blocks. Locators take single steps for ten blocks and skip pointers
  differ from parents from height 2 on, so the chain has to be longer than that; genesis,
  15 blocks and a stale one are on disk at first and the other six, on three branches
  with a tie and a shorter branch with more work, arrive in any order. `MinTip` keeps
  the tip at height 11 or above, where the branches are. `MaxShift` is 12 instead of
  250 because of TLC's integers, and merits are whole numbers.
- `CheckQueue`: two workers and the master, two blocks, four checks with a batch size
  of two: shares of one and of two, threads without work, and results that could
  leak from the first block into the second.
- `HeaderChain`: a window of three on up to six headers covers chains shorter and
  longer than the window. Times step by -2, -1, 1, 4 (the target) and 50 (more than
  twelve targets), and `Unit` is smaller than the largest decrease, so every clamp
  is reached. In the real parameters the one-merit clamp is never active: the
  largest damped change is far below 2^48. TLC's integers have 32 bits, so the
  logarithm is scaled by 2^16.

`CHECK_DEADLOCK FALSE` is set where the program may come to rest: a closed tab, a
finished shutdown, the bounds on chain length and clock, a worker that found its
proof, a destroyed queue.

### Fairness

- Engine: weak fairness for every thread's next step (the operating system
  schedules it); strong fairness for the steps that take `gpu_queue_mutex`, because
  the GPU thread releases it again and again and a blocked thread gets it in the
  end. No fairness for `mine_parallel`, `request_stop`, or spurious wake-ups.
  Weak fairness of a waiting worker includes that its timeout expires.
- Page: the event loop runs queued calls and finishes the one it is in, the mining
  thread keeps running. The user need not act; a proof need never be found.
- Node: each thread keeps running. Whether a proof is found is the hypothesis of
  `ShutdownIfProofs` and not an assumption of the specification: without it
  `Shutdown()` waits for as long as the search takes.
- Check queue: every thread in `Loop` keeps running, a free mutex is obtained, checks
  end, and a notification that is due is made. Nothing is assumed of `ConnectBlock`,
  which need not come to `Complete`, nor of spurious wake-ups.

## 4. Proofs

All constants are arbitrary within the named assumptions of the modules. Every
invariant and action property of the runs that pass is a theorem; what is left to TLC
is liveness. The type invariants are proved too (`TypeCorrect`, `SieveTypes`,
`IndexTypes`, `HeaderTypes`, `QueueTypes`, and as conjuncts of `PageInv` and `NodeInv`);
only that of `CheckQueue`, which also bounds its counters, is repeated in a run.

**MiningEngineTypes.** `TypeCorrect`: `Spec => []TypeOK`. `TypeOK` is not inductive:
`Candidates(w)` is applied to `k[w]` and `seg[w]`, which are in range only at certain
places. `TypeInv` adds `LocalInv` (a worker at a candidate is inside its batch and
segment and a worker outside the GPU path holds no request), `GpuInv` (the GPU
thread holds a request exactly while it works on it) and `PhaseInv` (workers and
the GPU thread exist only in the right phases of the caller).

`NoncesDisjoint`: if the number of threads divides the size of the nonce space, workers
never sieve the same nonce. The invariant (`NonceInv`) is that worker w's base is
congruent to `StartNonce + w` modulo the number of threads; the stride and, by the
hypothesis, the wrap preserve it. With a number of threads that is not a power of two
the hypothesis fails for 2^32, and the property is then not claimed past a wrap.

**MiningEngineProofs.** The inductive invariant is `TypeInv /\ RequestInv /\ ProofInv /\
StopInv`:

- `RequestInv`: the queue has no duplicates, a request at the GPU is in no queue,
  no two workers hold the same, and a request in `done` is neither queued nor at
  the GPU. Without the last part the late answer to an abandoned request could
  reach its next owner.
- `ProofInv`: follows one reported proof through `process()`; as long as it is the
  only one, what has been stored agrees with it.
- `StopInv`: workers end, and the GPU thread is stopped, only with `stop_requested`
  set, and that only after a call of `request_stop` or a reported proof.

They give `RequestsOwned`, `NothingLeftRunning`, `ProofIsKept`, and, step by step,
`ImplementsSession`: every behaviour of the engine is one of `MiningSession!Spec`.

`SearchIsExhaustive` needs `SearchInv` besides: as long as no stop was requested, the
candidates a worker has left are a tail of those it was given (`TodoOf`), and for every
nonce of its batch `last_prime_offset` is the greatest prime tested so far while no two
neighbouring ones are a proof (`Searched`). The set of tested primes grows by at most
one number per step, which is greater than all before it by `SieveAssumption`: the
candidates of a nonce increase within a segment and from one segment to the next, as
`get_candidates` (`combined_sieve.cpp:343-358`) collects them. Nonces whose candidates
were dropped with a GPU answer are excepted, as in the run (`gpu_timeout` is about them).

**HeaderChainProofs.** `DifficultyIsBounded`, `AverageIsInRange`, `DifficultyResponds`,
each for every window, target, unit and sequence of header times, under
`[]NoOverflow` (difficulties stay one unit below 2^64, a merit of about 65,535). The
invariant keeps the loop's sums in range (`AverageInRange`), says how many blocks they
hold (`LoopInv`), records for both
sides of the target what a window of fast or slow blocks means for the sum
(`SideInv`), and what a finished computation promises (`NextInv`). `HeaderTypes` needs
no bound.

`MedianIsMonotone` counts: the median is a time of the window with half of the window at
or below it (`Rank`). An accepted header is later than the old median, so if the new
median were earlier than the old, all headers at or below it would come before the old
median in the old window, and there are too few of those.
`TemplatePasses` adds that no header was too far ahead of the clock when it was accepted
(`NotTooNew`), and has the hypothesis that a block may lie as far back as blocks may lie
ahead. It holds on the main and test networks. On regtest headers may be 7200 seconds
ahead, and nothing is claimed there.

**GapSearchProofs.** `SieveTypes`, `SmallPrimesComplete`, `PrimesSurvive`,
`ReportsAccepted`, for every segment size, prime table, number of segments, shift and
set of hashes, and `NearMiss` about the rounding of the target. The inductive invariant
`SieveInv` says of the state between segments that the position of a small prime is
its first odd multiple in the next segment (`PositionsHit`), that what the buckets
hold and what was struck out are multiples of some sieve prime (`OnlyMultiples`), and
that no small multiple is left. `PositionsHit` gives completeness, `OnlyMultiples` that
no prime is struck out, since sieve primes are smaller than every number sieved
(`PrimeAssumption`). `ReportsAccepted` rests on the agreement of the two verifiers.
`NearMiss` needs that the logarithm is positive and does not decrease from the start
of the interval to the prime, and that the random part is below one gap of two.

`SearchMissesLittle` puts sieve and scan together. `SearchInv` says that
`last_prime_offset` is the last prime of the segments scanned so far, and that every
long enough gap between neighbours among them that `PoW::valid` lets pass was reported.
With `NoPrimeLost` and `NearMiss` a gap consensus would accept is then reported, two
short of the size looked for, or ends beyond the sieve. Of the logarithm, the random
part and the primes only `SearchAssumption` is used: logarithms are positive and grow
over the sieved interval, the random part is a number, and there is a prime beyond it.

**BlockIndexProofs.** `IndexTypes`, `MostWork`, `NothingForgotten`, `RestartSucceeds`,
`FirstSeen`, for every tree, data directory and sequence of
crashes. `IndexInv` adds that heights count the blocks back to genesis, on disk
(`DiskInv`) and in memory (`KnownInv`), that a node that loads has exactly the stored
blocks below `load_height` (`LoadInv`), and that the coins' best block is known and
nothing is dirty between the two writes (`CoinsInv`). `RestartSucceeds` has two
parts: the coins' best block is on disk (`TipOnDisk`, a conjunct of `IndexInv`), and
the stored heights have no gap, which is shown by taking the least counterexample.

`ChainIsPath`, `AncestorsExact`, `EarliestFound`, `ForksExact` and `LocatorsExact` say
that the active chain and the queries agree with the path of hashes from genesis, for
chains of any length. They rest on `PathInv`, inductive together with `IndexInv`: a
skip pointer is the ancestor at `GetSkipHeight` (`SkipInv`), `nTimeMax` is the larger of
a block's time and its parent's `nTimeMax` (`TimeInv`), and the active chain is the path
to its tip, empty during a load (`ChainInv`). Each query is a recursive function, and
each is handled the same way: a function that satisfies the recursion is exhibited, so
the `CHOOSE` behind the definition has a value, and every function that satisfies it is
shown to be right by looking at the least height, range or loop state where it would not
be. This needs no induction principle with an operator parameter, only that a
set of natural numbers has a least element. The one assumption on blocks is that a
parent has a smaller number (`HashPrev[b] < b`): a header contains the hash of its
parent, so headers can be numbered in that way and the tree has no cycle. It is not an
assumption on the order of arrival.

**CheckQueueProofs.** `QueueTypes`, `CountersExact`, `Answers`, `NoCheckLeft`, for every
finite set of workers, batch size, number of blocks and of checks. `QueueInv` says where
the master is and that nothing is left to do between two blocks (`MasterInv`), that a
thread has a batch exactly while it works on it and skips one only after an error is
known (`BatchInv`), that every error around belongs to the block being connected, or
meets an `m_result` that keeps it out (`SoundInv`), and that an error is in the queue, in
a batch, in a local result or in `m_result`, and so is not lost (`FoundInv`). `Counters`
is a conjunct of it; it is about cardinalities, which change by what a thread takes
or returns.

**MiningPageProofs, NodeMinerProofs.** `ExitsAccounted`, `OneLateBlock`,
`CleanHandOver`; `NoMinerLeft`, `ParentOnce`, `CallExact`. `PageInv` says who owns the
engine and what the two flags mean in every place of the two threads; `NodeInv` that a
call past its loop test still owes a block, that nobody mines on more than the tip,
and that a call that was waited for does not come back.

Only model-checked: liveness (`StopReturns`, `FailureShown`, `StopEndsThread`,
`ShutdownIfProofs`, `CompleteReturns`, `DestructorReturns`, and the fairness part of
`RefinesSession`), because fairness and `ENABLED` are outside the prover. The four
violation runs are counterexamples and have no theorem. `TemplateTimeAllowed` is proved
under the hypothesis above, and `NonceDisjoint` under `ThreadsDivide`.

## 5. Plan

1. `InvalidateBlock`, failed blocks and the choice of candidates in
   `ActivateBestChain`, on top of `BlockIndex`.
2. `ReplayBlocks` after a partial write of the coins.
3. `CScheduler` and the validation interface queue.

## 6. Not modelled

- GPU kernels, SIMD code, multi-precision arithmetic and MPFR logarithms: TLC has
  neither the integers nor the time; their answers are constants.
- The primality tests as algorithms: BPSW has no known exception, so small instances
  would show nothing.
- `MiningPipeline` and `SegmentedSieve`: no code calls `run_sieve`, so they never run.
- `GetBlockSubsidy`: one formula of the height, which a property could only repeat.
- Serialisation and hashing, `detect_tier` and the intensity table, GUI widgets, the
  statistics on display, and the translation files in `qt/locale`.
- Of the block index: `InvalidateBlock` and failed blocks, snapshots, block and undo
  files, pruning, a first start without a data directory.
- The other parts inherited from Bitcoin Core: mempool and policy, network, scheduler,
  wallet, script.
- `stop()` while a session runs is modelled from the side of its caller, in
  `MiningPage`, and not in `MiningEngine`: its interleaving with `mine_parallel()` is
  undefined behaviour, and `double_join` shows that it is reachable.

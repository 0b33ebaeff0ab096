----------------------------- MODULE BlockIndex -----------------------------
(***************************************************************************)
(* The tree of known headers with its skip list, the active chain, and     *)
(* what of both survives a restart: CBlockIndex and CChain (src/chain.h,   *)
(* src/chain.cpp), AddToBlockIndex(), LoadBlockIndex() and                 *)
(* WriteBlockIndexDB() (src/node/blockstorage.cpp), SetTip() as            *)
(* ConnectTip(), DisconnectTip() and LoadChainTip() call it, and           *)
(* FlushStateToDisk() (src/validation.cpp).                                *)
(*                                                                         *)
(* A block is a number that stands for its hash, which commits to the      *)
(* hash of the block before it, the time and the difficulty.  All of it    *)
(* happens under cs_main; only a crash can come between two writes.  The   *)
(* difficulty is a whole merit (nDifficulty = merit * 2^48).               *)
(***************************************************************************)
EXTENDS Integers, Sequences

CONSTANTS
  Blocks,      \* the blocks there are; 0 is the genesis block
  HashPrev,    \* HashPrev[b]: the block before b
  Time, Merit, \* the header's nTime and nDifficulty
  Stored, Base,\* Stored[b]: nHeight of a block in the data directory at first;
               \* the tip of the chain there
  MaxShift,    \* 250, the limit of the exponent in GetBlockProof()
  MinTip       \* bound: the active chain is not cut below this height

Genesis == 0
Null == -1     \* nullptr

ASSUME TreeAssumption ==
  /\ Genesis \in Blocks /\ Blocks \subseteq Nat
  /\ HashPrev[Genesis] = Null
  /\ \A b \in Blocks \ {Genesis} : HashPrev[b] \in Blocks /\ HashPrev[b] < b
  /\ Null \notin Blocks /\ DOMAIN Stored \subseteq Blocks /\ Base \in DOMAIN Stored
  /\ Genesis \in DOMAIN Stored /\ Stored[Genesis] = 0
  /\ \A b \in DOMAIN Stored \ {Genesis} :
       HashPrev[b] \in DOMAIN Stored /\ Stored[b] = Stored[HashPrev[b]] + 1
  /\ \A b \in DOMAIN Stored : Stored[b] \in Nat
  /\ \A b \in Blocks : Merit[b] \in Nat /\ Time[b] \in Nat
  /\ MaxShift \in Nat /\ MinTip \in Nat

VARIABLES
  index,       \* m_block_index: per block nHeight, pskip, nTimeMax, nChainWork
  best_header, \* m_best_header
  vChain,      \* m_chain: vChain[h + 1] is the block at height h
  m_dirty_blockindex,
  disk,        \* the block tree database: nHeight of each block in it
  coins_best,  \* CoinsTip().GetBestBlock(): the best block of the coins in memory
  coins_tip,   \* the best block of the coins database
  pc,          \* "load", "run", "view" while the coins are ahead of the chain,
               \* or "flush" between the two writes of a flush
  load_height  \* the height LoadBlockIndex() has come to

vars == <<index, best_header, vChain, m_dirty_blockindex, disk, coins_best,
          coins_tip, pc, load_height>>

-----------------------------------------------------------------------------
(* The skip list *)

\* The bits of an int.
PowersOfTwo == {2 ^ i : i \in 0 .. 30}

\* n & (n - 1): the lowest one is the largest power of two that divides n.
InvertLowestOne(n) ==
  IF n = 0 THEN 0
  ELSE n - CHOOSE d \in PowersOfTwo :
             n % d = 0 /\ (n % (2 * d) # 0 \/ 2 * d \notin PowersOfTwo)

\* The height pskip points to.
GetSkipHeight(height) ==
  IF height < 2 THEN 0
  ELSE IF height % 2 = 1 THEN InvertLowestOne(InvertLowestOne(height - 1)) + 1
  ELSE InvertLowestOne(height)

\* Mutant of FollowSkip: jumps past the height looked for.
FollowSkipPast(walk, height) ==
  LET skip     == GetSkipHeight(walk)
      skipPrev == GetSkipHeight(walk - 1)
  IN  ~(skipPrev < skip - 2 /\ skipPrev >= height)

\* Whether GetAncestor() goes on with pskip rather than with pprev.
FollowSkip(walk, height) ==
  LET skip     == GetSkipHeight(walk)
      skipPrev == GetSkipHeight(walk - 1)
  IN  skip = height \/ (skip > height /\ ~(skipPrev < skip - 2 /\ skipPrev >= height))

\* The values of <<pindexWalk, heightWalk>>.
Walks == {x \in (DOMAIN index) \X Nat : index[x[1]].nHeight = x[2]}

\* CBlockIndex::GetAncestor()
GetAncestor(b, height) ==
  LET Walk[x \in Walks] ==
        IF x[2] <= height THEN x[1]
        ELSE IF index[x[1]].pskip # Null /\ FollowSkip(x[2], height)
             THEN Walk[<<index[x[1]].pskip, GetSkipHeight(x[2])>>]
             ELSE Walk[<<HashPrev[x[1]], x[2] - 1>>]
  IN  IF height > index[b].nHeight \/ height < 0 THEN Null
      ELSE Walk[<<b, index[b].nHeight>>]

-----------------------------------------------------------------------------
(* The index *)

\* GetBlockProof(): log2(e) in units of 1 / 65536.
GetBlockProof(b) ==
  LET shiftAmount == (Merit[b] * 94548) \div 65536
  IN  2 ^ (IF shiftAmount > MaxShift THEN MaxShift ELSE shiftAmount)

\* Mutant of TimeMax: the block's own time.
TimeMaxOwn(b) == Time[b]

TimeMax(b) ==
  IF HashPrev[b] # Null /\ index[HashPrev[b]].nTimeMax > Time[b]
  THEN index[HashPrev[b]].nTimeMax ELSE Time[b]

\* What a block gets that joins the index at a height: BuildSkip(), nTimeMax
\* and nChainWork.
Entry(b, height) ==
  LET prev == HashPrev[b]
  IN  [nHeight    |-> height,
       pskip      |-> IF prev = Null THEN Null ELSE GetAncestor(prev, GetSkipHeight(height)),
       nTimeMax   |-> TimeMax(b),
       nChainWork |-> (IF prev = Null THEN 0 ELSE index[prev].nChainWork) + GetBlockProof(b)]

\* f, and g where f is not defined.
Over(f, g) == [x \in DOMAIN f \cup DOMAIN g |-> IF x \in DOMAIN f THEN f[x] ELSE g[x]]

With(heights) == Over([b \in DOMAIN heights |-> Entry(b, heights[b])], index)

Known == DOMAIN index

\* Mutants of Better: the higher header wins; the later of two headers with the
\* same work wins.
BetterHigher(best, b) == index'[best].nHeight < index'[b].nHeight

BetterOrSame(best, b) == index'[best].nChainWork <= index'[b].nChainWork

\* The test of AddToBlockIndex() for a new best header.
Better(best, b) == index'[best].nChainWork < index'[b].nChainWork

\* Mutant of AddToBlockIndex: the new entry is not marked for the next flush.
AddToBlockIndexClean(b) ==
  /\ pc = "run" /\ b \notin Known /\ HashPrev[b] \in Known
  /\ index' = With([c \in {b} |-> index[HashPrev[c]].nHeight + 1])
  /\ best_header' = IF Better(best_header, b) THEN b ELSE best_header
  /\ UNCHANGED <<vChain, m_dirty_blockindex, disk, coins_best, coins_tip, pc,
                 load_height>>

\* AddToBlockIndex(): a header whose parent is known (AcceptBlockHeader()).
AddToBlockIndex(b) ==
  /\ pc = "run" /\ b \notin Known /\ HashPrev[b] \in Known
  /\ index' = With([c \in {b} |-> index[HashPrev[c]].nHeight + 1])
  /\ best_header' = IF Better(best_header, b) THEN b ELSE best_header
  /\ m_dirty_blockindex' = m_dirty_blockindex \cup {b}
  /\ UNCHANGED <<vChain, disk, coins_best, coins_tip, pc, load_height>>

-----------------------------------------------------------------------------
(* The active chain *)

Height == Len(vChain) - 1
Tip == vChain[Len(vChain)]

ChainContains(b) == index[b].nHeight <= Height /\ vChain[index[b].nHeight + 1] = b

\* vChain.resize()
Resized(chain, n) ==
  IF n <= Len(chain) THEN SubSeq(chain, 1, n) ELSE chain \o [h \in 1 .. n - Len(chain) |-> Null]

\* Mutant of SetTip: only the last entry is set.
SetTipOne(chain, b) ==
  [Resized(chain, index[b].nHeight + 1) EXCEPT ![index[b].nHeight + 1] = b]

\* CChain::SetTip(): goes back until it meets the chain as it was.
SetTip(chain, b) ==
  LET old == Resized(chain, index[b].nHeight + 1)
      Fill[c \in Known \cup {Null}] ==
        IF c = Null THEN old
        ELSE IF old[index[c].nHeight + 1] = c THEN old
        ELSE [Fill[HashPrev[c]] EXCEPT ![index[c].nHeight + 1] = c]
  IN  Fill[b]

\* ConnectTip() and DisconnectTip() up to view.Flush(): the coins come first.
ConnectTip(b) ==
  /\ pc = "run" /\ HashPrev[b] = Tip /\ coins_best = Tip
  /\ coins_best' = b /\ pc' = "view"
  /\ UNCHANGED <<index, best_header, vChain, m_dirty_blockindex, disk, coins_tip,
                 load_height>>

DisconnectTip ==
  /\ pc = "run" /\ Tip # Genesis /\ Height > MinTip /\ coins_best = Tip
  /\ coins_best' = HashPrev[Tip] /\ pc' = "view"
  /\ UNCHANGED <<index, best_header, vChain, m_dirty_blockindex, disk, coins_tip,
                 load_height>>

\* After the flush that may come in between they call m_chain.SetTip().
UpdateChain ==
  /\ pc = "view" /\ pc' = "run"
  /\ vChain' = SetTip(vChain, coins_best)
  /\ UNCHANGED <<index, best_header, m_dirty_blockindex, disk, coins_best,
                 coins_tip, load_height>>

-----------------------------------------------------------------------------
(* Disk *)

\* Mutant of WriteBlockIndexDB: the coins go first.
WriteCoinsFirst ==
  /\ pc \in {"run", "view"} /\ pc' = "flush"
  /\ coins_tip' = coins_best
  /\ UNCHANGED <<index, best_header, vChain, m_dirty_blockindex, disk, coins_best,
                 load_height>>

\* The first write of FlushStateToDisk(): every dirty entry of the index.
WriteBlockIndexDB ==
  /\ pc \in {"run", "view"} /\ pc' = "flush"
  /\ disk' = Over([b \in m_dirty_blockindex |-> index[b].nHeight], disk)
  /\ m_dirty_blockindex' = {}
  /\ UNCHANGED <<index, best_header, vChain, coins_best, coins_tip, load_height>>

\* The second: the coins with their best block.
FlushCoins ==
  /\ pc = "flush" /\ pc' = IF coins_best = Tip THEN "run" ELSE "view"
  /\ coins_tip' = coins_best
  /\ UNCHANGED <<index, best_header, vChain, m_dirty_blockindex, disk, coins_best,
                 load_height>>

\* The node stops or crashes, between the writes of a flush as well; a write that
\* fails stops it too.
Crash ==
  /\ pc # "load" /\ pc' = "load" /\ load_height' = 0
  /\ index' = [b \in {} |-> 0] /\ best_header' = Null /\ vChain' = <<>>
  /\ m_dirty_blockindex' = {} /\ coins_best' = Null
  /\ UNCHANGED <<disk, coins_tip>>

\* The stored blocks LoadBlockIndex() comes to next.
DiskAt(height) == {b \in DOMAIN disk : disk[b] = height}

\* LoadBlockIndex(): the loop over the blocks sorted by height, for the blocks
\* of one height.
LoadBlocks ==
  /\ pc = "load" /\ DiskAt(load_height) # {}
  /\ index' = With([b \in DiskAt(load_height) |-> disk[b]])
  /\ load_height' = load_height + 1
  /\ UNCHANGED <<best_header, vChain, m_dirty_blockindex, disk, coins_best,
                 coins_tip, pc>>

\* ... then the best header (equal work is decided by addresses), and
\* LoadChainTip().  With a gap in the heights ("non-contiguous") or without the
\* coins' best block the node does not start.
LoadChainTip ==
  /\ pc = "load" /\ \A b \in DOMAIN disk : disk[b] < load_height
  /\ coins_tip \in Known
  /\ best_header' \in
       {b \in Known : \A c \in Known : index[c].nChainWork <= index[b].nChainWork}
  /\ vChain' = SetTip(vChain, coins_tip) /\ coins_best' = coins_tip
  /\ pc' = "run" /\ load_height' = 0
  /\ UNCHANGED <<index, m_dirty_blockindex, disk, coins_tip>>

-----------------------------------------------------------------------------
(* Queries *)

\* Pairs of blocks at the same height, which LastCommonAncestor() assumes.
Level == {ab \in Known \X Known : index[ab[1]].nHeight = index[ab[2]].nHeight}

\* Mutant of LastCommonAncestor: takes the common skip pointer for the answer.
LastCommonSkip(x, y) ==
  LET hx == index[x].nHeight  hy == index[y].nHeight
      Skip(b) == index[b].pskip
      Back[ab \in Level] ==
        IF ab[1] = ab[2] THEN ab[1]
        ELSE IF Skip(ab[1]) # Skip(ab[2]) THEN Back[<<Skip(ab[1]), Skip(ab[2])>>]
        ELSE Skip(ab[1])
  IN  Back[IF hx > hy THEN <<GetAncestor(x, hy), y>>
           ELSE IF hy > hx THEN <<x, GetAncestor(y, hx)>> ELSE <<x, y>>]

\* First to the same height, then back until the blocks are the same: by skip
\* pointers while those differ.
LastCommonAncestor(x, y) ==
  LET hx == index[x].nHeight  hy == index[y].nHeight
      Skip(b) == index[b].pskip
      Back[ab \in Level] ==
        IF ab[1] = ab[2] THEN ab[1]
        ELSE IF Skip(ab[1]) # Skip(ab[2]) THEN Back[<<Skip(ab[1]), Skip(ab[2])>>]
        ELSE Back[<<HashPrev[ab[1]], HashPrev[ab[2]]>>]
  IN  Back[IF hx > hy THEN <<GetAncestor(x, hy), y>>
           ELSE IF hy > hx THEN <<x, GetAncestor(y, hx)>> ELSE <<x, y>>]

\* CChain::FindFork()
FindFork(b) ==
  LET Back[c \in Known \cup {Null}] ==
        IF c = Null THEN Null ELSE IF ChainContains(c) THEN c ELSE Back[HashPrev[c]]
  IN  Back[IF index[b].nHeight > Height THEN GetAncestor(b, Height) ELSE b]

\* Mutant of NextStep: the steps double from the start.
NextStepDouble(step, n) == 2 * step

\* have.size() > 10
NextStep(step, n) == IF n > 10 THEN 2 * step ELSE step

\* How far down LocatorEntries() goes next.
StepDown(height, step) == IF height > step THEN height - step ELSE 0

\* The values of <<index, step, have.size()>> in its loop.
LocatorLoop == Known \X (Nat \ {0}) \X Nat

\* LocatorEntries(): the last blocks one by one, then steps that double.
LocatorEntries(b) ==
  LET Entries[e \in LocatorLoop] ==
        IF index[e[1]].nHeight = 0 THEN <<e[1]>>
        ELSE <<e[1]>> \o Entries[<<GetAncestor(e[1], StepDown(index[e[1]].nHeight, e[2])),
                                  NextStep(e[2], e[3] + 1), e[3] + 1>>]
  IN  Entries[<<b, 1, 0>>]

\* Chainstate::FindForkInGlobalIndex(): the first entry that is in the chain or
\* above its tip decides.
FindForkInGlobalIndex(locator) ==
  LET Found(b) == b \in Known /\ (ChainContains(b) \/ GetAncestor(b, Height) = Tip)
      hits     == {i \in DOMAIN locator : Found(locator[i])}
      first    == locator[CHOOSE i \in hits : \A j \in hits : i <= j]
  IN  IF hits = {} THEN Genesis ELSE IF ChainContains(first) THEN first ELSE Tip

\* The part of vChain a binary search looks at: first place and length.
Ranges == {r \in (1 .. Len(vChain) + 1) \X (0 .. Len(vChain)) :
             r[1] + r[2] <= Len(vChain) + 1}

\* FindEarliestAtLeast(): the binary search of std::lower_bound.
FindEarliestAtLeast(time, height) ==
  LET Before(b) == index[b].nTimeMax < time \/ index[b].nHeight < height
      Search[r \in Ranges] ==
        LET half == r[2] \div 2
        IN  IF r[2] = 0 THEN r[1]
            ELSE IF Before(vChain[r[1] + half])
                 THEN Search[<<r[1] + half + 1, r[2] - half - 1>>]
                 ELSE Search[<<r[1], half>>]
      lower == Search[<<1, Len(vChain)>>]
  IN  IF lower > Len(vChain) THEN Null ELSE vChain[lower]

-----------------------------------------------------------------------------
\* A node starts on a data directory.
Init ==
  /\ index = [b \in {} |-> 0] /\ best_header = Null /\ vChain = <<>>
  /\ m_dirty_blockindex = {} /\ disk = Stored
  /\ coins_best = Null /\ coins_tip = Base
  /\ pc = "load" /\ load_height = 0

Next ==
  \/ \E b \in Blocks : AddToBlockIndex(b)
  \/ \E b \in Known : ConnectTip(b)
  \/ DisconnectTip \/ UpdateChain \/ WriteBlockIndexDB \/ FlushCoins \/ Crash
  \/ LoadBlocks \/ LoadChainTip

Spec == Init /\ [][Next]_vars

-----------------------------------------------------------------------------
(* Properties *)

TypeOK ==
  /\ Known \subseteq Blocks /\ best_header \in Known \cup {Null}
  /\ DOMAIN disk \subseteq Blocks /\ m_dirty_blockindex \subseteq Known
  /\ coins_best \in Known \cup {Null} /\ coins_tip \in Blocks
  /\ pc \in {"load", "run", "view", "flush"}

\* The blocks from genesis to b, by the hashes alone.
Paths ==
  LET Path[c \in Blocks] == IF c = Genesis THEN <<c>> ELSE Append(Path[HashPrev[c]], c)
  IN  [b \in Blocks |-> Path[b]]

PathTo(b) == Paths[b]

\* The active chain is the path from genesis to its tip, although SetTip()
\* stops at the first block it finds in place and trusts the rest; and its tip
\* is the best block of the coins whenever ConnectTip() and DisconnectTip()
\* assert it.
ChainConsistent ==
  /\ pc # "load" => vChain = PathTo(Tip)
  /\ pc = "run" => coins_best = Tip

AncestorAt(b, h) ==
  LET path == PathTo(b) IN IF h \in 0 .. Len(path) - 1 THEN path[h + 1] ELSE Null

\* The skip list finds the ancestor that following pprev would find, at every
\* height, and nothing outside the chain of the block; so do skip pointers that
\* were built again after a restart.
AncestorExact ==
  pc \in {"run", "load"} =>
    \A b \in Known : \A h \in -1 .. index[b].nHeight + 1 :
      GetAncestor(b, h) = AncestorAt(b, h)

\* The last common block of two paths.
CommonBlock(x, y) ==
  LET px == PathTo(x)  py == PathTo(y)
      same == {i \in DOMAIN px : i \in DOMAIN py /\ px[i] = py[i]}
  IN  px[CHOOSE i \in same : \A j \in same : j <= i]

\* FindFork() and LastCommonAncestor() both find the fork point of a block and
\* the active chain, whichever is higher: the skip pointers of two branches
\* never jump over it.
ForkExact ==
  pc = "run" => \A b \in Known : /\ FindFork(b) = CommonBlock(b, Tip)
                                 /\ LastCommonAncestor(b, Tip) = CommonBlock(b, Tip)

\* A locator made for any block leads FindForkInGlobalIndex() to a block both
\* chains have, and to the very fork point if it is among the last ten blocks.
LocatorFindsFork ==
  pc = "run" => \A b \in Known :
    LET fork  == CommonBlock(b, Tip)
        found == FindForkInGlobalIndex(LocatorEntries(b))
    IN  /\ ChainContains(found) /\ AncestorAt(b, index[found].nHeight) = found
        /\ index[fork].nHeight >= index[b].nHeight - 10 => found = fork

\* FindEarliestAtLeast() misses no block: nothing in the chain before the
\* block it returns is both new and high enough, although the times of
\* blocks go up and down along the chain.
EarliestExact ==
  pc = "run" => \A time \in {Time[b] : b \in Known} : \A height \in 0 .. Height + 1 :
    LET found == FindEarliestAtLeast(time, height)
        first == IF found = Null THEN Len(vChain) + 1 ELSE index[found].nHeight + 1
    IN  /\ \A i \in 1 .. first - 1 : Time[vChain[i]] < time \/ i - 1 < height
        /\ found # Null => index[found].nHeight >= height
                           /\ \E i \in 1 .. first : Time[vChain[i]] >= time

\* No known header has more work than the best header.
BestHeaderMost ==
  pc # "load" => \A b \in Known : index[b].nChainWork <= index[best_header].nChainWork

\* A running node gives up its best header only for one with more work: of two
\* branches with the same work it keeps the one it saw first.
BestHeaderKept ==
  [][pc # "load" /\ pc' # "load" /\ best_header' # best_header
       => index'[best_header'].nChainWork > index[best_header].nChainWork]_vars

\* What a running node knows is on disk, at the height it has in memory, or is
\* marked for the next flush: no header is forgotten by a flush, and LoadBlocks
\* brings back all that was written.
IndexSaved ==
  pc # "load" =>
    /\ Known = DOMAIN disk \cup m_dirty_blockindex
    /\ \A b \in DOMAIN disk : index[b].nHeight = disk[b]

\* The best block of the coins database is in the block tree database.
TipOnDisk == coins_tip \in DOMAIN disk

\* The node can start again wherever it crashed: LoadBlockIndex() never finds
\* the stored index "non-contiguous", although a flush writes only the entries
\* that are dirty, and LoadChainTip() finds the best block of the coins, although
\* index and coins are written one after the other.
RestartLoads ==
  /\ TipOnDisk
  /\ pc = "load" =>
       DiskAt(load_height) # {} \/ \A b \in DOMAIN disk : disk[b] < load_height
=============================================================================

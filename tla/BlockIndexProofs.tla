-------------------------- MODULE BlockIndexProofs --------------------------
(***************************************************************************)
(* The index, the active chain and what survives a restart, for every tree *)
(* of blocks: any branches, times and difficulties, any data directory to  *)
(* start from and crashes at any point.                                    *)
(*                                                                         *)
(* IndexInv is about heights, work and the disk.  PathInv rests on it: the *)
(* skip pointers, nTimeMax and the active chain are what the paths of      *)
(* hashes from genesis say.  That GetAncestor(), SetTip(), FindFork(),     *)
(* LastCommonAncestor(), LocatorEntries() and FindEarliestAtLeast() return *)
(* the right block is then a lemma about each of them: a function that     *)
(* satisfies its recursion is exhibited, and every such function is shown, *)
(* by the least height or block at which it would differ, to be the one    *)
(* the paths define.                                                       *)
(***************************************************************************)
EXTENDS BlockIndex, WellFoundedInduction, TLAPS

USE SMTT(30)

\* The stored heights count the blocks back to genesis.
DiskInv ==
  /\ DOMAIN disk \subseteq Blocks /\ Genesis \in DOMAIN disk
  /\ disk[Genesis] = 0
  /\ \A b \in DOMAIN disk : disk[b] \in Nat
  /\ \A b \in DOMAIN disk \ {Genesis} :
       HashPrev[b] \in DOMAIN disk /\ disk[b] = disk[HashPrev[b]] + 1

\* So do those in memory, and the work along a chain is a number.
KnownInv ==
  /\ Known \subseteq Blocks
  /\ Genesis \in Known => index[Genesis].nHeight = 0
  /\ \A b \in Known : index[b].nHeight \in Nat /\ index[b].nChainWork \in Int
  /\ \A b \in Known \ {Genesis} :
       /\ HashPrev[b] \in Known
       /\ index[b].nHeight = index[HashPrev[b]].nHeight + 1

\* While LoadBlockIndex() runs the index holds the stored blocks below
\* load_height and nothing else.
LoadInv ==
  pc = "load" =>
    /\ load_height \in Nat /\ m_dirty_blockindex = {}
    /\ Known = {b \in DOMAIN disk : disk[b] < load_height}
    /\ \A b \in Known : index[b].nHeight = disk[b]

BestInv == IF pc = "load" THEN best_header = Null ELSE best_header \in Known

\* The coins' best block is known, and between the writes of a flush all that
\* is known is written.
CoinsInv ==
  /\ IF pc = "load" THEN coins_best = Null ELSE coins_best \in Known
  /\ pc = "flush" => m_dirty_blockindex = {}

IndexInv ==
  /\ pc \in {"load", "run", "view", "flush"}
  /\ DiskInv /\ KnownInv /\ LoadInv /\ BestInv /\ CoinsInv
  /\ BestHeaderMost /\ IndexSaved /\ TipOnDisk

\* GetBlockProof() is a number whatever the difficulty.
LEMMA ProofType == \A b \in Blocks : GetBlockProof(b) \in Int
<1> SUFFICES ASSUME NEW b \in Blocks PROVE GetBlockProof(b) \in Int
  BY Zenon
<1>1. PICK k \in Nat : k = (Merit[b] * 94548) \div 65536
  BY TreeAssumption
<1> QED
  BY <1>1, TreeAssumption DEF GetBlockProof

\* A set of naturals has a least element.
LEMMA Smallest ==
  ASSUME NEW T, T \subseteq Nat, T # {}
  PROVE  \E x \in T : \A y \in T : x <= y
<1>1. PICK x \in T : \A y \in T : ~(<<y, x>> \in OpToRel(<, Nat))
  BY WFMin, NatLessThanWellFounded, Zenon
<1>2. \A y \in T : ~(y < x)
  BY <1>1, Zenon DEF OpToRel
<1> QED
  BY <1>2

\* A set of naturals that are not all below n, with no gap above n, has n.
LEMMA NoGap ==
  ASSUME NEW S \in SUBSET Nat, NEW n \in Nat, NEW m \in S, m >= n,
         \A k \in S : k > n => k - 1 \in S
  PROVE  n \in S
<1> DEFINE T == {k \in S : k >= n}
<1>1. T \subseteq Nat /\ T # {}
  BY Zenon
<1>2. PICK k \in T : \A j \in T : k <= j
  BY <1>1, Smallest, Zenon
<1>3. k \in Nat /\ k \in S /\ k >= n
  BY <1>2, Zenon
<1>4. CASE k > n
  <2>1. k - 1 \in T
    BY <1>3, <1>4
  <2> QED
    BY <1>2, <1>3, <2>1
<1> QED
  BY <1>3, <1>4

\* What With() does to the entries it adds and to the others.
LEMMA WithEntry ==
  ASSUME NEW heights
  PROVE  LET new == With(heights)
         IN  /\ DOMAIN new = DOMAIN heights \cup Known
             /\ \A b \in DOMAIN heights : new[b] = Entry(b, heights[b])
             /\ \A b \in Known \ DOMAIN heights : new[b] = index[b]
  BY DEF With, Known, Over

\* The fields of a new entry that BestHeaderMost and the heights are about.
LEMMA EntryFields ==
  ASSUME NEW b, NEW height
  PROVE  /\ Entry(b, height).nHeight = height
         /\ Entry(b, height).nChainWork =
              (IF HashPrev[b] = Null THEN 0 ELSE index[HashPrev[b]].nChainWork)
                + GetBlockProof(b)
  BY DEF Entry

\* The start on a data directory.
LEMMA InitIndex == Init => IndexInv
  BY TreeAssumption
  DEF Init, IndexInv, DiskInv, KnownInv, LoadInv, BestInv, CoinsInv,
      BestHeaderMost, IndexSaved, TipOnDisk, Known

\* A new header: it is not genesis, its parent is known, and it becomes the best
\* one only if it has more work than the maximum so far.
LEMMA AddIndex ==
  ASSUME IndexInv, NEW b \in Blocks, AddToBlockIndex(b)
  PROVE  IndexInv'
<1> DEFINE height == index[HashPrev[b]].nHeight + 1
           heights == [c \in {b} |-> height]
<1>1. /\ pc = "run" /\ pc' = "run" /\ b \notin Known /\ HashPrev[b] \in Known
      /\ index' = With(heights) /\ disk' = disk /\ load_height' = load_height
      /\ coins_best' = coins_best /\ coins_tip' = coins_tip
      /\ m_dirty_blockindex' = m_dirty_blockindex \cup {b}
      /\ best_header' = IF Better(best_header, b) THEN b ELSE best_header
  BY Zenon DEF AddToBlockIndex
<1>2. b # Genesis /\ HashPrev[b] # Null /\ HashPrev[b] # b
  BY <1>1, TreeAssumption, Zenon DEF IndexInv, DiskInv, IndexSaved, KnownInv
<1>3. /\ Known' = Known \cup {b}
      /\ index'[b] = Entry(b, height)
      /\ \A c \in Known : index'[c] = index[c]
  <2>1. DOMAIN heights = {b} /\ heights[b] = height
    OBVIOUS
  <2> HIDE DEF heights
  <2>2. /\ DOMAIN With(heights) = DOMAIN heights \cup Known
        /\ \A c \in DOMAIN heights : With(heights)[c] = Entry(c, heights[c])
        /\ \A c \in Known \ DOMAIN heights : With(heights)[c] = index[c]
    BY WithEntry, Zenon
  <2> QED
    BY <1>1, <2>1, <2>2 DEF Known
<1>4. /\ index'[b].nHeight = height
      /\ index'[b].nChainWork = index[HashPrev[b]].nChainWork + GetBlockProof(b)
  BY <1>2, <1>3, EntryFields
<1>5. KnownInv'
  <2>1. /\ index[HashPrev[b]].nHeight \in Nat
        /\ index[HashPrev[b]].nChainWork \in Int /\ GetBlockProof(b) \in Int
    BY <1>1, ProofType, Zenon DEF IndexInv, KnownInv
  <2>2. index'[b].nHeight \in Nat /\ index'[b].nChainWork \in Int
    BY <1>4, <2>1
  <2>3. index'[HashPrev[b]] = index[HashPrev[b]]
    BY <1>1, <1>3, Zenon
  <2> QED
    BY <1>1, <1>2, <1>3, <1>4, <2>2, <2>3, Zenon DEF IndexInv, KnownInv
<1>6. DiskInv' /\ LoadInv' /\ CoinsInv' /\ IndexSaved' /\ TipOnDisk'
  BY <1>1, <1>3, Zenon
  DEF IndexInv, DiskInv, LoadInv, CoinsInv, IndexSaved, TipOnDisk
<1>7. BestInv' /\ BestHeaderMost'
  <2>1. \A c \in Known' : index'[c].nChainWork \in Int
    BY <1>5, Zenon DEF KnownInv
  <2>2. best_header \in Known
        /\ \A c \in Known : index[c].nChainWork <= index[best_header].nChainWork
    BY <1>1, Zenon DEF IndexInv, BestInv, BestHeaderMost
  <2>3. PICK x \in Int : x = index[best_header].nChainWork
    BY <1>3, <2>1, <2>2
  <2>4. PICK y \in Int : y = index'[b].nChainWork
    BY <1>3, <2>1
  <2>5. Better(best_header, b) <=> x < y
    BY <1>3, <2>2, <2>3, <2>4, Zenon DEF Better
  <2>6. \A c \in Known : index'[c].nChainWork \in Int /\ index'[c].nChainWork <= x
    BY <1>3, <2>1, <2>2, <2>3, Zenon
  <2>7. best_header' \in Known' /\ index'[best_header'].nChainWork \in Int
        /\ x <= index'[best_header'].nChainWork
        /\ y <= index'[best_header'].nChainWork
    BY <1>1, <1>3, <2>2, <2>3, <2>4, <2>5
  <2>8. \A c \in Known' : index'[c].nChainWork <= index'[best_header'].nChainWork
    BY <1>3, <2>4, <2>6, <2>7
  <2> QED
    BY <1>1, <2>7, <2>8, Zenon DEF BestInv, BestHeaderMost
<1> QED
  BY <1>1, <1>5, <1>6, <1>7 DEF IndexInv

\* The blocks of one height: their parents, one lower, are loaded already.
LEMMA LoadBlocksIndex ==
  ASSUME IndexInv, LoadBlocks
  PROVE  IndexInv'
<1> DEFINE heights == [b \in DiskAt(load_height) |-> disk[b]]
<1>1. /\ pc = "load" /\ pc' = "load" /\ index' = With(heights)
      /\ load_height' = load_height + 1 /\ disk' = disk /\ coins_tip' = coins_tip
      /\ coins_best' = coins_best /\ best_header' = best_header
      /\ m_dirty_blockindex' = m_dirty_blockindex
  BY Zenon DEF LoadBlocks
<1>2. /\ load_height \in Nat /\ m_dirty_blockindex = {}
      /\ Known = {b \in DOMAIN disk : disk[b] < load_height}
      /\ \A b \in Known : index[b].nHeight = disk[b]
  BY <1>1 DEF IndexInv, LoadInv
<1>3. \A b \in DiskAt(load_height) : b \in DOMAIN disk /\ b \notin Known
  BY <1>2 DEF DiskAt
<1>4. /\ Known' = Known \cup DiskAt(load_height)
      /\ \A b \in DiskAt(load_height) : index'[b] = Entry(b, disk[b])
      /\ \A c \in Known : index'[c] = index[c]
  <2>1. /\ DOMAIN heights = DiskAt(load_height)
        /\ \A b \in DiskAt(load_height) : heights[b] = disk[b]
    OBVIOUS
  <2> HIDE DEF heights
  <2>2. /\ DOMAIN With(heights) = DOMAIN heights \cup Known
        /\ \A c \in DOMAIN heights : With(heights)[c] = Entry(c, heights[c])
        /\ \A c \in Known \ DOMAIN heights : With(heights)[c] = index[c]
    BY WithEntry, Zenon
  <2> QED
    BY <1>1, <1>3, <2>1, <2>2 DEF Known
<1>5. \A b \in DiskAt(load_height) :
        /\ index'[b].nHeight = disk[b]
        /\ index'[b].nChainWork =
             (IF HashPrev[b] = Null THEN 0 ELSE index[HashPrev[b]].nChainWork)
               + GetBlockProof(b)
  BY <1>4, EntryFields
<1>6. \A b \in DiskAt(load_height) \ {Genesis} :
        HashPrev[b] \in Known /\ disk[b] = disk[HashPrev[b]] + 1
  BY <1>2, <1>3 DEF DiskAt, IndexInv, DiskInv
<1>7. \A b \in DiskAt(load_height) : index'[b].nChainWork \in Int
  <2> TAKE b \in DiskAt(load_height)
  <2>1. GetBlockProof(b) \in Int
    BY <1>3, ProofType DEF IndexInv, DiskInv
  <2>2. HashPrev[b] = Null \/ index[HashPrev[b]].nChainWork \in Int
    BY <1>6, TreeAssumption, Zenon DEF IndexInv, KnownInv
  <2> QED
    BY <1>5, <2>1, <2>2
<1>8. KnownInv'
  <2>1. \A b \in Known' : b \in DOMAIN disk /\ index'[b].nHeight = disk[b]
    BY <1>2, <1>3, <1>4, <1>5, Zenon
  <2>2. \A b \in Known' : index'[b].nHeight \in Nat /\ index'[b].nChainWork \in Int
    BY <1>4, <1>7, <2>1, Zenon DEF IndexInv, DiskInv, KnownInv
  <2>3. \A b \in Known' \ {Genesis} : HashPrev[b] \in Known'
    BY <1>4, <1>6 DEF IndexInv, KnownInv
  <2>4. \A b \in Known' \ {Genesis} :
          index'[b].nHeight = index'[HashPrev[b]].nHeight + 1
    BY <2>1, <2>3 DEF IndexInv, DiskInv
  <2> QED
    BY <2>1, <2>2, <2>3, <2>4, Zenon DEF KnownInv, IndexInv, DiskInv
<1>9. LoadInv'
  <2>1. \A b \in DOMAIN disk : disk[b] \in Nat
    BY DEF IndexInv, DiskInv
  <2>2. Known' = {b \in DOMAIN disk : disk[b] < load_height + 1}
    BY <1>2, <1>4, <2>1 DEF DiskAt
  <2> QED
    BY <1>1, <1>2, <1>4, <1>5, <2>2 DEF LoadInv
<1>10. DiskInv'
  BY <1>1, Zenon DEF IndexInv, DiskInv
<1> QED
  BY <1>1, <1>8, <1>9, <1>10
  DEF IndexInv, BestInv, CoinsInv, BestHeaderMost, IndexSaved, TipOnDisk

\* The end of the load: every stored block has been reached.
LEMMA LoadTipIndex ==
  ASSUME IndexInv, LoadChainTip
  PROVE  IndexInv'
<1>1. /\ pc = "load" /\ pc' = "run" /\ index' = index /\ disk' = disk
      /\ coins_tip' = coins_tip /\ coins_best' = coins_tip
      /\ m_dirty_blockindex' = m_dirty_blockindex
      /\ \A b \in DOMAIN disk : disk[b] < load_height
      /\ best_header' \in
           {b \in Known : \A c \in Known : index[c].nChainWork <= index[b].nChainWork}
  BY Zenon DEF LoadChainTip
<1>2. Known' = Known /\ Known = DOMAIN disk
  BY <1>1 DEF IndexInv, LoadInv, Known
<1> QED
  BY <1>1, <1>2, Zenon
  DEF IndexInv, DiskInv, KnownInv, LoadInv, BestInv, CoinsInv, BestHeaderMost,
      IndexSaved, TipOnDisk

\* A flush writes what is dirty over what was there.
LEMMA WriteIndex ==
  ASSUME IndexInv, WriteBlockIndexDB
  PROVE  IndexInv'
<1>1. /\ pc \in {"run", "view"} /\ pc' = "flush" /\ index' = index
      /\ coins_best' = coins_best /\ coins_tip' = coins_tip
      /\ best_header' = best_header /\ m_dirty_blockindex' = {}
      /\ disk' = Over([b \in m_dirty_blockindex |-> index[b].nHeight], disk)
  BY Zenon DEF WriteBlockIndexDB
<1>2. /\ Known = DOMAIN disk \cup m_dirty_blockindex
      /\ \A b \in DOMAIN disk : index[b].nHeight = disk[b]
  BY <1>1 DEF IndexInv, IndexSaved
<1>3. DOMAIN disk' = Known /\ \A b \in Known : disk'[b] = index[b].nHeight
  BY <1>1, <1>2 DEF Over
<1>4. Known' = Known
  BY <1>1 DEF Known
<1>5. DiskInv'
  BY <1>2, <1>3 DEF IndexInv, DiskInv, KnownInv
<1> QED
  BY <1>1, <1>2, <1>3, <1>4, <1>5, Zenon
  DEF IndexInv, KnownInv, LoadInv, BestInv, CoinsInv, BestHeaderMost,
      IndexSaved, TipOnDisk

\* A crash leaves the disk alone and memory empty.
LEMMA CrashIndex ==
  ASSUME IndexInv, Crash
  PROVE  IndexInv'
<1>1. /\ pc' = "load" /\ load_height' = 0 /\ disk' = disk
      /\ best_header' = Null /\ coins_best' = Null
      /\ coins_tip' = coins_tip
      /\ m_dirty_blockindex' = {} /\ Known' = {}
  BY DEF Crash, Known
<1> QED
  BY <1>1
  DEF IndexInv, DiskInv, KnownInv, LoadInv, BestInv, CoinsInv, BestHeaderMost,
      IndexSaved, TipOnDisk

\* The other steps touch neither the index nor what is stored of it: they move
\* the coins to a known block, or save them where the index is saved.
LEMMA CoinsIndex ==
  ASSUME IndexInv, pc # "load", pc' \in {"run", "view"},
         coins_best' \in Known, coins_tip' \in DOMAIN disk,
         UNCHANGED <<index, best_header, m_dirty_blockindex, disk, load_height>>
  PROVE  IndexInv'
<1>1. Known' = Known
  BY DEF Known
<1> QED
  BY <1>1, Zenon
  DEF IndexInv, DiskInv, KnownInv, LoadInv, BestInv, CoinsInv, BestHeaderMost,
      IndexSaved, TipOnDisk

\* The invariant of the index, in memory and on disk.
THEOREM IndexInvariant == Spec => []IndexInv
<1>1. ASSUME IndexInv, Next PROVE IndexInv'
  <2>1. ASSUME NEW b \in Blocks, AddToBlockIndex(b) PROVE IndexInv'
    BY <1>1, <2>1, AddIndex, Zenon
  <2>2. ASSUME NEW b \in Known, ConnectTip(b) PROVE IndexInv'
    BY <1>1, <2>2, CoinsIndex DEF ConnectTip, IndexInv, TipOnDisk
  <2>3. CASE DisconnectTip
    <3>1. coins_best \in Known /\ coins_best # Genesis
          /\ coins_best' = HashPrev[coins_best]
      BY <1>1, <2>3 DEF DisconnectTip, IndexInv, CoinsInv
    <3>2. coins_best' \in Known
      BY <1>1, <3>1 DEF IndexInv, KnownInv
    <3> QED
      BY <1>1, <2>3, <3>2, CoinsIndex DEF DisconnectTip, IndexInv, TipOnDisk
  <2>4. CASE UpdateChain
    BY <1>1, <2>4, CoinsIndex DEF UpdateChain, IndexInv, CoinsInv, TipOnDisk
  <2>5. CASE FlushCoins
    <3>1. coins_best \in DOMAIN disk
      BY <1>1, <2>5 DEF FlushCoins, IndexInv, CoinsInv, IndexSaved
    <3> QED
      BY <1>1, <2>5, <3>1, CoinsIndex DEF FlushCoins, IndexInv, CoinsInv
  <2> QED
    BY <1>1, <2>1, <2>2, <2>3, <2>4, <2>5, WriteIndex, CrashIndex,
       LoadBlocksIndex, LoadTipIndex
    DEF Next
<1>2. ASSUME IndexInv, UNCHANGED vars PROVE IndexInv'
  BY <1>2, Zenon
  DEF IndexInv, DiskInv, KnownInv, LoadInv, BestInv, CoinsInv, BestHeaderMost,
      IndexSaved, TipOnDisk, Known, vars
<1>3. IndexInv /\ [Next]_vars => IndexInv'
  BY <1>1, <1>2
<1> QED
  BY <1>3, InitIndex, PTL DEF Spec

\* What the index, the dirty set and the databases hold are blocks of the tree.
THEOREM IndexTypes == Spec => []TypeOK
<1>1. IndexInv => TypeOK
  BY Zenon DEF IndexInv, TypeOK, DiskInv, KnownInv, LoadInv, BestInv, CoinsInv,
         IndexSaved, TipOnDisk
<1> QED
  BY <1>1, IndexInvariant, PTL

\* The best header of a running node has the most work of all it knows, also
\* after a crash and a reload.
THEOREM MostWork == Spec => []BestHeaderMost
<1>1. IndexInv => BestHeaderMost
  BY DEF IndexInv
<1> QED
  BY <1>1, IndexInvariant, PTL

\* No header AddToBlockIndex() has added is forgotten by a flush, and a restart
\* brings back all that was written.
THEOREM NothingForgotten == Spec => []IndexSaved
<1>1. IndexInv => IndexSaved
  BY DEF IndexInv
<1> QED
  BY <1>1, IndexInvariant, PTL

\* Wherever the node crashed it can start again.  LoadBlockIndex() reaches every
\* stored block without meeting a gap: if some stored block is not below
\* load_height, one is at it.  LoadChainTip() finds the best block of the coins,
\* as WriteBlockIndexDB() comes first in every flush, also in one that
\* ConnectTip() or DisconnectTip() makes before SetTip().
THEOREM RestartSucceeds == Spec => []RestartLoads
<1>1. IndexInv => RestartLoads
  <2> SUFFICES ASSUME IndexInv, pc = "load", NEW b \in DOMAIN disk,
                      ~(disk[b] < load_height)
               PROVE  DiskAt(load_height) # {}
    BY DEF RestartLoads, IndexInv
  <2> DEFINE S == {disk[c] : c \in DOMAIN disk}
  <2>1. load_height \in Nat /\ S \subseteq Nat /\ disk[b] \in S
    BY DEF IndexInv, LoadInv, DiskInv
  <2>2. ASSUME NEW k \in S, k > load_height PROVE k - 1 \in S
    <3>1. PICK c \in DOMAIN disk : k = disk[c]
      OBVIOUS
    <3>2. c # Genesis
      BY <2>1, <2>2, <3>1 DEF IndexInv, DiskInv
    <3>3. HashPrev[c] \in DOMAIN disk /\ k = disk[HashPrev[c]] + 1
          /\ disk[HashPrev[c]] \in Nat
      BY <3>1, <3>2, Zenon DEF IndexInv, DiskInv
    <3> QED
      BY <3>3
  <2>3. disk[b] \in Nat /\ disk[b] >= load_height
    BY <2>1
  <2> HIDE DEF S
  <2>4. load_height \in S
    BY <2>1, <2>2, <2>3, NoGap
  <2> QED
    BY <2>4 DEF S, DiskAt
<1> QED
  BY <1>1, IndexInvariant, PTL

\* Of two branches with the same work the node keeps the one it saw first, in
\* every interleaving of headers, chain updates and flushes.
THEOREM FirstSeen == Spec => BestHeaderKept
<1> DEFINE Kept == pc # "load" /\ pc' # "load" /\ best_header' # best_header
                     => index'[best_header'].nChainWork > index[best_header].nChainWork
<1>1. ASSUME IndexInv, Next PROVE Kept
  <2>1. ASSUME NEW b \in Blocks, AddToBlockIndex(b) PROVE Kept
    <3>1. IndexInv'
      BY <1>1, <2>1, AddIndex
    <3> SUFFICES ASSUME pc # "load", pc' # "load", best_header' # best_header
                 PROVE  index'[best_header'].nChainWork > index[best_header].nChainWork
      BY Zenon
    <3>2. /\ best_header' = b /\ Better(best_header, b)
          /\ b \notin Known /\ index' = With([c \in {b} |-> index[HashPrev[c]].nHeight + 1])
      BY <2>1, Zenon DEF AddToBlockIndex
    <3>3. best_header \in Known /\ b \in Known'
      BY <1>1, <3>1, <3>2 DEF IndexInv, BestInv
    <3>4. index'[best_header] = index[best_header]
      BY <3>2, <3>3, Zenon DEF With, Over, Known
    <3>5. index[best_header].nChainWork \in Int /\ index'[b].nChainWork \in Int
      BY <1>1, <3>1, <3>3, Zenon DEF IndexInv, KnownInv
    <3> QED
      BY <3>2, <3>4, <3>5, Zenon DEF Better
  <2>2. ASSUME NEW b \in Known, ConnectTip(b) PROVE Kept
    BY <2>2 DEF ConnectTip
  <2>3. CASE DisconnectTip \/ UpdateChain \/ WriteBlockIndexDB \/ FlushCoins
    BY <2>3 DEF DisconnectTip, UpdateChain, WriteBlockIndexDB, FlushCoins
  <2>4. CASE Crash \/ LoadBlocks \/ LoadChainTip
    BY <2>4 DEF Crash, LoadBlocks, LoadChainTip
  <2> QED
    BY <1>1, <2>1, <2>2, <2>3, <2>4 DEF Next
<1>2. IndexInv /\ [Next]_vars => [Kept]_vars
  BY <1>1
<1> QED
  BY <1>2, IndexInvariant, PTL DEF Spec, BestHeaderKept

-----------------------------------------------------------------------------
(* Paths *)

\* A sequence is a function.
LEMMA SeqFcn ==
  ASSUME NEW S, NEW q \in Seq(S)
  PROVE  q = [i \in 1 .. Len(q) |-> q[i]]
<1>1. q \in [1 .. Len(q) -> S]
  OBVIOUS
<1> QED
  BY <1>1

\* Two sequences of the same length with the same elements are the same.
LEMMA SameSeq ==
  \A p, q \in Seq(Blocks) :
    Len(p) = Len(q) /\ (\A i \in 1 .. Len(p) : p[i] = q[i]) => p = q
<1> SUFFICES ASSUME NEW p \in Seq(Blocks), NEW q \in Seq(Blocks), Len(p) = Len(q),
                    \A i \in 1 .. Len(p) : p[i] = q[i]
             PROVE  p = q
  BY Zenon
<1>1. p = [i \in 1 .. Len(p) |-> p[i]] /\ q = [i \in 1 .. Len(q) |-> q[i]]
  BY SeqFcn, Zenon
<1> QED
  BY <1>1, Zenon

\* A bounded set of naturals has a greatest element.
LEMMA Largest ==
  ASSUME NEW N \in Nat, NEW T, T \subseteq 0 .. N, T # {}
  PROVE  \E x \in T : \A y \in T : y <= x
<1>1. {N - x : x \in T} \subseteq Nat /\ {N - x : x \in T} # {}
  <2>1. PICK t \in T : TRUE
    BY Zenon
  <2>2. N - t \in {N - x : x \in T}
    OBVIOUS
  <2>3. \A x \in T : N - x \in Nat
    OBVIOUS
  <2> QED
    BY <2>2, <2>3
<1>2. PICK z \in {N - x : x \in T} : \A y \in {N - x : x \in T} : z <= y
  BY <1>1, Smallest, Zenon
<1>3. PICK x \in T : z = N - x
  BY <1>2
<1>4. \A y \in T : N - x <= N - y
  BY <1>2, <1>3, Zenon
<1> QED
  BY <1>4

\* p leads from genesis to b by the hashes.
IsPath(p, b) ==
  /\ p \in Seq(Blocks) /\ Len(p) >= 1 /\ p[1] = Genesis /\ p[Len(p)] = b
  /\ \A i \in 2 .. Len(p) : p[i] # Genesis /\ p[i - 1] = HashPrev[p[i]]

\* The path to genesis.
LEMMA GenesisPath == IsPath(<<Genesis>>, Genesis)
<1>1. /\ <<Genesis>> \in Seq(Blocks) /\ Len(<<Genesis>>) = 1
      /\ <<Genesis>>[1] = Genesis /\ 1 >= 1
  BY TreeAssumption
<1>2. \A i \in 2 .. 1 : FALSE
  OBVIOUS
<1> QED
  BY <1>1, <1>2, Zenon DEF IsPath

\* A path and one block more is a path.
LEMMA PathAppend ==
  ASSUME NEW b \in Blocks, b # Genesis, NEW p, IsPath(p, HashPrev[b])
  PROVE  IsPath(Append(p, b), b)
<1>1. PICK n \in Nat : n = Len(p) /\ n >= 1
  BY DEF IsPath
<1>2. /\ p \in Seq(Blocks) /\ Len(p) = n /\ p[1] = Genesis /\ p[n] = HashPrev[b]
      /\ \A i \in 2 .. n : p[i] # Genesis /\ p[i - 1] = HashPrev[p[i]]
  BY <1>1, Zenon DEF IsPath
<1>3. PICK q : q = Append(p, b)
  BY Zenon
<1>4. /\ q \in Seq(Blocks) /\ Len(q) = n + 1 /\ q[n + 1] = b
      /\ \A i \in 1 .. n : q[i] = p[i]
  BY <1>1, <1>2, <1>3
<1>5. \A i \in 2 .. n + 1 : q[i] # Genesis /\ q[i - 1] = HashPrev[q[i]]
  <2> TAKE i \in 2 .. n + 1
  <2>1. CASE i = n + 1
    BY <1>1, <1>2, <1>4, <2>1
  <2>2. CASE i \in 2 .. n
    <3>1. i - 1 \in 1 .. n /\ i \in 1 .. n
      BY <1>1, <2>2
    <3> QED
      BY <1>2, <1>4, <2>2, <3>1, Zenon
  <2> QED
    BY <1>1, <2>1, <2>2
<1> QED
  BY <1>1, <1>2, <1>3, <1>4, <1>5 DEF IsPath

\* What leads to a block of a path is its beginning.
LEMMA PathCut ==
  ASSUME NEW b, NEW p, IsPath(p, b), NEW k \in 1 .. Len(p)
  PROVE  IsPath(SubSeq(p, 1, k), p[k])
<1>1. PICK q : q = SubSeq(p, 1, k)
  BY Zenon
<1>2. /\ p \in Seq(Blocks) /\ Len(p) \in Nat /\ p[1] = Genesis
      /\ \A i \in 2 .. Len(p) : p[i] # Genesis /\ p[i - 1] = HashPrev[p[i]]
  BY DEF IsPath
<1>3. k \in Nat /\ k >= 1 /\ k <= Len(p)
  BY <1>2
<1>4. q \in Seq(Blocks) /\ Len(q) = k /\ \A i \in 1 .. k : q[i] = p[i]
  BY <1>1, <1>2, <1>3
<1>5. \A i \in 2 .. k : q[i] # Genesis /\ q[i - 1] = HashPrev[q[i]]
  <2> TAKE i \in 2 .. k
  <2>1. i \in 1 .. k /\ i - 1 \in 1 .. k /\ i \in 2 .. Len(p)
    BY <1>2, <1>3
  <2> QED
    BY <1>2, <1>4, <2>1, Zenon
<1>6. 1 \in 1 .. k /\ k \in 1 .. k
  BY <1>3
<1>7. q[1] = Genesis /\ q[k] = p[k]
  BY <1>2, <1>4, <1>6, Zenon
<1> QED
  BY <1>1, <1>3, <1>4, <1>5, <1>7, Zenon DEF IsPath

\* Two paths to the same block have the same length and the same blocks.
LEMMA PathUnique ==
  \A b \in Blocks : \A p, q : IsPath(p, b) /\ IsPath(q, b) => p = q
<1> DEFINE Bad == {b \in Blocks : \E p, q : IsPath(p, b) /\ IsPath(q, b) /\ p # q}
<1> SUFFICES ASSUME Bad # {} PROVE FALSE
  BY Zenon
<1>1. Bad \subseteq Nat
  BY TreeAssumption
<1>2. PICK b \in Bad : \A c \in Bad : b <= c
  BY <1>1, Smallest, Zenon
<1>3. PICK p, q : IsPath(p, b) /\ IsPath(q, b) /\ p # q
  BY <1>2, Zenon
<1>4. PICK n, m \in Nat : n = Len(p) /\ m = Len(q) /\ n >= 1 /\ m >= 1
  BY <1>3 DEF IsPath
<1>5. /\ b \in Blocks /\ p \in Seq(Blocks) /\ q \in Seq(Blocks)
      /\ p[n] = b /\ q[m] = b /\ p[1] = Genesis /\ q[1] = Genesis
      /\ \A i \in 2 .. n : p[i] # Genesis /\ p[i - 1] = HashPrev[p[i]]
      /\ \A i \in 2 .. m : q[i] # Genesis /\ q[i - 1] = HashPrev[q[i]]
  BY <1>2, <1>3, <1>4, Zenon DEF IsPath
<1>6. n = 1 \/ n \in 2 .. n
  BY <1>4
<1>7. m = 1 \/ m \in 2 .. m
  BY <1>4
<1>8. CASE b = Genesis
  <2>1. n = 1 /\ m = 1
    BY <1>5, <1>6, <1>7, <1>8, Zenon
  <2>2. \A i \in 1 .. n : i = 1
    BY <2>1
  <2>3. \A i \in 1 .. Len(p) : p[i] = q[i]
    BY <1>4, <1>5, <2>2, Zenon
  <2>4. Len(p) = Len(q)
    BY <1>4, <2>1, Zenon
  <2>5. p = q
    BY <1>5, <2>3, <2>4, SameSeq, Zenon
  <2> QED
    BY <1>3, <2>5, Zenon
<1>9. CASE b # Genesis
  <2>1. n \in 2 .. n /\ m \in 2 .. m
    BY <1>5, <1>6, <1>7, <1>9, Zenon
  <2>2. p[n - 1] = HashPrev[b] /\ q[m - 1] = HashPrev[b]
    BY <1>5, <2>1, Zenon
  <2>3. n - 1 \in 1 .. n /\ m - 1 \in 1 .. m /\ n - 1 \in Nat /\ m - 1 \in Nat
    BY <1>4, <2>1
  <2>4. PICK r : r = SubSeq(p, 1, n - 1)
    BY Zenon
  <2>5. PICK s : s = SubSeq(q, 1, m - 1)
    BY Zenon
  <2>6. IsPath(r, HashPrev[b]) /\ IsPath(s, HashPrev[b])
    BY <1>3, <1>4, <2>2, <2>3, <2>4, <2>5, PathCut, Zenon
  <2>7. HashPrev[b] \in Blocks /\ HashPrev[b] \in Nat /\ b \in Nat /\ HashPrev[b] < b
    BY <1>5, <1>9, TreeAssumption
  <2>8. ~(b <= HashPrev[b])
    BY <2>7
  <2>9. r = s
    BY <1>2, <2>6, <2>7, <2>8, Zenon
  <2>10. /\ Len(r) = n - 1 /\ \A i \in 1 .. n - 1 : r[i] = p[i]
         /\ Len(s) = m - 1 /\ \A i \in 1 .. m - 1 : s[i] = q[i]
    BY <1>4, <1>5, <2>3, <2>4, <2>5
  <2>11. n = m
    BY <1>4, <2>9, <2>10
  <2>12. \A i \in 1 .. n : i = n \/ i \in 1 .. n - 1
    BY <1>4
  <2>13. \A i \in 1 .. n : p[i] = q[i]
    BY <1>5, <2>9, <2>10, <2>11, <2>12, Zenon
  <2>14. Len(p) = Len(q) /\ \A i \in 1 .. Len(p) : p[i] = q[i]
    BY <1>4, <2>11, <2>13, Zenon
  <2>15. p = q
    BY <1>5, <2>14, SameSeq, Zenon
  <2> QED
    BY <1>3, <2>15, Zenon
<1> QED
  BY <1>8, <1>9

\* Every block has one, as a block comes after the one it names.
LEMMA PathExists == \A b \in Blocks : \E p : IsPath(p, b)
<1> DEFINE Bad == {b \in Blocks : ~ \E p : IsPath(p, b)}
<1> SUFFICES ASSUME Bad # {} PROVE FALSE
  BY Zenon
<1>1. Bad \subseteq Nat
  BY TreeAssumption
<1>2. PICK b \in Bad : \A c \in Bad : b <= c
  BY <1>1, Smallest, Zenon
<1>3. CASE b = Genesis
  <2> QED
    BY <1>2, <1>3, GenesisPath, Zenon
<1>4. CASE b # Genesis
  <2>1. /\ b \in Blocks /\ HashPrev[b] \in Blocks /\ HashPrev[b] \in Nat
        /\ b \in Nat /\ HashPrev[b] < b
    BY <1>2, <1>4, TreeAssumption
  <2>2. ~(b <= HashPrev[b])
    BY <2>1
  <2>3. PICK p : IsPath(p, HashPrev[b])
    BY <1>2, <2>1, <2>2, Zenon
  <2>4. IsPath(Append(p, b), b)
    BY <1>4, <2>1, <2>3, PathAppend, Zenon
  <2> QED
    BY <1>2, <2>4, Zenon
<1> QED
  BY <1>3, <1>4

\* The recursion of PathTo() has a solution, the paths; so PathTo() is one.
LEMMA PathStep ==
  /\ PathTo(Genesis) = <<Genesis>>
  /\ \A b \in Blocks \ {Genesis} : PathTo(b) = Append(PathTo(HashPrev[b]), b)
<1> DEFINE f == [c \in Blocks |-> CHOOSE p : IsPath(p, c)]
           g == CHOOSE Path : Path = [c \in Blocks |->
                  IF c = Genesis THEN <<c>> ELSE Append(Path[HashPrev[c]], c)]
<1>1. \A c \in Blocks : IsPath(f[c], c)
  BY PathExists, Zenon
<1>2. f[Genesis] = <<Genesis>>
  <2> HIDE DEF f
  <2> QED
    BY <1>1, GenesisPath, PathUnique, TreeAssumption, Zenon
<1>3. \A c \in Blocks \ {Genesis} : f[c] = Append(f[HashPrev[c]], c)
  <2> TAKE c \in Blocks \ {Genesis}
  <2>1. c \in Blocks /\ c # Genesis /\ HashPrev[c] \in Blocks
    BY TreeAssumption, Zenon
  <2> HIDE DEF f
  <2>2. IsPath(Append(f[HashPrev[c]], c), c)
    BY <1>1, <2>1, PathAppend, Zenon
  <2> QED
    BY <1>1, <2>1, <2>2, PathUnique, Zenon
<1>4. f = [c \in Blocks |-> IF c = Genesis THEN <<c>> ELSE Append(f[HashPrev[c]], c)]
  <2>1. f = [c \in Blocks |-> f[c]]
    OBVIOUS
  <2> HIDE DEF f
  <2>2. \A c \in Blocks :
          f[c] = IF c = Genesis THEN <<c>> ELSE Append(f[HashPrev[c]], c)
    BY <1>2, <1>3, Zenon
  <2> QED
    BY <2>1, <2>2, Zenon
<1> HIDE DEF f
<1>5. g = [c \in Blocks |-> IF c = Genesis THEN <<c>> ELSE Append(g[HashPrev[c]], c)]
  BY <1>4, Zenon
<1>6. \A b \in Blocks : PathTo(b) = g[b]
  BY Zenon DEF PathTo, Paths
<1> HIDE DEF g
<1>7. \A c \in Blocks : g[c] = IF c = Genesis THEN <<c>> ELSE Append(g[HashPrev[c]], c)
  BY <1>5, Zenon
<1>8. \A b \in Blocks \ {Genesis} : b \in Blocks /\ HashPrev[b] \in Blocks /\ b # Genesis
  BY TreeAssumption, Zenon
<1> QED
  BY <1>6, <1>7, <1>8, TreeAssumption, Zenon

\* PathTo(b) is the path to b.
LEMMA PathIs == \A b \in Blocks : IsPath(PathTo(b), b)
<1> DEFINE Bad == {b \in Blocks : ~IsPath(PathTo(b), b)}
<1> SUFFICES ASSUME Bad # {} PROVE FALSE
  BY Zenon
<1>1. Bad \subseteq Nat
  BY TreeAssumption
<1>2. PICK b \in Bad : \A c \in Bad : b <= c
  BY <1>1, Smallest, Zenon
<1>3. CASE b = Genesis
  <2> QED
    BY <1>2, <1>3, GenesisPath, PathStep, Zenon
<1>4. CASE b # Genesis
  <2>1. /\ b \in Blocks /\ HashPrev[b] \in Blocks /\ HashPrev[b] \in Nat
        /\ b \in Nat /\ HashPrev[b] < b
    BY <1>2, <1>4, TreeAssumption
  <2>2. ~(b <= HashPrev[b])
    BY <2>1
  <2>3. IsPath(PathTo(HashPrev[b]), HashPrev[b])
    BY <1>2, <2>1, <2>2, Zenon
  <2>4. IsPath(Append(PathTo(HashPrev[b]), b), b)
    BY <1>4, <2>1, <2>3, PathAppend, Zenon
  <2> QED
    BY <1>2, <1>4, <2>1, <2>4, PathStep, Zenon
<1> QED
  BY <1>3, <1>4

\* How many blocks lie before b.
Depth(b) == Len(PathTo(b)) - 1

\* The ancestor at a height no less than zero and no more than the block's.
LEMMA AncestorIn ==
  ASSUME NEW b \in Blocks
  PROVE  /\ Depth(b) \in Nat
         /\ \A h \in 0 .. Depth(b) :
              /\ AncestorAt(b, h) = PathTo(b)[h + 1] /\ AncestorAt(b, h) \in Blocks
              /\ Depth(AncestorAt(b, h)) = h
         /\ AncestorAt(b, 0) = Genesis /\ AncestorAt(b, Depth(b)) = b
<1>1. PICK p : p = PathTo(b)
  BY Zenon
<1>2. IsPath(p, b)
  BY <1>1, PathIs, Zenon
<1>3. PICK n \in Nat : n = Len(p) - 1
  BY <1>2 DEF IsPath
<1>4. p \in Seq(Blocks) /\ Len(p) = n + 1 /\ p[1] = Genesis /\ p[n + 1] = b
  BY <1>2, <1>3 DEF IsPath
<1>5. Depth(b) = n
  BY <1>1, <1>3, Zenon DEF Depth
<1>6. \A h \in 0 .. n : AncestorAt(b, h) = p[h + 1]
  BY <1>1, <1>3, Zenon DEF AncestorAt
<1>7. \A h \in 0 .. n : h + 1 \in 1 .. Len(p) /\ p[h + 1] \in Blocks
  BY <1>3, <1>4
<1>8. \A h \in 0 .. n : Depth(p[h + 1]) = h
  <2> TAKE h \in 0 .. n
  <2>1. IsPath(SubSeq(p, 1, h + 1), p[h + 1])
    BY <1>2, <1>7, PathCut, Zenon
  <2>2. PathTo(p[h + 1]) = SubSeq(p, 1, h + 1)
    BY <1>7, <2>1, PathIs, PathUnique, Zenon
  <2>3. Len(SubSeq(p, 1, h + 1)) = h + 1
    BY <1>3, <1>4
  <2> QED
    BY <2>2, <2>3 DEF Depth
<1>9. 0 \in 0 .. n /\ n \in 0 .. n /\ 0 + 1 = 1
  BY <1>3
<1>10. AncestorAt(b, 0) = p[0 + 1] /\ AncestorAt(b, n) = p[n + 1]
  BY <1>6, <1>9, Zenon
<1>11. AncestorAt(b, 0) = Genesis /\ AncestorAt(b, n) = b
  BY <1>4, <1>9, <1>10, Zenon
<1>12. \A h \in 0 .. n :
         /\ AncestorAt(b, h) = PathTo(b)[h + 1] /\ AncestorAt(b, h) \in Blocks
         /\ Depth(AncestorAt(b, h)) = h
  BY <1>1, <1>6, <1>7, <1>8, Zenon
<1> QED
  BY <1>3, <1>5, <1>11, <1>12, Zenon

\* There is none at other heights.
LEMMA AncestorOut ==
  ASSUME NEW b, NEW h, h \notin 0 .. Depth(b)
  PROVE  AncestorAt(b, h) = Null
  BY Zenon DEF AncestorAt, Depth

\* An ancestor's ancestors are the block's.
LEMMA AncestorTwice ==
  ASSUME NEW b \in Blocks, NEW h \in 0 .. Depth(b), NEW k \in 0 .. h
  PROVE  AncestorAt(AncestorAt(b, h), k) = AncestorAt(b, k)
<1>1. PICK p : p = PathTo(b)
  BY Zenon
<1>2. IsPath(p, b) /\ p \in Seq(Blocks)
  <2>1. IsPath(p, b)
    BY <1>1, PathIs, Zenon
  <2> QED
    BY <2>1, Zenon DEF IsPath
<1>3. PICK n \in Nat : n = Depth(b)
  BY AncestorIn, Zenon
<1>4. Len(p) = n + 1
  BY <1>1, <1>2, <1>3 DEF Depth, IsPath
<1>5. PICK c \in Blocks : c = AncestorAt(b, h) /\ c = p[h + 1] /\ Depth(c) = h
  BY <1>1, AncestorIn, Zenon
<1>6. h + 1 \in 1 .. Len(p) /\ k \in 0 .. n /\ k \in 0 .. h
  BY <1>3, <1>4
<1>7. IsPath(SubSeq(p, 1, h + 1), c)
  BY <1>2, <1>5, <1>6, PathCut, Zenon
<1>8. PathTo(c) = SubSeq(p, 1, h + 1)
  BY <1>5, <1>7, PathIs, PathUnique, Zenon
<1>9. SubSeq(p, 1, h + 1)[k + 1] = p[k + 1]
  BY <1>2, <1>3, <1>4
<1>10. AncestorAt(c, k) = PathTo(c)[k + 1] /\ AncestorAt(b, k) = p[k + 1]
  BY <1>1, <1>3, <1>5, <1>6, AncestorIn, Zenon
<1> QED
  BY <1>5, <1>8, <1>9, <1>10, Zenon

\* The block before b is its ancestor one lower.
LEMMA AncestorPrev ==
  ASSUME NEW b \in Blocks, b # Genesis
  PROVE  /\ HashPrev[b] \in Blocks /\ Depth(b) >= 1 /\ Depth(HashPrev[b]) = Depth(b) - 1
         /\ AncestorAt(b, Depth(b) - 1) = HashPrev[b]
         /\ \A k \in 0 .. Depth(b) - 1 : AncestorAt(HashPrev[b], k) = AncestorAt(b, k)
<1>1. PICK n \in Nat : n = Depth(b)
  BY AncestorIn, Zenon
<1>2. IsPath(PathTo(b), b)
  BY PathIs, Zenon
<1>3. HashPrev[b] \in Blocks
  BY TreeAssumption, Zenon
<1>4. n >= 1
  BY <1>1, AncestorIn
<1>5. n - 1 \in 0 .. n /\ n + 1 \in 2 .. n + 1 /\ (n + 1) - 1 = n /\ (n - 1) + 1 = n
  BY <1>1, <1>4
<1>6. PathTo(b)[n + 1] = b /\ Len(PathTo(b)) = n + 1
  BY <1>1, <1>2 DEF IsPath, Depth
<1>7. PathTo(b)[n] = HashPrev[b]
  BY <1>2, <1>5, <1>6, Zenon DEF IsPath
<1>8. AncestorAt(b, n - 1) = HashPrev[b] /\ Depth(HashPrev[b]) = n - 1
  <2>1. /\ AncestorAt(b, n - 1) = PathTo(b)[(n - 1) + 1]
        /\ Depth(AncestorAt(b, n - 1)) = n - 1
    BY <1>1, <1>5, AncestorIn, Zenon
  <2> QED
    BY <1>5, <1>7, <2>1, Zenon
<1> QED
  BY <1>1, <1>3, <1>4, <1>5, <1>8, AncestorTwice, Zenon

\* Only genesis has no block before it.
LEMMA DepthZero == \A b \in Blocks : Depth(b) = 0 <=> b = Genesis
<1> SUFFICES ASSUME NEW b \in Blocks PROVE Depth(b) = 0 <=> b = Genesis
  BY Zenon
<1>1. CASE b = Genesis
  <2>1. PathTo(b) = <<Genesis>>
    BY <1>1, PathStep, Zenon
  <2> QED
    BY <1>1, <2>1 DEF Depth
<1>2. CASE b # Genesis
  BY <1>2, AncestorPrev, AncestorIn
<1> QED
  BY <1>1, <1>2

\* In the index the heights count the blocks of the path, and the whole path is
\* there.
LEMMA KnownPath ==
  ASSUME KnownInv
  PROVE  \A b \in Known : /\ b \in Blocks /\ index[b].nHeight = Depth(b)
                          /\ \A h \in 0 .. Depth(b) : AncestorAt(b, h) \in Known
<1> DEFINE Good(b) == /\ index[b].nHeight = Depth(b)
                      /\ \A h \in 0 .. Depth(b) : AncestorAt(b, h) \in Known
           Bad == {b \in Known : ~Good(b)}
<1>1. Known \subseteq Blocks /\ Blocks \subseteq Nat
  BY TreeAssumption, Zenon DEF KnownInv
<1> SUFFICES ASSUME Bad # {} PROVE FALSE
  BY <1>1, Zenon
<1>2. Bad \subseteq Nat
  BY <1>1, Zenon
<1>3. PICK b \in Bad : \A c \in Bad : b <= c
  BY <1>2, Smallest, Zenon
<1>4. b \in Known /\ b \in Blocks /\ ~Good(b)
  BY <1>1, <1>3, Zenon
<1>5. CASE b = Genesis
  <2>1. index[b].nHeight = 0 /\ Depth(b) = 0
    BY <1>4, <1>5, DepthZero, Zenon DEF KnownInv
  <2>2. \A h \in 0 .. Depth(b) : h = Depth(b)
    BY <2>1
  <2>3. \A h \in 0 .. Depth(b) : AncestorAt(b, h) \in Known
    BY <1>4, <2>2, AncestorIn, Zenon
  <2> QED
    BY <1>4, <2>1, <2>3, Zenon
<1>6. CASE b # Genesis
  <2>1. HashPrev[b] \in Known /\ index[b].nHeight = index[HashPrev[b]].nHeight + 1
    BY <1>4, <1>6, Zenon DEF KnownInv
  <2>2. ~(b <= HashPrev[b])
    BY <1>1, <1>4, <1>6, <2>1, TreeAssumption
  <2>3. Good(HashPrev[b])
    BY <1>3, <2>1, <2>2, Zenon
  <2>4. PICK n \in Nat : n = Depth(b) /\ n >= 1 /\ Depth(HashPrev[b]) = n - 1
    BY <1>4, <1>6, AncestorIn, AncestorPrev, Zenon
  <2>5. \A h \in 0 .. n : h = n \/ h \in 0 .. n - 1
    BY <2>4
  <2>6. \A h \in 0 .. n : AncestorAt(b, h) \in Known
    <3> TAKE h \in 0 .. n
    <3>1. CASE h = n
      BY <1>4, <2>4, <3>1, AncestorIn, Zenon
    <3>2. CASE h \in 0 .. n - 1
      BY <1>4, <1>6, <2>3, <2>4, <3>2, AncestorPrev, Zenon
    <3> QED
      BY <2>5, <3>1, <3>2, Zenon
  <2>7. index[b].nHeight = n
    BY <2>1, <2>3, <2>4
  <2> QED
    BY <1>4, <2>4, <2>6, <2>7, Zenon
<1> QED
  BY <1>5, <1>6

\* InvertLowestOne() makes a number smaller.
LEMMA ClearLowest == \A n \in Nat \ {0} : InvertLowestOne(n) \in 0 .. n - 1
<1> SUFFICES ASSUME NEW n \in Nat, n > 0 PROVE InvertLowestOne(n) \in 0 .. n - 1
  OBVIOUS
<1>1. 1 \in PowersOfTwo /\ \A d \in PowersOfTwo : d \in Nat /\ d >= 1
  BY DEF PowersOfTwo
<1> DEFINE S == {d \in PowersOfTwo : n % d = 0}
           Lowest(d) == n % d = 0 /\ (n % (2 * d) # 0 \/ 2 * d \notin PowersOfTwo)
<1>2. \A d \in S : d \in 0 .. n /\ d >= 1
  <2> TAKE d \in S
  <2>1. d \in Nat /\ d >= 1 /\ n % d = 0
    BY <1>1
  <2> QED
    BY <2>1
<1>3. 1 \in S
  BY <1>1
<1>4. PICK m \in S : \A d \in S : d <= m
  BY <1>2, <1>3, Largest, Zenon
<1>5. m \in PowersOfTwo /\ m \in Nat /\ m >= 1 /\ ~(2 * m <= m)
  BY <1>1, <1>4
<1>6. Lowest(m)
  BY <1>4, <1>5, Zenon
<1>7. PICK x : x = CHOOSE d \in PowersOfTwo : Lowest(d)
  BY Zenon
<1>8. x \in S
  BY <1>5, <1>6, <1>7, Zenon
<1>9. InvertLowestOne(n) = n - x
  BY <1>7 DEF InvertLowestOne
<1> HIDE DEF S
<1> QED
  BY <1>2, <1>8, <1>9

\* pskip goes back, and never before genesis.
LEMMA SkipBack == \A h \in Nat \ {0} : GetSkipHeight(h) \in 0 .. h - 1
<1> SUFFICES ASSUME NEW h \in Nat, h > 0 PROVE GetSkipHeight(h) \in 0 .. h - 1
  OBVIOUS
<1>1. CASE h < 2
  BY <1>1 DEF GetSkipHeight
<1>2. CASE h >= 2 /\ h % 2 = 1
  <2>1. PICK y : y = InvertLowestOne(h - 1)
    BY Zenon
  <2>2. y \in 0 .. h - 2
    BY <1>2, <2>1, ClearLowest
  <2>3. InvertLowestOne(y) \in 0 .. h - 2
    <3>1. CASE y = 0
      BY <1>2, <3>1 DEF InvertLowestOne
    <3>2. CASE y # 0
      <4>1. InvertLowestOne(y) \in 0 .. y - 1
        BY <2>2, <3>2, ClearLowest
      <4> QED
        BY <2>2, <4>1
    <3> QED
      BY <3>1, <3>2
  <2>4. GetSkipHeight(h) = InvertLowestOne(y) + 1
    BY <1>2, <2>1 DEF GetSkipHeight
  <2> QED
    BY <1>2, <2>3, <2>4
<1>3. CASE h >= 2 /\ h % 2 # 1
  <2>1. GetSkipHeight(h) = InvertLowestOne(h)
    BY <1>3 DEF GetSkipHeight
  <2> QED
    BY <2>1, ClearLowest
<1> QED
  BY <1>1, <1>2, <1>3

-----------------------------------------------------------------------------
(* The skip list *)

\* A skip pointer leads to the ancestor at the height it is meant for.
SkipInv ==
  \A b \in Known :
    index[b].pskip = IF b = Genesis THEN Null
                     ELSE AncestorAt(b, GetSkipHeight(index[b].nHeight))

\* One step back of GetAncestor(): by pprev, or by a pskip it may follow, to a
\* block that has the same ancestor at the height looked for.
LEMMA WalkStep ==
  ASSUME KnownInv, SkipInv, NEW c \in Known, NEW m \in Nat, index[c].nHeight = m,
         NEW h \in Nat, h < m
  PROVE  /\ HashPrev[c] \in Known /\ index[HashPrev[c]].nHeight = m - 1
         /\ AncestorAt(HashPrev[c], h) = AncestorAt(c, h)
         /\ GetSkipHeight(m) \in 0 .. m - 1
         /\ index[c].pskip \in Known /\ index[index[c].pskip].nHeight = GetSkipHeight(m)
         /\ FollowSkip(m, h) => /\ h <= GetSkipHeight(m)
                                /\ AncestorAt(index[c].pskip, h) = AncestorAt(c, h)
<1>1. c \in Blocks /\ Depth(c) = m
  BY KnownPath, Zenon
<1>2. c # Genesis
  <2>1. m # 0
    OBVIOUS
  <2> QED
    BY <1>1, <2>1, DepthZero, Zenon
<1>3. HashPrev[c] \in Known
  BY <1>2, Zenon DEF KnownInv
<1>4. h \in 0 .. m - 1 /\ h \in 0 .. m
  OBVIOUS
<1>5. Depth(HashPrev[c]) = m - 1 /\ AncestorAt(HashPrev[c], h) = AncestorAt(c, h)
  BY <1>1, <1>2, <1>4, AncestorPrev, Zenon
<1>6. index[HashPrev[c]].nHeight = m - 1
  BY <1>3, <1>5, KnownPath, Zenon
<1>7. PICK s : s = GetSkipHeight(m)
  BY Zenon
<1>8. s \in 0 .. m - 1 /\ s \in 0 .. m
  BY <1>7, SkipBack
<1>9. index[c].pskip = AncestorAt(c, s)
  BY <1>2, <1>7, Zenon DEF SkipInv
<1>10. AncestorAt(c, s) \in Known /\ AncestorAt(c, s) \in Blocks
       /\ Depth(AncestorAt(c, s)) = s
  BY <1>1, <1>8, KnownPath, AncestorIn, Zenon
<1>11. index[AncestorAt(c, s)].nHeight = s
  BY <1>10, KnownPath, Zenon
<1>12. ASSUME FollowSkip(m, h)
       PROVE  h <= s /\ AncestorAt(AncestorAt(c, s), h) = AncestorAt(c, h)
  <2>1. s = h \/ s > h
    BY <1>7, <1>12, Zenon DEF FollowSkip
  <2>2. h <= s /\ h \in 0 .. s
    BY <1>8, <2>1
  <2> QED
    BY <1>1, <1>8, <2>2, AncestorTwice, Zenon
<1> QED
  BY <1>3, <1>5, <1>6, <1>7, <1>8, <1>9, <1>10, <1>11, <1>12, Zenon

\* GetAncestor() finds the ancestor on the path.
LEMMA AncestorFound ==
  ASSUME KnownInv, SkipInv, NEW b \in Known, NEW h \in 0 .. index[b].nHeight
  PROVE  GetAncestor(b, h) = AncestorAt(b, h)
<1> DEFINE R(G, x) == IF x[2] <= h THEN x[1]
                      ELSE IF index[x[1]].pskip # Null /\ FollowSkip(x[2], h)
                           THEN G[<<index[x[1]].pskip, GetSkipHeight(x[2])>>]
                           ELSE G[<<HashPrev[x[1]], x[2] - 1>>]
           W == [x \in Walks |-> IF x[2] <= h THEN x[1] ELSE AncestorAt(x[1], h)]
           g == CHOOSE Walk : Walk = [x \in Walks |-> R(Walk, x)]
<1>1. \A c \in Known : /\ c \in Blocks /\ c # Null /\ index[c].nHeight \in Nat
                       /\ <<c, index[c].nHeight>> \in Walks
  BY TreeAssumption, Zenon DEF KnownInv, Walks, Known
<1>2. \A x \in Walks : x[1] \in Known /\ x[2] \in Nat /\ index[x[1]].nHeight = x[2]
  BY DEF Walks, Known
<1>3. ASSUME NEW c \in Known, index[c].nHeight = h
      PROVE  AncestorAt(c, h) = c
  BY <1>1, <1>3, KnownPath, AncestorIn, Zenon
<1>4. \A c \in Known : \A m \in Nat : index[c].nHeight = m /\ m >= h =>
        W[<<c, m>>] = AncestorAt(c, h)
  <2> SUFFICES ASSUME NEW c \in Known, NEW m \in Nat, index[c].nHeight = m, m >= h
               PROVE  W[<<c, m>>] = AncestorAt(c, h)
    BY Zenon
  <2>1. <<c, m>> \in Walks
    BY <1>1, Zenon
  <2>2. W[<<c, m>>] = IF m <= h THEN c ELSE AncestorAt(c, h)
    BY <2>1, Zenon
  <2>3. m <= h => m = h
    OBVIOUS
  <2> QED
    BY <1>3, <2>2, <2>3, Zenon
<1>5. \A x \in Walks : W[x] = R(W, x)
  <2> SUFFICES ASSUME NEW x \in Walks PROVE W[x] = R(W, x)
    BY Zenon
  <2>1. PICK c \in Known, m \in Nat : c = x[1] /\ m = x[2] /\ index[c].nHeight = m
    BY <1>2, Zenon
  <2>2. W[x] = IF m <= h THEN c ELSE AncestorAt(c, h)
    BY <2>1, Zenon
  <2> HIDE DEF W
  <2>3. CASE m <= h
    BY <2>1, <2>2, <2>3, Zenon
  <2>4. CASE ~(m <= h)
    <3>1. h < m /\ h \in Nat /\ h <= m - 1 /\ m - 1 \in Nat
      BY <1>1, <2>1, <2>4
    <3>2. PICK s : s = GetSkipHeight(m)
      BY Zenon
    <3>3. s \in Nat
      BY <2>1, <3>1, <3>2, WalkStep
    <3>4. CASE index[c].pskip # Null /\ FollowSkip(m, h)
      <4>1. /\ h <= s /\ AncestorAt(index[c].pskip, h) = AncestorAt(c, h)
            /\ index[c].pskip \in Known /\ index[index[c].pskip].nHeight = s
        BY <2>1, <3>1, <3>2, <3>4, WalkStep, Zenon
      <4>2. s >= h
        BY <3>1, <3>3, <4>1
      <4>3. W[<<index[c].pskip, s>>] = AncestorAt(c, h)
        BY <1>4, <3>3, <4>1, <4>2, Zenon
      <4> QED
        BY <2>1, <2>2, <2>4, <3>2, <3>4, <4>3, Zenon
    <3>5. CASE ~(index[c].pskip # Null /\ FollowSkip(m, h))
      <4>1. /\ HashPrev[c] \in Known /\ index[HashPrev[c]].nHeight = m - 1
            /\ AncestorAt(HashPrev[c], h) = AncestorAt(c, h)
        BY <2>1, <3>1, WalkStep, Zenon
      <4>2. m - 1 >= h
        BY <3>1
      <4>3. W[<<HashPrev[c], m - 1>>] = AncestorAt(c, h)
        BY <1>4, <3>1, <4>1, <4>2, Zenon
      <4> QED
        BY <2>1, <2>2, <2>4, <3>5, <4>3, Zenon
    <3> QED
      BY <3>4, <3>5, Zenon
  <2> QED
    BY <2>3, <2>4, Zenon
<1>6. W = [x \in Walks |-> R(W, x)]
  <2>1. W = [x \in Walks |-> W[x]]
    OBVIOUS
  <2> HIDE DEF W, R
  <2> QED
    BY <1>5, <2>1, Zenon
<1>7. g = [x \in Walks |-> R(g, x)]
  <2> HIDE DEF W
  <2> QED
    BY <1>6, Zenon
<1>8. GetAncestor(b, h) = g[<<b, index[b].nHeight>>]
  <2>1. PICK m \in Nat : m = index[b].nHeight /\ h \in 0 .. m
    BY <1>1, Zenon
  <2>2. ~(h > m \/ h < 0)
    BY <2>1
  <2> QED
    BY <2>1, <2>2, Zenon DEF GetAncestor
<1> HIDE DEF g
<1>9. \A x \in Walks : g[x] = R(g, x)
  <2> HIDE DEF R
  <2> QED
    BY <1>7, Zenon
<1> DEFINE Bad == {m \in Nat : \E c \in Known : /\ index[c].nHeight = m /\ m >= h
                                                /\ g[<<c, m>>] # AncestorAt(c, h)}
<1>10. Bad = {}
  <2> SUFFICES ASSUME Bad # {} PROVE FALSE
    BY Zenon
  <2>1. Bad \subseteq Nat
    BY Zenon
  <2>2. PICK m \in Bad : \A n \in Bad : m <= n
    BY <2>1, Smallest, Zenon
  <2>3. PICK c \in Known : /\ index[c].nHeight = m /\ m >= h /\ m \in Nat
                           /\ g[<<c, m>>] # AncestorAt(c, h)
    BY <2>2, Zenon
  <2>4. <<c, m>> \in Walks
    BY <1>1, <2>3, Zenon
  <2>5. g[<<c, m>>] = IF m <= h THEN c
                      ELSE IF index[c].pskip # Null /\ FollowSkip(m, h)
                           THEN g[<<index[c].pskip, GetSkipHeight(m)>>]
                           ELSE g[<<HashPrev[c], m - 1>>]
    BY <1>9, <2>4
  <2>6. CASE m <= h
    <3>1. m = h
      BY <2>3, <2>6
    <3> QED
      BY <1>3, <2>3, <2>5, <2>6, <3>1, Zenon
  <2>7. CASE ~(m <= h)
    <3>1. /\ h < m /\ h \in Nat /\ m - 1 >= h /\ m - 1 \in Nat /\ ~(m <= m - 1)
      BY <1>1, <2>3, <2>7
    <3>2. PICK s : s = GetSkipHeight(m)
      BY Zenon
    <3>3. /\ HashPrev[c] \in Known /\ index[HashPrev[c]].nHeight = m - 1
          /\ AncestorAt(HashPrev[c], h) = AncestorAt(c, h)
          /\ s \in 0 .. m - 1
          /\ index[c].pskip \in Known /\ index[index[c].pskip].nHeight = s
          /\ FollowSkip(m, h) => /\ h <= s
                                 /\ AncestorAt(index[c].pskip, h) = AncestorAt(c, h)
      <4> HIDE DEF Bad, R
      <4> QED
        BY <2>3, <3>1, <3>2, WalkStep, Zenon
    <3>4. s \in Nat /\ ~(m <= s)
      BY <3>1, <3>3
    <3>5. CASE index[c].pskip # Null /\ FollowSkip(m, h)
      <4>1. /\ h <= s /\ AncestorAt(index[c].pskip, h) = AncestorAt(c, h)
            /\ index[c].pskip \in Known /\ index[index[c].pskip].nHeight = s
        BY <3>3, <3>5, Zenon
      <4>2. s >= h
        BY <3>1, <3>4, <4>1
      <4>3. g[<<index[c].pskip, s>>] = AncestorAt(index[c].pskip, h)
        BY <2>2, <3>4, <4>1, <4>2, Zenon
      <4> QED
        BY <2>3, <2>5, <2>7, <3>2, <3>5, <4>1, <4>3, Zenon
    <3>6. CASE ~(index[c].pskip # Null /\ FollowSkip(m, h))
      <4>1. g[<<HashPrev[c], m - 1>>] = AncestorAt(HashPrev[c], h)
        BY <2>2, <3>1, <3>3, Zenon
      <4> QED
        BY <2>3, <2>5, <2>7, <3>3, <3>6, <4>1, Zenon
    <3> QED
      BY <3>5, <3>6, Zenon
  <2> QED
    BY <2>6, <2>7, Zenon
<1>11. PICK m \in Nat : m = index[b].nHeight /\ h \in 0 .. m
  BY <1>1, Zenon
<1>12. m >= h
  BY <1>11
<1> QED
  BY <1>8, <1>10, <1>11, <1>12, Zenon

-----------------------------------------------------------------------------
(* The active chain *)

\* vChain.resize() keeps the beginning of the chain; what it adds is null.
LEMMA ResizedIs ==
  ASSUME NEW S, NEW chain \in Seq(S), NEW n \in Nat
  PROVE  /\ Resized(chain, n) = [i \in 1 .. n |-> Resized(chain, n)[i]]
         /\ \A i \in 1 .. n : Resized(chain, n)[i] =
              IF i <= Len(chain) THEN chain[i] ELSE Null
<1>1. PICK m \in Nat : m = Len(chain)
  OBVIOUS
<1>2. CASE n <= m
  <2>1. Resized(chain, n) = SubSeq(chain, 1, n)
    BY <1>1, <1>2 DEF Resized
  <2> QED
    BY <1>1, <1>2, <2>1
<1>3. CASE ~(n <= m)
  <2>1. PICK s : s = [h \in 1 .. n - m |-> Null]
    BY Zenon
  <2>2. Resized(chain, n) = chain \o s
    BY <1>1, <1>3, <2>1 DEF Resized
  <2>3. n - m \in Nat /\ s \in Seq({Null}) /\ Len(s) = n - m
    BY <1>1, <1>3, <2>1
  <2>4. \A i \in 1 .. n : (chain \o s)[i] = IF i <= m THEN chain[i] ELSE s[i - m]
    BY <1>1, <1>3, <2>3
  <2>5. chain \o s = [i \in 1 .. n |-> (chain \o s)[i]]
    <3>1. chain \in Seq(S \cup {Null}) /\ s \in Seq(S \cup {Null})
      BY <2>3
    <3>2. chain \o s \in Seq(S \cup {Null}) /\ Len(chain \o s) = n
      BY <1>1, <1>3, <2>3, <3>1
    <3> QED
      BY <3>2, SeqFcn, Zenon
  <2>6. \A i \in 1 .. n : ~(i <= m) => i - m \in 1 .. n - m
    BY <1>1, <1>3
  <2> QED
    BY <1>1, <2>1, <2>2, <2>4, <2>5, <2>6, Zenon
<1> QED
  BY <1>2, <1>3

\* If the resized chain has an ancestor of b in its place, it has those before
\* it in theirs: the chain is the path to some block, and paths that meet agree
\* up to there.
LEMMA OldAgrees ==
  ASSUME KnownInv, NEW b \in Known, NEW chain,
         chain = <<>> \/ \E t \in Known : chain = PathTo(t),
         NEW j \in 1 .. Depth(b) + 1, NEW i \in 1 .. j,
         Resized(chain, Depth(b) + 1)[j] = AncestorAt(b, j - 1)
  PROVE  Resized(chain, Depth(b) + 1)[i] = AncestorAt(b, i - 1)
<1>1. b \in Blocks
  BY Zenon DEF KnownInv
<1>2. PICK n \in Nat : n = Depth(b)
  BY <1>1, AncestorIn, Zenon
<1>3. /\ n + 1 \in Nat /\ j \in 1 .. n + 1 /\ i \in 1 .. n + 1 /\ j - 1 \in 0 .. n
      /\ i - 1 \in 0 .. n /\ i - 1 \in 0 .. j - 1 /\ j \in Nat /\ i \in Nat
      /\ (i - 1) + 1 = i /\ (j - 1) + 1 = j
  BY <1>2
<1>4. chain \in Seq(Blocks)
  <2>1. <<>> \in Seq(Blocks)
    OBVIOUS
  <2>2. \A t \in Known : PathTo(t) \in Seq(Blocks)
    BY PathIs, Zenon DEF KnownInv, IsPath
  <2> QED
    BY <2>1, <2>2, Zenon
<1>5. \A k \in 1 .. n + 1 : Resized(chain, n + 1)[k] =
                             IF k <= Len(chain) THEN chain[k] ELSE Null
  BY <1>3, <1>4, ResizedIs, Zenon
<1>6. AncestorAt(b, j - 1) \in Blocks /\ AncestorAt(b, j - 1) # Null
  <2>1. AncestorAt(b, j - 1) \in Blocks
    BY <1>1, <1>2, <1>3, AncestorIn, Zenon
  <2>2. Null \notin Blocks
    BY TreeAssumption, Zenon
  <2> QED
    BY <2>1, <2>2, Zenon
<1>7. j <= Len(chain) /\ chain[j] = AncestorAt(b, j - 1)
  BY <1>2, <1>3, <1>5, <1>6, Zenon
<1>8. chain # <<>>
  BY <1>3, <1>7
<1>9. PICK t \in Known : chain = PathTo(t)
  BY <1>8, Zenon
<1>10. t \in Blocks
  BY Zenon DEF KnownInv
<1>11. PICK m \in Nat : m = Depth(t) /\ Len(chain) = m + 1
  <2>1. IsPath(chain, t) /\ Depth(t) = Len(chain) - 1
    BY <1>9, <1>10, PathIs, Zenon DEF Depth
  <2>2. Len(chain) \in Nat /\ Len(chain) >= 1
    BY <2>1 DEF IsPath
  <2>3. Depth(t) \in Nat /\ Len(chain) = Depth(t) + 1
    BY <2>1, <2>2
  <2> QED
    BY <2>3, Zenon
<1>12. j - 1 \in 0 .. m /\ i - 1 \in 0 .. m /\ i <= m + 1
  BY <1>3, <1>7, <1>11
<1>13. chain[j] = AncestorAt(t, j - 1) /\ chain[i] = AncestorAt(t, i - 1)
  <2>1. /\ AncestorAt(t, j - 1) = chain[(j - 1) + 1]
        /\ AncestorAt(t, i - 1) = chain[(i - 1) + 1]
    BY <1>9, <1>10, <1>11, <1>12, AncestorIn, Zenon
  <2> QED
    BY <1>3, <2>1, Zenon
<1>14. AncestorAt(AncestorAt(t, j - 1), i - 1) = AncestorAt(t, i - 1)
  BY <1>3, <1>10, <1>11, <1>12, AncestorTwice, Zenon
<1>15. AncestorAt(AncestorAt(b, j - 1), i - 1) = AncestorAt(b, i - 1)
  BY <1>1, <1>2, <1>3, AncestorTwice, Zenon
<1>16. Resized(chain, n + 1)[i] = chain[i]
  BY <1>3, <1>5, <1>11, <1>12, Zenon
<1> QED
  BY <1>2, <1>7, <1>13, <1>14, <1>15, <1>16, Zenon

\* SetTip() makes the chain the path to its new tip, whatever block that is.
LEMMA TipSet ==
  ASSUME KnownInv, NEW b \in Known, NEW chain,
         chain = <<>> \/ \E t \in Known : chain = PathTo(t)
  PROVE  SetTip(chain, b) = PathTo(b)
<1> DEFINE L == Depth(b) + 1
           old == Resized(chain, index[b].nHeight + 1)
           R(f, c) == IF c = Null THEN old
                      ELSE IF old[index[c].nHeight + 1] = c THEN old
                      ELSE [f[HashPrev[c]] EXCEPT ![index[c].nHeight + 1] = c]
           g == CHOOSE Fill : Fill = [c \in Known \cup {Null} |-> R(Fill, c)]
           Free(c, i) == /\ i - 1 \in 0 .. Depth(c)
                         /\ \A j \in i .. Depth(c) + 1 : old[j] # AncestorAt(c, j - 1)
           Put(c, i) == IF Free(c, i) THEN AncestorAt(c, i - 1) ELSE old[i]
           V == [c \in Known \cup {Null} |->
                   IF c = Null THEN old ELSE [i \in 1 .. L |-> Put(c, i)]]
<1>1. SetTip(chain, b) = g[b]
  BY Zenon DEF SetTip
<1>2. b \in Blocks /\ index[b].nHeight = Depth(b) /\ Depth(b) \in Nat /\ L \in Nat
  <2>1. b \in Blocks /\ index[b].nHeight = Depth(b) /\ Depth(b) \in Nat
    BY KnownPath, AncestorIn, Zenon
  <2> QED
    BY <2>1
<1>3. old = [i \in 1 .. L |-> old[i]]
  <2>1. chain \in Seq(Blocks)
    <3>1. <<>> \in Seq(Blocks)
      OBVIOUS
    <3>2. \A t \in Known : PathTo(t) \in Seq(Blocks)
      BY PathIs, Zenon DEF KnownInv, IsPath
    <3> QED
      BY <3>1, <3>2, Zenon
  <2>2. L \in Nat /\ L = index[b].nHeight + 1
    BY <1>2
  <2>3. Resized(chain, L) = [i \in 1 .. L |-> Resized(chain, L)[i]]
    BY <2>1, <2>2, ResizedIs, Zenon
  <2> QED
    BY <2>2, <2>3, Zenon
<1>4. \A j \in 1 .. L : \A i \in 1 .. j :
        old[j] = AncestorAt(b, j - 1) => old[i] = AncestorAt(b, i - 1)
  <2>1. \A j \in 1 .. Depth(b) + 1 : \A i \in 1 .. j :
          Resized(chain, Depth(b) + 1)[j] = AncestorAt(b, j - 1)
            => Resized(chain, Depth(b) + 1)[i] = AncestorAt(b, i - 1)
    BY OldAgrees, Zenon
  <2> QED
    BY <1>2, <2>1, Zenon
<1> HIDE DEF old, L
<1>5. ASSUME NEW c \in Known
      PROVE  c \in Blocks /\ c # Null /\ index[c].nHeight = Depth(c) /\ Depth(c) \in Nat
             /\ AncestorAt(c, Depth(c)) = c
             /\ V[c] = [i \in 1 .. L |-> Put(c, i)] /\ c \in Known \cup {Null}
  <2>1. c \in Blocks /\ c # Null
    BY TreeAssumption, Zenon DEF KnownInv
  <2>2. index[c].nHeight = Depth(c) /\ Depth(c) \in Nat /\ AncestorAt(c, Depth(c)) = c
    BY <2>1, KnownPath, AncestorIn, Zenon
  <2> QED
    BY <2>1, <2>2, Zenon
<1>6. V[Null] = old /\ Null \in Known \cup {Null}
  BY Zenon
<1>7. ASSUME NEW c \in Known, old[Depth(c) + 1] = c, NEW i \in 1 .. L
      PROVE  Put(c, i) = old[i]
  <2> SUFFICES ASSUME Free(c, i) PROVE FALSE
    BY Zenon
  <2>1. PICK d \in Nat : d = Depth(c)
    BY <1>5, Zenon
  <2>2. i \in Nat /\ i - 1 \in 0 .. d
    BY <1>2, <2>1
  <2>3. d + 1 \in i .. d + 1 /\ (d + 1) - 1 = d
    BY <2>1, <2>2
  <2>4. old[d + 1] # AncestorAt(c, (d + 1) - 1)
    BY <2>1, <2>3, Zenon
  <2>5. AncestorAt(c, (d + 1) - 1) = c
    BY <1>5, <2>1, <2>3, Zenon
  <2> QED
    BY <1>7, <2>1, <2>4, <2>5, Zenon
<1>8. ASSUME NEW c \in Known, old[Depth(c) + 1] # c, NEW i \in 1 .. L
      PROVE  Put(c, i) = IF i = Depth(c) + 1 THEN c ELSE V[HashPrev[c]][i]
  <2>1. PICK d \in Nat : d = Depth(c)
    BY <1>5, Zenon
  <2>2. i \in Nat /\ i >= 1
    BY <1>2
  <2>3. CASE i = d + 1
    <3>1. i - 1 = d /\ d \in 0 .. d /\ \A j \in i .. d + 1 : j = i
      BY <2>1, <2>3
    <3>2. Free(c, i)
      BY <1>5, <1>8, <2>1, <2>3, <3>1, Zenon
    <3> QED
      BY <1>5, <2>1, <2>3, <3>1, <3>2, Zenon
  <2>4. CASE i # d + 1 /\ c = Genesis
    <3>1. d = 0
      BY <1>5, <2>1, <2>4, DepthZero, Zenon
    <3>2. ~(i - 1 \in 0 .. d)
      BY <2>2, <2>4, <3>1
    <3>3. HashPrev[c] = Null
      BY <2>4, TreeAssumption, Zenon
    <3> QED
      BY <1>6, <2>1, <2>4, <3>2, <3>3, Zenon
  <2>5. CASE i # d + 1 /\ c # Genesis
    <3>1. HashPrev[c] \in Known
      BY <2>5, Zenon DEF KnownInv
    <3>2. /\ Depth(HashPrev[c]) = d - 1 /\ d >= 1
          /\ \A k \in 0 .. d - 1 : AncestorAt(HashPrev[c], k) = AncestorAt(c, k)
      BY <1>5, <2>1, <2>5, AncestorPrev, Zenon
    <3>3. V[HashPrev[c]][i] = Put(HashPrev[c], i)
      BY <1>5, <3>1, Zenon
    <3>4. i - 1 \in 0 .. d <=> i - 1 \in 0 .. d - 1
      BY <2>1, <2>2, <2>5
    <3>5. ASSUME i - 1 \in 0 .. d - 1
          PROVE  /\ \A j \in i .. d + 1 : j = d + 1 \/ j \in i .. (d - 1) + 1
                 /\ \A j \in i .. (d - 1) + 1 : j \in i .. d + 1 /\ j - 1 \in 0 .. d - 1
                 /\ (d + 1) - 1 = d
      BY <2>1, <2>2, <3>5
    <3>6. Free(c, i) <=> Free(HashPrev[c], i)
      BY <1>5, <1>8, <2>1, <3>2, <3>4, <3>5, Zenon
    <3>7. Free(c, i) => AncestorAt(HashPrev[c], i - 1) = AncestorAt(c, i - 1)
      BY <2>1, <3>2, <3>4, Zenon
    <3>8. Put(c, i) = Put(HashPrev[c], i)
      BY <3>6, <3>7, Zenon
    <3>9. i # Depth(c) + 1
      BY <2>1, <2>5, Zenon
    <3> HIDE DEF Put, V
    <3> QED
      BY <3>3, <3>8, <3>9, Zenon
  <2> QED
    BY <2>3, <2>4, <2>5, Zenon
<1>9. \A c \in Known \cup {Null} : V[c] = R(V, c)
  <2> SUFFICES ASSUME NEW c \in Known PROVE V[c] = R(V, c)
    BY <1>6, Zenon
  <2>1. /\ c # Null /\ index[c].nHeight = Depth(c)
        /\ V[c] = [i \in 1 .. L |-> Put(c, i)]
    BY <1>5, Zenon
  <2>2. CASE old[Depth(c) + 1] = c
    <3>1. [i \in 1 .. L |-> Put(c, i)] = [i \in 1 .. L |-> old[i]]
      <4> HIDE DEF Put
      <4> QED
        BY <1>7, <2>2, Zenon
    <3> HIDE DEF V, Put
    <3> QED
      BY <1>3, <2>1, <2>2, <3>1, Zenon
  <2>3. CASE old[Depth(c) + 1] # c
    <3>1. DOMAIN V[HashPrev[c]] = 1 .. L
      <4>1. CASE c = Genesis
        <5>1. HashPrev[c] = Null
          BY <4>1, TreeAssumption, Zenon
        <5>2. DOMAIN old = 1 .. L
          BY <1>3, Zenon
        <5> QED
          BY <1>6, <5>1, <5>2, Zenon
      <4>2. CASE c # Genesis
        <5>1. HashPrev[c] \in Known
          BY <4>2, Zenon DEF KnownInv
        <5>2. V[HashPrev[c]] = [i \in 1 .. L |-> Put(HashPrev[c], i)]
          BY <1>5, <5>1, Zenon
        <5> HIDE DEF V, Put
        <5> QED
          BY <5>2, Zenon
      <4> QED
        BY <4>1, <4>2, Zenon
    <3>2. R(V, c) = [V[HashPrev[c]] EXCEPT ![Depth(c) + 1] = c]
      BY <2>1, <2>3, Zenon
    <3> HIDE DEF V, Put
    <3>3. PICK v : v = V[HashPrev[c]]
      BY Zenon
    <3>4. [v EXCEPT ![Depth(c) + 1] = c] =
            [i \in 1 .. L |-> IF i = Depth(c) + 1 THEN c ELSE v[i]]
      BY <3>1, <3>3, Zenon
    <3>5. [i \in 1 .. L |-> Put(c, i)] =
            [i \in 1 .. L |-> IF i = Depth(c) + 1 THEN c ELSE v[i]]
      BY <1>8, <2>3, <3>3, Zenon
    <3> QED
      BY <2>1, <3>2, <3>3, <3>4, <3>5, Zenon
  <2> QED
    BY <2>2, <2>3, Zenon
<1>10. V = [c \in Known \cup {Null} |-> R(V, c)]
  <2>1. V = [c \in Known \cup {Null} |-> V[c]]
    BY Zenon
  <2> HIDE DEF V, R
  <2> QED
    BY <1>9, <2>1, Zenon
<1>11. \A c \in Known \cup {Null} : g[c] = R(g, c)
  <2>1. g = [c \in Known \cup {Null} |-> R(g, c)]
    <3> HIDE DEF V
    <3> QED
      BY <1>10, Zenon
  <2> HIDE DEF g, R
  <2> QED
    BY <2>1, Zenon
<1> HIDE DEF g, V
\* From here on g is what SetTip() computes.
<1> DEFINE Done(k) == g[AncestorAt(b, k)] =
                        [i \in 1 .. L |-> IF i - 1 <= k THEN AncestorAt(b, i - 1) ELSE old[i]]
           Bad == {k \in 0 .. Depth(b) : ~Done(k)}
<1>12. Bad = {}
  <2> SUFFICES ASSUME Bad # {} PROVE FALSE
    BY Zenon
  <2>1. Bad \subseteq Nat
    BY <1>2
  <2>2. PICK k \in Bad : \A m \in Bad : k <= m
    BY <2>1, Smallest, Zenon
  <2>3. k \in 0 .. Depth(b) /\ k \in Nat /\ ~Done(k)
    BY <2>1, <2>2, Zenon
  <2>4. PICK c \in Known : c = AncestorAt(b, k) /\ Depth(c) = k
    BY <1>2, <2>3, KnownPath, AncestorIn, Zenon
  <2>5. c \in Blocks /\ g[c] = R(g, c) /\ c # Null /\ index[c].nHeight = k
    BY <1>5, <1>11, <2>4, Zenon
  <2>6. k + 1 \in 1 .. L /\ (k + 1) - 1 = k
    BY <1>2, <2>3 DEF L
  <2>7. CASE old[k + 1] = c
    <3>1. g[c] = old
      BY <2>5, <2>7, Zenon
    <3>2. old[k + 1] = AncestorAt(b, (k + 1) - 1)
      BY <2>4, <2>6, <2>7, Zenon
    <3>3. \A i \in 1 .. L : i - 1 <= k => i \in 1 .. k + 1
      BY <1>2, <2>3
    <3>4. \A i \in 1 .. L : old[i] = IF i - 1 <= k THEN AncestorAt(b, i - 1) ELSE old[i]
      BY <1>4, <2>6, <3>2, <3>3, Zenon
    <3>5. [i \in 1 .. L |-> old[i]] =
            [i \in 1 .. L |-> IF i - 1 <= k THEN AncestorAt(b, i - 1) ELSE old[i]]
      BY <3>4, Zenon
    <3> QED
      BY <1>3, <2>3, <2>4, <3>1, <3>5, Zenon
  <2>8. CASE old[k + 1] # c
    <3>1. g[c] = [g[HashPrev[c]] EXCEPT ![k + 1] = c]
      BY <2>5, <2>8, Zenon
    <3>2. PICK v : /\ v = g[HashPrev[c]] /\ DOMAIN v = 1 .. L
                   /\ \A i \in 1 .. L : i # k + 1 =>
                        v[i] = IF i - 1 <= k THEN AncestorAt(b, i - 1) ELSE old[i]
      <4>1. CASE c = Genesis
        <5>1. k = 0
          BY <2>4, <2>5, <4>1, DepthZero, Zenon
        <5>2. g[HashPrev[c]] = old
          BY <1>6, <1>11, <4>1, TreeAssumption, Zenon
        <5>3. \A i \in 1 .. L : i # k + 1 => ~(i - 1 <= k)
          BY <1>2, <5>1
        <5>4. DOMAIN old = 1 .. L
          BY <1>3, Zenon
        <5> QED
          BY <5>2, <5>3, <5>4, Zenon
      <4>2. CASE c # Genesis
        <5>1. /\ k >= 1 /\ HashPrev[c] = AncestorAt(c, k - 1)
          BY <2>4, <2>5, <4>2, AncestorPrev, Zenon
        <5>2. k - 1 \in 0 .. k /\ k - 1 \in 0 .. Depth(b) /\ ~(k <= k - 1)
          BY <1>2, <2>3, <5>1
        <5>3. HashPrev[c] = AncestorAt(b, k - 1)
          BY <1>2, <2>3, <2>4, <5>1, <5>2, AncestorTwice, Zenon
        <5>4. Done(k - 1)
          BY <2>2, <5>2, Zenon
        <5>5. \A i \in 1 .. L : i # k + 1 => (i - 1 <= k - 1 <=> i - 1 <= k)
          BY <1>2, <2>3
        <5>6. PICK v : v = g[HashPrev[c]]
          BY Zenon
        <5>7. v = [i \in 1 .. L |-> IF i - 1 <= k - 1 THEN AncestorAt(b, i - 1) ELSE old[i]]
          BY <5>3, <5>4, <5>6, Zenon
        <5>8. DOMAIN v = 1 .. L /\ \A i \in 1 .. L :
                v[i] = IF i - 1 <= k - 1 THEN AncestorAt(b, i - 1) ELSE old[i]
          BY <5>7, Zenon
        <5> QED
          BY <5>5, <5>6, <5>8, Zenon
      <4> QED
        BY <4>1, <4>2, Zenon
    <3>3. [v EXCEPT ![k + 1] = c] = [i \in 1 .. L |-> IF i = k + 1 THEN c ELSE v[i]]
      BY <3>2, Zenon
    <3>4. k <= k
      BY <2>3
    <3>5. \A i \in 1 .. L : (IF i = k + 1 THEN c ELSE v[i])
                             = IF i - 1 <= k THEN AncestorAt(b, i - 1) ELSE old[i]
      BY <2>4, <2>6, <3>2, <3>4, Zenon
    <3>6. [i \in 1 .. L |-> IF i = k + 1 THEN c ELSE v[i]] =
            [i \in 1 .. L |-> IF i - 1 <= k THEN AncestorAt(b, i - 1) ELSE old[i]]
      BY <3>5, Zenon
    <3> QED
      BY <2>3, <2>4, <3>1, <3>2, <3>3, <3>6, Zenon
  <2> QED
    BY <2>7, <2>8, Zenon
<1>13. Depth(b) \in 0 .. Depth(b) /\ AncestorAt(b, Depth(b)) = b
  <2>1. \A n \in Nat : n \in 0 .. n
    OBVIOUS
  <2> QED
    BY <1>2, <1>5, <2>1, Zenon
<1>14. g[b] = [i \in 1 .. L |-> IF i - 1 <= Depth(b) THEN AncestorAt(b, i - 1) ELSE old[i]]
  BY <1>12, <1>13, Zenon
<1>15. PICK p : p = PathTo(b) /\ p \in Seq(Blocks) /\ Len(p) = L
  <2>1. IsPath(PathTo(b), b) /\ Depth(b) = Len(PathTo(b)) - 1
    BY <1>2, PathIs, Zenon DEF Depth
  <2>2. Len(PathTo(b)) \in Nat /\ PathTo(b) \in Seq(Blocks)
    BY <2>1 DEF IsPath
  <2>3. Len(PathTo(b)) = L
    BY <2>1, <2>2 DEF L
  <2> QED
    BY <2>2, <2>3, Zenon
<1>16. p = [i \in 1 .. L |-> p[i]]
  BY <1>15, SeqFcn, Zenon
<1>17. \A i \in 1 .. L : i - 1 <= Depth(b) /\ i - 1 \in 0 .. Depth(b) /\ (i - 1) + 1 = i
  BY <1>2 DEF L
<1>18. \A i \in 1 .. L :
         p[i] = IF i - 1 <= Depth(b) THEN AncestorAt(b, i - 1) ELSE old[i]
  <2> TAKE i \in 1 .. L
  <2>1. AncestorAt(b, i - 1) = PathTo(b)[(i - 1) + 1]
    BY <1>2, <1>17, AncestorIn, Zenon
  <2> QED
    BY <1>15, <1>17, <2>1, Zenon
<1>19. [i \in 1 .. L |-> p[i]] =
         [i \in 1 .. L |-> IF i - 1 <= Depth(b) THEN AncestorAt(b, i - 1) ELSE old[i]]
  BY <1>18, Zenon
<1> QED
  BY <1>1, <1>14, <1>15, <1>16, <1>19, Zenon

\* The chain is empty while the index is loaded, and the path to its tip after
\* that; whenever no tip is being changed or flushed the coins are at the tip.
ChainInv ==
  /\ IF pc = "load" THEN vChain = <<>> ELSE Tip \in Known /\ vChain = PathTo(Tip)
  /\ pc = "run" => coins_best = Tip

\* nTimeMax is the larger of the block's own time and its parent's nTimeMax.
TimeInv ==
  \A b \in Known :
    /\ index[b].nTimeMax \in Nat
    /\ index[b].nTimeMax =
         IF b # Genesis /\ index[HashPrev[b]].nTimeMax > Time[b]
         THEN index[HashPrev[b]].nTimeMax ELSE Time[b]

PathInv == SkipInv /\ TimeInv /\ ChainInv

\* Blocks that join the index get the skip pointer of their path, and the
\* others keep theirs.
LEMMA SkipAdded ==
  ASSUME KnownInv, SkipInv, KnownInv',
         NEW new, Known' = Known \cup new, new \subseteq Blocks,
         \A b \in new : /\ index'[b] = Entry(b, index'[b].nHeight)
                        /\ b # Genesis => HashPrev[b] \in Known,
         \A c \in Known : index'[c] = index[c]
  PROVE  SkipInv'
<1> SUFFICES ASSUME NEW b \in new
             PROVE  index'[b].pskip = IF b = Genesis THEN Null
                                      ELSE AncestorAt(b, GetSkipHeight(index'[b].nHeight))
  BY Zenon DEF SkipInv
<1>1. PICK h : h = index'[b].nHeight
  BY Zenon
<1>2. index'[b].pskip = IF HashPrev[b] = Null THEN Null
                        ELSE GetAncestor(HashPrev[b], GetSkipHeight(h))
  <2>1. index'[b] = Entry(b, h)
    BY <1>1, Zenon
  <2> QED
    BY <2>1 DEF Entry
<1>3. CASE b = Genesis
  BY <1>2, <1>3, TreeAssumption, Zenon
<1>4. CASE b # Genesis
  <2>1. b \in Blocks /\ HashPrev[b] \in Known /\ HashPrev[b] # Null
    BY <1>4, TreeAssumption, Zenon
  <2>2. index'[b].nHeight = index'[HashPrev[b]].nHeight + 1
    BY <1>4, Zenon DEF KnownInv
  <2>3. index'[HashPrev[b]] = index[HashPrev[b]]
    BY <2>1, Zenon
  <2>4. PICK n \in Nat : n = index[HashPrev[b]].nHeight /\ n = Depth(HashPrev[b])
    BY <2>1, KnownPath, Zenon DEF KnownInv
  <2>5. h = n + 1
    BY <1>1, <2>2, <2>3, <2>4, Zenon
  <2>6. PICK s : s = GetSkipHeight(h) /\ s \in 0 .. n
    BY <2>4, <2>5, SkipBack
  <2>7. GetAncestor(HashPrev[b], s) = AncestorAt(HashPrev[b], s)
    BY <2>1, <2>4, <2>6, AncestorFound, Zenon
  <2>8. PICK d \in Nat : d = Depth(b) /\ n = d - 1
    BY <1>4, <2>1, <2>4, AncestorIn, AncestorPrev, Zenon
  <2>9. AncestorAt(HashPrev[b], s) = AncestorAt(b, s)
    BY <1>4, <2>1, <2>6, <2>8, AncestorPrev, Zenon
  <2> QED
    BY <1>1, <1>2, <1>4, <2>1, <2>6, <2>7, <2>9, Zenon
<1> QED
  BY <1>3, <1>4

\* ... and their own time or their parent's nTimeMax.
LEMMA TimeAdded ==
  ASSUME KnownInv, TimeInv, KnownInv',
         NEW new, Known' = Known \cup new, new \subseteq Blocks,
         \A b \in new : /\ index'[b] = Entry(b, index'[b].nHeight)
                        /\ b # Genesis => HashPrev[b] \in Known,
         \A c \in Known : index'[c] = index[c]
  PROVE  TimeInv'
<1>1. ASSUME NEW b \in new
      PROVE  /\ index'[b].nTimeMax \in Nat
             /\ index'[b].nTimeMax =
                  IF b # Genesis /\ index'[HashPrev[b]].nTimeMax > Time[b]
                  THEN index'[HashPrev[b]].nTimeMax ELSE Time[b]
  <2>1. index'[b].nTimeMax = TimeMax(b)
    <3>1. PICK h : h = index'[b].nHeight /\ index'[b] = Entry(b, h)
      BY Zenon
    <3> QED
      BY <3>1 DEF Entry
  <2>2. HashPrev[b] = Null <=> b = Genesis
    BY TreeAssumption, Zenon
  <2>3. b # Genesis => /\ index'[HashPrev[b]] = index[HashPrev[b]]
                       /\ index[HashPrev[b]].nTimeMax \in Nat
    BY Zenon DEF TimeInv
  <2>4. Time[b] \in Nat
    BY TreeAssumption, Zenon
  <2> QED
    BY <2>1, <2>2, <2>3, <2>4, Zenon DEF TimeMax
<1>2. ASSUME NEW c \in Known
      PROVE  /\ index'[c].nTimeMax \in Nat
             /\ index'[c].nTimeMax =
                  IF c # Genesis /\ index'[HashPrev[c]].nTimeMax > Time[c]
                  THEN index'[HashPrev[c]].nTimeMax ELSE Time[c]
  <2>1. c # Genesis => HashPrev[c] \in Known
    BY Zenon DEF KnownInv
  <2> QED
    BY <2>1, Zenon DEF TimeInv
<1> QED
  BY <1>1, <1>2, Zenon DEF TimeInv

\* At the start there is no index and no chain.
LEMMA InitPath == Init => PathInv
  BY DEF Init, PathInv, SkipInv, TimeInv, ChainInv, Known

\* The steps that leave the index alone leave the skip pointers alone.
LEMMA SameIndex ==
  ASSUME SkipInv, TimeInv, index' = index
  PROVE  SkipInv' /\ TimeInv'
  BY Zenon DEF SkipInv, TimeInv, Known

\* A block of the tree is the last of its path.
LEMMA LastOfPath ==
  ASSUME NEW b \in Blocks
  PROVE  PathTo(b)[Len(PathTo(b))] = b
  BY PathIs, Zenon DEF IsPath

\* One case per action: AddToBlockIndex() and LoadBlockIndex() build skip
\* pointers, SetTip() is called for UpdateChain and LoadChainTip, and the others
\* change neither index nor chain.
LEMMA PathNext ==
  ASSUME IndexInv, IndexInv', PathInv, Next
  PROVE  PathInv'
<1>1. KnownInv /\ KnownInv' /\ SkipInv /\ TimeInv /\ ChainInv /\ Known \subseteq Blocks
  BY Zenon DEF IndexInv, PathInv, KnownInv
<1>2. ASSUME NEW b \in Blocks, AddToBlockIndex(b) PROVE PathInv'
  <2>1. /\ pc = "run" /\ pc' = "run" /\ b \notin Known /\ HashPrev[b] \in Known
        /\ index' = With([c \in {b} |-> index[HashPrev[c]].nHeight + 1])
        /\ vChain' = vChain /\ coins_best' = coins_best
    BY <1>2, Zenon DEF AddToBlockIndex
  <2>2. PICK heights : heights = [c \in {b} |-> index[HashPrev[c]].nHeight + 1]
    BY Zenon
  <2>3. DOMAIN heights = {b} /\ heights[b] = index[HashPrev[b]].nHeight + 1
    BY <2>2
  <2>4. /\ Known' = {b} \cup Known /\ index'[b] = Entry(b, heights[b])
        /\ \A c \in Known \ {b} : index'[c] = index[c]
    <3>1. index' = With(heights)
      BY <2>1, <2>2, Zenon
    <3>2. /\ DOMAIN With(heights) = DOMAIN heights \cup Known
          /\ \A c \in DOMAIN heights : With(heights)[c] = Entry(c, heights[c])
          /\ \A c \in Known \ DOMAIN heights : With(heights)[c] = index[c]
      BY WithEntry, Zenon
    <3> QED
      BY <2>3, <3>1, <3>2 DEF Known
  <2>5. index'[b].nHeight = heights[b]
    BY <2>4, EntryFields
  <2>6. SkipInv' /\ TimeInv'
    <3>0. PICK new : new = {b}
      BY Zenon
    <3>1. Known' = Known \cup new /\ new \subseteq Blocks
      BY <2>4, <3>0
    <3>2. \A c \in new : /\ index'[c] = Entry(c, index'[c].nHeight)
                         /\ c # Genesis => HashPrev[c] \in Known
      BY <2>1, <2>4, <2>5, <3>0, Zenon
    <3>3. \A c \in Known : index'[c] = index[c]
      BY <2>1, <2>4, Zenon
    <3> QED
      BY <1>1, <3>1, <3>2, <3>3, SkipAdded, TimeAdded, Zenon
  <2>7. Tip' = Tip
    BY <2>1 DEF Tip
  <2> QED
    BY <1>1, <2>1, <2>4, <2>6, <2>7, Zenon DEF PathInv, ChainInv
<1>3. CASE LoadBlocks
  <2>1. /\ pc = "load" /\ pc' = "load" /\ vChain' = vChain
        /\ index' = With([b \in DiskAt(load_height) |-> disk[b]])
    BY <1>3, Zenon DEF LoadBlocks
  <2>2. PICK heights : heights = [b \in DiskAt(load_height) |-> disk[b]]
    BY Zenon
  <2>3. /\ DOMAIN heights = DiskAt(load_height)
        /\ \A b \in DiskAt(load_height) : heights[b] = disk[b]
    BY <2>2
  <2>4. /\ load_height \in Nat /\ Known = {b \in DOMAIN disk : disk[b] < load_height}
        /\ DOMAIN disk \subseteq Blocks
    BY <2>1, Zenon DEF IndexInv, LoadInv, DiskInv
  <2>5. \A b \in DiskAt(load_height) : /\ b \notin Known /\ b \in Blocks
                                       /\ b # Genesis => HashPrev[b] \in Known
    BY <2>4 DEF DiskAt, IndexInv, DiskInv
  <2>6. /\ Known' = Known \cup DiskAt(load_height)
        /\ \A b \in DiskAt(load_height) : index'[b] = Entry(b, heights[b])
        /\ \A c \in Known : index'[c] = index[c]
    <3>1. index' = With(heights)
      BY <2>1, <2>2, Zenon
    <3>2. /\ DOMAIN With(heights) = DOMAIN heights \cup Known
          /\ \A c \in DOMAIN heights : With(heights)[c] = Entry(c, heights[c])
          /\ \A c \in Known \ DOMAIN heights : With(heights)[c] = index[c]
      BY WithEntry, Zenon
    <3> QED
      BY <2>3, <2>5, <3>1, <3>2 DEF Known
  <2>7. \A b \in DiskAt(load_height) :
          /\ index'[b] = Entry(b, index'[b].nHeight)
          /\ b # Genesis => HashPrev[b] \in Known
    <3>1. \A b \in DiskAt(load_height) : index'[b].nHeight = heights[b]
      BY <2>6, EntryFields
    <3> QED
      BY <2>5, <2>6, <3>1, Zenon
  <2>8. SkipInv' /\ TimeInv'
    <3>1. DiskAt(load_height) \subseteq Blocks
      BY <2>5, Zenon
    <3> QED
      BY <1>1, <2>6, <2>7, <3>1, SkipAdded, TimeAdded, Zenon
  <2> QED
    BY <1>1, <2>1, <2>8, Zenon DEF PathInv, ChainInv
<1>4. CASE Crash
  <2>1. pc' = "load" /\ vChain' = <<>> /\ Known' = {}
    BY <1>4 DEF Crash, Known
  <2> QED
    BY <2>1, Zenon DEF PathInv, SkipInv, TimeInv, ChainInv
<1>5. CASE LoadChainTip
  <2>1. /\ pc = "load" /\ pc' = "run" /\ index' = index /\ coins_tip \in Known
        /\ coins_best' = coins_tip /\ vChain' = SetTip(vChain, coins_tip)
    BY <1>5, Zenon DEF LoadChainTip
  <2>2. vChain = <<>>
    BY <1>1, <2>1, Zenon DEF ChainInv
  <2>3. vChain' = PathTo(coins_tip)
    BY <1>1, <2>1, <2>2, TipSet, Zenon
  <2>4. Tip' = coins_tip
    BY <1>1, <2>1, <2>3, LastOfPath, Zenon DEF Tip
  <2>5. Known' = Known
    BY <2>1, Zenon DEF Known
  <2> QED
    BY <1>1, <2>1, <2>3, <2>4, <2>5, SameIndex, Zenon DEF PathInv, ChainInv
<1>6. CASE UpdateChain
  <2>1. /\ pc = "view" /\ pc' = "run" /\ index' = index /\ coins_best' = coins_best
        /\ vChain' = SetTip(vChain, coins_best)
    BY <1>6, Zenon DEF UpdateChain
  <2>2. coins_best \in Known /\ Tip \in Known /\ vChain = PathTo(Tip)
    BY <1>1, <2>1, Zenon DEF ChainInv, IndexInv, CoinsInv
  <2>3. vChain' = PathTo(coins_best)
    BY <1>1, <2>1, <2>2, TipSet, Zenon
  <2>4. Tip' = coins_best
    BY <1>1, <2>2, <2>3, LastOfPath, Zenon DEF Tip
  <2>5. Known' = Known
    BY <2>1, Zenon DEF Known
  <2> QED
    BY <1>1, <2>1, <2>2, <2>3, <2>4, <2>5, SameIndex, Zenon DEF PathInv, ChainInv
<1>7. CASE DisconnectTip \/ WriteBlockIndexDB \/ FlushCoins \/ \E b \in Known : ConnectTip(b)
  <2>1. /\ index' = index /\ vChain' = vChain /\ pc # "load" /\ pc' # "load"
        /\ pc' = "run" => coins_best' = Tip
    BY <1>7, Zenon DEF DisconnectTip, WriteBlockIndexDB, FlushCoins, ConnectTip
  <2>2. Tip' = Tip /\ Known' = Known
    BY <2>1, Zenon DEF Tip, Known
  <2> QED
    BY <1>1, <2>1, <2>2, SameIndex, Zenon DEF PathInv, ChainInv
<1> QED
  BY <1>2, <1>3, <1>4, <1>5, <1>6, <1>7, Zenon DEF Next

\* The invariant of skip list and chain.
THEOREM PathInvariant == Spec => []PathInv
<1>1. IndexInv /\ IndexInv' /\ PathInv /\ [Next]_vars => PathInv'
  <2> SUFFICES ASSUME IndexInv, IndexInv', PathInv, [Next]_vars PROVE PathInv'
    BY Zenon
  <2>1. CASE UNCHANGED vars
    BY <2>1, Zenon DEF PathInv, SkipInv, TimeInv, ChainInv, Known, Tip, vars
  <2> QED
    BY <2>1, PathNext, Zenon
<1> QED
  BY <1>1, InitPath, IndexInvariant, PTL DEF Spec

\* The active chain is the path to its tip, for every tree of blocks and every
\* sequence of connections, disconnections, flushes, crashes and reloads.
THEOREM ChainIsPath == Spec => []ChainConsistent
<1>1. PathInv => ChainConsistent
  BY Zenon DEF PathInv, ChainInv, ChainConsistent
<1> QED
  BY <1>1, PathInvariant, PTL

\* GetAncestor() returns the block at a height of the path to the block, and
\* nothing if there is none, in every tree and for every height.
THEOREM AncestorsExact == Spec => []AncestorExact
<1>1. IndexInv /\ PathInv => AncestorExact
  <2> SUFFICES ASSUME IndexInv, PathInv, NEW b \in Known,
                      NEW h \in -1 .. index[b].nHeight + 1
               PROVE  GetAncestor(b, h) = AncestorAt(b, h)
    BY Zenon DEF AncestorExact
  <2>1. KnownInv /\ SkipInv
    BY Zenon DEF IndexInv, PathInv
  <2>2. PICK n \in Nat : n = index[b].nHeight /\ n = Depth(b)
    BY <2>1, KnownPath, Zenon DEF KnownInv
  <2>3. CASE h \in 0 .. n
    BY <2>1, <2>2, <2>3, AncestorFound, Zenon
  <2>4. CASE h \notin 0 .. n
    <3>1. h > n \/ h < 0
      BY <2>2, <2>4
    <3>2. GetAncestor(b, h) = Null
      BY <2>2, <3>1, Zenon DEF GetAncestor
    <3> QED
      BY <2>2, <2>4, <3>2, AncestorOut, Zenon
  <2> QED
    BY <2>3, <2>4
<1> QED
  BY <1>1, IndexInvariant, PathInvariant, PTL

-----------------------------------------------------------------------------
(* Times along a chain *)

\* The blocks of the path to a known block are known, at the height of their
\* place, and each is the parent of the next.
LEMMA PathKnown ==
  ASSUME KnownInv, NEW t \in Known
  PROVE  LET p == PathTo(t)
         IN  /\ Len(p) = Depth(t) + 1 /\ Len(p) \in Nat /\ Len(p) >= 1
             /\ p[1] = Genesis /\ p[Len(p)] = t /\ p \in Seq(Blocks)
             /\ \A i \in 1 .. Len(p) : p[i] \in Known /\ index[p[i]].nHeight = i - 1
             /\ \A i \in 2 .. Len(p) : p[i] # Genesis /\ p[i - 1] = HashPrev[p[i]]
<1>1. PICK p : p = PathTo(t)
  BY Zenon
<1>2. t \in Blocks
  BY Zenon DEF KnownInv
<1>3. IsPath(p, t)
  BY <1>1, <1>2, PathIs, Zenon
<1>4. PICK n \in Nat : n = Len(p) /\ n >= 1 /\ n = Depth(t) + 1 /\ Depth(t) = n - 1
  BY <1>1, <1>3 DEF IsPath, Depth
<1>5. ASSUME NEW i \in 1 .. n
      PROVE  p[i] \in Known /\ index[p[i]].nHeight = i - 1
  <2>1. i - 1 \in 0 .. n - 1 /\ (i - 1) + 1 = i
    OBVIOUS
  <2>2. PICK h : h = i - 1 /\ h \in 0 .. Depth(t) /\ h + 1 = i
    BY <1>4, <2>1, Zenon
  <2>3. AncestorAt(t, h) = PathTo(t)[h + 1] /\ Depth(AncestorAt(t, h)) = h
    BY <1>2, <2>2, AncestorIn, Zenon
  <2>4. AncestorAt(t, h) = p[i] /\ Depth(p[i]) = h
    BY <1>1, <2>2, <2>3, Zenon
  <2> QED
    BY <2>2, <2>4, KnownPath, Zenon
<1> QED
  BY <1>1, <1>3, <1>4, <1>5, Zenon DEF IsPath

\* The running maximum of a sequence of times: it never falls, no time before
\* a place exceeds it there, and one of them attains it.
LEMMA RunningMax ==
  ASSUME NEW n \in Nat, NEW M \in [1 .. n -> Nat], NEW T \in [1 .. n -> Nat],
         n >= 1 => M[1] = T[1],
         \A i \in 2 .. n : M[i] = IF M[i - 1] > T[i] THEN M[i - 1] ELSE T[i]
  PROVE  \A i \in 1 .. n : /\ \A j \in 1 .. i : M[j] <= M[i] /\ T[j] <= M[i]
                           /\ \E j \in 1 .. i : T[j] = M[i]
<1> DEFINE Good(i) == /\ \A j \in 1 .. i : M[j] <= M[i] /\ T[j] <= M[i]
                      /\ \E j \in 1 .. i : T[j] = M[i]
           Bad == {i \in 1 .. n : ~Good(i)}
<1> SUFFICES ASSUME Bad # {} PROVE FALSE
  BY Zenon
<1>1. Bad \subseteq Nat
  OBVIOUS
<1>2. PICK i \in Bad : \A k \in Bad : i <= k
  BY <1>1, Smallest, Zenon
<1>3. i \in 1 .. n /\ ~Good(i)
  BY <1>2, Zenon
<1>4. CASE i = 1
  BY <1>3, <1>4
<1>5. CASE i # 1
  <2>1. i \in 2 .. n /\ i - 1 \in 1 .. n /\ ~(i <= i - 1)
    BY <1>3, <1>5
  <2>2. Good(i - 1)
    BY <1>2, <2>1, Zenon
  <2>3. PICK a, b, t \in Nat : a = M[i - 1] /\ b = M[i] /\ t = T[i]
    BY <2>1
  <2>4. b = IF a > t THEN a ELSE t
    BY <2>1, <2>3, Zenon
  <2>5. ASSUME NEW j \in 1 .. i PROVE M[j] <= M[i] /\ T[j] <= M[i]
    <3>1. CASE j = i
      BY <2>3, <2>4, <3>1
    <3>2. CASE j # i
      <4>1. j \in 1 .. i - 1 /\ j \in 1 .. n
        BY <2>1, <3>2
      <4>2. M[j] <= a /\ T[j] <= a
        BY <2>2, <2>3, <4>1, Zenon
      <4>3. M[j] \in Nat /\ T[j] \in Nat
        BY <4>1
      <4> QED
        BY <2>3, <2>4, <4>2, <4>3
    <3> QED
      BY <3>1, <3>2
  <2>6. \E j \in 1 .. i : T[j] = M[i]
    <3>1. CASE a > t
      <4>1. PICK j \in 1 .. i - 1 : T[j] = a
        BY <2>2, <2>3, Zenon
      <4>2. j \in 1 .. i
        BY <2>1
      <4> QED
        BY <2>3, <2>4, <3>1, <4>1, <4>2, Zenon
    <3>2. CASE ~(a > t)
      <4>1. i \in 1 .. i
        BY <1>3
      <4> QED
        BY <2>3, <2>4, <3>2, <4>1, Zenon
    <3> QED
      BY <3>1, <3>2
  <2> QED
    BY <1>3, <2>5, <2>6, Zenon
<1> QED
  BY <1>4, <1>5

\* The times along the path to a known block.
LEMMA TimesUp ==
  ASSUME KnownInv, TimeInv, NEW t \in Known
  PROVE  LET p == PathTo(t)
         IN  \A i \in 1 .. Len(p) :
               /\ index[p[i]].nTimeMax \in Nat /\ Time[p[i]] \in Nat
               /\ \A j \in 1 .. i : /\ index[p[j]].nTimeMax <= index[p[i]].nTimeMax
                                    /\ Time[p[j]] <= index[p[i]].nTimeMax
               /\ \E j \in 1 .. i : Time[p[j]] = index[p[i]].nTimeMax
<1>1. PICK p : p = PathTo(t)
  BY Zenon
<1>2. PICK n \in Nat : n = Len(p) /\ n >= 1
  BY <1>1, PathKnown, Zenon
<1>3. /\ p[1] = Genesis /\ \A i \in 1 .. n : p[i] \in Known
      /\ \A i \in 2 .. n : p[i] # Genesis /\ p[i - 1] = HashPrev[p[i]]
  BY <1>1, <1>2, PathKnown, Zenon
<1>4. PICK M, T : /\ M = [i \in 1 .. n |-> index[p[i]].nTimeMax]
                  /\ T = [i \in 1 .. n |-> Time[p[i]]]
  BY Zenon
<1>5. ASSUME NEW i \in 1 .. n
      PROVE  /\ index[p[i]].nTimeMax \in Nat /\ Time[p[i]] \in Nat
             /\ M[i] = index[p[i]].nTimeMax /\ T[i] = Time[p[i]]
  <2>1. p[i] \in Known /\ p[i] \in Blocks
    BY <1>3, Zenon DEF KnownInv
  <2>2. Time[p[i]] \in Nat
    BY <2>1, TreeAssumption, Zenon
  <2> QED
    BY <1>4, <2>1, <2>2, Zenon DEF TimeInv
<1>6. M \in [1 .. n -> Nat] /\ T \in [1 .. n -> Nat]
  BY <1>4, <1>5, Zenon
<1>7. M[1] = T[1]
  <2>1. 1 \in 1 .. n
    BY <1>2
  <2>2. Genesis \in Known
    BY <1>3, <2>1, Zenon
  <2>3. index[Genesis].nTimeMax = Time[Genesis]
    BY <2>2, Zenon DEF TimeInv
  <2> QED
    BY <1>3, <1>5, <2>1, <2>3, Zenon
<1>8. ASSUME NEW i \in 2 .. n
      PROVE  M[i] = IF M[i - 1] > T[i] THEN M[i - 1] ELSE T[i]
  <2>1. i \in 1 .. n /\ i - 1 \in 1 .. n
    OBVIOUS
  <2>2. PICK k : k = i - 1 /\ k \in 1 .. n
    BY <2>1, Zenon
  <2>3. p[i] \in Known /\ p[i] # Genesis /\ p[k] = HashPrev[p[i]]
    BY <1>3, <2>1, <2>2, Zenon
  <2>4. index[p[i]].nTimeMax = IF index[p[k]].nTimeMax > Time[p[i]]
                               THEN index[p[k]].nTimeMax ELSE Time[p[i]]
    BY <2>3, Zenon DEF TimeInv
  <2> QED
    BY <1>5, <2>1, <2>2, <2>4, Zenon
<1>9. \A i \in 1 .. n : /\ \A j \in 1 .. i : M[j] <= M[i] /\ T[j] <= M[i]
                        /\ \E j \in 1 .. i : T[j] = M[i]
  BY <1>6, <1>7, <1>8, RunningMax, Zenon
<1>10. \A i \in 1 .. n : \A j \in 1 .. i : j \in 1 .. n
  OBVIOUS
<1>11. ASSUME NEW i \in 1 .. n
       PROVE  /\ \A j \in 1 .. i : /\ index[p[j]].nTimeMax <= index[p[i]].nTimeMax
                                   /\ Time[p[j]] <= index[p[i]].nTimeMax
              /\ \E j \in 1 .. i : Time[p[j]] = index[p[i]].nTimeMax
  <2>1. M[i] = index[p[i]].nTimeMax
    BY <1>5, Zenon
  <2>2. \A j \in 1 .. i : M[j] = index[p[j]].nTimeMax /\ T[j] = Time[p[j]]
    BY <1>5, <1>10, Zenon
  <2>3. \A j \in 1 .. i : /\ index[p[j]].nTimeMax <= index[p[i]].nTimeMax
                          /\ Time[p[j]] <= index[p[i]].nTimeMax
    <3> SUFFICES ASSUME NEW j \in 1 .. i
                 PROVE  /\ index[p[j]].nTimeMax <= index[p[i]].nTimeMax
                        /\ Time[p[j]] <= index[p[i]].nTimeMax
      BY Zenon
    <3>1. M[j] <= M[i] /\ T[j] <= M[i]
      BY <1>9, Zenon
    <3>2. M[j] = index[p[j]].nTimeMax /\ T[j] = Time[p[j]]
      BY <2>2, Zenon
    <3> QED
      BY <2>1, <3>1, <3>2, Zenon
  <2>4. PICK j \in 1 .. i : T[j] = M[i]
    BY <1>9, Zenon
  <2>5. T[j] = Time[p[j]]
    BY <2>2, Zenon
  <2> QED
    BY <2>1, <2>3, <2>4, <2>5, Zenon
<1> QED
  BY <1>1, <1>2, <1>5, <1>11, Zenon

\* The binary search finds the place from which the test fails on.
LEMMA SearchFinds ==
  ASSUME Len(vChain) \in Nat, NEW time, NEW height, NEW cut \in 1 .. Len(vChain) + 1,
         \A i \in 1 .. Len(vChain) :
           (index[vChain[i]].nTimeMax < time \/ index[vChain[i]].nHeight < height) <=> i < cut
  PROVE  FindEarliestAtLeast(time, height) =
           IF cut > Len(vChain) THEN Null ELSE vChain[cut]
<1> DEFINE Before(b) == index[b].nTimeMax < time \/ index[b].nHeight < height
           R(f, r) == LET half == r[2] \div 2
                      IN  IF r[2] = 0 THEN r[1]
                          ELSE IF Before(vChain[r[1] + half])
                               THEN f[<<r[1] + half + 1, r[2] - half - 1>>]
                               ELSE f[<<r[1], half>>]
           Clamp(a, k) == IF cut < a THEN a ELSE IF cut > a + k THEN a + k ELSE cut
           W == [r \in Ranges |-> Clamp(r[1], r[2])]
           g == CHOOSE Search : Search = [r \in Ranges |-> R(Search, r)]
<1>1. PICK n \in Nat : n = Len(vChain) /\ cut \in 1 .. n + 1
  BY Zenon
<1>2. /\ \A r \in Ranges : r[1] \in 1 .. n + 1 /\ r[2] \in 0 .. n /\ r[1] + r[2] <= n + 1
      /\ \A a \in 1 .. n + 1 : \A k \in 0 .. n : a + k <= n + 1 => <<a, k>> \in Ranges
  BY <1>1, Zenon DEF Ranges
<1>3. \A i \in 1 .. n : Before(vChain[i]) <=> i < cut
  BY <1>1, Zenon
<1> HIDE DEF Before
<1>4. ASSUME NEW a \in 1 .. n + 1, NEW k \in 1 .. n, a + k <= n + 1
      PROVE  LET half == k \div 2
             IN  /\ half \in 0 .. n /\ half < k /\ a + half \in 1 .. n
                 /\ <<a, half>> \in Ranges
                 /\ <<a + half + 1, k - half - 1>> \in Ranges
                 /\ k - half - 1 \in 0 .. n /\ k - half - 1 < k
                 /\ a + half < cut => Clamp(a, k) = Clamp(a + half + 1, k - half - 1)
                 /\ ~(a + half < cut) => Clamp(a, k) = Clamp(a, half)
  <2>1. PICK half \in Nat : half = k \div 2 /\ half < k
    OBVIOUS
  <2>2. /\ half \in 0 .. n /\ a + half \in 1 .. n /\ a + half + 1 \in 1 .. n + 1
        /\ k - half - 1 \in 0 .. n /\ k - half - 1 < k /\ a + half <= n + 1
        /\ (a + half + 1) + (k - half - 1) <= n + 1
    BY <1>4, <2>1
  <2>3. <<a, half>> \in Ranges /\ <<a + half + 1, k - half - 1>> \in Ranges
    BY <1>2, <2>2, Zenon
  <2>4. /\ a + half < cut => Clamp(a, k) = Clamp(a + half + 1, k - half - 1)
        /\ ~(a + half < cut) => Clamp(a, k) = Clamp(a, half)
    BY <1>1, <2>1, <1>4
  <2> HIDE DEF Clamp
  <2> QED
    BY <2>1, <2>2, <2>3, <2>4, Zenon
<1>5. \A a \in 1 .. n + 1 : Clamp(a, 0) = a
  BY <1>1
<1> HIDE DEF Clamp
<1>6. \A r \in Ranges : W[r] = R(W, r)
  <2> SUFFICES ASSUME NEW r \in Ranges PROVE W[r] = R(W, r)
    BY Zenon
  <2>1. PICK a, k, half : a = r[1] /\ k = r[2] /\ half = k \div 2
    BY Zenon
  <2>2. a \in 1 .. n + 1 /\ k \in 0 .. n /\ a + k <= n + 1
    BY <1>2, <2>1, Zenon
  <2>3. W[r] = Clamp(a, k)
    BY <2>1, Zenon
  <2>4. R(W, r) = IF k = 0 THEN a
                  ELSE IF Before(vChain[a + half]) THEN W[<<a + half + 1, k - half - 1>>]
                  ELSE W[<<a, half>>]
    <3> HIDE DEF W
    <3> QED
      BY <2>1, Zenon
  <2>5. CASE k = 0
    BY <1>5, <2>2, <2>3, <2>4, <2>5, Zenon
  <2>6. CASE k # 0
    <3>1. k \in 1 .. n
      BY <2>2, <2>6
    <3>2. /\ a + half \in 1 .. n /\ <<a, half>> \in Ranges
          /\ <<a + half + 1, k - half - 1>> \in Ranges
          /\ a + half < cut => Clamp(a, k) = Clamp(a + half + 1, k - half - 1)
          /\ ~(a + half < cut) => Clamp(a, k) = Clamp(a, half)
      <4> HIDE DEF W, R
      <4> QED
        BY <1>4, <2>1, <2>2, <3>1, Zenon
    <3>3. /\ W[<<a, half>>] = Clamp(a, half)
          /\ W[<<a + half + 1, k - half - 1>>] = Clamp(a + half + 1, k - half - 1)
      BY <3>2, Zenon
    <3> HIDE DEF W, R
    <3> QED
      BY <1>3, <2>3, <2>4, <2>6, <3>2, <3>3, Zenon
  <2> HIDE DEF W, R
  <2> QED
    BY <2>5, <2>6, Zenon
<1>7. W = [r \in Ranges |-> R(W, r)]
  <2>1. W = [r \in Ranges |-> W[r]]
    OBVIOUS
  <2> HIDE DEF W, R
  <2> QED
    BY <1>6, <2>1, Zenon
<1>8. g = [r \in Ranges |-> R(g, r)]
  <2> HIDE DEF W
  <2> QED
    BY <1>7, Zenon
<1>9. FindEarliestAtLeast(time, height) =
        IF g[<<1, n>>] > n THEN Null ELSE vChain[g[<<1, n>>]]
  <2>1. FindEarliestAtLeast(time, height) =
          IF g[<<1, Len(vChain)>>] > Len(vChain) THEN Null
          ELSE vChain[g[<<1, Len(vChain)>>]]
    BY Zenon DEF FindEarliestAtLeast, Before
  <2> HIDE DEF g
  <2> QED
    BY <1>1, <2>1, Zenon
<1> HIDE DEF g
<1>10. \A r \in Ranges : g[r] = R(g, r)
  <2> HIDE DEF R
  <2> QED
    BY <1>8, Zenon
<1>11. ASSUME NEW a, NEW k, NEW half, half = k \div 2, <<a, k>> \in Ranges
       PROVE  g[<<a, k>>] = IF k = 0 THEN a
                            ELSE IF Before(vChain[a + half])
                                 THEN g[<<a + half + 1, k - half - 1>>]
                            ELSE g[<<a, half>>]
  <2>1. PICK r : r = <<a, k>>
    BY Zenon
  <2>2. r[1] = a /\ r[2] = k
    BY <2>1
  <2>3. g[r] = R(g, r)
    <3> HIDE DEF R
    <3> QED
      BY <1>10, <1>11, <2>1, Zenon
  <2>4. R(g, r) = IF k = 0 THEN a
                  ELSE IF Before(vChain[a + half]) THEN g[<<a + half + 1, k - half - 1>>]
                  ELSE g[<<a, half>>]
    BY <1>11, <2>2, Zenon
  <2> HIDE DEF R
  <2> QED
    BY <2>1, <2>3, <2>4, Zenon
<1> HIDE DEF W, R
<1> DEFINE Bad == {k \in 0 .. n : \E a \in 1 .. n + 1 : a + k <= n + 1
                                                        /\ g[<<a, k>>] # Clamp(a, k)}
<1>12. Bad = {}
  <2> SUFFICES ASSUME Bad # {} PROVE FALSE
    BY Zenon
  <2>1. Bad \subseteq Nat
    OBVIOUS
  <2>2. PICK k \in Bad : \A j \in Bad : k <= j
    BY <2>1, Smallest, Zenon
  <2>3. PICK a \in 1 .. n + 1 : k \in 0 .. n /\ a + k <= n + 1 /\ g[<<a, k>>] # Clamp(a, k)
    BY <2>2, Zenon
  <2>4. PICK half : half = k \div 2
    BY Zenon
  <2>5. g[<<a, k>>] = IF k = 0 THEN a
                      ELSE IF Before(vChain[a + half])
                           THEN g[<<a + half + 1, k - half - 1>>]
                      ELSE g[<<a, half>>]
    <3>1. <<a, k>> \in Ranges
      BY <1>2, <2>3, Zenon
    <3> HIDE DEF Bad
    <3> QED
      BY <1>11, <2>4, <3>1
  <2>6. CASE k = 0
    BY <1>5, <2>3, <2>5, <2>6, Zenon
  <2>7. CASE k # 0
    <3>1. k \in 1 .. n
      BY <2>3, <2>7
    <3>2. /\ half \in 0 .. n /\ half < k /\ a + half \in 1 .. n
          /\ <<a, half>> \in Ranges
          /\ <<a + half + 1, k - half - 1>> \in Ranges
          /\ k - half - 1 \in 0 .. n /\ k - half - 1 < k
          /\ a + half < cut => Clamp(a, k) = Clamp(a + half + 1, k - half - 1)
          /\ ~(a + half < cut) => Clamp(a, k) = Clamp(a, half)
      <4> HIDE DEF Bad
      <4> QED
        BY <1>4, <2>3, <2>4, <3>1, Zenon
    <3>3. ~(k <= half) /\ ~(k <= k - half - 1)
      BY <3>1, <3>2
    <3>4. PICK a2, k2 : a2 = a + half + 1 /\ k2 = k - half - 1
      BY Zenon
    <3>5. half \notin Bad /\ k2 \notin Bad
      BY <2>2, <3>3, <3>4, Zenon
    <3>6. /\ a + half <= n + 1 /\ a2 \in 1 .. n + 1 /\ a2 + k2 <= n + 1
      BY <2>3, <3>2, <3>4
    <3>7. g[<<a, half>>] = Clamp(a, half) /\ g[<<a2, k2>>] = Clamp(a2, k2)
      BY <2>3, <3>2, <3>4, <3>5, <3>6, Zenon
    <3> QED
      BY <1>3, <2>3, <2>5, <2>7, <3>2, <3>4, <3>7, Zenon
  <2> QED
    BY <2>6, <2>7, Zenon
<1>13. Clamp(1, n) = cut
  BY <1>1 DEF Clamp
<1>14. 1 \in 1 .. n + 1 /\ n \in 0 .. n /\ 1 + n <= n + 1
  BY <1>1
<1>15. g[<<1, n>>] = cut
  BY <1>12, <1>13, <1>14, Zenon
<1> QED
  BY <1>1, <1>9, <1>15, Zenon

\* FindEarliestAtLeast() is right in every chain, for every time and height.
THEOREM EarliestFound == Spec => []EarliestExact
<1>1. IndexInv /\ PathInv => EarliestExact
  <2> SUFFICES ASSUME IndexInv, PathInv, pc = "run",
                      NEW time \in {Time[b] : b \in Known}, NEW height \in 0 .. Height + 1
               PROVE  LET found == FindEarliestAtLeast(time, height)
                          first == IF found = Null THEN Len(vChain) + 1
                                   ELSE index[found].nHeight + 1
                      IN  /\ \A i \in 1 .. first - 1 :
                               Time[vChain[i]] < time \/ i - 1 < height
                          /\ found # Null =>
                               /\ index[found].nHeight >= height
                               /\ \E i \in 1 .. first : Time[vChain[i]] >= time
    BY Zenon DEF EarliestExact
  <2>1. KnownInv /\ TimeInv /\ Tip \in Known /\ vChain = PathTo(Tip) /\ Known \subseteq Blocks
    BY Zenon DEF IndexInv, PathInv, ChainInv, KnownInv
  <2>2. PICK n \in Nat : n = Len(vChain) /\ n >= 1
    BY <2>1, PathKnown, Zenon
  <2>3. time \in Nat
    BY <2>1, TreeAssumption, Zenon
  <2>4. height \in Nat
    BY <2>2 DEF Height
  <2>5. \A i \in 1 .. n : vChain[i] \in Known /\ index[vChain[i]].nHeight = i - 1
    <3>1. \A i \in 1 .. Len(PathTo(Tip)) :
            PathTo(Tip)[i] \in Known /\ index[PathTo(Tip)[i]].nHeight = i - 1
      BY <2>1, PathKnown, Zenon
    <3> QED
      BY <2>1, <2>2, <3>1, Zenon
  <2>6. \A i \in 1 .. n :
          /\ index[vChain[i]].nTimeMax \in Nat /\ Time[vChain[i]] \in Nat
          /\ \A j \in 1 .. i : /\ index[vChain[j]].nTimeMax <= index[vChain[i]].nTimeMax
                               /\ Time[vChain[j]] <= index[vChain[i]].nTimeMax
          /\ \E j \in 1 .. i : Time[vChain[j]] = index[vChain[i]].nTimeMax
    BY <2>1, <2>2, TimesUp, Zenon
  <2>7. PICK M, T : /\ M = [i \in 1 .. n |-> index[vChain[i]].nTimeMax]
                    /\ T = [i \in 1 .. n |-> Time[vChain[i]]]
    BY Zenon
  <2>8. /\ \A i \in 1 .. n : /\ M[i] = index[vChain[i]].nTimeMax /\ T[i] = Time[vChain[i]]
                             /\ M[i] \in Nat /\ T[i] \in Nat
    BY <2>6, <2>7, Zenon
  <2>9. \A i \in 1 .. n : /\ \A j \in 1 .. i : j \in 1 .. n => M[j] <= M[i] /\ T[j] <= M[i]
                          /\ \E j \in 1 .. i : T[j] = M[i]
    <3>1. \A i \in 1 .. n : \A j \in 1 .. i : j \in 1 .. n
      OBVIOUS
    <3> SUFFICES ASSUME NEW i \in 1 .. n
                 PROVE  /\ \A j \in 1 .. i : j \in 1 .. n => M[j] <= M[i] /\ T[j] <= M[i]
                        /\ \E j \in 1 .. i : T[j] = M[i]
      BY Zenon
    <3>2. M[i] = index[vChain[i]].nTimeMax
      BY <2>8, Zenon
    <3>3. ASSUME NEW j \in 1 .. i PROVE M[j] <= M[i] /\ T[j] <= M[i]
      <4>1. M[j] = index[vChain[j]].nTimeMax /\ T[j] = Time[vChain[j]]
        BY <2>8, <3>1, Zenon
      <4>2. /\ index[vChain[j]].nTimeMax <= index[vChain[i]].nTimeMax
            /\ Time[vChain[j]] <= index[vChain[i]].nTimeMax
        BY <2>6, Zenon
      <4> QED
        BY <3>2, <4>1, <4>2, Zenon
    <3>4. PICK j \in 1 .. i : Time[vChain[j]] = index[vChain[i]].nTimeMax
      BY <2>6, Zenon
    <3>5. T[j] = Time[vChain[j]]
      BY <2>8, <3>1, Zenon
    <3> QED
      BY <3>2, <3>3, <3>4, <3>5, Zenon
  <2> DEFINE S == {i \in 1 .. n + 1 : i = n + 1 \/ ~(M[i] < time \/ i - 1 < height)}
  <2>10. PICK cut \in S : \A i \in S : cut <= i
    <3>1. n + 1 \in S /\ S \subseteq Nat
      BY <2>2
    <3> HIDE DEF S
    <3> QED
      BY <3>1, Smallest, Zenon
  <2>11. cut \in 1 .. n + 1
    BY <2>10, Zenon
  <2>12. ASSUME NEW i \in 1 .. n PROVE (M[i] < time \/ i - 1 < height) <=> i < cut
    <3>1. i < cut => (M[i] < time \/ i - 1 < height)
      BY <2>10, <2>11
    <3>2. ASSUME ~(i < cut) PROVE ~(M[i] < time \/ i - 1 < height)
      <4>1. cut \in 1 .. i /\ cut \in 1 .. n /\ cut # n + 1 /\ cut - 1 <= i - 1
        BY <2>11, <3>2
      <4>2. ~(M[cut] < time \/ cut - 1 < height)
        BY <2>10, <4>1, Zenon
      <4>3. M[cut] <= M[i] /\ M[cut] \in Nat /\ M[i] \in Nat
        BY <2>8, <2>9, <4>1, Zenon
      <4> QED
        BY <2>3, <2>4, <4>1, <4>2, <4>3
    <3> QED
      BY <3>1, <3>2
  <2>13. FindEarliestAtLeast(time, height) = IF cut > n THEN Null ELSE vChain[cut]
    <3>1. \A i \in 1 .. Len(vChain) :
            (index[vChain[i]].nTimeMax < time \/ index[vChain[i]].nHeight < height)
              <=> i < cut
      BY <2>2, <2>5, <2>8, <2>12, Zenon
    <3>2. Len(vChain) \in Nat /\ cut \in 1 .. Len(vChain) + 1
      BY <2>2, <2>11, Zenon
    <3> HIDE DEF S
    <3> QED
      BY <2>2, <3>1, <3>2, SearchFinds, Zenon
  <2>14. PICK found : found = FindEarliestAtLeast(time, height)
    BY Zenon
  <2>15. PICK first : first = IF found = Null THEN Len(vChain) + 1 ELSE index[found].nHeight + 1
    BY Zenon
  <2> HIDE DEF S
  <2>16. first = cut /\ (found # Null => cut \in 1 .. n /\ found = vChain[cut])
    <3>1. CASE cut > n
      <4>1. cut = n + 1
        BY <2>11, <3>1
      <4> QED
        BY <2>2, <2>13, <2>14, <2>15, <3>1, <4>1, Zenon
    <3>2. CASE ~(cut > n)
      <4>1. cut \in 1 .. n /\ (cut - 1) + 1 = cut
        BY <2>11, <3>2
      <4>2. found = vChain[cut] /\ found \in Known /\ index[found].nHeight = cut - 1
        BY <2>5, <2>13, <2>14, <3>2, <4>1, Zenon
      <4>3. found # Null
        BY <2>1, <4>2, TreeAssumption, Zenon
      <4> QED
        BY <2>15, <4>1, <4>2, <4>3, Zenon
    <3> QED
      BY <3>1, <3>2
  <2>17. ASSUME NEW i \in 1 .. cut - 1 PROVE Time[vChain[i]] < time \/ i - 1 < height
    <3>1. i \in 1 .. n /\ i < cut /\ i \in 1 .. i
      BY <2>11
    <3>2. M[i] < time \/ i - 1 < height
      BY <2>12, <3>1, Zenon
    <3>3. T[i] <= M[i] /\ T[i] \in Nat /\ M[i] \in Nat /\ T[i] = Time[vChain[i]]
      BY <2>8, <2>9, <3>1, Zenon
    <3> QED
      BY <2>3, <3>2, <3>3
  <2>18. ASSUME found # Null
         PROVE  /\ index[found].nHeight >= height
                /\ \E i \in 1 .. first : Time[vChain[i]] >= time
    <3>1. cut \in 1 .. n /\ ~(cut < cut) /\ found = vChain[cut] /\ first = cut
      BY <2>11, <2>16, <2>18
    <3>2. ~(M[cut] < time \/ cut - 1 < height)
      BY <2>12, <3>1, Zenon
    <3>3. index[found].nHeight = cut - 1
      BY <2>5, <3>1, Zenon
    <3>4. PICK j \in 1 .. cut : T[j] = M[cut]
      BY <2>9, <3>1, Zenon
    <3>5. j \in 1 .. n
      BY <3>1
    <3>6. T[j] = Time[vChain[j]] /\ M[cut] \in Nat
      BY <2>8, <3>1, <3>5, Zenon
    <3>7. M[cut] >= time /\ cut - 1 >= height
      BY <2>3, <2>4, <3>1, <3>2, <3>6
    <3> QED
      BY <3>1, <3>3, <3>4, <3>6, <3>7, Zenon
  <2> QED
    BY <2>14, <2>15, <2>16, <2>17, <2>18, Zenon
<1> QED
  BY <1>1, IndexInvariant, PathInvariant, PTL

-----------------------------------------------------------------------------
(* Forks *)

\* k is the height of the last common block of the paths to x and y.
ForkAt(x, y, k) ==
  /\ k \in 0 .. Depth(x) /\ k \in 0 .. Depth(y)
  /\ \A j \in 0 .. k : AncestorAt(x, j) = AncestorAt(y, j)
  /\ \A j \in 0 .. Depth(x) :
       j \in 0 .. Depth(y) /\ AncestorAt(x, j) = AncestorAt(y, j) => j <= k

\* Two paths agree up to some height and nowhere above it.
LEMMA ForkExists ==
  ASSUME NEW x \in Blocks, NEW y \in Blocks
  PROVE  \E k : ForkAt(x, y, k)
<1>1. PICK m, n \in Nat : m = Depth(x) /\ n = Depth(y)
  BY AncestorIn, Zenon
<1> DEFINE T == {j \in 0 .. m : j \in 0 .. n /\ AncestorAt(x, j) = AncestorAt(y, j)}
<1>2. T # {} /\ T \subseteq 0 .. m
  <2>1. 0 \in 0 .. m /\ 0 \in 0 .. n
    BY <1>1
  <2> QED
    BY <2>1, AncestorIn, Zenon
<1>3. PICK k \in T : \A j \in T : j <= k
  BY <1>1, <1>2, Largest, Zenon
<1>4. k \in 0 .. m /\ k \in 0 .. n /\ AncestorAt(x, k) = AncestorAt(y, k)
  BY <1>3, Zenon
<1>5. ASSUME NEW j \in 0 .. k PROVE AncestorAt(x, j) = AncestorAt(y, j)
  BY <1>1, <1>4, AncestorTwice, Zenon
<1>6. \A j \in 0 .. m : j \in 0 .. n /\ AncestorAt(x, j) = AncestorAt(y, j) => j <= k
  BY <1>3, Zenon
<1> HIDE DEF T
<1> QED
  BY <1>1, <1>4, <1>5, <1>6, Zenon DEF ForkAt

\* That block is what CommonBlock() picks.
LEMMA CommonIs ==
  ASSUME NEW x \in Blocks, NEW y \in Blocks, NEW k, ForkAt(x, y, k)
  PROVE  CommonBlock(x, y) = AncestorAt(x, k)
<1>1. PICK m, n \in Nat : m = Depth(x) /\ n = Depth(y)
  BY AncestorIn, Zenon
<1>2. PICK px, py : px = PathTo(x) /\ py = PathTo(y)
  BY Zenon
<1>3. px \in Seq(Blocks) /\ py \in Seq(Blocks)
  BY <1>2, PathIs, Zenon DEF IsPath
<1>4. Len(px) = m + 1 /\ Len(py) = n + 1
  BY <1>1, <1>2, <1>3 DEF Depth
<1>5. DOMAIN px = 1 .. m + 1 /\ DOMAIN py = 1 .. n + 1
  BY <1>3, <1>4
<1>6. /\ k \in 0 .. m /\ k \in 0 .. n
      /\ \A j \in 0 .. k : AncestorAt(x, j) = AncestorAt(y, j)
      /\ \A j \in 0 .. m : j \in 0 .. n /\ AncestorAt(x, j) = AncestorAt(y, j) => j <= k
  BY <1>1, Zenon DEF ForkAt
<1> DEFINE same == {i \in DOMAIN px : i \in DOMAIN py /\ px[i] = py[i]}
<1>7. ASSUME NEW j \in 0 .. m PROVE AncestorAt(x, j) = px[j + 1]
  BY <1>1, <1>2, AncestorIn, Zenon
<1>8. ASSUME NEW j \in 0 .. n PROVE AncestorAt(y, j) = py[j + 1]
  BY <1>1, <1>2, AncestorIn, Zenon
<1>9. \A i : i \in same <=> i \in 1 .. k + 1
  <2> SUFFICES ASSUME NEW i PROVE i \in same <=> i \in 1 .. k + 1
    BY Zenon
  <2>1. ASSUME i \in same PROVE i \in 1 .. k + 1
    <3>1. i \in 1 .. m + 1 /\ i \in 1 .. n + 1 /\ px[i] = py[i]
      BY <1>5, <2>1, Zenon
    <3>2. PICK j : j = i - 1 /\ j \in 0 .. m /\ j \in 0 .. n /\ j + 1 = i
      BY <3>1
    <3>3. AncestorAt(x, j) = AncestorAt(y, j)
      BY <1>7, <1>8, <3>1, <3>2, Zenon
    <3>4. j <= k
      BY <1>6, <3>2, <3>3, Zenon
    <3> QED
      BY <1>6, <3>2, <3>4
  <2>2. ASSUME i \in 1 .. k + 1 PROVE i \in same
    <3>1. PICK j : j = i - 1 /\ j \in 0 .. k /\ j \in 0 .. m /\ j \in 0 .. n /\ j + 1 = i
      BY <1>6, <2>2
    <3>2. px[j + 1] = py[j + 1]
      BY <1>6, <1>7, <1>8, <3>1, Zenon
    <3>3. i \in 1 .. m + 1 /\ i \in 1 .. n + 1
      BY <1>6, <2>2
    <3> QED
      BY <1>5, <3>1, <3>2, <3>3, Zenon
  <2> HIDE DEF same
  <2> QED
    BY <2>1, <2>2, Zenon
<1>10. same = 1 .. k + 1
  <2> HIDE DEF same
  <2> QED
    BY <1>9, Zenon
<1>11. CommonBlock(x, y) = px[CHOOSE i \in same : \A j \in same : j <= i]
  BY <1>2, Zenon DEF CommonBlock
<1> HIDE DEF same
<1>12. (CHOOSE i \in same : \A j \in same : j <= i) = k + 1
  <2>1. /\ k + 1 \in 1 .. k + 1 /\ \A j \in 1 .. k + 1 : j <= k + 1
        /\ \A i \in 1 .. k + 1 : k + 1 <= i => i = k + 1
    BY <1>6
  <2> QED
    BY <1>10, <2>1, Zenon
<1> QED
  BY <1>6, <1>7, <1>11, <1>12, Zenon

\* The last common block is the same seen from either side.
LEMMA CommonSym ==
  ASSUME NEW x \in Blocks, NEW y \in Blocks
  PROVE  CommonBlock(x, y) = CommonBlock(y, x)
<1>1. PICK k : ForkAt(x, y, k)
  BY ForkExists, Zenon
<1>2. AncestorAt(x, k) = AncestorAt(y, k)
  <2>1. k \in 0 .. k
    BY <1>1, AncestorIn DEF ForkAt
  <2> QED
    BY <1>1, <2>1, Zenon DEF ForkAt
<1>3. ForkAt(y, x, k)
  BY <1>1, Zenon DEF ForkAt
<1> QED
  BY <1>1, <1>2, <1>3, CommonIs, Zenon

\* Going back from x to an ancestor that is not below the fork changes nothing.
LEMMA CommonBack ==
  ASSUME NEW x \in Blocks, NEW y \in Blocks, NEW k, ForkAt(x, y, k),
         NEW h \in 0 .. Depth(x), k <= h
  PROVE  /\ ForkAt(AncestorAt(x, h), y, k)
         /\ CommonBlock(AncestorAt(x, h), y) = CommonBlock(x, y)
<1>1. PICK m, n \in Nat : m = Depth(x) /\ n = Depth(y)
  BY AncestorIn, Zenon
<1>2. /\ k \in 0 .. m /\ k \in 0 .. n
      /\ \A j \in 0 .. k : AncestorAt(x, j) = AncestorAt(y, j)
      /\ \A j \in 0 .. m : j \in 0 .. n /\ AncestorAt(x, j) = AncestorAt(y, j) => j <= k
  BY <1>1, Zenon DEF ForkAt
<1>3. PICK c \in Blocks : c = AncestorAt(x, h) /\ Depth(c) = h
  BY AncestorIn, Zenon
<1>4. \A j \in 0 .. h : AncestorAt(c, j) = AncestorAt(x, j)
  BY <1>3, AncestorTwice, Zenon
<1>5. /\ k \in 0 .. h /\ h \in 0 .. m /\ \A j \in 0 .. k : j \in 0 .. h
      /\ \A j \in 0 .. h : j \in 0 .. m
  BY <1>1, <1>2
<1>6. ForkAt(c, y, k)
  <2>1. \A j \in 0 .. k : AncestorAt(c, j) = AncestorAt(y, j)
    BY <1>2, <1>4, <1>5, Zenon
  <2>2. \A j \in 0 .. h : j \in 0 .. n /\ AncestorAt(c, j) = AncestorAt(y, j) => j <= k
    BY <1>2, <1>4, <1>5, Zenon
  <2> QED
    BY <1>1, <1>2, <1>3, <1>5, <2>1, <2>2, Zenon DEF ForkAt
<1>7. AncestorAt(c, k) = AncestorAt(x, k)
  BY <1>4, <1>5, Zenon
<1>8. CommonBlock(c, y) = AncestorAt(c, k) /\ CommonBlock(x, y) = AncestorAt(x, k)
  BY <1>3, <1>6, CommonIs, Zenon
<1> QED
  BY <1>3, <1>6, <1>7, <1>8, Zenon

\* The same for both at once, to one height.
LEMMA CommonLevel ==
  ASSUME NEW x \in Blocks, NEW y \in Blocks, NEW k, ForkAt(x, y, k),
         NEW h \in 0 .. Depth(x), h \in 0 .. Depth(y), k <= h
  PROVE  CommonBlock(AncestorAt(x, h), AncestorAt(y, h)) = CommonBlock(x, y)
<1>1. PICK c \in Blocks : c = AncestorAt(x, h)
  BY AncestorIn, Zenon
<1>2. PICK d \in Blocks : d = AncestorAt(y, h)
  BY AncestorIn, Zenon
<1>3. ForkAt(c, y, k) /\ CommonBlock(c, y) = CommonBlock(x, y)
  BY <1>1, CommonBack, Zenon
<1>4. ForkAt(y, c, k)
  BY <1>3, Zenon DEF ForkAt
<1>5. CommonBlock(d, c) = CommonBlock(y, c)
  BY <1>1, <1>2, <1>4, CommonBack, Zenon
<1> QED
  BY <1>1, <1>2, <1>3, <1>5, CommonSym, Zenon

\* A block's last common block with one of its descendants is itself.
LEMMA CommonSelf ==
  ASSUME NEW x \in Blocks, NEW y \in Blocks,
         Depth(x) \in 0 .. Depth(y), AncestorAt(y, Depth(x)) = x
  PROVE  ForkAt(x, y, Depth(x)) /\ CommonBlock(x, y) = x
<1>1. PICK m, n \in Nat : m = Depth(x) /\ n = Depth(y)
  BY AncestorIn, Zenon
<1>2. AncestorAt(x, m) = x /\ AncestorAt(y, m) = x /\ m \in 0 .. n
  BY <1>1, AncestorIn, Zenon
<1>3. \A j \in 0 .. m : AncestorAt(x, j) = AncestorAt(y, j)
  BY <1>1, <1>2, AncestorTwice, Zenon
<1>4. m \in 0 .. m /\ \A j \in 0 .. m : j <= m
  BY <1>1
<1>5. ForkAt(x, y, m)
  BY <1>1, <1>2, <1>3, <1>4, Zenon DEF ForkAt
<1> QED
  BY <1>1, <1>2, <1>5, CommonIs, Zenon

\* A block is in the active chain iff it is the chain's block at its height.
LEMMA ContainsIs ==
  ASSUME KnownInv, Tip \in Known, vChain = PathTo(Tip), NEW c \in Known
  PROVE  /\ Height = Depth(Tip) /\ c \in Blocks /\ index[c].nHeight = Depth(c)
         /\ Depth(c) \in Nat /\ Depth(Tip) \in Nat /\ Tip \in Blocks
         /\ ChainContains(c) <=> Depth(c) \in 0 .. Depth(Tip) /\ AncestorAt(Tip, Depth(c)) = c
<1>1. /\ c \in Blocks /\ Tip \in Blocks /\ index[c].nHeight = Depth(c)
  BY KnownPath, Zenon
<1>2. PICK n \in Nat : n = Depth(Tip)
  BY <1>1, AncestorIn, Zenon
<1>3. PICK d \in Nat : d = Depth(c)
  BY <1>1, AncestorIn, Zenon
<1>4. Height = n
  BY <1>2, Zenon DEF Height, Depth
<1>5. d <= n <=> d \in 0 .. n
  BY <1>2, <1>3
<1>6. d \in 0 .. n => AncestorAt(Tip, d) = vChain[d + 1]
  BY <1>1, <1>2, AncestorIn, Zenon
<1>7. ChainContains(c) <=> d <= n /\ vChain[d + 1] = c
  BY <1>1, <1>3, <1>4, Zenon DEF ChainContains
<1>8. ChainContains(c) <=> d \in 0 .. n /\ AncestorAt(Tip, d) = c
  BY <1>5, <1>6, <1>7, Zenon
<1> QED
  BY <1>1, <1>2, <1>3, <1>4, <1>8, Zenon

\* One step back of FindFork().
LEMMA ForkStep ==
  ASSUME KnownInv, Tip \in Known, vChain = PathTo(Tip), NEW c \in Known
  PROVE  /\ ChainContains(c) => CommonBlock(c, Tip) = c
         /\ ~ChainContains(c) => /\ HashPrev[c] \in Known /\ HashPrev[c] < c
                                 /\ CommonBlock(HashPrev[c], Tip) = CommonBlock(c, Tip)
<1>1. /\ c \in Blocks /\ Tip \in Blocks
      /\ ChainContains(c) <=> Depth(c) \in 0 .. Depth(Tip) /\ AncestorAt(Tip, Depth(c)) = c
  BY ContainsIs, Zenon
<1>2. ASSUME ChainContains(c) PROVE CommonBlock(c, Tip) = c
  BY <1>1, <1>2, CommonSelf, Zenon
<1>3. ASSUME ~ChainContains(c)
      PROVE  /\ HashPrev[c] \in Known /\ HashPrev[c] < c
             /\ CommonBlock(HashPrev[c], Tip) = CommonBlock(c, Tip)
  <2>1. PICK d, n \in Nat : d = Depth(c) /\ n = Depth(Tip)
    BY <1>1, AncestorIn, Zenon
  <2>2. c # Genesis
    <3>1. 0 \in 0 .. n
      BY <2>1
    <3>2. AncestorAt(Tip, 0) = Genesis
      BY <1>1, AncestorIn, Zenon
    <3>3. c = Genesis => Depth(c) = 0
      BY <1>1, DepthZero, Zenon
    <3> QED
      BY <1>1, <1>3, <2>1, <3>1, <3>2, <3>3, Zenon
  <2>3. HashPrev[c] \in Known /\ HashPrev[c] < c
    BY <1>1, <2>2, TreeAssumption, Zenon DEF KnownInv
  <2>4. PICK k : ForkAt(c, Tip, k)
    BY <1>1, ForkExists, Zenon
  <2>5. k \in 0 .. d /\ k \in 0 .. n /\ AncestorAt(c, k) = AncestorAt(Tip, k)
    <3>1. k \in 0 .. d /\ k \in 0 .. n
      BY <2>1, <2>4, Zenon DEF ForkAt
    <3>2. k \in 0 .. k
      BY <2>1, <3>1
    <3> QED
      BY <2>4, <3>1, <3>2, Zenon DEF ForkAt
  <2>6. AncestorAt(c, d) = c
    BY <1>1, <2>1, AncestorIn, Zenon
  <2>7. k # d
    BY <1>1, <1>3, <2>1, <2>5, <2>6, Zenon
  <2>8. d - 1 \in 0 .. d /\ k <= d - 1
    BY <2>1, <2>5, <2>7
  <2>9. AncestorAt(c, d - 1) = HashPrev[c]
    BY <1>1, <2>1, <2>2, AncestorPrev, Zenon
  <2>10. CommonBlock(AncestorAt(c, d - 1), Tip) = CommonBlock(c, Tip)
    BY <1>1, <2>1, <2>4, <2>8, CommonBack, Zenon
  <2> QED
    BY <2>3, <2>9, <2>10, Zenon
<1> QED
  BY <1>2, <1>3, Zenon

\* FindFork() finds the last common block.
LEMMA FindForkIs ==
  ASSUME KnownInv, SkipInv, Tip \in Known, vChain = PathTo(Tip), NEW b \in Known
  PROVE  FindFork(b) = CommonBlock(b, Tip)
<1> DEFINE R(f, c) == IF c = Null THEN Null ELSE IF ChainContains(c) THEN c
                      ELSE f[HashPrev[c]]
           W == [c \in Known \cup {Null} |-> IF c = Null THEN Null ELSE CommonBlock(c, Tip)]
           g == CHOOSE Back : Back = [c \in Known \cup {Null} |-> R(Back, c)]
           start == IF index[b].nHeight > Height THEN GetAncestor(b, Height) ELSE b
<1>1. \A c \in Known : c # Null /\ c \in Blocks
  BY TreeAssumption, Zenon DEF KnownInv
<1>2. \A c \in Known \cup {Null} : W[c] = R(W, c)
  <2> SUFFICES ASSUME NEW c \in Known \cup {Null} PROVE W[c] = R(W, c)
    BY Zenon
  <2>1. CASE c = Null
    BY <2>1, Zenon
  <2>2. CASE c # Null
    <3>1. c \in Known /\ W[c] = CommonBlock(c, Tip)
      BY <2>2, Zenon
    <3>2. CASE ChainContains(c)
      BY <2>2, <3>1, <3>2, ForkStep, Zenon
    <3>3. CASE ~ChainContains(c)
      <4>1. /\ HashPrev[c] \in Known
            /\ CommonBlock(HashPrev[c], Tip) = CommonBlock(c, Tip)
        <5> HIDE DEF W, R
        <5> QED
          BY <3>1, <3>3, ForkStep, Zenon
      <4>2. W[HashPrev[c]] = CommonBlock(HashPrev[c], Tip)
        BY <1>1, <4>1, Zenon
      <4> HIDE DEF W
      <4> QED
        BY <2>2, <3>1, <3>3, <4>1, <4>2, Zenon
    <3> QED
      BY <3>2, <3>3, Zenon
  <2> QED
    BY <2>1, <2>2, Zenon
<1>3. W = [c \in Known \cup {Null} |-> R(W, c)]
  <2>1. W = [c \in Known \cup {Null} |-> W[c]]
    OBVIOUS
  <2> HIDE DEF W, R
  <2> QED
    BY <1>2, <2>1, Zenon
<1>4. g = [c \in Known \cup {Null} |-> R(g, c)]
  <2> HIDE DEF W
  <2> QED
    BY <1>3, Zenon
<1>5. FindFork(b) = g[start]
  BY Zenon DEF FindFork
<1> HIDE DEF g, W
<1>6. \A c \in Known : g[c] = IF ChainContains(c) THEN c ELSE g[HashPrev[c]]
  BY <1>1, <1>4, Zenon
<1> HIDE DEF R
<1> DEFINE Bad == {c \in Known : g[c] # CommonBlock(c, Tip)}
<1>7. Bad = {}
  <2> SUFFICES ASSUME Bad # {} PROVE FALSE
    BY Zenon
  <2>1. Bad \subseteq Nat
    BY <1>1, TreeAssumption, Zenon
  <2>2. PICK c \in Bad : \A d \in Bad : c <= d
    BY <2>1, Smallest, Zenon
  <2>3. c \in Known /\ g[c] # CommonBlock(c, Tip)
    BY <2>2, Zenon
  <2> HIDE DEF Bad
  <2>4. ~ChainContains(c)
    BY <1>6, <2>3, ForkStep, Zenon
  <2>5. /\ HashPrev[c] \in Known /\ HashPrev[c] < c
        /\ CommonBlock(HashPrev[c], Tip) = CommonBlock(c, Tip)
    BY <2>3, <2>4, ForkStep, Zenon
  <2>6. g[c] = g[HashPrev[c]]
    BY <1>6, <2>3, <2>4, Zenon
  <2>7. HashPrev[c] \in Bad
    BY <2>3, <2>5, <2>6, Zenon DEF Bad
  <2>8. c \in Nat /\ HashPrev[c] \in Nat
    BY <2>1, <2>2, <2>7, Zenon
  <2> QED
    BY <2>2, <2>5, <2>7, <2>8
<1>8. start \in Known /\ CommonBlock(start, Tip) = CommonBlock(b, Tip)
  <2>1. /\ b \in Blocks /\ Tip \in Blocks /\ Height = Depth(Tip)
        /\ index[b].nHeight = Depth(b) /\ Depth(b) \in Nat /\ Depth(Tip) \in Nat
    BY ContainsIs, Zenon
  <2>2. PICK d, n \in Nat : d = Depth(b) /\ n = Depth(Tip)
    BY <2>1, Zenon
  <2>3. CASE d > n
    <3>1. n \in 0 .. d
      BY <2>2, <2>3
    <3>2. start = GetAncestor(b, n)
      BY <2>1, <2>2, <2>3, Zenon
    <3>3. start = AncestorAt(b, n) /\ start \in Known
      BY <2>1, <2>2, <3>1, <3>2, AncestorFound, KnownPath, Zenon
    <3>4. PICK k : ForkAt(b, Tip, k)
      BY <2>1, ForkExists, Zenon
    <3>5. k \in 0 .. n
      BY <2>2, <3>4, Zenon DEF ForkAt
    <3>6. k <= n
      BY <2>2, <3>5
    <3> HIDE DEF start
    <3> QED
      BY <2>1, <2>2, <3>1, <3>3, <3>4, <3>6, CommonBack, Zenon
  <2>4. CASE ~(d > n)
    BY <2>1, <2>2, <2>4, Zenon
  <2> QED
    BY <2>3, <2>4
<1> HIDE DEF start
<1> QED
  BY <1>5, <1>7, <1>8, Zenon

\* One step back of LastCommonAncestor(), from two blocks at one height.
LEMMA LevelStep ==
  ASSUME KnownInv, SkipInv, NEW a \in Known, NEW b \in Known, a # b,
         index[b].nHeight = index[a].nHeight
  PROVE  \E n, s \in Nat :
           /\ n = index[a].nHeight /\ s < n /\ n >= 1
           /\ HashPrev[a] \in Known /\ HashPrev[b] \in Known
           /\ index[HashPrev[a]].nHeight = n - 1 /\ index[HashPrev[b]].nHeight = n - 1
           /\ CommonBlock(HashPrev[a], HashPrev[b]) = CommonBlock(a, b)
           /\ index[a].pskip \in Known /\ index[b].pskip \in Known
           /\ index[index[a].pskip].nHeight = s /\ index[index[b].pskip].nHeight = s
           /\ index[a].pskip # index[b].pskip =>
                CommonBlock(index[a].pskip, index[b].pskip) = CommonBlock(a, b)
<1>0. PICK n : n = index[a].nHeight /\ n = index[b].nHeight
  BY Zenon
<1>1. a \in Blocks /\ b \in Blocks /\ n = Depth(a) /\ n = Depth(b) /\ n \in Nat
  BY <1>0, KnownPath, Zenon DEF KnownInv
<1>2. n # 0
  BY <1>1, DepthZero, Zenon
<1>3. 0 \in Nat /\ 0 < n /\ n >= 1 /\ n - 1 \in 0 .. n
  BY <1>1, <1>2
<1>4. PICK s : s = GetSkipHeight(n)
  BY Zenon
<1>5. /\ HashPrev[a] \in Known /\ index[HashPrev[a]].nHeight = n - 1
      /\ index[a].pskip \in Known /\ index[index[a].pskip].nHeight = s
      /\ s \in 0 .. n - 1
  BY <1>0, <1>1, <1>3, <1>4, WalkStep, Zenon
<1>6. /\ HashPrev[b] \in Known /\ index[HashPrev[b]].nHeight = n - 1
      /\ index[b].pskip \in Known /\ index[index[b].pskip].nHeight = s
  BY <1>0, <1>1, <1>3, <1>4, WalkStep, Zenon
<1>7. a # Genesis /\ b # Genesis
  BY <1>1, <1>2, DepthZero, Zenon
<1>8. index[a].pskip = AncestorAt(a, s) /\ index[b].pskip = AncestorAt(b, s)
  BY <1>0, <1>4, <1>7, Zenon DEF SkipInv
<1>9. HashPrev[a] = AncestorAt(a, n - 1) /\ HashPrev[b] = AncestorAt(b, n - 1)
  BY <1>1, <1>7, AncestorPrev, Zenon
<1>10. PICK k : ForkAt(a, b, k)
  BY <1>1, ForkExists, Zenon
<1>11. /\ k \in 0 .. n /\ \A j \in 0 .. k : AncestorAt(a, j) = AncestorAt(b, j)
  BY <1>1, <1>10, Zenon DEF ForkAt
<1>12. AncestorAt(a, n) = a /\ AncestorAt(b, n) = b
  BY <1>1, AncestorIn, Zenon
<1>13. k <= n - 1
  <2>1. n \notin 0 .. k
    BY <1>11, <1>12, Zenon
  <2> QED
    BY <1>1, <1>11, <2>1
<1>14. CommonBlock(HashPrev[a], HashPrev[b]) = CommonBlock(a, b)
  <2>1. n - 1 \in 0 .. Depth(a) /\ n - 1 \in 0 .. Depth(b)
    BY <1>1, <1>3, Zenon
  <2>2. CommonBlock(AncestorAt(a, n - 1), AncestorAt(b, n - 1)) = CommonBlock(a, b)
    BY <1>1, <1>10, <1>13, <2>1, CommonLevel, Zenon
  <2> QED
    BY <1>9, <2>2, Zenon
<1>15. ASSUME index[a].pskip # index[b].pskip
       PROVE  CommonBlock(index[a].pskip, index[b].pskip) = CommonBlock(a, b)
  <2>1. s \notin 0 .. k
    BY <1>8, <1>11, <1>15, Zenon
  <2>2. k <= s /\ s \in 0 .. n
    BY <1>1, <1>5, <1>11, <2>1
  <2>3. s \in 0 .. Depth(a) /\ s \in 0 .. Depth(b)
    BY <1>1, <2>2, Zenon
  <2>4. CommonBlock(AncestorAt(a, s), AncestorAt(b, s)) = CommonBlock(a, b)
    BY <1>1, <1>10, <2>2, <2>3, CommonLevel, Zenon
  <2> QED
    BY <1>8, <2>4, Zenon
<1>16. s \in Nat /\ s < n
  BY <1>1, <1>5
<1> QED
  BY <1>0, <1>1, <1>3, <1>5, <1>6, <1>14, <1>15, <1>16, Zenon

\* LastCommonAncestor() finds the last common block of any two known blocks.
LEMMA LastCommonIs ==
  ASSUME KnownInv, SkipInv, NEW x \in Known, NEW y \in Known
  PROVE  LastCommonAncestor(x, y) = CommonBlock(x, y)
<1> DEFINE hx == index[x].nHeight
           hy == index[y].nHeight
           Skip(b) == index[b].pskip
           R(f, ab) == IF ab[1] = ab[2] THEN ab[1]
                       ELSE IF Skip(ab[1]) # Skip(ab[2]) THEN f[<<Skip(ab[1]), Skip(ab[2])>>]
                       ELSE f[<<HashPrev[ab[1]], HashPrev[ab[2]]>>]
           W == [ab \in Level |-> CommonBlock(ab[1], ab[2])]
           g == CHOOSE Back : Back = [ab \in Level |-> R(Back, ab)]
           start == IF hx > hy THEN <<GetAncestor(x, hy), y>>
                    ELSE IF hy > hx THEN <<x, GetAncestor(y, hx)>> ELSE <<x, y>>
<1>1. /\ \A ab \in Level : /\ ab[1] \in Known /\ ab[2] \in Known
                           /\ index[ab[1]].nHeight = index[ab[2]].nHeight
      /\ \A a, b \in Known : index[a].nHeight = index[b].nHeight => <<a, b>> \in Level
  BY Zenon DEF Level
<1>2. ASSUME NEW a \in Known PROVE CommonBlock(a, a) = a
  <2>1. PICK n \in Nat : a \in Blocks /\ n = Depth(a) /\ AncestorAt(a, n) = a
    BY AncestorIn, Zenon DEF KnownInv
  <2>2. n \in 0 .. n
    BY <2>1
  <2> QED
    BY <2>1, <2>2, CommonSelf, Zenon
<1>3. \A ab \in Level : W[ab] = R(W, ab)
  <2> SUFFICES ASSUME NEW ab \in Level PROVE W[ab] = R(W, ab)
    BY Zenon
  <2>1. PICK a, b : a = ab[1] /\ b = ab[2]
    BY Zenon
  <2>2. a \in Known /\ b \in Known /\ index[a].nHeight = index[b].nHeight
    BY <1>1, <2>1, Zenon
  <2>3. W[ab] = CommonBlock(a, b)
    BY <2>1, Zenon
  <2>4. R(W, ab) = IF a = b THEN a
                   ELSE IF Skip(a) # Skip(b) THEN W[<<Skip(a), Skip(b)>>]
                   ELSE W[<<HashPrev[a], HashPrev[b]>>]
    <3> HIDE DEF W, Skip
    <3> QED
      BY <2>1, Zenon
  <2>5. CASE a = b
    <3> HIDE DEF W, R
    <3> QED
      BY <1>2, <2>2, <2>3, <2>4, <2>5, Zenon
  <2>6. CASE a # b
    <3>1. /\ HashPrev[a] \in Known /\ HashPrev[b] \in Known
          /\ index[HashPrev[a]].nHeight = index[HashPrev[b]].nHeight
          /\ CommonBlock(HashPrev[a], HashPrev[b]) = CommonBlock(a, b)
          /\ Skip(a) \in Known /\ Skip(b) \in Known
          /\ index[Skip(a)].nHeight = index[Skip(b)].nHeight
          /\ Skip(a) # Skip(b) => CommonBlock(Skip(a), Skip(b)) = CommonBlock(a, b)
      <4> HIDE DEF W, R
      <4>1. PICK m, s \in Nat :
              /\ m = index[a].nHeight /\ s < m /\ m >= 1
              /\ HashPrev[a] \in Known /\ HashPrev[b] \in Known
              /\ index[HashPrev[a]].nHeight = m - 1 /\ index[HashPrev[b]].nHeight = m - 1
              /\ CommonBlock(HashPrev[a], HashPrev[b]) = CommonBlock(a, b)
              /\ Skip(a) \in Known /\ Skip(b) \in Known
              /\ index[Skip(a)].nHeight = s /\ index[Skip(b)].nHeight = s
              /\ Skip(a) # Skip(b) => CommonBlock(Skip(a), Skip(b)) = CommonBlock(a, b)
        BY <2>2, <2>6, LevelStep, Zenon
      <4> HIDE DEF Skip
      <4> QED
        BY <4>1, Zenon
    <3> HIDE DEF Skip
    <3>2. <<HashPrev[a], HashPrev[b]>> \in Level /\ <<Skip(a), Skip(b)>> \in Level
      BY <1>1, <3>1, Zenon
    <3>3. W[<<HashPrev[a], HashPrev[b]>>] = CommonBlock(HashPrev[a], HashPrev[b])
      BY <3>2, Zenon
    <3>4. W[<<Skip(a), Skip(b)>>] = CommonBlock(Skip(a), Skip(b))
      BY <3>2, Zenon
    <3> HIDE DEF W, R
    <3> QED
      BY <2>3, <2>4, <2>6, <3>1, <3>3, <3>4, Zenon
  <2> HIDE DEF W, R
  <2> QED
    BY <2>5, <2>6, Zenon
<1>4. W = [ab \in Level |-> R(W, ab)]
  <2>1. W = [ab \in Level |-> W[ab]]
    OBVIOUS
  <2> HIDE DEF W, R
  <2> QED
    BY <1>3, <2>1, Zenon
<1>5. g = [ab \in Level |-> R(g, ab)]
  <2> HIDE DEF W
  <2> QED
    BY <1>4, Zenon
<1>6. LastCommonAncestor(x, y) = g[start]
  BY Zenon DEF LastCommonAncestor
<1> HIDE DEF g, W, start
<1>7. ASSUME NEW a \in Known, NEW b \in Known, index[b].nHeight = index[a].nHeight
      PROVE  g[<<a, b>>] = IF a = b THEN a
                           ELSE IF Skip(a) # Skip(b) THEN g[<<Skip(a), Skip(b)>>]
                           ELSE g[<<HashPrev[a], HashPrev[b]>>]
  <2>1. PICK ab : ab = <<a, b>>
    BY Zenon
  <2>2. ab[1] = a /\ ab[2] = b /\ ab \in Level
    BY <1>1, <1>7, <2>1, Zenon
  <2>3. R(g, ab) = IF a = b THEN a
                   ELSE IF Skip(a) # Skip(b) THEN g[<<Skip(a), Skip(b)>>]
                   ELSE g[<<HashPrev[a], HashPrev[b]>>]
    <3> HIDE DEF Skip
    <3> QED
      BY <2>2, Zenon
  <2> HIDE DEF R
  <2>4. g[ab] = R(g, ab)
    BY <1>5, <2>2, Zenon
  <2> QED
    BY <2>1, <2>3, <2>4, Zenon
<1> HIDE DEF R
<1> DEFINE Bad == {n \in Nat : \E a, b \in Known : /\ n = index[a].nHeight
                                                   /\ n = index[b].nHeight
                                                   /\ g[<<a, b>>] # CommonBlock(a, b)}
<1>8. Bad = {}
  <2> SUFFICES ASSUME Bad # {} PROVE FALSE
    BY Zenon
  <2>1. Bad \subseteq Nat
    BY Zenon
  <2>2. PICK n \in Bad : \A m \in Bad : n <= m
    BY <2>1, Smallest, Zenon
  <2>3. PICK a, b \in Known : /\ n = index[a].nHeight /\ n = index[b].nHeight /\ n \in Nat
                              /\ g[<<a, b>>] # CommonBlock(a, b)
    BY <2>2, Zenon
  <2>4. g[<<a, b>>] = IF a = b THEN a
                      ELSE IF Skip(a) # Skip(b) THEN g[<<Skip(a), Skip(b)>>]
                      ELSE g[<<HashPrev[a], HashPrev[b]>>]
    <3> HIDE DEF Skip, Bad
    <3>1. index[b].nHeight = index[a].nHeight
      BY <2>3, Zenon
    <3> QED
      BY <1>7, <3>1
  <2>5. a # b
    BY <1>2, <2>3, <2>4, Zenon
  <2>6. PICK m, s \in Nat :
           /\ m = index[a].nHeight /\ s < m /\ m >= 1
           /\ HashPrev[a] \in Known /\ HashPrev[b] \in Known
           /\ index[HashPrev[a]].nHeight = m - 1 /\ index[HashPrev[b]].nHeight = m - 1
           /\ CommonBlock(HashPrev[a], HashPrev[b]) = CommonBlock(a, b)
           /\ Skip(a) \in Known /\ Skip(b) \in Known
           /\ index[Skip(a)].nHeight = s /\ index[Skip(b)].nHeight = s
           /\ Skip(a) # Skip(b) => CommonBlock(Skip(a), Skip(b)) = CommonBlock(a, b)
    <3> HIDE DEF Bad
    <3>1. index[b].nHeight = index[a].nHeight
      BY <2>3, Zenon
    <3> QED
      BY <2>5, <3>1, LevelStep, Zenon
  <2>7. m = n
    BY <2>3, <2>6, Zenon
  <2> HIDE DEF Skip
  <2>8. s \in Nat /\ m - 1 \in Nat /\ ~(n <= s) /\ ~(n <= m - 1)
    BY <2>6, <2>7
  <2>9. ASSUME NEW h \in Nat, ~(n <= h), NEW c \in Known, NEW d \in Known,
               h = index[c].nHeight, h = index[d].nHeight
        PROVE  g[<<c, d>>] = CommonBlock(c, d)
    <3>1. h \notin Bad
      <4> HIDE DEF Bad
      <4> QED
        BY <2>2, <2>9, Zenon
    <3> QED
      BY <2>9, <3>1, Zenon
  <2> HIDE DEF Bad
  <2>10. g[<<HashPrev[a], HashPrev[b]>>] = CommonBlock(HashPrev[a], HashPrev[b])
    <3>1. /\ HashPrev[a] \in Known /\ HashPrev[b] \in Known
          /\ index[HashPrev[a]].nHeight = m - 1 /\ index[HashPrev[b]].nHeight = m - 1
      BY <2>6, Zenon
    <3>2. PICK h \in Nat : h = m - 1 /\ ~(n <= h)
      BY <2>8, Zenon
    <3>3. h = index[HashPrev[a]].nHeight /\ h = index[HashPrev[b]].nHeight
      BY <3>1, <3>2, Zenon
    <3> QED
      BY <2>9, <3>1, <3>2, <3>3, Zenon
  <2>11. g[<<Skip(a), Skip(b)>>] = CommonBlock(Skip(a), Skip(b))
    <3>1. /\ Skip(a) \in Known /\ Skip(b) \in Known
          /\ index[Skip(a)].nHeight = s /\ index[Skip(b)].nHeight = s
      BY <2>6, Zenon
    <3> QED
      BY <2>8, <2>9, <3>1, Zenon
  <2> QED
    BY <2>3, <2>4, <2>5, <2>6, <2>10, <2>11, Zenon
<1>9. PICK m, n \in Nat : /\ m = hx /\ n = hy /\ m = Depth(x) /\ n = Depth(y)
                          /\ x \in Blocks /\ y \in Blocks
  BY KnownPath, Zenon DEF KnownInv
<1>10. PICK k : ForkAt(x, y, k) /\ k \in 0 .. m /\ k \in 0 .. n
  BY <1>9, ForkExists, Zenon DEF ForkAt
<1>11. \E a, b \in Known : /\ start = <<a, b>> /\ index[a].nHeight = index[b].nHeight
                           /\ CommonBlock(a, b) = CommonBlock(x, y)
  <2>1. CASE m > n
    <3>1. n \in 0 .. m /\ k <= n
      BY <1>9, <1>10, <2>1
    <3>2. PICK a : a = GetAncestor(x, n)
      BY Zenon
    <3>3. start = <<a, y>>
      BY <1>9, <2>1, <3>2, Zenon DEF start
    <3>4. a = AncestorAt(x, n)
      BY <1>9, <3>1, <3>2, AncestorFound, Zenon
    <3>5. a \in Known /\ Depth(a) = n
      BY <1>9, <3>1, <3>4, KnownPath, AncestorIn, Zenon
    <3>6. index[a].nHeight = n
      BY <3>5, KnownPath, Zenon
    <3>7. CommonBlock(a, y) = CommonBlock(x, y)
      BY <1>9, <1>10, <3>1, <3>4, CommonBack, Zenon
    <3> QED
      BY <1>9, <3>3, <3>5, <3>6, <3>7, Zenon
  <2>2. CASE n > m
    <3>1. m \in 0 .. n /\ k <= m /\ ~(m > n)
      BY <1>9, <1>10, <2>2
    <3>2. PICK b : b = GetAncestor(y, m)
      BY Zenon
    <3>3. start = <<x, b>>
      BY <1>9, <2>2, <3>1, <3>2, Zenon DEF start
    <3>4. b = AncestorAt(y, m)
      BY <1>9, <3>1, <3>2, AncestorFound, Zenon
    <3>5. b \in Known /\ Depth(b) = m
      BY <1>9, <3>1, <3>4, KnownPath, AncestorIn, Zenon
    <3>6. index[b].nHeight = m /\ b \in Blocks
      BY <3>5, KnownPath, Zenon
    <3>7. ForkAt(y, x, k)
      BY <1>10, Zenon DEF ForkAt
    <3>8. CommonBlock(b, x) = CommonBlock(y, x)
      BY <1>9, <3>1, <3>4, <3>7, CommonBack, Zenon
    <3>9. CommonBlock(x, b) = CommonBlock(x, y)
      BY <1>9, <3>6, <3>8, CommonSym, Zenon
    <3> QED
      BY <1>9, <3>3, <3>5, <3>6, <3>9, Zenon
  <2>3. CASE ~(m > n) /\ ~(n > m)
    <3>1. m = n
      BY <1>9, <2>3
    <3>2. start = <<x, y>>
      BY <1>9, <2>3, Zenon DEF start
    <3> QED
      BY <1>9, <3>1, <3>2, Zenon
  <2> QED
    BY <2>1, <2>2, <2>3
<1>12. PICK a, b \in Known : /\ start = <<a, b>> /\ index[a].nHeight = index[b].nHeight
                             /\ CommonBlock(a, b) = CommonBlock(x, y)
  BY <1>11, Zenon
<1>13. index[a].nHeight \in Nat
  BY Zenon DEF KnownInv
<1>14. g[<<a, b>>] = CommonBlock(a, b)
  BY <1>8, <1>12, <1>13, Zenon
<1> QED
  BY <1>6, <1>12, <1>14, Zenon

\* FindFork() and LastCommonAncestor() find the fork point in every tree.
THEOREM ForksExact == Spec => []ForkExact
<1>1. IndexInv /\ PathInv => ForkExact
  <2> SUFFICES ASSUME IndexInv, PathInv, pc = "run", NEW b \in Known
               PROVE  /\ FindFork(b) = CommonBlock(b, Tip)
                      /\ LastCommonAncestor(b, Tip) = CommonBlock(b, Tip)
    BY Zenon DEF ForkExact
  <2>1. KnownInv /\ SkipInv /\ Tip \in Known /\ vChain = PathTo(Tip)
    BY Zenon DEF IndexInv, PathInv, ChainInv
  <2> QED
    BY <2>1, FindForkIs, LastCommonIs, Zenon
<1> QED
  BY <1>1, IndexInvariant, PathInvariant, PTL

-----------------------------------------------------------------------------
(* Locators *)

\* f[e] lists v[e] and goes on with go[e] until Z is reached.
IsList(f, D, go, Z, v) ==
  f = [e \in D |-> IF e \in Z THEN <<v[e]>> ELSE <<v[e]>> \o f[go[e]]]

\* There is such a list if every step lowers a natural number.
LEMMA ListDefined ==
  ASSUME NEW D, NEW r \in [D -> Nat], NEW go \in [D -> D], NEW Z, NEW v,
         \A e \in D : e \notin Z => r[go[e]] < r[e]
  PROVE  \E f : IsList(f, D, go, Z, v)
<1> DEFINE Rhs(f, e) == IF e \in Z THEN <<v[e]>> ELSE <<v[e]>> \o f[go[e]]
           Sol(f, n) == \A e \in D : r[e] < n => f[e] = Rhs(f, e)
<1>0. \A e \in D : r[e] \in Nat /\ go[e] \in D
  BY Zenon
<1>1. ASSUME NEW f, NEW g, NEW n \in Nat, NEW m \in Nat, Sol(f, n), Sol(g, m)
      PROVE  \A e \in D : r[e] < n /\ r[e] < m => f[e] = g[e]
  <2> DEFINE Bad == {k \in Nat : \E e \in D : /\ k = r[e] /\ k < n /\ k < m
                                              /\ f[e] # g[e]}
  <2>1. Bad = {}
    <3> SUFFICES ASSUME Bad # {} PROVE FALSE
      BY Zenon
    <3>1. Bad \subseteq Nat
      BY Zenon
    <3>2. PICK k \in Bad : \A j \in Bad : k <= j
      BY <3>1, Smallest, Zenon
    <3>3. PICK e \in D : k = r[e] /\ k < n /\ k < m /\ f[e] # g[e] /\ k \in Nat
      BY <3>2, Zenon
    <3>4. f[e] = Rhs(f, e) /\ g[e] = Rhs(g, e)
      <4> HIDE DEF Rhs, Bad
      <4> QED
        BY <1>1, <3>3, Zenon
    <3>5. e \notin Z /\ f[go[e]] # g[go[e]]
      <4> HIDE DEF Bad, Sol
      <4> QED
        BY <3>3, <3>4, Zenon
    <3>6. PICK j \in Nat : j = r[go[e]] /\ j < k
      BY <1>0, <3>3, <3>5, Zenon
    <3>7. j < n /\ j < m /\ ~(k <= j)
      BY <3>3, <3>6
    <3>8. go[e] \in D
      BY <1>0, Zenon
    <3>9. j \in Bad
      BY <3>5, <3>6, <3>7, <3>8, Zenon
    <3> QED
      BY <3>2, <3>7, <3>9, Zenon
  <2>2. \A e \in D : r[e] \in Nat
    BY <1>0, Zenon
  <2> QED
    BY <2>1, <2>2, Zenon
<1>2. \A n \in Nat : \E f : Sol(f, n)
  <2> DEFINE Bad == {n \in Nat : ~ \E f : Sol(f, n)}
  <2> SUFFICES ASSUME Bad # {} PROVE FALSE
    BY Zenon
  <2>1. Bad \subseteq Nat
    BY Zenon
  <2>2. PICK n \in Bad : \A j \in Bad : n <= j
    BY <2>1, Smallest, Zenon
  <2>3. n \in Nat /\ \A f : ~Sol(f, n)
    <3> HIDE DEF Sol
    <3> QED
      BY <2>2, Zenon
  <2>4. CASE n = 0
    <3>1. \A e \in D : ~(r[e] < 0)
      BY <1>0
    <3> QED
      BY <2>3, <2>4, <3>1, Zenon
  <2>5. CASE n # 0
    <3>1. PICK k \in Nat : k = n - 1 /\ ~(n <= k)
      BY <2>3, <2>5
    <3>2. PICK f : Sol(f, k)
      <4> HIDE DEF Sol
      <4> QED
        BY <2>2, <3>1, Zenon
    <3>3. PICK g : g = [e \in D |-> Rhs(f, e)]
      BY Zenon
    <3>4. \A e \in D : g[e] = Rhs(f, e)
      <4> HIDE DEF Rhs
      <4> QED
        BY <3>3, Zenon
    <3>5. ASSUME NEW e \in D, r[e] < n PROVE g[e] = Rhs(g, e)
      <4>1. CASE e \in Z
        BY <3>4, <4>1, Zenon
      <4>2. CASE e \notin Z
        <5>1. go[e] \in D /\ r[go[e]] < r[e]
          BY <1>0, <4>2, Zenon
        <5>2. r[go[e]] < k
          BY <1>0, <2>3, <3>1, <3>5, <5>1
        <5>3. f[go[e]] = Rhs(f, go[e]) /\ g[go[e]] = Rhs(f, go[e])
          <6> HIDE DEF Rhs
          <6> QED
            BY <3>2, <3>4, <5>1, <5>2, Zenon
        <5>4. f[go[e]] = g[go[e]]
          BY <5>3, Zenon
        <5> QED
          BY <3>4, <4>2, <5>4, Zenon
      <4> QED
        BY <4>1, <4>2, Zenon
    <3> QED
      BY <2>3, <3>5, Zenon
  <2> QED
    BY <2>4, <2>5, Zenon
<1> DEFINE F(n) == CHOOSE f : Sol(f, n)
           h == [e \in D |-> F(r[e] + 1)[e]]
<1>3. \A n \in Nat : Sol(F(n), n)
  <2> HIDE DEF Sol
  <2> QED
    BY <1>2, Zenon
<1> HIDE DEF F
<1>4. \A e \in D : h[e] = F(r[e] + 1)[e]
  BY Zenon
<1>5. h = [e \in D |-> h[e]]
  OBVIOUS
<1> HIDE DEF h
<1>6. ASSUME NEW e \in D PROVE h[e] = Rhs(h, e)
  <2>1. PICK n \in Nat : n = r[e] + 1 /\ r[e] < n
    BY <1>0
  <2>2. Sol(F(n), n)
    <3> HIDE DEF Sol
    <3> QED
      BY <1>3, <2>1, Zenon
  <2>3. h[e] = F(n)[e]
    <3> HIDE DEF Sol, Rhs
    <3> QED
      BY <1>4, <2>1, Zenon
  <2>4. h[e] = Rhs(F(n), e)
    <3> HIDE DEF Rhs
    <3> QED
      BY <2>1, <2>2, <2>3, Zenon
  <2>5. CASE e \in Z
    BY <2>4, <2>5, Zenon
  <2>6. CASE e \notin Z
    <3>1. go[e] \in D /\ r[go[e]] < r[e]
      BY <1>0, <2>6, Zenon
    <3>2. PICK m \in Nat : m = r[go[e]] + 1 /\ r[go[e]] < m /\ r[go[e]] < n
      BY <1>0, <2>1, <3>1
    <3>3. Sol(F(m), m)
      <4> HIDE DEF Sol
      <4> QED
        BY <1>3, <3>2, Zenon
    <3>4. F(m)[go[e]] = F(n)[go[e]]
      <4> HIDE DEF Sol
      <4>1. PICK a, b : a = F(m) /\ b = F(n)
        BY Zenon
      <4>2. Sol(a, m) /\ Sol(b, n)
        BY <2>2, <3>3, <4>1, Zenon
      <4>3. \A x \in D : r[x] < m /\ r[x] < n => a[x] = b[x]
        BY <1>1, <4>2
      <4> QED
        BY <3>1, <3>2, <4>1, <4>3, Zenon
    <3>5. h[go[e]] = F(m)[go[e]]
      BY <1>4, <3>1, <3>2, Zenon
    <3> HIDE DEF Sol
    <3> QED
      BY <2>4, <2>6, <3>4, <3>5, Zenon
  <2> QED
    BY <2>5, <2>6
<1>7. h = [e \in D |-> Rhs(h, e)]
  <2> HIDE DEF Rhs
  <2> QED
    BY <1>5, <1>6, Zenon
<1>8. IsList(h, D, go, Z, v)
  BY <1>7, Zenon DEF IsList
<1> HIDE DEF Sol
<1> QED
  BY <1>8, Zenon

\* What a locator made for c has in it, n blocks being in it before: ancestors of
\* c, genesis among them, and of the first eleven blocks all.
LocatorGood(s, c, n) ==
  /\ s \in Seq(Known)
  /\ \A i \in 1 .. Len(s) : \E h \in 0 .. Depth(c) : s[i] = AncestorAt(c, h)
  /\ \E i \in 1 .. Len(s) : s[i] = Genesis
  /\ \A i \in 1 .. 11 : n + i <= 11 /\ i <= Depth(c) + 1 =>
       i <= Len(s) /\ s[i] = AncestorAt(c, Depth(c) - i + 1)

\* It ends with genesis.
LEMMA LocatorEnd ==
  ASSUME NEW c \in Known, c \in Blocks, Depth(c) = 0, NEW n \in Nat
  PROVE  LocatorGood(<<c>>, c, n)
<1>1. c = Genesis /\ AncestorAt(c, 0) = c
  BY DepthZero, AncestorIn, Zenon
<1>2. <<c>> \in Seq(Known) /\ Len(<<c>>) = 1 /\ <<c>>[1] = c
  OBVIOUS
<1>3. PICK s : s = <<c>>
  BY Zenon
<1>4. s \in Seq(Known) /\ Len(s) = 1 /\ s[1] = c
  BY <1>2, <1>3, Zenon
<1>5. /\ \A i \in 1 .. 1 : i = 1
      /\ \A i \in 1 .. 11 : i <= 0 + 1 => i = 1 /\ i <= 1 /\ 0 - i + 1 = 0
      /\ 0 \in 0 .. 0 /\ 1 \in 1 .. 1
  OBVIOUS
<1>6. \A i \in 1 .. Len(s) : \E h \in 0 .. Depth(c) : s[i] = AncestorAt(c, h)
  BY <1>1, <1>4, <1>5, Zenon
<1>7. \E i \in 1 .. Len(s) : s[i] = Genesis
  BY <1>1, <1>4, <1>5, Zenon
<1>8. ASSUME NEW i \in 1 .. 11, i <= Depth(c) + 1
      PROVE  i <= Len(s) /\ s[i] = AncestorAt(c, Depth(c) - i + 1)
  <2>1. i = 1 /\ i <= 1 /\ 0 - i + 1 = 0
    BY <1>5, <1>8, Zenon
  <2> QED
    BY <1>1, <1>4, <2>1, Zenon
<1> QED
  BY <1>3, <1>4, <1>6, <1>7, <1>8, Zenon DEF LocatorGood

\* One block more in front: the parent's locator after it, for the first blocks.
LEMMA LocatorMore ==
  ASSUME NEW c \in Known, c \in Blocks, NEW n \in Nat, NEW k \in 0 .. Depth(c) - 1,
         n <= 10 => k = Depth(c) - 1,
         NEW s, LocatorGood(s, AncestorAt(c, k), n + 1)
  PROVE  LocatorGood(<<c>> \o s, c, n)
<1>1. PICK m \in Nat : m = Depth(c) /\ AncestorAt(c, m) = c
  BY AncestorIn, Zenon
<1>2. k \in 0 .. m /\ k <= m - 1 /\ m >= 1 /\ k \in Nat
  BY <1>1
<1>3. PICK d : d = AncestorAt(c, k) /\ Depth(d) = k
  <2>1. k \in 0 .. Depth(c)
    BY <1>1, <1>2, Zenon
  <2> QED
    BY <2>1, AncestorIn, Zenon
<1>4. \A j \in 0 .. k : AncestorAt(d, j) = AncestorAt(c, j)
  BY <1>1, <1>2, <1>3, AncestorTwice, Zenon
<1>5. /\ s \in Seq(Known)
      /\ \A i \in 1 .. Len(s) : \E h \in 0 .. k : s[i] = AncestorAt(d, h)
      /\ \E i \in 1 .. Len(s) : s[i] = Genesis
      /\ \A i \in 1 .. 11 : (n + 1) + i <= 11 /\ i <= k + 1 =>
           i <= Len(s) /\ s[i] = AncestorAt(d, k - i + 1)
  BY <1>3, Zenon DEF LocatorGood
<1>6. PICK q : q = <<c>> \o s
  BY Zenon
<1>7. PICK L \in Nat : L = Len(s)
  BY <1>5
<1>8. /\ q \in Seq(Known) /\ Len(q) = L + 1 /\ q[1] = c
      /\ \A i \in 1 .. L : q[i + 1] = s[i]
  BY <1>5, <1>6, <1>7
<1>9. ASSUME NEW i \in 1 .. L + 1 PROVE \E h \in 0 .. m : q[i] = AncestorAt(c, h)
  <2>1. CASE i = 1
    <3>1. m \in 0 .. m
      BY <1>1
    <3> QED
      BY <1>1, <1>8, <2>1, <3>1, Zenon
  <2>2. CASE i # 1
    <3>1. PICK j \in 1 .. L : i = j + 1
      <4>1. i - 1 \in 1 .. L /\ i = (i - 1) + 1
        BY <1>7, <2>2
      <4> QED
        BY <4>1, Zenon
    <3>2. PICK h \in 0 .. k : s[j] = AncestorAt(d, h)
      BY <1>5, <1>7, Zenon
    <3>3. h \in 0 .. m
      BY <1>2
    <3> QED
      BY <1>4, <1>8, <3>1, <3>2, <3>3, Zenon
  <2> QED
    BY <2>1, <2>2
<1>10. \E i \in 1 .. L + 1 : q[i] = Genesis
  <2>1. PICK i \in 1 .. L : s[i] = Genesis
    BY <1>5, <1>7, Zenon
  <2>2. i + 1 \in 1 .. L + 1
    BY <1>7
  <2> QED
    BY <1>8, <2>1, <2>2, Zenon
<1>11. ASSUME NEW i \in 1 .. 11, n + i <= 11, i <= m + 1
       PROVE  i <= L + 1 /\ q[i] = AncestorAt(c, m - i + 1)
  <2>1. CASE i = 1
    <3>1. m - i + 1 = m /\ i <= L + 1
      BY <1>1, <1>7, <2>1
    <3> QED
      BY <1>1, <1>8, <2>1, <3>1, Zenon
  <2>2. CASE i # 1
    <3>1. PICK j \in 1 .. 11 : j = i - 1 /\ i = j + 1 /\ (n + 1) + j <= 11
      BY <1>11, <2>2
    <3>2. n <= 10
      BY <1>11
    <3>3. k = m - 1
      BY <1>1, <3>2, Zenon
    <3>4. j <= k + 1 /\ k - j + 1 = m - i + 1 /\ k - j + 1 \in 0 .. k
      BY <1>1, <1>2, <1>11, <3>1, <3>3
    <3>5. j <= L /\ s[j] = AncestorAt(d, k - j + 1)
      BY <1>5, <1>7, <3>1, <3>4, Zenon
    <3>6. AncestorAt(d, k - j + 1) = AncestorAt(c, m - i + 1)
      BY <1>4, <3>4, Zenon
    <3>7. i <= L + 1 /\ j \in 1 .. L
      BY <1>7, <3>1, <3>5
    <3> QED
      BY <1>8, <3>1, <3>5, <3>6, <3>7, Zenon
  <2> QED
    BY <2>1, <2>2
<1> QED
  BY <1>1, <1>6, <1>8, <1>9, <1>10, <1>11, Zenon DEF LocatorGood

\* LocatorEntries() makes such a locator.
LEMMA LocatorIs ==
  ASSUME KnownInv, SkipInv, NEW b \in Known
  PROVE  LocatorGood(LocatorEntries(b), b, 0)
<1> DEFINE D == LocatorLoop
           H(e) == index[e[1]].nHeight
           G(e) == <<GetAncestor(e[1], StepDown(index[e[1]].nHeight, e[2])),
                     NextStep(e[2], e[3] + 1), e[3] + 1>>
           R(f, e) == IF index[e[1]].nHeight = 0 THEN <<e[1]>>
                      ELSE <<e[1]>> \o
                             f[<<GetAncestor(e[1], StepDown(index[e[1]].nHeight, e[2])),
                                 NextStep(e[2], e[3] + 1), e[3] + 1>>]
           g == CHOOSE Entries : Entries = [e \in D |-> R(Entries, e)]
<1>1. /\ \A e \in D : e[1] \in Known /\ e[2] \in Nat /\ e[2] # 0 /\ e[3] \in Nat
      /\ \A c \in Known : \A t \in Nat \ {0} : \A n \in Nat : <<c, t, n>> \in D
  BY DEF LocatorLoop
<1> HIDE DEF D
<1>2. ASSUME NEW c \in Known, NEW t \in Nat, t # 0, NEW n \in Nat, Depth(c) # 0
      PROVE  \E k \in 0 .. Depth(c) - 1 :
               /\ k = StepDown(index[c].nHeight, t)
               /\ GetAncestor(c, k) = AncestorAt(c, k) /\ AncestorAt(c, k) \in Known
               /\ index[AncestorAt(c, k)].nHeight = k
               /\ t = 1 => k = Depth(c) - 1
               /\ <<AncestorAt(c, k), NextStep(t, n + 1), n + 1>> \in D
               /\ NextStep(t, n + 1) \in Nat /\ NextStep(t, n + 1) # 0
               /\ n + 1 <= 10 => NextStep(t, n + 1) = t
  <2>1. PICK m \in Nat : m = Depth(c) /\ m = index[c].nHeight /\ c \in Blocks
    BY KnownPath, Zenon DEF KnownInv
  <2>2. PICK k : k = StepDown(m, t)
    BY Zenon
  <2>3. k \in 0 .. m - 1 /\ k \in 0 .. m /\ (t = 1 => k = m - 1)
    BY <1>2, <2>1, <2>2 DEF StepDown
  <2>4. GetAncestor(c, k) = AncestorAt(c, k)
    BY <2>1, <2>3, AncestorFound, Zenon
  <2>5. PICK d : d = AncestorAt(c, k)
    BY Zenon
  <2>6. d \in Known /\ Depth(d) = k
    <3>1. k \in 0 .. Depth(c)
      BY <2>1, <2>3, Zenon
    <3> QED
      BY <2>1, <2>5, <3>1, KnownPath, AncestorIn, Zenon
  <2>7. index[d].nHeight = k
    BY <2>6, KnownPath, Zenon
  <2>8. /\ NextStep(t, n + 1) \in Nat /\ NextStep(t, n + 1) # 0 /\ n + 1 \in Nat
        /\ n + 1 <= 10 => NextStep(t, n + 1) = t
    BY <1>2 DEF NextStep
  <2>9. <<d, NextStep(t, n + 1), n + 1>> \in D
    BY <1>1, <2>6, <2>8, Zenon
  <2> QED
    BY <2>1, <2>2, <2>3, <2>4, <2>5, <2>6, <2>7, <2>8, <2>9, Zenon
<1>3. \A e \in D : H(e) \in Nat /\ H(e) = Depth(e[1])
  BY <1>1, KnownPath, Zenon DEF KnownInv
<1>4. ASSUME NEW e \in D, H(e) # 0
      PROVE  G(e) \in D /\ H(G(e)) < H(e)
  <2>1. PICK c, t, n : c = e[1] /\ t = e[2] /\ n = e[3]
    BY Zenon
  <2>2. c \in Known /\ t \in Nat /\ t # 0 /\ n \in Nat
    BY <1>1, <2>1, Zenon
  <2>3. PICK m \in Nat : m = Depth(c) /\ m = index[c].nHeight /\ m # 0
    BY <1>3, <1>4, <2>1, Zenon
  <2>4. PICK k \in 0 .. m - 1 :
               /\ k = StepDown(index[c].nHeight, t)
               /\ GetAncestor(c, k) = AncestorAt(c, k)
               /\ index[AncestorAt(c, k)].nHeight = k
               /\ <<AncestorAt(c, k), NextStep(t, n + 1), n + 1>> \in D
    BY <1>2, <2>2, <2>3, Zenon
  <2>5. PICK e2 : e2 = <<AncestorAt(c, k), NextStep(t, n + 1), n + 1>>
    BY Zenon
  <2>6. G(e) = e2
    BY <2>1, <2>4, <2>5, Zenon
  <2>7. e2[1] = AncestorAt(c, k)
    BY <2>5
  <2>8. H(e2) = k
    BY <2>4, <2>7, Zenon
  <2>9. k < m
    BY <2>3
  <2> HIDE DEF G
  <2> QED
    BY <2>1, <2>3, <2>4, <2>5, <2>6, <2>8, <2>9, Zenon
<1>5. \E f : f = [e \in D |-> R(f, e)]
  <2>1. PICK r : r = [e \in D |-> H(e)]
    BY Zenon
  <2>2. PICK go : go = [e \in D |-> IF H(e) = 0 THEN e ELSE G(e)]
    BY Zenon
  <2>3. PICK Z : Z = {e \in D : H(e) = 0}
    BY Zenon
  <2>4. PICK v : v = [e \in D |-> e[1]]
    BY Zenon
  <2>5. \A e \in D : /\ r[e] = H(e) /\ v[e] = e[1] /\ (e \in Z <=> H(e) = 0)
                     /\ H(e) # 0 => go[e] = G(e)
    <3> HIDE DEF H, G
    <3> QED
      BY <2>1, <2>2, <2>3, <2>4, Zenon
  <2>6. r \in [D -> Nat]
    <3> HIDE DEF H
    <3> QED
      BY <1>3, <2>1, Zenon
  <2>7. go \in [D -> D]
    <3> HIDE DEF H, G
    <3> QED
      BY <1>4, <2>2, Zenon
  <2>8. \A e \in D : e \notin Z => r[go[e]] < r[e]
    <3> HIDE DEF H, G
    <3> QED
      BY <1>4, <2>5, Zenon
  <2>9. PICK f : IsList(f, D, go, Z, v)
    <3> HIDE DEF H, G, R
    <3> QED
      BY <2>6, <2>7, <2>8, ListDefined, Zenon
  <2>10. ASSUME NEW e \in D
         PROVE  (IF e \in Z THEN <<v[e]>> ELSE <<v[e]>> \o f[go[e]]) = R(f, e)
    <3>1. CASE H(e) = 0
      BY <2>5, <3>1, Zenon
    <3>2. CASE H(e) # 0
      BY <2>5, <3>2, Zenon
    <3> QED
      BY <3>1, <3>2
  <2>11. f = [e \in D |-> R(f, e)]
    <3> HIDE DEF R
    <3> QED
      BY <2>9, <2>10, Zenon DEF IsList
  <2> QED
    BY <2>11, Zenon
<1>6. g = [e \in D |-> R(g, e)]
  BY <1>5, Zenon
<1>7. LocatorEntries(b) = g[<<b, 1, 0>>]
  BY Zenon DEF LocatorEntries, D
<1> HIDE DEF g
<1>8. \A e \in D : g[e] = R(g, e)
  <2> HIDE DEF R
  <2> QED
    BY <1>6, Zenon
<1> DEFINE Bad == {m \in Nat : \E c \in Known : \E t, n \in Nat :
                     /\ m = Depth(c) /\ t # 0 /\ (n <= 10 => t = 1)
                     /\ ~LocatorGood(g[<<c, t, n>>], c, n)}
<1>9. Bad = {}
  <2> SUFFICES ASSUME Bad # {} PROVE FALSE
    BY Zenon
  <2>1. Bad \subseteq Nat
    BY Zenon
  <2>2. PICK m \in Bad : \A j \in Bad : m <= j
    BY <2>1, Smallest, Zenon
  <2>3. PICK c \in Known, t \in Nat, n \in Nat :
          /\ m = Depth(c) /\ t # 0 /\ (n <= 10 => t = 1) /\ m \in Nat
          /\ ~LocatorGood(g[<<c, t, n>>], c, n)
    BY <2>2, Zenon
  <2>4. PICK e : e = <<c, t, n>>
    BY Zenon
  <2>5. e[1] = c /\ e[2] = t /\ e[3] = n
    BY <2>4
  <2>6. e \in D
    BY <1>1, <2>3, <2>4, Zenon
  <2>7. index[c].nHeight = m /\ c \in Blocks
    BY <2>3, KnownPath, Zenon
  <2>8. g[e] = IF m = 0 THEN <<c>>
               ELSE <<c>> \o g[<<GetAncestor(c, StepDown(m, t)), NextStep(t, n + 1), n + 1>>]
    <3>1. g[e] = R(g, e)
      <4> HIDE DEF R
      <4> QED
        BY <1>8, <2>6, Zenon
    <3> HIDE DEF Bad
    <3> QED
      BY <2>5, <2>7, <3>1, Zenon
  <2> HIDE DEF R, G
  <2>9. CASE m = 0
    <3>1. LocatorGood(<<c>>, c, n)
      BY <2>3, <2>7, <2>9, LocatorEnd, Zenon
    <3> QED
      BY <2>3, <2>4, <2>8, <2>9, <3>1, Zenon
  <2>10. CASE m # 0
    <3>1. PICK k \in 0 .. m - 1 :
               /\ k = StepDown(index[c].nHeight, t)
               /\ GetAncestor(c, k) = AncestorAt(c, k) /\ AncestorAt(c, k) \in Known
               /\ index[AncestorAt(c, k)].nHeight = k
               /\ t = 1 => k = m - 1
               /\ NextStep(t, n + 1) \in Nat /\ NextStep(t, n + 1) # 0
               /\ n + 1 <= 10 => NextStep(t, n + 1) = t
      <4> HIDE DEF Bad
      <4> QED
        BY <1>2, <2>3, <2>10, Zenon
    <3>2. PICK d, t2, n2 : d = AncestorAt(c, k) /\ t2 = NextStep(t, n + 1) /\ n2 = n + 1
      BY Zenon
    <3>3. /\ k \in Nat /\ ~(m <= k) /\ n2 \in Nat /\ (n2 <= 10 => n <= 10)
      BY <2>3, <3>1, <3>2
    <3>4. d \in Known /\ Depth(d) = k /\ t2 \in Nat /\ t2 # 0 /\ (n2 <= 10 => t2 = 1)
      <4>1. d \in Known /\ t2 \in Nat /\ t2 # 0 /\ (n2 <= 10 => t2 = 1)
        BY <2>3, <3>1, <3>2, <3>3, Zenon
      <4> QED
        BY <3>1, <3>2, <4>1, KnownPath, Zenon
    <3>5. LocatorGood(g[<<d, t2, n2>>], d, n2)
      <4>1. k \notin Bad
        <5> HIDE DEF Bad
        <5> QED
          BY <2>2, <3>3, Zenon
      <4> QED
        BY <3>3, <3>4, <4>1, Zenon
    <3> HIDE DEF Bad
    <3>6. g[e] = <<c>> \o g[<<d, t2, n2>>]
      BY <2>7, <2>8, <2>10, <3>1, <3>2, Zenon
    <3>7. n <= 10 => k = m - 1
      BY <2>3, <3>1, Zenon
    <3>8. PICK s : s = g[<<d, t2, n2>>]
      BY Zenon
    <3>9. LocatorGood(s, AncestorAt(c, k), n + 1)
      BY <3>2, <3>5, <3>8, Zenon
    <3>10. k \in 0 .. Depth(c) - 1 /\ (n <= 10 => k = Depth(c) - 1)
      BY <2>3, <3>1, <3>7, Zenon
    <3>11. LocatorGood(<<c>> \o s, c, n)
      BY <2>7, <3>9, <3>10, LocatorMore, Zenon
    <3> QED
      BY <2>3, <2>4, <3>6, <3>8, <3>11, Zenon
  <2> QED
    BY <2>9, <2>10
<1>10. Depth(b) \in Nat
  BY KnownPath, AncestorIn, Zenon
<1>11. 1 \in Nat /\ 0 \in Nat /\ 1 # 0
  OBVIOUS
<1>12. LocatorGood(g[<<b, 1, 0>>], b, 0)
  BY <1>9, <1>10, <1>11, Zenon
<1> HIDE DEF Bad
<1> QED
  BY <1>7, <1>12, Zenon

\* FindForkInGlobalIndex() on a locator that has genesis in it stops at its
\* first entry that is in the chain or above the tip.
LEMMA GlobalForkIs ==
  ASSUME NEW s \in Seq(Known), NEW i \in 1 .. Len(s), ChainContains(s[i])
  PROVE  \E k \in 1 .. i :
           \/ ChainContains(s[k]) /\ FindForkInGlobalIndex(s) = s[k]
           \/ GetAncestor(s[k], Height) = Tip /\ FindForkInGlobalIndex(s) = Tip
<1> DEFINE Found(b) == b \in Known /\ (ChainContains(b) \/ GetAncestor(b, Height) = Tip)
           hits == {j \in DOMAIN s : Found(s[j])}
           place == CHOOSE j \in hits : \A l \in hits : j <= l
<1>1. DOMAIN s = 1 .. Len(s) /\ \A j \in 1 .. Len(s) : s[j] \in Known
  OBVIOUS
<1>2. i \in hits
  BY <1>1, Zenon
<1>3. hits \subseteq Nat
  <2>1. 1 .. Len(s) \subseteq Nat
    OBVIOUS
  <2> QED
    BY <1>1, <2>1, Zenon
<1>4. FindForkInGlobalIndex(s) =
        IF hits = {} THEN Genesis ELSE IF ChainContains(s[place]) THEN s[place] ELSE Tip
  BY Zenon DEF FindForkInGlobalIndex
<1>5. place \in hits /\ \A l \in hits : place <= l
  <2> HIDE DEF hits
  <2>1. \E j \in hits : \A l \in hits : j <= l
    BY <1>2, <1>3, Smallest, Zenon
  <2> QED
    BY <2>1, Zenon
<1> HIDE DEF place
<1>6. Found(s[place]) /\ place \in 1 .. Len(s)
  BY <1>1, <1>5, Zenon
<1>7. place <= i
  <2> HIDE DEF hits
  <2> QED
    BY <1>2, <1>5, Zenon
<1>8. place \in 1 .. i
  BY <1>6, <1>7
<1>9. hits # {}
  <2> HIDE DEF hits
  <2> QED
    BY <1>2, Zenon
<1> HIDE DEF hits
<1> QED
  BY <1>4, <1>6, <1>8, <1>9, Zenon

\* A locator leads to a common block, the fork itself if it is near.
LEMMA LocatorFork ==
  ASSUME KnownInv, SkipInv, Tip \in Known, vChain = PathTo(Tip), NEW b \in Known
  PROVE  LET fork  == CommonBlock(b, Tip)
             found == FindForkInGlobalIndex(LocatorEntries(b))
         IN  /\ ChainContains(found) /\ AncestorAt(b, index[found].nHeight) = found
             /\ index[fork].nHeight >= index[b].nHeight - 10 => found = fork
<1>1. PICK s : s = LocatorEntries(b)
  BY Zenon
<1>2. LocatorGood(s, b, 0)
  BY <1>1, LocatorIs, Zenon
<1>3. PICK m \in Nat, T \in Nat :
        /\ m = Depth(b) /\ m = index[b].nHeight /\ b \in Blocks
        /\ T = Depth(Tip) /\ T = Height /\ Tip \in Blocks
  BY ContainsIs, Zenon
<1>4. /\ s \in Seq(Known)
      /\ \A i \in 1 .. Len(s) : \E h \in 0 .. m : s[i] = AncestorAt(b, h)
      /\ \E i \in 1 .. Len(s) : s[i] = Genesis
      /\ \A i \in 1 .. 11 : 0 + i <= 11 /\ i <= m + 1 =>
           i <= Len(s) /\ s[i] = AncestorAt(b, m - i + 1)
  BY <1>2, <1>3, Zenon DEF LocatorGood
<1>5. PICK k : ForkAt(b, Tip, k)
  BY <1>3, ForkExists, Zenon
<1>6. /\ k \in 0 .. m /\ k \in 0 .. T
      /\ \A j \in 0 .. m : j \in 0 .. T /\ AncestorAt(b, j) = AncestorAt(Tip, j) => j <= k
      /\ AncestorAt(b, k) = AncestorAt(Tip, k)
  <2>1. k \in 0 .. m /\ k \in 0 .. T
    BY <1>3, <1>5, Zenon DEF ForkAt
  <2>2. k \in 0 .. k
    BY <1>3, <2>1
  <2> QED
    BY <1>3, <1>5, <2>1, <2>2, Zenon DEF ForkAt
<1>7. PICK fork : fork = CommonBlock(b, Tip) /\ fork = AncestorAt(b, k)
  BY <1>3, <1>5, CommonIs, Zenon
<1>8. /\ fork \in Known /\ Depth(fork) = k /\ index[fork].nHeight = k
  <2>1. k \in 0 .. Depth(b)
    BY <1>3, <1>6, Zenon
  <2>2. fork \in Known /\ Depth(fork) = k
    BY <1>3, <1>7, <2>1, KnownPath, AncestorIn, Zenon
  <2> QED
    BY <2>2, KnownPath, Zenon
\* Genesis and the fork are in the chain.
<1>9. \A c \in Known : ChainContains(c) <=>
        Depth(c) \in 0 .. T /\ AncestorAt(Tip, Depth(c)) = c
  BY <1>3, ContainsIs, Zenon
<1>10. ChainContains(fork)
  BY <1>6, <1>7, <1>8, <1>9, Zenon
<1>11. Genesis \in Known /\ ChainContains(Genesis)
  <2>1. 0 \in 0 .. T /\ 0 \in 0 .. m
    BY <1>3
  <2>2. AncestorAt(Tip, 0) = Genesis /\ Genesis \in Blocks /\ Genesis \in Known
    <3>1. AncestorAt(Tip, 0) = Genesis /\ 0 \in 0 .. Depth(Tip)
      BY <1>3, <2>1, AncestorIn, Zenon
    <3>2. Genesis \in Known
      BY <3>1, KnownPath, Zenon
    <3> QED
      BY <3>1, <3>2, TreeAssumption, Zenon
  <2>3. Depth(Genesis) = 0
    BY <2>2, DepthZero, Zenon
  <2> QED
    BY <1>9, <2>1, <2>2, <2>3, Zenon
\* Whatever entry decides, what is found is an ancestor of b and in the chain.
<1>12. ASSUME NEW i \in 1 .. Len(s),
              \/ ChainContains(s[i]) /\ FindForkInGlobalIndex(s) = s[i]
              \/ GetAncestor(s[i], Height) = Tip /\ FindForkInGlobalIndex(s) = Tip
       PROVE  LET found == FindForkInGlobalIndex(s)
              IN  /\ found \in Known /\ ChainContains(found)
                  /\ index[found].nHeight \in 0 .. m
                  /\ AncestorAt(b, index[found].nHeight) = found
                  /\ found = s[i] \/ found = fork
  <2>1. PICK h \in 0 .. m : s[i] = AncestorAt(b, h)
    BY <1>4, Zenon
  <2>2. PICK c : c = s[i] /\ c = AncestorAt(b, h)
    BY <2>1, Zenon
  <2>3. c \in Known /\ Depth(c) = h
    <3>1. h \in 0 .. Depth(b)
      BY <1>3, Zenon
    <3> QED
      BY <1>3, <2>2, <3>1, KnownPath, AncestorIn, Zenon
  <2>4. index[c].nHeight = h
    BY <2>3, KnownPath, Zenon
  <2>5. CASE ChainContains(c) /\ FindForkInGlobalIndex(s) = c
    BY <2>2, <2>3, <2>4, <2>5, Zenon
  <2>6. CASE GetAncestor(c, Height) = Tip /\ FindForkInGlobalIndex(s) = Tip
    <3>1. T <= h
      <4>1. ASSUME T > h PROVE FALSE
        <5>1. GetAncestor(c, T) = Null
          BY <2>4, <4>1, Zenon DEF GetAncestor
        <5> QED
          BY <1>3, <2>6, <5>1, TreeAssumption, Zenon
      <4> QED
        BY <1>3, <4>1
    <3>2. T \in 0 .. h /\ T \in 0 .. m /\ T \in 0 .. T
      BY <1>3, <3>1
    <3>3. Tip = AncestorAt(c, T)
      BY <1>3, <2>3, <2>4, <2>6, <3>2, AncestorFound, Zenon
    <3>4. Tip = AncestorAt(b, T)
      <4>1. h \in 0 .. Depth(b)
        BY <1>3, Zenon
      <4>2. AncestorAt(AncestorAt(b, h), T) = AncestorAt(b, T)
        BY <1>3, <3>2, <4>1, AncestorTwice, Zenon
      <4> QED
        BY <2>2, <3>3, <4>2, Zenon
    <3>5. AncestorAt(Tip, T) = Tip
      BY <1>3, AncestorIn, Zenon
    <3>6. ChainContains(Tip) /\ index[Tip].nHeight = T
      BY <1>3, <1>9, <3>2, <3>5, KnownPath, Zenon
    <3>7. T <= k
      BY <1>6, <3>2, <3>4, <3>5, Zenon
    <3>8. T = k
      BY <1>3, <1>6, <3>7
    <3> QED
      BY <1>7, <2>6, <3>2, <3>4, <3>6, <3>8, Zenon
  <2> QED
    BY <1>12, <2>2, <2>5, <2>6, Zenon
<1>13. LET found == FindForkInGlobalIndex(s)
       IN  ChainContains(found) /\ AncestorAt(b, index[found].nHeight) = found
  <2>1. PICK i \in 1 .. Len(s) : s[i] = Genesis
    BY <1>4, Zenon
  <2>2. ChainContains(s[i])
    BY <1>11, <2>1, Zenon
  <2>3. PICK j \in 1 .. i :
           \/ ChainContains(s[j]) /\ FindForkInGlobalIndex(s) = s[j]
           \/ GetAncestor(s[j], Height) = Tip /\ FindForkInGlobalIndex(s) = Tip
    BY <1>4, <2>2, GlobalForkIs, Zenon
  <2>4. j \in 1 .. Len(s)
    BY <1>4
  <2> QED
    BY <1>12, <2>3, <2>4, Zenon
<1>14. ASSUME k >= m - 10 PROVE FindForkInGlobalIndex(s) = fork
  <2>1. PICK i \in 1 .. 11 : i = m - k + 1 /\ i <= m + 1 /\ 0 + i <= 11 /\ m - i + 1 = k
    <3>1. m - k + 1 \in 1 .. 11 /\ m - k + 1 <= m + 1 /\ 0 + (m - k + 1) <= 11
          /\ m - (m - k + 1) + 1 = k
      BY <1>3, <1>6, <1>14
    <3> QED
      BY <3>1, Zenon
  <2>2. i <= Len(s) /\ s[i] = fork
    BY <1>4, <1>7, <2>1, Zenon
  <2>3. i \in 1 .. Len(s) /\ Len(s) \in Nat
    BY <1>4, <2>2
  <2>4. PICK j \in 1 .. i :
           \/ ChainContains(s[j]) /\ FindForkInGlobalIndex(s) = s[j]
           \/ GetAncestor(s[j], Height) = Tip /\ FindForkInGlobalIndex(s) = Tip
    BY <1>4, <1>10, <2>2, <2>3, GlobalForkIs, Zenon
  <2>5. /\ j \in 1 .. Len(s) /\ j \in 1 .. 11 /\ 0 + j <= 11 /\ j <= m + 1
        /\ m - j + 1 \in 0 .. m /\ m - j + 1 >= k
    <3>1. j <= i /\ j \in Nat /\ j >= 1 /\ k \in Nat
      BY <1>6
    <3>2. PICK L \in Nat : L = Len(s) /\ i \in 1 .. L
      BY <2>3, Zenon
    <3>3. j \in 1 .. L /\ j \in 1 .. 11 /\ 0 + j <= 11
      BY <3>1, <3>2
    <3>4. j <= m + 1 /\ m - j + 1 \in 0 .. m /\ m - j + 1 >= k
      <4>1. ASSUME NEW a \in Nat, NEW c \in Nat, NEW x \in Nat, NEW y \in Nat,
                   y = a - c + 1, x <= y, x >= 1
            PROVE  x <= a + 1 /\ a - x + 1 \in 0 .. a /\ a - x + 1 >= c
        BY <4>1
      <4>2. i \in Nat
        OBVIOUS
      <4> QED
        BY <1>3, <2>1, <3>1, <4>1, <4>2, Zenon
    <3> QED
      BY <3>2, <3>3, <3>4, Zenon
  <2>6. PICK found : /\ found = FindForkInGlobalIndex(s)
                     /\ found \in Known /\ ChainContains(found)
                     /\ AncestorAt(b, index[found].nHeight) = found
                     /\ found = s[j] \/ found = fork
    BY <1>12, <2>4, <2>5, Zenon
  <2>7. CASE found = s[j]
    <3>1. PICK h \in 0 .. m : h = m - j + 1 /\ h >= k
      BY <2>5, Zenon
    <3>2. found = AncestorAt(b, h)
      BY <1>4, <2>5, <2>7, <3>1, Zenon
    <3>3. Depth(found) = h
      BY <1>3, <3>2, AncestorIn, Zenon
    <3>4. h \in 0 .. T /\ AncestorAt(Tip, h) = found
      BY <1>9, <2>6, <3>3, Zenon
    <3>5. h <= k
      BY <1>6, <3>2, <3>4, Zenon
    <3>6. h = k
      BY <1>3, <1>6, <3>1, <3>5
    <3> QED
      BY <1>7, <2>6, <3>2, <3>6, Zenon
  <2> QED
    BY <2>6, <2>7, Zenon
<1> QED
  BY <1>1, <1>3, <1>7, <1>8, <1>13, <1>14, Zenon

\* A locator made for any block leads to a common block, in every tree.
THEOREM LocatorsExact == Spec => []LocatorFindsFork
<1>1. IndexInv /\ PathInv => LocatorFindsFork
  <2> SUFFICES ASSUME IndexInv, PathInv, pc = "run", NEW b \in Known
               PROVE  LET fork  == CommonBlock(b, Tip)
                          found == FindForkInGlobalIndex(LocatorEntries(b))
                      IN  /\ ChainContains(found)
                          /\ AncestorAt(b, index[found].nHeight) = found
                          /\ index[fork].nHeight >= index[b].nHeight - 10 => found = fork
    BY Zenon DEF LocatorFindsFork
  <2>1. KnownInv /\ SkipInv /\ Tip \in Known /\ vChain = PathTo(Tip)
    BY Zenon DEF IndexInv, PathInv, ChainInv
  <2> QED
    BY <2>1, LocatorFork, Zenon
<1> QED
  BY <1>1, IndexInvariant, PathInvariant, PTL
=============================================================================

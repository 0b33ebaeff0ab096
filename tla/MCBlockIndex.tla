---------------------------- MODULE MCBlockIndex ----------------------------
(***************************************************************************)
(* A tree for BlockIndex: a main branch of 16 blocks, of which 15 are on   *)
(* disk at first with a block 22 that leaves it after block 3, a branch    *)
(* that leaves it after block 11 (17 to 19, harder at its end), and one    *)
(* that leaves it after block 13 and ties with it (20 and 21).             *)
(***************************************************************************)
EXTENDS BlockIndex

MCBlocks == 0 .. 22

StoredTable == [b \in 0 .. 15 \cup {22} |-> IF b = 22 THEN 4 ELSE b]

HashPrevTable == [b \in MCBlocks |-> 
  IF b = 17 THEN 11 ELSE IF b = 20 THEN 13 ELSE IF b = 22 THEN 3 ELSE b - 1]

\* Times go up and down.
TimeTable == [b \in MCBlocks |-> ((b * 5) % 7) + b \div 2]

MeritTable == [b \in MCBlocks |-> IF b = 19 THEN 4 ELSE 1]

MCStored == StoredTable
MCHashPrev == HashPrevTable
MCTime == TimeTable
MCMerit == MeritTable
=============================================================================

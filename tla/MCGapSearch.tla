---------------------------- MODULE MCGapSearch ----------------------------
(***************************************************************************)
(* GapSearch on segments of 13 bits, three of them for adders below 64:    *)
(* the sieve reaches up to 78.  Of the hashes, 1 is too small; 7 has gaps  *)
(* two short of the target that the random part lifts over it; 8 and 17    *)
(* have proofs whose adder a block may not have; 13 has proofs across the  *)
(* borders between segments; the gap of 20 ends beyond the sieve.          *)
(***************************************************************************)
EXTENDS GapSearch

MCSievePrimes == {3, 5, 7, 11, 13, 17, 19, 23, 29, 31, 37, 41}

PrimesTo1500 == {n \in 2 .. 1500 : \A d \in 2 .. 38 : d < n => n % d # 0}

MCPrimes == PrimesTo1500

\* The numbers from 192 to 1500 at which ln(n) * 16, rounded to the nearest
\* integer, goes up by one.
LnSteps ==
  {197, 210, 223, 238, 253, 269, 287, 305, 325, 346, 368, 392, 417, 444, 472,
   503, 535, 569, 606, 645, 687, 731, 778, 828, 882, 939, 999, 1063, 1132,
   1205, 1283, 1365, 1453}

MCLn(n) == 84 + Cardinality({s \in LnSteps : s <= n})

MCRand(p, q) == (p * 31 + q * 17) % 64
=============================================================================

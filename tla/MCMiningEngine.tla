--------------------------- MODULE MCMiningEngine ---------------------------
(***************************************************************************)
(* MiningEngine on small worlds of four nonces.  Nonces 0 and 1 (of        *)
(* different workers when there are two) each have a valid proof, with     *)
(* different adders; nonce 2 has a bad hash; nonce 3 has, in two segments, *)
(* a gap the target accepts and PoW::valid() does not, and nothing in      *)
(* three.                                                                  *)
(***************************************************************************)
EXTENDS MiningEngine, TLC

MCSymmetry == Permutations(Requests)

MCValidHash == {0, 1, 3}

\* Two segments: a proof inside the second one and one across the border.
MCCands2 ==
  (0 :> <<<<1, 3>>, <<9>>>>) @@ (1 :> <<<<>>, <<11, 17>>>>) @@
  (2 :> <<<<>>, <<>>>>)      @@ (3 :> <<<<1>>, <<9>>>>)

MCPrimes2 ==
  (0 :> {3, 9}) @@ (1 :> {11, 17}) @@ (2 :> {1}) @@ (3 :> {1, 9})

MCValid2 == {<<0, 3>>, <<1, 11>>}

\* Three segments: nonce 0 has a proof across the first border, nonce 1 one
\* across an empty segment; both also have a composite for the GPU to filter.
MCCands3 ==
  (0 :> <<<<1, 3>>, <<7>>, <<>>>>) @@ (1 :> <<<<5>>, <<>>, <<13, 15>>>>) @@
  (2 :> <<<<>>, <<>>, <<>>>>)      @@ (3 :> <<<<>>, <<>>, <<>>>>)

MCPrimes3 == (0 :> {1, 7}) @@ (1 :> {5, 15}) @@ (2 :> {1}) @@ (3 :> {3})

MCValid3 == {<<0, 1>>, <<1, 5>>}

\* One segment and two nonces, for liveness: nonce 0 has a proof
\* the GPU filters, nonce 1 a bad hash, so its worker spins until told to stop.
MCCands1 == (0 :> <<<<1, 7>>>>) @@ (1 :> <<<<>>>>)

MCPrimes1 == (0 :> {1, 7}) @@ (1 :> {})

MCValid1 == {<<0, 1>>}
=============================================================================

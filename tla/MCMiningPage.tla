---------------------------- MODULE MCMiningPage ----------------------------
(* Model values for MiningPage: one proof, as the page only tests whether   *)
(* one was found.                                                           *)
EXTENDS MiningPage

MCProofs == {"p"}
=============================================================================

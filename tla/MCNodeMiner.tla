----------------------------- MODULE MCNodeMiner -----------------------------
(* NodeMiner with one proof and calls for zero, one or two blocks.           *)
EXTENDS NodeMiner

MCProofs    == {"p"}
MCRequested == 0 .. 2
=============================================================================

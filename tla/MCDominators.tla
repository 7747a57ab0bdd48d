----------------------------- MODULE MCDominators -----------------------------
(****************************************************************************)
(* Dominators on every branch graph over four blocks, up to renaming.       *)
(****************************************************************************)
EXTENDS Dominators, SmallCfgs

MCBlocks == 1..4
================================================================================

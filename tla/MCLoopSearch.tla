------------------------------ MODULE MCLoopSearch ------------------------------
(****************************************************************************)
(* LoopSearch on every branch graph over four blocks, up to renaming,       *)
(* unreachable blocks and loops with two entries included; and on the       *)
(* nested loops the builder makes of while (a) { while (b) ... }.           *)
(****************************************************************************)
EXTENDS LoopSearch, SmallCfgs

MCBlocks == 1..7
SmallBlocks == 1..4

(* 2 and 5 are the conditions of the outer and the inner loop, 3 and 6      *)
(* their bodies, 4 and 7 what follows them.                                 *)
Nest == <<{2}, {3, 4}, {5}, {}, {6, 7}, {5}, {2}>>

OverSmallBlocks(g) == [b \in Blocks |-> IF b \in SmallBlocks THEN g[b] ELSE {}]

MCPrograms ==
  {[blocks |-> MCBlocks, succ |-> Nest]} \cup
  {[blocks |-> SmallBlocks, succ |-> OverSmallBlocks(g)] : g \in GraphsOn(SmallBlocks)}
================================================================================

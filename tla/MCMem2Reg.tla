------------------------------- MODULE MCMem2Reg -------------------------------
(****************************************************************************)
(* Mem2Reg on the graphs the builder makes of an if, an if-else, a while    *)
(* and a while around an if, with every assignment of short load and store  *)
(* sequences to the blocks.                                                 *)
(****************************************************************************)
EXTENDS Mem2Reg

MCBlocks == 1..6

(* Blocks that a shape does not use are left without edges and code. *)
If      == <<{2, 3}, {3}, {}, {}, {}, {}>>
IfElse  == <<{2, 3}, {4}, {4}, {}, {}, {}>>
While   == <<{2}, {3, 4}, {2}, {}, {}, {}>>
WhileIf == <<{2}, {3, 4}, {5, 6}, {}, {6}, {2}>>

Load(v)  == [op |-> "load", var |-> v]
Store(v) == [op |-> "store", var |-> v]
Short == UNION {{<<>>, <<Load(v)>>, <<Store(v)>>} : v \in Vars}
Long  == UNION {{<<Load(v), Store(v)>>} : v \in Vars}

Codes(used, bodies) ==
  {c \in [Blocks -> bodies] : \A b \in Blocks \ used : c[b] = <<>>}

MCPrograms ==
  [succ : {If}, code : Codes(1..3, Short \cup Long)] \cup
  [succ : {IfElse, While}, code : Codes(1..4, Short \cup Long)] \cup
  [succ : {WhileIf}, code : Codes(1..6, Short)]
================================================================================

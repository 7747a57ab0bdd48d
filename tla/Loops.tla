--------------------------------- MODULE Loops ---------------------------------
(****************************************************************************)
(* The loops of a control-flow graph, as the passes understand them.        *)
(****************************************************************************)
EXTENDS Cfg

CONSTANT Null   \* nullptr

ASSUME NullAssumption == Null \notin Blocks

(* The branches back to h, and the blocks that have one. *)
BackSources(succ, h) == {p \in Preds(succ, h) : Dominates(succ, h, p)}
Headers(succ) == {h \in Blocks : BackSources(succ, h) # {}}

(* What reaches a branch back to h without passing through h. *)
NaturalLoop(succ, h) ==
  LET ends == {h} \cup BackSources(succ, h)
      closed == {S \in SUBSET Blocks :
                   ends \subseteq S /\ \A x \in S \ {h} : Preds(succ, x) \subseteq S}
  IN  {b \in Blocks : \A S \in closed : b \in S}

(* Every cycle goes through a branch back to a block that dominates it, as  *)
(* all cycles do that the builder makes: C-minus has no goto.               *)
Reducible(succ) ==
  ~ \E S \in SUBSET Blocks \ {{}} :
      \A x \in S : \E y \in succ[x] \cap S : ~Dominates(succ, y, x)

-------------------------------------------------------------------------------
(* The loops of more than one block, by header: LoopSearch drops the        *)
(* others.                                                                  *)
NaturalLoops(succ) ==
  LET ofHeader == [h \in Headers(succ) |-> NaturalLoop(succ, h)]
  IN  {<<h, ofHeader[h]>> : h \in {k \in Headers(succ) : ofHeader[k] # {k}}}

(* Of loops nested around the same block, the header of the innermost. *)
Innermost(ls) ==
  IF ls = {} THEN Null ELSE (CHOOSE l \in ls : \A k \in ls : l[2] \subseteq k[2])[1]

Around(ls, b) == {l \in ls : b \in l[2]}
================================================================================

---------------------------------- MODULE Cfg ----------------------------------
(****************************************************************************)
(* Control-flow graphs of LightIR functions, and what the passes promise    *)
(* about them.                                                              *)
(*                                                                          *)
(* A graph is a function succ from the blocks of one function to the sets   *)
(* of their successors (BasicBlock::succ_bbs_); BasicBlock::pre_bbs_ is its *)
(* transpose.  Both lists are filled by BranchInst only, so no block has    *)
(* more than two successors.  Reachability and dominance are defined by     *)
(* sets closed under the edges, not by paths: the definitions need no       *)
(* recursion, TLC enumerates the sets and the provers reason about them.    *)
(****************************************************************************)
EXTENDS FiniteSets, Integers

CONSTANTS
  Blocks,   \* the basic blocks of the function
  Entry     \* its entry block

ASSUME EntryAssumption == Entry \in Blocks
ASSUME BlocksFinite == IsFiniteSet(Blocks)

Preds(succ, b) == {p \in Blocks : b \in succ[p]}

(****************************************************************************)
(* The graphs a function's terminators can build over blocks bs: no branch  *)
(* goes back to the entry block, which the builder never passes to          *)
(* create_br or create_cond_br.                                             *)
(****************************************************************************)
BranchGraphs(bs) ==
  [bs -> {S \in SUBSET (bs \ {Entry}) : Cardinality(S) <= 2}]

-------------------------------------------------------------------------------
(* S holds every block that can be reached from S without entering d. *)
ClosedAvoiding(succ, d, S) == \A x \in S : succ[x] \ {d} \subseteq S

(* b lies in every set that holds the entry and follows the edges. *)
Reachable(succ) ==
  {b \in Blocks : \A S \in SUBSET Blocks :
      Entry \in S /\ (\A x \in S : succ[x] \subseteq S) => b \in S}

(* Every path from the entry to b passes through d. *)
Dominates(succ, d, b) ==
  \E S \in SUBSET (Blocks \ {d}) :
     /\ Entry \in S \cup {d}
     /\ ClosedAvoiding(succ, d, S)
     /\ b \notin S

StrictlyDominates(succ, d, b) == d # b /\ Dominates(succ, d, b)

(* d is the closest strict dominator of b. *)
IsImmediateDominator(succ, d, b) ==
  /\ StrictlyDominates(succ, d, b)
  /\ \A e \in Blocks : StrictlyDominates(succ, e, b) => Dominates(succ, e, d)

(* Blocks where the dominance of b ends: it holds for a predecessor, and no *)
(* longer for the block itself.                                             *)
Frontier(succ, b) ==
  {y \in Reachable(succ) :
     /\ \E p \in Preds(succ, y) \cap Reachable(succ) : Dominates(succ, b, p)
     /\ ~StrictlyDominates(succ, b, y)}

(* A block the entry cannot reach branches into one it can reach. *)
HasStrayPredecessor(succ) ==
  \E b \in Reachable(succ) : ~(Preds(succ, b) \subseteq Reachable(succ))
================================================================================

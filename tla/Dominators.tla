------------------------------- MODULE Dominators -------------------------------
(****************************************************************************)
(* Dominators::run on one function (src/optimization/Dominators.cpp).       *)
(*                                                                          *)
(* The pass works in four phases, one loop iteration per step:              *)
(*   "visit"               post_order_visit, the recursion kept as a stack  *)
(*   "scan" "fold" "meet"  create_idom: the sweep over the reverse post     *)
(*                         order, the fold over the predecessors of one     *)
(*                         block, and the two-finger walk of intersect      *)
(*   "joins" "climb"       create_dominance_frontier: the (block,           *)
(*                         predecessor) pairs and the runner of one pair    *)
(* and create_dom_tree_succ as the step that ends it.                       *)
(*                                                                          *)
(* The order of a block's successor and predecessor lists is not fixed: an  *)
(* action takes any element the code's loop could take next.  The list      *)
(* reverse_post_order_ is kept in the order it is filled in, and "scan"     *)
(* reads it from its end: the code reverses it once, before its only use.   *)
(****************************************************************************)
EXTENDS Cfg, Sequences

CONSTANTS
  Cfgs,     \* the graphs to analyse
  Null      \* nullptr

ASSUME NullAssumption == Null \notin Blocks
ASSUME CfgsAssumption == Cfgs \subseteq [Blocks -> SUBSET (Blocks \ {Entry})]

VARIABLES
  succ,         \* the graph; no step changes it
  pc,
  stack,        \* active calls of post_order_visit, the innermost last
  visited,
  postOrder,    \* reverse_post_order_ before it is reversed
  postOrderId,  \* post_order_id_; 0 where the map has no entry
  idom,         \* idom_
  pos,          \* index in postOrder of the block the sweep is at
  changed,
  newIdom,
  rest,         \* predecessors that the fold has still to intersect
  b1, b2,       \* the two fingers of intersect
  joins,        \* pairs <<join, predecessor>> whose runner has not started
  join, runner,
  frontier,     \* dom_frontier_; walking past the tree adds to Null's set
  treeSucc      \* dom_tree_succ_blocks_

graphVars == <<succ>>
visitVars == <<stack, visited, postOrder, postOrderId>>
idomVars  == <<idom, pos, changed, newIdom, rest, b1, b2>>
frontVars == <<joins, join, runner, frontier, treeSucc>>
vars == <<graphVars, pc, visitVars, idomVars, frontVars>>

MaybeBlock == Blocks \cup {Null}

Top(s) == s[Len(s)]
Pop(s) == SubSeq(s, 1, Len(s) - 1)

-------------------------------------------------------------------------------
Init ==
  /\ succ \in Cfgs
  /\ pc = "visit"
  /\ stack = <<Entry>>
  /\ visited = {Entry}
  /\ postOrder = <<>>
  /\ postOrderId = [b \in Blocks |-> 0]
  /\ idom = [b \in Blocks |-> Null]
  /\ pos = 0
  /\ changed = FALSE
  /\ newIdom = Null
  /\ rest = {}
  /\ b1 = Null
  /\ b2 = Null
  /\ joins = {}
  /\ join = Null
  /\ runner = Null
  /\ frontier = [b \in MaybeBlock |-> {}]
  /\ treeSucc = [b \in MaybeBlock |-> {}]

(* post_order_visit calls itself on a successor it has not seen. *)
VisitSuccessor ==
  /\ pc = "visit" /\ stack # <<>>
  /\ \E b \in succ[Top(stack)] \ visited :
       /\ stack' = Append(stack, b)
       /\ visited' = visited \cup {b}
  /\ UNCHANGED <<graphVars, pc, postOrder, postOrderId, idomVars, frontVars>>

(* No successor is left: the block gets its number and the call returns. *)
LeaveBlock ==
  /\ pc = "visit" /\ stack # <<>>
  /\ succ[Top(stack)] \subseteq visited
  /\ postOrderId' = [postOrderId EXCEPT ![Top(stack)] = Len(postOrder)]
  /\ postOrder' = Append(postOrder, Top(stack))
  /\ stack' = Pop(stack)
  /\ UNCHANGED <<graphVars, pc, visited, idomVars, frontVars>>

(* create_idom sets the root's idom to itself and starts a sweep. *)
StartIdom ==
  /\ pc = "visit" /\ stack = <<>>
  /\ idom' = [b \in Blocks |-> IF b = Entry THEN Entry ELSE Null]
  /\ pos' = Len(postOrder)
  /\ changed' = FALSE
  /\ pc' = "scan"
  /\ UNCHANGED <<graphVars, visitVars, newIdom, rest, b1, b2, frontVars>>

Processed(bb) == {p \in Preds(succ, bb) : idom[p] # Null}

(* Mutant: the list is not reversed. *)
Current_PostOrder == postOrder[Len(postOrder) + 1 - pos]

(* The block whose idom is being computed. *)
Current == postOrder[pos]

SkipRoot ==
  /\ pc = "scan" /\ pos > 0 /\ Current = Entry
  /\ pos' = pos - 1
  /\ UNCHANGED <<graphVars, pc, visitVars, idom, changed, newIdom, rest, b1, b2,
                 frontVars>>

(* The fold starts at the first predecessor that has an idom. *)
PickPred ==
  /\ pc = "scan" /\ pos > 0 /\ Current # Entry
  /\ \E p \in Processed(Current) :
       /\ newIdom' = p
       /\ rest' = Processed(Current) \ {p}
  /\ pc' = "fold"
  /\ UNCHANGED <<graphVars, visitVars, idom, pos, changed, b1, b2, frontVars>>

StartIntersect ==
  /\ pc = "fold"
  /\ \E p \in rest :
       /\ b1' = p
       /\ rest' = rest \ {p}
  /\ b2' = newIdom
  /\ pc' = "meet"
  /\ UNCHANGED <<graphVars, visitVars, idom, pos, changed, newIdom, frontVars>>

(* The finger with the smaller number climbs to its idom. *)
RaiseB1 ==
  /\ pc = "meet" /\ postOrderId[b1] < postOrderId[b2]
  /\ b1' = idom[b1]
  /\ UNCHANGED <<graphVars, pc, visitVars, idom, pos, changed, newIdom, rest, b2,
                 frontVars>>

RaiseB2 ==
  /\ pc = "meet" /\ postOrderId[b2] < postOrderId[b1]
  /\ b2' = idom[b2]
  /\ UNCHANGED <<graphVars, pc, visitVars, idom, pos, changed, newIdom, rest, b1,
                 frontVars>>

EndIntersect ==
  /\ pc = "meet" /\ b1 = b2
  /\ newIdom' = b1
  /\ pc' = "fold"
  /\ UNCHANGED <<graphVars, visitVars, idom, pos, changed, rest, b1, b2, frontVars>>

SetIdom ==
  /\ pc = "fold" /\ rest = {}
  /\ idom' = [idom EXCEPT ![Current] = newIdom]
  /\ changed' = (changed \/ idom[Current] # newIdom)
  /\ pos' = pos - 1
  /\ pc' = "scan"
  /\ UNCHANGED <<graphVars, visitVars, newIdom, rest, b1, b2, frontVars>>

(* Mutant: the flag is not reset. *)
Resweep_KeepFlag ==
  /\ pc = "scan" /\ pos = 0 /\ changed
  /\ pos' = Len(postOrder)
  /\ UNCHANGED <<graphVars, pc, visitVars, idom, changed, newIdom, rest, b1, b2, frontVars>>

(* A sweep that changed something is followed by another one. *)
Resweep ==
  /\ pc = "scan" /\ pos = 0 /\ changed
  /\ pos' = Len(postOrder)
  /\ changed' = FALSE
  /\ UNCHANGED <<graphVars, pc, visitVars, idom, newIdom, rest, b1, b2, frontVars>>

(* Mutant: one sweep is taken to be enough. *)
StartFrontier_OneSweep ==
  /\ pc = "scan" /\ pos = 0
  /\ joins' = {e \in Blocks \X Blocks :
                 e[2] \in Preds(succ, e[1]) /\ Cardinality(Preds(succ, e[1])) >= 2}
  /\ pc' = "joins"
  /\ UNCHANGED <<graphVars, visitVars, idomVars, join, runner, frontier, treeSucc>>

StartFrontier ==
  /\ pc = "scan" /\ pos = 0 /\ ~changed
  /\ joins' = {e \in Blocks \X Blocks :
                 e[2] \in Preds(succ, e[1]) /\ Cardinality(Preds(succ, e[1])) >= 2}
  /\ pc' = "joins"
  /\ UNCHANGED <<graphVars, visitVars, idomVars, join, runner, frontier, treeSucc>>

PickJoin ==
  /\ pc = "joins"
  /\ \E e \in joins :
       /\ join' = e[1]
       /\ runner' = e[2]
       /\ joins' = joins \ {e}
  /\ pc' = "climb"
  /\ UNCHANGED <<graphVars, visitVars, idomVars, frontier, treeSucc>>

(* Mutant: only the predecessor itself gets the join, not its dominators. *)
Climb_OneStep ==
  /\ pc = "climb" /\ runner # idom[join]
  /\ frontier' = [frontier EXCEPT ![runner] = @ \cup {join}]
  /\ runner' = idom[join]
  /\ UNCHANGED <<graphVars, pc, visitVars, idomVars, joins, join, treeSucc>>

(* get_idom(nullptr) inserts a null entry in the map: Null's idom is Null. *)
Climb ==
  /\ pc = "climb" /\ runner # idom[join]
  /\ frontier' = [frontier EXCEPT ![runner] = @ \cup {join}]
  /\ runner' = IF runner = Null THEN Null ELSE idom[runner]
  /\ UNCHANGED <<graphVars, pc, visitVars, idomVars, joins, join, treeSucc>>

EndClimb ==
  /\ pc = "climb" /\ runner = idom[join]
  /\ pc' = "joins"
  /\ UNCHANGED <<graphVars, visitVars, idomVars, frontVars>>

(* Every block but the root becomes a child of its idom, which is Null for  *)
(* the blocks the visit did not reach.                                      *)
CreateDomTree ==
  /\ pc = "joins" /\ joins = {}
  /\ treeSucc' = [d \in MaybeBlock |-> {b \in Blocks : idom[b] = d /\ d # b}]
  /\ pc' = "done"
  /\ UNCHANGED <<graphVars, visitVars, idomVars, joins, join, runner, frontier>>

Finished == pc = "done" /\ UNCHANGED vars

Next ==
  \/ VisitSuccessor \/ LeaveBlock
  \/ StartIdom \/ SkipRoot \/ PickPred \/ StartIntersect
  \/ RaiseB1 \/ RaiseB2 \/ EndIntersect \/ SetIdom \/ Resweep
  \/ StartFrontier \/ PickJoin \/ Climb \/ EndClimb
  \/ CreateDomTree
  \/ Finished

(* The pass is one call on one thread: it keeps running while it can. *)
Spec == Init /\ [][Next]_vars
FairSpec == Spec /\ WF_vars(Next)

-------------------------------------------------------------------------------
PhaseNames == {"visit", "scan", "fold", "meet", "joins", "climb", "done"}

TypeOK ==
  /\ succ \in [Blocks -> SUBSET (Blocks \ {Entry})]
  /\ pc \in PhaseNames
  /\ stack \in Seq(Blocks)
  /\ visited \subseteq Blocks
  /\ postOrder \in Seq(Blocks)
  /\ postOrderId \in [Blocks -> Nat]
  /\ idom \in [Blocks -> MaybeBlock]
  /\ pos \in 0..Len(postOrder)
  /\ changed \in BOOLEAN
  /\ newIdom \in MaybeBlock
  /\ rest \subseteq Blocks
  /\ b1 \in MaybeBlock /\ b2 \in MaybeBlock
  /\ joins \subseteq Blocks \X Blocks
  /\ join \in MaybeBlock /\ runner \in MaybeBlock
  /\ frontier \in [MaybeBlock -> SUBSET Blocks]
  /\ treeSucc \in [MaybeBlock -> SUBSET Blocks]

(* The three assertions of the file hold wherever they are evaluated: a     *)
(* predecessor with an idom exists (line 110), and a finger that has to     *)
(* climb has an idom (lines 134 and 139).  The fingers never stand on two   *)
(* blocks of one number, where the loop of line 132 would spin for ever.    *)
PredAssertHolds ==
  pc = "scan" /\ pos > 0 /\ Current # Entry => Processed(Current) # {}

IntersectAssertsHold ==
  pc = "meet" =>
    /\ postOrderId[b1] < postOrderId[b2] => idom[b1] # Null
    /\ postOrderId[b2] < postOrderId[b1] => idom[b2] # Null
    /\ postOrderId[b1] = postOrderId[b2] => b1 = b2

AssertionsHold == PredAssertHolds /\ IntersectAssertsHold

(* The visit numbers exactly the blocks the entry reaches, each once, and   *)
(* the entry last: "the root has highest ID" (Dominators.h, line 50).       *)
VisitCoversReachable ==
  pc # "visit" =>
    /\ {postOrder[i] : i \in 1..Len(postOrder)} = Reachable(succ)
    /\ Len(postOrder) = Cardinality(Reachable(succ))
    /\ Top(postOrder) = Entry

(* Once create_idom has ended, idom_ maps every reachable block to its      *)
(* immediate dominator, the entry to itself and the others to nullptr,      *)
(* whatever the order of the successor and predecessor lists was.           *)
IdomIsImmediateDominator ==
  pc \in {"joins", "climb", "done"} =>
    /\ idom[Entry] = Entry
    /\ \A b \in Reachable(succ) \ {Entry} :
          IsImmediateDominator(succ, idom[b], b)
    /\ \A b \in Blocks \ Reachable(succ) : idom[b] = Null

(* The sets Mem2Reg places its phis by are the dominance frontiers, though  *)
(* the code looks at blocks with two predecessors only.                     *)
FrontierIsExact ==
  pc = "done" =>
    \A b \in Reachable(succ) : frontier[b] = Frontier(succ, b)

(* The pass ends on every graph in which no unreachable block branches into *)
(* a reachable one.                                                         *)
Terminates == ~HasStrayPredecessor(succ) => <>(pc = "done")

-------------------------------------------------------------------------------
(****************************************************************************)
(* The inductive invariant behind AssertionsHold and VisitCoversReachable.  *)
(****************************************************************************)
(* The blocks whose post_order_visit has returned. *)
Numbered == {postOrder[i] : i \in 1..Len(postOrder)}
OnStack  == {stack[i] : i \in 1..Len(stack)}

(* The two fingers of intersect and the result of the fold stand on blocks  *)
(* that have an idom, and a runner climbs for a block.                      *)
FingersOK ==
  /\ pc \in {"fold", "meet"} =>
       /\ pos \in 1..Len(postOrder)
       /\ newIdom \in Blocks /\ idom[newIdom] # Null
       /\ \A p \in rest : idom[p] # Null
  /\ pc = "meet" => /\ b1 \in Blocks /\ idom[b1] # Null
                    /\ b2 \in Blocks /\ idom[b2] # Null
  /\ pc = "climb" => join \in Blocks

(* The stack is a path of the graph from the entry, and everything seen is  *)
(* on it or numbered, never both.                                           *)
StackInv ==
  /\ visited = Numbered \cup OnStack
  /\ Numbered \cap OnStack = {}
  /\ \A i, j \in 1..Len(stack) : stack[i] = stack[j] => i = j
  /\ \A i \in 2..Len(stack) : stack[i] \in succ[stack[i - 1]]
  /\ stack # <<>> => stack[1] = Entry
  /\ stack = <<>> => Len(postOrder) > 0 /\ postOrder[Len(postOrder)] = Entry
  /\ pc # "visit" => stack = <<>>

(* Numbers follow the list, and a block is numbered before the block that   *)
(* called its visit.                                                        *)
NumberInv ==
  /\ \A i \in 1..Len(postOrder) : postOrderId[postOrder[i]] = i - 1
  /\ \A b \in Numbered \ {Entry} : \E p \in Preds(succ, b) :
       p \in OnStack \/ (p \in Numbered /\ postOrderId[b] < postOrderId[p])
  /\ \A b \in Numbered : succ[b] \subseteq visited
  /\ visited \subseteq Reachable(succ)

(* An idom is numbered above its block and has an idom itself; in a sweep,  *)
(* the blocks already passed have one.                                      *)
IdomInv ==
  /\ pc = "visit" => \A b \in Blocks : idom[b] = Null
  /\ pc # "visit" => idom[Entry] = Entry
  /\ \A b \in Blocks : idom[b] # Null =>
       /\ b \in Numbered /\ idom[b] \in Numbered /\ idom[idom[b]] # Null
       /\ b # Entry => postOrderId[b] < postOrderId[idom[b]]
  /\ pc \in {"scan", "fold", "meet"} =>
       \A i \in (pos + 1)..Len(postOrder) : idom[postOrder[i]] # Null
  /\ pc \in {"joins", "climb", "done"} => \A b \in Numbered : idom[b] # Null

(* The fold ends above the current block: one of the values it has still to *)
(* merge is numbered above it.                                              *)
Above(b) == postOrderId[Current] < postOrderId[b]

FoldInv ==
  /\ pc \in {"fold", "meet"} => Current # Entry
  /\ pc = "fold" => Above(newIdom) \/ \E p \in rest : Above(p)
  /\ pc = "meet" => Above(b1) \/ Above(b2) \/ \E p \in rest : Above(p)

IInv == TypeOK /\ FingersOK /\ StackInv /\ NumberInv /\ IdomInv /\ FoldInv

-------------------------------------------------------------------------------
(****************************************************************************)
(* What IInv lacks to conclude that the idoms are the immediate dominators. *)
(****************************************************************************)
(* d is x or above x in the tree of idoms: in every set that holds x and    *)
(* follows the idoms.                                                       *)
Ancestor(d, x) ==
  \A S \in SUBSET Blocks :
     x \in S /\ (\A y \in S : idom[y] # Null => idom[y] \in S) => d \in S

(* No step passes over a dominator: what strictly dominates a block also    *)
(* dominates its idom, and the blocks the fold of that block stands on.     *)
NonePassed(b, x) ==
  \A e \in Blocks : StrictlyDominates(succ, e, b) => Dominates(succ, e, x)

OptimalInv ==
  /\ \A b \in Blocks \ {Entry} : idom[b] # Null => NonePassed(b, idom[b])
  /\ pc \in {"fold", "meet"} => rest \subseteq Processed(Current) /\ NonePassed(Current, newIdom)
  /\ pc = "meet" => NonePassed(Current, b1) /\ NonePassed(Current, b2)

(* The fold is an ancestor of every predecessor it has merged; if a sweep   *)
(* has changed nothing, the idoms of the blocks it has passed still are.    *)
Covers(b) == \A p \in Processed(b) : Ancestor(idom[b], p)

SoundInv ==
  /\ pc = "fold" => \A p \in Processed(Current) \ rest : Ancestor(newIdom, p)
  /\ pc = "meet" => \A p \in Processed(Current) \ rest : Ancestor(b1, p) \/ Ancestor(b2, p)
  /\ pc \in {"scan", "fold", "meet"} /\ ~changed =>
       \A i \in (pos + 1)..Len(postOrder) : postOrder[i] # Entry => Covers(postOrder[i])
  /\ pc \in {"joins", "climb", "done"} => \A b \in Numbered \ {Entry} : Covers(b)

TreeInv == IInv /\ OptimalInv /\ SoundInv

-------------------------------------------------------------------------------
(****************************************************************************)
(* What TreeInv lacks to conclude that the frontiers are exact.             *)
(****************************************************************************)
(* Every ancestor of p up to x, x left out, has y in its set. *)
WalkedTo(p, x, y) ==
  \A b \in Blocks : Ancestor(b, p) => Ancestor(b, x) \/ y \in frontier[b]

(* The (block, predecessor) pairs of reachable blocks that need a runner. *)
IsJoinEdge(y, p) ==
  p \in Numbered /\ p \in Preds(succ, y) /\ Cardinality(Preds(succ, y)) >= 2

(* A pair is waiting, or its runner is on the way, or it has walked from    *)
(* the predecessor up to the idom of the block.                             *)
FrontierInv ==
  /\ pc \in {"visit", "scan", "fold", "meet"} => frontier = [b \in MaybeBlock |-> {}]
  /\ \A b \in Numbered : frontier[b] \subseteq Frontier(succ, b)
  /\ \A e \in joins : e[2] \in Preds(succ, e[1])
  /\ pc = "climb" /\ runner \in Numbered =>
       /\ join \in Numbered \ {Entry} /\ Ancestor(idom[join], runner)
       /\ \E p \in Preds(succ, join) \cap Numbered : Ancestor(runner, p)
  /\ pc \in {"joins", "climb", "done"} =>
       \A y, p \in Blocks : IsJoinEdge(y, p) =>
          \/ <<y, p>> \in joins
          \/ pc = "climb" /\ join = y /\ runner \in Numbered /\ WalkedTo(p, runner, y)
          \/ WalkedTo(p, idom[y], y)
  /\ pc = "done" => joins = {}
================================================================================

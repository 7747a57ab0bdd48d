------------------------------- MODULE LoopSearch -------------------------------
(****************************************************************************)
(* LoopSearch::run on one function (src/optimization/LoopSearch.cpp): the   *)
(* strongly connected components of the control-flow graph are its outer    *)
(* loops; with their bases taken out, the components of what is left are    *)
(* the loops inside.                                                        *)
(*                                                                          *)
(* The nodes of build_cfg have succs and prevs of their own, in sets        *)
(* ordered by address: every loop over one takes its elements in any order. *)
(* calls is the recursion of traverse, one frame per active call.           *)
(****************************************************************************)
EXTENDS Loops, Sequences

CONSTANT
  Programs    \* the functions: records of a set of blocks and a graph on them

(* No branch goes back to the entry. *)
ASSUME ProgramsAssumption ==
  \A p \in Programs : /\ Entry \in p.blocks /\ p.blocks \subseteq Blocks
                      /\ p.succ \in [Blocks -> SUBSET (p.blocks \ {Entry})]

VARIABLES
  prog,               \* the function; no step of the search changes it
  pc,
  nodes,              \* the blocks whose node is still in the graph
  succs, prevs,       \* the edges of the nodes
  index, lowlink, index_count,
  stack,              \* Tarjan's stack; onStack is being on it
  calls,              \* active calls of traverse: the node and its unseen succs
  sccs,               \* components found, and not yet recorded
  reserved,           \* the bases taken out
  loops,              \* base2loop: pairs of a base and its set of blocks
  bb2base

graphVars == <<nodes, succs, prevs, reserved>>
sccVars   == <<index, lowlink, index_count, stack, calls>>
loopVars  == <<loops, bb2base>>
searchVars == <<graphVars, sccVars, sccs, loopVars>>
vars == <<prog, pc, searchVars>>

Succ(b) == prog.succ[b]
OnStack == {stack[i] : i \in 1..Len(stack)}
Frame == calls[Len(calls)]
Unvisited == [b \in Blocks |-> -1]

-------------------------------------------------------------------------------
(* build_cfg *)
Init ==
  /\ prog \in Programs
  /\ pc = "search"
  /\ nodes = prog.blocks
  /\ succs = prog.succ
  /\ prevs = [b \in Blocks |-> Preds(prog.succ, b)]
  /\ index = Unvisited /\ lowlink = Unvisited /\ index_count = 0
  /\ stack = <<>> /\ calls = <<>>
  /\ sccs = {}
  /\ reserved = {}
  /\ loops = {}
  /\ bb2base = [b \in Blocks |-> Null]

-------------------------------------------------------------------------------
(****************************************************************************)
(* strongly_connected_components and traverse                               *)
(****************************************************************************)
Enter(n, callers) ==
  /\ index' = [index EXCEPT ![n] = index_count]
  /\ lowlink' = [lowlink EXCEPT ![n] = index_count]
  /\ index_count' = index_count + 1
  /\ stack' = Append(stack, n)
  /\ calls' = Append(callers, [node |-> n, rest |-> succs[n]])

TraverseRoot(n) ==
  /\ pc = "search" /\ calls = <<>>
  /\ n \in nodes /\ index[n] = -1
  /\ Enter(n, <<>>)
  /\ UNCHANGED <<prog, pc, graphVars, sccs, loopVars>>

(* A successor that has no index yet is traversed; one on the stack lowers  *)
(* lowlink by its index; another one belongs to an earlier component.       *)
SeeSuccessor(su) ==
  /\ pc = "search" /\ calls # <<>> /\ su \in Frame.rest
  /\ LET callers == [calls EXCEPT ![Len(calls)].rest = @ \ {su}]
         n == Frame.node
     IN  IF index[su] = -1
         THEN Enter(su, callers)
         ELSE /\ lowlink' = [lowlink EXCEPT ![n] =
                               IF su \in OnStack /\ index[su] < @ THEN index[su] ELSE @]
              /\ calls' = callers
              /\ UNCHANGED <<index, index_count, stack>>
  /\ UNCHANGED <<prog, pc, graphVars, sccs, loopVars>>

(* The part of the stack from n on. *)
Popped(n) == {stack[i] : i \in {j \in 1..Len(stack) : \E k \in 1..j : stack[k] = n}}

(* traverse ends: a root takes its component off the stack, single nodes    *)
(* are no loops, and the caller takes over the lowlink.                     *)
EndTraverse ==
  /\ pc = "search" /\ calls # <<>> /\ Frame.rest = {}
  /\ LET n == Frame.node
         found == Popped(n)
     IN  /\ IF index[n] = lowlink[n]
            THEN /\ stack' = SubSeq(stack, 1, Len(stack) - Cardinality(found))
                 /\ sccs' = IF Cardinality(found) = 1 THEN sccs ELSE sccs \cup {found}
            ELSE UNCHANGED <<stack, sccs>>
         /\ calls' = SubSeq(calls, 1, Len(calls) - 1)
         /\ lowlink' = IF Len(calls) = 1 THEN lowlink
                       ELSE [lowlink EXCEPT ![calls[Len(calls) - 1].node] =
                               IF lowlink[n] < @ THEN lowlink[n] ELSE @]
  /\ UNCHANGED <<prog, pc, graphVars, index, index_count, loopVars>>

EndSearch ==
  /\ pc = "search" /\ calls = <<>> /\ sccs # {}
  /\ \A n \in nodes : index[n] # -1
  /\ pc' = "record"
  /\ UNCHANGED <<prog, searchVars>>

(* No component is left: the nodes are freed. *)
EndPass ==
  /\ pc = "search" /\ calls = <<>> /\ sccs = {}
  /\ \A n \in nodes : index[n] # -1
  /\ pc' = "searched"
  /\ nodes' = {} /\ reserved' = {}
  /\ succs' = [b \in Blocks |-> {}] /\ prevs' = succs'
  /\ index' = Unvisited /\ lowlink' = Unvisited
  /\ UNCHANGED <<prog, index_count, stack, calls, sccs, loopVars>>

-------------------------------------------------------------------------------
(****************************************************************************)
(* find_loop_base and the recording of a loop                               *)
(****************************************************************************)
(* The last node found that has a prev outside the component; if there is   *)
(* none, the last succ of a reserved base inside it.                        *)
Entered(scc) == {n \in scc : prevs[n] \ scc # {}}
AfterReserved(scc) == scc \cap UNION {succs[r] : r \in reserved}
(* Mutant: only the predecessors outside the component count. *)
Bases_NoReserved(scc) == Entered(scc)

Bases(scc) == IF Entered(scc) # {} THEN Entered(scc) ELSE AfterReserved(scc)

(* Mutant: insert leaves the base of an outer loop. *)
Rebased_Insert(scc, base) ==
  [b \in Blocks |-> IF b \in scc /\ bb2base[b] = Null THEN base ELSE bb2base[b]]

Rebased(scc, base) == [b \in Blocks |-> IF b \in scc THEN base ELSE bb2base[b]]

(* The base leaves the nodes: its successors and predecessors forget it,    *)
(* while it keeps its own lists.                                            *)
TakeOut(base) ==
  LET pruned == [b \in Blocks |-> IF b \in succs[base] THEN prevs[b] \ {base} ELSE prevs[b]]
  IN  /\ nodes' = nodes \ {base}
      /\ prevs' = pruned
      /\ succs' = [b \in Blocks |-> IF b \in pruned[base] THEN succs[b] \ {base} ELSE succs[b]]

(* Mutant: the base stays. *)
Record_KeepBase(scc, base) ==
  /\ pc = "record" /\ scc \in sccs /\ base \in Bases(scc)
  /\ loops' = loops \cup {<<base, scc>>}
  /\ bb2base' = Rebased(scc, base)
  /\ reserved' = reserved \cup {base}
  /\ sccs' = sccs \ {scc}
  /\ UNCHANGED <<prog, pc, nodes, succs, prevs, sccVars>>

Record(scc, base) ==
  /\ pc = "record" /\ scc \in sccs /\ base \in Bases(scc)
  /\ loops' = loops \cup {<<base, scc>>}
  /\ bb2base' = Rebased(scc, base)
  /\ reserved' = reserved \cup {base}
  /\ TakeOut(base)
  /\ sccs' = sccs \ {scc}
  /\ UNCHANGED <<prog, pc, sccVars>>

(* base is nullptr, and base->bb is read. *)
NoBase(scc) ==
  /\ pc = "record" /\ scc \in sccs /\ Bases(scc) = {}
  /\ pc' = "crashed"
  /\ UNCHANGED <<prog, searchVars>>

(* Mutant: the indexes of the last round stay. *)
SearchAgain_KeepIndex ==
  /\ pc = "record" /\ sccs = {}
  /\ pc' = "search"
  /\ index_count' = 0 /\ stack' = <<>>
  /\ UNCHANGED <<prog, graphVars, index, lowlink, calls, sccs, loopVars>>

SearchAgain ==
  /\ pc = "record" /\ sccs = {}
  /\ pc' = "search"
  /\ index' = [b \in Blocks |-> IF b \in nodes THEN -1 ELSE index[b]]
  /\ lowlink' = [b \in Blocks |-> IF b \in nodes THEN -1 ELSE lowlink[b]]
  /\ index_count' = 0 /\ stack' = <<>>
  /\ UNCHANGED <<prog, graphVars, calls, sccs, loopVars>>

SearchNext ==
  \/ \E n \in Blocks : TraverseRoot(n) \/ SeeSuccessor(n)
  \/ EndTraverse \/ EndSearch \/ EndPass
  \/ \E scc \in sccs : NoBase(scc) \/ \E base \in scc : Record(scc, base)
  \/ SearchAgain

-------------------------------------------------------------------------------
(****************************************************************************)
(* What the pass offers to others                                           *)
(****************************************************************************)
Loop(base) == (CHOOSE l \in loops : l[1] = base)[2]

get_inner_loop(b) == bb2base[b]

(* Loops are named by their bases.  The parent is read off the first        *)
(* predecessor outside the loop: one result for each that may come first.   *)
get_parent_loop(base) ==
  LET outside == Preds(prog.succ, base) \ Loop(base)
      through(p) == LET l == get_inner_loop(p)
                    IN  IF l # Null /\ base \in Loop(l) THEN l ELSE Null
  IN  IF outside = {} THEN {Null} ELSE {through(p) : p \in outside}

Finished == pc \in {"searched", "crashed"} /\ UNCHANGED vars

Next == SearchNext \/ Finished

Spec == Init /\ [][Next]_vars
FairSpec == Spec /\ WF_vars(Next)

-------------------------------------------------------------------------------
AllReachable == prog.blocks \subseteq Reachable(prog.succ)

(* Each loop is found once, with all its blocks and under its header, the   *)
(* way in (LoopSearch.cpp, lines 106-226), whatever the order of the sets;  *)
(* loops of a single block are left out.                                    *)
LoopsAreNatural ==
  pc = "searched" /\ AllReachable /\ Reducible(prog.succ) => loops = NaturalLoops(prog.succ)

(* bb2base is overwritten by each loop found, and ends at the innermost one *)
(* (LoopSearch.hpp, get_inner_loop).                                        *)
InnerLoopIsInnermost ==
  pc = "searched" /\ AllReachable /\ Reducible(prog.succ) =>
    \A b \in prog.blocks : get_inner_loop(b) = Innermost(Around(NaturalLoops(prog.succ), b))

(* get_parent_loop, which reads one predecessor only, gives the next loop   *)
(* outwards, if no loop is entered from a block of a loop beside it.        *)
EnteredFromAround(ls) ==
  \A l \in ls : \A p \in Preds(prog.succ, l[1]) \ l[2] : Around(ls, p) \subseteq Around(ls, l[1])

ParentIsNextOutwards ==
  pc = "searched" /\ AllReachable /\ Reducible(prog.succ) =>
    LET ls == NaturalLoops(prog.succ)
    IN  EnteredFromAround(ls) =>
          \A l \in loops : get_parent_loop(l[1]) = {Innermost(Around(ls, l[1]) \ {l})}

(* What the other passes ask for describes the nesting of the loops. *)
LoopsNest == InnerLoopIsInnermost /\ ParentIsNextOutwards

(* Every component has a base, even where a cycle can be entered in several *)
(* places or the way in was taken out with an outer base: base->bb never    *)
(* reads a null pointer when the entry reaches all blocks.                  *)
EveryLoopHasBase == pc = "crashed" => ~AllReachable

(* Each round takes bases out, so the rounds end. *)
Terminates == <>(pc \in {"searched", "crashed"})
-------------------------------------------------------------------------------
(****************************************************************************)
(* Why every component has a base: the entry is in none, so an edge leads   *)
(* into it, and the one end of that edge remembers it.                      *)
(****************************************************************************)
TypeOK ==
  /\ prog \in Programs
  /\ pc \in {"search", "record", "searched", "crashed"}
  /\ nodes \subseteq prog.blocks /\ reserved \subseteq Blocks
  /\ succs \in [Blocks -> SUBSET Blocks] /\ prevs \in [Blocks -> SUBSET Blocks]
  /\ index \in [Blocks -> Int] /\ lowlink \in [Blocks -> Int] /\ index_count \in Nat
  /\ stack \in Seq(Blocks) /\ calls \in Seq([node : Blocks, rest : SUBSET Blocks])
  /\ sccs \subseteq SUBSET Blocks

(* The nodes left forget the bases in both directions; an edge from a base  *)
(* is still among the successors of the base.                               *)
NodesInv ==
  pc # "searched" =>
    /\ Entry \in nodes
    /\ \A a \in nodes : succs[a] \subseteq nodes \ {Entry}
    /\ \A a, b \in nodes : b \in succs[a] <=> a \in prevs[b]
    /\ \A x \in prog.blocks : \A n \in nodes \cap prog.succ[x] :
         x \in prevs[n] \/ (x \in reserved /\ n \in succs[x])

(* Along the stack and along the calls the indexes grow, and the call at    *)
(* the bottom is of the node at the bottom.                                 *)
StackInv ==
  /\ OnStack \subseteq nodes
  /\ \A i \in DOMAIN stack : 0 <= index[stack[i]] /\ index[stack[i]] < index_count
  /\ \A i, j \in DOMAIN stack : i < j => index[stack[i]] < index[stack[j]]
  /\ \A k \in DOMAIN calls : calls[k].node \in OnStack /\ calls[k].rest \subseteq succs[calls[k].node]
  /\ \A k, l \in DOMAIN calls : k < l => index[calls[k].node] < index[calls[l].node]
  /\ calls = <<>> => stack = <<>>
  /\ calls # <<>> => stack # <<>> /\ stack[1] = calls[1].node
  /\ pc # "search" => calls = <<>>

(* A node on the stack whose call has ended reaches a lower one; above the  *)
(* entry that is never the entry.                                           *)
LowInv ==
  /\ \A x \in OnStack : \E y \in OnStack : lowlink[x] = index[y] /\ index[y] <= index[x]
  /\ \A x \in OnStack : (\A k \in DOMAIN calls : calls[k].node # x) => lowlink[x] < index[x]
  /\ Entry \in OnStack => /\ stack[1] = Entry
                         /\ \A x \in OnStack \ {Entry} : index[Entry] < lowlink[x]

(* The components found are apart from each other and from the stack. *)
SccsInv ==
  /\ pc = "searched" => sccs = {}
  /\ \A s \in sccs : s # {} /\ s \subseteq nodes \ {Entry} /\ s \cap OnStack = {}
  /\ \A s, t \in sccs : s # t => s \cap t = {}
  /\ pc = "search" => \A s \in sccs : \A x \in s : index[x] # -1

SearchInv == TypeOK /\ NodesInv /\ StackInv /\ LowInv /\ SccsInv /\ EveryLoopHasBase
================================================================================

------------------------------ MODULE LoopInvHoist ------------------------------
(****************************************************************************)
(* LoopInvHoist::run on one function (src/optimization/LoopInvHoist.cpp):   *)
(* from the innermost loops outwards, instructions whose operands do not    *)
(* change in a loop move to the block before it.                            *)
(*                                                                          *)
(* The loops are the ones module LoopSearch shows the pass to get.  The     *)
(* code of a block is its instructions without the terminator; ops are the  *)
(* operands that are instructions, except for a phi, whose operands are     *)
(* needed in other blocks.  address is where blocks and instructions lie on *)
(* the heap: the set invariant is ordered by it.  No execution leaves a     *)
(* block of stop: it calls neg_idx_except, which exits (io.c:17).           *)
(****************************************************************************)
EXTENDS Loops, SequencesExt

CONSTANTS
  Instructions,
  Programs    \* the functions: records of a graph, its code and its instructions

(* pure: arithmetic, divisions included, comparisons, conversions and       *)
(* getelementptr; value: phi, load, alloca and calls with a result; void:   *)
(* stores, and calls without one.                                           *)
Kinds == {"pure", "value", "void"}

ASSUME ProgramsAssumption ==
  \A p \in Programs :
     /\ p.succ \in [Blocks -> SUBSET Blocks]
     /\ p.code \in [Blocks -> Seq(Instructions)]
     /\ p.kind \in [Instructions -> Kinds]
     /\ p.ops \in [Instructions -> SUBSET Instructions]
     /\ p.address \in [Blocks \cup Instructions -> Nat]
     /\ p.stop \subseteq Blocks

(* loop_searcher->run() *)
LoopSearched == [g \in {p.succ : p \in Programs} |-> NaturalLoops(g)]

(* The branches an execution can take. *)
Taken(p) == [b \in Blocks |-> IF b \in p.stop THEN {} ELSE p.succ[b]]

(* Instruction op is computed before ins: earlier in the same block, or in  *)
(* a block that every execution has to pass before.  The address of an      *)
(* array element is used in a block that the one for a negative index       *)
(* precedes as well (cminusf_builder.cpp:525).                              *)
ComesFirst(p, c, op, ins) ==
  \E b \in Blocks : \E i \in 1..Len(c[b]) :
     /\ c[b][i] = ins
     /\ \/ \E j \in 1..(i - 1) : c[b][j] = op
        \/ \E d \in Blocks : op \in ToSet(c[d]) /\ StrictlyDominates(Taken(p), d, b)

EachOnce(c) ==
  \A b, d \in Blocks : \A i \in 1..Len(c[b]), j \in 1..Len(c[d]) :
     c[b][i] = c[d][j] => b = d /\ i = j

(* A loop is entered from one block, which lies in no loop beside it: the   *)
(* builder branches to the condition of a while from the block before and   *)
(* from the end of the body.                                                *)
EnteredOnce(succ, ls, l) ==
  \E q \in Blocks : /\ Preds(succ, l[1]) \ l[2] = {q}
                    /\ Around(ls, q) \subseteq Around(ls, l[1])

(* The functions the pass is given: edges and code are in reachable blocks  *)
(* only, an instruction is in one place, and what follows the test of an    *)
(* index is reached with one that is not negative.  They need not be in SSA *)
(* form: where a variable has no value, an operand may come from a block    *)
(* that was passed by (ConstPropagation.cpp:549).                           *)
ASSUME FunctionsAssumption ==
  /\ \A g \in DOMAIN LoopSearched :
       LET dead == Blocks \ Reachable(g)
       IN  /\ \A b \in dead : g[b] = {}
           /\ \A p \in Programs : p.succ = g => \A b \in dead : p.code[b] = <<>>
           /\ \A l \in LoopSearched[g] : EnteredOnce(g, LoopSearched[g], l)
  /\ \A p \in Programs :
       /\ EachOnce(p.code)
       /\ Reachable(Taken(p)) = Reachable(p.succ)
       /\ \A ins \in Instructions : \A op \in p.ops[ins] : p.kind[op] # "void"

VARIABLES
  prog,               \* the function as it was; no step changes it
  loops,              \* what LoopSearch found: pairs of a base and its blocks
  pc,
  code,
  base_loops,         \* innermost loops still to start from, by their bases
  loop,               \* the loop in hand, by its base
  needDefinedInLoop,
  invariant,          \* pairs of a block and an instruction, still to be moved
  preBB

vars == <<prog, loops, pc, code, base_loops, loop, needDefinedInLoop, invariant, preBB>>

LoopBlocks(base) == (CHOOSE l \in loops : l[1] = base)[2]
Defines(b) == {ins \in ToSet(code[b]) : prog.kind[ins] # "void"}
Defined(bs) == UNION {Defines(b) : b \in bs}

get_parent_loop(base) == Innermost({l \in Around(loops, base) : l[1] # base})

-------------------------------------------------------------------------------
Init ==
  /\ prog \in Programs
  /\ loops = LoopSearched[prog.succ]
  /\ pc = "start"
  /\ code = prog.code
  /\ base_loops = {} /\ loop = Null
  /\ needDefinedInLoop = {} /\ invariant = {}
  /\ preBB = Null

(* Of all bases only those stay that are no loop's parent, near or far. *)
CollectInnermost ==
  /\ pc = "start"
  /\ pc' = "next"
  /\ base_loops' = {l[1] : l \in {k \in loops : \A m \in loops : k # m => ~(m[2] \subseteq k[2])}}
  /\ UNCHANGED <<prog, loops, code, loop, needDefinedInLoop, invariant, preBB>>

StartLoop(base) ==
  /\ pc' = "find"
  /\ loop' = base
  /\ needDefinedInLoop' = Defined(LoopBlocks(base))
  /\ invariant' = {}
  /\ UNCHANGED <<prog, loops, code, preBB>>

PickInnermost(base) ==
  /\ pc = "next" /\ base \in base_loops
  /\ base_loops' = base_loops \ {base}
  /\ StartLoop(base)

(* findInvariants, until nothing changes. *)
(* Mutant: only the first operand is looked at. *)
IsInvariant_SomeOperand(ins) ==
  /\ prog.kind[ins] = "pure" /\ ins \in needDefinedInLoop
  /\ prog.ops[ins] # {} => \E op \in prog.ops[ins] : op \notin needDefinedInLoop

IsInvariant(ins) ==
  /\ prog.kind[ins] = "pure" /\ ins \in needDefinedInLoop
  /\ prog.ops[ins] \cap needDefinedInLoop = {}

(* Mutant: what has been found is not taken out of needDefinedInLoop. *)
FindInvariant_Keep(b, ins) ==
  /\ pc = "find" /\ b \in LoopBlocks(loop) /\ ins \in ToSet(code[b])
  /\ IsInvariant(ins)
  /\ invariant' = invariant \cup {<<b, ins>>}
  /\ UNCHANGED <<prog, loops, pc, code, base_loops, loop, needDefinedInLoop, preBB>>

FindInvariant(b, ins) ==
  /\ pc = "find" /\ b \in LoopBlocks(loop) /\ ins \in ToSet(code[b])
  /\ IsInvariant(ins)
  /\ needDefinedInLoop' = needDefinedInLoop \ {ins}
  /\ invariant' = invariant \cup {<<b, ins>>}
  /\ UNCHANGED <<prog, loops, pc, code, base_loops, loop, preBB>>

(* Mutant: predecessors inside the loop are not passed over. *)
PreOutLoop_Any == Preds(prog.succ, loop)

PreOutLoop == Preds(prog.succ, loop) \ LoopBlocks(loop)

EndFind ==
  /\ pc = "find"
  /\ \A b \in LoopBlocks(loop) : \A ins \in ToSet(code[b]) : ~IsInvariant(ins)
  /\ IF invariant = {}
     THEN pc' = "climb" /\ UNCHANGED preBB
     ELSE pc' = "move" /\ preBB' \in PreOutLoop
  /\ UNCHANGED <<prog, loops, code, base_loops, loop, needDefinedInLoop, invariant>>

(* The order of std::set<std::pair<BasicBlock *, Instruction *>>. *)
Before(x, y) ==
  \/ prog.address[x[1]] < prog.address[y[1]]
  \/ x[1] = y[1] /\ prog.address[x[2]] <= prog.address[y[2]]

(* moveInvariantsOut: the next pair of the set goes to the end of preBB,    *)
(* whose branch has been taken off meanwhile.                               *)
MoveOut(b, ins) ==
  /\ pc = "move" /\ <<b, ins>> \in invariant
  /\ \A x \in invariant : Before(<<b, ins>>, x)
  /\ code' = [code EXCEPT ![b] = RemoveFirst(@, ins), ![preBB] = Append(@, ins)]
  /\ invariant' = invariant \ {<<b, ins>>}
  /\ UNCHANGED <<prog, loops, pc, base_loops, loop, needDefinedInLoop, preBB>>

EndMove ==
  /\ pc = "move" /\ invariant = {}
  /\ pc' = "climb"
  /\ UNCHANGED <<prog, loops, code, base_loops, loop, needDefinedInLoop, invariant, preBB>>

(* Mutant: only innermost loops are looked at. *)
Climb_Never ==
  /\ pc = "climb"
  /\ pc' = "next"
  /\ UNCHANGED <<prog, loops, code, base_loops, loop, needDefinedInLoop, invariant, preBB>>

Climb ==
  /\ pc = "climb"
  /\ LET parent == get_parent_loop(loop)
     IN  IF parent # Null
         THEN StartLoop(parent)
         ELSE /\ pc' = "next"
              /\ UNCHANGED <<prog, loops, code, loop, needDefinedInLoop, invariant, preBB>>
  /\ UNCHANGED base_loops

Finish ==
  /\ pc = "next" /\ base_loops = {}
  /\ pc' = "done"
  /\ UNCHANGED <<prog, loops, code, base_loops, loop, needDefinedInLoop, invariant, preBB>>

Finished == pc = "done" /\ UNCHANGED vars

Next ==
  \/ CollectInnermost
  \/ \E base \in base_loops : PickInnermost(base)
  \/ \E b \in Blocks, ins \in Instructions : FindInvariant(b, ins) \/ MoveOut(b, ins)
  \/ EndFind \/ EndMove \/ Climb \/ Finish \/ Finished

Spec == Init /\ [][Next]_vars
FairSpec == Spec /\ WF_vars(Next)

-------------------------------------------------------------------------------
(****************************************************************************)
(* Properties                                                               *)
(****************************************************************************)
Places(c, ins) == {b \in Blocks : ins \in ToSet(c[b])}
Place(c, ins)  == CHOOSE b \in Places(c, ins) : TRUE
Used == UNION {ToSet(prog.code[b]) : b \in Blocks}

(* The uses of operands that were computed before.                          *)
Uses == {u \in Used \X Used :
           u[1] \in prog.ops[u[2]] /\ ComesFirst(prog, prog.code, u[1], u[2])}

(* Blocks lie on the heap in the order of execution, and instructions after *)
(* their operands, as when each was allocated at the end of the heap.       *)
AllocatedInOrder ==
  /\ \A d, b \in Blocks :
       StrictlyDominates(Taken(prog), d, b) => prog.address[d] < prog.address[b]
  /\ \A u \in Uses : prog.address[u[1]] < prog.address[u[2]]

(* Between two loops every operand that was computed before its use still   *)
(* is, however many loops either has left and in whichever order the loops  *)
(* were taken, if the addresses in the set follow the code.                 *)
OperandsComeFirst ==
  pc \in {"next", "climb", "done"} =>
    (\A u \in Uses : ComesFirst(prog, code, u[1], u[2])) \/ ~AllocatedInOrder

(* In the end no loop holds an instruction all of whose operands come from  *)
(* outside of it (the climb from each innermost loop reaches every loop).   *)
NothingInvariantLeft ==
  pc = "done" =>
    \A l \in loops : \A b \in l[2] : \A ins \in ToSet(code[b]) :
       prog.kind[ins] = "pure" => prog.ops[ins] \cap Defined(l[2]) # {}

(* An instruction only ever moves up: to a block that dominates its old one *)
(* and lies in the loops around it but one, so no run of a loop repeats it  *)
(* that did not before; and it is never lost, nor in two places.            *)
OnlyMovesOut ==
  [][\A ins \in Used :
       LET from == Place(code, ins)
           to == Place(code', ins)
       IN  /\ Cardinality(Places(code', ins)) = 1
           /\ to # from => /\ StrictlyDominates(prog.succ, to, from)
                           /\ Around(loops, to) \subseteq Around(loops, from)
                           /\ Around(loops, to) # Around(loops, from)]_vars

(* Every instruction leaves finitely many loops. *)
Terminates == <>(pc = "done")

-------------------------------------------------------------------------------
(****************************************************************************)
(* The inductive invariant behind the properties.                           *)
(****************************************************************************)
Bases == {l[1] : l \in loops}
Body == LoopBlocks(loop)
Working == pc \in {"find", "move"}

TypeInv ==
  /\ prog \in Programs /\ loops = NaturalLoops(prog.succ)
  /\ pc \in {"start", "next", "find", "move", "climb", "done"}
  /\ code \in [Blocks -> Seq(Instructions)]
  /\ base_loops \subseteq Bases /\ (pc = "done" => base_loops = {})
  /\ pc \in {"find", "move", "climb"} => loop \in Bases
  /\ needDefinedInLoop \subseteq Instructions
  /\ invariant \subseteq Blocks \X Instructions
  /\ pc = "move" => preBB \in PreOutLoop

(* The instructions are the ones the function had, each once, in reachable  *)
(* blocks.                                                                  *)
CodeInv ==
  /\ EachOnce(code)
  /\ UNION {ToSet(code[b]) : b \in Blocks} = Used
  /\ \A b \in Blocks \ Reachable(prog.succ) : code[b] = <<>>

OrderInv == AllocatedInOrder => \A u \in Uses : ComesFirst(prog, code, u[1], u[2])

(* What the loop in hand defines is split into what is still needed there   *)
(* and what can leave; when the search is over nothing more can.            *)
FoundInv ==
  Working =>
    /\ needDefinedInLoop \cup {x[2] : x \in invariant} = Defined(Body)
    /\ \A x \in invariant :
         /\ x[1] \in Body /\ x[2] \in ToSet(code[x[1]])
         /\ prog.kind[x[2]] = "pure"
         /\ (prog.ops[x[2]] \cup {x[2]}) \cap needDefinedInLoop = {}
    /\ pc = "move" => \A b \in Body : \A ins \in ToSet(code[b]) : ~IsInvariant(ins)

(* A loop is settled when the climbs that are left do not come by it.       *)
Settled(l) ==
  /\ pc # "start"
  /\ \A k \in loops : k[1] \in base_loops => ~(k[2] \subseteq l[2])
  /\ Working => ~(Body \subseteq l[2])
  /\ pc = "climb" /\ Body \subseteq l[2] => l[1] = loop

Clean(l) ==
  \A b \in l[2] : \A ins \in ToSet(code[b]) :
     prog.kind[ins] = "pure" => prog.ops[ins] \cap Defined(l[2]) # {}

(* Settled loops are clean, and nothing that can leave a loop around them   *)
(* comes from inside of them.                                               *)
SettledInv ==
  \A l \in loops :
     Settled(l) => Clean(l) /\ (Working => \A x \in invariant : x[1] \notin l[2])

HoistInv == TypeInv /\ CodeInv /\ OrderInv /\ FoundInv /\ SettledInv

================================================================================

---------------------------- MODULE ConstPropagation ----------------------------
(****************************************************************************)
(* ConstPropagation::run on one function                                    *)
(* (src/optimization/ConstPropagation.cpp): tests of constants are folded,  *)
(* branches that are never taken deleted, then blocks without predecessor,  *)
(* then phis with one operand, then straight lines merged; and all of it    *)
(* again if a phi was deleted.                                              *)
(*                                                                          *)
(* A block is its phi, if it has one, and its terminator; a phi has the     *)
(* name of its block.  Of the instructions between only the comparison that *)
(* a conditional branch takes is kept, as the value it tests.  The use      *)
(* lists are kept as the pass finds them: what a value is replaced in is    *)
(* what its list says, at the operand numbers written there.                *)
(*                                                                          *)
(* Phase "exec" runs the result beside the original.                        *)
(****************************************************************************)
EXTENDS Cfg, SequencesExt

CONSTANTS
  Zero, One,  \* two constants: what a test finds false and true
  Unknown,    \* a value that is no constant: an argument, what a load gives
  Undefined,  \* what an instruction gives that is in no block
  Programs    \* the functions: records of their blocks in the order of the
              \* function's list, the targets of each terminator, the value
              \* it reads (tests or returns), and the phis

Values == {Zero, One, Unknown} \cup Blocks
Pair == [val : Values, from : Blocks]

ASSUME ConstantsAssumption ==
  /\ {Zero, One, Unknown, Undefined} \cap Blocks = {}
  /\ Cardinality({Zero, One, Unknown, Undefined}) = 4

OncePerLabel(pairs) == \A j, k \in DOMAIN pairs : pairs[j].from = pairs[k].from => j = k

Predecessors(p, b) == {a \in Blocks : b \in ToSet(p.arms[a])}

(* A conditional branch has two targets.  A phi has a pair for each         *)
(* predecessor, of which C-minus makes two, but for one that comes without  *)
(* a value of the variable (Mem2Reg.cpp:132); one of them has a value.      *)
ASSUME ProgramsAssumption ==
  \A p \in Programs :
     /\ p.order \in Seq(Blocks) /\ IsInjective(p.order) /\ p.order[1] = Entry
     /\ p.arms \in [Blocks -> Seq(ToSet(p.order))] /\ p.phi \in [Blocks -> Seq(Pair)]
     /\ \A b \in Blocks :
          /\ Len(p.arms[b]) <= 2 /\ IsInjective(p.arms[b])
          /\ b \notin ToSet(p.order) => p.arms[b] = <<>>
          /\ p.reads[b] \in Values
          /\ p.phi[b] # <<>> =>
               /\ Cardinality(Predecessors(p, b)) = 2 /\ Len(p.phi[b]) <= 2
               /\ {p.phi[b][k].from : k \in DOMAIN p.phi[b]} \subseteq Predecessors(p, b)
               /\ OncePerLabel(p.phi[b])

VARIABLES
  prog,               \* the function as it was; no step changes it
  pc,
  blocks,             \* get_basic_blocks(), which keep the order of prog.order
  preds, succs,       \* the lists of each block
  term,               \* its terminator: targets, value read, and whether the
                      \* comparison of a conditional branch has been folded
  code,               \* the blocks of the original it holds, in order
  phis,               \* the phis that are in a block
  phi,                \* their operands, those of deleted phis included
  valueUses,          \* <<v, q, k>>: the list of v says q uses it in pair k
  labelUses,          \* the same for the label of a block
  rest,               \* what the loop of this phase has still to visit
  dead,               \* wait_delete of the blocks
  merge,              \* wait_merge
  flag,
  here, at, old, new  \* phase exec: the place in the original and in the
                      \* result; what the phis are worth there and here

graphVars == <<blocks, preds, succs, term, code>>
phiVars   == <<phis, phi, valueUses, labelUses>>
loopVars  == <<rest, dead, merge, flag>>
execVars  == <<here, at, old, new>>
vars == <<prog, pc, graphVars, phiVars, loopVars, execVars>>

PhisIn(b) == phis \cap ToSet(code[b])

Init ==
  /\ prog \in Programs
  /\ pc = "fold"
  /\ blocks = ToSet(prog.order)
  /\ succs = [b \in Blocks |-> ToSet(prog.arms[b])]
  /\ preds = [b \in Blocks |-> Predecessors(prog, b)]
  /\ term = [b \in Blocks |-> [arms |-> prog.arms[b], reads |-> prog.reads[b], folded |-> FALSE]]
  /\ code = [b \in Blocks |-> <<b>>]
  /\ phi = prog.phi
  /\ phis = {b \in Blocks : phi[b] # <<>>}
  /\ valueUses = UNION {{<<phi[q][k].val, q, k>> : k \in DOMAIN phi[q]} : q \in phis}
  /\ labelUses = UNION {{<<phi[q][k].from, q, k>> : k \in DOMAIN phi[q]} : q \in phis}
  /\ rest = blocks
  /\ dead = {} /\ merge = {} /\ flag = FALSE
  /\ here = Entry /\ at = <<Entry, 1>>
  /\ old = [b \in Blocks |-> Undefined] /\ new = old

(* The pass ends in the middle. *)
Stop(how) == pc' = how /\ UNCHANGED <<prog, graphVars, phiVars, loopVars, execVars>>

-------------------------------------------------------------------------------
(****************************************************************************)
(* Value, User and delete_instr                                             *)
(****************************************************************************)
ListOf(uses, v) == {u \in uses : u[1] = v}

(* set_operand asserts that there is an operand of the number it is given.  *)
OutOfRange(list) == \E u \in list : u[3] > Len(phi[u[2]])

(* The phi itself among its users when it becomes its own operand: each use *)
(* written adds a use to the list that is being walked.                     *)
Replaceable(p, v) == ~OutOfRange(ListOf(valueUses, p)) /\ v # p

HowItFails(p) == IF OutOfRange(ListOf(valueUses, p)) THEN "aborted" ELSE "hung"

(* replace_all_use_with(v) for the phi p: only what the list of p names     *)
(* becomes v, and v gets these uses.                                        *)
Replace(p, v) ==
  phi' = [q \in Blocks |-> [k \in DOMAIN phi[q] |->
            IF <<p, q, k>> \in valueUses THEN [phi[q][k] EXCEPT !.val = v] ELSE phi[q][k]]]

Passed(p, v) == valueUses \cup {<<v, u[2], u[3]>> : u \in ListOf(valueUses, p)}

(* remove_use_of_ops as the phis leave their block.                         *)
Delete(gone, uses) ==
  /\ phis' = phis \ gone
  /\ labelUses' = {u \in labelUses : u[2] \notin gone}
  /\ valueUses' = {u \in uses : ~(u[2] \in gone /\ \E k \in DOMAIN phi[u[2]] : phi'[u[2]][k].val = u[1])}

Rereading(p, v) ==
  [b \in Blocks |-> IF term[b].reads = p THEN [term[b] EXCEPT !.reads = v] ELSE term[b]]

-------------------------------------------------------------------------------
(****************************************************************************)
(* run: constants and branches                                              *)
(****************************************************************************)
(* b is the next block of the list. *)
IsNext(b) ==
  \E i \in DOMAIN prog.order :
     /\ b = prog.order[i] /\ b \in rest
     /\ \A j \in 1..(i - 1) : prog.order[j] \notin rest

Visit(phase, b) == pc = phase /\ IsNext(b) /\ rest' = rest \ {b}

EndPhase(from, to) == pc = from /\ rest = {} /\ pc' = to

(* The comparison of two constants becomes one. *)
Fold(b) ==
  /\ Visit("fold", b)
  /\ term' = [term EXCEPT ![b].folded = Len(term[b].arms) = 2 /\ term[b].reads \in {Zero, One}]
  /\ UNCHANGED <<prog, pc, blocks, preds, succs, code, phiVars, dead, merge, flag, execVars>>

EndFold ==
  /\ EndPhase("fold", "branches")
  /\ rest' = blocks
  /\ UNCHANGED <<prog, graphVars, phiVars, dead, merge, flag, execVars>>

Kept(b)    == IF term[b].reads = Zero THEN term[b].arms[2] ELSE term[b].arms[1]
Dropped(b) == IF term[b].reads = Zero THEN term[b].arms[1] ELSE term[b].arms[2]
Decided(b) == term[b].folded /\ Len(term[b].arms) = 2

KeepBranch(b) ==
  /\ Visit("branches", b) /\ ~Decided(b)
  /\ UNCHANGED <<prog, pc, graphVars, phiVars, dead, merge, flag, execVars>>

(* Mutant: the operand of the deleted edge is taken. *)
Others_Own(p, b) == SelectSeq(phi[p], LAMBDA pair : pair.from = b)

(* The value a phi has if b is none of its predecessors any more. *)
Others(p, b) == RemoveFirstMatch(phi[p], LAMBDA pair : pair.from = b)

(* Mutant: the other target keeps its predecessor. *)
DropBranch_KeepPred(b) ==
  /\ Visit("branches", b) /\ Decided(b) /\ PhisIn(Dropped(b)) = {}
  /\ succs' = [succs EXCEPT ![b] = {Kept(b)}]
  /\ term' = [term EXCEPT ![b].arms = <<Kept(b)>>, ![b].reads = Unknown]
  /\ UNCHANGED <<prog, pc, blocks, preds, code, phiVars, dead, merge, flag, execVars>>

(* The branch goes to one target only; the phi of the other is replaced by  *)
(* its other operand, if it has one, and deleted.                           *)
DropBranch(b) ==
  /\ Visit("branches", b) /\ Decided(b)
  /\ preds' = [preds EXCEPT ![Dropped(b)] = @ \ {b}]
  /\ succs' = [succs EXCEPT ![b] = {Kept(b)}]
  /\ LET ended(t) == [t EXCEPT ![b].arms = <<Kept(b)>>, ![b].reads = Unknown]
     IN  \/ /\ PhisIn(Dropped(b)) = {}
            /\ term' = ended(term)
            /\ UNCHANGED phiVars
         \/ /\ PhisIn(Dropped(b)) # {} /\ \A p \in PhisIn(Dropped(b)) : Others(p, b) = <<>>
            /\ term' = ended(term) /\ phi' = phi
            /\ Delete(PhisIn(Dropped(b)), valueUses)
         \/ \E p \in PhisIn(Dropped(b)) :
              LET v == Last(Others(p, b)).val
              IN  /\ Others(p, b) # <<>> /\ Replaceable(p, v) /\ term' = ended(Rereading(p, v))
                  /\ Replace(p, v) /\ Delete(PhisIn(Dropped(b)), Passed(p, v))
  /\ UNCHANGED <<prog, pc, blocks, code, dead, merge, flag, execVars>>

(* What else can come of it: the phi was deleted from the list the loop     *)
(* walks, and the loop goes on from the node that has been freed.           *)
DropBranchFails(b) ==
  /\ pc = "branches" /\ IsNext(b) /\ Decided(b)
  /\ \E p \in PhisIn(Dropped(b)) :
       LET v == Last(Others(p, b)).val
       IN  Stop(IF Others(p, b) = <<>> \/ Replaceable(p, v) THEN "crashed" ELSE HowItFails(p))

EndBranches ==
  /\ EndPhase("branches", "sweep")
  /\ rest' = blocks
  /\ UNCHANGED <<prog, graphVars, phiVars, dead, merge, flag, execVars>>

-------------------------------------------------------------------------------
(****************************************************************************)
(* run: blocks without predecessor, phis with one operand                   *)
(****************************************************************************)
Keep(b) ==
  /\ Visit("sweep", b) /\ (b = Entry \/ preds[b] # {})
  /\ UNCHANGED <<prog, pc, graphVars, phiVars, dead, merge, flag, execVars>>

(* remove_operands: the list of a value forgets all its uses by the phi,    *)
(* and the pairs that follow keep their old numbers in the lists.           *)
Forgotten(uses, b, taken) ==
  {u \in uses : ~ \E q \in taken : u[2] = q /\ \E k \in DOMAIN phi[q] :
                     phi[q][k].from = b /\ u[1] \in {b, phi[q][k].val}}

(* Mutant: the entry block is taken for unreachable. *)
Sweep_Entry(b) ==
  /\ Visit("sweep", b) /\ preds[b] = {}
  /\ preds' = [s \in Blocks |-> preds[s] \ {b}]
  /\ dead' = dead \cup {b}
  /\ LET taken == UNION {PhisIn(s) : s \in succs[b]}
     IN  /\ phi' = [q \in Blocks |-> IF q \in taken THEN Others(q, b) ELSE phi[q]]
         /\ valueUses' = Forgotten(valueUses, b, taken)
         /\ labelUses' = {u \in labelUses : ~(u[1] = b /\ u[2] \in taken)}
  /\ UNCHANGED <<prog, pc, blocks, succs, term, code, phis, merge, flag, execVars>>

Sweep(b) ==
  /\ Visit("sweep", b) /\ b # Entry /\ preds[b] = {}
  /\ preds' = [s \in Blocks |-> preds[s] \ {b}]
  /\ dead' = dead \cup {b}
  /\ LET taken == UNION {PhisIn(s) : s \in succs[b]}
     IN  /\ phi' = [q \in Blocks |-> IF q \in taken THEN Others(q, b) ELSE phi[q]]
         /\ valueUses' = Forgotten(valueUses, b, taken)
         /\ labelUses' = {u \in labelUses : ~(u[1] = b /\ u[2] \in taken)}
  /\ UNCHANGED <<prog, pc, blocks, succs, term, code, phis, merge, flag, execVars>>

EndSweep ==
  /\ EndPhase("sweep", "phis")
  /\ blocks' = blocks \ dead
  /\ rest' = blocks'
  /\ dead' = {}
  /\ UNCHANGED <<prog, preds, succs, term, code, phiVars, merge, flag, execVars>>

SinglePhis(b) == {p \in PhisIn(b) : Len(phi[p]) = 1}

KeepPhi(b) ==
  /\ Visit("phis", b) /\ SinglePhis(b) = {}
  /\ UNCHANGED <<prog, pc, graphVars, phiVars, dead, merge, flag, execVars>>

DropPhi(b) ==
  /\ Visit("phis", b)
  /\ \E p \in SinglePhis(b) :
       LET v == phi[p][1].val
       IN  /\ Replaceable(p, v) /\ term' = Rereading(p, v)
           /\ Replace(p, v) /\ Delete({p}, Passed(p, v))
  /\ flag' = TRUE
  /\ UNCHANGED <<prog, pc, blocks, preds, succs, code, dead, merge, execVars>>

DropPhiFails(b) ==
  /\ pc = "phis" /\ IsNext(b)
  /\ \E p \in SinglePhis(b) :
       ~Replaceable(p, phi[p][1].val) /\ Stop(HowItFails(p))

-------------------------------------------------------------------------------
(****************************************************************************)
(* CompressPath                                                             *)
(****************************************************************************)
Mergeable ==
  {b \in blocks : /\ Cardinality(preds[b]) = 1
                 /\ \A p \in preds[b] : Cardinality(succs[p]) = 1}

EndPhis ==
  /\ EndPhase("phis", "compress")
  /\ merge' = Mergeable
  /\ UNCHANGED <<prog, graphVars, phiVars, rest, dead, flag, execVars>>

Relabelled(b, p) ==
  [q \in Blocks |-> [k \in DOMAIN phi[q] |->
     IF <<b, q, k>> \in labelUses THEN [phi[q][k] EXCEPT !.from = p] ELSE phi[q][k]]]

(* wait_merge is ordered by address: any of its blocks can be the next.  If *)
(* the assertion failed here, no step could be taken; it never does.        *)
Merge(b) ==
  /\ pc = "compress" /\ b \in merge
  /\ \E p \in preds[b] \ {b} :
       /\ ~OutOfRange(ListOf(labelUses, b))
       /\ term' = [term EXCEPT ![p] = term[b]]
       /\ code' = [code EXCEPT ![p] = @ \o code[b]]
       /\ succs' = [succs EXCEPT ![p] = (@ \ {b}) \cup succs[b]]
       /\ preds' = [s \in Blocks |-> IF s \in succs[b] THEN (preds[s] \ {b}) \cup {p}
                                     ELSE IF s = b THEN {} ELSE preds[s]]
       /\ phi' = Relabelled(b, p)
       /\ labelUses' = labelUses \cup {<<p, u[2], u[3]>> : u \in ListOf(labelUses, b)}
  /\ blocks' = blocks \ {b}
  /\ merge' = merge \ {b}
  /\ UNCHANGED <<prog, pc, phis, valueUses, rest, dead, flag, execVars>>

(* A block that is its own predecessor by now: its instructions are         *)
(* appended to the list the loop walks.  If there are none, the list of its *)
(* label grows in replace_all_use_with, as it holds the branch that led     *)
(* into the loop: Function::remove takes a block away with its branch.      *)
MergeFails(b) == pc = "compress" /\ b \in merge /\ preds[b] = {b} /\ Stop("hung")

(* Mutant: the flag is never taken back. *)
Again_KeepFlag ==
  /\ pc = "compress" /\ merge = {}
  /\ pc' = IF flag THEN "fold" ELSE "exec"
  /\ rest' = blocks
  /\ UNCHANGED <<prog, graphVars, phiVars, dead, merge, flag, execVars>>

Again ==
  /\ pc = "compress" /\ merge = {}
  /\ pc' = IF flag THEN "fold" ELSE "exec"
  /\ flag' = FALSE
  /\ rest' = blocks
  /\ UNCHANGED <<prog, graphVars, phiVars, dead, merge, execVars>>

-------------------------------------------------------------------------------
(****************************************************************************)
(* The original and the result side by side                                 *)
(****************************************************************************)
OldValue(v) == IF v \in Blocks THEN old[v] ELSE v
NewValue(v) == IF v \in phis THEN new[v] ELSE IF v \in Blocks THEN Undefined ELSE v

(* The arms a terminator can take. *)
Takes(arms, v) ==
  IF Len(arms) < 2 THEN DOMAIN arms ELSE IF v = One THEN {1} ELSE IF v = Zero THEN {2} ELSE {1, 2}

Operand(pairs, from) ==
  IF \E k \in DOMAIN pairs : pairs[k].from = from
  THEN (CHOOSE pair \in ToSet(pairs) : pair.from = from).val ELSE Undefined

AtLast == at[2] = Len(code[at[1]])

StepOriginal(i) ==
  LET to == prog.arms[here][i]
  IN  /\ here' = to
      /\ old' = IF prog.phi[to] = <<>> THEN old
                ELSE [old EXCEPT ![to] = OldValue(Operand(prog.phi[to], here))]

StepResult(i) ==
  IF ~AtLast
  THEN at' = <<at[1], at[2] + 1>> /\ UNCHANGED new
  ELSE LET to == term[at[1]].arms[i]
       IN  /\ at' = <<to, 1>>
           /\ new' = [q \in Blocks |->
                        IF q \in PhisIn(to) THEN NewValue(Operand(phi[q], at[1])) ELSE new[q]]

Test == OldValue(prog.reads[here])

(* A test of a value the program has not given is not C-minus's to decide.  *)
Decidable == Len(prog.arms[here]) < 2 \/ Test # Undefined

(* An unknown test goes the same way in both. *)
Execute ==
  /\ pc = "exec" /\ Decidable
  /\ \E i \in Takes(prog.arms[here], Test) :
       /\ StepOriginal(i)
       /\ IF AtLast /\ Len(term[at[1]].arms) = 1 THEN StepResult(1) ELSE StepResult(i)
  /\ UNCHANGED <<prog, pc, graphVars, phiVars, loopVars>>

Finished ==
  /\ \/ pc \in {"aborted", "hung", "crashed"}
     \/ (pc = "exec" /\ (prog.arms[here] = <<>> \/ ~Decidable))
  /\ UNCHANGED vars

PassNext ==
  \/ \E b \in Blocks : \/ Fold(b) \/ KeepBranch(b) \/ DropBranch(b) \/ DropBranchFails(b)
                       \/ Keep(b) \/ Sweep(b) \/ KeepPhi(b) \/ DropPhi(b) \/ DropPhiFails(b)
                       \/ Merge(b) \/ MergeFails(b)
  \/ EndFold \/ EndBranches \/ EndSweep \/ EndPhis \/ Again

Next == PassNext \/ Execute \/ Finished

Spec == Init /\ [][Next]_vars
FairSpec == Spec /\ WF_vars(Next)

-------------------------------------------------------------------------------
Between == pc = "exec" \/ (pc = "fold" /\ rest = blocks)

(* Between two runs the terminators and both lists of every block describe  *)
(* the same graph, although create_br, remove_pre_basic_block,              *)
(* Function::remove and CompressPath each mend one end of an edge.          *)
ListsAgree ==
  Between => \A b \in blocks :
    /\ succs[b] = ToSet(term[b].arms)
    /\ preds[b] = {a \in blocks : b \in succs[a]}

Labels(q) == {phi[q][k].from : k \in DOMAIN phi[q]}

(* Between two runs a phi has one operand at most for each predecessor,     *)
(* under the label it has by now, and none for another block; one that had  *)
(* an operand for each has one for each.                                    *)
PhisMatchPreds ==
  Between => \A b \in blocks : \A p \in PhisIn(b) :
    /\ OncePerLabel(phi[p]) /\ Labels(p) \subseteq preds[b]
    /\ Len(prog.phi[p]) = 2 => Labels(p) = preds[b]

(* A block of the original is in one block of the list at most. *)
CodeIsApart ==
  \A a, b \in blocks : a # b => ToSet(code[a]) \cap ToSet(code[b]) = {}

(* What the pass hands over is a well-formed function. *)
GraphIsWhole == ListsAgree /\ PhisMatchPreds /\ CodeIsApart

(* A phi that takes the same phi from both sides: remove_operands makes its *)
(* list forget the operand that stays, which is then left behind when the   *)
(* phi it names is deleted.                                                 *)
TakesTwice ==
  \E q \in Blocks : /\ Len(prog.phi[q]) = 2
                    /\ prog.phi[q][1].val = prog.phi[q][2].val /\ prog.phi[q][1].val \in Blocks

(* A variable without a value before a loop: its phi is replaced by the     *)
(* value the round computes, also where the value of the round before is    *)
(* read after that (while (c) { y = x; x = f(); if (d) g(y); }).            *)
ReadsRoundBefore ==
  \E h, b \in Blocks :
    /\ Len(prog.phi[h]) = 1 /\ prog.phi[h][1].val \in Blocks
    /\ \/ prog.reads[b] = h
       \/ \E r \in Blocks : [val |-> h, from |-> b] \in ToSet(prog.phi[r])
    /\ Dominates([a \in Blocks |-> ToSet(prog.arms[a])], prog.phi[h][1].val, b)

(* The result does what the original did: it passes the same blocks, tests  *)
(* and returns the same values, and ends where the original ends, through   *)
(* every round of deletions and merges; except for TakesTwice and           *)
(* ReadsRoundBefore, and as long as what the original tests has a value.    *)
FollowsOriginal ==
  pc = "exec" /\ ~TakesTwice /\ ~ReadsRoundBefore =>
    /\ here = code[at[1]][at[2]]
    /\ prog.arms[here] = <<>> <=> AtLast /\ term[at[1]].arms = <<>>
    /\ AtLast /\ Len(term[at[1]].arms) # 1 =>
         Test \in {Undefined, NewValue(term[at[1]].reads)}

(* A variable without a value before a loop, which then gets none in it     *)
(* either: all that is left of its phi is the phi itself.                   *)
NeverAssigned ==
  /\ \E h \in Blocks : Len(prog.phi[h]) = 1
  /\ \E q \in phis : \E k \in DOMAIN phi[q] : phi[q][k].val = q

(* The pass hangs only over a loop that no branch leads to any more, as     *)
(* blocks of a cycle keep each other's predecessor lists from getting       *)
(* empty, and over NeverAssigned.                                           *)
HangNeedsDeadLoop ==
  pc = "hung" =>
    \/ NeverAssigned
    \/ \E S \in SUBSET (blocks \ Reachable(succs)) :
         S # {} /\ \A b \in S : preds[b] \cap S # {}

(* run() calls itself as long as it has deleted a phi, which ends; a pass   *)
(* that stops in the middle has ended too.                                  *)
Terminates == <>(pc \in {"exec", "aborted", "hung", "crashed"})

(* The assertion of set_operand (User.cpp, line 24).                        *)
SetOperandInRange == pc # "aborted"
-------------------------------------------------------------------------------
(****************************************************************************)
(* Why the graph stays whole: what holds in the middle of a phase.          *)
(****************************************************************************)
TypeOK ==
  /\ prog \in Programs
  /\ pc \in {"fold", "branches", "sweep", "phis", "compress", "exec", "aborted", "hung", "crashed"}
  /\ blocks \subseteq Blocks
  /\ rest \subseteq blocks /\ dead \subseteq blocks /\ merge \subseteq Blocks
  /\ preds \in [Blocks -> SUBSET Blocks] /\ succs \in [Blocks -> SUBSET Blocks]
  /\ term \in [Blocks -> [arms : Seq(Blocks), reads : Values, folded : BOOLEAN]]
  /\ code \in [Blocks -> Seq(Blocks)]
  /\ phis \subseteq Blocks /\ phi \in [Blocks -> Seq(Pair)]
  /\ labelUses \subseteq Blocks \X Blocks \X Nat
  /\ flag \in BOOLEAN

(* Both ends of every edge, but for the edges of blocks that wait to be     *)
(* deleted, which no list of predecessors has any more.                     *)
EdgesInv ==
  /\ pc # "sweep" => dead = {}
  /\ \A b \in dead : preds[b] = {} /\ b \notin rest
  /\ \A b \in blocks :
       /\ Len(term[b].arms) <= 2 /\ IsInjective(term[b].arms)
       /\ succs[b] = ToSet(term[b].arms) /\ succs[b] \subseteq blocks
       /\ preds[b] = {a \in blocks \ dead : b \in succs[a]}
  /\ pc = "compress" =>
       /\ rest = {}
       /\ \A b \in merge : b \in blocks /\ \E p \in blocks : preds[b] = {p} /\ succs[p] = {b}

(* The walk over the phis has still to come to q.                           *)
NotMet(q) == pc \notin {"compress", "exec"} /\ (pc = "phis" => q \in rest)

(* A phi has predecessors for labels, each once.  One with a single operand *)
(* is met before blocks are merged, so what gets into the middle of a block *)
(* is at most a phi without operands, which never had two.                  *)
PhisInv ==
  /\ \A b \in blocks : b \in ToSet(code[b]) /\ \A q \in PhisIn(b) \ {b} : Len(prog.phi[q]) # 2
  /\ \A q \in phis \ blocks : phi[q] = <<>>
  /\ \A q \in phis \cap blocks :
       /\ Len(phi[q]) <= 2 /\ OncePerLabel(phi[q]) /\ Labels(q) \subseteq preds[q]
       /\ Len(prog.phi[q]) = 2 => Labels(q) = preds[q]
       /\ Len(phi[q]) = 1 => NotMet(q)

(* The lists of the labels are exact for phis with two operands; what they  *)
(* say of one with a single operand may be out of date.                     *)
UsesInv ==
  \A u \in labelUses :
    /\ u[2] \in phis
    /\ u[1] \in blocks => /\ u[1] \in Labels(u[2])
                          /\ Len(phi[u[2]]) = 2 => u[3] \in 1..2 /\ phi[u[2]][u[3]].from = u[1]

UsesComplete ==
  \A q \in phis : Len(phi[q]) = 2 => \A k \in 1..2 : <<phi[q][k].from, q, k>> \in labelUses

GraphInv == TypeOK /\ EdgesInv /\ PhisInv /\ UsesInv /\ UsesComplete /\ CodeIsApart

(* The assertion of set_operand when CompressPath replaces a label.         *)
LabelsInRange == pc = "compress" => \A b \in merge : ~OutOfRange(ListOf(labelUses, b))
================================================================================

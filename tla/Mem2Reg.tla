-------------------------------- MODULE Mem2Reg --------------------------------
(****************************************************************************)
(* Mem2Reg::run on one function (src/optimization/Mem2Reg.cpp).             *)
(*                                                                          *)
(* Vars are the promoted allocas; the code of a block is the sequence of    *)
(* its loads and stores of them, the only instructions the pass looks at.   *)
(* The results of Dominators, which the pass asks for, are taken from the   *)
(* definitions of module Cfg: module Dominators shows that the pass         *)
(* computes them.  A value is named by the instruction that makes it: the   *)
(* value stored by instruction i of block b, or the phi of v in block b.    *)
(*                                                                          *)
(* When the pass has ended, the phase "exec" walks the rewritten function   *)
(* and the original side by side: mem is the memory of the original         *)
(* function, env the values of the phis.  It models no code of the pass;    *)
(* it says what the rewritten function means.                               *)
(****************************************************************************)
EXTENDS Cfg, Sequences

CONSTANTS
  Vars,
  Programs,   \* the functions to rewrite: records of a graph and its code
  Undef,      \* the value of memory nobody has written
  Garbage     \* what back() returns on an empty vector

Op == [op : {"load", "store"}, var : Vars]

ASSUME ProgramsAssumption ==
  \A p \in Programs : /\ p.succ \in [Blocks -> SUBSET Blocks]
                      /\ \A b \in Blocks : p.code[b] \in Seq(Op)

VARIABLES
  prog,       \* the function; no step changes it
  pc,
  frontier, treeSucc,   \* from dominators_
  work,       \* the work lists of generate_phi: pairs <<block, variable>>
  phis,       \* bb_has_var_phi
  calls,      \* active calls of re_name, the innermost last
  at,         \* the instruction the innermost call is at
  valStack,   \* var_val_stack
  seen,       \* the keys of var_val_stack
  repl,       \* what the uses of a replaced load have become
  phiOps,     \* the operand pairs of each phi
  deleted,    \* instructions that delete_instr has taken out
  blk, mem, env

passVars == <<frontier, treeSucc, work, phis>>
callVars == <<calls, at, valStack, seen, repl, phiOps, deleted>>
execVars == <<blk, mem, env>>
vars == <<prog, pc, passVars, callVars, execVars>>

Succ(b) == prog.succ[b]
Code(b) == prog.code[b]
Sites == UNION {{<<b, i>> : i \in 1..Len(Code(b))} : b \in Blocks}
OpAt(l) == Code(l[1])[l[2]]
StoresIn(b, v) == {i \in 1..Len(Code(b)) : Code(b)[i] = [op |-> "store", var |-> v]}
BlocksStoring(v) == {b \in Blocks : StoresIn(b, v) # {}}

StoreVal(b, i) == [kind |-> "store", bb |-> b, id |-> i]
PhiVal(b, v)   == [kind |-> "phi", bb |-> b, id |-> v]
Values == [kind : {"store", "phi"}, bb : Blocks, id : Nat \cup Vars]

ASSUME GarbageAssumption == Garbage \notin Values

Top(s) == s[Len(s)]
Frame == Top(calls)

-------------------------------------------------------------------------------
Init ==
  /\ prog \in Programs
  /\ pc = "start"
  /\ frontier = [b \in Blocks |-> {}] /\ treeSucc = [b \in Blocks |-> {}]
  /\ work = {} /\ phis = {}
  /\ calls = <<>> /\ at = 1
  /\ valStack = [v \in Vars |-> <<>>] /\ seen = {}
  /\ repl = [l \in {} |-> Garbage]
  /\ phiOps = [f \in Blocks \X Vars |-> {}]
  /\ deleted = {}
  /\ blk = Entry
  /\ mem = [v \in Vars |-> Undef]
  /\ env = [f \in Blocks \X Vars |-> Undef]

(* run: dominators_->run(), then step 1 of generate_phi collects the blocks *)
(* that store each variable.                                                *)
CollectStores ==
  /\ pc = "start"
  /\ frontier' = [b \in Blocks |-> Frontier(prog.succ, b)]
  /\ treeSucc' = [b \in Blocks |-> {c \in Reachable(prog.succ) :
                                      IsImmediateDominator(prog.succ, b, c)}]
  /\ work' = {w \in Blocks \X Vars : w[1] \in BlocksStoring(w[2])}
  /\ pc' = "phi"
  /\ UNCHANGED <<prog, phis, callVars, execVars>>

(* Mutant: a block that got a phi does not join the work list. *)
PlacePhis_OneRound ==
  /\ pc = "phi"
  /\ \E w \in work :
       /\ phis' = phis \cup {<<f, w[2]>> : f \in frontier[w[1]]}
       /\ work' = work \ {w}
  /\ UNCHANGED <<prog, pc, frontier, treeSucc, callVars, execVars>>

(* Step 2: a block of the work list gives a phi to each block of its        *)
(* dominance frontier that has none, and those join the work list.          *)
PlacePhis ==
  /\ pc = "phi"
  /\ \E w \in work :
       LET new == {<<f, w[2]>> : f \in frontier[w[1]]} \ phis
       IN  /\ phis' = phis \cup new
           /\ work' = (work \ {w}) \cup new
  /\ UNCHANGED <<prog, pc, frontier, treeSucc, callVars, execVars>>

(* re_name(bb) begins: step 3 pushes the phis of the block. *)
EnterBlock(callers, bb) ==
  /\ calls' = Append(callers, [bb |-> bb, kids |-> treeSucc[bb]])
  /\ at' = 1
  /\ valStack' = [v \in Vars |-> IF <<bb, v>> \in phis
                                 THEN Append(valStack[v], PhiVal(bb, v))
                                 ELSE valStack[v]]
  /\ seen' = seen \cup {v \in Vars : <<bb, v>> \in phis}
  /\ pc' = "instr"
  /\ UNCHANGED <<prog, passVars, repl, phiOps, deleted, execVars>>

StartRename == pc = "phi" /\ work = {} /\ EnterBlock(<<>>, Entry)

CurrentOp == Code(Frame.bb)[at]
AtOp(op) == pc = "instr" /\ at <= Len(Code(Frame.bb)) /\ CurrentOp.op = op

(* Step 4: a load of a variable the map knows is replaced by the top of the *)
(* stack.  back() of an empty vector is undefined behaviour.                *)
RenameLoad ==
  LET v == CurrentOp.var
  IN  /\ AtOp("load")
      /\ IF v \in seen
         THEN repl' = [l \in DOMAIN repl \cup {<<Frame.bb, at>>} |->
                         IF l \in DOMAIN repl THEN repl[l]
                         ELSE IF valStack[v] = <<>> THEN Garbage
                         ELSE Top(valStack[v])]
         ELSE repl' = repl
      /\ at' = at + 1
      /\ UNCHANGED <<prog, pc, passVars, calls, valStack, seen, phiOps, deleted,
                     execVars>>

(* Step 5 *)
RenameStore ==
  LET v == CurrentOp.var
  IN  /\ AtOp("store")
      /\ valStack' = [valStack EXCEPT ![v] = Append(@, StoreVal(Frame.bb, at))]
      /\ seen' = seen \cup {v}
      /\ at' = at + 1
      /\ UNCHANGED <<prog, pc, passVars, calls, repl, phiOps, deleted, execVars>>

(* The phis of the successors that the block has a value for. *)
PhisToFill(b) == {f \in phis : f[1] \in Succ(b) /\ f[2] \in seen}
AtFill == pc = "instr" /\ at > Len(Code(Frame.bb))

(* Mutant: only the phis of the children in the dominator tree are filled. *)
FillPhis_Children ==
  /\ AtFill
  /\ \A f \in PhisToFill(Frame.bb) : valStack[f[2]] # <<>>
  /\ phiOps' = [f \in Blocks \X Vars |->
       IF f \in PhisToFill(Frame.bb) /\ f[1] \in treeSucc[Frame.bb]
       THEN phiOps[f] \cup {<<Top(valStack[f[2]]), Frame.bb>>} ELSE phiOps[f]]
  /\ pc' = "kids"
  /\ UNCHANGED <<prog, passVars, calls, at, valStack, seen, repl, deleted, execVars>>

(* Step 6 *)
FillPhis ==
  /\ AtFill
  /\ \A f \in PhisToFill(Frame.bb) : valStack[f[2]] # <<>>
  /\ phiOps' = [f \in Blocks \X Vars |->
                  IF f \in PhisToFill(Frame.bb)
                  THEN phiOps[f] \cup {<<Top(valStack[f[2]]), Frame.bb>>}
                  ELSE phiOps[f]]
  /\ pc' = "kids"
  /\ UNCHANGED <<prog, passVars, calls, at, valStack, seen, repl, deleted, execVars>>

(* The assertion of line 134 ends the compiler. *)
AssertFails ==
  /\ AtFill
  /\ \E f \in PhisToFill(Frame.bb) : valStack[f[2]] = <<>>
  /\ pc' = "abort"
  /\ UNCHANGED <<prog, passVars, callVars, execVars>>

(* The set of children is ordered by address: any of them may come next. *)
RenameChild ==
  /\ pc = "kids"
  /\ \E c \in Frame.kids :
       EnterBlock([calls EXCEPT ![Len(calls)].kids = @ \ {c}], c)

(* Mutant: step 7 pops once for every instruction of the variable. *)
Pushed_AllOps(b, v) ==
  Cardinality({i \in 1..Len(Code(b)) : Code(b)[i].var = v})
    + (IF <<b, v>> \in phis THEN 1 ELSE 0)

Pushed(b, v) == Cardinality(StoresIn(b, v)) + (IF <<b, v>> \in phis THEN 1 ELSE 0)

(* Mutant: nothing is popped when the call returns. *)
LeaveBlock_KeepStack ==
  /\ pc = "kids" /\ Frame.kids = {}
  /\ deleted' = deleted \cup {l \in Sites : /\ l[1] = Frame.bb
                                            /\ OpAt(l).op = "store" \/ l \in DOMAIN repl}
  /\ calls' = SubSeq(calls, 1, Len(calls) - 1)
  /\ pc' = IF Len(calls) = 1 THEN "alloca" ELSE "kids"
  /\ UNCHANGED <<prog, passVars, at, valStack, seen, repl, phiOps, execVars>>

(* Step 7 pops what the block has pushed, then the renamed instructions go. *)
LeaveBlock ==
  /\ pc = "kids" /\ Frame.kids = {}
  /\ valStack' = [v \in Vars |->
       SubSeq(valStack[v], 1, Len(valStack[v]) - Pushed(Frame.bb, v))]
  /\ deleted' = deleted \cup {l \in Sites : /\ l[1] = Frame.bb
                                            /\ OpAt(l).op = "store" \/ l \in DOMAIN repl}
  /\ calls' = SubSeq(calls, 1, Len(calls) - 1)
  /\ pc' = IF Len(calls) = 1 THEN "alloca" ELSE "kids"
  /\ UNCHANGED <<prog, passVars, at, seen, repl, phiOps, execVars>>

(* remove_alloca; afterwards the function is what the later passes see. *)
RemoveAlloca ==
  /\ pc = "alloca"
  /\ pc' = "exec"
  /\ UNCHANGED <<prog, passVars, callVars, execVars>>

-------------------------------------------------------------------------------
(* What the rewritten function does. *)
Eval(val, e) ==
  IF val = Garbage THEN Garbage
  ELSE IF val.kind = "phi" THEN e[<<val.bb, val.id>>] ELSE val

LastStore(b, v, i) == {j \in StoresIn(b, v) : j < i /\ \A k \in StoresIn(b, v) : k < i => k <= j}

(* The content of v in the original function, before instruction i of b. *)
MemAt(b, v, i) ==
  IF LastStore(b, v, i) = {} THEN mem[v]
  ELSE StoreVal(b, CHOOSE j \in LastStore(b, v, i) : TRUE)

(* Control goes from blk to s: stores have reached memory, and the phis of  *)
(* s take the operand of blk, [undef, blk] where there is none.             *)
Branch ==
  /\ pc = "exec"
  /\ \E s \in Succ(blk) :
       /\ blk' = s
       /\ mem' = [v \in Vars |-> MemAt(blk, v, Len(Code(blk)) + 1)]
       /\ env' = [f \in Blocks \X Vars |->
            IF f[1] # s THEN env[f]
            ELSE IF \E o \in phiOps[f] : o[2] = blk
                 THEN Eval((CHOOSE o \in phiOps[f] : o[2] = blk)[1], env)
                 ELSE Undef]
  /\ UNCHANGED <<prog, pc, passVars, callVars>>

Finished ==
  /\ pc = "abort" \/ (pc = "exec" /\ Succ(blk) = {})
  /\ UNCHANGED vars

Next ==
  \/ CollectStores \/ PlacePhis \/ StartRename
  \/ RenameLoad \/ RenameStore \/ FillPhis \/ AssertFails
  \/ RenameChild \/ LeaveBlock \/ RemoveAlloca
  \/ Branch \/ Finished

Spec == Init /\ [][Next]_vars

-------------------------------------------------------------------------------
(* A stack holds the definitions made by the active calls of re_name and    *)
(* nothing a finished sibling left behind, so that its top is the newest    *)
(* definition that dominates the block (report-phase1.md, line 204).        *)
StackHoldsActiveDefs ==
  pc = "kids" =>
    \A v \in Vars :
      /\ \A i \in 1..Len(valStack[v]) :
           \E j \in 1..Len(calls) : calls[j].bb = valStack[v][i].bb
      /\ \A j \in 1..Len(calls) :
           Cardinality({i \in 1..Len(valStack[v]) : valStack[v][i].bb = calls[j].bb})
             = Pushed(calls[j].bb, v)

(* In the rewritten function a definition dominates its uses: the value     *)
(* that replaces a load comes from the block itself, earlier, or from a     *)
(* dominator, and the operand of a phi from a dominator of the predecessor. *)
DefsDominateUses ==
  pc = "exec" =>
    /\ \A l \in DOMAIN repl : repl[l] # Garbage =>
         LET d == repl[l]
         IN  \/ d.kind = "store" /\ d.bb = l[1] /\ d.id < l[2]
             \/ d.kind = "phi" /\ Dominates(prog.succ, d.bb, l[1])
             \/ StrictlyDominates(prog.succ, d.bb, l[1])
    /\ \A f \in phis : \A o \in phiOps[f] : Dominates(prog.succ, o[1].bb, o[2])

(* A phi has at most one operand per predecessor, none for other blocks,    *)
(* and one for every reachable predecessor that a definition dominates.     *)
PhiOperandsMatchPredecessors ==
  pc = "exec" =>
    \A f \in phis :
      /\ \A o \in phiOps[f] : f[1] \in Succ(o[2])
      /\ \A o1, o2 \in phiOps[f] : o1[2] = o2[2] => o1 = o2
      /\ \A p \in Preds(prog.succ, f[1]) \cap Reachable(prog.succ) :
           (\E b \in Blocks : Pushed(b, f[2]) > 0 /\ Dominates(prog.succ, b, p))
             => \E o \in phiOps[f] : o[2] = p

(* What is left of the function is in SSA form. *)
SSAForm == DefsDominateUses /\ PhiOperandsMatchPredecessors

(* The rewritten function computes what the original does: along every      *)
(* execution, the value that stands for a load is the content of memory at  *)
(* that load; a load that was kept, or reads garbage, is one that the       *)
(* original executes on unwritten memory only.                              *)
LoadsSeeMemory ==
  pc = "exec" =>
    \A i \in 1..Len(Code(blk)) :
      Code(blk)[i].op = "load" =>
        LET content == MemAt(blk, Code(blk)[i].var, i)
        IN  \/ content = Undef
            \/ <<blk, i>> \in DOMAIN repl /\ Eval(repl[<<blk, i>>], env) = content

(* The function writes each variable in its entry block before it reads it, *)
(* as every function does with its parameters.                              *)
WritesBeforeReads ==
  \A v \in Vars : \E i \in StoresIn(Entry, v) :
     \A j \in 1..(i - 1) : Code(Entry)[j].var # v

(* Such a function is renamed without tripping the assertion of line 134    *)
(* and without reading an empty stack, and none of its loads and stores is  *)
(* left behind for the allocas that remove_alloca takes away.               *)
InitialisedIsSafe ==
  WritesBeforeReads =>
    /\ pc # "abort"
    /\ \A l \in DOMAIN repl : repl[l] # Garbage
    /\ pc = "exec" => \A l \in Sites : l[1] \in Reachable(prog.succ) => l \in deleted

(* report-phase1.md, line 295 and the comment of line 138: a phi whose      *)
(* variable has no value on the stack gets the operand [undef, bb].  So the *)
(* pass never dies there.                                                   *)
MissingOperandIsUndef == pc # "abort"

-------------------------------------------------------------------------------
(****************************************************************************)
(* The invariants that Mem2Reg_proofs proves.                               *)
(****************************************************************************)
G == prog.succ
End(b) == Len(Code(b)) + 1
ActiveBlocks == {calls[j].bb : j \in 1..Len(calls)}

(* The definitions of v: its stores, and the phis it has got so far. *)
Defs(v) == {StoreVal(l[1], l[2]) : l \in {m \in Sites : m[2] \in StoresIn(m[1], v)}}
             \cup {PhiVal(f[1], v) : f \in {h \in phis : h[2] = v}}

(* The phis of a block come before its instructions. *)
Place(d) == IF d.kind = "phi" THEN 0 ELSE d.id

(* Definition d has been executed whenever instruction i of b is. *)
Before(d, b, i) == StrictlyDominates(G, d.bb, b) \/ (d.bb = b /\ Place(d) < i)
Available(v, b, i) == {d \in Defs(v) : Before(d, b, i)}

(* d is the last of them to be executed. *)
Nearest(d, v, b, i) ==
  /\ d \in Available(v, b, i)
  /\ \A e \in Available(v, b, i) \ {d} : Before(e, d.bb, Place(d))

(* s holds the definitions of v that are available, the nearest one on top. *)
Stacked(s, v, b, i) ==
  /\ {s[k] : k \in 1..Len(s)} = Available(v, b, i)
  /\ \A m \in 1..Len(s) : \A k \in 1..(m - 1) : Before(s[k], s[m].bb, Place(s[m]))

TypeInv ==
  /\ prog \in Programs
  /\ pc \in {"start", "phi", "instr", "kids", "abort", "alloca", "exec"}
  /\ pc # "start" =>
       /\ frontier = [b \in Blocks |-> Frontier(G, b)]
       /\ treeSucc = [b \in Blocks |-> {c \in Reachable(G) : IsImmediateDominator(G, b, c)}]
  /\ work \subseteq Blocks \X Vars /\ phis \subseteq Reachable(G) \X Vars
  /\ valStack \in [Vars -> Seq(Values)]
  /\ \A v \in Vars : valStack[v] # <<>> => v \in seen
  /\ DOMAIN repl \subseteq Sites
  /\ DOMAIN phiOps = Blocks \X Vars

(* Where a definition's dominance ends there is a phi, or will be. *)
PhiInv ==
  /\ pc = "start" => phis = {}
  /\ pc = "phi" =>
       \A b \in Blocks, v \in Vars :
         StoresIn(b, v) # {} \/ <<b, v>> \in phis =>
           <<b, v>> \in work \/ \A y \in Frontier(G, b) : <<y, v>> \in phis
  /\ pc \notin {"start", "phi"} =>
       \A v \in Vars : \A d \in Defs(v) : \A y \in Frontier(G, d.bb) : <<y, v>> \in phis

(* The active calls are a path of the dominator tree from the entry: their  *)
(* blocks are the dominators of the innermost one.                          *)
CallInv ==
  /\ calls \in Seq([bb : Reachable(G), kids : SUBSET Reachable(G)])
  /\ calls = <<>> <=> pc \in {"start", "phi", "alloca", "exec"}
  /\ \A j \in 1..Len(calls) :
       /\ \A k \in calls[j].kids : IsImmediateDominator(G, calls[j].bb, k)
       /\ j > 1 => IsImmediateDominator(G, calls[j - 1].bb, calls[j].bb)
       /\ {e \in Blocks : Dominates(G, e, calls[j].bb)} = {calls[i].bb : i \in 1..j}
  /\ pc \in {"instr", "abort"} => at \in 1..End(Frame.bb)

StackInv ==
  \A v \in Vars :
    /\ pc \in {"start", "phi"} => valStack[v] = <<>>
    /\ pc \in {"instr", "abort"} => Stacked(valStack[v], v, Frame.bb, at)
    /\ pc = "kids" => Stacked(valStack[v], v, Frame.bb, End(Frame.bb))

(* The renaming has yet to come to b. *)
Waiting(b) ==
  \/ pc \in {"start", "phi"}
  \/ \E j \in 1..Len(calls) : \E k \in calls[j].kids : Dominates(G, k, b)

(* It has gone past instruction i of b, or past all of them. *)
Passed(b, i) ==
  /\ b \in Reachable(G) /\ ~Waiting(b)
  /\ pc \in {"instr", "abort"} /\ b = Frame.bb => i < at

(* A replaced load has become the nearest definition, and is kept, or reads *)
(* an empty stack, only where there is none.                                *)
ReplInv ==
  /\ pc \in {"start", "phi"} => DOMAIN repl = {}
  /\ \A l \in DOMAIN repl :
       /\ l[1] \in Reachable(G) /\ OpAt(l).op = "load"
       /\ \/ repl[l] = Garbage /\ Available(OpAt(l).var, l[1], l[2]) = {}
          \/ Nearest(repl[l], OpAt(l).var, l[1], l[2])
  /\ \A l \in Sites : /\ OpAt(l).op = "load" /\ Passed(l[1], l[2])
                       /\ Available(OpAt(l).var, l[1], l[2]) # {}
                       => l \in DOMAIN repl

(* The operand of a phi for p is the nearest definition at the end of p,    *)
(* and it is missing only where there is none.                              *)
OperandInv ==
  /\ pc \in {"start", "phi"} => \A f \in Blocks \X Vars : phiOps[f] = {}
  /\ \A f \in phis :
       /\ \A o \in phiOps[f] :
            /\ o = <<o[1], o[2]>> /\ o[2] \in Reachable(G) /\ f[1] \in Succ(o[2])
            /\ Nearest(o[1], f[2], o[2], End(o[2]))
       /\ \A p \in Blocks :
            /\ f[1] \in Succ(p) /\ Passed(p, End(p))
            /\ Available(f[2], p, End(p)) # {}
            => \E o \in phiOps[f] : o[2] = p

(* A block the renaming has left has lost its stores and its renamed loads. *)
DeletedInv ==
  \A l \in Sites :
    /\ l[1] \in Reachable(G) \ ActiveBlocks /\ ~Waiting(l[1])
    /\ OpAt(l).op = "store" \/ l \in DOMAIN repl
    => l \in deleted

(* The definition nearest to the start of a block has the value that the    *)
(* original function has in memory there; where there is none, nothing has  *)
(* been written.                                                            *)
ExecInv ==
  /\ blk \in Reachable(G)
  /\ pc # "exec" => blk = Entry /\ mem = [v \in Vars |-> Undef]
                                /\ env = [f \in Blocks \X Vars |-> Undef]
  /\ pc = "exec" =>
       \A v \in Vars :
         /\ Available(v, blk, 1) = {} => mem[v] = Undef
         /\ \A d \in Defs(v) : Nearest(d, v, blk, 1) => Eval(d, env) = mem[v]

RenameInv ==
  /\ TypeInv /\ PhiInv /\ CallInv /\ StackInv
  /\ ReplInv /\ OperandInv /\ DeletedInv /\ ExecInv
================================================================================

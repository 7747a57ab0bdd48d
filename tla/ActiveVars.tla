------------------------------- MODULE ActiveVars -------------------------------
(****************************************************************************)
(* ActiveVars::run on one function (src/optimization/ActiveVars.cpp): the   *)
(* values that are live where a block begins and where it ends.             *)
(*                                                                          *)
(* Values are the ones initset counts: the arguments, the results of        *)
(* instructions, and the globals that loads, stores and getelementptr name. *)
(* An instruction is the value it defines, its operands among Values and,   *)
(* if it is a phi, the pairs of a predecessor and the operand that comes    *)
(* from it.                                                                 *)
(****************************************************************************)
EXTENDS Cfg, Sequences

CONSTANTS
  Values,
  None,       \* what an instruction without result defines
  Programs    \* the functions to analyse: records of a graph and its code

Instruction == [def : Values \cup {None}, ops : SUBSET Values, from : SUBSET (Blocks \X Values)]

ASSUME NoneAssumption == None \notin Values
(* A value is the instruction that defines it, so a block defines it once;  *)
(* the operands of a phi are those of its pairs.                            *)
WellFormed(code) ==
  \A i \in 1..Len(code) :
     /\ code[i].from # {} => code[i].ops = {pair[2] : pair \in code[i].from}
     /\ \A j \in 1..Len(code) : code[i].def = code[j].def /\ code[i].def # None => i = j

ASSUME ProgramsAssumption ==
  \A p \in Programs : /\ p.succ \in [Blocks -> SUBSET Blocks]
                      /\ p.code \in [Blocks -> Seq(Instruction)]
                      /\ \A b \in Blocks : WellFormed(p.code[b])

VARIABLES
  prog,               \* the function; no step changes it
  pc,
  live_in, live_out,
  todo,               \* the blocks this sweep has still to visit
  rescan

vars == <<prog, pc, live_in, live_out, todo, rescan>>

Succ(b) == prog.succ[b]
Code(b) == prog.code[b]

-------------------------------------------------------------------------------
(****************************************************************************)
(* initset                                                                  *)
(****************************************************************************)
(* The sets used and defed when the scan of the block stands at i. *)
Used(b, i)  == UNION {Code(b)[j].ops : j \in 1..i}
Defed(b, i) == {Code(b)[j].def : j \in 1..(i - 1)}

use_set(b) == UNION {Code(b)[i].ops \ Defed(b, i) : i \in 1..Len(Code(b))}

(* Mutant: a value the block reads before counts as defined. *)
def_set_Read(b) == {v \in Values : \E i \in 1..Len(Code(b)) : Code(b)[i].def = v}

def_set(b) ==
  {v \in Values : \E i \in 1..Len(Code(b)) : Code(b)[i].def = v /\ v \notin Used(b, i)}

phi_op_pair(b) == UNION {Code(b)[i].from : i \in 1..Len(Code(b))}
phi_op(b)      == {pair[2] : pair \in phi_op_pair(b)}

Init ==
  /\ prog \in Programs
  /\ pc = "init"
  /\ live_in = [b \in Blocks |-> {}]
  /\ live_out = [b \in Blocks |-> {}]
  /\ todo = {}
  /\ rescan = FALSE

InitSets ==
  /\ pc = "init"
  /\ pc' = "sweep"
  /\ live_in' = [b \in Blocks |-> use_set(b)]
  /\ todo' = Blocks
  /\ UNCHANGED <<prog, live_out, rescan>>

-------------------------------------------------------------------------------
(****************************************************************************)
(* The sweeps of run                                                        *)
(****************************************************************************)
(* Mutant: the operands of phis pass on every edge. *)
FromSucc_AllOps(b, s) == live_in[s]

(* What live_out(b) takes from a successor: an operand of a phi of s only   *)
(* if it comes from b.  live_in(b) itself is empty at that moment, so a     *)
(* block that branches to itself gets nothing by that edge.                 *)
FromSucc(b, s) ==
  {v \in live_in[s] : v \in phi_op(s) => <<b, v>> \in phi_op_pair(s)}

Out(b) == UNION {FromSucc(b, s) : s \in Succ(b) \ {b}}
In(b)  == (Out(b) \cup use_set(b)) \ def_set(b)

VisitBlock(b) ==
  /\ pc = "sweep" /\ b \in todo
  /\ live_out' = [live_out EXCEPT ![b] = Out(b)]
  /\ live_in' = [live_in EXCEPT ![b] = In(b)]
  /\ rescan' = (rescan \/ In(b) # live_in[b])
  /\ todo' = todo \ {b}
  /\ UNCHANGED <<prog, pc>>

(* Mutant: the flag is never taken back. *)
Rescan_KeepFlag ==
  /\ pc = "sweep" /\ todo = {} /\ rescan
  /\ todo' = Blocks
  /\ UNCHANGED <<prog, pc, live_in, live_out, rescan>>

Rescan ==
  /\ pc = "sweep" /\ todo = {} /\ rescan
  /\ todo' = Blocks /\ rescan' = FALSE
  /\ UNCHANGED <<prog, pc, live_in, live_out>>

(* Mutant: one sweep is taken to be enough. *)
EndSweeps_OneSweep ==
  /\ pc = "sweep" /\ todo = {}
  /\ pc' = "done"
  /\ UNCHANGED <<prog, live_in, live_out, todo, rescan>>

(* The maps lose their empty entries, the same sets, and are printed. *)
EndSweeps ==
  /\ pc = "sweep" /\ todo = {} /\ ~rescan
  /\ pc' = "done"
  /\ UNCHANGED <<prog, live_in, live_out, todo, rescan>>

Finished == pc = "done" /\ UNCHANGED vars

Next == InitSets \/ (\E b \in Blocks : VisitBlock(b)) \/ Rescan \/ EndSweeps \/ Finished

Spec == Init /\ [][Next]_vars
FairSpec == Spec /\ WF_vars(Next)

-------------------------------------------------------------------------------
(****************************************************************************)
(* Liveness of values along paths                                           *)
(****************************************************************************)
DefinedIn(s) == {Code(s)[i].def : i \in 1..Len(Code(s))}

(* Read by an instruction of s that is not a phi, before s defines them. *)
ReadFirst(s) ==
  UNION {Code(s)[i].ops \ Defed(s, i) : i \in {j \in 1..Len(Code(s)) : Code(s)[j].from = {}}}

(* E holds every block at whose end v is needed: on an edge to a block that *)
(* reads v, to a phi that takes v on this edge, or to a block that leaves v *)
(* alone and is in E itself.                                                *)
ClosedUnderNeed(E, v) ==
  \A b \in Blocks : \A s \in Succ(b) :
     \/ v \in ReadFirst(s)
     \/ <<b, v>> \in phi_op_pair(s)
     \/ s \in E /\ v \notin DefinedIn(s)
     => b \in E

NeededAfter(v) == {b \in Blocks : \A E \in SUBSET Blocks : ClosedUnderNeed(E, v) => b \in E}

(* The values needed inside or after s when s begins, the operands of its   *)
(* phis aside.                                                              *)
NeededIn(s) ==
  ReadFirst(s) \cup {v \in Values \ DefinedIn(s) : s \in NeededAfter(v)}

(* lab5/README.md, line 98: v is live out of b on the edges on which it is  *)
(* needed, an operand of a phi only on the edge it comes along.             *)
LiveOut(b) == {v \in Values : b \in NeededAfter(v)}
LiveIn(b)  == phi_op(b) \cup NeededIn(b)

-------------------------------------------------------------------------------
(****************************************************************************)
(* Properties                                                               *)
(****************************************************************************)
TypeOK ==
  /\ pc \in {"init", "sweep", "done"}
  /\ live_in \in [Blocks -> SUBSET Values]
  /\ live_out \in [Blocks -> SUBSET Values]
  /\ todo \subseteq Blocks
  /\ rescan \in BOOLEAN

(* Nothing is ever reported live that no path needs: in every state of the  *)
(* sweeps the sets stay within the values needed later, so the operand of a *)
(* phi never leaks into the predecessors it does not come from.             *)
NothingDeadIsLive ==
  \A b \in Blocks : live_in[b] \subseteq LiveIn(b) /\ live_out[b] \subseteq LiveOut(b)

(* The analysis misses nothing when it ends (the sweeps may stop only at a  *)
(* fixpoint, whatever the order of the block list), for functions in which  *)
(* no block branches to itself, no join needs the operand of one of its     *)
(* phis for anything else, and no phi reads an earlier phi of its block.    *)
PhiOperandsOnlyInPhis ==
  \A s \in Blocks :
     /\ s \notin Succ(s)
     /\ phi_op(s) \cap NeededIn(s) = {}
     /\ \A i \in 1..Len(Code(s)) : Code(s)[i].from # {} => Code(s)[i].ops \cap Defed(s, i) = {}

NothingLiveIsMissed ==
  pc = "done" /\ PhiOperandsOnlyInPhis =>
    \A b \in Blocks : LiveIn(b) \subseteq live_in[b] /\ LiveOut(b) \subseteq live_out[b]

(* live_in is cleared and computed anew at each visit, yet a value found    *)
(* live in once stays: rescan compares with the value before, and sweeps    *)
(* that could lose values would not have to end.                            *)
LiveInGrows == [][pc = "sweep" => \A b \in Blocks : live_in[b] \subseteq live_in'[b]]_vars

(* The sweeps end. *)
Terminates == <>(pc = "done")

-------------------------------------------------------------------------------
(****************************************************************************)
(* The inductive invariant.                                                 *)
(****************************************************************************)
(* A sweep can only add to live_in, and what a sweep without change has     *)
(* visited satisfies the equations.                                         *)
Settled(b) == live_in[b] = In(b) /\ live_out[b] = Out(b)

SweepInv ==
  /\ pc = "sweep" => \A b \in Blocks : live_in[b] \subseteq In(b)
  /\ pc = "sweep" /\ ~rescan => \A b \in Blocks \ todo : Settled(b)
  /\ pc = "done" => \A b \in Blocks : Settled(b)

IInv == TypeOK /\ prog \in Programs /\ NothingDeadIsLive /\ SweepInv
================================================================================

--------------------------- MODULE CommonSubExper ---------------------------
(***************************************************************************)
(* CommonSubExper.cpp: repeated arithmetic, addresses and loads are        *)
(* replaced by the first one, in the blocks of a function one after the    *)
(* other, with what the predecessors already visited have computed.        *)
(*                                                                         *)
(* The eight maps of the class (by the kind of operands) are one function  *)
(* avail from keys to instructions; saved[b] is what visiting b left.      *)
(* The function being rewritten is code, for each instruction that is left *)
(* its operands, and phis, for each phi its pairs; the walk passes over    *)
(* the phis.  When the pass has ended, phase "exec" runs code, with ghost  *)
(* the registers the original function would have by then.                 *)
(***************************************************************************)
EXTENDS Integers, Sequences, FiniteSets

CONSTANTS Programs, Arith(_, _)

(* An instruction is in one place, the block list names a block once, and  *)
(* a function that is only declared has no body.                           *)
ASSUME ProgramsAssumption ==
  \A p \in Programs :
    /\ p.list \in Seq(DOMAIN p.code)
    /\ \A i, j \in DOMAIN p.list : p.list[i] = p.list[j] => i = j
    /\ \A b \in DOMAIN p.code : p.code[b] \in Seq({p.code[b][k] : k \in DOMAIN p.code[b]})
    /\ \A b \in DOMAIN p.code : \A k \in DOMAIN p.code[b] :
         LET n == p.code[b][k]
         IN  n = [id |-> n.id, kind |-> n.kind, x |-> n.x, y |-> n.y]
    /\ \A a, b \in DOMAIN p.code : \A j \in DOMAIN p.code[a], k \in DOMAIN p.code[b] :
         p.code[a][j].id = p.code[b][k].id => a = b /\ j = k
    /\ \A w \in DOMAIN p.phis :
         LET from == p.phis[w].from IN from = [a \in DOMAIN from |-> from[a]]
    /\ \A f \in DOMAIN p.funs :
         /\ p.funs[f].external \in BOOLEAN /\ p.funs[f].args \in BOOLEAN
         /\ p.funs[f].main \in BOOLEAN
         /\ p.funs[f].external => p.funs[f].stores = {} /\ p.funs[f].calls = {}
         /\ p.funs[f].stores \subseteq {"S", "G", "A", "L"}

VARIABLES prog, phase, sideEffect, todo, pos, avail, waitDelete, saved, code, phis,
          at, regs, ghost, mem, result

passVars == <<phase, sideEffect, todo, pos, avail, waitDelete, saved, code, phis>>
runVars  == <<at, regs, ghost, mem, result>>
vars     == <<prog, passVars, runVars>>

Original == INSTANCE Execution WITH regs <- ghost

(* Every way from the first block to b leads through d: the blocks that    *)
(* are reached without it are in a set that does not hold b.               *)
Dominates(p, d, b) ==
  \E S \in SUBSET (DOMAIN p.code \ {d}) :
    p.list[1] \in S \cup {d} /\ (\A c \in S : p.succs[c] \subseteq S \cup {d}) /\ b \notin S

(* Block a stands before block b in the list.                              *)
Listed(p, a, b) ==
  \E i, j \in DOMAIN p.list : i < j /\ p.list[i] = a /\ p.list[j] = b

(* The predecessors of a block that stand before it                        *)
Earlier(p, b) == {a \in DOMAIN p.succs : b \in p.succs[a] /\ Listed(p, a, b)}

(* Where two paths meet that both stand before: after if (a) .. and after  *)
(* an access to an array, whose index is tested.  The pass hangs there     *)
(* (CommonSubExper.cpp:257) and no rewritten function comes out.           *)
Joins(p) == {b \in DOMAIN p.code : \E a, c \in Earlier(p, b) : a # c}

(* Every block can be reached.  If just one predecessor of a block stands  *)
(* before it, all ways to the block lead through that one: the pass trusts *)
(* it, whatever comes later (CommonSubExper.cpp:237).  It is wrong to for  *)
(* if (a) while (b) ..; else ..; since the join follows the else branch    *)
(* and precedes the loop; such functions are left out.                     *)
IsFlow(p) ==
  LET blocks == DOMAIN p.code
  IN  /\ p.list # <<>> /\ blocks = {p.list[i] : i \in DOMAIN p.list}
      /\ p.succs \in [blocks -> SUBSET blocks]
      /\ \A S \in SUBSET blocks :
           p.list[1] \in S /\ (\A c \in S : p.succs[c] \subseteq S) => S = blocks
      /\ \A a, b \in blocks : Earlier(p, b) = {a} => Dominates(p, a, b)

(* An operand is computed before it is read: further up in the block, or   *)
(* in a block that dominates it; for a phi, by the end of the block it     *)
(* comes from.                                                             *)
InSSA(p) ==
  LET In(x, b) == \E j \in DOMAIN p.code[b] : p.code[b][j].id = x
  IN  /\ \A b, c \in DOMAIN p.code : \A k \in DOMAIN p.code[b], j \in DOMAIN p.code[c] :
           p.code[c][j].id \in {p.code[b][k].x, p.code[b][k].y} =>
             IF c = b THEN j < k ELSE Dominates(p, c, b)
      /\ \A w \in DOMAIN p.phis :
           /\ \A b \in DOMAIN p.code \ {p.phis[w].block} : \A k \in DOMAIN p.code[b] :
                w \in {p.code[b][k].x, p.code[b][k].y} => Dominates(p, p.phis[w].block, b)
           /\ \A a \in DOMAIN p.phis[w].from : \A c \in DOMAIN p.code \ {a} :
                In(p.phis[w].from[a], c) => Dominates(p, c, a)

(* The block an operand is computed in stands before the one that reads    *)
(* it.  After if (a) while (b) x = ..; else return; it does not: the rest  *)
(* precedes the loop.                                                      *)
OperandsListed(p) ==
  \A b, c \in DOMAIN p.code : \A k \in DOMAIN p.code[b], j \in DOMAIN p.code[c] :
    p.code[c][j].id \in {p.code[b][k].x, p.code[b][k].y} => c = b \/ Listed(p, c, b)

Instructions(p) == UNION {{p.code[b][k] : k \in DOMAIN p.code[b]} : b \in DOMAIN p.code}

(* The same operand for the reader of the program: the same object, or     *)
(* constants of one value.  Each constant in the source is an object of    *)
(* its own (Constant.cpp:6).                                               *)
Alike(p, x, y) ==
  x = y \/ ({x, y} \subseteq DOMAIN p.value /\ p.value[x] = p.value[y])

(* Memory is read and written at S or at the result of a gep.  What        *)
(* LoopInvHoist moves is neither; "cmp" is whatever else is computed.      *)
IsInstruction(p, n) ==
  LET IsPlace(x) == x = "S" \/ \E i \in Instructions(p) : i.id = x /\ i.kind = "gep"
  IN  /\ n.kind \in {"op", "cmp", "gep", "load", "store", "call", "ret"}
      /\ n.kind = "gep" => n.x \in {"G", "L", "A"}
      /\ n.kind = "load" => IsPlace(n.x)
      /\ n.kind = "store" => IsPlace(n.y)
      /\ n.kind = "call" => n.x \in DOMAIN p.funs
      /\ n.id \in p.moved => n.kind \in {"op", "cmp", "gep"}

(* The pass does not look at main, whatever main does.                     *)
Seen(funs) ==
  [f \in DOMAIN funs |->
     IF funs[f].main THEN [external |-> FALSE, main |-> TRUE, args |-> funs[f].args,
                           stores |-> {}, calls |-> {}]
     ELSE funs[f]]

(* The functions the pass is given.                                        *)
ASSUME FunctionsAssumption ==
  \A p \in Programs :
    /\ IsFlow(p)
    /\ p.alias \in {"A", "G"}
    /\ DOMAIN p.phis \cap Original!Ids(p) = {}
    /\ (DOMAIN p.funs \cup {"S", "G", "L", "A"}) \cap (Original!Ids(p) \cup DOMAIN p.phis) = {}
    /\ DOMAIN p.value \cap ({"S", "G", "L", "A"} \cup Original!Ids(p) \cup DOMAIN p.phis) = {}
    /\ \A n \in Instructions(p) : IsInstruction(p, n)

(* Those it rewrites, if two further things hold.  No call leads to a main *)
(* that changes memory: a load would be taken over across it.  And what    *)
(* two geps on the array argument read behind their last operand differs   *)
(* if their indices do (CommonSubExper.cpp:120 does not look at them).     *)
ASSUME RewrittenAssumption ==
  \A p \in Programs : Joins(p) = {} =>
    LET calls == {n \in Instructions(p) : n.kind = "call"}
        geps  == {n \in Instructions(p) : n.kind = "gep" /\ n.x = "A"}
    IN  /\ InSSA(p)
        /\ \A n \in calls : n.x \in Original!Writers(p.funs) => n.x \in Original!Writers(Seen(p.funs))
        /\ \A m, n \in geps : Alike(p, p.beyond[m.id], p.beyond[n.id]) => Alike(p, m.y, n.y)

Empty == [key \in {} |-> key]

Preds(b) == {a \in DOMAIN prog.succs : b \in prog.succs[a]}

isLocalStore(base) == base = "L"

StoringFuncs(p) ==
  {f \in DOMAIN p.funs : IF p.funs[f].external \/ p.funs[f].main THEN p.funs[f].args
                         ELSE \E base \in p.funs[f].stores : ~isLocalStore(base)}

(* The instruction called x                                                *)
Written(x) == CHOOSE n \in Instructions(prog) : n.id = x

Init ==
  /\ prog \in Programs
  /\ phase = "effects"
  /\ sideEffect = StoringFuncs(prog)
  /\ todo = prog.list /\ pos = 0
  /\ avail = Empty /\ waitDelete = {} /\ saved = Empty
  /\ code = [id \in Original!Ids(prog) |-> Written(id)] /\ phis = Original!From(prog)
  /\ Original!Init /\ regs = ghost

---------------------------------------------------------------------------
(* InitSideEffectFunc                                                      *)

(* Their calls are in call_list.                                           *)
Walked(f) == ~prog.funs[f].external /\ ~prog.funs[f].main

(* Mutant: callers of callers are not found. *)
EndSideEffects_OneRound ==
  /\ phase = "effects"
  /\ \A f \in DOMAIN prog.funs \ sideEffect :
       Walked(f) => prog.funs[f].calls \cap StoringFuncs(prog) = {}
  /\ phase' = "enter"
  /\ UNCHANGED <<prog, sideEffect, todo, pos, avail, waitDelete, saved, code, phis, runVars>>

(* One call of call_list: the caller has what the callee has.              *)
PropagateSideEffect ==
  /\ phase = "effects"
  /\ \E f \in DOMAIN prog.funs \ sideEffect :
       /\ Walked(f)
       /\ prog.funs[f].calls \cap sideEffect # {}
       /\ sideEffect' = sideEffect \cup {f}
  /\ UNCHANGED <<prog, phase, todo, pos, avail, waitDelete, saved, code, phis, runVars>>

EndSideEffects ==
  /\ phase = "effects"
  /\ \A f \in DOMAIN prog.funs \ sideEffect :
       Walked(f) => prog.funs[f].calls \cap sideEffect = {}
  /\ phase' = "enter"
  /\ UNCHANGED <<prog, sideEffect, todo, pos, avail, waitDelete, saved, code, phis, runVars>>

---------------------------------------------------------------------------
(* InitSets: loads are taken over only if every predecessor was visited.   *)

Processed(b) == {a \in Preds(b) \ {b} : a \in DOMAIN saved}

Inherited(b) ==
  IF Processed(b) = {} THEN Empty
  ELSE LET before == saved[CHOOSE a \in Processed(b) : TRUE]
           kept   == {key \in DOMAIN before : key[1] = "load" => Processed(b) = Preds(b)}
       IN  [key \in kept |-> before[key]]

InitSets ==
  /\ phase = "enter" /\ todo # <<>>
  /\ Cardinality(Processed(Head(todo))) < 2
  /\ avail' = Inherited(Head(todo))
  /\ phase' = "visit" /\ pos' = 1
  /\ UNCHANGED <<prog, sideEffect, todo, waitDelete, saved, code, phis, runVars>>

(* With two predecessors visited the loop over them does not advance.      *)
InitSetsHangs ==
  /\ phase = "enter" /\ todo # <<>>
  /\ Cardinality(Processed(Head(todo))) > 1
  /\ phase' = "hung"
  /\ UNCHANGED <<prog, sideEffect, todo, pos, avail, waitDelete, saved, code, phis, runVars>>

---------------------------------------------------------------------------
(* CommonSubExperDelete                                                    *)

IsConstant(x) == x \in DOMAIN prog.value

(* A gep on an array argument has two operands and the third one is read:  *)
(* prog.beyond is what lies there.                                         *)
Index(n) == IF n.x = "A" THEN prog.beyond[n.id] ELSE n.y

(* A constant counts by its value, but the right operand of an expression  *)
(* whose left one is constant by its object.                               *)
KeyOf(n) ==
  CASE n.kind = "op" /\ IsConstant(n.x) -> <<"left", prog.value[n.x], n.y>>
    [] n.kind = "op" /\ ~IsConstant(n.x) /\ IsConstant(n.y) -> <<"right", n.x, prog.value[n.y]>>
    [] n.kind = "op" /\ ~IsConstant(n.x) /\ ~IsConstant(n.y) -> <<"op", n.x, n.y>>
    [] n.kind = "gep" /\ IsConstant(Index(n)) -> <<"element", n.x, prog.value[Index(n)]>>
    [] n.kind = "gep" /\ ~IsConstant(Index(n)) -> <<"gep", n.x, Index(n)>>
    [] n.kind = "load" -> <<"load", n.x>>

(* A deleted gep still is one for who holds it.                            *)
IsGep(x) == x \in Original!Ids(prog) /\ Written(x).kind = "gep"

isArgArrayPtr(x) == IsGep(x) /\ Written(x).x = "A"

isGlobalArgArrayPtr(x) == IsGep(x) /\ Written(x).x \in {"A", "G"}

isEqualFirstPtr(x, y) == x = y \/ (IsGep(x) /\ IsGep(y) /\ Written(x).x = Written(y).x)

(* Mutant: an array argument is nobody else's array. *)
Overwritten_NoArgs(x, p) ==
  IF ~isGlobalArgArrayPtr(p) THEN isEqualFirstPtr(x, p)
  ELSE isEqualFirstPtr(x, p)

Overwritten(x, p) ==
  CASE ~isGlobalArgArrayPtr(p) -> isEqualFirstPtr(x, p)
    [] isArgArrayPtr(p)        -> isGlobalArgArrayPtr(x)
    [] OTHER                   -> isArgArrayPtr(x) \/ isEqualFirstPtr(x, p)

Loaded == {key[2] : key \in {k \in DOMAIN avail : k[1] = "load"}}

Without(pointers) ==
  [key \in DOMAIN avail \ ({"load"} \X pointers) |-> avail[key]]

(* Mutant: only users in the block at hand. *)
Replaced_InBlock(old, new) ==
  LET here == {prog.code[Head(todo)][k].id : k \in DOMAIN prog.code[Head(todo)]}
  IN  [id \in DOMAIN code |->
         IF id \in prog.moved \/ id \notin here THEN code[id]
         ELSE [code[id] EXCEPT !.x = IF @ = old THEN new ELSE @,
                               !.y = IF @ = old THEN new ELSE @]]

(* replace_all_use_with writes where the use list says.  An instruction    *)
(* that LoopInvHoist has moved before (prog.moved) is in none: delete_instr *)
(* took it out, and add_instruction did not enter it again.                *)
Replaced(old, new) ==
  [id \in DOMAIN code |->
     IF id \in prog.moved THEN code[id]
     ELSE [code[id] EXCEPT !.x = IF @ = old THEN new ELSE @,
                           !.y = IF @ = old THEN new ELSE @]]

RenamedIn(from, old, new) == [a \in DOMAIN from |-> IF from[a] = old THEN new ELSE from[a]]

Current == code[prog.code[Head(todo)][pos].id]

Visiting == phase = "visit" /\ pos \in DOMAIN prog.code[Head(todo)]

Known == KeyOf(Current) \in DOMAIN avail

Reuse ==
  /\ Visiting /\ Current.kind \in {"op", "gep", "load"} /\ Known
  /\ LET same == avail[KeyOf(Current)]
     IN  /\ code' = Replaced(Current.id, same)
         /\ phis' = [w \in DOMAIN phis |-> RenamedIn(phis[w], Current.id, same)]
  /\ waitDelete' = waitDelete \cup {Current.id}
  /\ pos' = pos + 1
  /\ UNCHANGED <<prog, phase, sideEffect, todo, avail, saved, runVars>>

(* Mutant: loads of scalars are not entered. *)
Remember_NotLoads ==
  /\ Visiting /\ Current.kind \in {"op", "gep", "load"} /\ ~Known
  /\ avail' = [key \in DOMAIN avail \cup ({KeyOf(Current)} \ {<<"load", "S">>}) |->
                 IF key = KeyOf(Current) THEN Current.id ELSE avail[key]]
  /\ pos' = pos + 1
  /\ UNCHANGED <<prog, phase, sideEffect, todo, waitDelete, saved, code, phis, runVars>>

Remember ==
  /\ Visiting /\ Current.kind \in {"op", "gep", "load"} /\ ~Known
  /\ avail' = [key \in DOMAIN avail \cup {KeyOf(Current)} |->
                 IF key = KeyOf(Current) THEN Current.id ELSE avail[key]]
  /\ pos' = pos + 1
  /\ UNCHANGED <<prog, phase, sideEffect, todo, waitDelete, saved, code, phis, runVars>>

(* What lies there may also be no value at all.                            *)
ReadBeyondFails ==
  /\ Visiting /\ Current.kind = "gep" /\ Current.x = "A"
  /\ phase' = "crashed"
  /\ UNCHANGED <<prog, sideEffect, todo, pos, avail, waitDelete, saved, code, phis, runVars>>

Store ==
  /\ Visiting /\ Current.kind = "store"
  /\ avail' = Without({x \in Loaded : Overwritten(x, Current.y)})
  /\ pos' = pos + 1
  /\ UNCHANGED <<prog, phase, sideEffect, todo, waitDelete, saved, code, phis, runVars>>

Call ==
  /\ Visiting /\ Current.kind = "call"
  /\ avail' = IF Current.x \in sideEffect THEN Without(Loaded) ELSE avail
  /\ pos' = pos + 1
  /\ UNCHANGED <<prog, phase, sideEffect, todo, waitDelete, saved, code, phis, runVars>>

Pass ==
  /\ Visiting /\ Current.kind \in {"cmp", "ret"}
  /\ pos' = pos + 1
  /\ UNCHANGED <<prog, phase, sideEffect, todo, avail, waitDelete, saved, code, phis, runVars>>

(* Mutant: what the block offers is not saved. *)
LeaveBlock_NotSaved ==
  /\ phase = "visit" /\ ~Visiting
  /\ code' = [id \in DOMAIN code \ waitDelete |-> code[id]]
  /\ waitDelete' = {}
  /\ todo' = Tail(todo)
  /\ phase' = "enter"
  /\ UNCHANGED <<prog, sideEffect, pos, avail, saved, phis, runVars>>

LeaveBlock ==
  /\ phase = "visit" /\ ~Visiting
  /\ code' = [id \in DOMAIN code \ waitDelete |-> code[id]]
  /\ saved' = [b \in DOMAIN saved \cup {Head(todo)} |->
                 IF b = Head(todo) THEN avail ELSE saved[b]]
  /\ waitDelete' = {}
  /\ todo' = Tail(todo)
  /\ phase' = "enter"
  /\ UNCHANGED <<prog, sideEffect, pos, avail, phis, runVars>>

(* The instructions n reads, and those phi w reads                         *)
Operands(n) == {n.x, n.y} \cap Original!Ids(prog)
PhiOperands(w) == {phis[w][a] : a \in DOMAIN phis[w]} \cap Original!Ids(prog)

(* clang refuses a function that reads what is not there.                  *)
EndPass ==
  /\ phase = "enter" /\ todo = <<>>
  /\ phase' = IF /\ \A id \in DOMAIN code : Operands(code[id]) \subseteq DOMAIN code
                 /\ \A w \in DOMAIN phis : PhiOperands(w) \subseteq DOMAIN code
              THEN "exec" ELSE "refused"
  /\ UNCHANGED <<prog, sideEffect, todo, pos, avail, waitDelete, saved, code, phis, runVars>>

---------------------------------------------------------------------------
(* The rewritten function runs.                                            *)

Execute ==
  /\ phase = "exec" /\ Original!Ahead(prog, at)
  /\ LET n    == prog.code[at.block][at.next]
         left == n.id \in DOMAIN code
         now  == code[n.id]
     IN  /\ ghost' = [ghost EXCEPT ![n.id] = Original!Result(prog, ghost, mem, n)]
         /\ regs' = IF left THEN [regs EXCEPT ![n.id] = Original!Result(prog, regs, mem, now)]
                    ELSE regs
         /\ mem' = IF left THEN Original!Memory(prog, regs, mem, now) ELSE mem
         /\ result' = IF left /\ n.kind = "ret" THEN Original!Value(prog, regs, now.x) ELSE result
  /\ at' = [at EXCEPT !.next = @ + 1]
  /\ UNCHANGED <<prog, passVars>>

Jump ==
  /\ phase = "exec" /\ ~Original!Ahead(prog, at)
  /\ \E s \in prog.succs[at.block] :
       /\ at' = [block |-> s, next |-> 1]
       /\ ghost' = Original!Entered(prog, ghost, Original!From(prog), at.block, s)
       /\ regs' = Original!Entered(prog, regs, phis, at.block, s)
  /\ UNCHANGED <<prog, passVars, mem, result>>

Rewrite ==
  \/ PropagateSideEffect \/ EndSideEffects
  \/ InitSets \/ InitSetsHangs
  \/ Reuse \/ Remember \/ ReadBeyondFails \/ Store \/ Call \/ Pass
  \/ LeaveBlock \/ EndPass

Next == Rewrite \/ Execute \/ Jump

Spec == Init /\ [][Next]_vars /\ WF_vars(Rewrite)

---------------------------------------------------------------------------
(* Properties                                                              *)

(* The rewritten function does to memory, and returns, what the original   *)
(* function does on the same path (CommonSubExper.cpp:28).                 *)
Implements == Original!Spec

Base(x) == IF IsGep(x) THEN Written(x).x ELSE x

MayChange(n, x) ==
  \/ n.kind = "call" /\ n.x \in sideEffect
  \/ n.kind = "store" /\ (Base(n.y) = Base(x) \/ {Base(n.y), Base(x)} = {"A", "G"})

(* In a block nothing is computed twice when the pass is over: no          *)
(* expression, no address except of an array argument, and no load unless  *)
(* memory may have changed in between (CommonSubExper.cpp:33, :114, :153). *)
(* Constants count by their value, but 1 + 2 is left twice: if the left    *)
(* operand is constant, the right one has to be the same object (:43).     *)
NothingLeftTwice ==
  phase = "exec" /\ OperandsListed(prog) =>
    \A b \in DOMAIN prog.code : \A j, k \in DOMAIN prog.code[b] :
      LET first   == prog.code[b][j].id
          again   == prog.code[b][k].id
          between == {prog.code[b][m].id : m \in (j + 1) .. (k - 1)} \cap DOMAIN code
      IN  /\ j < k
          /\ {first, again} \subseteq DOMAIN code
          /\ code[first].kind = code[again].kind
          /\ code[first].kind \in {"op", "load"} \/ (IsGep(first) /\ code[first].x # "A")
          /\ Alike(prog, code[first].x, code[again].x) /\ Alike(prog, code[first].y, code[again].y)
          /\ IsConstant(code[first].x) => code[first].y = code[again].y
          => /\ code[first].kind = "load"
             /\ \E id \in between : MayChange(code[id], code[first].x)

(* Nobody reads an instruction that is deleted or about to be, in this     *)
(* block or in one still to come, in a phi or elsewhere, but an            *)
(* instruction LoopInvHoist has moved: that one is out of reach            *)
(* (LoopInvHoist.cpp:130), and if what it reads is reused the function is  *)
(* refused.                                                                *)
UsersFollow ==
  /\ \A id \in DOMAIN code \ prog.moved : Operands(code[id]) \subseteq DOMAIN code \ waitDelete
  /\ \A w \in DOMAIN phis : PhiOperands(w) \subseteq DOMAIN code \ waitDelete

Printers ==
  {f \in DOMAIN prog.funs : (prog.funs[f].external \/ prog.funs[f].main) /\ prog.funs[f].args}

(* The functions taken to have side effects are those that store to memory *)
(* of others or print, themselves or through a call, in whatever order the *)
(* calls are walked (CommonSubExper.cpp:412).  But main is taken to have   *)
(* none, whatever it stores or calls (:376), and so is who only calls main.*)
SideEffectsKnown ==
  phase # "effects" =>
    LET seen == Seen(prog.funs)
    IN  sideEffect = Original!Writers(seen) \cup Original!Callers(seen, Printers)

(* The pass gets through every function without a join, and through no     *)
(* other (CommonSubExper.cpp:257), unless what lies behind the operands of *)
(* a gep on an array argument stops it before (:120).                      *)
HangsAtJoins ==
  <>(\/ phase \in {"exec", "refused"} /\ Joins(prog) = {}
     \/ phase = "hung" /\ Joins(prog) # {}
     \/ phase = "crashed" /\ \E n \in Instructions(prog) : n.kind = "gep" /\ n.x = "A")

---------------------------------------------------------------------------
(* The inductive invariants behind SideEffectsKnown and UsersFollow.       *)

(* The set lies between what it starts from and what it has to become, and *)
(* is closed when the walk over the calls has ended.                       *)
EffectsInv ==
  /\ StoringFuncs(prog) \subseteq sideEffect
  /\ LET seen == Seen(prog.funs)
     IN  sideEffect \subseteq Original!Writers(seen) \cup Original!Callers(seen, Printers)
  /\ phase # "effects" =>
       \A f \in DOMAIN prog.funs \ sideEffect :
         Walked(f) => prog.funs[f].calls \cap sideEffect = {}

(* What the pass takes over is left in the code.                           *)
Left(id) == id \in DOMAIN code \ waitDelete

(* Nothing is known of an instruction the walk has still to come to.       *)
Untouched(id) ==
  /\ Left(id)
  /\ \A key \in DOMAIN avail : avail[key] # id
  /\ \A b \in DOMAIN saved : \A key \in DOMAIN saved[b] : saved[b][key] # id

WalkInv ==
  /\ todo \in Seq(DOMAIN prog.code)
  /\ \A i, j \in DOMAIN todo : todo[i] = todo[j] => i = j
  /\ phase = "visit" => todo # <<>> /\ pos \in Nat
  /\ DOMAIN code \subseteq Original!Ids(prog)
  /\ \A id \in DOMAIN code : /\ code[id].id = id
                             /\ DOMAIN code[id] = {"id", "kind", "x", "y"}
  /\ \A key \in DOMAIN avail : Left(avail[key])
  /\ \A b \in DOMAIN saved : \A key \in DOMAIN saved[b] : Left(saved[b][key])
  /\ phase \in {"effects", "enter", "visit"} =>
       \A i \in DOMAIN todo : \A k \in DOMAIN prog.code[todo[i]] :
         (phase = "visit" /\ i = 1 => k >= pos) => Untouched(prog.code[todo[i]][k].id)
=============================================================================

------------------------- MODULE DeadCodeEliminate -------------------------
(***************************************************************************)
(* DeadCodeEliminate.cpp: functions nobody calls, results nobody reads,    *)
(* instructions nothing needs, stores that are overwritten, loads whose    *)
(* value is known and arguments nobody reads are taken out of a module.    *)
(*                                                                         *)
(* A function is a list of blocks that run one after the other, a block a  *)
(* list of instructions [id, kind, ops].  An operand is the id of an       *)
(* instruction, an argument, a constant, a function, or a base: the global *)
(* scalar S, the global array G, the array L of a function's own, the      *)
(* array argument A (the array prog.alias).  uses is every use list: the   *)
(* triple <<v, u, k>> says that v lists operand k of u as a use.           *)
(***************************************************************************)
EXTENDS Integers, SequencesExt

CONSTANT Programs

VARIABLES prog, phase, rest, funcs, body, uses, sideEffect,
          blk, pos, preGeps, preStores, preLoads, waitRemove

local == <<blk, pos, preGeps, preStores, preLoads, waitRemove>>
vars  == <<prog, phase, rest, funcs, body, uses, sideEffect, local>>

Instrs(f) == UNION {ToSet(body[f][b]) : b \in DOMAIN body[f]}

Kept == UNION {Instrs(f) : f \in ToSet(funcs)}

UsesOf(v) == {u \in uses : u[1] = v}

isLocalStore(f, n) == \E p \in Instrs(f) : p.id = n.ops[2] /\ p.kind = "gep" /\ p.ops[1] = "L"

Init ==
  /\ prog \in Programs
  /\ phase = "funcs" /\ rest = <<>>
  /\ funcs = prog.funcs /\ body = prog.body
  /\ uses = UNION {{<<n.ops[k], n.id, k>> : k \in DOMAIN n.ops} : n \in Kept}
  /\ sideEffect = {}
  /\ blk = 1 /\ pos = 1
  /\ preGeps = {} /\ preStores = {} /\ preLoads = {} /\ waitRemove = {}

---------------------------------------------------------------------------
(* delete_instr, set_operand and replace_all_use_with                      *)

Deleted(ids) ==
  [f \in DOMAIN body |->
     [b \in DOMAIN body[f] |-> SelectSeq(body[f][b], LAMBDA n : n.id \notin ids)]]

(* The operands at places, pairs of an instruction and a number, are new.  *)
WithOperand(places, new) ==
  [f \in DOMAIN body |->
     [b \in DOMAIN body[f] |->
        [i \in DOMAIN body[f][b] |->
           [body[f][b][i] EXCEPT !.ops =
              [k \in DOMAIN @ |-> IF <<body[f][b][i].id, k>> \in places THEN new ELSE @[k]]]]]]

(* remove_use_of_ops asks the operands of now, not those replaced before.  *)
UsesWithout(ids) ==
  {u \in uses : \A n \in Kept : n.id \in ids => ~(u[2] = n.id /\ u[1] \in ToSet(n.ops))}

(* Mutant: the new value is not told of its uses. *)
ReplaceAllUses_KeepUses(old, new) ==
  /\ body' = WithOperand({<<u[2], u[3]>> : u \in UsesOf(old)}, new)
  /\ uses' = {u \in uses : u[1] # old}

ReplaceAllUses(old, new) ==
  /\ body' = WithOperand({<<u[2], u[3]>> : u \in UsesOf(old)}, new)
  /\ uses' = uses \cup {<<new, u[2], u[3]>> : u \in UsesOf(old)}

---------------------------------------------------------------------------
(* deleteDeadFunc                                                          *)

Uncalled == {f \in ToSet(funcs) : f # "main" /\ UsesOf(f) = {}}

(* Mutant: the calls of a removed function still count. *)
DeadFuncRound_KeepUses ==
  /\ phase \in {"funcs", "funcsAgain"} /\ Uncalled # {}
  /\ funcs' = SelectSeq(funcs, LAMBDA f : f \notin Uncalled)
  /\ UNCHANGED <<prog, phase, rest, body, uses, sideEffect, local>>

DeadFuncRound ==
  /\ phase \in {"funcs", "funcsAgain"} /\ Uncalled # {}
  /\ LET calls == {n \in UNION {Instrs(f) : f \in Uncalled} : n.kind = "call"}
     IN  uses' = {u \in uses : \A n \in calls : ~(u[1] = n.ops[1] /\ u[2] = n.id)}
  /\ funcs' = SelectSeq(funcs, LAMBDA f : f \notin Uncalled)
  /\ UNCHANGED <<prog, phase, rest, body, sideEffect, local>>

---------------------------------------------------------------------------
(* InitSets                                                                *)

InitSets ==
  /\ phase = "funcs" /\ Uncalled = {}
  /\ sideEffect' = {"main"} \cup prog.external \cup
                   {f \in ToSet(funcs) :
                      \E n \in Instrs(f) : n.kind = "store" /\ ~isLocalStore(f, n)}
  /\ phase' = "sets"
  /\ UNCHANGED <<prog, rest, funcs, body, uses, local>>

CallersOfEffects ==
  {f \in ToSet(funcs) \ sideEffect :
     \E n \in Instrs(f) : n.kind = "call" /\ n.ops[1] \in sideEffect}

Propagate ==
  /\ phase = "sets"
  /\ \E f \in CallersOfEffects : sideEffect' = sideEffect \cup {f}
  /\ UNCHANGED <<prog, phase, rest, funcs, body, uses, local>>

EndSets ==
  /\ phase = "sets" /\ CallersOfEffects = {}
  /\ phase' = "rets" /\ rest' = funcs
  /\ UNCHANGED <<prog, funcs, body, uses, sideEffect, local>>

---------------------------------------------------------------------------
(* The loops of run over the functions: the phase a function begins with,  *)
(* and the phase after the last function.                                  *)

Begin == [rets |-> "rets", again |-> "inst", args |-> "args", sweep |-> "sweep"]
After == [rets |-> "inst", again |-> "args", args |-> "sweep", sweep |-> "funcsAgain"]

NextFunction ==
  IF Len(rest) > 1 THEN phase' = Begin[phase] /\ rest' = Tail(rest)
                   ELSE phase' = After[phase] /\ rest' = funcs

(* deleteDeadRet                                                           *)

Returns(f) == {n \in Instrs(f) : n.kind = "ret" /\ n.ops # <<>>}

ResultUnread(f) == \A u \in UsesOf(f) : UsesOf(u[2]) = {}

DeleteDeadRet ==
  /\ phase = "rets"
  /\ LET f    == Head(rest)
         dead == IF f # "main" /\ ResultUnread(f) THEN {n.id : n \in Returns(f)} ELSE {}
     IN  /\ body' = WithOperand(dead \X {1}, "0")
         /\ uses' = UsesWithout(dead) \cup {<<"0", id, 1>> : id \in dead}
  /\ NextFunction
  /\ UNCHANGED <<prog, funcs, sideEffect, local>>

(* deleteDeadInst                                                          *)

isSideEffect(n) == IF n.kind = "call" THEN n.ops[1] \in sideEffect ELSE n.kind \in {"store", "ret"}

RECURSIVE CompleteWorklist(_, _)
CompleteWorklist(f, worklist) ==
  LET more == {n \in Instrs(f) : \E w \in worklist : n.id \in ToSet(w.ops)}
  IN  IF more \subseteq worklist THEN worklist ELSE CompleteWorklist(f, worklist \cup more)

DeleteDeadInst ==
  /\ phase \in {"inst", "again", "sweep"}
  /\ \E live \in {CompleteWorklist(Head(rest), {n \in Instrs(Head(rest)) : isSideEffect(n)})} :
       \E dead \in {{n.id : n \in Instrs(Head(rest)) \ live}} :
         /\ body' = Deleted(dead)
         /\ uses' = UsesWithout(dead)
  /\ IF phase = "inst" THEN phase' = "stores" /\ UNCHANGED rest ELSE NextFunction
  /\ UNCHANGED <<prog, funcs, sideEffect, local>>

---------------------------------------------------------------------------
(* deleteDeadStore, one instruction of a block at a time                   *)

Here == body[Head(rest)]

Visiting(kind) == phase = "stores" /\ blk \in DOMAIN Here /\ pos \in DOMAIN Here[blk]
                  /\ Here[blk][pos].kind \in kind

Current == Here[blk][pos]

Def(id) == CHOOSE n \in Instrs(Head(rest)) : n.id = id

IsGep(v) == \E n \in Instrs(Head(rest)) : n.id = v /\ n.kind = "gep"

isEqualFirstPtr(x, y) == x = y \/ (IsGep(x) /\ IsGep(y) /\ Def(x).ops[1] = Def(y).ops[1])

isGlobalArgArrayPtr(x) == IsGep(x) /\ Def(x).ops[1] # "L"

isArgArrayPtr(x) == IsGep(x) /\ Def(x).ops[1] = "A"

Lval(n) == IF n.kind = "store" THEN n.ops[2] ELSE n.ops[1]

Of(ids) == {Def(id) : id \in ids}

Gep ==
  /\ Visiting({"gep"})
  /\ LET same == {p \in Of(preGeps) : p.ops = Current.ops}
     IN  IF same # {}
         THEN /\ \E p \in same : ReplaceAllUses(Current.id, p.id)
              /\ waitRemove' = waitRemove \cup {Current.id} /\ UNCHANGED preGeps
         ELSE /\ preGeps' = preGeps \cup {Current.id} /\ UNCHANGED <<body, uses, waitRemove>>
  /\ pos' = pos + 1
  /\ UNCHANGED <<prog, phase, rest, funcs, sideEffect, blk, preStores, preLoads>>

(* dealStore: a store to a base of its own meets the last store to that    *)
(* base, a store to an argument every store that may be to the same array. *)
Met ==
  IF isArgArrayPtr(Lval(Current)) THEN {p \in Of(preStores) : isGlobalArgArrayPtr(Lval(p))}
  ELSE {p \in Of(preStores) : isEqualFirstPtr(Lval(p), Lval(Current))}

Outdated ==
  IF isArgArrayPtr(Lval(Current)) THEN {p \in Of(preLoads) : isGlobalArgArrayPtr(Lval(p))}
  ELSE IF Met = {} THEN {p \in Of(preLoads) : isEqualFirstPtr(Lval(Current), Lval(p))}
  ELSE {}

Store ==
  /\ Visiting({"store"})
  /\ waitRemove' = waitRemove \cup {p.id : p \in {p \in Met : Lval(p) = Lval(Current)}}
  /\ preStores' = (preStores \ {p.id : p \in Met}) \cup {Current.id}
  /\ preLoads' = preLoads \ {p.id : p \in Outdated}
  /\ pos' = pos + 1
  /\ UNCHANGED <<prog, phase, rest, funcs, body, uses, sideEffect, blk, preGeps>>

StoresToBase == {p \in Of(preStores) : isEqualFirstPtr(Lval(p), Lval(Current))}

(* Mutant: any store to the array will do. *)
Known_SameArray ==
  IF StoresToBase # {} THEN {p.ops[1] : p \in StoresToBase}
  ELSE {p.id : p \in {p \in Of(preLoads) : Lval(p) = Lval(Current)}}

(* The value a load is known to give.                                      *)
Known ==
  IF StoresToBase # {} THEN {p.ops[1] : p \in {p \in StoresToBase : Lval(p) = Lval(Current)}}
  ELSE {p.id : p \in {p \in Of(preLoads) : Lval(p) = Lval(Current)}}

LoadKnown ==
  /\ Visiting({"load"})
  /\ \E v \in Known : ReplaceAllUses(Current.id, v)
  /\ waitRemove' = waitRemove \cup {Current.id}
  /\ pos' = pos + 1
  /\ UNCHANGED <<prog, phase, rest, funcs, sideEffect, blk, preGeps, preStores, preLoads>>

LoadUnknown ==
  /\ Visiting({"load"}) /\ Known = {}
  /\ preLoads' = preLoads \cup {Current.id}
  /\ pos' = pos + 1
  /\ UNCHANGED <<prog, phase, rest, funcs, body, uses, sideEffect, blk, preGeps, preStores,
                 waitRemove>>

Pass ==
  /\ Visiting({"op", "ret", "call"})
  /\ IF Current.kind = "call" /\ Current.ops[1] \in sideEffect
     THEN preStores' = {} /\ preLoads' = {}
     ELSE UNCHANGED <<preStores, preLoads>>
  /\ pos' = pos + 1
  /\ UNCHANGED <<prog, phase, rest, funcs, body, uses, sideEffect, blk, preGeps, waitRemove>>

EndBlock ==
  /\ phase = "stores" /\ blk \in DOMAIN Here /\ pos \notin DOMAIN Here[blk]
  /\ body' = Deleted(waitRemove)
  /\ uses' = UsesWithout(waitRemove)
  /\ blk' = blk + 1 /\ pos' = 1
  /\ preGeps' = {} /\ preStores' = {} /\ preLoads' = {} /\ waitRemove' = {}
  /\ UNCHANGED <<prog, phase, rest, funcs, sideEffect>>

EndStores ==
  /\ phase = "stores" /\ blk \notin DOMAIN Here
  /\ phase' = "again" /\ blk' = 1
  /\ UNCHANGED <<prog, rest, funcs, body, uses, sideEffect, pos, preGeps, preStores, preLoads,
                 waitRemove>>

---------------------------------------------------------------------------
(* DeleteFuncDeadArg: the operand becomes 0, its old use stays listed.     *)

DeadArgs(f) == {i \in DOMAIN prog.args[f] : UsesOf(prog.args[f][i]) = {}}

DeleteFuncDeadArg ==
  /\ phase = "args"
  /\ LET f       == Head(rest)
         cleared == {<<u[2], i + 1>> : u \in UsesOf(f), i \in DeadArgs(f)}
     IN  /\ body' = WithOperand(cleared, "0")
         /\ uses' = uses \cup {<<"0", c[1], c[2]>> : c \in cleared}
  /\ NextFunction
  /\ UNCHANGED <<prog, funcs, sideEffect, local>>

(* Mutant: the clean-up starts over each time. *)
EndRun_Again ==
  /\ phase = "funcsAgain" /\ Uncalled = {}
  /\ phase' = "sweep"
  /\ UNCHANGED <<prog, rest, funcs, body, uses, sideEffect, local>>

EndRun ==
  /\ phase = "funcsAgain" /\ Uncalled = {}
  /\ phase' = "done"
  /\ UNCHANGED <<prog, rest, funcs, body, uses, sideEffect, local>>

Next ==
  \/ DeadFuncRound \/ InitSets \/ Propagate \/ EndSets
  \/ DeleteDeadRet \/ DeleteDeadInst
  \/ Gep \/ Store \/ LoadKnown \/ LoadUnknown \/ Pass \/ EndBlock \/ EndStores
  \/ DeleteFuncDeadArg \/ EndRun

Spec == Init /\ [][Next]_vars /\ WF_vars(Next)

---------------------------------------------------------------------------
(* What a module does: its output, what main returns, and global memory.   *)
(* World is [mem, out, ins], ins counting the values read so far.          *)

Constants == {"0", "1"}

Library(f, vals, w) ==
  IF f = "input" THEN [world |-> [w EXCEPT !.ins = @ + 1], value |-> <<"read", w.ins>>]
  ELSE [world |-> [w EXCEPT !.out = Append(@, vals[1])], value |-> "none"]

Base(v) == IF v = "A" THEN prog.alias ELSE v

Offset(v) == IF v \in Constants THEN v ELSE prog.index

Value(env, v) == IF v \in DOMAIN env THEN env[v] ELSE <<v>>

Address(env, v) == IF v = "S" THEN <<"S", "0">> ELSE Value(env, v)

RECURSIVE Run(_, _, _, _)
Run(code, is, env, w) ==
  LET n == Head(is)
      Go(v, after) == Run(code, Tail(is), [x \in DOMAIN env \cup {n.id} |->
                                             IF x = n.id THEN v ELSE env[x]], after)
  IN  CASE n.kind = "op"    -> Go(<<"op", [k \in DOMAIN n.ops |-> Value(env, n.ops[k])]>>, w)
        [] n.kind = "gep"   -> Go(<<Base(n.ops[1]), Offset(n.ops[2])>>, w)
        [] n.kind = "load"  -> Go(w.mem[Address(env, n.ops[1])], w)
        [] n.kind = "store" -> Go("none", [w EXCEPT !.mem[Address(env, n.ops[2])] =
                                                      Value(env, n.ops[1])])
        [] n.kind = "ret"   -> [world |-> w,
                                value |-> IF n.ops = <<>> THEN "none" ELSE Value(env, n.ops[1])]
        [] n.kind = "call"  ->
             LET f     == n.ops[1]
                 given == [k \in 1 .. Len(n.ops) - 1 |-> Value(env, n.ops[k + 1])]
                 args  == IF f \in prog.external THEN <<>> ELSE prog.args[f]
                 r     == IF f \in prog.external THEN Library(f, given, w)
                          ELSE Run(code, FlattenSeq(code[f]),
                                   [a \in ToSet(args) |->
                                      given[CHOOSE i \in DOMAIN args : args[i] = a]],
                                   w)
             IN  Go(r.value, r.world)

Cells == ({"G", "A", "L"} \X Constants) \cup {<<"S", "0">>}

Meaning(code) ==
  LET r == Run(code, FlattenSeq(code["main"]), <<>>,
               [mem |-> [c \in Cells |-> <<"initially", c>>], out |-> <<>>, ins |-> 0])
  IN  <<r.world.out, r.value, [c \in Cells \ ({"L"} \X Constants) |-> r.world.mem[c]]>>

---------------------------------------------------------------------------
(* Properties                                                              *)

InstrsOf(f) == UNION {ToSet(prog.body[f][b]) : b \in DOMAIN prog.body[f]}

(* No cell has two names in a function: what isEqualFirstPtr (line 327)    *)
(* takes for granted of argument and global arrays, and dealStore (line    *)
(* 371) of unknown offsets.                                                *)
OneNamePerCell ==
  \A f \in DOMAIN prog.body : \A p, q \in {n \in InstrsOf(f) : n.kind = "gep"} :
    <<Base(p.ops[1]), Offset(p.ops[2])>> = <<Base(q.ops[1]), Offset(q.ops[2])>> => p.ops = q.ops

(* No store is followed by a call of a function that reads memory and      *)
(* changes none: such a call does not stop the search (line 491).          *)
NoSilentReader ==
  \A f \in DOMAIN prog.body : \A b \in DOMAIN prog.body[f] :
    \A j, k \in DOMAIN prog.body[f][b] :
      LET n == prog.body[f][b][k]
      IN  (j < k /\ prog.body[f][b][j].kind = "store" /\ n.kind = "call"
           /\ n.ops[1] \in DOMAIN prog.body)
          => \/ \A m \in InstrsOf(n.ops[1]) : m.kind # "load"
             \/ \E m \in InstrsOf(n.ops[1]) : m.kind = "store"

(* What the module does never changes while the pass is at work, if no     *)
(* cell has two names and no function reads in silence.                    *)
KeepsMeaning ==
  (phase \in {"rets", "again", "args", "done"} /\ OneNamePerCell /\ NoSilentReader)
    => Meaning(body) = Meaning(prog.body)

(* An operand of an instruction that is left lists it as a use: else the   *)
(* next replace_all_use_with (lines 449, 470, 485) would miss it.          *)
UsesCoverOperands ==
  \A n \in Kept : \A k \in DOMAIN n.ops : <<n.ops[k], n.id, k>> \in uses

(* When the pass is over, whatever is left is needed: a function by a call *)
(* in another one that is left, an instruction by one with side effects    *)
(* (the second deleteDeadFunc, line 23, and deleteDeadInst, line 21).      *)
NothingDeadIsLeft ==
  phase = "done" =>
    \A f \in ToSet(funcs) :
      /\ f = "main" \/ \E n \in Kept : n.kind = "call" /\ n.ops[1] = f
      /\ \A n \in Instrs(f) : isSideEffect(n) \/ \E m \in Instrs(f) : n.id \in ToSet(m.ops)

(* The pass ends: each loop runs out of functions, calls or instructions.  *)
Terminates == <>(phase = "done")
=============================================================================

---------------------------- MODULE ConstFolding ----------------------------
(***************************************************************************)
(* The first part of ConstPropagation.cpp on the code Expressions builds:  *)
(* arithmetic, comparisons and conversions of constants are computed by    *)
(* the compiler, and a global is replaced by the constant it was set to.   *)
(*                                                                         *)
(* built is the code before the pass, left the instructions not marked for *)
(* deletion, known the constants of global_def_int and global_def_fp.      *)
(***************************************************************************)
EXTENDS Expressions

CONSTANTS Envs, Width

VARIABLES built, pos, left, known

foldVars == <<built, pos, left, known>>
vars     == <<builderVars, foldVars>>

FoldInit == Init /\ built = <<>> /\ pos = 0 /\ left = {} /\ known = <<>>

---------------------------------------------------------------------------
(* Numbers: an int wraps around, a float is a fraction in lowest terms.    *)

Wrap(n) == ((n + 2 ^ (Width - 1)) % 2 ^ Width) - 2 ^ (Width - 1)

Abs(n) == IF n < 0 THEN -n ELSE n

Fraction(n, d) ==
  LET g == CHOOSE g \in 1 .. Abs(d) : /\ d % g = 0 /\ n % g = 0
                                      /\ \A h \in (g + 1) .. Abs(d) : d % h # 0 \/ n % h # 0
      sign == IF d < 0 THEN -1 ELSE 1
  IN  <<sign * (n \div g), sign * (d \div g)>>

Quotient(n, d) == IF (n < 0) = (d < 0) THEN Abs(n) \div Abs(d) ELSE -(Abs(n) \div Abs(d))

Truth(b) == IF b THEN 1 ELSE 0

Compare(op, x, y) ==
  CASE op = "ge" -> x >= y [] op = "gt" -> x > y [] op = "le" -> x <= y
    [] op = "lt" -> x < y  [] op = "eq" -> x = y [] op = "ne" -> x # y

IntResult(op, x, y) ==
  CASE op = "add" -> Wrap(x + y) [] op = "sub" -> Wrap(x - y)
    [] op = "mul" -> Wrap(x * y) [] op = "div" -> Wrap(Quotient(x, y))

FloatResult(op, x, y) ==
  CASE op = "fadd" -> Fraction(x[1] * y[2] + y[1] * x[2], x[2] * y[2])
    [] op = "fsub" -> Fraction(x[1] * y[2] - y[1] * x[2], x[2] * y[2])
    [] op = "fmul" -> Fraction(x[1] * y[1], x[2] * y[2])
    [] op = "fdiv" -> Fraction(x[1] * y[2], x[2] * y[1])

Plain(op) == CHOOSE r \in Relops : "f" \o r = op

(* compute: what two constants give; comparisons give an i1.               *)
compute(op, x, y) ==
  CASE op \in IntOps   -> <<"int", IntResult(op, x[2], y[2])>>
    [] op \in FloatOps -> <<"float", FloatResult(op, x[2], y[2])>>
    [] op \in Relops  -> <<"bool", Truth(Compare(op, x[2], y[2]))>>
    [] op \in FRelops -> <<"bool", Truth(Compare(Plain(op), x[2][1] * y[2][2], y[2][1] * x[2][2]))>>

---------------------------------------------------------------------------
(* The pass                                                                *)

Arithmetic == IntOps \cup FloatOps \cup Relops \cup FRelops

(* A ConstantInt is an i32 or an i1.                                       *)
Constant(v, type) == v[1] = type \/ (v[1] = "bool" /\ type = "int")

IsGlobal(v) == v[1] = "var" /\ \E d \in ToSet(source.decls) : d.name = v[2] /\ d.global

(* global_def_func: the functions that set a global.                       *)
DefiningFuncs(x) ==
  {f \in DOMAIN source.functions : x \in source.functions[f].sets} \cup
  (IF \E n \in ToSet(built) : n.op = "store" /\ n.ops[2] = <<"var", x>> THEN {"this"} ELSE {})

StartFolding ==
  /\ Built
  /\ phase' = "fold" /\ built' = code /\ left' = DOMAIN code /\ pos' = 1 /\ known' = <<>>
  /\ UNCHANGED <<text, source, decls, stmts, code, ret, argload>>

Current == code[pos]

Folding == phase = "fold" /\ pos \in DOMAIN code

(* The constants an instruction may be replaced by: none or one.           *)
Value ==
  LET n == Current
      both(type) == Constant(n.ops[1], type) /\ Constant(n.ops[2], type)
  IN  CASE n.op \in IntOps \cup Relops ->
             IF both("int") THEN {compute(n.op, n.ops[1], n.ops[2])} ELSE {}
        [] n.op \in FloatOps \cup FRelops ->
             IF both("float") THEN {compute(n.op, n.ops[1], n.ops[2])} ELSE {}
        [] n.op = "fptosi" ->
             IF Constant(n.ops[1], "float")
             THEN {<<"int", Quotient(n.ops[1][2][1], n.ops[1][2][2])>>} ELSE {}
        [] n.op = "sitofp" ->
             IF Constant(n.ops[1], "int") THEN {<<"float", <<n.ops[1][2], 1>>>>} ELSE {}
        [] n.op = "zext"   ->
             IF Constant(n.ops[1], "int") THEN {<<"int", n.ops[1][2]>>} ELSE {}
        [] n.op = "load"   ->
             IF IsGlobal(n.ops[1]) /\ n.ops[1][2] \in DOMAIN known THEN {known[n.ops[1][2]]} ELSE {}
        [] OTHER -> {}

Traps == Current.op = "div" /\ Constant(Current.ops[1], "int") /\ Current.ops[2] = <<"int", 0>>

(* Mutant: only first operands are replaced. *)
Fold_FirstOperand ==
  /\ Folding /\ ~Traps
  /\ \E v \in Value :
       code' = [k \in DOMAIN code |->
                  [code[k] EXCEPT !.ops = [i \in DOMAIN @ |->
                     IF @[i] = <<"reg", pos>> /\ i = 1 THEN v ELSE @[i]]]]
  /\ left' = left \ {pos}
  /\ pos' = pos + 1
  /\ UNCHANGED <<text, source, phase, decls, stmts, ret, argload, built, known>>

Fold ==
  /\ Folding /\ ~Traps
  /\ \E v \in Value :
       code' = [k \in DOMAIN code |->
                  [code[k] EXCEPT !.ops =
                     [i \in DOMAIN @ |-> IF @[i] = <<"reg", pos>> THEN v ELSE @[i]]]]
  /\ left' = left \ {pos}
  /\ pos' = pos + 1
  /\ UNCHANGED <<text, source, phase, decls, stmts, ret, argload, built, known>>

(* The compiler itself divides by zero.                                    *)
FoldTraps ==
  /\ Folding /\ Traps
  /\ phase' = "crashed"
  /\ UNCHANGED <<text, source, decls, stmts, code, ret, argload, foldVars>>

(* A store to a global that one function sets enters or removes it.        *)
SetsGlobal == Current.op = "store" /\ IsGlobal(Current.ops[2]) /\
              Cardinality(DefiningFuncs(Current.ops[2][2])) = 1

(* Mutant: a value that is not constant leaves the old constant known. *)
Store_KeepOld ==
  /\ Folding /\ SetsGlobal
  /\ LET x == Current.ops[2][2]
     IN  known' = IF Current.ops[1][1] \in {"int", "float"}
                  THEN [y \in DOMAIN known \cup {x} |-> IF y = x THEN Current.ops[1] ELSE known[y]]
                  ELSE known
  /\ pos' = pos + 1
  /\ UNCHANGED <<builderVars, built, left>>

Store ==
  /\ Folding /\ SetsGlobal
  /\ LET x    == Current.ops[2][2]
         rest == DOMAIN known \ {x}
     IN  known' = IF Current.ops[1][1] \in {"int", "float"}
                  THEN [y \in rest \cup {x} |-> IF y = x THEN Current.ops[1] ELSE known[y]]
                  ELSE [y \in rest |-> known[y]]
  /\ pos' = pos + 1
  /\ UNCHANGED <<builderVars, built, left>>

Pass ==
  /\ Folding /\ ~Traps /\ Value = {} /\ ~SetsGlobal
  /\ pos' = pos + 1
  /\ UNCHANGED <<builderVars, built, left, known>>

EndFolding ==
  /\ phase = "fold" /\ pos \notin DOMAIN code
  /\ phase' = "done"
  /\ UNCHANGED <<text, source, decls, stmts, code, ret, argload, foldVars>>

Next ==
  \/ Build /\ UNCHANGED foldVars
  \/ StartFolding \/ Fold \/ FoldTraps \/ Store \/ Pass \/ EndFolding

Spec == FoldInit /\ [][Next]_vars

---------------------------------------------------------------------------
(* What the code does.  w is [mem, log, out, stopped]: the cells           *)
(* <<x, offset>>, the calls made, the value returned, and whether the      *)
(* program has ended.  A value is <<"int", n>>, <<"float", r>>,            *)
(* <<"bool", b>> or an address <<"at", x, offset>>.                        *)

Cell(v) == <<v[2], v[3]>>

(* The functions called: next, half and mix compute, first reads an array, *)
(* set and again write the globals source.functions says they set.         *)
Answer(f, given, w) ==
  CASE f = "half"  -> <<"float", Fraction(given[1][2][1], 2 * given[1][2][2])>>
    [] f = "mix"   -> compute("fadd", <<"float", <<given[1][2], 1>>>>, given[2])
    [] f = "first" -> w.mem[Cell(given[1])]
    [] OTHER       -> <<"int", Wrap(given[1][2] + 1)>>

Writes(f) ==
  IF f = "again" THEN {x \in {d.name : d \in ToSet(source.decls)} : "this" \in DefiningFuncs(x)}
  ELSE source.functions[f].sets

(* The arguments, for the log: of an array, its first element.             *)
Call(f, given, w) ==
  [w EXCEPT !.log = Append(@, <<f, given>>),
            !.mem = [c \in DOMAIN @ |->
                       IF c[1] \in Writes(f)
                       THEN IF @[c][1] = "int" THEN <<"int", 7>> ELSE <<"float", <<7, 1>>>>
                       ELSE @[c]]]

Operand(regs, v) ==
  CASE v[1] = "reg" -> regs[v[2]]
    [] v[1] = "var" -> <<"at", v[2], 0>>
    [] OTHER        -> v

Result(n, v, w) ==
  CASE n.op \in Arithmetic \ {"div"} -> compute(n.op, v[1], v[2])
    [] n.op = "div"    -> IF v[2][2] = 0 THEN v[1] ELSE compute("div", v[1], v[2])
    [] n.op = "zext"   -> <<"int", v[1][2]>>
    [] n.op = "sitofp" -> <<"float", <<IF v[1][1] = "bool" THEN -v[1][2] ELSE v[1][2], 1>>>>
    [] n.op = "fptosi" -> <<"int", Wrap(Quotient(v[1][2][1], v[1][2][2]))>>
    [] n.op = "load"   -> IF n.type \in {"i32*", "f32*"} THEN <<"at", v[1][2], 0>>
                           ELSE w.mem[Cell(v[1])]
    [] n.op = "gep"    -> <<"at", v[1][2], v[2][2]>>
    [] n.op = "call"   -> Answer(n.ops[1][2], Tail(v), w)
    [] OTHER           -> <<"int", 0>>

Effect(n, v, w) ==
  CASE n.op = "store" -> [w EXCEPT !.mem[Cell(v[2])] = v[1]]
    [] n.op = "call"  -> Call(n.ops[1][2], Tail(v), w)
    [] n.op = "check" -> [w EXCEPT !.stopped = v[1][2] < 0]
    [] n.op = "div"   -> [w EXCEPT !.stopped = v[2][2] = 0]
    [] n.op = "ret"   -> [w EXCEPT !.out = v[1], !.stopped = TRUE]
    [] OTHER          -> w

RECURSIVE Run(_, _, _, _, _)
Run(c, here, k, regs, w) ==
  IF w.stopped \/ k > Len(c) THEN w
  ELSE IF k \notin here THEN Run(c, here, k + 1, Append(regs, <<"int", 0>>), w)
  ELSE LET n == c[k]
           v == [i \in DOMAIN n.ops |-> Operand(regs, n.ops[i])]
       IN  Run(c, here, k + 1, Append(regs, Result(n, v, w)), Effect(n, v, w))

World(env) == [mem |-> env, log |-> <<>>, out |-> <<"int", 0>>, stopped |-> FALSE]

Meaning(c, here, env) == Run(c, here, 1, <<>>, World(env))

---------------------------------------------------------------------------
(* What the source says: a comparison is the int 0 or 1, an operand is     *)
(* promoted to float if the other one is, an assigned value, a returned    *)
(* value and an argument are converted to what they are given to.          *)

ToFloat(v) == IF v[1] = "int" THEN <<"float", <<v[2], 1>>>> ELSE v

ToInt(v) == IF v[1] = "float" THEN <<"int", Wrap(Quotient(v[2][1], v[2][2]))>> ELSE v

Converted(v, type) == CASE type = "f32" -> ToFloat(v) [] type = "i32" -> ToInt(v) [] OTHER -> v

Binary(op, x, y) ==
  LET v == IF "float" \in {x[1], y[1]} THEN compute("f" \o op, ToFloat(x), ToFloat(y))
           ELSE IF op = "div" /\ y[2] = 0 THEN x ELSE compute(op, x, y)
  IN  IF op \in Relops THEN <<"int", v[2]>> ELSE v

Stopped(w) == [value |-> <<"int", 0>>, world |-> w]

RECURSIVE Eval(_, _)

(* The cell a variable or an element is, as an address.                    *)
Place(n, w) ==
  IF Len(n.children) = 1 THEN [value |-> <<"at", Text(n, 1), 0>>, world |-> w]
  ELSE LET i == Eval(Child(n, 3), w)
           k == ToInt(i.value)[2]
       IN  IF i.world.stopped THEN i
           ELSE IF k < 0 THEN Stopped([i.world EXCEPT !.stopped = TRUE])
           ELSE [value |-> <<"at", Text(n, 1), k>>, world |-> i.world]

(* The arguments from left to right, converted to the parameters.          *)
RECURSIVE EvalArgs(_, _, _)
EvalArgs(args, params, w) ==
  IF args.name # "arg-list" THEN [values |-> <<>>, world |-> w]
  ELSE LET before == EvalArgs(Head(args.children), params, w)
           one    == Eval(Last(args.children), before.world)
       IN  [values |-> Append(before.values,
                              Converted(one.value, params[Len(before.values) + 1])),
            world  |-> one.world]

EvalCall(n, w) ==
  LET f == Text(n, 1)
      a == EvalArgs(Child(Child(n, 3), 1), text.functions[f].params, w)
  IN  IF a.world.stopped THEN Stopped(a.world)
      ELSE [value |-> Answer(f, a.values, a.world), world |-> Call(f, a.values, a.world)]

EvalBinary(n, w) ==
  LET l  == Eval(Child(n, 1), w)
      r  == Eval(Child(n, 3), l.world)
      op == Operator(Child(n, 2))
  IN  IF r.world.stopped THEN r
      ELSE [value |-> Binary(op, l.value, r.value),
            world |-> [r.world EXCEPT !.stopped =
                         op = "div" /\ l.value[1] = "int" /\ r.value = <<"int", 0>>]]

EvalAssign(n, w) ==
  LET p == Place(Child(n, 1), w)
      r == Eval(Child(n, 3), p.world)
      v == IF w.mem[Cell(p.value)][1] = "float" THEN ToFloat(r.value) ELSE ToInt(r.value)
  IN  IF r.world.stopped THEN r
      ELSE [value |-> v, world |-> [r.world EXCEPT !.mem[Cell(p.value)] = v]]

(* A node with the productions of its name in syntax_analyzer.y.           *)
Eval(n, w) ==
  LET size == Len(n.children)
  IN  CASE w.stopped          -> Stopped(w)
        [] n.name = "integer" -> [value |-> <<"int", Text(n, 1)>>, world |-> w]
        [] n.name = "float"   -> [value |-> <<"float", Text(n, 1)>>, world |-> w]
        [] n.name = "call"    -> EvalCall(n, w)
        [] n.name = "var"     ->
             LET p == Place(n, w)
             IN  IF p.world.stopped \/ (size = 1 /\ Kind(Text(n, 1)) \notin {"int", "float"}) THEN p
                 ELSE [p EXCEPT !.value = w.mem[Cell(p.value)]]
        [] n.name = "factor"  -> Eval(Child(n, IF size = 3 THEN 2 ELSE 1), w)
        [] n.name = "expression" /\ size = 3 -> EvalAssign(n, w)
        [] n.name \in {"simple-expression", "additive-expression", "term"} /\ size = 3 ->
             EvalBinary(n, w)
        [] n.name = "return-stmt" ->
             LET r == Eval(Child(n, 2), w)
             IN  IF r.world.stopped THEN r
                 ELSE Stopped([r.world EXCEPT !.out = Converted(r.value, source.ret),
                                              !.stopped = TRUE])
        [] OTHER -> Eval(Child(n, 1), w)

RECURSIVE Execute(_, _)
Execute(list, w) ==
  IF Len(list.children) < 2 THEN w ELSE Eval(Child(list, 2), Execute(Child(list, 1), w)).world

Body == Child(Child(Last(Child(text.program, 1).children), 1), 6)

(* An array of size zero ends the program where it is declared.            *)
SourceMeaning(env) ==
  Execute(Child(Body, 3),
          [World(env) EXCEPT !.stopped = \E d \in ToSet(source.decls) : d.size = 0 /\ ~d.global])

---------------------------------------------------------------------------
(* Properties                                                              *)

OperandTypes(n) ==
  [i \in DOMAIN n.ops |-> IF n.ops[i][1] = "fun" THEN "fun" ELSE TypeIn(code, n.ops[i])]

(* The operands of an instruction have the types its constructor takes:    *)
(* the assertions of Instruction.cpp:45, :125 and :173, which are commented *)
(* out, and those of :211, :410, :453 and :475.                            *)
WellTyped ==
  (Built \/ phase = "done") =>
    \A k \in IF Built THEN DOMAIN code ELSE left :
      LET n == code[k]
          t == OperandTypes(n)
      IN  CASE n.op \in IntOps \cup Relops -> t = <<"i32", "i32">>
            [] n.op \in FloatOps \cup FRelops -> t = <<"f32", "f32">>
            [] n.op = "zext"   -> t = <<"i1">>
            [] n.op = "sitofp" -> t \in {<<"i1">>, <<"i32">>}
            [] n.op = "fptosi" -> t = <<"f32">>
            [] n.op = "load"   -> IsPointer(t[1]) /\ n.type = Pointee[t[1]]
            [] n.op = "store"  -> IsPointer(t[2]) /\ t[1] = Pointee[t[2]]
            [] n.op = "gep"    -> IsPointer(t[1]) /\ t[2] = "i32"
            [] n.op = "check"  -> t = <<"i32">>
            [] n.op = "ret"    -> t = <<source.ret>>
            [] n.op = "call"   -> Tail(t) = source.functions[n.ops[1][2]].params

RECURSIVE CallsIn(_)
CallsIn(tree) ==
  CASE tree[1] \in {"num", "real", "var"} -> 0
    [] tree[1] = "elem"   -> CallsIn(tree[3])
    [] tree[1] = "bin"    -> CallsIn(tree[3]) + CallsIn(tree[4])
    [] tree[1] = "assign" -> CallsIn(tree[2]) + CallsIn(tree[3])
    [] tree[1] = "return" -> CallsIn(tree[2])
    [] tree[1] = "call"   -> FoldLeft(LAMBDA n, a : n + CallsIn(a), 1, tree[3])

(* argload is left at 0 by an array inside the index of an argument, as in *)
(* f(a[first(b)]): the visit of f then returns without building the call.  *)
NoCallDropped ==
  Cardinality({k \in DOMAIN built : built[k].op = "call"}) =
    FoldLeft(LAMBDA n, t : n + CallsIn(t), 0, source.stmts)

(* sitofp takes the i1 of a comparison that is true for -1.                *)
NoComparisonAsFloat ==
  \A k \in DOMAIN built : built[k].op = "sitofp" => TypeIn(built, built[k].ops[1]) # "i1"

(* The code built does what the source says: same memory, same calls with  *)
(* the same arguments, same result, for each value of the variables, if no *)
(* call is dropped and no comparison is used as a float.                   *)
MeansSource ==
  (phase = "fold" /\ pos = 1 /\ NoCallDropped /\ NoComparisonAsFloat)
    => \A env \in Envs : Meaning(built, DOMAIN built, env) = SourceMeaning(env)

(* No function called sets a global that this one sets: a global that is   *)
(* set by one function only is known until the end of the block, also over *)
(* a call that comes back to the same function (line 343).                 *)
NoWayBack ==
  \A k \in DOMAIN built : built[k].op = "call" => built[k].ops[1][2] # "again"

(* Folding does not change what the code does, if no comparison is used as *)
(* a float and no call comes back.                                         *)
FoldingKeepsMeaning ==
  (phase = "done" /\ NoComparisonAsFloat /\ NoWayBack)
    => \A env \in Envs : Meaning(code, left, env) = Meaning(built, DOMAIN built, env)

(* One walk over a block is enough: no operand of an instruction that is   *)
(* left has been deleted, and one of them is not known to the compiler     *)
(* (lines 208-295).                                                        *)
NothingConstantLeft ==
  phase = "done" =>
    \A k \in left :
      LET ops == ToSet(code[k].ops)
      IN  /\ \A v \in ops : v[1] = "reg" => v[2] \in left
          /\ code[k].op \in Arithmetic \cup {"zext", "sitofp", "fptosi"}
               => \E v \in ops : ~Constant(v, "int") /\ ~Constant(v, "float")
=============================================================================

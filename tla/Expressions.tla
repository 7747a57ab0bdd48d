---------------------------- MODULE Expressions ----------------------------
(***************************************************************************)
(* How cminusf_builder.cpp turns declarations and expressions into typed   *)
(* instructions: the conversions between int, float and the i1 of a        *)
(* comparison, which value is loaded when, and the globals ret and argload *)
(* that carry the result of one visit to the next.                         *)
(*                                                                         *)
(* text is the program as the parser gives it, and the functions it calls. *)
(* source is what SyntaxTree makes of it: declarations [name, kind, size,  *)
(* global] and statements, which are trees:                                *)
(*   <<"num", n>>  <<"real", r>>  <<"var", x>>  <<"elem", x, tree>>        *)
(*   <<"bin", op, tree, tree>>  <<"call", f, trees>>                       *)
(*   <<"assign", tree, tree>>   <<"return", tree>>                         *)
(* An operand is <<"int", n>>, <<"float", r>>, <<"var", x>> (the address   *)
(* of x), <<"fun", f>> or <<"reg", k>>, the result of instruction k.  The  *)
(* test of an index and its two blocks (module CminusfBuilder) are one     *)
(* instruction "check" here.  A rational r stands for a float.             *)
(***************************************************************************)
EXTENDS Integers, SequencesExt, SyntaxTree

CONSTANT Sources

VARIABLES text, source, phase, decls, stmts, code, ret, argload

builderVars == <<text, source, phase, decls, stmts, code, ret, argload>>

Init ==
  /\ text \in Sources /\ source = <<>>
  /\ phase = "parsed"
  /\ decls = <<>> /\ stmts = <<>>
  /\ code = <<>> /\ ret = <<"int", 0>> /\ argload = FALSE

---------------------------------------------------------------------------
(* Types.  A visit takes and returns a record [code, ret, argload].        *)

Relops    == {"ge", "gt", "le", "lt", "eq", "ne"}
IntOps    == {"add", "sub", "mul", "div"}
FRelops   == {"f" \o r : r \in Relops}
FloatOps  == {"f" \o o : o \in IntOps}
Casts     == [zext |-> "i32", fptosi |-> "i32", sitofp |-> "f32"]

Kind(x) == (CHOOSE d \in ToSet(source.decls) : d.name = x).kind

(* What an alloca, a global or a parameter of a kind is a pointer to.      *)
Contents ==
  [int |-> "i32", float |-> "f32", ints |-> "[i32]", floats |-> "[f32]",
   intParam |-> "i32*", floatParam |-> "f32*"]

Element == "[i32]" :> "i32" @@ "[f32]" :> "f32"

Pointee == [t \in {"i32*", "f32*", "[i32]*", "[f32]*", "i32**", "f32**"} |->
              CHOOSE u \in {"i32", "f32", "[i32]", "[f32]", "i32*", "f32*"} : u \o "*" = t]

IsPointer(t) == t \in DOMAIN Pointee

GepType(t) == IF Pointee[t] \in DOMAIN Element THEN Element[Pointee[t]] \o "*" ELSE t

TypeIn(c, v) ==
  CASE v[1] = "int"   -> "i32"
    [] v[1] = "bool"  -> "i1"
    [] v[1] = "float" -> "f32"
    [] v[1] = "var"   -> Contents[Kind(v[2])] \o "*"
    [] v[1] = "reg"   -> c[v[2]].type

CallType(f) == source.functions[f].ret

(* The type the constructor of an instruction gives to its result.         *)
ResultType(c, op, ops) ==
  CASE op \in IntOps            -> "i32"
    [] op \in FloatOps          -> "f32"
    [] op \in Relops \cup FRelops -> "i1"
    [] op \in DOMAIN Casts      -> Casts[op]
    [] op = "load"              -> Pointee[TypeIn(c, ops[1])]
    [] op = "gep"               -> GepType(TypeIn(c, ops[1]))
    [] op = "call"              -> CallType(ops[1][2])
    [] OTHER                    -> "void"

TypeOf(s, v) == TypeIn(s.code, v)

Emit(s, op, ops) ==
  [s EXCEPT !.code = Append(@, [op |-> op, type |-> ResultType(s.code, op, ops), ops |-> ops]),
            !.ret  = <<"reg", Len(s.code) + 1>>]

With(s, v) == [s EXCEPT !.ret = v]

(* The conversions, each applied only where the types differ.              *)
Loaded(s) ==
  IF IsPointer(TypeOf(s, s.ret)) THEN Emit(s, "load", <<s.ret>>) ELSE s

(* Mutant: the i1 of a comparison is used as it is. *)
Widened_Never(s, v) == With(s, v)

Widened(s, v) ==
  IF TypeOf(s, v) = "i1" THEN Emit(s, "zext", <<v>>) ELSE With(s, v)

AsFloat(s, v) ==
  IF TypeOf(s, v) \in {"i1", "i32"} THEN Emit(s, "sitofp", <<v>>) ELSE With(s, v)

AsInt(s, v) ==
  IF TypeOf(s, v) = "f32" THEN Emit(s, "fptosi", <<v>>) ELSE Widened(s, v)

(* The common end of the relational, additive and multiplicative visits.   *)
Combined(s, op, l, r) ==
  LET float == "f32" \in {TypeOf(s, l), TypeOf(s, r)}
      a     == IF float THEN AsFloat(s, l) ELSE Widened(s, l)
      b     == IF float THEN AsFloat(a, r) ELSE Widened(a, r)
  IN  Emit(b, IF float THEN "f" \o op ELSE op, <<a.ret, b.ret>>)

---------------------------------------------------------------------------
(* The visits                                                              *)

VisitScalarOrArray(s, x) ==
  LET var == <<"var", x>>
  IN  CASE Kind(x) \in {"int", "float"} -> [With(s, var) EXCEPT !.argload = TRUE]
        [] Kind(x) \in {"ints", "floats"} ->
             [Emit(s, "gep", <<var, <<"int", 0>>>>)
                EXCEPT !.argload = FALSE]
        [] OTHER -> [Emit(s, "load", <<var>>) EXCEPT !.argload = FALSE]

RECURSIVE Visit(_, _)

(* One argument: what is pushed to the arguments, or nothing if the visit  *)
(* of the call returns at once.                                            *)
Argument(s, tree, type) ==
  LET seen   == Visit(s, tree)
      wide   == Widened(seen, seen.ret)
      loaded == IF wide.argload THEN Loaded(wide) ELSE wide
      fits   == IF IsPointer(type) THEN ~wide.argload /\ IsPointer(TypeOf(wide, wide.ret))
                ELSE ~IsPointer(TypeOf(loaded, loaded.ret))
  IN  [fits |-> fits,
       visit |-> CASE IsPointer(type) -> wide
                   [] ~fits           -> loaded
                   [] type = "i32"    -> AsInt(loaded, loaded.ret)
                   [] type = "f32"    -> AsFloat(loaded, loaded.ret)]

RECURSIVE VisitCall(_, _, _, _)
VisitCall(s, f, trees, given) ==
  LET k == Len(given) + 1
      a == Argument(s, trees[k], source.functions[f].params[k])
  IN  IF k > Len(trees) THEN Emit(s, "call", <<<<"fun", f>>>> \o given)
      ELSE IF a.fits THEN VisitCall(a.visit, f, trees, Append(given, a.visit.ret))
      ELSE a.visit

VisitElement(s, x, index) ==
  LET seen    == Loaded(Visit([s EXCEPT !.argload = TRUE], index))
      number  == AsInt(seen, seen.ret)
      checked == Emit(number, "check", <<number.ret>>)
      array   == IF Kind(x) \in {"ints", "floats"} THEN With(checked, <<"var", x>>)
                 ELSE Emit(checked, "load", <<<<"var", x>>>>)
  IN  Emit(array, "gep", <<array.ret, number.ret>>)

VisitAssign(s, target, tree) ==
  LET left  == Visit(s, target)
      right == Loaded(Visit(left, tree))
      value == IF Pointee[TypeOf(left, left.ret)] = "f32" THEN AsFloat(right, right.ret)
               ELSE AsInt(right, right.ret)
  IN  With(Emit(value, "store", <<value.ret, left.ret>>), value.ret)

VisitReturn(s, tree) ==
  LET seen  == Loaded(Visit(s, tree))
      value == CASE source.ret = "i32" -> AsInt(seen, seen.ret)
                 [] source.ret = "f32" -> AsFloat(seen, seen.ret)
  IN  Emit(value, "ret", <<value.ret>>)

Visit(s, tree) ==
  CASE tree[1] = "num"    -> With(s, <<"int", tree[2]>>)
    [] tree[1] = "real"   -> With(s, <<"float", tree[2]>>)
    [] tree[1] = "var"    -> VisitScalarOrArray(s, tree[2])
    [] tree[1] = "elem"   -> VisitElement(s, tree[2], tree[3])
    [] tree[1] = "call"   -> VisitCall(s, tree[2], tree[3], <<>>)
    [] tree[1] = "assign" -> VisitAssign(s, tree[2], tree[3])
    [] tree[1] = "return" -> VisitReturn(s, tree[2])
    [] tree[1] = "bin"    -> LET l == Loaded(Visit(s, tree[3]))
                                 r == Loaded(Visit(l, tree[4]))
                             IN  Combined(r, tree[2], l.ret, r.ret)

---------------------------------------------------------------------------
(* Actions                                                                 *)

Transform ==
  /\ phase = "parsed"
  /\ \E ast \in {AST(text.program)} :
       /\ source' = [decls |-> ast.globals \o ast.params \o ast.locals, stmts |-> ast.stmts,
                     ret |-> ast.ret, functions |-> text.functions]
       /\ decls' = ast.globals \o ast.locals /\ stmts' = ast.stmts
  /\ phase' = "declare"
  /\ UNCHANGED <<text, code, ret, argload>>

(* Declaring an array of size zero calls neg_idx_except, which ends the    *)
(* program; a global one before every function has no block for the call.  *)
VarDeclaration ==
  /\ phase = "declare" /\ decls # <<>>
  /\ \E d \in {Head(decls)} :
       /\ phase' = IF d.size = 0 /\ d.global THEN "crashed" ELSE phase
       /\ code' = IF d.size = 0 /\ ~d.global
                  THEN Append(code, [op |-> "check", type |-> "void", ops |-> <<<<"int", -1>>>>])
                  ELSE code
  /\ decls' = Tail(decls)
  /\ UNCHANGED <<text, source, stmts, ret, argload>>

Statement ==
  /\ phase = "declare" /\ decls = <<>> /\ stmts # <<>>
  /\ \E s \in {Visit([code |-> code, ret |-> ret, argload |-> argload], Head(stmts))} :
       code' = s.code /\ ret' = s.ret /\ argload' = s.argload
  /\ stmts' = Tail(stmts)
  /\ UNCHANGED <<text, source, phase, decls>>

Build == Transform \/ VarDeclaration \/ Statement

Built == phase = "declare" /\ decls = <<>> /\ stmts = <<>>
=============================================================================

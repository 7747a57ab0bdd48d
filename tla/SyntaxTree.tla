----------------------------- MODULE SyntaxTree -----------------------------
(***************************************************************************)
(* ast.cpp: the syntax tree the parser has built is turned into the tree   *)
(* the builder visits.  A node is [name, children]; a token is a node      *)
(* without children, and its name is its text (a number for a literal).    *)
(*                                                                         *)
(* What comes out are the trees of module Expressions.  The nodes of the   *)
(* abstract syntax that only wrap another one (a simple expression without *)
(* a relation, an additive expression that is one term, and so on) are     *)
(* that other one.  The statements with branches are in CminusfBuilder.    *)
(***************************************************************************)
EXTENDS Naturals, SequencesExt, TLC

Token(text) == [name |-> text, children |-> <<>>]

(* A production with nothing on its right side has one child, an epsilon.  *)
node(name, children) ==
  [name |-> name, children |-> IF children = <<>> THEN <<Token("epsilon")>> ELSE children]

Child(n, k) == n.children[k]

Text(n, k) == Child(n, k).name

(* The elements of a list, whose nodes of the given size hold what comes   *)
(* before in the first child and one element in the last: pushed from the  *)
(* end, popped from the front.  The innermost node may be an element.      *)
RECURSIVE Flattened(_, _, _)
Flattened(list, size, alone) ==
  IF Len(list.children) = size
  THEN Append(Flattened(Child(list, 1), size, alone), Child(list, size))
  ELSE IF alone THEN <<Child(list, 1)>> ELSE <<>>

Operators ==
  "<=" :> "le" @@ "<" :> "lt" @@ ">" :> "gt" @@ ">=" :> "ge" @@ "==" :> "eq" @@ "!=" :> "ne"
  @@ "+" :> "add" @@ "-" :> "sub" @@ "*" :> "mul" @@ "/" :> "div"

Operator(n) == Operators[Text(n, 1)]

RECURSIVE transform_node_iter(_)

Transformed(list) == [k \in DOMAIN list |-> transform_node_iter(list[k])]

(* Mutant: the arguments in the order they are pushed. *)
Arguments_AsPushed(args) ==
  IF Text(args, 1) = "arg-list" THEN Transformed(Reverse(Flattened(Child(args, 1), 3, TRUE)))
  ELSE <<>>

Arguments(args) ==
  IF Text(args, 1) = "arg-list" THEN Transformed(Flattened(Child(args, 1), 3, TRUE)) ELSE <<>>

Factor(n) ==
  LET inner == Child(n, IF Len(n.children) = 3 THEN 2 ELSE 1)
  IN  CASE inner.name \in {"expression", "var", "call"} -> transform_node_iter(inner)
        [] inner.name = "integer" -> <<"num", Text(inner, 1)>>
        [] inner.name = "float"   -> <<"real", Text(inner, 1)>>

transform_node_iter(n) ==
  LET size == Len(n.children)
      Of(k) == transform_node_iter(Child(n, k))
  IN  CASE n.name \in {"statement", "expression-stmt"} -> Of(1)
        [] n.name = "return-stmt" -> <<"return", Of(2)>>
        [] n.name = "expression"  -> IF size = 1 THEN Of(1) ELSE <<"assign", Of(1), Of(3)>>
        [] n.name = "var"         -> IF size = 4 THEN <<"elem", Text(n, 1), Of(3)>>
                                     ELSE <<"var", Text(n, 1)>>
        [] n.name \in {"simple-expression", "additive-expression", "term"} ->
             IF size = 3 THEN <<"bin", Operator(Child(n, 2)), Of(1), Of(3)>> ELSE Of(1)
        [] n.name = "factor"      -> Factor(n)
        [] n.name = "call"        -> <<"call", Text(n, 1), Arguments(Child(n, 3))>>

---------------------------------------------------------------------------
(* Declarations                                                            *)

Number == "int" :> "i32" @@ "float" :> "f32"

TypeName(n) == Text(Child(n, 1), 1)

VarDecl(n, global) ==
  LET array == Len(n.children) = 6
  IN  [name |-> Text(n, 2), global |-> global,
       kind |-> IF array THEN TypeName(n) \o "s" ELSE TypeName(n),
       size |-> IF array THEN Text(n, 4) ELSE 1]

(* An array parameter is a pointer to memory of the caller.                *)
Param(n) ==
  [name |-> Text(n, 2), global |-> FALSE, size |-> 1,
   kind |-> IF Len(n.children) = 3 THEN TypeName(n) \o "Param" ELSE TypeName(n)]

Params(params) ==
  LET list == Flattened(Child(params, 1), 3, TRUE)
  IN  IF Child(params, 1).children = <<>> THEN <<>> ELSE [k \in DOMAIN list |-> Param(list[k])]

CompoundStmt(n) ==
  LET decls == Flattened(Child(n, 2), 2, FALSE)
  IN  [decls |-> [k \in DOMAIN decls |-> VarDecl(decls[k], FALSE)],
       stmts |-> Transformed(Flattened(Child(n, 3), 2, FALSE))]

(* The program: global variables, and then the function.                   *)
AST(program) ==
  LET list == Flattened(Child(program, 1), 2, TRUE)
      fun  == Child(list[Len(list)], 1)
      body == CompoundStmt(Child(fun, 6))
  IN  [globals |-> [k \in 1 .. Len(list) - 1 |-> VarDecl(Child(list[k], 1), TRUE)],
       params  |-> Params(Child(fun, 4)),
       locals  |-> body.decls,
       stmts   |-> body.stmts,
       ret     |-> Number[TypeName(fun)]]
=============================================================================

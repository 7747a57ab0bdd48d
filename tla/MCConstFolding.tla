--------------------------- MODULE MCConstFolding ---------------------------
EXTENDS ConstFolding

(* The syntax trees the parser builds; t is an expression in short.        *)
Wrapped(outer, inner) == node(outer, <<inner>>)

Op(name, op) == Wrapped(name, Token(CHOOSE t \in DOMAIN Operators : Operators[t] = op))

RECURSIVE Expression(_)

List(name, comma, elements, empty) ==
  FoldLeft(LAMBDA list, x : IF list = <<>> THEN node(name, <<x>>)
                            ELSE node(name, <<list>> \o comma \o <<x>>), empty, elements)

Args(trees) ==
  IF trees = <<>> THEN node("args", <<>>)
  ELSE Wrapped("args", List("arg-list", <<Token(",")>>,
                            [k \in DOMAIN trees |-> Expression(trees[k])], <<>>))

Var(t) ==
  IF t[1] = "var" THEN Wrapped("var", Token(t[2]))
  ELSE node("var", <<Token(t[2]), Token("["), Expression(t[3]), Token("]")>>)

FactorOf(t) ==
  CASE t[1] = "num"  -> Wrapped("factor", Wrapped("integer", Token(t[2])))
    [] t[1] = "real" -> Wrapped("factor", Wrapped("float", Token(t[2])))
    [] t[1] \in {"var", "elem"} -> Wrapped("factor", Var(t))
    [] t[1] = "call" ->
         Wrapped("factor", node("call", <<Token(t[2]), Token("("), Args(t[3]), Token(")")>>))
    [] OTHER -> node("factor", <<Token("("), Expression(t), Token(")")>>)

RECURSIVE Term(_)
Term(t) ==
  IF t[1] = "bin" /\ t[2] \in {"mul", "div"}
  THEN node("term", <<Term(t[3]), Op("mulop", t[2]), FactorOf(t[4])>>)
  ELSE Wrapped("term", FactorOf(t))

RECURSIVE Additive(_)
Additive(t) ==
  IF t[1] = "bin" /\ t[2] \in {"add", "sub"}
  THEN node("additive-expression", <<Additive(t[3]), Op("addop", t[2]), Term(t[4])>>)
  ELSE Wrapped("additive-expression", Term(t))

Expression(t) ==
  IF t[1] = "assign" THEN node("expression", <<Var(t[2]), Token("="), Expression(t[3])>>)
  ELSE Wrapped("expression",
         IF t[1] = "bin" /\ t[2] \in Relops
         THEN node("simple-expression", <<Additive(t[3]), Op("relop", t[2]), Additive(t[4])>>)
         ELSE Wrapped("simple-expression", Additive(t)))

StatementOf(t) ==
  Wrapped("statement",
    IF t[1] = "return"
    THEN node("return-stmt", <<Token("return"), Expression(t[2]), Token(";")>>)
    ELSE node("expression-stmt", <<Expression(t), Token(";")>>))

TypeSpec(name) == Wrapped("type-specifier", Token(name))

Scalar(t, x)   == node("var-declaration", <<TypeSpec(t), Token(x), Token(";")>>)
Array(t, x, n) == node("var-declaration", <<TypeSpec(t), Token(x), Token("["), Token(n), Token("]"),
                                            Token(";")>>)

Pointer(t, x) == node("param", <<TypeSpec(t), Token(x), Token("[]")>>)

Function(t, locals, trees) ==
  node("fun-declaration",
    <<TypeSpec(t), Token("f"), Token("("),
      Wrapped("params", Wrapped("param-list", Pointer("int", "q"))), Token(")"),
      node("compound-stmt",
        <<Token("{"),
          List("local-declarations", <<>>, locals, node("local-declarations", <<>>)),
          List("statement-list", <<>>, [k \in DOMAIN trees |-> StatementOf(trees[k])],
               node("statement-list", <<>>)),
          Token("}")>>)>>)

Program(globals, fun) ==
  Wrapped("program",
    List("declaration-list", <<>>,
         [k \in 1 .. Len(globals) + 1 |->
            Wrapped("declaration", IF k > Len(globals) THEN fun ELSE globals[k])], <<>>))

Globals == <<Scalar("int", "gi"), Scalar("float", "gf")>>
Locals  == <<Scalar("int", "x"), Scalar("float", "y"), Array("int", "a", 2)>>

Zero == <<Array("float", "z", 0)>>

---------------------------------------------------------------------------
(* next, half, mix and first change nothing, set writes gi, again is a    *)
(* call that comes back to the function itself.                            *)
F(params, t, sets) == [params |-> params, ret |-> t, sets |-> sets]

Library ==
  [next |-> F(<<"i32">>, "i32", {}), half |-> F(<<"f32">>, "f32", {}),
   mix |-> F(<<"i32", "f32">>, "f32", {}),
   first |-> F(<<"i32*">>, "i32", {}), again |-> F(<<"i32">>, "i32", {})]

Setting == [set |-> F(<<"i32">>, "i32", {"gi"})] @@ Library

S(gs, ls, st, t, fs) == [program |-> Program(gs, Function(t, ls, st)), functions |-> fs]

N(n) == <<"num", n>>
R(n, d) == <<"real", <<n, d>>>>
V(x) == <<"var", x>>
E(x, t) == <<"elem", x, t>>
B(op, l, r) == <<"bin", op, l, r>>
C(f, t) == <<"call", f, <<t>>>>
Mix(t, u) == <<"call", "mix", <<t, u>>>>
A(x, t) == <<"assign", x, t>>
Re(t) == <<"return", t>>

Ops == {"lt", "ne", "add", "div"}

Atoms == {N(1), R(3, 2), V("x"), V("y"), V("gi")}

Simple == {B(op, l, r) : op \in Ops \cup {"ge", "gt", "le", "eq", "sub", "mul"}, l \in Atoms,
                         r \in Atoms \ {V("gi")}}
Nested == {B(op, B(o, l, r), m) : op \in {"eq", "sub", "mul"}, o \in {"lt", "add"},
                                  l \in Atoms, r \in {N(2), R(1, 2), V("y")}, m \in Atoms} \cup
          {B("sub", m, B(o, l, r)) :
             o \in {"gt", "div"}, l \in Atoms, r \in {N(2), V("y")}, m \in Atoms}

Indices == {N(1), V("x"), R(3, 2), B("lt", V("x"), N(1)), B("sub", N(0), V("x")),
            C("next", B("sub", N(0), N(2))), C("first", V("a")), C("first", V("q"))}

Elements == {E(ar, i) : ar \in {"a", "q"}, i \in Indices}

Called == {C(f, t) : f \in {"next", "half"}, t \in Atoms \cup {B("lt", V("x"), V("y"))}} \cup
          {C("next", e) : e \in Elements} \cup {C("half", A(V("x"), V("y")))} \cup
          {Mix(t, u) : t, u \in Atoms \cup {A(V("x"), N(2)), E("a", N(1)), C("next", N(3))}}

(* One statement of each form around a tree.                               *)
Around(t) ==
  {<<A(V(x), t)>> : x \in {"x", "y"}} \cup
  {<<Re(t)>>, <<A(E("a", B("lt", t, N(2))), t), Re(V("x"))>>}

(* A global is set, maybe set again or changed by a call, and used.        *)
GlobalsSet ==
  {<<A(V(g), t), u, A(V("x"), B("add", V(g), N(1))), Re(B("mul", V(g), V("x")))>> :
     g \in {"gi", "gf"}, t \in {N(3), R(1, 2), V("x"), B("lt", N(1), N(2))},
     u \in {C("next", N(1)), C("again", N(1)), A(V("gi"), V("y")), A(V("gf"), N(2)),
            A(V("x"), B("div", N(1), N(0)))}}

Sets == {<<A(V("gi"), N(3)), C("set", V("gi")), Re(V("gi"))>>}

Trees == Simple \cup Nested \cup Elements \cup Called

MCSources ==
  {S(Globals, Locals, st, t, Library) :
     st \in UNION {Around(e) : e \in Trees} \cup GlobalsSet, t \in {"int", "float"}} \cup
  {S(Globals, Locals, st, "int", Setting) : st \in Sets} \cup
  {S(Globals, Zero \o Locals, <<A(V("x"), N(1))>>, "int", Library),
   S(Zero \o Globals, Locals, <<A(V("x"), N(1))>>, "int", Library)}

(* The variables are never 0 where they divide.                            *)
MCEnvs ==
  {[c \in {<<"gi", 0>>, <<"gf", 0>>, <<"x", 0>>, <<"y", 0>>} \cup ({"a", "q"} \X {0, 1, 2}) |->
      CASE c[1] = "gi" -> <<"int", 3>>
        [] c[1] = "gf" -> <<"float", <<1, 4>>>>
        [] c[1] = "x"  -> <<"int", x>>
        [] c[1] = "y"  -> <<"float", y>>
        [] OTHER       -> <<"int", c[2]>>] : x \in {1, 2, -1}, y \in {<<1, 2>>, <<3, 2>>}}
=============================================================================

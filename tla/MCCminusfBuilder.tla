---------------------------- MODULE MCCminusfBuilder ----------------------------
(****************************************************************************)
(* Functions with one name x: a global, a parameter or none, and redeclared *)
(* in some blocks.  Statements are nested up to four deep in the body, with *)
(* every combination of returns in their branches.                          *)
(****************************************************************************)
EXTENDS CminusfBuilder

Plain   == [var |-> "x", indexed |-> FALSE]
Element == [var |-> "x", indexed |-> TRUE]

Expr(e) == [kind |-> "expr", expr |-> e]
Return  == [kind |-> "return", value |-> FALSE, expr |-> Plain]
ReturnElement == [kind |-> "return", value |-> TRUE, expr |-> Element]
Block(decls, stmts) == [kind |-> "block", decls |-> decls, stmts |-> stmts]

Ifs(thens)           == [kind : {"if"}, expr : {Plain}, then : thens]
IfElses(thens, elses) == [kind : {"ifelse"}, expr : {Plain}, then : thens, else : elses]
Whiles(bodies)       == [kind : {"while"}, expr : {Plain, Element}, body : bodies]
Pairs(decls, S, T)   == {Block(decls, <<s, t>>) : s \in S, t \in T}

Simple  == {Expr(Plain), Return}
Level1  == Simple \cup {Expr(Element)} \cup Ifs(Simple) \cup IfElses(Simple, Simple)
           \cup Whiles(Simple) \cup Pairs(<<"x">>, Simple, Simple)
Level2  == Level1 \cup Ifs(Level1) \cup Whiles(Level1)
           \cup IfElses(Level1, Level1)
           \cup Pairs(<<>>, Level1, Simple) \cup Pairs(<<"x">>, Simple, Level1)

Level3  == Ifs(Level2) \cup IfElses(Level2, {Return}) \cup Whiles(Level2)

MCFunctions ==
  [void : {FALSE}, params : {{}, {"x"}}, body : Pairs(<<>>, Level2, Simple)] \cup
  [void : {FALSE}, params : {{}}, body : Pairs(<<>>, Level3, {Expr(Plain)})] \cup
  [void : {FALSE}, params : {{"x"}}, body : Pairs(<<"x">>, Level2, {ReturnElement})] \cup
  [void : {TRUE}, params : {{}}, body : Pairs(<<"x">>, Level2, {Expr(Plain)})]

MCStatements ==
  [void \in BOOLEAN |->
     {f.body : f \in {g \in MCFunctions : g.void = void}} \cup Level2 \cup
     IF void THEN {} ELSE Level3 \cup {ReturnElement}]
================================================================================

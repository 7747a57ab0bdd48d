-------------------------- MODULE MCCommonSubExper --------------------------
EXTENDS CommonSubExper, TLC

I(id, kind, x, y) == [id |-> id, kind |-> kind, x |-> x, y |-> y]

Op(id, x, y)  == I(id, "op", x, y)
Cmp(id, x, y) == I(id, "cmp", x, y)
Gep(id, x, y) == I(id, "gep", x, y)
Load(id, x)   == I(id, "load", x, "none")
Ret(x)        == I("ret", "ret", x, "none")
St(id, x, y)  == I(id, "store", x, y)
Ca(id, f)     == I(id, "call", f, "none")

(* Terms, cut where they get long: two that are cut may be the same.       *)
MCArith(x, y) ==
  LET term == <<"(">> \o x \o y IN SubSeq(term, 1, IF Len(term) < 7 THEN Len(term) ELSE 7)

(* Functions: write stores to a global, via calls it, twice calls via,     *)
(* own stores to an array of its own, pure does nothing; output prints;    *)
(* main prints and writes, and again calls main.                           *)
F(external, args, stores, calls) ==
  [external |-> external, args |-> args, main |-> FALSE, stores |-> stores, calls |-> calls]

Funs ==
  [write |-> F(FALSE, FALSE, {"L", "G"}, {}), via   |-> F(FALSE, FALSE, {}, {"write", "pure"}),
   twice |-> F(FALSE, FALSE, {}, {"via"}),    own   |-> F(FALSE, FALSE, {"L"}, {"pure"}),
   pure  |-> F(FALSE, FALSE, {}, {"input"}),  input |-> F(TRUE, FALSE, {}, {}),
   output |-> F(TRUE, TRUE, {}, {}),
   main  |-> [F(FALSE, FALSE, {"S"}, {"twice", "output"}) EXCEPT !.main = TRUE],
   again |-> F(FALSE, FALSE, {}, {"main", "pure"})]

(* Two objects for the constant 1.                                         *)
Constants == [x \in {"0", "1", "1'"} |-> IF x = "0" THEN <<"0">> ELSE <<"1">>]

P(list, succs, body, beyond) ==
  [list |-> list, succs |-> succs, code |-> body, funs |-> Funs, value |-> Constants,
   beyond |-> beyond, moved |-> {}, phis |-> <<>>]

Phi(b, from) == [block |-> b, from |-> from]

(* Which array the argument is matters to a function that also uses G, and *)
(* the element i picks to one that also uses offset 0.                     *)
Uses(p, x, y) ==
  \E b \in DOMAIN p.code : \E k \in DOMAIN p.code[b] :
    p.code[b][k].kind = "gep" /\ p.code[b][k].x \in x /\ p.code[b][k].y \in y

WithArrays(ps) ==
  UNION {{[alias |-> a, index |-> (<<"i">> :> v @@ <<"1">> :> 1)] @@ p :
            a \in IF Uses(p, {"G"}, {"0", "i"}) THEN {"A", "G"} ELSE {"A"},
            v \in IF Uses(p, {"G", "L", "A"}, {"0"}) THEN {0, 1} ELSE {1}} : p \in ps}

(* The first two instructions are addresses, at a constant or at the       *)
(* unknown index i; then loads of them and of S with one change between.   *)
Addresses ==
  {<<Gep("p", b[1], o), Gep("q", b[2], u)>> :
     b \in {<<"G", "G">>, <<"L", "L">>, <<"A", "A">>, <<"G", "A">>, <<"A", "G">>, <<"L", "A">>},
     o \in {"0", "i"}, u \in {"0", "i"}}
Reads(id) == {Load(id, x) : x \in {"p", "q", "S"}}
Changes == {St("s", "i", x) : x \in {"p", "q", "S"}} \cup
           {Ca("c", f) : f \in {"write", "twice", "own", "output"}}

Same == [p |-> "null", q |-> "null"]
Own  == [p |-> "p", q |-> "q"]

(* Geps on the argument whose third operands happen to be equal address    *)
(* the same element here.                                                  *)
OneOffset(a) == (a[1].x = "A" /\ a[2].x = "A") => a[1].y = a[2].y

Sum(x, y) == <<Op("t", x, y), Ret("t")>>

Line == {P(<<"e">>, [e |-> {}], [e |-> a \o <<l, m, n>> \o Sum("l", "n")], b) :
           a \in {a \in Addresses : OneOffset(a)}, l \in {Load("l", "p"), Load("l", "S")}, m \in Changes,
           n \in Reads("n"), b \in {Same}}

LineOwn == {P(<<"e">>, [e |-> {}], [e |-> a \o <<l, m, n>> \o Sum("l", "n")], Own) :
              a \in {a \in Addresses : a[1].x = "A" /\ a[2].x = "A"},
              l \in {Load("l", "p")}, m \in Changes, n \in {Load("n", "q")}}

Loop == {P(<<"e", "h", "b", "n">>, [e |-> {"h"}, h |-> {"b", "n"}, b |-> {"h"}, n |-> {}],
           [e |-> a \o <<l>>, h |-> <<Load("k", l.x), Op("o", "l", "i")>>,
            b |-> <<Op("u", "l", "i"), m>>,
            n |-> <<n, Op("v", "n", "i")>> \o Sum("k", "v")], Same) :
           a \in {<<Gep("p", "G", "0"), Gep("q", "A", "i")>>,
                  <<Gep("p", "L", "i"), Gep("q", "L", "0")>>},
           l \in Reads("l"), m \in Changes, n \in Reads("n")}

(* if (c) ..: the join, where the pass hangs.                              *)
If == {P(<<"e", "t", "n">>, [e |-> {"t", "n"}, t |-> {"n"}, n |-> {}],
         [e |-> <<Op("o", "i", "i")>>, t |-> <<Op("u", "i", "i")>>, n |-> Sum("i", "i")], Same)}

(* a[i]: the address is computed in the normal block, and used in the next *)
(* one, which the block of the exception also leads to.                    *)
Access == {[P(<<"e", "x", "m", "n">>, [e |-> {"x", "m"}, x |-> {"n"}, m |-> {"n"}, n |-> {}],
              [e |-> <<Op("o", "i", y), Cmp("d", "o", "0")>>, x |-> <<Ca("c", "output")>>,
               m |-> <<Gep("p", g, "o")>>, n |-> <<Load("l", "p"), Op("u", "i", "1'")>> \o Sum("l", "u")],
              Same) EXCEPT !.phis = w] :
             g \in {"G", "L", "A"}, y \in {"1", "i"},
             w \in {<<>>, [w |-> Phi("n", [x |-> "0", m |-> "o"])]}}

(* Constants as objects, in expressions, indices and comparisons.          *)
Literals == {P(<<"e">>, [e |-> {}],
               [e |-> <<Op("o", x[1], y[1]), Op("u", x[2], y[2]), Gep("p", "L", y[1]),
                        Gep("q", "L", y[2]), Load("l", "p"), Cmp("d", "u", "o"), St("s", "d", "p"),
                        Load("n", "q"), Op("w", "l", "n"), Ret("w")>>], Same) :
               x \in {<<"1", "1">>, <<"1", "1'">>, <<"i", "i">>, <<"0", "1">>},
               y \in {<<"1", "1">>, <<"1", "1'">>, <<"i", "i">>, <<"0", "1">>}}

(* while (..) with the phis of Mem2Reg at its start: v counts, x and y     *)
(* change places, and one that has no value before the loop.               *)
Phis == {[P(<<"e", "h", "b", "n">>, [e |-> {"h"}, h |-> {"b", "n"}, b |-> {"h"}, n |-> {}],
            [e |-> <<Op("o", "i", "1")>>, h |-> <<Op("k", "v", "i"), Gep("p", "L", "v")>>,
             b |-> <<Op("u", x, "1'"), Op("r", "v", "i"), Gep("q", "L", x), Load("l", "q"), m>>,
             n |-> <<Load("a", "p"), Op("j", "x", "z")>> \o Sum("a", "j")], Same)
          EXCEPT !.phis =
            [v |-> Phi("h", [e |-> "0", b |-> "u"]), x |-> Phi("h", [e |-> "o", b |-> "y"]),
             y |-> Phi("h", [e |-> "i", b |-> z]), z |-> Phi("h", [b |-> "r"])]] :
          x \in {"v", "i"}, z \in {"x", "u", "l"}, m \in {St("s", "l", "p"), Ca("c", "write")}}

(* if (a) { while (b) .. } else ..: only one path stands before the join,  *)
(* or none, if the other has a loop too or returns.                        *)
Behind == {P(<<"e", "t", "f", "n", "h", "b", "x", "g", "c", "y">>,
             [e |-> {"t", "f"}, t |-> {"h"}, f |-> f, n |-> {}, h |-> {"b", "x"}, b |-> {"h"},
              x |-> {"n"}, g |-> {"c", "y"}, c |-> {"g"}, y |-> {"n"}],
             [e |-> <<Op("o", "i", "1"), Load("k", "S")>>, t |-> <<Op("u", "i", "1'")>>, f |-> <<>>,
              n |-> <<n, Op("w", "i", "1")>> \o Sum("n", "w"), h |-> <<>>, b |-> <<m>>,
              x |-> <<Load("l", "S")>>, g |-> <<Op("v", "u'", "1")>>, c |-> <<>>, y |-> <<>>], Same) :
             f \in {{"g"}}, m \in {St("s", "o", "S"), Ca("c", "twice")}, n \in {Load("n", "S")}}

(* if (a) { while (b) ..; x = ..; } else return; ..: what is read then     *)
(* stands behind.                                                          *)
Late == {P(<<"e", "t", "f", "n", "h", "b", "x">>,
           [e |-> {"t", "f"}, t |-> {"h"}, f |-> {}, n |-> {}, h |-> {"b", "x"}, b |-> {"h"}, x |-> {"n"}],
           [e |-> <<Op("o", "i", "1"), Gep("p", "G", "i"), Load("k", "p")>>, t |-> <<>>, f |-> <<I("end", "ret", "o", "none")>>,
            n |-> <<Op("v", "u", "1"), Op("w", y, "1'"), Load("a", "q"), m, Load("d", z)>> \o Sum("w", "d"),
            h |-> <<>>, b |-> <<>>,
            x |-> <<Op("u", "i", "1'"), Gep("q", "G", "i"), Load("l", "q"), Op("j", "u", "1")>>], Same) :
           y \in {"o", "u", "i"}, z \in {"p", "q"}, m \in {St("s", "v", "p"), St("s", "a", "q")}}

(* if (c) while (d) ...: the join comes before the loop in the list.       *)
IfLoop == {P(<<"e", "t", "n", "h", "b", "x">>,
             [e |-> {"t", "n"}, t |-> {"h"}, h |-> {"b", "x"}, b |-> {"h"}, x |-> {"n"}, n |-> {}],
             [e |-> <<Gep("p", "G", "i"), Gep("q", "A", "0"), l, Op("o", "l", "i")>>,
              t |-> <<Load("k", l.x), Op("u", "l", "i")>>, h |-> <<>>, b |-> <<m>>,
              x |-> <<Load("y", l.x), Gep("w", "G", "i")>>,
              n |-> <<n, Op("v", "l", "i")>> \o Sum("n", "v")], Same) :
             l \in Reads("l"), m \in Changes, n \in Reads("n")}

(* LoopInvHoist has moved u, or u and k, in front of the loop.             *)
Moved == {[P(<<"e", "h", "b", "n">>, [e |-> {"h"}, h |-> {"b", "n"}, b |-> {"h"}, n |-> {}],
             [e |-> <<Op("o", "i", "0"), Op("u", "i", x), Op("k", y, "i")>>, h |-> <<>>,
              b |-> <<Op("v", "k", "u"), Op("w", y, "i")>>, n |-> Sum("o", "i")], Same)
           EXCEPT !.moved = m] :
          x \in {"0", "1"}, y \in {"u", "o"}, m \in {{"u"}, {"u", "k"}}}

MCPrograms == WithArrays(Line \cup LineOwn \cup Loop \cup If \cup IfLoop \cup Moved \cup
                         Access \cup Literals \cup Phis \cup Behind \cup Late)
=============================================================================

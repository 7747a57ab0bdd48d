------------------------ MODULE MCDeadCodeEliminate ------------------------
EXTENDS DeadCodeEliminate

I(id, kind, ops) == [id |-> id, kind |-> kind, ops |-> ops]
Ret(id, ops) == I(id, "ret", ops)

P(order, code, args, alias, index) ==
  [funcs |-> order, body |-> code, args |-> args, external |-> {"input", "output"},
   alias |-> alias, index |-> index]

Main == << <<I("mi", "call", <<"input">>), I("mc", "call", <<"f", "mi">>), Ret("mr", <<>>)>> >>

---------------------------------------------------------------------------
(* f stores and loads through two addresses, with a call of g among them;  *)
(* g writes, reads, or does nothing.                                       *)

G(k) ==
  CASE k = "write" -> << <<I("gs", "store", <<"1", "S">>), Ret("gr", <<"1">>)>> >>
    [] k = "read"  -> << <<I("gp", "gep", <<"G", "0">>), I("gl", "load", <<"gp">>),
                           Ret("gr", <<"gl">>)>> >>
    [] k = "pure"  -> << <<Ret("gr", <<"1">>)>> >>

Moves(n, places) ==
  {I(n, "store", <<"i", a>>) : a \in places} \cup {I(n, "load", <<a>>) : a \in places} \cup
  {I(n, "call", <<"g">>)}

Geps == {<<I("p", "gep", a[1]), I("q", "gep", a[2])>> :
           a \in {<< <<"G", "0">>, <<"G", "0">> >>, << <<"G", "0">>, <<"G", "i">> >>,
                  << <<"L", "0">>, <<"L", "1">> >>, << <<"A", "0">>, <<"A", "1">> >>,
                  << <<"A", "0">>, <<"G", "0">> >>, << <<"L", "i">>, <<"G", "i">> >>}}

Shown(is) ==
  LET values == SelectSeq(is, LAMBDA n : n.kind # "store")
  IN  [k \in DOMAIN values |-> I("o" \o values[k].id, "call", <<"output", values[k].id>>)]

InF(blocks, k, al, ix) ==
  P(<<"g", "f", "main">>, [main |-> Main, f |-> blocks, g |-> G(k)],
    [main |-> <<>>, f |-> <<"i">>, g |-> <<>>], al, ix)

(* What g does, which array A is and what i is, where it makes a difference.*)
Matters(cond, values, otherwise) == IF cond THEN values ELSE {otherwise}

Memory ==
  UNION {
    {InF(<<a \o is \o Shown(is) \o <<Ret("fr", <<>>)>> >>, k, al, ix) :
       k \in Matters(\E n \in ToSet(is) : n.kind = "call", {"write", "read", "pure"}, "pure"),
       al \in Matters(a[1].ops[1] = "A", {"A", "G"}, "A"),
       ix \in Matters(a[2].ops = <<"G", "i">>, {"0", "1"}, "1")} :
    a \in Geps, is \in Moves("x", {"p", "q"}) \X Moves("y", {"p", "q"}) \X Moves("z", {"p", "q"})}

TwoBlocks ==
  {InF(<<a \o <<x, y>>, <<I("r", "gep", <<"G", "0">>), I("s", "store", <<"1", "S">>), z, u>> \o
            Shown(<<x, y, z, u>>) \o <<Ret("fr", <<>>)>> >>, k, "A", "1") :
     a \in {<<I("p", "gep", <<"G", "0">>)>>}, x \in Moves("x", {"p", "S"}),
     y \in Moves("y", {"p"}), z \in Moves("z", {"r", "S"}), u \in Moves("u", {"p", "S"}),
     k \in {"write", "pure"}}

---------------------------------------------------------------------------
(* main reads the result of f or does not, f calls g with its argument or  *)
(* does not, and nobody calls h and k, which may call the others.          *)

Results(ret, used, eff) ==
  LET call == <<I("fc", "call", <<"g", "i">>)>>
  IN  P(<<"g", "f", "h", "k", "main">>,
        [main |-> << <<I("mi", "call", <<"input">>), I("mc", "call", <<"f", "mi">>)>> \o
                     (IF used THEN <<I("mo", "call", <<"output", "mc">>)>> ELSE <<>>) \o
                     <<Ret("mr", <<>>)>> >>,
         f |-> << (IF ret[1] = "nocall" THEN <<I("fc", "op", <<"i", "1">>)>> ELSE call) \o
                  <<Ret("fr", <<ret[2]>>)>> >>,
         g |-> << eff[1] \o <<Ret("gr", <<eff[2]>>)>> >>,
         h |-> << <<I("hc", "call", <<ret[3], "1">>), Ret("hr", <<>>)>> >>,
         k |-> << <<I("kc", "call", <<"h">>), Ret("kr", <<>>)>> >>],
        [main |-> <<>>, f |-> <<"i">>, g |-> <<"j">>, h |-> <<>>, k |-> <<>>], "A", "1")

Calls ==
  {Results(<<c, r, h>>, used, <<e, v>>) :
     c \in {"call", "nocall"}, r \in {"fc", "i", "1"}, h \in {"f", "g", "h", "output"},
     used \in BOOLEAN,
     e \in {<<>>, <<I("gs", "store", <<"j", "S">>)>>, <<I("gi", "call", <<"input">>)>>,
            <<I("go", "call", <<"output", "j">>)>>, <<I("gl", "load", <<"S">>)>>},
     v \in {"j", "1"}}

MCPrograms == Memory \cup TwoBlocks \cup Calls
=============================================================================

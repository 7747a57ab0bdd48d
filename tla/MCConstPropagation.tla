-------------------------- MODULE MCConstPropagation --------------------------
(****************************************************************************)
(* ConstPropagation on functions as the builder and Mem2Reg make them, with *)
(* one phi in each join.  Blocks have the numbers in which the builder      *)
(* creates them, which is their order in the function's list.               *)
(****************************************************************************)
EXTENDS ConstPropagation

MCBlocks == 1..10

Consts == {Zero, One, Unknown}

Arms(n, arms) == [b \in Blocks |-> IF b <= n THEN arms[b] ELSE <<>>]

IfIf    == Arms(7, <<<<2, 3>>, <<4>>, <<4>>, <<5, 6>>, <<7>>, <<7>>, <<>>>>)
IfInIf  == Arms(7, <<<<2, 3>>, <<5, 6>>, <<4>>, <<>>, <<7>>, <<7>>, <<4>>>>)
While   == Arms(4, <<<<2>>, <<3, 4>>, <<2>>, <<>>>>)
IfWhile == Arms(6, <<<<2, 3>>, <<4>>, <<>>, <<5, 6>>, <<4>>, <<3>>>>)
WhileIf == Arms(6, <<<<2>>, <<3, 4>>, <<5, 6>>, <<>>, <<6>>, <<2>>>>)
WhileIfIf == Arms(10, <<<<2>>, <<3, 4>>, <<5, 6>>, <<>>, <<6>>, <<7, 8>>, <<9, 10>>, <<2>>, <<10>>,
                      <<8>>>>)
Deep    == Arms(10, <<<<2, 3>>, <<5, 6>>, <<4>>, <<>>, <<8, 9>>, <<7>>, <<4>>, <<10>>, <<10>>,
                      <<7>>>>)

(* The pairs of a phi, in either order. *)
Pairs(a, va, b, vb) ==
  LET x == [val |-> va, from |-> a]
      y == [val |-> vb, from |-> b]
  IN  {<<x, y>>, <<y, x>>}

(* A variable that has a value on one of the two ways only. *)
OnePair(a, va, b, vb) == {<<[val |-> va, from |-> a]>>, <<[val |-> vb, from |-> b]>>}

Function(n, arms, reads, ps) ==
  [order |-> [i \in 1..n |-> i], arms |-> arms,
   reads |-> [b \in Blocks |-> IF b \in DOMAIN reads THEN reads[b] ELSE Unknown],
   phi   |-> [b \in Blocks |-> IF b \in DOMAIN ps THEN ps[b] ELSE <<>>]]

OnIfIf(c, v) ==
  UNION {{Function(7, IfIf, (1 :> t1) @@ (4 :> t4) @@ (7 :> 7), (4 :> p) @@ (7 :> q)) :
    p \in Pairs(2, x2, 3, x3), q \in Pairs(5, x5, 6, x6)} :
    t1 \in c, t4 \in c \cup {4}, x2 \in v, x3 \in v, x5 \in v \cup {4}, x6 \in v \cup {4}}

OnIfInIf(c, v) ==
  UNION {{Function(7, IfInIf, (1 :> t1) @@ (2 :> t2) @@ (4 :> 4), (4 :> p) @@ (7 :> q)) :
    p \in Pairs(7, x7, 3, x3), q \in Pairs(5, x5, 6, x6)} :
    t1 \in c, t2 \in c, x3 \in v, x5 \in v, x6 \in v, x7 \in v \cup {7}}

OnWhile(c, v) ==
  UNION {{Function(4, While, (2 :> t2) @@ (4 :> 2), 2 :> p) :
    p \in Pairs(1, x1, 3, x3)} : t2 \in c \cup {2}, x1 \in v, x3 \in v \cup {2}}

OnIfWhile(c, v) ==
  UNION {{Function(6, IfWhile, (1 :> t1) @@ (4 :> t4) @@ (3 :> 3), (4 :> p) @@ (3 :> q)) :
    p \in Pairs(2, x2, 5, x5), q \in Pairs(1, x1, 6, x6)} :
    t1 \in c, t4 \in c \cup {4}, x2 \in v, x5 \in v \cup {4}, x1 \in v, x6 \in {Unknown, 4}}

OnWhileIf(c, v) ==
  UNION {{Function(6, WhileIf, (2 :> t2) @@ (3 :> t3) @@ (4 :> 2), (2 :> p) @@ (6 :> q)) :
    p \in Pairs(1, x1, 6, x6), q \in Pairs(5, x5, 3, x3)} :
    t2 \in c \cup {2}, t3 \in c, x1 \in v, x6 \in v \cup {6}, x5 \in {Zero, 2}, x3 \in {Unknown, 2}}

PartlyOnIfIf(c, v) ==
  UNION {{Function(7, IfIf, (1 :> t1) @@ (4 :> t4) @@ (7 :> 7), (4 :> p) @@ (7 :> q)) :
    p \in OnePair(2, x, 3, x), q \in Pairs(5, x5, 6, x6) \cup OnePair(5, x5, 6, x6)} :
    t1 \in c, t4 \in c \cup {4}, x \in v, x5 \in v \cup {4}, x6 \in v \cup {4}}

PartlyOnWhileIf(c, v) ==
  UNION {{Function(6, WhileIf, (2 :> t2) @@ (3 :> t3) @@ (4 :> r), (2 :> p) @@ (6 :> q)) :
    p \in {<<[val |-> 6, from |-> 6]>>}, q \in Pairs(5, x5, 3, x3)} :
    t2 \in c \cup {2}, t3 \in c \cup {2}, x5 \in v \cup {2}, x3 \in v \cup {2}, r \in {2, Unknown}}

PartlyOnWhileIfIf(c, v) ==
  UNION {{Function(10, WhileIfIf, (3 :> t3) @@ (7 :> t7) @@ (4 :> 2),
                   (2 :> <<[val |-> 6, from |-> 8]>>) @@ (6 :> q)) :
    q \in Pairs(5, x5, 3, x3)} : t3 \in c, t7 \in c \cup {2}, x5 \in v, x3 \in v}

OnDeep(c, v) ==
  {Function(10, Deep, (1 :> t1) @@ (2 :> t2) @@ (5 :> t5) @@ (4 :> 4),
            (4 :> <<[val |-> 7, from |-> 7], [val |-> Unknown, from |-> 3]>>) @@
            (7 :> <<[val |-> 10, from |-> 10], [val |-> x6, from |-> 6]>>) @@
            (10 :> <<[val |-> x8, from |-> 8], [val |-> x9, from |-> 9]>>)) :
    t1 \in c, t2 \in c, t5 \in c, x6 \in v, x8 \in v, x9 \in v}

MCPrograms ==
  LET v == {Zero, Unknown}
  IN  OnIfIf(Consts, v) \cup OnIfInIf(Consts, v) \cup OnWhile(Consts, Consts)
      \cup OnIfWhile(Consts, v) \cup OnWhileIf(Consts, v) \cup OnDeep(Consts, v)
      \cup PartlyOnIfIf(Consts, v) \cup PartlyOnWhileIf(Consts, v)
      \cup PartlyOnWhileIfIf(Consts, v)

IfIfPrograms == OnIfIf(Consts, {Zero, Unknown})
================================================================================

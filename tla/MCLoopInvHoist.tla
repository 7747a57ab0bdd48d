----------------------------- MODULE MCLoopInvHoist -----------------------------
(****************************************************************************)
(* LoopInvHoist on a while, a while around an if, a while around a while,   *)
(* a while around two whiles, and a while around the access to an array, as *)
(* the builder makes them.  The code is a load x, an instruction a of       *)
(* constants or of x, and an instruction c of a, or of a and x.             *)
(****************************************************************************)
EXTENDS LoopInvHoist

CONSTANTS x, a, c

MCBlocks == 1..10
MCInstructions == {x, a, c}

(* 2 is the condition of the outer loop, 3 the start of its body. *)
While   == <<{2}, {3, 4}, {2}, {}, {}, {}, {}, {}, {}, {}>>
WhileIf == <<{2}, {3, 4}, {5, 6}, {}, {6}, {2}, {}, {}, {}, {}>>
Nest    == <<{2}, {3, 4}, {5}, {}, {6, 7}, {5}, {2}, {}, {}, {}>>
Row     == <<{2}, {3, 4}, {5}, {}, {6, 7}, {5}, {8}, {9, 10}, {8}, {2}>>

(* 5 is exphandBB, 6 is normalBB and 7 is outBB. *)
Access  == <<{2}, {3, 4}, {5, 6}, {}, {7}, {7}, {2}, {}, {}, {}>>

(* Every block lies above or below the blocks it dominates; so do operands  *)
(* and their users.                                                         *)
Addresses ==
  {[o \in MCBlocks \cup MCInstructions |->
      IF o \in MCBlocks THEN (IF up THEN o ELSE 11 - o)
      ELSE IF o = x THEN (IF first THEN 1 ELSE 3) ELSE IF o = a THEN 2
      ELSE (IF first THEN 3 ELSE 1)] : up \in BOOLEAN, first \in BOOLEAN}

Operands ==
  {[o \in MCInstructions |-> IF o = x THEN {} ELSE IF o = c THEN ofC ELSE ofA] :
     ofA \in {{}, {x}}, ofC \in {{a}, {a, x}}}

Kind == [o \in MCInstructions |-> IF o = x THEN "value" ELSE "pure"]

(* The places of x, a and c in turn, each dominated by the one before; with *)
(* the if c may also be where a was passed by.                              *)
Codes(g, used) ==
  LET below == [b \in used |-> {d \in used : Dominates(g, b, d)}]
      at(b, p, o) == IF p = b THEN <<o>> ELSE <<>>
  IN  UNION {UNION {{[b \in MCBlocks |-> at(b, p, x) \o at(b, q, a) \o at(b, r, c)]
                       : r \in IF g = WhileIf THEN used ELSE below[q]} : q \in below[p]} : p \in {1, 2, 3}}

On(g, used, stop) ==
  LET p == [succ |-> g, stop |-> stop]
  IN  {[succ |-> g, code |-> k, kind |-> Kind, ops |-> o, address |-> h, stop |-> stop] :
         k \in Codes(Taken(p), used), o \in Operands, h \in Addresses}

MCPrograms ==
  On(While, 1..4, {}) \cup On(WhileIf, 1..6, {}) \cup On(Nest, 1..7, {})
    \cup On(Row, 1..10, {}) \cup On(Access, 1..7, {5})

================================================================================

------------------------------ MODULE MCActiveVars ------------------------------
(****************************************************************************)
(* ActiveVars on every function over small connected graphs that mentions   *)
(* one value v, an argument or the result of one instruction, in SSA form.  *)
(* The sets of the pass keep each value apart from the others, so one value *)
(* meets every case.                                                        *)
(****************************************************************************)
EXTENDS ActiveVars, SmallCfgs

CONSTANT v

MCBlocks == 1..4

Phi(from, d) == [def |-> d, ops |-> {v}, from |-> from \X {v}]
Read     == [def |-> None, ops |-> {v}, from |-> {}]
Define   == [def |-> v, ops |-> {}, from |-> {}]

(* A block without and with the definition of v, as a phi or not. *)
Uses(g, b) ==
  LET phis == {<<Phi(from, None)>> : from \in SUBSET Preds(g, b) \ {{}}}
      body == {<<>>, <<Read>>}
  IN  body \cup {p \o r : p \in phis, r \in body}

Defs(g, b) ==
  LET some == SUBSET Preds(g, b) \ {{}}
      phis == {<<Phi(from, None)>> : from \in some} \cup {<<>>}
      body == {<<Define>>, <<Define, Read>>}
      self == {<<Phi(from, v)>> : from \in some}
  IN  {p \o r : p \in phis, r \in body}
      \cup {d \o p : d \in self \cup {<<Define>>}, p \in phis}
      \cup {d \o <<Read>> : d \in self}

(* In SSA form the definition dominates every read, and the predecessor of  *)
(* every phi operand; an argument is defined before the entry.              *)
ReadsAt(c, b)  == \E i \in 1..Len(c[b]) : c[b][i].from = {} /\ c[b][i].ops # {}
PhisFrom(c, b) == UNION {{p[1] : p \in c[b][i].from} : i \in 1..Len(c[b])}

SSA(c, dominated) ==
  \A b \in Blocks : /\ ReadsAt(c, b) => b \in dominated
                    /\ PhisFrom(c, b) \subseteq dominated

Functions(g) ==
  LET uses == [b \in Blocks |-> Uses(g, b)]
      defs == [b \in Blocks |-> Defs(g, b)]
      codes(d) ==
        LET bodies == [b \in Blocks |-> IF b = d THEN defs[b] ELSE uses[b]]
        IN  {<<c1, c2, c3, c4>> :
               c1 \in bodies[1], c2 \in bodies[2], c3 \in bodies[3], c4 \in bodies[4]}
      ofResult(d) ==
        LET dominated == {b \in Blocks : Dominates(g, d, b)}
        IN  {c \in codes(d) : SSA(c, dominated)}
  IN  {[succ |-> g, code |-> c] : c \in codes(0) \cup UNION {ofResult(d) : d \in Blocks}}

(* if-else, while, a body of two blocks with an exit after it, and a loop   *)
(* of one block as ConstPropagation leaves it of while (1). *)
Shapes == {<<{2, 3}, {4}, {4}, {}>>, <<{2}, {3, 4}, {2}, {}>>, <<{2, 4}, {3}, {2, 4}, {}>>,
           <<{2, 3}, {2}, {4}, {}>>}

MCPrograms == UNION {Functions(g) : g \in Shapes}

================================================================================

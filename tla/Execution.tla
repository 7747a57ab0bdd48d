----------------------------- MODULE Execution -----------------------------
(***************************************************************************)
(* What running one function of LightIR means: the promise an optimisation *)
(* pass is held to.  Code outside src/ (clang and the machine) gives the   *)
(* IR this meaning; here it is reduced to what the passes tell apart.      *)
(*                                                                         *)
(* prog.code[b] lists the instructions of block b, records of an id, a     *)
(* kind and two operands; prog.succs[b] are the successors.  An operand is *)
(* the id of an instruction or of a phi, or the name of a constant object, *)
(* of an argument or of a base: the global array G, the local array L, the *)
(* array argument A (the array prog.alias), and the global scalar S, which *)
(* is its own address.  The phi w is at the start of prog.phis[w].block    *)
(* and reads prog.phis[w].from[a] on the way from block a, if a has a pair *)
(* (Mem2Reg.cpp:132 leaves out a path without a value).                    *)
(* A test may go either way.                                               *)
(***************************************************************************)
EXTENDS Integers, Sequences

CONSTANT Arith(_, _)  \* what an expression yields, from its operands' values

VARIABLES prog, at, regs, mem, result

vars == <<prog, at, regs, mem, result>>

Undef == <<"undef">>

Cells == ({"G", "L", "A"} \X {0, 1}) \cup {<<"S", 0>>}

Ids(p) == {n.id : n \in UNION {{p.code[b][k] : k \in DOMAIN p.code[b]} : b \in DOMAIN p.code}}

(* Two constant objects may have the same value.                           *)
Value(p, r, x) ==
  IF x \in DOMAIN r THEN r[x] ELSE IF x \in DOMAIN p.value THEN p.value[x] ELSE <<x>>

(* The element a value picks.                                              *)
Offset(p, v) == IF v \in DOMAIN p.index THEN p.index[v] ELSE 0

Address(p, r, x) == IF x = "S" THEN <<"S", 0>> ELSE Value(p, r, x)

(* The value an instruction leaves in its register.                        *)
Result(p, r, m, n) ==
  CASE n.kind = "op"   -> Arith(Value(p, r, n.x), Value(p, r, n.y))
    [] n.kind = "gep"  -> <<IF n.x = "A" THEN p.alias ELSE n.x, Offset(p, Value(p, r, n.y))>>
    [] n.kind = "load" ->
         IF Address(p, r, n.x) \in DOMAIN m THEN m[Address(p, r, n.x)] ELSE Undef
    [] OTHER           -> Undef

(* The functions of base and those that call one of them, through others.  *)
Callers(funs, base) ==
  {f \in DOMAIN funs :
     \A closed \in SUBSET DOMAIN funs :
       (\A g \in DOMAIN funs : (g \in base \/ funs[g].calls \cap closed # {}) => g \in closed)
       => f \in closed}

(* The functions that change memory their caller can see.                  *)
Writers(funs) == Callers(funs, {f \in DOMAIN funs : funs[f].stores \cap {"S", "G", "A"} # {}})

(* The memory an instruction leaves.  A writer may change every cell.      *)
Memory(p, r, m, n) ==
  CASE n.kind = "store" /\ Address(p, r, n.y) \in DOMAIN m ->
         [m EXCEPT ![Address(p, r, n.y)] = Value(p, r, n.x)]
    [] n.kind = "call" /\ n.x \in Writers(p.funs) -> [c \in DOMAIN m |-> <<"written by", n.x>>]
    [] OTHER -> m

(* The registers when block b is entered from block a: the phis of b all   *)
(* read at once, phi w what from[w] has for a.                             *)
Entered(p, r, from, a, b) ==
  [x \in DOMAIN r |->
     IF x \in DOMAIN p.phis /\ p.phis[x].block = b
     THEN IF a \in DOMAIN from[x] THEN Value(p, r, from[x][a]) ELSE Undef
     ELSE r[x]]

From(p) == [w \in DOMAIN p.phis |-> p.phis[w].from]

Start(p) == [block |-> p.list[1], next |-> 1]

Ahead(p, here) == here.next \in DOMAIN p.code[here.block]

Init ==
  /\ at = Start(prog)
  /\ regs = [id \in Ids(prog) \cup DOMAIN prog.phis |-> Undef]
  /\ mem = [c \in Cells |-> <<"initially", c>>]
  /\ result = Undef

(* One instruction of the function.                                        *)
Step ==
  /\ Ahead(prog, at)
  /\ LET n == prog.code[at.block][at.next]
     IN  /\ regs' = [regs EXCEPT ![n.id] = Result(prog, regs, mem, n)]
         /\ mem' = Memory(prog, regs, mem, n)
         /\ result' = IF n.kind = "ret" THEN Value(prog, regs, n.x) ELSE result
  /\ at' = [at EXCEPT !.next = @ + 1]
  /\ UNCHANGED prog

(* The branch at the end of a block.                                       *)
Branch ==
  /\ ~Ahead(prog, at)
  /\ \E s \in prog.succs[at.block] :
       /\ at' = [block |-> s, next |-> 1]
       /\ regs' = Entered(prog, regs, From(prog), at.block, s)
  /\ UNCHANGED <<prog, mem, result>>

Next == Step \/ Branch

Spec == Init /\ [][Next]_vars
=============================================================================

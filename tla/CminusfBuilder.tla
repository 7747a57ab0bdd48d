----------------------------- MODULE CminusfBuilder -----------------------------
(****************************************************************************)
(* CminusfBuilder on one function (src/cminusfc/cminusf_builder.cpp): how   *)
(* the visitor turns nested statements into basic blocks, what return_flag  *)
(* makes it skip, and which declaration a name is bound to.                 *)
(*                                                                          *)
(* The recursion of the visitor is the list todo: what is still to be       *)
(* visited, and what a visit does after a child has returned.  An           *)
(* expression is one use of a variable, plain or as an array element; its   *)
(* arithmetic and conversions are left out, the blocks that check an index  *)
(* are not.  Instructions and statements carry the path of the statement in *)
(* the syntax tree, and a use the path of the declaration it is bound to.   *)
(*                                                                          *)
(* When the function is built, the phase "exec" runs the blocks and the     *)
(* source side by side.  It models no code of the builder: the source side  *)
(* is the meaning C-minus gives to the statements.                          *)
(****************************************************************************)
EXTENDS Integers, Sequences, FiniteSetsExt, SequencesExt

CONSTANTS
  Names,      \* variables, all declared globally as well
  Functions,  \* the functions to build: [void, params, body]
  Statements  \* the statements in them, for void functions and for the others

(* A statement's parts are statements, and every name is declared.  A void  *)
(* function returns no value: for one that does the builder emits ret and   *)
(* goes on.                                                                 *)
ASSUME FunctionsAssumption ==
  /\ \A f \in Functions : f.void \in BOOLEAN /\ f.body \in Statements[f.void]
  /\ \A void \in BOOLEAN : \A n \in Statements[void] :
       /\ n.kind = "block" => n.stmts \in Seq(Statements[void])
       /\ n.kind \in {"if", "ifelse"} => n.then \in Statements[void]
       /\ n.kind = "ifelse" => n.else \in Statements[void]
       /\ n.kind = "while" => n.body \in Statements[void]
       /\ n.kind = "return" => ~(void /\ n.value)
       /\ n.kind \in {"expr", "if", "ifelse", "while"} => n.expr.var \in Names
       /\ n.kind = "return" /\ n.value => n.expr.var \in Names

VARIABLES
  fun,
  pc,
  todo,       \* visits and remainders of visits, the innermost first
  code,       \* the blocks of the function: sequences of instructions
  cur,        \* the insertion point of builder
  returnFlag,
  scope,      \* Scope::inner
  blk, idx,   \* where the blocks are executed
  cont        \* what the source still has to execute

buildVars == <<todo, code, cur, returnFlag, scope>>
execVars == <<blk, idx, cont>>
vars == <<fun, pc, buildVars, execVars>>

Stmt(node, path) == [task |-> "stmt", node |-> node, path |-> path]
Global == <<>>
Param  == <<0>>

Use(path, decl)       == [op |-> "use", at |-> path, decl |-> decl]
Except(path)          == [op |-> "except", at |-> path]
CondBr(path, yes, no) == [op |-> "condbr", at |-> path, yes |-> yes, no |-> no]
Br(to)                == [op |-> "br", to |-> to]
Ret                   == [op |-> "ret"]

IsTerminator(i) == i.op \in {"ret", "br", "condbr"}
Emit(c, b, i)   == [c EXCEPT ![b] = Append(@, i)]
NewBlocks(c, n) == c \o [i \in 1..n |-> <<>>]
Terminated(b)   == code[b] # <<>> /\ IsTerminator(Last(code[b]))

Find(x) == scope[Max({k \in 1..Len(scope) : x \in DOMAIN scope[k]})][x]

(* An element of an array: the index is evaluated and tested, a negative    *)
(* one calls neg_idx_except, and the element is used in a block of its own. *)
Evaluated(c, b, e, path) ==
  LET use      == Use(path, Find(e.var))
      exphand  == Len(c) + 1
      normal   == Len(c) + 2
      out      == Len(c) + 3
      tested   == Emit(Emit(NewBlocks(c, 3), b, use),
                       b, CondBr(Append(path, 0), normal, exphand))
      joined   == Emit(Emit(Emit(tested, normal, Br(out)),
                       exphand, Except(path)), exphand, Br(out))
  IN  IF e.indexed THEN [code |-> Emit(joined, out, use), cur |-> out]
                   ELSE [code |-> Emit(c, b, use), cur |-> b]

-------------------------------------------------------------------------------
Init ==
  /\ fun \in Functions
  /\ pc = "start"
  /\ todo = <<>>
  /\ code = <<>> /\ cur = 0
  /\ returnFlag = FALSE
  /\ scope = <<[x \in Names |-> Global]>>
  /\ blk = 1 /\ idx = 1 /\ cont = <<>>

StartFunction ==
  /\ pc = "start"
  /\ code' = <<<<>>>> /\ cur' = 1
  /\ scope' = Append(scope, [x \in fun.params |-> Param])
  /\ todo' = <<Stmt(fun.body, <<1>>)>>
  /\ pc' = "build"
  /\ UNCHANGED <<fun, returnFlag, execVars>>

AtTask(t) == pc = "build" /\ todo # <<>> /\ Head(todo).task = t
AtStmt(k) == AtTask("stmt") /\ ~returnFlag /\ Head(todo).node.kind = k
Here == Head(todo)

(* Every visit of a statement returns at once after a return statement. *)
SkipStmt ==
  /\ AtTask("stmt") /\ returnFlag
  /\ todo' = Tail(todo)
  /\ UNCHANGED <<fun, pc, code, cur, returnFlag, scope, execVars>>

(* ASTCompoundStmt: the declarations are bound in a new scope; the first of *)
(* two with the same name wins.                                             *)
CompoundStmt ==
  /\ AtStmt("block")
  /\ scope' = Append(scope, [x \in ToSet(Here.node.decls) |-> Here.path])
  /\ todo' = [i \in 1..Len(Here.node.stmts) |->
                 Stmt(Here.node.stmts[i], Append(Here.path, i))]
             \o <<[task |-> "exit scope"]>> \o Tail(todo)
  /\ UNCHANGED <<fun, pc, code, cur, returnFlag, execVars>>

ExitScope ==
  /\ AtTask("exit scope")
  /\ scope' = Front(scope)
  /\ todo' = Tail(todo)
  /\ UNCHANGED <<fun, pc, code, cur, returnFlag, execVars>>

ExpressionStmt ==
  LET done == Evaluated(code, cur, Here.node.expr, Here.path)
  IN  /\ AtStmt("expr")
      /\ code' = done.code /\ cur' = done.cur
      /\ todo' = Tail(todo)
      /\ UNCHANGED <<fun, pc, returnFlag, scope, execVars>>

(* A value returned by a void function: ret is emitted, the flag not set. *)
ReturnStmt ==
  LET done == IF Here.node.value THEN Evaluated(code, cur, Here.node.expr, Here.path)
                                 ELSE [code |-> code, cur |-> cur]
  IN  /\ AtStmt("return")
      /\ code' = Emit(done.code, done.cur, Ret) /\ cur' = done.cur
      /\ returnFlag' = ~(fun.void /\ Here.node.value)
      /\ todo' = Tail(todo)
      /\ UNCHANGED <<fun, pc, scope, execVars>>

(* Mutant: the else branch is built where the true edge leads. *)
IfElse_Swapped ==
  LET done    == Evaluated(code, cur, Here.node.expr, Here.path)
      trueBB  == Len(done.code) + 1
      falseBB == Len(done.code) + 2
  IN  /\ AtStmt("ifelse")
      /\ code' = Emit(NewBlocks(done.code, 2), done.cur,
                      CondBr(Here.path, falseBB, trueBB))
      /\ cur' = falseBB
      /\ todo' = <<Stmt(Here.node.else, Append(Here.path, 2)),
                   [task |-> "else built", trueBB |-> trueBB, stmt |-> Here]>>
                 \o Tail(todo)
      /\ UNCHANGED <<fun, pc, returnFlag, scope, execVars>>

(* ASTSelectionStmt with an else: the else statement is visited first. *)
IfElse ==
  LET done    == Evaluated(code, cur, Here.node.expr, Here.path)
      trueBB  == Len(done.code) + 1
      falseBB == Len(done.code) + 2
  IN  /\ AtStmt("ifelse")
      /\ code' = Emit(NewBlocks(done.code, 2), done.cur,
                      CondBr(Here.path, trueBB, falseBB))
      /\ cur' = falseBB
      /\ todo' = <<Stmt(Here.node.else, Append(Here.path, 2)),
                   [task |-> "else built", trueBB |-> trueBB, stmt |-> Here]>>
                 \o Tail(todo)
      /\ UNCHANGED <<fun, pc, returnFlag, scope, execVars>>

(* nextBB is created here unless the else branch has returned; 0: not yet. *)
ElseBuilt ==
  LET inserted == ~Terminated(cur)
      nextBB   == IF inserted THEN Len(code) + 1 ELSE 0
      stmt     == Here.stmt
  IN  /\ AtTask("else built")
      /\ code' = IF inserted THEN Emit(NewBlocks(code, 1), cur, Br(nextBB)) ELSE code
      /\ returnFlag' = FALSE
      /\ cur' = Here.trueBB
      /\ todo' = <<Stmt(stmt.node.then, Append(stmt.path, 1)),
                   [task |-> "then built", nextBB |-> nextBB]>> \o Tail(todo)
      /\ UNCHANGED <<fun, pc, scope, execVars>>

(* Mutant: nextBB is created although both branches return. *)
ThenBuilt_AlwaysNext ==
  LET nextBB == IF Here.nextBB # 0 THEN Here.nextBB ELSE Len(code) + 1
      grown  == IF Here.nextBB # 0 THEN code ELSE NewBlocks(code, 1)
  IN  /\ AtTask("then built")
      /\ code' = IF Terminated(cur) THEN grown ELSE Emit(grown, cur, Br(nextBB))
      /\ cur' = nextBB
      /\ returnFlag' = FALSE
      /\ todo' = Tail(todo)
      /\ UNCHANGED <<fun, pc, scope, execVars>>

(* If both branches have returned, so has the statement. *)
ThenBuilt ==
  LET returned == Here.nextBB = 0 /\ Terminated(cur)
      nextBB   == IF Here.nextBB # 0 THEN Here.nextBB ELSE Len(code) + 1
      grown    == IF Here.nextBB # 0 THEN code ELSE NewBlocks(code, 1)
  IN  /\ AtTask("then built")
      /\ code' = IF returned THEN code
                 ELSE IF Terminated(cur) THEN grown
                 ELSE Emit(grown, cur, Br(nextBB))
      /\ cur' = IF returned THEN cur ELSE nextBB
      /\ returnFlag' = returned
      /\ todo' = Tail(todo)
      /\ UNCHANGED <<fun, pc, scope, execVars>>

(* ASTSelectionStmt without an else *)
If ==
  LET done   == Evaluated(code, cur, Here.node.expr, Here.path)
      trueBB == Len(done.code) + 1
      nextBB == Len(done.code) + 2
  IN  /\ AtStmt("if")
      /\ code' = Emit(NewBlocks(done.code, 2), done.cur, CondBr(Here.path, trueBB, nextBB))
      /\ cur' = trueBB
      /\ todo' = <<Stmt(Here.node.then, Append(Here.path, 1)),
                   [task |-> "if built", nextBB |-> nextBB]>> \o Tail(todo)
      /\ UNCHANGED <<fun, pc, returnFlag, scope, execVars>>

(* Mutant: the flag of the branch outlives the statement. *)
IfBuilt_KeepFlag ==
  /\ AtTask("if built")
  /\ code' = IF returnFlag THEN code ELSE Emit(code, cur, Br(Here.nextBB))
  /\ cur' = Here.nextBB
  /\ todo' = Tail(todo)
  /\ UNCHANGED <<fun, pc, returnFlag, scope, execVars>>

IfBuilt ==
  /\ AtTask("if built")
  /\ code' = IF returnFlag THEN code ELSE Emit(code, cur, Br(Here.nextBB))
  /\ returnFlag' = FALSE
  /\ cur' = Here.nextBB
  /\ todo' = Tail(todo)
  /\ UNCHANGED <<fun, pc, scope, execVars>>

(* ASTIterationStmt; the blocks of an indexed condition lie between         *)
(* loopJudge and the branch.                                                *)
While ==
  LET loopJudge == Len(code) + 1
      loopBody  == Len(code) + 2
      out       == Len(code) + 3
      grown     == NewBlocks(code, 3)
      entered   == IF Terminated(cur) THEN grown ELSE Emit(grown, cur, Br(loopJudge))
      done      == Evaluated(entered, loopJudge, Here.node.expr, Here.path)
  IN  /\ AtStmt("while")
      /\ code' = Emit(done.code, done.cur, CondBr(Here.path, loopBody, out))
      /\ cur' = loopBody
      /\ todo' = <<Stmt(Here.node.body, Append(Here.path, 1)),
                   [task |-> "body built", loopJudge |-> loopJudge, out |-> out]>>
                 \o Tail(todo)
      /\ UNCHANGED <<fun, pc, returnFlag, scope, execVars>>

BodyBuilt ==
  /\ AtTask("body built")
  /\ code' = IF Terminated(cur) THEN code ELSE Emit(code, cur, Br(Here.loopJudge))
  /\ returnFlag' = FALSE
  /\ cur' = Here.out
  /\ todo' = Tail(todo)
  /\ UNCHANGED <<fun, pc, scope, execVars>>

(* ASTFunDeclaration after its body *)
EndFunction ==
  /\ pc = "build" /\ todo = <<>>
  /\ code' = IF returnFlag THEN code ELSE Emit(code, cur, Ret)
  /\ returnFlag' = FALSE
  /\ scope' = Front(scope)
  /\ pc' = "exec"
  /\ cont' = <<[do |-> "stmt", node |-> fun.body, path |-> <<1>>,
                env |-> [x \in Names |-> IF x \in fun.params THEN Param ELSE Global]]>>
  /\ UNCHANGED <<fun, todo, cur, blk, idx>>

-------------------------------------------------------------------------------
(* The source: cont is a list of statements to run, and of the uses, tests  *)
(* and returns they have been unfolded to.  env gives the declaration each  *)
(* name refers to at a statement.                                           *)
Items(i) ==
  LET use      == <<[do |-> "use", path |-> i.path, decl |-> i.env[i.node.expr.var]]>>
      test     == <<[do |-> "test", path |-> Append(i.path, 0), yes |-> use,
                     no |-> <<[do |-> "except", path |-> i.path]>>]>>
      evaluate == IF i.node.expr.indexed THEN use \o test ELSE use
      child(n, k) == <<[do |-> "stmt", node |-> n, path |-> Append(i.path, k), env |-> i.env]>>
      branch(yes, no) == evaluate \o <<[do |-> "test", path |-> i.path, yes |-> yes, no |-> no]>>
      inner == [x \in Names |-> IF x \in ToSet(i.node.decls) THEN i.path ELSE i.env[x]]
  IN  CASE i.node.kind = "block" ->
             [k \in 1..Len(i.node.stmts) |->
                [do |-> "stmt", node |-> i.node.stmts[k], path |-> Append(i.path, k),
                 env |-> inner]]
        [] i.node.kind = "expr" -> evaluate
        [] i.node.kind = "return" ->
             (IF i.node.value THEN evaluate ELSE <<>>) \o <<[do |-> "ret"]>>
        [] i.node.kind = "if" -> branch(child(i.node.then, 1), <<>>)
        [] i.node.kind = "ifelse" -> branch(child(i.node.then, 1), child(i.node.else, 2))
        [] i.node.kind = "while" -> branch(Append(child(i.node.body, 1), i), <<>>)

Unfold ==
  /\ pc = "exec" /\ cont # <<>> /\ Head(cont).do = "stmt"
  /\ cont' = Items(Head(cont)) \o Tail(cont)
  /\ UNCHANGED <<fun, pc, buildVars, blk, idx>>

Instr == IF idx <= Len(code[blk]) THEN code[blk][idx] ELSE [op |-> "none"]
Item  == IF cont = <<>> THEN [do |-> "ret"] ELSE Head(cont)
Settled == pc = "exec" /\ Item.do # "stmt" /\ Instr.op # "br"

Jump ==
  /\ pc = "exec" /\ Item.do # "stmt" /\ Instr.op = "br"
  /\ blk' = Instr.to /\ idx' = 1
  /\ UNCHANGED <<fun, pc, buildVars, cont>>

(* The instruction does what the source does next. *)
Agree ==
  CASE Item.do = "use"    -> Instr = Use(Item.path, Item.decl)
    [] Item.do = "except" -> Instr = Except(Item.path)
    [] Item.do = "test"   -> Instr.op = "condbr" /\ Instr.at = Item.path
    [] Item.do = "ret"    -> Instr = Ret

DoUse ==
  /\ Settled /\ Agree /\ Item.do = "use"
  /\ idx' = idx + 1 /\ cont' = Tail(cont)
  /\ UNCHANGED <<fun, pc, buildVars, blk>>

(* A condition or an index check goes either way. *)
DoTest ==
  /\ Settled /\ Agree /\ Item.do = "test"
  /\ \/ blk' = Instr.yes /\ cont' = Item.yes \o Tail(cont)
     \/ blk' = Instr.no /\ cont' = Item.no \o Tail(cont)
  /\ idx' = 1
  /\ UNCHANGED <<fun, pc, buildVars>>

(* A return and neg_idx_except, which exits, end the execution. *)
Ended ==
  /\ Settled /\ Agree /\ Item.do \in {"ret", "except"}
  /\ UNCHANGED vars

Next ==
  \/ StartFunction
  \/ SkipStmt \/ CompoundStmt \/ ExitScope \/ ExpressionStmt \/ ReturnStmt
  \/ IfElse \/ ElseBuilt \/ ThenBuilt \/ If \/ IfBuilt \/ While \/ BodyBuilt
  \/ EndFunction
  \/ Unfold \/ Jump \/ DoUse \/ DoTest \/ Ended

Spec == Init /\ [][Next]_vars

-------------------------------------------------------------------------------
BlocksBuilt == DOMAIN code

(* succ_bbs_: what the branches of a block add to it, wherever they stand. *)
Targets(i) == CASE i.op = "br" -> {i.to} [] i.op = "condbr" -> {i.yes, i.no} [] OTHER -> {}

Successors(b) == UNION {Targets(i) : i \in ToSet(code[b])}

(* return_flag says that the code built so far cannot go on (lab4           *)
(* report.md, line 646).  The visitor asks it in some places and            *)
(* get_terminator in others, so when a statement is visited and when the    *)
(* body is done the two agree.  The next function starts with the flag down *)
(* and with the global scope alone, though a return skips statements that   *)
(* would have entered and left scopes.                                      *)
FlagTracksTerminator ==
  /\ pc = "build" /\ (todo = <<>> \/ Here.task = "stmt")
       => (returnFlag <=> Terminated(cur))
  /\ pc # "build" => ~returnFlag /\ Len(scope) = 1

(* The blocks that hold everything the entry can reach. *)
ReachFrom[n \in Nat] ==
  IF n = 0 THEN {1}
  ELSE LET S == ReachFrom[n - 1] IN S \cup UNION {Successors(b) : b \in S}

(* The passes get a graph they can work on: a block has one terminator      *)
(* (LightIR.md, line 151), its last instruction, so that nothing after it   *)
(* is lost and the lists of successors are those of the branches taken;     *)
(* every block is reachable, so that no predecessor of a block is without   *)
(* an idom; and no branch goes back to the entry, the root of the dominator *)
(* tree.                                                                    *)
GraphFitsPasses ==
  pc = "exec" =>
    /\ \A b \in BlocksBuilt :
         /\ Terminated(b)
         /\ \A i \in 1..(Len(code[b]) - 1) : ~IsTerminator(code[b][i])
    /\ ReachFrom[Len(code)] = BlocksBuilt
    /\ \A b \in BlocksBuilt : 1 \notin Successors(b)

(* Along every execution the blocks do what the source says, in its order:  *)
(* the same uses of the same variables, the same tests, the same end.  The  *)
(* statements the flag made the builder skip are those that cannot run.     *)
FollowsSource == Settled => Agree

-------------------------------------------------------------------------------
(****************************************************************************)
(* The inductive invariant behind FlagTracksTerminator and GraphFitsPasses. *)
(****************************************************************************)
IsSeq(s) == s \in Seq({s[i] : i \in DOMAIN s})

(* Blocks with at most one terminator, the last instruction, and branches   *)
(* to blocks of the function but its first.                                 *)
IsGraph(c) ==
  /\ IsSeq(c)
  /\ \A b \in DOMAIN c : IsSeq(c[b])
  /\ \A b \in DOMAIN c : \A i \in 1..(Len(c[b]) - 1) : ~IsTerminator(c[b][i])
  /\ \A b \in DOMAIN c : \A i \in DOMAIN c[b] : Targets(c[b][i]) \subseteq 2..Len(c)

OpenBlocks(c) == {b \in DOMAIN c : c[b] = <<>> \/ ~IsTerminator(Last(c[b]))}

(* b lies in every set that holds the first block and follows the branches. *)
Reached(c) ==
  {b \in DOMAIN c : \A S \in SUBSET DOMAIN c :
      1 \in S /\ (\A a \in S : \A i \in DOMAIN c[a] : Targets(c[a][i]) \subseteq S) => b \in S}

(* The block a remainder of a visit goes on with *)
Pending(t) ==
  CASE t.task = "else built" -> {t.trueBB}
    [] t.task = "then built" -> {t.nextBB} \ {0}
    [] t.task = "if built"   -> {t.nextBB}
    [] t.task = "body built" -> {t.out}
    [] OTHER -> {}

(* The statements left to visit are among stmts; a loop is closed by a      *)
(* branch to one of the n blocks, not the first.                            *)
TaskOK(t, stmts, n) ==
  /\ t.task = "stmt" => t.node \in stmts
  /\ t.task = "else built" => t.stmt.node.then \in stmts
  /\ t.task = "then built" => t.nextBB \in Nat
  /\ t.task = "body built" => t.loopJudge \in 2..n

Waits(s) == UNION {Pending(s[i]) : i \in DOMAIN s}

(* No two remainders go on with the same block. *)
Disjoint(s) == \A i, j \in DOMAIN s : i # j => Pending(s[i]) \cap Pending(s[j]) = {}

Exits(s) == {i \in DOMAIN s : s[i].task = "exit scope"}

(* The blocks without a terminator are the insertion point and those the    *)
(* remainders of the visits under way go on with.                           *)
BuildInv ==
  /\ IsSeq(todo) /\ IsSeq(scope)
  /\ IsGraph(code) /\ cur \in DOMAIN code
  /\ returnFlag <=> cur \notin OpenBlocks(code)
  /\ \A i \in DOMAIN todo : TaskOK(todo[i], Statements[fun.void], Len(code))
  /\ Disjoint(todo) /\ Waits(todo) = OpenBlocks(code) \ {cur} /\ 1 \notin Waits(todo)
  /\ Len(scope) = 2 + Cardinality(Exits(todo))

CodeInv ==
  /\ fun \in Functions
  /\ pc = "build" => BuildInv
  /\ pc # "build" => ~returnFlag /\ IsSeq(scope) /\ Len(scope) = 1
  /\ pc = "exec" => IsGraph(code) /\ OpenBlocks(code) = {}
  /\ pc # "start" => DOMAIN code # {} /\ Reached(code) = DOMAIN code
================================================================================

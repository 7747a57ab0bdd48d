# Verification of the C-minus compiler

The repository is a compiler for C-minus: `cminusfc` parses a program, builds
LightIR from its syntax tree, runs optimisation passes over the IR and prints it
as LLVM text for clang. These modules model the parts that carry logic of their
own: the step from the parser's tree to the tree that is visited, the builder that
turns it into basic blocks and typed instructions, and the passes.

## The system

| part | state it keeps | operations | correct when |
|---|---|---|---|
| AST construction (`ast.cpp`) | the tree under construction | `transform_node_iter`, one case per production; lists are turned round by stacks | the tree says what the text says |
| `CminusfBuilder` | insertion point, `return_flag`, `ret`, `argload`, `Scope` (a stack of maps) | one `visit` per kind of syntax node, recursive | the blocks do what the statements say; each has one terminator; names have the binding the source means; every operand has the type its instruction takes, and conversions keep values |
| LightIR | functions, blocks with predecessor and successor lists, instructions with operands, use lists | `create_br`, `create_cond_br`, `set_operand`, `replace_all_use_with`, `remove_use`, `delete_instr`, `Function::remove` | edges and branches agree; `v` lists `(u, i)` as a use iff operand `i` of `u` is `v` |
| `Dominators` | `idom_`, `post_order_id_`, `dom_frontier_`, `dom_tree_succ_blocks_` | post-order visit, sweeps of `create_idom`, `intersect`, frontiers, tree | the result is the dominator tree and the dominance frontiers; it ends |
| `Mem2Reg` | `var_val_stack` (global), phi placement, recursion of `re_name` | `generate_phi`, `re_name`, `remove_alloca` | the rewritten function computes what the original did |
| `LoopSearch` | loops, their bases, `bb2base` | Tarjan's components, removal of bases, repeat | each loop is found once, with its header |
| `LoopInvHoist` | map of invariants, set of loops | find and move | a moved instruction still comes before its uses and after its operands |
| `ActiveVars` | live-in and live-out sets | fixpoint | the least solution of the equations, phi operands counted on their own edge only |
| `ConstPropagation` | constants of globals, worklists over instructions and blocks | folding, branch deletion, block deletion, path compression | behaviour preserved; ends; no stale block |
| `CommonSubExper` | functions with side effects; available expressions, of the block and of each block visited | rounds over the call graph; reuse, invalidation by stores and calls | executing the result is executing the original |
| `DeadCodeEliminate` | use lists; functions with side effects; last stores and loads of a block | deletion of functions, results, instructions, stores, arguments | the module does what it did; nothing dead is left; ends |
| driver, `PassManager` | list of passes | `run` | passes run in the order `Mem2Reg`, `LoopSearch`, `ConstPropagation`, `ActiveVars`, `LoopInvHoist`, `CommonSubExper` |
| lexers, parser, printing, runtime | tokens, trees, text | | |

Everything runs in one thread and nothing is persisted, so there are no message
races and no crashes to recover from. What is hard here is of another kind:
fixpoints that must end and be right in every order in which a list or a set
ordered by address can be walked; recursion that must leave a shared stack as it
found it; flags and cached results that go stale while the IR is edited under
them; and long sequences of legal statements that reach a state the next pass does
not expect. `PROJECT.json` lists each such hazard at its line.

The parts interact through the IR, its graph and its use lists only. The chain
that matters most is builder → `Dominators` → `Mem2Reg`, because `Mem2Reg` always
runs:

* the builder promises a graph whose blocks are all reachable and whose entry has
  no predecessor (`GraphFitsPasses`);
* `Dominators` needs that to end, and promises the dominator tree and the
  dominance frontiers (`IdomIsImmediateDominator`, `FrontierIsExact`);
* `Mem2Reg` needs those, and promises that loads see memory (`LoadsSeeMemory`).

Beside it stands the chain of values: parser → AST → builder → folding
(`MeansSource`, `FoldingKeepsMeaning`), and at the end `CommonSubExper`, which
implements the execution of what it is given (`Implements`).

## Modules

| module | models | extends |
|---|---|---|
| `Cfg` | graphs of basic blocks; reachability, dominance and frontiers, defined by closed sets | |
| `SmallCfgs` | one graph of each class up to renaming, for TLC | `Cfg` |
| `SyntaxTree` | `ast.cpp`: from the parser's tree to the tree the builder visits | |
| `Expressions` | the visitors of declarations and expressions of `cminusf_builder.cpp`: types, conversions, loads, calls, `ret` and `argload` | `SyntaxTree` |
| `ConstFolding` | the folding of constants in `ConstPropagation.cpp`; what the source, the code built and the folded code mean | `Expressions` |
| `CminusfBuilder` | the statement visitors of `cminusf_builder.cpp`, `Scope`, and the run of the result beside the source | |
| `CminusfBuilder_proofs` | theorems about `CminusfBuilder` | `CminusfBuilder` |
| `Dominators` | `Dominators.cpp` | `Cfg` |
| `Dominators_proofs` | theorems about `Dominators`: its assertions, the tree and the frontiers it computes | `Dominators` |
| `Mem2Reg` | `Mem2Reg.cpp`, and the run of the rewritten function beside the original | `Cfg` |
| `Mem2Reg_proofs` | lemmas about dominance, theorems about `Mem2Reg` | `Mem2Reg` |
| `ConstPropagation` | the clean-up of the graph in `ConstPropagation.cpp`, with the use lists it reads, and the run of the result beside the original | `Cfg` |
| `ConstPropagation_proofs` | theorems about `ConstPropagation` | `ConstPropagation` |
| `ActiveVars` | `ActiveVars.cpp`, and liveness defined along paths | `Cfg` |
| `ActiveVars_proofs` | theorems about `ActiveVars` | `ActiveVars` |
| `Loops` | natural loops, nesting, reducible graphs | `Cfg` |
| `LoopSearch` | `LoopSearch.cpp` | `Loops` |
| `LoopSearch_proofs` | theorems about `LoopSearch` | `LoopSearch` |
| `LoopInvHoist` | `LoopInvHoist.cpp`, on the loops `LoopSearch` is shown to find | `Loops` |
| `LoopInvHoist_proofs` | lemmas about dominance and natural loops, theorems about `LoopInvHoist` | `LoopInvHoist` |
| `Execution` | what executing a function of LightIR does: the promise to the passes | |
| `CommonSubExper` | `CommonSubExper.cpp`, and the run of the result, which refines `Execution` | (instantiates `Execution`) |
| `CommonSubExper_proofs` | theorems about `CommonSubExper` | `CommonSubExper` |
| `DeadCodeEliminate` | `DeadCodeEliminate.cpp` with the use lists of `Value` and `User`, and what a module does | |
| `MC*` | the constants of the runs | the module named |

**CminusfBuilder.** `code` is the list of blocks, `cur` the insertion point,
`returnFlag` and `scope` are the members of the same name. The recursion of the
visitor is the list `todo`, which holds statements still to be visited and the
remainders of visits that wait for a child: `ElseBuilt`, `ThenBuilt`, `IfBuilt`,
`BodyBuilt`, `ExitScope`. Every instruction carries the path of its statement in
the syntax tree. An expression is one use of a variable, either plain or as an
array element; then the blocks of the negative-index check are built as
`visit(ASTVar)` builds them. Arithmetic, conversions, calls and zero-sized arrays
are in `Expressions`. When the function is built, phase `exec` runs it beside a
structural semantics of the source (`Items`), with both outcomes of each test;
`FollowsSource` says that at every point both do the same thing next, with the
same declaration of each name.

**SyntaxTree, Expressions, ConstFolding.** One program goes through three stages:
`text`, a tree as the grammar builds it; `source`, what `AST` makes of it
(`Flattened` stands for the stacks with which lists that lean to the left are
read); and `code`, one block of typed instructions. `VarDeclaration` visits one
declaration and `Statement` one statement; the visits below a statement are
operators that take and return `[code, ret, argload]`, since nothing else sees
what happens in between. The conversions (`Widened`, `AsFloat`, `AsInt`) are
applied where the visits test for them, one by one; the constant a comparison
folds to is an i1. `Fold`, `Store` and `Pass` are
the cases of the walk of `ConstPropagation` over the block, with `known` for the
two maps of globals. Integers are wrapped to `Width` bits, floats are rationals.
`Eval` gives the meaning of the program on `text`, by the productions of the
grammar, so that a mistake in `SyntaxTree` is one that `MeansSource` sees;
`Meaning` runs the code. A function that is called is one of a few that change
nothing, set a global, or call back.

**Dominators.** One action per iteration of each loop; `post_order_visit`'s
recursion is `stack`. The lists of successors and predecessors have the order in
which the builder happened to add edges; the model takes the next element
nondeterministically and so covers every order. `PickJoin` takes the pairs of a
join and a predecessor in any order, as does the code up to list order.
`frontier[Null]` is what `add_dominance_frontier(nullptr, bb)` inserts.

**Mem2Reg.** `Vars` are the promoted allocas and the code of a block is its
sequence of loads and stores of them. The dominators come from the definitions of
`Cfg`, which the module above shows to be what the pass computes; children are
taken in any order, as the code walks a set ordered by address. A value is named
by the instruction that makes it. `seen` is the set of keys of `var_val_stack`:
`pop_back` leaves an empty vector behind, so a key outlives its values. Phase
`exec` walks the rewritten function with the memory of the original at its side.
Since a value is named by its static site, two iterations of a loop that store at
the same site are not told apart.

**ConstPropagation.** The lists of predecessors and successors, the terminators
and the operands of phis are kept apart, since the code mends each of them on its
own. `valueUses` and `labelUses` are the use lists: `Replace` writes where the list
says, at the operand number it says, as `replace_all_use_with` does; `Passed` are
the uses the new value gets, and `Delete` takes phis out of their block and the
lists of what they read. A phi has a pair for each predecessor, or one pair only, when
the variable has no value on the other way (`Mem2Reg.cpp:132`). If the edge of that
pair is deleted, the phi goes without being replaced and its readers are left, or
it stays as a phi without operands. Each phase of `run` is a loop over `rest`, in the order of `prog.order`,
which the list of blocks keeps when blocks are taken out; `CompressPath` takes `merge` in
any order, as the code walks a set ordered by address. A block is one phi and a
terminator that tests or returns a value, which is a constant, unknown, or a phi.
The pass can stop in the middle: `aborted` is the assertion of `set_operand`,
`hung` a list that grows while it is walked, `crashed` one outcome of walking on
from a freed node. Phase `exec` runs the result beside the original.

**ActiveVars.** `use_set`, `def_set` and `phi_op_pair` are the sets of `initset`.
`VisitBlock` is the body of the sweep for one block; blocks come in any order.
`live_in` of the block is empty while its own `live_out` is computed, hence
`Succ(b) \ {b}`. `LiveIn` and `LiveOut` say by closed sets what is needed on
paths.

**LoopSearch.** `calls` is the recursion of `traverse`, `stack`, `index` and
`lowlink` are Tarjan's. `Record` takes a component and a base that
`find_loop_base` may return (which one depends on addresses) and cuts the base out
of the graph of nodes as `run` does. A loop is a pair of its base and its blocks.
`get_parent_loop` returns the set of values it may give.

**LoopInvHoist.** `invariant` is the set of pairs ordered by address: `Before` is
that order, and the addresses are a part of the function the run is given.
`IsInvariant` leaves out the kinds of instructions the code leaves out; a division
moves as other arithmetic does. The functions are those the pass is given
(`FunctionsAssumption`): nothing in unreachable blocks, and every loop entered from
one block that lies in no loop beside it (`EnteredOnce`). The builder enters a loop
by one branch only, from where the `while` stands to its condition, and the clean-up
of the graph never merges a condition into what comes before it, since it has the
end of the body for a second predecessor. Where operands come from is left open. The
address of an array element is computed in `normalBB` and used in `outBB`, which
`exphandBB` leads to as well (`cminusf_builder.cpp:525`); but that one calls
`neg_idx_except`, which exits, so every execution that gets to `outBB` has computed
the address. Such blocks are `prog.stop`, `Taken` are the branches an execution can
take, and `ComesFirst` is dominance by these. Where a variable may have no value an
operand can come from a block that was passed by; the pass moves it like any other,
and `OperandsComeFirst` speaks of the uses whose operand came first before the pass.

**Execution, CommonSubExper.** The eight maps of the class are one function
`avail` from keys to instructions, and `saved[b]` is what a visited block hands to
its successors. `PropagateSideEffect` is one step of the rounds over the call
graph, in any order; `main` is not looked at (`CommonSubExper.cpp:376`), whether it
is called or not (`Seen`). Constants are objects with a value (`prog.value`), two of
which may have the same: `KeyOf` takes the value where the code does, and the object
on the right of an expression whose left operand is constant. Phis are no part of the
walk, but `Replaced` and `RenamedIn` rewrite them with the other users. The operand that `CommonSubExper.cpp:120` reads behind the
last one of a `getelementptr` on an array argument is an input, `prog.beyond`, or
no value at all (`ReadBeyondFails`). `prog.moved` are instructions `LoopInvHoist`
has moved before, which no use list holds any more, so that `Replaced` does not
reach them; if one is left reading a deleted instruction, clang refuses the
function (phase `refused`). `InitSetsHangs` is the walk over the predecessors that
does not advance: it is taken at every join both of whose ways stand before it in
the list (`Joins`), so behind an `if` and behind an access to an array. `HangsAtJoins`
says that the pass gets through all other functions and through no such one. When the pass is over, phase `exec` executes what is left, with
`ghost` the registers the original would have by then. `Original` is `Execution`
with `ghost` for its registers, and `Implements` says that the behaviours of the
rewritten function are behaviours of it: the same blocks, the same memory after
every instruction, the same result. During the pass nothing of it changes, so
those steps are stutters.

**DeadCodeEliminate.** A module is `main` and the functions it may call; the
blocks of a function run one after the other, as the pass looks at blocks one by
one and never at an edge. `uses` holds every use list as triples of a value, a
user and a number, and is changed where `set_operand`, `replace_all_use_with`,
`remove_use_of_ops` and `remove_use` change it and nowhere else. Phases are the
calls in `run`, in its order; within `stores` an action is one instruction of a
block. Marking instructions and deleting those not marked is one action, because
it is a closure that no other step sees half done. `Meaning` runs a module and
gives its output, its result and global memory.

## Runs

| run | result | question |
|---|---|---|
| `builder` | passes | is the code of every small function well-formed and faithful to the source? |
| `const_folding` | passes | do tree, types, conversions and folding keep the meaning of the source? |
| `dominators` | passes | are tree and frontiers right, whatever the graph and the list orders, and does the pass end? |
| `mem2reg` | passes | does promotion preserve what loads see? |
| `mem2reg_undef` | violation | is the operand of a phi without value undef, as the comment and the report say? |
| `const_propagation` | passes | does the clean-up preserve the function, keep the graph and the phis consistent, and end? |
| `const_propagation_operand` | violation | does `set_operand` always get the number of an operand there is (User.cpp:24)? |
| `active_vars` | passes | do the sweeps end, with what the paths need and no more? |
| `loop_search` | passes | are the loops found the natural loops, with header, innermost loop and parent? |
| `loop_inv_hoist` | passes | does hoisting keep operands before their uses, leave nothing behind, and end? |
| `common_subexper` | passes | does executing the result implement executing the original, is nothing computed twice, and where does the pass hang? |
| `dead_code` | passes | does a module do what it did, and is nothing dead left? |

Some properties join what belongs together: `SSAForm` the dominance of uses by
definitions and the operands of phis; `GraphFitsPasses` terminators, reachability
and the entry; `LoopsNest` the innermost loop and the parent of a loop;
`GraphIsWhole` the edges, the phis and the code. The type invariants of
`Dominators` and `ActiveVars` are proved and not run; so is
`VisitCoversReachable`.

Bounds:

* `dominators`: every graph of up to four blocks with at most two successors, up
  to renaming, unreachable blocks included. Four blocks have nested joins, loops
  with two entries (where `create_idom` needs several sweeps) and two-step walks
  of `intersect`.
* `mem2reg`: the graphs of if, if-else, while and a while around an if, with every
  body of at most one operation in each block, or a load followed by a store (not
  for the largest shape). One variable: the pass treats variables one by one and
  only the stacks are shared, each under its own key.
* `builder`: one name, declared globally, as a parameter, in the body, and in
  nested blocks; statements nested up to four deep, with returns in every position
  of the branches.

* `const_propagation`: two if-elses in a row and in each other, a while, a while
  in an if, an if in a while, two ifs in each other in a while, and three nested if-elses whose blocks do not lie in
  the list in the order of execution. Tests are constant, unknown or a phi;
  operands are constant, unknown or a phi that reaches them; the pairs of a phi
  come in both orders (of the deepest shape, in one). Phis of one pair are those of a
  variable assigned in one branch of the first if, in either of the second, or in a
  loop only, and read after it. A block has at most one phi. Two joins are the least in
  which a phi deleted in one round is an operand, or a test, of the next.
* `active_vars`: one value, defined once or an argument, on an if-else, two loops
  and a loop of one block, with every body of at most a phi, a definition and a
  read. The pass never relates two values.
* `loop_search`: every graph of up to four blocks, up to renaming, unreachable and
  irreducible ones included, and a while in a while (seven blocks). An inner loop
  whose base is found through a reserved outer base only, and a loop in a loop,
  occur in both.
* `loop_inv_hoist`: a while, a while around an if, a while in a while, two
  whiles in a row in a while, and the access to an array in a while. Three
  instructions: one that stays, one that may depend on it, one that depends on the
  second. They lie in every place that follows their operands, around the if also
  where the second was passed by, at addresses in and against the order of
  dominance. A chain of two
  invariants is what the order of moving can break.

* `const_folding`: one statement of each form around an expression of up to three
  operators or a call with up to two arguments, over ints, floats, comparisons,
  elements of local and argument arrays and nested assignments; and functions that
  set a global twice around a call. `Width` is 8, which no value of these programs
  exceeds but the compiler's own arithmetic wraps to. Expressions of two operators
  are the least in which the result of a conversion is converted again.
* `common_subexper`: two addresses on pairs of a global, a local and an
  argument array, with equal and unknown offsets, a load, something that may
  change memory, and a load, on a line, spread over a loop, and over a while
  behind an if; five functions that call each other up to three deep, two of the
  runtime, a `main` that stores and prints, and one that calls it. The array argument may be the global
  array. Two constant objects of one value lie in all pairs of operands and offsets.
  A loop has four phis: a counter, two variables that pass on their values, and one
  without a value before the loop; they index arrays and are operands. In a loop of its own,
  sums have been moved to the block before it. Two shapes have a join (an `if` and
  an access to an array), two have one that stands before its loops in the list, and
  one reads what is listed behind it (`Late`). Two geps on the argument array
  that agree in what lies behind their operands have one index (`OneOffset`).
* `dead_code`: a function with two addresses and three loads, stores or calls in
  every order, in one block or two; and main with four functions that call each
  other or nobody, with results read or not. Two stores to an array around a load
  or call are the least in which a store is lost or a load replaced wrongly.

Deadlock is checked in all runs but `const_folding`, `common_subexper` and
`dead_code`, where a program that has reached its end, or a compiler that has run
into an error, really stops; the other modules have an explicit last step.

Fairness. `dominators`, `const_propagation`, `active_vars`, `loop_search`,
`loop_inv_hoist` and `dead_code` assume weak fairness of the next-state action:
each pass is a sequential loop that runs until it is done, nothing can preempt it,
and every nondeterministic choice is over a finite list or set that shrinks.
`common_subexper` assumes it of the steps of the pass (`Rewrite`) only: the
function that is compiled may run for ever. The other runs need no fairness. Where
a pass can stop in the middle, `Terminates` counts that as an end, and another
property says when it may happen (`EveryLoopHasBase`, `HangNeedsDeadLoop`);
`HangsAtJoins` says of each function which end it comes to.

## Proofs

The theorems hold for every value of the constants that meets the assumptions
named here, which TLC evaluates on the instance of every run. The invariants were
model-checked on those instances first, but for two conjuncts of `HoistInv` about
variables no step changes and the types of `SearchInv`, which are slow to evaluate
(the latter were checked on seven graphs of four blocks). Blocks are finite everywhere
(`BlocksFinite`) and the entry is one of them.

`Dominators_proofs` is checked for every set of blocks, every entry and
every set of graphs whose edges avoid the entry:

* `TypeCorrect`: `Spec => []TypeOK`;
* `AssertionsNeverFail`: none of the three assertions of `create_idom` and
  `intersect` fails;
* `VisitIsComplete`: the numbered blocks are the reachable ones, each once.

They rest on one inductive invariant, `IInv`. The type and `AssertionsHold` are
not inductive: that a block has a processed predecessor when the sweep comes to it
depends on how the numbers were given. So `StackInv` says that the blocks of the
stack are connected by edges and that every edge out of a numbered block leads to
a seen one; `NumberInv`, that every numbered block but the entry has a predecessor
with a higher number (its parent in the depth-first tree), and that the numbers
are the positions in the list; `IdomInv`, that an idom has a higher number than
its block and that the blocks the sweep has passed have one; and `FoldInv`, that
both fingers of `intersect` are numbered blocks above the block in hand. The
fingers then climb strictly and meet at the entry at the latest, which has an idom
and the highest number.

The second half of the module adds the result of the pass:

* `IdomsAreImmediateDominators`: when the sweeps are over, `idom_` holds the
  immediate dominator of every reachable block and nothing for the others.

Its invariant `TreeInv` has two more parts. `OptimalInv`: no step passes over a
dominator. Whatever strictly dominates a block dominates all its predecessors, and
a block has no lower number than what it dominates, so the finger that `intersect`
raises never stands on the dominator itself. `SoundInv`: the value of the fold is
an ancestor of every predecessor merged so far, and after a sweep that changed
nothing every idom is an ancestor of every processed predecessor of its block. The
blocks that are not below `idom(b)` are then closed under edges that avoid
`idom(b)` and do not hold `b`, so `idom(b)` dominates `b` (`CoveredDominates`).
Neither part mentions what the other needs, and both need `IInv` for the numbers.

* `FrontiersAreExact`: at the end, in a graph without the stray predecessors that
  make the pass hang, every frontier holds exactly the blocks where dominance ends.

Its invariant `FrontierInv` says of every pair of a join and a predecessor that it
waits, or has its runner on the way, or has been walked from the predecessor up to
the idom of the join (`WalkedTo`), and that nothing else was added. The ancestors
of a block are its dominators by the theorem above, so the blocks such a walk
meets are those that dominate the predecessor and not the join strictly.

Assumed: `Null` is not a block, and no edge leads to the entry (`CfgsAssumption`).
The last holds of the builder's graphs by `GraphFitsPasses`.

`CminusfBuilder_proofs` is checked for every set of functions whose syntax trees
lie in a set `Statements` closed under parts, so for trees of any depth:

* `FlagIsTerminator`: between two statements `return_flag` says whether the block
  in hand has its terminator (`FlagTracksTerminator`);
* `GraphIsFit`: every block has one terminator, at its end, the entry has no
  predecessor and reaches every block (`GraphFitsPasses`);
* `BlocksFollowSource`: along every execution, whichever way the tests go, the next
  instruction does what the source does next, with the declaration of the name that
  is in scope there (`FollowsSource`).

The flag alone is not inductive: it is reset when an `if` ends, and whether that is
right depends on who has branched to the block that comes next. `BuildInv` keeps
account of the blocks without terminator: they are the insertion point and those
the pending visits go on with (`Waits`), each of them for one visit only
(`Disjoint`), and the flag says of the insertion point that it is none of them.
`Reached` says that all blocks are reached from the first. `CodeIsWellBuilt` is the
invariance.

For the third, the blocks and the source are compared while the function is still
being built, when there is no execution yet. `FollowInv` says that there is a set `W`
of places `<<block, index, list>>` and a plan `D`. `W` pairs each place of the code
with what the source has still to do when the execution gets there, and fits the code
(`Fits`): the instruction at a place does what comes first in the list, or the first
statement of the list is unfolded, and where the instruction leads is paired with
what comes after (`Matches`). `D` gives, for every pending visit, what the source has
to do and which scopes there are before and after it (`Planned`); so an end of a block
without terminator is paired with what the visit that continues the block will build.
The plan is read from the last visit to the first, since a visit builds in front of
what is planned already, and each visit replaces its part of the plan by one for the
visits it leaves (`PlanPop`, `PlanPush`, `BlockPlan`). What `return_flag` makes the
visitor skip is no loss because the insertion point is then no end any more
(`SkipFollows`, `ClosedFits`): the flag means what `BuildInv` says it does. The
backward branch of a loop needs that the block of its condition begins with a use
and was paired with the whole loop when it was created (`Begun`, `JumpBack`). When
the function is done, all blocks are closed, every place of `W` has its instruction,
and the execution stays within `W` up to unfolding (`Executes`, `Reaches`). A set of
places that only has to exist is nothing TLC can search for; it checks
`FollowsSource` itself.

Assumed: `FunctionsAssumption`, that every name is declared (the visit of another one
emits nothing and goes on), and which leaves out void functions that return a value
(see below, where the flag is wrong).

`ConstPropagation_proofs` is checked for every function, any number of rounds and
every order in which `CompressPath` takes the blocks:

* `GraphIsWholeAlways`: before and after every round the terminators and both lists
  of each block describe one graph, every phi has at most one operand for each
  predecessor, one for each if it had one for each at first, and no code is in two
  blocks (`GraphIsWhole`);
* `LabelsInRangeAlways`: the assertion of `set_operand` does not fail when
  `CompressPath` replaces a label (`LabelsInRange`), although the numbers in the use
  lists go stale and it does fail elsewhere (`SetOperandInRange`, below).

`GraphIsWhole` speaks of the pauses between rounds only. `GraphInv` says what holds
in the middle of a phase. Of the edges (`EdgesInv`): both ends agree, but for the
edges of a block without predecessor, which the lists of predecessors have forgotten
and which are gone when the block is (`dead`); and a block that waits to be merged
has one predecessor that leads nowhere else, also after its neighbours have been
merged. Of the phis (`PhisInv`): their labels are predecessors, each once, and all of
them if the phi began with two pairs; and a phi with a single operand is met by the
phase of the phis before any block is merged. So none is left by then, and a block
that is merged has no phi, but for one without operands, which began with one: that
is what can get into the middle of a block. Of the use lists
(`UsesInv`, `UsesComplete`): the list of a label is exact for phis with two operands;
what it says of a phi with one may carry the number the operand had before
`remove_operands`, and nothing asks for it any more. Without this `Relabelled`, which
writes where the list says, could miss a pair or relabel another one.

The lists of the values have no such invariant, and their exactness is indeed lost.
Assumed: `ProgramsAssumption`, that a branch has at most two targets, different ones,
in the list of the function, and that a block with a phi has two predecessors and the
phi a pair for both or for one of them. `CminusfBuilder` joins no more than two
branches; `Mem2Reg` adds no pair on a way on which the variable has no value
(`Mem2Reg.cpp:132`), and that a phi without any pair is not read.

`Mem2Reg_proofs` is checked for every graph, every code of loads and stores and
every order of the children:

* `StacksAreBalanced`: `var_val_stack` holds what the active calls of `re_name`
  have pushed (`StackHoldsActiveDefs`);
* `RenamedIsSSA`: definitions dominate their uses and phis have one operand for
  each predecessor (`SSAForm`);
* `RenamedMeansTheSame`: on every path every replaced load has the value memory
  would have given it (`LoadsSeeMemory`);
* `InitialisedFunctionsAreSafe` (`InitialisedIsSafe`).

They share the invariant `RenameInv` (`RenamingIsInvariant`). `PhiInv`: a phi stands
or will stand in the frontier of every definition. `CallInv`: the active calls are
the path in the dominator tree from the entry to the block in hand. `StackInv`:
each stack holds the definitions that dominate the place in hand (`Available`),
ordered by dominance, and so the `Nearest` one on top; that is stronger than
balance, and what a step back to a parent needs is that popping what the child
pushed leaves what is available at the end of the parent. `ReplInv` and
`OperandInv` record where the renaming has passed (`Passed`, against `Waiting`): a
replaced load became the nearest definition, the operand of a phi is the nearest
one at the end of the predecessor, and neither is missing where there is one.
`ExecInv` is the meaning: the definition nearest to the start of a block has the
value that is in memory there. Over an edge that holds because either the block
has a phi, or the nearest definition at its start is the nearest one at the end of
every predecessor, by `PhiInv`. The module begins with the facts about dominance it
uses: it is a partial order, the dominators of a block form a chain, and below a
block the tree of immediate dominators reaches every block it dominates. The first
two are repeated in `LoopInvHoist_proofs`. Assumed: types, and that `Garbage` is no
value (`GarbageAssumption`).

`LoopSearch_proofs` is checked for every graph, reducible or not, and every order of
the sets:

* `EveryLoopHasBaseAlways`: `find_loop_base` finds a base for every component of
  every round, if the entry reaches all blocks (`EveryLoopHasBase`).

A component without a base would be one that no edge enters: what is outside would
hold the entry and be closed under edges. Two things have to be known for this of
every round, and `SearchInv` (`SearchStaysConsistent`) is about them. The first is
that every edge into a node left is remembered, by the node or by a base that was
taken out: a base forgets nobody, while its neighbours forget it (`NodesInv`). The
second is that the entry is in no component, although `traverse` starts from
whichever node has the lowest address and meets the entry before or after the
others. Nothing leads to the entry, so it is the bottom of the stack whenever it is
on it; and a node above it whose call has ended has a `lowlink` below its own index
and above the index of the entry (`LowInv`), so none is left when the call of the
entry ends, and the entry comes off the stack alone (`EntryIsAlone`). `StackInv`
keeps positions and indexes in the same order, so that the part that is popped is
the part that was counted; `SccsInv` keeps the components apart from each other, so
that the base of one is never taken out of another before that is recorded.
Assumed: no branch goes back to the entry (`ProgramsAssumption`), which
`GraphFitsPasses` says of the builder's graphs.

`LoopInvHoist_proofs` is checked for every graph, code, order of addresses and of
the innermost loops:

* `OperandsStayFirst`: operands computed before the instructions that use them
  still are (`OperandsComeFirst`);
* `NoInvariantIsLeft`: at the end no loop holds an instruction that does not change
  in it (`NothingInvariantLeft`);
* `InstructionsOnlyMoveOut`: every step keeps each instruction in one block, and one
  that moves goes to a dominator in fewer loops (`OnlyMovesOut`).

The invariant is `HoistInv` (`HoistingIsInvariant`). `FoundInv` splits what the loop
in hand defines into what is still needed there and what can leave, and the operands
of what can leave lie outside or can leave too. `OrderInv` is the order of
operands, kept since the set is walked in the order of addresses. For the end,
`Settled` names the loops no climb comes by any more, and `SettledInv` says that
they are clean and that what later leaves a loop around them does not come from
inside of them: otherwise the climb would put an invariant into a block between
two loops after that block had been looked at. The lemmas about natural loops say
that the header dominates its loop, that two loops are nested or apart
(`LoopsNested`), and that what dominates a block of a loop lies in the loop or
dominates the header (`DominatorOfBody`). The block before a loop dominates it also
by the branches an execution can take, since these still reach every block. Assumed:
`FunctionsAssumption`, as above; SSA form is not.

`CommonSubExper_proofs` is checked for every program:

* `SideEffectsAreKnown`: the rounds over the call graph find the functions with
  side effects and no others, in any order, if `main` is taken to have none
  (`SideEffectsKnown`);
* `UsersAreRedirected`: no instruction and no phi reads one that is deleted or waits
  for it, but for those that no use list holds (`UsersFollow`);
* `RewrittenFollows`: `Spec /\ OperandsListed(prog) => Implements`, the pass and the
  run of its result refine `Execution`;
* `NothingIsLeftTwice`: when the pass is over no block computes anything twice, but
  for a load with a store or a call in between that may have changed what it reads,
  and for expressions like `1 + 2`, whose constants are objects of their own
  (`NothingLeftTwice`).

`EffectsInv` bounds the set from both sides while it grows. `WalkInv` says that what
is available, in the block or saved of a block visited, is left in the code, and
that nothing is known yet of what the walk has still to come to (`Untouched`): so
no deleted instruction can be handed out as a replacement.

The refinement needs to know why a replacement has the right value, which the
variables do not tell. `Following` says that there is a map `rep`, from every
instruction to what has been put in its place, and a set `held[<<b, k>>]` for every
place of a block, of loads that still have the value memory has at their address,
such that four invariants hold. `HeldInv`: what is held behind an instruction was
held before it, or is its own load, and the instruction cannot have changed it; at
the start of a block it is held at the end of its only predecessor. `ReplacedInv`:
the code is what `rep` makes of the original, and an instruction was replaced by one
with the same key that has always been executed before (`Prior`), a load by one that
is held. `OffersInv`: what the pass has available, or saved, satisfies the same; of
what is to come nothing is replaced or held. `ValuesInv`, for the run: an
instruction executed before, and not on another way to this place, has the value of
its replacement, expressions and addresses still are what their operands make them,
and what is held is in memory, and every phi has the value it would have. A visit extends `rep` or `held` and leaves what lies
behind alone (`ReuseFollows`, `StoreFollows`, `InitSetsFollows`, `LeaveFollows`); a
step of the run keeps `ValuesInv` since addresses that no store confuses differ
(`AddressesApart`) and a call that is passed over writes nothing (`EffectsAreExact`,
the lemma behind `SideEffectsAreKnown`). Phis are never replaced, so they only take
over, pair by pair, what `rep` makes of their operands.

All this is about functions without joins. Of one with a join nothing is run, and
then `Implements` holds because registers and memory never change. `JoinInv` says that no
join is visited, since the predecessors that stand before it have been and the pass
stops there, and that no such function gets to phase `exec`; so both theorems cover
these functions too.

That nothing is left twice adds `OnceInv` to these: behind the walk of two equal
instructions of a block one is to be deleted, or they are loads and something may
change memory in between (`Once`); and in the block at hand everything left behind is
available under its key, but for loads that something since may have changed
(`Available`). It rests on the order of the walk, in which no instruction behind is
rewritten any more (`CodeBehind`) and nothing that writes memory is deleted
(`ChangedStays`), and on `AliasIsOverwritten`: the loads a store gives up are exactly
those whose array or scalar it may write, so none is loaded again for nothing.

Assumed, in three parts, each with what it leaves out:

* `ProgramsAssumption`: types, and every instruction and every block is listed once.
* `FunctionsAssumption`, for the last two theorems: blocks can be reached, memory is
  addressed by the scalar or by a `getelementptr`, names of constants, arrays,
  functions, phis and instructions differ, and `LoopInvHoist` has moved neither loads
  nor stores. Of the graph it says (`IsFlow`) that a block of which one predecessor
  alone stands before it in the list is dominated by that one; the functions of
  `CommonSubExper.cpp:237` below are left out by this.
* `RewrittenAssumption`, for functions without joins, so for those that are rewritten:
  operands and the operands of phis come from blocks that dominate their reader
  (`InSSA`); no call leads to a `main` that stores (`CommonSubExper.cpp:376`); and
  addresses at different indices are not taken for one (`CommonSubExper.cpp:120`).
  `InSSA` leaves out functions in which a variable is read that may have no value, and
  of them only those in which `ConstPropagation` has replaced a phi with one pair. In
  functions with joins operands may lie where they like: the address of an array
  element does not dominate the block that uses it there.

`OperandsListed` is a condition of `RewrittenFollows` and of the property
`NothingLeftTwice`. Of `if (c) { while (d) ..; x = a * b; } else return; y = x + 1;`
the block that reads `x` is listed, and visited, before the one that computes it. When
`x` is replaced later, what is known under a key made of it is not known under the new
one, so two expressions that turn out equal only then are both left, and the invariants
above, which read keys off the code, no longer hold. `Implements` needs no such condition
in the run, where the functions of `Late` are of this kind.

`ActiveVars_proofs` is checked for every function in SSA form, every set of values
and every order of the blocks:

* `TypeCorrect`, and `NoFalseLiveness`: `Spec => []NothingDeadIsLive`;
* `SweepsOnlyAdd`: a value once live in stays so (`LiveInGrows`), although
  `live_in` is cleared at each visit;
* `NothingIsMissed`: at the end nothing a path needs is missing, in functions in
  which phi operands are used by phis only (`NothingLiveIsMissed`).

The invariant joins the types, `NothingDeadIsLive` and `SweepInv`. `SweepInv` says
that `live_in[b]` is always within what the next visit will compute (the equations
are monotonic, and `use_set` and `def_set` of a block are disjoint), and that the
blocks visited since the last change satisfy their equations. When a sweep ends
without a change they all do; the blocks whose `live_out` holds a value are then
closed under need, and so contain every block from whose end a path needs it.
Assumed: `WellFormed`, that a value is defined once in a block.

Left to TLC: termination everywhere (liveness); of `LoopSearch`, that the loops are
the natural loops of a reducible graph and nest (`LoopsAreNatural`, `LoopsNest`),
which needs that Tarjan's components are maximal, round by round, in the graph that
is left; of `ConstPropagation`, that the result does what the original did and when the pass
hangs (`FollowsOriginal`, `HangNeedsDeadLoop`). These two are not true of every
function of `Programs`: they need that definitions come before uses on every path
and that the list of blocks has the order the builder gives it, and the use lists
they depend on go stale. `SyntaxTree`, `Expressions`, `ConstFolding` and
`DeadCodeEliminate` recurse over trees and calls with RECURSIVE operators, out of
the prover's reach.

## What the runs found

* `User.cpp:49` (`const_propagation_operand`): uses keep the old numbers of
  operands. The compiler aborts on `int x; int y; if (0) x = 2; else x = 4; if (0)
  x = 3; else y = 1; return x;`.
* `Mem2Reg.cpp:134` (`mem2reg_undef`): the assertion fails for `int x; if (c) x =
  1; else y = 2;` if the then branch is renamed first.

The conditions in the passing properties name what else does not hold, each listed
as a hazard:

* `Terminates` of `Dominators` (`Dominators.cpp:151`): with an unreachable
  predecessor the frontier loop never ends. The builder makes such a graph of
  `void f(int c){ if(c){ return 1; while(c); } }`, where `return_flag` stays unset
  (see below).
* `Mem2Reg.cpp:106`: `back()` of an empty vector is read for a load that no
  definition reaches after a sibling's has been popped.
* `HangNeedsDeadLoop`: `if (0) while (1) x = x + 1;` leaves a cycle that
  `CompressPath` merges with itself for ever. `NeverAssigned` in it: of `int x; while
  (1) { if (1) ; else x = 0; }` the phi of `x` is all that is left of itself, and the
  list of its uses grows while it is walked.
* `ReadsRoundBefore` (`ConstPropagation.cpp:549`): a variable without a value before a
  loop has a phi with one pair, which is replaced by the value of the round, also
  where the one of the round before is meant. Of `while (c) { y = x; x = f(); if (d)
  g(y); }` the call gets the new `x`.
* `TakesTwice`: a phi with the same operand twice is left with a deleted one (`if
  (0) x = x; else y = 1;` after an if that sets `x`).
* `DropBranchFails`: with a phi in the target of the branch never taken, as for
  `if (1) x = 1;`, the pass walks on from a freed node.
* `EveryLoopHasBase`: `LoopSearch` reads a null pointer on a cycle of several
  blocks that the entry does not reach, which `ConstPropagation` can leave.
* `PhiOperandsOnlyInPhis`: a block that branches to itself, or a phi that reads an
  earlier phi of its block, loses liveness.
* `AllocatedInOrder`: if addresses do not follow the code, an invariant can come
  to stand before its operand.
* `NoComparisonAsFloat` (`cminusf_builder.cpp:661`): the i1 of a comparison
  becomes a float by `sitofp`, so that `y = 0.5 + (x < 1);` adds -1.
* `NoCallDropped` (`cminusf_builder.cpp:560`): the call of `f` in `f(a[g(b)]);`
  with an array `b` is not built.
* `NoWayBack` (`ConstPropagation.cpp:343`): a global that one function sets keeps
  its constant over a call that comes back to that function.
* `RewrittenAssumption` of `CommonSubExper` (`CommonSubExper.cpp:120`): for an array
  argument, `a[i] + a[j]` may become `a[i] + a[i]`.
* `RewrittenAssumption` and `Seen` (`CommonSubExper.cpp:376`): `main` is taken to have
  no side effects. If it stores to a global and calls itself, a load of the global
  before the call is used again behind it.
* `IsFlow` (`CommonSubExper.cpp:237`): of `if (a) while (b) ..; else x = c * d; y = c *
  d;` the join stands before the loop in the list and takes over what the else branch
  computed, so that `y` is wrong, or undefined, on the other way.
* `HangsAtJoins` (`CommonSubExper.cpp:257`): the compiler does not end on a join of two
  blocks it has visited, as after a plain `if`, or after any access to an array at an
  index that is tested.
* `NothingLeftTwice` but for `1 + 2` (`CommonSubExper.cpp:43`, `Constant.cpp:6`): of `x
  = 1 + 2; y = 1 + 2;` both sums are left when constants are not folded, as the key
  holds the right constant as an object and every constant is a new one.
* `OperandsListed`: what is visited before its operand is looked up under a key that
  changes later, and may be left twice (see the proofs).
* `UsersFollow` but for `prog.moved` (`LoopInvHoist.cpp:130`): of `x = a * b;
  while (..) x = x + (a * b + c);` the sum is moved, the second product replaced
  by the first, and the sum keeps reading it; the IR is refused by clang.
* `OneNamePerCell` and `NoSilentReader` (`DeadCodeEliminate.cpp:327`, `:491`): a
  store is removed although an array argument is the same array, or although a
  function called in between reads it.

Left out of the programs, or without a property, for the reason given:

* A void function that returns a value (`cminusf_builder.cpp:464`): `return_flag`
  stays unset and the block gets a second terminator, against LightIR.md:151.
* A phi operand that the successor reads for another reason as well
  (`ActiveVars.cpp:134`) is dropped from `live_out` of other predecessors, where
  lab5/README.md:98 restricts only what the phi itself needs.
* A division (`LoopInvHoist.cpp:76`) moves to where it is always executed, which
  lab5/README.md:89 rules out for what has side effects.
* `FoldTraps` (`ConstPropagation.cpp:26`): `1 / 0` divides in the compiler.
* A global array of size zero before every function: the builder has no block to
  put the call of `neg_idx_except` in (`VarDeclaration`, phase `crashed`).
* `DeleteFuncDeadArg` leaves the old use of a cleared operand listed; no later
  step of the pass asks for it.

## Plan

1. Proofs: that the components `LoopSearch` takes are maximal, from which the loops
   `LoopInvHoist` takes follow.
2. Composition: `LoopInvHoist` before `CommonSubExper` in one run, instead of by
   what the one leaves for the other (`prog.moved`); and `ConstPropagation` before
   `LoopSearch`, where a cycle left behind by one is met by the other.
3. Control flow in `DeadCodeEliminate`'s meaning, and in `ConstFolding`, where
   constants of globals are forgotten at the end of a block.

## Not modelled

The lexers and the parser are generated from rules; the trees they build are where
`SyntaxTree` begins. Of `ast.cpp`, the nodes of `if` and `while` (the builder's
module starts from them) and the printing of trees are left out. Types, the
module's tables and the printing of the IR have no control of their own beyond the
types results get, which `Expressions` has. The driver runs the passes once, in a
fixed order, and the runtime does input and output. `TailRecursion.cpp` and
`optimization/test.cpp` are not in the build; `create_doms`, and `CompressPath` of
`DeadCodeEliminate`, are never called.

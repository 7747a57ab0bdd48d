--------------------------- MODULE LoopSearch_proofs ---------------------------
(****************************************************************************)
(* find_loop_base finds a base, for every function whose entry reaches all  *)
(* blocks, in every round, and whatever the order of the sets.              *)
(****************************************************************************)
EXTENDS LoopSearch, SequenceTheorems, FiniteSetTheorems, TLAPS

CallFrames == [node : Blocks, rest : SUBSET Blocks]

LEMMA ProgFacts ==
  ASSUME NEW p \in Programs
  PROVE  /\ Entry \in p.blocks /\ p.blocks \subseteq Blocks
         /\ p.succ \in [Blocks -> SUBSET (p.blocks \ {Entry})]
BY ProgramsAssumption

(* Positions on the stack and indexes are in the same order. *)
LEMMA StackFacts ==
  ASSUME SearchInv
  PROVE  /\ Len(stack) \in Nat /\ DOMAIN stack = 1..Len(stack)
         /\ \A i \in 1..Len(stack) : stack[i] \in OnStack /\ stack[i] \in nodes /\ stack[i] \in Blocks
         /\ \A x \in OnStack : \E i \in 1..Len(stack) : x = stack[i]
         /\ \A i, j \in 1..Len(stack) : index[stack[i]] < index[stack[j]] <=> i < j
         /\ \A i, j \in 1..Len(stack) : stack[i] = stack[j] => i = j
         /\ OnStack \subseteq nodes /\ nodes \subseteq Blocks
<1>1. /\ stack \in Seq(Blocks) /\ index \in [Blocks -> Int] /\ nodes \subseteq Blocks
  BY ProgFacts DEF SearchInv, TypeOK
<1>2. Len(stack) \in Nat /\ DOMAIN stack = 1..Len(stack)
  BY <1>1
<1>3. /\ \A i \in 1..Len(stack) : stack[i] \in OnStack
      /\ \A x \in OnStack : \E i \in 1..Len(stack) : x = stack[i]
  BY DEF OnStack
<1>4. OnStack \subseteq nodes
  BY DEF SearchInv, StackInv
<1>5. \A i \in 1..Len(stack) : stack[i] \in nodes /\ stack[i] \in Blocks /\ index[stack[i]] \in Int
  BY <1>1, <1>3, <1>4
<1>6. ASSUME NEW i \in 1..Len(stack), NEW j \in 1..Len(stack)
      PROVE  (index[stack[i]] < index[stack[j]] <=> i < j) /\ (stack[i] = stack[j] => i = j)
  <2>1. (i < j => index[stack[i]] < index[stack[j]]) /\ (j < i => index[stack[j]] < index[stack[i]])
    BY <1>2 DEF SearchInv, StackInv
  <2>2. PICK m, n : m = index[stack[i]] /\ n = index[stack[j]]
    OBVIOUS
  <2>3. m \in Int /\ n \in Int /\ (i < j => m < n) /\ (j < i => n < m) /\ (stack[i] = stack[j] => m = n)
    BY <1>5, <2>1, <2>2
  <2>4. i \in Int /\ j \in Int
    BY <1>2
  <2>5. (m < n <=> i < j) /\ (m = n => i = j)
    BY ONLY <2>3, <2>4
  <2>6. QED
    BY <2>2, <2>3, <2>5
<1>7. QED
  BY <1>1, <1>2, <1>3, <1>4, <1>5, <1>6

LEMMA CallFacts ==
  ASSUME SearchInv
  PROVE  /\ Len(calls) \in Nat /\ DOMAIN calls = 1..Len(calls)
         /\ \A k \in 1..Len(calls) : /\ calls[k] \in CallFrames /\ calls[k].node \in OnStack
                                     /\ calls[k].rest \subseteq succs[calls[k].node]
         /\ \A k, l \in 1..Len(calls) : k < l => index[calls[k].node] < index[calls[l].node]
<1>1. calls \in Seq(CallFrames)
  BY DEF SearchInv, TypeOK, CallFrames
<1>2. QED
  BY <1>1 DEF SearchInv, StackInv

LEMMA InitInv == Init => SearchInv
<1> SUFFICES ASSUME Init PROVE SearchInv
  OBVIOUS
<1>1. /\ prog \in Programs /\ pc = "search" /\ nodes = prog.blocks /\ succs = prog.succ
      /\ prevs = [b \in Blocks |-> Preds(prog.succ, b)] /\ index_count = 0
      /\ index = Unvisited /\ lowlink = Unvisited /\ stack = <<>> /\ calls = <<>>
      /\ sccs = {} /\ reserved = {}
  BY DEF Init
<1>2. /\ Entry \in prog.blocks /\ prog.blocks \subseteq Blocks
      /\ prog.succ \in [Blocks -> SUBSET (prog.blocks \ {Entry})]
  BY <1>1, ProgFacts
<1>3. Len(stack) = 0 /\ DOMAIN stack = {} /\ DOMAIN calls = {} /\ OnStack = {}
  BY <1>1 DEF OnStack
<1>4. TypeOK
  <2>1. Unvisited \in [Blocks -> Int]
    BY DEF Unvisited
  <2>2. prevs \in [Blocks -> SUBSET Blocks]
    BY <1>1 DEF Preds
  <2>3. stack \in Seq(Blocks) /\ calls \in Seq([node : Blocks, rest : SUBSET Blocks])
    BY <1>1
  <2>4. QED
    BY <1>1, <1>2, <2>1, <2>2, <2>3 DEF TypeOK
<1>5. NodesInv
  BY <1>1, <1>2 DEF NodesInv, Preds
<1>6. StackInv
  BY <1>1, <1>3 DEF StackInv
<1>7. LowInv
  BY <1>3 DEF LowInv
<1>8. SccsInv
  BY <1>1 DEF SccsInv
<1>9. QED
  BY <1>1, <1>4, <1>5, <1>6, <1>7, <1>8 DEF SearchInv, EveryLoopHasBase

-------------------------------------------------------------------------------
(****************************************************************************)
(* traverse                                                                 *)
(****************************************************************************)
(* The callers, with the same nodes and no more to see. *)
SameCalls(c) ==
  /\ c \in Seq(CallFrames) /\ Len(c) = Len(calls)
  /\ \A k \in 1..Len(calls) : c[k].node = calls[k].node /\ c[k].rest \subseteq calls[k].rest

LEMMA EnterInv ==
  ASSUME SearchInv, pc = "search", NEW n \in nodes, index[n] = -1, NEW c, SameCalls(c),
         calls # <<>> => n # Entry, Enter(n, c),
         UNCHANGED <<prog, pc, nodes, succs, prevs, reserved, sccs>>
  PROVE  SearchInv'
<1> DEFINE s == Len(stack)
           t == Len(calls)
<1>1. /\ index' = [index EXCEPT ![n] = index_count]
      /\ lowlink' = [lowlink EXCEPT ![n] = index_count]
      /\ index_count' = index_count + 1
      /\ stack' = Append(stack, n)
      /\ calls' = Append(c, [node |-> n, rest |-> succs[n]])
  BY DEF Enter
<1>2. /\ index \in [Blocks -> Int] /\ lowlink \in [Blocks -> Int] /\ index_count \in Nat
      /\ succs \in [Blocks -> SUBSET Blocks] /\ stack \in Seq(Blocks) /\ n \in Blocks
  BY StackFacts DEF SearchInv, TypeOK
<1>3. /\ s \in Nat /\ DOMAIN stack = 1..s /\ t \in Nat /\ DOMAIN calls = 1..t
      /\ \A i \in 1..s : stack[i] \in OnStack /\ stack[i] \in nodes /\ stack[i] \in Blocks
      /\ \A x \in OnStack : \E i \in 1..s : x = stack[i]
      /\ OnStack \subseteq nodes /\ nodes \subseteq Blocks
  BY StackFacts, CallFacts
<1>4. \A i \in 1..s : 0 <= index[stack[i]] /\ index[stack[i]] < index_count
  BY <1>3 DEF SearchInv, StackInv
<1>5. n \notin OnStack
  BY <1>2, <1>3, <1>4
<1>6. /\ \A x \in Blocks : index'[x] = IF x = n THEN index_count ELSE index[x]
      /\ \A x \in Blocks : lowlink'[x] = IF x = n THEN index_count ELSE lowlink[x]
      /\ index' \in [Blocks -> Int] /\ lowlink' \in [Blocks -> Int]
  BY <1>1, <1>2
<1>7. \A x \in OnStack : index'[x] = index[x] /\ lowlink'[x] = lowlink[x] /\ x \in Blocks
  BY <1>3, <1>5, <1>6
<1>8. /\ stack' \in Seq(Blocks) /\ Len(stack') = s + 1 /\ DOMAIN stack' = 1..s + 1
      /\ stack'[s + 1] = n /\ \A i \in 1..s : stack'[i] = stack[i]
  BY <1>1, <1>2, AppendProperties
<1>9. OnStack' = OnStack \cup {n}
  <2>1. OnStack' = {stack'[i] : i \in 1..s + 1}
    BY <1>8 DEF OnStack
  <2>2. OnStack = {stack[i] : i \in 1..s}
    BY DEF OnStack
  <2>3. 1..s + 1 = 1..s \cup {s + 1}
    BY <1>3
  <2>4. QED
    BY <1>8, <2>1, <2>2, <2>3
<1>10. /\ calls' \in Seq(CallFrames) /\ Len(calls') = t + 1 /\ DOMAIN calls' = 1..t + 1
       /\ calls'[t + 1] = [node |-> n, rest |-> succs[n]]
       /\ \A k \in 1..t : calls'[k] = c[k]
  <2>1. [node |-> n, rest |-> succs[n]] \in CallFrames
    BY <1>2 DEF CallFrames
  <2>2. c \in Seq(CallFrames) /\ Len(c) = t
    BY DEF SameCalls
  <2>3. PICK q : q = Append(c, [node |-> n, rest |-> succs[n]])
    OBVIOUS
  <2>4. /\ q \in Seq(CallFrames) /\ Len(q) = t + 1
        /\ q[t + 1] = [node |-> n, rest |-> succs[n]]
        /\ \A k \in 1..t : q[k] = c[k]
    BY <2>1, <2>2, <2>3, AppendProperties
  <2>5. DOMAIN q = 1..t + 1
    BY <2>4
  <2>6. QED
    BY <1>1, <2>3, <2>4, <2>5
<1>11. /\ calls'[t + 1].node = n /\ calls'[t + 1].rest = succs[n]
       /\ \A k \in 1..t : calls'[k].node = calls[k].node /\ calls'[k].rest \subseteq calls[k].rest
  BY <1>10 DEF SameCalls
<1>12. TypeOK'
  <2>1. index_count' \in Nat
    BY <1>1, <1>2
  <2>2. QED
    BY <1>6, <1>8, <1>10, <2>1 DEF SearchInv, TypeOK, CallFrames
<1>13. NodesInv'
  BY DEF SearchInv, NodesInv
<1> HIDE DEF s, t
<1>14. StackInv'
  <2>1. OnStack' \subseteq nodes
    BY <1>3, <1>9
  <2>2. ASSUME NEW i \in 1..s + 1 PROVE 0 <= index'[stack'[i]] /\ index'[stack'[i]] < index_count + 1
    <3>1. CASE i = s + 1
      BY <1>2, <1>6, <1>8, <3>1
    <3>2. CASE i # s + 1
      <4>1. i \in 1..s
        BY <1>3, <3>2
      <4>2. index'[stack'[i]] = index[stack[i]] /\ index[stack[i]] \in Int
        BY <1>2, <1>3, <1>7, <1>8, <4>1
      <4>3. QED
        BY <1>2, <1>4, <4>1, <4>2
    <3>3. QED
      BY <3>1, <3>2
  <2>3. ASSUME NEW i \in 1..s + 1, NEW j \in 1..s + 1, i < j
        PROVE  index'[stack'[i]] < index'[stack'[j]]
    <3>1. i \in 1..s
      BY <1>3, <2>3
    <3>2. index'[stack'[i]] = index[stack[i]]
      BY <1>3, <1>7, <1>8, <3>1
    <3>3. CASE j = s + 1
      BY <1>2, <1>4, <1>6, <1>8, <3>1, <3>2, <3>3
    <3>4. CASE j # s + 1
      <4>1. j \in 1..s
        BY <1>3, <3>4
      <4>2. index'[stack'[j]] = index[stack[j]]
        BY <1>3, <1>7, <1>8, <4>1
      <4>3. index[stack[i]] < index[stack[j]]
        BY <1>3, <2>3, <3>1, <4>1 DEF SearchInv, StackInv
      <4>4. QED
        BY <3>2, <4>2, <4>3
    <3>5. QED
      BY <3>3, <3>4
  <2>4. ASSUME NEW k \in 1..t + 1
        PROVE  calls'[k].node \in OnStack' /\ calls'[k].rest \subseteq succs[calls'[k].node]
    <3>1. CASE k = t + 1
      BY <1>9, <1>11, <3>1
    <3>2. CASE k # t + 1
      <4>1. k \in 1..t
        BY <1>3, <3>2
      <4>2. calls[k].node \in OnStack /\ calls[k].rest \subseteq succs[calls[k].node]
        BY <4>1, CallFacts DEF t
      <4>3. QED
        BY <1>9, <1>11, <4>1, <4>2
    <3>3. QED
      BY <3>1, <3>2
  <2>5. ASSUME NEW k \in 1..t + 1, NEW l \in 1..t + 1, k < l
        PROVE  index'[calls'[k].node] < index'[calls'[l].node]
    <3>1. k \in 1..t
      BY <1>3, <2>5
    <3>2. calls'[k].node = calls[k].node /\ calls[k].node \in OnStack
      BY <1>11, <3>1, CallFacts DEF t
    <3>3. index'[calls'[k].node] = index[calls[k].node]
      BY <1>7, <3>2
    <3>4. CASE l = t + 1
      <4>1. PICK i \in 1..s : calls[k].node = stack[i]
        BY <1>3, <3>2
      <4>2. QED
        BY <1>2, <1>4, <1>6, <1>11, <3>3, <3>4, <4>1
    <3>5. CASE l # t + 1
      <4>1. l \in 1..t
        BY <1>3, <3>5
      <4>2. calls'[l].node = calls[l].node /\ calls[l].node \in OnStack
        BY <1>11, <4>1, CallFacts DEF t
      <4>3. index'[calls'[l].node] = index[calls[l].node]
        BY <1>7, <4>2
      <4>4. index[calls[k].node] < index[calls[l].node]
        BY <2>5, <3>1, <4>1, CallFacts DEF t
      <4>5. QED
        BY <3>3, <4>3, <4>4
    <3>6. QED
      BY <3>4, <3>5
  <2>6. calls' # <<>> /\ stack' # <<>> /\ stack'[1] = calls'[1].node
    <3>1. calls' # <<>> /\ stack' # <<>>
      BY <1>3, <1>8, <1>10
    <3>2. CASE t = 0
      <4>1. calls = <<>>
        BY <3>2 DEF t, SearchInv, TypeOK
      <4>2. s = 0
        BY <4>1 DEF s, SearchInv, StackInv
      <4>3. QED
        BY <1>8, <1>11, <3>1, <3>2, <4>2
    <3>3. CASE t # 0
      <4>1. calls # <<>> /\ 1 \in 1..t
        BY <1>3, <3>3 DEF t
      <4>2. stack # <<>> /\ stack[1] = calls[1].node
        BY <4>1 DEF SearchInv, StackInv
      <4>3. 1 \in 1..s
        BY <1>2, <1>3, <4>2 DEF s
      <4>4. QED
        BY <1>8, <1>11, <3>1, <4>1, <4>2, <4>3
    <3>4. QED
      BY <3>2, <3>3
  <2>7. QED
    BY <1>1, <1>8, <1>10, <2>1, <2>2, <2>3, <2>4, <2>5, <2>6 DEF StackInv
<1>15. LowInv'
  <2>1. ASSUME NEW x \in OnStack \cup {n}
        PROVE  \E y \in OnStack \cup {n} : lowlink'[x] = index'[y] /\ index'[y] <= index'[x]
    <3>1. CASE x = n
      BY <1>2, <1>6, <3>1
    <3>2. CASE x # n
      <4>1. PICK y \in OnStack : lowlink[x] = index[y] /\ index[y] <= index[x]
        BY <2>1, <3>2 DEF SearchInv, LowInv
      <4>2. QED
        BY <1>7, <2>1, <3>2, <4>1
    <3>3. QED
      BY <3>1, <3>2
  <2>2. ASSUME NEW x \in OnStack \cup {n}, \A k \in 1..t + 1 : calls'[k].node # x
        PROVE  lowlink'[x] < index'[x]
    <3>1. x # n /\ x \in OnStack
      BY <1>3, <1>11, <2>2
    <3>2. \A k \in 1..t : calls[k].node # x
      BY <1>3, <1>11, <2>2
    <3>3. lowlink[x] < index[x]
      BY <1>3, <3>1, <3>2 DEF SearchInv, LowInv
    <3>4. QED
      BY <1>7, <3>1, <3>3
  <2>3. ASSUME Entry \in OnStack \cup {n}
        PROVE  stack'[1] = Entry /\ \A x \in (OnStack \cup {n}) \ {Entry} : index'[Entry] < lowlink'[x]
    <3>1. CASE Entry = n
      <4>1. calls = <<>> /\ stack = <<>>
        BY <3>1 DEF SearchInv, StackInv
      <4>2. s = 0
        BY <4>1 DEF s
      <4>3. OnStack = {}
        BY <1>3, <4>2
      <4>4. QED
        BY <1>8, <3>1, <4>2, <4>3
    <3>2. CASE Entry # n
      <4>1. Entry \in OnStack /\ stack[1] = Entry /\ \A x \in OnStack \ {Entry} : index[Entry] < lowlink[x]
        BY <2>3, <3>2 DEF SearchInv, LowInv
      <4>2. 1 \in 1..s /\ stack'[1] = Entry
        BY <1>3, <1>8, <4>1
      <4>3. index'[Entry] = index[Entry] /\ index[Entry] < index_count
        BY <1>4, <1>7, <4>1, <4>2
      <4>4. lowlink'[n] = index_count /\ \A x \in OnStack : lowlink'[x] = lowlink[x]
        BY <1>2, <1>6, <1>7
      <4>5. QED
        BY <4>1, <4>2, <4>3, <4>4
    <3>3. QED
      BY <3>1, <3>2
  <2>4. QED
    BY <1>9, <1>10, <2>1, <2>2, <2>3 DEF LowInv
<1>16. SccsInv'
  <2>1. ASSUME NEW a \in sccs
        PROVE  /\ a # {} /\ a \subseteq nodes \ {Entry} /\ a \cap (OnStack \cup {n}) = {}
               /\ \A x \in a : index'[x] # -1
    <3>1. /\ a # {} /\ a \subseteq nodes \ {Entry} /\ a \cap OnStack = {}
          /\ \A x \in a : index[x] # -1
      BY DEF SearchInv, SccsInv
    <3>2. n \notin a
      BY <3>1
    <3>3. QED
      BY <1>3, <1>6, <3>1, <3>2
  <2>2. \A a, b \in sccs : a # b => a \cap b = {}
    BY DEF SearchInv, SccsInv
  <2>3. QED
    BY <1>9, <2>1, <2>2 DEF SccsInv
<1>17. EveryLoopHasBase'
  BY DEF EveryLoopHasBase
<1>18. QED
  BY <1>12, <1>13, <1>14, <1>15, <1>16, <1>17 DEF SearchInv

LEMMA TraverseRootInv == ASSUME SearchInv, NEW n, TraverseRoot(n) PROVE SearchInv'
<1>1. /\ pc = "search" /\ calls = <<>> /\ n \in nodes /\ index[n] = -1 /\ Enter(n, <<>>)
      /\ UNCHANGED <<prog, pc, nodes, succs, prevs, reserved, sccs>>
  BY DEF TraverseRoot, graphVars
<1>2. PICK c : c = <<>>
  OBVIOUS
<1>3. SameCalls(c)
  <2>1. c \in Seq(CallFrames) /\ Len(c) = 0 /\ Len(calls) = 0
    BY <1>1, <1>2
  <2>2. QED
    BY <2>1 DEF SameCalls
<1>4. Enter(n, c)
  BY <1>1, <1>2
<1>5. QED
  BY <1>1, <1>3, <1>4, EnterInv

(* The top call has seen one more successor. *)
Without(c, su) == [c EXCEPT ![Len(c)].rest = @ \ {su}]

LEMMA WithoutCalls ==
  ASSUME SearchInv, calls # <<>>, NEW su
  PROVE  SameCalls(Without(calls, su))
<1>1. calls \in Seq(CallFrames)
  BY DEF SearchInv, TypeOK, CallFrames
<1>2. PICK c : c = calls
  OBVIOUS
<1>3. c \in Seq(CallFrames) /\ Len(c) \in Nat /\ Len(c) # 0 /\ DOMAIN c = 1..Len(c)
  BY <1>1, <1>2
<1>4. PICK m : m = Len(c)
  OBVIOUS
<1>5. m \in Nat /\ c \in [1..m -> CallFrames] /\ m \in 1..m
  BY <1>3, <1>4
<1>6. PICK f : f = [c[m] EXCEPT !.rest = @ \ {su}]
  OBVIOUS
<1>7. c[m] \in CallFrames
  BY <1>5
<1>8. f \in CallFrames /\ f.node = c[m].node /\ f.rest = c[m].rest \ {su}
  BY <1>6, <1>7 DEF CallFrames
<1>9. PICK w : w = [c EXCEPT ![m] = f]
  OBVIOUS
<1>10. /\ w \in [1..m -> CallFrames]
       /\ \A k \in 1..m : w[k] = IF k = m THEN f ELSE c[k]
  BY <1>5, <1>8, <1>9
<1>11. w \in Seq(CallFrames) /\ Len(w) = m
  BY <1>5, <1>10
<1>12. w = Without(calls, su)
  BY <1>2, <1>4, <1>6, <1>9 DEF Without
<1>13. \A k \in 1..m : w[k].node = c[k].node /\ w[k].rest \subseteq c[k].rest
  BY <1>8, <1>10
<1>14. QED
  BY <1>2, <1>4, <1>11, <1>12, <1>13 DEF SameCalls

(* A step that leaves the stack, the indexes and the components, and the    *)
(* nodes of the calls.                                                      *)
LEMMA SameStackInv ==
  ASSUME SearchInv, pc = "search", SameCalls(calls'),
         UNCHANGED <<prog, pc, nodes, succs, prevs, reserved, index, index_count, stack, sccs>>,
         lowlink' \in [Blocks -> Int],
         \A x \in OnStack :
            \/ lowlink'[x] = lowlink[x]
            \/ /\ \E y \in OnStack : lowlink'[x] = index[y] /\ (x # Entry => y # Entry)
               /\ lowlink'[x] < lowlink[x]
  PROVE  SearchInv'
<1>1. /\ calls' \in Seq(CallFrames) /\ Len(calls') = Len(calls)
      /\ \A k \in 1..Len(calls) : /\ calls'[k].node = calls[k].node
                                  /\ calls'[k].rest \subseteq calls[k].rest
  BY DEF SameCalls
<1>2. /\ Len(calls) \in Nat /\ DOMAIN calls = 1..Len(calls) /\ DOMAIN calls' = 1..Len(calls)
      /\ calls = <<>> <=> calls' = <<>>
  <2>1. calls \in Seq(CallFrames) /\ Len(calls) \in Nat
    BY DEF SearchInv, TypeOK, CallFrames
  <2>2. QED
    BY <1>1, <2>1
<1>3. OnStack' = OnStack
  BY DEF OnStack
<1>4. TypeOK'
  BY <1>1 DEF SearchInv, TypeOK, CallFrames
<1>5. NodesInv'
  BY DEF SearchInv, NodesInv
<1>6. StackInv'
  <2>1. \A k \in 1..Len(calls) : /\ calls'[k].node \in OnStack
                                 /\ calls'[k].rest \subseteq succs[calls'[k].node]
    BY <1>1, CallFacts
  <2>2. \A k, l \in 1..Len(calls) : k < l => index[calls'[k].node] < index[calls'[l].node]
    BY <1>1, CallFacts
  <2>3. calls # <<>> => stack # <<>> /\ stack[1] = calls'[1].node
    <3>1. calls # <<>> => 1 \in 1..Len(calls)
      BY <1>2 DEF SearchInv, TypeOK
    <3>2. QED
      BY <1>1, <3>1 DEF SearchInv, StackInv
  <2>4. QED
    BY <1>2, <1>3, <2>1, <2>2, <2>3 DEF SearchInv, StackInv
<1>7. LowInv'
  <2>1. /\ index \in [Blocks -> Int] /\ lowlink \in [Blocks -> Int] /\ OnStack \subseteq Blocks
    BY StackFacts DEF SearchInv, TypeOK
  <2>2. ASSUME NEW x \in OnStack
        PROVE  \E y \in OnStack : lowlink'[x] = index[y] /\ index[y] <= index[x]
    <3>1. PICK y \in OnStack : lowlink[x] = index[y] /\ index[y] <= index[x]
      BY DEF SearchInv, LowInv
    <3>2. CASE lowlink'[x] = lowlink[x]
      BY <3>1, <3>2
    <3>3. CASE (\E z \in OnStack : lowlink'[x] = index[z]) /\ lowlink'[x] < lowlink[x]
      <4>1. PICK z \in OnStack : lowlink'[x] = index[z]
        BY <3>3
      <4>2. index[z] < index[y] /\ index[y] <= index[x]
        BY <3>1, <3>3, <4>1
      <4>3. index[z] \in Int /\ index[y] \in Int /\ index[x] \in Int
        BY <2>1, <2>2, <3>1, <4>1
      <4>4. index[z] <= index[x]
        BY <4>2, <4>3
      <4>5. QED
        BY <4>1, <4>4
    <3>4. QED
      BY <3>2, <3>3
  <2>3. ASSUME NEW x \in OnStack, \A k \in 1..Len(calls) : calls'[k].node # x
        PROVE  lowlink'[x] < index[x]
    <3>1. lowlink[x] < index[x]
      BY <1>1, <1>2, <2>3 DEF SearchInv, LowInv
    <3>2. lowlink'[x] \in Int /\ lowlink[x] \in Int /\ index[x] \in Int
      BY <2>1
    <3>3. lowlink'[x] = lowlink[x] \/ lowlink'[x] < lowlink[x]
      OBVIOUS
    <3>4. QED
      BY <3>1, <3>2, <3>3
  <2>4. ASSUME Entry \in OnStack
        PROVE  stack[1] = Entry /\ \A x \in OnStack \ {Entry} : index[Entry] < lowlink'[x]
    <3>1. stack[1] = Entry /\ \A x \in OnStack \ {Entry} : index[Entry] < lowlink[x]
      BY <2>4 DEF SearchInv, LowInv
    <3>2. ASSUME NEW y \in OnStack \ {Entry} PROVE index[Entry] < index[y]
      <4>1. PICK j \in 1..Len(stack) : y = stack[j]
        BY StackFacts
      <4>2. 1 \in 1..Len(stack) /\ 1 < j
        BY <3>1, <3>2, <4>1, StackFacts
      <4>3. QED
        BY <3>1, <4>1, <4>2, StackFacts
    <3>3. QED
      BY <3>1, <3>2
  <2>5. QED
    BY <1>2, <1>3, <2>2, <2>3, <2>4 DEF LowInv
<1>8. SccsInv'
  BY <1>3 DEF SearchInv, SccsInv
<1>9. EveryLoopHasBase'
  BY DEF EveryLoopHasBase
<1>10. QED
  BY <1>4, <1>5, <1>6, <1>7, <1>8, <1>9 DEF SearchInv

LEMMA SeeSuccessorInv == ASSUME SearchInv, NEW su, SeeSuccessor(su) PROVE SearchInv'
<1>1. PICK c, n : c = Without(calls, su) /\ n = Frame.node
  OBVIOUS
<1>2. /\ pc = "search" /\ calls # <<>> /\ su \in Frame.rest
      /\ UNCHANGED <<prog, pc, nodes, succs, prevs, reserved, sccs>>
  BY DEF SeeSuccessor, graphVars
<1>3. SameCalls(c)
  BY <1>1, <1>2, WithoutCalls
<1>4. n \in OnStack /\ su \in succs[n] /\ n \in nodes
  <2>1. Len(calls) \in 1..Len(calls)
    BY <1>2 DEF SearchInv, TypeOK
  <2>2. QED
    BY <1>1, <1>2, <2>1, CallFacts, StackFacts DEF Frame
<1>5. su \in nodes /\ su # Entry
  BY <1>2, <1>4 DEF SearchInv, NodesInv
<1>6. CASE index[su] = -1
  <2>1. Enter(su, c)
    BY <1>1, <1>6 DEF SeeSuccessor, Without
  <2>2. QED
    BY <1>2, <1>3, <1>5, <1>6, <2>1, EnterInv
<1>7. CASE index[su] # -1
  <2>1. /\ lowlink' = [lowlink EXCEPT ![n] =
                         IF su \in OnStack /\ index[su] < lowlink[n] THEN index[su] ELSE lowlink[n]]
        /\ calls' = c /\ UNCHANGED <<index, index_count, stack>>
    BY <1>1, <1>7 DEF SeeSuccessor, Without
  <2>2. /\ lowlink \in [Blocks -> Int] /\ index \in [Blocks -> Int] /\ OnStack \subseteq Blocks
        /\ su \in Blocks
    BY <1>5, StackFacts DEF SearchInv, TypeOK
  <2>3. /\ lowlink' \in [Blocks -> Int]
        /\ \A x \in OnStack :
              \/ lowlink'[x] = lowlink[x]
              \/ /\ \E y \in OnStack : lowlink'[x] = index[y] /\ (x # Entry => y # Entry)
                 /\ lowlink'[x] < lowlink[x]
    <3>1. PICK v : v = IF su \in OnStack /\ index[su] < lowlink[n] THEN index[su] ELSE lowlink[n]
      OBVIOUS
    <3>2. v \in Int /\ lowlink' = [lowlink EXCEPT ![n] = v]
      BY <1>4, <2>1, <2>2, <3>1
    <3>3. \A x \in OnStack : lowlink'[x] = IF x = n THEN v ELSE lowlink[x]
      BY <2>2, <3>2
    <3>4. v = lowlink[n] \/ (su \in OnStack /\ v = index[su] /\ v < lowlink[n])
      BY <3>1
    <3>5. QED
      BY <1>4, <1>5, <2>2, <3>2, <3>3, <3>4
  <2>4. SameCalls(calls')
    BY <1>3, <2>1
  <2>5. QED
    BY <1>2, <2>1, <2>3, <2>4, SameStackInv
<1>8. QED
  BY <1>6, <1>7

(* The top of the stack from a node on. *)
LEMMA PoppedFacts ==
  ASSUME SearchInv, NEW j \in 1..Len(stack)
  PROVE  /\ Popped(stack[j]) = {stack[i] : i \in j..Len(stack)}
         /\ Cardinality(Popped(stack[j])) = Len(stack) - j + 1
<1>1. PICK s, n : s = stack /\ n = Len(stack)
  OBVIOUS
<1>2. /\ n \in Nat /\ j \in 1..n /\ \A i, k \in 1..n : s[i] = s[k] => i = k
  BY <1>1, StackFacts
<1>3. PICK T : T = {s[i] : i \in j..n}
  OBVIOUS
<1>4. Popped(stack[j]) = T
  <2>1. {i \in 1..n : \E k \in 1..i : s[k] = s[j]} = j..n
    <3>1. \A i \in 1..n : (\E k \in 1..i : s[k] = s[j]) <=> j <= i
      BY <1>2
    <3>2. QED
      BY <1>2, <3>1
  <2>2. QED
    BY <1>1, <1>3, <2>1 DEF Popped
<1>5. PICK f : f = [i \in j..n |-> s[i]]
  OBVIOUS
<1>6. f \in Bijection(j..n, T)
  <2>1. f \in [j..n -> T] /\ \A x \in T : \E i \in j..n : f[i] = x
    BY <1>3, <1>5
  <2>2. \A i, k \in j..n : f[i] = f[k] => i = k
    BY <1>2, <1>5
  <2>3. QED
    BY <2>1, <2>2 DEF Bijection, Injection, Surjection, IsInjective
<1>7. IsFiniteSet(j..n) /\ Cardinality(j..n) = n - j + 1
  BY <1>2, FS_Interval
<1>8. Cardinality(T) = n - j + 1
  BY <1>6, <1>7, FS_Bijection DEF ExistsBijection
<1>9. QED
  BY <1>1, <1>3, <1>4, <1>8

LEMMA Prefix ==
  ASSUME NEW S, NEW s \in Seq(S), NEW m \in Nat, m <= Len(s)
  PROVE  /\ SubSeq(s, 1, m) \in Seq(S) /\ Len(SubSeq(s, 1, m)) = m /\ DOMAIN SubSeq(s, 1, m) = 1..m
         /\ \A i \in 1..m : SubSeq(s, 1, m)[i] = s[i]
<1>1. \A i \in 1..m : s[i] \in S
  OBVIOUS
<1>2. /\ SubSeq(s, 1, m) \in Seq(S) /\ Len(SubSeq(s, 1, m)) = IF 1 <= m THEN m - 1 + 1 ELSE 0
      /\ \A i \in 1..m - 1 + 1 : SubSeq(s, 1, m)[i] = s[1 + i - 1]
  BY <1>1, SubSeqProperties
<1>3. Len(SubSeq(s, 1, m)) = m
  BY <1>2
<1>4. QED
  BY <1>2, <1>3

(* Where a call that ends stands, and who called it. *)
LEMMA EndFacts ==
  ASSUME SearchInv, EndTraverse
  PROVE  /\ pc = "search" /\ Len(calls) \in Nat \ {0} /\ Frame.node \in OnStack
         /\ calls' \in Seq(CallFrames) /\ Len(calls') = Len(calls) - 1
         /\ DOMAIN calls' = 1..Len(calls) - 1
         /\ \A k \in 1..Len(calls) - 1 :
              /\ calls'[k] = calls[k] /\ calls[k].node \in OnStack
              /\ index[calls[k].node] < index[Frame.node]
         /\ Len(calls) = 1 => lowlink' = lowlink
         /\ Len(calls) # 1 =>
              /\ lowlink' \in [Blocks -> Int]
              /\ \A x \in Blocks : lowlink'[x] = IF x = calls[Len(calls) - 1].node /\ lowlink[Frame.node] < lowlink[x]
                                               THEN lowlink[Frame.node] ELSE lowlink[x]
         /\ UNCHANGED <<prog, pc, nodes, succs, prevs, reserved, index, index_count>>
<1>1. /\ pc = "search" /\ calls # <<>> /\ calls' = SubSeq(calls, 1, Len(calls) - 1)
      /\ lowlink' = IF Len(calls) = 1 THEN lowlink
                    ELSE [lowlink EXCEPT ![calls[Len(calls) - 1].node] =
                            IF lowlink[Frame.node] < @ THEN lowlink[Frame.node] ELSE @]
      /\ UNCHANGED <<prog, pc, nodes, succs, prevs, reserved, index, index_count>>
  BY DEF EndTraverse, graphVars
<1>2. /\ calls \in Seq(CallFrames) /\ Len(calls) \in Nat \ {0} /\ lowlink \in [Blocks -> Int]
  BY <1>1 DEF SearchInv, TypeOK, CallFrames
<1>3. PICK t : t = Len(calls)
  OBVIOUS
<1>4. t \in Nat /\ t \in 1..t /\ \A k \in 1..t - 1 : k \in 1..t /\ k < t
  BY <1>2, <1>3
<1>5. /\ Frame.node \in OnStack
      /\ \A k \in 1..t - 1 : calls[k].node \in OnStack /\ index[calls[k].node] < index[Frame.node]
  BY <1>3, <1>4, CallFacts DEF Frame
<1>6. /\ calls' \in Seq(CallFrames) /\ Len(calls') = t - 1 /\ DOMAIN calls' = 1..t - 1
      /\ \A k \in 1..t - 1 : calls'[k] = calls[k]
  <2>1. t - 1 \in Nat /\ t - 1 <= Len(calls)
    BY <1>2, <1>3
  <2>2. QED
    BY <1>1, <1>2, <1>3, <2>1, Prefix
<1>7. ASSUME t # 1
      PROVE  /\ lowlink' \in [Blocks -> Int]
             /\ \A x \in Blocks : lowlink'[x] = IF x = calls[t - 1].node /\ lowlink[Frame.node] < lowlink[x]
                                              THEN lowlink[Frame.node] ELSE lowlink[x]
  <2>1. t - 1 \in 1..t - 1
    BY <1>2, <1>3, <1>7
  <2>2. calls[t - 1].node \in Blocks /\ Frame.node \in Blocks
    BY <1>5, <2>1, StackFacts
  <2>3. PICK v : v = IF lowlink[Frame.node] < lowlink[calls[t - 1].node]
                     THEN lowlink[Frame.node] ELSE lowlink[calls[t - 1].node]
    OBVIOUS
  <2>4. v \in Int /\ lowlink' = [lowlink EXCEPT ![calls[t - 1].node] = v]
    BY <1>1, <1>2, <1>3, <1>7, <2>2, <2>3
  <2>5. QED
    BY <1>2, <2>2, <2>3, <2>4
<1>8. QED
  BY <1>1, <1>2, <1>3, <1>5, <1>6, <1>7

(* The call of a node that is no root: it stays on the stack, and its       *)
(* caller reaches what it reaches.                                          *)
LEMMA EndInsideInv ==
  ASSUME SearchInv, EndTraverse, index[Frame.node] # lowlink[Frame.node]
  PROVE  SearchInv'
<1>1. PICK n, t : n = Frame.node /\ t = Len(calls)
  OBVIOUS
<1>2. /\ pc = "search" /\ t \in Nat \ {0} /\ n \in OnStack
      /\ calls' \in Seq(CallFrames) /\ Len(calls') = t - 1 /\ DOMAIN calls' = 1..t - 1
      /\ UNCHANGED <<prog, pc, nodes, succs, prevs, reserved, index, index_count>>
  BY <1>1, EndFacts
<1>3. \A k \in 1..t - 1 : calls'[k] = calls[k] /\ calls[k].node \in OnStack /\ index[calls[k].node] < index[n]
  BY <1>1, EndFacts
<1>4. UNCHANGED <<stack, sccs>> /\ index[n] # lowlink[n]
  BY <1>1 DEF EndTraverse
<1>5. /\ index \in [Blocks -> Int] /\ lowlink \in [Blocks -> Int] /\ OnStack \subseteq Blocks
  BY StackFacts DEF SearchInv, TypeOK
<1>6. /\ \E y \in OnStack : lowlink[n] = index[y] /\ index[y] <= index[n]
  BY <1>2 DEF SearchInv, LowInv
<1>7. lowlink[n] < index[n]
  BY <1>2, <1>4, <1>5, <1>6
<1>8. t # 1
  <2> SUFFICES ASSUME t = 1 PROVE FALSE
    OBVIOUS
  <2>1. stack # <<>> /\ stack[1] = n
    <3>1. calls # <<>> /\ calls[1].node = n
      BY <1>1, <1>2 DEF Frame, SearchInv, TypeOK
    <3>2. QED
      BY <3>1 DEF SearchInv, StackInv
  <2>2. PICK i \in 1..Len(stack) : lowlink[n] = index[stack[i]]
    BY <1>6, StackFacts
  <2>3. index[stack[i]] < index[stack[1]] /\ 1 \in 1..Len(stack)
    BY <1>7, <2>1, <2>2, StackFacts
  <2>4. i < 1
    BY <2>3, StackFacts
  <2>5. QED
    BY <2>4
<1>9. PICK c : c = calls[t - 1].node
  OBVIOUS
<1>10. c \in OnStack /\ index[c] < index[n] /\ t - 1 \in 1..t - 1
  BY <1>2, <1>3, <1>8, <1>9
<1>11. /\ lowlink' \in [Blocks -> Int]
       /\ \A x \in Blocks : lowlink'[x] = IF x = c /\ lowlink[n] < lowlink[x] THEN lowlink[n] ELSE lowlink[x]
  BY <1>1, <1>8, <1>9, EndFacts
<1>12. OnStack' = OnStack
  BY <1>4 DEF OnStack
<1>13. TypeOK'
  BY <1>2, <1>4, <1>11 DEF SearchInv, TypeOK, CallFrames
<1>14. NodesInv'
  BY <1>2 DEF SearchInv, NodesInv
<1>15. StackInv'
  <2>1. \A k \in 1..t - 1 : k \in 1..t
    BY <1>2
  <2>2. \A k \in 1..t - 1 : calls'[k].node \in OnStack /\ calls'[k].rest \subseteq succs[calls'[k].node]
    BY <1>1, <1>3, <2>1, CallFacts
  <2>3. \A k, l \in 1..t - 1 : k < l => index[calls'[k].node] < index[calls'[l].node]
    BY <1>1, <1>3, <2>1, CallFacts
  <2>4. calls' # <<>> /\ stack # <<>> /\ stack[1] = calls'[1].node
    <3>1. 1 \in 1..t - 1 /\ calls # <<>>
      BY <1>1, <1>2, <1>8
    <3>2. QED
      BY <1>2, <1>3, <3>1 DEF SearchInv, StackInv
  <2>5. QED
    BY <1>2, <1>4, <1>12, <2>2, <2>3, <2>4 DEF SearchInv, StackInv
<1>16. LowInv'
  <2>1. ASSUME NEW x \in OnStack PROVE \E y \in OnStack : lowlink'[x] = index[y] /\ index[y] <= index[x]
    <3>1. PICK y \in OnStack : lowlink[x] = index[y] /\ index[y] <= index[x]
      BY DEF SearchInv, LowInv
    <3>2. CASE x = c /\ lowlink[n] < lowlink[x]
      <4>1. PICK z \in OnStack : lowlink[n] = index[z]
        BY <1>6
      <4>2. index[z] < index[y] /\ index[y] <= index[x] /\ lowlink'[x] = index[z]
        BY <1>5, <1>11, <3>1, <3>2, <4>1
      <4>3. index[z] \in Int /\ index[y] \in Int /\ index[x] \in Int
        BY <1>5, <2>1, <3>1, <4>1
      <4>4. index[z] <= index[x]
        BY <4>2, <4>3
      <4>5. QED
        BY <4>2, <4>4
    <3>3. CASE ~(x = c /\ lowlink[n] < lowlink[x])
      BY <1>5, <1>11, <3>1, <3>3
    <3>4. QED
      BY <3>2, <3>3
  <2>2. ASSUME NEW x \in OnStack, \A k \in 1..t - 1 : calls'[k].node # x
        PROVE  lowlink'[x] < index[x]
    <3>1. x # c
      BY <1>3, <1>9, <1>10, <2>2
    <3>2. lowlink'[x] = lowlink[x]
      BY <1>5, <1>11, <3>1
    <3>3. CASE x = n
      BY <1>7, <3>2, <3>3
    <3>4. CASE x # n
      <4>1. ASSUME NEW k \in 1..t PROVE calls[k].node # x
        <5>1. CASE k = t
          BY <1>1, <3>4, <5>1 DEF Frame
        <5>2. CASE k # t
          <6>1. k \in 1..t - 1
            BY <1>2, <5>2
          <6>2. QED
            BY <1>3, <2>2, <6>1
        <5>3. QED
          BY <5>1, <5>2
      <4>2. DOMAIN calls = 1..t
        BY <1>1, CallFacts
      <4>3. lowlink[x] < index[x]
        BY <4>1, <4>2 DEF SearchInv, LowInv
      <4>4. QED
        BY <3>2, <4>3
    <3>5. QED
      BY <3>3, <3>4
  <2>3. ASSUME Entry \in OnStack
        PROVE  stack[1] = Entry /\ \A x \in OnStack \ {Entry} : index[Entry] < lowlink'[x]
    <3>1. stack[1] = Entry /\ \A x \in OnStack \ {Entry} : index[Entry] < lowlink[x]
      BY <2>3 DEF SearchInv, LowInv
    <3>2. n # Entry
      <4>1. calls[1].node = Entry /\ 1 \in 1..t - 1
        <5>1. calls # <<>>
          BY <1>1, <1>2
        <5>2. calls[1].node = stack[1]
          BY <5>1 DEF SearchInv, StackInv
        <5>3. 1 \in 1..t - 1
          BY <1>2, <1>8
        <5>4. QED
          BY <3>1, <5>2, <5>3
      <4>2. index[Entry] < index[n]
        BY <1>3, <4>1
      <4>3. QED
        BY <1>5, <2>3, <4>2
    <3>3. QED
      BY <1>2, <1>5, <1>11, <3>1, <3>2
  <2>4. QED
    BY <1>2, <1>4, <1>12, <2>1, <2>2, <2>3 DEF LowInv
<1>17. SccsInv'
  BY <1>2, <1>4, <1>12 DEF SearchInv, SccsInv
<1>18. EveryLoopHasBase'
  BY <1>2 DEF EveryLoopHasBase
<1>19. QED
  BY <1>13, <1>14, <1>15, <1>16, <1>17, <1>18 DEF SearchInv

(* The stack without the part above and with a root. *)
LEMMA RootFacts ==
  ASSUME SearchInv, EndTraverse, index[Frame.node] = lowlink[Frame.node]
  PROVE  /\ stack' \in Seq(Blocks) /\ DOMAIN stack' = 1..Len(stack') /\ Len(stack') \in Nat
         /\ Len(stack') < Len(stack)
         /\ \A i \in 1..Len(stack') : stack'[i] = stack[i] /\ i \in 1..Len(stack)
         /\ OnStack' = {x \in OnStack : index[x] < index[Frame.node]}
         /\ Popped(Frame.node) = OnStack \ OnStack'
         /\ sccs' = IF Cardinality(Popped(Frame.node)) = 1 THEN sccs
                    ELSE sccs \cup {Popped(Frame.node)}
<1>1. PICK n, s : n = Frame.node /\ s = Len(stack)
  OBVIOUS
<1>2. /\ stack \in Seq(Blocks) /\ index \in [Blocks -> Int] /\ OnStack \subseteq Blocks /\ s \in Nat
  BY <1>1, StackFacts DEF SearchInv, TypeOK
<1>3. PICK j \in 1..s : n = stack[j]
  BY <1>1, EndFacts, StackFacts
<1>4. Popped(n) = {stack[i] : i \in j..s} /\ Cardinality(Popped(n)) = s - j + 1
  BY <1>1, <1>3, PoppedFacts
<1>5. /\ stack' = SubSeq(stack, 1, s - Cardinality(Popped(n)))
      /\ sccs' = IF Cardinality(Popped(n)) = 1 THEN sccs ELSE sccs \cup {Popped(n)}
  BY <1>1 DEF EndTraverse
<1>6. j - 1 \in Nat /\ j - 1 <= s /\ s - Cardinality(Popped(n)) = j - 1
  <2>1. PICK q : q = Cardinality(Popped(n))
    OBVIOUS
  <2>2. q = s - j + 1
    BY <1>4, <2>1
  <2>3. QED
    BY <1>2, <1>3, <2>1, <2>2
<1>7. /\ stack' \in Seq(Blocks) /\ Len(stack') = j - 1 /\ DOMAIN stack' = 1..j - 1
      /\ \A i \in 1..j - 1 : stack'[i] = stack[i]
  BY <1>1, <1>2, <1>5, <1>6, Prefix
<1>8. \A i \in 1..s : index[stack[i]] < index[n] <=> i < j
  BY <1>1, <1>3, StackFacts
<1>9. OnStack = {stack[i] : i \in 1..s}
  BY <1>1 DEF OnStack
<1>10. OnStack' = {stack[i] : i \in 1..j - 1}
  BY <1>7 DEF OnStack
<1>11. OnStack' = {x \in OnStack : index[x] < index[n]}
  <2>1. \A i \in 1..j - 1 : i \in 1..s /\ i < j
    BY <1>2, <1>3
  <2>2. \A i \in 1..s : i < j => i \in 1..j - 1
    BY <1>2, <1>3
  <2>3. QED
    BY <1>8, <1>9, <1>10, <2>1, <2>2
<1>12. Popped(n) = OnStack \ OnStack'
  <2>1. \A i \in j..s : i \in 1..s /\ ~(i < j)
    BY <1>2, <1>3
  <2>2. \A i \in 1..s : ~(i < j) => i \in j..s
    BY <1>2, <1>3
  <2>3. QED
    BY <1>4, <1>8, <1>9, <1>11, <2>1, <2>2
<1>13. j - 1 < s /\ \A i \in 1..j - 1 : i \in 1..s
  BY <1>2, <1>3
<1>14. QED
  BY <1>1, <1>5, <1>6, <1>7, <1>11, <1>12, <1>13

(* The entry is alone in its component: nothing above it reaches it. *)
LEMMA EntryIsAlone ==
  ASSUME SearchInv, EndTraverse, index[Frame.node] = lowlink[Frame.node], Entry \in Popped(Frame.node)
  PROVE  Cardinality(Popped(Frame.node)) = 1
<1>1. PICK n, s, t : n = Frame.node /\ s = Len(stack) /\ t = Len(calls)
  OBVIOUS
<1>2. PICK j \in 1..s : n = stack[j]
  BY <1>1, EndFacts, StackFacts
<1>3. Popped(n) = {stack[i] : i \in j..s} /\ Cardinality(Popped(n)) = s - j + 1
  BY <1>1, <1>2, PoppedFacts
<1>4. s \in Nat /\ t \in Nat \ {0}
  BY <1>1, EndFacts, StackFacts
<1>5. PICK i \in j..s : Entry = stack[i]
  BY <1>1, <1>3
<1>6. i \in 1..s /\ 1 \in 1..s
  BY <1>2, <1>4, <1>5
<1>7. Entry \in OnStack
  BY <1>1, <1>5, <1>6, StackFacts
<1>8. stack[1] = Entry /\ \A x \in OnStack \ {Entry} : index[Entry] < lowlink[x]
  BY <1>7 DEF SearchInv, LowInv
<1>9. i = 1
  BY <1>1, <1>5, <1>6, <1>8, StackFacts
<1>10. j = 1 /\ n = Entry
  <2>1. j = 1
    BY <1>2, <1>4, <1>5, <1>9
  <2>2. QED
    BY <1>2, <1>8, <2>1
<1>11. t = 1
  <2> SUFFICES ASSUME t # 1 PROVE FALSE
    OBVIOUS
  <2>1. calls # <<>> /\ 1 \in 1..t - 1
    BY <1>1, <1>4
  <2>2. calls[1].node = Entry
    BY <1>8, <2>1 DEF SearchInv, StackInv
  <2>3. index[Entry] < index[Entry]
    BY <1>1, <1>10, <2>1, <2>2, EndFacts
  <2>4. index[Entry] \in Int
    BY <1>7, StackFacts DEF SearchInv, TypeOK
  <2>5. QED
    BY <2>3, <2>4
<1>12. s = 1
  <2> SUFFICES ASSUME s # 1 PROVE FALSE
    OBVIOUS
  <2>1. 2 \in 1..s
    BY <1>4, <1>6
  <2>2. PICK m : m = stack[2]
    OBVIOUS
  <2>3. m \in OnStack /\ m # Entry
    <3>1. m \in OnStack
      BY <1>1, <2>1, <2>2, StackFacts
    <3>2. stack[2] = stack[1] => 2 = 1
      BY <1>1, <1>6, <2>1, StackFacts
    <3>3. QED
      BY <1>8, <2>2, <3>1, <3>2
  <2>4. \A k \in DOMAIN calls : calls[k].node # m
    <3>1. DOMAIN calls = 1..t
      BY <1>1, CallFacts
    <3>2. \A k \in 1..t : k = t
      BY <1>4, <1>11
    <3>3. calls[t].node = Entry
      BY <1>1, <1>10 DEF Frame
    <3>4. QED
      BY <2>3, <3>1, <3>2, <3>3
  <2>5. lowlink[m] < index[m]
    BY <2>3, <2>4 DEF SearchInv, LowInv
  <2>6. PICK y \in OnStack : lowlink[m] = index[y]
    BY <2>3 DEF SearchInv, LowInv
  <2>7. PICK k \in 1..s : y = stack[k]
    BY <1>1, <2>6, StackFacts
  <2>8. index[stack[k]] < index[stack[2]]
    BY <2>2, <2>5, <2>6, <2>7
  <2>9. k < 2
    BY <1>1, <2>1, <2>7, <2>8, StackFacts
  <2>10. k = 1
    BY <2>7, <2>9, <1>4
  <2>11. index[Entry] < index[Entry] /\ index[Entry] \in Int
    <3>1. index[Entry] \in Int
      BY <1>7, StackFacts DEF SearchInv, TypeOK
    <3>2. y = Entry /\ index[Entry] < lowlink[m]
      BY <1>8, <2>3, <2>7, <2>10
    <3>3. QED
      BY <2>6, <3>1, <3>2
  <2>12. QED
    BY <2>11
<1>13. QED
  BY <1>1, <1>3, <1>10, <1>12

(* The call of a root: the component leaves the stack, and what is below    *)
(* reaches nothing of it.                                                   *)
LEMMA EndRootInv ==
  ASSUME SearchInv, EndTraverse, index[Frame.node] = lowlink[Frame.node]
  PROVE  SearchInv'
<1>1. PICK n, t, found : n = Frame.node /\ t = Len(calls) /\ found = Popped(Frame.node)
  OBVIOUS
<1>2. /\ pc = "search" /\ t \in Nat \ {0} /\ n \in OnStack
      /\ calls' \in Seq(CallFrames) /\ Len(calls') = t - 1 /\ DOMAIN calls' = 1..t - 1
      /\ UNCHANGED <<prog, pc, nodes, succs, prevs, reserved, index, index_count>>
  BY <1>1, EndFacts
<1>3. \A k \in 1..t - 1 : calls'[k] = calls[k] /\ calls[k].node \in OnStack /\ index[calls[k].node] < index[n]
  BY <1>1, EndFacts
<1>4. /\ stack' \in Seq(Blocks) /\ DOMAIN stack' = 1..Len(stack') /\ Len(stack') \in Nat
      /\ Len(stack') < Len(stack)
      /\ \A i \in 1..Len(stack') : stack'[i] = stack[i] /\ i \in 1..Len(stack)
  BY RootFacts
<1>5. OnStack' = {x \in OnStack : index[x] < index[n]} /\ found = OnStack \ OnStack'
  BY <1>1, RootFacts
<1>6. sccs' = IF Cardinality(found) = 1 THEN sccs ELSE sccs \cup {found}
  BY <1>1, RootFacts
<1>7. /\ index \in [Blocks -> Int] /\ lowlink \in [Blocks -> Int] /\ OnStack \subseteq Blocks
      /\ OnStack \subseteq nodes /\ DOMAIN stack = 1..Len(stack) /\ Len(stack) \in Nat
  BY StackFacts DEF SearchInv, TypeOK
<1>8. lowlink' \in [Blocks -> Int]
  <2>1. CASE t = 1
    BY <1>1, <1>7, <2>1, EndFacts
  <2>2. CASE t # 1
    BY <1>1, <2>2, EndFacts
  <2>3. QED
    BY <2>1, <2>2
<1>9. ASSUME NEW x \in OnStack' PROVE x \in OnStack /\ index[x] < index[n] /\ lowlink'[x] = lowlink[x]
  <2>1. x \in OnStack /\ index[x] < index[n]
    BY <1>5, <1>9
  <2>2. PICK y \in OnStack : lowlink[x] = index[y] /\ index[y] <= index[x]
    BY <2>1 DEF SearchInv, LowInv
  <2>3. ~(lowlink[n] < lowlink[x])
    <3>1. PICK a, b, c : a = index[x] /\ b = index[n] /\ c = index[y]
      OBVIOUS
    <3>2. a \in Int /\ b \in Int /\ c \in Int /\ a < b /\ c <= a
      BY <1>2, <1>7, <2>1, <2>2, <3>1
    <3>3. ~(b < c)
      BY ONLY <3>2
    <3>4. lowlink[n] = b /\ lowlink[x] = c
      BY <1>1, <2>2, <3>1
    <3>5. QED
      BY <3>3, <3>4
  <2>4. lowlink'[x] = lowlink[x]
    <3>1. CASE t = 1
      BY <1>1, <3>1, EndFacts
    <3>2. CASE t # 1
      <4>1. \A z \in Blocks : ~(lowlink[n] < lowlink[z]) => lowlink'[z] = lowlink[z]
        BY <1>1, <3>2, EndFacts
      <4>2. QED
        BY <1>7, <2>1, <2>3, <4>1
    <3>3. QED
      BY <3>1, <3>2
  <2>5. QED
    BY <2>1, <2>4
<1>10. \A x \in OnStack : index[x] < index[n] => x \in OnStack'
  BY <1>5
<1>11. \A k \in 1..t - 1 : calls'[k].node \in OnStack'
  BY <1>3, <1>10
<1>12. TypeOK'
  <2>1. found \in SUBSET Blocks
    BY <1>5, <1>7
  <2>2. sccs' \subseteq SUBSET Blocks
    BY <1>6, <2>1 DEF SearchInv, TypeOK
  <2>3. QED
    BY <1>2, <1>4, <1>8, <2>2 DEF SearchInv, TypeOK, CallFrames
<1>13. NodesInv'
  BY <1>2 DEF SearchInv, NodesInv
<1>14. StackInv'
  <2>1. OnStack' \subseteq nodes
    BY <1>5, <1>7
  <2>2. \A i \in 1..Len(stack') : 0 <= index[stack'[i]] /\ index[stack'[i]] < index_count
    BY <1>4, <1>7 DEF SearchInv, StackInv
  <2>3. \A i, k \in 1..Len(stack') : i < k => index[stack'[i]] < index[stack'[k]]
    BY <1>4, <1>7 DEF SearchInv, StackInv
  <2>4. \A k \in 1..t - 1 : k \in 1..t
    BY <1>2
  <2>5. \A k \in 1..t - 1 : calls'[k].rest \subseteq succs[calls'[k].node]
    BY <1>1, <1>3, <2>4, CallFacts
  <2>6. \A k, l \in 1..t - 1 : k < l => index[calls'[k].node] < index[calls'[l].node]
    BY <1>1, <1>3, <2>4, CallFacts
  <2>7. calls # <<>>
    BY <1>1, <1>2
  <2>8. stack # <<>> /\ stack[1] = calls[1].node
    BY <2>7 DEF SearchInv, StackInv
  <2>9. ASSUME calls' = <<>> PROVE stack' = <<>>
    <3>1. t = 1
      BY <1>2, <2>9
    <3>2. n = stack[1]
      BY <1>1, <2>8, <3>1 DEF Frame
    <3>3. Len(stack') = 0
      <4> SUFFICES ASSUME Len(stack') # 0 PROVE FALSE
        OBVIOUS
      <4>1. 1 \in 1..Len(stack')
        BY <1>4
      <4>2. stack'[1] \in OnStack'
        BY <1>4, <4>1 DEF OnStack
      <4>3. index[n] < index[n] /\ index[n] \in Int
        BY <1>2, <1>4, <1>5, <1>7, <3>2, <4>1, <4>2
      <4>4. QED
        BY <4>3
    <3>4. QED
      BY <1>4, <3>3
  <2>10. ASSUME calls' # <<>> PROVE stack' # <<>> /\ stack'[1] = calls'[1].node
    <3>1. 1 \in 1..t - 1
      <4>1. t - 1 # 0
        BY <1>2, <2>10
      <4>2. QED
        BY <1>2, <4>1
    <3>2. calls'[1].node \in OnStack' /\ calls'[1] = calls[1]
      BY <1>3, <1>11, <3>1
    <3>3. 1 \in 1..Len(stack')
      <4>1. OnStack' = {stack'[i] : i \in 1..Len(stack')}
        BY DEF OnStack
      <4>2. PICK i \in 1..Len(stack') : TRUE
        BY <3>2, <4>1
      <4>3. QED
        BY <1>4, <4>2
    <3>4. QED
      BY <1>4, <2>8, <3>2, <3>3
  <2>11. QED
    BY <1>2, <1>4, <1>11, <2>1, <2>2, <2>3, <2>5, <2>6, <2>9, <2>10 DEF StackInv
<1>15. LowInv'
  <2>1. ASSUME NEW x \in OnStack' PROVE \E y \in OnStack' : lowlink'[x] = index[y] /\ index[y] <= index[x]
    <3>1. x \in OnStack /\ index[x] < index[n] /\ lowlink'[x] = lowlink[x]
      BY <1>9, <2>1
    <3>2. PICK y \in OnStack : lowlink[x] = index[y] /\ index[y] <= index[x]
      BY <3>1 DEF SearchInv, LowInv
    <3>3. index[y] < index[n]
      BY <1>2, <1>7, <3>1, <3>2
    <3>4. QED
      BY <1>10, <3>1, <3>2, <3>3
  <2>2. ASSUME NEW x \in OnStack', \A k \in 1..t - 1 : calls'[k].node # x
        PROVE  lowlink'[x] < index[x]
    <3>1. x \in OnStack /\ index[x] < index[n] /\ lowlink'[x] = lowlink[x]
      BY <1>9, <2>2
    <3>2. x # n
      BY <1>2, <1>7, <3>1
    <3>3. ASSUME NEW k \in 1..t PROVE calls[k].node # x
      <4>1. CASE k = t
        BY <1>1, <3>2, <4>1 DEF Frame
      <4>2. CASE k # t
        <5>1. k \in 1..t - 1
          BY <1>2, <4>2
        <5>2. QED
          BY <1>3, <2>2, <5>1
      <4>3. QED
        BY <4>1, <4>2
    <3>4. DOMAIN calls = 1..t
      BY <1>1, CallFacts
    <3>5. lowlink[x] < index[x]
      BY <3>1, <3>3, <3>4 DEF SearchInv, LowInv
    <3>6. QED
      BY <3>1, <3>5
  <2>3. ASSUME Entry \in OnStack'
        PROVE  stack'[1] = Entry /\ \A x \in OnStack' \ {Entry} : index[Entry] < lowlink'[x]
    <3>1. stack[1] = Entry /\ \A x \in OnStack \ {Entry} : index[Entry] < lowlink[x]
      BY <1>5, <2>3 DEF SearchInv, LowInv
    <3>2. 1 \in 1..Len(stack')
      <4>1. OnStack' = {stack'[i] : i \in 1..Len(stack')}
        BY DEF OnStack
      <4>2. PICK i \in 1..Len(stack') : TRUE
        BY <2>3, <4>1
      <4>3. QED
        BY <1>4, <4>2
    <3>3. QED
      BY <1>4, <1>9, <3>1, <3>2
  <2>4. QED
    BY <1>2, <1>4, <2>1, <2>2, <2>3 DEF LowInv
<1>16. SccsInv'
  <2>1. ASSUME NEW a \in sccs
        PROVE  /\ a # {} /\ a \subseteq nodes \ {Entry} /\ a \cap OnStack = {} /\ a \cap OnStack' = {}
               /\ \A x \in a : index[x] # -1
    BY <1>2, <1>5 DEF SearchInv, SccsInv
  <2>2. /\ found # {} /\ found \subseteq nodes /\ found \cap OnStack' = {} /\ found \subseteq OnStack
        /\ \A x \in found : index[x] # -1
    <3>1. n \in found
      BY <1>2, <1>5, <1>7
    <3>2. \A x \in OnStack : index[x] # -1
      <4>1. \A i \in DOMAIN stack : 0 <= index[stack[i]] /\ stack[i] \in Blocks
        BY <1>7, StackFacts DEF SearchInv, StackInv
      <4>2. \A i \in DOMAIN stack : index[stack[i]] # -1
        BY <1>7, <4>1
      <4>3. \A x \in OnStack : \E i \in DOMAIN stack : x = stack[i]
        BY <1>7, StackFacts
      <4>4. QED
        BY <4>2, <4>3
    <3>3. QED
      BY <1>5, <1>7, <3>1, <3>2
  <2>3. Cardinality(found) # 1 => Entry \notin found
    BY <1>1, EntryIsAlone
  <2>4. \A a, b \in sccs : a # b => a \cap b = {}
    BY DEF SearchInv, SccsInv
  <2>5. ASSUME NEW a \in sccs'
        PROVE  /\ a # {} /\ a \subseteq nodes \ {Entry} /\ a \cap OnStack' = {}
               /\ \A x \in a : index[x] # -1
    BY <1>6, <2>1, <2>2, <2>3, <2>5
  <2>6. ASSUME NEW a \in sccs', NEW b \in sccs', a # b PROVE a \cap b = {}
    <3>1. \A c \in sccs : c \cap found = {}
      BY <2>1, <2>2
    <3>2. QED
      BY <1>6, <2>4, <2>6, <3>1
  <2>7. QED
    BY <1>2, <2>5, <2>6 DEF SccsInv
<1>17. EveryLoopHasBase'
  BY <1>2 DEF EveryLoopHasBase
<1>18. QED
  BY <1>12, <1>13, <1>14, <1>15, <1>16, <1>17 DEF SearchInv

LEMMA EndTraverseInv == ASSUME SearchInv, EndTraverse PROVE SearchInv'
BY EndInsideInv, EndRootInv

LEMMA NoCallsNoStack ==
  ASSUME SearchInv, calls = <<>>
  PROVE  stack = <<>> /\ OnStack = {} /\ DOMAIN stack = {} /\ DOMAIN calls = {}
<1>1. stack = <<>>
  BY DEF SearchInv, StackInv
<1>2. Len(stack) = 0 /\ DOMAIN stack = {} /\ DOMAIN calls = {}
  BY <1>1
<1>3. QED
  BY <1>1, <1>2 DEF OnStack

LEMMA EndSearchInv == ASSUME SearchInv, EndSearch PROVE SearchInv'
<1>1. pc = "search" /\ calls = <<>> /\ pc' = "record"
  BY DEF EndSearch
<1>2. UNCHANGED <<prog, nodes, succs, prevs, reserved, index, lowlink, index_count, stack, calls, sccs>>
  BY DEF EndSearch, searchVars, graphVars, sccVars
<1>3. OnStack' = OnStack
  BY <1>2 DEF OnStack
<1>4. TypeOK'
  BY <1>1, <1>2 DEF SearchInv, TypeOK
<1>5. NodesInv'
  BY <1>1, <1>2 DEF SearchInv, NodesInv
<1>6. StackInv'
  BY <1>1, <1>2, <1>3 DEF SearchInv, StackInv
<1>7. LowInv'
  BY <1>2, <1>3 DEF SearchInv, LowInv
<1>8. SccsInv'
  BY <1>1, <1>2, <1>3 DEF SearchInv, SccsInv
<1>9. EveryLoopHasBase'
  BY <1>1 DEF EveryLoopHasBase
<1>10. QED
  BY <1>4, <1>5, <1>6, <1>7, <1>8, <1>9 DEF SearchInv

LEMMA EndPassInv == ASSUME SearchInv, EndPass PROVE SearchInv'
<1>1. /\ pc = "search" /\ calls = <<>> /\ sccs = {} /\ pc' = "searched"
      /\ nodes' = {} /\ reserved' = {}
      /\ succs' = [b \in Blocks |-> {}] /\ prevs' = succs'
      /\ index' = Unvisited /\ lowlink' = Unvisited
      /\ UNCHANGED <<prog, index_count, stack, calls, sccs>>
  BY DEF EndPass
<1>2. stack = <<>> /\ OnStack = {} /\ DOMAIN stack = {} /\ DOMAIN calls = {}
  BY <1>1, NoCallsNoStack
<1>3. OnStack' = {}
  BY <1>1, <1>2 DEF OnStack
<1>4. TypeOK'
  <2>1. Unvisited \in [Blocks -> Int]
    BY DEF Unvisited
  <2>2. QED
    BY <1>1, <2>1 DEF SearchInv, TypeOK
<1>5. NodesInv'
  BY <1>1 DEF NodesInv
<1>6. StackInv'
  BY <1>1, <1>2, <1>3 DEF StackInv
<1>7. LowInv'
  BY <1>3 DEF LowInv
<1>8. SccsInv'
  BY <1>1 DEF SccsInv
<1>9. EveryLoopHasBase'
  BY <1>1 DEF EveryLoopHasBase
<1>10. QED
  BY <1>4, <1>5, <1>6, <1>7, <1>8, <1>9 DEF SearchInv

-------------------------------------------------------------------------------
(****************************************************************************)
(* find_loop_base and the recording of a loop                               *)
(****************************************************************************)
LEMMA SearchAgainInv == ASSUME SearchInv, SearchAgain PROVE SearchInv'
<1>1. /\ pc = "record" /\ sccs = {} /\ pc' = "search"
      /\ index' = [b \in Blocks |-> IF b \in nodes THEN -1 ELSE index[b]]
      /\ lowlink' = [b \in Blocks |-> IF b \in nodes THEN -1 ELSE lowlink[b]]
      /\ index_count' = 0 /\ stack' = <<>>
      /\ UNCHANGED <<prog, nodes, succs, prevs, reserved, calls, sccs>>
  BY DEF SearchAgain, graphVars
<1>2. calls = <<>>
  BY <1>1 DEF SearchInv, StackInv
<1>3. DOMAIN stack' = {} /\ DOMAIN calls = {} /\ Len(stack') = 0
  BY <1>1, <1>2
<1>4. OnStack' = {}
  BY <1>3 DEF OnStack
<1>5. TypeOK'
  BY <1>1 DEF SearchInv, TypeOK
<1>6. NodesInv'
  BY <1>1 DEF SearchInv, NodesInv
<1>7. StackInv'
  BY <1>1, <1>2, <1>3, <1>4 DEF StackInv
<1>8. LowInv'
  BY <1>4 DEF LowInv
<1>9. SccsInv'
  BY <1>1 DEF SccsInv
<1>10. EveryLoopHasBase'
  BY <1>1 DEF EveryLoopHasBase
<1>11. QED
  BY <1>5, <1>6, <1>7, <1>8, <1>9, <1>10 DEF SearchInv

(* The edges after a base is taken out: those of the base are kept by the   *)
(* base alone.                                                              *)
LEMMA TakeOutFacts ==
  ASSUME SearchInv, pc = "record", NEW base \in nodes \ {Entry}, TakeOut(base)
  PROVE  /\ nodes' = nodes \ {base}
         /\ succs' \in [Blocks -> SUBSET Blocks] /\ prevs' \in [Blocks -> SUBSET Blocks]
         /\ \A a \in nodes' : succs'[a] = succs[a] \ {base}
         /\ \A b \in nodes' : prevs'[b] = prevs[b] \ {base}
         /\ \A x, n \in Blocks : n # base /\ n \in succs[x] => n \in succs'[x]
<1>1. PICK pruned : pruned = [b \in Blocks |-> IF b \in succs[base] THEN prevs[b] \ {base} ELSE prevs[b]]
  OBVIOUS
<1>2. /\ nodes' = nodes \ {base} /\ prevs' = pruned
      /\ succs' = [b \in Blocks |-> IF b \in pruned[base] THEN succs[b] \ {base} ELSE succs[b]]
  BY <1>1 DEF TakeOut
<1>3. /\ succs \in [Blocks -> SUBSET Blocks] /\ prevs \in [Blocks -> SUBSET Blocks]
      /\ nodes \subseteq Blocks /\ base \in Blocks
  BY StackFacts DEF SearchInv, TypeOK
<1>4. \A a, b \in nodes : b \in succs[a] <=> a \in prevs[b]
  BY DEF SearchInv, NodesInv
<1>5. \A b \in Blocks : pruned[b] = IF b \in succs[base] THEN prevs[b] \ {base} ELSE prevs[b]
  BY <1>1
<1>6. \A b \in Blocks : succs'[b] = IF b \in pruned[base] THEN succs[b] \ {base} ELSE succs[b]
  BY <1>2
<1>7. succs' \in [Blocks -> SUBSET Blocks] /\ prevs' \in [Blocks -> SUBSET Blocks]
  <2>1. pruned \in [Blocks -> SUBSET Blocks]
    BY <1>1, <1>3
  <2>2. QED
    BY <1>2, <1>3, <2>1
<1>8. ASSUME NEW a \in nodes' PROVE succs'[a] = succs[a] \ {base}
  <2>1. a \in nodes /\ a # base /\ a \in Blocks
    BY <1>2, <1>3, <1>8
  <2>2. a \in pruned[base] <=> base \in succs[a]
    BY <1>3, <1>4, <1>5, <2>1
  <2>3. QED
    BY <1>6, <2>1, <2>2
<1>9. ASSUME NEW b \in nodes' PROVE prevs'[b] = prevs[b] \ {base}
  <2>1. b \in nodes /\ b \in Blocks
    BY <1>2, <1>3, <1>9
  <2>2. b \in succs[base] <=> base \in prevs[b]
    BY <1>4, <2>1
  <2>3. QED
    BY <1>2, <1>5, <2>1, <2>2
<1>10. \A x, n \in Blocks : n # base /\ n \in succs[x] => n \in succs'[x]
  BY <1>6
<1>11. QED
  BY <1>2, <1>7, <1>8, <1>9, <1>10

LEMMA RecordInv == ASSUME SearchInv, NEW scc, NEW base, Record(scc, base) PROVE SearchInv'
<1>1. /\ pc = "record" /\ scc \in sccs /\ base \in Bases(scc)
      /\ reserved' = reserved \cup {base} /\ TakeOut(base) /\ sccs' = sccs \ {scc}
      /\ UNCHANGED <<prog, pc, index, lowlink, index_count, stack, calls>>
  BY DEF Record, sccVars
<1>2. base \in scc /\ scc \subseteq nodes \ {Entry}
  BY <1>1 DEF Bases, Entered, AfterReserved, SearchInv, SccsInv
<1>3. base \in nodes \ {Entry}
  BY <1>2
<1>4. /\ nodes' = nodes \ {base}
      /\ succs' \in [Blocks -> SUBSET Blocks] /\ prevs' \in [Blocks -> SUBSET Blocks]
      /\ \A a \in nodes' : succs'[a] = succs[a] \ {base}
      /\ \A b \in nodes' : prevs'[b] = prevs[b] \ {base}
      /\ \A x, n \in Blocks : n # base /\ n \in succs[x] => n \in succs'[x]
  BY <1>1, <1>3, TakeOutFacts
<1>5. calls = <<>> /\ stack = <<>> /\ OnStack = {} /\ DOMAIN stack = {} /\ DOMAIN calls = {}
  BY <1>1, NoCallsNoStack DEF SearchInv, StackInv
<1>6. OnStack' = {}
  BY <1>1, <1>5 DEF OnStack
<1>7. TypeOK'
  <2>1. base \in Blocks
    BY <1>3, StackFacts
  <2>2. QED
    BY <1>1, <1>4, <2>1 DEF SearchInv, TypeOK
<1>8. NodesInv'
  <2>1. Entry \in nodes'
    BY <1>1, <1>3, <1>4 DEF SearchInv, NodesInv
  <2>2. \A a \in nodes' : succs'[a] \subseteq nodes' \ {Entry}
    BY <1>1, <1>4 DEF SearchInv, NodesInv
  <2>3. \A a, b \in nodes' : b \in succs'[a] <=> a \in prevs'[b]
    BY <1>1, <1>4 DEF SearchInv, NodesInv
  <2>4. ASSUME NEW x \in prog.blocks, NEW n \in nodes' \cap prog.succ[x]
        PROVE  x \in prevs'[n] \/ (x \in reserved' /\ n \in succs'[x])
    <3>1. n \in nodes \cap prog.succ[x] /\ n # base /\ n \in Blocks /\ x \in Blocks
      BY <1>4, StackFacts, ProgFacts DEF SearchInv, TypeOK
    <3>2. CASE x \in prevs[n] /\ x # base
      BY <1>4, <3>2
    <3>3. CASE x \in prevs[n] /\ x = base
      <4>1. n \in succs[base]
        BY <1>1, <1>3, <3>1, <3>3 DEF SearchInv, NodesInv
      <4>2. QED
        BY <1>1, <1>4, <3>1, <3>3, <4>1
    <3>4. CASE x \in reserved /\ n \in succs[x]
      BY <1>1, <1>4, <3>1, <3>4
    <3>5. x \in prevs[n] \/ (x \in reserved /\ n \in succs[x])
      BY <1>1, <3>1 DEF SearchInv, NodesInv
    <3>6. QED
      BY <3>2, <3>3, <3>4, <3>5
  <2>5. QED
    BY <1>1, <2>1, <2>2, <2>3, <2>4 DEF NodesInv
<1>9. StackInv'
  BY <1>1, <1>5, <1>6 DEF StackInv
<1>10. LowInv'
  BY <1>6 DEF LowInv
<1>11. SccsInv'
  <2>1. \A a \in sccs' : a # {} /\ a \subseteq nodes' \ {Entry}
    BY <1>1, <1>2, <1>4 DEF SearchInv, SccsInv
  <2>2. \A a, b \in sccs' : a # b => a \cap b = {}
    BY <1>1 DEF SearchInv, SccsInv
  <2>3. QED
    BY <1>1, <1>6, <2>1, <2>2 DEF SccsInv
<1>12. EveryLoopHasBase'
  BY <1>1 DEF EveryLoopHasBase
<1>13. QED
  BY <1>7, <1>8, <1>9, <1>10, <1>11, <1>12 DEF SearchInv

(* A component that nothing enters: what is outside holds the entry and     *)
(* follows the edges, so the entry does not reach the component.            *)
LEMMA NoBaseMeansUnreachable ==
  ASSUME SearchInv, pc = "record", NEW scc \in sccs, Bases(scc) = {}
  PROVE  ~AllReachable
<1>1. PICK S : S = prog.blocks \ scc
  OBVIOUS
<1>2. /\ prog.blocks \subseteq Blocks /\ Entry \in prog.blocks /\ nodes \subseteq prog.blocks
      /\ prog.succ \in [Blocks -> SUBSET (prog.blocks \ {Entry})]
  BY ProgFacts DEF SearchInv, TypeOK
<1>3. scc # {} /\ scc \subseteq nodes \ {Entry}
  BY DEF SearchInv, SccsInv
<1>4. Entered(scc) = {} /\ AfterReserved(scc) = {}
  BY DEF Bases
<1>5. ASSUME NEW x \in S, NEW n \in prog.succ[x] PROVE n \in S
  <2> SUFFICES ASSUME n \in scc PROVE FALSE
    BY <1>1, <1>2, <1>5
  <2>1. x \in prog.blocks /\ x \notin scc /\ n \in nodes \cap prog.succ[x]
    BY <1>1, <1>3, <1>5
  <2>2. x \in prevs[n] \/ (x \in reserved /\ n \in succs[x])
    BY <2>1 DEF SearchInv, NodesInv
  <2>3. CASE x \in prevs[n]
    <3>1. n \in Entered(scc)
      BY <2>1, <2>3 DEF Entered
    <3>2. QED
      BY <1>4, <3>1
  <2>4. CASE x \in reserved /\ n \in succs[x]
    <3>1. n \in AfterReserved(scc)
      BY <2>4 DEF AfterReserved
    <3>2. QED
      BY <1>4, <3>1
  <2>5. QED
    BY <2>2, <2>3, <2>4
<1>6. S \in SUBSET Blocks /\ Entry \in S /\ \A x \in S : prog.succ[x] \subseteq S
  BY <1>1, <1>2, <1>3, <1>5
<1>7. Reachable(prog.succ) \subseteq S
  BY <1>6 DEF Reachable
<1>8. PICK m \in scc : m \in prog.blocks
  BY <1>2, <1>3
<1>9. QED
  BY <1>1, <1>7, <1>8 DEF AllReachable

LEMMA NoBaseInv == ASSUME SearchInv, NEW scc, NoBase(scc) PROVE SearchInv'
<1>1. /\ pc = "record" /\ scc \in sccs /\ Bases(scc) = {} /\ pc' = "crashed"
  BY DEF NoBase
<1>2. UNCHANGED <<prog, nodes, succs, prevs, reserved, index, lowlink, index_count, stack, calls, sccs>>
  BY DEF NoBase, searchVars, graphVars, sccVars
<1>3. OnStack' = OnStack
  BY <1>2 DEF OnStack
<1>4. TypeOK'
  BY <1>1, <1>2 DEF SearchInv, TypeOK
<1>5. NodesInv'
  BY <1>1, <1>2 DEF SearchInv, NodesInv
<1>6. StackInv'
  BY <1>1, <1>2, <1>3 DEF SearchInv, StackInv
<1>7. LowInv'
  BY <1>2, <1>3 DEF SearchInv, LowInv
<1>8. SccsInv'
  BY <1>1, <1>2, <1>3 DEF SearchInv, SccsInv
<1>9. EveryLoopHasBase'
  <2>1. ~AllReachable
    BY <1>1, NoBaseMeansUnreachable
  <2>2. QED
    BY <1>2, <2>1 DEF EveryLoopHasBase, AllReachable
<1>10. QED
  BY <1>4, <1>5, <1>6, <1>7, <1>8, <1>9 DEF SearchInv

LEMMA StutterInv == ASSUME SearchInv, UNCHANGED vars PROVE SearchInv'
<1>1. UNCHANGED <<prog, pc, nodes, succs, prevs, reserved, index, lowlink, index_count, stack, calls, sccs>>
  BY DEF vars, searchVars, graphVars, sccVars
<1>2. OnStack' = OnStack
  BY <1>1 DEF OnStack
<1>3. TypeOK'
  BY <1>1 DEF SearchInv, TypeOK
<1>4. NodesInv'
  BY <1>1 DEF SearchInv, NodesInv
<1>5. StackInv'
  BY <1>1, <1>2 DEF SearchInv, StackInv
<1>6. LowInv'
  BY <1>1, <1>2 DEF SearchInv, LowInv
<1>7. SccsInv'
  BY <1>1, <1>2 DEF SearchInv, SccsInv
<1>8. EveryLoopHasBase'
  BY <1>1 DEF SearchInv, EveryLoopHasBase, AllReachable
<1>9. QED
  BY <1>3, <1>4, <1>5, <1>6, <1>7, <1>8 DEF SearchInv

LEMMA NextInv == ASSUME SearchInv, [Next]_vars PROVE SearchInv'
<1>1. ASSUME NEW n \in Blocks, TraverseRoot(n) PROVE SearchInv'
  BY <1>1, TraverseRootInv
<1>2. ASSUME NEW n \in Blocks, SeeSuccessor(n) PROVE SearchInv'
  BY <1>2, SeeSuccessorInv
<1>3. CASE EndTraverse
  BY <1>3, EndTraverseInv
<1>4. CASE EndSearch
  BY <1>4, EndSearchInv
<1>5. CASE EndPass
  BY <1>5, EndPassInv
<1>6. ASSUME NEW scc \in sccs, NoBase(scc) PROVE SearchInv'
  BY <1>6, NoBaseInv
<1>7. ASSUME NEW scc \in sccs, NEW base \in scc, Record(scc, base) PROVE SearchInv'
  BY <1>7, RecordInv
<1>8. CASE SearchAgain
  BY <1>8, SearchAgainInv
<1>9. CASE UNCHANGED vars
  BY <1>9, StutterInv
<1>10. QED
  BY <1>1, <1>2, <1>3, <1>4, <1>5, <1>6, <1>7, <1>8, <1>9 DEF Next, SearchNext, Finished

(* traverse and the recording of the loops keep the order of the stack, the *)
(* edges of the nodes left and the components apart, in every round.        *)
THEOREM SearchStaysConsistent == Spec => []SearchInv
<1>1. SearchInv /\ [Next]_vars => SearchInv'
  BY NextInv
<1>2. QED
  BY InitInv, <1>1, PTL DEF Spec

(* find_loop_base gives every component a base (LoopSearch.cpp, lines       *)
(* 106-226): base->bb never reads a null pointer, on every graph whose      *)
(* entry reaches all blocks, reducible or not, and in every round.          *)
THEOREM EveryLoopHasBaseAlways == Spec => []EveryLoopHasBase
<1>1. SearchInv => EveryLoopHasBase
  BY DEF SearchInv
<1>2. QED
  BY SearchStaysConsistent, <1>1, PTL
================================================================================

--------------------------- MODULE Dominators_proofs ---------------------------
(****************************************************************************)
(* Proofs about Dominators::run, for every set of blocks and every set of   *)
(* graphs.  IInv is inductive; the assertions of the code, and that the     *)
(* visit covers what the entry reaches, follow from it.                     *)
(****************************************************************************)
EXTENDS Dominators, TLAPS, FiniteSetTheorems, SequenceTheorems, WellFoundedInduction

LEMMA InitIInv == Init => IInv
<1> SUFFICES ASSUME Init PROVE IInv
  OBVIOUS
<1> USE EntryAssumption, NullAssumption, CfgsAssumption DEF Init
<1>1. TypeOK
  <2>1. succ \in [Blocks -> SUBSET (Blocks \ {Entry})]
    OBVIOUS
  <2>2. stack \in Seq(Blocks) /\ postOrder \in Seq(Blocks) /\ Len(postOrder) = 0
    OBVIOUS
  <2>3. pos \in 0..Len(postOrder)
    BY <2>2
  <2>4. QED
    BY <2>1, <2>2, <2>3 DEF TypeOK, PhaseNames, MaybeBlock
<1>2. FingersOK
  BY DEF FingersOK
<1>3. Numbered = {} /\ OnStack = {Entry}
  BY DEF Numbered, OnStack
<1>4. StackInv
  BY <1>3 DEF StackInv
<1>5. Entry \in Reachable(succ)
  BY DEF Reachable
<1>6. NumberInv
  BY <1>3, <1>5 DEF NumberInv
<1>7. IdomInv
  BY DEF IdomInv
<1>8. FoldInv
  BY DEF FoldInv
<1>9. QED
  BY <1>1, <1>2, <1>4, <1>6, <1>7, <1>8 DEF IInv

(****************************************************************************)
(* The visit.                                                               *)
(****************************************************************************)
LEMMA VisitSuccessorIInv == ASSUME IInv, VisitSuccessor PROVE IInv'
<1> USE DEF IInv
<1>1. PICK b \in succ[Top(stack)] \ visited :
        stack' = Append(stack, b) /\ visited' = visited \cup {b}
  BY DEF VisitSuccessor
<1> DEFINE n == Len(stack)
<1>2. /\ pc = "visit" /\ pc' = "visit" /\ stack \in Seq(Blocks)
      /\ n \in Nat /\ n > 0 /\ Top(stack) = stack[n] /\ stack[n] \in Blocks
      /\ b \in Blocks
  BY <1>1 DEF VisitSuccessor, TypeOK, Top, visitVars
<1>3. /\ UNCHANGED <<succ, postOrder, postOrderId, idom, pos, changed, newIdom, rest>>
      /\ UNCHANGED <<b1, b2, joins, join, runner, frontier, treeSucc>>
  BY DEF VisitSuccessor, graphVars, idomVars, frontVars
<1>4. /\ Len(stack') = n + 1
      /\ stack'[n + 1] = b
      /\ \A i \in 1..n : stack'[i] = stack[i]
      /\ stack' \in Seq(Blocks)
  BY <1>1, <1>2
<1>5. TypeOK'
  BY <1>1, <1>2, <1>3, <1>4 DEF TypeOK, PhaseNames, MaybeBlock
<1>6. Numbered' = Numbered /\ OnStack' = OnStack \cup {b}
  BY <1>2, <1>3, <1>4 DEF Numbered, OnStack
<1>7. StackInv'
  <2>1. b \notin Numbered /\ b \notin OnStack
    BY <1>1 DEF StackInv
  <2>2. \A i, j \in 1..Len(stack') : stack'[i] = stack'[j] => i = j
    <3> SUFFICES ASSUME NEW i \in 1..Len(stack'), NEW j \in 1..Len(stack'),
                        stack'[i] = stack'[j]
                 PROVE  i = j
      OBVIOUS
    <3>1. \A k \in 1..n : stack[k] # b
      BY <2>1 DEF OnStack
    <3>2. CASE i \in 1..n /\ j \in 1..n
      BY <3>2, <1>4 DEF StackInv
    <3>3. CASE i = n + 1 \/ j = n + 1
      BY <3>1, <3>3, <1>2, <1>4
    <3>4. QED
      BY <3>2, <3>3, <1>2, <1>4
  <2>3. \A i \in 2..Len(stack') : stack'[i] \in succ'[stack'[i - 1]]
    BY <1>1, <1>2, <1>3, <1>4 DEF StackInv
  <2>4. stack'[1] = Entry /\ stack' # <<>>
    BY <1>2, <1>4 DEF StackInv
  <2>5. visited' = Numbered' \cup OnStack' /\ Numbered' \cap OnStack' = {}
    BY <1>1, <1>6, <2>1 DEF StackInv
  <2>6. QED
    BY <1>2, <2>2, <2>3, <2>4, <2>5 DEF StackInv
<1>8. b \in Reachable(succ)
  BY <1>1, <1>2 DEF NumberInv, Reachable, StackInv, OnStack
<1>9. NumberInv'
  BY <1>1, <1>2, <1>3, <1>6, <1>8 DEF NumberInv, Reachable, Preds
<1>10. FingersOK' /\ IdomInv' /\ FoldInv'
  BY <1>2, <1>3, <1>6 DEF FingersOK, IdomInv, FoldInv
<1>11. QED
  BY <1>5, <1>7, <1>9, <1>10

LEMMA LeaveBlockIInv == ASSUME IInv, LeaveBlock PROVE IInv'
<1> USE DEF IInv
<1> DEFINE n == Len(stack)
           m == Len(postOrder)
           t == stack[n]
<1>1. /\ pc = "visit" /\ pc' = "visit" /\ stack \in Seq(Blocks)
      /\ n \in Nat /\ n > 0 /\ t \in Blocks
      /\ postOrder \in Seq(Blocks) /\ m \in Nat
      /\ succ[t] \subseteq visited
  BY DEF LeaveBlock, TypeOK, Top
<1>2. /\ postOrderId' = [postOrderId EXCEPT ![t] = m]
      /\ postOrder' = Append(postOrder, t)
      /\ stack' = SubSeq(stack, 1, n - 1)
  BY DEF LeaveBlock, Top, Pop
<1>3. /\ UNCHANGED <<succ, visited, idom, pos, changed, newIdom, rest>>
      /\ UNCHANGED <<b1, b2, joins, join, runner, frontier, treeSucc>>
  BY DEF LeaveBlock, graphVars, idomVars, frontVars
<1>4. /\ Len(stack') = n - 1
      /\ \A i \in 1..(n - 1) : stack'[i] = stack[i]
      /\ stack' \in Seq(Blocks)
  <2>1. \A i \in 1..(n - 1) : stack[i] \in Blocks
    BY <1>1
  <2>2. /\ SubSeq(stack, 1, n - 1) \in Seq(Blocks)
        /\ Len(SubSeq(stack, 1, n - 1)) = IF 1 <= n - 1 THEN (n - 1) - 1 + 1 ELSE 0
        /\ \A i \in 1..((n - 1) - 1 + 1) :
             SubSeq(stack, 1, n - 1)[i] = stack[1 + i - 1]
    BY <1>1, <2>1, SubSeqProperties
  <2>3. \A i \in 1..(n - 1) : SubSeq(stack, 1, n - 1)[i] = stack[i]
    BY <1>1, <2>2
  <2>4. Len(SubSeq(stack, 1, n - 1)) = n - 1
    <3>1. CASE n = 1
      BY <3>1, <2>2
    <3>2. CASE n > 1
      BY <3>2, <1>1, <2>2
    <3>3. n = 1 \/ n > 1
      BY <1>1
    <3>4. QED
      BY <3>1, <3>2, <3>3, Zenon
  <2>5. QED
    BY <1>1, <1>2, <2>2, <2>3, <2>4
<1>5. /\ Len(postOrder') = m + 1
      /\ postOrder'[m + 1] = t
      /\ \A i \in 1..m : postOrder'[i] = postOrder[i]
      /\ postOrder' \in Seq(Blocks)
  BY <1>1, <1>2
<1>6. TypeOK'
  BY <1>1, <1>2, <1>3, <1>4, <1>5 DEF TypeOK, PhaseNames, MaybeBlock
<1>7. Numbered' = Numbered \cup {t}
  BY <1>1, <1>5 DEF Numbered
<1>8. OnStack' = OnStack \ {t} /\ t \in OnStack
  <2>1. \A i \in 1..(n - 1) : stack[i] # t
    BY <1>1 DEF StackInv
  <2>2. 1..n = 1..(n - 1) \cup {n} /\ n \in 1..n
    BY <1>1
  <2>3. OnStack = {stack[i] : i \in 1..(n - 1)} \cup {t}
    BY <2>2 DEF OnStack
  <2>4. OnStack' = {stack[i] : i \in 1..(n - 1)}
    BY <1>1, <1>4 DEF OnStack
  <2>5. QED
    BY <2>1, <2>3, <2>4
<1>9. t \notin Numbered
  BY <1>8 DEF StackInv
<1>10. /\ postOrderId'[t] = m
       /\ \A b \in Blocks \ {t} : postOrderId'[b] = postOrderId[b]
       /\ \A b \in Numbered : postOrderId'[b] = postOrderId[b] /\ postOrderId[b] < m
       /\ Numbered \subseteq Blocks
  BY <1>1, <1>2, <1>9 DEF TypeOK, Numbered, NumberInv
<1>11. n > 1 => t # Entry /\ stack[n - 1] \in OnStack' /\ t \in succ[stack[n - 1]]
  BY <1>1, <1>4 DEF StackInv, OnStack
<1>12. n = 1 => t = Entry
  BY <1>1 DEF StackInv
<1>13. StackInv'
  <2>1. visited' = Numbered' \cup OnStack' /\ Numbered' \cap OnStack' = {}
    BY <1>3, <1>7, <1>8, <1>9 DEF StackInv
  <2>2. \A i, j \in 1..Len(stack') : stack'[i] = stack'[j] => i = j
    BY <1>1, <1>4 DEF StackInv
  <2>3. \A i \in 2..Len(stack') : stack'[i] \in succ'[stack'[i - 1]]
    BY <1>1, <1>3, <1>4 DEF StackInv
  <2>4. stack' # <<>> => stack'[1] = Entry
    BY <1>1, <1>4 DEF StackInv
  <2>5. stack' = <<>> => Len(postOrder') > 0 /\ postOrder'[Len(postOrder')] = Entry
    BY <1>1, <1>4, <1>5, <1>12
  <2>6. QED
    BY <1>1, <2>1, <2>2, <2>3, <2>4, <2>5 DEF StackInv
<1>14. NumberInv'
  <2>1. \A i \in 1..Len(postOrder') : postOrderId'[postOrder'[i]] = i - 1
    BY <1>1, <1>5, <1>10 DEF NumberInv, Numbered
  <2>2. ASSUME NEW b \in Numbered' \ {Entry}
        PROVE  \E p \in Preds(succ', b) :
                 p \in OnStack' \/ (p \in Numbered' /\ postOrderId'[b] < postOrderId'[p])
    <3>1. CASE b = t
      BY <3>1, <1>1, <1>3, <1>4, <1>11, <1>12, <2>2 DEF Preds, OnStack
    <3>2. CASE b # t
      BY <3>2, <2>2, <1>3, <1>7, <1>8, <1>10 DEF NumberInv, Preds
    <3>3. QED
      BY <3>1, <3>2
  <2>3. \A b \in Numbered' : succ'[b] \subseteq visited'
    BY <1>1, <1>3, <1>7 DEF NumberInv
  <2>4. visited' \subseteq Reachable(succ')
    BY <1>3 DEF NumberInv
  <2>5. QED
    BY <2>1, <2>2, <2>3, <2>4 DEF NumberInv
<1>15. FingersOK' /\ IdomInv' /\ FoldInv'
  BY <1>1, <1>3 DEF FingersOK, IdomInv, FoldInv
<1>16. QED
  BY <1>6, <1>13, <1>14, <1>15

(****************************************************************************)
(* create_idom.  Its steps leave what the visit has computed alone.         *)
(****************************************************************************)
LEMMA VisitStays ==
  ASSUME StackInv, NumberInv, UNCHANGED <<succ, visitVars>>,
         pc # "visit" \/ stack = <<>>
  PROVE  /\ StackInv' /\ NumberInv'
         /\ Numbered' = Numbered /\ OnStack' = OnStack /\ OnStack = {}
         /\ Len(postOrder) > 0 /\ postOrder[Len(postOrder)] = Entry
<1>1. UNCHANGED <<succ, stack, visited, postOrder, postOrderId>> /\ stack = <<>>
  BY DEF visitVars, StackInv
<1>2. Numbered' = Numbered /\ OnStack' = OnStack /\ OnStack = {}
  BY <1>1 DEF Numbered, OnStack
<1>3. StackInv' /\ Len(postOrder) > 0 /\ postOrder[Len(postOrder)] = Entry
  BY <1>1, <1>2 DEF StackInv
<1>4. NumberInv'
  BY <1>1, <1>2 DEF NumberInv, Preds, Reachable
<1>5. QED
  BY <1>2, <1>3, <1>4

(* Numbers of numbered blocks: they fit the list, and no two are equal. *)
LEMMA NumbersDistinct ==
  ASSUME TypeOK, NumberInv
  PROVE  /\ Numbered \subseteq Blocks
         /\ \A b \in Numbered : /\ postOrderId[b] \in 0..(Len(postOrder) - 1)
                               /\ postOrder[postOrderId[b] + 1] = b
         /\ \A a, b \in Numbered : postOrderId[a] = postOrderId[b] => a = b
<1>1. Len(postOrder) \in Nat /\ \A i \in 1..Len(postOrder) : postOrder[i] \in Blocks
  BY DEF TypeOK
<1>2. \A b \in Numbered : /\ postOrderId[b] \in 0..(Len(postOrder) - 1)
                          /\ postOrder[postOrderId[b] + 1] = b
  BY <1>1 DEF Numbered, NumberInv
<1>3. Numbered \subseteq Blocks
  BY <1>1 DEF Numbered
<1>4. QED
  BY <1>2, <1>3

LEMMA StartIdomIInv == ASSUME IInv, StartIdom PROVE IInv'
<1> USE EntryAssumption, NullAssumption DEF IInv
<1>1. /\ pc = "visit" /\ pc' = "scan" /\ stack = <<>>
      /\ idom' = [b \in Blocks |-> IF b = Entry THEN Entry ELSE Null]
      /\ pos' = Len(postOrder) /\ changed' = FALSE
      /\ UNCHANGED <<succ, visitVars, newIdom, rest, b1, b2, joins, join, runner,
                     frontier, treeSucc>>
  BY DEF StartIdom, graphVars, frontVars
<1>2. /\ StackInv' /\ NumberInv' /\ Numbered' = Numbered
      /\ Len(postOrder) > 0 /\ postOrder[Len(postOrder)] = Entry
  BY <1>1, VisitStays
<1>3. UNCHANGED <<stack, visited, postOrder, postOrderId>> /\ Len(postOrder) \in Nat
  BY <1>1 DEF visitVars, TypeOK
<1>4. TypeOK'
  <2>1. idom' \in [Blocks -> MaybeBlock]
    BY <1>1 DEF MaybeBlock
  <2>2. pos' \in 0..Len(postOrder')
    BY <1>1, <1>3
  <2>3. QED
    BY <1>1, <1>3, <2>1, <2>2 DEF TypeOK, PhaseNames
<1>5. Entry \in Numbered
  BY <1>2, <1>3 DEF Numbered
<1>6. IdomInv'
  BY <1>1, <1>2, <1>3, <1>5 DEF IdomInv
<1>7. FingersOK' /\ FoldInv'
  BY <1>1 DEF FingersOK, FoldInv
<1>8. QED
  BY <1>2, <1>4, <1>6, <1>7

LEMMA SkipRootIInv == ASSUME IInv, SkipRoot PROVE IInv'
<1> USE DEF IInv
<1>1. /\ pc = "scan" /\ pc' = "scan" /\ pos > 0 /\ postOrder[pos] = Entry
      /\ pos' = pos - 1
      /\ UNCHANGED <<succ, visitVars, idom, changed, newIdom, rest, b1, b2, joins,
                     join, runner, frontier, treeSucc>>
  BY DEF SkipRoot, Current, graphVars, frontVars
<1>2. StackInv' /\ NumberInv' /\ Numbered' = Numbered
  BY <1>1, VisitStays
<1>3. UNCHANGED <<stack, visited, postOrder, postOrderId>>
  BY <1>1 DEF visitVars
<1>4. TypeOK'
  BY <1>1, <1>3 DEF TypeOK, PhaseNames
<1>5. IdomInv'
  BY <1>1, <1>2, <1>3, EntryAssumption, NullAssumption DEF IdomInv, TypeOK
<1>6. FingersOK' /\ FoldInv'
  BY <1>1 DEF FingersOK, FoldInv
<1>7. QED
  BY <1>2, <1>4, <1>5, <1>6

(* The block at pos has a predecessor that the sweep has already passed. *)
LEMMA PassedPredecessor ==
  ASSUME IInv, pc = "scan", pos > 0, Current # Entry
  PROVE  \E p \in Processed(Current) : Above(p)
<1> USE DEF IInv
<1>1. pos \in 1..Len(postOrder) /\ Current \in Numbered /\ stack = <<>>
  BY DEF TypeOK, Current, Numbered, StackInv
<1>2. postOrderId[Current] = pos - 1 /\ OnStack = {}
  BY <1>1 DEF NumberInv, Current, OnStack
<1>3. PICK p \in Preds(succ, Current) :
        p \in Numbered /\ postOrderId[Current] < postOrderId[p]
  BY <1>1, <1>2 DEF NumberInv
<1>4. postOrderId[p] + 1 \in (pos + 1)..Len(postOrder) /\ postOrder[postOrderId[p] + 1] = p
  BY <1>1, <1>2, <1>3, NumbersDistinct
<1>5. idom[p] # Null
  BY <1>4 DEF IdomInv
<1>6. QED
  BY <1>3, <1>5 DEF Processed, Above

LEMMA PickPredIInv == ASSUME IInv, PickPred PROVE IInv'
<1> USE DEF IInv
<1>1. PICK p \in Processed(Current) :
        newIdom' = p /\ rest' = Processed(Current) \ {p}
  BY DEF PickPred
<1>2. /\ pc = "scan" /\ pc' = "fold" /\ pos > 0 /\ Current # Entry
      /\ UNCHANGED <<succ, visitVars, idom, pos, changed, b1, b2, joins, join,
                     runner, frontier, treeSucc>>
  BY DEF PickPred, graphVars, frontVars
<1>3. StackInv' /\ NumberInv' /\ Numbered' = Numbered
  BY <1>2, VisitStays
<1>4. UNCHANGED <<stack, visited, postOrder, postOrderId>> /\ Current' = Current
  BY <1>2 DEF visitVars, Current
<1>5. p \in Blocks /\ idom[p] # Null /\ rest' \subseteq Blocks
      /\ \A q \in rest' : idom[q] # Null
  BY <1>1 DEF Processed, Preds
<1>6. TypeOK'
  BY <1>1, <1>2, <1>4, <1>5 DEF TypeOK, PhaseNames, MaybeBlock
<1>7. IdomInv'
  BY <1>2, <1>3, <1>4 DEF IdomInv
<1>8. FingersOK'
  BY <1>1, <1>2, <1>4, <1>5 DEF FingersOK, TypeOK
<1>9. FoldInv'
  BY <1>1, <1>2, <1>4, PassedPredecessor DEF FoldInv, Above
<1>10. QED
  BY <1>3, <1>6, <1>7, <1>8, <1>9

LEMMA StartIntersectIInv == ASSUME IInv, StartIntersect PROVE IInv'
<1> USE DEF IInv
<1>1. PICK p \in rest : b1' = p /\ rest' = rest \ {p}
  BY DEF StartIntersect
<1>2. /\ pc = "fold" /\ pc' = "meet" /\ b2' = newIdom
      /\ UNCHANGED <<succ, visitVars, idom, pos, changed, newIdom, joins, join,
                     runner, frontier, treeSucc>>
  BY DEF StartIntersect, graphVars, frontVars
<1>3. StackInv' /\ NumberInv' /\ Numbered' = Numbered
  BY <1>2, VisitStays
<1>4. UNCHANGED <<stack, visited, postOrder, postOrderId>> /\ Current' = Current
  BY <1>2 DEF visitVars, Current
<1>5. TypeOK'
  BY <1>1, <1>2, <1>4 DEF TypeOK, PhaseNames, MaybeBlock
<1>6. IdomInv'
  BY <1>2, <1>3, <1>4 DEF IdomInv
<1>7. FingersOK'
  BY <1>1, <1>2, <1>4 DEF FingersOK, TypeOK
<1>8. FoldInv'
  BY <1>1, <1>2, <1>4 DEF FoldInv, Above
<1>9. QED
  BY <1>3, <1>5, <1>6, <1>7, <1>8

(* A finger below another one is not the root, and climbs to a higher       *)
(* number; fingers of one number stand on one block.                        *)
LEMMA FingerClimbs ==
  ASSUME TypeOK, StackInv, NumberInv, IdomInv, pc # "visit",
         NEW a \in Blocks, idom[a] # Null, NEW b \in Blocks, idom[b] # Null,
         postOrderId[a] < postOrderId[b]
  PROVE  /\ idom[a] \in Blocks /\ idom[idom[a]] # Null
         /\ postOrderId[a] < postOrderId[idom[a]]
<1>1. a \in Numbered /\ b \in Numbered /\ idom[a] \in Numbered
  BY DEF IdomInv
<1>2. Len(postOrder) > 0 /\ postOrder[Len(postOrder)] = Entry
  BY DEF StackInv
<1>3. postOrderId[Entry] = Len(postOrder) - 1
  BY <1>2 DEF NumberInv, TypeOK
<1>4. postOrderId[b] <= postOrderId[Entry] /\ Numbered \subseteq Blocks
  BY <1>1, <1>2, <1>3, NumbersDistinct DEF TypeOK
<1>5. a # Entry
  BY <1>1, <1>3, <1>4, NumbersDistinct
<1>6. QED
  BY <1>1, <1>4, <1>5 DEF IdomInv

LEMMA RaiseB1IInv == ASSUME IInv, RaiseB1 PROVE IInv'
<1> USE DEF IInv
<1>1. /\ pc = "meet" /\ pc' = "meet" /\ b1' = idom[b1]
      /\ postOrderId[b1] < postOrderId[b2]
      /\ UNCHANGED <<succ, visitVars, idom, pos, changed, newIdom, rest, b2, joins,
                     join, runner, frontier, treeSucc>>
  BY DEF RaiseB1, graphVars, frontVars
<1>2. StackInv' /\ NumberInv' /\ Numbered' = Numbered
  BY <1>1, VisitStays
<1>3. UNCHANGED <<stack, visited, postOrder, postOrderId>> /\ Current' = Current
  BY <1>1 DEF visitVars, Current
<1>4. /\ b1 \in Blocks /\ b2 \in Blocks /\ idom[b1] # Null /\ idom[b2] # Null
      /\ Current \in Blocks
  BY <1>1 DEF FingersOK, Current, TypeOK
<1>5. /\ b1' \in Blocks /\ idom[b1'] # Null
      /\ postOrderId[b1] < postOrderId[b1']
  BY <1>1, <1>4, FingerClimbs
<1>6. TypeOK'
  BY <1>1, <1>3, <1>5 DEF TypeOK, PhaseNames, MaybeBlock
<1>7. IdomInv'
  BY <1>1, <1>2, <1>3 DEF IdomInv
<1>8. FingersOK'
  BY <1>1, <1>3, <1>4, <1>5 DEF FingersOK
<1>9. FoldInv'
  BY <1>1, <1>3, <1>4, <1>5 DEF FoldInv, Above, TypeOK
<1>10. QED
  BY <1>2, <1>6, <1>7, <1>8, <1>9

LEMMA RaiseB2IInv == ASSUME IInv, RaiseB2 PROVE IInv'
<1> USE DEF IInv
<1>1. /\ pc = "meet" /\ pc' = "meet" /\ b2' = idom[b2]
      /\ postOrderId[b2] < postOrderId[b1]
      /\ UNCHANGED <<succ, visitVars, idom, pos, changed, newIdom, rest, b1, joins,
                     join, runner, frontier, treeSucc>>
  BY DEF RaiseB2, graphVars, frontVars
<1>2. StackInv' /\ NumberInv' /\ Numbered' = Numbered
  BY <1>1, VisitStays
<1>3. UNCHANGED <<stack, visited, postOrder, postOrderId>> /\ Current' = Current
  BY <1>1 DEF visitVars, Current
<1>4. /\ b1 \in Blocks /\ b2 \in Blocks /\ idom[b1] # Null /\ idom[b2] # Null
      /\ Current \in Blocks
  BY <1>1 DEF FingersOK, Current, TypeOK
<1>5. /\ b2' \in Blocks /\ idom[b2'] # Null
      /\ postOrderId[b2] < postOrderId[b2']
  BY <1>1, <1>4, FingerClimbs
<1>6. TypeOK'
  BY <1>1, <1>3, <1>5 DEF TypeOK, PhaseNames, MaybeBlock
<1>7. IdomInv'
  BY <1>1, <1>2, <1>3 DEF IdomInv
<1>8. FingersOK'
  BY <1>1, <1>3, <1>4, <1>5 DEF FingersOK
<1>9. FoldInv'
  BY <1>1, <1>3, <1>4, <1>5 DEF FoldInv, Above, TypeOK
<1>10. QED
  BY <1>2, <1>6, <1>7, <1>8, <1>9

LEMMA EndIntersectIInv == ASSUME IInv, EndIntersect PROVE IInv'
<1> USE DEF IInv
<1>1. /\ pc = "meet" /\ pc' = "fold" /\ newIdom' = b1 /\ b1 = b2
      /\ UNCHANGED <<succ, visitVars, idom, pos, changed, rest, b1, b2, joins,
                     join, runner, frontier, treeSucc>>
  BY DEF EndIntersect, graphVars, frontVars
<1>2. StackInv' /\ NumberInv' /\ Numbered' = Numbered
  BY <1>1, VisitStays
<1>3. UNCHANGED <<stack, visited, postOrder, postOrderId>> /\ Current' = Current
  BY <1>1 DEF visitVars, Current
<1>4. TypeOK'
  BY <1>1, <1>3 DEF TypeOK, PhaseNames
<1>5. IdomInv'
  BY <1>1, <1>2, <1>3 DEF IdomInv
<1>6. FingersOK' /\ FoldInv'
  BY <1>1, <1>3 DEF FingersOK, FoldInv, Above
<1>7. QED
  BY <1>2, <1>4, <1>5, <1>6

LEMMA SetIdomIInv == ASSUME IInv, SetIdom PROVE IInv'
<1> USE DEF IInv
<1>1. /\ pc = "fold" /\ pc' = "scan" /\ rest = {}
      /\ idom' = [idom EXCEPT ![Current] = newIdom]
      /\ changed' = (changed \/ idom[Current] # newIdom)
      /\ pos' = pos - 1
      /\ UNCHANGED <<succ, visitVars, newIdom, rest, b1, b2, joins, join, runner,
                     frontier, treeSucc>>
  BY DEF SetIdom, graphVars, frontVars
<1>2. StackInv' /\ NumberInv' /\ Numbered' = Numbered
  BY <1>1, VisitStays
<1>3. UNCHANGED <<stack, visited, postOrder, postOrderId>>
  BY <1>1 DEF visitVars
<1>4. /\ pos \in 1..Len(postOrder) /\ Current \in Blocks /\ Current \in Numbered
      /\ newIdom \in Blocks /\ idom[newIdom] # Null /\ Current # Entry
      /\ postOrderId[Current] < postOrderId[newIdom]
  BY <1>1 DEF FingersOK, FoldInv, Above, Current, TypeOK, Numbered
<1>5. /\ idom \in [Blocks -> MaybeBlock]
      /\ idom'[Current] = newIdom
      /\ \A b \in Blocks \ {Current} : idom'[b] = idom[b]
      /\ newIdom # Null
  BY <1>1, <1>4, NullAssumption DEF TypeOK
<1>6. TypeOK'
  BY <1>1, <1>3, <1>4, <1>5 DEF TypeOK, PhaseNames, MaybeBlock
<1>7. IdomInv'
  <2>1. pc' # "visit" /\ idom'[Entry] = Entry
    BY <1>1, <1>4, <1>5, EntryAssumption DEF IdomInv
  <2>2. ASSUME NEW b \in Blocks, idom'[b] # Null
        PROVE  /\ b \in Numbered' /\ idom'[b] \in Numbered' /\ idom'[idom'[b]] # Null
               /\ b # Entry => postOrderId'[b] < postOrderId'[idom'[b]]
    <3>1. CASE b = Current
      BY <3>1, <1>2, <1>3, <1>4, <1>5 DEF IdomInv
    <3>2. CASE b # Current
      BY <3>2, <2>2, <1>2, <1>3, <1>4, <1>5, NumbersDistinct DEF IdomInv
    <3>3. QED
      BY <3>1, <3>2
  <2>3. \A i \in (pos' + 1)..Len(postOrder') : idom'[postOrder'[i]] # Null
    BY <1>1, <1>3, <1>4, <1>5 DEF IdomInv, Current, TypeOK
  <2>4. QED
    BY <1>1, <2>1, <2>2, <2>3 DEF IdomInv
<1>8. FingersOK' /\ FoldInv'
  BY <1>1 DEF FingersOK, FoldInv
<1>9. QED
  BY <1>2, <1>6, <1>7, <1>8

LEMMA ResweepIInv == ASSUME IInv, Resweep PROVE IInv'
<1> USE DEF IInv
<1>1. /\ pc = "scan" /\ pc' = "scan" /\ pos' = Len(postOrder) /\ changed' = FALSE
      /\ UNCHANGED <<succ, visitVars, idom, newIdom, rest, b1, b2, joins, join,
                     runner, frontier, treeSucc>>
  BY DEF Resweep, graphVars, frontVars
<1>2. StackInv' /\ NumberInv' /\ Numbered' = Numbered
  BY <1>1, VisitStays
<1>3. UNCHANGED <<stack, visited, postOrder, postOrderId>> /\ Len(postOrder) \in Nat
  BY <1>1 DEF visitVars, TypeOK
<1>4. pos' \in 0..Len(postOrder')
  BY <1>1, <1>3
<1>5. TypeOK'
  BY <1>1, <1>3, <1>4 DEF TypeOK, PhaseNames
<1>6. IdomInv'
  BY <1>1, <1>2, <1>3 DEF IdomInv
<1>7. FingersOK' /\ FoldInv'
  BY <1>1 DEF FingersOK, FoldInv
<1>8. QED
  BY <1>2, <1>5, <1>6, <1>7

(****************************************************************************)
(* The frontier and the tree.                                               *)
(****************************************************************************)
LEMMA StartFrontierIInv == ASSUME IInv, StartFrontier PROVE IInv'
<1> USE DEF IInv
<1>1. /\ pc = "scan" /\ pc' = "joins" /\ pos = 0 /\ joins' \subseteq Blocks \X Blocks
      /\ UNCHANGED <<succ, visitVars, idomVars, join, runner, frontier, treeSucc>>
  BY DEF StartFrontier, graphVars
<1>2. StackInv' /\ NumberInv' /\ Numbered' = Numbered
  BY <1>1, VisitStays
<1>3. /\ UNCHANGED <<stack, visited, postOrder, postOrderId>>
      /\ UNCHANGED <<idom, pos, changed, newIdom, rest, b1, b2>>
  BY <1>1 DEF visitVars, idomVars
<1>4. TypeOK'
  BY <1>1, <1>3 DEF TypeOK, PhaseNames
<1>5. \A b \in Numbered : idom[b] # Null
  BY <1>1 DEF IdomInv, Numbered
<1>6. IdomInv'
  BY <1>1, <1>2, <1>3, <1>5 DEF IdomInv
<1>7. FingersOK' /\ FoldInv'
  BY <1>1 DEF FingersOK, FoldInv
<1>8. QED
  BY <1>2, <1>4, <1>6, <1>7

(* The steps after create_idom change neither the visit nor the idoms. *)
LEMMA IdomStays ==
  ASSUME IInv, pc \in {"joins", "climb", "done"}, pc' \in {"joins", "climb", "done"},
         UNCHANGED <<succ, visitVars, idomVars>>, TypeOK', pc' = "climb" => join' \in Blocks
  PROVE  IInv'
<1> USE DEF IInv
<1>1. StackInv' /\ NumberInv' /\ Numbered' = Numbered
  BY VisitStays
<1>2. /\ UNCHANGED <<stack, visited, postOrder, postOrderId>>
      /\ UNCHANGED <<idom, pos, changed, newIdom, rest, b1, b2>>
  BY DEF visitVars, idomVars
<1>3. IdomInv' /\ FingersOK' /\ FoldInv'
  BY <1>1, <1>2 DEF IdomInv, FingersOK, FoldInv
<1>4. QED
  BY <1>1, <1>3

LEMMA FrontierIInv ==
  ASSUME IInv, PickJoin \/ Climb \/ EndClimb \/ CreateDomTree PROVE IInv'
<1> USE DEF IInv
<1>1. CASE PickJoin
  <2>1. TypeOK'
    BY <1>1 DEF PickJoin, TypeOK, PhaseNames, MaybeBlock, graphVars, visitVars, idomVars
  <2>2. QED
    BY <1>1, <2>1, IdomStays DEF PickJoin, graphVars, TypeOK
<1>2. CASE Climb
  <2>1. TypeOK'
    <3>1. /\ pc = "climb" /\ pc' = "climb" /\ join \in Blocks
          /\ frontier' = [frontier EXCEPT ![runner] = @ \cup {join}]
          /\ runner' = IF runner = Null THEN Null ELSE idom[runner]
          /\ UNCHANGED <<succ, stack, visited, postOrder, postOrderId>>
          /\ UNCHANGED <<idom, pos, changed, newIdom, rest, b1, b2>>
          /\ UNCHANGED <<joins, join, treeSucc>>
      BY <1>2 DEF Climb, FingersOK, graphVars, visitVars, idomVars
    <3>2. frontier' \in [MaybeBlock -> SUBSET Blocks] /\ runner' \in MaybeBlock
      BY <3>1 DEF TypeOK, MaybeBlock
    <3>3. QED
      BY <3>1, <3>2 DEF TypeOK, PhaseNames
  <2>2. QED
    BY <1>2, <2>1, IdomStays DEF Climb, FingersOK, graphVars
<1>3. CASE EndClimb
  <2>1. TypeOK'
    BY <1>3 DEF EndClimb, TypeOK, PhaseNames, graphVars, visitVars, idomVars, frontVars
  <2>2. QED
    BY <1>3, <2>1, IdomStays DEF EndClimb, graphVars
<1>4. CASE CreateDomTree
  <2>1. TypeOK'
    BY <1>4 DEF CreateDomTree, TypeOK, PhaseNames, graphVars, visitVars, idomVars
  <2>2. QED
    BY <1>4, <2>1, IdomStays DEF CreateDomTree, graphVars
<1>5. QED
  BY <1>1, <1>2, <1>3, <1>4

LEMMA StutterIInv == ASSUME IInv, UNCHANGED vars PROVE IInv'
<1>1. /\ UNCHANGED <<succ, pc, stack, visited, postOrder, postOrderId>>
      /\ UNCHANGED <<idom, pos, changed, newIdom, rest, b1, b2>>
      /\ UNCHANGED <<joins, join, runner, frontier, treeSucc>>
  BY DEF vars, graphVars, visitVars, idomVars, frontVars
<1>2. Numbered' = Numbered /\ OnStack' = OnStack /\ Current' = Current
  BY <1>1 DEF Numbered, OnStack, Current
<1>3. TypeOK' /\ FingersOK'
  BY <1>1 DEF IInv, TypeOK, FingersOK
<1>4. StackInv'
  BY <1>1, <1>2 DEF IInv, StackInv
<1>5. NumberInv'
  BY <1>1, <1>2 DEF IInv, NumberInv, Preds, Reachable
<1>6. IdomInv' /\ FoldInv'
  BY <1>1, <1>2 DEF IInv, IdomInv, FoldInv, Above
<1>7. QED
  BY <1>3, <1>4, <1>5, <1>6 DEF IInv

(* The invariant holds in every state of the pass. *)
THEOREM Invariance == Spec => []IInv
<1>1. Init => IInv
  BY InitIInv
<1>2. IInv /\ [Next]_vars => IInv'
  BY VisitSuccessorIInv, LeaveBlockIInv, StartIdomIInv, SkipRootIInv, PickPredIInv,
     StartIntersectIInv, RaiseB1IInv, RaiseB2IInv, EndIntersectIInv, SetIdomIInv,
     ResweepIInv, StartFrontierIInv, FrontierIInv, StutterIInv DEF Next, Finished
<1>3. QED
  BY <1>1, <1>2, PTL DEF Spec

(* Type correctness, for every set of blocks and graphs. *)
THEOREM TypeCorrect == Spec => []TypeOK
<1>1. IInv => TypeOK
  BY DEF IInv
<1>2. QED
  BY <1>1, Invariance, PTL

(* The assertions of Dominators.cpp (lines 110, 134 and 139) never fail,    *)
(* and the loop of intersect never spins on two blocks of one number.       *)
THEOREM AssertionsNeverFail == Spec => []AssertionsHold
<1>1. ASSUME IInv PROVE AssertionsHold
  <2> USE <1>1 DEF IInv
  <2>1. PredAssertHolds
    BY PassedPredecessor DEF PredAssertHolds
  <2>2. IntersectAssertsHold
    BY NumbersDistinct DEF IntersectAssertsHold, FingersOK, IdomInv
  <2>3. QED
    BY <2>1, <2>2 DEF AssertionsHold
<1>2. QED
  BY <1>1, Invariance, PTL

(* The visit numbers exactly the blocks that the entry reaches, each once,  *)
(* and the entry last.                                                      *)
THEOREM VisitIsComplete == Spec => []VisitCoversReachable
<1>1. ASSUME IInv PROVE VisitCoversReachable
  <2> SUFFICES ASSUME pc # "visit"
               PROVE  /\ Numbered = Reachable(succ)
                      /\ Len(postOrder) = Cardinality(Reachable(succ))
                      /\ postOrder[Len(postOrder)] = Entry
    BY DEF VisitCoversReachable, Numbered, Top
  <2> USE <1>1 DEF IInv
  <2>1. /\ visited = Numbered /\ Len(postOrder) > 0
        /\ postOrder[Len(postOrder)] = Entry
    BY DEF StackInv, OnStack
  <2>2. Entry \in Numbered /\ Numbered \subseteq Blocks
    BY <2>1, NumbersDistinct DEF Numbered, TypeOK
  <2>3. Reachable(succ) \subseteq Numbered
    BY <2>1, <2>2 DEF NumberInv, Reachable
  <2>4. Numbered = Reachable(succ)
    BY <2>1, <2>3 DEF NumberInv
  <2>5. Len(postOrder) = Cardinality(Numbered)
    <3> DEFINE n == Len(postOrder)
               f == [i \in 1..n |-> postOrder[i]]
    <3>1. n \in Nat
      BY DEF TypeOK
    <3>2. f \in [1..n -> Numbered] /\ \A b \in Numbered : \E i \in 1..n : f[i] = b
      BY DEF Numbered
    <3>3. \A i, j \in 1..n : f[i] = f[j] => i = j
      BY <3>1 DEF NumberInv
    <3>4. f \in Bijection(1..n, Numbered)
      BY <3>2, <3>3 DEF Bijection, Injection, IsInjective, Surjection
    <3>5. QED
      BY <3>1, <3>4, FS_CountingElements DEF ExistsBijection
  <2>6. QED
    BY <2>1, <2>4, <2>5
<1>2. QED
  BY <1>1, Invariance, PTL

-------------------------------------------------------------------------------
(****************************************************************************)
(* What create_idom computes are the immediate dominators, on every graph   *)
(* and for every order of its lists.  The invariant TreeInv has two halves. *)
(* OptimalInv: no step passes over a dominator, because a dominator has a   *)
(* higher number than the blocks it dominates, so a finger that climbs is   *)
(* never one.  SoundInv: after a sweep without change every idom is an      *)
(* ancestor of all predecessors, and so dominates its block.                *)
(* On top of it FrontierInv follows the runners of                          *)
(* create_dominance_frontier: the ancestors of a block are its dominators,  *)
(* so the walk from a predecessor up to the idom of a join meets exactly    *)
(* the blocks whose dominance ends there.                                   *)
(****************************************************************************)

(* A strict dominator of a block dominates its predecessors. *)
LEMMA DominatesPredecessor ==
  ASSUME NEW e, NEW b \in Blocks, NEW p \in Preds(succ, b),
         StrictlyDominates(succ, e, b)
  PROVE  Dominates(succ, e, p)
<1>1. PICK S \in SUBSET (Blocks \ {e}) :
        Entry \in S \cup {e} /\ ClosedAvoiding(succ, e, S) /\ b \notin S
  BY DEF StrictlyDominates, Dominates
<1>2. e # b /\ b \in succ[p]
  BY DEF StrictlyDominates, Preds
<1>3. p \notin S
  BY <1>1, <1>2 DEF ClosedAvoiding
<1>4. QED
  BY <1>1, <1>3 DEF Dominates

(* Among numbered blocks one has the highest number. *)
LEMMA Highest ==
  ASSUME TypeOK, NumberInv, NEW T \in SUBSET Numbered, T # {}
  PROVE  \E y \in T : \A z \in T : postOrderId[z] <= postOrderId[y]
<1> DEFINE n == Len(postOrder)
           D == {n - postOrderId[y] : y \in T}
<1>1. /\ n \in Nat /\ Numbered \subseteq Blocks
      /\ \A y \in Numbered : postOrderId[y] \in 0..(n - 1)
  BY NumbersDistinct DEF TypeOK
<1>2. D \subseteq Nat /\ D # {}
  BY <1>1
<1>3. \E m \in D : \A k \in D : m <= k
  <2> HIDE DEF D
  <2>1. IsWellFoundedOn(OpToRel(<, Nat), Nat)
    BY NatLessThanWellFounded
  <2>2. PICK m \in D : \A k \in D : <<k, m>> \notin OpToRel(<, Nat)
    BY <1>2, <2>1, WFMin
  <2>3. \A k \in D : ~(k < m)
    BY <1>2, <2>2 DEF OpToRel
  <2>4. QED
    BY <1>2, <2>3
<1>4. PICK y \in T : \A k \in D : n - postOrderId[y] <= k
  BY <1>3
<1>5. \A z \in T : postOrderId[z] <= postOrderId[y]
  <2> SUFFICES ASSUME NEW z \in T PROVE postOrderId[z] <= postOrderId[y]
    OBVIOUS
  <2>1. n - postOrderId[z] \in D
    OBVIOUS
  <2>2. n - postOrderId[y] <= n - postOrderId[z]
    BY <1>4, <2>1
  <2>3. postOrderId[z] \in Nat /\ postOrderId[y] \in Nat
    BY <1>1
  <2> HIDE DEF D
  <2>4. QED
    BY <1>1, <2>2, <2>3
<1>6. QED
  BY <1>5

(* A dominator has no lower number than the blocks it dominates: the blocks *)
(* above the block in the depth-first tree form a path that avoids it       *)
(* otherwise.                                                               *)
LEMMA DominatorNumber ==
  ASSUME IInv, pc # "visit", NEW e \in Numbered, NEW x \in Numbered,
         Dominates(succ, e, x)
  PROVE  postOrderId[x] <= postOrderId[e]
<1> USE DEF IInv
<1>1. PICK S \in SUBSET (Blocks \ {e}) :
        Entry \in S \cup {e} /\ ClosedAvoiding(succ, e, S) /\ x \notin S
  BY DEF Dominates
<1> DEFINE T == {y \in Numbered : postOrderId[x] <= postOrderId[y] /\ y \notin S}
<1>2. \A y \in Numbered : postOrderId[y] \in Nat
  BY NumbersDistinct DEF TypeOK
<1>3. x \in T
  BY <1>1, <1>2
<1>4. PICK y \in T : \A z \in T : postOrderId[z] <= postOrderId[y]
  <2> HIDE DEF T
  <2>1. T \in SUBSET Numbered
    BY DEF T
  <2>2. QED
    BY <1>3, <2>1, Highest
<1> SUFFICES ASSUME postOrderId[e] < postOrderId[x] PROVE FALSE
  BY <1>2
<1>5. y # e /\ y \in Numbered /\ y \notin S
  BY <1>2
<1>6. CASE y = Entry
  BY <1>1, <1>5, <1>6
<1>7. CASE y # Entry
  <2>1. OnStack = {}
    BY DEF StackInv, OnStack
  <2>2. PICK p \in Preds(succ, y) : p \in Numbered /\ postOrderId[y] < postOrderId[p]
    BY <1>5, <1>7, <2>1 DEF NumberInv
  <2>3. p \notin S
    BY <1>1, <1>5, <2>2 DEF ClosedAvoiding, Preds
  <2>4. p \in T
    BY <1>2, <1>5, <2>2, <2>3
  <2>5. QED
    BY <1>2, <1>4, <1>5, <2>2, <2>4
<1>8. QED
  BY <1>6, <1>7

(* Finger a, below finger b, may climb: no dominator of the current block   *)
(* lies on a itself.                                                        *)
LEMMA ClimbPassesNone ==
  ASSUME IInv, OptimalInv, pc = "meet", NEW c \in Blocks,
         NEW a \in Blocks, idom[a] # Null, NEW b \in Blocks, idom[b] # Null,
         postOrderId[a] < postOrderId[b], NonePassed(c, a), NonePassed(c, b)
  PROVE  NonePassed(c, idom[a])
<1> USE DEF IInv
<1>1. a \in Numbered /\ b \in Numbered /\ Numbered \subseteq Blocks
  BY NumbersDistinct DEF IdomInv
<1>2. \A y \in Numbered : postOrderId[y] \in Nat
  BY <1>1, NumbersDistinct DEF TypeOK
<1>3. a # Entry
  <2>1. Len(postOrder) > 0 /\ postOrder[Len(postOrder)] = Entry
    BY DEF StackInv
  <2>2. postOrderId[Entry] = Len(postOrder) - 1
    <3>1. Len(postOrder) \in 1..Len(postOrder)
      BY <2>1 DEF TypeOK
    <3> HIDE DEF IInv
    <3>2. NumberInv
      BY DEF IInv
    <3>3. QED
      BY <2>1, <3>1, <3>2 DEF NumberInv
  <2>3. postOrderId[b] \in 0..(Len(postOrder) - 1) /\ Len(postOrder) \in Nat
    BY <1>1, NumbersDistinct DEF TypeOK
  <2>4. QED
    BY <1>2, <1>1, <2>2, <2>3
<1> SUFFICES ASSUME NEW e \in Blocks, StrictlyDominates(succ, e, c)
             PROVE  Dominates(succ, e, idom[a])
  BY DEF NonePassed
<1>4. Dominates(succ, e, a) /\ Dominates(succ, e, b)
  BY DEF NonePassed
<1>5. e # a
  <2> SUFFICES ASSUME e = a PROVE FALSE
    OBVIOUS
  <2>1. postOrderId[b] <= postOrderId[a]
    BY <1>1, <1>4, DominatorNumber
  <2>2. QED
    BY <1>1, <1>2, <2>1
<1>6. QED
  BY <1>3, <1>4, <1>5 DEF OptimalInv, NonePassed, StrictlyDominates

(****************************************************************************)
(* OptimalInv                                                               *)
(****************************************************************************)
LEMMA InitOptimal == Init => OptimalInv
  BY DEF Init, OptimalInv

LEMMA VisitOptimal ==
  ASSUME IInv, VisitSuccessor \/ LeaveBlock \/ StartIdom PROVE OptimalInv'
<1>1. CASE VisitSuccessor \/ LeaveBlock
  BY <1>1 DEF IInv, IdomInv, VisitSuccessor, LeaveBlock, OptimalInv, idomVars
<1>2. CASE StartIdom
  BY <1>2 DEF StartIdom, OptimalInv
<1>3. QED
  BY <1>1, <1>2

(* Steps that change neither the idoms nor the fold *)
LEMMA QuietOptimal ==
  ASSUME OptimalInv, UNCHANGED <<succ, idom>>, pc' \notin {"fold", "meet"}
  PROVE  OptimalInv'
  BY DEF OptimalInv, NonePassed

LEMMA PickPredOptimal == ASSUME IInv, OptimalInv, PickPred PROVE OptimalInv'
<1>1. PICK p \in Processed(Current) :
        newIdom' = p /\ rest' = Processed(Current) \ {p}
  BY DEF PickPred
<1>2. /\ pc' = "fold" /\ UNCHANGED <<succ, idom, pos, postOrder>> /\ pos \in 1..Len(postOrder)
  BY DEF PickPred, graphVars, visitVars, IInv, TypeOK
<1>3. Current \in Blocks /\ Current' = Current /\ Processed(Current)' = Processed(Current)
  BY <1>2 DEF Current, IInv, TypeOK, Processed, Preds
<1>4. NonePassed(Current, p)
  BY <1>3, DominatesPredecessor DEF NonePassed, Processed
<1>5. QED
  BY <1>1, <1>2, <1>3, <1>4 DEF OptimalInv, NonePassed

LEMMA StartIntersectOptimal ==
  ASSUME IInv, OptimalInv, StartIntersect PROVE OptimalInv'
<1>1. PICK p \in rest : b1' = p /\ rest' = rest \ {p}
  BY DEF StartIntersect
<1>2. /\ pc = "fold" /\ pc' = "meet" /\ b2' = newIdom
      /\ UNCHANGED <<succ, idom, pos, postOrder, newIdom>> /\ pos \in 1..Len(postOrder)
  BY DEF StartIntersect, graphVars, visitVars, IInv, FingersOK
<1>3. Current \in Blocks /\ Current' = Current /\ Processed(Current)' = Processed(Current)
  BY <1>2 DEF Current, IInv, TypeOK, Processed, Preds
<1>4. rest \subseteq Processed(Current) /\ NonePassed(Current, newIdom)
  BY <1>2 DEF OptimalInv
<1>5. NonePassed(Current, p)
  BY <1>1, <1>3, <1>4, DominatesPredecessor DEF NonePassed, Processed
<1>6. QED
  BY <1>1, <1>2, <1>3, <1>4, <1>5 DEF OptimalInv, NonePassed

LEMMA RaiseOptimal ==
  ASSUME IInv, OptimalInv, RaiseB1 \/ RaiseB2 PROVE OptimalInv'
<1>1. /\ pc = "meet" /\ pc' = "meet"
      /\ UNCHANGED <<succ, idom, pos, postOrder, newIdom, rest>>
  BY DEF RaiseB1, RaiseB2, graphVars, visitVars
<1>2. /\ b1 \in Blocks /\ idom[b1] # Null /\ b2 \in Blocks /\ idom[b2] # Null
      /\ pos \in 1..Len(postOrder)
  BY <1>1 DEF IInv, FingersOK
<1>3. Current \in Blocks /\ Current' = Current /\ Processed(Current)' = Processed(Current)
  BY <1>1, <1>2 DEF Current, IInv, TypeOK, Processed, Preds
<1>4. NonePassed(Current, b1) /\ NonePassed(Current, b2)
  BY <1>1 DEF OptimalInv
<1>5. NonePassed(Current, b1') /\ NonePassed(Current, b2')
  <2>1. CASE RaiseB1
    BY <2>1, <1>1, <1>2, <1>3, <1>4, ClimbPassesNone DEF RaiseB1
  <2>2. CASE RaiseB2
    BY <2>2, <1>1, <1>2, <1>3, <1>4, ClimbPassesNone DEF RaiseB2
  <2>3. QED
    BY <2>1, <2>2
<1>6. QED
  BY <1>1, <1>3, <1>5 DEF OptimalInv, NonePassed

LEMMA EndIntersectOptimal ==
  ASSUME IInv, OptimalInv, EndIntersect PROVE OptimalInv'
<1>1. /\ pc = "meet" /\ pc' = "fold" /\ newIdom' = b1
      /\ UNCHANGED <<succ, idom, pos, postOrder, rest>>
  BY DEF EndIntersect, graphVars, visitVars
<1>2. Current' = Current /\ Processed(Current)' = Processed(Current)
  BY <1>1 DEF Current, Processed, Preds
<1>3. QED
  BY <1>1, <1>2 DEF OptimalInv, NonePassed

LEMMA SetIdomOptimal == ASSUME IInv, OptimalInv, SetIdom PROVE OptimalInv'
<1>1. /\ pc = "fold" /\ pc' = "scan" /\ UNCHANGED succ
      /\ idom' = [idom EXCEPT ![Current] = newIdom]
      /\ idom \in [Blocks -> MaybeBlock] /\ NonePassed(Current, newIdom)
  BY DEF SetIdom, graphVars, IInv, TypeOK, OptimalInv
<1>2. QED
  BY <1>1 DEF OptimalInv, NonePassed

LEMMA NextOptimal == ASSUME IInv, OptimalInv, [Next]_vars PROVE OptimalInv'
<1>1. CASE SkipRoot \/ Resweep \/ StartFrontier \/ PickJoin \/ Climb \/ EndClimb
           \/ CreateDomTree
  BY <1>1, QuietOptimal DEF SkipRoot, Resweep, StartFrontier, PickJoin, Climb, EndClimb,
     CreateDomTree, graphVars, idomVars
<1>2. CASE UNCHANGED vars
  BY <1>2 DEF vars, graphVars, visitVars, idomVars, OptimalInv, NonePassed, Processed,
     Preds, Current
<1>3. QED
  BY <1>1, <1>2, VisitOptimal, PickPredOptimal, StartIntersectOptimal, RaiseOptimal,
     EndIntersectOptimal, SetIdomOptimal DEF Next, Finished

(****************************************************************************)
(* The tree of idoms                                                        *)
(****************************************************************************)
LEMMA AncestorSelf == \A x : Ancestor(x, x)
  BY DEF Ancestor

LEMMA AncestorOfIdom ==
  ASSUME NEW x \in Blocks, idom[x] # Null PROVE Ancestor(idom[x], x)
  BY DEF Ancestor

LEMMA AncestorTransitive ==
  ASSUME NEW a, NEW b, NEW c, Ancestor(a, b), Ancestor(b, c) PROVE Ancestor(a, c)
  BY DEF Ancestor

(* A proper ancestor is an ancestor of the idom. *)
LEMMA AncestorBelow ==
  ASSUME NEW d, NEW y \in Blocks, y # d, idom[y] # Null, Ancestor(d, y)
  PROVE  Ancestor(d, idom[y])
<1> SUFFICES ASSUME NEW S \in SUBSET Blocks, idom[y] \in S,
                    \A z \in S : idom[z] # Null => idom[z] \in S
             PROVE  d \in S
  BY DEF Ancestor
<1>1. S \cup {y} \in SUBSET Blocks /\ y \in S \cup {y}
  OBVIOUS
<1>2. \A z \in S \cup {y} : idom[z] # Null => idom[z] \in S \cup {y}
  OBVIOUS
<1>3. d \in S \cup {y}
  BY <1>1, <1>2 DEF Ancestor
<1>4. QED
  BY <1>3

(* The blocks the sweeps work on: closed under the edges and the idoms. *)
LEMMA NumberedClosed ==
  ASSUME IInv, pc # "visit", \A x \in Numbered : idom[x] # Null
  PROVE  /\ Numbered \subseteq Blocks
         /\ \A x \in Numbered : succ[x] \subseteq Numbered
         /\ succ \in [Blocks -> SUBSET (Blocks \ {Entry})]
         /\ idom[Entry] = Entry
         /\ \A x \in Numbered : idom[x] \in Numbered
         /\ Entry \in Numbered
<1>1. OnStack = {} /\ visited = Numbered
  BY DEF IInv, StackInv, OnStack
<1>2. Numbered \subseteq Blocks /\ succ \in [Blocks -> SUBSET (Blocks \ {Entry})]
  BY NumbersDistinct DEF IInv, TypeOK
<1>3. \A x \in Numbered : succ[x] \subseteq Numbered
  BY <1>1 DEF IInv, NumberInv
<1>4. idom[Entry] = Entry /\ \A x \in Numbered : idom[x] \in Numbered
  BY <1>2 DEF IInv, IdomInv
<1>5. Entry \in Numbered
  BY <1>4, EntryAssumption, NullAssumption DEF IInv, IdomInv
<1>6. QED
  BY <1>2, <1>3, <1>4, <1>5

(* If the idom of every block is an ancestor of all its predecessors, every *)
(* ancestor of a block dominates it: what is not below the ancestor is      *)
(* closed under the edges that avoid it.                                    *)
LEMMA AncestorDominates ==
  ASSUME IInv, pc # "visit", \A x \in Numbered : idom[x] # Null,
         \A x \in Numbered \ {Entry} : Covers(x),
         NEW b \in Numbered, NEW d \in Blocks, Ancestor(d, b)
  PROVE  Dominates(succ, d, b)
<1> DEFINE S == {x \in Numbered : ~Ancestor(d, x)}
<1>1. /\ Numbered \subseteq Blocks
      /\ \A x \in Numbered : succ[x] \subseteq Numbered
      /\ succ \in [Blocks -> SUBSET (Blocks \ {Entry})]
      /\ idom[Entry] = Entry
      /\ Entry \in Numbered
  BY NumberedClosed
<1>2. S \subseteq Blocks \ {d}
  BY <1>1, AncestorSelf
<1>3. Entry \in S \cup {d}
  <2> SUFFICES ASSUME Ancestor(d, Entry) PROVE d = Entry
    BY <1>1
  <2>1. \A y \in {Entry} : idom[y] # Null => idom[y] \in {Entry}
    BY <1>1
  <2>2. d \in {Entry}
    BY <2>1, EntryAssumption DEF Ancestor
  <2>3. QED
    BY <2>2
<1>4. ASSUME NEW x \in S, NEW y \in succ[x] \ {d} PROVE y \in S
  <2>1. /\ x \in Numbered /\ y \in Numbered /\ y \in Blocks /\ y # Entry
        /\ x \in Preds(succ, y) /\ idom[y] # Null /\ idom[x] # Null
    BY <1>1 DEF Preds
  <2>2. Ancestor(idom[y], x)
    BY <2>1 DEF Covers, Processed
  <2> SUFFICES ASSUME Ancestor(d, y) PROVE FALSE
    BY <2>1
  <2>3. Ancestor(d, idom[y])
    BY <2>1, AncestorBelow
  <2>4. Ancestor(d, x)
    BY <2>2, <2>3, AncestorTransitive
  <2>5. QED
    BY <2>4
<1>5. b \notin S
  OBVIOUS
<1> HIDE DEF S
<1>6. ClosedAvoiding(succ, d, S)
  BY <1>4 DEF ClosedAvoiding
<1>7. QED
  BY <1>2, <1>3, <1>5, <1>6 DEF Dominates

LEMMA CoveredDominates ==
  ASSUME IInv, pc # "visit", \A x \in Numbered : idom[x] # Null,
         \A x \in Numbered \ {Entry} : Covers(x),
         NEW b \in Numbered \ {Entry}
  PROVE  StrictlyDominates(succ, idom[b], b)
<1>1. b \in Blocks /\ idom[b] \in Blocks /\ idom[b] # Null
  BY NumberedClosed
<1>2. Dominates(succ, idom[b], b)
  BY <1>1, AncestorOfIdom, AncestorDominates
<1>3. postOrderId[b] < postOrderId[idom[b]] /\ postOrderId[b] \in Nat
  BY <1>1 DEF IInv, IdomInv, TypeOK
<1>4. idom[b] # b
  BY <1>3
<1>5. QED
  BY <1>2, <1>4 DEF StrictlyDominates

(****************************************************************************)
(* SoundInv                                                                 *)
(****************************************************************************)
LEMMA InitSound == Init => SoundInv
  BY DEF Init, SoundInv

LEMMA AncestorStays ==
  ASSUME UNCHANGED <<succ, idom>>
  PROVE  /\ \A d, x : Ancestor(d, x)' <=> Ancestor(d, x)
         /\ \A b : Covers(b)' <=> Covers(b)
         /\ \A b : Processed(b)' = Processed(b)
<1>1. \A d, x : Ancestor(d, x)' <=> Ancestor(d, x)
  BY DEF Ancestor
<1>2. \A b : Processed(b)' = Processed(b)
  BY DEF Processed, Preds
<1>3. QED
  BY <1>1, <1>2 DEF Covers

LEMMA VisitSound ==
  ASSUME IInv, SoundInv, VisitSuccessor \/ LeaveBlock \/ StartIdom PROVE SoundInv'
<1>1. CASE VisitSuccessor \/ LeaveBlock
  BY <1>1 DEF VisitSuccessor, LeaveBlock, SoundInv
<1>2. CASE StartIdom
  <2>1. /\ pc' = "scan" /\ pos' = Len(postOrder) /\ UNCHANGED postOrder
        /\ Len(postOrder) \in Nat
    BY <1>2 DEF StartIdom, visitVars, IInv, TypeOK
  <2>2. QED
    BY <2>1 DEF SoundInv
<1>3. QED
  BY <1>1, <1>2

LEMMA SkipRootSound == ASSUME IInv, SoundInv, SkipRoot PROVE SoundInv'
<1>1. /\ pc = "scan" /\ pc' = "scan" /\ postOrder[pos] = Entry /\ pos' = pos - 1
      /\ UNCHANGED <<succ, idom, changed, postOrder>> /\ pos \in 0..Len(postOrder)
  BY DEF SkipRoot, Current, graphVars, visitVars, IInv, TypeOK
<1>2. QED
  BY <1>1, AncestorStays DEF SoundInv

LEMMA PickPredSound == ASSUME IInv, SoundInv, PickPred PROVE SoundInv'
<1>1. PICK p \in Processed(Current) :
        newIdom' = p /\ rest' = Processed(Current) \ {p}
  BY DEF PickPred
<1>2. pc = "scan" /\ pc' = "fold" /\ UNCHANGED <<succ, idom, pos, changed, postOrder>>
  BY DEF PickPred, graphVars, visitVars
<1>3. Current' = Current /\ Processed(Current') = Processed(Current)
  BY <1>2 DEF Current
<1>4. /\ \A q \in Processed(Current)' \ rest' : Ancestor(newIdom', q)
      /\ \A d, x : Ancestor(d, x)' <=> Ancestor(d, x)
      /\ Processed(Current)' = Processed(Current)
  BY <1>1, <1>2, <1>3, AncestorStays, AncestorSelf
<1>5. \A q \in Processed(Current)' \ rest' : Ancestor(newIdom, q)'
  BY <1>4, <1>2 DEF Ancestor
<1>6. QED
  BY <1>2, <1>5, AncestorStays DEF SoundInv

LEMMA StartIntersectSound ==
  ASSUME IInv, SoundInv, StartIntersect PROVE SoundInv'
<1>1. PICK p \in rest : b1' = p /\ rest' = rest \ {p}
  BY DEF StartIntersect
<1>2. /\ pc = "fold" /\ pc' = "meet" /\ b2' = newIdom
      /\ UNCHANGED <<succ, idom, pos, changed, postOrder>>
  BY DEF StartIntersect, graphVars, visitVars
<1>3. Processed(Current)' = Processed(Current)
  BY <1>2 DEF Current, Processed, Preds
<1>4. \A q \in Processed(Current) \ rest' : Ancestor(p, q) \/ Ancestor(newIdom, q)
  BY <1>1, <1>2, AncestorSelf DEF SoundInv
<1>5. \A q \in Processed(Current)' \ rest' : Ancestor(b1, q)' \/ Ancestor(b2, q)'
  BY <1>1, <1>2, <1>3, <1>4 DEF Ancestor
<1>6. QED
  BY <1>2, <1>5, AncestorStays DEF SoundInv

LEMMA RaiseSound == ASSUME IInv, SoundInv, RaiseB1 \/ RaiseB2 PROVE SoundInv'
<1>1. /\ pc = "meet" /\ pc' = "meet"
      /\ UNCHANGED <<succ, idom, pos, changed, postOrder, rest>>
      /\ (b1' = idom[b1] /\ b2' = b2) \/ (b1' = b1 /\ b2' = idom[b2])
  BY DEF RaiseB1, RaiseB2, graphVars, visitVars
<1>2. b1 \in Blocks /\ idom[b1] # Null /\ b2 \in Blocks /\ idom[b2] # Null
  BY <1>1 DEF IInv, FingersOK
<1>3. Processed(Current)' = Processed(Current)
  BY <1>1 DEF Current, Processed, Preds
<1>4. ASSUME NEW q \in Processed(Current) \ rest
      PROVE  Ancestor(b1', q) \/ Ancestor(b2', q)
  <2>1. Ancestor(b1, q) \/ Ancestor(b2, q)
    BY <1>1 DEF SoundInv
  <2>2. Ancestor(idom[b1], b1) /\ Ancestor(idom[b2], b2)
    BY <1>2, AncestorOfIdom
  <2>3. /\ Ancestor(b1, q) => Ancestor(idom[b1], q)
        /\ Ancestor(b2, q) => Ancestor(idom[b2], q)
    BY <2>2, AncestorTransitive
  <2>4. QED
    BY <1>1, <2>1, <2>3
<1>5. \A q \in Processed(Current)' \ rest' : Ancestor(b1, q)' \/ Ancestor(b2, q)'
  BY <1>1, <1>3, <1>4 DEF Ancestor
<1>6. QED
  BY <1>1, <1>5, AncestorStays DEF SoundInv

LEMMA EndIntersectSound == ASSUME IInv, SoundInv, EndIntersect PROVE SoundInv'
<1>1. /\ pc = "meet" /\ pc' = "fold" /\ newIdom' = b1 /\ b1 = b2
      /\ UNCHANGED <<succ, idom, pos, changed, postOrder, rest>>
  BY DEF EndIntersect, graphVars, visitVars
<1>2. Processed(Current)' = Processed(Current)
  BY <1>1 DEF Current, Processed, Preds
<1>3. \A q \in Processed(Current)' \ rest' : Ancestor(newIdom, q)'
  BY <1>1, <1>2 DEF SoundInv, Ancestor
<1>4. QED
  BY <1>1, <1>3, AncestorStays DEF SoundInv

(* Nothing has changed in the sweep so far, so the idom of the current      *)
(* block is the result of the fold already.                                 *)
LEMMA SetIdomSound == ASSUME IInv, SoundInv, SetIdom PROVE SoundInv'
<1>1. /\ pc = "fold" /\ pc' = "scan" /\ rest = {} /\ pos' = pos - 1
      /\ idom' = [idom EXCEPT ![Current] = newIdom]
      /\ changed' = (changed \/ idom[Current] # newIdom)
      /\ UNCHANGED <<succ, postOrder>> /\ pos \in 1..Len(postOrder)
      /\ idom \in [Blocks -> MaybeBlock] /\ Current \in Blocks
  BY DEF SetIdom, graphVars, visitVars, IInv, TypeOK, FingersOK, Current
<1>2. CASE changed'
  BY <1>1, <1>2 DEF SoundInv
<1>3. CASE ~changed'
  <2>1. /\ ~changed /\ idom[Current] = newIdom
        /\ idom' = idom /\ Current = postOrder[pos]
    BY <1>1, <1>3 DEF Current
  <2>2. Covers(Current)
    BY <1>1, <2>1 DEF SoundInv, Covers
  <2>3. \A i \in (pos + 1)..Len(postOrder) : postOrder[i] # Entry => Covers(postOrder[i])
    BY <1>1, <2>1 DEF SoundInv
  <2>4. \A i \in pos..Len(postOrder) : postOrder[i] # Entry => Covers(postOrder[i])
    BY <1>1, <2>1, <2>2, <2>3
  <2>5. \A b : Covers(b)' <=> Covers(b)
    BY <1>1, <2>1, AncestorStays
  <2>6. pos' + 1 = pos
    BY <1>1
  <2>7. QED
    BY <1>1, <2>4, <2>5, <2>6 DEF SoundInv
<1>4. QED
  BY <1>2, <1>3

LEMMA ResweepSound == ASSUME IInv, SoundInv, Resweep PROVE SoundInv'
<1>1. /\ pc' = "scan" /\ pos' = Len(postOrder) /\ UNCHANGED postOrder
      /\ Len(postOrder) \in Nat
  BY DEF Resweep, visitVars, IInv, TypeOK
<1>2. QED
  BY <1>1 DEF SoundInv

LEMMA StartFrontierSound == ASSUME IInv, SoundInv, StartFrontier PROVE SoundInv'
<1>1. /\ pc = "scan" /\ pc' = "joins" /\ pos = 0 /\ ~changed
      /\ UNCHANGED <<succ, idom, postOrder>>
  BY DEF StartFrontier, graphVars, visitVars, idomVars
<1>2. \A b \in Numbered \ {Entry} : Covers(b)
  BY <1>1 DEF SoundInv, Numbered
<1>3. Numbered' = Numbered
  BY <1>1 DEF Numbered
<1>4. \A b : Covers(b)' <=> Covers(b)
  BY <1>1, AncestorStays
<1>5. QED
  BY <1>1, <1>2, <1>3, <1>4 DEF SoundInv

LEMMA FrontierSound ==
  ASSUME SoundInv, PickJoin \/ Climb \/ EndClimb \/ CreateDomTree PROVE SoundInv'
<1>1. /\ pc \in {"joins", "climb"} /\ pc' \in {"joins", "climb", "done"}
      /\ UNCHANGED <<succ, idom, postOrder>>
  BY DEF PickJoin, Climb, EndClimb, CreateDomTree, graphVars, visitVars, idomVars
<1>2. Numbered' = Numbered
  BY <1>1 DEF Numbered
<1>3. \A b : Covers(b)' <=> Covers(b)
  BY <1>1, AncestorStays
<1>4. QED
  BY <1>1, <1>2, <1>3 DEF SoundInv

LEMMA StutterSound == ASSUME SoundInv, UNCHANGED vars PROVE SoundInv'
<1>1. UNCHANGED <<succ, pc, idom, postOrder, pos, changed, rest, newIdom, b1, b2>>
  BY DEF vars, graphVars, visitVars, idomVars
<1>2. Numbered' = Numbered /\ Processed(Current)' = Processed(Current)
  BY <1>1 DEF Numbered, Processed, Current, Preds
<1>3. /\ \A b : Covers(b)' <=> Covers(b)
      /\ \A x : Ancestor(newIdom, x)' <=> Ancestor(newIdom, x)
      /\ \A x : Ancestor(b1, x)' <=> Ancestor(b1, x)
      /\ \A x : Ancestor(b2, x)' <=> Ancestor(b2, x)
  BY <1>1, AncestorStays DEF Ancestor
<1>4. QED
  BY <1>1, <1>2, <1>3 DEF SoundInv

LEMMA NextSound == ASSUME IInv, SoundInv, [Next]_vars PROVE SoundInv'
  BY VisitSound, SkipRootSound, PickPredSound, StartIntersectSound, RaiseSound,
     EndIntersectSound, SetIdomSound, ResweepSound, StartFrontierSound, FrontierSound,
     StutterSound DEF Next, Finished

(* After the visit the numbered blocks are the reachable ones. *)
LEMMA NumberedReachable ==
  ASSUME IInv, pc # "visit" PROVE Numbered = Reachable(succ)
<1>1. OnStack = {} /\ visited = Numbered
  BY DEF IInv, StackInv, OnStack
<1>2. Entry \in Numbered /\ Numbered \subseteq Blocks
  BY EntryAssumption, NullAssumption, NumbersDistinct DEF IInv, IdomInv
<1>3. Reachable(succ) \subseteq Numbered
  BY <1>1, <1>2 DEF IInv, NumberInv, Reachable
<1>4. QED
  BY <1>1, <1>3 DEF IInv, NumberInv

(****************************************************************************)
(* The theorems                                                             *)
(****************************************************************************)
(* Both halves hold in every state of the pass. *)
THEOREM TreeInvariance == Spec => []TreeInv
<1>1. Init => OptimalInv /\ SoundInv
  BY InitOptimal, InitSound
<1>2. IInv /\ (OptimalInv /\ SoundInv) /\ [Next]_vars => (OptimalInv /\ SoundInv)'
  BY NextOptimal, NextSound
<1>3. IInv /\ (OptimalInv /\ SoundInv) => TreeInv
  BY DEF TreeInv
<1>4. QED
  BY <1>1, <1>2, <1>3, Invariance, PTL DEF Spec

(* When create_idom has ended, idom_ gives every reachable block its        *)
(* immediate dominator and the other blocks nullptr (Dominators.cpp, lines  *)
(* 85-127), on every graph and for every order of the block lists.          *)
THEOREM IdomsAreImmediateDominators == Spec => []IdomIsImmediateDominator
<1>1. ASSUME TreeInv PROVE IdomIsImmediateDominator
  <2> USE <1>1 DEF TreeInv
  <2> SUFFICES ASSUME pc \in {"joins", "climb", "done"}
               PROVE  /\ idom[Entry] = Entry
                      /\ \A b \in Reachable(succ) \ {Entry} :
                            IsImmediateDominator(succ, idom[b], b)
                      /\ \A b \in Blocks \ Reachable(succ) : idom[b] = Null
    BY DEF IdomIsImmediateDominator
  <2>1. Numbered = Reachable(succ)
    BY NumberedReachable DEF IInv, IdomInv
  <2>2. /\ idom[Entry] = Entry
        /\ \A b \in Numbered : idom[b] # Null
        /\ \A b \in Blocks : idom[b] # Null => b \in Numbered
        /\ Numbered \subseteq Blocks
    BY NumbersDistinct DEF IInv, IdomInv
  <2>3. ASSUME NEW b \in Numbered \ {Entry} PROVE IsImmediateDominator(succ, idom[b], b)
    <3>1. StrictlyDominates(succ, idom[b], b)
      BY <2>2, CoveredDominates DEF SoundInv
    <3>2. NonePassed(b, idom[b])
      BY <2>2 DEF OptimalInv
    <3>3. QED
      BY <3>1, <3>2 DEF IsImmediateDominator, NonePassed
  <2>4. QED
    BY <2>1, <2>2, <2>3
<1>2. QED
  BY <1>1, TreeInvariance, PTL

(****************************************************************************)
(* The dominance frontiers                                                  *)
(****************************************************************************)
(* What the pass knows of the graph when create_idom has ended. *)
TreeDone == IInv /\ OptimalInv /\ SoundInv /\ pc \in {"joins", "climb", "done"}

LEMMA TreeDoneFacts ==
  ASSUME TreeDone
  PROVE  /\ \A x \in Numbered : idom[x] # Null /\ idom[x] \in Numbered
         /\ \A x \in Numbered \ {Entry} : Covers(x)
         /\ \A x \in Numbered : succ[x] \subseteq Numbered
         /\ Numbered = Reachable(succ) /\ Numbered \subseteq Blocks
         /\ succ \in [Blocks -> SUBSET (Blocks \ {Entry})]
         /\ idom[Entry] = Entry /\ Entry \in Numbered
<1>1. pc # "visit" /\ IInv /\ SoundInv
  BY DEF TreeDone
<1>2. \A x \in Numbered : idom[x] # Null
  BY DEF TreeDone, IInv, IdomInv
<1>3. \A x \in Numbered \ {Entry} : Covers(x)
  BY DEF TreeDone, SoundInv
<1>4. QED
  BY <1>1, <1>2, <1>3, NumberedClosed, NumberedReachable

(* The idom of a join is an ancestor of each of its predecessors. *)
LEMMA IdomAbovePreds ==
  ASSUME TreeDone, NEW y \in Blocks, NEW p \in Preds(succ, y) \cap Numbered
  PROVE  y \in Numbered \ {Entry} /\ Ancestor(idom[y], p)
<1>1. y \in Numbered /\ y # Entry
  BY TreeDoneFacts DEF Preds
<1>2. p \in Processed(y) /\ Covers(y)
  BY <1>1, TreeDoneFacts DEF Processed
<1>3. QED
  BY <1>1, <1>2 DEF Covers

LEMMA RootIsAncestor ==
  ASSUME TreeDone, NEW x \in Numbered PROVE Ancestor(Entry, x)
<1> SUFFICES ASSUME NEW S \in SUBSET Blocks, x \in S,
                    \A y \in S : idom[y] # Null => idom[y] \in S
             PROVE  Entry \in S
  BY DEF Ancestor
<1>1. TypeOK /\ NumberInv /\ IdomInv
  BY DEF TreeDone, IInv
<1>2. PICK y \in S \cap Numbered : \A z \in S \cap Numbered : postOrderId[z] <= postOrderId[y]
  BY <1>1, Highest
<1>3. y \in Blocks /\ idom[y] \in S \cap Numbered
  BY TreeDoneFacts
<1>4. y # Entry => postOrderId[y] < postOrderId[idom[y]]
  BY <1>1, <1>3, TreeDoneFacts DEF IdomInv
<1>5. postOrderId[y] \in Nat /\ postOrderId[idom[y]] \in Nat
  BY <1>1, <1>3, TreeDoneFacts DEF TypeOK
<1>6. postOrderId[idom[y]] <= postOrderId[y]
  BY <1>2, <1>3
<1>7. y = Entry
  BY <1>4, <1>5, <1>6
<1>8. QED
  BY <1>7

(* A proper ancestor is numbered above the block. *)
LEMMA AncestorNumber ==
  ASSUME TreeDone, NEW x \in Numbered, NEW d, Ancestor(d, x), d # x
  PROVE  d \in Numbered /\ postOrderId[x] < postOrderId[d]
<1>1. TypeOK /\ NumberInv /\ IdomInv
  BY DEF TreeDone, IInv
<1>2. x # Entry
  <2> SUFFICES ASSUME x = Entry PROVE FALSE
    OBVIOUS
  <2>1. \A y \in {Entry} : idom[y] # Null => idom[y] \in {Entry}
    BY TreeDoneFacts
  <2>2. d \in {Entry}
    BY <2>1, EntryAssumption DEF Ancestor
  <2>3. QED
    BY <2>2
<1>3. /\ x \in Blocks /\ idom[x] \in Numbered /\ idom[x] # Null
      /\ postOrderId[x] < postOrderId[idom[x]]
  BY <1>1, <1>2, TreeDoneFacts DEF IdomInv
<1>4. Ancestor(d, idom[x])
  BY <1>3, AncestorBelow
<1> DEFINE S == {y \in Numbered : postOrderId[idom[x]] <= postOrderId[y]}
<1>5. S \in SUBSET Blocks
  BY TreeDoneFacts
<1>6. \A y \in Numbered : postOrderId[y] \in Nat
  BY <1>1, TreeDoneFacts DEF TypeOK
<1>7. idom[x] \in S
  BY <1>3, <1>6
<1>8. ASSUME NEW y \in S PROVE idom[y] \in S
  <2>1. CASE y = Entry
    BY <2>1, TreeDoneFacts
  <2>2. CASE y # Entry
    <3>1. y \in Numbered /\ y \in Blocks /\ idom[y] # Null /\ idom[y] \in Numbered
      BY TreeDoneFacts
    <3>2. postOrderId[y] < postOrderId[idom[y]]
      BY <1>1, <2>2, <3>1 DEF IdomInv
    <3>3. postOrderId[idom[x]] <= postOrderId[y]
      OBVIOUS
    <3>4. postOrderId[idom[x]] <= postOrderId[idom[y]]
      BY <1>3, <1>6, <3>1, <3>2, <3>3
    <3>5. QED
      BY <3>1, <3>4
  <2>3. QED
    BY <2>1, <2>2
<1>9. d \in S
  BY <1>4, <1>5, <1>7, <1>8 DEF Ancestor
<1>10. QED
  BY <1>3, <1>6, <1>9

(* Dominators and ancestors are the same. *)
LEMMA DominatorIsAncestor ==
  ASSUME TreeDone, NEW e \in Blocks, NEW x \in Numbered, Dominates(succ, e, x)
  PROVE  Ancestor(e, x)
<1> SUFFICES ASSUME NEW S \in SUBSET Blocks, x \in S,
                    \A y \in S : idom[y] # Null => idom[y] \in S,
                    e \notin S
             PROVE  FALSE
  BY DEF Ancestor
<1> DEFINE D == {y \in S : y \in Numbered /\ Dominates(succ, e, y)}
<1>1. x \in D /\ D \in SUBSET Blocks
  OBVIOUS
<1>2. ASSUME NEW y \in D PROVE idom[y] \in D
  <2>1. /\ y \in Blocks /\ idom[y] \in S /\ idom[y] \in Numbered /\ idom[y] # Null
        /\ StrictlyDominates(succ, e, y)
    BY TreeDoneFacts DEF StrictlyDominates
  <2>2. CASE y = Entry
    BY <2>2, TreeDoneFacts
  <2>3. CASE y # Entry
    <3>1. NonePassed(y, idom[y])
      BY <2>1, <2>3 DEF TreeDone, OptimalInv
    <3>2. Dominates(succ, e, idom[y])
      BY <2>1, <3>1 DEF NonePassed
    <3>3. QED
      BY <2>1, <3>2
  <2>4. QED
    BY <2>2, <2>3
<1>3. Entry \in D
  BY <1>1, <1>2, RootIsAncestor DEF Ancestor
<1>4. Dominates(succ, e, Entry) /\ Entry # e
  BY <1>3
<1>5. PICK W \in SUBSET (Blocks \ {e}) : Entry \in W \cup {e} /\ Entry \notin W
  BY <1>4 DEF Dominates
<1>6. QED
  BY <1>4, <1>5

(* No ancestor of the idom of y ends its dominance at y. *)
LEMMA AboveIdomNotFrontier ==
  ASSUME TreeDone, NEW y \in Numbered \ {Entry}, NEW b \in Blocks, Ancestor(b, idom[y])
  PROVE  StrictlyDominates(succ, b, y)
<1>1. y \in Blocks /\ idom[y] # Null /\ idom[y] \in Numbered
  BY TreeDoneFacts
<1>2. Ancestor(idom[y], y)
  BY <1>1, AncestorOfIdom
<1>3. Ancestor(b, y)
  BY <1>2, AncestorTransitive
<1>4. Dominates(succ, b, y)
  BY <1>1, <1>3, TreeDoneFacts, AncestorDominates DEF TreeDone
<1>5. postOrderId[y] < postOrderId[idom[y]]
  BY <1>1 DEF TreeDone, IInv, IdomInv
<1>6. postOrderId[y] \in Nat /\ postOrderId[idom[y]] \in Nat
  BY <1>1, TreeDoneFacts DEF TreeDone, IInv, TypeOK
<1>7. b # y
  <2> SUFFICES ASSUME b = y PROVE FALSE
    OBVIOUS
  <2>1. y # idom[y]
    BY <1>5, <1>6
  <2>2. postOrderId[idom[y]] < postOrderId[y]
    BY <1>1, <2>1, AncestorNumber
  <2>3. QED
    BY <1>5, <1>6, <2>2
<1>8. QED
  BY <1>4, <1>7 DEF StrictlyDominates

(* A block between a predecessor of y and the idom of y has y in its        *)
(* frontier.                                                                *)
LEMMA BelowIdomIsFrontier ==
  ASSUME TreeDone, NEW y \in Numbered \ {Entry}, NEW p \in Preds(succ, y) \cap Numbered,
         NEW x \in Numbered, Ancestor(x, p), Ancestor(idom[y], x), x # idom[y]
  PROVE  y \in Frontier(succ, x)
<1>1. x \in Blocks /\ y \in Blocks /\ idom[y] \in Numbered /\ idom[y] # Null
  BY TreeDoneFacts
<1>2. Dominates(succ, x, p)
  BY <1>1, TreeDoneFacts, AncestorDominates DEF TreeDone
<1>3. ~StrictlyDominates(succ, x, y)
  <2> SUFFICES ASSUME StrictlyDominates(succ, x, y) PROVE FALSE
    OBVIOUS
  <2>1. NonePassed(y, idom[y])
    BY <1>1 DEF TreeDone, OptimalInv
  <2>2. Dominates(succ, x, idom[y])
    BY <1>1, <2>1 DEF NonePassed
  <2>3. postOrderId[idom[y]] <= postOrderId[x]
    BY <1>1, <2>2, DominatorNumber DEF TreeDone
  <2>4. postOrderId[x] < postOrderId[idom[y]]
    BY AncestorNumber
  <2>5. postOrderId[x] \in Nat /\ postOrderId[idom[y]] \in Nat
    BY <1>1, TreeDoneFacts DEF TreeDone, IInv, TypeOK
  <2>6. QED
    BY <2>3, <2>4, <2>5
<1>4. QED
  BY <1>2, <1>3, TreeDoneFacts DEF Frontier

(* A block with one predecessor is in no frontier: what dominates the       *)
(* predecessor dominates the block.                                         *)
LEMMA FrontierHasTwoPreds ==
  ASSUME TreeDone, NEW b \in Blocks, NEW y \in Frontier(succ, b)
  PROVE  Cardinality(Preds(succ, y)) >= 2
<1>1. PICK p \in Preds(succ, y) \cap Numbered : Dominates(succ, b, p)
  BY TreeDoneFacts DEF Frontier
<1>2. y \in Numbered \ {Entry} /\ y \in Blocks /\ ~StrictlyDominates(succ, b, y)
  BY <1>1, TreeDoneFacts DEF Frontier, Preds
<1>3. \E q \in Preds(succ, y) : q # p
  <2> SUFFICES ASSUME Preds(succ, y) = {p} PROVE FALSE
    BY <1>1
  <2>1. CASE b = y
    <3>1. OnStack = {}
      BY DEF TreeDone, IInv, StackInv, OnStack
    <3>2. postOrderId[y] < postOrderId[p]
      BY <1>2, <3>1 DEF TreeDone, IInv, NumberInv
    <3>3. postOrderId[p] <= postOrderId[y]
      BY <1>1, <1>2, <2>1, DominatorNumber DEF TreeDone
    <3>4. postOrderId[p] \in Nat /\ postOrderId[y] \in Nat
      BY <1>1, <1>2, TreeDoneFacts DEF TreeDone, IInv, TypeOK
    <3>5. QED
      BY <3>2, <3>3, <3>4
  <2>2. CASE b # y
    <3>1. PICK S \in SUBSET (Blocks \ {b}) :
            Entry \in S \cup {b} /\ ClosedAvoiding(succ, b, S) /\ p \notin S
      BY <1>1 DEF Dominates
    <3>2. S \ {y} \in SUBSET (Blocks \ {b}) /\ Entry \in (S \ {y}) \cup {b} /\ y \notin S \ {y}
      BY <1>2, <3>1
    <3>3. ClosedAvoiding(succ, b, S \ {y})
      <4> SUFFICES ASSUME NEW x \in S \ {y}, y \in succ[x] PROVE FALSE
        BY <3>1 DEF ClosedAvoiding
      <4>1. x \in Preds(succ, y)
        BY DEF Preds
      <4>2. QED
        BY <3>1, <4>1
    <3>4. Dominates(succ, b, y)
      BY <3>2, <3>3 DEF Dominates
    <3>5. QED
      BY <1>2, <2>2, <3>4 DEF StrictlyDominates
  <2>3. QED
    BY <2>1, <2>2
<1>4. PICK q \in Preds(succ, y) : q # p
  BY <1>3
<1>5. IsFiniteSet(Preds(succ, y))
  BY BlocksFinite, FS_Subset DEF Preds
<1>6. {p, q} \subseteq Preds(succ, y)
  BY <1>1
<1>7. Cardinality({p, q}) = 2
  <2>1. IsFiniteSet({p}) /\ Cardinality({p}) = 1 /\ q \notin {p}
    BY <1>4, FS_Singleton
  <2>2. Cardinality({p} \cup {q}) = Cardinality({p}) + 1
    BY <2>1, FS_AddElement
  <2>3. {p, q} = {p} \cup {q}
    OBVIOUS
  <2>4. QED
    BY <2>1, <2>2, <2>3
<1>8. Cardinality({p, q}) <= Cardinality(Preds(succ, y))
  BY <1>5, <1>6, FS_Subset
<1>9. Cardinality(Preds(succ, y)) \in Nat
  BY <1>5, FS_CardinalityType
<1>10. QED
  BY <1>7, <1>8, <1>9

(****************************************************************************)
(* FrontierInv                                                              *)
(****************************************************************************)
LEMMA InitFrontier == Init => FrontierInv
  BY NullAssumption DEF Init, FrontierInv, Numbered, MaybeBlock

(* Steps of the earlier phases leave the frontiers and the pairs empty *)
LEMMA EarlyFrontier ==
  ASSUME IInv, FrontierInv, pc' \in {"visit", "scan", "fold", "meet"}, TypeOK', NumberInv',
         pc \in {"visit", "scan", "fold", "meet"}, UNCHANGED <<succ, frontVars>>
  PROVE  FrontierInv'
<1>1. /\ frontier' = [b \in MaybeBlock |-> {}] /\ joins' = joins
      /\ UNCHANGED <<succ, frontier>>
  BY DEF FrontierInv, frontVars
<1>2. Numbered' \subseteq Blocks
  BY DEF TypeOK, Numbered
<1>3. QED
  BY <1>1, <1>2 DEF FrontierInv, MaybeBlock, Preds

LEMMA StartFrontierFrontier ==
  ASSUME IInv, FrontierInv, StartFrontier PROVE FrontierInv'
<1>1. /\ pc = "scan" /\ pc' = "joins"
      /\ joins' = {e \in Blocks \X Blocks :
                     e[2] \in Preds(succ, e[1]) /\ Cardinality(Preds(succ, e[1])) >= 2}
      /\ UNCHANGED <<succ, postOrder, frontier>>
  BY DEF StartFrontier, graphVars, visitVars
<1>2. Numbered' = Numbered
  BY <1>1 DEF Numbered
<1>3. \A y, p \in Blocks : IsJoinEdge(y, p)' => <<y, p>> \in joins'
  BY <1>1, <1>2 DEF IsJoinEdge, Preds
<1>4. \A e \in joins' : e[2] \in Preds(succ', e[1])
  BY <1>1
<1>5. \A b \in Numbered' : frontier'[b] \subseteq Frontier(succ', b)
  BY <1>1, <1>2 DEF FrontierInv
<1>6. QED
  BY <1>1, <1>3, <1>4, <1>5 DEF FrontierInv

(* The parts of FrontierInv that a step of the last phase does not disturb *)
LEMMA LateStays ==
  ASSUME UNCHANGED <<succ, visitVars, idomVars>>
  PROVE  /\ Numbered' = Numbered
         /\ \A d, x : Ancestor(d, x)' <=> Ancestor(d, x)
         /\ \A y, p : IsJoinEdge(y, p)' <=> IsJoinEdge(y, p)
         /\ succ' = succ /\ idom' = idom
<1>1. UNCHANGED <<succ, postOrder, idom>>
  BY DEF visitVars, idomVars
<1>2. Numbered' = Numbered
  BY <1>1 DEF Numbered
<1>3. QED
  BY <1>1, <1>2, AncestorStays DEF IsJoinEdge, Preds

LEMMA WalkedStays ==
  ASSUME UNCHANGED <<succ, idom>>,
         \A b \in Blocks : frontier[b] \subseteq frontier'[b]
  PROVE  \A p, x, y : WalkedTo(p, x, y) => WalkedTo(p, x, y)'
  BY AncestorStays DEF WalkedTo

LEMMA PickJoinFrontier ==
  ASSUME TreeDone, FrontierInv, PickJoin PROVE FrontierInv'
<1>1. PICK e \in joins : join' = e[1] /\ runner' = e[2] /\ joins' = joins \ {e}
  BY DEF PickJoin
<1>2. pc = "joins" /\ pc' = "climb" /\ UNCHANGED <<succ, visitVars, idomVars, frontier>>
  BY DEF PickJoin, graphVars
<1> DEFINE y == e[1]
           p == e[2]
<1>3. /\ e = <<y, p>> /\ y \in Blocks /\ p \in Blocks /\ p \in Preds(succ, y)
      /\ joins \subseteq Blocks \X Blocks
  BY DEF FrontierInv, TreeDone, IInv, TypeOK
<1>4. runner' \in Numbered' =>
        /\ join' \in (Numbered \ {Entry})' /\ Ancestor(idom[join], runner)'
        /\ \E q \in (Preds(succ, join) \cap Numbered)' : Ancestor(runner, q)'
  <2> SUFFICES ASSUME p \in Numbered
               PROVE  /\ y \in Numbered \ {Entry} /\ Ancestor(idom[y], p)
                      /\ \E q \in Preds(succ, y) \cap Numbered : Ancestor(p, q)
    BY <1>1, <1>2, <1>3, LateStays DEF Ancestor
  <2>1. QED
    BY <1>3, IdomAbovePreds, AncestorSelf
<1>5. ASSUME NEW z \in Blocks, NEW q \in Blocks, IsJoinEdge(z, q)'
      PROVE  \/ <<z, q>> \in joins'
             \/ join' = z /\ runner' \in Numbered' /\ WalkedTo(q, runner, z)'
             \/ WalkedTo(q, idom[z], z)'
  <2>1. IsJoinEdge(z, q) /\ UNCHANGED <<succ, idom>> /\ Numbered' = Numbered
    BY <1>2, <1>5, LateStays
  <2>2. <<z, q>> \in joins \/ WalkedTo(q, idom[z], z)
    BY <1>2, <2>1 DEF FrontierInv
  <2>3. WalkedTo(q, idom[z], z) => WalkedTo(q, idom[z], z)'
    BY <1>2, <2>1, AncestorStays DEF WalkedTo
  <2>4. <<z, q>> = e => WalkedTo(q, runner, z)' /\ runner' = q /\ join' = z /\ q \in Numbered
    BY <1>1, <1>3, <2>1, AncestorStays DEF WalkedTo, IsJoinEdge, Ancestor
  <2>5. QED
    BY <1>1, <2>1, <2>2, <2>3, <2>4
<1>6. \A f \in joins' : f[2] \in Preds(succ', f[1])
  BY <1>1, <1>2 DEF FrontierInv
<1>7. \A b \in Numbered' : frontier'[b] \subseteq Frontier(succ', b)
  BY <1>2, LateStays DEF FrontierInv
<1>8. QED
  BY <1>2, <1>4, <1>5, <1>6, <1>7 DEF FrontierInv

LEMMA ClimbFrontier ==
  ASSUME TreeDone, FrontierInv, Climb PROVE FrontierInv'
<1>1. /\ pc = "climb" /\ pc' = "climb" /\ runner # idom[join]
      /\ frontier' = [frontier EXCEPT ![runner] = @ \cup {join}]
      /\ runner' = IF runner = Null THEN Null ELSE idom[runner]
      /\ UNCHANGED <<succ, visitVars, idomVars, joins, join>>
  BY DEF Climb, graphVars
<1>2. /\ Numbered' = Numbered /\ succ' = succ /\ idom' = idom
      /\ \A d, x : Ancestor(d, x)' <=> Ancestor(d, x)
      /\ \A y, p : IsJoinEdge(y, p)' <=> IsJoinEdge(y, p)
  BY <1>1, LateStays
<1>3. /\ runner \in MaybeBlock /\ frontier \in [MaybeBlock -> SUBSET Blocks]
      /\ Numbered \subseteq Blocks /\ Null \notin Numbered
      /\ \A b \in Blocks : idom[b] # Null => b \in Numbered
      /\ join \in Blocks
  BY <1>1, TreeDoneFacts, NullAssumption DEF TreeDone, IInv, TypeOK, IdomInv, FingersOK
<1>4. \A b \in Blocks : frontier[b] \subseteq frontier'[b]
  BY <1>1, <1>3 DEF MaybeBlock
<1>5. \A b \in Numbered : frontier[b] \subseteq Frontier(succ, b)
  BY DEF FrontierInv
<1>6. CASE runner \in Numbered
  <2>1. /\ join \in Numbered \ {Entry} /\ Ancestor(idom[join], runner)
        /\ \E p \in Preds(succ, join) \cap Numbered : Ancestor(runner, p)
    BY <1>1, <1>6 DEF FrontierInv
  <2>2. PICK p \in Preds(succ, join) \cap Numbered : Ancestor(runner, p)
    BY <2>1
  <2>3. runner' = idom[runner] /\ runner' \in Numbered /\ idom[runner] # Null /\ runner \in Blocks
    BY <1>1, <1>3, <1>6, TreeDoneFacts
  <2>4. join \in Frontier(succ, runner)
    BY <1>1, <1>6, <2>1, <2>2, BelowIdomIsFrontier
  <2>5. \A b \in Numbered' : frontier'[b] \subseteq Frontier(succ', b)
    BY <1>1, <1>2, <1>3, <1>5, <2>4 DEF MaybeBlock
  <2>6. Ancestor(idom[join], idom[runner])
    BY <1>1, <2>1, <2>3, AncestorBelow
  <2>7. Ancestor(idom[runner], p)
    BY <2>2, <2>3, AncestorOfIdom, AncestorTransitive
  <2>8. /\ join' \in (Numbered \ {Entry})' /\ Ancestor(idom[join], runner)'
        /\ \E q \in (Preds(succ, join) \cap Numbered)' : Ancestor(runner, q)'
    BY <1>1, <1>2, <2>1, <2>2, <2>3, <2>6, <2>7 DEF Ancestor
  <2>9. ASSUME NEW z \in Blocks, NEW q \in Blocks, IsJoinEdge(z, q)'
        PROVE  \/ <<z, q>> \in joins'
               \/ join' = z /\ runner' \in Numbered' /\ WalkedTo(q, runner, z)'
               \/ WalkedTo(q, idom[z], z)'
    <3>1. \/ <<z, q>> \in joins
          \/ join = z /\ WalkedTo(q, runner, z)
          \/ WalkedTo(q, idom[z], z)
      BY <1>1, <1>2, <2>9 DEF FrontierInv
    <3>2. WalkedTo(q, idom[z], z) => WalkedTo(q, idom[z], z)'
      BY <1>2, <1>4 DEF WalkedTo
    <3>3. ASSUME join = z, WalkedTo(q, runner, z), NEW b \in Blocks, Ancestor(b, q)
          PROVE  Ancestor(b, idom[runner]) \/ z \in frontier'[b]
      <4>1. Ancestor(b, runner) \/ z \in frontier[b]
        BY <3>3 DEF WalkedTo
      <4>2. b = runner => z \in frontier'[b]
        BY <1>1, <1>3, <3>3
      <4>3. b # runner /\ Ancestor(b, runner) => Ancestor(b, idom[runner])
        BY <2>3, AncestorBelow
      <4>4. QED
        BY <1>4, <4>1, <4>2, <4>3
    <3>4. join = z /\ WalkedTo(q, runner, z) => WalkedTo(q, runner, z)'
      BY <1>2, <2>3, <3>3 DEF WalkedTo, Ancestor
    <3>5. QED
      BY <1>1, <1>2, <2>3, <3>1, <3>2, <3>4
  <2>10. QED
    BY <1>1, <1>2, <2>5, <2>8, <2>9 DEF FrontierInv
<1>7. CASE runner \notin Numbered
  <2>1. runner' = Null
    BY <1>1, <1>3, <1>7 DEF MaybeBlock
  <2>2. \A b \in Numbered' : frontier'[b] \subseteq Frontier(succ', b)
    BY <1>1, <1>2, <1>3, <1>5, <1>7 DEF MaybeBlock
  <2>3. ASSUME NEW z \in Blocks, NEW q \in Blocks, IsJoinEdge(z, q)'
        PROVE  <<z, q>> \in joins' \/ WalkedTo(q, idom[z], z)'
    <3>1. <<z, q>> \in joins \/ WalkedTo(q, idom[z], z)
      BY <1>1, <1>2, <1>7, <2>3 DEF FrontierInv
    <3>2. WalkedTo(q, idom[z], z) => WalkedTo(q, idom[z], z)'
      BY <1>2, <1>4 DEF WalkedTo
    <3>3. QED
      BY <1>1, <3>1, <3>2
  <2>4. QED
    BY <1>1, <1>2, <1>3, <2>1, <2>2, <2>3 DEF FrontierInv
<1>8. QED
  BY <1>6, <1>7

LEMMA EndFrontier ==
  ASSUME TreeDone, FrontierInv, EndClimb \/ CreateDomTree PROVE FrontierInv'
<1>1. /\ UNCHANGED <<succ, visitVars, idomVars, joins, join, runner, frontier>>
      /\ \/ pc = "climb" /\ runner = idom[join] /\ pc' = "joins"
         \/ pc = "joins" /\ joins = {} /\ pc' = "done"
  BY DEF EndClimb, CreateDomTree, graphVars, frontVars
<1>2. /\ Numbered' = Numbered /\ succ' = succ /\ idom' = idom
      /\ \A y, p : IsJoinEdge(y, p)' <=> IsJoinEdge(y, p)
  BY <1>1, LateStays
<1>3. \A q, z : WalkedTo(q, idom[z], z) => WalkedTo(q, idom[z], z)'
  BY <1>1, <1>2, AncestorStays DEF WalkedTo
<1>4. ASSUME NEW z \in Blocks, NEW q \in Blocks, IsJoinEdge(z, q)'
      PROVE  <<z, q>> \in joins' \/ WalkedTo(q, idom[z], z)'
  BY <1>1, <1>2, <1>3, <1>4 DEF FrontierInv
<1>5. QED
  BY <1>1, <1>2, <1>4 DEF FrontierInv

LEMMA NextFrontier ==
  ASSUME TreeInv, TreeInv', FrontierInv, [Next]_vars PROVE FrontierInv'
<1>1. IInv /\ OptimalInv /\ SoundInv /\ TypeOK' /\ NumberInv'
  BY DEF TreeInv, IInv
<1>2. CASE VisitSuccessor \/ LeaveBlock \/ StartIdom \/ SkipRoot \/ PickPred
           \/ StartIntersect \/ RaiseB1 \/ RaiseB2 \/ EndIntersect \/ SetIdom \/ Resweep
  <2>1. /\ pc \in {"visit", "scan", "fold", "meet"} /\ pc' \in {"visit", "scan", "fold", "meet"}
        /\ UNCHANGED <<succ, frontVars>>
    BY <1>2 DEF VisitSuccessor, LeaveBlock, StartIdom, SkipRoot, PickPred, StartIntersect,
       RaiseB1, RaiseB2, EndIntersect, SetIdom, Resweep, graphVars
  <2>2. QED
    BY <1>1, <2>1, EarlyFrontier
<1>3. CASE PickJoin \/ Climb \/ EndClimb \/ CreateDomTree
  <2>1. TreeDone
    BY <1>1, <1>3 DEF TreeDone, PickJoin, Climb, EndClimb, CreateDomTree
  <2>2. QED
    BY <1>3, <2>1, PickJoinFrontier, ClimbFrontier, EndFrontier
<1>4. CASE UNCHANGED vars
  <2>1. /\ UNCHANGED <<succ, visitVars, idomVars, pc, joins, join, runner, frontier>>
        /\ UNCHANGED <<succ, idom>>
    BY <1>4 DEF vars, graphVars, frontVars, idomVars
  <2>2. /\ \A p, y : WalkedTo(p, runner, y)' <=> WalkedTo(p, runner, y)
        /\ \A p, y : WalkedTo(p, idom[y], y)' <=> WalkedTo(p, idom[y], y)
        /\ Ancestor(idom[join], runner)' <=> Ancestor(idom[join], runner)
        /\ \A p : Ancestor(runner, p)' <=> Ancestor(runner, p)
    BY <2>1 DEF WalkedTo, Ancestor
  <2>3. QED
    BY <2>1, <2>2, LateStays DEF FrontierInv
<1>5. QED
  BY <1>1, <1>2, <1>3, <1>4, StartFrontierFrontier DEF Next, Finished

(* At the end of the pass dom_frontier_ gives every reachable block its     *)
(* dominance frontier (Dominators.cpp, create_dominance_frontier), although *)
(* the runners start only at blocks with two predecessors, and whatever the *)
(* order of the lists and of the runners.                                   *)
THEOREM FrontiersAreExact == Spec => []FrontierIsExact
<1>1. Init => FrontierInv
  BY InitFrontier
<1>2. TreeInv /\ TreeInv' /\ FrontierInv /\ [Next]_vars => FrontierInv'
  BY NextFrontier
<1>3. Spec => []FrontierInv
  BY <1>1, <1>2, TreeInvariance, PTL DEF Spec
<1>4. ASSUME TreeInv, FrontierInv PROVE FrontierIsExact
  <2> SUFFICES ASSUME pc = "done", NEW b \in Reachable(succ)
               PROVE  frontier[b] = Frontier(succ, b)
    BY DEF FrontierIsExact
  <2>1. TreeDone
    BY <1>4 DEF TreeInv, TreeDone
  <2>2. b \in Numbered /\ b \in Blocks /\ frontier[b] \subseteq Frontier(succ, b)
    BY <1>4, <2>1, TreeDoneFacts DEF FrontierInv
  <2>3. ASSUME NEW y \in Frontier(succ, b) PROVE y \in frontier[b]
    <3>1. PICK p \in Preds(succ, y) \cap Numbered : Dominates(succ, b, p)
      BY <2>1, TreeDoneFacts DEF Frontier
    <3>2. y \in Blocks /\ p \in Blocks /\ y \in Numbered \ {Entry} /\ ~StrictlyDominates(succ, b, y)
      BY <2>1, <3>1, TreeDoneFacts DEF Frontier, Preds
    <3>3. IsJoinEdge(y, p)
      BY <2>1, <2>2, <3>1, FrontierHasTwoPreds DEF IsJoinEdge
    <3>4. WalkedTo(p, idom[y], y)
      BY <1>4, <3>2, <3>3 DEF FrontierInv
    <3>5. Ancestor(b, p)
      BY <2>1, <2>2, <3>1, DominatorIsAncestor
    <3>6. Ancestor(b, idom[y]) \/ y \in frontier[b]
      BY <2>2, <3>4, <3>5 DEF WalkedTo
    <3>7. ~Ancestor(b, idom[y])
      BY <2>1, <2>2, <3>2, AboveIdomNotFrontier
    <3>8. QED
      BY <3>6, <3>7
  <2>4. QED
    BY <2>2, <2>3
<1>5. QED
  BY <1>3, <1>4, TreeInvariance, PTL
================================================================================

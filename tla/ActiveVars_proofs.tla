--------------------------- MODULE ActiveVars_proofs ---------------------------
(****************************************************************************)
(* Proofs about ActiveVars: what the sweeps report live is needed, what     *)
(* they have found stays, and when they end nothing is missed.              *)
(****************************************************************************)
EXTENDS ActiveVars, TLAPS

(****************************************************************************)
(* Facts about the sets of initset                                          *)
(****************************************************************************)
LEMMA CodeType ==
  ASSUME prog \in Programs, NEW b \in Blocks
  PROVE  /\ Succ(b) \subseteq Blocks
         /\ Code(b) \in Seq(Instruction)
         /\ Len(Code(b)) \in Nat
         /\ \A i \in 1..Len(Code(b)) : Code(b)[i] \in Instruction
         /\ WellFormed(Code(b))
  BY ProgramsAssumption DEF Succ, Code

LEMMA UseNotDef ==
  ASSUME prog \in Programs, NEW b \in Blocks
  PROVE  use_set(b) \cap def_set(b) = {}
<1> SUFFICES ASSUME NEW v \in Values,
                    NEW i \in 1..Len(Code(b)), Code(b)[i].def = v, v \notin Used(b, i),
                    NEW k \in 1..Len(Code(b)), v \in Code(b)[k].ops, v \notin Defed(b, k)
             PROVE  FALSE
  BY DEF use_set, def_set
<1>1. Len(Code(b)) \in Nat
  BY CodeType
<1>2. k \notin 1..i
  BY DEF Used
<1>3. i \notin 1..(k - 1)
  BY DEF Defed
<1>4. QED
  BY <1>1, <1>2, <1>3

(* What is defined in a block and not in def_set is read before. *)
LEMMA DefinedNotInDefSet ==
  ASSUME prog \in Programs, NEW b \in Blocks,
         NEW v \in DefinedIn(b) \cap Values, v \notin def_set(b)
  PROVE  v \in use_set(b)
<1>1. PICK i \in 1..Len(Code(b)) : Code(b)[i].def = v
  BY DEF DefinedIn
<1>2. PICK j \in 1..i : v \in Code(b)[j].ops
  BY <1>1 DEF def_set, Used
<1>3. Len(Code(b)) \in Nat /\ j \in 1..Len(Code(b)) /\ i \in Nat /\ j \in Nat /\ j <= i
  BY <1>1, <1>2, CodeType
<1>4. v # None
  BY NoneAssumption
<1>5. \A k \in 1..Len(Code(b)) : Code(b)[k].def = v => k = i
  BY <1>1, <1>4, CodeType DEF WellFormed
<1>6. v \notin Defed(b, j)
  BY <1>3, <1>5 DEF Defed
<1>7. QED
  BY <1>2, <1>3, <1>6 DEF use_set

LEMMA UsesAreRead ==
  ASSUME prog \in Programs, NEW b \in Blocks
  PROVE  use_set(b) \subseteq ReadFirst(b) \cup phi_op(b)
<1> SUFFICES ASSUME NEW k \in 1..Len(Code(b)), NEW v \in Code(b)[k].ops, v \notin Defed(b, k),
                    Code(b)[k].from # {}
             PROVE  v \in phi_op(b)
  BY DEF use_set, ReadFirst
<1>1. Code(b)[k].ops = {pair[2] : pair \in Code(b)[k].from}
  BY CodeType DEF WellFormed
<1>2. QED
  BY <1>1 DEF phi_op, phi_op_pair

LEMMA SetTypes ==
  ASSUME prog \in Programs, NEW b \in Blocks
  PROVE  use_set(b) \subseteq Values /\ def_set(b) \subseteq Values
  BY CodeType DEF use_set, def_set, Instruction

(* An edge on which v is needed puts its source into NeededAfter(v). *)
LEMMA NeededOnEdge ==
  ASSUME NEW b \in Blocks, NEW s \in Succ(b), NEW v,
         \/ v \in ReadFirst(s)
         \/ <<b, v>> \in phi_op_pair(s)
         \/ s \in NeededAfter(v) /\ v \notin DefinedIn(s)
  PROVE  b \in NeededAfter(v)
<1> SUFFICES ASSUME NEW E \in SUBSET Blocks, ClosedUnderNeed(E, v) PROVE b \in E
  BY DEF NeededAfter
<1>1. s \in NeededAfter(v) => s \in E
  BY DEF NeededAfter
<1>2. QED
  BY <1>1 DEF ClosedUnderNeed

(****************************************************************************)
(* Nothing dead is live                                                     *)
(****************************************************************************)
LEMMA OutNeeded ==
  ASSUME IInv, NEW b \in Blocks PROVE Out(b) \subseteq LiveOut(b)
<1> SUFFICES ASSUME NEW s \in Succ(b), NEW v \in FromSucc(b, s)
             PROVE  v \in Values /\ b \in NeededAfter(v)
  BY DEF Out, LiveOut
<1>1. s \in Blocks
  BY CodeType DEF IInv
<1>2. v \in live_in[s] /\ live_in[s] \subseteq LiveIn(s) /\ v \in Values
  BY <1>1 DEF FromSucc, IInv, NothingDeadIsLive, TypeOK
<1>3. CASE v \in phi_op(s)
  BY <1>2, <1>3, NeededOnEdge DEF FromSucc
<1>4. CASE v \in NeededIn(s)
  BY <1>2, <1>4, NeededOnEdge DEF NeededIn
<1>5. QED
  BY <1>2, <1>3, <1>4 DEF LiveIn

LEMMA InNeeded ==
  ASSUME IInv, NEW b \in Blocks PROVE In(b) \subseteq LiveIn(b)
<1> SUFFICES ASSUME NEW v \in In(b) PROVE v \in LiveIn(b)
  OBVIOUS
<1>1. prog \in Programs
  BY DEF IInv
<1>2. CASE v \in use_set(b)
  BY <1>1, <1>2, UsesAreRead DEF LiveIn, NeededIn
<1>3. CASE v \in Out(b) /\ v \notin use_set(b)
  <2>1. v \in Values /\ b \in NeededAfter(v)
    BY <1>3, OutNeeded DEF LiveOut
  <2>2. v \notin DefinedIn(b)
    BY <1>1, <1>3, <2>1, DefinedNotInDefSet DEF In
  <2>3. QED
    BY <2>1, <2>2 DEF LiveIn, NeededIn
<1>4. QED
  BY <1>2, <1>3 DEF In

(****************************************************************************)
(* A visit raises live_in and with it every right hand side                 *)
(****************************************************************************)
LEMMA ProgStays ==
  ASSUME prog' = prog
  PROVE  /\ \A b : Succ(b)' = Succ(b) /\ use_set(b)' = use_set(b) /\ def_set(b)' = def_set(b)
         /\ \A b : phi_op(b)' = phi_op(b) /\ phi_op_pair(b)' = phi_op_pair(b)
         /\ \A b : LiveIn(b)' = LiveIn(b) /\ LiveOut(b)' = LiveOut(b)
<1>1. \A b : Succ(b)' = Succ(b) /\ Code(b)' = Code(b)
  BY DEF Succ, Code
<1>2. \A b : use_set(b)' = use_set(b) /\ def_set(b)' = def_set(b)
  BY <1>1 DEF use_set, def_set, Used, Defed
<1>3. \A b : phi_op_pair(b)' = phi_op_pair(b) /\ phi_op(b)' = phi_op(b)
  BY <1>1 DEF phi_op, phi_op_pair
<1>4. \A b : ReadFirst(b)' = ReadFirst(b) /\ DefinedIn(b)' = DefinedIn(b)
  BY <1>1 DEF ReadFirst, DefinedIn, Defed
<1>5. \A v : NeededAfter(v)' = NeededAfter(v)
  BY <1>1, <1>3, <1>4 DEF NeededAfter, ClosedUnderNeed
<1>6. QED
  BY <1>1, <1>2, <1>3, <1>4, <1>5 DEF LiveIn, LiveOut, NeededIn

LEMMA InMonotone ==
  ASSUME IInv, prog' = prog, \A s \in Blocks : live_in[s] \subseteq live_in'[s],
         NEW b \in Blocks
  PROVE  Out(b) \subseteq Out(b)' /\ In(b) \subseteq In(b)'
<1>1. Succ(b) \subseteq Blocks
  BY CodeType DEF IInv
<1>2. \A s \in Succ(b) : FromSucc(b, s) \subseteq FromSucc(b, s)'
  BY <1>1, ProgStays DEF FromSucc
<1>3. Out(b) \subseteq Out(b)'
  BY <1>2, ProgStays DEF Out
<1>4. QED
  BY <1>3, ProgStays DEF In

LEMMA VisitRaises ==
  ASSUME IInv, NEW b \in Blocks, VisitBlock(b)
  PROVE  \A c \in Blocks : live_in[c] \subseteq live_in'[c]
<1>1. live_in' = [live_in EXCEPT ![b] = In(b)] /\ live_in \in [Blocks -> SUBSET Values]
  BY DEF VisitBlock, IInv, TypeOK
<1>2. live_in[b] \subseteq In(b)
  BY DEF VisitBlock, IInv, SweepInv
<1>3. QED
  BY <1>1, <1>2

(****************************************************************************)
(* The invariant                                                            *)
(****************************************************************************)
LEMMA InitHolds == Init => IInv
  BY DEF Init, IInv, TypeOK, NothingDeadIsLive, SweepInv

LEMMA InitSetsHolds == ASSUME IInv, InitSets PROVE IInv'
<1>1. /\ pc' = "sweep" /\ prog' = prog /\ prog \in Programs /\ todo' = Blocks
      /\ live_in' = [b \in Blocks |-> use_set(b)] /\ UNCHANGED <<live_out, rescan>>
  BY DEF InitSets, IInv
<1>2. TypeOK'
  BY <1>1, SetTypes DEF IInv, TypeOK
<1>3. NothingDeadIsLive'
  <2>1. \A b \in Blocks : use_set(b) \subseteq LiveIn(b)
    BY <1>1, UsesAreRead DEF LiveIn, NeededIn
  <2>2. \A b \in Blocks : live_in'[b] \subseteq LiveIn(b) /\ live_out'[b] \subseteq LiveOut(b)
    BY <1>1, <2>1 DEF IInv, NothingDeadIsLive
  <2>3. QED
    BY <1>1, <2>2, ProgStays DEF NothingDeadIsLive
<1>4. SweepInv'
  <2>1. \A b \in Blocks : use_set(b)' = use_set(b) /\ use_set(b) \cap def_set(b)' = {}
    BY <1>1, ProgStays, UseNotDef
  <2>2. \A b \in Blocks : live_in'[b] \subseteq In(b)'
    BY <1>1, <2>1 DEF In
  <2>3. QED
    BY <1>1, <2>2 DEF SweepInv
<1>5. QED
  BY <1>1, <1>2, <1>3, <1>4 DEF IInv

LEMMA VisitBlockHolds == ASSUME IInv, NEW b \in Blocks, VisitBlock(b) PROVE IInv'
<1>1. /\ pc = "sweep" /\ pc' = "sweep" /\ prog' = prog /\ prog \in Programs
      /\ live_in' = [live_in EXCEPT ![b] = In(b)] /\ live_in \in [Blocks -> SUBSET Values]
      /\ live_out' = [live_out EXCEPT ![b] = Out(b)] /\ live_out \in [Blocks -> SUBSET Values]
      /\ rescan' = (rescan \/ In(b) # live_in[b]) /\ rescan \in BOOLEAN
      /\ todo' = todo \ {b} /\ todo \subseteq Blocks
  BY DEF VisitBlock, IInv, TypeOK
<1>2. /\ Out(b) \subseteq LiveOut(b) /\ In(b) \subseteq LiveIn(b)
      /\ Out(b) \subseteq Values /\ In(b) \subseteq Values
  <2>1. Out(b) \subseteq LiveOut(b) /\ In(b) \subseteq LiveIn(b)
    BY OutNeeded, InNeeded
  <2>2. Out(b) \subseteq Values
    BY <2>1 DEF LiveOut
  <2>3. In(b) \subseteq Values
    BY <1>1, <2>2, SetTypes DEF In
  <2>4. QED
    BY <2>1, <2>2, <2>3
<1>3. TypeOK'
  BY <1>1, <1>2 DEF TypeOK
<1>4. NothingDeadIsLive'
  <2>1. \A c \in Blocks : live_in'[c] \subseteq LiveIn(c) /\ live_out'[c] \subseteq LiveOut(c)
    BY <1>1, <1>2 DEF IInv, NothingDeadIsLive
  <2>2. QED
    BY <1>1, <2>1, ProgStays DEF NothingDeadIsLive
<1>5. \A c \in Blocks : live_in'[c] \subseteq In(c)'
  <2>1. \A c \in Blocks : live_in[c] \subseteq In(c) /\ In(c) \subseteq In(c)'
    BY <1>1, VisitRaises, InMonotone DEF IInv, SweepInv
  <2>2. QED
    BY <1>1, <2>1
<1>6. ASSUME ~rescan' PROVE \A c \in Blocks \ todo' : Settled(c)'
  <2>1. ~rescan /\ In(b) = live_in[b]
    BY <1>1, <1>6
  <2>2. live_in' = live_in
    BY <1>1, <2>1
  <2>3. \A c, s : FromSucc(c, s)' = FromSucc(c, s)
    BY <1>1, <2>2, ProgStays DEF FromSucc
  <2>4. \A c : Out(c)' = Out(c)
    BY <1>1, <2>3, ProgStays DEF Out
  <2>5. \A c : In(c)' = In(c)
    BY <1>1, <2>4, ProgStays DEF In
  <2>6. \A c \in Blocks \ todo : live_in[c] = In(c) /\ live_out[c] = Out(c)
    BY <1>1, <2>1 DEF IInv, SweepInv, Settled
  <2>7. \A c \in Blocks \ todo' : live_in'[c] = In(c)' /\ live_out'[c] = Out(c)'
    BY <1>1, <2>1, <2>2, <2>4, <2>5, <2>6
  <2>8. QED
    BY <2>7 DEF Settled
<1>7. QED
  BY <1>1, <1>3, <1>4, <1>5, <1>6 DEF IInv, SweepInv

(* The other steps leave the sets alone. *)
LEMMA SetsStay ==
  ASSUME UNCHANGED <<prog, live_in, live_out>>
  PROVE  /\ NothingDeadIsLive => NothingDeadIsLive'
         /\ \A b : Settled(b)' <=> Settled(b)
         /\ \A b : In(b)' = In(b)
<1>1. \A b, s : FromSucc(b, s)' = FromSucc(b, s)
  BY ProgStays DEF FromSucc
<1>2. \A b : Out(b)' = Out(b)
  BY <1>1, ProgStays DEF Out
<1>3. \A b : In(b)' = In(b)
  BY <1>2, ProgStays DEF In
<1>4. QED
  BY <1>2, <1>3, ProgStays DEF NothingDeadIsLive, Settled

LEMMA OthersHold ==
  ASSUME IInv, Rescan \/ EndSweeps \/ UNCHANGED vars PROVE IInv'
<1>1. UNCHANGED <<prog, live_in, live_out>>
  BY DEF Rescan, EndSweeps, vars
<1>2. TypeOK'
  BY DEF IInv, TypeOK, Rescan, EndSweeps, vars
<1>3. SweepInv'
  <2>1. CASE Rescan
    BY <1>1, <2>1, SetsStay DEF Rescan, IInv, SweepInv
  <2>2. CASE EndSweeps
    BY <1>1, <2>2, SetsStay DEF EndSweeps, IInv, SweepInv
  <2>3. CASE UNCHANGED vars
    BY <1>1, <2>3, SetsStay DEF vars, IInv, SweepInv
  <2>4. QED
    BY <2>1, <2>2, <2>3
<1>4. QED
  BY <1>1, <1>2, <1>3, SetsStay DEF IInv

LEMMA NextHolds == IInv /\ [Next]_vars => IInv'
  BY InitSetsHolds, VisitBlockHolds, OthersHold DEF Next, Finished

THEOREM Invariance == Spec => []IInv
  BY InitHolds, NextHolds, PTL DEF Spec

(****************************************************************************)
(* The theorems                                                             *)
(****************************************************************************)
(* The maps keep their types for every function. *)
THEOREM TypeCorrect == Spec => []TypeOK
<1>1. IInv => TypeOK
  BY DEF IInv
<1>2. QED
  BY <1>1, Invariance, PTL

(* In every state of the sweeps, what live_in and live_out hold is needed   *)
(* later on some path (ActiveVars.cpp, lines 115-170).                      *)
THEOREM NoFalseLiveness == Spec => []NothingDeadIsLive
<1>1. IInv => NothingDeadIsLive
  BY DEF IInv
<1>2. QED
  BY <1>1, Invariance, PTL

(* A value found live in stays, although each visit clears the set          *)
(* (ActiveVars.cpp, lines 121-155).                                         *)
THEOREM SweepsOnlyAdd == Spec => LiveInGrows
<1>1. IInv /\ [Next]_vars =>
        [pc = "sweep" => \A b \in Blocks : live_in[b] \subseteq live_in'[b]]_vars
  <2> SUFFICES ASSUME IInv, Next, pc = "sweep"
               PROVE  \A b \in Blocks : live_in[b] \subseteq live_in'[b]
    OBVIOUS
  <2>1. CASE \E b \in Blocks : VisitBlock(b)
    BY <2>1, VisitRaises
  <2>2. CASE Rescan \/ EndSweeps \/ Finished
    BY <2>2 DEF Rescan, EndSweeps, Finished, vars
  <2>3. QED
    BY <2>1, <2>2 DEF Next, InitSets
<1>2. QED
  BY <1>1, Invariance, PTL DEF Spec, LiveInGrows

(* What is settled and meets PhiOperandsOnlyInPhis is complete: the blocks  *)
(* at whose end v is reported live are closed under need.                   *)
LEMMA SettledIsComplete ==
  ASSUME IInv, pc = "done", PhiOperandsOnlyInPhis, NEW b \in Blocks
  PROVE  LiveIn(b) \subseteq live_in[b] /\ LiveOut(b) \subseteq live_out[b]
<1>1. /\ prog \in Programs
      /\ \A c \in Blocks : live_in[c] = In(c) /\ live_out[c] = Out(c)
  BY DEF IInv, SweepInv, Settled
<1>2. ASSUME NEW s \in Blocks PROVE phi_op(s) \subseteq live_in[s] /\ ReadFirst(s) \subseteq live_in[s]
  <2>1. use_set(s) \subseteq live_in[s]
    BY <1>1, UseNotDef DEF In
  <2>2. ReadFirst(s) \subseteq use_set(s)
    BY DEF ReadFirst, use_set
  <2>3. phi_op(s) \subseteq use_set(s)
    <3> SUFFICES ASSUME NEW i \in 1..Len(Code(s)), NEW pair \in Code(s)[i].from
                 PROVE  pair[2] \in use_set(s)
      BY DEF phi_op, phi_op_pair
    <3>1. Code(s)[i].ops = {p[2] : p \in Code(s)[i].from}
      BY <1>1, CodeType DEF WellFormed
    <3>2. pair[2] \in Code(s)[i].ops /\ pair[2] \notin Defed(s, i)
      BY <3>1 DEF PhiOperandsOnlyInPhis
    <3>3. QED
      BY <3>2 DEF use_set
  <2>4. QED
    BY <2>1, <2>2, <2>3
<1>3. ASSUME NEW v \in Values PROVE NeededAfter(v) \subseteq {c \in Blocks : v \in live_out[c]}
  <2> DEFINE E == {c \in Blocks : v \in live_out[c]}
  <2>1. ASSUME NEW c \in Blocks, NEW s \in Succ(c),
               \/ v \in ReadFirst(s)
               \/ <<c, v>> \in phi_op_pair(s)
               \/ s \in E /\ v \notin DefinedIn(s)
        PROVE  c \in E
    <3>1. s \in Blocks /\ s # c
      BY <1>1, CodeType DEF PhiOperandsOnlyInPhis
    <3>2. v \in FromSucc(c, s)
      <4>1. CASE <<c, v>> \in phi_op_pair(s)
        <5>1. v \in phi_op(s)
          BY <4>1 DEF phi_op
        <5>2. QED
          BY <3>1, <4>1, <5>1, <1>2 DEF FromSucc
      <4>2. CASE v \in ReadFirst(s)
        <5>1. v \in live_in[s] /\ v \notin phi_op(s)
          BY <3>1, <4>2, <1>2 DEF PhiOperandsOnlyInPhis, NeededIn
        <5>2. QED
          BY <5>1 DEF FromSucc
      <4>3. CASE s \in E /\ v \notin DefinedIn(s)
        <5>1. s \in NeededAfter(v)
          BY <4>3, <1>1 DEF IInv, NothingDeadIsLive, LiveOut
        <5>2. v \notin phi_op(s)
          BY <3>1, <4>3, <5>1 DEF PhiOperandsOnlyInPhis, NeededIn
        <5>3. v \notin def_set(s)
          BY <4>3 DEF def_set, DefinedIn
        <5>4. v \in live_in[s]
          BY <1>1, <3>1, <4>3, <5>3 DEF In
        <5>5. QED
          BY <5>2, <5>4 DEF FromSucc
      <4>4. QED
        BY <2>1, <4>1, <4>2, <4>3
    <3>3. v \in Out(c)
      BY <3>1, <3>2 DEF Out
    <3>4. QED
      BY <1>1, <3>3
  <2>2. ClosedUnderNeed(E, v)
    BY <2>1 DEF ClosedUnderNeed
  <2>3. QED
    BY <2>2 DEF NeededAfter
<1>4. LiveOut(b) \subseteq live_out[b]
  BY <1>3 DEF LiveOut
<1>5. NeededIn(b) \subseteq live_in[b]
  <2> SUFFICES ASSUME NEW v \in Values \ DefinedIn(b), b \in NeededAfter(v) PROVE v \in live_in[b]
    BY <1>2 DEF NeededIn
  <2>1. v \in Out(b) /\ v \notin def_set(b)
    BY <1>1, <1>3 DEF def_set, DefinedIn
  <2>2. QED
    BY <1>1, <2>1 DEF In
<1>6. QED
  BY <1>2, <1>4, <1>5 DEF LiveIn

(* When the sweeps end, nothing live is missed, if no block branches to     *)
(* itself and phis have their operands for themselves (ActiveVars.cpp,      *)
(* lines 116-170).                                                          *)
THEOREM NothingIsMissed == Spec => []NothingLiveIsMissed
<1>1. IInv => NothingLiveIsMissed
  BY SettledIsComplete DEF NothingLiveIsMissed
<1>2. QED
  BY <1>1, Invariance, PTL
================================================================================

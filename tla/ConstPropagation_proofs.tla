------------------------ MODULE ConstPropagation_proofs ------------------------
(****************************************************************************)
(* The clean-up of the graph in ConstPropagation::run leaves a graph, for   *)
(* every function and every number of rounds.  Each step mends one end of   *)
(* the edges it touches and leaves the other to a later one; GraphInv says  *)
(* what is still to be mended in each phase.                                *)
(****************************************************************************)
EXTENDS ConstPropagation, SequenceTheorems, FiniteSetTheorems, TLAPS

LEMMA ToSetElements ==
  ASSUME NEW S, NEW s \in Seq(S)
  PROVE  /\ DOMAIN s = 1..Len(s) /\ Len(s) \in Nat
         /\ \A v : v \in ToSet(s) <=> \E i \in 1..Len(s) : s[i] = v
         /\ ToSet(s) \subseteq S
<1>1. DOMAIN s = 1..Len(s) /\ Len(s) \in Nat /\ \A i \in 1..Len(s) : s[i] \in S
  OBVIOUS
<1>2. QED
  BY <1>1 DEF ToSet

LEMMA ToSetConcat ==
  ASSUME NEW S, NEW s \in Seq(S), NEW t \in Seq(S)
  PROVE  s \o t \in Seq(S) /\ ToSet(s \o t) = ToSet(s) \cup ToSet(t)
<1>1. /\ s \o t \in Seq(S) /\ Len(s \o t) = Len(s) + Len(t)
      /\ \A i \in 1..Len(s) + Len(t) :
           (s \o t)[i] = IF i <= Len(s) THEN s[i] ELSE t[i - Len(s)]
  BY ConcatProperties
<1>2. Len(s) \in Nat /\ Len(t) \in Nat
  OBVIOUS
<1>3. ASSUME NEW v, v \in ToSet(s \o t) PROVE v \in ToSet(s) \cup ToSet(t)
  <2>1. PICK i \in 1..Len(s) + Len(t) : (s \o t)[i] = v
    BY <1>1, <1>3, ToSetElements
  <2>2. CASE i <= Len(s)
    BY <1>1, <1>2, <2>1, <2>2, ToSetElements
  <2>3. CASE ~(i <= Len(s))
    <3>1. i - Len(s) \in 1..Len(t) /\ t[i - Len(s)] = v
      BY <1>1, <1>2, <2>1, <2>3
    <3>2. QED
      BY <3>1, ToSetElements
  <2>4. QED
    BY <2>2, <2>3
<1>4. ASSUME NEW v, v \in ToSet(s) PROVE v \in ToSet(s \o t)
  <2>1. PICK i \in 1..Len(s) : s[i] = v
    BY <1>4, ToSetElements
  <2>2. i \in 1..Len(s \o t) /\ (s \o t)[i] = v
    BY <1>1, <1>2, <2>1
  <2>3. QED
    BY <1>1, <2>2, ToSetElements
<1>5. ASSUME NEW v, v \in ToSet(t) PROVE v \in ToSet(s \o t)
  <2>1. PICK i \in 1..Len(t) : t[i] = v
    BY <1>5, ToSetElements
  <2>2. i + Len(s) \in 1..Len(s \o t) /\ (s \o t)[i + Len(s)] = v
    BY <1>1, <1>2, <2>1
  <2>3. QED
    BY <1>1, <2>2, ToSetElements
<1>6. QED
  BY <1>1, <1>3, <1>4, <1>5

LEMMA OneElement ==
  ASSUME NEW S, NEW v \in S
  PROVE  <<v>> \in Seq(S) /\ ToSet(<<v>>) = {v}
<1>1. <<v>> \in Seq(S) /\ Len(<<v>>) = 1 /\ <<v>>[1] = v
  OBVIOUS
<1>2. \A x : x \in ToSet(<<v>>) <=> \E i \in 1..1 : <<v>>[i] = x
  BY <1>1, ToSetElements
<1>3. QED
  BY <1>1, <1>2

(* The elements of a sequence of length two. *)
LEMMA TwoElements ==
  ASSUME NEW S, NEW s \in Seq(S), Len(s) = 2
  PROVE  ToSet(s) = {s[1], s[2]}
<1>1. \A v : v \in ToSet(s) <=> \E i \in 1..2 : s[i] = v
  BY ToSetElements
<1>2. QED
  BY <1>1

-------------------------------------------------------------------------------
LEMMA ProgFacts ==
  ASSUME NEW p \in Programs
  PROVE  /\ p.order \in Seq(Blocks) /\ ToSet(p.order) \subseteq Blocks
         /\ p.arms \in [Blocks -> Seq(ToSet(p.order))] /\ p.phi \in [Blocks -> Seq(Pair)]
         /\ \A b \in Blocks :
              /\ Len(p.arms[b]) <= 2 /\ IsInjective(p.arms[b])
              /\ p.arms[b] \in Seq(Blocks) /\ ToSet(p.arms[b]) \subseteq ToSet(p.order)
              /\ b \notin ToSet(p.order) => ToSet(p.arms[b]) = {}
              /\ p.reads[b] \in Values
<1>1. /\ p.order \in Seq(Blocks)
      /\ p.arms \in [Blocks -> Seq(ToSet(p.order))] /\ p.phi \in [Blocks -> Seq(Pair)]
      /\ \A b \in Blocks :
           /\ Len(p.arms[b]) <= 2 /\ IsInjective(p.arms[b])
           /\ b \notin ToSet(p.order) => p.arms[b] = <<>>
           /\ p.reads[b] \in Values
  BY ProgramsAssumption
<1>2. ToSet(p.order) \subseteq Blocks
  BY <1>1, ToSetElements
<1>3. ASSUME NEW b \in Blocks
      PROVE  /\ p.arms[b] \in Seq(Blocks) /\ ToSet(p.arms[b]) \subseteq ToSet(p.order)
             /\ b \notin ToSet(p.order) => ToSet(p.arms[b]) = {}
  <2>1. p.arms[b] \in Seq(ToSet(p.order))
    BY <1>1
  <2>2. p.arms[b] \in Seq(Blocks) /\ ToSet(p.arms[b]) \subseteq ToSet(p.order)
    BY <1>2, <2>1, ToSetElements
  <2>3. p.arms[b] = <<>> => ToSet(p.arms[b]) = {}
    BY DEF ToSet
  <2>4. QED
    BY <1>1, <2>2, <2>3
<1>4. QED
  BY <1>1, <1>2, <1>3

LabelsOf(s) == {s[k].from : k \in DOMAIN s}

(* As many labels as pairs. *)
LEMMA OnePairEach ==
  ASSUME NEW s \in Seq(Pair), Len(s) <= 2, OncePerLabel(s)
  PROVE  Len(s) = Cardinality(LabelsOf(s))
<1>1. Len(s) \in Nat /\ DOMAIN s = 1..Len(s)
  OBVIOUS
<1>2. CASE Len(s) = 0
  <2>1. LabelsOf(s) = {}
    BY <1>1, <1>2 DEF LabelsOf
  <2>2. QED
    BY <1>2, <2>1, FS_EmptySet
<1>3. CASE Len(s) = 1
  <2>1. DOMAIN s = {1}
    BY <1>1, <1>3
  <2>2. LabelsOf(s) = {s[1].from}
    BY <2>1 DEF LabelsOf
  <2>3. QED
    BY <1>3, <2>2, FS_Singleton
<1>4. CASE Len(s) = 2
  <2>1. DOMAIN s = {1, 2}
    BY <1>1, <1>4
  <2>2. LabelsOf(s) = {s[1].from} \cup {s[2].from} /\ s[1].from # s[2].from
    BY <2>1 DEF LabelsOf, OncePerLabel
  <2>3. PICK S : S = {s[1].from}
    OBVIOUS
  <2>4. IsFiniteSet(S) /\ Cardinality(S) = 1 /\ s[2].from \notin S
    BY <2>2, <2>3, FS_Singleton
  <2>5. Cardinality(S \cup {s[2].from}) = Cardinality(S) + 1
    BY <2>4, FS_AddElement
  <2>6. QED
    BY <1>4, <2>2, <2>3, <2>4, <2>5
<1>5. QED
  BY <1>1, <1>2, <1>3, <1>4

(* A phi of a program: one pair or two, with predecessors for labels. *)
LEMMA ProgPhis ==
  ASSUME NEW p \in Programs, NEW q \in Blocks, p.phi[q] # <<>>
  PROVE  /\ p.phi[q] \in Seq(Pair) /\ Len(p.phi[q]) \in 1..2 /\ DOMAIN p.phi[q] = 1..Len(p.phi[q])
         /\ LabelsOf(p.phi[q]) \subseteq Predecessors(p, q) /\ OncePerLabel(p.phi[q])
         /\ Len(p.phi[q]) = 2 => LabelsOf(p.phi[q]) = Predecessors(p, q)
<1>1. PICK s : s = p.phi[q]
  OBVIOUS
<1>2. /\ s \in Seq(Pair) /\ Len(s) <= 2 /\ s # <<>>
      /\ Cardinality(Predecessors(p, q)) = 2
      /\ LabelsOf(s) \subseteq Predecessors(p, q) /\ OncePerLabel(s)
  BY <1>1, ProgramsAssumption DEF LabelsOf
<1>3. Len(s) \in Nat /\ DOMAIN s = 1..Len(s) /\ Len(s) # 0
  BY <1>2
<1>4. Len(s) \in 1..2
  BY <1>2, <1>3
<1>5. ASSUME Len(s) = 2 PROVE LabelsOf(s) = Predecessors(p, q)
  <2>1. Cardinality(LabelsOf(s)) = 2
    BY <1>2, <1>5, OnePairEach
  <2>2. IsFiniteSet(Predecessors(p, q))
    BY BlocksFinite, FS_Subset DEF Predecessors
  <2>3. QED
    BY <1>2, <2>1, <2>2, FS_Subset
<1>6. QED
  BY <1>1, <1>2, <1>3, <1>4, <1>5

-------------------------------------------------------------------------------
LEMMA InitInv == Init => GraphInv
<1> SUFFICES ASSUME Init PROVE GraphInv
  OBVIOUS
<1>1. /\ prog \in Programs /\ pc = "fold" /\ blocks = ToSet(prog.order) /\ rest = blocks
      /\ dead = {} /\ merge = {} /\ flag = FALSE /\ phi = prog.phi
      /\ succs = [b \in Blocks |-> ToSet(prog.arms[b])]
      /\ preds = [b \in Blocks |-> Predecessors(prog, b)]
      /\ term = [b \in Blocks |-> [arms |-> prog.arms[b], reads |-> prog.reads[b], folded |-> FALSE]]
      /\ code = [b \in Blocks |-> <<b>>] /\ phis = {b \in Blocks : phi[b] # <<>>}
      /\ labelUses = UNION {{<<phi[q][k].from, q, k>> : k \in DOMAIN phi[q]} : q \in phis}
  BY DEF Init
<1>2. /\ blocks \subseteq Blocks /\ prog.phi \in [Blocks -> Seq(Pair)]
      /\ \A b \in Blocks :
           /\ Len(prog.arms[b]) <= 2 /\ IsInjective(prog.arms[b])
           /\ prog.arms[b] \in Seq(Blocks) /\ ToSet(prog.arms[b]) \subseteq blocks
           /\ b \notin blocks => ToSet(prog.arms[b]) = {}
           /\ prog.reads[b] \in Values
  BY <1>1, ProgFacts
<1>3. /\ phis \subseteq Blocks
      /\ \A q \in phis : /\ phi[q] \in Seq(Pair) /\ Len(phi[q]) \in 1..2 /\ DOMAIN phi[q] = 1..Len(phi[q])
                         /\ Labels(q) \subseteq preds[q] /\ OncePerLabel(phi[q])
                         /\ Len(phi[q]) = 2 => Labels(q) = preds[q]
                         /\ prog.phi[q] = phi[q]
  <2>1. phis \subseteq Blocks
    BY <1>1
  <2>2. ASSUME NEW q \in phis
        PROVE  /\ phi[q] \in Seq(Pair) /\ Len(phi[q]) \in 1..2 /\ DOMAIN phi[q] = 1..Len(phi[q])
               /\ Labels(q) \subseteq preds[q] /\ OncePerLabel(phi[q])
               /\ Len(phi[q]) = 2 => Labels(q) = preds[q]
               /\ prog.phi[q] = phi[q]
    <3>1. q \in Blocks /\ prog.phi[q] # <<>> /\ phi[q] = prog.phi[q] /\ preds[q] = Predecessors(prog, q)
      BY <1>1
    <3>2. /\ prog.phi[q] \in Seq(Pair) /\ Len(prog.phi[q]) \in 1..2 /\ DOMAIN prog.phi[q] = 1..Len(prog.phi[q])
          /\ LabelsOf(prog.phi[q]) \subseteq Predecessors(prog, q) /\ OncePerLabel(prog.phi[q])
          /\ Len(prog.phi[q]) = 2 => LabelsOf(prog.phi[q]) = Predecessors(prog, q)
      BY <1>1, <3>1, ProgPhis
    <3>3. Labels(q) = LabelsOf(prog.phi[q])
      BY <3>1 DEF Labels, LabelsOf
    <3>4. QED
      BY <3>1, <3>2, <3>3
  <2>3. QED
    BY <2>1, <2>2
<1>4. \A b \in Blocks : preds[b] = {a \in blocks : b \in succs[a]} /\ preds[b] \subseteq blocks
  BY <1>1, <1>2 DEF Predecessors
<1>5. \A u \in labelUses : /\ u[2] \in phis /\ u[3] \in DOMAIN phi[u[2]] /\ phi[u[2]][u[3]].from = u[1]
                           /\ u[3] \in 1..2 /\ u = <<u[1], u[2], u[3]>>
  <2> SUFFICES ASSUME NEW u \in labelUses
               PROVE  /\ u[2] \in phis /\ u[3] \in DOMAIN phi[u[2]] /\ phi[u[2]][u[3]].from = u[1]
                      /\ u[3] \in 1..2
                      /\ u = <<u[1], u[2], u[3]>>
    OBVIOUS
  <2>1. PICK q \in phis : u \in {<<phi[q][k].from, q, k>> : k \in DOMAIN phi[q]}
    BY <1>1
  <2>2. PICK k \in DOMAIN phi[q] : u = <<phi[q][k].from, q, k>>
    BY <2>1
  <2>3. u[1] = phi[q][k].from /\ u[2] = q /\ u[3] = k
    BY <2>2
  <2>4. k \in 1..2
    BY <1>3
  <2>5. QED
    BY <2>2, <2>3, <2>4
<1>6. TypeOK
  <2>1. /\ preds \in [Blocks -> SUBSET Blocks] /\ succs \in [Blocks -> SUBSET Blocks]
    BY <1>1, <1>2, <1>4
  <2>2. term \in [Blocks -> [arms : Seq(Blocks), reads : Values, folded : BOOLEAN]]
    BY <1>1, <1>2
  <2>3. code \in [Blocks -> Seq(Blocks)]
    BY <1>1
  <2>4. labelUses \subseteq Blocks \X Blocks \X Nat
    <3> SUFFICES ASSUME NEW u \in labelUses PROVE u \in Blocks \X Blocks \X Nat
      OBVIOUS
    <3>1. u[2] \in Blocks /\ u[1] \in Labels(u[2])
      BY <1>3, <1>5 DEF Labels
    <3>2. u[1] \in Blocks
      BY <1>3, <1>4, <1>5, <1>2, <3>1
    <3>3. u[3] \in Nat
      BY <1>5
    <3>4. QED
      BY <1>5, <3>1, <3>2, <3>3
  <2>5. QED
    BY <1>1, <1>2, <1>3, <2>1, <2>2, <2>3, <2>4 DEF TypeOK
<1>7. EdgesInv
  <2>1. ASSUME NEW b \in blocks
        PROVE  /\ Len(term[b].arms) <= 2 /\ IsInjective(term[b].arms)
               /\ succs[b] = ToSet(term[b].arms) /\ succs[b] \subseteq blocks
    <3>1. term[b].arms = prog.arms[b] /\ succs[b] = ToSet(prog.arms[b]) /\ b \in Blocks
      BY <1>1, <1>2
    <3>2. QED
      BY <1>2, <3>1
  <2>2. \A b \in blocks : preds[b] = {a \in blocks \ dead : b \in succs[a]}
    BY <1>1, <1>2, <1>4
  <2>3. QED
    BY <1>1, <2>1, <2>2 DEF EdgesInv
<1>8. PhisInv
  <2>1. \A b \in blocks : ToSet(code[b]) = {b}
    BY <1>1, <1>2, OneElement
  <2>2. \A b \in blocks : b \in ToSet(code[b])
    BY <2>1
  <2>3. phis \subseteq blocks
    <3> SUFFICES ASSUME NEW q \in phis PROVE q \in blocks
      OBVIOUS
    <3>1. 1 \in DOMAIN phi[q]
      BY <1>3
    <3>2. phi[q][1].from \in preds[q]
      BY <1>3, <3>1 DEF Labels
    <3>3. q \in succs[phi[q][1].from] /\ phi[q][1].from \in blocks
      BY <1>3, <1>4, <3>2
    <3>4. QED
      BY <1>1, <1>2, <3>3
  <2>4. \A q \in phis : Len(phi[q]) <= 2 /\ NotMet(q)
    <3> SUFFICES ASSUME NEW q \in phis PROVE Len(phi[q]) <= 2 /\ NotMet(q)
      OBVIOUS
    <3>1. Len(phi[q]) \in 1..2
      BY <1>3
    <3>2. NotMet(q)
      BY <1>1 DEF NotMet
    <3>3. PICK n : n = Len(phi[q])
      OBVIOUS
    <3>4. n \in 1..2
      BY <3>1, <3>3
    <3>5. n <= 2
      BY ONLY <3>4
    <3>6. QED
      BY <3>2, <3>3, <3>5
  <2>5. phis \ blocks = {}
    BY <2>3
  <2>6. \A b \in blocks : PhisIn(b) \ {b} = {}
    BY <2>1 DEF PhisIn
  <2>7. QED
    BY <1>3, <2>2, <2>4, <2>5, <2>6 DEF PhisInv
<1>9. UsesInv
  BY <1>3, <1>5 DEF UsesInv, Labels
<1>10. UsesComplete
  BY <1>1, <1>3 DEF UsesComplete
<1>11. CodeIsApart
  <2>1. \A b \in blocks : ToSet(code[b]) = {b}
    BY <1>1, <1>2, OneElement
  <2>2. QED
    BY <2>1 DEF CodeIsApart
<1>12. QED
  BY <1>6, <1>7, <1>8, <1>9, <1>10, <1>11 DEF GraphInv

(* A step that touches neither lists nor phis keeps the invariant, if what  *)
(* it claims of the phase it goes to holds.                                 *)
LEMMA QuietInv ==
  ASSUME GraphInv,
         UNCHANGED <<prog, blocks, preds, succs, term, code, phis, phi, labelUses, dead, merge>>,
         pc' \in {"fold", "branches", "sweep", "phis", "compress", "exec", "aborted", "hung", "crashed"},
         rest' \subseteq blocks, flag' \in BOOLEAN,
         pc' # "sweep" => dead = {},
         dead \cap rest' = {},
         pc' = "compress" => pc = "compress" /\ rest' = rest,
         \A q \in phis \cap blocks : Len(phi[q]) = 1 => NotMet(q)'
  PROVE  GraphInv'
<1>1. TypeOK'
  BY DEF GraphInv, TypeOK
<1>2. EdgesInv'
  BY DEF GraphInv, EdgesInv
<1>3. PhisInv'
  BY DEF GraphInv, PhisInv, PhisIn, Labels
<1>4. UsesInv'
  BY DEF GraphInv, UsesInv, Labels
<1>5. UsesComplete'
  BY DEF GraphInv, UsesComplete
<1>6. CodeIsApart'
  BY DEF GraphInv, CodeIsApart
<1>7. QED
  BY <1>1, <1>2, <1>3, <1>4, <1>5, <1>6 DEF GraphInv

(* Where a phase stands. *)
LEMMA PhaseFacts ==
  ASSUME GraphInv
  PROVE  /\ rest \subseteq blocks /\ dead \subseteq blocks /\ flag \in BOOLEAN
         /\ dead \cap rest = {} /\ (pc # "sweep" => dead = {})
         /\ \A q \in phis \cap blocks : Len(phi[q]) = 1 => NotMet(q)
         /\ \A q \in phis \cap blocks : q \in PhisIn(q)
<1>1. \A q \in phis \cap blocks : q \in PhisIn(q)
  BY DEF GraphInv, PhisInv, PhisIn
<1>2. dead \cap rest = {} /\ (pc # "sweep" => dead = {})
  BY DEF GraphInv, EdgesInv
<1>3. QED
  BY <1>1, <1>2 DEF GraphInv, PhisInv, TypeOK

LEMMA QuietVisit ==
  ASSUME GraphInv, NEW b, KeepBranch(b) \/ Keep(b) \/ KeepPhi(b)
  PROVE  GraphInv'
<1> USE DEF graphVars, phiVars, loopVars, execVars, Visit, IsNext
<1>1. /\ UNCHANGED <<prog, blocks, preds, succs, term, code, phis, phi, labelUses, dead, merge>>
      /\ pc' = pc /\ rest' = rest \ {b} /\ flag' = flag
  BY DEF KeepBranch, Keep, KeepPhi
<1>2. pc \in {"branches", "sweep", "phis"}
  BY DEF KeepBranch, Keep, KeepPhi
<1>3. /\ rest \subseteq blocks /\ flag \in BOOLEAN /\ dead \cap rest = {} /\ (pc # "sweep" => dead = {})
  BY PhaseFacts
<1>4. ASSUME NEW q \in phis \cap blocks, Len(phi[q]) = 1
      PROVE  NotMet(q)'
  <2>1. CASE pc = "phis"
    <3>1. SinglePhis(b) = {}
      BY <2>1 DEF KeepBranch, Keep, KeepPhi
    <3>2. q # b
      BY <1>4, <3>1, PhaseFacts DEF SinglePhis
    <3>3. QED
      BY <1>1, <1>4, <2>1, <3>2, PhaseFacts DEF NotMet
  <2>2. CASE pc # "phis"
    BY <1>1, <1>2, <2>2 DEF NotMet
  <2>3. QED
    BY <2>1, <2>2
<1>5. QED
  BY <1>1, <1>2, <1>3, <1>4, QuietInv

LEMMA QuietEnd ==
  ASSUME GraphInv, EndFold \/ EndBranches \/ Again
  PROVE  GraphInv'
<1> USE DEF graphVars, phiVars, loopVars, execVars, EndPhase
<1>1. /\ UNCHANGED <<prog, blocks, preds, succs, term, code, phis, phi, labelUses, dead, merge>>
      /\ rest' = blocks /\ flag' \in BOOLEAN
  BY PhaseFacts DEF EndFold, EndBranches, Again
<1>2. /\ pc' \in {"branches", "sweep", "fold", "exec"}
      /\ pc \in {"fold", "branches", "compress"}
      /\ pc' = "exec" => pc = "compress"
  BY DEF EndFold, EndBranches, Again
<1>3. dead = {}
  BY <1>2, PhaseFacts
<1>4. \A q \in phis \cap blocks : Len(phi[q]) = 1 => NotMet(q)'
  BY <1>2, PhaseFacts DEF NotMet
<1>5. QED
  BY <1>1, <1>2, <1>3, <1>4, QuietInv

(* The pass stops, or what it has made is executed. *)
LEMMA QuietStop ==
  ASSUME GraphInv,
         \/ \E b \in Blocks : DropBranchFails(b) \/ DropPhiFails(b) \/ MergeFails(b)
         \/ Execute
         \/ UNCHANGED vars
  PROVE  GraphInv'
<1> USE DEF graphVars, phiVars, loopVars, execVars
<1>1. CASE \E b \in Blocks : DropBranchFails(b) \/ DropPhiFails(b) \/ MergeFails(b)
  <2>1. /\ UNCHANGED <<prog, blocks, preds, succs, term, code, phis, phi, labelUses, dead, merge>>
        /\ rest' = rest /\ flag' = flag /\ pc' \in {"aborted", "hung", "crashed"}
        /\ pc \in {"branches", "phis", "compress"}
    BY <1>1 DEF DropBranchFails, DropPhiFails, MergeFails, Stop, HowItFails
  <2>2. dead = {} /\ rest' \subseteq blocks /\ flag' \in BOOLEAN
    BY <2>1, PhaseFacts
  <2>3. \A q \in phis \cap blocks : NotMet(q)'
    BY <2>1 DEF NotMet
  <2>4. QED
    BY <2>1, <2>2, <2>3, QuietInv
<1>2. CASE Execute \/ UNCHANGED vars
  <2>1. /\ UNCHANGED <<prog, blocks, preds, succs, term, code, phis, phi, labelUses, dead, merge>>
        /\ rest' = rest /\ flag' = flag /\ pc' = pc
    BY <1>2 DEF Execute, vars
  <2>2. /\ dead \cap rest' = {} /\ rest' \subseteq blocks /\ flag' \in BOOLEAN /\ (pc' # "sweep" => dead = {})
        /\ pc' \in {"fold", "branches", "sweep", "phis", "compress", "exec", "aborted", "hung", "crashed"}
    BY <2>1, PhaseFacts DEF GraphInv, TypeOK
  <2>3. \A q \in phis \cap blocks : Len(phi[q]) = 1 => NotMet(q)'
    BY <2>1, PhaseFacts DEF NotMet
  <2>4. QED
    BY <2>1, <2>2, <2>3, QuietInv
<1>3. QED
  BY <1>1, <1>2

(* The tests of constants are folded: only the flag of the branch changes. *)
LEMMA FoldInv == ASSUME GraphInv, NEW b, Fold(b) PROVE GraphInv'
<1> USE DEF graphVars, phiVars, loopVars, execVars, Visit, IsNext
<1>1. /\ UNCHANGED <<prog, pc, blocks, preds, succs, code, phis, phi, labelUses, dead, merge, flag>>
      /\ pc = "fold" /\ rest' = rest \ {b} /\ b \in rest
      /\ term' = [term EXCEPT ![b].folded = Len(term[b].arms) = 2 /\ term[b].reads \in {Zero, One}]
  BY DEF Fold
<1>2. /\ term \in [Blocks -> [arms : Seq(Blocks), reads : Values, folded : BOOLEAN]]
      /\ b \in Blocks
  BY <1>1 DEF GraphInv, TypeOK
<1>3. /\ term' \in [Blocks -> [arms : Seq(Blocks), reads : Values, folded : BOOLEAN]]
      /\ \A a \in Blocks : term'[a].arms = term[a].arms
  BY <1>1, <1>2
<1>4. TypeOK'
  BY <1>1, <1>3 DEF GraphInv, TypeOK
<1>5. EdgesInv'
  <2>1. blocks \subseteq Blocks
    BY DEF GraphInv, TypeOK
  <2>2. QED
    BY <1>1, <1>3, <2>1 DEF GraphInv, EdgesInv
<1>6. PhisInv'
  BY <1>1 DEF GraphInv, PhisInv, PhisIn, Labels, NotMet
<1>7. UsesInv'
  BY <1>1 DEF GraphInv, UsesInv, Labels
<1>8. UsesComplete'
  BY <1>1 DEF GraphInv, UsesComplete
<1>9. CodeIsApart'
  BY <1>1 DEF GraphInv, CodeIsApart
<1>10. QED
  BY <1>4, <1>5, <1>6, <1>7, <1>8, <1>9 DEF GraphInv

(* The blocks without predecessor leave the list.  No other leads to them,  *)
(* and their phis have lost all operands.                                   *)
LEMMA EndSweepInv == ASSUME GraphInv, EndSweep PROVE GraphInv'
<1> USE DEF graphVars, phiVars, loopVars, execVars, EndPhase
<1>1. /\ UNCHANGED <<prog, preds, succs, term, code, phis, phi, labelUses, merge, flag>>
      /\ pc = "sweep" /\ pc' = "phis" /\ blocks' = blocks \ dead /\ rest' = blocks \ dead /\ dead' = {}
  BY DEF EndSweep
<1>2. TypeOK'
  BY <1>1 DEF GraphInv, TypeOK
<1>3. EdgesInv'
  <2>1. ASSUME NEW b \in blocks \ dead
        PROVE  succs[b] \subseteq blocks \ dead /\ preds[b] = {a \in blocks \ dead : b \in succs[a]}
    BY DEF GraphInv, EdgesInv, TypeOK
  <2>2. QED
    BY <1>1, <2>1 DEF GraphInv, EdgesInv
<1>4. PhisInv'
  <2>1. ASSUME NEW q \in phis \cap dead PROVE phi[q] = <<>>
    <3>1. Labels(q) = {} /\ q \in Blocks
      BY DEF GraphInv, PhisInv, EdgesInv, TypeOK
    <3>2. phi[q] \in Seq(Pair)
      BY <3>1 DEF GraphInv, TypeOK
    <3>3. DOMAIN phi[q] = 1..Len(phi[q]) /\ Len(phi[q]) \in Nat
      BY <3>2
    <3>4. 1 \notin DOMAIN phi[q]
      BY <3>1 DEF Labels
    <3>5. Len(phi[q]) = 0
      BY <3>3, <3>4
    <3>6. QED
      BY <3>2, <3>5
  <2>2. QED
    BY <1>1, <2>1 DEF GraphInv, PhisInv, PhisIn, Labels, NotMet
<1>5. UsesInv'
  BY <1>1 DEF GraphInv, UsesInv, Labels
<1>6. UsesComplete'
  BY <1>1 DEF GraphInv, UsesComplete
<1>7. CodeIsApart'
  BY <1>1 DEF GraphInv, CodeIsApart
<1>8. QED
  BY <1>2, <1>3, <1>4, <1>5, <1>6, <1>7 DEF GraphInv

LEMMA SingleSet ==
  ASSUME NEW S \in SUBSET Blocks, Cardinality(S) = 1
  PROVE  \E x \in Blocks : S = {x}
<1>1. IsFiniteSet(S)
  BY BlocksFinite, FS_Subset
<1>2. PICK x : S = {x}
  BY <1>1, FS_Singleton
<1>3. QED
  BY <1>2

LEMMA FunctionIsSeq ==
  ASSUME NEW S, NEW n \in Nat, NEW f \in [1..n -> S]
  PROVE  f \in Seq(S) /\ Len(f) = n
OBVIOUS

(* wait_merge: blocks with one predecessor that leads nowhere else. *)
LEMMA EndPhisInv == ASSUME GraphInv, EndPhis PROVE GraphInv'
<1> USE DEF graphVars, phiVars, loopVars, execVars, EndPhase
<1>1. /\ UNCHANGED <<prog, blocks, preds, succs, term, code, phis, phi, labelUses, rest, dead, flag>>
      /\ pc = "phis" /\ pc' = "compress" /\ rest = {} /\ merge' = Mergeable
  BY DEF EndPhis
<1>2. blocks \subseteq Blocks /\ preds \in [Blocks -> SUBSET Blocks] /\ succs \in [Blocks -> SUBSET Blocks]
  BY DEF GraphInv, TypeOK
<1>3. dead = {}
  BY <1>1, PhaseFacts
<1>4. TypeOK'
  BY <1>1, <1>2 DEF GraphInv, TypeOK, Mergeable
<1>5. ASSUME NEW b \in Mergeable
      PROVE  b \in blocks /\ \E p \in blocks : preds[b] = {p} /\ succs[p] = {b}
  <2>1. b \in blocks /\ Cardinality(preds[b]) = 1 /\ \A p \in preds[b] : Cardinality(succs[p]) = 1
    BY <1>5 DEF Mergeable
  <2>2. PICK p \in Blocks : preds[b] = {p}
    BY <1>2, <2>1, SingleSet
  <2>3. p \in blocks /\ b \in succs[p]
    BY <2>1, <2>2 DEF GraphInv, EdgesInv
  <2>4. PICK c \in Blocks : succs[p] = {c}
    BY <1>2, <2>1, <2>2, SingleSet
  <2>5. QED
    BY <2>1, <2>2, <2>3, <2>4
<1>6. EdgesInv'
  BY <1>1, <1>3, <1>5 DEF GraphInv, EdgesInv
<1>7. PhisInv'
  BY <1>1 DEF GraphInv, PhisInv, PhisIn, Labels, NotMet
<1>8. UsesInv'
  BY <1>1 DEF GraphInv, UsesInv, Labels
<1>9. UsesComplete'
  BY <1>1 DEF GraphInv, UsesComplete
<1>10. CodeIsApart'
  BY <1>1 DEF GraphInv, CodeIsApart
<1>11. QED
  BY <1>4, <1>6, <1>7, <1>8, <1>9, <1>10 DEF GraphInv

-------------------------------------------------------------------------------
(****************************************************************************)
(* A phi is replaced by one of its operands, phis are deleted.              *)
(****************************************************************************)
LEMMA ReplacedPhis ==
  ASSUME GraphInv, NEW p, NEW v \in Values, Replace(p, v)
  PROVE  /\ phi' \in [Blocks -> Seq(Pair)]
         /\ \A q \in Blocks : /\ DOMAIN phi'[q] = DOMAIN phi[q] /\ Len(phi'[q]) = Len(phi[q])
                              /\ \A k \in DOMAIN phi[q] : phi'[q][k].from = phi[q][k].from
<1>1. phi' = [q \in Blocks |-> [k \in DOMAIN phi[q] |->
                IF <<p, q, k>> \in valueUses THEN [phi[q][k] EXCEPT !.val = v] ELSE phi[q][k]]]
  BY DEF Replace
<1>2. ASSUME NEW q \in Blocks
      PROVE  /\ phi'[q] \in Seq(Pair)
             /\ DOMAIN phi'[q] = DOMAIN phi[q] /\ Len(phi'[q]) = Len(phi[q])
             /\ \A k \in DOMAIN phi[q] : phi'[q][k].from = phi[q][k].from
  <2> DEFINE n == Len(phi[q])
  <2>1. n \in Nat /\ DOMAIN phi[q] = 1..n /\ \A k \in 1..n : phi[q][k] \in Pair
    BY DEF GraphInv, TypeOK
  <2>2. phi'[q] = [k \in 1..n |->
                     IF <<p, q, k>> \in valueUses THEN [phi[q][k] EXCEPT !.val = v] ELSE phi[q][k]]
    BY <1>1, <2>1
  <2>3. ASSUME NEW k \in 1..n
        PROVE  [phi[q][k] EXCEPT !.val = v] \in Pair /\ [phi[q][k] EXCEPT !.val = v].from = phi[q][k].from
    BY <2>1 DEF Pair
  <2>4. phi'[q] \in [1..n -> Pair] /\ \A k \in 1..n : phi'[q][k].from = phi[q][k].from
    BY <2>1, <2>2, <2>3
  <2>5. PICK s : s = phi'[q]
    OBVIOUS
  <2>6. s \in Seq(Pair) /\ Len(s) = n
    BY <2>1, <2>4, <2>5, FunctionIsSeq
  <2>7. QED
    BY <2>1, <2>4, <2>5, <2>6
<1>3. phi' \in [Blocks -> Seq(Pair)]
  BY <1>1, <1>2
<1>4. QED
  BY <1>1, <1>2, <1>3

LEMMA PhisGone ==
  ASSUME GraphInv, NEW gone, NEW uses, Delete(gone, uses),
         phi' \in [Blocks -> Seq(Pair)],
         \A q \in Blocks : /\ DOMAIN phi'[q] = DOMAIN phi[q] /\ Len(phi'[q]) = Len(phi[q])
                           /\ \A k \in DOMAIN phi[q] : phi'[q][k].from = phi[q][k].from,
         UNCHANGED <<prog, blocks, code>>,
         \A q \in (phis \ gone) \cap blocks : preds'[q] = preds[q] /\ (Len(phi[q]) = 1 => NotMet(q)')
  PROVE  /\ PhisInv' /\ UsesInv' /\ UsesComplete' /\ CodeIsApart'
         /\ phis' \subseteq phis /\ labelUses' \subseteq labelUses
<1>1. phis' = phis \ gone /\ labelUses' = {u \in labelUses : u[2] \notin gone}
  BY DEF Delete
<1>2. \A q \in Blocks : /\ DOMAIN phi'[q] = DOMAIN phi[q] /\ Len(phi'[q]) = Len(phi[q])
                        /\ \A k \in DOMAIN phi[q] : phi'[q][k].from = phi[q][k].from
  OBVIOUS
<1>3. blocks \subseteq Blocks /\ phis \subseteq Blocks
  BY DEF GraphInv, TypeOK
<1>4. \A q \in Blocks : Labels(q)' = Labels(q)
  BY <1>2 DEF Labels
<1>5. PhisInv'
  <2>1. ASSUME NEW b \in blocks
        PROVE  b \in ToSet(code[b]) /\ \A q \in PhisIn(b)' \ {b} : Len(prog.phi[q]) # 2
    BY <1>1 DEF GraphInv, PhisInv, PhisIn
  <2>2. ASSUME NEW q \in (phis \ gone) \ blocks PROVE phi'[q] = <<>>
    <3>1. phi[q] = <<>> /\ q \in Blocks
      BY <1>3 DEF GraphInv, PhisInv
    <3>2. PICK s : s = phi'[q]
      OBVIOUS
    <3>3. s \in Seq(Pair) /\ Len(s) = 0
      BY <1>1, <1>2, <3>1, <3>2
    <3>4. QED
      BY <3>2, <3>3
  <2>3. ASSUME NEW q \in (phis \ gone) \cap blocks
        PROVE  /\ Len(phi'[q]) <= 2 /\ OncePerLabel(phi'[q]) /\ Labels(q)' \subseteq preds'[q]
               /\ Len(prog.phi[q]) = 2 => Labels(q)' = preds'[q]
               /\ Len(phi'[q]) = 1 => NotMet(q)'
    <3>1. /\ Len(phi[q]) <= 2 /\ OncePerLabel(phi[q]) /\ Labels(q) \subseteq preds[q]
          /\ Len(prog.phi[q]) = 2 => Labels(q) = preds[q]
      BY DEF GraphInv, PhisInv
    <3>2. q \in Blocks /\ preds'[q] = preds[q] /\ Labels(q)' = Labels(q)
      BY <1>3, <1>4
    <3>3. OncePerLabel(phi'[q])
      BY <1>2, <3>1, <3>2 DEF OncePerLabel
    <3>4. Len(phi'[q]) = Len(phi[q])
      BY <1>2, <3>2
    <3>5. QED
      BY <3>1, <3>2, <3>3, <3>4
  <2>4. QED
    BY <1>1, <2>1, <2>2, <2>3 DEF PhisInv
<1>6. UsesInv'
  <2>1. ASSUME NEW u \in labelUses, u[2] \notin gone
        PROVE  /\ u[2] \in phis \ gone
               /\ u[1] \in blocks =>
                    /\ u[1] \in Labels(u[2])'
                    /\ Len(phi'[u[2]]) = 2 => u[3] \in 1..2 /\ phi'[u[2]][u[3]].from = u[1]
    <3>1. u[2] \in phis \ gone /\ u[2] \in Blocks
      BY <1>3, <2>1 DEF GraphInv, UsesInv
    <3>2. Len(phi[u[2]]) = 2 => DOMAIN phi[u[2]] = 1..2
      BY <3>1 DEF GraphInv, TypeOK
    <3>3. QED
      BY <1>2, <1>4, <3>1, <3>2 DEF GraphInv, UsesInv
  <2>2. QED
    BY <1>1, <2>1 DEF UsesInv
<1>7. UsesComplete'
  <2>1. ASSUME NEW q \in phis \ gone, Len(phi'[q]) = 2, NEW k \in 1..2
        PROVE  <<phi'[q][k].from, q, k>> \in labelUses'
    <3>1. q \in Blocks /\ Len(phi[q]) = 2
      BY <1>2, <1>3, <2>1
    <3>2. k \in DOMAIN phi[q]
      BY <3>1 DEF GraphInv, TypeOK
    <3>3. <<phi[q][k].from, q, k>> \in labelUses
      BY <3>1 DEF GraphInv, UsesComplete
    <3>4. phi'[q][k].from = phi[q][k].from
      BY <1>2, <3>1, <3>2
    <3>5. QED
      BY <1>1, <3>3, <3>4
  <2>2. QED
    BY <1>1, <2>1 DEF UsesComplete
<1>8. CodeIsApart'
  BY DEF GraphInv, CodeIsApart
<1>9. phis' \subseteq phis /\ labelUses' \subseteq labelUses
  BY <1>1
<1>10. QED
  BY ONLY <1>5, <1>6, <1>7, <1>8, <1>9

LEMMA RereadTerm ==
  ASSUME GraphInv, NEW p, NEW v \in Values
  PROVE  /\ Rereading(p, v) \in [Blocks -> [arms : Seq(Blocks), reads : Values, folded : BOOLEAN]]
         /\ \A b \in Blocks : Rereading(p, v)[b].arms = term[b].arms
<1>1. term \in [Blocks -> [arms : Seq(Blocks), reads : Values, folded : BOOLEAN]]
  BY DEF GraphInv, TypeOK
<1>2. ASSUME NEW b \in Blocks
      PROVE  /\ [term[b] EXCEPT !.reads = v] \in [arms : Seq(Blocks), reads : Values, folded : BOOLEAN]
             /\ [term[b] EXCEPT !.reads = v].arms = term[b].arms
  BY <1>1
<1>3. QED
  BY <1>1, <1>2 DEF Rereading

(* A phi with one operand.                                                  *)
LEMMA DropPhiInv == ASSUME GraphInv, NEW b, DropPhi(b) PROVE GraphInv'
<1> USE DEF graphVars, phiVars, loopVars, execVars, Visit, IsNext
<1>1. /\ UNCHANGED <<prog, pc, blocks, preds, succs, code, dead, merge>>
      /\ pc = "phis" /\ rest' = rest \ {b} /\ b \in rest /\ flag' = TRUE
  BY DEF DropPhi
<1>2. PICK p \in SinglePhis(b) :
        /\ Replace(p, phi[p][1].val) /\ Delete({p}, Passed(p, phi[p][1].val))
        /\ term' = Rereading(p, phi[p][1].val)
  BY DEF DropPhi
<1>3. p \in phis /\ p = b /\ Len(phi[p]) = 1 /\ p \in Blocks
  <2>1. p \in phis /\ p \in ToSet(code[b]) /\ Len(phi[p]) = 1 /\ p \in Blocks
    BY <1>2 DEF SinglePhis, PhisIn, GraphInv, TypeOK
  <2>2. p \in blocks
    BY <2>1 DEF GraphInv, PhisInv
  <2>3. b \in blocks /\ p \in ToSet(code[p])
    BY <1>1, <2>2, PhaseFacts DEF GraphInv, PhisInv
  <2>4. p = b
    BY <2>1, <2>2, <2>3 DEF GraphInv, CodeIsApart
  <2>5. QED
    BY <2>1, <2>4
<1>4. PICK v : v = phi[p][1].val
  OBVIOUS
<1>5. v \in Values
  <2>1. phi[p] \in Seq(Pair)
    BY <1>3 DEF GraphInv, TypeOK
  <2>2. phi[p][1] \in Pair
    BY <1>3, <2>1
  <2>3. QED
    BY <1>4, <2>2 DEF Pair
<1>6. Replace(p, v) /\ Delete({p}, Passed(p, v)) /\ term' = Rereading(p, v)
  BY <1>2, <1>4
<1>7. /\ term' \in [Blocks -> [arms : Seq(Blocks), reads : Values, folded : BOOLEAN]]
      /\ \A a \in Blocks : term'[a].arms = term[a].arms
  BY <1>5, <1>6, RereadTerm
<1>8. /\ phi' \in [Blocks -> Seq(Pair)]
      /\ \A q \in Blocks : /\ DOMAIN phi'[q] = DOMAIN phi[q] /\ Len(phi'[q]) = Len(phi[q])
                           /\ \A k \in DOMAIN phi[q] : phi'[q][k].from = phi[q][k].from
  BY <1>5, <1>6, ReplacedPhis
<1>9. EdgesInv'
  <2>1. blocks \subseteq Blocks
    BY DEF GraphInv, TypeOK
  <2>2. QED
    BY <1>1, <1>7, <2>1 DEF GraphInv, EdgesInv
<1>10. /\ PhisInv' /\ UsesInv' /\ UsesComplete' /\ CodeIsApart'
       /\ phis' \subseteq phis /\ labelUses' \subseteq labelUses
  <2>1. \A q \in (phis \ {p}) \cap blocks : preds'[q] = preds[q] /\ (Len(phi[q]) = 1 => NotMet(q)')
    BY <1>1, <1>3, PhaseFacts DEF NotMet
  <2>2. UNCHANGED <<prog, blocks, code>>
    BY <1>1
  <2>3. QED
    BY <1>6, <1>8, <2>1, <2>2, PhisGone
<1>11. TypeOK'
  BY <1>1, <1>7, <1>8, <1>10 DEF GraphInv, TypeOK
<1>12. QED
  BY <1>9, <1>10, <1>11 DEF GraphInv

-------------------------------------------------------------------------------
(****************************************************************************)
(* A branch that is always taken the same way.                              *)
(****************************************************************************)
LEMMA DecidedBranch ==
  ASSUME GraphInv, NEW b \in blocks, Decided(b)
  PROVE  /\ Kept(b) \in blocks /\ Dropped(b) \in blocks /\ Kept(b) # Dropped(b)
         /\ succs[b] = {Kept(b), Dropped(b)}
<1>1. b \in Blocks /\ term[b].arms \in Seq(Blocks) /\ Len(term[b].arms) = 2
  BY DEF GraphInv, TypeOK, Decided
<1>2. /\ IsInjective(term[b].arms) /\ succs[b] = ToSet(term[b].arms)
      /\ succs[b] \subseteq blocks
  BY DEF GraphInv, EdgesInv
<1>3. DOMAIN term[b].arms = 1..2
  BY <1>1
<1>4. term[b].arms[1] # term[b].arms[2]
  BY <1>2, <1>3 DEF IsInjective
<1>5. succs[b] = {term[b].arms[1], term[b].arms[2]}
  BY <1>1, <1>2, TwoElements
<1>6. QED
  BY <1>2, <1>4, <1>5 DEF Kept, Dropped

EndedAt(t, b, k) == [t EXCEPT ![b].arms = <<k>>, ![b].reads = Unknown]

LEMMA EndedTerm ==
  ASSUME NEW t \in [Blocks -> [arms : Seq(Blocks), reads : Values, folded : BOOLEAN]],
         NEW b \in Blocks, NEW k \in Blocks
  PROVE  /\ EndedAt(t, b, k) \in [Blocks -> [arms : Seq(Blocks), reads : Values, folded : BOOLEAN]]
         /\ \A a \in Blocks : EndedAt(t, b, k)[a].arms = IF a = b THEN <<k>> ELSE t[a].arms
<1> DEFINE r == [[t[b] EXCEPT !.arms = <<k>>] EXCEPT !.reads = Unknown]
<1>1. <<k>> \in Seq(Blocks) /\ Unknown \in Values
  BY DEF Values
<1>2. r \in [arms : Seq(Blocks), reads : Values, folded : BOOLEAN] /\ r.arms = <<k>>
  BY <1>1
<1>3. EndedAt(t, b, k) = [t EXCEPT ![b] = r]
  BY DEF EndedAt
<1> HIDE DEF r
<1>4. /\ EndedAt(t, b, k) \in [Blocks -> [arms : Seq(Blocks), reads : Values, folded : BOOLEAN]]
      /\ \A a \in Blocks : EndedAt(t, b, k)[a].arms = IF a = b THEN <<k>> ELSE t[a].arms
  BY <1>2, <1>3
<1>5. QED
  BY <1>4

LEMMA TakeOut ==
  ASSUME NEW S, NEW s \in Seq(S), NEW k \in 1..Len(s)
  PROVE  /\ RemoveAt(s, k) \in Seq(S)
         /\ Len(RemoveAt(s, k)) = Len(s) - 1
         /\ \A i \in 1..(Len(s) - 1) : RemoveAt(s, k)[i] = IF i < k THEN s[i] ELSE s[i + 1]
<1>1. RemoveAt(s, k) = SubSeq(s, 1, k - 1) \o SubSeq(s, k + 1, Len(s))
  BY DEF RemoveAt
<1> DEFINE p == SubSeq(s, 1, k - 1)
           q == SubSeq(s, k + 1, Len(s))
<1>2. Len(s) \in Nat /\ k \in Nat /\ 1 <= k /\ k <= Len(s)
  OBVIOUS
<1>3. p \in Seq(S) /\ Len(p) = k - 1 /\ \A i \in 1..(k - 1) : p[i] = s[i]
  BY <1>2
<1>4. q \in Seq(S) /\ Len(q) = Len(s) - k /\ \A i \in 1..(Len(s) - k) : q[i] = s[k + i]
  BY <1>2
<1> HIDE DEF p, q
<1>5. p \o q \in Seq(S) /\ Len(p \o q) = Len(p) + Len(q)
  BY <1>3, <1>4, ConcatProperties
<1>6. Len(p) + Len(q) = Len(s) - 1
  BY <1>2, <1>3, <1>4
<1>7. ASSUME NEW i \in 1..(Len(s) - 1) PROVE (p \o q)[i] = IF i < k THEN s[i] ELSE s[i + 1]
  <2>1. CASE i < k
    BY <1>2, <1>3, <1>4, <2>1
  <2>2. CASE ~(i < k)
    <3>1. i - (k - 1) \in 1..(Len(s) - k) /\ k + (i - (k - 1)) = i + 1
      BY <1>2, <2>2
    <3>2. (p \o q)[i] = q[i - (k - 1)]
      BY <1>2, <1>3, <1>4, <2>2
    <3>3. QED
      BY <1>4, <2>2, <3>1, <3>2
  <2>3. QED
    BY <2>1, <2>2
<1>8. QED
  BY <1>1, <1>5, <1>6, <1>7 DEF p, q

Without(s, b) == RemoveFirstMatch(s, LAMBDA pair : pair.from = b)

(* A phi loses the pair of a block that is no predecessor any more. *)
LEMMA OthersOf ==
  ASSUME NEW s \in Seq(Pair), OncePerLabel(s), NEW b
  PROVE  /\ Without(s, b) \in Seq(Pair) /\ OncePerLabel(Without(s, b))
         /\ LabelsOf(Without(s, b)) = LabelsOf(s) \ {b}
         /\ b \notin LabelsOf(s) => Without(s, b) = s
         /\ b \in LabelsOf(s) => Len(Without(s, b)) = Len(s) - 1
<1> DEFINE r == Without(s, b)
<1>1. DOMAIN s = 1..Len(s) /\ Len(s) \in Nat
  OBVIOUS
<1>2. CASE b \notin LabelsOf(s)
  <2>1. ~ \E i \in 1..Len(s) : s[i].from = b
    BY <1>1, <1>2 DEF LabelsOf
  <2>2. r = s
    BY <2>1 DEF RemoveFirstMatch, Without
  <2>3. QED
    BY <1>2, <2>2
<1>3. CASE b \in LabelsOf(s)
  <2>1. PICK k \in 1..Len(s) : s[k].from = b
    BY <1>1, <1>3 DEF LabelsOf
  <2> DEFINE I == {i \in 1..Len(s) : s[i].from = b}
             n == Len(s) - 1
  <2>2. I = {k}
    BY <1>1, <2>1 DEF OncePerLabel
  <2>3. Min(I) = k
    <3>1. \A x \in I : (\A y \in I : x <= y) <=> x = k
      BY <2>2
    <3>2. k \in I
      BY <2>2
    <3>3. QED
      BY <3>1, <3>2 DEF Min
  <2>4. SelectInSeq(s, LAMBDA pair : pair.from = b) = k
    BY <2>2, <2>3 DEF SelectInSeq
  <2>5. r = RemoveAt(s, k)
    BY <2>1, <2>4 DEF RemoveFirstMatch, Without
  <2>6. r \in Seq(Pair) /\ Len(r) = n /\ \A i \in 1..n : r[i] = IF i < k THEN s[i] ELSE s[i + 1]
    BY <2>5, TakeOut
  <2> HIDE DEF r, I
  <2>7. n \in Nat /\ DOMAIN r = 1..n /\ k \in 1..Len(s)
    BY <1>1, <2>1, <2>6
  <2>8. ASSUME NEW i \in 1..n, NEW j \in 1..n, r[i].from = r[j].from PROVE i = j
    <3> DEFINE x == IF i < k THEN i ELSE i + 1
               y == IF j < k THEN j ELSE j + 1
    <3>1. x \in 1..Len(s) /\ y \in 1..Len(s) /\ r[i] = s[x] /\ r[j] = s[y]
      BY <1>1, <2>6, <2>7
    <3>2. x = y
      BY <1>1, <2>8, <3>1 DEF OncePerLabel
    <3>3. QED
      BY <2>7, <3>2
  <2>9. ASSUME NEW i \in 1..n PROVE r[i].from \in LabelsOf(s) \ {b}
    <3> DEFINE x == IF i < k THEN i ELSE i + 1
    <3>1. x \in 1..Len(s) /\ r[i] = s[x] /\ x # k
      BY <1>1, <2>6, <2>7
    <3>2. s[x].from # b
      BY <1>1, <2>1, <3>1 DEF OncePerLabel
    <3>3. QED
      BY <1>1, <3>1, <3>2 DEF LabelsOf
  <2>10. ASSUME NEW v \in LabelsOf(s) \ {b} PROVE \E i \in 1..n : r[i].from = v
    <3>1. PICK x \in 1..Len(s) : s[x].from = v
      BY <1>1 DEF LabelsOf
    <3>2. x # k
      BY <2>1, <2>10, <3>1
    <3> DEFINE i == IF x < k THEN x ELSE x - 1
    <3>3. i \in 1..n /\ (IF i < k THEN i ELSE i + 1) = x
      BY <1>1, <2>7, <3>2
    <3>4. r[i] = s[x]
      BY <2>6, <3>3
    <3>5. QED
      BY <3>1, <3>3, <3>4
  <2>11. OncePerLabel(r)
    BY <2>7, <2>8 DEF OncePerLabel
  <2>12. LabelsOf(r) = LabelsOf(s) \ {b}
    BY <2>7, <2>9, <2>10 DEF LabelsOf
  <2>13. QED
    BY <1>3, <2>6, <2>11, <2>12 DEF r
<1>4. QED
  BY <1>2, <1>3

(* The pairs of a phi that is in a block. *)
LEMMA PhiPairs ==
  ASSUME GraphInv, NEW q \in phis
  PROVE  q \in Blocks /\ phi[q] \in Seq(Pair) /\ OncePerLabel(phi[q])
<1>1. q \in Blocks /\ phi[q] \in Seq(Pair)
  BY DEF GraphInv, TypeOK
<1>2. OncePerLabel(<<>>)
  BY DEF OncePerLabel
<1>3. OncePerLabel(phi[q])
  <2>1. CASE q \in blocks
    BY <2>1 DEF GraphInv, PhisInv
  <2>2. CASE q \notin blocks
    BY <1>2, <2>2 DEF GraphInv, PhisInv
  <2>3. QED
    BY <2>1, <2>2
<1>4. QED
  BY <1>1, <1>3

(* The graph without the edge from b to d. *)
LEMMA EdgeGone ==
  ASSUME GraphInv, NEW b \in blocks, NEW k \in blocks, NEW d \in blocks, k # d, succs[b] = {k, d},
         pc = "branches", pc' = pc, blocks' = blocks, dead' = dead, merge' = merge,
         \A a \in Blocks : succs'[a] = IF a = b THEN {k} ELSE succs[a],
         \A a \in Blocks : preds'[a] = IF a = d THEN preds[d] \ {b} ELSE preds[a],
         \A a \in Blocks : term'[a].arms = IF a = b THEN <<k>> ELSE term[a].arms
  PROVE  EdgesInv'
<1>1. blocks \subseteq Blocks /\ preds \in [Blocks -> SUBSET Blocks] /\ succs \in [Blocks -> SUBSET Blocks]
  BY DEF GraphInv, TypeOK
<1>2. dead = {}
  BY PhaseFacts
<1>4. ASSUME NEW a \in blocks
      PROVE  /\ Len(term'[a].arms) <= 2 /\ IsInjective(term'[a].arms)
             /\ succs'[a] = ToSet(term'[a].arms) /\ succs'[a] \subseteq blocks
  <2>1. CASE a = b
    <3>1. term'[a].arms = <<k>> /\ succs'[a] = {k}
      BY <1>1, <2>1
    <3>2. Len(<<k>>) <= 2 /\ IsInjective(<<k>>)
      BY DEF IsInjective
    <3>3. ToSet(<<k>>) = {k}
      BY OneElement
    <3>4. QED
      BY <3>1, <3>2, <3>3
  <2>2. CASE a # b
    <3>1. term'[a].arms = term[a].arms /\ succs'[a] = succs[a]
      BY <1>1, <2>2
    <3>2. QED
      BY <3>1 DEF GraphInv, EdgesInv
  <2>3. QED
    BY <2>1, <2>2
<1>5. ASSUME NEW a \in blocks PROVE preds'[a] = {c \in blocks : a \in succs'[c]}
  <2>1. preds[a] = {c \in blocks : a \in succs[c]}
    BY <1>2 DEF GraphInv, EdgesInv
  <2>2. QED
    BY <1>1, <2>1
<1>6. QED
  BY <1>2, <1>4, <1>5 DEF EdgesInv

LEMMA DropBranchInv == ASSUME GraphInv, NEW b, DropBranch(b) PROVE GraphInv'
<1> USE DEF graphVars, phiVars, loopVars, execVars, Visit, IsNext
<1>1. /\ UNCHANGED <<prog, pc, blocks, code, dead, merge, flag>>
      /\ pc = "branches" /\ rest' = rest \ {b} /\ b \in rest /\ Decided(b)
      /\ preds' = [preds EXCEPT ![Dropped(b)] = @ \ {b}]
      /\ succs' = [succs EXCEPT ![b] = {Kept(b)}]
  BY DEF DropBranch
<1>2. PICK k, d : k = Kept(b) /\ d = Dropped(b)
  OBVIOUS
<1>3. /\ b \in blocks /\ k \in blocks /\ d \in blocks /\ k # d /\ succs[b] = {k, d}
      /\ blocks \subseteq Blocks /\ rest \subseteq blocks
  BY <1>1, <1>2, DecidedBranch, PhaseFacts DEF GraphInv, TypeOK
<1>4. /\ preds' = [preds EXCEPT ![d] = @ \ {b}] /\ succs' = [succs EXCEPT ![b] = {k}]
  BY <1>1, <1>2
<1>5. /\ preds' \in [Blocks -> SUBSET Blocks] /\ succs' \in [Blocks -> SUBSET Blocks]
      /\ \A q \in blocks \ {d} : preds'[q] = preds[q]
  BY <1>3, <1>4 DEF GraphInv, TypeOK
<1>6. \A q \in phis \cap blocks : NotMet(q)'
  BY <1>1 DEF NotMet
<1>7. ASSUME \A a \in Blocks : term'[a].arms = IF a = b THEN <<k>> ELSE term[a].arms
      PROVE  EdgesInv'
  <2>1. pc = "branches" /\ pc' = pc /\ blocks' = blocks /\ dead' = dead /\ merge' = merge
    BY <1>1
  <2>2. /\ \A a \in Blocks : succs'[a] = IF a = b THEN {k} ELSE succs[a]
        /\ \A a \in Blocks : preds'[a] = IF a = d THEN preds[d] \ {b} ELSE preds[a]
    BY <1>3, <1>4 DEF GraphInv, TypeOK
  <2>3. b \in blocks /\ k \in blocks /\ d \in blocks /\ k # d /\ succs[b] = {k, d}
    BY <1>3
  <2>4. QED
    BY <1>7, <2>1, <2>2, <2>3, EdgeGone
<1>8. /\ term \in [Blocks -> [arms : Seq(Blocks), reads : Values, folded : BOOLEAN]]
      /\ phi \in [Blocks -> Seq(Pair)] /\ b \in Blocks /\ k \in Blocks
  BY <1>3 DEF GraphInv, TypeOK
<1>9. ASSUME NEW t \in [Blocks -> [arms : Seq(Blocks), reads : Values, folded : BOOLEAN]],
             \A a \in Blocks : t[a].arms = term[a].arms,
             term' = [t EXCEPT ![b].arms = <<k>>, ![b].reads = Unknown]
      PROVE  /\ term' \in [Blocks -> [arms : Seq(Blocks), reads : Values, folded : BOOLEAN]]
             /\ EdgesInv'
  <2>1. term' = EndedAt(t, b, k)
    BY <1>9 DEF EndedAt
  <2>2. /\ EndedAt(t, b, k) \in [Blocks -> [arms : Seq(Blocks), reads : Values, folded : BOOLEAN]]
        /\ \A a \in Blocks : EndedAt(t, b, k)[a].arms = IF a = b THEN <<k>> ELSE t[a].arms
    BY <1>8, EndedTerm
  <2>3. \A a \in Blocks : term'[a].arms = IF a = b THEN <<k>> ELSE term[a].arms
    BY <1>9, <2>1, <2>2
  <2>4. QED
    BY <1>7, <2>1, <2>2, <2>3
<1>10. CASE PhisIn(d) = {} /\ term' = [term EXCEPT ![b].arms = <<k>>, ![b].reads = Unknown] /\ UNCHANGED phiVars
  <2>1. /\ term' \in [Blocks -> [arms : Seq(Blocks), reads : Values, folded : BOOLEAN]]
        /\ EdgesInv'
    BY <1>8, <1>9, <1>10
  <2>2. d \notin phis
    BY <1>3, <1>10, PhaseFacts
  <2>3. TypeOK'
    BY <1>1, <1>5, <1>10, <2>1 DEF GraphInv, TypeOK
  <2>4. PhisInv'
    <3>1. \A q \in phis \cap blocks : preds'[q] = preds[q]
      BY <1>5, <2>2
    <3>2. UNCHANGED <<prog, blocks, code, phis, phi>>
      BY <1>1, <1>10
    <3>3. \A a \in blocks : a \in ToSet(code[a]) /\ \A q \in PhisIn(a)' \ {a} : Len(prog.phi[q]) # 2
      BY <3>2 DEF GraphInv, PhisInv, PhisIn
    <3>4. \A q \in Blocks : Labels(q)' = Labels(q)
      BY <3>2 DEF Labels
    <3>5. phis \subseteq Blocks
      BY DEF GraphInv, TypeOK
    <3>6. QED
      BY <1>6, <3>1, <3>2, <3>3, <3>4, <3>5 DEF GraphInv, PhisInv
  <2>5. UsesInv'
    BY <1>1, <1>10 DEF GraphInv, UsesInv, Labels
  <2>6. UsesComplete'
    BY <1>1, <1>10 DEF GraphInv, UsesComplete
  <2>7. CodeIsApart'
    BY <1>1 DEF GraphInv, CodeIsApart
  <2>8. QED
    BY <2>1, <2>3, <2>4, <2>5, <2>6, <2>7 DEF GraphInv
<1>11. ASSUME NEW uses, Delete(PhisIn(d), uses),
              phi' \in [Blocks -> Seq(Pair)],
              \A q \in Blocks : /\ DOMAIN phi'[q] = DOMAIN phi[q] /\ Len(phi'[q]) = Len(phi[q])
                                /\ \A j \in DOMAIN phi[q] : phi'[q][j].from = phi[q][j].from,
              NEW t \in [Blocks -> [arms : Seq(Blocks), reads : Values, folded : BOOLEAN]],
              \A a \in Blocks : t[a].arms = term[a].arms,
              term' = [t EXCEPT ![b].arms = <<k>>, ![b].reads = Unknown]
       PROVE  GraphInv'
  <2>1. /\ term' \in [Blocks -> [arms : Seq(Blocks), reads : Values, folded : BOOLEAN]]
        /\ EdgesInv'
    BY <1>9, <1>11
  <2>2. /\ PhisInv' /\ UsesInv' /\ UsesComplete' /\ CodeIsApart'
        /\ phis' \subseteq phis /\ labelUses' \subseteq labelUses
    <3>1. PICK gone : gone = PhisIn(d)
      OBVIOUS
    <3>2. d \in phis => d \in gone
      BY <1>3, <3>1, PhaseFacts
    <3>3. \A q \in (phis \ gone) \cap blocks : preds'[q] = preds[q] /\ (Len(phi[q]) = 1 => NotMet(q)')
      BY <1>5, <1>6, <3>2
    <3>4. UNCHANGED <<prog, blocks, code>> /\ Delete(gone, uses)
      BY <1>1, <1>11, <3>1
    <3>5. QED
      BY <1>11, <3>3, <3>4, PhisGone
  <2>3. TypeOK'
    BY <1>1, <1>5, <1>11, <2>1, <2>2 DEF GraphInv, TypeOK
  <2>4. QED
    BY <2>1, <2>2, <2>3 DEF GraphInv
<1>12. CASE /\ term' = [term EXCEPT ![b].arms = <<k>>, ![b].reads = Unknown]
            /\ phi' = phi /\ Delete(PhisIn(d), valueUses)
  BY <1>8, <1>11, <1>12
<1>13. ASSUME NEW p \in PhisIn(d), Others(p, b) # <<>>,
              term' = [Rereading(p, Last(Others(p, b)).val) EXCEPT ![b].arms = <<k>>, ![b].reads = Unknown],
              Replace(p, Last(Others(p, b)).val), Delete(PhisIn(d), Passed(p, Last(Others(p, b)).val))
       PROVE  GraphInv'
  <2>1. PICK v : v = Last(Others(p, b)).val
    OBVIOUS
  <2>2. v \in Values
    <3>1. PICK s : s = phi[p]
      OBVIOUS
    <3>2. s \in Seq(Pair) /\ OncePerLabel(s)
      BY <3>1, PhiPairs DEF PhisIn
    <3>3. PICK r : r = Without(s, b)
      OBVIOUS
    <3>4. r \in Seq(Pair)
      BY <3>2, <3>3, OthersOf
    <3>5. r = Others(p, b)
      BY <3>1, <3>3 DEF Others, Without
    <3>6. r # <<>>
      BY <1>13, <3>5
    <3>7. r[Len(r)] \in Pair
      BY <3>4, <3>6
    <3>8. v = r[Len(r)].val
      BY <2>1, <3>5 DEF Last
    <3>9. QED
      BY <3>7, <3>8 DEF Pair
  <2>3. PICK uses : uses = Passed(p, v)
    OBVIOUS
  <2>4. PICK t : t = Rereading(p, v)
    OBVIOUS
  <2>5. /\ t \in [Blocks -> [arms : Seq(Blocks), reads : Values, folded : BOOLEAN]]
        /\ \A a \in Blocks : t[a].arms = term[a].arms
    BY <2>2, <2>4, RereadTerm
  <2>6. /\ phi' \in [Blocks -> Seq(Pair)]
        /\ \A q \in Blocks : /\ DOMAIN phi'[q] = DOMAIN phi[q] /\ Len(phi'[q]) = Len(phi[q])
                             /\ \A j \in DOMAIN phi[q] : phi'[q][j].from = phi[q][j].from
    BY <1>13, <2>1, <2>2, ReplacedPhis
  <2>7. Delete(PhisIn(d), uses) /\ term' = [t EXCEPT ![b].arms = <<k>>, ![b].reads = Unknown]
    BY <1>13, <2>1, <2>3, <2>4
  <2>8. QED
    BY <1>11, <2>5, <2>6, <2>7
<1>14. \/ PhisIn(d) = {} /\ term' = [term EXCEPT ![b].arms = <<k>>, ![b].reads = Unknown] /\ UNCHANGED phiVars
       \/ /\ term' = [term EXCEPT ![b].arms = <<k>>, ![b].reads = Unknown]
          /\ phi' = phi /\ Delete(PhisIn(d), valueUses)
       \/ \E p \in PhisIn(d) :
            /\ Others(p, b) # <<>>
            /\ term' = [Rereading(p, Last(Others(p, b)).val) EXCEPT ![b].arms = <<k>>, ![b].reads = Unknown]
            /\ Replace(p, Last(Others(p, b)).val) /\ Delete(PhisIn(d), Passed(p, Last(Others(p, b)).val))
  BY <1>2 DEF DropBranch
<1>15. QED
  BY <1>10, <1>12, <1>13, <1>14

-------------------------------------------------------------------------------
(****************************************************************************)
(* A block without predecessor.                                             *)
(****************************************************************************)
PhiFacts(q) ==
  /\ phi[q] \in Seq(Pair) /\ OncePerLabel(phi[q]) /\ Len(phi[q]) \in Nat /\ Len(phi[q]) <= 2
  /\ LabelsOf(phi[q]) \subseteq preds[q]
  /\ Len(prog.phi[q]) = 2 => LabelsOf(phi[q]) = preds[q]

LEMMA PhisOfBlocks ==
  ASSUME GraphInv, NEW q \in phis \cap blocks
  PROVE  PhiFacts(q) /\ q \in Blocks
<1>1. q \in Blocks /\ phi[q] \in Seq(Pair) /\ OncePerLabel(phi[q])
  BY PhiPairs
<1>2. Labels(q) = LabelsOf(phi[q])
  BY DEF Labels, LabelsOf
<1>3. /\ Labels(q) \subseteq preds[q] /\ Len(phi[q]) <= 2
      /\ Len(prog.phi[q]) = 2 => Labels(q) = preds[q]
  BY DEF GraphInv, PhisInv
<1>4. Len(phi[q]) \in Nat
  BY <1>1
<1>5. QED
  BY <1>1, <1>2, <1>3, <1>4 DEF PhiFacts

LEMMA SweepInv == ASSUME GraphInv, NEW b, Sweep(b) PROVE GraphInv'
<1> USE DEF graphVars, phiVars, loopVars, execVars, Visit, IsNext
<1>1. PICK T : T = UNION {PhisIn(s) : s \in succs[b]}
  OBVIOUS
<1>2. /\ UNCHANGED <<prog, pc, blocks, succs, term, code, phis, merge, flag>>
      /\ pc = "sweep" /\ rest' = rest \ {b} /\ b \in rest /\ preds[b] = {} /\ dead' = dead \cup {b}
      /\ preds' = [s \in Blocks |-> preds[s] \ {b}]
      /\ phi' = [q \in Blocks |-> IF q \in T THEN Others(q, b) ELSE phi[q]]
      /\ labelUses' = {u \in labelUses : ~(u[1] = b /\ u[2] \in T)}
  BY <1>1 DEF Sweep
<1>3. /\ b \in blocks \ dead /\ blocks \subseteq Blocks /\ dead \subseteq blocks /\ succs[b] \subseteq blocks
      /\ preds \in [Blocks -> SUBSET Blocks] /\ succs \in [Blocks -> SUBSET Blocks]
      /\ phis \subseteq Blocks /\ phi \in [Blocks -> Seq(Pair)] /\ dead \cap rest = {}
  BY <1>2, PhaseFacts DEF GraphInv, TypeOK, EdgesInv
<1>4. T \subseteq phis /\ phis \cap succs[b] \subseteq T
  BY <1>1, <1>3, PhaseFacts DEF PhisIn
<1>5. \A c \in blocks : preds[c] = {a \in blocks \ dead : c \in succs[a]}
  BY DEF GraphInv, EdgesInv
<1>6. \A q \in Blocks : phi'[q] = IF q \in T THEN Without(phi[q], b) ELSE phi[q]
  BY <1>2 DEF Others, Without
<1>7. ASSUME NEW q \in phis
      PROVE  /\ phi'[q] \in Seq(Pair) /\ OncePerLabel(phi'[q])
             /\ Labels(q)' = Labels(q) \ {b} /\ (b \in Labels(q) => q \in T)
             /\ phi'[q] = phi[q] \/ (b \in Labels(q) /\ Len(phi'[q]) <= 1)
  <2>1. q \in Blocks /\ phi[q] \in Seq(Pair) /\ OncePerLabel(phi[q]) /\ Labels(q) = LabelsOf(phi[q])
    BY PhiPairs DEF Labels, LabelsOf
  <2>2. Len(phi[q]) \in Nat /\ Len(phi[q]) <= 2 /\ (phi[q] # <<>> => q \in blocks /\ Labels(q) \subseteq preds[q])
    <3>1. CASE q \in blocks
      BY <2>1, <3>1 DEF GraphInv, PhisInv
    <3>2. CASE q \notin blocks
      BY <3>2 DEF GraphInv, PhisInv
    <3>3. QED
      BY <3>1, <3>2
  <2>3. b \in Labels(q) => q \in T
    <3>1. phi[q] = <<>> => Labels(q) = {}
      BY DEF Labels
    <3>2. QED
      BY <1>4, <1>5, <2>2, <3>1
  <2>4. PICK s : s = phi[q]
    OBVIOUS
  <2>5. s \in Seq(Pair) /\ OncePerLabel(s) /\ LabelsOf(s) = Labels(q) /\ Len(s) \in Nat /\ Len(s) <= 2
    BY <2>1, <2>2, <2>4
  <2>6. /\ Without(s, b) \in Seq(Pair) /\ OncePerLabel(Without(s, b))
        /\ LabelsOf(Without(s, b)) = LabelsOf(s) \ {b}
        /\ b \notin LabelsOf(s) => Without(s, b) = s
        /\ b \in LabelsOf(s) => Len(Without(s, b)) = Len(s) - 1
    BY <2>5, OthersOf
  <2>7. phi'[q] = Without(s, b)
    BY <1>6, <2>1, <2>3, <2>4, <2>5, <2>6
  <2>8. Labels(q)' = LabelsOf(Without(s, b))
    BY <2>7 DEF Labels, LabelsOf
  <2>9. Without(s, b) = s \/ (b \in LabelsOf(s) /\ Len(Without(s, b)) <= 1)
    BY <2>5, <2>6
  <2>10. QED
    BY <2>3, <2>4, <2>5, <2>6, <2>7, <2>8, <2>9
<1>8. ASSUME NEW q \in phis, Len(phi'[q]) = 2
      PROVE  phi'[q] = phi[q] /\ b \notin Labels(q)
  <2>1. PICK n : n = Len(phi'[q])
    OBVIOUS
  <2>2. n = 2 => ~(n <= 1)
    OBVIOUS
  <2>3. phi'[q] = phi[q]
    BY <1>7, <1>8, <2>1, <2>2
  <2>4. Labels(q)' = Labels(q)
    BY <2>3 DEF Labels
  <2>5. QED
    BY <1>7, <2>3, <2>4
<1>9. TypeOK'
  <2>1. phi' \in [Blocks -> Seq(Pair)]
    <3>1. \A q \in Blocks : phi'[q] \in Seq(Pair)
      BY <1>3, <1>4, <1>6, <1>7
    <3>2. QED
      BY <1>2, <3>1
  <2>2. preds' \in [Blocks -> SUBSET Blocks]
    BY <1>2, <1>3
  <2>3. QED
    BY <1>2, <1>3, <2>1, <2>2 DEF GraphInv, TypeOK
<1>10. EdgesInv'
  <2>1. \A c \in blocks : preds'[c] = {a \in blocks \ dead' : c \in succs[a]}
    BY <1>2, <1>3, <1>5
  <2>2. \A d \in dead' : preds'[d] = {} /\ d \notin rest'
    BY <1>2, <1>3 DEF GraphInv, EdgesInv
  <2>3. \A a \in blocks : /\ Len(term[a].arms) <= 2 /\ IsInjective(term[a].arms)
                          /\ succs[a] = ToSet(term[a].arms) /\ succs[a] \subseteq blocks
    BY DEF GraphInv, EdgesInv
  <2>4. QED
    BY <1>2, <2>1, <2>2, <2>3 DEF EdgesInv
<1>11. PhisInv'
  <2>1. \A a \in blocks : a \in ToSet(code[a]) /\ \A q \in PhisIn(a)' \ {a} : Len(prog.phi[q]) # 2
    BY <1>2 DEF GraphInv, PhisInv, PhisIn
  <2>2. ASSUME NEW q \in phis \ blocks PROVE phi'[q] = <<>>
    <3>1. phi[q] = <<>>
      BY DEF GraphInv, PhisInv
    <3>2. Labels(q) = {}
      BY <3>1 DEF Labels
    <3>3. QED
      BY <1>7, <3>1, <3>2
  <2>3. ASSUME NEW q \in phis \cap blocks
        PROVE  /\ Len(phi'[q]) <= 2 /\ OncePerLabel(phi'[q]) /\ Labels(q)' \subseteq preds'[q]
               /\ Len(prog.phi[q]) = 2 => Labels(q)' = preds'[q]
    <3>1. preds'[q] = preds[q] \ {b}
      BY <1>2, <1>3
    <3>2. /\ Len(phi[q]) <= 2 /\ Labels(q) \subseteq preds[q]
          /\ Len(prog.phi[q]) = 2 => Labels(q) = preds[q]
      BY DEF GraphInv, PhisInv
    <3>3. Len(phi'[q]) <= 2
      <4>1. PICK s : s = phi'[q]
        OBVIOUS
      <4>2. s \in Seq(Pair) /\ (Len(s) <= 2 \/ Len(s) <= 1)
        BY <1>7, <3>2, <4>1
      <4>3. Len(s) <= 2
        BY <4>2
      <4>4. QED
        BY <4>1, <4>3
    <3>4. QED
      BY <1>7, <3>1, <3>2, <3>3
  <2>4. \A q \in phis : NotMet(q)'
    BY <1>2 DEF NotMet
  <2>5. QED
    BY <1>2, <2>1, <2>2, <2>3, <2>4 DEF PhisInv
<1>12. UsesInv'
  <2> SUFFICES ASSUME NEW u \in labelUses, ~(u[1] = b /\ u[2] \in T)
               PROVE  /\ u[2] \in phis
                      /\ u[1] \in blocks =>
                           /\ u[1] \in Labels(u[2])'
                           /\ Len(phi'[u[2]]) = 2 => u[3] \in 1..2 /\ phi'[u[2]][u[3]].from = u[1]
    BY <1>2 DEF UsesInv
  <2>1. /\ u[2] \in phis
        /\ u[1] \in blocks => /\ u[1] \in Labels(u[2])
                              /\ Len(phi[u[2]]) = 2 => u[3] \in 1..2 /\ phi[u[2]][u[3]].from = u[1]
    BY DEF GraphInv, UsesInv
  <2>2. u[1] \in blocks => u[1] \in Labels(u[2])'
    BY <1>7, <2>1
  <2>3. Len(phi'[u[2]]) = 2 => phi'[u[2]] = phi[u[2]]
    BY <1>8, <2>1
  <2>4. QED
    BY <2>1, <2>2, <2>3
<1>13. UsesComplete'
  <2> SUFFICES ASSUME NEW q \in phis, Len(phi'[q]) = 2, NEW k \in 1..2
               PROVE  <<phi'[q][k].from, q, k>> \in labelUses'
    BY <1>2 DEF UsesComplete
  <2>1. phi'[q] = phi[q] /\ b \notin Labels(q) /\ phi[q] \in Seq(Pair)
    BY <1>8, PhiPairs
  <2>2. PICK l : l = phi[q][k].from
    OBVIOUS
  <2>3. l \in Labels(q)
    BY <2>1, <2>2 DEF Labels
  <2>4. <<l, q, k>> \in labelUses
    BY <2>1, <2>2 DEF GraphInv, UsesComplete
  <2>5. QED
    BY <1>2, <2>1, <2>2, <2>3, <2>4
<1>14. CodeIsApart'
  BY <1>2 DEF GraphInv, CodeIsApart
<1>15. QED
  BY <1>9, <1>10, <1>11, <1>12, <1>13, <1>14 DEF GraphInv

-------------------------------------------------------------------------------
(****************************************************************************)
(* CompressPath                                                             *)
(****************************************************************************)
(* A block of wait_merge and the block it is appended to. *)
LEMMA MergePlace ==
  ASSUME GraphInv, pc = "compress", NEW b \in merge, NEW p \in preds[b] \ {b}
  PROVE  /\ dead = {} /\ b \in blocks /\ p \in blocks /\ p # b
         /\ preds[b] = {p} /\ succs[p] = {b} /\ b \notin succs[b]
         /\ b \in phis => phi[b] = <<>> /\ Len(prog.phi[b]) # 2
<1>1. dead = {}
  BY PhaseFacts
<1>2. b \in blocks /\ \E a \in blocks : preds[b] = {a} /\ succs[a] = {b}
  BY DEF GraphInv, EdgesInv
<1>3. p \in blocks /\ preds[b] = {p} /\ succs[p] = {b} /\ p # b
  BY <1>2
<1>4. b \notin succs[b]
  BY <1>1, <1>2, <1>3 DEF GraphInv, EdgesInv
<1>5. ASSUME b \in phis PROVE phi[b] = <<>> /\ Len(prog.phi[b]) # 2
  <2>1. PhiFacts(b) /\ b \in Blocks
    BY <1>2, <1>5, PhisOfBlocks
  <2>2. PICK s : s = phi[b]
    OBVIOUS
  <2>3. /\ s \in Seq(Pair) /\ OncePerLabel(s) /\ LabelsOf(s) \subseteq {p}
        /\ Len(prog.phi[b]) = 2 => LabelsOf(s) = {p}
        /\ Len(s) \in Nat /\ Len(s) <= 2
    BY <1>3, <2>1, <2>2 DEF PhiFacts
  <2>4. Len(s) # 1
    BY <1>2, <1>5, <2>2, PhaseFacts DEF NotMet
  <2>5. Len(s) # 2
    <3> SUFFICES ASSUME Len(s) = 2 PROVE FALSE
      OBVIOUS
    <3>1. 1 \in DOMAIN s /\ 2 \in DOMAIN s
      BY <2>3
    <3>2. s[1].from = p /\ s[2].from = p
      BY <2>3, <3>1 DEF LabelsOf
    <3>3. QED
      BY <2>3, <3>1, <3>2 DEF OncePerLabel
  <2>6. s = <<>>
    <3>1. PICK n : n = Len(s)
      OBVIOUS
    <3>2. n \in Nat /\ n <= 2 /\ n # 1 /\ n # 2
      BY <2>3, <2>4, <2>5, <3>1
    <3>3. n = 0
      BY ONLY <3>2
    <3>4. \A t \in Seq(Pair) : Len(t) = 0 => t = <<>>
      OBVIOUS
    <3>5. QED
      BY <2>3, <3>1, <3>3, <3>4
  <2>7. LabelsOf(s) = {}
    BY <2>6 DEF LabelsOf
  <2>8. QED
    BY <2>2, <2>3, <2>6, <2>7
<1>6. QED
  BY <1>1, <1>2, <1>3, <1>4, <1>5

(* The lists of the labels are exact when blocks are merged. *)
LEMMA RelabelledPhis ==
  ASSUME GraphInv, pc = "compress", NEW b \in blocks, NEW p \in Blocks
  PROVE  /\ Relabelled(b, p) \in [Blocks -> Seq(Pair)]
         /\ \A q \in phis :
              /\ DOMAIN Relabelled(b, p)[q] = DOMAIN phi[q] /\ Len(Relabelled(b, p)[q]) = Len(phi[q])
              /\ \A k \in DOMAIN phi[q] : Relabelled(b, p)[q][k].from =
                                          IF phi[q][k].from = b THEN p ELSE phi[q][k].from
<1>1. PICK f : f = Relabelled(b, p)
  OBVIOUS
<1>2. f = [q \in Blocks |-> [k \in DOMAIN phi[q] |->
             IF <<b, q, k>> \in labelUses THEN [phi[q][k] EXCEPT !.from = p] ELSE phi[q][k]]]
  BY <1>1 DEF Relabelled
<1>3. phis \subseteq Blocks /\ phi \in [Blocks -> Seq(Pair)]
  BY DEF GraphInv, TypeOK
<1>4. ASSUME NEW q \in Blocks
      PROVE  /\ f[q] \in Seq(Pair) /\ DOMAIN f[q] = DOMAIN phi[q] /\ Len(f[q]) = Len(phi[q])
             /\ \A k \in DOMAIN phi[q] :
                  f[q][k].from = IF <<b, q, k>> \in labelUses THEN p ELSE phi[q][k].from
  <2> DEFINE n == Len(phi[q])
  <2>1. n \in Nat /\ DOMAIN phi[q] = 1..n /\ \A k \in 1..n : phi[q][k] \in Pair
    BY <1>3
  <2>2. f[q] = [k \in 1..n |->
                  IF <<b, q, k>> \in labelUses THEN [phi[q][k] EXCEPT !.from = p] ELSE phi[q][k]]
    BY <1>2, <2>1
  <2>3. ASSUME NEW k \in 1..n
        PROVE  [phi[q][k] EXCEPT !.from = p] \in Pair /\ [phi[q][k] EXCEPT !.from = p].from = p
    BY <2>1 DEF Pair
  <2>4. /\ f[q] \in [1..n -> Pair]
        /\ \A k \in 1..n : f[q][k].from = IF <<b, q, k>> \in labelUses THEN p ELSE phi[q][k].from
    BY <2>1, <2>2, <2>3
  <2>5. f[q] \in Seq(Pair) /\ Len(f[q]) = n
    BY <2>1, <2>4, FunctionIsSeq
  <2>6. QED
    BY <2>1, <2>4, <2>5
<1>5. f \in [Blocks -> Seq(Pair)]
  BY <1>2, <1>4
<1>6. ASSUME NEW q \in phis, NEW k \in DOMAIN phi[q]
      PROVE  <<b, q, k>> \in labelUses <=> phi[q][k].from = b
  <2>1. PICK s : s = phi[q]
    OBVIOUS
  <2>2. q \in Blocks /\ s \in Seq(Pair) /\ k \in DOMAIN s /\ Len(s) \in Nat
    BY <1>3, <2>1
  <2>3. q \in blocks
    BY <2>1, <2>2 DEF GraphInv, PhisInv
  <2>4. Len(s) <= 2 /\ Len(s) # 1
    BY <2>1, <2>3, PhaseFacts DEF GraphInv, PhisInv, NotMet
  <2>5. Len(s) = 2 /\ k \in 1..2
    <3>1. PICK n : n = Len(s)
      OBVIOUS
    <3>2. n \in Nat /\ n <= 2 /\ n # 1 /\ k \in 1..n
      BY <2>2, <2>4, <3>1
    <3>3. n = 2
      BY ONLY <3>2
    <3>4. QED
      BY <3>1, <3>2, <3>3
  <2>6. ASSUME <<b, q, k>> \in labelUses PROVE s[k].from = b
    BY <2>1, <2>5, <2>6 DEF GraphInv, UsesInv
  <2>7. ASSUME s[k].from = b PROVE <<b, q, k>> \in labelUses
    BY <2>1, <2>5, <2>7 DEF GraphInv, UsesComplete
  <2>8. QED
    BY <2>1, <2>6, <2>7
<1>7. QED
  BY <1>1, <1>3, <1>4, <1>5, <1>6

LEMMA MergeInv == ASSUME GraphInv, NEW b, Merge(b) PROVE GraphInv'
<1> USE DEF graphVars, phiVars, loopVars, execVars
<1>1. PICK p \in preds[b] \ {b} :
        /\ term' = [term EXCEPT ![p] = term[b]]
        /\ code' = [code EXCEPT ![p] = @ \o code[b]]
        /\ succs' = [succs EXCEPT ![p] = (@ \ {b}) \cup succs[b]]
        /\ preds' = [s \in Blocks |-> IF s \in succs[b] THEN (preds[s] \ {b}) \cup {p}
                                      ELSE IF s = b THEN {} ELSE preds[s]]
        /\ phi' = Relabelled(b, p)
        /\ labelUses' = labelUses \cup {<<p, u[2], u[3]>> : u \in ListOf(labelUses, b)}
  BY DEF Merge
<1>2. /\ UNCHANGED <<prog, pc, phis, rest, dead, flag>> /\ pc = "compress" /\ b \in merge
      /\ blocks' = blocks \ {b} /\ merge' = merge \ {b}
  BY DEF Merge
<1>3. /\ dead = {} /\ b \in blocks /\ p \in blocks /\ p # b
      /\ preds[b] = {p} /\ succs[p] = {b} /\ b \notin succs[b]
      /\ b \in phis => phi[b] = <<>> /\ Len(prog.phi[b]) # 2
  BY <1>1, <1>2, MergePlace
<1>4. /\ blocks \subseteq Blocks /\ b \in Blocks /\ p \in Blocks /\ phis \subseteq Blocks
      /\ preds \in [Blocks -> SUBSET Blocks] /\ succs \in [Blocks -> SUBSET Blocks]
      /\ term \in [Blocks -> [arms : Seq(Blocks), reads : Values, folded : BOOLEAN]]
      /\ code \in [Blocks -> Seq(Blocks)] /\ rest \subseteq blocks
  BY <1>3 DEF GraphInv, TypeOK
<1>5. /\ phi' \in [Blocks -> Seq(Pair)]
      /\ \A q \in phis :
              /\ DOMAIN phi'[q] = DOMAIN phi[q] /\ Len(phi'[q]) = Len(phi[q])
              /\ \A k \in DOMAIN phi[q] : phi'[q][k].from =
                                          IF phi[q][k].from = b THEN p ELSE phi[q][k].from
  <2>1. PICK f : f = Relabelled(b, p)
    OBVIOUS
  <2>2. /\ f \in [Blocks -> Seq(Pair)]
        /\ \A q \in phis :
             /\ DOMAIN f[q] = DOMAIN phi[q] /\ Len(f[q]) = Len(phi[q])
             /\ \A k \in DOMAIN phi[q] : f[q][k].from =
                                         IF phi[q][k].from = b THEN p ELSE phi[q][k].from
    <3>1. pc = "compress" /\ b \in blocks /\ p \in Blocks
      BY <1>2, <1>3, <1>4
    <3>2. Relabelled(b, p) \in [Blocks -> Seq(Pair)]
      BY <3>1, RelabelledPhis
    <3>3. \A q \in phis :
             /\ DOMAIN Relabelled(b, p)[q] = DOMAIN phi[q] /\ Len(Relabelled(b, p)[q]) = Len(phi[q])
             /\ \A k \in DOMAIN phi[q] : Relabelled(b, p)[q][k].from =
                                         IF phi[q][k].from = b THEN p ELSE phi[q][k].from
      BY <3>1, RelabelledPhis
    <3>4. QED
      BY <2>1, <3>2, <3>3
  <2>3. phi' = f
    BY <1>1, <2>1
  <2>4. QED
    BY <2>2, <2>3
<1>6. \A a \in Blocks : succs'[a] = IF a = p THEN succs[b] ELSE succs[a]
  BY <1>1, <1>3, <1>4
<1>7. \A s \in Blocks : preds'[s] = IF s \in succs[b] THEN (preds[s] \ {b}) \cup {p}
                                    ELSE IF s = b THEN {} ELSE preds[s]
  BY <1>1
<1>8. \A a \in Blocks : term'[a] = IF a = p THEN term[b] ELSE term[a]
  BY <1>1, <1>4
<1>9. ASSUME NEW a \in Blocks
      PROVE  code'[a] \in Seq(Blocks) /\ ToSet(code'[a]) = IF a = p THEN ToSet(code[p]) \cup ToSet(code[b])
                                                         ELSE ToSet(code[a])
  <2>1. code[p] \o code[b] \in Seq(Blocks) /\ ToSet(code[p] \o code[b]) = ToSet(code[p]) \cup ToSet(code[b])
    BY <1>4, ToSetConcat
  <2>2. code'[a] = IF a = p THEN code[p] \o code[b] ELSE code[a]
    BY <1>1, <1>4
  <2>3. QED
    BY <1>4, <2>1, <2>2
<1>10. \A c \in blocks : preds[c] = {a \in blocks : c \in succs[a]} /\ succs[c] \subseteq blocks
  BY <1>3 DEF GraphInv, EdgesInv
<1>11. \A c \in blocks \ {b} : p \notin preds[c]
  BY <1>3, <1>10
<1>12. rest = {}
  BY <1>2 DEF GraphInv, EdgesInv
<1>13. TypeOK'
  <2>1. term' \in [Blocks -> [arms : Seq(Blocks), reads : Values, folded : BOOLEAN]]
    BY <1>1, <1>4
  <2>2. code' \in [Blocks -> Seq(Blocks)]
    BY <1>1, <1>4, <1>9
  <2>3. succs' \in [Blocks -> SUBSET Blocks] /\ preds' \in [Blocks -> SUBSET Blocks]
    BY <1>1, <1>4
  <2>4. labelUses' \subseteq Blocks \X Blocks \X Nat
    BY <1>1, <1>4 DEF ListOf, GraphInv, TypeOK
  <2>5. merge' \subseteq Blocks
    BY <1>2 DEF GraphInv, TypeOK
  <2>6. prog' \in Programs /\ flag' \in BOOLEAN
        /\ pc' \in {"fold", "branches", "sweep", "phis", "compress", "exec", "aborted", "hung", "crashed"}
    BY <1>2 DEF GraphInv, TypeOK
  <2>7. QED
    BY <1>2, <1>3, <1>4, <1>5, <1>12, <2>1, <2>2, <2>3, <2>4, <2>5, <2>6 DEF TypeOK
<1>14. EdgesInv'
  <2>1. ASSUME NEW c \in blocks \ {b}
        PROVE  /\ Len(term'[c].arms) <= 2 /\ IsInjective(term'[c].arms)
               /\ succs'[c] = ToSet(term'[c].arms) /\ succs'[c] \subseteq blocks \ {b}
    <3>1. /\ Len(term[c].arms) <= 2 /\ IsInjective(term[c].arms)
          /\ succs[c] = ToSet(term[c].arms) /\ succs[c] \subseteq blocks
      BY DEF GraphInv, EdgesInv
    <3>2. /\ Len(term[b].arms) <= 2 /\ IsInjective(term[b].arms)
          /\ succs[b] = ToSet(term[b].arms) /\ succs[b] \subseteq blocks
      BY <1>3 DEF GraphInv, EdgesInv
    <3>3. CASE c = p
      BY <1>3, <1>4, <1>6, <1>8, <3>2, <3>3
    <3>4. CASE c # p
      <4>1. b \notin succs[c]
        BY <1>3, <1>10, <3>4
      <4>2. term'[c] = term[c] /\ succs'[c] = succs[c]
        BY <1>4, <1>6, <1>8, <3>4
      <4>3. QED
        BY <3>1, <4>1, <4>2
    <3>5. QED
      BY <3>3, <3>4
  <2>2. ASSUME NEW c \in blocks \ {b} PROVE preds'[c] = {a \in blocks \ {b} : c \in succs'[a]}
    <3>1. \A a \in blocks \ {b} : c \in succs'[a] <=> IF a = p THEN c \in succs[b] ELSE c \in succs[a]
      BY <1>4, <1>6
    <3>2. preds'[c] = IF c \in succs[b] THEN (preds[c] \ {b}) \cup {p} ELSE preds[c]
      BY <1>4, <1>7
    <3>3. preds[c] = {a \in blocks : c \in succs[a]} /\ p \notin preds[c]
      BY <1>10, <1>11
    <3>4. QED
      BY <1>3, <3>1, <3>2, <3>3
  <2>3. ASSUME NEW c \in merge \ {b}
        PROVE  c \in blocks \ {b} /\ \E x \in blocks \ {b} : preds'[c] = {x} /\ succs'[x] = {c}
    <3>1. PICK x \in blocks : c \in blocks /\ preds[c] = {x} /\ succs[x] = {c}
      BY <1>2 DEF GraphInv, EdgesInv
    <3>2. x # p
      BY <1>3, <3>1
    <3>3. CASE x = b
      <4>1. preds'[c] = {p} /\ succs'[p] = {c}
        BY <1>4, <1>6, <1>7, <3>1, <3>3
      <4>2. QED
        BY <1>3, <3>1, <4>1
    <3>4. CASE x # b
      <4>1. b \notin preds[c]
        BY <3>1, <3>4
      <4>2. c \notin succs[b]
        BY <1>3, <1>10, <3>1, <4>1
      <4>3. preds'[c] = {x} /\ succs'[x] = {c}
        BY <1>4, <1>6, <1>7, <3>1, <3>2, <4>2
      <4>4. QED
        BY <3>1, <3>4, <4>3
    <3>5. QED
      BY <3>3, <3>4
  <2>4. QED
    BY <1>2, <1>3, <1>12, <2>1, <2>2, <2>3 DEF EdgesInv
<1>15. ASSUME NEW q \in (phis \cap blocks) \ {b}
       PROVE  /\ Labels(q)' \subseteq preds'[q] /\ OncePerLabel(phi'[q])
              /\ Len(prog.phi[q]) = 2 => Labels(q)' = preds'[q]
  <2>1. PhiFacts(q) /\ q \in Blocks
    BY <1>3, PhisOfBlocks
  <2>2. p \notin preds[q]
    BY <1>11
  <2>3. /\ LabelsOf(phi[q]) \subseteq preds[q] /\ OncePerLabel(phi[q])
        /\ Len(prog.phi[q]) = 2 => LabelsOf(phi[q]) = preds[q]
    BY <2>1 DEF PhiFacts
  <2>4. \A k \in DOMAIN phi[q] : phi[q][k].from \in preds[q]
    BY <2>3 DEF LabelsOf
  <2>5. /\ DOMAIN phi'[q] = DOMAIN phi[q]
        /\ \A k \in DOMAIN phi[q] : phi'[q][k].from = IF phi[q][k].from = b THEN p ELSE phi[q][k].from
    BY <1>5
  <2>6. OncePerLabel(phi'[q])
    BY <2>2, <2>3, <2>4, <2>5 DEF OncePerLabel
  <2>7. Labels(q)' = {IF a = b THEN p ELSE a : a \in LabelsOf(phi[q])}
    <3>1. Labels(q)' = {phi'[q][k].from : k \in DOMAIN phi'[q]}
      BY DEF Labels
    <3>2. LabelsOf(phi[q]) = {phi[q][k].from : k \in DOMAIN phi[q]}
      BY DEF LabelsOf
    <3>3. QED
      BY <2>5, <3>1, <3>2
  <2>8. q \in succs[b] <=> b \in preds[q]
    BY <1>3, <1>10
  <2>9. preds'[q] = {IF a = b THEN p ELSE a : a \in preds[q]}
    BY <1>7, <2>1, <2>8
  <2>10. QED
    BY <2>3, <2>6, <2>7, <2>9
<1>16. PhisInv'
  <2>1. ASSUME NEW c \in blocks \ {b}
        PROVE  c \in ToSet(code'[c]) /\ \A q \in PhisIn(c)' \ {c} : Len(prog.phi[q]) # 2
    <3>1. c \in ToSet(code[c]) /\ \A q \in (phis \cap ToSet(code[c])) \ {c} : Len(prog.phi[q]) # 2
      BY DEF GraphInv, PhisInv, PhisIn
    <3>2. \A q \in phis \cap ToSet(code[b]) : Len(prog.phi[q]) # 2
      BY <1>3 DEF GraphInv, PhisInv, PhisIn
    <3>3. ToSet(code'[c]) = IF c = p THEN ToSet(code[p]) \cup ToSet(code[b]) ELSE ToSet(code[c])
      BY <1>4, <1>9
    <3>4. PhisIn(c)' = phis \cap ToSet(code'[c])
      BY <1>2 DEF PhisIn
    <3>5. QED
      BY <3>1, <3>2, <3>3, <3>4
  <2>2. ASSUME NEW q \in phis, phi[q] = <<>> PROVE phi'[q] = <<>>
    <3>1. q \in Blocks
      BY <1>4
    <3>2. PICK s : s = phi'[q]
      OBVIOUS
    <3>3. s \in Seq(Pair) /\ Len(s) = 0
      BY <1>5, <2>2, <3>1, <3>2
    <3>4. QED
      BY <3>2, <3>3
  <2>3. \A q \in phis \ (blocks \ {b}) : phi'[q] = <<>>
    BY <1>3, <2>2 DEF GraphInv, PhisInv
  <2>4. ASSUME NEW q \in phis \cap blocks PROVE Len(phi'[q]) <= 2 /\ Len(phi'[q]) # 1
    BY <1>2, <1>5, PhaseFacts DEF GraphInv, PhisInv, NotMet
  <2>5. QED
    BY <1>2, <1>3, <1>15, <2>1, <2>3, <2>4 DEF PhisInv
<1>17. UsesInv'
  <2>1. ASSUME NEW u \in labelUses, NEW a, a = IF u[1] = b THEN p ELSE u[1], u[1] \in blocks
        PROVE  a \in Labels(u[2])' /\ (Len(phi'[u[2]]) = 2 => u[3] \in 1..2 /\ phi'[u[2]][u[3]].from = a)
    <3>1. PICK q : q = u[2]
      OBVIOUS
    <3>2. /\ q \in phis /\ u[1] \in Labels(q)
          /\ Len(phi[q]) = 2 => u[3] \in 1..2 /\ phi[q][u[3]].from = u[1]
      BY <2>1, <3>1 DEF GraphInv, UsesInv
    <3>3. /\ DOMAIN phi'[q] = DOMAIN phi[q] /\ Len(phi'[q]) = Len(phi[q])
          /\ \A k \in DOMAIN phi[q] : phi'[q][k].from = IF phi[q][k].from = b THEN p ELSE phi[q][k].from
      BY <1>5, <3>2
    <3>4. PICK k \in DOMAIN phi[q] : phi[q][k].from = u[1]
      BY <3>2 DEF Labels
    <3>5. a \in Labels(q)'
      BY <2>1, <3>3, <3>4 DEF Labels
    <3>6. Len(phi[q]) = 2 => DOMAIN phi[q] = 1..2
      <4>1. q \in Blocks /\ phi \in [Blocks -> Seq(Pair)]
        BY <1>4, <3>2 DEF GraphInv, TypeOK
      <4>2. QED
        BY ONLY <4>1
    <3>7. Len(phi'[q]) = 2 => u[3] \in 1..2 /\ phi'[q][u[3]].from = a
      BY <2>1, <3>2, <3>3, <3>6
    <3>8. QED
      BY <3>1, <3>5, <3>7
  <2>2. ASSUME NEW u \in labelUses, u[1] \in blocks \ {b}
        PROVE  /\ u[1] \in Labels(u[2])'
               /\ Len(phi'[u[2]]) = 2 => u[3] \in 1..2 /\ phi'[u[2]][u[3]].from = u[1]
    BY <2>1, <2>2
  <2>3. ASSUME NEW w \in labelUses, w[1] = b
        PROVE  /\ p \in Labels(w[2])'
               /\ Len(phi'[w[2]]) = 2 => w[3] \in 1..2 /\ phi'[w[2]][w[3]].from = p
    BY <1>3, <2>1, <2>3
  <2>4. \A u \in labelUses : u[2] \in phis
    BY DEF GraphInv, UsesInv
  <2>5. ASSUME NEW u \in labelUses'
        PROVE  u \in labelUses \/ \E w \in labelUses : w[1] = b /\ u = <<p, w[2], w[3]>>
    BY <1>1 DEF ListOf
  <2>6. ASSUME NEW u \in labelUses'
        PROVE  /\ u[2] \in phis
               /\ u[1] \in blocks \ {b} =>
                    /\ u[1] \in Labels(u[2])'
                    /\ Len(phi'[u[2]]) = 2 => u[3] \in 1..2 /\ phi'[u[2]][u[3]].from = u[1]
    <3>1. CASE u \in labelUses
      BY <2>2, <2>4, <3>1
    <3>2. CASE \E w \in labelUses : w[1] = b /\ u = <<p, w[2], w[3]>>
      <4>1. PICK w \in labelUses : w[1] = b /\ u = <<p, w[2], w[3]>>
        BY <3>2
      <4>2. u[1] = p /\ u[2] = w[2] /\ u[3] = w[3]
        BY <4>1
      <4>3. QED
        BY <2>3, <2>4, <4>1, <4>2
    <3>3. QED
      BY <2>5, <3>1, <3>2
  <2>7. QED
    BY <1>2, <2>6 DEF UsesInv
<1>18. UsesComplete'
  <2>1. ASSUME NEW q \in phis, Len(phi'[q]) = 2, NEW k \in 1..2
        PROVE  <<phi'[q][k].from, q, k>> \in labelUses'
    <3>1. q \in Blocks /\ Len(phi[q]) = 2
      BY <1>4, <1>5, <2>1
    <3>2. k \in DOMAIN phi[q]
      BY <3>1 DEF GraphInv, TypeOK
    <3>3. PICK w : w = <<phi[q][k].from, q, k>>
      OBVIOUS
    <3>4. w \in labelUses /\ w[1] = phi[q][k].from /\ w[2] = q /\ w[3] = k
      BY <3>1, <3>3 DEF GraphInv, UsesComplete
    <3>5. phi'[q][k].from = IF phi[q][k].from = b THEN p ELSE phi[q][k].from
      BY <1>5, <3>2
    <3>6. CASE phi[q][k].from = b
      <4>1. <<p, w[2], w[3]>> \in labelUses'
        BY <1>1, <3>4, <3>6 DEF ListOf
      <4>2. QED
        BY <3>4, <3>5, <3>6, <4>1
    <3>7. CASE phi[q][k].from # b
      BY <1>1, <3>3, <3>4, <3>5, <3>7
    <3>8. QED
      BY <3>6, <3>7
  <2>2. QED
    BY <1>2, <2>1 DEF UsesComplete
<1>19. CodeIsApart'
  <2>1. ASSUME NEW c \in blocks \ {b}, NEW d \in blocks \ {b}, c # d
        PROVE  ToSet(code'[c]) \cap ToSet(code'[d]) = {}
    <3>1. /\ ToSet(code[c]) \cap ToSet(code[d]) = {}
          /\ ToSet(code[b]) \cap ToSet(code[c]) = {}
          /\ ToSet(code[b]) \cap ToSet(code[d]) = {}
      BY <1>3, <2>1 DEF GraphInv, CodeIsApart
    <3>2. ToSet(code'[c]) = IF c = p THEN ToSet(code[p]) \cup ToSet(code[b]) ELSE ToSet(code[c])
      BY <1>4, <1>9
    <3>3. ToSet(code'[d]) = IF d = p THEN ToSet(code[p]) \cup ToSet(code[b]) ELSE ToSet(code[d])
      BY <1>4, <1>9
    <3>4. QED
      BY <2>1, <3>1, <3>2, <3>3
  <2>2. QED
    BY <1>2, <2>1 DEF CodeIsApart
<1>20. QED
  BY <1>13, <1>14, <1>16, <1>17, <1>18, <1>19 DEF GraphInv

-------------------------------------------------------------------------------
LEMMA NextInv == ASSUME GraphInv, [Next]_vars PROVE GraphInv'
<1>1. ASSUME NEW b \in Blocks, Fold(b) PROVE GraphInv'
  BY <1>1, FoldInv
<1>2. ASSUME NEW b \in Blocks, KeepBranch(b) \/ Keep(b) \/ KeepPhi(b) PROVE GraphInv'
  BY <1>2, QuietVisit
<1>3. ASSUME NEW b \in Blocks, DropBranch(b) PROVE GraphInv'
  BY <1>3, DropBranchInv
<1>4. ASSUME NEW b \in Blocks, Sweep(b) PROVE GraphInv'
  BY <1>4, SweepInv
<1>5. ASSUME NEW b \in Blocks, DropPhi(b) PROVE GraphInv'
  BY <1>5, DropPhiInv
<1>6. ASSUME NEW b \in Blocks, Merge(b) PROVE GraphInv'
  BY <1>6, MergeInv
<1>7. CASE EndFold \/ EndBranches \/ Again
  BY <1>7, QuietEnd
<1>8. CASE EndSweep
  BY <1>8, EndSweepInv
<1>9. CASE EndPhis
  BY <1>9, EndPhisInv
<1>10. CASE \/ \E b \in Blocks : DropBranchFails(b) \/ DropPhiFails(b) \/ MergeFails(b)
            \/ Execute
            \/ UNCHANGED vars
  BY <1>10, QuietStop
<1>11. QED
  BY <1>1, <1>2, <1>3, <1>4, <1>5, <1>6, <1>7, <1>8, <1>9, <1>10 DEF Next, PassNext, Finished

(* In the middle of every phase of ConstPropagation::run (lines 408 to      *)
(* 608), the lists of the blocks, the phis and the lists of the labels are  *)
(* what GraphInv says: a branch that is not taken, a block without          *)
(* predecessor and a merged block each leave what the next phases mend.     *)
THEOREM GraphStaysConsistent == Spec => []GraphInv
<1>1. Init => GraphInv
  BY InitInv
<1>2. GraphInv /\ [Next]_vars => GraphInv'
  BY NextInv
<1>3. QED
  BY <1>1, <1>2, PTL DEF Spec

LEMMA WholeBetween == GraphInv => GraphIsWhole
<1> SUFFICES ASSUME GraphInv PROVE GraphIsWhole
  OBVIOUS
<1>1. Between => dead = {}
  BY PhaseFacts DEF Between
<1>2. ListsAgree
  BY <1>1 DEF ListsAgree, GraphInv, EdgesInv
<1>3. PhisMatchPreds
  <2> SUFFICES ASSUME NEW b \in blocks, NEW p \in PhisIn(b)
               PROVE  /\ OncePerLabel(phi[p]) /\ Labels(p) \subseteq preds[b]
                      /\ Len(prog.phi[p]) = 2 => Labels(p) = preds[b]
    BY DEF PhisMatchPreds
  <2>1. p \in phis /\ p \in ToSet(code[b])
    BY DEF PhisIn
  <2>2. CASE p = b
    BY <2>1, <2>2 DEF GraphInv, PhisInv
  <2>3. CASE p # b
    <3>1. p \notin blocks
      BY <2>1, <2>3 DEF GraphInv, CodeIsApart, PhisInv
    <3>2. phi[p] = <<>> /\ Len(prog.phi[p]) # 2
      BY <2>1, <2>3, <3>1 DEF GraphInv, PhisInv
    <3>3. Labels(p) = {} /\ OncePerLabel(phi[p])
      BY <3>2 DEF Labels, OncePerLabel
    <3>4. QED
      BY <3>2, <3>3
  <2>4. QED
    BY <2>2, <2>3
<1>4. QED
  BY <1>2, <1>3 DEF GraphIsWhole, GraphInv

(* Before and after every run of the pass the terminators and both lists of *)
(* each block describe one graph, a phi that had an operand for each        *)
(* predecessor still has, one with fewer has none for another block, and no *)
(* code is in two blocks, although create_br,                               *)
(* remove_pre_basic_block, Function::remove and CompressPath                *)
(* (ConstPropagation.cpp, lines 408 to 608) each mend one end of an edge.   *)
THEOREM GraphIsWholeAlways == Spec => []GraphIsWhole
<1>1. Spec => []GraphInv
  BY GraphStaysConsistent
<1>2. GraphInv => GraphIsWhole
  BY WholeBetween
<1>3. QED
  BY <1>1, <1>2, PTL

LEMMA ListsInRange == GraphInv => LabelsInRange
<1> SUFFICES ASSUME GraphInv, pc = "compress", NEW b \in merge, NEW u \in labelUses, u[1] = b
             PROVE  ~(u[3] > Len(phi[u[2]]))
  BY DEF LabelsInRange, OutOfRange, ListOf
<1>1. PICK q : q = u[2]
  OBVIOUS
<1>2. PICK s : s = phi[q]
  OBVIOUS
<1>3. b \in blocks
  BY DEF GraphInv, EdgesInv
<1>4. q \in phis /\ b \in Labels(q) /\ (Len(s) = 2 => u[3] \in 1..2)
  BY <1>1, <1>2, <1>3 DEF GraphInv, UsesInv
<1>5. Len(s) \in Nat /\ Len(s) # 0 /\ s # <<>>
  <2>1. s \in Seq(Pair)
    BY <1>2, <1>4 DEF GraphInv, TypeOK
  <2>2. PICK k : k \in DOMAIN s
    BY <1>2, <1>4 DEF Labels
  <2>3. QED
    BY <2>1, <2>2
<1>6. q \in blocks
  BY <1>2, <1>4, <1>5 DEF GraphInv, PhisInv
<1>7. Len(s) <= 2 /\ Len(s) # 1
  BY <1>2, <1>4, <1>6, PhaseFacts DEF GraphInv, PhisInv, NotMet
<1>8. Len(s) = 2
  <2>1. PICK n : n = Len(s)
    OBVIOUS
  <2>2. n \in Nat /\ n <= 2 /\ n # 1 /\ n # 0
    BY <1>5, <1>7, <2>1
  <2>3. n = 2
    BY ONLY <2>2
  <2>4. QED
    BY <2>1, <2>3
<1>9. QED
  BY <1>1, <1>2, <1>4, <1>8

(* When CompressPath replaces a block by its predecessor in the phis that   *)
(* name it, the assertion of set_operand (User.cpp, line 24) never fails,   *)
(* however stale the numbers of other uses are by then: no pair that the    *)
(* list of a merged block names has been moved or taken out.                *)
THEOREM LabelsInRangeAlways == Spec => []LabelsInRange
<1>1. Spec => []GraphInv
  BY GraphStaysConsistent
<1>2. GraphInv => LabelsInRange
  BY ListsInRange
<1>3. QED
  BY <1>1, <1>2, PTL
================================================================================

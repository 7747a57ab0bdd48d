----------------------------- MODULE Mem2Reg_proofs -----------------------------
(****************************************************************************)
(* Mem2Reg renames every function into SSA form and keeps what it computes. *)
(****************************************************************************)
EXTENDS Mem2Reg, SequenceTheorems, FiniteSetTheorems, WellFoundedInduction, TLAPS

(****************************************************************************)
(* Dominance on every graph over a finite set of blocks: it is a partial    *)
(* order on the reachable blocks, the dominators of a block form a chain,   *)
(* and below a block the tree of immediate dominators reaches every block   *)
(* it dominates.                                                            *)
(****************************************************************************)
LEMMA ReachableClosed ==
  ASSUME NEW g \in [Blocks -> SUBSET Blocks]
  PROVE  /\ Reachable(g) \subseteq Blocks
         /\ Entry \in Reachable(g)
         /\ \A x \in Reachable(g) : g[x] \subseteq Reachable(g)
<1>1. Reachable(g) \subseteq Blocks /\ Entry \in Reachable(g)
  BY EntryAssumption DEF Reachable
<1>2. ASSUME NEW x \in Reachable(g), NEW y \in g[x] PROVE y \in Reachable(g)
  <2>1. x \in Blocks /\ y \in Blocks
    BY <1>1
  <2>2. QED
    BY <2>1 DEF Reachable
<1>3. QED
  BY <1>1, <1>2

(* A set that holds the entry and follows the edges holds what is reachable. *)
LEMMA ReachableWithin ==
  ASSUME NEW g, NEW S \in SUBSET Blocks, Entry \in S, \A x \in S : g[x] \subseteq S
  PROVE  Reachable(g) \subseteq S
BY DEF Reachable

LEMMA DominatesSelf ==
  ASSUME NEW g \in [Blocks -> SUBSET Blocks], NEW b \in Blocks
  PROVE  Dominates(g, b, b)
<1>1. Blocks \ {b} \in SUBSET (Blocks \ {b}) /\ Entry \in (Blocks \ {b}) \cup {b}
  BY EntryAssumption
<1>2. ClosedAvoiding(g, b, Blocks \ {b})
  BY DEF ClosedAvoiding
<1>3. b \notin Blocks \ {b}
  OBVIOUS
<1>4. QED
  BY <1>1, <1>2, <1>3 DEF Dominates

LEMMA EntryDominates == ASSUME NEW g, NEW b PROVE Dominates(g, Entry, b)
<1>1. {} \in SUBSET (Blocks \ {Entry}) /\ Entry \in {} \cup {Entry} /\ b \notin {}
  OBVIOUS
<1>2. ClosedAvoiding(g, Entry, {})
  BY DEF ClosedAvoiding
<1>3. QED
  BY <1>1, <1>2 DEF Dominates

LEMMA EntryHasNoDominator ==
  ASSUME NEW g, NEW d, Dominates(g, d, Entry) PROVE d = Entry
BY DEF Dominates

(* Only reachable blocks dominate a reachable block. *)
LEMMA DominatorReachable ==
  ASSUME NEW g \in [Blocks -> SUBSET Blocks], NEW d, NEW b \in Reachable(g),
         Dominates(g, d, b)
  PROVE  d \in Reachable(g)
<1> SUFFICES ASSUME d \notin Reachable(g) PROVE FALSE
  OBVIOUS
<1>1. PICK S \in SUBSET (Blocks \ {d}) :
        Entry \in S \cup {d} /\ ClosedAvoiding(g, d, S) /\ b \notin S
  BY DEF Dominates
<1> DEFINE R == S \cap Reachable(g)
<1>2. R \in SUBSET Blocks /\ Entry \in R
  BY <1>1, ReachableClosed
<1>3. \A x \in R : g[x] \subseteq R
  BY <1>1, ReachableClosed DEF ClosedAvoiding
<1> HIDE DEF R
<1>4. Reachable(g) \subseteq R
  BY <1>2, <1>3, ReachableWithin
<1>5. QED
  BY <1>1, <1>4 DEF R

LEMMA DominatesTransitive ==
  ASSUME NEW g, NEW a, NEW b, NEW c, Dominates(g, a, b), Dominates(g, b, c)
  PROVE  Dominates(g, a, c)
<1>1. PICK S \in SUBSET (Blocks \ {a}) :
        Entry \in S \cup {a} /\ ClosedAvoiding(g, a, S) /\ b \notin S
  BY DEF Dominates
<1>2. PICK T \in SUBSET (Blocks \ {b}) :
        Entry \in T \cup {b} /\ ClosedAvoiding(g, b, T) /\ c \notin T
  BY DEF Dominates
<1>3. S \cap T \in SUBSET (Blocks \ {a}) /\ Entry \in (S \cap T) \cup {a} /\ c \notin S \cap T
  BY <1>1, <1>2
<1>4. ClosedAvoiding(g, a, S \cap T)
  BY <1>1, <1>2 DEF ClosedAvoiding
<1>5. QED
  BY <1>3, <1>4 DEF Dominates

LEMMA DominatesAntisymmetric ==
  ASSUME NEW g, NEW a \in Reachable(g), NEW b,
         Dominates(g, a, b), Dominates(g, b, a)
  PROVE  a = b
<1> SUFFICES ASSUME a # b PROVE FALSE
  OBVIOUS
<1>1. PICK S \in SUBSET (Blocks \ {a}) :
        Entry \in S \cup {a} /\ ClosedAvoiding(g, a, S) /\ b \notin S
  BY DEF Dominates
<1>2. PICK T \in SUBSET (Blocks \ {b}) :
        Entry \in T \cup {b} /\ ClosedAvoiding(g, b, T) /\ a \notin T
  BY DEF Dominates
<1> DEFINE R == S \cap T
<1>3. R \in SUBSET Blocks /\ Entry \in R
  BY <1>1, <1>2
<1>4. \A x \in R : g[x] \subseteq R
  BY <1>1, <1>2 DEF ClosedAvoiding
<1> HIDE DEF R
<1>5. Reachable(g) \subseteq R
  BY <1>3, <1>4, ReachableWithin
<1>6. QED
  BY <1>1, <1>5 DEF R

(* What dominates a block, and is not the block, dominates each predecessor. *)
LEMMA DominatesSource ==
  ASSUME NEW g, NEW d, NEW p \in Blocks, NEW b \in g[p], d # b, Dominates(g, d, b)
  PROVE  Dominates(g, d, p)
<1>1. PICK S \in SUBSET (Blocks \ {d}) :
        Entry \in S \cup {d} /\ ClosedAvoiding(g, d, S) /\ b \notin S
  BY DEF Dominates
<1>2. p \notin S
  BY <1>1 DEF ClosedAvoiding
<1>3. QED
  BY <1>1, <1>2 DEF Dominates

(* Two dominators of a block are comparable: a walk that avoids one of them *)
(* can be left for one that avoids the other, and never meets the block.    *)
LEMMA DominatorsFormChain ==
  ASSUME NEW g \in [Blocks -> SUBSET Blocks], NEW x \in Reachable(g),
         NEW a \in Blocks, NEW b \in Blocks, Dominates(g, a, x), Dominates(g, b, x)
  PROVE  Dominates(g, a, b) \/ Dominates(g, b, a)
<1> SUFFICES ASSUME ~Dominates(g, a, b), ~Dominates(g, b, a) PROVE FALSE
  OBVIOUS
<1> DEFINE R == {y \in Blocks : ~Dominates(g, a, y) \/ ~Dominates(g, b, y)}
<1>1. R \in SUBSET Blocks /\ Entry \in R
  BY EntryAssumption, EntryHasNoDominator, EntryDominates
<1>2. ASSUME NEW y \in R, NEW z \in g[y] PROVE z \in R
  <2>1. z \in Blocks
    OBVIOUS
  <2>2. CASE ~Dominates(g, a, y)
    BY <2>1, <2>2, DominatesSource
  <2>3. CASE ~Dominates(g, b, y)
    BY <2>1, <2>3, DominatesSource
  <2>4. QED
    BY <2>2, <2>3
<1>3. \A y \in R : g[y] \subseteq R
  BY <1>2
<1>4. x \notin R
  OBVIOUS
<1> HIDE DEF R
<1>5. QED
  BY <1>1, <1>3, <1>4, ReachableWithin

(* A nonempty set of natural numbers has a least element. *)
LEMMA Least ==
  ASSUME NEW D \in SUBSET Nat, D # {} PROVE \E m \in D : \A k \in D : m <= k
<1>1. PICK m \in D : \A k \in D : <<k, m>> \notin OpToRel(<, Nat)
  BY NatLessThanWellFounded, WFMin
<1>2. \A k \in D : ~(k < m)
  BY <1>1 DEF OpToRel
<1>3. QED
  BY <1>2

(* On the way from a block down to one it dominates lies a child of it.     *)
LEMMA ChildOnTheWay ==
  ASSUME NEW g \in [Blocks -> SUBSET Blocks], NEW b \in Reachable(g), NEW c,
         StrictlyDominates(g, c, b)
  PROVE  \E k \in Reachable(g) : IsImmediateDominator(g, c, k) /\ Dominates(g, k, b)
<1> DEFINE Doms(k) == {e \in Blocks : Dominates(g, e, k)}
           K == {k \in Blocks : StrictlyDominates(g, c, k) /\ Dominates(g, k, b)}
           D == {Cardinality(Doms(k)) : k \in K}
<1>1. c \in Reachable(g) /\ b \in K /\ Reachable(g) \subseteq Blocks
  BY DominatorReachable, ReachableClosed, DominatesSelf DEF StrictlyDominates
<1>2. ASSUME NEW k \in Blocks
      PROVE  IsFiniteSet(Doms(k)) /\ Cardinality(Doms(k)) \in Nat
  <2>1. Doms(k) \subseteq Blocks
    OBVIOUS
  <2> HIDE DEF Doms
  <2>2. QED
    BY <2>1, BlocksFinite, FS_Subset, FS_CardinalityType
<1>3. PICK k \in K : \A j \in K : Cardinality(Doms(k)) <= Cardinality(Doms(j))
  <2> HIDE DEF Doms
  <2>1. D \in SUBSET Nat /\ D # {}
    BY <1>1, <1>2
  <2> HIDE DEF D
  <2>2. PICK m \in D : \A j \in D : m <= j
    BY <2>1, Least
  <2>3. QED
    BY <2>2 DEF D
<1>4. /\ k \in Reachable(g) /\ StrictlyDominates(g, c, k) /\ Dominates(g, k, b)
      /\ k \in Blocks /\ c \in Blocks
  BY <1>1, <1>3, DominatorReachable
<1>5. ASSUME NEW e \in Blocks, StrictlyDominates(g, e, k) PROVE Dominates(g, e, c)
  <2> SUFFICES ASSUME ~Dominates(g, e, c) PROVE FALSE
    OBVIOUS
  <2>1. Dominates(g, c, e) /\ e # c
    BY <1>4, <1>5, DominatorsFormChain, DominatesSelf DEF StrictlyDominates
  <2>2. Dominates(g, e, b)
    BY <1>4, <1>5, DominatesTransitive DEF StrictlyDominates
  <2>3. e \in K
    BY <2>1, <2>2 DEF StrictlyDominates
  <2>4. Doms(e) \subseteq Doms(k)
    BY <1>4, <1>5, DominatesTransitive DEF StrictlyDominates
  <2>5. k \in Doms(k) /\ k \notin Doms(e)
    BY <1>4, <1>5, DominatesSelf, DominatesAntisymmetric DEF StrictlyDominates
  <2> HIDE DEF Doms
  <2>6. Cardinality(Doms(e)) < Cardinality(Doms(k))
    BY <1>2, <1>4, <2>4, <2>5, FS_Subset
  <2>7. Cardinality(Doms(k)) <= Cardinality(Doms(e))
    BY <1>3, <2>3
  <2>8. QED
    BY <1>2, <1>4, <2>6, <2>7
<1>6. QED
  BY <1>4, <1>5 DEF IsImmediateDominator

(* The strict dominators of a child are the dominators of its parent. *)
LEMMA DominatorsOfChild ==
  ASSUME NEW g \in [Blocks -> SUBSET Blocks], NEW c \in Reachable(g), NEW b,
         IsImmediateDominator(g, b, c), NEW e
  PROVE  StrictlyDominates(g, e, c) <=> Dominates(g, e, b)
<1>1. StrictlyDominates(g, b, c) /\ b \in Reachable(g)
  BY DominatorReachable DEF IsImmediateDominator, StrictlyDominates
<1>2. ASSUME StrictlyDominates(g, e, c) PROVE Dominates(g, e, b)
  BY <1>2, DominatorReachable, ReachableClosed DEF IsImmediateDominator, StrictlyDominates
<1>3. ASSUME Dominates(g, e, b) PROVE StrictlyDominates(g, e, c)
  <2>1. Dominates(g, e, c)
    BY <1>1, <1>3, DominatesTransitive DEF StrictlyDominates
  <2>2. e # c
    BY <1>1, <1>3, DominatesAntisymmetric DEF StrictlyDominates
  <2>3. QED
    BY <2>1, <2>2 DEF StrictlyDominates
<1>4. QED
  BY <1>2, <1>3

-------------------------------------------------------------------------------
(****************************************************************************)
(* Definitions and their order                                              *)
(****************************************************************************)
LEMMA ProgramFacts ==
  ASSUME prog \in Programs
  PROVE  /\ G \in [Blocks -> SUBSET Blocks]
         /\ \A b \in Blocks : /\ Code(b) \in Seq(Op) /\ Len(Code(b)) \in Nat
                              /\ End(b) \in Nat /\ End(b) = Len(Code(b)) + 1
                              /\ \A i \in 1..Len(Code(b)) : Code(b)[i] \in Op
         /\ \A l : l \in Sites <=> /\ l = <<l[1], l[2]>> /\ l[1] \in Blocks
                                   /\ l[2] \in 1..Len(Code(l[1]))
<1>1. G \in [Blocks -> SUBSET Blocks] /\ \A b \in Blocks : Code(b) \in Seq(Op)
  BY ProgramsAssumption DEF G, Code
<1>2. \A b \in Blocks : /\ Len(Code(b)) \in Nat
                        /\ End(b) \in Nat /\ End(b) = Len(Code(b)) + 1
                        /\ \A i \in 1..Len(Code(b)) : Code(b)[i] \in Op
  BY <1>1 DEF End
<1>3. \A l : l \in Sites <=> /\ l = <<l[1], l[2]>> /\ l[1] \in Blocks
                             /\ l[2] \in 1..Len(Code(l[1]))
  BY DEF Sites
<1>4. QED
  BY <1>1, <1>2, <1>3

LEMMA DefFacts ==
  ASSUME prog \in Programs, phis \subseteq Blocks \X Vars, NEW v \in Vars
  PROVE  /\ \A d \in Defs(v) :
              /\ d \in Values /\ d # Garbage /\ d.bb \in Blocks
              /\ Place(d) \in Nat /\ Place(d) <= Len(Code(d.bb)) /\ Place(d) < End(d.bb)
              /\ \/ /\ d = PhiVal(d.bb, v) /\ d.kind = "phi" /\ d.id = v
                    /\ Place(d) = 0 /\ <<d.bb, v>> \in phis
                 \/ /\ d = StoreVal(d.bb, Place(d)) /\ d.kind = "store" /\ d.id = Place(d)
                    /\ Place(d) \in StoresIn(d.bb, v) /\ Place(d) > 0
         /\ \A b \in Blocks : \A i \in StoresIn(b, v) :
              StoreVal(b, i) \in Defs(v) /\ StoreVal(b, i).bb = b /\ Place(StoreVal(b, i)) = i
         /\ \A b \in Blocks : <<b, v>> \in phis =>
              PhiVal(b, v) \in Defs(v) /\ PhiVal(b, v).bb = b /\ Place(PhiVal(b, v)) = 0
<1>1. ASSUME NEW b \in Blocks, NEW i \in StoresIn(b, v)
      PROVE  /\ StoreVal(b, i) \in Defs(v) /\ StoreVal(b, i).bb = b
             /\ Place(StoreVal(b, i)) = i /\ StoreVal(b, i).kind = "store"
             /\ StoreVal(b, i) \in Values /\ i \in 1..Len(Code(b)) /\ i \in Nat /\ i > 0
             /\ StoreVal(b, i).id = i
  <2>1. i \in 1..Len(Code(b)) /\ i \in Nat /\ i > 0
    BY ProgramFacts DEF StoresIn
  <2>2. <<b, i>> \in Sites
    BY <2>1, ProgramFacts
  <2>3. StoreVal(b, i) \in Defs(v)
    BY <2>2 DEF Defs
  <2>4. QED
    BY <2>1, <2>3 DEF StoreVal, Place, Values
<1>2. ASSUME NEW b \in Blocks, <<b, v>> \in phis
      PROVE  /\ PhiVal(b, v) \in Defs(v) /\ PhiVal(b, v).bb = b
             /\ Place(PhiVal(b, v)) = 0 /\ PhiVal(b, v).kind = "phi"
             /\ PhiVal(b, v) \in Values /\ PhiVal(b, v).id = v
  BY <1>2 DEF Defs, PhiVal, Place, Values
<1>3. ASSUME NEW d \in Defs(v)
      PROVE  \/ \E b \in Blocks : \E i \in StoresIn(b, v) : d = StoreVal(b, i)
             \/ \E b \in Blocks : d = PhiVal(b, v) /\ <<b, v>> \in phis
  <2>1. CASE \E l \in Sites : l[2] \in StoresIn(l[1], v) /\ d = StoreVal(l[1], l[2])
    BY <2>1, ProgramFacts
  <2>2. CASE \E h \in phis : h[2] = v /\ d = PhiVal(h[1], v)
    BY <2>2
  <2>3. QED
    BY <2>1, <2>2 DEF Defs
<1>4. ASSUME NEW d \in Defs(v)
      PROVE  /\ d \in Values /\ d # Garbage /\ d.bb \in Blocks
             /\ Place(d) \in Nat /\ Place(d) <= Len(Code(d.bb)) /\ Place(d) < End(d.bb)
             /\ \/ /\ d = PhiVal(d.bb, v) /\ d.kind = "phi" /\ d.id = v
                   /\ Place(d) = 0 /\ <<d.bb, v>> \in phis
                \/ /\ d = StoreVal(d.bb, Place(d)) /\ d.kind = "store" /\ d.id = Place(d)
                   /\ Place(d) \in StoresIn(d.bb, v) /\ Place(d) > 0
  <2>1. CASE \E b \in Blocks : \E i \in StoresIn(b, v) : d = StoreVal(b, i)
    <3>1. PICK b \in Blocks, i \in Nat : i \in StoresIn(b, v) /\ d = StoreVal(b, i)
      BY <1>1, <2>1
    <3>2. /\ d \in Values /\ d.bb = b /\ Place(d) = i /\ i \in 1..Len(Code(b))
          /\ d.kind = "store" /\ d.id = i
      BY <1>1, <3>1
    <3>3. QED
      BY <3>1, <3>2, ProgramFacts, GarbageAssumption
  <2>2. CASE \E b \in Blocks : d = PhiVal(b, v) /\ <<b, v>> \in phis
    <3>1. PICK b \in Blocks : <<b, v>> \in phis /\ d = PhiVal(b, v)
      BY <2>2
    <3>2. d \in Values /\ d.bb = b /\ Place(d) = 0 /\ d.kind = "phi" /\ d.id = v
      BY <1>2, <3>1
    <3>3. QED
      BY <3>1, <3>2, ProgramFacts, GarbageAssumption
  <2>3. QED
    BY <1>3, <2>1, <2>2
<1>5. QED
  BY <1>1, <1>2, <1>4

(* Two definitions of a variable at one place are the same. *)
LEMMA OneDefPerPlace ==
  ASSUME prog \in Programs, phis \subseteq Blocks \X Vars, NEW v \in Vars,
         NEW d \in Defs(v), NEW e \in Defs(v), d.bb = e.bb, Place(d) = Place(e)
  PROVE  d = e
<1>1. CASE Place(d) = 0
  <2>1. ASSUME NEW x \in Defs(v), Place(x) = 0 PROVE x = PhiVal(x.bb, v)
    <3>1. ~(Place(x) > 0)
      BY <2>1
    <3>2. QED
      BY <3>1, DefFacts
  <2>2. d = PhiVal(d.bb, v) /\ e = PhiVal(e.bb, v)
    BY <1>1, <2>1
  <2>3. QED
    BY <2>2
<1>2. CASE Place(d) # 0
  <2>1. d = StoreVal(d.bb, Place(d)) /\ e = StoreVal(e.bb, Place(e))
    BY <1>2, DefFacts
  <2>2. QED
    BY <2>1
<1>3. QED
  BY <1>1, <1>2

(* Of two definitions in reachable blocks at most one comes before the other. *)
LEMMA BeforeAsymmetric ==
  ASSUME prog \in Programs, phis \subseteq Blocks \X Vars, NEW v \in Vars,
         NEW d \in Defs(v), NEW e \in Defs(v), d.bb \in Reachable(G),
         Before(d, e.bb, Place(e))
  PROVE  ~Before(e, d.bb, Place(d))
<1>1. Place(d) \in Nat /\ Place(e) \in Nat
  BY DefFacts
<1>2. CASE StrictlyDominates(G, d.bb, e.bb)
  BY <1>2, DominatesAntisymmetric DEF Before, StrictlyDominates
<1>3. CASE d.bb = e.bb /\ Place(d) < Place(e)
  BY <1>1, <1>3 DEF Before, StrictlyDominates
<1>4. QED
  BY <1>2, <1>3 DEF Before

(* What is available dominates. *)
LEMMA AvailableDominates ==
  ASSUME prog \in Programs, phis \subseteq Blocks \X Vars, NEW v \in Vars,
         NEW b \in Reachable(G), NEW i, NEW d \in Available(v, b, i)
  PROVE  d \in Defs(v) /\ Dominates(G, d.bb, b) /\ d.bb \in Reachable(G)
<1>1. d \in Defs(v) /\ Before(d, b, i) /\ G \in [Blocks -> SUBSET Blocks]
  BY ProgramFacts DEF Available
<1>2. Dominates(G, d.bb, b)
  BY <1>1, DominatesSelf, ReachableClosed DEF Before, StrictlyDominates
<1>3. QED
  BY <1>1, <1>2, DominatorReachable

LEMMA AvailableAtEnd ==
  ASSUME prog \in Programs, phis \subseteq Blocks \X Vars, NEW v \in Vars,
         NEW b \in Reachable(G)
  PROVE  Available(v, b, End(b)) = {d \in Defs(v) : Dominates(G, d.bb, b)}
<1>1. ASSUME NEW d \in Defs(v), Dominates(G, d.bb, b) PROVE d \in Available(v, b, End(b))
  BY <1>1, DefFacts DEF Available, Before, StrictlyDominates
<1>2. QED
  BY <1>1, AvailableDominates DEF Available

(* The definitions that strictly dominate a child are available where the   *)
(* parent ends.                                                             *)
LEMMA AvailableInChild ==
  ASSUME prog \in Programs, phis \subseteq Blocks \X Vars, NEW v \in Vars,
         NEW b \in Reachable(G), NEW c \in Reachable(G), IsImmediateDominator(G, b, c)
  PROVE  {d \in Defs(v) : StrictlyDominates(G, d.bb, c)} = Available(v, b, End(b))
<1>1. G \in [Blocks -> SUBSET Blocks]
  BY ProgramFacts
<1>2. \A d : StrictlyDominates(G, d.bb, c) <=> Dominates(G, d.bb, b)
  BY <1>1, DominatorsOfChild
<1>3. QED
  BY <1>2, AvailableAtEnd

LEMMA NearestUnique ==
  ASSUME prog \in Programs, phis \subseteq Blocks \X Vars, NEW v \in Vars,
         NEW b \in Reachable(G), NEW i, NEW d, NEW e, Nearest(d, v, b, i), Nearest(e, v, b, i)
  PROVE  d = e
<1> SUFFICES ASSUME d # e PROVE FALSE
  OBVIOUS
<1>1. d \in Available(v, b, i) /\ e \in Available(v, b, i)
  BY DEF Nearest
<1>2. Before(d, e.bb, Place(e)) /\ Before(e, d.bb, Place(d))
  BY <1>1 DEF Nearest
<1>3. QED
  BY <1>1, <1>2, AvailableDominates, BeforeAsymmetric


(****************************************************************************)
(* The stacks                                                               *)
(****************************************************************************)
LEMMA PrefixFacts ==
  ASSUME NEW S, NEW s \in Seq(S), NEW n \in Nat, n <= Len(s)
  PROVE  /\ SubSeq(s, 1, n) \in Seq(S) /\ Len(SubSeq(s, 1, n)) = n
         /\ \A i \in 1..n : SubSeq(s, 1, n)[i] = s[i]
OBVIOUS

(* A definition that is pushed is available from then on. *)
LEMMA PushStacked ==
  ASSUME NEW v, NEW s \in Seq(Values), NEW b, NEW i, NEW c, NEW j, NEW d \in Values,
         Stacked(s, v, b, i), Available(v, c, j) = Available(v, b, i) \cup {d},
         \A e \in Available(v, b, i) : Before(e, d.bb, Place(d))
  PROVE  Stacked(Append(s, d), v, c, j)
<1> DEFINE t == Append(s, d)
           n == Len(s)
<1>1. /\ Len(t) = n + 1 /\ n \in Nat /\ t[n + 1] = d
      /\ \A k \in 1..n : t[k] = s[k]
  BY AppendProperties
<1> HIDE DEF t, n
<1>2. /\ {s[k] : k \in 1..n} = Available(v, b, i)
      /\ \A m \in 1..n : \A k \in 1..(m - 1) : Before(s[k], s[m].bb, Place(s[m]))
  BY DEF Stacked, n
<1>3. {t[k] : k \in 1..Len(t)} = Available(v, c, j)
  <2>1. 1..Len(t) = (1..n) \cup {n + 1}
    BY <1>1
  <2>2. QED
    BY <1>1, <1>2, <2>1
<1>4. ASSUME NEW m \in 1..Len(t), NEW k \in 1..(m - 1)
      PROVE  Before(t[k], t[m].bb, Place(t[m]))
  <2>1. k \in 1..n /\ t[k] = s[k] /\ s[k] \in Available(v, b, i)
    BY <1>1, <1>2
  <2>2. CASE m = n + 1
    BY <1>1, <2>1, <2>2
  <2>3. CASE m \in 1..n
    BY <1>1, <1>2, <2>1, <2>3
  <2>4. QED
    BY <1>1, <2>2, <2>3
<1>5. QED
  BY <1>3, <1>4 DEF Stacked, t

(* The top of a stack is the nearest definition. *)
LEMMA TopIsNearest ==
  ASSUME NEW v, NEW s \in Seq(Values), NEW b, NEW i, Stacked(s, v, b, i)
  PROVE  /\ s = <<>> <=> Available(v, b, i) = {}
         /\ s # <<>> => Nearest(Top(s), v, b, i)
<1> DEFINE n == Len(s)
<1>1. /\ n \in Nat /\ (s = <<>> <=> n = 0)
      /\ {s[k] : k \in 1..n} = Available(v, b, i)
      /\ \A m \in 1..n : \A k \in 1..(m - 1) : Before(s[k], s[m].bb, Place(s[m]))
  BY DEF Stacked
<1> HIDE DEF n
<1>2. s = <<>> <=> Available(v, b, i) = {}
  <2>1. CASE n = 0
    BY <1>1, <2>1
  <2>2. CASE n > 0
    <3>1. s[1] \in Available(v, b, i)
      BY <1>1, <2>2
    <3>2. QED
      BY <1>1, <2>2, <3>1
  <2>3. QED
    BY <1>1, <2>1, <2>2
<1>3. ASSUME s # <<>> PROVE Nearest(Top(s), v, b, i)
  <2>1. n \in 1..n /\ Top(s) = s[n]
    BY <1>1, <1>3 DEF Top, n
  <2>2. s[n] \in Available(v, b, i)
    BY <1>1, <2>1
  <2>3. ASSUME NEW e \in Available(v, b, i) \ {s[n]} PROVE Before(e, s[n].bb, Place(s[n]))
    <3>1. PICK k \in 1..n : e = s[k]
      BY <1>1
    <3>2. k \in 1..(n - 1)
      BY <1>1, <2>3, <3>1
    <3>3. QED
      BY <1>1, <2>1, <3>1, <3>2
  <2>4. QED
    BY <2>1, <2>2, <2>3 DEF Nearest
<1>4. QED
  BY <1>2, <1>3

(* No definition is on a stack twice. *)
LEMMA StackedOnce ==
  ASSUME prog \in Programs, phis \subseteq Blocks \X Vars, NEW v \in Vars,
         NEW b \in Reachable(G), NEW i, NEW s \in Seq(Values), Stacked(s, v, b, i),
         NEW k \in 1..Len(s), NEW m \in 1..Len(s), k # m
  PROVE  s[k] # s[m]
<1>1. ASSUME NEW x \in 1..Len(s), NEW y \in 1..Len(s), x < y PROVE s[x] # s[y]
  <2>1. x \in 1..(y - 1) /\ s[x] \in Available(v, b, i)
    BY <1>1 DEF Stacked
  <2>2. Before(s[x], s[y].bb, Place(s[y]))
    BY <2>1 DEF Stacked
  <2>3. s[x] \in Defs(v) /\ Place(s[x]) \in Nat
    BY <2>1, DefFacts DEF Available
  <2>4. QED
    BY <2>2, <2>3 DEF Before, StrictlyDominates
<1>2. k < m \/ m < k
  OBVIOUS
<1>3. QED
  BY <1>1, <1>2

(* At the end of a block each of its dominators has as many definitions on  *)
(* the stack as it has pushed.                                              *)
LEMMA CountPushed ==
  ASSUME prog \in Programs, phis \subseteq Blocks \X Vars, NEW v \in Vars,
         NEW b \in Reachable(G), NEW s \in Seq(Values), Stacked(s, v, b, End(b)),
         NEW c \in Blocks, Dominates(G, c, b)
  PROVE  /\ Cardinality({k \in 1..Len(s) : s[k].bb = c}) = Pushed(c, v)
         /\ IsFiniteSet({k \in 1..Len(s) : s[k].bb = c})
<1> DEFINE I == {k \in 1..Len(s) : s[k].bb = c}
           P == StoresIn(c, v) \cup (IF <<c, v>> \in phis THEN {0} ELSE {})
           f == [k \in I |-> Place(s[k])]
<1>1. IsFiniteSet(StoresIn(c, v)) /\ 0 \notin StoresIn(c, v) /\ Cardinality(StoresIn(c, v)) \in Nat
  <2>1. IsFiniteSet(1..Len(Code(c)))
    <3>1. 1 \in Int /\ Len(Code(c)) \in Int
      BY ProgramFacts
    <3>2. QED
      BY <3>1, FS_Interval
  <2>2. StoresIn(c, v) \subseteq 1..Len(Code(c))
    BY DEF StoresIn
  <2>3. QED
    BY <2>1, <2>2, FS_Subset, FS_CardinalityType
<1>2. IsFiniteSet(P) /\ Cardinality(P) = Pushed(c, v)
  <2>1. CASE <<c, v>> \in phis
    BY <1>1, <2>1, FS_AddElement DEF Pushed
  <2>2. CASE <<c, v>> \notin phis
    <3>1. P = StoresIn(c, v)
      BY <2>2
    <3>2. QED
      BY <1>1, <2>2, <3>1 DEF Pushed
  <2>3. QED
    BY <2>1, <2>2
<1>3. IsFiniteSet(I)
  <2>1. IsFiniteSet(1..Len(s))
    BY FS_Interval
  <2>2. I \in SUBSET (1..Len(s))
    OBVIOUS
  <2>3. QED
    BY <2>1, <2>2, FS_Subset
<1>4. ASSUME NEW k \in I PROVE s[k] \in Defs(v) /\ s[k].bb = c /\ Place(s[k]) \in P
  <2>1. s[k] \in Defs(v) /\ s[k].bb = c
    BY DEF Stacked, Available
  <2>2. QED
    BY <2>1, DefFacts
<1>5. ASSUME NEW k \in I, NEW m \in I, Place(s[k]) = Place(s[m]) PROVE k = m
  BY <1>4, <1>5, OneDefPerPlace, StackedOnce
<1>6. ASSUME NEW p \in P PROVE \E k \in I : Place(s[k]) = p
  <2>1. PICK d \in Defs(v) : d.bb = c /\ Place(d) = p
    BY DefFacts
  <2>2. d \in Available(v, b, End(b))
    BY <2>1, AvailableAtEnd
  <2>3. QED
    BY <2>1, <2>2 DEF Stacked
<1>7. ExistsBijection(I, P)
  <2> HIDE DEF I, P
  <2>1. f \in [I -> P] /\ \A k, m \in I : f[k] = f[m] => k = m
    BY <1>4, <1>5
  <2>2. \A p \in P : \E k \in I : f[k] = p
    BY <1>6
  <2>3. f \in Bijection(I, P)
    BY <2>1, <2>2 DEF Bijection, Injection, Surjection, IsInjective
  <2>4. QED
    BY <2>3 DEF ExistsBijection
<1>8. Cardinality(P) = Cardinality(I)
  <2> HIDE DEF I, P
  <2>1. QED
    BY <1>3, <1>7, FS_Bijection
<1>9. QED
  BY <1>2, <1>3, <1>8


(* What a block has pushed are the topmost definitions when it is left, so  *)
(* that popping as many leaves what was available where its parent ended.   *)
LEMMA PopStacked ==
  ASSUME prog \in Programs, phis \subseteq Blocks \X Vars, NEW v \in Vars,
         NEW b \in Reachable(G), NEW c \in Reachable(G), IsImmediateDominator(G, b, c),
         NEW s \in Seq(Values), Stacked(s, v, c, End(c))
  PROVE  /\ SubSeq(s, 1, Len(s) - Pushed(c, v)) \in Seq(Values)
         /\ Stacked(SubSeq(s, 1, Len(s) - Pushed(c, v)), v, b, End(b))
<1> DEFINE n == Len(s)
           I == {k \in 1..n : s[k].bb = c}
<1>1. /\ n \in Nat
      /\ {s[k] : k \in 1..n} = Available(v, c, End(c))
      /\ \A m \in 1..n : \A k \in 1..(m - 1) : Before(s[k], s[m].bb, Place(s[m]))
  BY DEF Stacked
<1>2. /\ G \in [Blocks -> SUBSET Blocks] /\ b \in Blocks /\ c \in Blocks
      /\ Dominates(G, c, c)
  BY ProgramFacts, ReachableClosed, DominatesSelf
<1>3. Cardinality(I) = Pushed(c, v) /\ IsFiniteSet(I)
  BY <1>2, CountPushed
<1> HIDE DEF n
<1>4. ASSUME NEW k \in 1..n
      PROVE  s[k] \in Defs(v) /\ Dominates(G, s[k].bb, c)
  BY <1>1, AvailableDominates
<1>5. ASSUME NEW k \in I, NEW m \in (k + 1)..n PROVE m \in I
  <2>1. m \in 1..n /\ k \in 1..(m - 1) /\ s[k].bb = c
    BY <1>1
  <2>2. Before(s[k], s[m].bb, Place(s[m]))
    BY <1>1, <2>1
  <2>3. Dominates(G, c, s[m].bb)
    BY <1>2, <2>1, <2>2 DEF Before, StrictlyDominates
  <2>4. s[m].bb = c
    BY <1>4, <2>1, <2>3, DominatesAntisymmetric
  <2>5. QED
    BY <2>1, <2>4
<1>6. PICK m \in 0..n : I = (m + 1)..n
  <2>1. CASE I = {}
    <3>1. n \in 0..n /\ (n + 1)..n = {}
      BY <1>1
    <3>2. QED
      BY <2>1, <3>1
  <2>2. CASE I # {}
    <3>1. I \in SUBSET Nat
      BY <1>1
    <3>2. PICK k \in I : \A j \in I : k <= j
      <4> HIDE DEF I
      <4>1. QED
        BY <2>2, <3>1, Least
    <3>3. k \in 1..n
      OBVIOUS
    <3>4. I = k..n
      <4>1. ASSUME NEW j \in k..n PROVE j \in I
        <5>1. j = k \/ j \in (k + 1)..n
          BY <1>1, <3>3
        <5>2. QED
          BY <1>5, <5>1
      <4>2. ASSUME NEW j \in I PROVE j \in k..n
        BY <1>1, <3>2, <3>3
      <4>3. QED
        BY <4>1, <4>2
    <3>5. k - 1 \in 0..n /\ (k - 1) + 1 = k
      BY <1>1, <3>3
    <3>6. QED
      BY <3>4, <3>5
  <2>3. QED
    BY <2>1, <2>2
<1> HIDE DEF I
<1>7. n - Pushed(c, v) = m /\ m \in Nat
  <2>1. m + 1 \in Int /\ n \in Int /\ m \in Nat /\ m <= n
    BY <1>1
  <2>2. Cardinality((m + 1)..n) = IF m + 1 > n THEN 0 ELSE n - (m + 1) + 1
    BY <2>1, FS_Interval
  <2>3. QED
    BY <1>1, <1>3, <1>6, <2>1, <2>2
<1> DEFINE t == SubSeq(s, 1, n - Pushed(c, v))
<1>8. t \in Seq(Values) /\ Len(t) = m /\ \A k \in 1..m : t[k] = s[k] /\ k \in 1..n
  BY <1>6, <1>7, PrefixFacts DEF n
<1> HIDE DEF t
<1>9. {t[k] : k \in 1..Len(t)} = {s[k] : k \in 1..m}
  BY <1>8
<1>10. {s[k] : k \in 1..m} = {d \in Defs(v) : StrictlyDominates(G, d.bb, c)}
  <2>1. ASSUME NEW k \in 1..m
        PROVE  s[k] \in Defs(v) /\ StrictlyDominates(G, s[k].bb, c)
    <3>1. k \notin I /\ k \in 1..n
      BY <1>1, <1>6, <1>7
    <3>2. QED
      BY <1>4, <3>1 DEF I, StrictlyDominates
  <2>2. ASSUME NEW d \in Defs(v), StrictlyDominates(G, d.bb, c)
        PROVE  \E k \in 1..m : d = s[k]
    <3>1. d \in Available(v, c, End(c)) /\ d.bb # c
      BY <2>2, AvailableAtEnd DEF StrictlyDominates
    <3>2. PICK k \in 1..n : d = s[k]
      BY <1>1, <3>1
    <3>3. k \notin (m + 1)..n
      BY <1>6, <3>1, <3>2 DEF I
    <3>4. QED
      BY <1>1, <1>7, <3>2, <3>3
  <2>3. QED
    BY <2>1, <2>2
<1>11. {t[k] : k \in 1..Len(t)} = Available(v, b, End(b))
  BY <1>9, <1>10, AvailableInChild
<1>12. \A j \in 1..Len(t) : \A k \in 1..(j - 1) : Before(t[k], t[j].bb, Place(t[j]))
  <2> TAKE j \in 1..Len(t)
  <2> TAKE k \in 1..(j - 1)
  <2>1. k \in 1..m /\ j \in 1..m /\ j \in 1..n
    BY <1>7, <1>8
  <2>2. QED
    BY <1>1, <1>8, <2>1
<1>13. QED
  BY <1>8, <1>11, <1>12 DEF Stacked, t, n


(* On entering a block its phi, if it has one, becomes the nearest.         *)
LEMMA EnterStacked ==
  ASSUME prog \in Programs, phis \subseteq Blocks \X Vars, NEW v \in Vars,
         NEW c \in Reachable(G), NEW s \in Seq(Values), Stacked(s, v, c, 0)
  PROVE  LET t == IF <<c, v>> \in phis THEN Append(s, PhiVal(c, v)) ELSE s
         IN  t \in Seq(Values) /\ Stacked(t, v, c, 1)
<1>0. c \in Blocks
  BY ProgramFacts, ReachableClosed
<1>1. ASSUME NEW d \in Defs(v)
      PROVE  Place(d) \in Nat /\ (Place(d) = 0 => d = PhiVal(d.bb, v) /\ <<d.bb, v>> \in phis)
  <2>1. Place(d) \in Nat
    BY DefFacts
  <2>2. \/ d = PhiVal(d.bb, v) /\ <<d.bb, v>> \in phis
        \/ Place(d) > 0
    BY DefFacts
  <2>3. QED
    BY <2>1, <2>2
<1>2. ASSUME NEW e \in Available(v, c, 0) PROVE StrictlyDominates(G, e.bb, c) /\ e \in Defs(v)
  <2>1. e \in Defs(v) /\ Before(e, c, 0)
    BY DEF Available
  <2>2. ~(Place(e) < 0)
    <3>1. Place(e) \in Nat
      BY <1>1, <2>1
    <3>2. QED
      BY <3>1
  <2>3. QED
    BY <2>1, <2>2 DEF Before
<1>3. ASSUME NEW d \in Available(v, c, 1), d \notin Available(v, c, 0)
      PROVE  d = PhiVal(c, v) /\ <<c, v>> \in phis
  <2>1. d \in Defs(v) /\ d.bb = c /\ Place(d) < 1
    BY <1>3 DEF Available, Before
  <2>2. Place(d) \in Nat
    BY <1>1, <2>1
  <2>3. Place(d) = 0
    BY <2>1, <2>2
  <2>4. QED
    BY <1>1, <2>1, <2>3
<1>4. Available(v, c, 0) \subseteq Available(v, c, 1)
  BY <1>2 DEF Available, Before
<1>5. CASE <<c, v>> \in phis
  <2>1. /\ PhiVal(c, v) \in Defs(v) /\ PhiVal(c, v).bb = c /\ Place(PhiVal(c, v)) = 0
        /\ PhiVal(c, v) \in Values
    BY <1>0, <1>5, DefFacts
  <2>2. Available(v, c, 1) = Available(v, c, 0) \cup {PhiVal(c, v)}
    BY <1>3, <1>4, <2>1 DEF Available, Before
  <2>3. \A e \in Available(v, c, 0) : Before(e, PhiVal(c, v).bb, Place(PhiVal(c, v)))
    BY <1>2, <2>1 DEF Before
  <2>4. Stacked(Append(s, PhiVal(c, v)), v, c, 1)
    BY <2>1, <2>2, <2>3, PushStacked
  <2>5. QED
    BY <1>5, <2>1, <2>4
<1>6. CASE <<c, v>> \notin phis
  <2>1. Available(v, c, 1) = Available(v, c, 0)
    BY <1>3, <1>4, <1>6
  <2>2. QED
    BY <1>6, <2>1 DEF Stacked
<1>7. QED
  BY <1>5, <1>6

(* From an instruction to the next: a store of the variable is pushed.      *)
LEMMA StepStacked ==
  ASSUME prog \in Programs, phis \subseteq Blocks \X Vars, NEW v \in Vars,
         NEW b \in Reachable(G), NEW i \in 1..Len(Code(b)), NEW s \in Seq(Values),
         Stacked(s, v, b, i)
  PROVE  LET t == IF i \in StoresIn(b, v) THEN Append(s, StoreVal(b, i)) ELSE s
         IN  t \in Seq(Values) /\ Stacked(t, v, b, i + 1)
<1>0. b \in Blocks
  BY ProgramFacts, ReachableClosed
<1>1. /\ i \in Nat /\ i > 0
      /\ \A d \in Defs(v) : /\ Place(d) \in Nat
                            /\ Place(d) > 0 => d = StoreVal(d.bb, Place(d)) /\ Place(d) \in StoresIn(d.bb, v)
  <2>1. i \in Nat /\ i > 0
    BY <1>0, ProgramFacts
  <2>2. ASSUME NEW d \in Defs(v)
        PROVE  /\ Place(d) \in Nat
               /\ Place(d) > 0 => d = StoreVal(d.bb, Place(d)) /\ Place(d) \in StoresIn(d.bb, v)
    <3>1. Place(d) > 0 => Place(d) # 0
      OBVIOUS
    <3>2. QED
      BY <3>1, DefFacts
  <2>3. QED
    BY <2>1, <2>2
<1>2. ASSUME NEW d \in Available(v, b, i + 1), d \notin Available(v, b, i)
      PROVE  d = StoreVal(b, i) /\ i \in StoresIn(b, v)
  <2>1. d \in Defs(v) /\ d.bb = b /\ Place(d) = i
    BY <1>1, <1>2 DEF Available, Before
  <2>2. QED
    BY <1>1, <2>1
<1>3. Available(v, b, i) \subseteq Available(v, b, i + 1)
  BY <1>1 DEF Available, Before
<1>4. CASE i \in StoresIn(b, v)
  <2>1. /\ StoreVal(b, i) \in Defs(v) /\ StoreVal(b, i).bb = b /\ Place(StoreVal(b, i)) = i
        /\ StoreVal(b, i) \in Values
    <3>1. /\ StoreVal(b, i) \in Defs(v) /\ StoreVal(b, i).bb = b
          /\ Place(StoreVal(b, i)) = i
      BY <1>0, <1>4, DefFacts
    <3>2. QED
      BY <3>1, DefFacts
  <2>2. Available(v, b, i + 1) = Available(v, b, i) \cup {StoreVal(b, i)}
    BY <1>1, <1>2, <1>3, <2>1 DEF Available, Before
  <2>3. \A e \in Available(v, b, i) : Before(e, StoreVal(b, i).bb, Place(StoreVal(b, i)))
    BY <2>1 DEF Available
  <2>4. Stacked(Append(s, StoreVal(b, i)), v, b, i + 1)
    <3> DEFINE j == i + 1
    <3> Available(v, b, j) = Available(v, b, i) \cup {StoreVal(b, i)}
      BY <2>2
    <3> HIDE DEF j
    <3>1. Stacked(Append(s, StoreVal(b, i)), v, b, j)
      BY <2>1, <2>3, PushStacked
    <3>2. QED
      BY <3>1 DEF j
  <2>5. QED
    BY <1>4, <2>1, <2>4
<1>5. CASE i \notin StoresIn(b, v)
  <2>1. Available(v, b, i + 1) = Available(v, b, i)
    BY <1>2, <1>3, <1>5
  <2>2. QED
    BY <1>5, <2>1 DEF Stacked
<1>6. QED
  BY <1>4, <1>5

(****************************************************************************)
(* What the steps leave alone                                               *)
(****************************************************************************)
LEMMA SameFunction ==
  ASSUME UNCHANGED prog
  PROVE  /\ G' = G /\ Sites' = Sites
         /\ \A b : Code(b)' = Code(b) /\ End(b)' = End(b) /\ Succ(b)' = Succ(b)
         /\ \A b, v : StoresIn(b, v)' = StoresIn(b, v)
         /\ \A l : OpAt(l)' = OpAt(l)
         /\ \A d, b, i : Before(d, b, i)' <=> Before(d, b, i)
BY DEF G, Sites, Code, End, Succ, StoresIn, OpAt, Before

LEMMA SameDefs ==
  ASSUME UNCHANGED <<prog, phis>>
  PROVE  /\ \A v : Defs(v)' = Defs(v)
         /\ \A v, b, i : Available(v, b, i)' = Available(v, b, i)
         /\ \A d, v, b, i : Nearest(d, v, b, i)' <=> Nearest(d, v, b, i)
         /\ \A s, v, b, i : Stacked(s, v, b, i)' <=> Stacked(s, v, b, i)
<1>1. \A v : Defs(v)' = Defs(v)
  BY DEF Defs, Sites, StoresIn, Code
<1>2. \A v, b, i : Available(v, b, i)' = Available(v, b, i)
  BY <1>1, SameFunction DEF Available
<1>3. \A d, v, b, i : Nearest(d, v, b, i)' <=> Nearest(d, v, b, i)
  BY <1>2, SameFunction DEF Nearest
<1>4. \A s, v, b, i : Stacked(s, v, b, i)' <=> Stacked(s, v, b, i)
  BY <1>2, SameFunction DEF Stacked
<1>5. QED
  BY <1>1, <1>2, <1>3, <1>4

LEMMA FrameFacts ==
  ASSUME CallInv, pc \in {"instr", "kids", "abort"}
  PROVE  /\ Len(calls) \in Nat /\ Len(calls) \in 1..Len(calls) /\ calls # <<>>
         /\ Frame = calls[Len(calls)]
         /\ Frame.bb \in Reachable(G) /\ Frame.kids \in SUBSET Reachable(G)
         /\ Frame = [bb |-> Frame.bb, kids |-> Frame.kids]
<1>1. calls \in Seq([bb : Reachable(G), kids : SUBSET Reachable(G)]) /\ calls # <<>>
  BY DEF CallInv
<1>2. Len(calls) \in Nat /\ Len(calls) \in 1..Len(calls)
  BY <1>1
<1>3. Frame = calls[Len(calls)]
  BY DEF Frame, Top
<1>4. Frame \in [bb : Reachable(G), kids : SUBSET Reachable(G)]
  BY <1>1, <1>2, <1>3, ElementOfSeq
<1>5. QED
  BY <1>1, <1>2, <1>3, <1>4


LEMMA PhiTypes ==
  ASSUME TypeInv PROVE prog \in Programs /\ phis \subseteq Blocks \X Vars
BY ProgramFacts, ReachableClosed DEF TypeInv

LEMMA QuietPhi ==
  ASSUME PhiInv, UNCHANGED <<prog, phis>>, pc \notin {"start", "phi"}, pc' \notin {"start", "phi"}
  PROVE  PhiInv'
<1>1. G' = G /\ \A v : Defs(v)' = Defs(v)
  BY SameFunction, SameDefs
<1>2. QED
  BY <1>1 DEF PhiInv

LEMMA QuietExec ==
  ASSUME ExecInv, UNCHANGED <<prog, execVars>>, pc # "exec", pc' # "exec"
  PROVE  ExecInv'
<1>1. G' = G
  BY SameFunction
<1>2. QED
  BY <1>1 DEF ExecInv, execVars

(* Nothing more has been passed, or no site of it. *)
LEMMA QuietRepl ==
  ASSUME ReplInv, UNCHANGED <<prog, phis, repl>>, pc' \notin {"start", "phi"} \/ pc \in {"start", "phi"},
         \A b, i : i \in 1..Len(Code(b)) /\ Passed(b, i)' => Passed(b, i)
  PROVE  ReplInv'
<1>1. /\ G' = G /\ Sites' = Sites /\ \A l : OpAt(l)' = OpAt(l)
      /\ \A v, b, i : Available(v, b, i)' = Available(v, b, i)
      /\ \A d, v, b, i : Nearest(d, v, b, i)' <=> Nearest(d, v, b, i)
  BY SameFunction, SameDefs
<1>2. \A l \in Sites : l[2] \in 1..Len(Code(l[1]))
  BY DEF Sites
<1>3. pc' \in {"start", "phi"} => DOMAIN repl' = {}
  BY DEF ReplInv
<1>4. QED
  BY <1>1, <1>2, <1>3 DEF ReplInv


LEMMA QuietOperands ==
  ASSUME TypeInv, OperandInv, UNCHANGED <<prog, phis, phiOps>>,
         pc' \notin {"start", "phi"} \/ pc \in {"start", "phi"},
         \A b \in Blocks : Passed(b, End(b))' => Passed(b, End(b))
  PROVE  OperandInv'
<1>1. /\ G' = G /\ \A b : End(b)' = End(b) /\ Succ(b)' = Succ(b)
      /\ \A v, b, i : Available(v, b, i)' = Available(v, b, i)
      /\ \A d, v, b, i : Nearest(d, v, b, i)' <=> Nearest(d, v, b, i)
  BY SameFunction, SameDefs
<1>2. QED
  BY <1>1 DEF OperandInv

LEMMA QuietDeleted ==
  ASSUME DeletedInv, UNCHANGED <<prog, repl, deleted>>,
         \A b \in Reachable(G) : ~Waiting(b)' => ~Waiting(b) \/ b \in ActiveBlocks',
         ActiveBlocks \subseteq ActiveBlocks'
  PROVE  DeletedInv'
<1>1. G' = G /\ Sites' = Sites /\ \A l : OpAt(l)' = OpAt(l)
  BY SameFunction
<1>2. QED
  BY <1>1 DEF DeletedInv

(****************************************************************************)
(* Before the renaming                                                      *)
(****************************************************************************)
LEMMA InitInv == Init => RenameInv
<1> SUFFICES ASSUME Init PROVE RenameInv
  OBVIOUS
<1>1. prog \in Programs /\ G \in [Blocks -> SUBSET Blocks]
  BY ProgramFacts DEF Init
<1>2. TypeInv
  BY EmptySeq DEF Init, TypeInv
<1>3. PhiInv
  BY DEF Init, PhiInv
<1>4. CallInv
  BY EmptySeq DEF Init, CallInv
<1>5. StackInv
  BY DEF Init, StackInv
<1>6. ReplInv /\ DeletedInv
  BY DEF Init, ReplInv, DeletedInv, Waiting, Passed
<1>7. OperandInv
  BY DEF Init, OperandInv
<1>8. ExecInv
  BY <1>1, ReachableClosed DEF Init, ExecInv
<1>9. QED
  BY <1>2, <1>3, <1>4, <1>5, <1>6, <1>7, <1>8 DEF RenameInv

LEMMA CollectStoresInv == ASSUME RenameInv, CollectStores PROVE RenameInv'
<1> USE DEF RenameInv
<1>1. /\ UNCHANGED <<prog, phis, callVars, execVars, calls, at, valStack, seen, repl, phiOps,
                     deleted>>
      /\ pc = "start" /\ pc' = "phi" /\ phis = {}
  BY DEF CollectStores, callVars, PhiInv
<1>2. /\ G' = G /\ \A b, v : StoresIn(b, v)' = StoresIn(b, v)
      /\ Sites' = Sites
  BY <1>1, SameFunction
<1>3. TypeInv'
  BY <1>1, <1>2 DEF TypeInv, CollectStores, G
<1>4. PhiInv'
  <2>1. ASSUME NEW b \in Blocks, NEW v \in Vars, StoresIn(b, v) # {} PROVE <<b, v>> \in work'
    BY <2>1 DEF CollectStores, BlocksStoring
  <2>2. QED
    BY <1>1, <1>2, <2>1 DEF PhiInv
<1>5. CallInv'
  BY <1>1, <1>2 DEF CallInv
<1>6. StackInv'
  BY <1>1, <1>2 DEF StackInv
<1>7. ReplInv' /\ OperandInv' /\ DeletedInv'
  <2>1. \A b, i : ~Passed(b, i)' /\ Waiting(b)'
    BY <1>1 DEF Passed, Waiting
  <2>2. ReplInv'
    BY <1>1, <2>1, QuietRepl
  <2>3. OperandInv'
    BY <1>1, <2>1, QuietOperands
  <2>4. QED
    BY <2>1, <2>2, <2>3 DEF DeletedInv
<1>8. ExecInv'
  BY <1>1, QuietExec
<1>9. QED
  BY <1>3, <1>4, <1>5, <1>6, <1>7, <1>8

LEMMA PlacePhisInv == ASSUME RenameInv, PlacePhis PROVE RenameInv'
<1> USE DEF RenameInv
<1>1. /\ UNCHANGED <<prog, frontier, treeSucc, callVars, execVars, calls, at, valStack, seen,
                     repl, phiOps, deleted>>
      /\ pc = "phi" /\ pc' = "phi"
  BY DEF PlacePhis, callVars
<1>2. /\ G' = G /\ \A b, v : StoresIn(b, v)' = StoresIn(b, v)
      /\ Sites' = Sites
  BY <1>1, SameFunction
<1>3. PICK w \in work :
        LET new == {<<f, w[2]>> : f \in frontier[w[1]]} \ phis
        IN  phis' = phis \cup new /\ work' = (work \ {w}) \cup new
  BY DEF PlacePhis
<1>4. /\ w = <<w[1], w[2]>> /\ w[1] \in Blocks /\ w[2] \in Vars
      /\ frontier[w[1]] = Frontier(G, w[1]) /\ Frontier(G, w[1]) \subseteq Reachable(G)
      /\ Reachable(G) \subseteq Blocks
  <2>1. w \in Blocks \X Vars /\ frontier = [b \in Blocks |-> Frontier(G, b)] /\ prog \in Programs
    BY <1>1 DEF TypeInv
  <2>2. QED
    BY <2>1, ProgramFacts, ReachableClosed DEF Frontier
<1>5. TypeInv'
  <2>1. phis' \subseteq Reachable(G) \X Vars /\ work' \subseteq Blocks \X Vars
    BY <1>3, <1>4 DEF TypeInv
  <2>2. QED
    BY <1>1, <1>2, <2>1 DEF TypeInv
<1>6. PhiInv'
  <2> SUFFICES ASSUME NEW b \in Blocks, NEW v \in Vars,
                      StoresIn(b, v) # {} \/ <<b, v>> \in phis'
               PROVE  <<b, v>> \in work' \/ \A y \in Frontier(G, b) : <<y, v>> \in phis'
    BY <1>1, <1>2 DEF PhiInv
  <2>1. CASE <<b, v>> = w
    BY <1>3, <1>4, <2>1
  <2>2. CASE <<b, v>> # w /\ <<b, v>> \in work
    BY <1>3, <2>2
  <2>3. CASE <<b, v>> \notin work
    <3>1. CASE StoresIn(b, v) # {} \/ <<b, v>> \in phis
      <4>1. \A y \in Frontier(G, b) : <<y, v>> \in phis
        BY <1>1, <2>3, <3>1 DEF PhiInv
      <4>2. QED
        BY <1>3, <4>1
    <3>2. CASE StoresIn(b, v) = {} /\ <<b, v>> \notin phis
      BY <1>3, <3>2
    <3>3. QED
      BY <3>1, <3>2
  <2>4. QED
    BY <2>1, <2>2, <2>3
<1>7. CallInv' /\ StackInv'
  BY <1>1, <1>2 DEF CallInv, StackInv
<1>8. ReplInv' /\ OperandInv' /\ DeletedInv'
  <2>1. \A b, i : ~Passed(b, i)' /\ Waiting(b)'
    BY <1>1 DEF Passed, Waiting
  <2>2. DOMAIN repl' = {} /\ \A f \in Blocks \X Vars : phiOps'[f] = {}
    BY <1>1 DEF ReplInv, OperandInv
  <2>3. phis' \subseteq Blocks \X Vars
    BY <1>4, <1>5, <1>2 DEF TypeInv
  <2>4. ReplInv'
    BY <2>1, <2>2 DEF ReplInv
  <2>5. OperandInv'
    BY <2>1, <2>2, <2>3 DEF OperandInv
  <2>6. QED
    BY <2>1, <2>4, <2>5 DEF DeletedInv
<1>9. ExecInv'
  BY <1>1, QuietExec
<1>10. QED
  BY <1>5, <1>6, <1>7, <1>8, <1>9


(****************************************************************************)
(* The renaming                                                             *)
(****************************************************************************)
(* What it takes to enter a block: callers is what calls is to be without   *)
(* the new call.                                                            *)
LEMMA EnterInv ==
  ASSUME RenameInv, pc \in {"phi", "kids"},
         NEW callers \in Seq([bb : Reachable(G), kids : SUBSET Reachable(G)]),
         NEW c \in Reachable(G), EnterBlock(callers, c),
         pc = "phi" => work = {},
         Len(callers) = 0 => c = Entry,
         Len(callers) > 0 => IsImmediateDominator(G, callers[Len(callers)].bb, c),
         \A j \in 1..Len(callers) :
           /\ \A k \in callers[j].kids : IsImmediateDominator(G, callers[j].bb, k)
           /\ j > 1 => IsImmediateDominator(G, callers[j - 1].bb, callers[j].bb)
           /\ {e \in Blocks : Dominates(G, e, callers[j].bb)} = {callers[i].bb : i \in 1..j},
         \A v \in Vars : Stacked(valStack[v], v, c, 0),
         \A b \in Reachable(G) :
           Waiting(b) => \/ b = c \/ StrictlyDominates(G, c, b)
                         \/ \E j \in 1..Len(callers) : \E k \in callers[j].kids : Dominates(G, k, b),
         ActiveBlocks \subseteq {callers[j].bb : j \in 1..Len(callers)}
  PROVE  RenameInv'
<1> USE DEF RenameInv
<1> DEFINE n == Len(callers)
<1>1. /\ UNCHANGED <<prog, passVars, frontier, treeSucc, work, phis, repl, phiOps, deleted,
                     execVars>>
      /\ pc' = "instr" /\ at' = 1
      /\ calls' = Append(callers, [bb |-> c, kids |-> treeSucc[c]])
      /\ valStack' = [v \in Vars |-> IF <<c, v>> \in phis
                                     THEN Append(valStack[v], PhiVal(c, v))
                                     ELSE valStack[v]]
      /\ seen' = seen \cup {v \in Vars : <<c, v>> \in phis}
  BY DEF EnterBlock, passVars
<1>2. /\ G' = G /\ Sites' = Sites /\ \A b : Code(b)' = Code(b) /\ End(b)' = End(b)
      /\ \A s, v, b, i : Stacked(s, v, b, i)' <=> Stacked(s, v, b, i)
      /\ \A v : Defs(v)' = Defs(v)
  BY <1>1, SameFunction, SameDefs
<1>3. /\ prog \in Programs /\ G \in [Blocks -> SUBSET Blocks] /\ phis \subseteq Blocks \X Vars
      /\ c \in Blocks /\ Reachable(G) \subseteq Blocks
      /\ \A b \in Blocks : End(b) \in Nat /\ End(b) = Len(Code(b)) + 1 /\ Len(Code(b)) \in Nat
  BY ProgramFacts, ReachableClosed, PhiTypes
<1>4. treeSucc[c] = {k \in Reachable(G) : IsImmediateDominator(G, c, k)}
  BY <1>3 DEF TypeInv
<1>5. /\ calls' \in Seq([bb : Reachable(G), kids : SUBSET Reachable(G)])
      /\ n \in Nat /\ Len(calls') = n + 1 /\ calls' # <<>>
      /\ \A j \in 1..n : calls'[j] = callers[j]
      /\ calls'[n + 1] = [bb |-> c, kids |-> treeSucc[c]]
  <2>1. [bb |-> c, kids |-> treeSucc[c]] \in [bb : Reachable(G), kids : SUBSET Reachable(G)]
    BY <1>4
  <2>2. QED
    BY <1>1, <2>1, AppendProperties
<1>6. Frame' = [bb |-> c, kids |-> treeSucc[c]]
  BY <1>5 DEF Frame, Top
<1> HIDE DEF n
<1>7. \A v \in Vars : valStack'[v] \in Seq(Values) /\ Stacked(valStack'[v], v, c, 1)
  <2> TAKE v \in Vars
  <2>1. valStack[v] \in Seq(Values) /\ Stacked(valStack[v], v, c, 0)
    BY DEF TypeInv
  <2>2. QED
    BY <1>1, <1>3, <2>1, EnterStacked
<1>8. TypeInv'
  <2>1. valStack' \in [Vars -> Seq(Values)]
    BY <1>1, <1>7
  <2>2. \A v \in Vars : valStack'[v] # <<>> => v \in seen'
    BY <1>1 DEF TypeInv
  <2>3. QED
    BY <1>1, <1>2, <2>1, <2>2 DEF TypeInv
<1>9. PhiInv'
  <2>1. CASE pc = "phi"
    <3> SUFFICES ASSUME NEW v \in Vars, NEW d \in Defs(v), NEW y \in Frontier(G, d.bb)
                 PROVE  <<y, v>> \in phis
      BY <1>1, <1>2 DEF PhiInv
    <3>1. d.bb \in Blocks /\ (StoresIn(d.bb, v) # {} \/ <<d.bb, v>> \in phis)
      BY <1>3, DefFacts
    <3>2. QED
      BY <2>1, <3>1 DEF PhiInv
  <2>2. CASE pc = "kids"
    BY <1>1, <2>2, QuietPhi
  <2>3. QED
    BY <2>1, <2>2
<1>10. CallInv'
  <2> SUFFICES ASSUME NEW j \in 1..Len(calls')
               PROVE  /\ \A k \in calls'[j].kids : IsImmediateDominator(G, calls'[j].bb, k)
                      /\ j > 1 => IsImmediateDominator(G, calls'[j - 1].bb, calls'[j].bb)
                      /\ {e \in Blocks : Dominates(G, e, calls'[j].bb)}
                           = {calls'[i].bb : i \in 1..j}
    <3>1. at' \in 1..End(Frame'.bb)
      BY <1>1, <1>3, <1>6
    <3>2. QED
      BY <1>1, <1>2, <1>5, <1>6, <3>1 DEF CallInv
  <2>1. CASE j \in 1..n
    <3>1. calls'[j] = callers[j] /\ (j > 1 => calls'[j - 1] = callers[j - 1])
          /\ \A i \in 1..j : calls'[i] = callers[i]
      BY <1>5, <2>1
    <3>2. {calls'[i].bb : i \in 1..j} = {callers[i].bb : i \in 1..j}
      BY <3>1
    <3>3. /\ \A k \in callers[j].kids : IsImmediateDominator(G, callers[j].bb, k)
          /\ j > 1 => IsImmediateDominator(G, callers[j - 1].bb, callers[j].bb)
          /\ {e \in Blocks : Dominates(G, e, callers[j].bb)} = {callers[i].bb : i \in 1..j}
      BY <2>1 DEF n
    <3>4. QED
      BY <3>1, <3>2, <3>3
  <2>2. CASE j = n + 1
    <3>1. calls'[j].bb = c /\ \A k \in calls'[j].kids : IsImmediateDominator(G, c, k)
      BY <1>4, <1>5, <2>2
    <3>2. CASE n = 0
      <4>1. {e \in Blocks : Dominates(G, e, Entry)} = {Entry}
        BY EntryHasNoDominator, EntryDominates, EntryAssumption
      <4>2. c = Entry
        BY <3>2 DEF n
      <4>3. 1..j = {1} /\ j = 1
        BY <2>2, <3>2
      <4>4. QED
        BY <3>1, <4>1, <4>2, <4>3
    <3>3. CASE n > 0
      <4>1. /\ IsImmediateDominator(G, callers[n].bb, c) /\ n \in 1..n /\ j - 1 = n
            /\ calls'[j - 1] = callers[n]
        BY <1>5, <2>2, <3>3 DEF n
      <4>2. {e \in Blocks : Dominates(G, e, callers[n].bb)} = {callers[i].bb : i \in 1..n}
        BY <4>1 DEF n
      <4>3. \A e \in Blocks : Dominates(G, e, c) <=> (e = c \/ Dominates(G, e, callers[n].bb))
        <5>1. \A e \in Blocks : StrictlyDominates(G, e, c) <=> Dominates(G, e, callers[n].bb)
          BY <1>3, <4>1, DominatorsOfChild
        <5>2. Dominates(G, c, c)
          BY <1>3, ReachableClosed, DominatesSelf
        <5>3. QED
          BY <5>1, <5>2 DEF StrictlyDominates
      <4>4. {calls'[i].bb : i \in 1..j} = {callers[i].bb : i \in 1..n} \cup {c}
        <5>1. 1..j = (1..n) \cup {j}
          BY <1>5, <2>2
        <5>2. {calls'[i].bb : i \in 1..n} = {callers[i].bb : i \in 1..n}
          BY <1>5
        <5>3. {calls'[i].bb : i \in (1..n) \cup {j}} = {calls'[i].bb : i \in 1..n} \cup {calls'[j].bb}
          OBVIOUS
        <5>4. QED
          BY <3>1, <5>1, <5>2, <5>3
      <4>5. {e \in Blocks : Dominates(G, e, c)} = {callers[i].bb : i \in 1..n} \cup {c}
        BY <1>3, <4>2, <4>3
      <4>6. QED
        BY <3>1, <4>1, <4>4, <4>5
    <3>4. QED
      BY <1>5, <3>2, <3>3
  <2>3. QED
    BY <1>5, <2>1, <2>2
<1>11. StackInv'
  BY <1>1, <1>2, <1>6, <1>7 DEF StackInv
<1>12. ASSUME NEW b \in Reachable(G), ~Waiting(b)' PROVE ~Waiting(b) \/ b = c
  <2>1. ASSUME NEW j \in 1..(n + 1), NEW k \in calls'[j].kids PROVE ~Dominates(G, k, b)
    BY <1>1, <1>2, <1>5, <1>12, <2>1 DEF Waiting
  <2>2. ~\E j \in 1..n : \E k \in callers[j].kids : Dominates(G, k, b)
    BY <1>5, <2>1
  <2>3. ~StrictlyDominates(G, c, b)
    <3> SUFFICES ASSUME StrictlyDominates(G, c, b) PROVE FALSE
      OBVIOUS
    <3>1. PICK k \in Reachable(G) : IsImmediateDominator(G, c, k) /\ Dominates(G, k, b)
      BY <1>3, ChildOnTheWay
    <3>2. n + 1 \in 1..(n + 1) /\ k \in calls'[n + 1].kids
      BY <1>4, <1>5, <3>1
    <3>3. QED
      BY <2>1, <3>1, <3>2
  <2>4. QED
    BY <2>2, <2>3 DEF n
<1>13. ASSUME NEW b, NEW i \in Nat, i > 0, Passed(b, i)' PROVE Passed(b, i)
  <2>1. b \in Reachable(G) /\ ~Waiting(b)' /\ b # c
    BY <1>1, <1>2, <1>6, <1>13 DEF Passed
  <2>2. QED
    BY <1>12, <2>1 DEF Passed
<1>14. ReplInv'
  <2>1. ASSUME NEW b, NEW i, i \in 1..Len(Code(b)), Passed(b, i)' PROVE Passed(b, i)
    <3>1. b \in Blocks
      BY <1>2, <1>3, <2>1 DEF Passed
    <3>2. i \in Nat /\ i > 0
      BY <1>3, <2>1, <3>1
    <3>3. QED
      BY <1>13, <2>1, <3>2
  <2>2. QED
    BY <1>1, <2>1, QuietRepl
<1>15. OperandInv'
  <2>1. ASSUME NEW b \in Blocks, Passed(b, End(b))' PROVE Passed(b, End(b))
    <3>1. End(b) \in Nat /\ End(b) > 0
      BY <1>3
    <3>2. End(b)' = End(b)
      BY <1>2
    <3>3. QED
      BY <1>13, <2>1, <3>1, <3>2
  <2>2. QED
    BY <1>1, <2>1, QuietOperands
<1>16. DeletedInv'
  <2>1. ActiveBlocks' = {calls'[j].bb : j \in 1..(n + 1)}
    BY <1>5 DEF ActiveBlocks
  <2>2. c \in ActiveBlocks'
    BY <1>5, <2>1
  <2>3. ActiveBlocks \subseteq ActiveBlocks'
    BY <1>5, <2>1 DEF n
  <2>4. QED
    BY <1>1, <1>12, <2>2, <2>3, QuietDeleted
<1>17. ExecInv'
  BY <1>1, QuietExec
<1>18. QED
  BY <1>8, <1>9, <1>10, <1>11, <1>14, <1>15, <1>16, <1>17


LEMMA StartRenameInv == ASSUME RenameInv, StartRename PROVE RenameInv'
<1> USE DEF RenameInv
<1>1. pc = "phi" /\ work = {} /\ EnterBlock(<<>>, Entry)
  BY DEF StartRename
<1>2. /\ prog \in Programs /\ G \in [Blocks -> SUBSET Blocks] /\ phis \subseteq Blocks \X Vars
      /\ Entry \in Reachable(G) /\ calls = <<>>
  BY <1>1, ProgramFacts, ReachableClosed, PhiTypes DEF CallInv
<1> DEFINE callers == <<>>
<1>3. callers \in Seq([bb : Reachable(G), kids : SUBSET Reachable(G)]) /\ Len(callers) = 0
  OBVIOUS
<1>4. \A v \in Vars : Stacked(valStack[v], v, Entry, 0)
  <2> TAKE v \in Vars
  <2>1. valStack[v] = <<>>
    BY <1>1 DEF StackInv
  <2>2. Available(v, Entry, 0) = {}
    <3> SUFFICES ASSUME NEW d \in Available(v, Entry, 0) PROVE FALSE
      OBVIOUS
    <3>1. d \in Defs(v) /\ ~StrictlyDominates(G, d.bb, Entry)
      BY EntryHasNoDominator DEF Available, StrictlyDominates
    <3>2. Place(d) \in Nat
      BY <1>2, <3>1, DefFacts
    <3>3. ~(Place(d) < 0)
      BY <3>2
    <3>4. QED
      BY <3>1, <3>3 DEF Available, Before
  <2>3. QED
    BY <1>3, <2>1, <2>2 DEF Stacked
<1>5. \A b \in Reachable(G) : b = Entry \/ StrictlyDominates(G, Entry, b)
  BY EntryDominates DEF StrictlyDominates
<1>6. ActiveBlocks = {}
  BY <1>2 DEF ActiveBlocks
<1>7. pc \in {"phi", "kids"} /\ EnterBlock(callers, Entry)
  BY <1>1
<1> HIDE DEF callers
<1>8. /\ Len(callers) > 0 => IsImmediateDominator(G, callers[Len(callers)].bb, Entry)
      /\ \A j \in 1..Len(callers) :
           /\ \A k \in callers[j].kids : IsImmediateDominator(G, callers[j].bb, k)
           /\ j > 1 => IsImmediateDominator(G, callers[j - 1].bb, callers[j].bb)
           /\ {e \in Blocks : Dominates(G, e, callers[j].bb)} = {callers[i].bb : i \in 1..j}
  BY <1>3
<1>9. /\ pc = "phi" => work = {}
      /\ Len(callers) = 0 => Entry = Entry
      /\ ActiveBlocks \subseteq {callers[j].bb : j \in 1..Len(callers)}
      /\ \A b \in Reachable(G) :
           Waiting(b) => \/ b = Entry \/ StrictlyDominates(G, Entry, b)
                         \/ \E j \in 1..Len(callers) : \E k \in callers[j].kids : Dominates(G, k, b)
  BY <1>1, <1>5, <1>6
<1>10. QED
  BY <1>2, <1>3, <1>4, <1>7, <1>8, <1>9, EnterInv

LEMMA RenameChildInv == ASSUME RenameInv, RenameChild PROVE RenameInv'
<1> USE DEF RenameInv
<1> DEFINE n == Len(calls)
<1>1. pc = "kids"
  BY DEF RenameChild
<1>2. PICK c \in Frame.kids :
        EnterBlock([calls EXCEPT ![Len(calls)].kids = calls[Len(calls)].kids \ {c}], c)
  BY DEF RenameChild
<1> DEFINE callers == [calls EXCEPT ![n].kids = calls[n].kids \ {c}]
<1>3. /\ n \in Nat /\ n \in 1..n /\ Frame = calls[n] /\ Frame.bb \in Reachable(G)
      /\ Frame.kids \in SUBSET Reachable(G) /\ Frame = [bb |-> Frame.bb, kids |-> Frame.kids]
  BY <1>1, FrameFacts
<1>4. /\ calls \in Seq([bb : Reachable(G), kids : SUBSET Reachable(G)])
      /\ \A j \in 1..n :
           /\ \A k \in calls[j].kids : IsImmediateDominator(G, calls[j].bb, k)
           /\ j > 1 => IsImmediateDominator(G, calls[j - 1].bb, calls[j].bb)
           /\ {e \in Blocks : Dominates(G, e, calls[j].bb)} = {calls[i].bb : i \in 1..j}
  BY DEF CallInv
<1>5. /\ prog \in Programs /\ G \in [Blocks -> SUBSET Blocks] /\ phis \subseteq Blocks \X Vars
      /\ c \in Reachable(G) /\ IsImmediateDominator(G, calls[n].bb, c)
  BY <1>3, <1>4, ProgramFacts, PhiTypes
<1>6. /\ callers \in Seq([bb : Reachable(G), kids : SUBSET Reachable(G)])
      /\ Len(callers) = n
      /\ \A j \in 1..n : /\ callers[j].bb = calls[j].bb /\ callers[j].kids \subseteq calls[j].kids
                         /\ calls[j].kids \subseteq callers[j].kids \cup {c}
  <2>1. callers = [calls EXCEPT ![n] = [bb |-> Frame.bb, kids |-> Frame.kids \ {c}]]
    <3>1. [Frame EXCEPT !.kids = Frame.kids \ {c}] = [bb |-> Frame.bb, kids |-> Frame.kids \ {c}]
      BY <1>3, SMTT(30)
    <3>2. callers = [calls EXCEPT ![n] = [calls[n] EXCEPT !.kids = calls[n].kids \ {c}]]
      OBVIOUS
    <3>3. QED
      BY <1>3, <3>1, <3>2
  <2>2. [bb |-> Frame.bb, kids |-> Frame.kids \ {c}] \in [bb : Reachable(G), kids : SUBSET Reachable(G)]
    BY <1>3
  <2> HIDE DEF callers
  <2>3. callers \in Seq([bb : Reachable(G), kids : SUBSET Reachable(G)]) /\ Len(callers) = n
    BY <1>3, <1>4, <2>1, <2>2, ExceptSeq
  <2>4. ASSUME NEW j \in 1..n
        PROVE  /\ callers[j].bb = calls[j].bb /\ callers[j].kids \subseteq calls[j].kids
               /\ calls[j].kids \subseteq callers[j].kids \cup {c}
    <3>1. DOMAIN calls = 1..n
      BY <1>4
    <3>2. CASE j = n
      BY <1>3, <2>1, <3>1, <3>2
    <3>3. CASE j # n
      BY <2>1, <3>1, <3>3
    <3>4. QED
      BY <3>2, <3>3
  <2>5. QED
    BY <2>3, <2>4
<1>7. EnterBlock(callers, c)
  BY <1>2
<1> HIDE DEF callers
<1>8. IsImmediateDominator(G, callers[Len(callers)].bb, c) /\ Len(callers) # 0
  BY <1>3, <1>5, <1>6
<1>9. \A j \in 1..Len(callers) :
        /\ \A k \in callers[j].kids : IsImmediateDominator(G, callers[j].bb, k)
        /\ j > 1 => IsImmediateDominator(G, callers[j - 1].bb, callers[j].bb)
        /\ {e \in Blocks : Dominates(G, e, callers[j].bb)} = {callers[i].bb : i \in 1..j}
  <2> TAKE j \in 1..Len(callers)
  <2>1. /\ j \in 1..n /\ (j > 1 => j - 1 \in 1..n)
        /\ \A i \in 1..j : i \in 1..n
    BY <1>3, <1>6
  <2>2. {callers[i].bb : i \in 1..j} = {calls[i].bb : i \in 1..j}
    BY <1>6, <2>1
  <2>3. QED
    BY <1>4, <1>6, <2>1, <2>2
<1>10. \A v \in Vars : Stacked(valStack[v], v, c, 0)
  <2> TAKE v \in Vars
  <2>1. Stacked(valStack[v], v, Frame.bb, End(Frame.bb))
    BY <1>1 DEF StackInv
  <2>2. Available(v, c, 0) = {d \in Defs(v) : StrictlyDominates(G, d.bb, c)}
    <3>1. ASSUME NEW d \in Defs(v) PROVE ~(Place(d) < 0)
      <4>1. Place(d) \in Nat
        BY <1>5, DefFacts
      <4>2. QED
        BY <4>1
    <3>2. QED
      BY <3>1 DEF Available, Before
  <2>3. Available(v, c, 0) = Available(v, Frame.bb, End(Frame.bb))
    BY <1>3, <1>5, <2>2, AvailableInChild
  <2>4. QED
    BY <2>1, <2>3 DEF Stacked
<1>11. ASSUME NEW b \in Reachable(G), Waiting(b)
       PROVE  \/ b = c \/ StrictlyDominates(G, c, b)
              \/ \E j \in 1..Len(callers) : \E k \in callers[j].kids : Dominates(G, k, b)
  <2>1. PICK j \in 1..n : \E k \in calls[j].kids : Dominates(G, k, b)
    BY <1>1, <1>11 DEF Waiting
  <2>2. PICK k \in calls[j].kids : Dominates(G, k, b)
    BY <2>1
  <2>3. k = c \/ k \in callers[j].kids
    BY <1>6
  <2>4. QED
    BY <1>6, <2>2, <2>3 DEF StrictlyDominates
<1>12. ActiveBlocks \subseteq {callers[j].bb : j \in 1..Len(callers)}
  BY <1>6 DEF ActiveBlocks
<1>13. pc \in {"phi", "kids"} /\ pc # "phi"
  BY <1>1
<1>14. QED
  BY <1>5, <1>6, <1>7, <1>8, <1>9, <1>10, <1>11, <1>12, <1>13, EnterInv


(* An instruction of the innermost block is at hand. *)
LEMMA InstrFacts ==
  ASSUME RenameInv, pc = "instr", at <= Len(Code(Frame.bb))
  PROVE  /\ Frame.bb \in Reachable(G) /\ Frame.bb \in Blocks /\ Frame.bb \in ActiveBlocks
         /\ at \in 1..Len(Code(Frame.bb)) /\ at \in Nat /\ Len(Code(Frame.bb)) \in Nat
         /\ <<Frame.bb, at>> \in Sites /\ OpAt(<<Frame.bb, at>>) = CurrentOp /\ CurrentOp \in Op
         /\ prog \in Programs /\ phis \subseteq Blocks \X Vars
<1> USE DEF RenameInv
<1>1. prog \in Programs /\ phis \subseteq Blocks \X Vars /\ Reachable(G) \subseteq Blocks
  BY PhiTypes, ProgramFacts, ReachableClosed DEF TypeInv
<1>2. Len(calls) \in 1..Len(calls) /\ Frame = calls[Len(calls)] /\ Frame.bb \in Reachable(G)
  BY FrameFacts
<1>3. Frame.bb \in ActiveBlocks
  BY <1>2 DEF ActiveBlocks
<1>4. /\ at \in 1..End(Frame.bb) /\ Len(Code(Frame.bb)) \in Nat
      /\ End(Frame.bb) = Len(Code(Frame.bb)) + 1
  BY <1>1, <1>2, ProgramFacts DEF CallInv
<1>5. at \in 1..Len(Code(Frame.bb)) /\ at \in Nat
  BY <1>4
<1>6. <<Frame.bb, at>> \in Sites /\ Code(Frame.bb)[at] \in Op
  BY <1>1, <1>2, <1>5, ProgramFacts
<1>7. QED
  BY <1>1, <1>2, <1>3, <1>4, <1>5, <1>6 DEF OpAt, CurrentOp

LEMMA StepPassed ==
  ASSUME RenameInv, pc = "instr", at <= Len(Code(Frame.bb)),
         UNCHANGED <<prog, calls, pc>>, at' = at + 1
  PROVE  /\ CallInv' /\ Frame' = Frame /\ ActiveBlocks' = ActiveBlocks
         /\ \A b : Waiting(b)' <=> Waiting(b)
         /\ \A b, i : i \in Nat /\ Passed(b, i)' => Passed(b, i) \/ (b = Frame.bb /\ i = at)
         /\ \A b \in Blocks : Passed(b, End(b))' => Passed(b, End(b))
<1> USE DEF RenameInv
<1>1. G' = G /\ \A b : End(b)' = End(b)
  BY SameFunction
<1>2. /\ at \in Nat /\ Frame.bb \in Blocks /\ at \in 1..Len(Code(Frame.bb))
      /\ Len(Code(Frame.bb)) \in Nat
      /\ \A b \in Blocks : End(b) \in Nat /\ End(b) = Len(Code(b)) + 1
  BY InstrFacts, ProgramFacts
<1>3. Frame' = Frame /\ ActiveBlocks' = ActiveBlocks
  BY DEF Frame, Top, ActiveBlocks
<1>4. CallInv'
  <2>1. at' \in 1..End(Frame.bb)
    BY <1>2
  <2>2. QED
    BY <1>1, <1>3, <2>1 DEF CallInv
<1>5. \A b : Waiting(b)' <=> Waiting(b)
  BY <1>1 DEF Waiting
<1>6. ASSUME NEW b, NEW i, i \in Nat, Passed(b, i)'
      PROVE  Passed(b, i) \/ (b = Frame.bb /\ i = at)
  <2>1. /\ b \in Reachable(G) /\ ~Waiting(b) /\ (b = Frame.bb => i < at + 1)
    BY <1>1, <1>3, <1>5, <1>6 DEF Passed
  <2>2. i < at + 1 => i < at \/ i = at
    BY <1>2, <1>6
  <2>3. QED
    BY <2>1, <2>2 DEF Passed
<1>7. ASSUME NEW b \in Blocks, Passed(b, End(b))' PROVE Passed(b, End(b))
  <2>1. End(b) \in Nat /\ (b = Frame.bb => End(b) # at)
    BY <1>2
  <2>2. End(b)' = End(b)
    BY <1>1
  <2>3. QED
    BY <1>6, <1>7, <2>1, <2>2
<1>8. QED
  BY <1>3, <1>4, <1>5, <1>6, <1>7

LEMMA RenameLoadInv == ASSUME RenameInv, RenameLoad PROVE RenameInv'
<1> USE DEF RenameInv
<1> DEFINE b == Frame.bb
           v == CurrentOp.var
           site == <<b, at>>
<1>1. /\ pc = "instr" /\ at <= Len(Code(b)) /\ CurrentOp.op = "load" /\ at' = at + 1
      /\ UNCHANGED <<prog, pc, frontier, treeSucc, work, phis, calls, valStack, seen, phiOps, deleted,
                     execVars>>
      /\ IF v \in seen
         THEN repl' = [l \in DOMAIN repl \cup {site} |->
                         IF l \in DOMAIN repl THEN repl[l]
                         ELSE IF valStack[v] = <<>> THEN Garbage
                         ELSE Top(valStack[v])]
         ELSE repl' = repl
  BY DEF RenameLoad, AtOp, passVars
<1>2. /\ b \in Reachable(G) /\ b \in Blocks /\ b \in ActiveBlocks
      /\ at \in 1..Len(Code(b)) /\ at \in Nat
      /\ site \in Sites /\ OpAt(site) = CurrentOp /\ CurrentOp \in Op /\ v \in Vars
      /\ prog \in Programs /\ phis \subseteq Blocks \X Vars
  <2>1. CurrentOp \in Op
    BY <1>1, InstrFacts
  <2>2. v \in Vars
    BY <2>1 DEF Op
  <2>3. QED
    BY <1>1, <2>1, <2>2, InstrFacts
<1>3. /\ CallInv' /\ Frame' = Frame /\ ActiveBlocks' = ActiveBlocks
      /\ \A c : Waiting(c)' <=> Waiting(c)
      /\ \A c, i : i \in Nat /\ Passed(c, i)' => Passed(c, i) \/ (c = b /\ i = at)
      /\ \A c \in Blocks : Passed(c, End(c))' => Passed(c, End(c))
  BY <1>1, StepPassed
<1>4. /\ G' = G /\ Sites' = Sites /\ \A l : OpAt(l)' = OpAt(l)
      /\ \A u, c, i : Available(u, c, i)' = Available(u, c, i)
      /\ \A d, u, c, i : Nearest(d, u, c, i)' <=> Nearest(d, u, c, i)
      /\ \A s, u, c, i : Stacked(s, u, c, i)' <=> Stacked(s, u, c, i)
  BY <1>1, SameFunction, SameDefs
<1> HIDE DEF v, site, b
<1>5. TypeInv'
  <2>1. DOMAIN repl' \subseteq Sites
    BY <1>1, <1>2 DEF TypeInv
  <2>2. QED
    BY <1>1, <1>4, <2>1 DEF TypeInv
<1>6. PhiInv'
  BY <1>1, QuietPhi
<1>7. StackInv'
  <2> SUFFICES ASSUME NEW u \in Vars PROVE Stacked(valStack[u], u, b, at + 1)
    BY <1>1, <1>3, <1>4 DEF StackInv, b
  <2>1. valStack[u] \in Seq(Values) /\ Stacked(valStack[u], u, b, at)
    BY <1>1 DEF TypeInv, StackInv, b
  <2>2. at \notin StoresIn(b, u)
    BY <1>1 DEF StoresIn, CurrentOp, b
  <2>3. QED
    BY <1>2, <2>1, <2>2, StepStacked
<1>8. /\ valStack[v] = <<>> <=> Available(v, b, at) = {}
      /\ valStack[v] # <<>> => Nearest(Top(valStack[v]), v, b, at)
  <2>1. valStack[v] \in Seq(Values) /\ Stacked(valStack[v], v, b, at)
    BY <1>1, <1>2 DEF TypeInv, StackInv, b
  <2>2. QED
    BY <2>1, TopIsNearest
<1>9. site = <<b, at>> /\ site[1] = b /\ site[2] = at /\ OpAt(site).var = v /\ OpAt(site).op = "load"
  BY <1>1, <1>2 DEF site, v
<1>10. ReplInv'
  <2>1. ASSUME NEW l \in DOMAIN repl'
        PROVE  /\ l[1] \in Reachable(G) /\ OpAt(l).op = "load"
               /\ \/ repl'[l] = Garbage /\ Available(OpAt(l).var, l[1], l[2]) = {}
                  \/ Nearest(repl'[l], OpAt(l).var, l[1], l[2])
    <3>1. CASE l \in DOMAIN repl
      <4>1. repl'[l] = repl[l]
        BY <1>1, <3>1
      <4>2. QED
        BY <3>1, <4>1 DEF ReplInv
    <3>2. CASE l \notin DOMAIN repl
      <4>1. /\ l = site
            /\ repl'[l] = IF valStack[v] = <<>> THEN Garbage ELSE Top(valStack[v])
        BY <1>1, <3>2
      <4>2. QED
        BY <1>2, <1>8, <1>9, <4>1
    <3>3. QED
      BY <3>1, <3>2
  <2>2. ASSUME NEW l \in Sites, OpAt(l).op = "load", Passed(l[1], l[2])',
               Available(OpAt(l).var, l[1], l[2]) # {}
        PROVE  l \in DOMAIN repl'
    <3>1. l = <<l[1], l[2]>> /\ l[2] \in Nat
      BY <1>2, ProgramFacts
    <3>2. CASE Passed(l[1], l[2])
      <4>1. l \in DOMAIN repl
        BY <2>2, <3>2 DEF ReplInv
      <4>2. QED
        BY <1>1, <4>1
    <3>3. CASE l[1] = b /\ l[2] = at
      <4>1. l = site
        BY <1>9, <3>1, <3>3
      <4>2. v \in seen
        BY <1>2, <1>8, <1>9, <2>2, <4>1 DEF TypeInv
      <4>3. QED
        BY <1>1, <4>1, <4>2
    <3>4. QED
      BY <1>3, <2>2, <3>1, <3>2, <3>3
  <2>3. pc' \notin {"start", "phi"}
    BY <1>1
  <2>4. QED
    BY <1>4, <2>1, <2>2, <2>3 DEF ReplInv
<1>11. OperandInv'
  BY <1>1, <1>3, QuietOperands
<1>12. DeletedInv'
  <2>1. DOMAIN repl' \subseteq DOMAIN repl \cup {site}
    BY <1>1
  <2>2. QED
    BY <1>1, <1>2, <1>3, <1>4, <1>9, <2>1 DEF DeletedInv
<1>13. ExecInv'
  BY <1>1, QuietExec
<1>14. QED
  BY <1>3, <1>5, <1>6, <1>7, <1>10, <1>11, <1>12, <1>13


LEMMA RenameStoreInv == ASSUME RenameInv, RenameStore PROVE RenameInv'
<1> USE DEF RenameInv
<1> DEFINE b == Frame.bb
           v == CurrentOp.var
<1>1. /\ pc = "instr" /\ at <= Len(Code(b)) /\ CurrentOp.op = "store" /\ at' = at + 1
      /\ UNCHANGED <<prog, pc, frontier, treeSucc, work, phis, calls, repl, phiOps, deleted,
                     execVars>>
      /\ valStack' = [valStack EXCEPT ![v] = Append(valStack[v], StoreVal(b, at))]
      /\ seen' = seen \cup {v}
  BY DEF RenameStore, AtOp, passVars
<1>2. /\ b \in Reachable(G) /\ b \in Blocks
      /\ at \in 1..Len(Code(b)) /\ at \in Nat /\ CurrentOp = [op |-> "store", var |-> v] /\ v \in Vars
      /\ prog \in Programs /\ phis \subseteq Blocks \X Vars
  <2>1. CurrentOp \in Op
    BY <1>1, InstrFacts
  <2>2. v \in Vars /\ CurrentOp = [op |-> "store", var |-> v]
    BY <1>1, <2>1 DEF Op
  <2>3. QED
    BY <1>1, <2>2, InstrFacts
<1>3. /\ CallInv' /\ Frame' = Frame /\ ActiveBlocks' = ActiveBlocks
      /\ \A c : Waiting(c)' <=> Waiting(c)
      /\ \A c, i : i \in Nat /\ Passed(c, i)' => Passed(c, i) \/ (c = b /\ i = at)
      /\ \A c \in Blocks : Passed(c, End(c))' => Passed(c, End(c))
  BY <1>1, StepPassed
<1>4. /\ G' = G /\ Sites' = Sites /\ \A l : OpAt(l)' = OpAt(l)
      /\ \A u, c, i : Available(u, c, i)' = Available(u, c, i)
      /\ \A d, u, c, i : Nearest(d, u, c, i)' <=> Nearest(d, u, c, i)
      /\ \A s, u, c, i : Stacked(s, u, c, i)' <=> Stacked(s, u, c, i)
  BY <1>1, SameFunction, SameDefs
<1>5. Code(b)[at] = [op |-> "store", var |-> v]
  BY <1>2 DEF CurrentOp
<1> HIDE DEF v, b
<1>6. \A u \in Vars : valStack'[u] \in Seq(Values) /\ Stacked(valStack'[u], u, b, at + 1)
  <2> TAKE u \in Vars
  <2>1. valStack[u] \in Seq(Values) /\ Stacked(valStack[u], u, b, at) /\ DOMAIN valStack = Vars
    BY <1>1 DEF TypeInv, StackInv, b
  <2>2. at \in StoresIn(b, u) <=> u = v
    BY <1>2, <1>5 DEF StoresIn
  <2>3. valStack'[u] = IF at \in StoresIn(b, u) THEN Append(valStack[u], StoreVal(b, at)) ELSE valStack[u]
    BY <1>1, <2>1, <2>2
  <2>4. QED
    BY <1>2, <2>1, <2>3, StepStacked
<1>7. TypeInv'
  <2>1. valStack \in [Vars -> Seq(Values)]
    BY DEF TypeInv
  <2>2. valStack' \in [Vars -> Seq(Values)] /\ \A u \in Vars : u # v => valStack'[u] = valStack[u]
    BY <1>1, <1>6, <2>1
  <2>3. \A u \in Vars : valStack'[u] # <<>> => u \in seen'
    BY <1>1, <2>2 DEF TypeInv
  <2>4. QED
    BY <1>1, <1>4, <2>2, <2>3 DEF TypeInv
<1>8. PhiInv'
  BY <1>1, QuietPhi
<1>9. StackInv'
  BY <1>1, <1>3, <1>4, <1>6 DEF StackInv, b
<1>10. ReplInv'
  <2>1. ASSUME NEW l \in Sites, OpAt(l).op = "load", Passed(l[1], l[2])'
        PROVE  Passed(l[1], l[2])
    <3>1. l[2] \in Nat
      BY <1>2, ProgramFacts
    <3>2. ~(l[1] = b /\ l[2] = at)
      BY <1>5, <2>1 DEF OpAt
    <3>3. QED
      BY <1>3, <2>1, <3>1, <3>2
  <2>2. pc' \notin {"start", "phi"}
    BY <1>1
  <2>3. QED
    BY <1>1, <1>4, <2>1, <2>2 DEF ReplInv
<1>11. OperandInv'
  BY <1>1, <1>3, QuietOperands
<1>12. DeletedInv'
  BY <1>1, <1>3, QuietDeleted
<1>13. ExecInv'
  BY <1>1, QuietExec
<1>14. QED
  BY <1>3, <1>7, <1>8, <1>9, <1>10, <1>11, <1>12, <1>13

(* All instructions of the innermost block are renamed. *)
LEMMA FillFacts ==
  ASSUME RenameInv, AtFill
  PROVE  /\ pc = "instr" /\ at = End(Frame.bb) /\ at \in Nat
         /\ Frame.bb \in Reachable(G) /\ Frame.bb \in Blocks
         /\ prog \in Programs /\ phis \subseteq Blocks \X Vars
         /\ \A v \in Vars : /\ valStack[v] \in Seq(Values)
                            /\ Stacked(valStack[v], v, Frame.bb, End(Frame.bb))
<1> USE DEF RenameInv
<1>1. pc = "instr" /\ at > Len(Code(Frame.bb))
  BY DEF AtFill
<1>2. prog \in Programs /\ phis \subseteq Blocks \X Vars /\ Reachable(G) \subseteq Blocks
  BY PhiTypes, ProgramFacts, ReachableClosed DEF TypeInv
<1>3. Frame.bb \in Reachable(G) /\ at \in 1..End(Frame.bb)
  BY <1>1, FrameFacts DEF CallInv
<1>4. at = End(Frame.bb) /\ at \in Nat
  <2>1. End(Frame.bb) = Len(Code(Frame.bb)) + 1 /\ Len(Code(Frame.bb)) \in Nat
    BY <1>2, <1>3, ProgramFacts
  <2>2. QED
    BY <1>1, <1>3, <2>1
<1>5. ASSUME NEW v \in Vars
      PROVE  /\ valStack[v] \in Seq(Values)
             /\ Stacked(valStack[v], v, Frame.bb, End(Frame.bb))
  BY <1>1, <1>4 DEF TypeInv, StackInv
<1>6. QED
  BY <1>1, <1>2, <1>3, <1>4, <1>5

LEMMA FillPhisInv == ASSUME RenameInv, FillPhis PROVE RenameInv'
<1> USE DEF RenameInv
<1> DEFINE b == Frame.bb
<1>1. /\ AtFill /\ pc' = "kids"
      /\ UNCHANGED <<prog, frontier, treeSucc, work, phis, calls, at, valStack, seen, repl, deleted,
                     execVars>>
      /\ \A f \in PhisToFill(b) : valStack[f[2]] # <<>>
      /\ phiOps' = [f \in Blocks \X Vars |->
                      IF f \in PhisToFill(b) THEN phiOps[f] \cup {<<Top(valStack[f[2]]), b>>}
                      ELSE phiOps[f]]
  BY DEF FillPhis, passVars
<1>2. /\ pc = "instr" /\ at = End(b) /\ at \in Nat /\ b \in Reachable(G) /\ b \in Blocks
      /\ prog \in Programs /\ phis \subseteq Blocks \X Vars
      /\ \A v \in Vars : valStack[v] \in Seq(Values) /\ Stacked(valStack[v], v, b, End(b))
  BY <1>1, FillFacts
<1>3. /\ G' = G /\ Sites' = Sites /\ \A l : OpAt(l)' = OpAt(l)
      /\ \A c : End(c)' = End(c) /\ Succ(c)' = Succ(c)
      /\ \A u, c, i : Available(u, c, i)' = Available(u, c, i)
      /\ \A d, u, c, i : Nearest(d, u, c, i)' <=> Nearest(d, u, c, i)
      /\ \A s, u, c, i : Stacked(s, u, c, i)' <=> Stacked(s, u, c, i)
  BY <1>1, SameFunction, SameDefs
<1>4. /\ Frame' = Frame /\ ActiveBlocks' = ActiveBlocks /\ \A c : Waiting(c)' <=> Waiting(c)
  BY <1>1, <1>2, <1>3 DEF Frame, Top, ActiveBlocks, Waiting
<1> HIDE DEF b
<1>5. \A c, i : Passed(c, i)' => Passed(c, i) \/ (c = b /\ ~(i < End(b)))
  BY <1>2, <1>3, <1>4 DEF Passed, b
<1>6. TypeInv' /\ PhiInv' /\ CallInv' /\ StackInv'
  <2>1. TypeInv'
    <3>1. DOMAIN phiOps' = Blocks \X Vars
      BY <1>1
    <3>2. QED
      BY <1>1, <1>2, <1>3, <3>1 DEF TypeInv
  <2>2. PhiInv'
    BY <1>1, <1>2, QuietPhi
  <2>3. CallInv'
    BY <1>1, <1>2, <1>3 DEF CallInv
  <2>4. StackInv'
    BY <1>1, <1>2, <1>3, <1>4 DEF StackInv, b
  <2>5. QED
    BY <2>1, <2>2, <2>3, <2>4
<1>7. ReplInv'
  <2>1. ASSUME NEW c, NEW i, i \in 1..Len(Code(c)), Passed(c, i)' PROVE Passed(c, i)
    <3> SUFFICES ASSUME c = b PROVE i < End(b)
      BY <1>5, <2>1
    <3>1. Len(Code(b)) \in Nat /\ End(b) = Len(Code(b)) + 1
      BY <1>2, ProgramFacts
    <3>2. QED
      BY <2>1, <3>1
  <2>2. QED
    BY <1>1, <2>1, QuietRepl
<1>8. OperandInv'
  <2> SUFFICES ASSUME NEW f \in phis
        PROVE  /\ \A o \in phiOps'[f] :
                    /\ o = <<o[1], o[2]>> /\ o[2] \in Reachable(G) /\ f[1] \in Succ(o[2])
                    /\ Nearest(o[1], f[2], o[2], End(o[2]))
               /\ \A p \in Blocks :
                    /\ f[1] \in Succ(p) /\ Passed(p, End(p))'
                    /\ Available(f[2], p, End(p)) # {}
                    => \E o \in phiOps'[f] : o[2] = p
    BY <1>1, <1>3, ZenonT(60) DEF OperandInv
  <2> DEFINE new == <<Top(valStack[f[2]]), b>>
  <2>1. f \in Blocks \X Vars /\ f[2] \in Vars
    BY <1>2
  <2>2. phiOps'[f] = IF f \in PhisToFill(b) THEN phiOps[f] \cup {new} ELSE phiOps[f]
    BY <1>1, <2>1
  <2>3. /\ valStack[f[2]] = <<>> <=> Available(f[2], b, End(b)) = {}
        /\ valStack[f[2]] # <<>> => Nearest(Top(valStack[f[2]]), f[2], b, End(b))
    BY <1>2, <2>1, TopIsNearest
  <2>4. new[1] = Top(valStack[f[2]]) /\ new[2] = b /\ new = <<new[1], new[2]>>
    OBVIOUS
  <2> HIDE DEF new
  <2>5. ASSUME NEW o \in phiOps'[f]
        PROVE  /\ o = <<o[1], o[2]>> /\ o[2] \in Reachable(G) /\ f[1] \in Succ(o[2])
               /\ Nearest(o[1], f[2], o[2], End(o[2]))
    <3>1. CASE o \in phiOps[f]
      BY <3>1 DEF OperandInv
    <3>2. CASE f \in PhisToFill(b) /\ o = new
      <4>1. f[1] \in Succ(b) /\ valStack[f[2]] # <<>>
        BY <1>1, <3>2 DEF PhisToFill
      <4>2. QED
        BY <1>2, <2>3, <2>4, <3>2, <4>1
    <3>3. QED
      BY <2>2, <3>1, <3>2
  <2>6. ASSUME NEW p \in Blocks, f[1] \in Succ(p), Passed(p, End(p))',
               Available(f[2], p, End(p)) # {}
        PROVE  \E o \in phiOps'[f] : o[2] = p
    <3>1. End(p)' = End(p)
      BY <1>3
    <3>2. CASE Passed(p, End(p))
      <4>1. PICK o \in phiOps[f] : o[2] = p
        BY <2>6, <3>2 DEF OperandInv
      <4>2. QED
        BY <2>2, <4>1
    <3>3. CASE p = b
      <4>1. f[2] \in seen
        BY <1>2, <2>1, <2>3, <2>6, <3>3 DEF TypeInv
      <4>2. f \in PhisToFill(b)
        BY <2>6, <3>3, <4>1 DEF PhisToFill
      <4>3. QED
        BY <2>2, <2>4, <3>3, <4>2
    <3>4. QED
      BY <1>5, <2>6, <3>1, <3>2, <3>3
  <2>7. QED
    BY <2>5, <2>6
<1>9. DeletedInv'
  BY <1>1, <1>4, QuietDeleted
<1>10. ExecInv'
  BY <1>1, <1>2, QuietExec
<1>11. QED
  BY <1>6, <1>7, <1>8, <1>9, <1>10

LEMMA AssertFailsInv == ASSUME RenameInv, AssertFails PROVE RenameInv'
<1> USE DEF RenameInv
<1>1. /\ pc = "instr" /\ pc' = "abort"
      /\ UNCHANGED <<prog, frontier, treeSucc, work, phis, calls, at, valStack, seen, repl, phiOps,
                     deleted, execVars>>
  BY DEF AssertFails, AtFill, passVars, callVars
<1>2. /\ G' = G /\ Sites' = Sites /\ \A c : End(c)' = End(c)
      /\ \A s, u, c, i : Stacked(s, u, c, i)' <=> Stacked(s, u, c, i)
  BY <1>1, SameFunction, SameDefs
<1>3. Frame' = Frame /\ ActiveBlocks' = ActiveBlocks /\ \A c : Waiting(c)' <=> Waiting(c)
  BY <1>1, <1>2 DEF Frame, Top, ActiveBlocks, Waiting
<1>4. \A c, i : Passed(c, i)' <=> Passed(c, i)
  BY <1>1, <1>2, <1>3 DEF Passed
<1>5. TypeInv' /\ PhiInv'
  BY <1>1, <1>2, QuietPhi DEF TypeInv
<1>6. CallInv' /\ StackInv'
  BY <1>1, <1>2, <1>3 DEF CallInv, StackInv
<1>7. ReplInv'
  BY <1>1, <1>4, QuietRepl
<1>8. OperandInv'
  <2>1. ASSUME NEW c \in Blocks, Passed(c, End(c))' PROVE Passed(c, End(c))
    <3>1. End(c)' = End(c)
      BY <1>2
    <3>2. QED
      BY <1>4, <2>1, <3>1
  <2>2. QED
    BY <1>1, <2>1, QuietOperands
<1>9. DeletedInv' /\ ExecInv'
  BY <1>1, <1>3, QuietDeleted, QuietExec
<1>10. QED
  BY <1>5, <1>6, <1>7, <1>8, <1>9


(* What the end of a call pops is within the stack. *)
LEMMA PopWithin ==
  ASSUME prog \in Programs, phis \subseteq Blocks \X Vars, NEW v \in Vars,
         NEW b \in Reachable(G), NEW s \in Seq(Values), Stacked(s, v, b, End(b))
  PROVE  Len(s) - Pushed(b, v) \in 0..Len(s)
<1> DEFINE n == Len(s)
           I == {k \in 1..n : s[k].bb = b}
<1>1. Cardinality(I) = Pushed(b, v) /\ IsFiniteSet(I)
  <2>1. b \in Blocks /\ Dominates(G, b, b)
    BY ProgramFacts, ReachableClosed, DominatesSelf
  <2>2. QED
    BY <2>1, CountPushed
<1>2. n \in Nat /\ I \in SUBSET (1..n)
  OBVIOUS
<1> HIDE DEF n, I
<1>3. IsFiniteSet(1..n) /\ Cardinality(1..n) = n
  <2>1. 1 \in Int /\ n \in Int
    BY <1>2
  <2>2. IsFiniteSet(1..n) /\ Cardinality(1..n) = IF 1 > n THEN 0 ELSE n - 1 + 1
    BY <2>1, FS_Interval
  <2>3. QED
    BY <1>2, <2>2
<1>4. Cardinality(I) \in Nat /\ Cardinality(I) <= n
  BY <1>1, <1>2, <1>3, FS_Subset, FS_CardinalityType
<1>5. QED
  BY <1>1, <1>2, <1>4 DEF n

LEMMA LeaveBlockInv == ASSUME RenameInv, LeaveBlock PROVE RenameInv'
<1> USE DEF RenameInv
<1> DEFINE n == Len(calls)
           b == Frame.bb
<1>1. /\ pc = "kids" /\ Frame.kids = {}
      /\ UNCHANGED <<prog, frontier, treeSucc, work, phis, at, seen, repl, phiOps, execVars>>
      /\ valStack' = [v \in Vars |-> SubSeq(valStack[v], 1, Len(valStack[v]) - Pushed(b, v))]
      /\ deleted' = deleted \cup {l \in Sites : /\ l[1] = b
                                                /\ OpAt(l).op = "store" \/ l \in DOMAIN repl}
      /\ calls' = SubSeq(calls, 1, n - 1)
      /\ pc' = IF n = 1 THEN "alloca" ELSE "kids"
  BY DEF LeaveBlock, passVars
<1>2. /\ n \in Nat /\ n \in 1..n /\ Frame = calls[n] /\ b \in Reachable(G)
      /\ prog \in Programs /\ phis \subseteq Blocks \X Vars
      /\ calls \in Seq([bb : Reachable(G), kids : SUBSET Reachable(G)])
      /\ \A v \in Vars : /\ valStack[v] \in Seq(Values)
                         /\ Stacked(valStack[v], v, b, End(b))
  BY <1>1, FrameFacts, PhiTypes DEF CallInv, StackInv, TypeInv
<1>3. /\ G' = G /\ Sites' = Sites /\ \A l : OpAt(l)' = OpAt(l)
      /\ \A c : End(c)' = End(c)
      /\ \A s, u, c, i : Stacked(s, u, c, i)' <=> Stacked(s, u, c, i)
  BY <1>1, SameFunction, SameDefs
<1>4. /\ calls' \in Seq([bb : Reachable(G), kids : SUBSET Reachable(G)])
      /\ Len(calls') = n - 1 /\ \A j \in 1..(n - 1) : calls'[j] = calls[j]
      /\ n - 1 \in Nat /\ (calls' = <<>> <=> n = 1)
  <2>1. n - 1 \in Nat /\ n - 1 <= n
    BY <1>2
  <2>2. /\ calls' \in Seq([bb : Reachable(G), kids : SUBSET Reachable(G)])
        /\ Len(calls') = n - 1 /\ \A j \in 1..(n - 1) : calls'[j] = calls[j]
    BY <1>1, <1>2, <2>1, PrefixFacts
  <2>3. calls' = <<>> <=> Len(calls') = 0
    BY <2>2
  <2>4. QED
    BY <1>2, <2>1, <2>2, <2>3
<1> HIDE DEF n, b
<1>5. \A v \in Vars : /\ valStack'[v] \in Seq(Values)
                      /\ valStack'[v] # <<>> => valStack[v] # <<>>
  <2> TAKE v \in Vars
  <2> DEFINE s == valStack[v]
             k == Len(s) - Pushed(b, v)
  <2>1. k \in 0..Len(s) /\ s \in Seq(Values) /\ valStack'[v] = SubSeq(s, 1, k)
    BY <1>1, <1>2, PopWithin
  <2> HIDE DEF s, k
  <2>2. k \in Nat /\ k <= Len(s)
    BY <2>1
  <2>3. valStack'[v] \in Seq(Values) /\ Len(valStack'[v]) = k
    BY <2>1, <2>2, PrefixFacts
  <2>4. valStack'[v] # <<>> => s # <<>>
    <3> SUFFICES ASSUME s = <<>> PROVE valStack'[v] = <<>>
      OBVIOUS
    <3>1. Len(s) = 0
      OBVIOUS
    <3>2. k = 0
      BY <2>2, <3>1
    <3>3. QED
      BY <2>3, <3>2
  <2>5. QED
    BY <2>3, <2>4 DEF s
<1>6. TypeInv'
  <2>1. valStack' \in [Vars -> Seq(Values)]
    BY <1>1, <1>5
  <2>2. \A v \in Vars : valStack'[v] # <<>> => v \in seen'
    BY <1>1, <1>5 DEF TypeInv
  <2>3. pc' \in {"kids", "alloca"}
    BY <1>1
  <2>4. QED
    BY <1>1, <1>3, <2>1, <2>2, <2>3 DEF TypeInv
<1>7. PhiInv'
  BY <1>1, QuietPhi
<1>8. CallInv'
  <2>1. ASSUME NEW j \in 1..Len(calls')
        PROVE  /\ \A k \in calls'[j].kids : IsImmediateDominator(G, calls'[j].bb, k)
               /\ j > 1 => IsImmediateDominator(G, calls'[j - 1].bb, calls'[j].bb)
               /\ {e \in Blocks : Dominates(G, e, calls'[j].bb)} = {calls'[i].bb : i \in 1..j}
    <3>1. /\ j \in 1..n /\ calls'[j] = calls[j] /\ (j > 1 => calls'[j - 1] = calls[j - 1])
          /\ \A i \in 1..j : calls'[i] = calls[i]
      BY <1>2, <1>4
    <3>2. {calls'[i].bb : i \in 1..j} = {calls[i].bb : i \in 1..j}
      BY <3>1
    <3>3. /\ \A k \in calls[j].kids : IsImmediateDominator(G, calls[j].bb, k)
          /\ j > 1 => IsImmediateDominator(G, calls[j - 1].bb, calls[j].bb)
          /\ {e \in Blocks : Dominates(G, e, calls[j].bb)} = {calls[i].bb : i \in 1..j}
      BY <3>1 DEF CallInv, n
    <3>4. QED
      BY <3>1, <3>2, <3>3
  <2>2. (calls' = <<>> <=> pc' \in {"start", "phi", "alloca", "exec"}) /\ pc' \notin {"instr", "abort"}
    BY <1>1, <1>4
  <2>3. QED
    BY <1>3, <1>4, <2>1, <2>2 DEF CallInv
<1>9. StackInv'
  <2> SUFFICES ASSUME NEW v \in Vars, pc' = "kids"
               PROVE  Stacked(valStack'[v], v, Frame'.bb, End(Frame'.bb))
    BY <1>1, <1>3 DEF StackInv
  <2> DEFINE p == calls[n - 1].bb
  <2>1. n > 1 /\ n - 1 \in 1..n
    BY <1>1, <1>2
  <2>2. Frame' = calls[n - 1]
    BY <1>2, <1>4, <2>1 DEF Frame, Top
  <2>3. IsImmediateDominator(G, p, b) /\ p \in Reachable(G)
    <3>1. IsImmediateDominator(G, calls[n - 1].bb, calls[n].bb)
      BY <1>2, <2>1 DEF CallInv, n
    <3>2. calls[n - 1] \in [bb : Reachable(G), kids : SUBSET Reachable(G)]
      BY <1>2, <2>1, ElementOfSeq DEF n
    <3>3. QED
      BY <1>2, <3>1, <3>2 DEF b
  <2>4. Stacked(SubSeq(valStack[v], 1, Len(valStack[v]) - Pushed(b, v)), v, p, End(p))
    BY <1>2, <2>3, PopStacked
  <2>5. QED
    BY <1>1, <2>2, <2>4
<1>10. \A c : Waiting(c)' <=> Waiting(c)
  <2> TAKE c
  <2>1. ASSUME NEW j \in 1..n, NEW k \in calls[j].kids PROVE j \in 1..(n - 1)
    <3>1. j # n
      BY <1>1, <1>2, <2>1
    <3>2. QED
      BY <1>2, <3>1
  <2>2. \A j \in 1..(n - 1) : j \in 1..n
    BY <1>2
  <2>3. pc \notin {"start", "phi"} /\ pc' \notin {"start", "phi"}
    BY <1>1
  <2>4. (\E j \in 1..n : \E k \in calls[j].kids : Dominates(G, k, c))
           <=> \E j \in 1..(n - 1) : \E k \in calls'[j].kids : Dominates(G, k, c)
    BY <1>4, <2>1, <2>2
  <2>5. QED
    BY <1>3, <1>4, <2>3, <2>4 DEF Waiting, n
<1>11. \A c, i : Passed(c, i)' => Passed(c, i)
  BY <1>1, <1>3, <1>10 DEF Passed
<1>12. ReplInv'
  BY <1>1, <1>11, QuietRepl
<1>13. OperandInv'
  <2>1. ASSUME NEW c \in Blocks, Passed(c, End(c))' PROVE Passed(c, End(c))
    <3>1. End(c)' = End(c)
      BY <1>3
    <3>2. QED
      BY <1>11, <2>1, <3>1
  <2>2. QED
    BY <1>1, <2>1, QuietOperands
<1>14. DeletedInv'
  <2>1. ActiveBlocks' = {calls'[j].bb : j \in 1..(n - 1)}
    BY <1>4 DEF ActiveBlocks
  <2>2. ASSUME NEW c \in ActiveBlocks, c # b PROVE c \in ActiveBlocks'
    <3>1. PICK j \in 1..n : c = calls[j].bb
      BY DEF ActiveBlocks, n
    <3>2. j # n
      BY <1>2, <2>2, <3>1 DEF b
    <3>3. j \in 1..(n - 1)
      BY <1>2, <3>2
    <3>4. QED
      BY <1>4, <2>1, <3>1, <3>3
  <2>3. ASSUME NEW l \in Sites, l[1] \in Reachable(G) \ ActiveBlocks', ~Waiting(l[1])',
               OpAt(l).op = "store" \/ l \in DOMAIN repl
        PROVE  l \in deleted'
    <3>1. CASE l[1] = b
      BY <1>1, <2>3, <3>1
    <3>2. CASE l[1] # b
      <4>1. l \in deleted
        BY <1>10, <2>2, <2>3, <3>2 DEF DeletedInv
      <4>2. QED
        BY <1>1, <4>1
    <3>3. QED
      BY <3>1, <3>2
  <2>4. QED
    BY <1>1, <1>3, <2>3 DEF DeletedInv
<1>15. ExecInv'
  BY <1>1, QuietExec
<1>16. QED
  BY <1>6, <1>7, <1>8, <1>9, <1>12, <1>13, <1>14, <1>15


(****************************************************************************)
(* The rewritten function                                                   *)
(****************************************************************************)
(* The rest of the invariant does not see the last phase. *)
LEMMA QuietRest ==
  ASSUME RenameInv, UNCHANGED <<prog, passVars, callVars>>, pc' = pc \/ (pc = "alloca" /\ pc' = "exec")
  PROVE  TypeInv' /\ PhiInv' /\ CallInv' /\ StackInv' /\ ReplInv' /\ OperandInv' /\ DeletedInv'
<1> USE DEF RenameInv
<1>1. UNCHANGED <<frontier, treeSucc, work, phis, calls, at, valStack, seen, repl, phiOps, deleted>>
  BY DEF passVars, callVars
<1>2. /\ G' = G /\ Sites' = Sites /\ \A c : End(c)' = End(c)
      /\ \A b, v : StoresIn(b, v)' = StoresIn(b, v)
      /\ \A s, u, c, i : Stacked(s, u, c, i)' <=> Stacked(s, u, c, i)
      /\ \A v : Defs(v)' = Defs(v)
  BY <1>1, SameFunction, SameDefs
<1>3. Frame' = Frame /\ ActiveBlocks' = ActiveBlocks /\ \A c : Waiting(c)' <=> Waiting(c)
  BY <1>1, <1>2 DEF Frame, Top, ActiveBlocks, Waiting
<1>4. \A c, i : Passed(c, i)' <=> Passed(c, i)
  BY <1>2, <1>3, <1>1 DEF Passed
<1>5. TypeInv' /\ PhiInv'
  BY <1>1, <1>2 DEF TypeInv, PhiInv
<1>6. CallInv' /\ StackInv'
  BY <1>1, <1>2, <1>3 DEF CallInv, StackInv
<1>7. ReplInv'
  BY <1>1, <1>4, QuietRepl
<1>8. OperandInv'
  <2>1. ASSUME NEW c \in Blocks, Passed(c, End(c))' PROVE Passed(c, End(c))
    <3>1. End(c)' = End(c)
      BY <1>2
    <3>2. QED
      BY <1>4, <2>1, <3>1
  <2>2. QED
    BY <1>1, <2>1, QuietOperands
<1>9. DeletedInv'
  BY <1>1, <1>3, QuietDeleted
<1>10. QED
  BY <1>5, <1>6, <1>7, <1>8, <1>9

LEMMA RemoveAllocaInv == ASSUME RenameInv, RemoveAlloca PROVE RenameInv'
<1> USE DEF RenameInv
<1>1. /\ pc = "alloca" /\ pc' = "exec" /\ UNCHANGED <<prog, passVars, callVars, execVars>>
      /\ UNCHANGED <<phis, blk, mem, env>>
  BY DEF RemoveAlloca, passVars, execVars
<1>2. /\ G' = G /\ \A v : Defs(v)' = Defs(v)
      /\ \A v, b, i : Available(v, b, i)' = Available(v, b, i)
      /\ \A d, v, b, i : Nearest(d, v, b, i)' <=> Nearest(d, v, b, i)
  BY <1>1, SameFunction, SameDefs
<1>3. /\ blk = Entry /\ mem = [v \in Vars |-> Undef] /\ env = [f \in Blocks \X Vars |-> Undef]
      /\ blk \in Reachable(G) /\ prog \in Programs /\ phis \subseteq Blocks \X Vars
  BY <1>1, PhiTypes DEF ExecInv, TypeInv
<1>4. ASSUME NEW v \in Vars, NEW d \in Defs(v), Nearest(d, v, Entry, 1)
      PROVE  Eval(d, env) = Undef
  <2>1. d.bb = Entry /\ Place(d) < 1
    BY <1>4, EntryHasNoDominator DEF Nearest, Available, Before, StrictlyDominates
  <2>2. Place(d) \in Nat
    BY <1>3, DefFacts
  <2>3. ~(Place(d) > 0)
    BY <2>1, <2>2
  <2>4. d # Garbage /\ d.kind = "phi" /\ d.id = v
    BY <1>3, <2>3, DefFacts
  <2>5. QED
    BY <1>3, <2>1, <2>4, EntryAssumption DEF Eval
<1>5. ExecInv'
  BY <1>1, <1>2, <1>3, <1>4 DEF ExecInv
<1>6. QED
  BY <1>1, <1>5, QuietRest

(* Before each instruction memory holds the nearest definition. *)
LEMMA ContentIsNearest ==
  ASSUME RenameInv, pc = "exec", NEW v \in Vars, NEW i \in Nat, i > 0
  PROVE  /\ Available(v, blk, i) = {} => MemAt(blk, v, i) = Undef
         /\ \A d : Nearest(d, v, blk, i) => Eval(d, env) = MemAt(blk, v, i)
<1> USE DEF RenameInv
<1>1. /\ prog \in Programs /\ phis \subseteq Blocks \X Vars
      /\ blk \in Reachable(G) /\ blk \in Blocks
      /\ Available(v, blk, 1) = {} => mem[v] = Undef
      /\ \A d \in Defs(v) : Nearest(d, v, blk, 1) => Eval(d, env) = mem[v]
  BY PhiTypes, ProgramFacts, ReachableClosed DEF TypeInv, ExecInv
<1>2. ASSUME NEW d \in Defs(v) PROVE Place(d) \in Nat
  BY <1>1, DefFacts
<1>3. Available(v, blk, 1) \subseteq Available(v, blk, i)
  <2> SUFFICES ASSUME NEW d \in Available(v, blk, 1) PROVE d \in Available(v, blk, i)
    OBVIOUS
  <2>1. d \in Defs(v) /\ Before(d, blk, 1)
    BY DEF Available
  <2>2. Place(d) \in Nat
    BY <1>2, <2>1
  <2>3. Place(d) < 1 => Place(d) < i
    BY <2>2
  <2>4. QED
    BY <2>1, <2>3 DEF Available, Before
<1>4. ASSUME NEW j \in StoresIn(blk, v), j < i
      PROVE  /\ StoreVal(blk, j) \in Available(v, blk, i) /\ StoreVal(blk, j).bb = blk
             /\ Place(StoreVal(blk, j)) = j
  BY <1>1, <1>4, DefFacts DEF Available, Before
<1>5. \A j \in StoresIn(blk, v) : j \in Nat
  <2>1. Len(Code(blk)) \in Nat
    BY <1>1, ProgramFacts
  <2>2. QED
    BY <2>1 DEF StoresIn
<1>6. ASSUME Available(v, blk, i) = {} PROVE MemAt(blk, v, i) = Undef
  <2>1. LastStore(blk, v, i) = {}
    BY <1>4, <1>6 DEF LastStore
  <2>2. Available(v, blk, 1) = {}
    BY <1>3, <1>6
  <2>3. QED
    BY <1>1, <2>1, <2>2 DEF MemAt
<1>7. ASSUME NEW d, Nearest(d, v, blk, i) PROVE Eval(d, env) = MemAt(blk, v, i)
  <2>1. d \in Available(v, blk, i) /\ d \in Defs(v) /\ Dominates(G, d.bb, blk)
    BY <1>1, <1>7, AvailableDominates DEF Nearest
  <2>2. /\ d # Garbage /\ Place(d) \in Nat
        /\ \/ d.kind = "phi" /\ Place(d) = 0
           \/ d.kind = "store" /\ d = StoreVal(d.bb, Place(d)) /\ Place(d) \in StoresIn(d.bb, v)
    BY <1>1, <2>1, DefFacts
  <2>3. ASSUME NEW j \in StoresIn(blk, v), j < i, StoreVal(blk, j) # d
        PROVE  d.bb = blk /\ j < Place(d)
    <3>1. Before(StoreVal(blk, j), d.bb, Place(d))
      BY <1>4, <1>7, <2>3 DEF Nearest
    <3>2. StrictlyDominates(G, blk, d.bb) \/ (blk = d.bb /\ j < Place(d))
      BY <1>4, <2>3, <3>1 DEF Before
    <3>3. ~StrictlyDominates(G, blk, d.bb)
      BY <1>1, <2>1, DominatesAntisymmetric DEF StrictlyDominates
    <3>4. QED
      BY <3>2, <3>3
  <2>4. CASE d.kind = "store" /\ d.bb = blk
    <3> DEFINE p == Place(d)
    <3>1. p \in StoresIn(blk, v) /\ d = StoreVal(blk, p) /\ p \in Nat
      BY <2>2, <2>4
    <3>2. p < i
      BY <2>1, <2>4 DEF Available, Before, StrictlyDominates
    <3>3. ASSUME NEW j \in StoresIn(blk, v), j < i PROVE j <= p
      <4>1. CASE StoreVal(blk, j) = d
        BY <1>4, <3>1, <3>3, <4>1
      <4>2. CASE StoreVal(blk, j) # d
        BY <1>5, <2>3, <3>1, <3>3, <4>2
      <4>3. QED
        BY <4>1, <4>2
    <3> HIDE DEF p
    <3>4. LastStore(blk, v, i) = {p}
      <4>1. p \in LastStore(blk, v, i)
        BY <3>1, <3>2, <3>3 DEF LastStore
      <4>2. ASSUME NEW j \in LastStore(blk, v, i) PROVE j = p
        <5>1. j \in StoresIn(blk, v) /\ j < i /\ p <= j
          BY <3>1, <3>2 DEF LastStore
        <5>2. j <= p /\ j \in Nat
          BY <1>5, <3>3, <5>1
        <5>3. QED
          BY <3>1, <5>1, <5>2
      <4>3. QED
        BY <4>1, <4>2
    <3>5. MemAt(blk, v, i) = StoreVal(blk, p)
      BY <3>4 DEF MemAt
    <3>6. Eval(d, env) = d
      BY <2>2, <2>4 DEF Eval
    <3>7. QED
      BY <3>1, <3>5, <3>6
  <2>5. CASE ~(d.kind = "store" /\ d.bb = blk)
    <3>1. ASSUME NEW j \in StoresIn(blk, v), j < i PROVE FALSE
      <4>1. StoreVal(blk, j) # d
        BY <2>5 DEF StoreVal
      <4>2. d.bb = blk /\ j < Place(d) /\ j \in Nat
        BY <1>5, <2>3, <3>1, <4>1
      <4>3. Place(d) = 0
        BY <2>2, <2>5, <4>2
      <4>4. QED
        BY <4>2, <4>3
    <3>2. MemAt(blk, v, i) = mem[v]
      BY <3>1 DEF MemAt, LastStore
    <3>3. Before(d, blk, 1)
      BY <2>1, <2>2, <2>5 DEF Available, Before
    <3>4. Nearest(d, v, blk, 1)
      BY <1>3, <1>7, <2>1, <3>3 DEF Nearest, Available
    <3>5. QED
      BY <1>1, <2>1, <3>2, <3>4
  <2>6. QED
    BY <2>4, <2>5
<1>8. QED
  BY <1>6, <1>7


(* Every reachable block has been renamed when the function is executed.    *)
LEMMA AllPassed ==
  ASSUME RenameInv, pc = "exec", NEW b \in Reachable(G), NEW i
  PROVE  Passed(b, i) /\ ~Waiting(b) /\ ActiveBlocks = {}
<1>1. calls = <<>>
  BY DEF RenameInv, CallInv
<1>2. QED
  BY <1>1 DEF Passed, Waiting, ActiveBlocks

(* Along a branch to a block without a phi of the variable the same         *)
(* definitions stay available.                                              *)
LEMMA AvailableAlong ==
  ASSUME RenameInv, pc = "exec", NEW p \in Reachable(G), NEW s \in Succ(p), NEW v \in Vars,
         <<s, v>> \notin phis
  PROVE  /\ Available(v, s, 1) = Available(v, p, End(p))
         /\ \A d \in Available(v, s, 1) : StrictlyDominates(G, d.bb, s)
<1> USE DEF RenameInv
<1>1. /\ prog \in Programs /\ phis \subseteq Blocks \X Vars /\ G \in [Blocks -> SUBSET Blocks]
      /\ p \in Blocks /\ s \in G[p] /\ s \in Reachable(G) /\ s \in Blocks
  BY PhiTypes, ProgramFacts, ReachableClosed DEF TypeInv, Succ, G
<1>2. ASSUME NEW d \in Available(v, s, 1) PROVE d \in Defs(v) /\ StrictlyDominates(G, d.bb, s)
  <2>1. d \in Defs(v) /\ Before(d, s, 1)
    BY DEF Available
  <2>2. Place(d) \in Nat /\ (Place(d) > 0 \/ <<d.bb, v>> \in phis)
    BY <1>1, <2>1, DefFacts
  <2>3. ~(d.bb = s /\ Place(d) < 1)
    BY <2>2
  <2>4. QED
    BY <2>1, <2>3 DEF Before
<1>3. ASSUME NEW d \in Available(v, s, 1) PROVE d \in Available(v, p, End(p))
  <2>1. Dominates(G, d.bb, p)
    BY <1>1, <1>2, DominatesSource DEF StrictlyDominates
  <2>2. QED
    BY <1>1, <1>2, <2>1, AvailableAtEnd
<1>4. ASSUME NEW d \in Available(v, p, End(p)) PROVE d \in Available(v, s, 1)
  <2>1. d \in Defs(v) /\ Dominates(G, d.bb, p)
    BY <1>1, AvailableDominates
  <2>2. s \notin Frontier(G, d.bb)
    BY <2>1 DEF PhiInv
  <2>3. p \in Preds(G, s) \cap Reachable(G)
    BY <1>1 DEF Preds
  <2>4. StrictlyDominates(G, d.bb, s)
    BY <1>1, <2>1, <2>2, <2>3 DEF Frontier
  <2>5. QED
    BY <2>1, <2>4 DEF Available, Before
<1>5. QED
  BY <1>2, <1>3, <1>4

LEMMA BranchInv == ASSUME RenameInv, Branch PROVE RenameInv'
<1> USE DEF RenameInv
<1> DEFINE p == blk
<1>1. /\ pc = "exec" /\ pc' = "exec" /\ UNCHANGED <<prog, passVars, callVars, phis, phiOps>>
  BY DEF Branch, passVars, callVars
<1>2. PICK s \in Succ(p) :
        /\ blk' = s
        /\ mem' = [v \in Vars |-> MemAt(p, v, Len(Code(p)) + 1)]
        /\ env' = [f \in Blocks \X Vars |->
             IF f[1] # s THEN env[f]
             ELSE IF \E o \in phiOps[f] : o[2] = p
                  THEN Eval((CHOOSE o \in phiOps[f] : o[2] = p)[1], env)
                  ELSE Undef]
  BY DEF Branch
<1>3. /\ G' = G /\ \A v : Defs(v)' = Defs(v)
      /\ \A v, b, i : Available(v, b, i)' = Available(v, b, i)
      /\ \A d, v, b, i : Nearest(d, v, b, i)' <=> Nearest(d, v, b, i)
  BY <1>1, SameFunction, SameDefs
<1>4. /\ prog \in Programs /\ phis \subseteq Blocks \X Vars /\ G \in [Blocks -> SUBSET Blocks]
      /\ p \in Reachable(G) /\ p \in Blocks /\ s \in Reachable(G) /\ s \in Blocks
      /\ End(p) \in Nat /\ End(p) > 0 /\ End(p) = Len(Code(p)) + 1
  <2>1. prog \in Programs /\ phis \subseteq Blocks \X Vars /\ p \in Reachable(G)
    BY PhiTypes DEF TypeInv, ExecInv
  <2>2. G \in [Blocks -> SUBSET Blocks] /\ Reachable(G) \subseteq Blocks /\ s \in Reachable(G)
    BY <1>2, <2>1, ProgramFacts, ReachableClosed DEF Succ, G
  <2>3. End(p) \in Nat /\ Len(Code(p)) \in Nat /\ End(p) = Len(Code(p)) + 1
    BY <2>1, <2>2, ProgramFacts
  <2>4. QED
    BY <2>1, <2>2, <2>3
<1>5. ASSUME NEW v \in Vars
      PROVE  /\ Available(v, p, End(p)) = {} => mem'[v] = Undef
             /\ \A d : Nearest(d, v, p, End(p)) => Eval(d, env) = mem'[v]
  <2>1. mem'[v] = MemAt(p, v, End(p))
    BY <1>2, <1>4
  <2>2. QED
    BY <1>1, <1>4, <2>1, ContentIsNearest
<1> HIDE DEF p
<1>6. ASSUME NEW v \in Vars, <<s, v>> \in phis
      PROVE  /\ Available(v, s, 1) # {}
             /\ \A d \in Defs(v) : Nearest(d, v, s, 1) => Eval(d, env') = mem'[v]
  <2> DEFINE f == <<s, v>>
             phi == PhiVal(s, v)
  <2>1. phi \in Defs(v) /\ phi.bb = s /\ Place(phi) = 0
    BY <1>4, <1>6, DefFacts
  <2>2. phi \in Available(v, s, 1)
    BY <2>1 DEF Available, Before
  <2>3. ASSUME NEW d \in Defs(v), Nearest(d, v, s, 1) PROVE d = phi
    <3> HIDE DEF phi
    <3> SUFFICES ASSUME d # phi PROVE FALSE
      OBVIOUS
    <3>1. Before(phi, d.bb, Place(d)) /\ d \in Available(v, s, 1)
      BY <2>2, <2>3 DEF Nearest
    <3>2. Dominates(G, d.bb, s)
      BY <1>4, <3>1, AvailableDominates
    <3>3. d.bb = s /\ Place(d) > 0
      BY <1>4, <2>1, <3>1, <3>2, DominatesAntisymmetric DEF Before, StrictlyDominates
    <3>4. Place(d) < 1
      BY <3>1, <3>3 DEF Available, Before, StrictlyDominates
    <3>5. Place(d) \in Nat
      BY <1>4, DefFacts
    <3>6. QED
      BY <3>3, <3>4, <3>5
  <2>4. Eval(phi, env') = env'[f]
    <3>1. phi # Garbage
      BY <1>4, <2>1, DefFacts
    <3>2. QED
      BY <3>1 DEF Eval, PhiVal
  <2>5. env'[f] = mem'[v]
    <3>1. /\ f \in Blocks \X Vars /\ f[1] = s /\ f[2] = v /\ f \in phis
      BY <1>4, <1>6
    <3> HIDE DEF f
    <3>2. CASE \E o \in phiOps[f] : o[2] = p
      <4> DEFINE o == CHOOSE x \in phiOps[f] : x[2] = p
      <4>1. o \in phiOps[f] /\ o[2] = p
        BY <3>2
      <4>2. env'[f] = Eval(o[1], env)
        BY <1>2, <3>1, <3>2
      <4> HIDE DEF o
      <4>3. Nearest(o[1], v, p, End(p))
        BY <3>1, <4>1 DEF OperandInv
      <4>4. QED
        BY <1>5, <4>2, <4>3
    <3>3. CASE ~\E o \in phiOps[f] : o[2] = p
      <4>1. env'[f] = Undef
        BY <1>2, <3>1, <3>3
      <4>2. f[1] \in Succ(p) /\ Passed(p, End(p))
        BY <1>1, <1>2, <1>4, <3>1, AllPassed
      <4>3. Available(v, p, End(p)) = {}
        BY <1>4, <3>1, <3>3, <4>2 DEF OperandInv
      <4>4. QED
        BY <1>5, <4>1, <4>3
    <3>4. QED
      BY <3>2, <3>3
  <2>6. QED
    BY <2>2, <2>3, <2>4, <2>5
<1>7. ASSUME NEW v \in Vars, <<s, v>> \notin phis
      PROVE  /\ Available(v, s, 1) = {} => mem'[v] = Undef
             /\ \A d \in Defs(v) : Nearest(d, v, s, 1) => Eval(d, env') = mem'[v]
  <2>1. /\ Available(v, s, 1) = Available(v, p, End(p))
        /\ \A d \in Available(v, s, 1) : StrictlyDominates(G, d.bb, s)
    BY <1>1, <1>2, <1>4, <1>7, AvailableAlong
  <2>2. ASSUME NEW d \in Defs(v), Nearest(d, v, s, 1) PROVE Eval(d, env') = mem'[v]
    <3>1. Nearest(d, v, p, End(p)) /\ d.bb # s
      BY <2>1, <2>2 DEF Nearest, StrictlyDominates
    <3>2. Eval(d, env) = mem'[v]
      BY <1>5, <3>1
    <3>3. d # Garbage /\ d.bb \in Blocks /\ (d.kind = "phi" => d.id = v)
      BY <1>4, DefFacts
    <3>4. CASE d.kind = "phi"
      <4>1. <<d.bb, d.id>> \in Blocks \X Vars /\ <<d.bb, d.id>>[1] # s
        BY <3>1, <3>3, <3>4
      <4>2. env'[<<d.bb, d.id>>] = env[<<d.bb, d.id>>]
        BY <1>2, <4>1
      <4>3. QED
        BY <3>2, <3>3, <3>4, <4>2 DEF Eval
    <3>5. CASE d.kind # "phi"
      BY <3>2, <3>3, <3>5 DEF Eval
    <3>6. QED
      BY <3>4, <3>5
  <2>3. QED
    BY <1>5, <2>1, <2>2
<1>8. ExecInv'
  BY <1>1, <1>2, <1>3, <1>4, <1>6, <1>7 DEF ExecInv
<1>9. QED
  BY <1>1, <1>8, QuietRest

LEMMA StutterInv == ASSUME RenameInv, UNCHANGED vars PROVE RenameInv'
<1>1. UNCHANGED <<prog, pc, passVars, callVars, phis, blk, mem, env>>
  BY DEF vars, passVars, execVars
<1>2. /\ G' = G /\ \A v : Defs(v)' = Defs(v)
      /\ \A v, b, i : Available(v, b, i)' = Available(v, b, i)
      /\ \A d, v, b, i : Nearest(d, v, b, i)' <=> Nearest(d, v, b, i)
  BY <1>1, SameFunction, SameDefs
<1>3. ExecInv'
  BY <1>1, <1>2 DEF RenameInv, ExecInv
<1>4. QED
  BY <1>1, <1>3, QuietRest DEF RenameInv

LEMMA NextInv == ASSUME RenameInv, [Next]_vars PROVE RenameInv'
<1>1. CASE CollectStores \/ PlacePhis \/ StartRename
  BY <1>1, CollectStoresInv, PlacePhisInv, StartRenameInv
<1>2. CASE RenameLoad \/ RenameStore \/ FillPhis \/ AssertFails
  BY <1>2, RenameLoadInv, RenameStoreInv, FillPhisInv, AssertFailsInv
<1>3. CASE RenameChild \/ LeaveBlock \/ RemoveAlloca \/ Branch
  BY <1>3, RenameChildInv, LeaveBlockInv, RemoveAllocaInv, BranchInv
<1>4. CASE Finished \/ UNCHANGED vars
  BY <1>4, StutterInv DEF Finished
<1>5. QED
  BY <1>1, <1>2, <1>3, <1>4 DEF Next

(* The invariant of the pass and of the rewritten function holds for every  *)
(* set of blocks, variables and programs.                                   *)
THEOREM RenamingIsInvariant == Spec => []RenameInv
<1>1. Init => RenameInv
  BY InitInv
<1>2. RenameInv /\ [Next]_vars => RenameInv'
  BY NextInv
<1>3. QED
  BY <1>1, <1>2, PTL DEF Spec


(****************************************************************************)
(* What the invariant says of the pass                                      *)
(****************************************************************************)
LEMMA StacksAreActive == ASSUME RenameInv PROVE StackHoldsActiveDefs
<1> USE DEF RenameInv
<1> SUFFICES ASSUME pc = "kids", NEW v \in Vars
             PROVE  /\ \A i \in 1..Len(valStack[v]) :
                         \E j \in 1..Len(calls) : calls[j].bb = valStack[v][i].bb
                    /\ \A j \in 1..Len(calls) :
                         Cardinality({i \in 1..Len(valStack[v]) : valStack[v][i].bb = calls[j].bb})
                           = Pushed(calls[j].bb, v)
  BY DEF StackHoldsActiveDefs
<1> DEFINE n == Len(calls)
           b == Frame.bb
           s == valStack[v]
<1>1. /\ n \in Nat /\ n \in 1..n /\ b = calls[n].bb /\ b \in Reachable(G)
      /\ prog \in Programs /\ phis \subseteq Blocks \X Vars
      /\ s \in Seq(Values) /\ Stacked(s, v, b, End(b))
  BY FrameFacts, PhiTypes DEF StackInv, TypeInv
<1>2. {e \in Blocks : Dominates(G, e, b)} = {calls[i].bb : i \in 1..n}
  BY <1>1 DEF CallInv
<1> HIDE DEF b, n, s
<1>3. ASSUME NEW i \in 1..Len(s) PROVE \E j \in 1..n : calls[j].bb = s[i].bb
  <2>1. s[i] \in Available(v, b, End(b))
    BY <1>1 DEF Stacked
  <2>2. Dominates(G, s[i].bb, b) /\ s[i].bb \in Blocks
    BY <1>1, <2>1, AvailableDominates, DefFacts
  <2>3. QED
    BY <1>2, <2>2
<1>4. ASSUME NEW j \in 1..n
      PROVE  Cardinality({i \in 1..Len(s) : s[i].bb = calls[j].bb}) = Pushed(calls[j].bb, v)
  <2>1. Dominates(G, calls[j].bb, b) /\ calls[j].bb \in Blocks
    BY <1>2
  <2>2. QED
    BY <1>1, <2>1, CountPushed
<1>5. QED
  BY <1>3, <1>4 DEF n, s

(* When a call of re_name returns, the stacks hold the definitions of the   *)
(* active calls and nothing else, for every function and every order of the *)
(* children: what step 7 pops is what the block has pushed.                 *)
THEOREM StacksAreBalanced == Spec => []StackHoldsActiveDefs
<1>1. RenameInv => StackHoldsActiveDefs
  BY StacksAreActive
<1>2. QED
  BY <1>1, RenamingIsInvariant, PTL

LEMMA DominatedUses == ASSUME RenameInv PROVE DefsDominateUses
<1> USE DEF RenameInv
<1> SUFFICES ASSUME pc = "exec"
             PROVE  /\ \A l \in DOMAIN repl : repl[l] # Garbage =>
                         LET d == repl[l]
                         IN  \/ d.kind = "store" /\ d.bb = l[1] /\ d.id < l[2]
                             \/ d.kind = "phi" /\ Dominates(G, d.bb, l[1])
                             \/ StrictlyDominates(G, d.bb, l[1])
                    /\ \A f \in phis : \A o \in phiOps[f] : Dominates(G, o[1].bb, o[2])
  BY DEF DefsDominateUses, G
<1>1. prog \in Programs /\ phis \subseteq Blocks \X Vars
  BY PhiTypes DEF TypeInv
<1>2. ASSUME NEW l \in DOMAIN repl, repl[l] # Garbage
      PROVE  LET d == repl[l]
             IN  \/ d.kind = "store" /\ d.bb = l[1] /\ d.id < l[2]
                 \/ d.kind = "phi" /\ Dominates(G, d.bb, l[1])
                 \/ StrictlyDominates(G, d.bb, l[1])
  <2> DEFINE d == repl[l]
             v == OpAt(l).var
  <2>1. l \in Sites /\ l[1] \in Reachable(G) /\ Nearest(d, v, l[1], l[2])
    BY <1>2 DEF ReplInv, TypeInv
  <2>2. v \in Vars
    <3>1. OpAt(l) \in Op
      BY <1>1, <2>1, ProgramFacts DEF OpAt
    <3>2. QED
      BY <3>1 DEF Op
  <2> HIDE DEF v, d
  <2>3. d \in Defs(v) /\ Before(d, l[1], l[2]) /\ Dominates(G, d.bb, l[1])
    BY <1>1, <2>1, <2>2, AvailableDominates DEF Nearest, Available
  <2>4. d.kind = "phi" \/ (d.kind = "store" /\ d.id = Place(d))
    BY <1>1, <2>2, <2>3, DefFacts
  <2>5. \/ d.kind = "store" /\ d.bb = l[1] /\ d.id < l[2]
        \/ d.kind = "phi" /\ Dominates(G, d.bb, l[1])
        \/ StrictlyDominates(G, d.bb, l[1])
    BY <2>3, <2>4 DEF Before
  <2>6. QED
    BY <2>5 DEF d
<1>3. ASSUME NEW f \in phis, NEW o \in phiOps[f] PROVE Dominates(G, o[1].bb, o[2])
  <2>1. f[2] \in Vars /\ o[2] \in Reachable(G) /\ Nearest(o[1], f[2], o[2], End(o[2]))
    BY <1>1 DEF OperandInv
  <2>2. QED
    BY <1>1, <2>1, AvailableDominates DEF Nearest
<1>4. QED
  BY <1>2, <1>3

LEMMA MatchingOperands == ASSUME RenameInv PROVE PhiOperandsMatchPredecessors
<1> USE DEF RenameInv
<1> SUFFICES ASSUME pc = "exec", NEW f \in phis
             PROVE  /\ \A o \in phiOps[f] : f[1] \in Succ(o[2])
                    /\ \A o1, o2 \in phiOps[f] : o1[2] = o2[2] => o1 = o2
                    /\ \A p \in Preds(G, f[1]) \cap Reachable(G) :
                         (\E b \in Blocks : Pushed(b, f[2]) > 0 /\ Dominates(G, b, p))
                           => \E o \in phiOps[f] : o[2] = p
  BY DEF PhiOperandsMatchPredecessors, G
<1>1. prog \in Programs /\ phis \subseteq Blocks \X Vars /\ f[2] \in Vars
  BY PhiTypes DEF TypeInv
<1>2. \A o \in phiOps[f] :
        /\ o = <<o[1], o[2]>> /\ o[2] \in Reachable(G) /\ f[1] \in Succ(o[2])
        /\ Nearest(o[1], f[2], o[2], End(o[2]))
  BY DEF OperandInv
<1>3. ASSUME NEW x \in phiOps[f], NEW y \in phiOps[f], x[2] = y[2] PROVE x = y
  <2>1. x[1] = y[1]
    BY <1>1, <1>2, <1>3, NearestUnique
  <2>2. QED
    BY <1>2, <1>3, <2>1
<1>4. ASSUME NEW p \in Preds(G, f[1]) \cap Reachable(G),
             NEW b \in Blocks, Pushed(b, f[2]) > 0, Dominates(G, b, p)
      PROVE  \E o \in phiOps[f] : o[2] = p
  <2>1. StoresIn(b, f[2]) # {} \/ <<b, f[2]>> \in phis
    <3> SUFFICES ASSUME StoresIn(b, f[2]) = {}, <<b, f[2]>> \notin phis PROVE FALSE
      OBVIOUS
    <3>1. Pushed(b, f[2]) = 0
      BY FS_EmptySet DEF Pushed
    <3>2. QED
      BY <1>4, <3>1
  <2>2. PICK d \in Defs(f[2]) : d.bb = b
    BY <1>1, <2>1, DefFacts
  <2>3. Available(f[2], p, End(p)) # {}
    BY <1>1, <1>4, <2>2, AvailableAtEnd
  <2>4. p \in Blocks /\ f[1] \in Succ(p) /\ Passed(p, End(p))
    BY AllPassed DEF Preds, Succ, G
  <2>5. QED
    BY <2>3, <2>4 DEF OperandInv
<1>5. QED
  BY <1>2, <1>3, <1>4

(* The rewritten function is in SSA form, for every function: a definition  *)
(* dominates its uses, and a phi has exactly one operand for each reachable *)
(* predecessor that a definition dominates.                                 *)
THEOREM RenamedIsSSA == Spec => []SSAForm
<1>1. RenameInv => SSAForm
  BY DominatedUses, MatchingOperands DEF SSAForm
<1>2. QED
  BY <1>1, RenamingIsInvariant, PTL

LEMMA LoadedIsContent == ASSUME RenameInv PROVE LoadsSeeMemory
<1> USE DEF RenameInv
<1> SUFFICES ASSUME pc = "exec", NEW i \in 1..Len(Code(blk)), Code(blk)[i].op = "load"
             PROVE  LET content == MemAt(blk, Code(blk)[i].var, i)
                    IN  \/ content = Undef
                        \/ <<blk, i>> \in DOMAIN repl /\ Eval(repl[<<blk, i>>], env) = content
  BY DEF LoadsSeeMemory
<1> DEFINE l == <<blk, i>>
           v == Code(blk)[i].var
<1>1. /\ prog \in Programs /\ blk \in Reachable(G) /\ blk \in Blocks
      /\ i \in Nat /\ i > 0 /\ l \in Sites /\ v \in Vars
  <2>1. prog \in Programs /\ blk \in Reachable(G) /\ blk \in Blocks
    BY ProgramFacts, ReachableClosed DEF ExecInv, TypeInv
  <2>2. Len(Code(blk)) \in Nat /\ Code(blk)[i] \in Op /\ l \in Sites
    BY <2>1, ProgramFacts
  <2>3. QED
    BY <2>1, <2>2 DEF Op
<1>2. l[1] = blk /\ l[2] = i /\ OpAt(l).var = v /\ OpAt(l).op = "load"
  BY DEF OpAt
<1>3. /\ Available(v, blk, i) = {} => MemAt(blk, v, i) = Undef
      /\ \A d : Nearest(d, v, blk, i) => Eval(d, env) = MemAt(blk, v, i)
  BY <1>1, ContentIsNearest
<1> HIDE DEF l, v
<1>4. CASE Available(v, blk, i) = {}
  BY <1>3, <1>4 DEF v
<1>5. CASE Available(v, blk, i) # {}
  <2>1. Passed(blk, i)
    BY <1>1, AllPassed
  <2>2. l \in DOMAIN repl
    BY <1>1, <1>2, <1>5, <2>1 DEF ReplInv
  <2>3. Nearest(repl[l], v, blk, i)
    BY <1>2, <1>5, <2>2 DEF ReplInv
  <2>4. QED
    BY <1>3, <2>2, <2>3 DEF v, l
<1>6. QED
  BY <1>4, <1>5

(* The rewritten function computes what the original does, for every        *)
(* function and along every execution: a renamed load stands for what the   *)
(* memory of the original holds there.                                      *)
THEOREM RenamedMeansTheSame == Spec => []LoadsSeeMemory
<1>1. RenameInv => LoadsSeeMemory
  BY LoadedIsContent
<1>2. QED
  BY <1>1, RenamingIsInvariant, PTL

(* In a function that writes each variable in its entry block before it     *)
(* reads it, a definition is available at every load and at the end of      *)
(* every block.                                                             *)
LEMMA AlwaysAvailable ==
  ASSUME RenameInv, WritesBeforeReads, NEW v \in Vars, NEW b \in Reachable(G)
  PROVE  /\ Available(v, b, End(b)) # {}
         /\ \A i \in 1..Len(Code(b)) :
              Code(b)[i].op = "load" /\ Code(b)[i].var = v => Available(v, b, i) # {}
<1> USE DEF RenameInv
<1>1. /\ prog \in Programs /\ phis \subseteq Blocks \X Vars /\ b \in Blocks
      /\ Len(Code(b)) \in Nat
  BY PhiTypes, ProgramFacts, ReachableClosed DEF TypeInv
<1>2. PICK j \in StoresIn(Entry, v) : \A k \in 1..(j - 1) : Code(Entry)[k].var # v
  BY DEF WritesBeforeReads
<1> DEFINE d == StoreVal(Entry, j)
<1>3. d \in Defs(v) /\ d.bb = Entry /\ Place(d) = j
  BY <1>1, <1>2, EntryAssumption, DefFacts
<1>4. j \in 1..Len(Code(Entry)) /\ j \in Nat /\ Code(Entry)[j].op = "store"
  <2>1. Len(Code(Entry)) \in Nat
    BY <1>1, EntryAssumption, ProgramFacts
  <2>2. QED
    BY <1>2, <2>1 DEF StoresIn
<1> HIDE DEF d
<1>5. d \in Available(v, b, End(b))
  BY <1>1, <1>3, AvailableAtEnd, EntryDominates
<1>6. ASSUME NEW i \in 1..Len(Code(b)), Code(b)[i].op = "load", Code(b)[i].var = v
      PROVE  d \in Available(v, b, i)
  <2>1. CASE b = Entry
    <3>1. i # j /\ i \notin 1..(j - 1)
      BY <1>2, <1>4, <1>6, <2>1
    <3>2. j < i
      BY <1>1, <1>4, <3>1
    <3>3. QED
      BY <1>3, <2>1, <3>2 DEF Available, Before
  <2>2. CASE b # Entry
    BY <1>3, <2>2, EntryDominates DEF Available, Before, StrictlyDominates
  <2>3. QED
    BY <2>1, <2>2
<1>7. QED
  BY <1>5, <1>6

(* Such a function is never found without a value for a phi. *)
LEMMA NeverAborts ==
  ASSUME RenameInv, WritesBeforeReads => pc # "abort", [Next]_vars
  PROVE  (WritesBeforeReads => pc # "abort")'
<1>1. CASE AssertFails
  <2> SUFFICES ASSUME WritesBeforeReads' PROVE FALSE
    OBVIOUS
  <2>1. WritesBeforeReads
    BY <1>1 DEF AssertFails, WritesBeforeReads, StoresIn, Code
  <2>2. PICK f \in PhisToFill(Frame.bb) : valStack[f[2]] = <<>>
    BY <1>1 DEF AssertFails
  <2>3. /\ AtFill /\ f[2] \in Vars /\ Frame.bb \in Reachable(G)
        /\ valStack[f[2]] \in Seq(Values)
        /\ Stacked(valStack[f[2]], f[2], Frame.bb, End(Frame.bb))
    BY <1>1, FillFacts DEF AssertFails, PhisToFill
  <2>4. Available(f[2], Frame.bb, End(Frame.bb)) = {}
    BY <2>2, <2>3, TopIsNearest
  <2>5. QED
    BY <2>1, <2>3, <2>4, AlwaysAvailable
<1>2. CASE UNCHANGED prog /\ pc' # "abort"
  BY <1>2
<1>3. CASE UNCHANGED <<prog, pc>>
  BY <1>3 DEF WritesBeforeReads, StoresIn, Code
<1>4. QED
  BY <1>1, <1>2, <1>3 DEF Next, CollectStores, PlacePhis, StartRename, EnterBlock, RenameLoad,
     RenameStore, FillPhis, RenameChild, LeaveBlock, RemoveAlloca, Branch, Finished, vars

LEMMA SafeWhenInitialised ==
  ASSUME RenameInv, WritesBeforeReads => pc # "abort" PROVE InitialisedIsSafe
<1> USE DEF RenameInv
<1> SUFFICES ASSUME WritesBeforeReads
             PROVE  /\ \A l \in DOMAIN repl : repl[l] # Garbage
                    /\ pc = "exec" => \A l \in Sites : l[1] \in Reachable(G) => l \in deleted
  BY DEF InitialisedIsSafe, G
<1>1. prog \in Programs
  BY DEF TypeInv
<1>2. ASSUME NEW l \in Sites, l[1] \in Reachable(G), OpAt(l).op = "load"
      PROVE  Available(OpAt(l).var, l[1], l[2]) # {}
  <2>1. l[1] \in Blocks /\ l[2] \in 1..Len(Code(l[1])) /\ OpAt(l) \in Op
    BY <1>1, ProgramFacts DEF OpAt
  <2>2. OpAt(l).var \in Vars
    BY <2>1 DEF Op
  <2>3. QED
    BY <1>2, <2>1, <2>2, AlwaysAvailable DEF OpAt
<1>3. ASSUME NEW l \in DOMAIN repl PROVE repl[l] # Garbage
  <2>1. /\ l \in Sites /\ l[1] \in Reachable(G) /\ OpAt(l).op = "load"
        /\ \/ Available(OpAt(l).var, l[1], l[2]) = {}
           \/ Nearest(repl[l], OpAt(l).var, l[1], l[2])
    BY DEF ReplInv, TypeInv
  <2>2. Nearest(repl[l], OpAt(l).var, l[1], l[2])
    BY <1>2, <2>1
  <2>3. OpAt(l).var \in Vars
    <3>1. OpAt(l) \in Op
      BY <1>1, <2>1, ProgramFacts DEF OpAt
    <3>2. QED
      BY <3>1 DEF Op
  <2>4. QED
    BY <1>1, <2>2, <2>3, DefFacts, PhiTypes DEF Nearest, Available
<1>4. ASSUME pc = "exec", NEW l \in Sites, l[1] \in Reachable(G) PROVE l \in deleted
  <2>1. Passed(l[1], l[2]) /\ ~Waiting(l[1]) /\ ActiveBlocks = {}
    BY <1>4, AllPassed
  <2>2. OpAt(l).op \in {"load", "store"}
    <3>1. OpAt(l) \in Op
      BY <1>1, ProgramFacts DEF OpAt
    <3>2. QED
      BY <3>1 DEF Op
  <2>3. OpAt(l).op = "load" => l \in DOMAIN repl
    BY <1>2, <1>4, <2>1 DEF ReplInv
  <2>4. QED
    BY <1>4, <2>1, <2>2, <2>3 DEF DeletedInv
<1>5. QED
  BY <1>3, <1>4

(* A function that writes its variables in the entry block before it reads  *)
(* them is renamed without tripping the assertion of line 134 or reading an *)
(* empty stack, and nothing of it is left for the allocas.                  *)
THEOREM InitialisedFunctionsAreSafe == Spec => []InitialisedIsSafe
<1>1. Init => (WritesBeforeReads => pc # "abort")
  BY DEF Init
<1>2. RenameInv /\ (WritesBeforeReads => pc # "abort") /\ [Next]_vars
        => (WritesBeforeReads => pc # "abort")'
  BY NeverAborts
<1>3. RenameInv /\ (WritesBeforeReads => pc # "abort") => InitialisedIsSafe
  BY SafeWhenInitialised
<1>4. QED
  BY <1>1, <1>2, <1>3, RenamingIsInvariant, PTL DEF Spec
================================================================================

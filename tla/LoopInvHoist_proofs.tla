--------------------------- MODULE LoopInvHoist_proofs ---------------------------
(****************************************************************************)
(* Proofs about LoopInvHoist.                                               *)
(****************************************************************************)
EXTENDS LoopInvHoist, SequenceTheorems, FiniteSetTheorems, WellFoundedInduction, TLAPS

(****************************************************************************)
(* Dominance on every graph over a finite set of blocks: it is a partial    *)
(* order on the reachable blocks, the dominators of a block form a chain. *)
(****************************************************************************)
LEMMA ReachableClosed ==
  ASSUME NEW g \in [Blocks -> SUBSET Blocks]
  PROVE  /\ Reachable(g) \subseteq Blocks
         /\ Entry \in Reachable(g)
         /\ \A x \in Reachable(g) : g[x] \subseteq Reachable(g)
<1>1. Reachable(g) \subseteq Blocks /\ Entry \in Reachable(g)
  BY EntryAssumption DEF Reachable
<1>2. ASSUME NEW x \in Reachable(g), NEW y \in g[x] PROVE y \in Reachable(g)
  <2>1. x \in Blocks /\ y \in Blocks
    BY <1>1
  <2>2. QED
    BY <2>1 DEF Reachable
<1>3. QED
  BY <1>1, <1>2

(* A set that holds the entry and follows the edges holds what is reachable. *)
LEMMA ReachableWithin ==
  ASSUME NEW g, NEW S \in SUBSET Blocks, Entry \in S, \A x \in S : g[x] \subseteq S
  PROVE  Reachable(g) \subseteq S
BY DEF Reachable

LEMMA DominatesSelf ==
  ASSUME NEW g \in [Blocks -> SUBSET Blocks], NEW b \in Blocks
  PROVE  Dominates(g, b, b)
<1>1. Blocks \ {b} \in SUBSET (Blocks \ {b}) /\ Entry \in (Blocks \ {b}) \cup {b}
  BY EntryAssumption
<1>2. ClosedAvoiding(g, b, Blocks \ {b})
  BY DEF ClosedAvoiding
<1>3. b \notin Blocks \ {b}
  OBVIOUS
<1>4. QED
  BY <1>1, <1>2, <1>3 DEF Dominates

LEMMA EntryDominates == ASSUME NEW g, NEW b PROVE Dominates(g, Entry, b)
<1>1. {} \in SUBSET (Blocks \ {Entry}) /\ Entry \in {} \cup {Entry} /\ b \notin {}
  OBVIOUS
<1>2. ClosedAvoiding(g, Entry, {})
  BY DEF ClosedAvoiding
<1>3. QED
  BY <1>1, <1>2 DEF Dominates

LEMMA EntryHasNoDominator ==
  ASSUME NEW g, NEW d, Dominates(g, d, Entry) PROVE d = Entry
BY DEF Dominates

(* Only reachable blocks dominate a reachable block. *)
LEMMA DominatorReachable ==
  ASSUME NEW g \in [Blocks -> SUBSET Blocks], NEW d, NEW b \in Reachable(g),
         Dominates(g, d, b)
  PROVE  d \in Reachable(g)
<1> SUFFICES ASSUME d \notin Reachable(g) PROVE FALSE
  OBVIOUS
<1>1. PICK S \in SUBSET (Blocks \ {d}) :
        Entry \in S \cup {d} /\ ClosedAvoiding(g, d, S) /\ b \notin S
  BY DEF Dominates
<1> DEFINE R == S \cap Reachable(g)
<1>2. R \in SUBSET Blocks /\ Entry \in R
  BY <1>1, ReachableClosed
<1>3. \A x \in R : g[x] \subseteq R
  BY <1>1, ReachableClosed DEF ClosedAvoiding
<1> HIDE DEF R
<1>4. Reachable(g) \subseteq R
  BY <1>2, <1>3, ReachableWithin
<1>5. QED
  BY <1>1, <1>4 DEF R

LEMMA DominatesTransitive ==
  ASSUME NEW g, NEW a, NEW b, NEW c, Dominates(g, a, b), Dominates(g, b, c)
  PROVE  Dominates(g, a, c)
<1>1. PICK S \in SUBSET (Blocks \ {a}) :
        Entry \in S \cup {a} /\ ClosedAvoiding(g, a, S) /\ b \notin S
  BY DEF Dominates
<1>2. PICK T \in SUBSET (Blocks \ {b}) :
        Entry \in T \cup {b} /\ ClosedAvoiding(g, b, T) /\ c \notin T
  BY DEF Dominates
<1>3. S \cap T \in SUBSET (Blocks \ {a}) /\ Entry \in (S \cap T) \cup {a} /\ c \notin S \cap T
  BY <1>1, <1>2
<1>4. ClosedAvoiding(g, a, S \cap T)
  BY <1>1, <1>2 DEF ClosedAvoiding
<1>5. QED
  BY <1>3, <1>4 DEF Dominates

LEMMA DominatesAntisymmetric ==
  ASSUME NEW g, NEW a \in Reachable(g), NEW b,
         Dominates(g, a, b), Dominates(g, b, a)
  PROVE  a = b
<1> SUFFICES ASSUME a # b PROVE FALSE
  OBVIOUS
<1>1. PICK S \in SUBSET (Blocks \ {a}) :
        Entry \in S \cup {a} /\ ClosedAvoiding(g, a, S) /\ b \notin S
  BY DEF Dominates
<1>2. PICK T \in SUBSET (Blocks \ {b}) :
        Entry \in T \cup {b} /\ ClosedAvoiding(g, b, T) /\ a \notin T
  BY DEF Dominates
<1> DEFINE R == S \cap T
<1>3. R \in SUBSET Blocks /\ Entry \in R
  BY <1>1, <1>2
<1>4. \A x \in R : g[x] \subseteq R
  BY <1>1, <1>2 DEF ClosedAvoiding
<1> HIDE DEF R
<1>5. Reachable(g) \subseteq R
  BY <1>3, <1>4, ReachableWithin
<1>6. QED
  BY <1>1, <1>5 DEF R

(* What dominates a block, and is not the block, dominates each predecessor. *)
LEMMA DominatesSource ==
  ASSUME NEW g, NEW d, NEW p \in Blocks, NEW b \in g[p], d # b, Dominates(g, d, b)
  PROVE  Dominates(g, d, p)
<1>1. PICK S \in SUBSET (Blocks \ {d}) :
        Entry \in S \cup {d} /\ ClosedAvoiding(g, d, S) /\ b \notin S
  BY DEF Dominates
<1>2. p \notin S
  BY <1>1 DEF ClosedAvoiding
<1>3. QED
  BY <1>1, <1>2 DEF Dominates

(* Two dominators of a block are comparable: a walk that avoids one of them *)
(* can be left for one that avoids the other, and never meets the block.    *)
LEMMA DominatorsFormChain ==
  ASSUME NEW g \in [Blocks -> SUBSET Blocks], NEW x \in Reachable(g),
         NEW a \in Blocks, NEW b \in Blocks, Dominates(g, a, x), Dominates(g, b, x)
  PROVE  Dominates(g, a, b) \/ Dominates(g, b, a)
<1> SUFFICES ASSUME ~Dominates(g, a, b), ~Dominates(g, b, a) PROVE FALSE
  OBVIOUS
<1> DEFINE R == {y \in Blocks : ~Dominates(g, a, y) \/ ~Dominates(g, b, y)}
<1>1. R \in SUBSET Blocks /\ Entry \in R
  BY EntryAssumption, EntryHasNoDominator, EntryDominates
<1>2. ASSUME NEW y \in R, NEW z \in g[y] PROVE z \in R
  <2>1. z \in Blocks
    OBVIOUS
  <2>2. CASE ~Dominates(g, a, y)
    BY <2>1, <2>2, DominatesSource
  <2>3. CASE ~Dominates(g, b, y)
    BY <2>1, <2>3, DominatesSource
  <2>4. QED
    BY <2>2, <2>3
<1>3. \A y \in R : g[y] \subseteq R
  BY <1>2
<1>4. x \notin R
  OBVIOUS
<1> HIDE DEF R
<1>5. QED
  BY <1>1, <1>3, <1>4, ReachableWithin

(* A nonempty set of natural numbers has a least element. *)
LEMMA Least ==
  ASSUME NEW D \in SUBSET Nat, D # {} PROVE \E m \in D : \A k \in D : m <= k
<1>1. PICK m \in D : \A k \in D : <<k, m>> \notin OpToRel(<, Nat)
  BY NatLessThanWellFounded, WFMin
<1>2. \A k \in D : ~(k < m)
  BY <1>1 DEF OpToRel
<1>3. QED
  BY <1>2

-------------------------------------------------------------------------------
(****************************************************************************)
(* Natural loops                                                            *)
(****************************************************************************)
LEMMA LoopWithin ==
  ASSUME NEW g, NEW h, NEW S \in SUBSET Blocks, h \in S, BackSources(g, h) \subseteq S,
         \A x \in S \ {h} : Preds(g, x) \subseteq S
  PROVE  NaturalLoop(g, h) \subseteq S
BY DEF NaturalLoop

LEMMA LoopClosed ==
  ASSUME NEW g, NEW h \in Blocks
  PROVE  /\ NaturalLoop(g, h) \subseteq Blocks
         /\ h \in NaturalLoop(g, h)
         /\ BackSources(g, h) \subseteq NaturalLoop(g, h)
         /\ \A x \in NaturalLoop(g, h) \ {h} : Preds(g, x) \subseteq NaturalLoop(g, h)
<1> BackSources(g, h) \subseteq Blocks /\ \A x : Preds(g, x) \subseteq Blocks
  BY DEF BackSources, Preds
<1>1. QED
  BY DEF NaturalLoop

(* The header dominates its loop. *)
LEMMA HeaderDominates ==
  ASSUME NEW g \in [Blocks -> SUBSET Blocks], NEW h \in Blocks, NEW b \in NaturalLoop(g, h)
  PROVE  Dominates(g, h, b)
<1> DEFINE S == {x \in Blocks : Dominates(g, h, x)}
<1>1. h \in S /\ BackSources(g, h) \subseteq S
  BY DominatesSelf DEF BackSources, Preds
<1>2. \A x \in S \ {h} : Preds(g, x) \subseteq S
  BY DominatesSource DEF Preds
<1>3. NaturalLoop(g, h) \subseteq S
  BY <1>1, <1>2, LoopWithin
<1>4. QED
  BY <1>3

(* A set of blocks that is closed under predecessors and does not hold the  *)
(* entry holds no reachable block.                                          *)
LEMMA ClosedBackwards ==
  ASSUME NEW g \in [Blocks -> SUBSET Blocks], NEW T \in SUBSET Blocks, Entry \notin T,
         \A x \in T : Preds(g, x) \subseteq T
  PROVE  T \cap Reachable(g) = {}
<1> DEFINE S == Blocks \ T
<1>1. Entry \in S
  BY EntryAssumption
<1>2. ASSUME NEW x \in S PROVE g[x] \subseteq S
  BY <1>2 DEF Preds
<1>3. Reachable(g) \subseteq S
  BY <1>1, <1>2, ReachableWithin
<1>4. QED
  BY <1>3

(* What dominates a block of a loop lies in the loop or strictly dominates  *)
(* its header; so also on the ways w that are left of g when no branch of   *)
(* some blocks is taken.                                                    *)
LEMMA DominatorOnWays ==
  ASSUME NEW g \in [Blocks -> SUBSET Blocks], NEW w \in [Blocks -> SUBSET Blocks],
         \A x \in Blocks : w[x] \subseteq g[x],
         NEW h \in Blocks, NEW b \in NaturalLoop(g, h),
         b \in Reachable(w), NEW d, Dominates(w, d, b), d \notin NaturalLoop(g, h)
  PROVE  StrictlyDominates(w, d, h)
<1> DEFINE T == {x \in NaturalLoop(g, h) : Dominates(w, d, x)}
<1> SUFFICES ASSUME ~Dominates(w, d, h) PROVE FALSE
  BY LoopClosed DEF StrictlyDominates
<1>1. \A x \in T : Preds(w, x) \subseteq T
  <2> SUFFICES ASSUME NEW x \in T, NEW p \in Preds(w, x) PROVE p \in T
    OBVIOUS
  <2>1. x # h /\ d # x /\ p \in Blocks /\ x \in w[p] /\ x \in g[p]
    BY DEF Preds
  <2>2. p \in NaturalLoop(g, h)
    BY <2>1, LoopClosed DEF Preds
  <2>3. Dominates(w, d, p)
    BY <2>1, DominatesSource
  <2>4. QED
    BY <2>2, <2>3
<1>2. Entry \notin T
  <2> SUFFICES ASSUME Entry \in T PROVE FALSE
    OBVIOUS
  <2>1. d = Entry
    BY EntryHasNoDominator
  <2>2. QED
    BY <2>1, EntryDominates
<1>3. T \subseteq Blocks
  BY LoopClosed
<1>4. T \cap Reachable(w) = {}
  BY <1>1, <1>2, <1>3, ClosedBackwards
<1>5. QED
  BY <1>4

LEMMA DominatorOfBody ==
  ASSUME NEW g \in [Blocks -> SUBSET Blocks], NEW h \in Blocks, NEW b \in NaturalLoop(g, h),
         b \in Reachable(g), NEW d, Dominates(g, d, b), d \notin NaturalLoop(g, h)
  PROVE  StrictlyDominates(g, d, h)
BY DominatorOnWays

(* Dominance holds on the ways that are left. *)
LEMMA DominatesOnWays ==
  ASSUME NEW g, NEW w, \A x \in Blocks : w[x] \subseteq g[x], NEW d, NEW b, Dominates(g, d, b)
  PROVE  Dominates(w, d, b)
<1>1. PICK S \in SUBSET (Blocks \ {d}) :
        Entry \in S \cup {d} /\ ClosedAvoiding(g, d, S) /\ b \notin S
  BY DEF Dominates
<1>2. ClosedAvoiding(w, d, S)
  BY <1>1 DEF ClosedAvoiding
<1>3. QED
  BY <1>1, <1>2 DEF Dominates

(* Two loops with a block in common are nested: the header that the other   *)
(* one dominates lies in the other loop, and all of its loop with it.       *)
LEMMA LoopsNested ==
  ASSUME NEW g \in [Blocks -> SUBSET Blocks], NEW h \in Blocks, NEW k \in Blocks,
         NEW b \in NaturalLoop(g, h) \cap NaturalLoop(g, k), b \in Reachable(g), h # k
  PROVE  \/ h \in NaturalLoop(g, k) /\ NaturalLoop(g, h) \subseteq NaturalLoop(g, k)
         \/ k \in NaturalLoop(g, h) /\ NaturalLoop(g, k) \subseteq NaturalLoop(g, h)
<1>1. ASSUME NEW x \in Blocks, NEW y \in Blocks, x # y, Dominates(g, x, y),
             b \in NaturalLoop(g, x), b \in NaturalLoop(g, y)
      PROVE  y \in NaturalLoop(g, x) /\ NaturalLoop(g, y) \subseteq NaturalLoop(g, x)
  <2>1. Dominates(g, y, b)
    BY <1>1, HeaderDominates
  <2>2. x \in Reachable(g) /\ y \in Reachable(g)
    BY <1>1, <2>1, HeaderDominates, DominatorReachable
  <2>3. ~Dominates(g, y, x)
    BY <1>1, <2>2, DominatesAntisymmetric
  <2>4. y \in NaturalLoop(g, x)
    BY <1>1, <2>1, <2>3, DominatorOfBody DEF StrictlyDominates
  <2> DEFINE S == {z \in NaturalLoop(g, x) : Dominates(g, y, z)}
  <2>5. y \in S
    BY <1>1, <2>4, DominatesSelf
  <2>6. x \notin S
    BY <2>3
  <2>7. \A p \in Preds(g, y) : p \in NaturalLoop(g, x)
    BY <1>1, <2>4, LoopClosed
  <2>8. BackSources(g, y) \subseteq S
    BY <2>7 DEF BackSources
  <2>9. ASSUME NEW z \in S \ {y}, NEW p \in Preds(g, z) PROVE p \in S
    <3>1. p \in Blocks /\ z \in g[p] /\ z # x
      BY <2>6, <2>9 DEF Preds
    <3>2. p \in NaturalLoop(g, x)
      BY <1>1, <2>9, <3>1, LoopClosed
    <3>3. Dominates(g, y, p)
      BY <2>9, <3>1, DominatesSource
    <3>4. QED
      BY <3>2, <3>3
  <2>10. S \subseteq Blocks
    BY <1>1, LoopClosed
  <2>11. NaturalLoop(g, y) \subseteq S
    <3> HIDE DEF S
    <3>1. QED
      BY <2>5, <2>8, <2>9, <2>10, LoopWithin
  <2>12. QED
    BY <2>4, <2>11
<1>2. Dominates(g, h, b) /\ Dominates(g, k, b)
  BY HeaderDominates
<1>3. Dominates(g, h, k) \/ Dominates(g, k, h)
  BY <1>2, DominatorsFormChain
<1>4. QED
  BY <1>1, <1>3

(* What follows uses of the loops of a function. *)
LoopFacts(g, ls) ==
  /\ \A l \in ls : /\ l = <<l[1], l[2]>>
                   /\ l[1] \in l[2] /\ l[2] \subseteq Reachable(g)
                   /\ \A b \in l[2] : Dominates(g, l[1], b)
                   /\ BackSources(g, l[1]) \subseteq l[2]
                   /\ \A b \in l[2], d \in Blocks :
                        Dominates(g, d, b) => d \in l[2] \/ StrictlyDominates(g, d, l[1])
  /\ \A l, m \in ls : /\ l[1] = m[1] => l = m
                      /\ l[2] \cap m[2] # {} => l[2] \subseteq m[2] \/ m[2] \subseteq l[2]

(* A header is a successor, and so reachable, and with it its loop.         *)
LEMMA NaturalLoopsFacts ==
  ASSUME NEW g \in [Blocks -> SUBSET Blocks], \A b \in Blocks \ Reachable(g) : g[b] = {}
  PROVE  LoopFacts(g, NaturalLoops(g))
<1>1. ASSUME NEW l \in NaturalLoops(g)
      PROVE  /\ l[1] \in Headers(g) /\ l = <<l[1], l[2]>> /\ l[2] = NaturalLoop(g, l[1])
  BY DEF NaturalLoops
<1>2. \A x : Preds(g, x) \subseteq Reachable(g)
  BY DEF Preds
<1>3. \A h \in Headers(g) : h \in Reachable(g)
  BY <1>2, ReachableClosed DEF Headers, BackSources, Preds
<1>4. ASSUME NEW h \in Headers(g) PROVE NaturalLoop(g, h) \subseteq Reachable(g)
  <2>1. h \in Reachable(g) /\ Reachable(g) \in SUBSET Blocks
    BY <1>3, ReachableClosed
  <2>2. BackSources(g, h) \subseteq Reachable(g) /\ \A x \in Reachable(g) \ {h} : Preds(g, x) \subseteq Reachable(g)
    BY <1>2 DEF BackSources
  <2>3. QED
    BY <2>1, <2>2, LoopWithin
<1>5. Headers(g) \subseteq Blocks
  BY DEF Headers
<1>6. ASSUME NEW l \in NaturalLoops(g)
      PROVE  /\ l = <<l[1], l[2]>>
             /\ l[1] \in l[2] /\ l[2] \subseteq Reachable(g)
             /\ \A b \in l[2] : Dominates(g, l[1], b)
             /\ BackSources(g, l[1]) \subseteq l[2]
             /\ \A b \in l[2], d \in Blocks :
                  Dominates(g, d, b) => d \in l[2] \/ StrictlyDominates(g, d, l[1])
  <2>1. l[1] \in Blocks /\ l[2] = NaturalLoop(g, l[1]) /\ l[2] \subseteq Reachable(g)
    BY <1>1, <1>4, <1>5
  <2>2. /\ l[1] \in l[2] /\ \A b \in l[2] : Dominates(g, l[1], b)
        /\ BackSources(g, l[1]) \subseteq l[2]
    BY <2>1, LoopClosed, HeaderDominates
  <2>3. \A b \in l[2], d \in Blocks : Dominates(g, d, b) => d \in l[2] \/ StrictlyDominates(g, d, l[1])
    BY <2>1, DominatorOfBody
  <2>4. QED
    BY <1>1, <2>1, <2>2, <2>3
<1>7. ASSUME NEW l \in NaturalLoops(g), NEW m \in NaturalLoops(g)
      PROVE  /\ l[1] = m[1] => l = m
             /\ l[2] \cap m[2] # {} => l[2] \subseteq m[2] \/ m[2] \subseteq l[2]
  <2>1. l[1] = m[1] => l = m
    <3>1. l = <<l[1], l[2]>> /\ l[2] = NaturalLoop(g, l[1])
      BY <1>1
    <3>2. m = <<m[1], m[2]>> /\ m[2] = NaturalLoop(g, m[1])
      BY <1>1
    <3>3. QED
      BY <3>1, <3>2
  <2>2. ASSUME NEW b \in l[2] \cap m[2] PROVE l[2] \subseteq m[2] \/ m[2] \subseteq l[2]
    <3>1. l[1] \in Blocks /\ m[1] \in Blocks /\ b \in NaturalLoop(g, l[1]) \cap NaturalLoop(g, m[1]) /\ b \in Reachable(g)
      BY <1>1, <1>5, <1>6
    <3>2. CASE l[1] = m[1]
      BY <2>1, <3>2
    <3>3. CASE l[1] # m[1]
      <4>1. NaturalLoop(g, l[1]) \subseteq NaturalLoop(g, m[1]) \/ NaturalLoop(g, m[1]) \subseteq NaturalLoop(g, l[1])
        BY <3>1, <3>3, LoopsNested
      <4>2. QED
        BY <1>1, <4>1
    <3>4. QED
      BY <3>2, <3>3
  <2>3. QED
    BY <2>1, <2>2
<1>8. QED
  BY <1>6, <1>7 DEF LoopFacts

(* A set of nested loops has an innermost one.                              *)
LEMMA SmallestLoop ==
  ASSUME NEW ls, ls # {}, \A l \in ls : l[2] \in SUBSET Blocks
  PROVE  \E l \in ls : \A k \in ls : k[2] \subseteq l[2] => k[2] = l[2]
<1> DEFINE D == {Cardinality(l[2]) : l \in ls}
<1>1. ASSUME NEW l \in ls PROVE IsFiniteSet(l[2]) /\ Cardinality(l[2]) \in Nat
  BY BlocksFinite, FS_Subset, FS_CardinalityType
<1>2. PICK m \in D : \A k \in D : m <= k
  <2>1. D \in SUBSET Nat /\ D # {}
    BY <1>1
  <2>2. QED
    BY <2>1, Least
<1>3. PICK l \in ls : m = Cardinality(l[2])
  OBVIOUS
<1>4. ASSUME NEW k \in ls, k[2] \subseteq l[2], k[2] # l[2] PROVE FALSE
  <2>1. Cardinality(k[2]) < Cardinality(l[2])
    <3>1. IsFiniteSet(l[2]) /\ k[2] \in SUBSET l[2] /\ k[2] # l[2]
      BY <1>1, <1>3, <1>4
    <3>2. QED
      BY <1>1, <1>4, <3>1, FS_Subset
  <2>2. Cardinality(l[2]) <= Cardinality(k[2])
    BY <1>2, <1>3
  <2>3. QED
    BY <1>1, <2>1, <2>2
<1>5. QED
  BY <1>4


(****************************************************************************)
(* Sequences                                                                *)
(****************************************************************************)
LEMMA RemoveOnce ==
  ASSUME NEW S, NEW s \in Seq(S), NEW k \in 1..Len(s),
         \A i \in 1..Len(s) : s[i] = s[k] => i = k
  PROVE  /\ RemoveFirst(s, s[k]) \in Seq(S)
         /\ Len(RemoveFirst(s, s[k])) = Len(s) - 1
         /\ \A i \in 1..(Len(s) - 1) :
              RemoveFirst(s, s[k])[i] = IF i < k THEN s[i] ELSE s[i + 1]
<1> DEFINE I == {i \in 1..Len(s) : s[i] = s[k]}
<1>1. I = {k}
  OBVIOUS
<1>2. Min(I) = k
  <2>1. \A x \in I : (\A y \in I : x <= y) <=> x = k
    BY <1>1
  <2>2. k \in I
    BY <1>1
  <2>3. QED
    BY <2>1, <2>2 DEF Min
<1>3. RemoveFirst(s, s[k]) = RemoveAt(s, k)
  <2>1. SelectInSeq(s, LAMBDA v : v = s[k]) = k
    BY <1>1, <1>2 DEF SelectInSeq
  <2>2. QED
    BY <2>1 DEF RemoveFirst
<1>4. RemoveAt(s, k) = SubSeq(s, 1, k - 1) \o SubSeq(s, k + 1, Len(s))
  BY DEF RemoveAt
<1> DEFINE p == SubSeq(s, 1, k - 1)
           q == SubSeq(s, k + 1, Len(s))
<1>5. Len(s) \in Nat /\ k \in Nat /\ 1 <= k /\ k <= Len(s)
  OBVIOUS
<1>6. p \in Seq(S) /\ Len(p) = k - 1 /\ \A i \in 1..(k - 1) : p[i] = s[i]
  BY <1>5
<1>7. q \in Seq(S) /\ Len(q) = Len(s) - k /\ \A i \in 1..(Len(s) - k) : q[i] = s[k + i]
  BY <1>5
<1> HIDE DEF p, q
<1>8. p \o q \in Seq(S) /\ Len(p \o q) = Len(s) - 1
  <2>1. p \in Seq(S) /\ q \in Seq(S)
    BY <1>6, <1>7
  <2>2. p \o q \in Seq(S) /\ Len(p \o q) = Len(p) + Len(q)
    BY <2>1, ConcatProperties
  <2>3. QED
    BY <1>5, <1>6, <1>7, <2>2
<1>9. ASSUME NEW i \in 1..(Len(s) - 1) PROVE (p \o q)[i] = IF i < k THEN s[i] ELSE s[i + 1]
  <2>1. CASE i < k
    BY <1>5, <1>6, <1>7, <2>1
  <2>2. CASE ~(i < k)
    <3>1. i - (k - 1) \in 1..(Len(s) - k) /\ k + (i - (k - 1)) = i + 1
      BY <1>5, <2>2
    <3>2. (p \o q)[i] = q[i - (k - 1)]
      BY <1>5, <1>6, <1>7, <2>2
    <3>3. QED
      BY <1>7, <2>2, <3>1, <3>2
  <2>3. QED
    BY <2>1, <2>2
<1>10. QED
  BY <1>3, <1>4, <1>8, <1>9 DEF p, q

(****************************************************************************)
(* The function and the loop in hand                                        *)
(****************************************************************************)
LEMMA ProgFacts ==
  ASSUME TypeInv
  PROVE  /\ prog.succ \in [Blocks -> SUBSET Blocks] /\ prog.code \in [Blocks -> Seq(Instructions)]
         /\ prog.ops \in [Instructions -> SUBSET Instructions]
         /\ prog.address \in [Blocks \cup Instructions -> Nat]
         /\ \A ins \in Instructions : \A op \in prog.ops[ins] : prog.kind[op] # "void"
         /\ LoopFacts(prog.succ, loops)
         /\ \A l \in loops : EnteredOnce(prog.succ, loops, l)
         /\ \A b \in Blocks \ Reachable(prog.succ) : prog.succ[b] = {} /\ prog.code[b] = <<>>
         /\ Taken(prog) \in [Blocks -> SUBSET Blocks]
         /\ \A b \in Blocks : Taken(prog)[b] \subseteq prog.succ[b]
         /\ Reachable(Taken(prog)) = Reachable(prog.succ)
<1>1. prog.succ \in DOMAIN LoopSearched /\ LoopSearched[prog.succ] = NaturalLoops(prog.succ)
  BY DEF TypeInv, LoopSearched
<1>2. /\ \A b \in Blocks \ Reachable(prog.succ) : prog.succ[b] = {} /\ prog.code[b] = <<>>
      /\ \A l \in NaturalLoops(prog.succ) : EnteredOnce(prog.succ, NaturalLoops(prog.succ), l)
      /\ \A ins \in Instructions : \A op \in prog.ops[ins] : prog.kind[op] # "void"
  BY <1>1, FunctionsAssumption DEF TypeInv
<1>3. /\ prog.succ \in [Blocks -> SUBSET Blocks] /\ prog.code \in [Blocks -> Seq(Instructions)]
      /\ prog.ops \in [Instructions -> SUBSET Instructions]
      /\ prog.address \in [Blocks \cup Instructions -> Nat]
  BY ProgramsAssumption DEF TypeInv
<1>4. LoopFacts(prog.succ, NaturalLoops(prog.succ))
  BY <1>2, <1>3, NaturalLoopsFacts
<1>5. /\ Taken(prog) \in [Blocks -> SUBSET Blocks]
      /\ \A b \in Blocks : Taken(prog)[b] \subseteq prog.succ[b]
  BY <1>3 DEF Taken
<1>6. Reachable(Taken(prog)) = Reachable(prog.succ)
  BY FunctionsAssumption DEF TypeInv
<1>7. QED
  BY <1>2, <1>3, <1>4, <1>5, <1>6 DEF TypeInv

LEMMA LoopOf ==
  ASSUME TypeInv, NEW base \in Bases
  PROVE  /\ <<base, LoopBlocks(base)>> \in loops
         /\ base \in LoopBlocks(base) /\ LoopBlocks(base) \subseteq Blocks
         /\ \A l \in loops : l[1] = base => l[2] = LoopBlocks(base)
<1>1. PICK l \in loops : l[1] = base
  BY DEF Bases
<1>2. l = <<l[1], l[2]>> /\ l[1] \in l[2] /\ l[2] \subseteq Blocks
  BY ProgFacts, ReachableClosed DEF LoopFacts
<1>3. \A m \in loops : m[1] = base => m = l
  BY <1>1, ProgFacts DEF LoopFacts
<1>4. LoopBlocks(base) = l[2]
  BY <1>1, <1>3 DEF LoopBlocks
<1>5. QED
  BY <1>1, <1>2, <1>3, <1>4

(* The block before the loop strictly dominates the whole of it, and lies   *)
(* in no loop beside it.                                                    *)
LEMMA BlockBefore ==
  ASSUME TypeInv, loop \in Bases, NEW q \in PreOutLoop
  PROVE  /\ q \in Blocks \ Body /\ q \in Reachable(prog.succ)
         /\ \A d \in Blocks : StrictlyDominates(prog.succ, d, loop) => Dominates(prog.succ, d, q)
         /\ \A b \in Body : StrictlyDominates(prog.succ, q, b)
         /\ Around(loops, q) \subseteq Around(loops, loop)
         /\ loop \in Taken(prog)[q]
<1> DEFINE g == prog.succ
           w == Taken(prog)
           l == <<loop, Body>>
<1>1. /\ g \in [Blocks -> SUBSET Blocks] /\ l \in loops /\ loop \in Body /\ Body \subseteq Blocks
      /\ l[1] = loop /\ l[2] = Body
  BY ProgFacts, LoopOf DEF Body
<1>2. q \in Blocks \ Body /\ loop \in g[q]
  BY DEF PreOutLoop, Preds, Body
<1>3. /\ Preds(g, loop) \ Body = {q} /\ Around(loops, q) \subseteq Around(loops, loop)
  <2>1. PICK p \in Blocks : Preds(g, loop) \ Body = {p} /\ Around(loops, p) \subseteq Around(loops, loop)
    <3>1. EnteredOnce(g, loops, l)
      BY <1>1, ProgFacts
    <3>2. QED
      BY <1>1, <3>1 DEF EnteredOnce
  <2>2. q \in Preds(g, loop) \ Body
    BY DEF PreOutLoop, Body
  <2>3. QED
    BY <2>1, <2>2
<1>4. q \in Reachable(g)
  BY <1>2, ProgFacts
<1>5. \A d \in Blocks : StrictlyDominates(g, d, loop) => Dominates(g, d, q)
  BY <1>1, <1>2, DominatesSource DEF StrictlyDominates
<1>6. /\ Body \subseteq Reachable(g)
      /\ \A b \in Body : Dominates(g, loop, b)
  BY <1>1, ProgFacts DEF LoopFacts
<1>7. StrictlyDominates(g, q, loop)
  <2>1. ~Dominates(g, loop, q)
    BY <1>1, <1>2, ProgFacts DEF LoopFacts, BackSources, Preds
  <2>2. loop # Entry
    BY <2>1, EntryDominates
  <2> DEFINE S == {x \in Reachable(g) : ~Dominates(g, loop, x)} \ {q}
  <2>3. Entry \in S \cup {q}
    BY <1>1, <2>2, EntryHasNoDominator, ReachableClosed
  <2>4. ASSUME NEW x \in S, NEW y \in g[x] \ {q} PROVE y \in S
    <3>1. x \in Blocks /\ y \in Reachable(g)
      BY <1>1, <2>4, ReachableClosed
    <3>2. CASE y = loop
      <4>1. x \in Preds(g, loop) /\ x # q
        BY <2>4, <3>1, <3>2 DEF Preds
      <4>2. x \in Body
        BY <1>3, <4>1
      <4>3. QED
        BY <1>6, <2>4, <4>2
    <3>3. CASE y # loop
      BY <2>4, <3>1, <3>3, DominatesSource
    <3>4. QED
      BY <3>2, <3>3
  <2>5. S \in SUBSET (Blocks \ {q}) /\ loop \notin S
    BY <1>1, DominatesSelf, ReachableClosed
  <2>6. QED
    <3> HIDE DEF S
    <3>1. QED
      BY <1>1, <1>2, <2>3, <2>4, <2>5 DEF StrictlyDominates, Dominates, ClosedAvoiding
<1>8. \A b \in Body : StrictlyDominates(g, q, b)
  <2> SUFFICES ASSUME NEW b \in Body PROVE StrictlyDominates(g, q, b)
    OBVIOUS
  <2>1. Dominates(g, q, loop) /\ Dominates(g, loop, b) /\ q # b
    BY <1>2, <1>6, <1>7 DEF StrictlyDominates
  <2>2. QED
    BY <2>1, DominatesTransitive DEF StrictlyDominates
(* Otherwise no execution would get into the loop. *)
<1>9. loop \in w[q]
  <2> SUFFICES ASSUME loop \notin w[q] PROVE FALSE
    OBVIOUS
  <2>1. w \in [Blocks -> SUBSET Blocks] /\ (\A x \in Blocks : w[x] \subseteq g[x])
        /\ loop \in Reachable(w)
    BY <1>1, <1>6, ProgFacts
  <2> DEFINE S == {x \in Blocks : ~Dominates(g, loop, x)}
  <2>2. Entry \in S
    <3>1. ~Dominates(g, loop, q)
      BY <1>1, <1>2, ProgFacts DEF LoopFacts, BackSources, Preds
    <3>2. loop # Entry
      BY <3>1, EntryDominates
    <3>3. QED
      BY <3>2, EntryHasNoDominator, EntryAssumption
  <2>3. ASSUME NEW x \in S, NEW y \in w[x] PROVE y \in S
    <3>1. x \in Blocks /\ y \in Blocks /\ y \in g[x]
      BY <2>1, <2>3
    <3>2. CASE y = loop
      <4>1. x \in Preds(g, loop) /\ x # q
        BY <2>3, <3>1, <3>2 DEF Preds
      <4>2. x \in Body
        BY <1>3, <4>1
      <4>3. QED
        BY <1>6, <2>3, <4>2
    <3>3. CASE y # loop
      BY <2>3, <3>1, <3>3, DominatesSource
    <3>4. QED
      BY <3>2, <3>3
  <2>4. Reachable(w) \subseteq S
    <3> HIDE DEF w
    <3>1. S \in SUBSET Blocks /\ \A x \in S : w[x] \subseteq S
      BY <2>3
    <3>2. QED
      BY <2>2, <3>1, ReachableWithin
  <2>5. QED
    BY <1>1, <2>1, <2>4, DominatesSelf
<1>10. QED
  BY <1>2, <1>3, <1>4, <1>5, <1>8, <1>9


(****************************************************************************)
(* One instruction moved                                                    *)
(****************************************************************************)
LEMMA ToSetElements ==
  ASSUME NEW S, NEW s \in Seq(S)
  PROVE  /\ \A v : v \in ToSet(s) <=> \E i \in 1..Len(s) : s[i] = v
         /\ ToSet(s) \subseteq S
<1>1. DOMAIN s = 1..Len(s) /\ \A i \in 1..Len(s) : s[i] \in S
  OBVIOUS
<1>2. QED
  BY <1>1 DEF ToSet

(* What MoveOut does to the code: the others keep their blocks and their    *)
(* order, and the one that moves comes to stand behind all of preBB.        *)
LEMMA MoveOutCode ==
  ASSUME TypeInv, CodeInv, FoundInv, NEW b \in Blocks, NEW ins \in Instructions, MoveOut(b, ins)
  PROVE  /\ b \in Body /\ preBB \in Blocks \ Body /\ ins \in ToSet(code[b])
         /\ code' \in [Blocks -> Seq(Instructions)]
         /\ \A x \in Blocks :
              ToSet(code'[x]) = IF x = b THEN ToSet(code[x]) \ {ins}
                                ELSE IF x = preBB THEN ToSet(code[x]) \cup {ins} ELSE ToSet(code[x])
         /\ \A x \in Blocks \ {b, preBB} : code'[x] = code[x]
         /\ EachOnce(code')
         /\ \A x \in Blocks : \A i \in 1..Len(code'[x]) :
              \/ /\ x = preBB /\ code'[x][i] = ins
                 /\ \A op \in ToSet(code[x]) : \E j \in 1..(i - 1) : code'[x][j] = op
              \/ /\ code'[x][i] # ins
                 /\ \E h \in 1..Len(code[x]) :
                      /\ code[x][h] = code'[x][i]
                      /\ \A j \in 1..(h - 1) :
                           code[x][j] = ins \/ \E m \in 1..(i - 1) : code'[x][m] = code[x][j]
<1>1. /\ code \in [Blocks -> Seq(Instructions)] /\ EachOnce(code) /\ loop \in Bases
      /\ preBB \in PreOutLoop /\ pc = "move"
      /\ code' = [code EXCEPT ![b] = RemoveFirst(code[b], ins), ![preBB] = Append(code[preBB], ins)]
  BY DEF TypeInv, CodeInv, MoveOut
<1>2. b \in Body /\ ins \in ToSet(code[b])
  BY <1>1 DEF FoundInv, Working, MoveOut
<1>3. preBB \in Blocks \ Body /\ b # preBB
  BY <1>1, <1>2, BlockBefore
<1>4. PICK k \in 1..Len(code[b]) : code[b][k] = ins
  BY <1>1, <1>2 DEF ToSet
<1>5. \A x \in Blocks : \A i \in 1..Len(code[x]) : code[x][i] = ins => x = b /\ i = k
  BY <1>1, <1>4 DEF EachOnce
<1> DEFINE n == Len(code[b])
           p == Len(code[preBB])
           Old(x, i) == IF x = b /\ k <= i THEN i + 1 ELSE i
<1>6. code[b] \in Seq(Instructions) /\ code[preBB] \in Seq(Instructions) /\ n \in Nat /\ p \in Nat /\ k \in 1..n
  BY <1>1, <1>3
<1>7. /\ code'[b] \in Seq(Instructions) /\ Len(code'[b]) = n - 1
      /\ \A i \in 1..(n - 1) : code'[b][i] = code[b][Old(b, i)]
  <2>1. code'[b] = RemoveFirst(code[b], code[b][k])
    BY <1>1, <1>3, <1>4
  <2>2. \A i \in 1..Len(code[b]) : code[b][i] = code[b][k] => i = k
    BY <1>4, <1>5
  <2>3. /\ RemoveFirst(code[b], code[b][k]) \in Seq(Instructions)
        /\ Len(RemoveFirst(code[b], code[b][k])) = n - 1
        /\ \A i \in 1..(n - 1) :
              RemoveFirst(code[b], code[b][k])[i] = IF i < k THEN code[b][i] ELSE code[b][i + 1]
    <3> HIDE DEF Old
    <3>1. QED
      BY <1>6, <2>2, RemoveOnce
  <2>4. \A i \in 1..(n - 1) : code'[b][i] = IF i < k THEN code[b][i] ELSE code[b][i + 1]
    BY <2>1, <2>3
  <2>5. \A i \in 1..(n - 1) : (k <= i => ~(i < k)) /\ (~(k <= i) => i < k)
    BY <1>6
  <2>6. QED
    BY <2>1, <2>3, <2>4, <2>5
<1>8. /\ code'[preBB] \in Seq(Instructions) /\ Len(code'[preBB]) = p + 1
      /\ \A i \in 1..p : code'[preBB][i] = code[preBB][i]
      /\ code'[preBB][p + 1] = ins
  <2>1. code'[preBB] = Append(code[preBB], ins)
    BY <1>1, <1>3
  <2> HIDE DEF Old
  <2>2. QED
    BY <1>6, <2>1
<1>9. \A x \in Blocks \ {b, preBB} : code'[x] = code[x]
  BY <1>1
<1>10. code' \in [Blocks -> Seq(Instructions)]
  BY <1>1, <1>3, <1>7, <1>8
<1>11. ASSUME NEW x \in Blocks, NEW i \in 1..Len(code'[x]), ~(x = preBB /\ i = p + 1)
       PROVE  /\ Old(x, i) \in 1..Len(code[x]) /\ code'[x][i] = code[x][Old(x, i)]
              /\ code'[x][i] # ins
  <2>1. CASE x = b
    <3>1. i \in 1..(n - 1) /\ Old(x, i) \in 1..n /\ Old(x, i) # k
      BY <1>6, <1>7, <1>11, <2>1
    <3> HIDE DEF Old
    <3>2. QED
      BY <1>5, <1>7, <2>1, <3>1
  <2>2. CASE x = preBB
    <3>1. i \in 1..p /\ Old(x, i) = i
      BY <1>3, <1>6, <1>8, <1>11, <2>2
    <3> HIDE DEF Old
    <3>2. QED
      BY <1>3, <1>5, <1>8, <2>2, <3>1
  <2>3. CASE x \notin {b, preBB}
    BY <1>5, <1>9, <1>11, <2>3
  <2>4. QED
    BY <2>1, <2>2, <2>3
<1>12. ASSUME NEW x \in Blocks, NEW j \in 1..Len(code[x]), code[x][j] # ins
       PROVE  \E i \in 1..Len(code'[x]) :
                Old(x, i) = j /\ code'[x][i] = code[x][j] /\ ~(x = preBB /\ i = p + 1)
  <2>1. CASE x = b
    <3>1. j # k
      BY <1>4, <1>12, <2>1
    <3>2. CASE j < k
      <4>1. j \in 1..(n - 1) /\ Old(b, j) = j
        BY <1>6, <1>12, <2>1, <3>2
      <4>2. QED
        BY <1>3, <1>7, <2>1, <4>1
    <3>3. CASE k < j
      <4>1. j - 1 \in 1..(n - 1) /\ Old(b, j - 1) = j
        BY <1>6, <1>12, <2>1, <3>3
      <4>2. QED
        BY <1>3, <1>7, <2>1, <4>1
    <3>4. QED
      BY <1>6, <1>12, <2>1, <3>1, <3>2, <3>3
  <2>2. CASE x = preBB
    <3>1. j \in 1..p /\ j \in 1..(p + 1) /\ j # p + 1 /\ Old(x, j) = j
      BY <1>3, <1>6, <1>12, <2>2
    <3>2. QED
      BY <1>8, <2>2, <3>1
  <2>3. CASE x \notin {b, preBB}
    <3>1. Old(x, j) = j /\ code'[x] = code[x]
      BY <1>9, <2>3
    <3>2. QED
      BY <1>12, <2>3, <3>1
  <2>4. QED
    BY <2>1, <2>2, <2>3
<1>13. ASSUME NEW x \in Blocks, NEW i \in 1..Len(code'[x]), NEW j \in 1..Len(code'[x]),
              i \in Nat, j \in Nat, k \in Nat
       PROVE  (Old(x, i) = Old(x, j) => i = j) /\ (Old(x, i) < Old(x, j) => i < j)
  BY <1>13
<1>14. \A x \in Blocks : Len(code'[x]) \in Nat /\ Len(code[x]) \in Nat
  BY <1>1, <1>10
<1>15. ASSUME NEW x \in Blocks, NEW i \in 1..Len(code'[x]), NEW j \in 1..Len(code'[x])
       PROVE  (Old(x, i) = Old(x, j) => i = j) /\ (Old(x, i) < Old(x, j) => i < j)
  <2>1. i \in Nat /\ j \in Nat /\ k \in Nat
    BY <1>6, <1>14
  <2> HIDE DEF Old
  <2>2. QED
    BY <1>13, <2>1
<1> HIDE DEF Old
<1>16. \A x \in Blocks :
         ToSet(code'[x]) = IF x = b THEN ToSet(code[x]) \ {ins}
                           ELSE IF x = preBB THEN ToSet(code[x]) \cup {ins} ELSE ToSet(code[x])
  <2> SUFFICES ASSUME NEW x \in Blocks, NEW v
               PROVE  v \in ToSet(code'[x]) <=>
                        v \in (IF x = b THEN ToSet(code[x]) \ {ins}
                               ELSE IF x = preBB THEN ToSet(code[x]) \cup {ins} ELSE ToSet(code[x]))
    OBVIOUS
  <2>1. ASSUME NEW y \in Blocks, NEW w
        PROVE  /\ w \in ToSet(code[y]) <=> \E i \in 1..Len(code[y]) : code[y][i] = w
               /\ w \in ToSet(code'[y]) <=> \E i \in 1..Len(code'[y]) : code'[y][i] = w
    <3>1. code[y] \in Seq(Instructions) /\ code'[y] \in Seq(Instructions)
      BY <1>1, <1>10
    <3>2. QED
      BY <3>1, ToSetElements
  <2>2. CASE v = ins
    <3>1. v \in ToSet(code'[preBB])
      <4>1. p + 1 \in 1..Len(code'[preBB]) /\ preBB \in Blocks
        BY <1>3, <1>6, <1>8
      <4>2. QED
        BY <1>8, <2>1, <2>2, <4>1
    <3>2. x # preBB => v \notin ToSet(code'[x])
      BY <1>11, <2>1, <2>2
    <3>3. x # b => v \notin ToSet(code[x])
      BY <1>5, <2>1, <2>2
    <3>4. QED
      BY <1>3, <2>2, <3>1, <3>2, <3>3
  <2>3. CASE v # ins
    <3>1. ASSUME v \in ToSet(code'[x]) PROVE v \in ToSet(code[x])
      <4>1. PICK i \in 1..Len(code'[x]) : code'[x][i] = v
        BY <2>1, <3>1
      <4>2. Old(x, i) \in 1..Len(code[x]) /\ code[x][Old(x, i)] = v
        BY <1>8, <1>11, <2>3, <4>1
      <4>3. QED
        BY <2>1, <4>2
    <3>2. ASSUME v \in ToSet(code[x]) PROVE v \in ToSet(code'[x])
      <4>1. PICK j \in 1..Len(code[x]) : code[x][j] = v
        BY <2>1, <3>2
      <4>2. \E i \in 1..Len(code'[x]) : code'[x][i] = v
        BY <1>12, <2>3, <4>1
      <4>3. QED
        BY <2>1, <4>2
    <3>3. QED
      BY <2>3, <3>1, <3>2
  <2>4. QED
    BY <2>2, <2>3
<1>17. EachOnce(code')
  <2> SUFFICES ASSUME NEW x \in Blocks, NEW y \in Blocks,
                      NEW i \in 1..Len(code'[x]), NEW j \in 1..Len(code'[y]), code'[x][i] = code'[y][j]
               PROVE  x = y /\ i = j
    BY DEF EachOnce
  <2>1. CASE code'[x][i] = ins
    <3>1. x = preBB /\ i = p + 1
      BY <1>11, <2>1
    <3>2. y = preBB /\ j = p + 1
      BY <1>11, <2>1
    <3>3. QED
      BY <3>1, <3>2
  <2>2. CASE code'[x][i] # ins
    <3>1. /\ Old(x, i) \in 1..Len(code[x]) /\ code'[x][i] = code[x][Old(x, i)]
          /\ Old(y, j) \in 1..Len(code[y]) /\ code'[y][j] = code[y][Old(y, j)]
      BY <1>8, <1>11, <2>2
    <3>2. x = y /\ Old(x, i) = Old(y, j)
      BY <1>1, <3>1 DEF EachOnce
    <3>3. QED
      BY <1>15, <3>2
  <2>3. QED
    BY <2>1, <2>2
<1>18. ASSUME NEW x \in Blocks, NEW i \in 1..Len(code'[x])
       PROVE  \/ /\ x = preBB /\ code'[x][i] = ins
                 /\ \A op \in ToSet(code[x]) : \E j \in 1..(i - 1) : code'[x][j] = op
              \/ /\ code'[x][i] # ins
                 /\ \E h \in 1..Len(code[x]) :
                      /\ code[x][h] = code'[x][i]
                      /\ \A j \in 1..(h - 1) :
                           code[x][j] = ins \/ \E m \in 1..(i - 1) : code'[x][m] = code[x][j]
  <2>1. CASE x = preBB /\ i = p + 1
    <3>1. 1..(i - 1) = 1..p
      BY <1>6, <2>1
    <3>2. \A op \in ToSet(code[x]) : \E j \in 1..p : code[x][j] = op
      BY <1>6, <2>1, ToSetElements
    <3>3. \A op \in ToSet(code[x]) : \E j \in 1..(i - 1) : code'[x][j] = op
      BY <1>8, <2>1, <3>1, <3>2
    <3>4. QED
      BY <1>8, <2>1, <3>3
  <2>2. CASE ~(x = preBB /\ i = p + 1)
    <3>1. Old(x, i) \in 1..Len(code[x]) /\ code[x][Old(x, i)] = code'[x][i] /\ code'[x][i] # ins
      BY <1>11, <2>2
    <3>2. ASSUME NEW j \in 1..(Old(x, i) - 1), code[x][j] # ins
          PROVE  \E m \in 1..(i - 1) : code'[x][m] = code[x][j]
      <4>1. j \in 1..Len(code[x]) /\ j < Old(x, i)
        BY <1>14, <3>1
      <4>2. PICK m \in 1..Len(code'[x]) : Old(x, m) = j /\ code'[x][m] = code[x][j]
        BY <1>12, <3>2, <4>1
      <4>3. m < i
        BY <1>15, <4>1, <4>2
      <4>4. m \in 1..(i - 1)
        BY <1>14, <4>3
      <4>5. QED
        BY <4>2, <4>4
    <3>3. QED
      BY <3>1, <3>2
  <2>3. QED
    BY <2>1, <2>2
<1>19. QED
  BY <1>2, <1>3, <1>9, <1>10, <1>16, <1>17, <1>18


(****************************************************************************)
(* The nesting of the loops                                                 *)
(****************************************************************************)
LEMMA LoopTypes ==
  ASSUME TypeInv
  PROVE  /\ \A l \in loops : /\ l = <<l[1], l[2]>> /\ l[1] \in l[2]
                             /\ l[2] \subseteq Blocks /\ l[2] \subseteq Reachable(prog.succ)
                             /\ l[1] \in Bases
         /\ Bases \subseteq Blocks /\ Null \notin Bases
<1>1. \A l \in loops : l = <<l[1], l[2]>> /\ l[1] \in l[2] /\ l[2] \subseteq Reachable(prog.succ)
  BY ProgFacts DEF LoopFacts
<1>2. Reachable(prog.succ) \subseteq Blocks
  BY ProgFacts, ReachableClosed
<1>3. QED
  BY <1>1, <1>2, NullAssumption DEF Bases

(* Each of two loops with the same blocks is headed by the dominator of     *)
(* all of them.                                                             *)
LEMMA SameBlocks ==
  ASSUME TypeInv, NEW l \in loops, NEW m \in loops, l[1] \in m[2], m[1] \in l[2]
  PROVE  l = m
<1>1. Dominates(prog.succ, l[1], m[1]) /\ Dominates(prog.succ, m[1], l[1])
  BY ProgFacts DEF LoopFacts
<1>2. l[1] \in Reachable(prog.succ)
  BY LoopTypes
<1>3. l[1] = m[1]
  BY <1>1, <1>2, DominatesAntisymmetric
<1>4. QED
  BY <1>3, ProgFacts DEF LoopFacts

LEMMA InnermostWithin ==
  ASSUME TypeInv, NEW l \in loops
  PROVE  \E k \in loops : /\ k[2] \subseteq l[2]
                          /\ \A m \in loops : m[2] \subseteq k[2] => m = k
<1> DEFINE ls == {m \in loops : m[2] \subseteq l[2]}
<1>1. ls # {} /\ \A m \in ls : m[2] \in SUBSET Blocks
  BY LoopTypes
<1>2. PICK k \in ls : \A m \in ls : m[2] \subseteq k[2] => m[2] = k[2]
  BY <1>1, SmallestLoop
<1>3. ASSUME NEW m \in loops, m[2] \subseteq k[2] PROVE m = k
  <2>1. m[2] = k[2]
    BY <1>2, <1>3
  <2>2. QED
    BY <2>1, LoopTypes, SameBlocks
<1>4. QED
  BY <1>3

(* The parent is the innermost of the loops around.                         *)
LEMMA ParentLoop ==
  ASSUME TypeInv, loop \in Bases
  PROVE  LET ls == {l \in Around(loops, loop) : l[1] # loop}
         IN  IF ls = {} THEN get_parent_loop(loop) = Null
             ELSE \E p \in ls : get_parent_loop(loop) = p[1] /\ \A k \in ls : p[2] \subseteq k[2]
<1> DEFINE ls == {l \in Around(loops, loop) : l[1] # loop}
<1>1. CASE ls = {}
  BY <1>1 DEF get_parent_loop, Innermost
<1>2. CASE ls # {}
  <2>1. \A l \in ls : l \in loops /\ loop \in l[2] /\ l[2] \in SUBSET Blocks
    BY LoopTypes DEF Around
  <2>2. PICK p \in ls : \A k \in ls : k[2] \subseteq p[2] => k[2] = p[2]
    BY <1>2, <2>1, SmallestLoop
  <2>3. \A k \in ls : p[2] \subseteq k[2]
    BY <2>1, <2>2, ProgFacts DEF LoopFacts
  <2> DEFINE c == CHOOSE l \in ls : \A k \in ls : l[2] \subseteq k[2]
  <2>4. c \in ls /\ \A k \in ls : c[2] \subseteq k[2]
    BY <2>3
  <2>5. get_parent_loop(loop) = c[1]
    BY <1>2 DEF get_parent_loop, Innermost
  <2>6. QED
    BY <1>2, <2>4, <2>5
<1>3. QED
  BY <1>1, <1>2

(* A loop that shares a block with the loop in hand and does not hold it    *)
(* lies inside of it.                                                       *)
LEMMA LoopInside ==
  ASSUME TypeInv, loop \in Bases, NEW l \in loops, l[2] \cap Body # {}, ~(Body \subseteq l[2])
  PROVE  l[2] \subseteq Body
<1>1. <<loop, Body>> \in loops /\ <<loop, Body>>[2] = Body
  BY LoopOf DEF Body
<1>2. QED
  BY <1>1, ProgFacts DEF LoopFacts

(****************************************************************************)
(* The invariant                                                            *)
(****************************************************************************)
LEMMA DefinedTypes ==
  ASSUME TypeInv
  PROVE  /\ \A b \in Blocks : ToSet(code[b]) \subseteq Instructions
         /\ \A bs \in SUBSET Blocks : Defined(bs) \subseteq Instructions
<1>1. \A b \in Blocks : code[b] \in Seq(Instructions)
  BY DEF TypeInv
<1>2. \A b \in Blocks : ToSet(code[b]) \subseteq Instructions
  BY <1>1, ToSetElements
<1>3. QED
  BY <1>2 DEF Defined, Defines

LEMMA InitInv == Init => HoistInv
<1> SUFFICES ASSUME Init PROVE HoistInv
  OBVIOUS
<1>1. TypeInv
  BY ProgramsAssumption DEF Init, TypeInv, LoopSearched
<1>2. CodeInv /\ OrderInv
  <2>1. EachOnce(prog.code)
    BY <1>1, FunctionsAssumption DEF TypeInv
  <2>2. QED
    BY <1>1, <2>1, ProgFacts DEF Init, CodeInv, OrderInv, Used, Uses
<1>3. FoundInv /\ SettledInv
  BY DEF Init, FoundInv, SettledInv, Settled, Working
<1>4. QED
  BY <1>1, <1>2, <1>3 DEF HoistInv

(* What a step that moves nothing leaves alone.                             *)
LEMMA QuietCode ==
  ASSUME HoistInv, UNCHANGED <<prog, loops, code>>
  PROVE  /\ CodeInv' /\ OrderInv' /\ Bases' = Bases
         /\ \A l \in loops : Clean(l)' <=> Clean(l)
         /\ \A bs : Defined(bs)' = Defined(bs)
         /\ \A base : LoopBlocks(base)' = LoopBlocks(base)
<1>1. Used' = Used /\ Uses' = Uses /\ (AllocatedInOrder' <=> AllocatedInOrder)
  BY DEF Used, Uses, AllocatedInOrder
<1>2. CodeInv' /\ OrderInv'
  BY <1>1 DEF HoistInv, CodeInv, OrderInv
<1>3. /\ \A bs : Defined(bs)' = Defined(bs)
      /\ \A base : LoopBlocks(base)' = LoopBlocks(base)
      /\ Bases' = Bases
  BY DEF Defined, Defines, LoopBlocks, Bases
<1>4. \A l \in loops : Clean(l)' <=> Clean(l)
  BY <1>3 DEF Clean
<1>5. QED
  BY <1>2, <1>3, <1>4

LEMMA CollectInv == ASSUME HoistInv, CollectInnermost PROVE HoistInv'
<1>1. UNCHANGED <<prog, loops, code>> /\ TypeInv /\ pc' = "next"
  BY DEF CollectInnermost, HoistInv
<1>2. TypeInv'
  BY <1>1, QuietCode DEF CollectInnermost, TypeInv, Bases
<1>3. FoundInv'
  BY <1>1 DEF FoundInv, Working
<1>4. ASSUME NEW l \in loops PROVE ~Settled(l)'
  <2>1. PICK k \in loops : k[2] \subseteq l[2] /\ \A m \in loops : m[2] \subseteq k[2] => m = k
    BY <1>1, InnermostWithin
  <2>2. k[1] \in base_loops'
    BY <2>1 DEF CollectInnermost
  <2>3. QED
    BY <1>1, <2>1, <2>2 DEF Settled
<1>5. QED
  BY <1>1, <1>2, <1>3, <1>4, QuietCode DEF HoistInv, SettledInv

(* Taking up a loop: everything it defines is needed in it so far.          *)
LEMMA StartInv ==
  ASSUME HoistInv, NEW base \in Bases, StartLoop(base), base_loops' \subseteq base_loops,
         \A l \in loops : Settled(l)' => Settled(l)
  PROVE  HoistInv'
<1>1. /\ UNCHANGED <<prog, loops, code>> /\ TypeInv /\ pc' = "find" /\ loop' = base
      /\ invariant' = {} /\ needDefinedInLoop' = Defined(LoopBlocks(base))
  BY DEF StartLoop, HoistInv
<1>2. Body' = LoopBlocks(base)
  BY <1>1, QuietCode DEF Body
<1>3. TypeInv'
  <2>1. needDefinedInLoop' \subseteq Instructions
    BY <1>1, LoopOf, DefinedTypes
  <2>2. QED
    BY <1>1, <2>1, QuietCode DEF TypeInv
<1>4. FoundInv'
  <2>1. Defined(Body)' = Defined(LoopBlocks(base))
    BY <1>1, <1>2, QuietCode DEF Defined, Defines
  <2>2. QED
    BY <1>1, <2>1 DEF FoundInv
<1>5. SettledInv'
  BY <1>1, QuietCode DEF HoistInv, SettledInv
<1>6. QED
  BY <1>1, <1>3, <1>4, <1>5, QuietCode DEF HoistInv

LEMMA PickInv == ASSUME HoistInv, NEW base \in base_loops, PickInnermost(base) PROVE HoistInv'
<1>1. /\ TypeInv /\ base \in Bases /\ StartLoop(base) /\ pc = "next" /\ pc' = "find"
      /\ base_loops' = base_loops \ {base} /\ UNCHANGED <<prog, loops, code>> /\ loop' = base
  BY DEF PickInnermost, StartLoop, HoistInv, TypeInv
<1>2. Body' = LoopBlocks(base)
  BY <1>1, QuietCode DEF Body
<1>3. ASSUME NEW l \in loops, Settled(l)' PROVE Settled(l)
  <2>1. /\ \A k \in loops : k[1] \in base_loops \ {base} => ~(k[2] \subseteq l[2])
        /\ ~(LoopBlocks(base) \subseteq l[2])
    BY <1>1, <1>2, <1>3 DEF Settled, Working
  <2>2. \A k \in loops : k[1] = base => k[2] = LoopBlocks(base)
    BY <1>1, LoopOf
  <2>3. QED
    BY <1>1, <2>1, <2>2 DEF Settled, Working
<1>4. QED
  BY <1>1, <1>3, StartInv

LEMMA ClimbInv == ASSUME HoistInv, Climb PROVE HoistInv'
<1> DEFINE parent == get_parent_loop(loop)
           ls == {l \in Around(loops, loop) : l[1] # loop}
<1>1. /\ TypeInv /\ loop \in Bases /\ pc = "climb" /\ base_loops' = base_loops
      /\ UNCHANGED <<prog, loops, code>>
  BY DEF Climb, StartLoop, HoistInv, TypeInv
<1>2. ASSUME NEW l \in loops, Body \subseteq l[2], l[1] # loop PROVE l \in ls
  BY <1>1, <1>2, LoopOf DEF Around, Body
<1>3. CASE parent = Null
  <2>1. ls = {}
    <3>1. \A p \in ls : p[1] # Null
      BY <1>1, LoopTypes DEF Around
    <3>2. QED
      BY <1>1, <1>3, <3>1, ParentLoop
  <2>2. /\ pc' = "next" /\ UNCHANGED <<loop, needDefinedInLoop, invariant, preBB>>
    BY <1>3 DEF Climb
  <2>3. ASSUME NEW l \in loops, Settled(l)' PROVE Settled(l)
    BY <1>1, <1>2, <2>1, <2>2, <2>3 DEF Settled, Working
  <2>4. TypeInv' /\ FoundInv' /\ SettledInv'
    BY <1>1, <2>2, <2>3, QuietCode DEF HoistInv, TypeInv, FoundInv, SettledInv, Working
  <2>5. QED
    BY <1>1, <2>4, QuietCode DEF HoistInv
<1>4. CASE parent # Null
  <2>1. PICK p \in ls : parent = p[1] /\ \A k \in ls : p[2] \subseteq k[2]
    BY <1>1, <1>4, ParentLoop
  <2>2. p \in loops /\ parent \in Bases /\ p[2] = LoopBlocks(parent)
    <3>1. p \in loops /\ p[1] \in Bases
      BY <1>1, LoopTypes DEF Around
    <3>2. QED
      BY <1>1, <2>1, <3>1, LoopOf
  <2>3. StartLoop(parent) /\ pc' = "find" /\ loop' = parent
    BY <1>4 DEF Climb, StartLoop
  <2>4. Body' = LoopBlocks(parent)
    BY <1>1, <2>3, QuietCode DEF Body
  <2>5. ASSUME NEW l \in loops, Settled(l)' PROVE Settled(l)
    <3>1. ~(p[2] \subseteq l[2]) /\ \A k \in loops : k[1] \in base_loops => ~(k[2] \subseteq l[2])
      BY <1>1, <2>2, <2>3, <2>4, <2>5 DEF Settled, Working
    <3>2. l \notin ls
      BY <2>1, <3>1
    <3>3. QED
      BY <1>1, <1>2, <3>1, <3>2 DEF Settled, Working
  <2>6. QED
    BY <1>1, <2>2, <2>3, <2>5, StartInv
<1>5. QED
  BY <1>3, <1>4


(* What leaves the loop in hand does not come from a settled one inside of  *)
(* it: an operand keeps it there, and would have to leave first.            *)
LEMMA FindInv ==
  ASSUME HoistInv, NEW b \in Blocks, NEW ins \in Instructions, FindInvariant(b, ins)
  PROVE  HoistInv'
<1>1. /\ UNCHANGED <<prog, loops, code, pc, base_loops, loop, preBB>> /\ TypeInv /\ CodeInv
      /\ FoundInv /\ pc = "find" /\ loop \in Bases /\ b \in Body /\ ins \in ToSet(code[b])
      /\ IsInvariant(ins) /\ Working
      /\ needDefinedInLoop' = needDefinedInLoop \ {ins}
      /\ invariant' = invariant \cup {<<b, ins>>}
  BY DEF FindInvariant, HoistInv, TypeInv, Working, Body
<1>2. Body' = Body /\ Defined(Body)' = Defined(Body)
  BY <1>1, QuietCode DEF Body, Defined, Defines, LoopBlocks
<1>3. TypeInv'
  BY <1>1, QuietCode DEF TypeInv, PreOutLoop
<1>4. FoundInv'
  <2>1. needDefinedInLoop' \cup {x[2] : x \in invariant'} = Defined(Body)'
    <3>1. {x[2] : x \in invariant'} = {x[2] : x \in invariant} \cup {ins}
      <4>1. <<b, ins>>[2] = ins
        OBVIOUS
      <4>2. ASSUME NEW v
            PROVE  (\E x \in invariant' : x[2] = v) <=> (v = ins \/ \E x \in invariant : x[2] = v)
        BY <1>1, <4>1
      <4>3. QED
        BY <4>2
    <3>2. ins \in needDefinedInLoop
      BY <1>1 DEF IsInvariant
    <3>3. QED
      BY <1>1, <1>2, <3>1, <3>2 DEF FoundInv
  <2>2. ASSUME NEW x \in invariant'
        PROVE  /\ x[1] \in Body /\ x[2] \in ToSet(code[x[1]])
               /\ prog.kind[x[2]] = "pure"
               /\ (prog.ops[x[2]] \cup {x[2]}) \cap needDefinedInLoop' = {}
    <3>1. CASE x \in invariant
      BY <1>1, <3>1 DEF FoundInv
    <3>2. CASE x = <<b, ins>>
      BY <1>1, <3>2 DEF IsInvariant
    <3>3. QED
      BY <1>1, <2>2, <3>1, <3>2
  <2>3. QED
    BY <1>1, <1>2, <2>1, <2>2 DEF FoundInv
<1>5. SettledInv'
  <2> SUFFICES ASSUME NEW l \in loops, Settled(l)
               PROVE  Clean(l) /\ \A x \in invariant' : x[1] \notin l[2]
    <3>1. \A l \in loops : (Settled(l)' <=> Settled(l)) /\ (Clean(l)' <=> Clean(l))
      BY <1>1, <1>2, QuietCode DEF Settled, Working
    <3>2. QED
      BY <1>1, <3>1 DEF SettledInv
  <2>1. Clean(l) /\ \A x \in invariant : x[1] \notin l[2]
    BY <1>1 DEF HoistInv, SettledInv
  <2>2. ASSUME b \in l[2] PROVE FALSE
    <3>1. l[2] \subseteq Body /\ l[2] \subseteq Blocks /\ Body \subseteq Blocks
      <4>1. ~(Body \subseteq l[2])
        BY <1>1 DEF Settled
      <4>2. QED
        BY <1>1, <2>2, <4>1, LoopInside, LoopTypes, LoopOf DEF Body
    <3>2. PICK op \in prog.ops[ins] : op \in Defined(l[2])
      BY <1>1, <2>1, <2>2 DEF Clean, IsInvariant
    <3>3. PICK d \in l[2] : op \in ToSet(code[d]) /\ op \in Defines(d)
      BY <3>2 DEF Defined, Defines
    <3>4. op \in Defined(Body) /\ op \notin needDefinedInLoop
      BY <1>1, <3>1, <3>2, <3>3 DEF Defined, IsInvariant
    <3>5. PICK x \in invariant : x[2] = op
      BY <1>1, <3>4 DEF FoundInv
    <3>6. x[1] \in Body /\ op \in ToSet(code[x[1]]) /\ x[1] \notin l[2]
      BY <1>1, <2>1, <3>5 DEF FoundInv
    <3>7. d = x[1]
      <4>1. d \in Blocks /\ x[1] \in Blocks /\ code[d] \in Seq(Instructions)
            /\ code[x[1]] \in Seq(Instructions)
        BY <1>1, <3>1, <3>3, <3>6 DEF TypeInv
      <4>2. /\ \E i \in 1..Len(code[d]) : code[d][i] = op
            /\ \E j \in 1..Len(code[x[1]]) : code[x[1]][j] = op
        BY <3>3, <3>6, <4>1, ToSetElements
      <4>3. QED
        BY <1>1, <4>1, <4>2 DEF CodeInv, EachOnce
    <3>8. QED
      BY <3>3, <3>6, <3>7
  <2>3. QED
    BY <1>1, <2>1, <2>2
<1>6. QED
  BY <1>1, <1>3, <1>4, <1>5, QuietCode DEF HoistInv

(* When all that was found has moved, the loop in hand is clean.            *)
LEMMA LoopDone ==
  ASSUME HoistInv, Working, invariant = {}, pc' = "climb",
         \A b \in Body : \A ins \in ToSet(code[b]) : ~IsInvariant(ins),
         UNCHANGED <<prog, loops, code, base_loops, loop, needDefinedInLoop, invariant>>
  PROVE  HoistInv'
<1>1. TypeInv /\ loop \in Bases /\ FoundInv /\ SettledInv /\ <<loop, Body>> \in loops
  BY LoopOf DEF HoistInv, TypeInv, Working, Body
<1>2. TypeInv' /\ FoundInv' /\ Body' = Body
  BY <1>1, QuietCode DEF TypeInv, FoundInv, Working, Body
<1>3. Clean(<<loop, Body>>)
  <2> SUFFICES ASSUME NEW b \in Body, NEW ins \in ToSet(code[b]), prog.kind[ins] = "pure"
               PROVE  prog.ops[ins] \cap Defined(Body) # {}
    BY DEF Clean
  <2>1. Defined(Body) = needDefinedInLoop
    BY <1>1 DEF FoundInv
  <2>2. ins \in Defined(Body)
    BY DEF Defined, Defines
  <2>3. QED
    BY <2>1, <2>2 DEF IsInvariant
<1>4. ASSUME NEW l \in loops, Settled(l)' PROVE Clean(l)
  <2>1. CASE Body \subseteq l[2]
    <3>1. l[1] = loop
      BY <1>2, <1>4, <2>1 DEF Settled
    <3>2. l = <<loop, Body>>
      BY <1>1, <3>1, LoopTypes, LoopOf DEF Body
    <3>3. QED
      BY <1>3, <3>2
  <2>2. CASE ~(Body \subseteq l[2])
    <3>1. Settled(l)
      BY <1>4, <2>2 DEF Settled, Working
    <3>2. QED
      BY <1>1, <3>1 DEF SettledInv
  <2>3. QED
    BY <2>1, <2>2
<1>5. SettledInv'
  BY <1>4, QuietCode DEF SettledInv, Working
<1>6. QED
  BY <1>2, <1>5, QuietCode DEF HoistInv

LEMMA EndFindInv == ASSUME HoistInv, EndFind PROVE HoistInv'
<1>1. /\ UNCHANGED <<prog, loops, code, base_loops, loop, needDefinedInLoop, invariant>>
      /\ TypeInv /\ FoundInv /\ SettledInv /\ Working /\ pc = "find"
      /\ \A b \in Body : \A ins \in ToSet(code[b]) : ~IsInvariant(ins)
  BY DEF EndFind, HoistInv, Working, Body
<1>2. CASE invariant = {}
  BY <1>1, <1>2, LoopDone DEF EndFind
<1>3. CASE invariant # {}
  <2>1. pc' = "move" /\ preBB' \in PreOutLoop
    BY <1>3 DEF EndFind
  <2>2. Body' = Body /\ PreOutLoop' = PreOutLoop /\ Defined(Body)' = Defined(Body)
        /\ \A ins : IsInvariant(ins)' <=> IsInvariant(ins)
    BY <1>1, QuietCode DEF Body, PreOutLoop, IsInvariant, Defined, Defines, LoopBlocks
  <2>3. TypeInv'
    BY <1>1, <2>1, <2>2, QuietCode DEF TypeInv
  <2>4. FoundInv'
    BY <1>1, <2>1, <2>2 DEF FoundInv
  <2>5. \A l \in loops : Settled(l)' => Settled(l)
    BY <1>1, <2>1, <2>2 DEF Settled, Working
  <2>6. SettledInv'
    BY <1>1, <2>5, QuietCode DEF SettledInv
  <2>7. QED
    BY <1>1, <2>3, <2>4, <2>6, QuietCode DEF HoistInv
<1>4. QED
  BY <1>2, <1>3

LEMMA EndMoveInv == ASSUME HoistInv, EndMove PROVE HoistInv'
BY LoopDone DEF EndMove, HoistInv, FoundInv, Working

(****************************************************************************)
(* Moving an instruction keeps the invariant                                *)
(****************************************************************************)
(* Where an instruction lies is one block.                                  *)
LEMMA OnePlace ==
  ASSUME TypeInv, CodeInv, NEW x \in Blocks, NEW y \in Blocks, NEW ins,
         ins \in ToSet(code[x]), ins \in ToSet(code[y])
  PROVE  x = y
<1>1. code[x] \in Seq(Instructions) /\ code[y] \in Seq(Instructions)
  BY DEF TypeInv
<1>2. PICK i \in 1..Len(code[x]), j \in 1..Len(code[y]) : code[x][i] = ins /\ code[y][j] = ins
  BY <1>1, ToSetElements
<1>3. QED
  BY <1>2 DEF CodeInv, EachOnce

LEMMA MoveOutFound ==
  ASSUME HoistInv, NEW b \in Blocks, NEW ins \in Instructions, MoveOut(b, ins)
  PROVE  FoundInv'
<1>1. /\ TypeInv /\ CodeInv /\ FoundInv /\ loop \in Bases /\ pc = "move" /\ Working
      /\ UNCHANGED <<prog, loops, pc, base_loops, loop, needDefinedInLoop, preBB>>
      /\ <<b, ins>> \in invariant /\ invariant' = invariant \ {<<b, ins>>}
  BY DEF MoveOut, HoistInv, TypeInv, Working
<1>2. Body' = Body /\ Body \subseteq Blocks
  BY <1>1, LoopOf DEF Body, LoopBlocks
<1>3. /\ b \in Body /\ preBB \in Blocks \ Body /\ ins \in ToSet(code[b])
      /\ \A x \in Blocks :
           ToSet(code'[x]) = IF x = b THEN ToSet(code[x]) \ {ins}
                             ELSE IF x = preBB THEN ToSet(code[x]) \cup {ins} ELSE ToSet(code[x])
  BY <1>1, MoveOutCode
<1>4. \A x \in Body : ToSet(code'[x]) = ToSet(code[x]) \ {ins}
  BY <1>1, <1>2, <1>3, OnePlace
<1>5. Defined(Body)' = Defined(Body) \ {ins}
  BY <1>1, <1>2, <1>4 DEF Defined, Defines
<1>6. {x[2] : x \in invariant'} = {x[2] : x \in invariant} \ {ins}
  <2>1. ASSUME NEW x \in invariant, x[2] = ins PROVE x = <<b, ins>>
    <3>1. x[1] \in Blocks /\ x[2] \in ToSet(code[x[1]]) /\ x = <<x[1], x[2]>>
      BY <1>1, <1>2 DEF FoundInv, TypeInv
    <3>2. x[1] = b
      BY <1>1, <1>3, <2>1, <3>1, OnePlace
    <3>3. QED
      BY <2>1, <3>1, <3>2
  <2>2. <<b, ins>>[2] = ins
    OBVIOUS
  <2>3. ASSUME NEW v PROVE (\E x \in invariant' : x[2] = v) <=> (v # ins /\ \E x \in invariant : x[2] = v)
    BY <1>1, <2>1, <2>2
  <2>4. QED
    BY <2>3
<1>7. needDefinedInLoop' \cup {x[2] : x \in invariant'} = Defined(Body)'
  <2>1. ins \notin needDefinedInLoop
    BY <1>1 DEF FoundInv
  <2>2. QED
    BY <1>1, <1>5, <1>6, <2>1 DEF FoundInv
<1>8. ASSUME NEW x \in invariant'
      PROVE  /\ x[1] \in Body /\ x[2] \in ToSet(code'[x[1]])
             /\ prog.kind[x[2]] = "pure"
             /\ (prog.ops[x[2]] \cup {x[2]}) \cap needDefinedInLoop = {}
  <2>1. /\ x[1] \in Body /\ x[2] \in ToSet(code[x[1]])
        /\ prog.kind[x[2]] = "pure"
        /\ (prog.ops[x[2]] \cup {x[2]}) \cap needDefinedInLoop = {}
    BY <1>1 DEF FoundInv
  <2>2. x[2] # ins
    BY <1>6
  <2>3. QED
    BY <1>4, <2>1, <2>2
<1>9. \A x \in Body : \A i \in ToSet(code'[x]) : ~IsInvariant(i)'
  BY <1>1, <1>4 DEF FoundInv, IsInvariant
<1>10. QED
  BY <1>1, <1>2, <1>7, <1>8, <1>9 DEF FoundInv

LEMMA MoveOutSettled ==
  ASSUME HoistInv, NEW b \in Blocks, NEW ins \in Instructions, MoveOut(b, ins)
  PROVE  SettledInv'
<1>1. /\ TypeInv /\ CodeInv /\ FoundInv /\ SettledInv /\ loop \in Bases /\ pc = "move" /\ Working
      /\ UNCHANGED <<prog, loops, pc, base_loops, loop, needDefinedInLoop, preBB>>
      /\ <<b, ins>> \in invariant /\ invariant' \subseteq invariant /\ preBB \in PreOutLoop
  BY DEF MoveOut, HoistInv, TypeInv, Working
<1>2. Body' = Body /\ loop \in Body /\ <<loop, Body>> \in loops
  BY <1>1, LoopOf DEF Body, LoopBlocks
<1>3. \A l \in loops : Settled(l)' <=> Settled(l)
  BY <1>1, <1>2 DEF Settled, Working
<1>4. ASSUME NEW l \in loops, Settled(l)
      PROVE  Clean(l)' /\ \A x \in invariant' : x[1] \notin l[2]
  <2>1. Clean(l) /\ \A x \in invariant : x[1] \notin l[2]
    BY <1>1, <1>4 DEF SettledInv
  <2>2. b \notin l[2]
    BY <1>1, <2>1
  <2>3. preBB \notin l[2]
    <3> SUFFICES ASSUME preBB \in l[2] PROVE FALSE
      OBVIOUS
    <3>1. loop \in l[2]
      BY <1>1, BlockBefore DEF Around
    <3>2. ~(Body \subseteq l[2])
      BY <1>1, <1>4 DEF Settled
    <3>3. l[2] \subseteq Body
      BY <1>1, <1>2, <3>1, <3>2, LoopInside
    <3>4. QED
      BY <1>1, <3>3, BlockBefore
  <2>4. \A x \in l[2] : code'[x] = code[x]
    <3>1. \A x \in Blocks \ {b, preBB} : code'[x] = code[x]
      BY <1>1, MoveOutCode
    <3>2. l[2] \subseteq Blocks
      BY <1>1, LoopTypes
    <3>3. QED
      BY <2>2, <2>3, <3>1, <3>2
  <2>5. Defined(l[2])' = Defined(l[2])
    BY <1>1, <2>4 DEF Defined, Defines
  <2>6. Clean(l)'
    BY <1>1, <2>1, <2>4, <2>5 DEF Clean
  <2>7. QED
    BY <1>1, <2>1, <2>6
<1>5. QED
  BY <1>1, <1>3, <1>4 DEF SettledInv

LEMMA MoveOutCodeInv ==
  ASSUME HoistInv, NEW b \in Blocks, NEW ins \in Instructions, MoveOut(b, ins)
  PROVE  CodeInv'
<1>1. /\ TypeInv /\ CodeInv /\ FoundInv /\ loop \in Bases /\ preBB \in PreOutLoop
      /\ UNCHANGED <<prog, loops>>
  BY DEF MoveOut, HoistInv, TypeInv
<1>2. /\ b \in Body /\ preBB \in Blocks \ Body /\ ins \in ToSet(code[b]) /\ EachOnce(code')
      /\ \A x \in Blocks :
           ToSet(code'[x]) = IF x = b THEN ToSet(code[x]) \ {ins}
                             ELSE IF x = preBB THEN ToSet(code[x]) \cup {ins} ELSE ToSet(code[x])
      /\ \A x \in Blocks \ {b, preBB} : code'[x] = code[x]
  BY <1>1, MoveOutCode
<1>3. UNION {ToSet(code'[x]) : x \in Blocks} = Used
  <2>1. UNION {ToSet(code[x]) : x \in Blocks} = Used
    BY <1>1 DEF CodeInv
  <2>2. ASSUME NEW v PROVE (\E x \in Blocks : v \in ToSet(code'[x])) <=> (\E x \in Blocks : v \in ToSet(code[x]))
    <3>1. CASE v = ins
      <4>1. v \in ToSet(code'[preBB]) /\ v \in ToSet(code[b])
        BY <1>2, <3>1
      <4>2. QED
        BY <1>2, <4>1
    <3>2. CASE v # ins
      BY <1>2, <3>2
    <3>3. QED
      BY <3>1, <3>2
  <2>3. QED
    BY <2>1, <2>2
<1>4. Used' = Used
  BY <1>1 DEF Used
<1>5. b \in Reachable(prog.succ) /\ preBB \in Reachable(prog.succ)
  <2>1. <<loop, Body>> \in loops
    BY <1>1, LoopOf DEF Body
  <2>2. QED
    BY <1>1, <1>2, <2>1, BlockBefore, LoopTypes
<1>6. QED
  BY <1>1, <1>2, <1>3, <1>4, <1>5 DEF CodeInv


(* Operands leave before their users if the addresses follow the code, and  *)
(* preBB dominates whatever used the instruction that moves.                *)
LEMMA MoveOutOrder ==
  ASSUME HoistInv, NEW b \in Blocks, NEW ins \in Instructions, MoveOut(b, ins)
  PROVE  OrderInv'
<1> DEFINE w == Taken(prog)
<1>1. /\ TypeInv /\ CodeInv /\ FoundInv /\ OrderInv /\ loop \in Bases /\ Working
      /\ UNCHANGED <<prog, loops, preBB>> /\ preBB \in PreOutLoop
      /\ <<b, ins>> \in invariant /\ \A x \in invariant : Before(<<b, ins>>, x)
  BY DEF MoveOut, HoistInv, TypeInv, Working
<1>2. (AllocatedInOrder' <=> AllocatedInOrder) /\ Uses' = Uses
  BY <1>1 DEF AllocatedInOrder, Uses, Used
<1> SUFFICES ASSUME AllocatedInOrder, NEW u \in Uses, ComesFirst(prog, code, u[1], u[2])
             PROVE  ComesFirst(prog, code', u[1], u[2])
  BY <1>1, <1>2 DEF OrderInv
<1>3. PICK op, use : op = u[1] /\ use = u[2]
  OBVIOUS
<1>4. op \in prog.ops[use] /\ use \in Used /\ prog.address[op] < prog.address[use]
  BY <1>3 DEF AllocatedInOrder, Uses
<1>5. PICK y \in Blocks : \E h \in 1..Len(code[y]) :
        /\ code[y][h] = use
        /\ \/ \E j \in 1..(h - 1) : code[y][j] = op
           \/ \E d \in Blocks : op \in ToSet(code[d]) /\ StrictlyDominates(w, d, y)
  BY <1>3 DEF ComesFirst
<1>6. PICK h \in 1..Len(code[y]) :
        /\ code[y][h] = use
        /\ \/ \E j \in 1..(h - 1) : code[y][j] = op
           \/ \E d \in Blocks : op \in ToSet(code[d]) /\ StrictlyDominates(w, d, y)
  BY <1>5
<1>7. /\ b \in Body /\ preBB \in Blocks \ Body /\ ins \in ToSet(code[b])
      /\ code \in [Blocks -> Seq(Instructions)] /\ code' \in [Blocks -> Seq(Instructions)]
      /\ \A x \in Blocks :
           ToSet(code'[x]) = IF x = b THEN ToSet(code[x]) \ {ins}
                             ELSE IF x = preBB THEN ToSet(code[x]) \cup {ins} ELSE ToSet(code[x])
  BY <1>1, MoveOutCode DEF TypeInv
<1>8. /\ Body \subseteq Blocks /\ prog.ops \in [Instructions -> SUBSET Instructions]
      /\ prog.address \in [Blocks \cup Instructions -> Nat]
      /\ \A o \in prog.ops[ins] : prog.kind[o] # "void"
  BY <1>1, ProgFacts, LoopOf DEF Body
<1>9. /\ w \in [Blocks -> SUBSET Blocks] /\ (\A x \in Blocks : w[x] \subseteq prog.succ[x])
      /\ Reachable(w) = Reachable(prog.succ)
  BY <1>1, ProgFacts
<1>10. \A x \in Body : StrictlyDominates(w, preBB, x)
  BY <1>1, <1>9, BlockBefore, DominatesOnWays DEF StrictlyDominates
(* Where the operand of what leaves is computed. *)
<1>11. ASSUME use = ins
       PROVE  /\ y = b
              /\ \E d \in Blocks : op \in ToSet(code[d]) /\ (d = b \/ StrictlyDominates(w, d, b))
  <2>1. use \in ToSet(code[y])
    BY <1>6, <1>7, ToSetElements
  <2>2. y = b
    BY <1>1, <1>7, <1>11, <2>1, OnePlace
  <2>3. CASE \E j \in 1..(h - 1) : code[y][j] = op
    <3>1. PICK j \in 1..(h - 1) : code[y][j] = op
      BY <2>3
    <3>2. j \in 1..Len(code[y])
      BY <1>6, <1>7
    <3>3. op \in ToSet(code[y])
      BY <1>7, <3>1, <3>2, ToSetElements
    <3>4. QED
      BY <2>2, <3>3
  <2>4. QED
    BY <1>6, <2>2, <2>3
(* An operand in the loop would be one that leaves as well, and earlier.    *)
<1>12. ASSUME use = ins, NEW d \in Body, op \in ToSet(code[d]), d = b \/ StrictlyDominates(w, d, b)
       PROVE  FALSE
  <2>1. op \in Defined(Body)
    BY <1>4, <1>8, <1>12 DEF Defined, Defines
  <2>2. op \notin needDefinedInLoop
    BY <1>1, <1>4, <1>12 DEF FoundInv
  <2>3. PICK x \in invariant : x[2] = op
    BY <1>1, <2>1, <2>2 DEF FoundInv
  <2>4. x[1] = d
    <3>1. x[1] \in Body /\ op \in ToSet(code[x[1]])
      BY <1>1, <2>3 DEF FoundInv
    <3>2. QED
      BY <1>1, <1>8, <1>12, <3>1, OnePlace
  <2>5. Before(<<b, ins>>, x)
    BY <1>1
  <2>6. \/ prog.address[b] < prog.address[d]
        \/ b = d /\ prog.address[ins] <= prog.address[op]
    BY <2>3, <2>4, <2>5 DEF Before
  <2>7. /\ prog.address[b] \in Nat /\ prog.address[d] \in Nat
        /\ prog.address[ins] \in Nat /\ prog.address[op] \in Nat
    <3>1. op \in Instructions /\ d \in Blocks
      BY <1>4, <1>8, <1>12
    <3>2. QED
      BY <1>8, <3>1
  <2>8. prog.address[op] < prog.address[ins]
    BY <1>4, <1>12
  <2>9. StrictlyDominates(w, d, b) => prog.address[d] < prog.address[b]
    BY <1>8, <1>12 DEF AllocatedInOrder
  <2>10. ~StrictlyDominates(w, b, b)
    BY DEF StrictlyDominates
  <2>11. QED
    BY <1>12, <2>6, <2>7, <2>8, <2>9, <2>10
<1>13. ASSUME use = ins
       PROVE  \/ op \in ToSet(code[preBB])
              \/ \E d \in Blocks : op \in ToSet(code'[d]) /\ StrictlyDominates(w, d, preBB)
  <2>1. PICK d \in Blocks : op \in ToSet(code[d]) /\ (d = b \/ StrictlyDominates(w, d, b))
    BY <1>11, <1>13
  <2>2. d \notin Body
    BY <1>12, <1>13, <2>1
  <2>3. Dominates(w, d, b) /\ d # b
    BY <1>7, <2>1, <2>2 DEF StrictlyDominates
  <2>4. StrictlyDominates(w, d, loop)
    <3>1. <<loop, Body>> \in NaturalLoops(prog.succ)
      BY <1>1, LoopOf DEF Body, TypeInv
    <3>2. loop \in Blocks /\ Body = NaturalLoop(prog.succ, loop)
      BY <3>1 DEF NaturalLoops, Headers
    <3>3. b \in Reachable(w)
      <4>1. code[b] # <<>>
        BY <1>6, <1>7, <1>11, <1>13
      <4>2. QED
        BY <1>1, <1>9, <4>1 DEF CodeInv
    <3>4. b \in NaturalLoop(prog.succ, loop) /\ d \notin NaturalLoop(prog.succ, loop)
      BY <1>7, <2>2, <3>2
    <3>5. QED
      BY <1>1, <1>9, <2>3, <3>2, <3>3, <3>4, ProgFacts, DominatorOnWays
  <2>5. Dominates(w, d, preBB)
    BY <1>1, <1>7, <2>4, BlockBefore, DominatesSource DEF StrictlyDominates
  <2>6. CASE d = preBB
    BY <2>1, <2>6
  <2>7. CASE d # preBB
    BY <1>7, <2>1, <2>3, <2>5, <2>7 DEF StrictlyDominates
  <2>8. QED
    BY <2>6, <2>7
(* Those that used it are where the loop, and so preBB, dominates them.     *)
<1>14. ASSUME NEW x \in Blocks, x = b \/ StrictlyDominates(w, b, x), x \in Reachable(w)
       PROVE  StrictlyDominates(w, preBB, x)
  <2>1. StrictlyDominates(w, preBB, b) /\ preBB \in Reachable(w)
    BY <1>1, <1>7, <1>9, <1>10, BlockBefore
  <2>2. CASE x = b
    BY <2>1, <2>2
  <2>3. CASE StrictlyDominates(w, b, x)
    <3>1. Dominates(w, preBB, x)
      BY <2>1, <2>3, DominatesTransitive DEF StrictlyDominates
    <3>2. preBB # x
      BY <1>9, <2>1, <2>3, DominatesAntisymmetric DEF StrictlyDominates
    <3>3. QED
      BY <3>1, <3>2 DEF StrictlyDominates
  <2>4. QED
    BY <1>14, <2>2, <2>3
<1>15. \A x \in Blocks : \A i \in 1..Len(code'[x]) :
         \/ /\ x = preBB /\ code'[x][i] = ins
            /\ \A o \in ToSet(code[x]) : \E j \in 1..(i - 1) : code'[x][j] = o
         \/ /\ code'[x][i] # ins
            /\ \E k \in 1..Len(code[x]) :
                 /\ code[x][k] = code'[x][i]
                 /\ \A j \in 1..(k - 1) :
                      code[x][j] = ins \/ \E m \in 1..(i - 1) : code'[x][m] = code[x][j]
  BY <1>1, MoveOutCode, ZenonT(60)
<1>16. CASE use = ins
  <2>1. PICK i \in 1..Len(code'[preBB]) : code'[preBB][i] = ins
    <3>1. ins \in ToSet(code'[preBB])
      BY <1>7
    <3>2. QED
      BY <1>7, <3>1, ToSetElements
  <2>2. \A o \in ToSet(code[preBB]) : \E j \in 1..(i - 1) : code'[preBB][j] = o
    BY <1>7, <1>15, <2>1
  <2>3. \/ \E j \in 1..(i - 1) : code'[preBB][j] = op
        \/ \E d \in Blocks : op \in ToSet(code'[d]) /\ StrictlyDominates(w, d, preBB)
    BY <1>13, <1>16, <2>2
  <2>4. QED
    BY <1>1, <1>3, <1>7, <1>16, <2>1, <2>3 DEF ComesFirst
<1>17. CASE use # ins
  <2>1. use \in ToSet(code[y])
    BY <1>6, <1>7, ToSetElements
  <2>2. use \in ToSet(code'[y])
    BY <1>7, <1>17, <2>1
  <2>3. PICK i \in 1..Len(code'[y]) : code'[y][i] = use
    BY <1>7, <2>2, ToSetElements
  <2>4. PICK k \in 1..Len(code[y]) :
          /\ code[y][k] = use
          /\ \A j \in 1..(k - 1) :
               code[y][j] = ins \/ \E m \in 1..(i - 1) : code'[y][m] = code[y][j]
    BY <1>15, <1>17, <2>3
  <2>5. k = h
    BY <1>1, <1>6, <2>4 DEF CodeInv, EachOnce
  <2>6. y \in Reachable(w)
    <3>1. code[y] # <<>>
      BY <1>6, <1>7
    <3>2. QED
      BY <1>1, <1>9, <3>1 DEF CodeInv
  <2>7. \/ \E j \in 1..(i - 1) : code'[y][j] = op
        \/ \E d \in Blocks : op \in ToSet(code'[d]) /\ StrictlyDominates(w, d, y)
    <3>1. CASE op = ins
      <4>1. y = b \/ StrictlyDominates(w, b, y)
        <5>1. CASE \E j \in 1..(h - 1) : code[y][j] = op
          <6>1. PICK j \in 1..(h - 1) : code[y][j] = ins
            BY <3>1, <5>1
          <6>2. j \in 1..Len(code[y])
            BY <1>6, <1>7
          <6>3. ins \in ToSet(code[y])
            BY <1>7, <6>1, <6>2, ToSetElements
          <6>4. QED
            BY <1>1, <1>7, <6>3, OnePlace
        <5>2. CASE \E d \in Blocks : op \in ToSet(code[d]) /\ StrictlyDominates(w, d, y)
          BY <1>1, <1>7, <3>1, <5>2, OnePlace
        <5>3. QED
          BY <1>6, <5>1, <5>2
      <4>2. StrictlyDominates(w, preBB, y)
        BY <1>14, <2>6, <4>1
      <4>3. op \in ToSet(code'[preBB])
        BY <1>7, <3>1
      <4>4. QED
        BY <1>7, <4>2, <4>3
    <3>2. CASE op # ins
      <4>1. CASE \E j \in 1..(h - 1) : code[y][j] = op
        BY <2>4, <2>5, <3>2, <4>1
      <4>2. CASE \E d \in Blocks : op \in ToSet(code[d]) /\ StrictlyDominates(w, d, y)
        BY <1>7, <3>2, <4>2
      <4>3. QED
        BY <1>6, <4>1, <4>2
    <3>3. QED
      BY <3>1, <3>2
  <2>8. QED
    BY <1>1, <1>3, <2>3, <2>7 DEF ComesFirst
<1>18. QED
  BY <1>16, <1>17

LEMMA MoveOutInv ==
  ASSUME HoistInv, NEW b \in Blocks, NEW ins \in Instructions, MoveOut(b, ins)
  PROVE  HoistInv'
<1>1. TypeInv'
  <2>1. /\ TypeInv /\ CodeInv /\ FoundInv
        /\ UNCHANGED <<prog, loops, pc, base_loops, loop, needDefinedInLoop, preBB>>
        /\ invariant' \subseteq invariant
    BY DEF MoveOut, HoistInv
  <2>2. code' \in [Blocks -> Seq(Instructions)]
    BY <2>1, MoveOutCode
  <2>3. Bases' = Bases /\ PreOutLoop' = PreOutLoop
    BY <2>1 DEF Bases, PreOutLoop, LoopBlocks
  <2>4. QED
    BY <2>1, <2>2, <2>3 DEF TypeInv
<1>2. QED
  BY <1>1, MoveOutFound, MoveOutSettled, MoveOutCodeInv, MoveOutOrder DEF HoistInv

LEMMA NextInv == ASSUME HoistInv, [Next]_vars PROVE HoistInv'
<1>1. ASSUME Finish \/ Finished \/ UNCHANGED vars PROVE HoistInv'
  <2>1. /\ UNCHANGED <<prog, loops, code, base_loops, loop, needDefinedInLoop, invariant, preBB>>
        /\ TypeInv /\ FoundInv /\ SettledInv
        /\ \/ pc' = pc
           \/ pc = "next" /\ base_loops = {} /\ pc' = "done"
    BY <1>1 DEF Finish, Finished, vars, HoistInv
  <2>2. Body' = Body /\ Defined(Body)' = Defined(Body) /\ PreOutLoop' = PreOutLoop
        /\ \A ins : IsInvariant(ins)' <=> IsInvariant(ins)
    BY <2>1, QuietCode DEF Body, Defined, Defines, PreOutLoop, IsInvariant, LoopBlocks
  <2>3. TypeInv'
    BY <2>1, <2>2, QuietCode DEF TypeInv
  <2>4. FoundInv'
    BY <2>1, <2>2 DEF FoundInv, Working
  <2>5. \A l \in loops : Settled(l)' => Settled(l)
    BY <2>1, <2>2 DEF Settled, Working
  <2>6. SettledInv'
    BY <2>1, <2>5, QuietCode DEF SettledInv, Working
  <2>7. QED
    BY <2>1, <2>3, <2>4, <2>6, QuietCode DEF HoistInv
<1>2. QED
  BY <1>1, CollectInv, PickInv, FindInv, MoveOutInv, EndFindInv, EndMoveInv, ClimbInv DEF Next

(****************************************************************************)
(* The theorems                                                             *)
(****************************************************************************)
(* The invariant of the pass, for every set of functions in SSA form whose  *)
(* loops are entered from one block.                                        *)
THEOREM HoistingIsInvariant == Spec => []HoistInv
<1>1. QED
  BY InitInv, NextInv, PTL DEF Spec

(* However many loops an instruction has left, and in whichever order the   *)
(* loops were taken, its operands are computed before it, if the addresses  *)
(* in the set follow the code (LoopInvHoist.cpp, moveInvariantsOut).        *)
THEOREM OperandsStayFirst == Spec => []OperandsComeFirst
<1>1. HoistInv => OperandsComeFirst
  BY DEF HoistInv, OrderInv, OperandsComeFirst
<1>2. QED
  BY <1>1, HoistingIsInvariant, PTL

(* When the climbs from the innermost loops are over, no loop holds an      *)
(* instruction that does not change in it (LoopInvHoist.cpp, run and        *)
(* findInvariants), although instructions arrive in a loop from the loops   *)
(* inside of it after it was looked at.                                     *)
THEOREM NoInvariantIsLeft == Spec => []NothingInvariantLeft
<1>1. HoistInv => NothingInvariantLeft
  <2> SUFFICES ASSUME HoistInv, pc = "done", NEW l \in loops PROVE Clean(l)
    BY DEF NothingInvariantLeft, Clean
  <2>1. Settled(l)
    BY DEF HoistInv, TypeInv, Settled, Working
  <2>2. QED
    BY <2>1 DEF HoistInv, SettledInv
<1>2. QED
  BY <1>1, HoistingIsInvariant, PTL

(* No step loses an instruction or repeats one, and each one that moves     *)
(* moves to a block that dominates its old one and is in fewer loops        *)
(* (LoopInvHoist.cpp, moveInvariantsOut).                                   *)
THEOREM InstructionsOnlyMoveOut == Spec => OnlyMovesOut
<1> DEFINE Moved(ins) ==
             /\ Cardinality(Places(code', ins)) = 1
             /\ Place(code', ins) # Place(code, ins) =>
                  /\ StrictlyDominates(prog.succ, Place(code', ins), Place(code, ins))
                  /\ Around(loops, Place(code', ins)) \subseteq Around(loops, Place(code, ins))
                  /\ Around(loops, Place(code', ins)) # Around(loops, Place(code, ins))
<1>1. ASSUME HoistInv, HoistInv', [Next]_vars, NEW ins \in Used PROVE Moved(ins)
  <2>1. Used' = Used /\ UNCHANGED <<prog, loops>>
    BY <1>1 DEF Next, CollectInnermost, PickInnermost, StartLoop, FindInvariant, MoveOut, EndFind,
       EndMove, Climb, Finish, Finished, vars, Used
  <2>2. PICK x \in Blocks : ins \in ToSet(code[x])
    BY <1>1 DEF HoistInv, CodeInv
  <2>3. PICK y \in Blocks : ins \in ToSet(code'[y])
    BY <1>1, <2>1 DEF HoistInv, CodeInv
  <2>4. \A z \in Blocks : ins \in ToSet(code[z]) => z = x
    BY <1>1, <2>2, OnePlace DEF HoistInv
  <2>5. \A z \in Blocks : ins \in ToSet(code'[z]) => z = y
    <3>1. EachOnce(code') /\ code' \in [Blocks -> Seq(Instructions)]
      BY <1>1 DEF HoistInv, TypeInv, CodeInv
    <3>2. ASSUME NEW z \in Blocks, ins \in ToSet(code'[z]) PROVE z = y
      <4>1. code'[z] \in Seq(Instructions) /\ code'[y] \in Seq(Instructions)
        BY <3>1
      <4>2. PICK i \in 1..Len(code'[z]), j \in 1..Len(code'[y]) : code'[z][i] = ins /\ code'[y][j] = ins
        BY <2>3, <3>2, <4>1, ToSetElements
      <4>3. QED
        BY <3>1, <4>2 DEF EachOnce
    <3>3. QED
      BY <3>2
  <2>6. Places(code, ins) = {x} /\ Places(code', ins) = {y}
    BY <2>2, <2>3, <2>4, <2>5 DEF Places
  <2>7. Place(code, ins) = x /\ Place(code', ins) = y
    BY <2>6 DEF Place
  <2>8. Cardinality(Places(code', ins)) = 1
    BY <2>6, FS_Singleton
  <2>9. ASSUME x # y
        PROVE  /\ StrictlyDominates(prog.succ, y, x)
               /\ Around(loops, y) \subseteq Around(loops, x) /\ Around(loops, y) # Around(loops, x)
    <3>1. PICK b \in Blocks, i \in Instructions : MoveOut(b, i)
      <4>1. code' # code
        BY <2>2, <2>3, <2>5, <2>9
      <4>2. QED
        BY <1>1, <4>1 DEF Next, CollectInnermost, PickInnermost, StartLoop, FindInvariant, EndFind,
           EndMove, Climb, Finish, Finished, vars
    <3>2. /\ TypeInv /\ CodeInv /\ FoundInv /\ loop \in Bases /\ preBB \in PreOutLoop
      BY <1>1, <3>1 DEF HoistInv, TypeInv, MoveOut
    <3>3. /\ b \in Body /\ preBB \in Blocks \ Body
          /\ \A z \in Blocks :
               ToSet(code'[z]) = IF z = b THEN ToSet(code[z]) \ {i}
                                 ELSE IF z = preBB THEN ToSet(code[z]) \cup {i} ELSE ToSet(code[z])
      BY <3>1, <3>2, MoveOutCode
    <3>4. x = b /\ y = preBB
      <4>1. ins \notin ToSet(code'[x]) /\ ins \notin ToSet(code[y])
        BY <2>4, <2>5, <2>9
      <4>2. x = b /\ ins = i
        BY <2>2, <3>3, <4>1
      <4>3. i \in ToSet(code'[preBB])
        BY <3>3
      <4>4. QED
        BY <2>5, <3>3, <4>2, <4>3
    <3>5. StrictlyDominates(prog.succ, y, x)
      BY <3>2, <3>3, <3>4, BlockBefore
    <3>6. <<loop, Body>> \in loops /\ loop \in Body
      BY <3>2, LoopOf DEF Body
    <3>7. ASSUME NEW l \in Around(loops, y) PROVE l \in Around(loops, x)
      <4>1. l \in loops /\ y \in l[2] /\ loop \in l[2]
        BY <3>2, <3>4, <3>7, BlockBefore DEF Around
      <4>2. ~(l[2] \subseteq Body)
        BY <3>3, <3>4, <4>1
      <4>3. Body \subseteq l[2]
        BY <3>2, <3>6, <4>1, <4>2, LoopInside
      <4>4. QED
        BY <3>3, <3>4, <4>1, <4>3 DEF Around
    <3>8. <<loop, Body>> \in Around(loops, x) /\ <<loop, Body>> \notin Around(loops, y)
      BY <3>3, <3>4, <3>6 DEF Around
    <3>9. QED
      BY <3>5, <3>7, <3>8
  <2>10. QED
    BY <2>7, <2>8, <2>9
<1>2. ASSUME HoistInv, HoistInv', [Next]_vars
      PROVE  [\A ins \in Used :
               LET from == Place(code, ins)
                   to == Place(code', ins)
               IN  /\ Cardinality(Places(code', ins)) = 1
                   /\ to # from => /\ StrictlyDominates(prog.succ, to, from)
                                   /\ Around(loops, to) \subseteq Around(loops, from)
                                   /\ Around(loops, to) # Around(loops, from)]_vars
  BY <1>1, <1>2
<1>3. QED
  BY <1>2, HoistingIsInvariant, PTL DEF Spec, OnlyMovesOut

================================================================================

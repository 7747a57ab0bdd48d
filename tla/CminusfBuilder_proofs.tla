------------------------- MODULE CminusfBuilder_proofs -------------------------
(****************************************************************************)
(* For every syntax tree: return_flag tells whether the code built so far   *)
(* can go on, the blocks form a graph the passes can work on, and they do   *)
(* what the source says.                                                    *)
(****************************************************************************)
EXTENDS CminusfBuilder, SequenceTheorems, FiniteSetTheorems, WellFoundedInduction, TLAPS

(****************************************************************************)
(* Sequences                                                                *)
(****************************************************************************)
LEMMA SeqIsSeq == ASSUME NEW S, NEW s \in Seq(S) PROVE IsSeq(s)
<1> DEFINE R == {s[i] : i \in DOMAIN s}
<1>1. Len(s) \in Nat /\ DOMAIN s = 1..Len(s) /\ s \in [1..Len(s) -> S]
  BY LenProperties
<1>2. s \in [1..Len(s) -> R]
  BY <1>1
<1>3. s \in Seq(R)
  <2> HIDE DEF R
  <2>1. QED
    BY <1>1, <1>2, SeqDef
<1>4. QED
  BY <1>3 DEF IsSeq

LEMMA SeqFacts ==
  ASSUME NEW s, IsSeq(s)
  PROVE  Len(s) \in Nat /\ DOMAIN s = 1..Len(s) /\ (s = <<>> <=> Len(s) = 0)
<1> DEFINE R == {s[i] : i \in DOMAIN s}
<1>1. s \in Seq(R)
  BY DEF IsSeq
<1> HIDE DEF R
<1>2. QED
  BY <1>1, LenProperties, EmptySeq

LEMMA AppendFacts ==
  ASSUME NEW s, IsSeq(s), NEW e
  PROVE  /\ IsSeq(Append(s, e)) /\ Len(Append(s, e)) = Len(s) + 1
         /\ \A i \in 1..Len(s) : Append(s, e)[i] = s[i]
         /\ Append(s, e)[Len(s) + 1] = e
         /\ Append(s, e) # <<>> /\ Last(Append(s, e)) = e
<1> DEFINE R == {s[i] : i \in DOMAIN s} \cup {e}
<1>1. s \in Seq(R)
  BY SeqMonotonic DEF IsSeq
<1> HIDE DEF R
<1>2. e \in R
  BY DEF R
<1>3. Append(s, e) \in Seq(R)
  BY <1>1, <1>2, AppendProperties
<1>4. /\ Append(s, e) # <<>> /\ Len(Append(s, e)) = Len(s) + 1
      /\ \A i \in 1..Len(s) : Append(s, e)[i] = s[i]
      /\ Append(s, e)[Len(s) + 1] = e
  BY <1>1, <1>2, AppendProperties
<1>5. IsSeq(Append(s, e))
  BY <1>3, SeqIsSeq
<1>6. Last(Append(s, e)) = e
  BY <1>4 DEF Last
<1>7. QED
  BY <1>4, <1>5, <1>6

LEMMA ConcatFacts ==
  ASSUME NEW s, IsSeq(s), NEW t, IsSeq(t)
  PROVE  /\ IsSeq(s \o t) /\ Len(s \o t) = Len(s) + Len(t)
         /\ \A i \in 1..Len(s) : (s \o t)[i] = s[i]
         /\ \A i \in 1..Len(t) : (s \o t)[Len(s) + i] = t[i]
<1> DEFINE R == {s[i] : i \in DOMAIN s} \cup {t[i] : i \in DOMAIN t}
<1>1. s \in Seq(R) /\ t \in Seq(R)
  BY SeqMonotonic DEF IsSeq
<1> HIDE DEF R
<1>2. s \o t \in Seq(R) /\ Len(s) \in Nat /\ Len(t) \in Nat
  BY <1>1, ConcatProperties, LenProperties
<1>3. /\ Len(s \o t) = Len(s) + Len(t)
      /\ \A i \in 1..(Len(s) + Len(t)) :
           (s \o t)[i] = IF i <= Len(s) THEN s[i] ELSE t[i - Len(s)]
  BY <1>1, ConcatProperties
<1>4. IsSeq(s \o t)
  BY <1>2, SeqIsSeq
<1>5. \A i \in 1..Len(s) : i \in 1..(Len(s) + Len(t)) /\ i <= Len(s)
  BY <1>2
<1>6. \A i \in 1..Len(t) : /\ Len(s) + i \in 1..(Len(s) + Len(t)) /\ ~(Len(s) + i <= Len(s))
                           /\ (Len(s) + i) - Len(s) = i
  BY <1>2
<1>7. /\ \A i \in 1..Len(s) : (s \o t)[i] = s[i]
      /\ \A i \in 1..Len(t) : (s \o t)[Len(s) + i] = t[i]
  BY <1>3, <1>5, <1>6
<1>8. QED
  BY <1>3, <1>4, <1>7

LEMMA TailFacts ==
  ASSUME NEW s, IsSeq(s), s # <<>>
  PROVE  /\ IsSeq(Tail(s)) /\ Len(Tail(s)) = Len(s) - 1
         /\ Head(s) = s[1] /\ 1 \in DOMAIN s
         /\ \A i \in 1..(Len(s) - 1) : Tail(s)[i] = s[i + 1]
<1> DEFINE R == {s[i] : i \in DOMAIN s}
<1>1. s \in Seq(R)
  BY DEF IsSeq
<1> HIDE DEF R
<1>2. Tail(s) \in Seq(R) /\ Len(Tail(s)) = Len(s) - 1
  BY <1>1, HeadTailProperties
<1>3. Len(s) \in Nat \ {0} /\ DOMAIN s = 1..Len(s)
  BY <1>1, EmptySeq, LenProperties
<1>4. IsSeq(Tail(s))
  BY <1>2, SeqIsSeq
<1>5. \A i \in 1..(Len(s) - 1) : Tail(s)[i] = s[i + 1]
  BY <1>1, <1>2
<1>6. Head(s) = s[1]
  BY <1>1
<1>7. QED
  BY <1>2, <1>3, <1>4, <1>5, <1>6

LEMMA FrontFacts ==
  ASSUME NEW s, IsSeq(s), s # <<>>
  PROVE  IsSeq(Front(s)) /\ Len(Front(s)) = Len(s) - 1
<1> DEFINE R == {s[i] : i \in DOMAIN s}
<1>1. s \in Seq(R)
  BY DEF IsSeq
<1>2. Len(s) \in Nat \ {0} /\ \A i \in 1..(Len(s) - 1) : s[i] \in R
  BY <1>1, SeqFacts
<1> HIDE DEF R
<1>3. Front(s) = SubSeq(s, 1, Len(s) - 1)
  BY DEF Front
<1>4. Front(s) \in Seq(R) /\ Len(Front(s)) = Len(s) - 1
  <2> DEFINE n == Len(s) - 1
  <2>1. n \in Nat /\ Front(s) = SubSeq(s, 1, n) /\ \A i \in 1..n : s[i] \in R
    BY <1>2, <1>3
  <2> HIDE DEF n
  <2>2. 1 \in Int /\ n \in Int
    BY <2>1
  <2>3. SubSeq(s, 1, n) \in Seq(R) /\ Len(SubSeq(s, 1, n)) = IF 1 <= n THEN n - 1 + 1 ELSE 0
    BY <2>1, <2>2, SubSeqProperties
  <2>4. (IF 1 <= n THEN n - 1 + 1 ELSE 0) = n
    BY <2>1
  <2>5. Front(s) \in Seq(R) /\ Len(Front(s)) = n
    BY <2>1, <2>3, <2>4
  <2>6. QED
    BY <2>5 DEF n
<1>5. QED
  BY <1>4, SeqIsSeq

LEMMA SingleFacts ==
  ASSUME NEW e PROVE IsSeq(<<e>>) /\ Len(<<e>>) = 1 /\ <<e>>[1] = e
<1>1. <<e>> \in Seq({e})
  OBVIOUS
<1>2. QED
  BY <1>1, SeqIsSeq

LEMMA PairFacts ==
  ASSUME NEW d, NEW e
  PROVE  IsSeq(<<d, e>>) /\ Len(<<d, e>>) = 2 /\ <<d, e>>[1] = d /\ <<d, e>>[2] = e
<1>1. <<d, e>> \in Seq({d, e})
  OBVIOUS
<1>2. QED
  BY <1>1, SeqIsSeq

(****************************************************************************)
(* Emitting instructions and creating blocks                                *)
(****************************************************************************)
LEMMA EmitFacts ==
  ASSUME NEW c, IsGraph(c), NEW b \in DOMAIN c, NEW i
  PROVE  LET d == Emit(c, b, i)
         IN  /\ IsSeq(d) /\ DOMAIN d = DOMAIN c /\ Len(d) = Len(c)
             /\ \A a \in DOMAIN c : a # b => d[a] = c[a]
             /\ IsSeq(d[b]) /\ Len(d[b]) = Len(c[b]) + 1 /\ DOMAIN d[b] = 1..(Len(c[b]) + 1)
             /\ Len(c[b]) \in Nat /\ DOMAIN c[b] = 1..Len(c[b])
             /\ \A k \in 1..Len(c[b]) : d[b][k] = c[b][k]
             /\ d[b][Len(c[b]) + 1] = i
             /\ d[b] # <<>> /\ Last(d[b]) = i
<1> DEFINE d == Emit(c, b, i)
           R == {c[a] : a \in DOMAIN c} \cup {Append(c[b], i)}
<1>1. IsSeq(c) /\ IsSeq(c[b])
  BY DEF IsGraph
<1>2. d = [c EXCEPT ![b] = Append(c[b], i)]
  BY DEF Emit
<1>3. c \in Seq(R) /\ Append(c[b], i) \in R
  BY <1>1, SeqMonotonic DEF IsSeq
<1>4. b \in 1..Len(c) /\ DOMAIN c = 1..Len(c)
  BY <1>1, SeqFacts
<1>5. d \in Seq(R) /\ Len(d) = Len(c) /\ \A a \in 1..Len(c) : d[a] = IF a = b THEN Append(c[b], i) ELSE c[a]
  <2> HIDE DEF R, d
  <2>1. QED
    BY <1>2, <1>3, <1>4, ExceptSeq
<1>6. IsSeq(d) /\ DOMAIN d = 1..Len(d)
  <2> HIDE DEF R, d
  <2>1. QED
    BY <1>5, SeqIsSeq, LenProperties
<1>7. d[b] = Append(c[b], i) /\ \A a \in DOMAIN c : a # b => d[a] = c[a]
  BY <1>4, <1>5
<1>8. /\ IsSeq(d[b]) /\ Len(d[b]) = Len(c[b]) + 1 /\ DOMAIN d[b] = 1..(Len(c[b]) + 1)
      /\ Len(c[b]) \in Nat /\ DOMAIN c[b] = 1..Len(c[b])
      /\ \A k \in 1..Len(c[b]) : d[b][k] = c[b][k]
      /\ d[b][Len(c[b]) + 1] = i
      /\ d[b] # <<>> /\ Last(d[b]) = i
  <2> HIDE DEF d
  <2>1. QED
    BY <1>1, <1>7, AppendFacts, SeqFacts
<1>9. QED
  BY <1>4, <1>5, <1>6, <1>7, <1>8

(* The last instruction of a block decides whether it is open. *)
LEMMA OpenFacts ==
  ASSUME NEW c, IsGraph(c), NEW b \in OpenBlocks(c)
  PROVE  \A i \in DOMAIN c[b] : ~IsTerminator(c[b][i])
<1>1. /\ b \in DOMAIN c /\ (c[b] = <<>> \/ ~IsTerminator(c[b][Len(c[b])]))
      /\ IsSeq(c[b]) /\ \A i \in 1..(Len(c[b]) - 1) : ~IsTerminator(c[b][i])
  BY DEF OpenBlocks, Last, IsGraph
<1>2. /\ Len(c[b]) \in Nat /\ DOMAIN c[b] = 1..Len(c[b]) /\ (c[b] = <<>> <=> Len(c[b]) = 0)
  BY <1>1, SeqFacts
<1>3. QED
  BY <1>1, <1>2

(* An instruction goes to the end of an open block. *)
LEMMA EmitGraph ==
  ASSUME NEW c, IsGraph(c), NEW b \in OpenBlocks(c), NEW i, Targets(i) \subseteq 2..Len(c)
  PROVE  LET d == Emit(c, b, i)
         IN  /\ IsGraph(d) /\ DOMAIN d = DOMAIN c /\ Len(d) = Len(c)
             /\ OpenBlocks(d) = IF IsTerminator(i) THEN OpenBlocks(c) \ {b} ELSE OpenBlocks(c)
             /\ Reached(c) \subseteq Reached(d)
             /\ b \in Reached(d) => Targets(i) \subseteq Reached(d)
<1> DEFINE d == Emit(c, b, i)
<1>1. b \in DOMAIN c /\ IsSeq(c) /\ DOMAIN c = 1..Len(c) /\ Len(c) \in Nat
  BY SeqFacts DEF OpenBlocks, IsGraph
<1>2. /\ IsSeq(d) /\ DOMAIN d = DOMAIN c /\ Len(d) = Len(c)
      /\ \A a \in DOMAIN c : a # b => d[a] = c[a]
      /\ IsSeq(d[b]) /\ Len(d[b]) = Len(c[b]) + 1 /\ DOMAIN d[b] = 1..(Len(c[b]) + 1)
      /\ Len(c[b]) \in Nat /\ DOMAIN c[b] = 1..Len(c[b])
      /\ \A k \in 1..Len(c[b]) : d[b][k] = c[b][k]
      /\ d[b][Len(c[b]) + 1] = i
      /\ d[b] # <<>> /\ Last(d[b]) = i
  BY <1>1, EmitFacts
<1> HIDE DEF d
<1>3. \A k \in 1..Len(c[b]) : ~IsTerminator(c[b][k])
  BY <1>2, OpenFacts
<1>4. ASSUME NEW a \in DOMAIN c, NEW k \in DOMAIN d[a] PROVE Targets(d[a][k]) \subseteq 2..Len(d)
  <2>1. CASE a # b
    BY <1>2, <2>1 DEF IsGraph
  <2>2. CASE a = b /\ k = Len(c[b]) + 1
    BY <1>2, <2>2
  <2>3. CASE a = b /\ k # Len(c[b]) + 1
    <3>1. k \in DOMAIN c[b] /\ d[a][k] = c[b][k]
      BY <1>2, <2>3
    <3>2. QED
      BY <1>1, <1>2, <3>1 DEF IsGraph
  <2>4. QED
    BY <2>1, <2>2, <2>3
<1>5. ASSUME NEW a \in DOMAIN c, NEW k \in 1..(Len(d[a]) - 1) PROVE ~IsTerminator(d[a][k])
  <2>1. CASE a # b
    BY <1>2, <2>1 DEF IsGraph
  <2>2. CASE a = b
    <3>1. k \in 1..Len(c[b])
      BY <1>2, <2>2
    <3>2. QED
      BY <1>2, <1>3, <2>2, <3>1
  <2>3. QED
    BY <2>1, <2>2
<1>6. IsGraph(d)
  <2>1. \A a \in DOMAIN d : IsSeq(d[a])
    BY <1>2 DEF IsGraph
  <2>2. QED
    BY <1>2, <1>4, <1>5, <2>1 DEF IsGraph
<1>7. OpenBlocks(d) = IF IsTerminator(i) THEN OpenBlocks(c) \ {b} ELSE OpenBlocks(c)
  BY <1>1, <1>2 DEF OpenBlocks
<1>8. ASSUME NEW S \in SUBSET DOMAIN d,
             \A a \in S : \A k \in DOMAIN d[a] : Targets(d[a][k]) \subseteq S
      PROVE  /\ \A a \in S : \A k \in DOMAIN c[a] : Targets(c[a][k]) \subseteq S
             /\ b \in S => Targets(i) \subseteq S
  <2>1. ASSUME NEW a \in S, NEW k \in DOMAIN c[a] PROVE Targets(c[a][k]) \subseteq S
    <3>1. k \in DOMAIN d[a] /\ d[a][k] = c[a][k]
      BY <1>2
    <3>2. QED
      BY <1>8, <3>1
  <2>2. ASSUME b \in S PROVE Targets(i) \subseteq S
    <3>1. Len(c[b]) + 1 \in DOMAIN d[b]
      BY <1>2
    <3>2. QED
      BY <1>2, <1>8, <2>2, <3>1
  <2>3. QED
    BY <2>1, <2>2
<1>9. Reached(c) \subseteq Reached(d)
  BY <1>2, <1>8 DEF Reached
<1>10. ASSUME b \in Reached(d), NEW t \in Targets(i) PROVE t \in Reached(d)
  <2>1. t \in DOMAIN d
    BY <1>1, <1>2
  <2>2. ASSUME NEW S \in SUBSET DOMAIN d, 1 \in S,
               \A a \in S : \A k \in DOMAIN d[a] : Targets(d[a][k]) \subseteq S
        PROVE  t \in S
    <3>1. b \in S
      BY <1>10, <2>2 DEF Reached
    <3>2. QED
      BY <1>8, <2>2, <3>1
  <2>3. QED
    BY <2>1, <2>2 DEF Reached
<1>11. QED
  BY <1>2, <1>6, <1>7, <1>9, <1>10 DEF d

LEMMA NewBlocksGraph ==
  ASSUME NEW c, IsGraph(c), NEW n \in Nat
  PROVE  LET d == NewBlocks(c, n)
         IN  /\ IsGraph(d) /\ Len(d) = Len(c) + n /\ DOMAIN d = 1..(Len(c) + n)
             /\ Len(c) \in Nat /\ DOMAIN c = 1..Len(c)
             /\ OpenBlocks(d) = OpenBlocks(c) \cup ((Len(c) + 1)..(Len(c) + n))
             /\ Reached(c) \subseteq Reached(d)
<1> DEFINE e == [i \in 1..n |-> <<>>]
           d == NewBlocks(c, n)
<1>1. e \in Seq({<<>>}) /\ Len(e) = n
  OBVIOUS
<1>2. IsSeq(e) /\ IsSeq(c) /\ Len(c) \in Nat /\ DOMAIN c = 1..Len(c)
  BY <1>1, SeqIsSeq, SeqFacts DEF IsGraph
<1>3. \A i \in 1..n : e[i] = <<>>
  OBVIOUS
<1>4. d = c \o e
  BY DEF NewBlocks
<1> HIDE DEF d, e
<1>5. /\ IsSeq(d) /\ Len(d) = Len(c) + n /\ DOMAIN d = 1..(Len(c) + n)
      /\ \A a \in 1..Len(c) : d[a] = c[a]
      /\ \A a \in 1..n : d[Len(c) + a] = <<>>
  <2>1. /\ IsSeq(d) /\ Len(d) = Len(c) + n
        /\ \A a \in 1..Len(c) : d[a] = c[a]
        /\ \A a \in 1..n : d[Len(c) + a] = e[a]
    <3>1. /\ IsSeq(c \o e) /\ Len(c \o e) = Len(c) + Len(e)
          /\ \A a \in 1..Len(c) : (c \o e)[a] = c[a]
          /\ \A a \in 1..Len(e) : (c \o e)[Len(c) + a] = e[a]
      <4> IsSeq(c) /\ IsSeq(e)
        BY <1>2
      <4>1. QED
        BY ConcatFacts
    <3>2. Len(e) = n
      BY <1>1
    <3>3. QED
      BY <1>4, <3>1, <3>2
  <2>2. DOMAIN d = 1..Len(d)
    BY <2>1, SeqFacts
  <2>3. QED
    BY <1>3, <2>1, <2>2
<1>6. \A a \in (Len(c) + 1)..(Len(c) + n) : d[a] = <<>>
  <2> TAKE a \in (Len(c) + 1)..(Len(c) + n)
  <2>1. a - Len(c) \in 1..n /\ a = Len(c) + (a - Len(c))
    BY <1>2
  <2>2. QED
    BY <1>5, <2>1
<1>7. \A a \in DOMAIN d : a \in DOMAIN c \/ a \in (Len(c) + 1)..(Len(c) + n)
  BY <1>2, <1>5
<1>8. Len(<<>>) = 0 /\ DOMAIN <<>> = {} /\ IsSeq(<<>>)
  <2>1. <<>> \in Seq({})
    OBVIOUS
  <2>2. IsSeq(<<>>)
    BY <2>1, SeqIsSeq
  <2>3. QED
    BY <2>2, SeqFacts
<1>9. IsGraph(d)
  <2>1. \A a \in DOMAIN d : IsSeq(d[a])
    BY <1>2, <1>5, <1>6, <1>7, <1>8 DEF IsGraph
  <2>2. \A a \in DOMAIN d : \A i \in 1..(Len(d[a]) - 1) : ~IsTerminator(d[a][i])
    BY <1>2, <1>5, <1>6, <1>7, <1>8 DEF IsGraph
  <2>3. \A a \in DOMAIN d : \A i \in DOMAIN d[a] : Targets(d[a][i]) \subseteq 2..Len(d)
    <3> SUFFICES ASSUME NEW a \in DOMAIN d, NEW i \in DOMAIN d[a]
                 PROVE  Targets(d[a][i]) \subseteq 2..Len(d)
      OBVIOUS
    <3>1. a \in DOMAIN c /\ d[a] = c[a]
      BY <1>2, <1>5, <1>6, <1>7, <1>8
    <3>2. Targets(c[a][i]) \subseteq 2..Len(c)
      BY <3>1 DEF IsGraph
    <3>3. QED
      BY <1>2, <1>5, <3>1, <3>2
  <2>4. QED
    BY <1>5, <2>1, <2>2, <2>3 DEF IsGraph
<1>10. OpenBlocks(d) = OpenBlocks(c) \cup ((Len(c) + 1)..(Len(c) + n))
  <2>1. \A a \in DOMAIN c : a \in DOMAIN d /\ d[a] = c[a]
    BY <1>2, <1>5
  <2>2. \A a \in (Len(c) + 1)..(Len(c) + n) : a \in DOMAIN d
    BY <1>2, <1>5
  <2>3. QED
    BY <1>6, <1>7, <2>1, <2>2 DEF OpenBlocks
<1>11. ASSUME NEW b \in Reached(c) PROVE b \in Reached(d)
  <2>1. b \in DOMAIN d
    BY <1>2, <1>5 DEF Reached
  <2>2. ASSUME NEW S \in SUBSET DOMAIN d, 1 \in S,
               \A a \in S : \A k \in DOMAIN d[a] : Targets(d[a][k]) \subseteq S
        PROVE  b \in S
    <3> DEFINE T == S \cap DOMAIN c
    <3>1. 1 \in DOMAIN c
      BY <1>2 DEF Reached
    <3>2. ASSUME NEW a \in T, NEW k \in DOMAIN c[a] PROVE Targets(c[a][k]) \subseteq T
      <4>1. d[a] = c[a]
        BY <1>2, <1>5
      <4>2. Targets(c[a][k]) \subseteq S
        BY <2>2, <4>1
      <4>3. Targets(c[a][k]) \subseteq 2..Len(c)
        BY DEF IsGraph
      <4>4. QED
        BY <1>2, <4>2, <4>3
    <3>3. b \in T
      BY <2>2, <3>1, <3>2 DEF Reached
    <3>4. QED
      BY <3>3
  <2>3. QED
    BY <2>1, <2>2 DEF Reached
<1>12. QED
  BY <1>2, <1>5, <1>9, <1>10, <1>11 DEF d

(* What an instruction branches to, and which ones end a block *)
LEMMA InstrFacts ==
  /\ \A p, d : Targets(Use(p, d)) = {} /\ ~IsTerminator(Use(p, d))
  /\ \A p : Targets(Except(p)) = {} /\ ~IsTerminator(Except(p))
  /\ \A p, y, n : Targets(CondBr(p, y, n)) = {y, n} /\ IsTerminator(CondBr(p, y, n))
  /\ \A t : Targets(Br(t)) = {t} /\ IsTerminator(Br(t))
  /\ Targets(Ret) = {} /\ IsTerminator(Ret)
BY DEF Targets, IsTerminator, Use, Except, CondBr, Br, Ret

(* A block that is open and reached is left for blocks just created, all of *)
(* which the branch leads to.                                               *)
LEMMA BranchGraph ==
  ASSUME NEW c, IsGraph(c), NEW b \in OpenBlocks(c), b \in Reached(c), NEW n \in Nat,
         NEW i, IsTerminator(i), Targets(i) = (Len(c) + 1)..(Len(c) + n)
  PROVE  LET d == Emit(NewBlocks(c, n), b, i)
         IN  /\ IsGraph(d) /\ Len(d) = Len(c) + n /\ DOMAIN d = 1..(Len(c) + n)
             /\ OpenBlocks(d) = (OpenBlocks(c) \ {b}) \cup ((Len(c) + 1)..(Len(c) + n))
             /\ Reached(c) \cup ((Len(c) + 1)..(Len(c) + n)) \subseteq Reached(d)
<1> DEFINE g == NewBlocks(c, n)
           d == Emit(g, b, i)
<1>1. /\ IsGraph(g) /\ Len(g) = Len(c) + n /\ DOMAIN g = 1..(Len(c) + n)
      /\ Len(c) \in Nat /\ DOMAIN c = 1..Len(c)
      /\ OpenBlocks(g) = OpenBlocks(c) \cup ((Len(c) + 1)..(Len(c) + n))
      /\ Reached(c) \subseteq Reached(g)
  BY NewBlocksGraph
<1> HIDE DEF g
<1>2. b \in OpenBlocks(g) /\ b \in 1..Len(c)
  BY <1>1 DEF OpenBlocks
<1>3. Targets(i) \subseteq 2..Len(g)
  BY <1>1, <1>2
<1>4. /\ IsGraph(d) /\ DOMAIN d = DOMAIN g /\ Len(d) = Len(g)
      /\ OpenBlocks(d) = IF IsTerminator(i) THEN OpenBlocks(g) \ {b} ELSE OpenBlocks(g)
      /\ Reached(g) \subseteq Reached(d)
      /\ b \in Reached(d) => Targets(i) \subseteq Reached(d)
  BY <1>1, <1>2, <1>3, EmitGraph
<1> HIDE DEF d
<1>5. OpenBlocks(d) = (OpenBlocks(c) \ {b}) \cup ((Len(c) + 1)..(Len(c) + n))
  BY <1>1, <1>2, <1>4
<1>6. QED
  BY <1>1, <1>4, <1>5 DEF d, g

(* An expression leaves one open block for another: itself, or the last of  *)
(* the three it creates for the test of an index.                           *)
LEMMA EvaluatedGraph ==
  ASSUME NEW c, IsGraph(c), NEW b \in OpenBlocks(c), b \in Reached(c), NEW e, NEW path
  PROVE  LET r == Evaluated(c, b, e, path)
         IN  /\ IsGraph(r.code) /\ Len(r.code) \in Nat /\ Len(c) \in Nat
             /\ Len(c) <= Len(r.code) /\ DOMAIN c = 1..Len(c) /\ DOMAIN r.code = 1..Len(r.code)
             /\ OpenBlocks(r.code) = (OpenBlocks(c) \ {b}) \cup {r.cur}
             /\ r.cur \in Reached(r.code)
             /\ r.cur = b \/ r.cur \notin DOMAIN c
             /\ Reached(c) \cup ((Len(c) + 1)..Len(r.code)) \subseteq Reached(r.code)
<1> DEFINE use == Use(path, Find(e.var))
           exphand == Len(c) + 1
           normal  == Len(c) + 2
           out     == Len(c) + 3
           test == CondBr(Append(path, 0), normal, exphand)
           d0 == NewBlocks(c, 3)
           d1 == Emit(d0, b, use)
           d2 == Emit(d1, b, test)
           d3 == Emit(d2, normal, Br(out))
           d4 == Emit(d3, exphand, Except(path))
           d5 == Emit(d4, exphand, Br(out))
           d6 == Emit(d5, out, use)
           r  == Evaluated(c, b, e, path)
<1>1. IsSeq(c) /\ b \in DOMAIN c /\ DOMAIN c = 1..Len(c) /\ Len(c) \in Nat
  BY SeqFacts DEF IsGraph, OpenBlocks
<1>2. r = IF e.indexed THEN [code |-> d6, cur |-> out]
                       ELSE [code |-> Emit(c, b, use), cur |-> b]
  BY DEF Evaluated
<1>3. /\ Targets(use) = {} /\ ~IsTerminator(use)
      /\ Targets(Except(path)) = {} /\ ~IsTerminator(Except(path))
      /\ Targets(test) = {normal, exphand} /\ IsTerminator(test)
      /\ Targets(Br(out)) = {out} /\ IsTerminator(Br(out))
  <2>1. Targets(use) = {} /\ ~IsTerminator(use)
    BY InstrFacts
  <2>2. Targets(Except(path)) = {} /\ ~IsTerminator(Except(path))
    BY InstrFacts
  <2>3. Targets(test) = {normal, exphand} /\ IsTerminator(test)
    BY InstrFacts
  <2>4. Targets(Br(out)) = {out} /\ IsTerminator(Br(out))
    BY InstrFacts
  <2>5. QED
    BY <2>1, <2>2, <2>3, <2>4
<1> HIDE DEF use, test, r
<1>4. CASE ~e.indexed
  <2> DEFINE d == Emit(c, b, use)
  <2>1. /\ IsGraph(d) /\ DOMAIN d = DOMAIN c /\ Len(d) = Len(c)
        /\ OpenBlocks(d) = OpenBlocks(c) /\ Reached(c) \subseteq Reached(d)
    BY <1>3, EmitGraph
  <2> HIDE DEF d
  <2>2. r.code = d /\ r.cur = b
    BY <1>2, <1>4 DEF d
  <2>3. (Len(c) + 1)..Len(d) = {}
    BY <1>1, <2>1
  <2>4. QED
    BY <1>1, <2>1, <2>2, <2>3 DEF r
<1>5. CASE e.indexed
  <2>1. /\ IsGraph(d0) /\ Len(d0) = Len(c) + 3 /\ DOMAIN d0 = 1..(Len(c) + 3)
        /\ OpenBlocks(d0) = OpenBlocks(c) \cup ((Len(c) + 1)..(Len(c) + 3))
        /\ Reached(c) \subseteq Reached(d0)
    BY NewBlocksGraph
  <2> HIDE DEF d0
  <2>2. /\ {normal, exphand, out} \subseteq 2..Len(d0)
        /\ (Len(c) + 1)..(Len(c) + 3) = {exphand, normal, out}
        /\ b \notin {normal, exphand, out} /\ normal # exphand /\ exphand # out /\ normal # out
        /\ {normal, exphand, out} \cap DOMAIN c = {}
    BY <1>1, <2>1
  <2> HIDE DEF normal, exphand, out
  <2>3. /\ IsGraph(d1) /\ Len(d1) = Len(d0) /\ DOMAIN d1 = DOMAIN d0
        /\ OpenBlocks(d1) = OpenBlocks(c) \cup {normal, exphand, out}
        /\ Reached(d0) \subseteq Reached(d1)
    BY <1>3, <2>1, <2>2, EmitGraph
  <2> HIDE DEF d1
  <2>4. /\ IsGraph(d2) /\ Len(d2) = Len(d0) /\ DOMAIN d2 = DOMAIN d0
        /\ OpenBlocks(d2) = (OpenBlocks(c) \ {b}) \cup {normal, exphand, out}
        /\ Reached(d1) \subseteq Reached(d2)
        /\ b \in Reached(d2) => {normal, exphand} \subseteq Reached(d2)
    <3>1. b \in OpenBlocks(d1) /\ Targets(test) \subseteq 2..Len(d1)
      BY <1>3, <2>2, <2>3
    <3>2. /\ IsGraph(d2) /\ DOMAIN d2 = DOMAIN d1 /\ Len(d2) = Len(d1)
          /\ OpenBlocks(d2) = IF IsTerminator(test) THEN OpenBlocks(d1) \ {b} ELSE OpenBlocks(d1)
          /\ Reached(d1) \subseteq Reached(d2)
          /\ b \in Reached(d2) => Targets(test) \subseteq Reached(d2)
      BY <2>3, <3>1, EmitGraph
    <3>3. QED
      BY <1>3, <2>2, <2>3, <3>2
  <2> HIDE DEF d2
  <2>5. /\ IsGraph(d3) /\ Len(d3) = Len(d0) /\ DOMAIN d3 = DOMAIN d0
        /\ OpenBlocks(d3) = (OpenBlocks(c) \ {b, normal}) \cup {exphand, out}
        /\ Reached(d2) \subseteq Reached(d3)
        /\ normal \in Reached(d3) => {out} \subseteq Reached(d3)
    <3>1. normal \in OpenBlocks(d2) /\ Targets(Br(out)) \subseteq 2..Len(d2)
      BY <1>1, <1>3, <2>2, <2>4
    <3>2. /\ IsGraph(d3) /\ DOMAIN d3 = DOMAIN d2 /\ Len(d3) = Len(d2)
          /\ OpenBlocks(d3) = IF IsTerminator(Br(out)) THEN OpenBlocks(d2) \ {normal} ELSE OpenBlocks(d2)
          /\ Reached(d2) \subseteq Reached(d3)
          /\ normal \in Reached(d3) => Targets(Br(out)) \subseteq Reached(d3)
      BY <2>4, <3>1, EmitGraph
    <3>3. QED
      BY <1>1, <1>3, <2>2, <2>4, <3>2
  <2> HIDE DEF d3
  <2>6. /\ IsGraph(d4) /\ Len(d4) = Len(d0) /\ DOMAIN d4 = DOMAIN d0
        /\ OpenBlocks(d4) = OpenBlocks(d3)
        /\ Reached(d3) \subseteq Reached(d4)
    <3>1. exphand \in OpenBlocks(d3) /\ Targets(Except(path)) \subseteq 2..Len(d3) /\ ~IsTerminator(Except(path))
      BY <1>3, <2>2, <2>5
    <3>2. /\ IsGraph(d4) /\ DOMAIN d4 = DOMAIN d3 /\ Len(d4) = Len(d3)
          /\ OpenBlocks(d4) = IF IsTerminator(Except(path)) THEN OpenBlocks(d3) \ {exphand} ELSE OpenBlocks(d3)
          /\ Reached(d3) \subseteq Reached(d4)
      BY <2>5, <3>1, EmitGraph
    <3>3. QED
      BY <2>5, <3>1, <3>2
  <2> HIDE DEF d4
  <2>7. /\ IsGraph(d5) /\ Len(d5) = Len(d0) /\ DOMAIN d5 = DOMAIN d0
        /\ OpenBlocks(d5) = OpenBlocks(d4) \ {exphand}
        /\ Reached(d4) \subseteq Reached(d5)
    BY <1>3, <2>2, <2>5, <2>6, EmitGraph
  <2> HIDE DEF d5
  <2>8. /\ IsGraph(d6) /\ Len(d6) = Len(d0) /\ DOMAIN d6 = DOMAIN d0
        /\ OpenBlocks(d6) = OpenBlocks(d5)
        /\ Reached(d5) \subseteq Reached(d6)
    <3>1. out \in OpenBlocks(d5) /\ Targets(use) \subseteq 2..Len(d5)
      BY <1>3, <2>2, <2>5, <2>6, <2>7
    <3>2. /\ IsGraph(d6) /\ DOMAIN d6 = DOMAIN d5 /\ Len(d6) = Len(d5)
          /\ OpenBlocks(d6) = IF IsTerminator(use) THEN OpenBlocks(d5) \ {out} ELSE OpenBlocks(d5)
          /\ Reached(d5) \subseteq Reached(d6)
          /\ out \in Reached(d6) => Targets(use) \subseteq Reached(d6)
      BY <2>7, <3>1, EmitGraph
    <3>3. QED
      BY <1>3, <2>2, <2>5, <2>6, <2>7, <3>2
  <2> HIDE DEF d6
  <2>9. OpenBlocks(d6) = (OpenBlocks(c) \ {b}) \cup {out}
    <3>1. OpenBlocks(c) \subseteq DOMAIN c
      BY DEF OpenBlocks
    <3>2. QED
      BY <2>2, <2>5, <2>6, <2>7, <2>8, <3>1
  <2>10. Reached(c) \cup {normal, exphand, out} \subseteq Reached(d6)
    BY <2>1, <2>3, <2>4, <2>5, <2>6, <2>7, <2>8
  <2>11. r.code = d6 /\ r.cur = out
    BY <1>2, <1>5
  <2>12. (Len(c) + 1)..Len(d6) = {exphand, normal, out}
    BY <2>1, <2>2, <2>8
  <2>13. Len(d6) \in Nat /\ Len(c) <= Len(d6) /\ DOMAIN d6 = 1..Len(d6)
    BY <1>1, <2>1, <2>8
  <2>14. QED
    BY <1>1, <2>2, <2>8, <2>9, <2>10, <2>11, <2>12, <2>13 DEF r
<1>6. QED
  BY <1>4, <1>5

(****************************************************************************)
(* The list of what is still to be visited                                  *)
(****************************************************************************)
LEMMA ExitsFinite ==
  ASSUME NEW s, IsSeq(s)
  PROVE  IsFiniteSet(Exits(s)) /\ Cardinality(Exits(s)) \in Nat
<1>1. Exits(s) \subseteq 1..Len(s) /\ Len(s) \in Nat
  BY SeqFacts DEF Exits
<1>2. IsFiniteSet(1..Len(s))
  BY <1>1, FS_Interval
<1>3. QED
  BY <1>1, <1>2, FS_Subset, FS_CardinalityType

(* What holds of the two parts of a list holds of the list. *)
LEMMA ConcatTasks ==
  ASSUME NEW s, IsSeq(s), NEW t, IsSeq(t)
  PROVE  LET u == s \o t
         IN  /\ IsSeq(u)
             /\ \A i \in DOMAIN u : (\E j \in DOMAIN s : u[i] = s[j]) \/ (\E j \in DOMAIN t : u[i] = t[j])
             /\ \A j \in DOMAIN s : \E i \in DOMAIN u : u[i] = s[j]
             /\ \A j \in DOMAIN t : \E i \in DOMAIN u : u[i] = t[j]
             /\ Waits(u) = Waits(s) \cup Waits(t)
             /\ Disjoint(u) <=> Disjoint(s) /\ Disjoint(t) /\ Waits(s) \cap Waits(t) = {}
             /\ Cardinality(Exits(u)) = Cardinality(Exits(s)) + Cardinality(Exits(t))
<1> DEFINE u == s \o t
           m == Len(s)
           n == Len(t)
<1>1. /\ IsSeq(u) /\ Len(u) = m + n
      /\ \A i \in 1..m : u[i] = s[i]
      /\ \A i \in 1..n : u[m + i] = t[i]
  BY ConcatFacts
<1>2. /\ m \in Nat /\ n \in Nat
      /\ DOMAIN s = 1..m /\ DOMAIN t = 1..n
  BY SeqFacts
<1>3. DOMAIN u = 1..(m + n)
  BY <1>1, SeqFacts
<1> HIDE DEF u, m, n
<1>4. \A i \in DOMAIN u : (i \in 1..m /\ u[i] = s[i]) \/ (i - m \in 1..n /\ i = m + (i - m) /\ u[i] = t[i - m])
  <2> TAKE i \in DOMAIN u
  <2>1. CASE i <= m
    BY <1>1, <1>2, <1>3, <2>1
  <2>2. CASE ~(i <= m)
    <3>1. i - m \in 1..n /\ i = m + (i - m)
      BY <1>2, <1>3, <2>2
    <3>2. QED
      BY <1>1, <3>1
  <2>3. QED
    BY <2>1, <2>2
<1>5. \A j \in 1..m : j \in DOMAIN u
  BY <1>2, <1>3
<1>6. \A j \in 1..n : m + j \in DOMAIN u /\ m + j \notin 1..m
  BY <1>2, <1>3
<1>7. Waits(u) = Waits(s) \cup Waits(t)
  <2>1. ASSUME NEW b \in Waits(u) PROVE b \in Waits(s) \cup Waits(t)
    BY <1>2, <1>4, <2>1 DEF Waits
  <2>2. ASSUME NEW b \in Waits(s) PROVE b \in Waits(u)
    BY <1>1, <1>2, <1>5, <2>2 DEF Waits
  <2>3. ASSUME NEW b \in Waits(t) PROVE b \in Waits(u)
    BY <1>1, <1>2, <1>6, <2>3 DEF Waits
  <2>4. QED
    BY <2>1, <2>2, <2>3
<1>8. ASSUME Disjoint(u) PROVE Disjoint(s) /\ Disjoint(t) /\ Waits(s) \cap Waits(t) = {}
  <2>1. Disjoint(s)
    BY <1>1, <1>2, <1>5, <1>8 DEF Disjoint
  <2>2. ASSUME NEW i \in DOMAIN t, NEW j \in DOMAIN t, i # j PROVE Pending(t[i]) \cap Pending(t[j]) = {}
    <3>1. m + i \in DOMAIN u /\ m + j \in DOMAIN u /\ m + i # m + j
      <4>1. i \in 1..n /\ j \in 1..n
        BY <1>2
      <4>2. m + i # m + j
        BY <1>2, <2>2, <4>1
      <4>3. QED
        BY <1>6, <4>1, <4>2
    <3>2. u[m + i] = t[i] /\ u[m + j] = t[j]
      BY <1>1, <1>2
    <3>3. QED
      BY <1>8, <3>1, <3>2 DEF Disjoint
  <2>3. ASSUME NEW i \in DOMAIN s, NEW j \in DOMAIN t PROVE Pending(s[i]) \cap Pending(t[j]) = {}
    <3>1. i \in DOMAIN u /\ m + j \in DOMAIN u /\ i # m + j
      BY <1>2, <1>5, <1>6
    <3>2. u[i] = s[i] /\ u[m + j] = t[j]
      BY <1>1, <1>2
    <3>3. QED
      BY <1>8, <3>1, <3>2 DEF Disjoint
  <2>4. Waits(s) \cap Waits(t) = {}
    BY <2>3 DEF Waits
  <2>5. QED
    BY <2>1, <2>2, <2>4 DEF Disjoint
<1>9. ASSUME Disjoint(s), Disjoint(t), Waits(s) \cap Waits(t) = {} PROVE Disjoint(u)
  <2>1. ASSUME NEW i \in DOMAIN s, NEW j \in DOMAIN t PROVE Pending(s[i]) \cap Pending(t[j]) = {}
    BY <1>9 DEF Waits
  <2>2. SUFFICES ASSUME NEW i \in DOMAIN u, NEW j \in DOMAIN u, i # j
                 PROVE  Pending(u[i]) \cap Pending(u[j]) = {}
    BY DEF Disjoint
  <2>3. CASE i \in 1..m /\ u[i] = s[i]
    <3>1. CASE j \in 1..m /\ u[j] = s[j]
      BY <1>2, <1>9, <2>2, <2>3, <3>1 DEF Disjoint
    <3>2. CASE j - m \in 1..n /\ u[j] = t[j - m]
      BY <1>2, <2>1, <2>3, <3>2
    <3>3. QED
      BY <1>4, <3>1, <3>2
  <2>4. CASE i - m \in 1..n /\ i = m + (i - m) /\ u[i] = t[i - m]
    <3>1. CASE j \in 1..m /\ u[j] = s[j]
      BY <1>2, <2>1, <2>4, <3>1
    <3>2. CASE j - m \in 1..n /\ j = m + (j - m) /\ u[j] = t[j - m]
      <4>1. i - m # j - m
        BY <2>2, <2>4, <3>2
      <4>2. QED
        BY <1>2, <1>9, <2>4, <3>2, <4>1 DEF Disjoint
    <3>3. QED
      BY <1>4, <3>1, <3>2
  <2>5. QED
    BY <1>4, <2>3, <2>4
<1>10. Cardinality(Exits(u)) = Cardinality(Exits(s)) + Cardinality(Exits(t))
  <2> DEFINE E == Exits(s)
             F == Exits(t)
             G == {m + i : i \in F}
             f == [i \in F |-> m + i]
  <2>1. IsFiniteSet(E) /\ IsFiniteSet(F) /\ Cardinality(E) \in Nat
    BY ExitsFinite
  <2>2. E \subseteq 1..m /\ F \subseteq 1..n
    BY <1>2 DEF Exits
  <2>3. Exits(u) = E \cup G
    <3>1. ASSUME NEW i \in Exits(u) PROVE i \in E \cup G
      <4>1. i \in DOMAIN u /\ u[i].task = "exit scope"
        BY DEF Exits
      <4>2. CASE i \in 1..m /\ u[i] = s[i]
        BY <1>2, <4>1, <4>2 DEF Exits
      <4>3. CASE i - m \in 1..n /\ i = m + (i - m) /\ u[i] = t[i - m]
        <5>1. i - m \in F
          BY <1>2, <4>1, <4>3 DEF Exits
        <5>2. QED
          BY <4>3, <5>1
      <4>4. QED
        BY <1>4, <4>1, <4>2, <4>3
    <3>2. ASSUME NEW i \in E PROVE i \in Exits(u)
      BY <1>1, <1>2, <1>5 DEF Exits
    <3>3. ASSUME NEW i \in F PROVE m + i \in Exits(u)
      BY <1>1, <1>2, <1>6 DEF Exits
    <3>4. QED
      BY <3>1, <3>2, <3>3
  <2>4. E \cap G = {}
    BY <1>6, <2>2
  <2>5. f \in Bijection(F, G)
    <3>1. f \in [F -> G]
      OBVIOUS
    <3>2. \A i, j \in F : f[i] = f[j] => i = j
      BY <1>2, <2>2
    <3>3. \A g \in G : \E i \in F : f[i] = g
      OBVIOUS
    <3>4. QED
      BY <3>1, <3>2, <3>3 DEF Bijection, Injection, IsInjective, Surjection
  <2> HIDE DEF E, F, G, f
  <2>6. IsFiniteSet(G) /\ Cardinality(G) = Cardinality(F)
    BY <2>1, <2>5, FS_Bijection DEF ExistsBijection
  <2>7. /\ Cardinality(E \cup G) = Cardinality(E) + Cardinality(G) - Cardinality(E \cap G)
        /\ Cardinality(E \cap G) = 0
    BY <2>1, <2>4, <2>6, FS_Union, FS_EmptySet
  <2>8. Cardinality(G) \in Nat
    BY <2>6, FS_CardinalityType
  <2>9. QED
    BY <2>1, <2>3, <2>6, <2>7, <2>8 DEF E, F
<1>11. \A i \in DOMAIN u : (\E j \in DOMAIN s : u[i] = s[j]) \/ (\E j \in DOMAIN t : u[i] = t[j])
  BY <1>2, <1>4
<1>12. /\ \A j \in DOMAIN s : \E i \in DOMAIN u : u[i] = s[j]
       /\ \A j \in DOMAIN t : \E i \in DOMAIN u : u[i] = t[j]
  BY <1>1, <1>2, <1>5, <1>6
<1>13. QED
  BY <1>1, <1>7, <1>8, <1>9, <1>10, <1>11, <1>12 DEF u

(* Lists of one and of two tasks *)
LEMMA SingleTask ==
  ASSUME NEW e
  PROVE  /\ IsSeq(<<e>>) /\ DOMAIN <<e>> = {1} /\ <<e>>[1] = e
         /\ Waits(<<e>>) = Pending(e) /\ Disjoint(<<e>>)
         /\ Cardinality(Exits(<<e>>)) = IF e.task = "exit scope" THEN 1 ELSE 0
<1> DEFINE s == <<e>>
<1>1. IsSeq(s) /\ Len(s) = 1 /\ s[1] = e
  BY SingleFacts
<1>2. DOMAIN s = {1}
  BY <1>1, SeqFacts
<1> HIDE DEF s
<1>3. Waits(s) = Pending(e) /\ Disjoint(s)
  BY <1>1, <1>2 DEF Waits, Disjoint
<1>4. Exits(s) = IF e.task = "exit scope" THEN {1} ELSE {}
  BY <1>1, <1>2 DEF Exits
<1>5. Cardinality({1}) = 1 /\ Cardinality({}) = 0
  BY FS_Singleton, FS_EmptySet
<1>6. QED
  BY <1>1, <1>2, <1>3, <1>4, <1>5 DEF s

LEMMA OneTwo == 1..2 = {1, 2}
<1>1. \A i \in Int : i \in 1..2 <=> i = 1 \/ i = 2
  OBVIOUS
<1>2. QED
  BY <1>1

LEMMA PairTasks ==
  ASSUME NEW d, NEW e, d.task # "exit scope", e.task # "exit scope", Pending(d) = {}
  PROVE  /\ IsSeq(<<d, e>>) /\ DOMAIN <<d, e>> = {1, 2} /\ <<d, e>>[1] = d /\ <<d, e>>[2] = e
         /\ Waits(<<d, e>>) = Pending(e) /\ Disjoint(<<d, e>>)
         /\ Cardinality(Exits(<<d, e>>)) = 0
<1> DEFINE s == <<d, e>>
<1>1. IsSeq(s) /\ Len(s) = 2 /\ s[1] = d /\ s[2] = e
  BY PairFacts
<1>2. DOMAIN s = {1, 2}
  <2>1. DOMAIN s = 1..2
    BY <1>1, SeqFacts
  <2>2. QED
    BY <2>1, OneTwo
<1> HIDE DEF s
<1>3. Waits(s) = Pending(e) /\ Disjoint(s)
  BY <1>1, <1>2 DEF Waits, Disjoint
<1>4. Exits(s) = {}
  BY <1>1, <1>2 DEF Exits
<1>5. QED
  BY <1>1, <1>2, <1>3, <1>4, FS_EmptySet DEF s

(* The first task of a list and the others *)
LEMMA TailTasks ==
  ASSUME NEW s, IsSeq(s), s # <<>>, Disjoint(s)
  PROVE  /\ IsSeq(Tail(s)) /\ Disjoint(Tail(s)) /\ 1 \in DOMAIN s /\ Head(s) = s[1]
         /\ \A i \in DOMAIN Tail(s) : \E j \in DOMAIN s : Tail(s)[i] = s[j]
         /\ Waits(s) = Pending(Head(s)) \cup Waits(Tail(s))
         /\ Pending(Head(s)) \cap Waits(Tail(s)) = {}
         /\ Cardinality(Exits(Tail(s))) \in Nat
         /\ Cardinality(Exits(s)) = Cardinality(Exits(Tail(s)))
                                      + (IF Head(s).task = "exit scope" THEN 1 ELSE 0)
<1> DEFINE h == <<Head(s)>>
           t == Tail(s)
<1>1. IsSeq(t) /\ Head(s) = s[1] /\ 1 \in DOMAIN s
  BY TailFacts
<1>2. s = h \o t
  <2> DEFINE R == {s[i] : i \in DOMAIN s}
  <2>1. s \in Seq(R)
    BY DEF IsSeq
  <2> HIDE DEF R
  <2>2. QED
    BY <2>1
<1>3. /\ IsSeq(h) /\ Waits(h) = Pending(Head(s))
      /\ Cardinality(Exits(h)) = IF Head(s).task = "exit scope" THEN 1 ELSE 0
  BY SingleTask
<1> HIDE DEF h, t
<1>4. /\ \A j \in DOMAIN t : \E i \in DOMAIN s : s[i] = t[j]
      /\ Waits(s) = Waits(h) \cup Waits(t)
      /\ Disjoint(s) <=> Disjoint(h) /\ Disjoint(t) /\ Waits(h) \cap Waits(t) = {}
      /\ Cardinality(Exits(s)) = Cardinality(Exits(h)) + Cardinality(Exits(t))
  <2>1. /\ \A j \in DOMAIN t : \E i \in DOMAIN (h \o t) : (h \o t)[i] = t[j]
        /\ Waits(h \o t) = Waits(h) \cup Waits(t)
        /\ Disjoint(h \o t) <=> Disjoint(h) /\ Disjoint(t) /\ Waits(h) \cap Waits(t) = {}
        /\ Cardinality(Exits(h \o t)) = Cardinality(Exits(h)) + Cardinality(Exits(t))
    <3> IsSeq(h) /\ IsSeq(t)
      BY <1>1, <1>3
    <3>1. QED
      BY ConcatTasks, ZenonT(60)
  <2>2. QED
    BY <1>2, <2>1
<1>5. Cardinality(Exits(t)) \in Nat
  BY <1>1, ExitsFinite
<1>6. /\ Disjoint(t) /\ \A i \in DOMAIN t : \E j \in DOMAIN s : t[i] = s[j]
      /\ Waits(s) = Pending(Head(s)) \cup Waits(t)
      /\ Pending(Head(s)) \cap Waits(t) = {}
  BY <1>3, <1>4
<1>7. Cardinality(Exits(s)) = Cardinality(Exits(t))
                                + (IF Head(s).task = "exit scope" THEN 1 ELSE 0)
  <2> DEFINE x == Cardinality(Exits(h))
             y == Cardinality(Exits(t))
  <2>1. x = IF Head(s).task = "exit scope" THEN 1 ELSE 0
    BY <1>3
  <2>2. y \in Nat /\ Cardinality(Exits(s)) = x + y
    BY <1>4, <1>5
  <2> HIDE DEF x, y
  <2>3. x \in Nat
    BY <2>1
  <2>4. Cardinality(Exits(s)) = y + x
    BY <2>2, <2>3
  <2>5. QED
    BY <2>1, <2>4 DEF y
<1>8. QED
  BY <1>1, <1>5, <1>6, <1>7 DEF t

(* The head of the list gives way to other tasks, blocks may have been      *)
(* created: what holds of the new tasks and held of the others holds of all.*)
LEMMA ReplaceHead ==
  ASSUME NEW s, IsSeq(s), s # <<>>, Disjoint(s),
         NEW stmts, NEW n \in Nat, NEW m \in Nat, n <= m,
         \A i \in DOMAIN s : TaskOK(s[i], stmts, n),
         NEW pre, IsSeq(pre), Disjoint(pre), Waits(pre) \cap Waits(Tail(s)) = {},
         \A i \in DOMAIN pre : TaskOK(pre[i], stmts, m)
  PROVE  LET u == pre \o Tail(s)
         IN  /\ IsSeq(u) /\ Disjoint(u) /\ Waits(u) = Waits(pre) \cup Waits(Tail(s))
             /\ \A i \in DOMAIN u : TaskOK(u[i], stmts, m)
             /\ Cardinality(Exits(u)) = Cardinality(Exits(pre)) + Cardinality(Exits(Tail(s)))
<1> DEFINE t == Tail(s)
           u == pre \o t
<1>1. /\ IsSeq(t) /\ Disjoint(t)
      /\ \A i \in DOMAIN t : \E j \in DOMAIN s : t[i] = s[j]
  BY TailTasks
<1> HIDE DEF t
<1>2. /\ IsSeq(u)
      /\ \A i \in DOMAIN u : (\E j \in DOMAIN pre : u[i] = pre[j]) \/ (\E j \in DOMAIN t : u[i] = t[j])
      /\ Waits(u) = Waits(pre) \cup Waits(t)
      /\ Disjoint(u) <=> Disjoint(pre) /\ Disjoint(t) /\ Waits(pre) \cap Waits(t) = {}
      /\ Cardinality(Exits(u)) = Cardinality(Exits(pre)) + Cardinality(Exits(t))
  <2> HIDE DEF u
  <2> IsSeq(t)
    BY <1>1
  <2>1. /\ IsSeq(pre \o t)
        /\ \A i \in DOMAIN (pre \o t) : \/ \E j \in DOMAIN pre : (pre \o t)[i] = pre[j]
                                      \/ \E j \in DOMAIN t : (pre \o t)[i] = t[j]
        /\ Waits(pre \o t) = Waits(pre) \cup Waits(t)
        /\ Disjoint(pre \o t) <=> Disjoint(pre) /\ Disjoint(t) /\ Waits(pre) \cap Waits(t) = {}
        /\ Cardinality(Exits(pre \o t)) = Cardinality(Exits(pre)) + Cardinality(Exits(t))
    BY ConcatTasks, ZenonT(60)
  <2>2. u = pre \o t
    BY DEF u
  <2>3. QED
    BY <2>1, <2>2
<1> HIDE DEF u
<1>3. ASSUME NEW x, TaskOK(x, stmts, n) PROVE TaskOK(x, stmts, m)
  <2>1. 2..n \subseteq 2..m
    OBVIOUS
  <2>2. x.task = "body built" => x.loopJudge \in 2..m
    BY <1>3, <2>1 DEF TaskOK
  <2>3. QED
    BY <1>3, <2>2 DEF TaskOK
<1>4. \A i \in DOMAIN t : TaskOK(t[i], stmts, m)
  BY <1>1, <1>3
<1>5. \A i \in DOMAIN u : TaskOK(u[i], stmts, m)
  BY <1>2, <1>4
<1>6. Disjoint(u)
  BY <1>1, <1>2 DEF t
<1>7. QED
  BY <1>2, <1>5, <1>6 DEF t, u

(* A task without a remainder: the list of the others waits for every open  *)
(* block but the insertion point.                                           *)
LEMMA EmptyTasks == IsSeq(<<>>) /\ DOMAIN <<>> = {} /\ Disjoint(<<>>) /\ Waits(<<>>) = {}
                    /\ Cardinality(Exits(<<>>)) = 0
<1>1. <<>> \in Seq({})
  OBVIOUS
<1>2. IsSeq(<<>>)
  BY <1>1, SeqIsSeq
<1>3. DOMAIN <<>> = {}
  OBVIOUS
<1>4. Disjoint(<<>>) /\ Waits(<<>>) = {} /\ Exits(<<>>) = {}
  BY <1>3 DEF Disjoint, Waits, Exits
<1>5. QED
  BY <1>2, <1>3, <1>4, FS_EmptySet

(****************************************************************************)
(* One step of the builder                                                  *)
(****************************************************************************)
LEMMA BuildFacts ==
  ASSUME CodeInv, pc = "build", todo # <<>>
  PROVE  /\ fun \in Functions /\ IsGraph(code) /\ Reached(code) = DOMAIN code
         /\ Len(code) \in Nat /\ DOMAIN code = 1..Len(code)
         /\ 1 \in DOMAIN code /\ cur \in DOMAIN code
         /\ OpenBlocks(code) \subseteq DOMAIN code
         /\ OpenBlocks(code) \ {cur} = Pending(Here) \cup Waits(Tail(todo))
         /\ Pending(Here) \cap Waits(Tail(todo)) = {}
         /\ 1 \notin Pending(Here) /\ 1 \notin Waits(Tail(todo))
         /\ TaskOK(Here, Statements[fun.void], Len(code))
         /\ returnFlag <=> cur \notin OpenBlocks(code)
         /\ Terminated(cur) <=> cur \notin OpenBlocks(code)
<1>1. BuildInv /\ fun \in Functions /\ DOMAIN code # {} /\ Reached(code) = DOMAIN code
  BY DEF CodeInv
<1>2. /\ IsSeq(todo) /\ Disjoint(todo) /\ IsGraph(code) /\ cur \in DOMAIN code
      /\ Waits(todo) = OpenBlocks(code) \ {cur} /\ 1 \notin Waits(todo)
      /\ \A i \in DOMAIN todo : TaskOK(todo[i], Statements[fun.void], Len(code))
      /\ returnFlag <=> cur \notin OpenBlocks(code)
  BY <1>1 DEF BuildInv
<1>3. Len(code) \in Nat /\ DOMAIN code = 1..Len(code)
  BY <1>2, SeqFacts DEF IsGraph
<1>4. 1 \in DOMAIN code
  BY <1>1, <1>3
<1>5. /\ 1 \in DOMAIN todo /\ Here = todo[1]
      /\ Waits(todo) = Pending(Here) \cup Waits(Tail(todo))
      /\ Pending(Here) \cap Waits(Tail(todo)) = {}
  BY <1>2, TailTasks DEF Here
<1>6. Terminated(cur) <=> cur \notin OpenBlocks(code)
  BY <1>2 DEF Terminated, OpenBlocks
<1>7. OpenBlocks(code) \subseteq DOMAIN code
  BY DEF OpenBlocks
<1>8. TaskOK(Here, Statements[fun.void], Len(code))
  BY <1>2, <1>5
<1>9. QED
  BY <1>1, <1>2, <1>3, <1>4, <1>5, <1>6, <1>7, <1>8

LEMMA SameCount ==
  ASSUME NEW x \in Nat, NEW y, NEW z, NEW l, y = x + 0, l = 2 + y, z = 0
  PROVE  l = 2 + (z + x)
OBVIOUS

(* What a step must establish when it replaces the task at hand by others   *)
LEMMA StepInv ==
  ASSUME CodeInv, pc = "build", todo # <<>>, UNCHANGED <<fun, pc>>,
         NEW pre, IsSeq(pre), Disjoint(pre),
         Waits(pre) \cap Waits(Tail(todo)) = {}, 1 \notin Waits(pre),
         \A i \in DOMAIN pre : TaskOK(pre[i], Statements[fun.void], Len(code')),
         todo' = pre \o Tail(todo),
         IsGraph(code'), Reached(code') = DOMAIN code', Len(code) <= Len(code'),
         cur' \in DOMAIN code', returnFlag' <=> cur' \notin OpenBlocks(code'),
         OpenBlocks(code') \ {cur'} = Waits(pre) \cup Waits(Tail(todo)),
         IsSeq(scope'),
         Len(scope') = 2 + (Cardinality(Exits(pre)) + Cardinality(Exits(Tail(todo))))
  PROVE  CodeInv'
<1>1. /\ IsSeq(todo) /\ Disjoint(todo) /\ Len(code) \in Nat
      /\ \A i \in DOMAIN todo : TaskOK(todo[i], Statements[fun.void], Len(code))
      /\ 1 \notin Waits(Tail(todo)) /\ fun \in Functions
  BY BuildFacts DEF CodeInv, BuildInv
<1>2. Len(code') \in Nat
  BY SeqFacts DEF IsGraph
<1>3. /\ IsSeq(todo') /\ Disjoint(todo') /\ Waits(todo') = Waits(pre) \cup Waits(Tail(todo))
      /\ \A i \in DOMAIN todo' : TaskOK(todo'[i], Statements[fun.void], Len(code'))
      /\ Cardinality(Exits(todo')) = Cardinality(Exits(pre)) + Cardinality(Exits(Tail(todo)))
  <2> /\ IsSeq(todo) /\ Disjoint(todo) /\ Len(code) \in Nat /\ Len(code') \in Nat
      /\ \A i \in DOMAIN todo : TaskOK(todo[i], Statements[fun.void], Len(code))
    BY <1>1, <1>2
  <2> DEFINE S == Statements[fun.void]
             k == Len(code)
             m == Len(code')
  <2> /\ k \in Nat /\ m \in Nat /\ k <= m
      /\ \A i \in DOMAIN todo : TaskOK(todo[i], S, k)
      /\ \A i \in DOMAIN pre : TaskOK(pre[i], S, m)
    BY <1>1, <1>2
  <2> HIDE DEF S, k, m
  <2>1. LET u == pre \o Tail(todo)
        IN  /\ IsSeq(u) /\ Disjoint(u) /\ Waits(u) = Waits(pre) \cup Waits(Tail(todo))
            /\ \A i \in DOMAIN u : TaskOK(u[i], S, m)
            /\ Cardinality(Exits(u)) = Cardinality(Exits(pre)) + Cardinality(Exits(Tail(todo)))
    BY ReplaceHead
  <2>2. todo' = pre \o Tail(todo)
    OBVIOUS
  <2>3. QED
    BY <2>1, <2>2 DEF S, m
<1>4. BuildInv'
  BY <1>1, <1>3 DEF BuildInv
<1>5. QED
  BY <1>1, <1>4 DEF CodeInv

(* The same for a step that is done with its task *)
LEMMA PopInv ==
  ASSUME CodeInv, pc = "build", todo # <<>>, UNCHANGED <<fun, pc, scope>>,
         Here.task # "exit scope", todo' = Tail(todo),
         IsGraph(code'), Reached(code') = DOMAIN code', Len(code) <= Len(code'),
         cur' \in DOMAIN code', returnFlag' <=> cur' \notin OpenBlocks(code'),
         OpenBlocks(code') \ {cur'} = Waits(Tail(todo))
  PROVE  CodeInv'
<1>1. IsSeq(todo) /\ Disjoint(todo) /\ IsSeq(scope) /\ Len(scope) = 2 + Cardinality(Exits(todo))
  BY DEF CodeInv, BuildInv
<1>2. /\ IsSeq(Tail(todo)) /\ Cardinality(Exits(Tail(todo))) \in Nat
      /\ Cardinality(Exits(todo)) = Cardinality(Exits(Tail(todo))) + 0
  BY <1>1, TailTasks DEF Here
<1>3. todo' = <<>> \o Tail(todo)
  <2> DEFINE t == Tail(todo)
             R == {t[i] : i \in DOMAIN t}
  <2>1. t \in Seq(R)
    BY <1>2 DEF IsSeq
  <2> HIDE DEF R
  <2>2. <<>> \o t = t
    <3> HIDE DEF t
    <3>1. QED
      BY <2>1, ConcatEmptySeq
  <2>3. QED
    BY <2>2
<1>4. Len(scope') = 2 + (Cardinality(Exits(<<>>)) + Cardinality(Exits(Tail(todo))))
  <2>1. Cardinality(Exits(<<>>)) = 0 /\ scope' = scope
    BY EmptyTasks
  <2> DEFINE x == Cardinality(Exits(Tail(todo)))
             y == Cardinality(Exits(todo))
             z == Cardinality(Exits(<<>>))
  <2>2. x \in Nat /\ y = x + 0 /\ Len(scope) = 2 + y /\ z = 0
    BY <1>1, <1>2, <2>1
  <2> HIDE DEF x, y, z
  <2>3. Len(scope) = 2 + (z + x)
    BY <2>2, SameCount, Zenon
  <2>4. QED
    BY <2>1, <2>3 DEF x, z
<1>5. QED
  <2> DEFINE pre == <<>>
  <2>1. /\ IsSeq(pre) /\ Disjoint(pre) /\ Waits(pre) = {} /\ DOMAIN pre = {}
    BY EmptyTasks
  <2>2. todo' = pre \o Tail(todo) /\ IsSeq(scope')
    BY <1>1, <1>3
  <2>3. Len(scope') = 2 + (Cardinality(Exits(pre)) + Cardinality(Exits(Tail(todo))))
    BY <1>4
  <2> HIDE DEF pre
  <2>4. QED
    BY <2>1, <2>2, <2>3, StepInv

(* The same for a step that puts a statement and a remainder in its place *)
LEMMA PushInv ==
  ASSUME CodeInv, pc = "build", todo # <<>>, UNCHANGED <<fun, pc, scope>>,
         Here.task # "exit scope",
         NEW d, NEW e, d.task = "stmt", e.task # "exit scope",
         d.node \in Statements[fun.void], TaskOK(e, Statements[fun.void], Len(code')),
         Pending(e) \cap Waits(Tail(todo)) = {}, 1 \notin Pending(e),
         todo' = <<d, e>> \o Tail(todo),
         IsGraph(code'), Reached(code') = DOMAIN code', Len(code) <= Len(code'),
         cur' \in DOMAIN code', returnFlag' <=> cur' \notin OpenBlocks(code'),
         OpenBlocks(code') \ {cur'} = Pending(e) \cup Waits(Tail(todo))
  PROVE  CodeInv'
<1> DEFINE pre == <<d, e>>
<1>1. IsSeq(todo) /\ Disjoint(todo) /\ IsSeq(scope) /\ Len(scope) = 2 + Cardinality(Exits(todo))
  BY DEF CodeInv, BuildInv
<1>2. /\ Cardinality(Exits(Tail(todo))) \in Nat
      /\ Cardinality(Exits(todo)) = Cardinality(Exits(Tail(todo))) + 0
  BY <1>1, TailTasks DEF Here
<1>3. Pending(d) = {} /\ TaskOK(d, Statements[fun.void], Len(code'))
  BY DEF Pending, TaskOK
<1>4. /\ IsSeq(pre) /\ DOMAIN pre = {1, 2} /\ pre[1] = d /\ pre[2] = e
      /\ Waits(pre) = Pending(e) /\ Disjoint(pre) /\ Cardinality(Exits(pre)) = 0
  BY <1>3, PairTasks
<1>5. todo' = pre \o Tail(todo)
  OBVIOUS
<1> HIDE DEF pre
<1>6. \A i \in DOMAIN pre : TaskOK(pre[i], Statements[fun.void], Len(code'))
  BY <1>3, <1>4
<1>7. IsSeq(scope') /\ Len(scope') = 2 + (Cardinality(Exits(pre)) + Cardinality(Exits(Tail(todo))))
  <2>1. scope' = scope
    OBVIOUS
  <2> DEFINE x == Cardinality(Exits(Tail(todo)))
             y == Cardinality(Exits(todo))
             z == Cardinality(Exits(pre))
  <2>2. x \in Nat /\ y = x + 0 /\ Len(scope) = 2 + y /\ z = 0
    BY <1>1, <1>2, <1>4
  <2> HIDE DEF x, y, z
  <2>3. Len(scope) = 2 + (z + x)
    BY <2>2, SameCount, Zenon
  <2>4. QED
    BY <1>1, <2>1, <2>3 DEF x, z
<1>8. QED
  BY <1>4, <1>5, <1>6, <1>7, StepInv

(* In a function all of whose blocks are reached                            *)
LEMMA EmitWhole ==
  ASSUME NEW c, IsGraph(c), Reached(c) = DOMAIN c, NEW b \in OpenBlocks(c),
         NEW i, IsTerminator(i), Targets(i) \subseteq 2..Len(c)
  PROVE  LET d == Emit(c, b, i)
         IN  /\ IsGraph(d) /\ Reached(d) = DOMAIN d /\ DOMAIN d = DOMAIN c /\ Len(d) = Len(c)
             /\ OpenBlocks(d) = OpenBlocks(c) \ {b}
<1> DEFINE d == Emit(c, b, i)
<1>1. /\ IsGraph(d) /\ DOMAIN d = DOMAIN c /\ Len(d) = Len(c)
      /\ OpenBlocks(d) = OpenBlocks(c) \ {b} /\ Reached(c) \subseteq Reached(d)
  BY EmitGraph
<1> HIDE DEF d
<1>2. Reached(d) \subseteq DOMAIN d
  BY DEF Reached
<1>3. QED
  BY <1>1, <1>2 DEF d

LEMMA BranchWhole ==
  ASSUME NEW c, IsGraph(c), Reached(c) = DOMAIN c, NEW b \in OpenBlocks(c), NEW n \in Nat,
         NEW i, IsTerminator(i), Targets(i) = (Len(c) + 1)..(Len(c) + n)
  PROVE  LET d == Emit(NewBlocks(c, n), b, i)
         IN  /\ IsGraph(d) /\ Reached(d) = DOMAIN d
             /\ Len(d) = Len(c) + n /\ DOMAIN d = 1..(Len(c) + n)
             /\ OpenBlocks(d) = (OpenBlocks(c) \ {b}) \cup ((Len(c) + 1)..(Len(c) + n))
<1> DEFINE d == Emit(NewBlocks(c, n), b, i)
<1>1. b \in Reached(c) /\ DOMAIN c = 1..Len(c) /\ Len(c) \in Nat
  BY SeqFacts DEF OpenBlocks, IsGraph
<1>2. /\ IsGraph(d) /\ Len(d) = Len(c) + n /\ DOMAIN d = 1..(Len(c) + n)
      /\ OpenBlocks(d) = (OpenBlocks(c) \ {b}) \cup ((Len(c) + 1)..(Len(c) + n))
      /\ Reached(c) \cup ((Len(c) + 1)..(Len(c) + n)) \subseteq Reached(d)
  BY <1>1, BranchGraph
<1> HIDE DEF d
<1>3. Reached(d) \subseteq DOMAIN d
  BY DEF Reached
<1>4. 1..(Len(c) + n) = 1..Len(c) \cup ((Len(c) + 1)..(Len(c) + n))
  BY <1>1
<1>5. QED
  BY <1>1, <1>2, <1>3, <1>4 DEF d

LEMMA EvaluatedWhole ==
  ASSUME NEW c, IsGraph(c), Reached(c) = DOMAIN c, NEW b \in OpenBlocks(c), NEW e, NEW path
  PROVE  LET r == Evaluated(c, b, e, path)
         IN  /\ IsGraph(r.code) /\ Reached(r.code) = DOMAIN r.code
             /\ Len(r.code) \in Nat /\ Len(c) \in Nat /\ Len(c) <= Len(r.code)
             /\ DOMAIN c = 1..Len(c) /\ DOMAIN r.code = 1..Len(r.code)
             /\ r.cur \in OpenBlocks(r.code)
             /\ OpenBlocks(r.code) \ {r.cur} = OpenBlocks(c) \ {b}
<1> DEFINE r == Evaluated(c, b, e, path)
<1>1. b \in Reached(c) /\ OpenBlocks(c) \subseteq DOMAIN c
  BY DEF OpenBlocks
<1>2. /\ IsGraph(r.code) /\ Len(r.code) \in Nat /\ Len(c) \in Nat
      /\ Len(c) <= Len(r.code) /\ DOMAIN c = 1..Len(c) /\ DOMAIN r.code = 1..Len(r.code)
      /\ OpenBlocks(r.code) = (OpenBlocks(c) \ {b}) \cup {r.cur}
      /\ r.cur = b \/ r.cur \notin DOMAIN c
      /\ Reached(c) \cup ((Len(c) + 1)..Len(r.code)) \subseteq Reached(r.code)
  BY <1>1, EvaluatedGraph
<1> HIDE DEF r
<1>3. Reached(r.code) \subseteq DOMAIN r.code
  BY DEF Reached
<1>4. 1..Len(r.code) = 1..Len(c) \cup ((Len(c) + 1)..Len(r.code))
  BY <1>2
<1>5. QED
  BY <1>1, <1>2, <1>3, <1>4 DEF r

(****************************************************************************)
(* The actions                                                              *)
(****************************************************************************)
LEMMA SkipInv == ASSUME CodeInv, SkipStmt PROVE CodeInv'
<1>1. pc = "build" /\ todo # <<>> /\ Here.task = "stmt"
  BY DEF SkipStmt, AtTask, Here
<1>2. /\ IsGraph(code) /\ Reached(code) = DOMAIN code /\ Len(code) \in Nat
      /\ cur \in DOMAIN code
      /\ returnFlag <=> cur \notin OpenBlocks(code)
      /\ OpenBlocks(code) \ {cur} = Pending(Here) \cup Waits(Tail(todo))
  BY <1>1, BuildFacts
<1>3. Pending(Here) = {}
  BY <1>1 DEF Pending
<1>4. /\ UNCHANGED <<fun, pc, scope>> /\ todo' = Tail(todo)
      /\ code' = code /\ cur' = cur /\ returnFlag' = returnFlag
  BY DEF SkipStmt
<1>5. QED
  <2>1. /\ IsGraph(code') /\ Reached(code') = DOMAIN code' /\ Len(code) <= Len(code')
        /\ cur' \in DOMAIN code'
        /\ returnFlag' <=> cur' \notin OpenBlocks(code')
        /\ OpenBlocks(code') \ {cur'} = Waits(Tail(todo))
    BY <1>2, <1>3, <1>4
  <2>2. UNCHANGED <<fun, pc, scope>> /\ todo' = Tail(todo) /\ Here.task # "exit scope"
    BY <1>1, <1>4
  <2>3. QED
    BY <1>1, <2>1, <2>2, PopInv

LEMMA CompoundInv == ASSUME CodeInv, CompoundStmt PROVE CodeInv'
<1> DEFINE node == Here.node
           A    == [i \in 1..Len(node.stmts) |-> Stmt(node.stmts[i], Append(Here.path, i))]
           exit == [task |-> "exit scope"]
           pre  == A \o <<exit>>
           S    == Statements[fun.void]
<1>1. pc = "build" /\ todo # <<>> /\ Here.task = "stmt" /\ Here.node.kind = "block"
  BY DEF CompoundStmt, AtStmt, AtTask, Here
<1>2. /\ fun \in Functions
      /\ IsGraph(code) /\ Reached(code) = DOMAIN code /\ Len(code) \in Nat
      /\ cur \in DOMAIN code
      /\ returnFlag <=> cur \notin OpenBlocks(code)
      /\ OpenBlocks(code) \ {cur} = Pending(Here) \cup Waits(Tail(todo))
      /\ TaskOK(Here, S, Len(code))
  BY <1>1, BuildFacts
<1>3. Pending(Here) = {}
  BY <1>1 DEF Pending
<1>4. node.stmts \in Seq(S)
  BY <1>1, <1>2, FunctionsAssumption DEF TaskOK
<1>5. Len(node.stmts) \in Nat /\ \A i \in 1..Len(node.stmts) : node.stmts[i] \in S
  BY <1>4
<1>6. IsSeq(A) /\ Waits(A) = {} /\ Disjoint(A) /\ Exits(A) = {} /\ \A i \in DOMAIN A : TaskOK(A[i], S, Len(code))
  <2> DEFINE R == {A[i] : i \in 1..Len(node.stmts)}
  <2>1. A \in Seq(R)
    <3>1. A \in [1..Len(node.stmts) -> R]
      OBVIOUS
    <3> HIDE DEF A, R
    <3>2. QED
      BY <1>5, <3>1
  <2>2. IsSeq(A)
    <3> HIDE DEF A, R
    <3>1. QED
      BY <2>1, SeqIsSeq
  <2>3. \A i \in DOMAIN A : A[i].task = "stmt" /\ A[i].node \in S
    BY <1>5 DEF Stmt
  <2> HIDE DEF A, S
  <2>4. \A i \in DOMAIN A : Pending(A[i]) = {} /\ TaskOK(A[i], S, Len(code))
    BY <2>3 DEF Pending, TaskOK
  <2>5. Waits(A) = {} /\ Disjoint(A)
    BY <2>4 DEF Waits, Disjoint
  <2>6. Exits(A) = {}
    BY <2>3 DEF Exits
  <2>7. QED
    BY <2>2, <2>4, <2>5, <2>6
<1>7. /\ IsSeq(<<exit>>) /\ DOMAIN <<exit>> = {1} /\ <<exit>>[1] = exit
      /\ Waits(<<exit>>) = Pending(exit) /\ Disjoint(<<exit>>) /\ Cardinality(Exits(<<exit>>)) = 1
  BY SingleTask
<1>8. Pending(exit) = {} /\ TaskOK(exit, S, Len(code))
  BY DEF Pending, TaskOK
<1>9. /\ UNCHANGED <<fun, pc>> /\ todo' = pre \o Tail(todo)
      /\ code' = code /\ cur' = cur /\ returnFlag' = returnFlag
      /\ scope' = Append(scope, [x \in ToSet(Here.node.decls) |-> Here.path])
  BY DEF CompoundStmt
<1> DEFINE E == <<exit>>
<1> HIDE DEF A, exit, S, E
<1>10. /\ IsSeq(pre) /\ Waits(pre) = {} /\ Disjoint(pre) /\ Cardinality(Exits(pre)) = 1
       /\ \A i \in DOMAIN pre : TaskOK(pre[i], S, Len(code))
  <2>1. IsSeq(A) /\ IsSeq(E) /\ DOMAIN E = {1} /\ E[1] = exit /\ Waits(E) = {}
        /\ Disjoint(E) /\ Cardinality(Exits(E)) = 1
    BY <1>6, <1>7, <1>8 DEF E
  <2>2. pre = A \o E
    BY DEF E
  <2> HIDE DEF pre
  <2>3. /\ IsSeq(pre)
        /\ \A i \in DOMAIN pre : (\E j \in DOMAIN A : pre[i] = A[j]) \/ (\E j \in DOMAIN E : pre[i] = E[j])
        /\ Waits(pre) = Waits(A) \cup Waits(E)
        /\ Disjoint(pre) <=> Disjoint(A) /\ Disjoint(E) /\ Waits(A) \cap Waits(E) = {}
        /\ Cardinality(Exits(pre)) = Cardinality(Exits(A)) + Cardinality(Exits(E))
    <3> IsSeq(A) /\ IsSeq(E)
      BY <2>1
    <3>1. /\ IsSeq(A \o E)
          /\ \A i \in DOMAIN (A \o E) : (\E j \in DOMAIN A : (A \o E)[i] = A[j])
                                      \/ (\E j \in DOMAIN E : (A \o E)[i] = E[j])
          /\ Waits(A \o E) = Waits(A) \cup Waits(E)
          /\ Disjoint(A \o E) <=> Disjoint(A) /\ Disjoint(E) /\ Waits(A) \cap Waits(E) = {}
          /\ Cardinality(Exits(A \o E)) = Cardinality(Exits(A)) + Cardinality(Exits(E))
      BY ConcatTasks, ZenonT(60)
    <3>2. QED
      BY <2>2, <3>1
  <2>4. Cardinality(Exits(A)) = 0
    BY <1>6, FS_EmptySet
  <2>5. \A i \in DOMAIN pre : TaskOK(pre[i], S, Len(code))
    BY <1>6, <1>8, <2>1, <2>3
  <2>6. Cardinality(Exits(pre)) = 1
    BY <2>1, <2>3, <2>4
  <2>7. QED
    BY <1>6, <2>1, <2>3, <2>5, <2>6
<1> HIDE DEF pre
<1>11. /\ IsSeq(scope')
       /\ Len(scope') = 2 + (Cardinality(Exits(pre)) + Cardinality(Exits(Tail(todo))))
  <2>1. IsSeq(todo) /\ Disjoint(todo) /\ IsSeq(scope) /\ Len(scope) = 2 + Cardinality(Exits(todo))
    BY <1>1 DEF CodeInv, BuildInv
  <2>2. /\ Cardinality(Exits(Tail(todo))) \in Nat
        /\ Cardinality(Exits(todo)) = Cardinality(Exits(Tail(todo))) + 0
    BY <1>1, <2>1, TailTasks DEF Here
  <2>3. IsSeq(scope') /\ Len(scope') = Len(scope) + 1
    BY <1>9, <2>1, AppendFacts
  <2> DEFINE x == Cardinality(Exits(Tail(todo)))
             y == Cardinality(Exits(todo))
             z == Cardinality(Exits(pre))
  <2>4. x \in Nat /\ y = x + 0 /\ Len(scope) = 2 + y /\ z = 1 /\ Len(scope') = Len(scope) + 1
    BY <1>10, <2>1, <2>2, <2>3
  <2> HIDE DEF x, y, z
  <2>5. Len(scope') = 2 + (z + x)
    BY <2>4
  <2>6. QED
    BY <2>3, <2>5 DEF x, z
<1>12. QED
  <2>1. /\ IsGraph(code') /\ Reached(code') = DOMAIN code' /\ Len(code) <= Len(code')
        /\ cur' \in DOMAIN code'
        /\ returnFlag' <=> cur' \notin OpenBlocks(code')
        /\ OpenBlocks(code') \ {cur'} = Waits(pre) \cup Waits(Tail(todo))
    BY <1>2, <1>3, <1>9, <1>10
  <2>2. UNCHANGED <<fun, pc>> /\ todo' = pre \o Tail(todo)
    BY <1>9
  <2>3. /\ Waits(pre) \cap Waits(Tail(todo)) = {} /\ 1 \notin Waits(pre)
        /\ \A i \in DOMAIN pre : TaskOK(pre[i], Statements[fun.void], Len(code'))
    BY <1>9, <1>10 DEF S
  <2>4. QED
    BY <1>1, <1>10, <1>11, <2>1, <2>2, <2>3, StepInv

LEMMA ExitScopeInv == ASSUME CodeInv, ExitScope PROVE CodeInv'
<1>1. pc = "build" /\ todo # <<>> /\ Here.task = "exit scope"
  BY DEF ExitScope, AtTask, Here
<1>2. /\ IsGraph(code) /\ Reached(code) = DOMAIN code /\ Len(code) \in Nat
      /\ cur \in DOMAIN code
      /\ returnFlag <=> cur \notin OpenBlocks(code)
      /\ OpenBlocks(code) \ {cur} = Pending(Here) \cup Waits(Tail(todo))
  BY <1>1, BuildFacts
<1>3. Pending(Here) = {}
  BY <1>1 DEF Pending
<1>4. /\ UNCHANGED <<fun, pc>> /\ todo' = Tail(todo) /\ scope' = Front(scope)
      /\ code' = code /\ cur' = cur /\ returnFlag' = returnFlag
  BY DEF ExitScope
<1>5. IsSeq(todo) /\ Disjoint(todo) /\ IsSeq(scope) /\ Len(scope) = 2 + Cardinality(Exits(todo))
  BY <1>1 DEF CodeInv, BuildInv
<1>6. /\ IsSeq(Tail(todo)) /\ Cardinality(Exits(Tail(todo))) \in Nat
      /\ Cardinality(Exits(todo)) = Cardinality(Exits(Tail(todo))) + 1
  BY <1>1, <1>5, TailTasks DEF Here
<1> DEFINE pre == <<>>
<1>7. todo' = pre \o Tail(todo)
  <2> DEFINE t == Tail(todo)
             R == {t[i] : i \in DOMAIN t}
  <2>1. t \in Seq(R)
    BY <1>6 DEF IsSeq
  <2> HIDE DEF R
  <2>2. <<>> \o t = t
    <3> HIDE DEF t
    <3>1. QED
      BY <2>1, ConcatEmptySeq
  <2>3. QED
    BY <1>4, <2>2
<1>8. /\ IsSeq(pre) /\ Disjoint(pre) /\ Waits(pre) = {} /\ DOMAIN pre = {}
      /\ Cardinality(Exits(pre)) = 0
  BY EmptyTasks
<1> HIDE DEF pre
<1>9. IsSeq(scope') /\ Len(scope') = 2 + (Cardinality(Exits(pre)) + Cardinality(Exits(Tail(todo))))
  <2> DEFINE x == Cardinality(Exits(Tail(todo)))
             y == Cardinality(Exits(todo))
             z == Cardinality(Exits(pre))
  <2>1. x \in Nat /\ y = x + 1 /\ Len(scope) = 2 + y /\ z = 0
    BY <1>5, <1>6, <1>8
  <2> HIDE DEF x, y, z
  <2>2. Len(scope) # 0 /\ Len(scope) - 1 = 2 + (z + x)
    BY <2>1
  <2>3. scope # <<>>
    BY <1>5, <2>2, SeqFacts
  <2>4. IsSeq(scope') /\ Len(scope') = Len(scope) - 1
    BY <1>4, <1>5, <2>3, FrontFacts
  <2>5. QED
    BY <2>2, <2>4 DEF x, z
<1>10. QED
  <2>1. /\ IsGraph(code') /\ Reached(code') = DOMAIN code' /\ Len(code) <= Len(code')
        /\ cur' \in DOMAIN code'
        /\ returnFlag' <=> cur' \notin OpenBlocks(code')
        /\ OpenBlocks(code') \ {cur'} = Waits(pre) \cup Waits(Tail(todo))
    BY <1>2, <1>3, <1>4, <1>8
  <2>2. UNCHANGED <<fun, pc>>
    BY <1>4
  <2>3. /\ Waits(pre) \cap Waits(Tail(todo)) = {} /\ 1 \notin Waits(pre)
        /\ \A i \in DOMAIN pre : TaskOK(pre[i], Statements[fun.void], Len(code'))
    BY <1>8
  <2>4. QED
    BY <1>1, <1>7, <1>8, <1>9, <2>1, <2>2, <2>3, StepInv

LEMMA ExpressionInv == ASSUME CodeInv, ExpressionStmt PROVE CodeInv'
<1> DEFINE done == Evaluated(code, cur, Here.node.expr, Here.path)
<1>1. pc = "build" /\ todo # <<>> /\ Here.task = "stmt" /\ Here.node.kind = "expr" /\ ~returnFlag
  BY DEF ExpressionStmt, AtStmt, AtTask, Here
<1>2. /\ fun \in Functions /\ IsGraph(code) /\ Reached(code) = DOMAIN code
      /\ Len(code) \in Nat /\ DOMAIN code = 1..Len(code)
      /\ 1 \in DOMAIN code /\ cur \in DOMAIN code
      /\ OpenBlocks(code) \subseteq DOMAIN code
      /\ OpenBlocks(code) \ {cur} = Pending(Here) \cup Waits(Tail(todo))
      /\ Pending(Here) \cap Waits(Tail(todo)) = {}
      /\ 1 \notin Pending(Here) /\ 1 \notin Waits(Tail(todo))
      /\ TaskOK(Here, Statements[fun.void], Len(code))
      /\ returnFlag <=> cur \notin OpenBlocks(code)
      /\ Terminated(cur) <=> cur \notin OpenBlocks(code)
  BY <1>1, BuildFacts
<1>3. Pending(Here) = {} /\ cur \in OpenBlocks(code)
  BY <1>1, <1>2 DEF Pending
<1>4. /\ IsGraph(done.code) /\ Reached(done.code) = DOMAIN done.code
      /\ Len(done.code) \in Nat /\ Len(code) <= Len(done.code)
      /\ DOMAIN done.code = 1..Len(done.code)
      /\ done.cur \in OpenBlocks(done.code)
      /\ OpenBlocks(done.code) \ {done.cur} = Waits(Tail(todo))
  <2>1. cur \in OpenBlocks(code) /\ IsGraph(code) /\ Reached(code) = DOMAIN code
    BY <1>2, <1>3
  <2>2. /\ IsGraph(done.code) /\ Reached(done.code) = DOMAIN done.code
        /\ Len(done.code) \in Nat /\ Len(code) \in Nat /\ Len(code) <= Len(done.code)
        /\ DOMAIN code = 1..Len(code) /\ DOMAIN done.code = 1..Len(done.code)
        /\ done.cur \in OpenBlocks(done.code)
        /\ OpenBlocks(done.code) \ {done.cur} = OpenBlocks(code) \ {cur}
    BY <2>1, EvaluatedWhole
  <2>3. QED
    BY <1>2, <1>3, <2>2
<1>5. /\ UNCHANGED <<fun, pc, scope>> /\ todo' = Tail(todo) /\ returnFlag' = returnFlag
      /\ code' = done.code /\ cur' = done.cur
  BY DEF ExpressionStmt
<1> HIDE DEF done
<1>6. QED
  <2>1. /\ IsGraph(code') /\ Reached(code') = DOMAIN code' /\ Len(code) <= Len(code')
        /\ cur' \in DOMAIN code'
        /\ returnFlag' <=> cur' \notin OpenBlocks(code')
        /\ OpenBlocks(code') \ {cur'} = Waits(Tail(todo))
    BY <1>1, <1>4, <1>5 DEF OpenBlocks
  <2>2. UNCHANGED <<fun, pc, scope>> /\ todo' = Tail(todo) /\ Here.task # "exit scope"
    BY <1>1, <1>5
  <2>3. QED
    BY <1>1, <2>1, <2>2, PopInv

LEMMA ReturnInv == ASSUME CodeInv, ReturnStmt PROVE CodeInv'
<1> DEFINE value == Evaluated(code, cur, Here.node.expr, Here.path)
           done == IF Here.node.value THEN value ELSE [code |-> code, cur |-> cur]
           d == Emit(done.code, done.cur, Ret)
<1>1. pc = "build" /\ todo # <<>> /\ Here.task = "stmt" /\ Here.node.kind = "return" /\ ~returnFlag
  BY DEF ReturnStmt, AtStmt, AtTask, Here
<1>2. /\ fun \in Functions /\ IsGraph(code) /\ Reached(code) = DOMAIN code
      /\ Len(code) \in Nat /\ DOMAIN code = 1..Len(code)
      /\ 1 \in DOMAIN code /\ cur \in DOMAIN code
      /\ OpenBlocks(code) \subseteq DOMAIN code
      /\ OpenBlocks(code) \ {cur} = Pending(Here) \cup Waits(Tail(todo))
      /\ Pending(Here) \cap Waits(Tail(todo)) = {}
      /\ 1 \notin Pending(Here) /\ 1 \notin Waits(Tail(todo))
      /\ TaskOK(Here, Statements[fun.void], Len(code))
      /\ returnFlag <=> cur \notin OpenBlocks(code)
      /\ Terminated(cur) <=> cur \notin OpenBlocks(code)
  BY <1>1, BuildFacts
<1>3. Pending(Here) = {} /\ cur \in OpenBlocks(code)
  BY <1>1, <1>2 DEF Pending
<1>4. /\ IsGraph(done.code) /\ Reached(done.code) = DOMAIN done.code
      /\ Len(done.code) \in Nat /\ Len(code) <= Len(done.code)
      /\ DOMAIN done.code = 1..Len(done.code)
      /\ done.cur \in OpenBlocks(done.code)
      /\ OpenBlocks(done.code) \ {done.cur} = Waits(Tail(todo))
  <2> HIDE DEF value
  <2>1. cur \in OpenBlocks(code) /\ IsGraph(code) /\ Reached(code) = DOMAIN code
    BY <1>2, <1>3
  <2>2. CASE ~Here.node.value
    <3>1. done.code = code /\ done.cur = cur
      BY <2>2
    <3>2. QED
      BY <1>2, <1>3, <3>1
  <2>3. CASE Here.node.value
    <3>1. /\ IsGraph(value.code) /\ Reached(value.code) = DOMAIN value.code
          /\ Len(value.code) \in Nat /\ Len(code) \in Nat /\ Len(code) <= Len(value.code)
          /\ DOMAIN code = 1..Len(code) /\ DOMAIN value.code = 1..Len(value.code)
          /\ value.cur \in OpenBlocks(value.code)
          /\ OpenBlocks(value.code) \ {value.cur} = OpenBlocks(code) \ {cur}
      BY <2>1, EvaluatedWhole DEF value
    <3>2. done = value
      BY <2>3
    <3>3. QED
      BY <1>2, <1>3, <3>1, <3>2
  <2>4. QED
    BY <2>2, <2>3
<1>5. /\ UNCHANGED <<fun, pc, scope>> /\ todo' = Tail(todo)
      /\ code' = d /\ cur' = done.cur
      /\ returnFlag' = ~(fun.void /\ Here.node.value)
  BY DEF ReturnStmt
<1>6. ~(fun.void /\ Here.node.value)
  BY <1>1, <1>2, FunctionsAssumption DEF TaskOK
<1> HIDE DEF done
<1>7. /\ IsGraph(d) /\ Reached(d) = DOMAIN d /\ DOMAIN d = DOMAIN done.code
      /\ Len(d) = Len(done.code) /\ OpenBlocks(d) = OpenBlocks(done.code) \ {done.cur}
  <2>1. IsTerminator(Ret) /\ Targets(Ret) \subseteq 2..Len(done.code)
    BY InstrFacts
  <2>2. QED
    BY <1>4, <2>1, EmitWhole
<1> HIDE DEF d
<1>8. QED
  <2>1. /\ IsGraph(code') /\ Reached(code') = DOMAIN code' /\ Len(code) <= Len(code')
        /\ cur' \in DOMAIN code'
        /\ returnFlag' <=> cur' \notin OpenBlocks(code')
        /\ OpenBlocks(code') \ {cur'} = Waits(Tail(todo))
    BY <1>4, <1>5, <1>6, <1>7 DEF OpenBlocks
  <2>2. UNCHANGED <<fun, pc, scope>> /\ todo' = Tail(todo) /\ Here.task # "exit scope"
    BY <1>1, <1>5
  <2>3. QED
    BY <1>1, <2>1, <2>2, PopInv

LEMMA IfElseInv == ASSUME CodeInv, IfElse PROVE CodeInv'
<1> DEFINE done == Evaluated(code, cur, Here.node.expr, Here.path)
           L == Len(done.code)
           i == CondBr(Here.path, L + 1, L + 2)
           g == Emit(NewBlocks(done.code, 2), done.cur, i)
           d == Stmt(Here.node.else, Append(Here.path, 2))
           e == [task |-> "else built", trueBB |-> L + 1, stmt |-> Here]
<1>1. pc = "build" /\ todo # <<>> /\ Here.task = "stmt" /\ Here.node.kind = "ifelse" /\ ~returnFlag
  BY DEF IfElse, AtStmt, AtTask, Here
<1>2. /\ fun \in Functions /\ IsGraph(code) /\ Reached(code) = DOMAIN code
      /\ Len(code) \in Nat /\ DOMAIN code = 1..Len(code)
      /\ 1 \in DOMAIN code /\ cur \in DOMAIN code
      /\ OpenBlocks(code) \subseteq DOMAIN code
      /\ OpenBlocks(code) \ {cur} = Pending(Here) \cup Waits(Tail(todo))
      /\ Pending(Here) \cap Waits(Tail(todo)) = {}
      /\ 1 \notin Pending(Here) /\ 1 \notin Waits(Tail(todo))
      /\ TaskOK(Here, Statements[fun.void], Len(code))
      /\ returnFlag <=> cur \notin OpenBlocks(code)
      /\ Terminated(cur) <=> cur \notin OpenBlocks(code)
  BY <1>1, BuildFacts
<1>3. Pending(Here) = {} /\ cur \in OpenBlocks(code)
  BY <1>1, <1>2 DEF Pending
<1>4. /\ IsGraph(done.code) /\ Reached(done.code) = DOMAIN done.code
      /\ Len(done.code) \in Nat /\ Len(code) <= Len(done.code)
      /\ DOMAIN done.code = 1..Len(done.code)
      /\ done.cur \in OpenBlocks(done.code)
      /\ OpenBlocks(done.code) \ {done.cur} = Waits(Tail(todo))
  <2>1. cur \in OpenBlocks(code) /\ IsGraph(code) /\ Reached(code) = DOMAIN code
    BY <1>2, <1>3
  <2>2. /\ IsGraph(done.code) /\ Reached(done.code) = DOMAIN done.code
        /\ Len(done.code) \in Nat /\ Len(code) \in Nat /\ Len(code) <= Len(done.code)
        /\ DOMAIN code = 1..Len(code) /\ DOMAIN done.code = 1..Len(done.code)
        /\ done.cur \in OpenBlocks(done.code)
        /\ OpenBlocks(done.code) \ {done.cur} = OpenBlocks(code) \ {cur}
    BY <2>1, EvaluatedWhole
  <2>3. QED
    BY <1>2, <1>3, <2>2
<1>5. /\ UNCHANGED <<fun, pc, scope>> /\ todo' = <<d, e>> \o Tail(todo)
      /\ code' = g /\ cur' = L + 2 /\ returnFlag' = returnFlag
  BY DEF IfElse
<1>6. /\ d.task = "stmt" /\ d.node = Here.node.else
      /\ e.task = "else built" /\ Pending(e) = {L + 1}
  BY DEF Stmt, Pending
<1>7. d.node \in Statements[fun.void] /\ \A n : TaskOK(e, Statements[fun.void], n)
  BY <1>1, <1>2, FunctionsAssumption DEF TaskOK, Stmt
<1> HIDE DEF done, d, e
<1>8. Targets(i) = {L + 1, L + 2} /\ IsTerminator(i)
  BY InstrFacts
<1> HIDE DEF i, L
<1>9. L \in Nat /\ L + 1 \in (L + 1)..(L + 2) /\ L + 2 \in (L + 1)..(L + 2)
      /\ \A n \in (L + 1)..(L + 2) : n = L + 1 \/ n = L + 2
  BY <1>4 DEF L
<1>10. /\ IsGraph(g) /\ Reached(g) = DOMAIN g /\ Len(g) = L + 2 /\ DOMAIN g = 1..(L + 2)
       /\ OpenBlocks(g) = Waits(Tail(todo)) \cup {L + 1, L + 2}
  <2>1. Targets(i) = (L + 1)..(L + 2)
    BY <1>8, <1>9
  <2>2. /\ IsGraph(g) /\ Reached(g) = DOMAIN g
        /\ Len(g) = L + 2 /\ DOMAIN g = 1..(L + 2)
        /\ OpenBlocks(g) = (OpenBlocks(done.code) \ {done.cur}) \cup ((L + 1)..(L + 2))
    BY <1>4, <1>8, <2>1, BranchWhole DEF L
  <2>3. QED
    BY <1>4, <1>8, <2>1, <2>2
<1> HIDE DEF g
<1>11. /\ L + 1 \notin Waits(Tail(todo)) /\ L + 2 \notin Waits(Tail(todo))
       /\ L + 1 # L + 2 /\ L + 1 # 1 /\ L + 2 # 1 /\ L + 2 \in 1..(L + 2) /\ L + 1 \in 1..(L + 2)
       /\ Len(code) <= L + 2
  <2>1. Waits(Tail(todo)) \subseteq 1..L
    BY <1>4 DEF OpenBlocks, L
  <2>2. Len(done.code) = L
    BY DEF L
  <2>3. 1 <= L
    BY <1>2, <1>4, <2>2
  <2>4. QED
    BY <1>2, <1>4, <1>9, <2>1, <2>2, <2>3
<1>12. QED
  <2>1. /\ IsGraph(code') /\ Reached(code') = DOMAIN code' /\ Len(code) <= Len(code')
        /\ cur' \in DOMAIN code'
        /\ returnFlag' <=> cur' \notin OpenBlocks(code')
        /\ OpenBlocks(code') \ {cur'} = Pending(e) \cup Waits(Tail(todo))
    BY <1>1, <1>5, <1>6, <1>10, <1>11
  <2>2. /\ UNCHANGED <<fun, pc, scope>> /\ todo' = <<d, e>> \o Tail(todo)
        /\ Here.task # "exit scope" /\ d.task = "stmt" /\ e.task # "exit scope"
        /\ d.node \in Statements[fun.void] /\ TaskOK(e, Statements[fun.void], Len(code'))
        /\ Pending(e) \cap Waits(Tail(todo)) = {} /\ 1 \notin Pending(e)
    BY <1>1, <1>5, <1>6, <1>7, <1>11
  <2>3. QED
    BY <1>1, <2>1, <2>2, PushInv

LEMMA IfInv == ASSUME CodeInv, If PROVE CodeInv'
<1> DEFINE done == Evaluated(code, cur, Here.node.expr, Here.path)
           L == Len(done.code)
           i == CondBr(Here.path, L + 1, L + 2)
           g == Emit(NewBlocks(done.code, 2), done.cur, i)
           d == Stmt(Here.node.then, Append(Here.path, 1))
           e == [task |-> "if built", nextBB |-> L + 2]
<1>1. pc = "build" /\ todo # <<>> /\ Here.task = "stmt" /\ Here.node.kind = "if" /\ ~returnFlag
  BY DEF If, AtStmt, AtTask, Here
<1>2. /\ fun \in Functions /\ IsGraph(code) /\ Reached(code) = DOMAIN code
      /\ Len(code) \in Nat /\ DOMAIN code = 1..Len(code)
      /\ 1 \in DOMAIN code /\ cur \in DOMAIN code
      /\ OpenBlocks(code) \subseteq DOMAIN code
      /\ OpenBlocks(code) \ {cur} = Pending(Here) \cup Waits(Tail(todo))
      /\ Pending(Here) \cap Waits(Tail(todo)) = {}
      /\ 1 \notin Pending(Here) /\ 1 \notin Waits(Tail(todo))
      /\ TaskOK(Here, Statements[fun.void], Len(code))
      /\ returnFlag <=> cur \notin OpenBlocks(code)
      /\ Terminated(cur) <=> cur \notin OpenBlocks(code)
  BY <1>1, BuildFacts
<1>3. Pending(Here) = {} /\ cur \in OpenBlocks(code)
  BY <1>1, <1>2 DEF Pending
<1>4. /\ IsGraph(done.code) /\ Reached(done.code) = DOMAIN done.code
      /\ Len(done.code) \in Nat /\ Len(code) <= Len(done.code)
      /\ DOMAIN done.code = 1..Len(done.code)
      /\ done.cur \in OpenBlocks(done.code)
      /\ OpenBlocks(done.code) \ {done.cur} = Waits(Tail(todo))
  <2>1. cur \in OpenBlocks(code) /\ IsGraph(code) /\ Reached(code) = DOMAIN code
    BY <1>2, <1>3
  <2>2. /\ IsGraph(done.code) /\ Reached(done.code) = DOMAIN done.code
        /\ Len(done.code) \in Nat /\ Len(code) \in Nat /\ Len(code) <= Len(done.code)
        /\ DOMAIN code = 1..Len(code) /\ DOMAIN done.code = 1..Len(done.code)
        /\ done.cur \in OpenBlocks(done.code)
        /\ OpenBlocks(done.code) \ {done.cur} = OpenBlocks(code) \ {cur}
    BY <2>1, EvaluatedWhole
  <2>3. QED
    BY <1>2, <1>3, <2>2
<1>5. /\ UNCHANGED <<fun, pc, scope>> /\ todo' = <<d, e>> \o Tail(todo)
      /\ code' = g /\ cur' = L + 1 /\ returnFlag' = returnFlag
  BY DEF If
<1>6. /\ d.task = "stmt" /\ d.node = Here.node.then
      /\ e.task = "if built" /\ Pending(e) = {L + 2}
  BY DEF Stmt, Pending
<1>7. d.node \in Statements[fun.void] /\ \A n : TaskOK(e, Statements[fun.void], n)
  BY <1>1, <1>2, FunctionsAssumption DEF TaskOK, Stmt
<1> HIDE DEF done, d, e
<1>8. Targets(i) = {L + 1, L + 2} /\ IsTerminator(i)
  BY InstrFacts
<1> HIDE DEF i, L
<1>9. L \in Nat /\ L + 1 \in (L + 1)..(L + 2) /\ L + 2 \in (L + 1)..(L + 2)
      /\ \A n \in (L + 1)..(L + 2) : n = L + 1 \/ n = L + 2
  BY <1>4 DEF L
<1>10. /\ IsGraph(g) /\ Reached(g) = DOMAIN g /\ Len(g) = L + 2 /\ DOMAIN g = 1..(L + 2)
       /\ OpenBlocks(g) = Waits(Tail(todo)) \cup {L + 1, L + 2}
  <2>1. Targets(i) = (L + 1)..(L + 2)
    BY <1>8, <1>9
  <2>2. /\ IsGraph(g) /\ Reached(g) = DOMAIN g
        /\ Len(g) = L + 2 /\ DOMAIN g = 1..(L + 2)
        /\ OpenBlocks(g) = (OpenBlocks(done.code) \ {done.cur}) \cup ((L + 1)..(L + 2))
    BY <1>4, <1>8, <2>1, BranchWhole DEF L
  <2>3. QED
    BY <1>4, <1>8, <2>1, <2>2
<1> HIDE DEF g
<1>11. /\ L + 1 \notin Waits(Tail(todo)) /\ L + 2 \notin Waits(Tail(todo))
       /\ L + 1 # L + 2 /\ L + 1 # 1 /\ L + 2 # 1 /\ L + 2 \in 1..(L + 2) /\ L + 1 \in 1..(L + 2)
       /\ Len(code) <= L + 2
  <2>1. Waits(Tail(todo)) \subseteq 1..L
    BY <1>4 DEF OpenBlocks, L
  <2>2. Len(done.code) = L
    BY DEF L
  <2>3. 1 <= L
    BY <1>2, <1>4, <2>2
  <2>4. QED
    BY <1>2, <1>4, <1>9, <2>1, <2>2, <2>3
<1>12. QED
  <2>1. /\ IsGraph(code') /\ Reached(code') = DOMAIN code' /\ Len(code) <= Len(code')
        /\ cur' \in DOMAIN code'
        /\ returnFlag' <=> cur' \notin OpenBlocks(code')
        /\ OpenBlocks(code') \ {cur'} = Pending(e) \cup Waits(Tail(todo))
    BY <1>1, <1>5, <1>6, <1>10, <1>11
  <2>2. /\ UNCHANGED <<fun, pc, scope>> /\ todo' = <<d, e>> \o Tail(todo)
        /\ Here.task # "exit scope" /\ d.task = "stmt" /\ e.task # "exit scope"
        /\ d.node \in Statements[fun.void] /\ TaskOK(e, Statements[fun.void], Len(code'))
        /\ Pending(e) \cap Waits(Tail(todo)) = {} /\ 1 \notin Pending(e)
    BY <1>1, <1>5, <1>6, <1>7, <1>11
  <2>3. QED
    BY <1>1, <2>1, <2>2, PushInv

LEMMA ElseBuiltInv == ASSUME CodeInv, ElseBuilt PROVE CodeInv'
<1> DEFINE L == Len(code)
           inserted == ~Terminated(cur)
           nextBB == IF inserted THEN L + 1 ELSE 0
           g == Emit(NewBlocks(code, 1), cur, Br(L + 1))
           d == Stmt(Here.stmt.node.then, Append(Here.stmt.path, 1))
           e == [task |-> "then built", nextBB |-> nextBB]
<1>1. pc = "build" /\ todo # <<>> /\ Here.task = "else built"
  BY DEF ElseBuilt, AtTask, Here
<1>2. /\ fun \in Functions /\ IsGraph(code) /\ Reached(code) = DOMAIN code
      /\ Len(code) \in Nat /\ DOMAIN code = 1..Len(code)
      /\ 1 \in DOMAIN code /\ cur \in DOMAIN code
      /\ OpenBlocks(code) \subseteq DOMAIN code
      /\ OpenBlocks(code) \ {cur} = Pending(Here) \cup Waits(Tail(todo))
      /\ Pending(Here) \cap Waits(Tail(todo)) = {}
      /\ 1 \notin Pending(Here) /\ 1 \notin Waits(Tail(todo))
      /\ TaskOK(Here, Statements[fun.void], Len(code))
      /\ returnFlag <=> cur \notin OpenBlocks(code)
      /\ Terminated(cur) <=> cur \notin OpenBlocks(code)
  BY <1>1, BuildFacts
<1>3. Pending(Here) = {Here.trueBB}
  BY <1>1 DEF Pending
<1>4. /\ UNCHANGED <<fun, pc, scope>> /\ todo' = <<d, e>> \o Tail(todo)
      /\ code' = IF inserted THEN g ELSE code
      /\ cur' = Here.trueBB /\ returnFlag' = FALSE
  <2>1. inserted => g = Emit(NewBlocks(code, 1), cur, Br(nextBB))
    OBVIOUS
  <2>2. QED
    BY <2>1 DEF ElseBuilt
<1>5. /\ d.task = "stmt" /\ d.node = Here.stmt.node.then
      /\ e.task = "then built" /\ Pending(e) = {nextBB} \ {0} /\ e.nextBB = nextBB
  BY DEF Stmt, Pending
<1>6. d.node \in Statements[fun.void]
  BY <1>1, <1>2, <1>5 DEF TaskOK
<1> HIDE DEF d, e
<1>7. nextBB \in Nat /\ \A n : TaskOK(e, Statements[fun.void], n)
  <2>1. nextBB \in Nat
    BY <1>2
  <2> HIDE DEF nextBB
  <2>2. QED
    BY <1>5, <2>1 DEF TaskOK
<1>8. /\ Here.trueBB \in OpenBlocks(code) /\ Here.trueBB # cur
      /\ Here.trueBB \notin Waits(Tail(todo)) /\ Here.trueBB \in 1..L
      /\ Waits(Tail(todo)) \subseteq 1..L
  BY <1>2, <1>3
<1>9. CASE inserted
  <2>1. nextBB = L + 1 /\ L + 1 # 0 /\ L + 1 # 1 /\ L + 1 \notin 1..L
    BY <1>2, <1>9
  <2>2. Targets(Br(L + 1)) = {L + 1} /\ IsTerminator(Br(L + 1))
    BY InstrFacts
  <2>3. {L + 1} = (L + 1)..(L + 1) /\ 1..L \subseteq 1..(L + 1)
    BY <1>2
  <2>4. /\ IsGraph(g) /\ Reached(g) = DOMAIN g /\ Len(g) = L + 1 /\ DOMAIN g = 1..(L + 1)
        /\ OpenBlocks(g) = (OpenBlocks(code) \ {cur}) \cup {L + 1}
    <3>1. /\ IsGraph(code) /\ Reached(code) = DOMAIN code /\ cur \in OpenBlocks(code)
          /\ Targets(Br(L + 1)) = (L + 1)..(L + 1) /\ 1 \in Nat
      BY <1>2, <1>9, <2>2, <2>3
    <3>2. /\ IsGraph(g) /\ Reached(g) = DOMAIN g /\ Len(g) = L + 1 /\ DOMAIN g = 1..(L + 1)
          /\ OpenBlocks(g) = (OpenBlocks(code) \ {cur}) \cup ((L + 1)..(L + 1))
      <4> DEFINE n == 1
      <4>1. /\ n \in Nat /\ IsTerminator(Br(L + 1))
            /\ Targets(Br(L + 1)) = (Len(code) + 1)..(Len(code) + n)
            /\ g = Emit(NewBlocks(code, n), cur, Br(L + 1))
        BY <2>2, <3>1
      <4> HIDE DEF n, g
      <4>2. /\ IsGraph(g) /\ Reached(g) = DOMAIN g
            /\ Len(g) = Len(code) + n /\ DOMAIN g = 1..(Len(code) + n)
            /\ OpenBlocks(g) = (OpenBlocks(code) \ {cur}) \cup ((Len(code) + 1)..(Len(code) + n))
        BY <3>1, <4>1, BranchWhole
      <4>3. QED
        BY <4>2 DEF n
    <3>3. QED
      BY <2>3, <3>2
  <2> HIDE DEF g, nextBB
  <2>5. /\ IsGraph(code') /\ Reached(code') = DOMAIN code' /\ Len(code) <= Len(code')
        /\ cur' \in DOMAIN code'
        /\ returnFlag' <=> cur' \notin OpenBlocks(code')
        /\ OpenBlocks(code') \ {cur'} = Pending(e) \cup Waits(Tail(todo))
    <3>1. code' = g /\ Pending(e) = {L + 1} /\ Len(code) <= L + 1
      <4>1. code' = g
        BY <1>4, <1>9
      <4>2. Pending(e) = {L + 1}
        BY <1>5, <2>1
      <4>3. Len(code) <= L + 1
        BY <1>2
      <4>4. QED
        BY <4>1, <4>2, <4>3
    <3>2. OpenBlocks(g) = {Here.trueBB} \cup Waits(Tail(todo)) \cup {L + 1}
      BY <1>2, <1>3, <2>4
    <3>3. QED
      BY <1>4, <1>8, <2>1, <2>3, <2>4, <3>1, <3>2
  <2>6. /\ UNCHANGED <<fun, pc, scope>> /\ todo' = <<d, e>> \o Tail(todo)
        /\ Here.task # "exit scope" /\ d.task = "stmt" /\ e.task # "exit scope"
        /\ d.node \in Statements[fun.void] /\ TaskOK(e, Statements[fun.void], Len(code'))
        /\ Pending(e) \cap Waits(Tail(todo)) = {} /\ 1 \notin Pending(e)
    BY <1>1, <1>4, <1>5, <1>6, <1>7, <1>8, <2>1
  <2>7. QED
    BY <1>1, <2>5, <2>6, PushInv
<1>10. CASE ~inserted
  <2>1. Pending(e) = {} /\ code' = code
    BY <1>4, <1>5, <1>10
  <2> HIDE DEF nextBB
  <2>2. /\ IsGraph(code') /\ Reached(code') = DOMAIN code' /\ Len(code) <= Len(code')
        /\ cur' \in DOMAIN code'
        /\ returnFlag' <=> cur' \notin OpenBlocks(code')
        /\ OpenBlocks(code') \ {cur'} = Pending(e) \cup Waits(Tail(todo))
    <3>1. cur \notin OpenBlocks(code)
      BY <1>2, <1>10
    <3>2. QED
      BY <1>2, <1>3, <1>4, <1>8, <2>1, <3>1
  <2>3. /\ UNCHANGED <<fun, pc, scope>> /\ todo' = <<d, e>> \o Tail(todo)
        /\ Here.task # "exit scope" /\ d.task = "stmt" /\ e.task # "exit scope"
        /\ d.node \in Statements[fun.void] /\ TaskOK(e, Statements[fun.void], Len(code'))
        /\ Pending(e) \cap Waits(Tail(todo)) = {} /\ 1 \notin Pending(e)
    BY <1>1, <1>4, <1>5, <1>6, <1>7, <1>8, <2>1
  <2>4. QED
    BY <1>1, <2>2, <2>3, PushInv
<1>11. QED
  BY <1>9, <1>10

LEMMA ThenBuiltInv == ASSUME CodeInv, ThenBuilt PROVE CodeInv'
<1> DEFINE L == Len(code)
           next == Here.nextBB
           g == Emit(NewBlocks(code, 1), cur, Br(L + 1))
           h == Emit(code, cur, Br(next))
<1>1. pc = "build" /\ todo # <<>> /\ Here.task = "then built"
  BY DEF ThenBuilt, AtTask, Here
<1>2. /\ fun \in Functions /\ IsGraph(code) /\ Reached(code) = DOMAIN code
      /\ Len(code) \in Nat /\ DOMAIN code = 1..Len(code)
      /\ 1 \in DOMAIN code /\ cur \in DOMAIN code
      /\ OpenBlocks(code) \subseteq DOMAIN code
      /\ OpenBlocks(code) \ {cur} = Pending(Here) \cup Waits(Tail(todo))
      /\ Pending(Here) \cap Waits(Tail(todo)) = {}
      /\ 1 \notin Pending(Here) /\ 1 \notin Waits(Tail(todo))
      /\ TaskOK(Here, Statements[fun.void], Len(code))
      /\ returnFlag <=> cur \notin OpenBlocks(code)
      /\ Terminated(cur) <=> cur \notin OpenBlocks(code)
  BY <1>1, BuildFacts
<1>3. Pending(Here) = {next} \ {0} /\ next \in Nat
  BY <1>1, <1>2 DEF Pending, TaskOK
<1>4. /\ UNCHANGED <<fun, pc, scope>> /\ todo' = Tail(todo)
      /\ next = 0 /\ Terminated(cur) => code' = code /\ cur' = cur /\ returnFlag' = TRUE
      /\ next = 0 /\ ~Terminated(cur) => code' = g /\ cur' = L + 1 /\ returnFlag' = FALSE
      /\ next # 0 /\ Terminated(cur) => code' = code /\ cur' = next /\ returnFlag' = FALSE
      /\ next # 0 /\ ~Terminated(cur) => code' = h /\ cur' = next /\ returnFlag' = FALSE
  BY DEF ThenBuilt
<1> HIDE DEF next
<1>5. CASE next = 0 /\ Terminated(cur)
  <2>1. /\ IsGraph(code') /\ Reached(code') = DOMAIN code' /\ Len(code) <= Len(code')
        /\ cur' \in DOMAIN code'
        /\ returnFlag' <=> cur' \notin OpenBlocks(code')
        /\ OpenBlocks(code') \ {cur'} = Waits(Tail(todo))
    BY <1>2, <1>3, <1>4, <1>5
  <2>2. UNCHANGED <<fun, pc, scope>> /\ todo' = Tail(todo) /\ Here.task # "exit scope"
    BY <1>1, <1>4
  <2>3. QED
    BY <1>1, <2>1, <2>2, PopInv
<1>6. CASE next = 0 /\ ~Terminated(cur)
  <2>1. Targets(Br(L + 1)) = {L + 1} /\ IsTerminator(Br(L + 1))
    BY InstrFacts
  <2>2. {L + 1} = (L + 1)..(L + 1) /\ Waits(Tail(todo)) \subseteq 1..L /\ L + 1 \notin 1..L
    BY <1>2
  <2>3. /\ IsGraph(g) /\ Reached(g) = DOMAIN g /\ Len(g) = L + 1 /\ DOMAIN g = 1..(L + 1)
        /\ OpenBlocks(g) = (OpenBlocks(code) \ {cur}) \cup {L + 1}
    <3>1. /\ IsGraph(code) /\ Reached(code) = DOMAIN code /\ cur \in OpenBlocks(code)
          /\ Targets(Br(L + 1)) = (L + 1)..(L + 1) /\ 1 \in Nat
      BY <1>2, <1>6, <2>1, <2>2
    <3>2. /\ IsGraph(g) /\ Reached(g) = DOMAIN g /\ Len(g) = L + 1 /\ DOMAIN g = 1..(L + 1)
          /\ OpenBlocks(g) = (OpenBlocks(code) \ {cur}) \cup ((L + 1)..(L + 1))
      <4> DEFINE n == 1
      <4>1. /\ n \in Nat /\ IsTerminator(Br(L + 1))
            /\ Targets(Br(L + 1)) = (Len(code) + 1)..(Len(code) + n)
            /\ g = Emit(NewBlocks(code, n), cur, Br(L + 1))
        BY <2>1, <3>1
      <4> HIDE DEF n, g
      <4>2. /\ IsGraph(g) /\ Reached(g) = DOMAIN g
            /\ Len(g) = Len(code) + n /\ DOMAIN g = 1..(Len(code) + n)
            /\ OpenBlocks(g) = (OpenBlocks(code) \ {cur}) \cup ((Len(code) + 1)..(Len(code) + n))
        BY <3>1, <4>1, BranchWhole
      <4>3. QED
        BY <4>2 DEF n
    <3>3. QED
      BY <2>2, <3>2
  <2> HIDE DEF g
  <2>4. /\ IsGraph(code') /\ Reached(code') = DOMAIN code' /\ Len(code) <= Len(code')
        /\ cur' \in DOMAIN code'
        /\ returnFlag' <=> cur' \notin OpenBlocks(code')
        /\ OpenBlocks(code') \ {cur'} = Waits(Tail(todo))
    <3>1. L \in Nat /\ L + 1 \in 1..(L + 1) /\ L <= L + 1
      BY <1>2
    <3>2. OpenBlocks(g) = Waits(Tail(todo)) \cup {L + 1}
      BY <1>2, <1>3, <1>6, <2>3
    <3>3. QED
      BY <1>4, <1>6, <2>2, <2>3, <3>1, <3>2
  <2>5. UNCHANGED <<fun, pc, scope>> /\ todo' = Tail(todo) /\ Here.task # "exit scope"
    BY <1>1, <1>4
  <2>6. QED
    BY <1>1, <2>4, <2>5, PopInv
<1>7. CASE next # 0 /\ Terminated(cur)
  <2>1. /\ IsGraph(code') /\ Reached(code') = DOMAIN code' /\ Len(code) <= Len(code')
        /\ cur' \in DOMAIN code'
        /\ returnFlag' <=> cur' \notin OpenBlocks(code')
        /\ OpenBlocks(code') \ {cur'} = Waits(Tail(todo))
    BY <1>2, <1>3, <1>4, <1>7
  <2>2. UNCHANGED <<fun, pc, scope>> /\ todo' = Tail(todo) /\ Here.task # "exit scope"
    BY <1>1, <1>4
  <2>3. QED
    BY <1>1, <2>1, <2>2, PopInv
<1>8. CASE next # 0 /\ ~Terminated(cur)
  <2>1. Targets(Br(next)) = {next} /\ IsTerminator(Br(next))
    BY InstrFacts
  <2>2. /\ IsGraph(h) /\ Reached(h) = DOMAIN h /\ DOMAIN h = DOMAIN code /\ Len(h) = L
        /\ OpenBlocks(h) = OpenBlocks(code) \ {cur}
    <3>1. cur \in OpenBlocks(code) /\ next \in 2..L
      BY <1>2, <1>3, <1>8
    <3>2. Targets(Br(next)) \subseteq 2..Len(code)
      BY <2>1, <3>1
    <3>3. QED
      BY <1>2, <2>1, <3>1, <3>2, EmitWhole
  <2> HIDE DEF h
  <2>3. /\ IsGraph(code') /\ Reached(code') = DOMAIN code' /\ Len(code) <= Len(code')
        /\ cur' \in DOMAIN code'
        /\ returnFlag' <=> cur' \notin OpenBlocks(code')
        /\ OpenBlocks(code') \ {cur'} = Waits(Tail(todo))
    BY <1>2, <1>3, <1>4, <1>8, <2>2
  <2>4. UNCHANGED <<fun, pc, scope>> /\ todo' = Tail(todo) /\ Here.task # "exit scope"
    BY <1>1, <1>4
  <2>5. QED
    BY <1>1, <2>3, <2>4, PopInv
<1>9. QED
  BY <1>5, <1>6, <1>7, <1>8

LEMMA IfBuiltInv == ASSUME CodeInv, IfBuilt PROVE CodeInv'
<1> DEFINE h == Emit(code, cur, Br(Here.nextBB))
<1>1. pc = "build" /\ todo # <<>> /\ Here.task = "if built"
  BY DEF IfBuilt, AtTask, Here
<1>2. /\ fun \in Functions /\ IsGraph(code) /\ Reached(code) = DOMAIN code
      /\ Len(code) \in Nat /\ DOMAIN code = 1..Len(code)
      /\ 1 \in DOMAIN code /\ cur \in DOMAIN code
      /\ OpenBlocks(code) \subseteq DOMAIN code
      /\ OpenBlocks(code) \ {cur} = Pending(Here) \cup Waits(Tail(todo))
      /\ Pending(Here) \cap Waits(Tail(todo)) = {}
      /\ 1 \notin Pending(Here) /\ 1 \notin Waits(Tail(todo))
      /\ TaskOK(Here, Statements[fun.void], Len(code))
      /\ returnFlag <=> cur \notin OpenBlocks(code)
      /\ Terminated(cur) <=> cur \notin OpenBlocks(code)
  BY <1>1, BuildFacts
<1>3. Pending(Here) = {Here.nextBB} /\ Here.nextBB \in 2..Len(code)
  <2>1. Pending(Here) = {Here.nextBB}
    BY <1>1 DEF Pending
  <2>2. Here.nextBB \in 2..Len(code)
    BY <1>2, <2>1
  <2>3. QED
    BY <1>1, <1>2, <2>1, <2>2 DEF TaskOK
<1>4. /\ UNCHANGED <<fun, pc, scope>> /\ todo' = Tail(todo)
      /\ code' = IF returnFlag THEN code ELSE h
      /\ cur' = Here.nextBB /\ returnFlag' = FALSE
  BY DEF IfBuilt
<1>5. ASSUME ~returnFlag
      PROVE  /\ IsGraph(h) /\ Reached(h) = DOMAIN h
             /\ DOMAIN h = DOMAIN code /\ Len(h) = Len(code)
             /\ OpenBlocks(h) = OpenBlocks(code) \ {cur}
  <2>1. Targets(Br(Here.nextBB)) = {Here.nextBB} /\ IsTerminator(Br(Here.nextBB))
    BY InstrFacts
  <2>2. cur \in OpenBlocks(code) /\ Targets(Br(Here.nextBB)) \subseteq 2..Len(code)
    BY <1>2, <1>3, <1>5, <2>1
  <2>3. QED
    BY <1>2, <2>1, <2>2, EmitWhole
<1> HIDE DEF h
<1>6. /\ IsGraph(code') /\ Reached(code') = DOMAIN code'
      /\ DOMAIN code' = DOMAIN code /\ Len(code') = Len(code)
      /\ OpenBlocks(code') = OpenBlocks(code) \ {cur}
  BY <1>2, <1>4, <1>5
<1>7. QED
  <2>1. /\ IsGraph(code') /\ Reached(code') = DOMAIN code' /\ Len(code) <= Len(code')
        /\ cur' \in DOMAIN code'
        /\ returnFlag' <=> cur' \notin OpenBlocks(code')
        /\ OpenBlocks(code') \ {cur'} = Waits(Tail(todo))
    BY <1>2, <1>3, <1>4, <1>6
  <2>2. UNCHANGED <<fun, pc, scope>> /\ todo' = Tail(todo) /\ Here.task # "exit scope"
    BY <1>1, <1>4
  <2>3. QED
    BY <1>1, <2>1, <2>2, PopInv

LEMMA BodyBuiltInv == ASSUME CodeInv, BodyBuilt PROVE CodeInv'
<1> DEFINE h == Emit(code, cur, Br(Here.loopJudge))
<1>1. pc = "build" /\ todo # <<>> /\ Here.task = "body built"
  BY DEF BodyBuilt, AtTask, Here
<1>2. /\ fun \in Functions /\ IsGraph(code) /\ Reached(code) = DOMAIN code
      /\ Len(code) \in Nat /\ DOMAIN code = 1..Len(code)
      /\ 1 \in DOMAIN code /\ cur \in DOMAIN code
      /\ OpenBlocks(code) \subseteq DOMAIN code
      /\ OpenBlocks(code) \ {cur} = Pending(Here) \cup Waits(Tail(todo))
      /\ Pending(Here) \cap Waits(Tail(todo)) = {}
      /\ 1 \notin Pending(Here) /\ 1 \notin Waits(Tail(todo))
      /\ TaskOK(Here, Statements[fun.void], Len(code))
      /\ returnFlag <=> cur \notin OpenBlocks(code)
      /\ Terminated(cur) <=> cur \notin OpenBlocks(code)
  BY <1>1, BuildFacts
<1>3. Pending(Here) = {Here.out} /\ Here.loopJudge \in 2..Len(code)
  <2>1. Pending(Here) = {Here.out}
    BY <1>1 DEF Pending
  <2>2. Here.out \in 2..Len(code)
    BY <1>2, <2>1
  <2>3. QED
    BY <1>1, <1>2, <2>1, <2>2 DEF TaskOK
<1>4. /\ UNCHANGED <<fun, pc, scope>> /\ todo' = Tail(todo)
      /\ code' = IF Terminated(cur) THEN code ELSE h
      /\ cur' = Here.out /\ returnFlag' = FALSE
  BY DEF BodyBuilt
<1>5. ASSUME ~Terminated(cur)
      PROVE  /\ IsGraph(h) /\ Reached(h) = DOMAIN h
             /\ DOMAIN h = DOMAIN code /\ Len(h) = Len(code)
             /\ OpenBlocks(h) = OpenBlocks(code) \ {cur}
  <2>1. Targets(Br(Here.loopJudge)) = {Here.loopJudge} /\ IsTerminator(Br(Here.loopJudge))
    BY InstrFacts
  <2>2. cur \in OpenBlocks(code) /\ Targets(Br(Here.loopJudge)) \subseteq 2..Len(code)
    BY <1>2, <1>3, <1>5, <2>1
  <2>3. QED
    BY <1>2, <2>1, <2>2, EmitWhole
<1> HIDE DEF h
<1>6. /\ IsGraph(code') /\ Reached(code') = DOMAIN code'
      /\ DOMAIN code' = DOMAIN code /\ Len(code') = Len(code)
      /\ OpenBlocks(code') = OpenBlocks(code) \ {cur}
  BY <1>2, <1>4, <1>5
<1>7. QED
  <2>1. /\ IsGraph(code') /\ Reached(code') = DOMAIN code' /\ Len(code) <= Len(code')
        /\ cur' \in DOMAIN code'
        /\ returnFlag' <=> cur' \notin OpenBlocks(code')
        /\ OpenBlocks(code') \ {cur'} = Waits(Tail(todo))
    BY <1>2, <1>3, <1>4, <1>6
  <2>2. UNCHANGED <<fun, pc, scope>> /\ todo' = Tail(todo) /\ Here.task # "exit scope"
    BY <1>1, <1>4
  <2>3. QED
    BY <1>1, <2>1, <2>2, PopInv

LEMMA WhileInv == ASSUME CodeInv, While PROVE CodeInv'
<1> DEFINE L == Len(code)
           g0 == NewBlocks(code, 3)
           g1 == Emit(g0, cur, Br(L + 1))
           done == Evaluated(g1, L + 1, Here.node.expr, Here.path)
           i == CondBr(Here.path, L + 2, L + 3)
           g == Emit(done.code, done.cur, i)
           d == Stmt(Here.node.body, Append(Here.path, 1))
           e == [task |-> "body built", loopJudge |-> L + 1, out |-> L + 3]
<1>1. pc = "build" /\ todo # <<>> /\ Here.task = "stmt" /\ Here.node.kind = "while" /\ ~returnFlag
  BY DEF While, AtStmt, AtTask, Here
<1>2. /\ fun \in Functions /\ IsGraph(code) /\ Reached(code) = DOMAIN code
      /\ Len(code) \in Nat /\ DOMAIN code = 1..Len(code)
      /\ 1 \in DOMAIN code /\ cur \in DOMAIN code
      /\ OpenBlocks(code) \subseteq DOMAIN code
      /\ OpenBlocks(code) \ {cur} = Pending(Here) \cup Waits(Tail(todo))
      /\ Pending(Here) \cap Waits(Tail(todo)) = {}
      /\ 1 \notin Pending(Here) /\ 1 \notin Waits(Tail(todo))
      /\ TaskOK(Here, Statements[fun.void], Len(code))
      /\ returnFlag <=> cur \notin OpenBlocks(code)
      /\ Terminated(cur) <=> cur \notin OpenBlocks(code)
  BY <1>1, BuildFacts
<1>3. Pending(Here) = {} /\ cur \in OpenBlocks(code)
  BY <1>1, <1>2 DEF Pending
<1>4. /\ UNCHANGED <<fun, pc, scope>> /\ todo' = <<d, e>> \o Tail(todo)
      /\ code' = g /\ cur' = L + 2 /\ returnFlag' = returnFlag
  <2>1. ~Terminated(cur)
    BY <1>2, <1>3
  <2>2. QED
    BY <2>1 DEF While
<1>5. /\ d.task = "stmt" /\ d.node = Here.node.body
      /\ e.task = "body built" /\ e.loopJudge = L + 1 /\ Pending(e) = {L + 3}
  BY DEF Stmt, Pending
<1>6. d.node \in Statements[fun.void]
  BY <1>1, <1>2, <1>5, FunctionsAssumption DEF TaskOK
<1> HIDE DEF d, e
<1>7. /\ Targets(i) = {L + 2, L + 3} /\ IsTerminator(i)
      /\ Targets(Br(L + 1)) = {L + 1} /\ IsTerminator(Br(L + 1))
  BY InstrFacts
<1> HIDE DEF i
<1>8. /\ L \in Nat /\ (L + 1)..(L + 3) = {L + 1, L + 2, L + 3} /\ 1 \in 1..L
      /\ L + 1 # L + 2 /\ L + 1 # L + 3 /\ L + 2 # L + 3
      /\ L + 1 \notin 1..L /\ L + 2 \notin 1..L /\ L + 3 \notin 1..L
      /\ Waits(Tail(todo)) \subseteq 1..L
      /\ 1 # L + 1 /\ 1 # L + 2 /\ 1 # L + 3
      /\ {L + 1, L + 2, L + 3} \subseteq 2..(L + 3)
      /\ L + 2 \in 1..(L + 3) /\ L <= L + 3
  BY <1>2
<1>9. /\ IsGraph(g0) /\ Len(g0) = L + 3 /\ DOMAIN g0 = 1..(L + 3)
      /\ OpenBlocks(g0) = OpenBlocks(code) \cup {L + 1, L + 2, L + 3}
      /\ Reached(code) \subseteq Reached(g0)
  <2>1. 3 \in Nat
    OBVIOUS
  <2>2. /\ IsGraph(g0) /\ Len(g0) = L + 3 /\ DOMAIN g0 = 1..(L + 3)
        /\ OpenBlocks(g0) = OpenBlocks(code) \cup ((L + 1)..(L + 3))
        /\ Reached(code) \subseteq Reached(g0)
    BY <1>2, <2>1, NewBlocksGraph
  <2>3. QED
    BY <1>8, <2>2
<1> HIDE DEF g0
<1>10. /\ IsGraph(g1) /\ Len(g1) = L + 3 /\ DOMAIN g1 = 1..(L + 3)
       /\ OpenBlocks(g1) = Waits(Tail(todo)) \cup {L + 1, L + 2, L + 3}
       /\ 1..L \subseteq Reached(g1) /\ L + 1 \in Reached(g1)
  <2>1. cur \in OpenBlocks(g0) /\ Targets(Br(L + 1)) \subseteq 2..Len(g0)
    BY <1>3, <1>7, <1>8, <1>9
  <2>2. /\ IsGraph(g1) /\ DOMAIN g1 = DOMAIN g0 /\ Len(g1) = Len(g0)
        /\ OpenBlocks(g1) = IF IsTerminator(Br(L + 1)) THEN OpenBlocks(g0) \ {cur} ELSE OpenBlocks(g0)
        /\ Reached(g0) \subseteq Reached(g1)
        /\ cur \in Reached(g1) => Targets(Br(L + 1)) \subseteq Reached(g1)
    BY <1>9, <2>1, EmitGraph
  <2> HIDE DEF g1
  <2>3. 1..L \subseteq Reached(g1)
    BY <1>2, <1>9, <2>2
  <2>4. QED
    BY <1>2, <1>3, <1>7, <1>8, <1>9, <2>2, <2>3
<1> HIDE DEF g1
<1>11. /\ IsGraph(done.code) /\ Len(done.code) \in Nat /\ L + 3 <= Len(done.code)
       /\ DOMAIN done.code = 1..Len(done.code)
       /\ done.cur \in OpenBlocks(done.code) /\ done.cur \in Reached(done.code)
       /\ OpenBlocks(done.code) \ {done.cur} = Waits(Tail(todo)) \cup {L + 2, L + 3}
       /\ 1..L \cup {L + 1} \cup ((L + 4)..Len(done.code)) \subseteq Reached(done.code)
  <2>1. L + 1 \in OpenBlocks(g1) /\ L + 1 \in Reached(g1)
    BY <1>10
  <2>2. /\ IsGraph(done.code) /\ Len(done.code) \in Nat
        /\ Len(g1) <= Len(done.code) /\ DOMAIN done.code = 1..Len(done.code)
        /\ OpenBlocks(done.code) = (OpenBlocks(g1) \ {L + 1}) \cup {done.cur}
        /\ done.cur \in Reached(done.code)
        /\ done.cur = L + 1 \/ done.cur \notin DOMAIN g1
        /\ Reached(g1) \cup ((Len(g1) + 1)..Len(done.code)) \subseteq Reached(done.code)
    <3> DEFINE x == L + 1
    <3>1. IsGraph(g1) /\ x \in OpenBlocks(g1) /\ x \in Reached(g1)
      BY <1>10
    <3>2. done = Evaluated(g1, x, Here.node.expr, Here.path)
      OBVIOUS
    <3> HIDE DEF x, done
    <3>3. /\ IsGraph(done.code) /\ Len(done.code) \in Nat
          /\ Len(g1) <= Len(done.code) /\ DOMAIN done.code = 1..Len(done.code)
          /\ OpenBlocks(done.code) = (OpenBlocks(g1) \ {x}) \cup {done.cur}
          /\ done.cur \in Reached(done.code)
          /\ done.cur = x \/ done.cur \notin DOMAIN g1
          /\ Reached(g1) \cup ((Len(g1) + 1)..Len(done.code)) \subseteq Reached(done.code)
      BY <3>1, <3>2, EvaluatedGraph
    <3>4. QED
      BY <3>3 DEF x
  <2> HIDE DEF done
  <2>3. Len(g1) + 1 = L + 4
    BY <1>8, <1>10
  <2>4. OpenBlocks(g1) \ {L + 1} = Waits(Tail(todo)) \cup {L + 2, L + 3}
    BY <1>8, <1>10
  <2>5. done.cur \notin Waits(Tail(todo)) \cup {L + 2, L + 3}
    <3>1. Waits(Tail(todo)) \cup {L + 2, L + 3} \subseteq DOMAIN g1
      BY <1>10 DEF OpenBlocks
    <3>2. QED
      BY <2>2, <2>4, <3>1
  <2>6. /\ done.cur \in OpenBlocks(done.code)
        /\ OpenBlocks(done.code) \ {done.cur} = Waits(Tail(todo)) \cup {L + 2, L + 3}
    BY <2>2, <2>4, <2>5
  <2>7. 1..L \cup {L + 1} \cup ((L + 4)..Len(done.code)) \subseteq Reached(done.code)
    BY <1>10, <2>2, <2>3
  <2>8. QED
    BY <1>10, <2>2, <2>6, <2>7
<1> HIDE DEF done
<1>12. /\ IsGraph(g) /\ Reached(g) = DOMAIN g /\ DOMAIN g = 1..Len(g)
       /\ Len(g) \in Nat /\ L + 3 <= Len(g)
       /\ OpenBlocks(g) = Waits(Tail(todo)) \cup {L + 2, L + 3}
  <2>1. Targets(i) \subseteq 2..Len(done.code)
    BY <1>7, <1>8, <1>11
  <2>2. /\ IsGraph(g) /\ DOMAIN g = DOMAIN done.code /\ Len(g) = Len(done.code)
        /\ OpenBlocks(g) = IF IsTerminator(i) THEN OpenBlocks(done.code) \ {done.cur} ELSE OpenBlocks(done.code)
        /\ Reached(done.code) \subseteq Reached(g)
        /\ done.cur \in Reached(g) => Targets(i) \subseteq Reached(g)
    BY <1>11, <2>1, EmitGraph
  <2> HIDE DEF g
  <2>3. 1..L \cup {L + 1, L + 2, L + 3} \cup ((L + 4)..Len(done.code)) \subseteq Reached(g)
    BY <1>7, <1>11, <2>2
  <2>4. 1..Len(done.code) = 1..L \cup {L + 1, L + 2, L + 3} \cup ((L + 4)..Len(done.code))
    <3>1. 1..Len(done.code) = 1..L \cup ((L + 1)..(L + 3)) \cup ((L + 4)..Len(done.code))
      BY <1>8, <1>11
    <3>2. QED
      BY <1>8, <3>1
  <2>5. Reached(g) \subseteq DOMAIN g
    BY DEF Reached
  <2>6. QED
    BY <1>7, <1>11, <2>2, <2>3, <2>4, <2>5
<1> HIDE DEF g
<1>13. TaskOK(e, Statements[fun.void], Len(code'))
  <2>1. L + 1 \in 2..Len(g)
    BY <1>8, <1>12
  <2>2. QED
    BY <1>4, <1>5, <2>1 DEF TaskOK
<1>14. QED
  <2>1. /\ IsGraph(code') /\ Reached(code') = DOMAIN code' /\ Len(code) <= Len(code')
        /\ cur' \in DOMAIN code'
        /\ returnFlag' <=> cur' \notin OpenBlocks(code')
        /\ OpenBlocks(code') \ {cur'} = Pending(e) \cup Waits(Tail(todo))
    <3>1. L + 2 \in 1..Len(g) /\ Len(code) <= Len(g)
      BY <1>8, <1>12
    <3>2. OpenBlocks(g) \ {L + 2} = Waits(Tail(todo)) \cup {L + 3}
      BY <1>8, <1>12
    <3>3. QED
      BY <1>1, <1>4, <1>5, <1>12, <3>1, <3>2
  <2>2. /\ UNCHANGED <<fun, pc, scope>> /\ todo' = <<d, e>> \o Tail(todo)
        /\ Here.task # "exit scope" /\ d.task = "stmt" /\ e.task # "exit scope"
        /\ d.node \in Statements[fun.void] /\ TaskOK(e, Statements[fun.void], Len(code'))
        /\ Pending(e) \cap Waits(Tail(todo)) = {} /\ 1 \notin Pending(e)
    BY <1>1, <1>4, <1>5, <1>6, <1>8, <1>13
  <2>3. QED
    BY <1>1, <2>1, <2>2, PushInv

LEMMA EndFunctionInv == ASSUME CodeInv, EndFunction PROVE CodeInv'
<1> DEFINE g == Emit(code, cur, Ret)
<1>1. pc = "build" /\ todo = <<>>
  BY DEF EndFunction
<1>2. BuildInv /\ fun \in Functions /\ DOMAIN code # {} /\ Reached(code) = DOMAIN code
  BY <1>1 DEF CodeInv
<1>3. /\ IsSeq(scope) /\ IsGraph(code) /\ cur \in DOMAIN code
      /\ returnFlag <=> cur \notin OpenBlocks(code)
      /\ OpenBlocks(code) \ {cur} = {} /\ Len(scope) = 2
  <2>1. Waits(todo) = {} /\ Cardinality(Exits(todo)) = 0
    BY <1>1, EmptyTasks
  <2>2. QED
    BY <1>2, <2>1 DEF BuildInv
<1>4. /\ fun' = fun /\ pc' = "exec" /\ returnFlag' = FALSE /\ scope' = Front(scope)
      /\ code' = IF returnFlag THEN code ELSE g
  BY DEF EndFunction
<1>5. IsSeq(scope') /\ Len(scope') = 1
  <2>1. scope # <<>>
    BY <1>3, SeqFacts
  <2>2. IsSeq(scope') /\ Len(scope') = Len(scope) - 1
    BY <1>3, <1>4, <2>1, FrontFacts
  <2>3. QED
    BY <1>3, <2>2
<1>6. CASE returnFlag
  <2>1. code' = code /\ OpenBlocks(code) = {}
    BY <1>3, <1>4, <1>6
  <2>2. QED
    BY <1>2, <1>3, <1>4, <1>5, <2>1 DEF CodeInv
<1>7. CASE ~returnFlag
  <2>1. IsTerminator(Ret) /\ Targets(Ret) \subseteq 2..Len(code)
    BY InstrFacts
  <2>2. /\ IsGraph(g) /\ Reached(g) = DOMAIN g /\ DOMAIN g = DOMAIN code
        /\ OpenBlocks(g) = OpenBlocks(code) \ {cur}
    BY <1>2, <1>3, <1>7, <2>1, EmitWhole
  <2> HIDE DEF g
  <2>3. code' = g /\ OpenBlocks(g) = {}
    BY <1>3, <1>4, <1>7, <2>2
  <2>4. QED
    BY <1>2, <1>4, <1>5, <2>2, <2>3 DEF CodeInv
<1>8. QED
  BY <1>6, <1>7

LEMMA StartFunctionInv == ASSUME CodeInv, StartFunction PROVE CodeInv'
<1> DEFINE t == Stmt(fun.body, <<1>>)
<1>1. pc = "start" /\ fun \in Functions /\ ~returnFlag /\ IsSeq(scope) /\ Len(scope) = 1
  BY DEF StartFunction, CodeInv
<1>2. /\ fun' = fun /\ pc' = "build" /\ returnFlag' = returnFlag
      /\ code' = <<<<>>>> /\ cur' = 1 /\ todo' = <<t>>
      /\ scope' = Append(scope, [x \in fun.params |-> Param])
  BY DEF StartFunction
<1>3. t.task = "stmt" /\ t.node \in Statements[fun.void]
  BY <1>1, FunctionsAssumption DEF Stmt
<1> HIDE DEF t
<1>4. Pending(t) = {} /\ \A n : TaskOK(t, Statements[fun.void], n)
  BY <1>3 DEF Pending, TaskOK
<1> DEFINE w == <<t>>
           g == <<<<>>>>
<1>5. /\ IsSeq(w) /\ DOMAIN w = {1} /\ w[1] = t /\ Waits(w) = {} /\ Disjoint(w)
      /\ Cardinality(Exits(w)) = 0
  BY <1>3, <1>4, SingleTask
<1>6. IsSeq(scope') /\ Len(scope') = 2
  <2>1. IsSeq(scope') /\ Len(scope') = Len(scope) + 1
    BY <1>1, <1>2, AppendFacts
  <2>2. QED
    BY <1>1, <2>1
<1>7. IsSeq(g) /\ Len(g) = 1 /\ g[1] = <<>> /\ DOMAIN g = {1}
  BY SingleTask, SingleFacts
<1>8. IsSeq(<<>>) /\ DOMAIN <<>> = {} /\ Len(<<>>) = 0
  BY EmptyTasks, SeqFacts
<1> HIDE DEF g, w
<1>9. IsGraph(g) /\ OpenBlocks(g) = {1} /\ Reached(g) = {1}
  <2>1. IsGraph(g)
    BY <1>7, <1>8 DEF IsGraph
  <2>2. OpenBlocks(g) = {1}
    BY <1>7 DEF OpenBlocks
  <2>3. Reached(g) = {1}
    BY <1>7 DEF Reached
  <2>4. QED
    BY <2>1, <2>2, <2>3
<1>10. code' = g /\ todo' = w
  BY <1>2 DEF g, w
<1>11. BuildInv'
  <2>1. /\ returnFlag' <=> cur' \notin OpenBlocks(code')
    BY <1>1, <1>2, <1>9, <1>10
  <2>2. \A i \in DOMAIN todo' : TaskOK(todo'[i], Statements[fun'.void], Len(code'))
    BY <1>2, <1>4, <1>5, <1>10
  <2>3. Waits(todo') = OpenBlocks(code') \ {cur'} /\ 1 \notin Waits(todo')
    BY <1>2, <1>5, <1>9, <1>10
  <2>4. Len(scope') = 2 + Cardinality(Exits(todo'))
    BY <1>5, <1>6, <1>10
  <2>5. IsSeq(todo') /\ IsGraph(code') /\ cur' \in DOMAIN code' /\ Disjoint(todo')
    BY <1>2, <1>5, <1>7, <1>9, <1>10
  <2>6. QED
    BY <1>6, <2>1, <2>2, <2>3, <2>4, <2>5 DEF BuildInv
<1>12. QED
  BY <1>1, <1>2, <1>7, <1>9, <1>10, <1>11 DEF CodeInv

LEMMA InitInv == Init => CodeInv
<1> DEFINE t == [x \in Names |-> Global]
<1>1. IsSeq(<<t>>) /\ Len(<<t>>) = 1
  BY SingleFacts
<1>2. QED
  BY <1>1 DEF Init, CodeInv

(* Building the function                                                    *)
LEMMA NextInv == CodeInv /\ [Next]_vars => CodeInv'
<1> SUFFICES ASSUME CodeInv, [Next]_vars PROVE CodeInv'
  OBVIOUS
<1>1. CASE StartFunction
  BY <1>1, StartFunctionInv
<1>2. CASE SkipStmt
  BY <1>2, SkipInv
<1>3. CASE CompoundStmt
  BY <1>3, CompoundInv
<1>4. CASE ExitScope
  BY <1>4, ExitScopeInv
<1>5. CASE ExpressionStmt
  BY <1>5, ExpressionInv
<1>6. CASE ReturnStmt
  BY <1>6, ReturnInv
<1>7. CASE IfElse
  BY <1>7, IfElseInv
<1>8. CASE ElseBuilt
  BY <1>8, ElseBuiltInv
<1>9. CASE ThenBuilt
  BY <1>9, ThenBuiltInv
<1>10. CASE If
  BY <1>10, IfInv
<1>11. CASE IfBuilt
  BY <1>11, IfBuiltInv
<1>12. CASE While
  BY <1>12, WhileInv
<1>13. CASE BodyBuilt
  BY <1>13, BodyBuiltInv
<1>14. CASE EndFunction
  BY <1>14, EndFunctionInv
<1>15. ASSUME UNCHANGED <<fun, pc, buildVars>> PROVE CodeInv'
  BY <1>15 DEF CodeInv, BuildInv, buildVars
<1>16. CASE Unfold \/ Jump \/ DoUse \/ DoTest \/ Ended \/ UNCHANGED vars
  <2>1. UNCHANGED <<fun, pc, buildVars>>
    BY <1>16 DEF Unfold, Jump, DoUse, DoTest, Ended, vars
  <2>2. QED
    BY <1>15, <2>1
<1>17. QED
  BY <1>1, <1>2, <1>3, <1>4, <1>5, <1>6, <1>7, <1>8, <1>9, <1>10, <1>11, <1>12, <1>13,
     <1>14, <1>16 DEF Next

(* Whatever the syntax tree, the blocks without a terminator are the        *)
(* insertion point and those the visits under way return to.                *)
THEOREM CodeIsWellBuilt == Spec => []CodeInv
<1>1. QED
  BY InitInv, NextInv, PTL DEF Spec

(* return_flag is up exactly when the insertion point has its terminator,   *)
(* and every function starts with the global scope alone.                   *)
THEOREM FlagIsTerminator == Spec => []FlagTracksTerminator
<1>1. CodeInv => FlagTracksTerminator
  <2> SUFFICES ASSUME CodeInv PROVE FlagTracksTerminator
    OBVIOUS
  <2>1. CASE pc = "build"
    <3>1. returnFlag <=> cur \notin OpenBlocks(code)
      BY <2>1 DEF CodeInv, BuildInv
    <3>2. cur \in DOMAIN code
      BY <2>1 DEF CodeInv, BuildInv
    <3>3. Terminated(cur) <=> cur \notin OpenBlocks(code)
      BY <3>2 DEF Terminated, OpenBlocks
    <3>4. QED
      BY <2>1, <3>1, <3>3 DEF FlagTracksTerminator
  <2>2. CASE pc # "build"
    BY <2>2 DEF CodeInv, FlagTracksTerminator
  <2>3. QED
    BY <2>1, <2>2
<1>2. QED
  BY <1>1, CodeIsWellBuilt, PTL

(****************************************************************************)
(* The blocks the entry reaches                                             *)
(****************************************************************************)
LEMMA SetInduction ==
  ASSUME NEW G, 0 \in G, \A n \in Nat : n \in G => n + 1 \in G
  PROVE  \A n \in Nat : n \in G
<1> DEFINE T == {n \in Nat : n \notin G}
<1>1. SUFFICES ASSUME T # {} PROVE FALSE
  OBVIOUS
<1>2. IsWellFoundedOn(OpToRel(<, Nat), Nat)
  BY NatLessThanWellFounded
<1>3. PICK m \in T : \A k \in T : <<k, m>> \notin OpToRel(<, Nat)
  <2>1. T \subseteq Nat
    OBVIOUS
  <2> HIDE DEF T
  <2>2. QED
    BY <1>1, <1>2, <2>1, WFMin
<1>4. \A k \in T : ~(k < m)
  BY <1>3 DEF OpToRel
<1>5. m \in Nat \ {0} /\ m \notin G
  BY <1>3
<1>6. m - 1 \in Nat /\ m - 1 < m /\ (m - 1) + 1 = m
  BY <1>5
<1>7. m - 1 \in G
  BY <1>4, <1>6
<1>8. QED
  BY <1>5, <1>6, <1>7

(* A value at 0 and a step from n - 1 to n define a function.               *)
LEMMA Iterated ==
  ASSUME NEW U, NEW a \in U, NEW step \in [U -> U]
  PROVE  \E f \in [Nat -> U] : \A n \in Nat : f[n] = IF n = 0 THEN a ELSE step[f[n - 1]]
<1> DEFINE P(n) == {g \in [0..n -> U] : g[0] = a /\ \A k \in 1..n : g[k] = step[g[k - 1]]}
           G == {n \in Nat : P(n) # {}}
<1>1. \A n \in Nat : P(n) # {}
  <2>1. 0 \in G
    <3> DEFINE g == [k \in 0..0 |-> a]
    <3>1. g \in P(0)
      OBVIOUS
    <3>2. QED
      BY <3>1
  <2>2. ASSUME NEW n \in Nat, n \in G PROVE n + 1 \in G
    <3>1. PICK g \in P(n) : TRUE
      BY <2>2
    <3> DEFINE h == [k \in 0..(n + 1) |-> IF k = n + 1 THEN step[g[n]] ELSE g[k]]
    <3>2. g \in [0..n -> U] /\ g[0] = a /\ \A k \in 1..n : g[k] = step[g[k - 1]]
      BY <3>1
    <3>3. h \in [0..(n + 1) -> U] /\ h[0] = a
      BY <3>2
    <3>4. ASSUME NEW k \in 1..(n + 1) PROVE h[k] = step[h[k - 1]]
      <4>1. CASE k = n + 1
        BY <3>2, <4>1
      <4>2. CASE k # n + 1
        <5>1. k \in 1..n /\ k \in 0..(n + 1) /\ k - 1 \in 0..(n + 1) /\ k - 1 # n + 1
          BY <4>2
        <5>2. QED
          BY <3>2, <4>2, <5>1
      <4>3. QED
        BY <4>1, <4>2
    <3> HIDE DEF h
    <3>5. h \in P(n + 1)
      BY <3>3, <3>4
    <3>6. QED
      BY <3>5
  <2> HIDE DEF G
  <2>3. \A n \in Nat : n \in G
    BY <2>1, <2>2, SetInduction
  <2>4. QED
    BY <2>3 DEF G
<1>2. ASSUME NEW n \in Nat, NEW m \in Nat, n <= m, NEW g \in P(n), NEW h \in P(m)
      PROVE  g[n] = h[n]
  <2> DEFINE E == {k \in Nat : k <= n => g[k] = h[k]}
  <2>1. 0 \in E
    OBVIOUS
  <2>2. ASSUME NEW k \in Nat, k \in E PROVE k + 1 \in E
    <3>1. CASE k + 1 <= n
      <4>1. k + 1 \in 1..n /\ k + 1 \in 1..m /\ (k + 1) - 1 = k /\ k <= n
        BY <1>2, <3>1
      <4>2. g[k] = h[k]
        BY <2>2, <4>1
      <4>3. g[k + 1] = step[g[k]] /\ h[k + 1] = step[h[k]]
        BY <4>1
      <4>4. QED
        BY <4>2, <4>3
    <3>2. CASE ~(k + 1 <= n)
      BY <3>2
    <3>3. QED
      BY <3>1, <3>2
  <2> HIDE DEF E
  <2>3. n \in E
    BY <2>1, <2>2, SetInduction
  <2>4. QED
    BY <2>3 DEF E
<1> DEFINE F == [n \in Nat |-> (CHOOSE g \in P(n) : TRUE)[n]]
<1>3. ASSUME NEW n \in Nat, NEW g \in P(n) PROVE F[n] = g[n]
  <2> DEFINE h == CHOOSE x \in P(n) : TRUE
  <2>1. h \in P(n)
    <3> HIDE DEF P
    <3>1. QED
      BY <1>1
  <2>2. F[n] = h[n]
    OBVIOUS
  <2> HIDE DEF h, F, P
  <2>3. QED
    BY <1>2, <2>1, <2>2
<1>4. ASSUME NEW n \in Nat
      PROVE  F[n] \in U /\ F[n] = IF n = 0 THEN a ELSE step[F[n - 1]]
  <2>1. PICK g \in P(n) : TRUE
    BY <1>1
  <2>2. g \in [0..n -> U] /\ g[0] = a /\ \A k \in 1..n : g[k] = step[g[k - 1]]
    BY <2>1
  <2>3. F[n] = g[n]
    BY <1>3
  <2> HIDE DEF F
  <2>4. CASE n = 0
    BY <2>2, <2>3, <2>4
  <2>5. CASE n # 0
    <3> DEFINE h == [k \in 0..(n - 1) |-> g[k]]
    <3>1. n - 1 \in Nat /\ n \in 1..n
      BY <2>5
    <3>2. h \in P(n - 1)
      <4>1. h \in [0..(n - 1) -> U] /\ h[0] = a
        BY <2>2, <3>1
      <4>2. ASSUME NEW k \in 1..(n - 1) PROVE h[k] = step[h[k - 1]]
        BY <2>2, <3>1
      <4> HIDE DEF h
      <4>3. QED
        BY <4>1, <4>2
    <3>3. h[n - 1] = g[n - 1]
      BY <3>1
    <3> HIDE DEF h, P
    <3>4. F[n - 1] = g[n - 1]
      BY <1>3, <3>1, <3>2, <3>3
    <3>5. QED
      BY <2>2, <2>3, <2>5, <3>1, <3>4
  <2>6. QED
    BY <2>4, <2>5
<1>5. F \in [Nat -> U]
  BY <1>4
<1> HIDE DEF F
<1>6. QED
  BY <1>4, <1>5

LEMMA ReachFromDef ==
  ASSUME IsGraph(code), 1 \in DOMAIN code
  PROVE  /\ ReachFrom[0] = {1}
         /\ \A n \in Nat : ReachFrom[n + 1] = ReachFrom[n] \cup UNION {Successors(b) : b \in ReachFrom[n]}
         /\ \A n \in Nat : ReachFrom[n] \subseteq DOMAIN code
<1> DEFINE U == SUBSET DOMAIN code
           Step(S) == S \cup UNION {Successors(b) : b \in S}
           step == [S \in U |-> Step(S)]
           Body(f) == [n \in Nat |-> IF n = 0 THEN {1} ELSE Step(f[n - 1])]
<1>1. \A b \in DOMAIN code : Successors(b) \subseteq DOMAIN code
  <2>1. DOMAIN code = 1..Len(code) /\ Len(code) \in Nat
    BY SeqFacts DEF IsGraph
  <2>2. \A b \in DOMAIN code : \A i \in DOMAIN code[b] : Targets(code[b][i]) \subseteq 2..Len(code)
    BY DEF IsGraph
  <2>3. 2..Len(code) \subseteq 1..Len(code)
    BY <2>1
  <2>4. QED
    BY <2>1, <2>2, <2>3 DEF Successors, ToSet
<1>2. \A S \in U : Step(S) \in U
  BY <1>1
<1>3. step \in [U -> U] /\ {1} \in U
  BY <1>2
<1>4. PICK f \in [Nat -> U] : \A n \in Nat : f[n] = IF n = 0 THEN {1} ELSE step[f[n - 1]]
  <2> HIDE DEF U, step
  <2>1. QED
    BY <1>3, Iterated
<1>5. f = Body(f)
  <2>1. ASSUME NEW n \in Nat PROVE f[n] = IF n = 0 THEN {1} ELSE Step(f[n - 1])
    <3>1. CASE n = 0
      BY <1>4, <3>1
    <3>2. CASE n # 0
      <4>1. n - 1 \in Nat
        BY <3>2
      <4>2. f[n - 1] \in U
        BY <1>4, <4>1
      <4>3. step[f[n - 1]] = Step(f[n - 1])
        BY <4>2
      <4>4. QED
        BY <1>4, <3>2, <4>3
    <3>3. QED
      BY <3>1, <3>2
  <2> HIDE DEF U, Step
  <2>2. QED
    BY <1>4, <2>1
<1>6. ReachFrom = CHOOSE g : g = Body(g)
  BY DEF ReachFrom
<1> HIDE DEF Body
<1>7. ReachFrom = Body(ReachFrom)
  BY <1>5, <1>6
<1>8. \A n \in Nat : ReachFrom[n] = IF n = 0 THEN {1} ELSE Step(ReachFrom[n - 1])
  <2> HIDE DEF Step
  <2>1. QED
    BY <1>7 DEF Body
<1>9. ReachFrom[0] = {1}
  BY <1>8
<1>10. ASSUME NEW n \in Nat PROVE ReachFrom[n + 1] = Step(ReachFrom[n])
  <2> HIDE DEF Step
  <2>1. n + 1 \in Nat /\ n + 1 # 0 /\ (n + 1) - 1 = n
    OBVIOUS
  <2>2. QED
    BY <1>8, <2>1
<1>11. \A n \in Nat : ReachFrom[n] \in U
  <2> DEFINE E == {n \in Nat : ReachFrom[n] \in U}
  <2>1. 0 \in E /\ \A n \in Nat : n \in E => n + 1 \in E
    <3>1. 0 \in E
      BY <1>3, <1>9
    <3>2. ASSUME NEW n \in Nat, n \in E PROVE n + 1 \in E
      <4> HIDE DEF U, Step
      <4>1. n + 1 \in Nat /\ ReachFrom[n] \in U
        BY <3>2
      <4>2. ReachFrom[n + 1] \in U
        BY <1>2, <1>10, <4>1
      <4>3. QED
        BY <4>1, <4>2
    <3> HIDE DEF E
    <3>3. QED
      BY <3>1, <3>2
  <2> HIDE DEF E
  <2>2. \A n \in Nat : n \in E
    BY <2>1, SetInduction
  <2>3. QED
    BY <2>2 DEF E
<1>12. QED
  BY <1>9, <1>10, <1>11

(* Each round adds a block until none is missing.                           *)
LEMMA ReachFromAll ==
  ASSUME IsGraph(code), 1 \in DOMAIN code, Reached(code) = DOMAIN code
  PROVE  ReachFrom[Len(code)] = DOMAIN code
<1> DEFINE B == DOMAIN code
           Closed(S) == \A b \in S : Successors(b) \subseteq S
           E == {n \in Nat : 1 \in ReachFrom[n] /\ (Closed(ReachFrom[n]) \/ n < Cardinality(ReachFrom[n]))}
<1>1. B = 1..Len(code) /\ Len(code) \in Nat
  BY SeqFacts DEF IsGraph
<1>2. IsFiniteSet(B) /\ Cardinality(B) = Len(code)
  <2>1. IsFiniteSet(1..Len(code)) /\ Cardinality(1..Len(code)) = IF 1 > Len(code) THEN 0 ELSE Len(code) - 1 + 1
    BY <1>1, FS_Interval
  <2>2. (IF 1 > Len(code) THEN 0 ELSE Len(code) - 1 + 1) = Len(code)
    BY <1>1
  <2>3. QED
    BY <1>1, <2>1, <2>2
<1>3. /\ ReachFrom[0] = {1}
      /\ \A n \in Nat : ReachFrom[n + 1] = ReachFrom[n] \cup UNION {Successors(b) : b \in ReachFrom[n]}
      /\ \A n \in Nat : ReachFrom[n] \subseteq B
  BY ReachFromDef
<1>4. \A n \in Nat : IsFiniteSet(ReachFrom[n]) /\ Cardinality(ReachFrom[n]) \in Nat
  <2> TAKE n \in Nat
  <2>1. ReachFrom[n] \in SUBSET B
    BY <1>3
  <2>2. QED
    BY <1>2, <2>1, FS_Subset, FS_CardinalityType
<1>5. 0 \in E
  <2>1. Cardinality(ReachFrom[0]) = 1 /\ 1 \in ReachFrom[0]
    <3>1. Cardinality({1}) = 1
      BY FS_Singleton
    <3>2. QED
      BY <1>3, <3>1
  <2>2. 0 < Cardinality(ReachFrom[0]) /\ 0 \in Nat
    BY <2>1
  <2> HIDE DEF Closed
  <2>3. QED
    BY <2>1, <2>2
<1>6. ASSUME NEW n \in Nat, n \in E PROVE n + 1 \in E
  <2> DEFINE R == ReachFrom[n]
             T == ReachFrom[n + 1]
  <2>1. T = R \cup UNION {Successors(b) : b \in R} /\ 1 \in R /\ R \subseteq T
    BY <1>3, <1>6
  <2>2. CASE Closed(R)
    <3>1. T = R
      BY <2>1, <2>2
    <3>2. QED
      BY <2>1, <2>2, <3>1
  <2>3. CASE ~Closed(R)
    <3>1. R # T
      BY <2>1, <2>3
    <3>2. n < Cardinality(R)
      BY <1>6, <2>3
    <3>3. /\ IsFiniteSet(T) /\ Cardinality(T) \in Nat /\ Cardinality(R) \in Nat
      BY <1>4
    <3> HIDE DEF R, T
    <3>4. R \in SUBSET T
      BY <2>1
    <3>5. Cardinality(R) <= Cardinality(T) /\ (Cardinality(T) = Cardinality(R) => T = R)
      BY <3>3, <3>4, FS_Subset
    <3>6. n + 1 < Cardinality(T)
      BY <3>1, <3>2, <3>3, <3>5
    <3>7. 1 \in T
      BY <2>1
    <3> HIDE DEF Closed
    <3>8. n + 1 \in Nat /\ 1 \in ReachFrom[n + 1] /\ n + 1 < Cardinality(ReachFrom[n + 1])
      BY <3>6, <3>7 DEF T
    <3>9. QED
      BY <3>8
  <2>4. QED
    BY <2>2, <2>3
<1>7. Len(code) \in E
  <2> HIDE DEF E
  <2>1. \A n \in Nat : n \in E
    BY <1>5, <1>6, SetInduction
  <2>2. QED
    BY <1>1, <2>1
<1> DEFINE R == ReachFrom[Len(code)]
<1>8. R \subseteq B /\ 1 \in R
  BY <1>1, <1>3, <1>7
<1>9. CASE Closed(R)
  <2>1. \A a \in R : \A i \in DOMAIN code[a] : Targets(code[a][i]) \subseteq R
    BY <1>9 DEF Successors, ToSet
  <2> HIDE DEF R
  <2>2. \A b \in Reached(code) : b \in R
    BY <1>8, <2>1 DEF Reached
  <2>3. QED
    BY <1>8, <2>2 DEF R
<1>10. CASE ~Closed(R)
  <2>1. Len(code) < Cardinality(R)
    BY <1>7, <1>10
  <2>2. Cardinality(R) <= Cardinality(B) /\ Cardinality(R) \in Nat
    <3>1. R \in SUBSET B /\ Cardinality(R) \in Nat
      BY <1>1, <1>4, <1>8
    <3> HIDE DEF R
    <3>2. QED
      BY <1>2, <3>1, FS_Subset
  <2>3. QED
    BY <1>1, <1>2, <2>1, <2>2
<1>11. QED
  BY <1>9, <1>10

(* The passes get what they rely on: every block ends in its only           *)
(* terminator and is reachable, and no branch goes back to the entry.       *)
THEOREM GraphIsFit == Spec => []GraphFitsPasses
<1>1. CodeInv => GraphFitsPasses
  <2> SUFFICES ASSUME CodeInv, pc = "exec" PROVE GraphFitsPasses
    BY DEF GraphFitsPasses
  <2>1. IsGraph(code) /\ OpenBlocks(code) = {} /\ DOMAIN code # {} /\ Reached(code) = DOMAIN code
    BY DEF CodeInv
  <2>2. DOMAIN code = 1..Len(code) /\ Len(code) \in Nat /\ 1 \in DOMAIN code
    <3>1. DOMAIN code = 1..Len(code) /\ Len(code) \in Nat
      BY <2>1, SeqFacts DEF IsGraph
    <3>2. QED
      BY <2>1, <3>1
  <2>3. \A b \in DOMAIN code : Terminated(b)
    BY <2>1 DEF OpenBlocks, Terminated
  <2>4. \A b \in DOMAIN code : \A i \in 1..(Len(code[b]) - 1) : ~IsTerminator(code[b][i])
    BY <2>1 DEF IsGraph
  <2>5. ReachFrom[Len(code)] = DOMAIN code
    BY <2>1, <2>2, ReachFromAll
  <2>6. \A b \in DOMAIN code : 1 \notin Successors(b)
    <3>1. \A b \in DOMAIN code : \A i \in DOMAIN code[b] : Targets(code[b][i]) \subseteq 2..Len(code)
      BY <2>1 DEF IsGraph
    <3>2. 1 \notin 2..Len(code)
      BY <2>2
    <3>3. QED
      BY <3>1, <3>2 DEF Successors, ToSet
  <2>7. QED
    BY <2>3, <2>4, <2>5, <2>6 DEF GraphFitsPasses, BlocksBuilt
<1>2. QED
  BY <1>1, CodeIsWellBuilt, PTL

-------------------------------------------------------------------------------
(****************************************************************************)
(* What the source has still to do                                          *)
(****************************************************************************)
LEMMA SameSeq ==
  ASSUME NEW s, IsSeq(s), NEW t, IsSeq(t), Len(s) = Len(t), \A i \in 1..Len(s) : s[i] = t[i]
  PROVE  s = t
<1> DEFINE R == {s[i] : i \in DOMAIN s} \cup {t[i] : i \in DOMAIN t}
<1>1. s \in Seq(R) /\ t \in Seq(R)
  BY SeqMonotonic DEF IsSeq
<1> HIDE DEF R
<1>2. QED
  BY <1>1

LEMMA ConsFacts ==
  ASSUME NEW x, NEW s, IsSeq(s)
  PROVE  /\ IsSeq(<<x>> \o s) /\ <<x>> \o s # <<>>
         /\ Head(<<x>> \o s) = x /\ Tail(<<x>> \o s) = s
<1>1. /\ IsSeq(<<x>>) /\ Len(<<x>>) = 1 /\ <<x>>[1] = x
  BY SingleFacts
<1>2. PICK u : u = <<x>> \o s
  OBVIOUS
<1>3. /\ IsSeq(u) /\ Len(u) = 1 + Len(s) /\ u[1] = x /\ \A i \in 1..Len(s) : u[1 + i] = s[i]
  <2>1. /\ IsSeq(<<x>> \o s) /\ Len(<<x>> \o s) = Len(<<x>>) + Len(s)
        /\ \A i \in 1..Len(<<x>>) : (<<x>> \o s)[i] = <<x>>[i]
        /\ \A i \in 1..Len(s) : (<<x>> \o s)[Len(<<x>>) + i] = s[i]
    <3>1. IsSeq(<<x>>) /\ IsSeq(s)
      BY <1>1
    <3>2. QED
      BY <3>1, ConcatFacts
  <2>2. QED
    BY <1>1, <1>2, <2>1
<1>4. Len(s) \in Nat /\ u # <<>>
  BY <1>3, SeqFacts
<1>5. /\ IsSeq(Tail(u)) /\ Len(Tail(u)) = Len(u) - 1 /\ Head(u) = u[1]
      /\ \A i \in 1..(Len(u) - 1) : Tail(u)[i] = u[i + 1]
  BY <1>3, <1>4, TailFacts
<1>6. Tail(u) = s
  <2>1. PICK n : n = Len(s)
    OBVIOUS
  <2>2. n \in Nat /\ Len(u) = 1 + n /\ Len(Tail(u)) = n
    BY <1>3, <1>4, <1>5, <2>1
  <2>3. \A i \in 1..n : Tail(u)[i] = u[i + 1] /\ u[1 + i] = s[i] /\ i + 1 = 1 + i
    BY <1>3, <1>5, <2>1, <2>2
  <2>4. \A i \in 1..Len(Tail(u)) : Tail(u)[i] = s[i]
    BY <2>2, <2>3
  <2>5. Len(Tail(u)) = Len(s)
    BY <2>1, <2>2
  <2>6. QED
    BY <1>5, <2>4, <2>5, SameSeq
<1>7. QED
  BY <1>2, <1>3, <1>4, <1>5, <1>6

LEMMA ConcatAssoc ==
  ASSUME NEW a, IsSeq(a), NEW b, IsSeq(b), NEW c, IsSeq(c)
  PROVE  (a \o b) \o c = a \o (b \o c)
<1> DEFINE R == {a[i] : i \in DOMAIN a} \cup {b[i] : i \in DOMAIN b} \cup {c[i] : i \in DOMAIN c}
<1>1. a \in Seq(R) /\ b \in Seq(R) /\ c \in Seq(R)
  BY SeqMonotonic DEF IsSeq
<1> HIDE DEF R
<1>2. QED
  BY <1>1, ConcatAssociative

LEMMA NilConcat == ASSUME NEW s, IsSeq(s) PROVE <<>> \o s = s /\ s \o <<>> = s
<1> DEFINE R == {s[i] : i \in DOMAIN s}
<1>1. s \in Seq(R)
  BY DEF IsSeq
<1> HIDE DEF R
<1>2. QED
  BY <1>1, ConcatEmptySeq

LEMMA NilIsSeq == IsSeq(<<>>)
BY EmptyTasks

(****************************************************************************)
(* W pairs the places of the code with what the source has still to do when *)
(* the execution gets there.  H says what is left to do at the end of a     *)
(* block that is not finished.                                              *)
(****************************************************************************)
Source(node, path, env) == [do |-> "stmt", node |-> node, path |-> path, env |-> env]
First(k)    == IF k = <<>> THEN [do |-> "ret"] ELSE Head(k)
IsStmt(k)   == k # <<>> /\ Head(k).do = "stmt"
Unfolded(k) == Items(Head(k)) \o Tail(k)

(* The instruction does what comes first in k, and leads to places paired   *)
(* with what comes after.                                                   *)
Matches(c, W, b, i, k) ==
  LET instr == c[b][i]
      item  == First(k)
  IN  \/ instr.op = "br" /\ <<instr.to, 1, k>> \in W
      \/ instr.op # "br" /\ IsStmt(k) /\ <<b, i, Unfolded(k)>> \in W
      \/ /\ ~IsStmt(k) /\ item.do = "use" /\ instr = Use(item.path, item.decl)
         /\ <<b, i + 1, Tail(k)>> \in W
      \/ ~IsStmt(k) /\ item.do = "except" /\ instr = Except(item.path)
      \/ /\ ~IsStmt(k) /\ item.do = "test" /\ instr.op = "condbr" /\ instr.at = item.path
         /\ <<instr.yes, 1, item.yes \o Tail(k)>> \in W
         /\ <<instr.no, 1, item.no \o Tail(k)>> \in W
      \/ ~IsStmt(k) /\ item.do = "ret" /\ instr = Ret

Fits(c, W, H) ==
  \A b, i, k : <<b, i, k>> \in W =>
    /\ b \in DOMAIN c /\ i \in 1..(Len(c[b]) + 1) /\ IsSeq(k)
    /\ i # Len(c[b]) + 1 => Matches(c, W, b, i, k)
    /\ i = Len(c[b]) + 1 =>
         /\ b \in OpenBlocks(c)
         /\ <<b, k>> \in H \/ (IsStmt(k) /\ <<b, i, Unfolded(k)>> \in W)

LEMMA MatchesMore ==
  ASSUME NEW c, NEW d, NEW V, NEW W, V \subseteq W, NEW b, NEW i, NEW k,
         d[b][i] = c[b][i], Matches(c, V, b, i, k)
  PROVE  Matches(d, W, b, i, k)
BY DEF Matches

LEMMA FitsMore ==
  ASSUME NEW c, NEW W, NEW G, NEW H, Fits(c, W, G),
         \A b \in OpenBlocks(c) : \A k : <<b, k>> \in G => <<b, k>> \in H
  PROVE  Fits(c, W, H)
BY DEF Fits

LEMMA NewBlocksFacts ==
  ASSUME NEW c, IsGraph(c), NEW n \in Nat
  PROVE  LET d == NewBlocks(c, n)
         IN  /\ \A a \in DOMAIN c : d[a] = c[a]
             /\ \A a \in (Len(c) + 1)..(Len(c) + n) : d[a] = <<>>
<1> DEFINE e == [i \in 1..n |-> <<>>]
           d == NewBlocks(c, n)
<1>1. e \in Seq({<<>>}) /\ Len(e) = n
  OBVIOUS
<1>2. IsSeq(e) /\ IsSeq(c) /\ Len(c) \in Nat /\ DOMAIN c = 1..Len(c)
  BY <1>1, SeqIsSeq, SeqFacts DEF IsGraph
<1>3. \A i \in 1..n : e[i] = <<>>
  OBVIOUS
<1>4. d = c \o e
  BY DEF NewBlocks
<1> HIDE DEF d, e
<1>5. /\ \A a \in 1..Len(c) : (c \o e)[a] = c[a]
      /\ \A a \in 1..Len(e) : (c \o e)[Len(c) + a] = e[a]
  BY <1>2, ConcatFacts
<1>6. ASSUME NEW a \in (Len(c) + 1)..(Len(c) + n) PROVE d[a] = <<>>
  <2>1. a - Len(c) \in 1..n /\ a = Len(c) + (a - Len(c))
    BY <1>2
  <2>2. QED
    BY <1>1, <1>3, <1>4, <1>5, <2>1
<1>7. QED
  BY <1>2, <1>4, <1>5, <1>6 DEF d

LEMMA NewBlocksFits ==
  ASSUME NEW c, IsGraph(c), NEW n \in Nat, NEW W, NEW H, Fits(c, W, H)
  PROVE  Fits(NewBlocks(c, n), W, H)
<1>1. PICK d : d = NewBlocks(c, n)
  OBVIOUS
<1>2. /\ \A a \in DOMAIN c : d[a] = c[a]
      /\ DOMAIN c \subseteq DOMAIN d /\ OpenBlocks(c) \subseteq OpenBlocks(d)
  <2>1. \A a \in DOMAIN c : d[a] = c[a]
    BY <1>1, NewBlocksFacts
  <2>2. /\ DOMAIN d = 1..(Len(c) + n) /\ Len(c) \in Nat /\ DOMAIN c = 1..Len(c)
        /\ OpenBlocks(d) = OpenBlocks(c) \cup ((Len(c) + 1)..(Len(c) + n))
    BY <1>1, NewBlocksGraph
  <2>3. QED
    BY <2>1, <2>2
<1>3. ASSUME NEW b, NEW i, NEW k, <<b, i, k>> \in W
      PROVE  /\ b \in DOMAIN d /\ i \in 1..(Len(d[b]) + 1) /\ IsSeq(k)
             /\ i # Len(d[b]) + 1 => Matches(d, W, b, i, k)
             /\ i = Len(d[b]) + 1 =>
                  /\ b \in OpenBlocks(d)
                  /\ <<b, k>> \in H \/ (IsStmt(k) /\ <<b, i, Unfolded(k)>> \in W)
  <2>1. b \in DOMAIN c /\ d[b] = c[b]
    BY <1>2, <1>3 DEF Fits
  <2>2. i # Len(d[b]) + 1 => Matches(d, W, b, i, k)
    BY <1>3, <2>1, MatchesMore DEF Fits
  <2>3. QED
    BY <1>2, <1>3, <2>1, <2>2 DEF Fits
<1>4. QED
  BY <1>1, <1>3 DEF Fits

(* What is left to do in a block is unfolded in place. *)
LEMMA UnfoldFits ==
  ASSUME NEW c, IsGraph(c), NEW W, NEW H, Fits(c, W, H), NEW b \in OpenBlocks(c),
         NEW k, IsStmt(k), IsSeq(Unfolded(k)), \A q : <<b, q>> \in H => q = k
  PROVE  Fits(c, W \cup {<<b, Len(c[b]) + 1, Unfolded(k)>>},
              {h \in H : h[1] # b} \cup {<<b, Unfolded(k)>>})
<1>1. PICK V, G : V = W \cup {<<b, Len(c[b]) + 1, Unfolded(k)>>}
                  /\ G = {h \in H : h[1] # b} \cup {<<b, Unfolded(k)>>}
  OBVIOUS
<1>2. b \in DOMAIN c /\ Len(c[b]) \in Nat
  BY SeqFacts DEF OpenBlocks, IsGraph
<1>3. ASSUME NEW a, NEW i, NEW q, <<a, i, q>> \in V
      PROVE  /\ a \in DOMAIN c /\ i \in 1..(Len(c[a]) + 1) /\ IsSeq(q)
             /\ i # Len(c[a]) + 1 => Matches(c, V, a, i, q)
             /\ i = Len(c[a]) + 1 =>
                  /\ a \in OpenBlocks(c)
                  /\ <<a, q>> \in G \/ (IsStmt(q) /\ <<a, i, Unfolded(q)>> \in V)
  <2>1. CASE <<a, i, q>> \notin W
    BY <1>1, <1>2, <1>3, <2>1
  <2>2. CASE <<a, i, q>> \in W
    <3>1. i # Len(c[a]) + 1 => Matches(c, V, a, i, q)
      <4>1. i # Len(c[a]) + 1 => Matches(c, W, a, i, q)
        BY <2>2 DEF Fits
      <4>2. W \subseteq V
        BY <1>1
      <4>3. QED
        BY <4>1, <4>2, MatchesMore
    <3>2. ASSUME i = Len(c[a]) + 1, <<a, q>> \in H
          PROVE  <<a, q>> \in G \/ (IsStmt(q) /\ <<a, i, Unfolded(q)>> \in V)
      BY <1>1, <3>2
    <3>3. QED
      BY <1>1, <2>2, <3>1, <3>2 DEF Fits
  <2>3. QED
    BY <2>1, <2>2
<1>4. Fits(c, V, G)
  BY <1>3 DEF Fits
<1>5. QED
  BY <1>1, <1>4

(* An instruction other than br does what is first to do in its block, and  *)
(* leads to the ends of unfinished blocks, N.                               *)
LEMMA EmitFits ==
  ASSUME NEW c, IsGraph(c), NEW W, NEW H, Fits(c, W, H), NEW b \in OpenBlocks(c),
         NEW k, \A q : <<b, q>> \in H => q = k,
         NEW i, i.op # "br", Targets(i) \subseteq 2..Len(c),
         NEW N, NEW G,
         Matches(Emit(c, b, i), W \cup N, b, Len(c[b]) + 1, k),
         \A a, q : <<a, q>> \in H /\ a # b => <<a, q>> \in G,
         \A n \in N : \E a, q : /\ n = <<a, Len(Emit(c, b, i)[a]) + 1, q>> /\ IsSeq(q)
                                /\ a \in OpenBlocks(Emit(c, b, i)) /\ <<a, q>> \in G
  PROVE  Fits(Emit(c, b, i), W \cup N, G)
<1>1. PICK d, V : d = Emit(c, b, i) /\ V = W \cup N
  OBVIOUS
<1>2. b \in DOMAIN c
  BY DEF OpenBlocks
<1>3. /\ DOMAIN d = DOMAIN c /\ \A a \in DOMAIN c : a # b => d[a] = c[a]
      /\ Len(d[b]) = Len(c[b]) + 1 /\ Len(c[b]) \in Nat
      /\ \A j \in 1..Len(c[b]) : d[b][j] = c[b][j]
      /\ d[b][Len(c[b]) + 1] = i
  BY <1>1, <1>2, EmitFacts
<1>4. IsGraph(d) /\ \A a \in OpenBlocks(c) : a # b => a \in OpenBlocks(d)
  BY <1>1, EmitGraph
<1>5. \A a \in DOMAIN d : Len(d[a]) \in Nat
  BY <1>4, SeqFacts DEF IsGraph
<1>6. ASSUME NEW a, NEW j, NEW q, <<a, j, q>> \in N
      PROVE  /\ a \in DOMAIN d /\ j = Len(d[a]) + 1 /\ IsSeq(q)
             /\ a \in OpenBlocks(d) /\ <<a, q>> \in G
  <2>1. PICK e, p : /\ <<a, j, q>> = <<e, Len(d[e]) + 1, p>> /\ IsSeq(p)
                    /\ e \in OpenBlocks(d) /\ <<e, p>> \in G
    BY <1>1, <1>6
  <2>2. QED
    BY <2>1 DEF OpenBlocks
<1>7. ASSUME NEW a, NEW j, NEW q, <<a, j, q>> \in V
      PROVE  /\ a \in DOMAIN d /\ j \in 1..(Len(d[a]) + 1) /\ IsSeq(q)
             /\ j # Len(d[a]) + 1 => Matches(d, V, a, j, q)
             /\ j = Len(d[a]) + 1 =>
                  /\ a \in OpenBlocks(d)
                  /\ <<a, q>> \in G \/ (IsStmt(q) /\ <<a, j, Unfolded(q)>> \in V)
  <2>1. CASE <<a, j, q>> \in N
    BY <1>5, <1>6, <2>1
  <2>2. CASE <<a, j, q>> \in W /\ a # b
    <3>1. a \in DOMAIN d /\ d[a] = c[a] /\ j \in 1..(Len(d[a]) + 1) /\ IsSeq(q)
      BY <1>3, <2>2 DEF Fits
    <3>2. j # Len(d[a]) + 1 => Matches(d, V, a, j, q)
      BY <1>1, <2>2, <3>1, MatchesMore DEF Fits
    <3>3. j = Len(d[a]) + 1 => a \in OpenBlocks(d)
      BY <1>4, <2>2, <3>1 DEF Fits
    <3>4. j = Len(d[a]) + 1 => <<a, q>> \in G \/ (IsStmt(q) /\ <<a, j, Unfolded(q)>> \in V)
      BY <1>1, <2>2, <3>1 DEF Fits
    <3>5. QED
      BY <3>1, <3>2, <3>3, <3>4
  <2>3. CASE <<a, j, q>> \in W /\ a = b
    <3>1. j \in 1..(Len(c[b]) + 1) /\ IsSeq(q)
      BY <2>3 DEF Fits
    <3>2. j \in 1..(Len(d[b]) + 1) /\ j # Len(d[b]) + 1
      BY <1>3, <3>1
    <3>3. CASE j # Len(c[b]) + 1
      <4>1. d[b][j] = c[b][j]
        BY <1>3, <3>1, <3>3
      <4>2. Matches(c, W, b, j, q)
        BY <2>3, <3>3 DEF Fits
      <4>3. Matches(d, V, b, j, q)
        BY <1>1, <4>1, <4>2, MatchesMore
      <4>4. QED
        BY <1>2, <1>3, <2>3, <3>1, <3>2, <4>3
    <3>4. CASE j = Len(c[b]) + 1
      <4>1. q = k \/ (IsStmt(q) /\ <<b, j, Unfolded(q)>> \in W)
        BY <2>3, <3>4 DEF Fits
      <4>2. IsStmt(q) /\ <<b, j, Unfolded(q)>> \in W => Matches(d, V, b, j, q)
        BY <1>1, <1>3, <3>4 DEF Matches
      <4>3. Matches(d, V, b, j, q)
        BY <1>1, <3>4, <4>1, <4>2
      <4>4. QED
        BY <1>2, <1>3, <2>3, <3>1, <3>2, <4>3
    <3>5. QED
      BY <3>3, <3>4
  <2>4. QED
    BY <1>1, <1>7, <2>1, <2>2, <2>3
<1>8. Fits(d, V, G)
  BY <1>7 DEF Fits
<1>9. QED
  BY <1>1, <1>8

(* What is left to do in a block is done where the branch at its end leads: *)
(* in a block still empty, or in one built already that does just that.     *)
LEMMA BrFits ==
  ASSUME NEW c, IsGraph(c), NEW W, NEW H, Fits(c, W, H), NEW b \in OpenBlocks(c),
         NEW to \in 2..Len(c), NEW G,
         \A a, q : <<a, q>> \in H /\ a # b => <<a, q>> \in G,
         \/ /\ to \in OpenBlocks(c) /\ c[to] = <<>> /\ to # b
            /\ \A q : <<b, q>> \in H => <<to, q>> \in G
         \/ /\ c[to] # <<>> /\ c[to][1].op # "br"
            /\ \A q : <<b, q>> \in H => <<to, 1, q>> \in W
  PROVE  \E V : W \subseteq V /\ Fits(Emit(c, b, Br(to)), V, G)
<1> DEFINE Copies == {<<to, 1, n[3]>> : n \in {m \in W : m = <<b, Len(c[b]) + 1, m[3]>>}}
<1>1. PICK d, V : d = Emit(c, b, Br(to)) /\ V = W \cup Copies
  OBVIOUS
<1>2. \A q : <<b, Len(c[b]) + 1, q>> \in W => <<to, 1, q>> \in V
  BY <1>1
<1>3. \A a, j, q : <<a, j, q>> \in V /\ <<a, j, q>> \notin W
                     => a = to /\ j = 1 /\ <<b, Len(c[b]) + 1, q>> \in W
  BY <1>1
<1>4. W \subseteq V
  BY <1>1
<1> HIDE DEF Copies
<1>5. b \in DOMAIN c
  BY DEF OpenBlocks
<1>6. /\ DOMAIN d = DOMAIN c /\ \A a \in DOMAIN c : a # b => d[a] = c[a]
      /\ Len(d[b]) = Len(c[b]) + 1 /\ Len(c[b]) \in Nat
      /\ \A j \in 1..Len(c[b]) : d[b][j] = c[b][j]
      /\ d[b][Len(c[b]) + 1] = Br(to)
  BY <1>1, <1>5, EmitFacts
<1>7. IsGraph(d) /\ \A a \in OpenBlocks(c) : a # b => a \in OpenBlocks(d)
  BY <1>1, EmitGraph, InstrFacts
<1>8. \A a \in DOMAIN d : Len(d[a]) \in Nat /\ Len(c[a]) \in Nat /\ (c[a] = <<>> <=> Len(c[a]) = 0)
  BY <1>6, <1>7, SeqFacts DEF IsGraph
<1>9. to \in DOMAIN c
  BY SeqFacts DEF IsGraph
<1>10. Br(to).op = "br" /\ Br(to).to = to
  BY DEF Br
<1>11. ASSUME NEW a, NEW j, NEW q, <<a, j, q>> \in V
       PROVE  /\ a \in DOMAIN d /\ j \in 1..(Len(d[a]) + 1) /\ IsSeq(q)
              /\ j # Len(d[a]) + 1 => Matches(d, V, a, j, q)
              /\ j = Len(d[a]) + 1 =>
                   /\ a \in OpenBlocks(d)
                   /\ <<a, q>> \in G \/ (IsStmt(q) /\ <<a, j, Unfolded(q)>> \in V)
  <2>1. CASE <<a, j, q>> \notin W
    <3>1. a = to /\ j = 1 /\ <<b, Len(c[b]) + 1, q>> \in W
      BY <1>3, <1>11, <2>1
    <3>2. /\ IsSeq(q)
          /\ <<b, q>> \in H \/ (IsStmt(q) /\ <<b, Len(c[b]) + 1, Unfolded(q)>> \in W)
      BY <3>1 DEF Fits
    <3>3. <<b, q>> \in H \/ (IsStmt(q) /\ <<to, 1, Unfolded(q)>> \in V)
      BY <1>2, <3>2
    <3>4. CASE to \in OpenBlocks(c) /\ c[to] = <<>> /\ to # b /\ \A p : <<b, p>> \in H => <<to, p>> \in G
      <4>1. d[to] = <<>> /\ Len(d[to]) = 0 /\ to \in OpenBlocks(d)
        BY <1>6, <1>7, <1>8, <1>9, <3>4
      <4>2. QED
        BY <1>6, <1>9, <3>1, <3>2, <3>3, <3>4, <4>1
    <3>5. CASE c[to] # <<>> /\ c[to][1].op # "br" /\ \A p : <<b, p>> \in H => <<to, 1, p>> \in W
      <4>1. Len(c[to]) \in Nat \ {0} /\ Len(d[to]) \in Nat /\ Len(c[to]) <= Len(d[to])
        BY <1>6, <1>8, <1>9, <3>5
      <4>2. d[to][1] = c[to][1]
        BY <1>6, <1>9, <4>1
      <4>3. 1 \in 1..(Len(d[to]) + 1) /\ 1 # Len(d[to]) + 1
        BY <4>1
      <4>4. <<b, q>> \notin H
        BY <2>1, <3>1, <3>5
      <4>5. Matches(d, V, to, 1, q)
        BY <3>3, <3>5, <4>2, <4>4 DEF Matches
      <4>6. QED
        BY <1>6, <1>9, <3>1, <3>2, <4>3, <4>5
    <3>6. QED
      BY <3>4, <3>5
  <2>2. CASE <<a, j, q>> \in W /\ a # b
    <3>1. a \in DOMAIN d /\ d[a] = c[a] /\ j \in 1..(Len(d[a]) + 1) /\ IsSeq(q)
      BY <1>6, <2>2 DEF Fits
    <3>2. j # Len(d[a]) + 1 => Matches(d, V, a, j, q)
      BY <1>4, <2>2, <3>1, MatchesMore DEF Fits
    <3>3. j = Len(d[a]) + 1 => a \in OpenBlocks(d)
      BY <1>7, <2>2, <3>1 DEF Fits
    <3>4. j = Len(d[a]) + 1 => <<a, q>> \in G \/ (IsStmt(q) /\ <<a, j, Unfolded(q)>> \in V)
      BY <1>4, <2>2, <3>1 DEF Fits
    <3>5. QED
      BY <3>1, <3>2, <3>3, <3>4
  <2>3. CASE <<a, j, q>> \in W /\ a = b
    <3>1. j \in 1..(Len(c[b]) + 1) /\ IsSeq(q)
      BY <2>3 DEF Fits
    <3>2. j \in 1..(Len(d[b]) + 1) /\ j # Len(d[b]) + 1
      BY <1>6, <3>1
    <3>3. CASE j # Len(c[b]) + 1
      <4>1. d[b][j] = c[b][j]
        BY <1>6, <3>1, <3>3
      <4>2. Matches(c, W, b, j, q)
        BY <2>3, <3>3 DEF Fits
      <4>3. Matches(d, V, b, j, q)
        BY <1>4, <4>1, <4>2, MatchesMore
      <4>4. QED
        BY <1>5, <1>6, <2>3, <3>1, <3>2, <4>3
    <3>4. CASE j = Len(c[b]) + 1
      <4>1. <<to, 1, q>> \in V
        BY <1>2, <2>3, <3>4
      <4>2. Matches(d, V, b, j, q)
        BY <1>6, <1>10, <3>4, <4>1 DEF Matches
      <4>3. QED
        BY <1>5, <1>6, <2>3, <3>1, <3>2, <4>2
    <3>5. QED
      BY <3>3, <3>4
  <2>4. QED
    BY <1>11, <2>1, <2>2, <2>3
<1>12. Fits(d, V, G)
  BY <1>11 DEF Fits
<1>13. QED
  BY <1>1, <1>4, <1>12

(****************************************************************************)
(* The blocks of an expression do what its evaluation does                  *)
(****************************************************************************)
Evaluation(e, path, decl) ==
  LET use == <<[do |-> "use", path |-> path, decl |-> decl]>>
      test == <<[do |-> "test", path |-> Append(path, 0), yes |-> use,
                 no |-> <<[do |-> "except", path |-> path]>>]>>
  IN  IF e.indexed THEN use \o test ELSE use

(* Nothing but the end of block b and new blocks differ in d. *)
Kept(c, b, d) ==
  /\ DOMAIN c \subseteq DOMAIN d
  /\ \A a \in DOMAIN c : a # b => d[a] = c[a]
  /\ Len(c[b]) <= Len(d[b]) /\ \A i \in 1..Len(c[b]) : d[b][i] = c[b][i]

LEMMA EvaluatedKept ==
  ASSUME NEW c, IsGraph(c), NEW b \in OpenBlocks(c), NEW e, NEW path
  PROVE  LET d == Evaluated(c, b, e, path).code
         IN  /\ Kept(c, b, d)
             /\ Len(c[b]) < Len(d[b]) /\ d[b][Len(c[b]) + 1] = Use(path, Find(e.var))
<1> DEFINE use == Use(path, Find(e.var))
           exphand == Len(c) + 1
           normal  == Len(c) + 2
           out     == Len(c) + 3
           test == CondBr(Append(path, 0), normal, exphand)
           r == Evaluated(c, b, e, path)
<1>1. b \in DOMAIN c /\ Len(c) \in Nat /\ DOMAIN c = 1..Len(c) /\ Len(c[b]) \in Nat
  BY SeqFacts DEF OpenBlocks, IsGraph
<1>2. CASE ~e.indexed
  <2>1. r.code = Emit(c, b, use)
    BY <1>2 DEF Evaluated
  <2> HIDE DEF use, r
  <2>2. PICK d : d = Emit(c, b, use)
    OBVIOUS
  <2>3. /\ DOMAIN d = DOMAIN c /\ \A a \in DOMAIN c : a # b => d[a] = c[a]
        /\ Len(d[b]) = Len(c[b]) + 1
        /\ \A j \in 1..Len(c[b]) : d[b][j] = c[b][j]
        /\ d[b][Len(c[b]) + 1] = use
    BY <1>1, <2>2, EmitFacts
  <2>4. QED
    BY <1>1, <2>1, <2>2, <2>3 DEF Kept, use, r
<1>3. CASE e.indexed
  <2>1. PICK d0, d1, d2, d3, d4, d5, d6 :
          /\ d0 = NewBlocks(c, 3) /\ d1 = Emit(d0, b, use) /\ d2 = Emit(d1, b, test)
          /\ d3 = Emit(d2, normal, Br(out)) /\ d4 = Emit(d3, exphand, Except(path))
          /\ d5 = Emit(d4, exphand, Br(out)) /\ d6 = Emit(d5, out, use)
    OBVIOUS
  <2>2. r.code = d6
    BY <1>3, <2>1 DEF Evaluated
  <2>3. /\ Targets(use) = {} /\ Targets(test) = {normal, exphand} /\ Targets(Br(out)) = {out}
        /\ Targets(Except(path)) = {}
        /\ ~IsTerminator(use) /\ IsTerminator(test) /\ ~IsTerminator(Except(path))
    BY InstrFacts
  <2> HIDE DEF use, test, r
  <2>4. /\ IsGraph(d0) /\ Len(d0) = Len(c) + 3 /\ DOMAIN d0 = 1..(Len(c) + 3)
        /\ OpenBlocks(d0) = OpenBlocks(c) \cup ((Len(c) + 1)..(Len(c) + 3))
        /\ \A a \in DOMAIN c : d0[a] = c[a]
    <3>1. /\ IsGraph(d0) /\ Len(d0) = Len(c) + 3 /\ DOMAIN d0 = 1..(Len(c) + 3)
          /\ OpenBlocks(d0) = OpenBlocks(c) \cup ((Len(c) + 1)..(Len(c) + 3))
      BY <2>1, NewBlocksGraph
    <3>2. \A a \in DOMAIN c : d0[a] = c[a]
      BY <2>1, NewBlocksFacts
    <3>3. QED
      BY <3>1, <3>2
  <2>5. /\ b \in OpenBlocks(d0) /\ {exphand, normal, out} \subseteq OpenBlocks(d0)
        /\ b \notin {exphand, normal, out} /\ normal # exphand /\ normal # out /\ exphand # out
        /\ {exphand, normal, out} \subseteq 2..(Len(c) + 3)
    BY <1>1, <2>4
  <2>6. /\ IsGraph(d1) /\ DOMAIN d1 = DOMAIN d0 /\ Len(d1) = Len(d0) /\ OpenBlocks(d1) = OpenBlocks(d0)
    BY <2>1, <2>3, <2>4, <2>5, EmitGraph
  <2>7. IsGraph(d2) /\ DOMAIN d2 = DOMAIN d0 /\ Len(d2) = Len(d0) /\ OpenBlocks(d2) = OpenBlocks(d0) \ {b}
    <3>1. Targets(test) \subseteq 2..Len(d1) /\ b \in OpenBlocks(d1)
      BY <2>3, <2>4, <2>5, <2>6
    <3>2. d2 = Emit(d1, b, test) /\ IsGraph(d1) /\ IsTerminator(test)
      BY <2>1, <2>3, <2>6
    <3>3. QED
      BY <2>4, <2>6, <3>1, <3>2, EmitGraph
  <2>8. IsGraph(d3) /\ DOMAIN d3 = DOMAIN d0 /\ Len(d3) = Len(d0)
        /\ OpenBlocks(d3) = OpenBlocks(d0) \ {b, normal}
    BY <2>1, <2>3, <2>4, <2>5, <2>7, EmitGraph, InstrFacts
  <2>9. IsGraph(d4) /\ DOMAIN d4 = DOMAIN d0 /\ Len(d4) = Len(d0) /\ OpenBlocks(d4) = OpenBlocks(d3)
    BY <2>1, <2>3, <2>4, <2>5, <2>8, EmitGraph
  <2>10. IsGraph(d5) /\ DOMAIN d5 = DOMAIN d0
    BY <2>1, <2>3, <2>4, <2>5, <2>8, <2>9, EmitGraph, InstrFacts
  <2>11. {b, exphand, normal, out} \subseteq DOMAIN d0
    BY <2>4, <2>5 DEF OpenBlocks
  <2>12. /\ \A a \in DOMAIN d0 : a # b => d1[a] = d0[a]
         /\ Len(d1[b]) = Len(d0[b]) + 1
         /\ \A k \in 1..Len(d0[b]) : d1[b][k] = d0[b][k]
         /\ d1[b][Len(d0[b]) + 1] = use
    BY <2>1, <2>4, <2>11, EmitFacts
  <2>13. /\ \A a \in DOMAIN d0 : a # b => d2[a] = d1[a]
         /\ Len(d2[b]) = Len(d1[b]) + 1
         /\ \A k \in 1..Len(d1[b]) : d2[b][k] = d1[b][k]
    BY <2>1, <2>6, <2>11, EmitFacts
  <2>14. \A a \in DOMAIN d0 : a # normal => d3[a] = d2[a]
    BY <2>1, <2>7, <2>11, EmitFacts
  <2>15. \A a \in DOMAIN d0 : a # exphand => d4[a] = d3[a]
    BY <2>1, <2>8, <2>11, EmitFacts
  <2>16. \A a \in DOMAIN d0 : a # exphand => d5[a] = d4[a]
    BY <2>1, <2>9, <2>11, EmitFacts
  <2>17. /\ \A a \in DOMAIN d0 : a # out => d6[a] = d5[a]
         /\ DOMAIN d6 = DOMAIN d0
    BY <2>1, <2>10, <2>11, EmitFacts
  <2>18. \A a \in DOMAIN c : a \in DOMAIN d0 /\ a \notin {exphand, normal, out}
    BY <1>1, <2>4
  <2>19. \A a \in DOMAIN c : d6[a] = d2[a]
    BY <2>14, <2>15, <2>16, <2>17, <2>18
  <2>20. \A a \in DOMAIN c : a # b => d6[a] = c[a]
    BY <2>4, <2>12, <2>13, <2>18, <2>19
  <2>21. /\ Len(d6[b]) = Len(c[b]) + 2
         /\ \A k \in 1..Len(c[b]) : d6[b][k] = c[b][k]
         /\ d6[b][Len(c[b]) + 1] = use
    <3>1. PICK n : n = Len(c[b])
      OBVIOUS
    <3>2. d6[b] = d2[b] /\ Len(d0[b]) = n /\ n \in Nat /\ Len(d1[b]) = n + 1 /\ Len(d2[b]) = (n + 1) + 1
      BY <1>1, <2>4, <2>12, <2>13, <2>19, <3>1
    <3>3. /\ \A k \in 1..n : d2[b][k] = c[b][k]
          /\ d2[b][n + 1] = use
      <4>1. \A k \in 1..n : d1[b][k] = c[b][k]
        BY <1>1, <2>4, <2>12, <3>2
      <4>2. \A k \in 1..(n + 1) : d2[b][k] = d1[b][k]
        BY <2>13, <3>2
      <4>3. n + 1 \in 1..(n + 1) /\ \A k \in 1..n : k \in 1..(n + 1)
        BY <3>2
      <4>4. QED
        BY <2>12, <3>2, <4>1, <4>2, <4>3
    <3>4. QED
      BY <3>1, <3>2, <3>3
  <2>22. QED
    BY <1>1, <2>2, <2>17, <2>18, <2>20, <2>21 DEF Kept, use, r
<1>4. QED
  BY <1>2, <1>3

LEMMA UseMatches ==
  ASSUME NEW c, NEW W, NEW b, NEW i, NEW path, NEW decl, NEW k, IsSeq(k),
         c[b][i] = Use(path, decl), <<b, i + 1, k>> \in W
  PROVE  Matches(c, W, b, i, <<[do |-> "use", path |-> path, decl |-> decl]>> \o k)
<1> DEFINE x == [do |-> "use", path |-> path, decl |-> decl]
<1>1. x.do = "use" /\ x.path = path /\ x.decl = decl
  OBVIOUS
<1> HIDE DEF x
<1>2. PICK l : l = <<x>> \o k
  OBVIOUS
<1>3. l # <<>> /\ Head(l) = x /\ Tail(l) = k
  BY <1>2, ConsFacts
<1>4. Matches(c, W, b, i, l)
  BY <1>1, <1>3 DEF Matches, First, IsStmt
<1>5. QED
  BY <1>2, <1>4 DEF x

LEMMA TestMatches ==
  ASSUME NEW c, NEW W, NEW b, NEW i, NEW path, NEW yes, NEW no, NEW p, NEW q, NEW k, IsSeq(k),
         c[b][i] = CondBr(path, yes, no), <<yes, 1, p \o k>> \in W, <<no, 1, q \o k>> \in W
  PROVE  Matches(c, W, b, i, <<[do |-> "test", path |-> path, yes |-> p, no |-> q]>> \o k)
<1> DEFINE x == [do |-> "test", path |-> path, yes |-> p, no |-> q]
<1>1. x.do = "test" /\ x.path = path /\ x.yes = p /\ x.no = q
  OBVIOUS
<1>2. /\ c[b][i].op = "condbr" /\ c[b][i].at = path /\ c[b][i].yes = yes /\ c[b][i].no = no
  BY DEF CondBr
<1> HIDE DEF x
<1>3. PICK l : l = <<x>> \o k
  OBVIOUS
<1>4. l # <<>> /\ Head(l) = x /\ Tail(l) = k
  BY <1>3, ConsFacts
<1>5. Matches(c, W, b, i, l)
  BY <1>1, <1>2, <1>4 DEF Matches, First, IsStmt
<1>6. QED
  BY <1>3, <1>5 DEF x

LEMMA ExceptMatches ==
  ASSUME NEW c, NEW W, NEW b, NEW i, NEW path, NEW k, IsSeq(k), c[b][i] = Except(path)
  PROVE  Matches(c, W, b, i, <<[do |-> "except", path |-> path]>> \o k)
<1> DEFINE x == [do |-> "except", path |-> path]
<1>1. x.do = "except" /\ x.path = path
  OBVIOUS
<1> HIDE DEF x
<1>2. PICK l : l = <<x>> \o k
  OBVIOUS
<1>3. l # <<>> /\ Head(l) = x
  BY <1>2, ConsFacts
<1>4. Matches(c, W, b, i, l)
  BY <1>1, <1>3 DEF Matches, First, IsStmt
<1>5. QED
  BY <1>2, <1>4 DEF x

LEMMA RetMatches ==
  ASSUME NEW c, NEW W, NEW b, NEW i, NEW k, IsSeq(k), c[b][i] = Ret
  PROVE  /\ Matches(c, W, b, i, <<[do |-> "ret"]>> \o k)
         /\ Matches(c, W, b, i, <<>>)
<1> DEFINE x == [do |-> "ret"]
<1>1. x.do = "ret"
  OBVIOUS
<1>2. Matches(c, W, b, i, <<>>)
  BY <1>1 DEF Matches, First, IsStmt
<1> HIDE DEF x
<1>3. PICK l : l = <<x>> \o k
  OBVIOUS
<1>4. l # <<>> /\ Head(l) = x
  BY <1>3, ConsFacts
<1>5. Matches(c, W, b, i, l)
  BY <1>1, <1>4 DEF Matches, First, IsStmt
<1>6. QED
  BY <1>2, <1>3, <1>5 DEF x

LEMMA EvaluationFacts ==
  ASSUME NEW e, NEW path, NEW decl
  PROVE  IsSeq(Evaluation(e, path, decl)) /\ Evaluation(e, path, decl) # <<>>
<1> DEFINE u == [do |-> "use", path |-> path, decl |-> decl]
           x == [do |-> "except", path |-> path]
           t == [do |-> "test", path |-> Append(path, 0), yes |-> <<u>>, no |-> <<x>>]
<1>1. PICK v : v = Evaluation(e, path, decl)
  OBVIOUS
<1>2. v = IF e.indexed THEN <<u>> \o <<t>> ELSE <<u>>
  BY <1>1 DEF Evaluation
<1> HIDE DEF u, x, t
<1>3. IsSeq(<<u>>) /\ IsSeq(<<t>>)
  BY SingleFacts
<1>4. IsSeq(<<u>> \o <<t>>) /\ <<u>> \o <<t>> # <<>>
  BY <1>3, ConsFacts
<1>5. <<u>> # <<>>
  OBVIOUS
<1>6. QED
  BY <1>1, <1>2, <1>3, <1>4, <1>5

(* What is to do after the expression is left to do where its blocks end. *)
LEMMA EvaluatedFits ==
  ASSUME NEW c, IsGraph(c), NEW W, NEW H, Fits(c, W, H), NEW b \in OpenBlocks(c),
         NEW e, NEW path, NEW k, IsSeq(k),
         \A q : <<b, q>> \in H => q = Evaluation(e, path, Find(e.var)) \o k,
         \A a, q : <<a, q>> \in H => a \in DOMAIN c,
         NEW G, \A a, q : <<a, q>> \in H /\ a # b => <<a, q>> \in G,
         <<Evaluated(c, b, e, path).cur, k>> \in G
  PROVE  \E V : W \subseteq V /\ Fits(Evaluated(c, b, e, path).code, V, G)
<1> DEFINE use == Use(path, Find(e.var))
           exphand == Len(c) + 1
           normal  == Len(c) + 2
           out     == Len(c) + 3
           test == CondBr(Append(path, 0), normal, exphand)
           u == [do |-> "use", path |-> path, decl |-> Find(e.var)]
           x == [do |-> "except", path |-> path]
           t == [do |-> "test", path |-> Append(path, 0), yes |-> <<u>>, no |-> <<x>>]
           r == Evaluated(c, b, e, path)
<1>1. b \in DOMAIN c /\ Len(c) \in Nat /\ DOMAIN c = 1..Len(c) /\ Len(c[b]) \in Nat
  BY SeqFacts DEF OpenBlocks, IsGraph
<1>2. /\ Targets(use) = {} /\ Targets(test) = {normal, exphand} /\ Targets(Br(out)) = {out}
      /\ Targets(Except(path)) = {}
      /\ ~IsTerminator(use) /\ IsTerminator(test) /\ ~IsTerminator(Except(path))
  BY InstrFacts
<1>3. use.op # "br" /\ test.op # "br" /\ Except(path).op # "br"
  BY DEF Use, CondBr, Except
<1>4. /\ ~e.indexed => \A q : <<b, q>> \in H => q = <<u>> \o k
      /\ e.indexed => \A q : <<b, q>> \in H => q = <<u>> \o (<<t>> \o k)
  <2>1. PICK v : v = Evaluation(e, path, Find(e.var))
    OBVIOUS
  <2>2. v = IF e.indexed THEN <<u>> \o <<t>> ELSE <<u>>
    BY <2>1 DEF Evaluation
  <2> HIDE DEF u, t, x
  <2>3. (<<u>> \o <<t>>) \o k = <<u>> \o (<<t>> \o k)
    <3>1. IsSeq(<<u>>) /\ IsSeq(<<t>>)
      BY SingleFacts
    <3>2. QED
      BY <3>1, ConcatAssoc
  <2>4. \A q : <<b, q>> \in H => q = v \o k
    BY <2>1
  <2>5. QED
    BY <2>2, <2>3, <2>4
<1>5. IsSeq(<<t>> \o k) /\ IsSeq(<<u>> \o k) /\ IsSeq(<<x>> \o k)
  BY ConsFacts
<1>6. /\ ~e.indexed => r.code = Emit(c, b, use) /\ r.cur = b
      /\ e.indexed => r.cur = out
  BY DEF Evaluated
<1>7. \A d, V, a, i, l : IsSeq(l) /\ d[a][i] = use /\ <<a, i + 1, l>> \in V
                          => Matches(d, V, a, i, <<u>> \o l)
  BY UseMatches
<1>8. \A d, V, a, i : d[a][i] = test /\ <<normal, 1, <<u>> \o k>> \in V /\ <<exphand, 1, <<x>> \o k>> \in V
                          => Matches(d, V, a, i, <<t>> \o k)
  BY TestMatches
<1>9. \A d, V, a, i : d[a][i] = Except(path) => Matches(d, V, a, i, <<x>> \o k)
  BY ExceptMatches
<1>10. CASE ~e.indexed
  <2> HIDE DEF use, test, u, t, x, r
  <2>1. PICK d : d = Emit(c, b, use)
    OBVIOUS
  <2>2. b \in OpenBlocks(d) /\ IsGraph(d)
    BY <1>2, <2>1, EmitGraph
  <2>3. Len(d[b]) = Len(c[b]) + 1 /\ d[b][Len(c[b]) + 1] = use
    BY <1>1, <2>1, EmitFacts
  <2>4. PICK N, V : N = {<<b, Len(d[b]) + 1, k>>} /\ V = W \cup N
    OBVIOUS
  <2>5. Matches(d, V, b, Len(c[b]) + 1, <<u>> \o k)
    BY <1>7, <2>3, <2>4
  <2>6. \A n \in N : \E a, q : /\ n = <<a, Len(d[a]) + 1, q>> /\ IsSeq(q)
                               /\ a \in OpenBlocks(d) /\ <<a, q>> \in G
    BY <1>6, <1>10, <2>2, <2>4 DEF r
  <2>7. Fits(d, V, G)
    <3>1. PICK l : l = <<u>> \o k
      OBVIOUS
    <3>2. \A q : <<b, q>> \in H => q = l
      BY <1>4, <1>10, <3>1
    <3>3. Matches(Emit(c, b, use), W \cup N, b, Len(c[b]) + 1, l)
      BY <2>1, <2>4, <2>5, <3>1
    <3>4. \A n \in N : \E a, q : /\ n = <<a, Len(Emit(c, b, use)[a]) + 1, q>> /\ IsSeq(q)
                                 /\ a \in OpenBlocks(Emit(c, b, use)) /\ <<a, q>> \in G
      BY <2>1, <2>6
    <3>5. use.op # "br" /\ Targets(use) \subseteq 2..Len(c)
      BY <1>2, <1>3
    <3>6. Fits(Emit(c, b, use), W \cup N, G)
      BY <3>2, <3>3, <3>4, <3>5, EmitFits
    <3>7. QED
      BY <2>1, <2>4, <3>6
  <2>8. QED
    BY <1>6, <1>10, <2>1, <2>4, <2>7 DEF r
<1>11. CASE e.indexed
  <2>1. PICK d0, d1, d2, d3, d4, d5, d6 :
          /\ d0 = NewBlocks(c, 3) /\ d1 = Emit(d0, b, use) /\ d2 = Emit(d1, b, test)
          /\ d3 = Emit(d2, normal, Br(out)) /\ d4 = Emit(d3, exphand, Except(path))
          /\ d5 = Emit(d4, exphand, Br(out)) /\ d6 = Emit(d5, out, use)
    OBVIOUS
  <2>2. r.code = d6
    BY <1>11, <2>1 DEF Evaluated
  <2>3. PICK K1, K2, K3 : K1 = <<t>> \o k /\ K2 = <<u>> \o k /\ K3 = <<x>> \o k
    OBVIOUS
  <2> HIDE DEF use, test, u, t, x, r
  <2>4. PICK xb, nb, ob : xb = exphand /\ nb = normal /\ ob = out
    OBVIOUS
  <2>5. /\ d0 = NewBlocks(c, 3) /\ d1 = Emit(d0, b, use) /\ d2 = Emit(d1, b, test)
        /\ d3 = Emit(d2, nb, Br(ob)) /\ d4 = Emit(d3, xb, Except(path))
        /\ d5 = Emit(d4, xb, Br(ob)) /\ d6 = Emit(d5, ob, use)
        /\ Targets(test) = {nb, xb} /\ <<ob, k>> \in G
        /\ \A d, V, a, i : d[a][i] = test /\ <<nb, 1, K2>> \in V /\ <<xb, 1, K3>> \in V
                          => Matches(d, V, a, i, K1)
    BY <1>2, <1>6, <1>8, <1>11, <2>1, <2>3, <2>4 DEF r
  <2> HIDE DEF use, test, u, t, x, r
  <2>6. /\ IsGraph(d0) /\ Len(d0) = Len(c) + 3 /\ DOMAIN d0 = 1..(Len(c) + 3)
        /\ OpenBlocks(d0) = OpenBlocks(c) \cup ((Len(c) + 1)..(Len(c) + 3))
        /\ \A a \in DOMAIN c : d0[a] = c[a]
        /\ \A a \in (Len(c) + 1)..(Len(c) + 3) : d0[a] = <<>>
    <3>1. /\ IsGraph(d0) /\ Len(d0) = Len(c) + 3 /\ DOMAIN d0 = 1..(Len(c) + 3)
          /\ OpenBlocks(d0) = OpenBlocks(c) \cup ((Len(c) + 1)..(Len(c) + 3))
      BY <2>5, NewBlocksGraph
    <3>2. /\ \A a \in DOMAIN c : d0[a] = c[a]
          /\ \A a \in (Len(c) + 1)..(Len(c) + 3) : d0[a] = <<>>
      BY <2>5, NewBlocksFacts
    <3>3. QED
      BY <3>1, <3>2
  <2>7. /\ b \in OpenBlocks(d0) /\ {xb, nb, ob} \subseteq OpenBlocks(d0)
        /\ b \notin {xb, nb, ob} /\ nb # xb /\ nb # ob /\ xb # ob
        /\ {xb, nb, ob} \subseteq 2..Len(d0) /\ {b, xb, nb, ob} \subseteq DOMAIN d0
        /\ d0[xb] = <<>> /\ d0[nb] = <<>> /\ d0[ob] = <<>>
        /\ DOMAIN c \cap {xb, nb, ob} = {}
    BY <1>1, <2>4, <2>6
  <2> HIDE DEF exphand, normal, out
  <2>8. /\ IsGraph(d1) /\ DOMAIN d1 = DOMAIN d0 /\ Len(d1) = Len(d0)
        /\ OpenBlocks(d1) = OpenBlocks(d0) /\ Targets(use) \subseteq 2..Len(d0)
    BY <1>2, <2>5, <2>6, <2>7, EmitGraph
  <2>9. /\ IsGraph(d2) /\ DOMAIN d2 = DOMAIN d0 /\ Len(d2) = Len(d0)
        /\ OpenBlocks(d2) = OpenBlocks(d0) \ {b} /\ Targets(test) \subseteq 2..Len(d1)
    <3>1. Targets(test) \subseteq 2..Len(d1) /\ b \in OpenBlocks(d1)
      BY <2>5, <2>7, <2>8
    <3>2. d2 = Emit(d1, b, test) /\ IsGraph(d1) /\ IsTerminator(test)
      BY <1>2, <2>5, <2>8
    <3>3. QED
      BY <2>8, <3>1, <3>2, EmitGraph
  <2>10. /\ IsGraph(d3) /\ DOMAIN d3 = DOMAIN d0 /\ Len(d3) = Len(d0)
         /\ OpenBlocks(d3) = OpenBlocks(d0) \ {b, nb}
    BY <2>5, <2>7, <2>9, EmitGraph, InstrFacts
  <2>11. /\ IsGraph(d4) /\ DOMAIN d4 = DOMAIN d0 /\ Len(d4) = Len(d0)
         /\ OpenBlocks(d4) = OpenBlocks(d3) /\ Targets(Except(path)) \subseteq 2..Len(d3)
    BY <1>2, <2>5, <2>7, <2>10, EmitGraph
  <2>12. /\ IsGraph(d5) /\ DOMAIN d5 = DOMAIN d0 /\ Len(d5) = Len(d0)
         /\ OpenBlocks(d5) = OpenBlocks(d4) \ {xb}
    BY <2>5, <2>7, <2>10, <2>11, EmitGraph, InstrFacts
  <2>13. ob \in OpenBlocks(d6)
    BY <1>2, <2>5, <2>7, <2>8, <2>10, <2>11, <2>12, EmitGraph
  <2>14. /\ \A a \in DOMAIN d0 : a # b => d1[a] = d0[a]
         /\ d1[b][Len(d0[b]) + 1] = use
    BY <2>5, <2>6, <2>7, EmitFacts
  <2>15. /\ \A a \in DOMAIN d0 : a # b => d2[a] = d1[a]
         /\ d2[b][Len(d1[b]) + 1] = test
    BY <2>5, <2>7, <2>8, EmitFacts
  <2>16. \A a \in DOMAIN d0 : a # nb => d3[a] = d2[a]
    BY <2>5, <2>7, <2>9, EmitFacts
  <2>17. /\ \A a \in DOMAIN d0 : a # xb => d4[a] = d3[a]
         /\ d4[xb][Len(d3[xb]) + 1] = Except(path)
    BY <2>5, <2>7, <2>10, EmitFacts
  <2>18. \A a \in DOMAIN d0 : a # xb => d5[a] = d4[a]
    BY <2>5, <2>7, <2>11, EmitFacts
  <2>19. d6[ob][Len(d5[ob]) + 1] = use
    BY <2>5, <2>7, <2>12, EmitFacts
  <2>20. /\ d2[nb] = <<>> /\ d2[xb] = <<>> /\ d2[ob] = <<>>
         /\ d3[xb] = <<>> /\ d3[ob] = <<>> /\ d5[ob] = <<>>
    BY <2>7, <2>14, <2>15, <2>16, <2>17, <2>18
  <2>21. Len(<<>>) = 0 /\ 0 + 1 = 1
    OBVIOUS
  <2>22. PICK P : P = {h \in H : h[1] # b}
    OBVIOUS
  <2>23. \A a, q : <<a, q>> \in P <=> <<a, q>> \in H /\ a # b
    BY <2>22
  <2>24. \A a, q : <<a, q>> \in P => <<a, q>> \in G /\ a \notin {b, xb, nb, ob}
    BY <2>7, <2>23
  <2>25. PICK G1, G2, G3, G4 :
           /\ G1 = P \cup {<<b, K1>>} /\ G2 = P \cup {<<nb, K2>>, <<xb, K3>>}
           /\ G3 = P \cup {<<ob, K2>>, <<xb, K3>>} /\ G4 = P \cup {<<ob, K2>>}
    OBVIOUS
  <2>26. /\ \A a, q : <<a, q>> \in G1 <=> <<a, q>> \in P \/ (a = b /\ q = K1)
         /\ \A a, q : <<a, q>> \in G2 <=> \/ <<a, q>> \in P \/ (a = nb /\ q = K2)
                                          \/ (a = xb /\ q = K3)
         /\ \A a, q : <<a, q>> \in G3 <=> \/ <<a, q>> \in P \/ (a = ob /\ q = K2)
                                          \/ (a = xb /\ q = K3)
         /\ \A a, q : <<a, q>> \in G4 <=> <<a, q>> \in P \/ (a = ob /\ q = K2)
    BY <2>25
  <2>27. Fits(d0, W, H)
    BY <2>5, NewBlocksFits
  <2>28. PICK V1 : W \subseteq V1 /\ Fits(d1, V1, G1)
    <3>1. PICK M, l : M = {<<b, Len(d1[b]) + 1, K1>>} /\ l = <<u>> \o K1
      OBVIOUS
    <3>2. Matches(d1, W \cup M, b, Len(d0[b]) + 1, l)
      <4>1. Len(d1[b]) = (Len(d0[b]) + 1)
        BY <2>5, <2>6, <2>7, EmitFacts
      <4>2. QED
        BY <1>5, <1>7, <2>3, <2>14, <3>1, <4>1
    <3>3. \A n \in M : \E a, q : /\ n = <<a, Len(Emit(d0, b, use)[a]) + 1, q>> /\ IsSeq(q)
                                 /\ a \in OpenBlocks(Emit(d0, b, use)) /\ <<a, q>> \in G1
      BY <1>5, <2>3, <2>5, <2>7, <2>8, <2>26, <3>1
    <3>4. \A q : <<b, q>> \in H => q = l
      BY <1>4, <1>11, <2>3, <3>1
    <3>5. Matches(Emit(d0, b, use), W \cup M, b, Len(d0[b]) + 1, l)
      BY <2>5, <3>2
    <3>6. \A a, q : <<a, q>> \in H /\ a # b => <<a, q>> \in G1
      BY <2>23, <2>26
    <3>7. Fits(Emit(d0, b, use), W \cup M, G1)
      BY <1>3, <2>6, <2>7, <2>8, <2>27, <3>3, <3>4, <3>5, <3>6, EmitFits
    <3>8. QED
      BY <2>5, <3>7
  <2>29. PICK V2 : V1 \subseteq V2 /\ Fits(d2, V2, G2)
    <3>1. PICK M : M = {<<nb, 1, K2>>, <<xb, 1, K3>>}
      OBVIOUS
    <3>2. Matches(Emit(d1, b, test), V1 \cup M, b, Len(d1[b]) + 1, K1)
      BY <2>5, <2>15, <3>1
    <3>3. \A n \in M : \E a, q : /\ n = <<a, Len(Emit(d1, b, test)[a]) + 1, q>> /\ IsSeq(q)
                                 /\ a \in OpenBlocks(Emit(d1, b, test)) /\ <<a, q>> \in G2
      <4>1. ASSUME NEW n \in M PROVE \E a, q : /\ n = <<a, Len(d2[a]) + 1, q>> /\ IsSeq(q)
                                 /\ a \in OpenBlocks(d2) /\ <<a, q>> \in G2
        <5>1. /\ 1 = Len(d2[nb]) + 1 /\ IsSeq(K2) /\ nb \in OpenBlocks(d2) /\ <<nb, K2>> \in G2
              /\ 1 = Len(d2[xb]) + 1 /\ IsSeq(K3) /\ xb \in OpenBlocks(d2) /\ <<xb, K3>> \in G2
          <6>1. IsSeq(K2) /\ IsSeq(K3)
            BY <1>5, <2>3
          <6>2. nb \in OpenBlocks(d2) /\ xb \in OpenBlocks(d2)
            BY <2>7, <2>9
          <6>3. 1 = Len(d2[nb]) + 1 /\ 1 = Len(d2[xb]) + 1
            BY <2>20, <2>21
          <6>4. QED
            BY <2>26, <6>1, <6>2, <6>3
        <5>2. n = <<nb, 1, K2>> \/ n = <<xb, 1, K3>>
          BY <3>1, <4>1
        <5>3. QED
          BY ONLY <5>1, <5>2
      <4>2. QED
        BY <2>5, <4>1
    <3>4. \A q : <<b, q>> \in G1 => q = K1
      BY <2>24, <2>26
    <3>5. \A a, q : <<a, q>> \in G1 /\ a # b => <<a, q>> \in G2
      BY <2>26
    <3>6. b \in OpenBlocks(d1)
      BY <2>7, <2>8
    <3>7. Fits(Emit(d1, b, test), V1 \cup M, G2)
      BY <1>3, <2>8, <2>9, <2>28, <3>2, <3>3, <3>4, <3>5, <3>6, EmitFits
    <3>8. QED
      BY <2>5, <3>7
  <2>30. PICK V3 : V2 \subseteq V3 /\ Fits(d3, V3, G3)
    <3>1. /\ nb \in OpenBlocks(d2) /\ ob \in 2..Len(d2)
          /\ ob \in OpenBlocks(d2) /\ d2[ob] = <<>> /\ ob # nb
          /\ \A q : <<nb, q>> \in G2 => <<ob, q>> \in G3
          /\ \A a, q : <<a, q>> \in G2 /\ a # nb => <<a, q>> \in G3
      BY <2>7, <2>9, <2>20, <2>24, <2>26
    <3>2. \E V : V2 \subseteq V /\ Fits(Emit(d2, nb, Br(ob)), V, G3)
      BY <2>9, <2>29, <3>1, BrFits
    <3>3. QED
      BY <2>5, <3>2
  <2>31. Fits(d4, V3, G4)
    <3>1. PICK M : M = {}
      OBVIOUS
    <3>2. Matches(Emit(d3, xb, Except(path)), V3 \cup M, xb, Len(d3[xb]) + 1, K3)
      BY <1>9, <2>3, <2>5, <2>17
    <3>3. \A n \in M : \E a, q : /\ n = <<a, Len(Emit(d3, xb, Except(path))[a]) + 1, q>> /\ IsSeq(q)
                                 /\ a \in OpenBlocks(Emit(d3, xb, Except(path))) /\ <<a, q>> \in G4
      BY <3>1
    <3>4. \A q : <<xb, q>> \in G3 => q = K3
      BY <2>7, <2>24, <2>26
    <3>5. \A a, q : <<a, q>> \in G3 /\ a # xb => <<a, q>> \in G4
      BY <2>26
    <3>6. xb \in OpenBlocks(d3)
      BY <2>7, <2>10
    <3>7. Fits(Emit(d3, xb, Except(path)), V3 \cup M, G4)
      BY <1>3, <2>10, <2>11, <2>30, <3>2, <3>3, <3>4, <3>5, <3>6, EmitFits
    <3>8. QED
      BY <2>5, <3>1, <3>7
  <2>32. PICK V5 : V3 \subseteq V5 /\ Fits(d5, V5, G4)
    <3>1. /\ xb \in OpenBlocks(d4) /\ ob \in 2..Len(d4)
          /\ ob \in OpenBlocks(d4) /\ d4[ob] = <<>> /\ ob # xb
          /\ \A q : <<xb, q>> \in G4 => <<ob, q>> \in G4
          /\ \A a, q : <<a, q>> \in G4 /\ a # xb => <<a, q>> \in G4
      BY <2>7, <2>10, <2>11, <2>17, <2>20, <2>24, <2>26
    <3>2. \E V : V3 \subseteq V /\ Fits(Emit(d4, xb, Br(ob)), V, G4)
      BY <2>11, <2>31, <3>1, BrFits
    <3>3. QED
      BY <2>5, <3>2
  <2>33. PICK V6 : V5 \subseteq V6 /\ Fits(d6, V6, G)
    <3>1. PICK M : M = {<<ob, 2, k>>}
      OBVIOUS
    <3>2. Len(d5[ob]) + 1 = 1 /\ Len(d6[ob]) + 1 = 2
      <4>1. Len(d6[ob]) = Len(d5[ob]) + 1
        BY <2>5, <2>7, <2>12, EmitFacts
      <4>2. QED
        BY <2>20, <4>1
    <3>3. Matches(Emit(d5, ob, use), V5 \cup M, ob, Len(d5[ob]) + 1, K2)
      <4>1. d6[ob][1] = use /\ <<ob, 1 + 1, k>> \in V5 \cup M
        BY <2>19, <3>1, <3>2
      <4>2. QED
        BY <1>7, <2>3, <2>5, <3>2, <4>1
    <3>4. \A n \in M : \E a, q : /\ n = <<a, Len(Emit(d5, ob, use)[a]) + 1, q>> /\ IsSeq(q)
                                 /\ a \in OpenBlocks(Emit(d5, ob, use)) /\ <<a, q>> \in G
      BY <2>5, <2>13, <3>1, <3>2
    <3>5. /\ \A q : <<ob, q>> \in G4 => q = K2
          /\ \A a, q : <<a, q>> \in G4 /\ a # ob => <<a, q>> \in G
      BY <2>7, <2>24, <2>26
    <3>6. ob \in OpenBlocks(d5) /\ Targets(use) \subseteq 2..Len(d5)
      BY <2>7, <2>8, <2>10, <2>11, <2>12
    <3>7. Fits(Emit(d5, ob, use), V5 \cup M, G)
      BY <1>3, <2>12, <2>32, <3>3, <3>4, <3>5, <3>6, EmitFits
    <3>8. QED
      BY <2>5, <3>7
  <2>34. W \subseteq V6
    BY <2>28, <2>29, <2>30, <2>32, <2>33
  <2>35. QED
    BY <2>2, <2>33, <2>34 DEF r
<1>12. QED
  BY <1>10, <1>11

(****************************************************************************)
(* Scopes                                                                   *)
(****************************************************************************)
Env(sc) == [x \in Names |-> sc[Max({k \in 1..Len(sc) : x \in DOMAIN sc[k]})][x]]

(* The outermost scope declares every name. *)
ScopeOK(sc) == IsSeq(sc) /\ sc # <<>> /\ DOMAIN sc[1] = Names

LEMMA MaxIn ==
  ASSUME NEW n \in Nat, NEW S \in SUBSET (1..n), S # {}
  PROVE  Max(S) \in S
<1> DEFINE G == {m \in Nat : \A T \in SUBSET (1..m) : T = {} \/ \E x \in T : \A y \in T : x >= y}
<1>1. 0 \in G
  <2>1. 1..0 = {}
    OBVIOUS
  <2>2. QED
    BY <2>1
<1>2. ASSUME NEW m \in Nat, m \in G PROVE m + 1 \in G
  <2>1. SUFFICES ASSUME NEW T \in SUBSET (1..(m + 1)), T # {}
                 PROVE  \E x \in T : \A y \in T : x >= y
    OBVIOUS
  <2>2. CASE m + 1 \in T
    BY <2>2
  <2>3. CASE m + 1 \notin T
    <3>1. T \in SUBSET (1..m)
      BY <2>3
    <3>2. QED
      BY <1>2, <2>1, <3>1
  <2>4. QED
    BY <2>2, <2>3
<1> HIDE DEF G
<1>3. \A m \in Nat : m \in G
  BY <1>1, <1>2, SetInduction
<1>4. \E x \in S : \A y \in S : x >= y
  BY <1>3 DEF G
<1>5. QED
  BY <1>4 DEF Max

(* A declaration in a new scope hides those outside. *)
LEMMA EnvAppend ==
  ASSUME NEW sc, ScopeOK(sc), NEW f
  PROVE  /\ ScopeOK(Append(sc, f)) /\ Front(Append(sc, f)) = sc
         /\ Env(Append(sc, f)) = [x \in Names |-> IF x \in DOMAIN f THEN f[x] ELSE Env(sc)[x]]
<1>1. PICK t, n : t = Append(sc, f) /\ n = Len(sc)
  OBVIOUS
<1>2. /\ IsSeq(sc) /\ n \in Nat \ {0} /\ DOMAIN sc[1] = Names
  BY <1>1, SeqFacts DEF ScopeOK
<1>3. /\ IsSeq(t) /\ Len(t) = n + 1 /\ (\A i \in 1..n : t[i] = sc[i]) /\ t[n + 1] = f /\ t # <<>>
  BY <1>1, <1>2, AppendFacts
<1>4. ScopeOK(t)
  BY <1>2, <1>3 DEF ScopeOK
<1>5. Front(t) = sc
  <2> DEFINE R == {t[i] : i \in DOMAIN t}
  <2>1. t \in Seq(R)
    BY <1>3 DEF IsSeq
  <2> HIDE DEF R
  <2>2. Front(t) = SubSeq(t, 1, n)
    BY <1>2, <1>3 DEF Front
  <2>3. /\ IsSeq(Front(t)) /\ Len(Front(t)) = n
    BY <1>2, <1>3, FrontFacts
  <2>4. 1 \in Int /\ n \in Int /\ \A i \in 1..n : t[i] \in R
    BY <1>2, <1>3, <2>1
  <2>5. \A i \in 1..n : SubSeq(t, 1, n)[i] = t[1 + i - 1]
    BY <2>1, <2>4, SubSeqProperties
  <2>6. \A i \in 1..n : Front(t)[i] = sc[i]
    BY <1>2, <1>3, <2>2, <2>5
  <2>7. QED
    BY <1>1, <1>2, <2>3, <2>6, SameSeq
<1>6. ASSUME NEW x \in Names
      PROVE  Env(t)[x] = IF x \in DOMAIN f THEN f[x] ELSE Env(sc)[x]
  <2> DEFINE S == {k \in 1..Len(t) : x \in DOMAIN t[k]}
             T == {k \in 1..Len(sc) : x \in DOMAIN sc[k]}
  <2>1. Env(t)[x] = t[Max(S)][x] /\ Env(sc)[x] = sc[Max(T)][x]
    BY DEF Env
  <2>2. S \subseteq 1..(n + 1) /\ T \subseteq 1..n /\ 1 \in T
    BY <1>1, <1>2, <1>3
  <2>3. CASE x \in DOMAIN f
    <3>1. n + 1 \in S /\ \A y \in S : n + 1 >= y
      BY <1>2, <1>3, <2>2, <2>3
    <3>2. Max(S) \in S
      <4>1. n + 1 \in Nat /\ S \in SUBSET (1..(n + 1)) /\ S # {}
        BY <1>2, <2>2, <3>1
      <4> HIDE DEF S
      <4>2. QED
        BY <4>1, MaxIn
    <3>3. \A y \in S : Max(S) >= y
      <4> HIDE DEF S
      <4>1. QED
        BY <3>1 DEF Max
    <3>4. Max(S) = n + 1
      BY <1>2, <2>2, <3>1, <3>2, <3>3
    <3>5. QED
      BY <1>3, <2>1, <2>3, <3>4
  <2>4. CASE x \notin DOMAIN f
    <3>1. S = T
      BY <1>1, <1>2, <1>3, <2>4
    <3>2. Max(T) \in T
      <4>1. n \in Nat /\ T \in SUBSET (1..n) /\ T # {}
        BY <1>2, <2>2
      <4> HIDE DEF T
      <4>2. QED
        BY <4>1, MaxIn
    <3>3. t[Max(T)] = sc[Max(T)]
      BY <1>3, <2>2, <3>2
    <3>4. QED
      BY <2>1, <2>4, <3>1, <3>3
  <2>5. QED
    BY <2>3, <2>4
<1>7. Env(t) = [x \in Names |-> IF x \in DOMAIN f THEN f[x] ELSE Env(sc)[x]]
  <2>1. Env(t) = [x \in Names |-> Env(t)[x]]
    BY DEF Env
  <2>2. QED
    BY <1>6, <2>1
<1>8. QED
  BY <1>1, <1>4, <1>5, <1>7

LEMMA RootEnv ==
  ASSUME NEW sc, sc = <<[x \in Names |-> Global]>>
  PROVE  ScopeOK(sc) /\ Env(sc) = [x \in Names |-> Global]
<1>1. PICK g : g = [x \in Names |-> Global]
  OBVIOUS
<1>2. IsSeq(<<g>>) /\ Len(<<g>>) = 1 /\ <<g>>[1] = g
  BY SingleFacts
<1>3. IsSeq(sc) /\ Len(sc) = 1 /\ sc[1] = g
  BY <1>1, <1>2
<1>4. DOMAIN g = Names /\ \A x \in Names : g[x] = Global
  BY <1>1
<1>5. ScopeOK(sc)
  BY <1>3, <1>4, SeqFacts DEF ScopeOK
<1>6. ASSUME NEW x \in Names PROVE Env(sc)[x] = Global
  <2> DEFINE S == {k \in 1..Len(sc) : x \in DOMAIN sc[k]}
  <2>1. S = {1}
    BY <1>3, <1>4
  <2>2. Max(S) \in S
    <3>1. S \in SUBSET (1..1) /\ S # {} /\ 1 \in Nat
      BY <2>1
    <3> HIDE DEF S
    <3>2. QED
      BY <3>1, MaxIn
  <2>3. Max(S) = 1
    BY <2>1, <2>2
  <2>4. QED
    BY <1>3, <1>4, <2>3 DEF Env
<1>7. Env(sc) = [x \in Names |-> Global]
  <2>1. Env(sc) = [x \in Names |-> Env(sc)[x]]
    BY DEF Env
  <2>2. QED
    BY <1>6, <2>1
<1>8. QED
  BY <1>5, <1>7

(****************************************************************************)
(* What a statement is unfolded to                                          *)
(****************************************************************************)
Joined(s, t) == s \o t
Test(path, yes, no) == <<[do |-> "test", path |-> path, yes |-> yes, no |-> no]>>
Returns == <<[do |-> "ret"]>>

(* After the evaluation of its expression, what is left of a statement *)
After(w) ==
  LET child(n, k) == <<Source(n, Append(w.path, k), w.env)>>
  IN  CASE w.node.kind = "return" -> Returns
        [] w.node.kind = "if" -> Test(w.path, child(w.node.then, 1), <<>>)
        [] w.node.kind = "ifelse" -> Test(w.path, child(w.node.then, 1), child(w.node.else, 2))
        [] w.node.kind = "while" -> Test(w.path, Append(child(w.node.body, 1), w), <<>>)

(* The evaluation a statement begins with                                   *)
Evaluate(w) == Evaluation(w.node.expr, w.path, w.env[w.node.expr.var])

LEMMA ItemsFacts ==
  ASSUME NEW w
  PROVE  /\ w.node.kind = "expr" => Items(w) = Evaluate(w)
         /\ w.node.kind = "return" /\ ~w.node.value => Items(w) = <<>> \o After(w)
         /\ w.node.kind = "return" /\ w.node.value => Items(w) = Evaluate(w) \o After(w)
         /\ w.node.kind \in {"if", "ifelse", "while"} => Items(w) = Evaluate(w) \o After(w)
         /\ w.node.kind \in {"return", "if", "ifelse", "while"} => IsSeq(After(w))
<1>1. CASE w.node.kind = "expr"
  BY <1>1 DEF Items, Evaluate, Evaluation
<1>2. CASE w.node.kind = "return"
  <2>1. Items(w) = (IF w.node.value THEN Evaluate(w) ELSE <<>>) \o <<[do |-> "ret"]>>
    BY <1>2 DEF Items, Evaluate, Evaluation
  <2>2. After(w) = Returns /\ IsSeq(Returns)
    BY <1>2, SingleFacts DEF After, Returns
  <2>3. QED
    BY <1>2, <2>1, <2>2 DEF Returns
<1>3. CASE w.node.kind = "if"
  <2>1. Items(w) = Evaluate(w) \o After(w)
    BY <1>3 DEF Items, Evaluate, Evaluation, After, Test, Source
  <2>2. IsSeq(After(w))
    BY <1>3, SingleFacts DEF After, Test
  <2>3. QED
    BY <1>3, <2>1, <2>2
<1>4. CASE w.node.kind = "ifelse"
  <2>1. Items(w) = Evaluate(w) \o After(w)
    BY <1>4 DEF Items, Evaluate, Evaluation, After, Test, Source
  <2>2. IsSeq(After(w))
    BY <1>4, SingleFacts DEF After, Test
  <2>3. QED
    BY <1>4, <2>1, <2>2
<1>5. CASE w.node.kind = "while"
  <2>1. Items(w) = Evaluate(w) \o After(w)
    BY <1>5 DEF Items, Evaluate, Evaluation, After, Test, Source
  <2>2. IsSeq(After(w))
    BY <1>5, SingleFacts DEF After, Test
  <2>3. QED
    BY <1>5, <2>1, <2>2
<1>6. QED
  BY <1>1, <1>2, <1>3, <1>4, <1>5

(* A statement that evaluates an expression, before what follows it *)
LEMMA UnfoldedFacts ==
  ASSUME NEW w, w.do = "stmt", NEW R, IsSeq(R), NEW k, k = Cons(w, R)
  PROVE  /\ IsStmt(k) /\ IsSeq(k) /\ Unfolded(k) = Joined(Items(w), R)
         /\ w.node.kind = "expr" =>
              Unfolded(k) = Joined(Evaluate(w), R) /\ IsSeq(Unfolded(k))
         /\ w.node.kind = "return" /\ ~w.node.value =>
              Unfolded(k) = Joined(Returns, R) /\ IsSeq(Unfolded(k))
         /\ w.node.kind = "return" /\ w.node.value =>
              Unfolded(k) = Joined(Evaluate(w), Joined(Returns, R)) /\ IsSeq(Unfolded(k))
         /\ w.node.kind \in {"if", "ifelse", "while"} =>
              Unfolded(k) = Joined(Evaluate(w), Joined(After(w), R)) /\ IsSeq(Unfolded(k))
         /\ w.node.kind = "return" => IsSeq(Joined(Returns, R))
         /\ w.node.kind \in {"if", "ifelse", "while"} => IsSeq(Joined(After(w), R))
<1>2. IsSeq(k) /\ k # <<>> /\ Head(k) = w /\ Tail(k) = R
  BY ConsFacts DEF Cons
<1>3. IsStmt(k) /\ Unfolded(k) = Items(w) \o R
  BY <1>2 DEF IsStmt, Unfolded
<1>4. PICK v, a, e : v = Items(w) /\ a = After(w) /\ e = Evaluate(w)
  OBVIOUS
<1>5. IsSeq(e)
  BY <1>4, EvaluationFacts DEF Evaluate
<1>6. IsSeq(e \o R)
  BY <1>5, ConcatFacts
<1>7. CASE w.node.kind = "expr"
  <2>1. v = e
    BY <1>4, <1>7, ItemsFacts
  <2>2. QED
    BY <1>2, <1>3, <1>4, <1>6, <1>7, <2>1 DEF Joined
<1>8. ASSUME w.node.kind \in {"return", "if", "ifelse", "while"}
      PROVE  /\ IsSeq(a) /\ IsSeq(a \o R)
             /\ (e \o a) \o R = e \o (a \o R) /\ IsSeq(e \o (a \o R))
  <2>1. IsSeq(a)
    BY <1>4, <1>8, ItemsFacts
  <2>2. IsSeq(a \o R)
    BY <2>1, ConcatFacts
  <2>3. PICK l : l = a \o R
    OBVIOUS
  <2>4. IsSeq(e \o l)
    BY <1>5, <2>2, <2>3, ConcatFacts
  <2>5. (e \o a) \o R = e \o (a \o R)
    BY <1>5, <2>1, ConcatAssoc
  <2>6. QED
    BY <2>1, <2>2, <2>3, <2>4, <2>5
<1>9. CASE w.node.kind = "return"
  <2>1. a = Returns
    BY <1>4, <1>9 DEF After
  <2>2. CASE ~w.node.value
    <3>1. v = <<>> \o a
      BY <1>4, <1>9, <2>2, ItemsFacts
    <3>2. v = a
      BY <1>8, <1>9, <3>1, NilConcat
    <3>3. QED
      BY <1>2, <1>3, <1>4, <1>8, <1>9, <2>1, <2>2, <3>2 DEF Joined
  <2>3. CASE w.node.value
    <3>1. v = e \o a
      BY <1>4, <1>9, <2>3, ItemsFacts
    <3>2. QED
      BY <1>2, <1>3, <1>4, <1>8, <1>9, <2>1, <2>3, <3>1 DEF Joined
  <2>4. QED
    BY <2>2, <2>3
<1>10. CASE w.node.kind \in {"if", "ifelse", "while"}
  <2>1. v = e \o a
    BY <1>4, <1>10, ItemsFacts
  <2>2. QED
    BY <1>2, <1>3, <1>4, <1>8, <1>10, <2>1 DEF Joined
<1>11. CASE w.node.kind \notin {"expr", "return", "if", "ifelse", "while"}
  BY <1>2, <1>3, <1>4, <1>11 DEF Joined
<1>12. QED
  BY <1>7, <1>9, <1>10, <1>11

(* A statement that begins with the evaluation of its expression *)
LEMMA StmtFits ==
  ASSUME NEW c, IsGraph(c), NEW W, NEW H, Fits(c, W, H), NEW b \in OpenBlocks(c),
         NEW w, NEW k, NEW l, IsStmt(k), IsSeq(l), IsSeq(Unfolded(k)),
         Unfolded(k) = Joined(Evaluate(w), l),
         w.env[w.node.expr.var] = Find(w.node.expr.var),
         \A q : <<b, q>> \in H => q = k,
         \A a, q : <<a, q>> \in H => a \in DOMAIN c,
         NEW G, \A a, q : <<a, q>> \in H /\ a # b => <<a, q>> \in G,
         <<Evaluated(c, b, w.node.expr, w.path).cur, l>> \in G
  PROVE  \E V : W \subseteq V /\ Fits(Evaluated(c, b, w.node.expr, w.path).code, V, G)
<1>1. PICK U, P : /\ U = W \cup {<<b, Len(c[b]) + 1, Unfolded(k)>>}
                  /\ P = {h \in H : h[1] # b} \cup {<<b, Unfolded(k)>>}
  OBVIOUS
<1>2. Fits(c, U, P)
  BY <1>1, UnfoldFits
<1>3. b \in DOMAIN c
  BY DEF OpenBlocks
<1>4. /\ \A q : <<b, q>> \in P => q = Unfolded(k)
      /\ \A a, q : <<a, q>> \in P => a \in DOMAIN c
      /\ \A a, q : <<a, q>> \in P /\ a # b => <<a, q>> \in G
  BY <1>1, <1>3
<1>5. PICK e, p, x : e = w.node.expr /\ p = w.path /\ x = Unfolded(k)
  OBVIOUS
<1>6. x = Evaluation(e, p, Find(e.var)) \o l
  BY <1>5 DEF Evaluate, Joined
<1>7. <<Evaluated(c, b, e, p).cur, l>> \in G
  BY <1>5
<1>8. \A q : <<b, q>> \in P => q = Evaluation(e, p, Find(e.var)) \o l
  BY <1>4, <1>5, <1>6
<1>9. \E V : U \subseteq V /\ Fits(Evaluated(c, b, e, p).code, V, G)
  BY <1>2, <1>4, <1>7, <1>8, EvaluatedFits
<1>10. QED
  BY <1>1, <1>5, <1>9

(****************************************************************************)
(* The tasks left to do, numbered from the last, and where D says what the  *)
(* source has to do and the scopes there are before each.                   *)
(****************************************************************************)
Job(s, m) == s[Len(s) + 1 - m]

(* A remainder of a visit goes on with its block, and with what comes after *)
(* the statement.                                                           *)
Resumed(t, d) ==
  IF t.task = "else built"
  THEN Cons(Source(t.stmt.node.then, Append(t.stmt.path, 1), Env(d.sc)), d.k)
  ELSE d.k

Leads(t, d) == {<<b, Resumed(t, d)>> : b \in Pending(t)}
Left(s, D)  == UNION {Leads(Job(s, m), D[m - 1]) : m \in 1..Len(s)}

(* What a task does about the source: d before it, e after                  *)
Planned(t, c, W, d, e) ==
  /\ e.sc = IF t.task = "exit scope" THEN Front(d.sc) ELSE d.sc
  /\ t.task = "stmt" => d.k = Cons(Source(t.node, t.path, Env(d.sc)), e.k)
  /\ t.task = "body built" =>
       /\ t.loopJudge \in DOMAIN c
       /\ c[t.loopJudge] # <<>> /\ c[t.loopJudge][1].op # "br"
       /\ <<t.loopJudge, 1, d.k>> \in W
  /\ t.task \notin {"stmt", "body built"} => d.k = e.k

PlanOK(s, c, cu, sc, W, D) ==
  /\ D[0].k = <<>> /\ D[Len(s)].sc = sc
  /\ \A m \in 0..Len(s) : IsSeq(D[m].k) /\ ScopeOK(D[m].sc)
  /\ \A m \in 1..Len(s) : Planned(Job(s, m), c, W, D[m], D[m - 1])
  /\ \A b \in Waits(s) : c[b] = <<>>
  /\ Fits(c, W, {<<cu, D[Len(s)].k>>} \cup Left(s, D))

LEMMA PlannedMore ==
  ASSUME NEW t, NEW c, NEW W, NEW d, NEW e, Planned(t, c, W, d, e),
         NEW x, NEW V, W \subseteq V, DOMAIN c \subseteq DOMAIN x,
         \A b \in DOMAIN c : c[b] # <<>> => x[b] # <<>> /\ x[b][1] = c[b][1]
  PROVE  Planned(t, x, V, d, e)
BY DEF Planned

LEMMA LeftWaits ==
  ASSUME NEW s, IsSeq(s), NEW D
  PROVE  \A b, q : <<b, q>> \in Left(s, D) => b \in Waits(s)
<1>1. Len(s) \in Nat /\ DOMAIN s = 1..Len(s)
  BY SeqFacts
<1>2. ASSUME NEW b, NEW q, <<b, q>> \in Left(s, D) PROVE b \in Waits(s)
  <2>1. PICK m \in 1..Len(s) : <<b, q>> \in Leads(Job(s, m), D[m - 1])
    BY <1>2 DEF Left
  <2>2. b \in Pending(Job(s, m))
    BY <2>1 DEF Leads
  <2>3. Len(s) + 1 - m \in DOMAIN s
    BY <1>1, <2>1
  <2>4. QED
    BY <2>2, <2>3 DEF Waits, Job
<1>3. QED
  BY <1>2

(* The tasks of two lists joined: those of the second, then of the first    *)
LEMMA JobsConcat ==
  ASSUME NEW s, IsSeq(s), NEW t, IsSeq(t), NEW u, u = Joined(s, t)
  PROVE  /\ Len(u) = Len(t) + Len(s) /\ Len(s) \in Nat /\ Len(t) \in Nat
         /\ \A m \in 1..Len(t) : Job(u, m) = Job(t, m)
         /\ \A m \in 1..Len(s) : Job(u, Len(t) + m) = Job(s, m)
<1>1. PICK a, b : a = Len(s) /\ b = Len(t)
  OBVIOUS
<1>2. /\ IsSeq(u) /\ Len(u) = a + b
      /\ \A i \in 1..a : u[i] = s[i]
      /\ \A i \in 1..b : u[a + i] = t[i]
  BY <1>1, ConcatFacts DEF Joined
<1>3. a \in Nat /\ b \in Nat
  BY <1>1, SeqFacts
<1>4. ASSUME NEW m \in 1..b PROVE Job(u, m) = Job(t, m)
  <2>1. b + 1 - m \in 1..b /\ a + (b + 1 - m) = (a + b) + 1 - m
    BY <1>3
  <2>2. u[(a + b) + 1 - m] = t[b + 1 - m]
    BY <1>2, <2>1
  <2>3. QED
    BY <1>1, <1>2, <2>2 DEF Job
<1>5. ASSUME NEW m \in 1..a PROVE Job(u, b + m) = Job(s, m)
  <2>1. a + 1 - m \in 1..a /\ a + 1 - m = (a + b) + 1 - (b + m)
    BY <1>3
  <2>2. u[(a + b) + 1 - (b + m)] = s[a + 1 - m]
    BY <1>2, <2>1
  <2>3. QED
    BY <1>1, <1>2, <2>2 DEF Job
<1>6. QED
  BY <1>1, <1>2, <1>3, <1>4, <1>5

LEMMA JobsHead ==
  ASSUME NEW s, IsSeq(s), s # <<>>
  PROVE  /\ IsSeq(Tail(s)) /\ Len(s) \in Nat \ {0} /\ Len(Tail(s)) = Len(s) - 1
         /\ \A m \in 1..(Len(s) - 1) : Job(s, m) = Job(Tail(s), m)
         /\ Job(s, Len(s)) = Head(s)
         /\ Waits(s) = Pending(Head(s)) \cup Waits(Tail(s))
<1>1. PICK n, t : n = Len(s) /\ t = Tail(s)
  OBVIOUS
<1>2. /\ IsSeq(t) /\ Len(t) = n - 1 /\ Head(s) = s[1]
      /\ \A i \in 1..(n - 1) : t[i] = s[i + 1]
  BY <1>1, TailFacts
<1>3. n \in Nat \ {0} /\ DOMAIN s = 1..n /\ DOMAIN t = 1..(n - 1)
  BY <1>1, <1>2, SeqFacts
<1>4. ASSUME NEW m \in 1..(n - 1) PROVE Job(s, m) = Job(t, m)
  <2>1. (n - 1) + 1 - m \in 1..(n - 1) /\ ((n - 1) + 1 - m) + 1 = n + 1 - m
    BY <1>3
  <2>2. t[(n - 1) + 1 - m] = s[n + 1 - m]
    BY <1>2, <2>1
  <2>3. QED
    BY <1>1, <1>2, <2>2 DEF Job
<1>5. Job(s, n) = Head(s)
  <2>1. n + 1 - n = 1
    BY <1>3
  <2>2. QED
    BY <1>1, <1>2, <2>1 DEF Job
<1>6. Waits(s) = Pending(Head(s)) \cup Waits(t)
  <2>1. \A i \in 1..n : i = 1 \/ (i - 1 \in 1..(n - 1) /\ (i - 1) + 1 = i)
    BY <1>3
  <2>2. \A i \in 1..(n - 1) : i + 1 \in 1..n
    BY <1>3
  <2>3. 1 \in 1..n
    BY <1>3
  <2>4. ASSUME NEW b, b \in Waits(s) PROVE b \in Pending(Head(s)) \cup Waits(t)
    <3>1. PICK i \in 1..n : b \in Pending(s[i])
      BY <1>3, <2>4 DEF Waits
    <3>2. CASE i = 1
      BY <1>2, <3>1, <3>2
    <3>3. CASE i - 1 \in 1..(n - 1) /\ (i - 1) + 1 = i
      <4>1. t[i - 1] = s[i]
        BY <1>2, <3>3
      <4>2. QED
        BY <1>3, <3>1, <3>3, <4>1 DEF Waits
    <3>4. QED
      BY <2>1, <3>2, <3>3
  <2>5. ASSUME NEW b, b \in Pending(Head(s)) \cup Waits(t) PROVE b \in Waits(s)
    <3>1. CASE b \in Pending(Head(s))
      BY <1>2, <1>3, <2>3, <3>1 DEF Waits
    <3>2. CASE b \in Waits(t)
      <4>1. PICK i \in 1..(n - 1) : b \in Pending(t[i])
        BY <1>3, <3>2 DEF Waits
      <4>2. QED
        BY <1>2, <1>3, <2>2, <4>1 DEF Waits
    <3>3. QED
      BY <2>5, <3>1, <3>2
  <2>6. QED
    BY <2>4, <2>5
<1>7. QED
  BY <1>1, <1>2, <1>3, <1>4, <1>5, <1>6

(* What the plan says of the task at hand: d before it, e after, H what is  *)
(* left to do in the blocks the other tasks wait for                        *)
AtHand(s, c, cu, sc, W, d, e, H) ==
  /\ Planned(Head(s), c, W, d, e) /\ d.sc = sc
  /\ IsSeq(d.k) /\ IsSeq(e.k) /\ ScopeOK(d.sc) /\ ScopeOK(e.sc)
  /\ \A b \in Waits(Tail(s)) : c[b] = <<>>
  /\ \A b \in Pending(Head(s)) : c[b] = <<>>
  /\ \A b, q : <<b, q>> \in H => b \in Waits(Tail(s))
  /\ Fits(c, W, {<<cu, d.k>>} \cup Leads(Head(s), e) \cup H)

LEMMA PlanHead ==
  ASSUME NEW s, IsSeq(s), s # <<>>, NEW c, NEW cu, NEW sc, NEW W, NEW D,
         PlanOK(s, c, cu, sc, W, D), NEW d, d = D[Len(s)], NEW e, e = D[Len(s) - 1],
         NEW H, H = Left(Tail(s), D)
  PROVE  AtHand(s, c, cu, sc, W, d, e, H)
<1>1. PICK n, t : n = Len(s) /\ t = Tail(s)
  OBVIOUS
<1>2. /\ IsSeq(t) /\ n \in Nat \ {0} /\ Len(t) = n - 1
      /\ \A m \in 1..(n - 1) : Job(s, m) = Job(t, m)
      /\ Job(s, n) = Head(s)
      /\ Waits(s) = Pending(Head(s)) \cup Waits(t)
  BY <1>1, JobsHead
<1>3. /\ D[n].sc = sc
      /\ \A m \in 0..n : IsSeq(D[m].k) /\ ScopeOK(D[m].sc)
      /\ \A m \in 1..n : Planned(Job(s, m), c, W, D[m], D[m - 1])
      /\ \A b \in Waits(s) : c[b] = <<>>
      /\ Fits(c, W, {<<cu, D[n].k>>} \cup Left(s, D))
  BY <1>1 DEF PlanOK
<1>4. n \in 0..n /\ n - 1 \in 0..n /\ n \in 1..n
  BY <1>2
<1>5. Planned(Head(s), c, W, D[n], D[n - 1])
  BY <1>2, <1>3, <1>4
<1>6. Left(s, D) = Leads(Head(s), D[n - 1]) \cup Left(t, D)
  <2>1. 1..n = {n} \cup (1..(n - 1))
    BY <1>2
  <2>2. Left(s, D) = UNION {Leads(Job(s, m), D[m - 1]) : m \in 1..n}
    BY <1>1 DEF Left
  <2>3. Left(t, D) = UNION {Leads(Job(t, m), D[m - 1]) : m \in 1..(n - 1)}
    BY <1>2 DEF Left
  <2>4. QED
    BY <1>2, <2>1, <2>2, <2>3
<1>7. Fits(c, W, {<<cu, D[n].k>>} \cup Leads(Head(s), D[n - 1]) \cup Left(t, D))
  <2>1. {<<cu, D[n].k>>} \cup Left(s, D) = {<<cu, D[n].k>>} \cup Leads(Head(s), D[n - 1]) \cup Left(t, D)
    BY <1>6
  <2>2. QED
    BY <1>3, <2>1
<1>8. \A b, q : <<b, q>> \in Left(t, D) => b \in Waits(t)
  BY <1>2, LeftWaits
<1>9. QED
  BY <1>1, <1>2, <1>3, <1>4, <1>5, <1>7, <1>8 DEF AtHand

(* The task at hand gives way to others, which have a plan Q of their own:  *)
(* it ends where what comes after the task begins.                          *)
Grows(c, W, x, V) ==
  /\ W \subseteq V /\ DOMAIN c \subseteq DOMAIN x
  /\ \A b \in DOMAIN c : c[b] # <<>> => x[b] # <<>> /\ x[b][1] = c[b][1]

Replaces(s, D, pre, u, x, cv, sd, V, Q) ==
  /\ IsSeq(pre) /\ u = Joined(pre, Tail(s)) /\ Waits(u) = Waits(pre) \cup Waits(Tail(s))
  /\ Q[0] = D[Len(s) - 1] /\ Q[Len(pre)].sc = sd
  /\ \A m \in 1..Len(pre) : IsSeq(Q[m].k) /\ ScopeOK(Q[m].sc)
  /\ \A m \in 1..Len(pre) : Planned(Job(pre, m), x, V, Q[m], Q[m - 1])
  /\ \A b \in Waits(pre) \cup Waits(Tail(s)) : x[b] = <<>>
  /\ Fits(x, V, {<<cv, Q[Len(pre)].k>>} \cup Left(pre, Q) \cup Left(Tail(s), D))

LEMMA PlanStep ==
  ASSUME NEW s, IsSeq(s), s # <<>>, NEW c, NEW cu, NEW sc, NEW W, NEW D,
         PlanOK(s, c, cu, sc, W, D),
         NEW pre, NEW u, NEW x, NEW cv, NEW sd, NEW V, NEW Q,
         Grows(c, W, x, V), Replaces(s, D, pre, u, x, cv, sd, V, Q)
  PROVE  \E E : PlanOK(u, x, cv, sd, V, E)
<1>0. /\ IsSeq(pre) /\ u = Joined(pre, Tail(s)) /\ Waits(u) = Waits(pre) \cup Waits(Tail(s))
      /\ Q[0] = D[Len(s) - 1] /\ Q[Len(pre)].sc = sd
      /\ \A m \in 1..Len(pre) : IsSeq(Q[m].k) /\ ScopeOK(Q[m].sc)
      /\ \A m \in 1..Len(pre) : Planned(Job(pre, m), x, V, Q[m], Q[m - 1])
      /\ \A b \in Waits(pre) \cup Waits(Tail(s)) : x[b] = <<>>
      /\ Fits(x, V, {<<cv, Q[Len(pre)].k>>} \cup Left(pre, Q) \cup Left(Tail(s), D))
  BY DEF Replaces
<1>1. PICK n, t, p : n = Len(s) - 1 /\ t = Tail(s) /\ p = Len(pre)
  OBVIOUS
<1>2. /\ IsSeq(t) /\ n \in Nat /\ Len(t) = n /\ Len(s) = n + 1
      /\ \A m \in 1..n : Job(s, m) = Job(t, m)
  <2>1. /\ IsSeq(Tail(s)) /\ Len(s) \in Nat \ {0} /\ Len(Tail(s)) = Len(s) - 1
        /\ \A m \in 1..(Len(s) - 1) : Job(s, m) = Job(Tail(s), m)
    BY JobsHead
  <2>2. QED
    BY <1>1, <2>1
<1>3. /\ Len(u) = n + p /\ p \in Nat
      /\ \A m \in 1..n : Job(u, m) = Job(t, m)
      /\ \A m \in 1..p : Job(u, n + m) = Job(pre, m)
  <2>1. /\ Len(u) = Len(t) + Len(pre) /\ Len(pre) \in Nat
        /\ \A m \in 1..Len(t) : Job(u, m) = Job(t, m)
        /\ \A m \in 1..Len(pre) : Job(u, Len(t) + m) = Job(pre, m)
    <3>1. IsSeq(pre) /\ IsSeq(t) /\ u = Joined(pre, t)
      BY <1>0, <1>1, <1>2
    <3>2. QED
      BY ONLY <3>1, JobsConcat
  <2>2. QED
    BY ONLY <1>1, <1>2, <2>1
<1>4. /\ D[0].k = <<>>
      /\ \A m \in 0..(n + 1) : IsSeq(D[m].k) /\ ScopeOK(D[m].sc)
      /\ \A m \in 1..(n + 1) : Planned(Job(s, m), c, W, D[m], D[m - 1])
  BY <1>2 DEF PlanOK
<1>5. PICK E : E = [m \in 0..(n + p) |-> IF m <= n THEN D[m] ELSE Q[m - n]]
  OBVIOUS
<1>6. /\ \A m \in 0..n : E[m] = D[m]
      /\ \A m \in 0..p : E[n + m] = Q[m]
  <2>1. \A m \in 0..n : E[m] = D[m]
    BY <1>2, <1>3, <1>5
  <2>2. ASSUME NEW m \in 0..p PROVE E[n + m] = Q[m]
    <3>1. CASE m = 0
      <4>1. E[n] = D[n] /\ n + 0 = n
        BY <1>2, <2>1
      <4>2. QED
        BY <1>0, <1>1, <3>1, <4>1
    <3>2. CASE m # 0
      <4>1. n + m \in 0..(n + p) /\ ~(n + m <= n) /\ (n + m) - n = m
        BY <1>2, <1>3, <3>2
      <4>2. QED
        BY <1>5, <4>1
    <3>3. QED
      BY <3>1, <3>2
  <2>3. QED
    BY <2>1, <2>2
<1>7. \A m \in 1..(n + p) : m \in 1..n \/ (m - n \in 1..p /\ n + (m - n) = m)
  BY <1>2, <1>3
<1>8. E[0].k = <<>> /\ E[Len(u)].sc = sd /\ E[Len(u)].k = Q[p].k
  <2>1. 0 \in 0..n /\ p \in 0..p
    BY <1>2, <1>3
  <2>2. QED
    BY <1>0, <1>1, <1>3, <1>4, <1>6, <2>1
<1>9. ASSUME NEW m \in 0..Len(u) PROVE IsSeq(E[m].k) /\ ScopeOK(E[m].sc)
  <2>1. CASE m \in 0..n
    <3>1. m \in 0..(n + 1)
      BY <1>2, <2>1
    <3>2. QED
      BY <1>4, <1>6, <2>1, <3>1
  <2>2. CASE m - n \in 1..p /\ n + (m - n) = m
    <3>1. m - n \in 0..p
      BY <1>3, <2>2
    <3>2. E[m] = Q[m - n]
      BY <1>6, <2>2, <3>1
    <3>3. QED
      BY <1>0, <1>1, <2>2, <3>2
  <2>3. m \in 0..n \/ (m - n \in 1..p /\ n + (m - n) = m)
    BY <1>2, <1>3
  <2>4. QED
    BY <2>1, <2>2, <2>3
<1>10. ASSUME NEW m \in 1..Len(u) PROVE Planned(Job(u, m), x, V, E[m], E[m - 1])
  <2>1. CASE m \in 1..n
    <3>1. m \in 0..n /\ m - 1 \in 0..n /\ m \in 1..(n + 1)
      BY <1>2, <2>1
    <3>2. E[m] = D[m] /\ E[m - 1] = D[m - 1] /\ Job(u, m) = Job(s, m)
      BY <1>2, <1>3, <1>6, <2>1, <3>1
    <3>3. Planned(Job(s, m), c, W, D[m], D[m - 1])
      BY <1>4, <3>1
    <3>4. QED
      BY <3>2, <3>3, PlannedMore DEF Grows
  <2>2. CASE m - n \in 1..p /\ n + (m - n) = m
    <3>1. PICK j : j = m - n
      OBVIOUS
    <3>2. j \in 0..p /\ j - 1 \in 0..p /\ n + j = m /\ n + (j - 1) = m - 1 /\ j \in 1..p
      BY <1>2, <1>3, <2>2, <3>1
    <3>3. E[m] = Q[j] /\ E[m - 1] = Q[j - 1] /\ Job(u, m) = Job(pre, j)
      BY <1>3, <1>6, <3>2
    <3>4. QED
      BY <1>0, <1>1, <3>2, <3>3
  <2>3. m \in 1..n \/ (m - n \in 1..p /\ n + (m - n) = m)
    BY <1>3, <1>7
  <2>4. QED
    BY <2>1, <2>2, <2>3
<1>11. Left(u, E) = Left(pre, Q) \cup Left(t, D)
  <2>1. ASSUME NEW m \in 1..n PROVE Leads(Job(u, m), E[m - 1]) = Leads(Job(t, m), D[m - 1])
    <3>1. m - 1 \in 0..n
      BY <1>2
    <3>2. QED
      BY <1>3, <1>6, <3>1
  <2>2. ASSUME NEW m \in 1..p PROVE Leads(Job(u, n + m), E[(n + m) - 1]) = Leads(Job(pre, m), Q[m - 1])
    <3>1. m - 1 \in 0..p /\ n + (m - 1) = (n + m) - 1
      BY <1>2, <1>3
    <3>2. QED
      BY <1>3, <1>6, <3>1
  <2>3. Left(u, E) = UNION {Leads(Job(u, m), E[m - 1]) : m \in 1..(n + p)}
    BY <1>3 DEF Left
  <2>4. Left(t, D) = UNION {Leads(Job(t, m), D[m - 1]) : m \in 1..n}
    BY <1>2 DEF Left
  <2>5. Left(pre, Q) = UNION {Leads(Job(pre, m), Q[m - 1]) : m \in 1..p}
    BY <1>1 DEF Left
  <2>6. ASSUME NEW h, h \in Left(u, E) PROVE h \in Left(pre, Q) \cup Left(t, D)
    <3>1. PICK m \in 1..(n + p) : h \in Leads(Job(u, m), E[m - 1])
      BY <2>3, <2>6
    <3>2. CASE m \in 1..n
      BY <2>1, <2>4, <3>1, <3>2
    <3>3. CASE m - n \in 1..p /\ n + (m - n) = m
      <4>1. PICK j \in 1..p : n + j = m
        BY <3>3
      <4>2. h \in Leads(Job(pre, j), Q[j - 1])
        BY <2>2, <3>1, <4>1
      <4>3. QED
        BY <2>5, <4>2
    <3>4. QED
      BY <1>7, <3>2, <3>3
  <2>7. ASSUME NEW h, h \in Left(pre, Q) PROVE h \in Left(u, E)
    <3>1. PICK j \in 1..p : h \in Leads(Job(pre, j), Q[j - 1])
      BY <2>5, <2>7
    <3>2. n + j \in 1..(n + p)
      BY <1>2, <1>3
    <3>3. h \in Leads(Job(u, n + j), E[(n + j) - 1])
      BY <2>2, <3>1
    <3>4. QED
      BY <2>3, <3>2, <3>3
  <2>8. ASSUME NEW h, h \in Left(t, D) PROVE h \in Left(u, E)
    <3>1. PICK m \in 1..n : h \in Leads(Job(t, m), D[m - 1])
      BY <2>4, <2>8
    <3>2. m \in 1..(n + p)
      BY <1>2, <1>3
    <3>3. QED
      BY <2>1, <2>3, <3>1, <3>2
  <2>9. QED
    BY <2>6, <2>7, <2>8
<1>12. Fits(x, V, {<<cv, E[Len(u)].k>>} \cup Left(u, E))
  <2>1. {<<cv, E[Len(u)].k>>} \cup Left(u, E) = {<<cv, Q[p].k>>} \cup Left(pre, Q) \cup Left(t, D)
    BY <1>8, <1>11
  <2>2. QED
    BY <1>0, <1>1, <2>1
<1>13. \A b \in Waits(u) : x[b] = <<>>
  BY <1>0, <1>1
<1>14. PlanOK(u, x, cv, sd, V, E)
  BY <1>8, <1>9, <1>10, <1>12, <1>13 DEF PlanOK
<1>15. QED
  BY <1>1, <1>14

LEMMA WaitsJoined ==
  ASSUME NEW s, IsSeq(s), NEW t, IsSeq(t)
  PROVE  Waits(Joined(s, t)) = Waits(s) \cup Waits(t) /\ IsSeq(Joined(s, t))
<1>1. Waits(s \o t) = Waits(s) \cup Waits(t) /\ IsSeq(s \o t)
  BY ConcatTasks, ZenonT(60)
<1>2. QED
  BY <1>1 DEF Joined

(* The task at hand is done. *)
LEMMA PlanPop ==
  ASSUME NEW s, IsSeq(s), s # <<>>, NEW c, NEW cu, NEW sc, NEW W, NEW D,
         PlanOK(s, c, cu, sc, W, D),
         NEW x, NEW cv, NEW V, Grows(c, W, x, V), NEW e, e = D[Len(s) - 1],
         \A b \in Waits(Tail(s)) : x[b] = <<>>,
         Fits(x, V, {<<cv, e.k>>} \cup Left(Tail(s), D))
  PROVE  \E E : PlanOK(Tail(s), x, cv, e.sc, V, E)
<1>1. PICK Q, pre, u, sd : Q = [m \in {0} |-> e] /\ pre = <<>> /\ u = Joined(pre, Tail(s))
                           /\ sd = e.sc
  OBVIOUS
<1>2. IsSeq(pre) /\ Len(pre) = 0 /\ Waits(pre) = {} /\ 1..Len(pre) = {}
  <2>1. IsSeq(pre) /\ DOMAIN pre = {} /\ Waits(pre) = {}
    BY <1>1, EmptyTasks
  <2>2. Len(pre) = 0
    BY <1>1
  <2>3. QED
    BY <2>1, <2>2
<1>3. IsSeq(Tail(s)) /\ u = Tail(s)
  <2>1. IsSeq(Tail(s))
    BY JobsHead
  <2>2. <<>> \o Tail(s) = Tail(s)
    BY <2>1, NilConcat
  <2>3. QED
    BY <1>1, <2>1, <2>2 DEF Joined
<1>4. Q[0] = D[Len(s) - 1] /\ Q[Len(pre)].sc = sd /\ Q[Len(pre)].k = e.k
  BY <1>1, <1>2
<1>5. Left(pre, Q) = {}
  BY <1>2 DEF Left
<1>6. Fits(x, V, {<<cv, Q[Len(pre)].k>>} \cup Left(pre, Q) \cup Left(Tail(s), D))
  <2>1. {<<cv, Q[Len(pre)].k>>} \cup Left(pre, Q) \cup Left(Tail(s), D)
          = {<<cv, e.k>>} \cup Left(Tail(s), D)
    BY <1>4, <1>5
  <2>2. QED
    BY <2>1
<1>7. /\ \A m \in 1..Len(pre) : IsSeq(Q[m].k) /\ ScopeOK(Q[m].sc)
      /\ \A m \in 1..Len(pre) : Planned(Job(pre, m), x, V, Q[m], Q[m - 1])
      /\ \A b \in Waits(pre) \cup Waits(Tail(s)) : x[b] = <<>>
      /\ Waits(u) = Waits(pre) \cup Waits(Tail(s))
  BY <1>2, <1>3
<1>8. \E E : PlanOK(u, x, cv, sd, V, E)
  <2>1. u = Joined(pre, Tail(s))
    BY <1>1
  <2>2. Replaces(s, D, pre, u, x, cv, sd, V, Q)
    BY <1>2, <1>4, <1>6, <1>7, <2>1 DEF Replaces
  <2>3. QED
    BY <2>2, PlanStep
<1>9. QED
  BY <1>1, <1>3, <1>8

(* What todo holds, but for the ends of blocks                              *)
IsVisit(t)     == t.task = "stmt"
IsRemainder(t) == t.task \notin {"stmt", "exit scope"}

(* The task at hand gives way to a statement t and a remainder r; f says    *)
(* what there is to do before the remainder, and k before both.             *)
Pushes(s, e, t, r, u, f, k, x, cv, V, H) ==
  /\ IsVisit(t) /\ IsRemainder(r) /\ u = Joined(<<t, r>>, Tail(s))
  /\ IsSeq(f.k) /\ f.sc = e.sc /\ k = Cons(Source(t.node, t.path, Env(e.sc)), f.k)
  /\ \A b \in Pending(r) \cup Waits(Tail(s)) : x[b] = <<>>
  /\ Planned(r, x, V, f, e)
  /\ Fits(x, V, {<<cv, k>>} \cup Leads(r, e) \cup H)

LEMMA PlanPush ==
  ASSUME NEW s, IsSeq(s), s # <<>>, NEW c, NEW cu, NEW sc, NEW W, NEW D,
         PlanOK(s, c, cu, sc, W, D), NEW e, e = D[Len(s) - 1], NEW H, H = Left(Tail(s), D),
         NEW x, NEW V, Grows(c, W, x, V), NEW t, NEW r, NEW u, NEW f, NEW k, NEW cv,
         Pushes(s, e, t, r, u, f, k, x, cv, V, H)
  PROVE  \E E : PlanOK(u, x, cv, e.sc, V, E)
<1>1. PICK l, sd, pre : l = f.k /\ sd = e.sc /\ pre = <<t, r>>
  OBVIOUS
<1>2. /\ IsVisit(t) /\ IsRemainder(r) /\ u = Joined(pre, Tail(s))
      /\ IsSeq(l) /\ f.k = l /\ f.sc = sd /\ k = Cons(Source(t.node, t.path, Env(sd)), l)
      /\ \A b \in Pending(r) \cup Waits(Tail(s)) : x[b] = <<>>
      /\ Planned(r, x, V, f, e)
      /\ Fits(x, V, {<<cv, k>>} \cup Leads(r, e) \cup Left(Tail(s), D))
  BY <1>1 DEF Pushes
<1>3. PICK Q : Q = [m \in 0..2 |-> IF m = 0 THEN e
                                   ELSE IF m = 1 THEN f ELSE [k |-> k, sc |-> sd]]
  OBVIOUS
<1>4. 0 \in 0..2 /\ 1 \in 0..2 /\ 2 \in 0..2 /\ 1..2 = {1, 2}
  BY OneTwo
<1>5. /\ Q[0] = e /\ Q[1] = f
      /\ Q[1].k = l /\ Q[1].sc = sd /\ Q[2].k = k /\ Q[2].sc = sd
  BY <1>3, <1>4, <1>2
<1>6. /\ IsSeq(pre) /\ Len(pre) = 2 /\ pre[1] = t /\ pre[2] = r
      /\ Waits(pre) = Pending(r)
  <2>1. IsSeq(<<t, r>>) /\ Len(<<t, r>>) = 2 /\ <<t, r>>[1] = t /\ <<t, r>>[2] = r
    BY PairFacts
  <2>2. Pending(t) = {}
    BY <1>2 DEF Pending, IsVisit
  <2>3. DOMAIN pre = {1, 2}
    BY <1>1, <1>4, <2>1, SeqFacts
  <2>4. Waits(pre) = Pending(r)
    BY <1>1, <2>1, <2>2, <2>3 DEF Waits
  <2>5. QED
    BY <1>1, <2>1, <2>4
<1>7. Job(pre, 1) = r /\ Job(pre, 2) = t
  <2>1. 2 + 1 - 1 = 2 /\ 2 + 1 - 2 = 1
    OBVIOUS
  <2>2. QED
    BY <1>6, <2>1 DEF Job
<1>8. IsSeq(k) /\ ScopeOK(sd)
  <2>1. IsSeq(k)
    BY <1>2, ConsFacts DEF Cons
  <2>2. ScopeOK(e.sc)
    <3>1. PICK g : g = D[Len(s)]
      OBVIOUS
    <3>2. AtHand(s, c, cu, sc, W, g, e, H)
      BY <3>1, PlanHead
    <3>3. QED
      BY <3>2 DEF AtHand
  <2>3. QED
    BY <1>1, <2>1, <2>2
<1>9. \A m \in 1..Len(pre) : IsSeq(Q[m].k) /\ ScopeOK(Q[m].sc)
  <2>1. IsSeq(Q[1].k) /\ ScopeOK(Q[1].sc) /\ IsSeq(Q[2].k) /\ ScopeOK(Q[2].sc)
    BY <1>2, <1>5, <1>8
  <2>2. QED
    BY <1>4, <1>6, <2>1
<1>10. Planned(t, x, V, Q[2], Q[1])
  <2>1. Q[2].k = k /\ Q[2].sc = sd /\ Q[1].k = l /\ Q[1].sc = sd
    BY <1>5
  <2>2. QED
    BY <1>2, <2>1 DEF Planned, IsVisit
<1>11. \A m \in 1..Len(pre) : Planned(Job(pre, m), x, V, Q[m], Q[m - 1])
  <2>1. 1 - 1 = 0 /\ 2 - 1 = 1
    OBVIOUS
  <2>2. Planned(Job(pre, 1), x, V, Q[1], Q[1 - 1]) /\ Planned(Job(pre, 2), x, V, Q[2], Q[2 - 1])
    BY <1>2, <1>5, <1>7, <1>10, <2>1
  <2>3. QED
    BY <1>4, <1>6, <2>2
<1>12. Left(pre, Q) = Leads(r, e)
  <2>1. 1 - 1 = 0 /\ 2 - 1 = 1
    OBVIOUS
  <2>2. Left(pre, Q) = UNION {Leads(Job(pre, m), Q[m - 1]) : m \in {1, 2}}
    BY <1>4, <1>6 DEF Left
  <2>3. Leads(t, Q[1]) = {}
    BY <1>2 DEF Leads, Pending, IsVisit
  <2>4. Left(pre, Q) = Leads(Job(pre, 1), Q[1 - 1]) \cup Leads(Job(pre, 2), Q[2 - 1])
    BY <2>2
  <2>5. QED
    BY <1>5, <1>7, <2>1, <2>3, <2>4
<1>13. Fits(x, V, {<<cv, Q[Len(pre)].k>>} \cup Left(pre, Q) \cup Left(Tail(s), D))
  <2>1. Q[Len(pre)].k = k
    BY <1>5, <1>6
  <2>2. QED
    BY <1>2, <1>12, <2>1
<1>14. /\ \A b \in Waits(pre) \cup Waits(Tail(s)) : x[b] = <<>>
       /\ Waits(u) = Waits(pre) \cup Waits(Tail(s))
       /\ u = Joined(pre, Tail(s)) /\ Q[Len(pre)].sc = sd
  <2>1. IsSeq(Tail(s))
    BY JobsHead
  <2>2. Waits(Joined(pre, Tail(s))) = Waits(pre) \cup Waits(Tail(s))
    BY <1>6, <2>1, WaitsJoined
  <2>3. QED
    BY <1>2, <1>5, <1>6, <2>2
<1>15. Replaces(s, D, pre, u, x, cv, sd, V, Q)
  BY <1>2, <1>5, <1>6, <1>9, <1>11, <1>13, <1>14 DEF Replaces
<1>16. QED
  BY <1>1, <1>15, PlanStep

(****************************************************************************)
(* The invariant: while a function is built, what is left of the source is  *)
(* planned; when it is executed, the place reached is paired with what is   *)
(* left of the source, up to the unfolding of statements.                   *)
(****************************************************************************)
Root(f) == Source(f.body, <<1>>, [x \in Names |-> IF x \in f.params THEN Param ELSE Global])

(* k becomes l when statements are unfolded.                                *)
Unfolds(k, l) ==
  \A S : k \in S /\ (\A q \in S : IsStmt(q) => Unfolded(q) \in S) => l \in S

(* The entry is paired with the body of the function.                       *)
Builds(f, s, c, cu, sc) ==
  \E W, D : PlanOK(s, c, cu, sc, W, D) /\ <<1, 1, <<Root(f)>>>> \in W

Executes(c, b, i, l) ==
  \E W : Fits(c, W, {}) /\ \E k : <<b, i, k>> \in W /\ Unfolds(k, l)

FollowInv ==
  /\ pc = "start" => scope = <<[x \in Names |-> Global]>>
  /\ pc # "exec" => blk = 1 /\ idx = 1
  /\ pc = "build" => Builds(fun, todo, code, cur, scope)
  /\ pc = "exec" => Executes(code, blk, idx, cont)

(* A plan of the function under way *)
Now(W, D, d, e, H) ==
  /\ blk = 1 /\ idx = 1
  /\ PlanOK(todo, code, cur, scope, W, D) /\ <<1, 1, <<Root(fun)>>>> \in W
  /\ d = D[Len(todo)] /\ e = D[Len(todo) - 1] /\ H = Left(Tail(todo), D)
  /\ AtHand(todo, code, cur, scope, W, d, e, H)

(* While something is left to visit, there is such a plan.                  *)
LEMMA NowIs ==
  ASSUME CodeInv, FollowInv, pc = "build", todo # <<>>
  PROVE  \E W, D, d, e, H : Now(W, D, d, e, H)
<1>1. PICK W, D : PlanOK(todo, code, cur, scope, W, D) /\ <<1, 1, <<Root(fun)>>>> \in W
  BY DEF FollowInv, Builds
<1>2. PICK d, e, H : d = D[Len(todo)] /\ e = D[Len(todo) - 1] /\ H = Left(Tail(todo), D)
  OBVIOUS
<1>3. IsSeq(todo)
  BY DEF CodeInv, BuildInv
<1>4. AtHand(todo, code, cur, scope, W, d, e, H)
  BY <1>1, <1>2, <1>3, PlanHead
<1>5. blk = 1 /\ idx = 1
  BY DEF FollowInv
<1>6. QED
  BY <1>1, <1>2, <1>4, <1>5 DEF Now

(* A step that is done with its task *)
LEMMA PopFollows ==
  ASSUME CodeInv, pc = "build", todo # <<>>,
         NEW W, NEW D, NEW d, NEW e, NEW H, Now(W, D, d, e, H),
         fun' = fun, pc' = pc, blk' = blk, idx' = idx, todo' = Tail(todo), scope' = e.sc,
         NEW V, Grows(code, W, code', V),
         \A b \in Waits(Tail(todo)) : code'[b] = <<>>,
         Fits(code', V, {<<cur', e.k>>} \cup H)
  PROVE  FollowInv'
<1>1. PICK s, c, cu, sc, t, x, cv : /\ s = todo /\ c = code /\ cu = cur /\ sc = scope
                                    /\ t = todo' /\ x = code' /\ cv = cur'
  OBVIOUS
<1>2. /\ IsSeq(s) /\ s # <<>> /\ t = Tail(s)
      /\ PlanOK(s, c, cu, sc, W, D) /\ <<1, 1, <<Root(fun)>>>> \in W
      /\ e = D[Len(s) - 1] /\ H = Left(Tail(s), D)
      /\ blk = 1 /\ idx = 1
  BY <1>1 DEF Now, CodeInv, BuildInv
<1>3. Grows(c, W, x, V) /\ (\A b \in Waits(Tail(s)) : x[b] = <<>>)
  BY <1>1
<1>4. Fits(x, V, {<<cv, e.k>>} \cup Left(Tail(s), D))
  BY <1>1, <1>2
<1>5. PICK E : PlanOK(Tail(s), x, cv, e.sc, V, E)
  BY <1>2, <1>3, <1>4, PlanPop
<1>6. W \subseteq V
  BY <1>3 DEF Grows
<1>7. PlanOK(todo', code', cur', scope', V, E) /\ <<1, 1, <<Root(fun')>>>> \in V
  BY <1>1, <1>2, <1>5, <1>6
<1>8. QED
  BY <1>2, <1>7 DEF FollowInv, Builds

(* A step that puts a statement and a remainder in its place                *)
LEMMA PushFollows ==
  ASSUME CodeInv, pc = "build", todo # <<>>,
         NEW W, NEW D, NEW d, NEW e, NEW H, Now(W, D, d, e, H),
         fun' = fun, pc' = pc, blk' = blk, idx' = idx, scope' = e.sc,
         NEW V, Grows(code, W, code', V),
         NEW t, NEW r, NEW f, NEW k, Pushes(todo, e, t, r, todo', f, k, code', cur', V, H)
  PROVE  FollowInv'
<1>1. PICK s, c, cu, sc, u, x, cv : /\ s = todo /\ c = code /\ cu = cur /\ sc = scope
                                    /\ u = todo' /\ x = code' /\ cv = cur'
  OBVIOUS
<1>2. /\ IsSeq(s) /\ s # <<>>
      /\ PlanOK(s, c, cu, sc, W, D) /\ <<1, 1, <<Root(fun)>>>> \in W
      /\ e = D[Len(s) - 1] /\ H = Left(Tail(s), D)
      /\ blk = 1 /\ idx = 1
  BY <1>1 DEF Now, CodeInv, BuildInv
<1>3. Grows(c, W, x, V) /\ Pushes(s, e, t, r, u, f, k, x, cv, V, H)
  BY <1>1
<1>4. PICK E : PlanOK(u, x, cv, e.sc, V, E)
  BY <1>2, <1>3, PlanPush
<1>5. W \subseteq V
  BY <1>3 DEF Grows
<1>6. PlanOK(todo', code', cur', scope', V, E) /\ <<1, 1, <<Root(fun')>>>> \in V
  BY <1>1, <1>2, <1>4, <1>5
<1>7. QED
  BY <1>2, <1>6 DEF FollowInv, Builds

(****************************************************************************)
(* The builder step by step: each visit and each remainder keeps a plan.    *)
(****************************************************************************)
LEMMA HandFacts ==
  ASSUME CodeInv, pc = "build", todo # <<>>,
         NEW W, NEW D, NEW d, NEW e, NEW H, Now(W, D, d, e, H)
  PROVE  /\ Planned(Here, code, W, d, e) /\ d.sc = scope
         /\ IsSeq(d.k) /\ IsSeq(e.k) /\ ScopeOK(d.sc) /\ ScopeOK(e.sc)
         /\ \A b \in Waits(Tail(todo)) : code[b] = <<>>
         /\ \A b \in Pending(Here) : code[b] = <<>>
         /\ \A b, q : <<b, q>> \in H =>
              b \in Waits(Tail(todo)) /\ b # cur /\ b \in OpenBlocks(code)
         /\ Fits(code, W, {<<cur, d.k>>} \cup Leads(Here, e) \cup H)
<1>1. AtHand(todo, code, cur, scope, W, d, e, H)
  BY DEF Now
<1>2. OpenBlocks(code) \ {cur} = Pending(Here) \cup Waits(Tail(todo))
  BY BuildFacts
<1>3. \A b, q : <<b, q>> \in H => b \in Waits(Tail(todo)) /\ b # cur /\ b \in OpenBlocks(code)
  BY <1>1, <1>2 DEF AtHand
<1>4. QED
  BY <1>1, <1>3 DEF AtHand, Here

(* After a return nothing leads to what follows.                            *)
LEMMA SkipFollows == ASSUME CodeInv, FollowInv, SkipStmt PROVE FollowInv'
<1>1. pc = "build" /\ todo # <<>> /\ Here.task = "stmt" /\ returnFlag
  BY DEF SkipStmt, AtTask, Here
<1>2. PICK W, D, d, e, H : Now(W, D, d, e, H)
  BY <1>1, NowIs
<1>3. /\ Planned(Here, code, W, d, e) /\ d.sc = scope
      /\ \A b \in Waits(Tail(todo)) : code[b] = <<>>
      /\ Fits(code, W, {<<cur, d.k>>} \cup Leads(Here, e) \cup H)
  BY <1>1, <1>2, HandFacts
<1>4. cur \notin OpenBlocks(code)
  BY <1>1, BuildFacts
<1>5. /\ fun' = fun /\ pc' = pc /\ blk' = blk /\ idx' = idx /\ todo' = Tail(todo)
      /\ code' = code /\ cur' = cur /\ scope' = scope
  BY DEF SkipStmt, execVars
<1>6. e.sc = scope /\ Leads(Here, e) = {}
  BY <1>1, <1>3 DEF Planned, Leads, Pending
<1>7. Fits(code, W, {<<cur, e.k>>} \cup H)
  <2>1. PICK F, G : F = {<<cur, d.k>>} \cup Leads(Here, e) \cup H /\ G = {<<cur, e.k>>} \cup H
    OBVIOUS
  <2>2. \A b \in OpenBlocks(code) : \A k : <<b, k>> \in F => <<b, k>> \in G
    BY <1>4, <1>6, <2>1
  <2>3. QED
    BY <1>3, <2>1, <2>2, FitsMore
<1>8. /\ Fits(code', W, {<<cur', e.k>>} \cup H) /\ Grows(code, W, code', W)
      /\ \A b \in Waits(Tail(todo)) : code'[b] = <<>>
      /\ scope' = e.sc
  BY <1>3, <1>5, <1>6, <1>7 DEF Grows
<1>9. QED
  BY <1>1, <1>2, <1>5, <1>8, PopFollows

LEMMA ExitScopeFollows == ASSUME CodeInv, FollowInv, ExitScope PROVE FollowInv'
<1>1. pc = "build" /\ todo # <<>> /\ Here.task = "exit scope"
  BY DEF ExitScope, AtTask, Here
<1>2. PICK W, D, d, e, H : Now(W, D, d, e, H)
  BY <1>1, NowIs
<1>3. /\ Planned(Here, code, W, d, e) /\ d.sc = scope
      /\ \A b \in Waits(Tail(todo)) : code[b] = <<>>
      /\ Fits(code, W, {<<cur, d.k>>} \cup Leads(Here, e) \cup H)
  BY <1>1, <1>2, HandFacts
<1>4. /\ fun' = fun /\ pc' = pc /\ blk' = blk /\ idx' = idx /\ todo' = Tail(todo)
      /\ code' = code /\ cur' = cur /\ scope' = Front(scope)
  BY DEF ExitScope, execVars
<1>5. e.sc = Front(scope) /\ Leads(Here, e) = {} /\ d.k = e.k
  BY <1>1, <1>3 DEF Planned, Leads, Pending
<1>6. {<<cur, d.k>>} \cup Leads(Here, e) \cup H = {<<cur, e.k>>} \cup H
  BY <1>5
<1>7. /\ Fits(code', W, {<<cur', e.k>>} \cup H) /\ Grows(code, W, code', W)
      /\ \A b \in Waits(Tail(todo)) : code'[b] = <<>>
      /\ scope' = e.sc
  BY <1>3, <1>4, <1>5, <1>6 DEF Grows
<1>8. QED
  BY <1>1, <1>2, <1>4, <1>7, PopFollows

(* The blocks S of c are empty.                                             *)
Bare(c, S) == \A b \in S : c[b] = <<>>

(* The expression of the statement at hand is evaluated; l is what there is *)
(* to do after it.                                                          *)
LEMMA StmtAtHand ==
  ASSUME CodeInv, pc = "build", todo # <<>>, Here.task = "stmt", ~returnFlag,
         NEW W, NEW D, NEW d, NEW e, NEW H, Now(W, D, d, e, H),
         NEW w, w = Source(Here.node, Here.path, Env(scope)),
         Here.node.expr.var \in Names,
         NEW l, IsSeq(l), IsSeq(Unfolded(d.k)), IsStmt(d.k),
         Unfolded(d.k) = Joined(Evaluate(w), l),
         NEW done, done = Evaluated(code, cur, Here.node.expr, Here.path)
  PROVE  \E V : /\ Grows(code, W, done.code, V) /\ Fits(done.code, V, {<<done.cur, l>>} \cup H)
                /\ IsGraph(done.code) /\ Len(done.code) \in Nat
                /\ DOMAIN done.code = 1..Len(done.code)
                /\ done.cur \in OpenBlocks(done.code)
                /\ OpenBlocks(done.code) \ {done.cur} = Waits(Tail(todo))
                /\ Bare(done.code, Waits(Tail(todo)))
                /\ Len(done.code) >= 1
<1>1. /\ Planned(Here, code, W, d, e) /\ d.sc = scope
      /\ \A b \in Waits(Tail(todo)) : code[b] = <<>>
      /\ \A b, q : <<b, q>> \in H =>
           b \in Waits(Tail(todo)) /\ b # cur /\ b \in OpenBlocks(code)
      /\ Fits(code, W, {<<cur, d.k>>} \cup Leads(Here, e) \cup H)
  BY HandFacts
<1>2. /\ IsGraph(code) /\ Reached(code) = DOMAIN code /\ 1 \in DOMAIN code
      /\ cur \in OpenBlocks(code) /\ OpenBlocks(code) \subseteq DOMAIN code
      /\ OpenBlocks(code) \ {cur} = Pending(Here) \cup Waits(Tail(todo))
  BY BuildFacts
<1>3. Leads(Here, e) = {} /\ Pending(Here) = {}
  BY DEF Leads, Pending
<1>4. PICK F, G : F = {<<cur, d.k>>} \cup H /\ G = {<<done.cur, l>>} \cup H
  OBVIOUS
<1>5. Fits(code, W, F)
  <2>1. F = {<<cur, d.k>>} \cup Leads(Here, e) \cup H
    BY <1>3, <1>4
  <2>2. QED
    BY <1>1, <2>1
<1>6. /\ \A q : <<cur, q>> \in F => q = d.k
      /\ \A a, q : <<a, q>> \in F => a \in DOMAIN code
      /\ \A a, q : <<a, q>> \in F /\ a # cur => <<a, q>> \in G
      /\ <<done.cur, l>> \in G
  BY <1>1, <1>2, <1>4
<1>7. w.node = Here.node /\ w.path = Here.path /\ w.env = Env(scope)
  BY DEF Source
<1>8. w.env[w.node.expr.var] = Find(w.node.expr.var)
  BY <1>7 DEF Env, Find
<1>9. done = Evaluated(code, cur, w.node.expr, w.path)
  BY <1>7
<1>10. PICK V : W \subseteq V /\ Fits(done.code, V, G)
  <2>1. \E V : W \subseteq V /\ Fits(Evaluated(code, cur, w.node.expr, w.path).code, V, G)
    <3>1. PICK k : k = d.k
      OBVIOUS
    <3>2. /\ IsStmt(k) /\ IsSeq(Unfolded(k)) /\ Unfolded(k) = Joined(Evaluate(w), l)
          /\ \A q : <<cur, q>> \in F => q = k
      BY <1>6, <3>1
    <3>3. /\ <<Evaluated(code, cur, w.node.expr, w.path).cur, l>> \in G
          /\ \A a, q : <<a, q>> \in F => a \in DOMAIN code
          /\ \A a, q : <<a, q>> \in F /\ a # cur => <<a, q>> \in G
      BY <1>6, <1>9
    <3>4. IsGraph(code) /\ cur \in OpenBlocks(code) /\ IsSeq(l)
      BY <1>2
    <3>5. QED
      BY ONLY <1>5, <1>8, <3>2, <3>3, <3>4, StmtFits
  <2>2. QED
    BY <1>9, <2>1
<1>11. Kept(code, cur, done.code) /\ Len(code[cur]) < Len(done.code[cur])
       /\ done.code[cur][Len(code[cur]) + 1] = Use(Here.path, Find(Here.node.expr.var))
  BY <1>2, EvaluatedKept
<1>12. /\ IsGraph(done.code) /\ Len(done.code) \in Nat /\ Len(code) \in Nat
       /\ Len(code) <= Len(done.code) /\ DOMAIN code = 1..Len(code)
       /\ DOMAIN done.code = 1..Len(done.code)
       /\ done.cur \in OpenBlocks(done.code)
       /\ OpenBlocks(done.code) \ {done.cur} = OpenBlocks(code) \ {cur}
  BY <1>2, EvaluatedWhole
<1>13. Grows(code, W, done.code, V)
  <2>1. ASSUME NEW b \in DOMAIN code, code[b] # <<>>
        PROVE  done.code[b] # <<>> /\ done.code[b][1] = code[b][1]
    <3>1. CASE b # cur
      BY <1>11, <2>1, <3>1 DEF Kept
    <3>2. CASE b = cur
      <4>1. IsSeq(code[b]) /\ IsSeq(done.code[b])
        BY <1>2, <1>11, <1>12 DEF IsGraph, Kept
      <4>2. Len(code[b]) \in Nat \ {0} /\ Len(done.code[b]) \in Nat
        BY <2>1, <4>1, SeqFacts
      <4>3. Len(done.code[b]) # 0
        BY <1>11, <3>2, <4>2
      <4>4. done.code[b] # <<>>
        BY <4>1, <4>3, SeqFacts
      <4>5. 1 \in 1..Len(code[b])
        BY <4>2
      <4>6. QED
        BY <1>11, <3>2, <4>4, <4>5 DEF Kept
    <3>3. QED
      BY <3>1, <3>2
  <2>2. QED
    BY <1>10, <1>11, <2>1 DEF Grows, Kept
<1>14. Bare(done.code, Waits(Tail(todo)))
  BY <1>1, <1>2, <1>11 DEF Kept, Bare
<1>15. Len(done.code) >= 1
  BY <1>2, <1>12
<1>16. QED
  BY <1>2, <1>3, <1>4, <1>10, <1>12, <1>13, <1>14, <1>15

LEMMA GrowsMore ==
  ASSUME NEW c, NEW W, NEW x, NEW V, Grows(c, W, x, V), NEW y, NEW U, Grows(x, V, y, U)
  PROVE  Grows(c, W, y, U)
BY DEF Grows

LEMMA EmitGrows ==
  ASSUME NEW c, IsGraph(c), NEW b \in DOMAIN c, NEW i, NEW W, NEW V, W \subseteq V
  PROVE  Grows(c, W, Emit(c, b, i), V)
<1>1. PICK x : x = Emit(c, b, i)
  OBVIOUS
<1>2. /\ DOMAIN x = DOMAIN c /\ \A a \in DOMAIN c : a # b => x[a] = c[a]
      /\ Len(c[b]) \in Nat /\ x[b] # <<>>
      /\ \A k \in 1..Len(c[b]) : x[b][k] = c[b][k]
  BY <1>1, EmitFacts
<1>3. c[b] # <<>> => 1 \in 1..Len(c[b])
  BY <1>2, SeqFacts DEF IsGraph
<1>4. Grows(c, W, x, V)
  BY <1>2, <1>3 DEF Grows
<1>5. QED
  BY <1>1, <1>4

LEMMA NewBlocksGrows ==
  ASSUME NEW c, IsGraph(c), NEW n \in Nat, NEW W
  PROVE  Grows(c, W, NewBlocks(c, n), W)
<1>1. PICK x : x = NewBlocks(c, n)
  OBVIOUS
<1>2. \A a \in DOMAIN c : x[a] = c[a]
  BY <1>1, NewBlocksFacts
<1>3. DOMAIN x = 1..(Len(c) + n) /\ Len(c) \in Nat /\ DOMAIN c = 1..Len(c)
  BY <1>1, NewBlocksGraph
<1>4. DOMAIN c \subseteq DOMAIN x
  BY <1>3
<1>5. Grows(c, W, x, W)
  BY <1>2, <1>4 DEF Grows
<1>6. QED
  BY <1>1, <1>5

(* The statement to visit, and what it is unfolded to                       *)
LEMMA StmtPlan ==
  ASSUME CodeInv, pc = "build", todo # <<>>, Here.task = "stmt",
         NEW W, NEW D, NEW d, NEW e, NEW H, Now(W, D, d, e, H),
         NEW w, w = Source(Here.node, Here.path, Env(scope))
  PROVE  /\ w.do = "stmt" /\ w.node = Here.node /\ w.path = Here.path /\ w.env = Env(scope)
         /\ d.k = Cons(w, e.k) /\ e.sc = scope /\ IsSeq(e.k) /\ IsStmt(d.k)
         /\ Unfolded(d.k) = Joined(Items(w), e.k)
         /\ Here.node.kind = "expr" =>
              Unfolded(d.k) = Joined(Evaluate(w), e.k) /\ IsSeq(Unfolded(d.k))
         /\ Here.node.kind = "return" /\ ~Here.node.value =>
              Unfolded(d.k) = Joined(Returns, e.k) /\ IsSeq(Unfolded(d.k))
         /\ Here.node.kind = "return" /\ Here.node.value =>
              Unfolded(d.k) = Joined(Evaluate(w), Joined(Returns, e.k)) /\ IsSeq(Unfolded(d.k))
         /\ Here.node.kind \in {"if", "ifelse", "while"} =>
              Unfolded(d.k) = Joined(Evaluate(w), Joined(After(w), e.k)) /\ IsSeq(Unfolded(d.k))
         /\ Here.node.kind = "return" => IsSeq(Joined(Returns, e.k))
         /\ Here.node.kind \in {"if", "ifelse", "while"} => IsSeq(Joined(After(w), e.k))
         /\ Here.node.kind \in {"expr", "if", "ifelse", "while"} => Here.node.expr.var \in Names
         /\ Here.node.kind = "return" /\ Here.node.value => Here.node.expr.var \in Names
<1>1. /\ Planned(Here, code, W, d, e) /\ d.sc = scope /\ IsSeq(e.k)
  BY HandFacts
<1>2. w.do = "stmt" /\ w.node = Here.node /\ w.path = Here.path /\ w.env = Env(scope)
  BY DEF Source
<1>3. d.k = Cons(w, e.k) /\ e.sc = scope
  BY <1>1 DEF Planned
<1>4. PICK R, k : R = e.k /\ k = d.k
  OBVIOUS
<1>5. /\ IsStmt(k) /\ IsSeq(k) /\ Unfolded(k) = Joined(Items(w), R)
      /\ w.node.kind = "expr" =>
           Unfolded(k) = Joined(Evaluate(w), R) /\ IsSeq(Unfolded(k))
      /\ w.node.kind = "return" /\ ~w.node.value =>
           Unfolded(k) = Joined(Returns, R) /\ IsSeq(Unfolded(k))
      /\ w.node.kind = "return" /\ w.node.value =>
           Unfolded(k) = Joined(Evaluate(w), Joined(Returns, R)) /\ IsSeq(Unfolded(k))
      /\ w.node.kind \in {"if", "ifelse", "while"} =>
           Unfolded(k) = Joined(Evaluate(w), Joined(After(w), R)) /\ IsSeq(Unfolded(k))
      /\ w.node.kind = "return" => IsSeq(Joined(Returns, R))
      /\ w.node.kind \in {"if", "ifelse", "while"} => IsSeq(Joined(After(w), R))
  <2>1. IsSeq(R) /\ k = Cons(w, R) /\ w.do = "stmt"
    BY <1>1, <1>2, <1>3, <1>4
  <2>2. QED
    BY ONLY <2>1, UnfoldedFacts
<1>6. fun \in Functions /\ TaskOK(Here, Statements[fun.void], Len(code))
  BY BuildFacts
<1>7. /\ Here.node.kind \in {"expr", "if", "ifelse", "while"} => Here.node.expr.var \in Names
      /\ Here.node.kind = "return" /\ Here.node.value => Here.node.expr.var \in Names
  BY <1>6, FunctionsAssumption DEF TaskOK
<1>8. QED
  BY <1>1, <1>2, <1>3, <1>4, <1>5, <1>7

LEMMA ExpressionFollows == ASSUME CodeInv, FollowInv, ExpressionStmt PROVE FollowInv'
<1>1. pc = "build" /\ todo # <<>> /\ Here.task = "stmt" /\ Here.node.kind = "expr" /\ ~returnFlag
  BY DEF ExpressionStmt, AtStmt, AtTask, Here
<1>2. PICK W, D, d, e, H : Now(W, D, d, e, H)
  BY <1>1, NowIs
<1>3. PICK w, done : /\ w = Source(Here.node, Here.path, Env(scope))
                     /\ done = Evaluated(code, cur, Here.node.expr, Here.path)
  OBVIOUS
<1>4. /\ e.sc = scope /\ IsSeq(e.k) /\ IsStmt(d.k) /\ Here.node.expr.var \in Names
      /\ Unfolded(d.k) = Joined(Evaluate(w), e.k) /\ IsSeq(Unfolded(d.k))
  BY <1>1, <1>2, <1>3, StmtPlan
<1>5. PICK V : /\ Grows(code, W, done.code, V) /\ Fits(done.code, V, {<<done.cur, e.k>>} \cup H)
               /\ Bare(done.code, Waits(Tail(todo)))
  <2>1. PICK l : l = e.k
    OBVIOUS
  <2>2. IsSeq(l) /\ Unfolded(d.k) = Joined(Evaluate(w), l)
    BY <1>4, <2>1
  <2>3. \E V : /\ Grows(code, W, done.code, V) /\ Fits(done.code, V, {<<done.cur, l>>} \cup H)
               /\ Bare(done.code, Waits(Tail(todo)))
    <3>1. /\ IsStmt(d.k) /\ IsSeq(Unfolded(d.k)) /\ Here.node.expr.var \in Names
          /\ w = Source(Here.node, Here.path, Env(scope))
          /\ done = Evaluated(code, cur, Here.node.expr, Here.path)
      BY <1>3, <1>4
    <3>2. pc = "build" /\ todo # <<>> /\ Here.task = "stmt" /\ ~returnFlag
      BY <1>1
    <3>3. QED
      BY <1>2, <2>2, <3>1, <3>2, StmtAtHand
  <2>4. QED
    BY <2>1, <2>3
<1>6. /\ fun' = fun /\ pc' = pc /\ blk' = blk /\ idx' = idx /\ todo' = Tail(todo)
      /\ code' = done.code /\ cur' = done.cur /\ scope' = scope
  BY <1>3 DEF ExpressionStmt, execVars
<1>7. /\ Grows(code, W, code', V) /\ Fits(code', V, {<<cur', e.k>>} \cup H)
      /\ \A b \in Waits(Tail(todo)) : code'[b] = <<>>
      /\ scope' = e.sc
  BY <1>4, <1>5, <1>6 DEF Bare
<1>8. QED
  BY <1>1, <1>2, <1>6, <1>7, PopFollows

LEMMA ReturnFollows == ASSUME CodeInv, FollowInv, ReturnStmt PROVE FollowInv'
<1>1. pc = "build" /\ todo # <<>> /\ Here.task = "stmt" /\ Here.node.kind = "return" /\ ~returnFlag
  BY DEF ReturnStmt, AtStmt, AtTask, Here
<1>2. PICK W, D, d, e, H : Now(W, D, d, e, H)
  BY <1>1, NowIs
<1>3. PICK w, value, done, l :
        /\ w = Source(Here.node, Here.path, Env(scope))
        /\ value = Evaluated(code, cur, Here.node.expr, Here.path)
        /\ done = (IF Here.node.value THEN value ELSE [code |-> code, cur |-> cur])
        /\ l = Joined(Returns, e.k)
  OBVIOUS
<1>4. /\ e.sc = scope /\ IsSeq(e.k) /\ IsStmt(d.k) /\ IsSeq(l) /\ IsSeq(Unfolded(d.k))
      /\ ~Here.node.value => Unfolded(d.k) = l
      /\ Here.node.value => Unfolded(d.k) = Joined(Evaluate(w), l) /\ Here.node.expr.var \in Names
  BY <1>1, <1>2, <1>3, StmtPlan
<1>5. /\ Fits(code, W, {<<cur, d.k>>} \cup Leads(Here, e) \cup H)
      /\ \A b \in Waits(Tail(todo)) : code[b] = <<>>
      /\ \A b, q : <<b, q>> \in H =>
           b \in Waits(Tail(todo)) /\ b # cur /\ b \in OpenBlocks(code)
  BY <1>1, <1>2, HandFacts
<1>6. /\ IsGraph(code) /\ Len(code) \in Nat /\ DOMAIN code = 1..Len(code)
      /\ cur \in OpenBlocks(code)
      /\ OpenBlocks(code) \ {cur} = Pending(Here) \cup Waits(Tail(todo))
  BY <1>1, BuildFacts
<1>7. Leads(Here, e) = {} /\ Pending(Here) = {}
  BY <1>1 DEF Leads, Pending
<1>8. PICK V : /\ Grows(code, W, done.code, V) /\ Fits(done.code, V, {<<done.cur, l>>} \cup H)
               /\ IsGraph(done.code) /\ done.cur \in OpenBlocks(done.code)
               /\ OpenBlocks(done.code) \ {done.cur} = Waits(Tail(todo))
               /\ Bare(done.code, Waits(Tail(todo)))
  <2>1. CASE Here.node.value
    <3>1. done = value
      BY <1>3, <2>1
    <3>2. /\ Here.node.expr.var \in Names /\ Unfolded(d.k) = Joined(Evaluate(w), l)
          /\ done = Evaluated(code, cur, Here.node.expr, Here.path)
      BY <1>3, <1>4, <2>1, <3>1
    <3>3. QED
      BY <1>1, <1>2, <1>3, <1>4, <3>2, StmtAtHand
  <2>2. CASE ~Here.node.value
    <3>1. done.code = code /\ done.cur = cur
      BY <1>3, <2>2
    <3>2. PICK F, k : F = {<<cur, d.k>>} \cup H /\ k = d.k
      OBVIOUS
    <3>3. Fits(code, W, F)
      <4>1. F = {<<cur, d.k>>} \cup Leads(Here, e) \cup H
        BY <1>7, <3>2
      <4>2. QED
        BY <1>5, <4>1
    <3>4. PICK V, G : /\ V = W \cup {<<cur, Len(code[cur]) + 1, Unfolded(k)>>}
                      /\ G = {h \in F : h[1] # cur} \cup {<<cur, Unfolded(k)>>}
      OBVIOUS
    <3>5. Fits(code, V, G)
      <4>1. /\ IsStmt(k) /\ IsSeq(Unfolded(k)) /\ \A q : <<cur, q>> \in F => q = k
        BY <1>4, <1>5, <3>2
      <4>2. QED
        BY <1>6, <3>3, <3>4, <4>1, UnfoldFits
    <3>6. Unfolded(k) = l
      BY <1>4, <2>2, <3>2
    <3>7. \A b, q : <<b, q>> \in G => <<b, q>> \in {<<cur, l>>} \cup H
      BY <3>2, <3>4, <3>6
    <3>8. Fits(code, V, {<<cur, l>>} \cup H)
      BY <3>5, <3>7, FitsMore
    <3>9. Grows(code, W, code, V)
      BY <3>4 DEF Grows
    <3>10. QED
      BY <1>5, <1>6, <1>7, <3>1, <3>8, <3>9 DEF Bare
  <2>3. QED
    BY <2>1, <2>2
<1>9. /\ fun' = fun /\ pc' = pc /\ blk' = blk /\ idx' = idx /\ todo' = Tail(todo)
      /\ code' = Emit(done.code, done.cur, Ret) /\ cur' = done.cur /\ scope' = scope
  BY <1>3 DEF ReturnStmt, execVars
<1>10. PICK c, b, x, F, G, N :
         /\ c = done.code /\ b = done.cur /\ x = Emit(done.code, done.cur, Ret)
         /\ F = {<<done.cur, l>>} \cup H /\ G = {<<done.cur, e.k>>} \cup H /\ N = {}
  OBVIOUS
<1>11. /\ IsGraph(c) /\ b \in OpenBlocks(c) /\ b \in DOMAIN c /\ Fits(c, V, F)
       /\ x = Emit(c, b, Ret)
  BY <1>8, <1>10 DEF OpenBlocks
<1>12. /\ \A a \in DOMAIN c : a # b => x[a] = c[a]
       /\ x[b][Len(c[b]) + 1] = Ret
  BY <1>11, EmitFacts
<1>13. Matches(x, V \cup N, b, Len(c[b]) + 1, l)
  BY <1>3, <1>4, <1>12, RetMatches DEF Joined, Returns
<1>14. Fits(x, V \cup N, G)
  <2>1. \A q : <<b, q>> \in F => q = l
    <3>1. \A q : <<b, q>> \notin H
      BY <1>5, <1>8, <1>10
    <3>2. QED
      BY <1>10, <3>1
  <2>2. Ret.op # "br" /\ Targets(Ret) \subseteq 2..Len(c)
    BY InstrFacts DEF Ret
  <2>3. /\ Matches(Emit(c, b, Ret), V \cup N, b, Len(c[b]) + 1, l)
        /\ \A a, q : <<a, q>> \in F /\ a # b => <<a, q>> \in G
    BY <1>10, <1>11, <1>13
  <2>4. \A n \in N : \E a, q : /\ n = <<a, Len(Emit(c, b, Ret)[a]) + 1, q>> /\ IsSeq(q)
                               /\ a \in OpenBlocks(Emit(c, b, Ret)) /\ <<a, q>> \in G
    BY <1>10
  <2>5. Fits(Emit(c, b, Ret), V \cup N, G)
    BY <1>11, <2>1, <2>2, <2>3, <2>4, EmitFits
  <2>6. QED
    BY <1>11, <2>5
<1>15. Fits(x, V, {<<done.cur, e.k>>} \cup H)
  <2>1. V \cup N = V
    BY <1>10
  <2>2. QED
    BY <1>10, <1>14, <2>1
<1>16. Grows(code, W, x, V)
  <2>1. Grows(c, V, Emit(c, b, Ret), V)
    BY <1>11, EmitGrows
  <2>2. QED
    BY <1>8, <1>10, <2>1, GrowsMore
<1>17. \A a \in Waits(Tail(todo)) : x[a] = <<>>
  <2>1. \A a \in Waits(Tail(todo)) : a \in DOMAIN c /\ a # b /\ c[a] = <<>>
    BY <1>8, <1>10 DEF OpenBlocks, Bare
  <2>2. QED
    BY <1>12, <2>1
<1>18. /\ Grows(code, W, code', V) /\ Fits(code', V, {<<cur', e.k>>} \cup H)
       /\ \A a \in Waits(Tail(todo)) : code'[a] = <<>>
       /\ scope' = e.sc
  BY <1>4, <1>9, <1>10, <1>15, <1>16, <1>17
<1>19. QED
  BY <1>1, <1>2, <1>9, <1>18, PopFollows

(* l begins with a test, after which there is j or k to do.                *)
Forks(l, path, p, q, R, j, k) ==
  /\ IsSeq(R) /\ l = Joined(Test(path, p, q), R)
  /\ j = Joined(p, R) /\ k = Joined(q, R) /\ IsSeq(j) /\ IsSeq(k)

(* A test is done by a condbr, which leads to two blocks still empty.       *)
LEMMA CondBrFits ==
  ASSUME NEW c, IsGraph(c), NEW b \in OpenBlocks(c), NEW V, NEW H, NEW l,
         Fits(c, V, {<<b, l>>} \cup H), \A a, q : <<a, q>> \in H => a # b,
         NEW y, NEW z, y \in OpenBlocks(c), z \in OpenBlocks(c), c[y] = <<>>, c[z] = <<>>,
         y # b, z # b, {y, z} \subseteq 2..Len(c),
         NEW path, NEW p, NEW q, NEW R, NEW j, NEW k, Forks(l, path, p, q, R, j, k)
  PROVE  \E U : /\ V \subseteq U
                /\ Fits(Emit(c, b, CondBr(path, y, z)), U, {<<y, j>>, <<z, k>>} \cup H)
<1>1. PICK i, N, F, G, x : /\ i = CondBr(path, y, z) /\ N = {<<y, 1, j>>, <<z, 1, k>>}
                           /\ F = {<<b, l>>} \cup H /\ G = {<<y, j>>, <<z, k>>} \cup H
                           /\ x = Emit(c, b, i)
  OBVIOUS
<1>2. i.op # "br" /\ Targets(i) = {y, z} /\ IsTerminator(i)
  BY <1>1, InstrFacts DEF CondBr
<1>3. b \in DOMAIN c
  BY DEF OpenBlocks
<1>4. /\ \A a \in DOMAIN c : a # b => x[a] = c[a]
      /\ x[b][Len(c[b]) + 1] = i
  BY <1>1, <1>3, EmitFacts
<1>5. OpenBlocks(x) = OpenBlocks(c) \ {b}
  BY <1>1, <1>2, EmitGraph
<1>6. x[y] = <<>> /\ x[z] = <<>> /\ y \in OpenBlocks(x) /\ z \in OpenBlocks(x)
  BY <1>4, <1>5 DEF OpenBlocks
<1>7. Len(<<>>) + 1 = 1
  OBVIOUS
<1>8. Matches(x, V \cup N, b, Len(c[b]) + 1, l)
  <2>1. <<y, 1, j>> \in V \cup N /\ <<z, 1, k>> \in V \cup N
    BY <1>1
  <2>2. <<y, 1, p \o R>> \in V \cup N /\ <<z, 1, q \o R>> \in V \cup N
    BY <2>1 DEF Joined, Forks
  <2>3. Matches(x, V \cup N, b, Len(c[b]) + 1,
                <<[do |-> "test", path |-> path, yes |-> p, no |-> q]>> \o R)
    <3>1. IsSeq(R)
      BY DEF Forks
    <3>2. QED
      BY <1>1, <1>4, <2>2, <3>1, TestMatches
  <2>4. QED
    BY <2>3 DEF Joined, Test, Forks
<1>9. \A n \in N : \E a, r : /\ n = <<a, Len(x[a]) + 1, r>> /\ IsSeq(r)
                             /\ a \in OpenBlocks(x) /\ <<a, r>> \in G
  <2>1. /\ <<y, 1, j>> = <<y, Len(x[y]) + 1, j>> /\ <<y, j>> \in G
        /\ <<z, 1, k>> = <<z, Len(x[z]) + 1, k>> /\ <<z, k>> \in G
    BY <1>1, <1>6, <1>7
  <2>2. \A n \in N : n = <<y, 1, j>> \/ n = <<z, 1, k>>
    BY <1>1
  <2>3. IsSeq(j) /\ IsSeq(k)
    BY DEF Forks
  <2>4. QED
    BY ONLY <1>6, <2>1, <2>2, <2>3
<1>10. /\ \A r : <<b, r>> \in F => r = l
       /\ \A a, r : <<a, r>> \in F /\ a # b => <<a, r>> \in G
  BY <1>1
<1>11. Fits(Emit(c, b, i), V \cup N, G)
  <2>1. Targets(i) \subseteq 2..Len(c) /\ Fits(c, V, F)
    BY <1>1, <1>2
  <2>2. Matches(Emit(c, b, i), V \cup N, b, Len(c[b]) + 1, l)
    BY <1>1, <1>8
  <2>3. \A n \in N : \E a, r : /\ n = <<a, Len(Emit(c, b, i)[a]) + 1, r>> /\ IsSeq(r)
                               /\ a \in OpenBlocks(Emit(c, b, i)) /\ <<a, r>> \in G
    BY <1>1, <1>9
  <2>4. QED
    BY <1>2, <1>10, <2>1, <2>2, <2>3, EmitFits
<1>12. V \subseteq V \cup N
  OBVIOUS
<1>13. QED
  BY <1>1, <1>11, <1>12

(* The two blocks are created for the branch.                               *)
Branches(c, b, V, H, l, path, y, z, x) ==
  /\ IsGraph(c) /\ b \in OpenBlocks(c) /\ Fits(c, V, {<<b, l>>} \cup H)
  /\ \A a, h : <<a, h>> \in H => a # b /\ a \in DOMAIN c
  /\ y = Len(c) + 1 /\ z = Len(c) + 2
  /\ x = Emit(NewBlocks(c, 2), b, CondBr(path, y, z))

(* The blocks but b stay as they are.                                       *)
Others(c, b, x) == \A a \in DOMAIN c : a # b => x[a] = c[a]

LEMMA BranchFits ==
  ASSUME NEW c, NEW b, NEW V, NEW H, NEW l, NEW path, NEW y, NEW z, NEW x,
         Branches(c, b, V, H, l, path, y, z, x),
         NEW p, NEW q, NEW R, NEW j, NEW k, Forks(l, path, p, q, R, j, k)
  PROVE  \E U : /\ Grows(c, V, x, U) /\ Fits(x, U, {<<y, j>>, <<z, k>>} \cup H)
                /\ Bare(x, {y, z}) /\ Others(c, b, x)
<1>0. /\ IsGraph(c) /\ b \in OpenBlocks(c) /\ Fits(c, V, {<<b, l>>} \cup H)
      /\ \A a, h : <<a, h>> \in H => a # b /\ a \in DOMAIN c
      /\ y = Len(c) + 1 /\ z = Len(c) + 2
      /\ x = Emit(NewBlocks(c, 2), b, CondBr(path, y, z))
  BY DEF Branches
<1>1. PICK g : g = NewBlocks(c, 2)
  OBVIOUS
<1>2. b \in DOMAIN c /\ Len(c) \in Nat /\ DOMAIN c = 1..Len(c)
  BY <1>0, SeqFacts DEF OpenBlocks, IsGraph
<1>3. /\ \A a \in DOMAIN c : g[a] = c[a]
      /\ \A a \in (Len(c) + 1)..(Len(c) + 2) : g[a] = <<>>
  BY <1>0, <1>1, NewBlocksFacts
<1>4. /\ IsGraph(g) /\ Len(g) = Len(c) + 2 /\ DOMAIN g = 1..(Len(c) + 2)
      /\ OpenBlocks(g) = OpenBlocks(c) \cup ((Len(c) + 1)..(Len(c) + 2))
  BY <1>0, <1>1, NewBlocksGraph
<1>5. Fits(g, V, {<<b, l>>} \cup H)
  BY <1>0, <1>1, NewBlocksFits
<1>6. /\ y \in (Len(c) + 1)..(Len(c) + 2) /\ z \in (Len(c) + 1)..(Len(c) + 2)
      /\ y # b /\ z # b /\ y # z /\ {y, z} \subseteq 2..(Len(c) + 2)
  BY <1>0, <1>2
<1>7. /\ b \in OpenBlocks(g) /\ y \in OpenBlocks(g) /\ z \in OpenBlocks(g)
      /\ g[y] = <<>> /\ g[z] = <<>> /\ {y, z} \subseteq 2..Len(g) /\ b \in DOMAIN g
      /\ y \in DOMAIN g /\ z \in DOMAIN g
  BY <1>0, <1>3, <1>4, <1>6 DEF OpenBlocks
<1>8. PICK U : V \subseteq U /\ Fits(Emit(g, b, CondBr(path, y, z)), U, {<<y, j>>, <<z, k>>} \cup H)
  <2>1. (\A a, h : <<a, h>> \in H => a # b) /\ Forks(l, path, p, q, R, j, k)
    BY <1>0
  <2>2. IsGraph(g) /\ y # b /\ z # b
    BY <1>4, <1>6
  <2>3. QED
    BY ONLY <1>5, <1>7, <2>1, <2>2, CondBrFits
<1>9. x = Emit(g, b, CondBr(path, y, z))
  BY <1>0, <1>1
<1>10. \A a \in DOMAIN g : a # b => x[a] = g[a]
  <2>1. PICK i : i = CondBr(path, y, z)
    OBVIOUS
  <2>2. x = Emit(g, b, i)
    BY <1>0, <1>9, <2>1
  <2>3. QED
    <3>1. IsGraph(g) /\ b \in DOMAIN g
      BY <1>0, <1>4, <1>7
    <3>2. QED
      BY <1>0, <2>2, <3>1, EmitFacts
<1>11. Grows(c, V, x, U)
  <2>1. Grows(c, V, g, V)
    <3>1. 2 \in Nat
      OBVIOUS
    <3>2. QED
      BY <1>0, <1>1, <3>1, NewBlocksGrows
  <2>2. Grows(g, V, x, U)
    BY <1>0, <1>4, <1>7, <1>8, <1>9, EmitGrows
  <2>3. QED
    BY <1>0, <2>1, <2>2, GrowsMore
<1>12. Others(c, b, x)
  BY <1>0, <1>2, <1>3, <1>4, <1>10 DEF Others
<1>13. Bare(x, {y, z})
  BY <1>6, <1>7, <1>10 DEF Bare
<1>14. QED
  BY <1>8, <1>9, <1>11, <1>12, <1>13

LEMMA JoinedFacts ==
  ASSUME NEW s, NEW R, IsSeq(R)
  PROVE  /\ Joined(<<s>>, R) = Cons(s, R) /\ IsSeq(Cons(s, R))
         /\ Joined(<<>>, R) = R
<1>1. IsSeq(<<s>> \o R) /\ <<>> \o R = R
  BY ConsFacts, NilConcat
<1>2. QED
  BY <1>1 DEF Joined, Cons

(* The statement at hand branches to two new blocks, where there is j and k *)
(* to do.                                                                   *)
Branching(path, done, y, z, x, rest, p, q, j, k) ==
  /\ y = Len(done.code) + 1 /\ z = Len(done.code) + 2
  /\ x = Emit(NewBlocks(done.code, 2), done.cur, CondBr(path, y, z))
  /\ j = Joined(p, rest) /\ k = Joined(q, rest) /\ IsSeq(j) /\ IsSeq(k)

LEMMA BranchAtHand ==
  ASSUME CodeInv, pc = "build", todo # <<>>, Here.task = "stmt",
         Here.node.kind \in {"if", "ifelse"}, ~returnFlag,
         NEW W, NEW D, NEW d, NEW e, NEW H, Now(W, D, d, e, H),
         NEW w, w = Source(Here.node, Here.path, Env(scope)),
         NEW done, done = Evaluated(code, cur, Here.node.expr, Here.path),
         NEW y, NEW z, NEW x, NEW p, NEW q, NEW j, NEW k,
         Branching(Here.path, done, y, z, x, e.k, p, q, j, k),
         After(w) = Test(Here.path, p, q)
  PROVE  \E U : /\ Grows(code, W, x, U) /\ Fits(x, U, {<<y, j>>, <<z, k>>} \cup H)
                /\ Bare(x, {y, z}) /\ Bare(x, Waits(Tail(todo)))
<1>1. PICK l, R, c, b, path : /\ l = Joined(After(w), R) /\ R = e.k
                              /\ c = done.code /\ b = done.cur /\ path = Here.path
  OBVIOUS
<1>2. /\ e.sc = scope /\ IsSeq(R) /\ IsStmt(d.k) /\ Here.node.expr.var \in Names /\ IsSeq(l)
      /\ Unfolded(d.k) = Joined(Evaluate(w), l) /\ IsSeq(Unfolded(d.k))
  <2>1. /\ e.sc = scope /\ IsSeq(e.k) /\ IsStmt(d.k) /\ Here.node.expr.var \in Names
        /\ Unfolded(d.k) = Joined(Evaluate(w), Joined(After(w), e.k)) /\ IsSeq(Unfolded(d.k))
        /\ IsSeq(Joined(After(w), e.k))
    BY StmtPlan
  <2>2. QED
    BY <1>1, <2>1
<1>3. \A a, h : <<a, h>> \in H => a \in Waits(Tail(todo))
  BY HandFacts
<1>4. PICK V : /\ Grows(code, W, done.code, V) /\ Fits(done.code, V, {<<done.cur, l>>} \cup H)
               /\ IsGraph(done.code) /\ done.cur \in OpenBlocks(done.code)
               /\ OpenBlocks(done.code) \ {done.cur} = Waits(Tail(todo))
               /\ Bare(done.code, Waits(Tail(todo)))
  BY <1>2, StmtAtHand
<1>5. PICK U : /\ Grows(c, V, x, U) /\ Fits(x, U, {<<y, j>>, <<z, k>>} \cup H)
               /\ Bare(x, {y, z}) /\ Others(c, b, x)
  <2>1. \A a, h : <<a, h>> \in H => a # b /\ a \in DOMAIN c
    BY <1>1, <1>3, <1>4 DEF OpenBlocks
  <2>2. Branches(c, b, V, H, l, path, y, z, x)
    BY <1>1, <1>4, <2>1 DEF Branches, Branching
  <2>3. Forks(l, path, p, q, R, j, k)
    BY <1>1, <1>2 DEF Forks, Branching
  <2>4. QED
    BY <2>2, <2>3, BranchFits
<1>6. Bare(x, Waits(Tail(todo)))
  <2>1. \A a \in Waits(Tail(todo)) : a \in DOMAIN c /\ a # b /\ c[a] = <<>>
    BY <1>1, <1>4 DEF OpenBlocks, Bare
  <2>2. QED
    BY <1>5, <2>1 DEF Others, Bare
<1>7. Grows(code, W, x, U)
  BY <1>1, <1>4, <1>5, GrowsMore
<1>8. QED
  BY <1>5, <1>6, <1>7

LEMMA IfElseFollows == ASSUME CodeInv, FollowInv, IfElse PROVE FollowInv'
<1>1. pc = "build" /\ todo # <<>> /\ Here.task = "stmt" /\ Here.node.kind = "ifelse" /\ ~returnFlag
  BY DEF IfElse, AtStmt, AtTask, Here
<1>2. PICK W, D, d, e, H : Now(W, D, d, e, H)
  BY <1>1, NowIs
<1>3. PICK w, done, s1, s2, j, k, y, z, x, t, r :
        /\ w = Source(Here.node, Here.path, Env(scope))
        /\ done = Evaluated(code, cur, Here.node.expr, Here.path)
        /\ s1 = Source(Here.node.then, Append(Here.path, 1), Env(scope))
        /\ s2 = Source(Here.node.else, Append(Here.path, 2), Env(scope))
        /\ j = Joined(<<s1>>, e.k) /\ k = Joined(<<s2>>, e.k)
        /\ y = Len(done.code) + 1 /\ z = Len(done.code) + 2
        /\ x = Emit(NewBlocks(done.code, 2), done.cur, CondBr(Here.path, y, z))
        /\ t = Stmt(Here.node.else, Append(Here.path, 2))
        /\ r = [task |-> "else built", trueBB |-> y, stmt |-> Here]
  OBVIOUS
<1>4. /\ e.sc = scope /\ IsSeq(e.k)
      /\ w.node = Here.node /\ w.path = Here.path /\ w.env = Env(scope)
  BY <1>1, <1>2, <1>3, StmtPlan
<1>5. IsSeq(j) /\ j = Cons(s1, e.k) /\ IsSeq(k) /\ k = Cons(s2, e.k)
  <2>1. PICK R : R = e.k
    OBVIOUS
  <2>2. IsSeq(R)
    BY ONLY <1>4, <2>1
  <2>3. j = Joined(<<s1>>, R) /\ k = Joined(<<s2>>, R)
    BY ONLY <1>3, <2>1
  <2>4. /\ Joined(<<s1>>, R) = Cons(s1, R) /\ IsSeq(Cons(s1, R))
        /\ Joined(<<s2>>, R) = Cons(s2, R) /\ IsSeq(Cons(s2, R))
    BY ONLY <2>2, JoinedFacts
  <2>5. QED
    BY ONLY <2>1, <2>3, <2>4
<1>6. PICK U : /\ Grows(code, W, x, U) /\ Fits(x, U, {<<y, j>>, <<z, k>>} \cup H)
               /\ Bare(x, {y, z}) /\ Bare(x, Waits(Tail(todo)))
  <2>1. PICK p, q : p = <<s1>> /\ q = <<s2>>
    OBVIOUS
  <2>2. After(w) = Test(Here.path, p, q)
    BY <1>1, <1>3, <1>4, <2>1 DEF After
  <2>3. Branching(Here.path, done, y, z, x, e.k, p, q, j, k)
    BY <1>3, <1>5, <2>1 DEF Branching
  <2>4. /\ w = Source(Here.node, Here.path, Env(scope))
        /\ done = Evaluated(code, cur, Here.node.expr, Here.path)
        /\ Here.node.kind \in {"if", "ifelse"}
    BY <1>1, <1>3
  <2>5. QED
    BY <1>1, <1>2, <2>2, <2>3, <2>4, BranchAtHand
<1>7. /\ fun' = fun /\ pc' = pc /\ blk' = blk /\ idx' = idx /\ scope' = scope
      /\ code' = x /\ cur' = z /\ todo' = <<t, r>> \o Tail(todo)
  BY <1>3 DEF IfElse, execVars
<1>8. /\ IsVisit(t) /\ IsRemainder(r) /\ Cons(Source(t.node, t.path, Env(e.sc)), e.k) = k
      /\ Pending(r) = {y} /\ Leads(r, e) = {<<y, j>>}
  <2>1. t.task = "stmt" /\ t.node = Here.node.else /\ t.path = Append(Here.path, 2)
    BY <1>3 DEF Stmt
  <2>2. r.task = "else built" /\ r.trueBB = y /\ r.stmt = Here
    BY <1>3
  <2>3. Pending(r) = {y}
    BY <2>2 DEF Pending
  <2>4. Resumed(r, e) = j
    BY <1>3, <1>4, <1>5, <2>2 DEF Resumed
  <2>5. Leads(r, e) = {<<y, j>>}
    BY ONLY <2>3, <2>4 DEF Leads
  <2>6. IsVisit(t) /\ IsRemainder(r)
    BY ONLY <2>1, <2>2 DEF IsVisit, IsRemainder
  <2>7. Source(t.node, t.path, Env(e.sc)) = s2
    BY <1>3, <1>4, <2>1
  <2>8. QED
    BY ONLY <1>5, <2>3, <2>5, <2>6, <2>7
<1>9. Planned(r, x, U, e, e)
  <2>1. r.task = "else built"
    BY <1>3
  <2>2. QED
    BY <2>1 DEF Planned
<1>10. Pushes(todo, e, t, r, todo', e, k, code', cur', U, H)
  <2>1. todo' = Joined(<<t, r>>, Tail(todo))
    BY <1>7 DEF Joined
  <2>2. \A a \in Pending(r) \cup Waits(Tail(todo)) : code'[a] = <<>>
    BY <1>6, <1>7, <1>8 DEF Bare
  <2>3. Fits(code', U, {<<cur', k>>} \cup Leads(r, e) \cup H)
    <3>1. {<<y, j>>, <<z, k>>} \cup H = {<<z, k>>} \cup Leads(r, e) \cup H
      BY <1>8
    <3>2. QED
      BY <1>6, <1>7, <3>1
  <2>4. Planned(r, code', U, e, e)
    BY <1>7, <1>9
  <2>5. QED
    BY <1>4, <1>8, <2>1, <2>2, <2>3, <2>4 DEF Pushes
<1>11. Grows(code, W, code', U) /\ scope' = e.sc
  BY <1>4, <1>6, <1>7
<1>12. QED
  BY <1>1, <1>2, <1>7, <1>10, <1>11, PushFollows

LEMMA IfFollows == ASSUME CodeInv, FollowInv, If PROVE FollowInv'
<1>1. pc = "build" /\ todo # <<>> /\ Here.task = "stmt" /\ Here.node.kind = "if" /\ ~returnFlag
  BY DEF If, AtStmt, AtTask, Here
<1>2. PICK W, D, d, e, H : Now(W, D, d, e, H)
  BY <1>1, NowIs
<1>3. PICK w, done, s, j, k, y, z, x, t, r :
        /\ w = Source(Here.node, Here.path, Env(scope))
        /\ done = Evaluated(code, cur, Here.node.expr, Here.path)
        /\ s = Source(Here.node.then, Append(Here.path, 1), Env(scope))
        /\ j = Joined(<<s>>, e.k) /\ k = Joined(<<>>, e.k)
        /\ y = Len(done.code) + 1 /\ z = Len(done.code) + 2
        /\ x = Emit(NewBlocks(done.code, 2), done.cur, CondBr(Here.path, y, z))
        /\ t = Stmt(Here.node.then, Append(Here.path, 1))
        /\ r = [task |-> "if built", nextBB |-> z]
  OBVIOUS
<1>4. /\ e.sc = scope /\ IsSeq(e.k)
      /\ w.node = Here.node /\ w.path = Here.path /\ w.env = Env(scope)
  BY <1>1, <1>2, <1>3, StmtPlan
<1>5. IsSeq(j) /\ j = Cons(s, e.k) /\ IsSeq(k) /\ k = e.k
  <2>1. PICK R : R = e.k
    OBVIOUS
  <2>2. IsSeq(R)
    BY ONLY <1>4, <2>1
  <2>3. j = Joined(<<s>>, R) /\ k = Joined(<<>>, R)
    BY ONLY <1>3, <2>1
  <2>4. Joined(<<s>>, R) = Cons(s, R) /\ IsSeq(Cons(s, R)) /\ Joined(<<>>, R) = R
    BY ONLY <2>2, JoinedFacts
  <2>5. QED
    BY ONLY <2>1, <2>2, <2>3, <2>4
<1>6. PICK U : /\ Grows(code, W, x, U) /\ Fits(x, U, {<<y, j>>, <<z, k>>} \cup H)
               /\ Bare(x, {y, z}) /\ Bare(x, Waits(Tail(todo)))
  <2>1. PICK p, q : p = <<s>> /\ q = <<>>
    OBVIOUS
  <2>2. After(w) = Test(Here.path, p, q)
    BY <1>1, <1>3, <1>4, <2>1 DEF After
  <2>3. Branching(Here.path, done, y, z, x, e.k, p, q, j, k)
    BY <1>3, <1>5, <2>1 DEF Branching
  <2>4. /\ w = Source(Here.node, Here.path, Env(scope))
        /\ done = Evaluated(code, cur, Here.node.expr, Here.path)
        /\ Here.node.kind \in {"if", "ifelse"}
    BY <1>1, <1>3
  <2>5. QED
    BY <1>1, <1>2, <2>2, <2>3, <2>4, BranchAtHand
<1>7. /\ fun' = fun /\ pc' = pc /\ blk' = blk /\ idx' = idx /\ scope' = scope
      /\ code' = x /\ cur' = y /\ todo' = <<t, r>> \o Tail(todo)
  BY <1>3 DEF If, execVars
<1>8. /\ IsVisit(t) /\ IsRemainder(r) /\ Cons(Source(t.node, t.path, Env(e.sc)), e.k) = j
      /\ Pending(r) = {z} /\ Leads(r, e) = {<<z, k>>}
  <2>1. t.task = "stmt" /\ t.node = Here.node.then /\ t.path = Append(Here.path, 1)
    BY <1>3 DEF Stmt
  <2>2. r.task = "if built" /\ r.nextBB = z
    BY <1>3
  <2>3. Pending(r) = {z}
    BY <2>2 DEF Pending
  <2>4. Resumed(r, e) = k
    BY <1>5, <2>2 DEF Resumed
  <2>5. Leads(r, e) = {<<z, k>>}
    BY ONLY <2>3, <2>4 DEF Leads
  <2>6. IsVisit(t) /\ IsRemainder(r)
    BY ONLY <2>1, <2>2 DEF IsVisit, IsRemainder
  <2>7. Source(t.node, t.path, Env(e.sc)) = s
    BY <1>3, <1>4, <2>1
  <2>8. QED
    BY ONLY <1>5, <2>3, <2>5, <2>6, <2>7
<1>9. Planned(r, x, U, e, e)
  <2>1. r.task = "if built"
    BY <1>3
  <2>2. QED
    BY <2>1 DEF Planned
<1>10. Pushes(todo, e, t, r, todo', e, j, code', cur', U, H)
  <2>1. todo' = Joined(<<t, r>>, Tail(todo))
    BY <1>7 DEF Joined
  <2>2. \A a \in Pending(r) \cup Waits(Tail(todo)) : code'[a] = <<>>
    BY <1>6, <1>7, <1>8 DEF Bare
  <2>3. Fits(code', U, {<<cur', j>>} \cup Leads(r, e) \cup H)
    <3>1. {<<y, j>>, <<z, k>>} \cup H = {<<y, j>>} \cup Leads(r, e) \cup H
      BY <1>8
    <3>2. QED
      BY <1>6, <1>7, <3>1
  <2>4. Planned(r, code', U, e, e)
    BY <1>7, <1>9
  <2>5. QED
    BY <1>4, <1>8, <2>1, <2>2, <2>3, <2>4 DEF Pushes
<1>11. Grows(code, W, code', U) /\ scope' = e.sc
  BY <1>4, <1>6, <1>7
<1>12. QED
  BY <1>1, <1>2, <1>7, <1>10, <1>11, PushFollows

(* A branch to a block of its own                                           *)
LEMMA JumpTo ==
  ASSUME NEW c, IsGraph(c), NEW b \in OpenBlocks(c), NEW W, NEW F, NEW l,
         Fits(c, W, {<<b, l>>} \cup F), \A a, q : <<a, q>> \in F => a # b,
         NEW y \in 2..Len(c), y \in OpenBlocks(c), y # b, Bare(c, {y}), <<y, l>> \in F,
         NEW x, x = Emit(c, b, Br(y))
  PROVE  \E V : Grows(c, W, x, V) /\ Fits(x, V, F) /\ Others(c, b, x)
<1>1. PICK G, i : G = {<<b, l>>} \cup F /\ i = Br(y)
  OBVIOUS
<1>2. b \in DOMAIN c /\ c[y] = <<>>
  BY DEF OpenBlocks, Bare
<1>3. PICK V : W \subseteq V /\ Fits(x, V, F)
  <2>1. Fits(c, W, G)
    BY <1>1
  <2>2. /\ \A a, q : <<a, q>> \in G /\ a # b => <<a, q>> \in F
        /\ \A q : <<b, q>> \in G => <<y, q>> \in F
    BY <1>1
  <2>3. \E V : W \subseteq V /\ Fits(Emit(c, b, Br(y)), V, F)
    BY <1>2, <2>1, <2>2, BrFits
  <2>4. QED
    BY <2>3
<1>4. x = Emit(c, b, i)
  BY <1>1
<1>5. Others(c, b, x)
  BY <1>2, <1>4, EmitFacts DEF Others
<1>6. Grows(c, W, x, V)
  BY <1>2, <1>3, <1>4, EmitGrows
<1>7. QED
  BY <1>3, <1>5, <1>6

(* A branch to a block created for it                                       *)
LEMMA JumpNew ==
  ASSUME NEW c, IsGraph(c), NEW b \in OpenBlocks(c), NEW W, NEW F, NEW l,
         Fits(c, W, {<<b, l>>} \cup F), \A a, q : <<a, q>> \in F => a # b,
         NEW y, y = Len(c) + 1, NEW x, x = Emit(NewBlocks(c, 1), b, Br(y))
  PROVE  \E V : /\ Grows(c, W, x, V) /\ Fits(x, V, {<<y, l>>} \cup F)
                /\ Others(c, b, x) /\ Bare(x, {y})
<1>1. PICK g, G, n : g = NewBlocks(c, n) /\ G = {<<y, l>>} \cup F /\ n = 1
  OBVIOUS
<1>2. b \in DOMAIN c /\ Len(c) \in Nat /\ DOMAIN c = 1..Len(c) /\ n \in Nat
  BY <1>1, SeqFacts DEF OpenBlocks, IsGraph
<1>3. /\ \A a \in DOMAIN c : g[a] = c[a]
      /\ \A a \in (Len(c) + 1)..(Len(c) + n) : g[a] = <<>>
  BY <1>1, <1>2, NewBlocksFacts
<1>4. /\ IsGraph(g) /\ Len(g) = Len(c) + n /\ DOMAIN g = 1..(Len(c) + n)
      /\ OpenBlocks(g) = OpenBlocks(c) \cup ((Len(c) + 1)..(Len(c) + n))
  BY <1>1, <1>2, NewBlocksGraph
<1>5. Fits(g, W, {<<b, l>>} \cup F)
  BY <1>1, <1>2, NewBlocksFits
<1>6. y \in (Len(c) + 1)..(Len(c) + n) /\ y # b /\ y \in 2..(Len(c) + n) /\ y \notin DOMAIN c
  BY <1>1, <1>2
<1>7. /\ b \in OpenBlocks(g) /\ y \in OpenBlocks(g) /\ Bare(g, {y}) /\ y \in 2..Len(g)
      /\ y \in DOMAIN g /\ b \in DOMAIN g
  BY <1>3, <1>4, <1>6 DEF OpenBlocks, Bare
<1>8. PICK V : Grows(g, W, x, V) /\ Fits(x, V, G) /\ Others(g, b, x)
  <2>1. x = Emit(g, b, Br(y))
    BY <1>1
  <2>2. Fits(g, W, {<<b, l>>} \cup G)
    <3>1. PICK K, M : K = {<<b, l>>} \cup F /\ M = {<<b, l>>} \cup G
      OBVIOUS
    <3>2. \A a, q : <<a, q>> \in K => <<a, q>> \in M
      BY <1>1, <3>1
    <3>3. QED
      BY <1>5, <3>1, <3>2, FitsMore
  <2>3. (\A a, q : <<a, q>> \in G => a # b) /\ <<y, l>> \in G
    BY <1>1, <1>6
  <2>4. QED
    BY <1>4, <1>6, <1>7, <2>1, <2>2, <2>3, JumpTo
<1>9. Grows(c, W, x, V)
  <2>1. Grows(c, W, g, W)
    BY <1>1, <1>2, NewBlocksGrows
  <2>2. QED
    BY <1>8, <2>1, GrowsMore
<1>10. Others(c, b, x) /\ Bare(x, {y})
  <2>1. \A a \in DOMAIN c : a \in DOMAIN g
    BY <1>1, <1>2, <1>4
  <2>2. QED
    BY <1>3, <1>6, <1>7, <1>8, <2>1 DEF Others, Bare
<1>11. QED
  BY <1>1, <1>8, <1>9, <1>10

(* A branch back to the block a loop begins with                            *)
LEMMA JumpBack ==
  ASSUME NEW c, IsGraph(c), NEW b \in OpenBlocks(c), NEW W, NEW F, NEW l,
         Fits(c, W, {<<b, l>>} \cup F), \A a, q : <<a, q>> \in F => a # b,
         NEW y \in 2..Len(c), c[y] # <<>>, c[y][1].op # "br", <<y, 1, l>> \in W,
         NEW x, x = Emit(c, b, Br(y))
  PROVE  \E V : Grows(c, W, x, V) /\ Fits(x, V, F) /\ Others(c, b, x)
<1>1. PICK G, i : G = {<<b, l>>} \cup F /\ i = Br(y)
  OBVIOUS
<1>2. b \in DOMAIN c
  BY DEF OpenBlocks
<1>3. PICK V : W \subseteq V /\ Fits(x, V, F)
  <2>1. Fits(c, W, G)
    BY <1>1
  <2>2. /\ \A a, q : <<a, q>> \in G /\ a # b => <<a, q>> \in F
        /\ \A q : <<b, q>> \in G => <<y, 1, q>> \in W
    BY <1>1
  <2>3. \E V : W \subseteq V /\ Fits(Emit(c, b, Br(y)), V, F)
    BY <1>2, <2>1, <2>2, BrFits
  <2>4. QED
    BY <2>3
<1>4. x = Emit(c, b, i)
  BY <1>1
<1>5. Others(c, b, x)
  BY <1>2, <1>4, EmitFacts DEF Others
<1>6. Grows(c, W, x, V)
  BY <1>2, <1>3, <1>4, EmitGrows
<1>7. QED
  BY <1>3, <1>5, <1>6

(* Nothing is left to do at the end of a block that is finished.            *)
LEMMA ClosedFits ==
  ASSUME NEW c, NEW W, NEW F, NEW b, NEW l, Fits(c, W, {<<b, l>>} \cup F),
         b \notin OpenBlocks(c), NEW G, F \subseteq G
  PROVE  Fits(c, W, G)
<1>1. PICK K : K = {<<b, l>>} \cup F
  OBVIOUS
<1>2. \A a \in OpenBlocks(c) : \A k : <<a, k>> \in K => <<a, k>> \in G
  BY <1>1
<1>3. QED
  BY <1>1, <1>2, FitsMore

(* A remainder of a visit goes on with its block, y, to which the insertion *)
(* point branches unless it is finished.                                    *)
LEMMA ResumeAtHand ==
  ASSUME CodeInv, pc = "build", todo # <<>>,
         NEW W, NEW D, NEW d, NEW e, NEW H, Now(W, D, d, e, H),
         NEW y, Pending(Here) = {y}, d.k = e.k, Resumed(Here, e) = e.k,
         NEW x, x = IF Terminated(cur) THEN code ELSE Emit(code, cur, Br(y))
  PROVE  \E V : /\ Grows(code, W, x, V) /\ Fits(x, V, {<<y, e.k>>} \cup H)
                /\ Bare(x, Waits(Tail(todo)))
<1>1. /\ \A b \in Waits(Tail(todo)) : code[b] = <<>>
      /\ \A b \in Pending(Here) : code[b] = <<>>
      /\ \A b, q : <<b, q>> \in H =>
           b \in Waits(Tail(todo)) /\ b # cur /\ b \in OpenBlocks(code)
      /\ Fits(code, W, {<<cur, d.k>>} \cup Leads(Here, e) \cup H)
  BY HandFacts
<1>2. /\ IsGraph(code) /\ Len(code) \in Nat /\ DOMAIN code = 1..Len(code)
      /\ OpenBlocks(code) \subseteq DOMAIN code
      /\ OpenBlocks(code) \ {cur} = Pending(Here) \cup Waits(Tail(todo))
      /\ 1 \notin Pending(Here)
      /\ Terminated(cur) <=> cur \notin OpenBlocks(code)
  BY BuildFacts
<1>3. PICK c, b, l, F : c = code /\ b = cur /\ l = e.k /\ F = {<<y, l>>} \cup H
  OBVIOUS
<1>4. Fits(c, W, {<<b, l>>} \cup F)
  <2>1. Leads(Here, e) = {<<y, l>>}
    BY <1>3 DEF Leads
  <2>2. {<<cur, d.k>>} \cup Leads(Here, e) \cup H = {<<b, l>>} \cup F
    BY <1>3, <2>1
  <2>3. QED
    BY <1>1, <1>3, <2>2
<1>5. y \in OpenBlocks(c) /\ y # b /\ y \in 2..Len(c) /\ Bare(c, {y}) /\ Bare(c, Waits(Tail(todo)))
  BY <1>1, <1>2, <1>3 DEF Bare
<1>6. CASE Terminated(cur)
  <2>1. Fits(c, W, F)
    <3>1. b \notin OpenBlocks(c) /\ F \subseteq F
      BY <1>2, <1>3, <1>6
    <3>2. QED
      BY <1>4, <3>1, ClosedFits
  <2>2. Grows(c, W, c, W)
    BY DEF Grows
  <2>3. QED
    BY <1>3, <1>5, <1>6, <2>1, <2>2
<1>7. CASE ~Terminated(cur)
  <2>1. PICK V : Grows(c, W, x, V) /\ Fits(x, V, F) /\ Others(c, b, x)
    <3>1. b \in OpenBlocks(c) /\ IsGraph(c) /\ x = Emit(c, b, Br(y))
      BY <1>2, <1>3, <1>7
    <3>2. \A a, q : <<a, q>> \in F => a # b
      BY <1>1, <1>3, <1>5
    <3>3. <<y, l>> \in F
      BY <1>3
    <3>4. QED
      BY <1>4, <1>5, <3>1, <3>2, <3>3, JumpTo
  <2>2. Bare(x, Waits(Tail(todo)))
    <3>1. \A a \in Waits(Tail(todo)) : a \in DOMAIN c /\ a # b
      BY <1>2, <1>3
    <3>2. QED
      BY <1>5, <2>1, <3>1 DEF Bare, Others
  <2>3. QED
    BY <1>3, <2>1, <2>2
<1>8. QED
  BY <1>6, <1>7

LEMMA IfBuiltFollows == ASSUME CodeInv, FollowInv, IfBuilt PROVE FollowInv'
<1>1. pc = "build" /\ todo # <<>> /\ Here.task = "if built"
  BY DEF IfBuilt, AtTask, Here
<1>2. PICK W, D, d, e, H : Now(W, D, d, e, H)
  BY <1>1, NowIs
<1>3. Planned(Here, code, W, d, e) /\ d.sc = scope
  BY <1>1, <1>2, HandFacts
<1>4. returnFlag <=> Terminated(cur)
  BY <1>1, BuildFacts
<1>5. PICK y, x : y = Here.nextBB /\ x = IF Terminated(cur) THEN code ELSE Emit(code, cur, Br(y))
  OBVIOUS
<1>6. Pending(Here) = {y} /\ d.k = e.k /\ Resumed(Here, e) = e.k /\ e.sc = scope
  BY <1>1, <1>3, <1>5 DEF Pending, Planned, Resumed
<1>7. PICK V : /\ Grows(code, W, x, V) /\ Fits(x, V, {<<y, e.k>>} \cup H)
               /\ Bare(x, Waits(Tail(todo)))
  BY <1>1, <1>2, <1>5, <1>6, ResumeAtHand
<1>8. /\ fun' = fun /\ pc' = pc /\ blk' = blk /\ idx' = idx /\ todo' = Tail(todo)
      /\ code' = x /\ cur' = y /\ scope' = scope
  BY <1>4, <1>5 DEF IfBuilt, execVars
<1>9. /\ Grows(code, W, code', V) /\ Fits(code', V, {<<cur', e.k>>} \cup H)
      /\ \A b \in Waits(Tail(todo)) : code'[b] = <<>>
      /\ scope' = e.sc
  BY <1>6, <1>7, <1>8 DEF Bare
<1>10. QED
  BY <1>1, <1>2, <1>8, <1>9, PopFollows

LEMMA BodyBuiltFollows == ASSUME CodeInv, FollowInv, BodyBuilt PROVE FollowInv'
<1>1. pc = "build" /\ todo # <<>> /\ Here.task = "body built"
  BY DEF BodyBuilt, AtTask, Here
<1>2. PICK W, D, d, e, H : Now(W, D, d, e, H)
  BY <1>1, NowIs
<1>3. /\ Planned(Here, code, W, d, e) /\ d.sc = scope
      /\ \A b \in Waits(Tail(todo)) : code[b] = <<>>
      /\ \A b, q : <<b, q>> \in H =>
           b \in Waits(Tail(todo)) /\ b # cur /\ b \in OpenBlocks(code)
      /\ Fits(code, W, {<<cur, d.k>>} \cup Leads(Here, e) \cup H)
  BY <1>1, <1>2, HandFacts
<1>4. /\ IsGraph(code) /\ OpenBlocks(code) \subseteq DOMAIN code
      /\ OpenBlocks(code) \ {cur} = Pending(Here) \cup Waits(Tail(todo))
      /\ TaskOK(Here, Statements[fun.void], Len(code))
      /\ Terminated(cur) <=> cur \notin OpenBlocks(code)
  BY <1>1, BuildFacts
<1>5. PICK y, z, c, b, l, F, x :
        /\ y = Here.loopJudge /\ z = Here.out /\ c = code /\ b = cur /\ l = d.k
        /\ F = {<<z, e.k>>} \cup H
        /\ x = IF Terminated(cur) THEN code ELSE Emit(code, cur, Br(y))
  OBVIOUS
<1>6. /\ Pending(Here) = {z} /\ Leads(Here, e) = {<<z, e.k>>} /\ e.sc = scope
      /\ c[y] # <<>> /\ c[y][1].op # "br" /\ <<y, 1, l>> \in W /\ y \in 2..Len(c)
  <2>1. Pending(Here) = {z} /\ Resumed(Here, e) = e.k
    BY <1>1, <1>5 DEF Pending, Resumed
  <2>2. PICK h : h = Here
    OBVIOUS
  <2>3. h.task = "body built" /\ Planned(h, c, W, d, e) /\ y = h.loopJudge
    BY <1>1, <1>3, <1>5, <2>2
  <2>4. e.sc = d.sc /\ c[y] # <<>> /\ c[y][1].op # "br" /\ <<y, 1, l>> \in W
    BY <1>5, <2>3 DEF Planned
  <2>5. y \in 2..Len(c)
    <3>1. TaskOK(h, Statements[fun.void], Len(c))
      BY <1>4, <1>5, <2>2
    <3>2. QED
      BY <2>3, <3>1 DEF TaskOK
  <2>6. Leads(Here, e) = {<<z, e.k>>}
    BY <2>1 DEF Leads
  <2>7. QED
    BY <1>3, <2>1, <2>4, <2>5, <2>6
<1>7. Fits(c, W, {<<b, l>>} \cup F)
  <2>1. {<<cur, d.k>>} \cup Leads(Here, e) \cup H = {<<b, l>>} \cup F
    BY <1>5, <1>6
  <2>2. QED
    BY <1>3, <1>5, <2>1
<1>8. PICK V : Grows(c, W, x, V) /\ Fits(x, V, F) /\ Bare(x, Waits(Tail(todo)))
  <2>1. CASE Terminated(cur)
    <3>1. Fits(c, W, F)
      <4>1. b \notin OpenBlocks(c) /\ F \subseteq F
        BY <1>4, <1>5, <2>1
      <4>2. QED
        BY <1>7, <4>1, ClosedFits
    <3>2. Grows(c, W, c, W)
      BY DEF Grows
    <3>3. QED
      BY <1>3, <1>5, <2>1, <3>1, <3>2 DEF Bare
  <2>2. CASE ~Terminated(cur)
    <3>1. PICK V : Grows(c, W, x, V) /\ Fits(x, V, F) /\ Others(c, b, x)
      <4>1. b \in OpenBlocks(c) /\ IsGraph(c) /\ x = Emit(c, b, Br(y))
        BY <1>4, <1>5, <2>2
      <4>2. \A a, q : <<a, q>> \in F => a # b
        BY <1>3, <1>4, <1>5, <1>6
      <4>3. QED
        BY <1>6, <1>7, <4>1, <4>2, JumpBack
    <3>2. Bare(x, Waits(Tail(todo)))
      <4>1. \A a \in Waits(Tail(todo)) : a \in DOMAIN c /\ a # b /\ c[a] = <<>>
        BY <1>3, <1>4, <1>5
      <4>2. QED
        BY <3>1, <4>1 DEF Bare, Others
    <3>3. QED
      BY <3>1, <3>2
  <2>3. QED
    BY <2>1, <2>2
<1>9. /\ fun' = fun /\ pc' = pc /\ blk' = blk /\ idx' = idx /\ todo' = Tail(todo)
      /\ code' = x /\ cur' = z /\ scope' = scope
  BY <1>5 DEF BodyBuilt, execVars
<1>10. /\ Grows(code, W, code', V) /\ Fits(code', V, {<<cur', e.k>>} \cup H)
       /\ \A a \in Waits(Tail(todo)) : code'[a] = <<>>
       /\ scope' = e.sc
  BY <1>5, <1>6, <1>8, <1>9 DEF Bare
<1>11. QED
  BY <1>1, <1>2, <1>9, <1>10, PopFollows

LEMMA ThenBuiltFollows == ASSUME CodeInv, FollowInv, ThenBuilt PROVE FollowInv'
<1>1. pc = "build" /\ todo # <<>> /\ Here.task = "then built"
  BY DEF ThenBuilt, AtTask, Here
<1>2. PICK W, D, d, e, H : Now(W, D, d, e, H)
  BY <1>1, NowIs
<1>3. /\ Planned(Here, code, W, d, e) /\ d.sc = scope
      /\ \A b \in Waits(Tail(todo)) : code[b] = <<>>
      /\ \A b, q : <<b, q>> \in H =>
           b \in Waits(Tail(todo)) /\ b # cur /\ b \in OpenBlocks(code)
      /\ Fits(code, W, {<<cur, d.k>>} \cup Leads(Here, e) \cup H)
  BY <1>1, <1>2, HandFacts
<1>4. /\ IsGraph(code) /\ OpenBlocks(code) \subseteq DOMAIN code
      /\ OpenBlocks(code) \ {cur} = Pending(Here) \cup Waits(Tail(todo))
      /\ Terminated(cur) <=> cur \notin OpenBlocks(code)
  BY <1>1, BuildFacts
<1>5. PICK next, c, b, l : next = Here.nextBB /\ c = code /\ b = cur /\ l = e.k
  OBVIOUS
<1>6. /\ Pending(Here) = {next} \ {0} /\ d.k = e.k /\ Resumed(Here, e) = e.k /\ e.sc = scope
  BY <1>1, <1>3, <1>5 DEF Pending, Planned, Resumed
<1>7. /\ fun' = fun /\ pc' = pc /\ blk' = blk /\ idx' = idx /\ todo' = Tail(todo)
      /\ scope' = scope
  BY DEF ThenBuilt, execVars
<1>8. \E V : /\ Grows(code, W, code', V) /\ Fits(code', V, {<<cur', l>>} \cup H)
             /\ Bare(code', Waits(Tail(todo)))
  <2>1. CASE next # 0
    <3>1. PICK x : x = IF Terminated(cur) THEN code ELSE Emit(code, cur, Br(next))
      OBVIOUS
    <3>2. PICK V : /\ Grows(code, W, x, V) /\ Fits(x, V, {<<next, e.k>>} \cup H)
                   /\ Bare(x, Waits(Tail(todo)))
      <4>1. Pending(Here) = {next}
        BY <1>6, <2>1
      <4>2. QED
        BY <1>1, <1>2, <1>6, <3>1, <4>1, ResumeAtHand
    <3>3. code' = x /\ cur' = next
      BY <1>5, <2>1, <3>1 DEF ThenBuilt
    <3>4. QED
      BY <1>5, <3>2, <3>3
  <2>2. CASE next = 0
    <3>1. Fits(c, W, {<<b, l>>} \cup H)
      <4>1. {<<cur, d.k>>} \cup Leads(Here, e) \cup H = {<<b, l>>} \cup H
        BY <1>5, <1>6, <2>2 DEF Leads
      <4>2. QED
        BY <1>3, <1>5, <4>1
    <3>2. CASE Terminated(cur)
      <4>1. code' = c /\ cur' = b
        BY <1>5, <2>2, <3>2 DEF ThenBuilt
      <4>2. Grows(c, W, c, W)
        BY DEF Grows
      <4>3. QED
        BY <1>3, <1>5, <3>1, <4>1, <4>2 DEF Bare
    <3>3. CASE ~Terminated(cur)
      <4>1. PICK y, x : y = Len(code) + 1 /\ x = Emit(NewBlocks(code, 1), cur, Br(y))
        OBVIOUS
      <4>2. code' = x /\ cur' = y
        BY <1>5, <2>2, <3>3, <4>1 DEF ThenBuilt
      <4>3. PICK V : /\ Grows(c, W, x, V) /\ Fits(x, V, {<<y, l>>} \cup H)
                     /\ Others(c, b, x) /\ Bare(x, {y})
        <5>1. b \in OpenBlocks(c) /\ IsGraph(c) /\ y = Len(c) + 1 /\ x = Emit(NewBlocks(c, 1), b, Br(y))
          BY <1>4, <1>5, <3>3, <4>1
        <5>2. \A a, q : <<a, q>> \in H => a # b
          BY <1>3, <1>5
        <5>3. PICK F : F = H
          OBVIOUS
        <5>4. Fits(c, W, {<<b, l>>} \cup F) /\ \A a, q : <<a, q>> \in F => a # b
          BY <3>1, <5>2, <5>3
        <5>5. \E V : /\ Grows(c, W, x, V) /\ Fits(x, V, {<<y, l>>} \cup F)
                     /\ Others(c, b, x) /\ Bare(x, {y})
          BY <5>1, <5>4, JumpNew
        <5>6. QED
          BY <5>3, <5>5
      <4>4. Bare(x, Waits(Tail(todo)))
        <5>1. \A a \in Waits(Tail(todo)) : a \in DOMAIN c /\ a # b /\ c[a] = <<>>
          BY <1>3, <1>4, <1>5
        <5>2. QED
          BY <4>3, <5>1 DEF Bare, Others
      <4>5. QED
        BY <1>5, <4>2, <4>3, <4>4
    <3>4. QED
      BY <3>2, <3>3
  <2>3. QED
    BY <2>1, <2>2
<1>9. PICK V : /\ Grows(code, W, code', V) /\ Fits(code', V, {<<cur', l>>} \cup H)
               /\ Bare(code', Waits(Tail(todo)))
  BY <1>8
<1>10. /\ Fits(code', V, {<<cur', e.k>>} \cup H)
       /\ \A a \in Waits(Tail(todo)) : code'[a] = <<>>
       /\ scope' = e.sc
  BY <1>5, <1>6, <1>7, <1>9 DEF Bare
<1>11. QED
  BY <1>1, <1>2, <1>7, <1>9, <1>10, PopFollows

LEMMA ElseBuiltFollows == ASSUME CodeInv, FollowInv, ElseBuilt PROVE FollowInv'
<1>1. pc = "build" /\ todo # <<>> /\ Here.task = "else built"
  BY DEF ElseBuilt, AtTask, Here
<1>2. PICK W, D, d, e, H : Now(W, D, d, e, H)
  BY <1>1, NowIs
<1>3. /\ Planned(Here, code, W, d, e) /\ d.sc = scope /\ IsSeq(e.k)
      /\ \A b \in Waits(Tail(todo)) : code[b] = <<>>
      /\ \A b \in Pending(Here) : code[b] = <<>>
      /\ \A b, q : <<b, q>> \in H =>
           b \in Waits(Tail(todo)) /\ b # cur /\ b \in OpenBlocks(code)
      /\ Fits(code, W, {<<cur, d.k>>} \cup Leads(Here, e) \cup H)
  BY <1>1, <1>2, HandFacts
<1>4. /\ IsGraph(code) /\ Len(code) \in Nat /\ OpenBlocks(code) \subseteq DOMAIN code
      /\ OpenBlocks(code) \ {cur} = Pending(Here) \cup Waits(Tail(todo))
      /\ Terminated(cur) <=> cur \notin OpenBlocks(code)
  BY <1>1, BuildFacts
<1>5. PICK c, b, l, y, s, j, F, t, r, n :
        /\ c = code /\ b = cur /\ l = e.k /\ y = Here.trueBB
        /\ s = Source(Here.stmt.node.then, Append(Here.stmt.path, 1), Env(e.sc))
        /\ j = Cons(s, l) /\ F = {<<y, j>>} \cup H
        /\ n = (IF Terminated(cur) THEN 0 ELSE Len(code) + 1)
        /\ t = Stmt(Here.stmt.node.then, Append(Here.stmt.path, 1))
        /\ r = [task |-> "then built", nextBB |-> n]
  OBVIOUS
<1>6. d.k = l /\ e.sc = scope /\ Pending(Here) = {y} /\ Leads(Here, e) = {<<y, j>>}
  <2>1. Pending(Here) = {y} /\ Resumed(Here, e) = j
    BY <1>1, <1>5 DEF Pending, Resumed
  <2>2. Leads(Here, e) = {<<y, j>>}
    BY <2>1 DEF Leads
  <2>3. d.k = e.k /\ e.sc = d.sc
    BY <1>1, <1>3 DEF Planned
  <2>4. QED
    BY <1>3, <1>5, <2>1, <2>2, <2>3
<1>7. Fits(c, W, {<<b, l>>} \cup F)
  <2>1. {<<cur, d.k>>} \cup Leads(Here, e) \cup H = {<<b, l>>} \cup F
    BY <1>5, <1>6
  <2>2. QED
    BY <1>3, <1>5, <2>1
<1>8. /\ y # b /\ (\A a, q : <<a, q>> \in F => a # b)
      /\ \A a \in {y} \cup Waits(Tail(todo)) : a \in DOMAIN c /\ a # b /\ c[a] = <<>>
  BY <1>3, <1>4, <1>5, <1>6
<1>9. /\ fun' = fun /\ pc' = pc /\ blk' = blk /\ idx' = idx /\ scope' = scope
      /\ cur' = y /\ todo' = <<t, r>> \o Tail(todo)
      /\ code' = IF Terminated(cur) THEN code ELSE Emit(NewBlocks(code, 1), cur, Br(n))
  BY <1>5 DEF ElseBuilt, execVars
<1>10. IsVisit(t) /\ IsRemainder(r) /\ Cons(Source(t.node, t.path, Env(e.sc)), e.k) = j
  <2>1. t.task = "stmt" /\ t.node = Here.stmt.node.then /\ t.path = Append(Here.stmt.path, 1)
    BY <1>5 DEF Stmt
  <2>2. r.task = "then built"
    BY <1>5
  <2>3. QED
    BY <1>5, <2>1, <2>2 DEF IsVisit, IsRemainder
<1>11. PICK G : G = {<<y, j>>} \cup Leads(r, e) \cup H
  OBVIOUS
<1>12. \E V : /\ Grows(code, W, code', V) /\ Fits(code', V, G)
              /\ Bare(code', Pending(r) \cup Waits(Tail(todo)))
  <2>1. r.task = "then built" /\ r.nextBB = n
    BY <1>5
  <2>2. Pending(r) = {n} \ {0} /\ Resumed(r, e) = l
    BY <1>5, <2>1 DEF Pending, Resumed
  <2>3. CASE Terminated(cur)
    <3>1. Pending(r) = {}
      BY <1>5, <2>2, <2>3
    <3>2. G = F
      BY <1>5, <1>11, <3>1 DEF Leads
    <3>3. Fits(c, W, F)
      <4>1. b \notin OpenBlocks(c) /\ F \subseteq F
        BY <1>4, <1>5, <2>3
      <4>2. QED
        BY <1>7, <4>1, ClosedFits
    <3>4. Grows(c, W, c, W)
      BY DEF Grows
    <3>5. QED
      BY <1>5, <1>8, <1>9, <2>3, <3>1, <3>2, <3>3, <3>4 DEF Bare
  <2>4. CASE ~Terminated(cur)
    <3>0. n = Len(c) + 1
      BY <1>5, <2>4
    <3>1. n # 0 /\ Pending(r) = {n}
      <4>1. Len(c) \in Nat
        BY <1>4, <1>5
      <4>2. n # 0
        BY <3>0, <4>1
      <4>3. QED
        BY <2>2, <4>2
    <3>2. Leads(r, e) = {<<n, l>>}
      BY <2>2, <3>1 DEF Leads
    <3>3. PICK x : x = Emit(NewBlocks(c, 1), b, Br(n))
      OBVIOUS
    <3>4. PICK V : /\ Grows(c, W, x, V) /\ Fits(x, V, {<<n, l>>} \cup F)
                   /\ Others(c, b, x) /\ Bare(x, {n})
      <4>1. b \in OpenBlocks(c) /\ IsGraph(c)
        BY <1>4, <1>5, <2>4
      <4>2. \A a, q : <<a, q>> \in F => a # b
        BY <1>8
      <4>3. \E V : /\ Grows(c, W, x, V) /\ Fits(x, V, {<<n, l>>} \cup F)
                   /\ Others(c, b, x) /\ Bare(x, {n})
        BY ONLY <1>7, <3>0, <3>3, <4>1, <4>2, JumpNew
      <4>4. QED
        BY <4>3
    <3>5. {<<n, l>>} \cup F = G
      BY <1>5, <1>11, <3>2
    <3>6. Bare(x, Pending(r) \cup Waits(Tail(todo)))
      BY <1>8, <3>1, <3>4 DEF Bare, Others
    <3>7. code' = x
      BY <1>5, <1>9, <2>4, <3>3
    <3>8. QED
      BY <1>5, <3>4, <3>5, <3>6, <3>7
  <2>5. QED
    BY <2>3, <2>4
<1>13. PICK V : /\ Grows(code, W, code', V) /\ Fits(code', V, G)
                /\ Bare(code', Pending(r) \cup Waits(Tail(todo)))
  BY <1>12
<1>14. Pushes(todo, e, t, r, todo', e, j, code', cur', V, H)
  <2>1. todo' = Joined(<<t, r>>, Tail(todo))
    BY <1>9 DEF Joined
  <2>2. \A a \in Pending(r) \cup Waits(Tail(todo)) : code'[a] = <<>>
    BY <1>13 DEF Bare
  <2>3. Fits(code', V, {<<cur', j>>} \cup Leads(r, e) \cup H)
    BY <1>9, <1>11, <1>13
  <2>4. Planned(r, code', V, e, e)
    <3>1. r.task = "then built"
      BY <1>5
    <3>2. QED
      BY <3>1 DEF Planned
  <2>5. QED
    BY <1>3, <1>10, <2>1, <2>2, <2>3, <2>4 DEF Pushes
<1>15. scope' = e.sc
  BY <1>6, <1>9
<1>16. QED
  BY <1>1, <1>2, <1>9, <1>13, <1>14, <1>15, PushFollows

(* A block that begins with a use: a branch back to it does what is left.   *)
Begun(c, b) == b \in DOMAIN c /\ c[b] # <<>> /\ c[b][1].op = "use"

LEMMA EvaluatedGrows ==
  ASSUME NEW c, IsGraph(c), NEW b \in OpenBlocks(c), NEW e, NEW path,
         NEW x, x = Evaluated(c, b, e, path).code, IsGraph(x), NEW W, NEW V, W \subseteq V
  PROVE  Grows(c, W, x, V) /\ Others(c, b, x) /\ (Bare(c, {b}) => Begun(x, b))
<1>1. PICK m, n : m = Len(c[b]) /\ n = Len(x[b])
  OBVIOUS
<1>2. Kept(c, b, x) /\ m < n /\ x[b][m + 1] = Use(path, Find(e.var))
  BY <1>1, EvaluatedKept
<1>3. b \in DOMAIN c /\ b \in DOMAIN x
  BY <1>2 DEF OpenBlocks, Kept
<1>4. /\ m \in Nat /\ n \in Nat /\ (c[b] # <<>> => m # 0) /\ (c[b] = <<>> => m = 0)
      /\ (x[b] = <<>> => n = 0)
  BY <1>1, <1>3, SeqFacts DEF IsGraph
<1>5. x[b] # <<>>
  BY <1>2, <1>4
<1>6. ASSUME NEW a \in DOMAIN c, c[a] # <<>> PROVE x[a] # <<>> /\ x[a][1] = c[a][1]
  <2>1. CASE a # b
    BY <1>2, <1>6, <2>1 DEF Kept
  <2>2. CASE a = b
    <3>1. 1 \in 1..m
      BY <1>4, <1>6, <2>2
    <3>2. QED
      BY <1>1, <1>2, <1>5, <2>2, <3>1 DEF Kept
  <2>3. QED
    BY <2>1, <2>2
<1>7. Grows(c, W, x, V)
  BY <1>2, <1>6 DEF Grows, Kept
<1>8. Others(c, b, x)
  BY <1>2 DEF Others, Kept
<1>9. Bare(c, {b}) => x[b][1].op = "use"
  <2>1. SUFFICES ASSUME Bare(c, {b}) PROVE x[b][1].op = "use"
    OBVIOUS
  <2>2. m + 1 = 1
    BY <1>4, <2>1 DEF Bare
  <2>3. x[b][1] = Use(path, Find(e.var))
    BY <1>2, <2>2
  <2>4. QED
    BY <2>3 DEF Use
<1>10. QED
  BY <1>3, <1>5, <1>7, <1>8, <1>9 DEF Begun

(* What is to do at the end of an empty block is to do at its beginning.    *)
LEMMA PlaceFits ==
  ASSUME NEW c, IsGraph(c), NEW W, NEW F, Fits(c, W, F),
         NEW y \in OpenBlocks(c), Bare(c, {y}), NEW l, IsSeq(l), <<y, l>> \in F
  PROVE  \E V : W \subseteq V /\ <<y, 1, l>> \in V /\ Fits(c, V, F)
<1>1. PICK V : V = W \cup {<<y, 1, l>>}
  OBVIOUS
<1>2. y \in DOMAIN c /\ Len(c[y]) = 0 /\ Len(c[y]) + 1 = 1 /\ 1 \in 1..1
  BY DEF OpenBlocks, Bare
<1>3. ASSUME NEW a, NEW i, NEW q, <<a, i, q>> \in V
      PROVE  /\ a \in DOMAIN c /\ i \in 1..(Len(c[a]) + 1) /\ IsSeq(q)
             /\ i # Len(c[a]) + 1 => Matches(c, V, a, i, q)
             /\ i = Len(c[a]) + 1 =>
                  /\ a \in OpenBlocks(c)
                  /\ <<a, q>> \in F \/ (IsStmt(q) /\ <<a, i, Unfolded(q)>> \in V)
  <2>1. CASE <<a, i, q>> \notin W
    <3>1. a = y /\ i = 1 /\ q = l
      BY <1>1, <1>3, <2>1
    <3>2. QED
      BY <1>2, <3>1
  <2>2. CASE <<a, i, q>> \in W
    <3>1. /\ a \in DOMAIN c /\ i \in 1..(Len(c[a]) + 1) /\ IsSeq(q)
          /\ i # Len(c[a]) + 1 => Matches(c, W, a, i, q)
          /\ i = Len(c[a]) + 1 =>
               /\ a \in OpenBlocks(c)
               /\ <<a, q>> \in F \/ (IsStmt(q) /\ <<a, i, Unfolded(q)>> \in W)
      BY <2>2 DEF Fits
    <3>2. W \subseteq V
      BY <1>1
    <3>3. i # Len(c[a]) + 1 => Matches(c, V, a, i, q)
      BY ONLY <3>1, <3>2, MatchesMore
    <3>4. QED
      BY ONLY <3>1, <3>2, <3>3
  <2>3. QED
    BY <2>1, <2>2
<1>4. Fits(c, V, F)
  BY <1>3 DEF Fits
<1>5. QED
  BY <1>1, <1>4

(* The block a loop begins with, y, is still empty, as its body and the     *)
(* block after it, u and z.                                                 *)
Loop(g, V, H, y, u, z, S, k) ==
  /\ Fits(g, V, {<<y, k>>} \cup H) /\ <<y, 1, k>> \in V
  /\ IsGraph(g) /\ {y, u, z} \subseteq 2..Len(g) /\ y \in Reached(g)
  /\ OpenBlocks(g) = {y, u, z} \cup S
  /\ Bare(g, {y, u, z}) /\ Bare(g, S)
  /\ y \notin {u, z} \cup S /\ u # z
  /\ \A a, q : <<a, q>> \in H => a \in S

(* Before a loop: the branch to its first block                             *)
LEMMA WhileEnters ==
  ASSUME CodeInv, pc = "build", todo # <<>>, Here.task = "stmt", ~returnFlag,
         NEW W, NEW D, NEW d, NEW e, NEW H, Now(W, D, d, e, H), NEW l, l = d.k,
         NEW y, y = Len(code) + 1, NEW u, u = Len(code) + 2, NEW z, z = Len(code) + 3,
         NEW g, g = Emit(NewBlocks(code, 3), cur, Br(y)), NEW S, S = Waits(Tail(todo))
  PROVE  \E V : Grows(code, W, g, V) /\ Loop(g, V, H, y, u, z, S, l)
<1>1. /\ IsSeq(d.k)
      /\ \A b \in Waits(Tail(todo)) : code[b] = <<>>
      /\ \A b, q : <<b, q>> \in H =>
           b \in Waits(Tail(todo)) /\ b # cur /\ b \in OpenBlocks(code)
      /\ Fits(code, W, {<<cur, d.k>>} \cup Leads(Here, e) \cup H)
  BY HandFacts
<1>2. /\ IsGraph(code) /\ Reached(code) = DOMAIN code /\ Len(code) \in Nat
      /\ DOMAIN code = 1..Len(code) /\ cur \in OpenBlocks(code)
      /\ OpenBlocks(code) \subseteq DOMAIN code /\ 1 \in DOMAIN code
      /\ OpenBlocks(code) \ {cur} = Pending(Here) \cup Waits(Tail(todo))
  BY BuildFacts
<1>3. Leads(Here, e) = {} /\ Pending(Here) = {}
  BY DEF Leads, Pending
<1>4. PICK c, b, n, h, F : /\ c = code /\ b = cur /\ n = 3 /\ h = NewBlocks(c, n)
                           /\ F = {<<y, l>>} \cup H
  OBVIOUS
<1>5. /\ IsGraph(c) /\ n \in Nat /\ b \in OpenBlocks(c) /\ b \in DOMAIN c /\ Len(c) \in Nat
      /\ Reached(c) = DOMAIN c /\ DOMAIN c = 1..Len(c) /\ OpenBlocks(c) \subseteq DOMAIN c
      /\ OpenBlocks(c) = {b} \cup Waits(Tail(todo)) /\ b \notin Waits(Tail(todo))
  BY <1>2, <1>3, <1>4
<1>6. y = Len(c) + 1 /\ u = Len(c) + 2 /\ z = Len(c) + 3 /\ 1 \in 1..Len(c)
  BY <1>2, <1>4
<1>7. /\ (Len(c) + 1)..(Len(c) + n) = {y, u, z} /\ y # u /\ y # z /\ u # z
      /\ {y, u, z} \subseteq 2..(Len(c) + n)
      /\ y \notin DOMAIN c /\ u \notin DOMAIN c /\ z \notin DOMAIN c
  <2>1. PICK m : m = Len(c)
    OBVIOUS
  <2>2. m \in Nat /\ (m + 1)..(m + 3) = {m + 1, m + 2, m + 3}
    BY <1>5, <2>1
  <2>3. m + 1 # m + 2 /\ m + 1 # m + 3 /\ m + 2 # m + 3
    BY <2>2
  <2>4. {m + 1, m + 2, m + 3} \subseteq 2..(m + 3)
    BY <1>6, <2>1, <2>2
  <2>5. m + 1 \notin 1..m /\ m + 2 \notin 1..m /\ m + 3 \notin 1..m
    BY <2>2
  <2>6. QED
    BY <1>4, <1>5, <1>6, <2>1, <2>2, <2>3, <2>4, <2>5
<1>8. /\ IsGraph(h) /\ Len(h) = Len(c) + n /\ DOMAIN h = 1..(Len(c) + n)
      /\ OpenBlocks(h) = OpenBlocks(c) \cup {y, u, z} /\ Reached(c) \subseteq Reached(h)
  <2>1. /\ IsGraph(h) /\ Len(h) = Len(c) + n /\ DOMAIN h = 1..(Len(c) + n)
        /\ OpenBlocks(h) = OpenBlocks(c) \cup ((Len(c) + 1)..(Len(c) + n))
        /\ Reached(c) \subseteq Reached(h)
    BY <1>4, <1>5, NewBlocksGraph
  <2>2. QED
    BY <1>7, <2>1
<1>9. /\ \A a \in DOMAIN c : h[a] = c[a]
      /\ \A a \in {y, u, z} : h[a] = <<>>
  <2>1. /\ \A a \in DOMAIN c : h[a] = c[a]
        /\ \A a \in (Len(c) + 1)..(Len(c) + n) : h[a] = <<>>
    BY <1>4, <1>5, NewBlocksFacts
  <2>2. QED
    BY <1>7, <2>1
<1>10. Fits(h, W, {<<b, l>>} \cup F)
  <2>1. PICK K, M : K = {<<b, l>>} \cup H /\ M = {<<b, l>>} \cup F
    OBVIOUS
  <2>2. {<<cur, d.k>>} \cup Leads(Here, e) \cup H = K
    BY <1>3, <1>4, <2>1
  <2>3. Fits(c, W, K)
    BY <1>1, <1>4, <2>2
  <2>4. Fits(h, W, K)
    BY <1>4, <1>5, <2>3, NewBlocksFits
  <2>5. \A a, q : <<a, q>> \in K => <<a, q>> \in M
    BY <1>4, <2>1
  <2>6. Fits(h, W, M)
    BY <2>4, <2>5, FitsMore
  <2>7. QED
    BY <2>1, <2>6
<1>11. g = Emit(h, b, Br(y)) /\ b \in OpenBlocks(h) /\ y \in OpenBlocks(h) /\ y \in 2..Len(h)
       /\ y # b /\ Bare(h, {y}) /\ <<y, l>> \in F /\ \A a, q : <<a, q>> \in F => a # b
  BY <1>1, <1>4, <1>5, <1>7, <1>8, <1>9 DEF Bare
<1>12. PICK U : Grows(h, W, g, U) /\ Fits(g, U, F) /\ Others(h, b, g)
  BY ONLY <1>8, <1>10, <1>11, JumpTo
<1>13. /\ IsGraph(g) /\ Len(g) = Len(c) + n /\ DOMAIN g = DOMAIN h
       /\ OpenBlocks(g) = {y, u, z} \cup Waits(Tail(todo)) /\ y \in Reached(g)
  <2>1. PICK i : i = Br(y)
    OBVIOUS
  <2>2. Targets(i) = {y} /\ IsTerminator(i)
    BY <2>1, InstrFacts
  <2>3. Targets(i) \subseteq 2..Len(h)
    BY <1>11, <2>2
  <2>4. g = Emit(h, b, i)
    BY <1>11, <2>1
  <2>5. /\ IsGraph(g) /\ DOMAIN g = DOMAIN h /\ Len(g) = Len(h)
        /\ OpenBlocks(g) = IF IsTerminator(i) THEN OpenBlocks(h) \ {b} ELSE OpenBlocks(h)
        /\ Reached(h) \subseteq Reached(g)
        /\ b \in Reached(g) => Targets(i) \subseteq Reached(g)
    <3>1. IsGraph(h) /\ b \in OpenBlocks(h)
      BY <1>8, <1>11
    <3>2. PICK x : x = Emit(h, b, i)
      OBVIOUS
    <3>3. /\ IsGraph(x) /\ DOMAIN x = DOMAIN h /\ Len(x) = Len(h)
          /\ OpenBlocks(x) = IF IsTerminator(i) THEN OpenBlocks(h) \ {b} ELSE OpenBlocks(h)
          /\ Reached(h) \subseteq Reached(x)
          /\ b \in Reached(x) => Targets(i) \subseteq Reached(x)
      BY ONLY <2>3, <3>1, <3>2, EmitGraph
    <3>4. x = g
      BY <2>4, <3>2
    <3>5. QED
      BY <3>3, <3>4
  <2>6. b \in Reached(g)
    BY <1>5, <1>8, <2>5
  <2>7. b \notin {y, u, z}
    BY <1>5, <1>7
  <2>8. QED
    BY <1>5, <1>8, <2>2, <2>5, <2>6, <2>7
<1>14. Bare(g, {y, u, z}) /\ Bare(g, Waits(Tail(todo)))
  <2>1. \A a \in {y, u, z} : a # b /\ a \in DOMAIN h
    <3>1. {y, u, z} \subseteq OpenBlocks(h)
      BY <1>8
    <3>2. QED
      BY <1>5, <1>7, <3>1 DEF OpenBlocks
  <2>2. \A a \in Waits(Tail(todo)) : a # b /\ a \in DOMAIN h /\ a \in DOMAIN c /\ c[a] = <<>>
    <3>1. Waits(Tail(todo)) \subseteq OpenBlocks(h)
      BY <1>5, <1>8
    <3>2. QED
      BY <1>1, <1>4, <1>5, <3>1 DEF OpenBlocks
  <2>3. QED
    BY <1>9, <1>12, <2>1, <2>2 DEF Bare, Others
<1>15. PICK V : U \subseteq V /\ <<y, 1, l>> \in V /\ Fits(g, V, F)
  <2>1. y \in OpenBlocks(g) /\ Bare(g, {y}) /\ IsSeq(l) /\ <<y, l>> \in F /\ IsGraph(g)
    BY <1>1, <1>11, <1>13, <1>14 DEF Bare
  <2>2. QED
    BY ONLY <1>12, <2>1, PlaceFits
<1>16. Grows(code, W, g, V)
  <2>1. Grows(c, W, h, W)
    BY <1>4, <1>5, NewBlocksGrows
  <2>2. Grows(h, W, g, V)
    BY <1>12, <1>15 DEF Grows
  <2>3. QED
    BY <1>4, <2>1, <2>2, GrowsMore
<1>17. y \notin {u, z} \cup Waits(Tail(todo))
  BY <1>5, <1>7
<1>18. {y, u, z} \subseteq 2..Len(g)
  BY <1>7, <1>13
<1>19. \A a, q : <<a, q>> \in H => a \in S
  BY <1>1
<1>20. Loop(g, V, H, y, u, z, S, l)
  BY <1>4, <1>7, <1>13, <1>14, <1>15, <1>17, <1>18, <1>19 DEF Loop
<1>21. QED
  BY <1>16, <1>20

LEMMA TwoFirst ==
  ASSUME NEW s, NEW w, NEW R, IsSeq(R)
  PROVE  Joined(Append(<<s>>, w), R) = Cons(s, Cons(w, R)) /\ IsSeq(Cons(s, Cons(w, R)))
<1>1. IsSeq(<<s>>) /\ IsSeq(<<w>>)
  BY SingleFacts
<1>2. Append(<<s>>, w) = <<s>> \o <<w>>
  OBVIOUS
<1>3. (<<s>> \o <<w>>) \o R = <<s>> \o (<<w>> \o R)
  BY <1>1, ConcatAssoc
<1>4. IsSeq(Cons(w, R))
  BY ConsFacts DEF Cons
<1>5. IsSeq(Cons(s, Cons(w, R)))
  BY <1>4, ConsFacts DEF Cons
<1>6. QED
  BY <1>2, <1>3, <1>5 DEF Joined, Cons

(* It evaluates the condition; l is what there is to do after it, in b.     *)
Judged(g, V, H, y, u, z, S, c, b, l, U) ==
  /\ Grows(g, V, c, U) /\ Fits(c, U, {<<b, l>>} \cup H) /\ Begun(c, y)
  /\ IsGraph(c) /\ b \in OpenBlocks(c) /\ {u, z} \subseteq OpenBlocks(c)
  /\ b \notin {u, z} \cup S /\ Bare(c, {u, z} \cup S) /\ {u, z} \subseteq 2..Len(c)
  /\ S \subseteq DOMAIN c

LEMMA LoopTests ==
  ASSUME NEW g, NEW V, NEW H, NEW y, NEW u, NEW z, NEW S, NEW k, Loop(g, V, H, y, u, z, S, k),
         NEW w, NEW l, IsStmt(k), IsSeq(l), IsSeq(Unfolded(k)),
         Unfolded(k) = Joined(Evaluate(w), l),
         w.env[w.node.expr.var] = Find(w.node.expr.var),
         NEW done, done = Evaluated(g, y, w.node.expr, w.path),
         NEW c, c = done.code, NEW b, b = done.cur
  PROVE  \E U : Judged(g, V, H, y, u, z, S, c, b, l, U)
<1>1. /\ Fits(g, V, {<<y, k>>} \cup H)
      /\ IsGraph(g) /\ {y, u, z} \subseteq 2..Len(g) /\ y \in Reached(g)
      /\ OpenBlocks(g) = {y, u, z} \cup S
      /\ Bare(g, {y, u, z}) /\ Bare(g, S)
      /\ y \notin {u, z} \cup S /\ u # z
      /\ \A a, q : <<a, q>> \in H => a \in S
  BY DEF Loop
<1>2. PICK F, G : F = {<<y, k>>} \cup H /\ G = {<<b, l>>} \cup H
  OBVIOUS
<1>3. y \in OpenBlocks(g) /\ OpenBlocks(g) \subseteq DOMAIN g /\ Bare(g, {y})
  BY <1>1 DEF OpenBlocks, Bare
<1>4. /\ IsGraph(c) /\ Len(c) \in Nat /\ Len(g) \in Nat /\ Len(g) <= Len(c)
      /\ DOMAIN g = 1..Len(g)
      /\ OpenBlocks(c) = (OpenBlocks(g) \ {y}) \cup {b}
      /\ b = y \/ b \notin DOMAIN g
  <2>1. PICK e, path : e = w.node.expr /\ path = w.path
    OBVIOUS
  <2>2. done = Evaluated(g, y, e, path)
    BY <2>1
  <2>3. /\ IsGraph(done.code) /\ Len(done.code) \in Nat /\ Len(g) \in Nat
        /\ Len(g) <= Len(done.code) /\ DOMAIN g = 1..Len(g)
        /\ OpenBlocks(done.code) = (OpenBlocks(g) \ {y}) \cup {done.cur}
        /\ done.cur = y \/ done.cur \notin DOMAIN g
    BY <1>1, <1>3, <2>2, EvaluatedGraph
  <2>4. QED
    BY <2>3
<1>5. PICK U : V \subseteq U /\ Fits(c, U, G)
  <2>1. Fits(g, V, F) /\ (\A q : <<y, q>> \in F => q = k) /\ IsGraph(g)
        /\ (\A a, q : <<a, q>> \in F => a \in DOMAIN g)
        /\ (\A a, q : <<a, q>> \in F /\ a # y => <<a, q>> \in G)
    BY <1>1, <1>2, <1>3
  <2>2. <<Evaluated(g, y, w.node.expr, w.path).cur, l>> \in G
    BY <1>2
  <2>3. \E U : V \subseteq U /\ Fits(Evaluated(g, y, w.node.expr, w.path).code, U, G)
    BY <1>3, <2>1, <2>2, StmtFits
  <2>4. QED
    BY <2>3
<1>6. Grows(g, V, c, U) /\ Others(g, y, c) /\ Begun(c, y)
  <2>1. PICK e, path : e = w.node.expr /\ path = w.path
    OBVIOUS
  <2>2. c = Evaluated(g, y, e, path).code
    BY <2>1
  <2>3. IsGraph(g) /\ y \in OpenBlocks(g) /\ IsGraph(c) /\ V \subseteq U /\ Bare(g, {y})
    BY <1>1, <1>3, <1>4, <1>5
  <2>4. QED
    BY ONLY <2>2, <2>3, EvaluatedGrows
<1>7. b \in OpenBlocks(c) /\ {u, z} \subseteq OpenBlocks(c) /\ S \subseteq DOMAIN c
  <2>1. S \subseteq OpenBlocks(c)
    BY <1>1, <1>4
  <2>2. QED
    BY <1>1, <1>4, <2>1 DEF OpenBlocks
<1>8. b \notin {u, z} \cup S
  BY <1>1, <1>3, <1>4
<1>9. Bare(c, {u, z} \cup S)
  BY <1>1, <1>3, <1>6 DEF Bare, Others
<1>10. {u, z} \subseteq 2..Len(c)
  <2>1. 2..Len(g) \subseteq 2..Len(c)
    BY <1>4
  <2>2. QED
    BY <1>1, <2>1
<1>11. Fits(c, U, {<<b, l>>} \cup H)
  BY <1>2, <1>5
<1>12. QED
  BY <1>4, <1>6, <1>7, <1>8, <1>9, <1>10, <1>11 DEF Judged

LEMMA WhileFollows == ASSUME CodeInv, FollowInv, While PROVE FollowInv'
<1>1. pc = "build" /\ todo # <<>> /\ Here.task = "stmt" /\ Here.node.kind = "while" /\ ~returnFlag
  BY DEF While, AtStmt, AtTask, Here
<1>2. PICK W, D, d, e, H : Now(W, D, d, e, H)
  BY <1>1, NowIs
<1>3. PICK w, s, y, u, z, g, done, x, R, l, j, t, r, f, S :
        /\ w = Source(Here.node, Here.path, Env(scope))
        /\ s = Source(Here.node.body, Append(Here.path, 1), Env(scope))
        /\ y = Len(code) + 1 /\ u = Len(code) + 2 /\ z = Len(code) + 3
        /\ g = Emit(NewBlocks(code, 3), cur, Br(y))
        /\ done = Evaluated(g, y, Here.node.expr, Here.path)
        /\ x = Emit(done.code, done.cur, CondBr(Here.path, u, z))
        /\ R = e.k /\ l = Joined(After(w), R) /\ j = Cons(s, d.k)
        /\ t = Stmt(Here.node.body, Append(Here.path, 1))
        /\ r = [task |-> "body built", loopJudge |-> y, out |-> z]
        /\ f = [k |-> d.k, sc |-> e.sc]
        /\ S = Waits(Tail(todo))
  OBVIOUS
<1>4. /\ w.node = Here.node /\ w.path = Here.path /\ w.env = Env(scope)
      /\ d.k = Cons(w, R) /\ e.sc = scope /\ IsSeq(R) /\ IsStmt(d.k)
      /\ Unfolded(d.k) = Joined(Evaluate(w), l) /\ IsSeq(Unfolded(d.k)) /\ IsSeq(l)
      /\ Here.node.expr.var \in Names
  <2>0. w = Source(Here.node, Here.path, Env(scope)) /\ Here.node.kind \in {"if", "ifelse", "while"}
    BY <1>1, <1>3
  <2>1. /\ w.node = Here.node /\ w.path = Here.path /\ w.env = Env(scope)
        /\ d.k = Cons(w, e.k) /\ e.sc = scope /\ IsSeq(e.k) /\ IsStmt(d.k)
        /\ Unfolded(d.k) = Joined(Evaluate(w), Joined(After(w), e.k)) /\ IsSeq(Unfolded(d.k))
        /\ IsSeq(Joined(After(w), e.k)) /\ Here.node.expr.var \in Names
    BY <1>1, <1>2, <2>0, StmtPlan
  <2>2. QED
    BY <1>3, <2>1
<1>5. PICK k : k = d.k
  OBVIOUS
<1>6. (\A a, q : <<a, q>> \in H => a \in S) /\ IsSeq(k)
  BY <1>1, <1>2, <1>3, <1>5, HandFacts
<1>7. PICK V : Grows(code, W, g, V) /\ Loop(g, V, H, y, u, z, S, k)
  <2>1. /\ y = Len(code) + 1 /\ u = Len(code) + 2 /\ z = Len(code) + 3
        /\ g = Emit(NewBlocks(code, 3), cur, Br(y)) /\ S = Waits(Tail(todo))
    BY <1>3
  <2>2. QED
    BY <1>1, <1>2, <1>5, <2>1, WhileEnters
<1>8. PICK c, b : c = done.code /\ b = done.cur
  OBVIOUS
<1>9. PICK U : Judged(g, V, H, y, u, z, S, c, b, l, U)
  <2>1. w.env[w.node.expr.var] = Find(w.node.expr.var)
    BY <1>4 DEF Env, Find
  <2>2. done = Evaluated(g, y, w.node.expr, w.path)
    BY <1>3, <1>4
  <2>3. IsStmt(k) /\ IsSeq(l) /\ IsSeq(Unfolded(k)) /\ Unfolded(k) = Joined(Evaluate(w), l)
    BY <1>4, <1>5
  <2>4. QED
    BY ONLY <1>7, <1>8, <2>1, <2>2, <2>3, LoopTests
<1>10. /\ Grows(g, V, c, U) /\ Fits(c, U, {<<b, l>>} \cup H) /\ <<y, 1, k>> \in V
      /\ IsGraph(c) /\ b \in OpenBlocks(c) /\ {u, z} \subseteq OpenBlocks(c)
      /\ b \notin {u, z} \cup S /\ Bare(c, {u, z} \cup S) /\ {u, z} \subseteq 2..Len(c)
      /\ S \subseteq DOMAIN c
      /\ y \in DOMAIN c /\ c[y] # <<>> /\ c[y][1].op = "use"
  BY <1>7, <1>9 DEF Judged, Loop, Begun
<1>11. j = Cons(s, k) /\ IsSeq(j) /\ j = Joined(Append(<<s>>, w), R) /\ Joined(<<>>, R) = R
  <2>1. Joined(Append(<<s>>, w), R) = Cons(s, Cons(w, R)) /\ IsSeq(Cons(s, Cons(w, R)))
    BY <1>4, TwoFirst
  <2>2. Joined(<<>>, R) = R
    BY <1>4, JoinedFacts
  <2>3. j = Cons(s, k) /\ k = Cons(w, R)
    BY <1>3, <1>4, <1>5
  <2>4. QED
    BY <2>1, <2>2, <2>3
<1>12. PICK i : i = CondBr(Here.path, u, z)
  OBVIOUS
<1>13. x = Emit(c, b, i) /\ b \in DOMAIN c
  BY <1>3, <1>8, <1>10, <1>12 DEF OpenBlocks
<1>14. PICK X : U \subseteq X /\ Fits(x, X, {<<u, j>>, <<z, R>>} \cup H)
  <2>1. PICK p, q, path : p = Append(<<s>>, w) /\ q = <<>> /\ path = Here.path
    OBVIOUS
  <2>2. After(w) = Test(path, p, q)
    BY <1>1, <1>3, <1>4, <2>1 DEF After
  <2>3. Forks(l, path, p, q, R, j, R)
    BY <1>3, <1>4, <1>11, <2>1, <2>2 DEF Forks
  <2>4. /\ u \in OpenBlocks(c) /\ z \in OpenBlocks(c) /\ c[u] = <<>> /\ c[z] = <<>>
        /\ u # b /\ z # b /\ {u, z} \subseteq 2..Len(c)
        /\ \A a, h : <<a, h>> \in H => a # b
    BY <1>6, <1>10 DEF Bare
  <2>5. PICK k2 : k2 = R
    OBVIOUS
  <2>6. \E X : /\ U \subseteq X
               /\ Fits(Emit(c, b, CondBr(path, u, z)), X, {<<u, j>>, <<z, k2>>} \cup H)
    <3>1. Forks(l, path, p, q, R, j, k2)
      BY <2>3, <2>5
    <3>2. QED
      BY ONLY <1>10, <2>4, <3>1, CondBrFits
  <2>7. QED
    BY <1>12, <1>13, <2>1, <2>5, <2>6
<1>15. /\ x[y] # <<>> /\ x[y][1].op = "use" /\ y \in DOMAIN x /\ Grows(c, U, x, X)
       /\ Others(c, b, x)
  <2>1. Grows(c, U, x, X)
    BY <1>10, <1>13, <1>14, EmitGrows
  <2>2. Others(c, b, x)
    BY <1>10, <1>13, EmitFacts DEF Others
  <2>3. QED
    BY <1>10, <2>1, <2>2 DEF Grows
<1>16. Grows(code, W, x, X) /\ <<y, 1, k>> \in X
  <2>1. Grows(code, W, c, U)
    BY <1>7, <1>10, GrowsMore
  <2>2. Grows(code, W, x, X)
    BY <1>15, <2>1, GrowsMore
  <2>3. QED
    BY <1>7, <1>10, <1>14, <2>2 DEF Grows
<1>17. Bare(x, {z} \cup S)
  BY <1>10, <1>15 DEF Bare, Others, OpenBlocks
<1>18. /\ fun' = fun /\ pc' = pc /\ blk' = blk /\ idx' = idx /\ scope' = scope
       /\ cur' = u /\ todo' = <<t, r>> \o Tail(todo) /\ code' = x
  <2>1. ~Terminated(cur)
    BY <1>1, BuildFacts
  <2>2. QED
    BY <1>3, <2>1 DEF While, execVars
<1>19. /\ IsVisit(t) /\ IsRemainder(r) /\ Pending(r) = {z} /\ Leads(r, e) = {<<z, R>>}
       /\ f.k = k /\ f.sc = e.sc /\ Cons(Source(t.node, t.path, Env(e.sc)), f.k) = j
  <2>1. t.task = "stmt" /\ t.node = Here.node.body /\ t.path = Append(Here.path, 1)
    BY <1>3 DEF Stmt
  <2>2. r.task = "body built" /\ r.loopJudge = y /\ r.out = z
    BY <1>3
  <2>3. Pending(r) = {z} /\ Resumed(r, e) = R
    BY <1>3, <2>2 DEF Pending, Resumed
  <2>4. Leads(r, e) = {<<z, R>>}
    BY <2>3 DEF Leads
  <2>5. f.k = k /\ f.sc = e.sc
    BY <1>3, <1>5
  <2>6. QED
    BY <1>3, <1>4, <1>11, <2>1, <2>2, <2>3, <2>4, <2>5 DEF IsVisit, IsRemainder
<1>20. Planned(r, x, X, f, e)
  <2>1. r.task = "body built" /\ r.loopJudge = y
    BY <1>3
  <2>2. e.sc = f.sc /\ <<y, 1, f.k>> \in X
    BY <1>16, <1>19
  <2>3. QED
    BY <1>15, <2>1, <2>2 DEF Planned
<1>21. Pushes(todo, e, t, r, todo', f, j, code', cur', X, H)
  <2>1. todo' = Joined(<<t, r>>, Tail(todo))
    BY <1>18 DEF Joined
  <2>2. \A a \in Pending(r) \cup Waits(Tail(todo)) : code'[a] = <<>>
    BY <1>3, <1>17, <1>18, <1>19 DEF Bare
  <2>3. Fits(code', X, {<<cur', j>>} \cup Leads(r, e) \cup H)
    <3>1. {<<u, j>>, <<z, R>>} \cup H = {<<u, j>>} \cup Leads(r, e) \cup H
      BY <1>19
    <3>2. QED
      BY <1>14, <1>18, <3>1
  <2>4. Planned(r, code', X, f, e)
    BY <1>18, <1>20
  <2>5. IsSeq(f.k)
    BY <1>6, <1>19
  <2>6. QED
    BY <1>19, <2>1, <2>2, <2>3, <2>4, <2>5 DEF Pushes
<1>22. Grows(code, W, code', X) /\ scope' = e.sc
  BY <1>4, <1>16, <1>18
<1>23. QED
  BY <1>1, <1>2, <1>18, <1>21, <1>22, PushFollows

(* What is left of a list after its first a elements                        *)
Rest(J, a) == [i \in 1..(Len(J) - a) |-> J[i + a]]

LEMMA RestFacts ==
  ASSUME NEW J, IsSeq(J), NEW a \in 0..Len(J)
  PROVE  /\ IsSeq(Rest(J, a)) /\ Len(Rest(J, a)) = Len(J) - a
         /\ \A i \in 1..(Len(J) - a) : Rest(J, a)[i] = J[i + a]
<1>1. PICK n, s : n = Len(J) - a /\ s = Rest(J, a)
  OBVIOUS
<1>2. Len(J) \in Nat
  BY SeqFacts
<1>3. n \in Nat
  BY <1>1, <1>2
<1>4. s = [i \in 1..n |-> J[i + a]]
  BY <1>1 DEF Rest
<1>5. IsSeq(s) /\ Len(s) = n
  <2> DEFINE R == {J[i + a] : i \in 1..n}
  <2>1. s \in [1..n -> R]
    BY <1>4
  <2> HIDE DEF R
  <2>2. s \in Seq(R) /\ Len(s) = n
    BY <1>3, <2>1
  <2>3. QED
    BY <2>2, SeqIsSeq
<1>7. \A i \in 1..n : s[i] = J[i + a]
  BY <1>4
<1>8. QED
  BY <1>1, <1>5, <1>7

LEMMA RestAll == ASSUME NEW J, IsSeq(J) PROVE Rest(J, 0) = J
<1>1. Len(J) \in Nat /\ 0 \in 0..Len(J) /\ Len(J) - 0 = Len(J)
  BY SeqFacts
<1>2. /\ IsSeq(Rest(J, 0)) /\ Len(Rest(J, 0)) = Len(J)
      /\ \A i \in 1..Len(J) : Rest(J, 0)[i] = J[i + 0]
  BY <1>1, RestFacts
<1>3. \A i \in 1..Len(Rest(J, 0)) : Rest(J, 0)[i] = J[i]
  BY <1>2
<1>4. QED
  BY <1>2, <1>3, SameSeq

LEMMA RestCons ==
  ASSUME NEW J, IsSeq(J), NEW a \in Nat, a + 1 \in 0..Len(J)
  PROVE  Rest(J, a) = Cons(J[a + 1], Rest(J, a + 1))
<1>1. PICK n, s, t, u, x : /\ n = Len(J) - a /\ s = Rest(J, a) /\ t = Rest(J, a + 1)
                           /\ u = Cons(x, t) /\ x = J[a + 1]
  OBVIOUS
<1>2. Len(J) \in Nat
  BY SeqFacts
<1>3. n \in Nat \ {0} /\ a \in 0..Len(J) /\ Len(J) - (a + 1) = n - 1
  BY <1>1, <1>2
<1>4. IsSeq(s) /\ Len(s) = n /\ \A i \in 1..n : s[i] = J[i + a]
  BY <1>1, <1>3, RestFacts
<1>5. IsSeq(t) /\ Len(t) = n - 1 /\ \A i \in 1..(n - 1) : t[i] = J[i + (a + 1)]
  BY <1>1, <1>3, RestFacts
<1>6. /\ IsSeq(u) /\ u # <<>> /\ Head(u) = x /\ Tail(u) = t
  <2>1. u = <<x>> \o t
    BY <1>1 DEF Cons
  <2>2. IsSeq(t)
    BY <1>5
  <2>3. QED
    BY ONLY <2>1, <2>2, ConsFacts
<1>7. /\ Len(u) \in Nat \ {0} /\ u[1] = x /\ n - 1 = Len(u) - 1
      /\ \A i \in 1..(Len(u) - 1) : t[i] = u[i + 1]
  <2>1. /\ Len(Tail(u)) = Len(u) - 1 /\ Head(u) = u[1]
        /\ \A i \in 1..(Len(u) - 1) : Tail(u)[i] = u[i + 1]
    BY <1>6, TailFacts
  <2>2. Len(u) \in Nat \ {0}
    BY <1>6, SeqFacts
  <2>3. QED
    BY <1>5, <1>6, <2>1, <2>2
<1>8. Len(u) = n
  BY <1>3, <1>7
<1>9. ASSUME NEW i \in 1..n PROVE s[i] = u[i]
  <2>1. CASE i = 1
    <3>1. i + a = a + 1 /\ 1 \in 1..n
      BY <1>3, <2>1
    <3>2. QED
      BY <1>1, <1>4, <1>7, <2>1, <3>1
  <2>2. CASE i # 1
    <3>1. i - 1 \in 1..(n - 1) /\ (i - 1) + 1 = i /\ (i - 1) + (a + 1) = i + a
      BY <1>3, <2>2
    <3>2. u[i] = t[i - 1]
      BY <1>7, <1>8, <3>1
    <3>3. QED
      BY <1>4, <1>5, <3>1, <3>2
  <2>3. QED
    BY <2>1, <2>2
<1>10. s = u
  BY <1>4, <1>6, <1>8, <1>9, SameSeq
<1>11. QED
  BY <1>1, <1>10

LEMMA RestJoined ==
  ASSUME NEW I, IsSeq(I), NEW R, IsSeq(R), NEW J, J = Joined(I, R)
  PROVE  /\ IsSeq(J) /\ Len(I) \in 0..Len(J) /\ Rest(J, Len(I)) = R
         /\ \A i \in 1..Len(I) : J[i] = I[i]
<1>1. PICK n, m : n = Len(I) /\ m = Len(R)
  OBVIOUS
<1>2. n \in Nat /\ m \in Nat
  BY <1>1, SeqFacts
<1>3. /\ IsSeq(J) /\ Len(J) = n + m
      /\ \A i \in 1..n : J[i] = I[i]
      /\ \A i \in 1..m : J[n + i] = R[i]
  BY <1>1, ConcatFacts DEF Joined
<1>4. n \in 0..Len(J) /\ Len(J) - n = m
  BY <1>2, <1>3
<1>5. /\ IsSeq(Rest(J, n)) /\ Len(Rest(J, n)) = m
      /\ \A i \in 1..m : Rest(J, n)[i] = J[i + n]
  BY <1>3, <1>4, RestFacts
<1>6. \A i \in 1..m : Rest(J, n)[i] = R[i]
  <2>1. \A i \in 1..m : i + n = n + i
    BY <1>2
  <2>2. QED
    BY <1>3, <1>5, <2>1
<1>7. Rest(J, n) = R
  BY <1>1, <1>5, <1>6, SameSeq
<1>8. QED
  BY <1>1, <1>3, <1>4, <1>7

LEMMA BlockItems ==
  ASSUME NEW w, w.node.kind = "block", NEW env,
         env = [x \in Names |-> IF x \in ToSet(w.node.decls) THEN w.path ELSE w.env[x]]
  PROVE  Items(w) = [i \in 1..Len(w.node.stmts) |->
                       Source(w.node.stmts[i], Append(w.path, i), env)]
BY DEF Items, Source

(* The tasks a block gives way to, and the plan of them                     *)
BlockTasks(n, T, x, pre, I, e, J, sd) ==
  /\ IsSeq(T) /\ Len(T) = n /\ x.task = "exit scope" /\ pre = Joined(T, <<x>>)
  /\ IsSeq(I) /\ Len(I) = n /\ IsSeq(e.k) /\ J = Joined(I, e.k)
  /\ Front(sd) = e.sc /\ ScopeOK(sd)
  /\ \A i \in 1..n : T[i].task = "stmt" /\ I[i] = Source(T[i].node, T[i].path, Env(sd))

Unrolled(pre, Q, e, sd, J, c, W) ==
  /\ IsSeq(pre) /\ Waits(pre) = {} /\ Left(pre, Q) = {}
  /\ Q[0] = e /\ Q[Len(pre)].sc = sd /\ Q[Len(pre)].k = J
  /\ \A m \in 1..Len(pre) : IsSeq(Q[m].k) /\ ScopeOK(Q[m].sc)
  /\ \A m \in 1..Len(pre) : Planned(Job(pre, m), c, W, Q[m], Q[m - 1])

LEMMA BlockPlan ==
  ASSUME NEW n \in Nat, NEW T, NEW x, NEW pre, NEW I, NEW e, NEW J, NEW sd,
         BlockTasks(n, T, x, pre, I, e, J, sd), NEW c, NEW W
  PROVE  \E Q : Unrolled(pre, Q, e, sd, J, c, W)
<1>0. /\ IsSeq(T) /\ Len(T) = n /\ x.task = "exit scope" /\ pre = Joined(T, <<x>>)
      /\ IsSeq(I) /\ Len(I) = n /\ IsSeq(e.k) /\ J = Joined(I, e.k)
      /\ Front(sd) = e.sc /\ ScopeOK(sd)
      /\ \A i \in 1..n : T[i].task = "stmt" /\ I[i] = Source(T[i].node, T[i].path, Env(sd))
  BY DEF BlockTasks
<1>1. PICK R : R = e.k
  OBVIOUS
<1>2. IsSeq(J) /\ n \in 0..Len(J) /\ Rest(J, n) = R /\ \A i \in 1..n : J[i] = I[i]
  <2>1. IsSeq(I) /\ IsSeq(R) /\ J = Joined(I, R) /\ Len(I) = n
    BY <1>0, <1>1
  <2>2. QED
    BY <2>1, RestJoined
<1>3. PICK Q : Q = [m \in 0..(n + 1) |-> IF m = 0 THEN e ELSE [k |-> Rest(J, n + 1 - m), sc |-> sd]]
  OBVIOUS
<1>4. /\ Q[0] = e
      /\ \A m \in 1..(n + 1) : Q[m].k = Rest(J, n + 1 - m) /\ Q[m].sc = sd
  <2>1. 0 \in 0..(n + 1) /\ \A m \in 1..(n + 1) : m \in 0..(n + 1) /\ m # 0
    OBVIOUS
  <2>2. QED
    BY <1>3, <2>1
<1>5. IsSeq(<<x>>) /\ Len(<<x>>) = 1 /\ <<x>>[1] = x
  BY SingleFacts
<1>6. /\ IsSeq(pre) /\ Len(pre) = 1 + n
      /\ Job(pre, 1) = x /\ \A m \in 1..n : Job(pre, 1 + m) = T[n + 1 - m]
  <2>1. PICK z : z = <<x>>
    OBVIOUS
  <2>2. IsSeq(T) /\ IsSeq(z) /\ pre = Joined(T, z) /\ Len(z) = 1 /\ z[1] = x /\ Len(T) = n
    BY <1>0, <1>5, <2>1
  <2>3. /\ Len(pre) = Len(z) + Len(T)
        /\ \A m \in 1..Len(z) : Job(pre, m) = Job(z, m)
        /\ \A m \in 1..Len(T) : Job(pre, Len(z) + m) = Job(T, m)
    <3>1. IsSeq(T) /\ IsSeq(z) /\ pre = Joined(T, z)
      BY <2>2
    <3>2. QED
      BY ONLY <3>1, JobsConcat
  <2>4. Job(z, 1) = x
    <3>1. 1 + 1 - 1 = 1
      OBVIOUS
    <3>2. QED
      BY <2>2, <3>1 DEF Job
  <2>5. \A m \in 1..n : Job(T, m) = T[n + 1 - m]
    BY <1>0 DEF Job
  <2>6. IsSeq(pre)
    BY <2>2, WaitsJoined
  <2>7. 1 \in 1..1
    OBVIOUS
  <2>8. QED
    BY <2>2, <2>3, <2>4, <2>5, <2>6, <2>7
<1>7. ASSUME NEW m \in 1..Len(pre)
      PROVE  /\ IsSeq(Q[m].k) /\ ScopeOK(Q[m].sc)
             /\ Planned(Job(pre, m), c, W, Q[m], Q[m - 1])
             /\ Pending(Job(pre, m)) = {}
  <2>1. m \in 1..(n + 1) /\ n + 1 - m \in 0..n
    BY <1>6
  <2>2. Q[m].k = Rest(J, n + 1 - m) /\ Q[m].sc = sd
    BY <1>4, <2>1
  <2>3. IsSeq(Q[m].k)
    <3>1. n + 1 - m \in 0..Len(J)
      BY <1>2, <2>1
    <3>2. QED
      BY <1>2, <2>2, <3>1, RestFacts
  <2>4. ScopeOK(Q[m].sc)
    BY <1>0, <2>2
  <2>5. CASE m = 1
    <3>1. n + 1 - 1 = n /\ 1 - 1 = 0
      OBVIOUS
    <3>2. Q[1].k = R /\ Q[1].sc = sd /\ Q[1 - 1] = e
      BY <1>2, <1>4, <2>2, <2>5, <3>1
    <3>3. Planned(x, c, W, Q[1], Q[1 - 1])
      BY <1>0, <1>1, <3>2 DEF Planned
    <3>4. Pending(x) = {}
      BY <1>0 DEF Pending
    <3>5. QED
      BY <1>6, <2>3, <2>4, <2>5, <3>3, <3>4
  <2>6. CASE m # 1
    <3>1. PICK i, t : i = n + 1 - (m - 1) /\ t = T[i]
      OBVIOUS
    <3>2. /\ i \in 1..n /\ m - 1 \in 1..n /\ 1 + (m - 1) = m /\ m - 1 \in 1..(n + 1)
          /\ n + 1 - m = i - 1 /\ i - 1 \in Nat /\ (i - 1) + 1 = i
          /\ n + 1 - (m - 1) = i
      BY <2>1, <2>6, <3>1
    <3>3. Job(pre, m) = t
      BY <1>6, <3>1, <3>2
    <3>4. t.task = "stmt" /\ J[i] = Source(t.node, t.path, Env(sd))
      BY <1>0, <1>2, <3>1, <3>2
    <3>5. Q[m].k = Rest(J, i - 1) /\ Q[m - 1].k = Rest(J, i) /\ Q[m - 1].sc = sd
      BY <1>4, <2>2, <3>2
    <3>6. Rest(J, i - 1) = Cons(J[i], Rest(J, i))
      <4>1. (i - 1) + 1 \in 0..Len(J)
        BY <1>2, <3>2
      <4>2. Rest(J, i - 1) = Cons(J[(i - 1) + 1], Rest(J, (i - 1) + 1))
        BY <1>2, <3>2, <4>1, RestCons
      <4>3. QED
        BY <3>2, <4>2
    <3>7. Planned(t, c, W, Q[m], Q[m - 1])
      BY <2>2, <3>4, <3>5, <3>6 DEF Planned
    <3>8. Pending(t) = {}
      BY <3>4 DEF Pending
    <3>9. QED
      BY <2>3, <2>4, <3>3, <3>7, <3>8
  <2>7. QED
    BY <2>5, <2>6
<1>8. Q[Len(pre)].sc = sd /\ Q[Len(pre)].k = J
  <2>1. 1 + n \in 1..(n + 1) /\ n + 1 - (1 + n) = 0
    OBVIOUS
  <2>2. QED
    BY <1>2, <1>4, <1>6, <2>1, RestAll
<1>9. Left(pre, Q) = {}
  <2>1. \A m \in 1..Len(pre) : Leads(Job(pre, m), Q[m - 1]) = {}
    BY <1>7 DEF Leads
  <2>2. QED
    BY <2>1 DEF Left
<1>10. Waits(pre) = {}
  <2>1. DOMAIN pre = 1..Len(pre) /\ Len(pre) \in Nat
    BY <1>6, SeqFacts
  <2>2. ASSUME NEW i \in DOMAIN pre PROVE Pending(pre[i]) = {}
    <3>1. PICK m : m = Len(pre) + 1 - i
      OBVIOUS
    <3>2. m \in 1..Len(pre) /\ Len(pre) + 1 - m = i
      BY <2>1, <3>1
    <3>3. Job(pre, m) = pre[i]
      BY <3>2 DEF Job
    <3>4. QED
      BY <1>7, <3>2, <3>3
  <2>3. QED
    BY <2>2 DEF Waits
<1>11. QED
  BY <1>4, <1>6, <1>7, <1>8, <1>9, <1>10 DEF Unrolled

(* A step that puts the tasks of a block in its place                       *)
LEMMA BlockFollows ==
  ASSUME CodeInv, pc = "build", todo # <<>>,
         NEW W, NEW D, NEW d, NEW e, NEW H, Now(W, D, d, e, H),
         fun' = fun, pc' = pc, blk' = blk, idx' = idx, code' = code, cur' = cur,
         NEW n \in Nat, NEW T, NEW x, NEW pre, NEW I, NEW J, NEW sd,
         BlockTasks(n, T, x, pre, I, e, J, sd),
         scope' = sd, todo' = Joined(pre, Tail(todo)),
         NEW V, W \subseteq V, Fits(code, V, {<<cur, J>>} \cup H)
  PROVE  FollowInv'
<1>1. PICK s, c, cu, sc, t, u : /\ s = todo /\ c = code /\ cu = cur /\ sc = scope
                                /\ t = Tail(s) /\ u = todo'
  OBVIOUS
<1>2. /\ IsSeq(s) /\ s # <<>> /\ u = Joined(pre, t)
      /\ PlanOK(s, c, cu, sc, W, D) /\ <<1, 1, <<Root(fun)>>>> \in W
      /\ e = D[Len(s) - 1] /\ H = Left(t, D)
      /\ blk = 1 /\ idx = 1
  BY <1>1 DEF Now, CodeInv, BuildInv
<1>3. PICK Q : Unrolled(pre, Q, e, sd, J, c, V)
  <2>1. BlockTasks(n, T, x, pre, I, e, J, sd) /\ n \in Nat
    OBVIOUS
  <2>2. QED
    BY ONLY <2>1, BlockPlan
<1>4.          /\ IsSeq(pre) /\ Waits(pre) = {} /\ Left(pre, Q) = {}
               /\ Q[0] = e /\ Q[Len(pre)].sc = sd /\ Q[Len(pre)].k = J
               /\ \A m \in 1..Len(pre) : IsSeq(Q[m].k) /\ ScopeOK(Q[m].sc)
               /\ \A m \in 1..Len(pre) : Planned(Job(pre, m), c, V, Q[m], Q[m - 1])
  BY <1>3 DEF Unrolled
<1>5. IsSeq(t) /\ \A b \in Waits(t) : c[b] = <<>>
  <2>1. IsSeq(t)
    BY <1>1, <1>2, JobsHead
  <2>2. \A b \in Waits(t) : c[b] = <<>>
    BY <1>1, HandFacts
  <2>3. QED
    BY <2>1, <2>2
<1>6. Waits(u) = Waits(pre) \cup Waits(t)
  BY <1>2, <1>4, <1>5, WaitsJoined
<1>7. Fits(c, V, {<<cu, Q[Len(pre)].k>>} \cup Left(pre, Q) \cup Left(t, D))
  <2>1. {<<cu, Q[Len(pre)].k>>} \cup Left(pre, Q) \cup Left(t, D) = {<<cur, J>>} \cup H
    BY <1>1, <1>2, <1>4
  <2>2. QED
    BY <1>1, <2>1
<1>8. Replaces(s, D, pre, u, c, cu, sd, V, Q)
  <2>1. \A b \in Waits(pre) \cup Waits(t) : c[b] = <<>>
    BY <1>4, <1>5
  <2>2. QED
    BY <1>1, <1>2, <1>4, <1>6, <1>7, <2>1 DEF Replaces
<1>9. Grows(c, W, c, V)
  BY DEF Grows
<1>10. PICK E : PlanOK(u, c, cu, sd, V, E)
  BY <1>2, <1>8, <1>9, PlanStep
<1>11. PlanOK(todo', code', cur', scope', V, E) /\ <<1, 1, <<Root(fun')>>>> \in V
  BY <1>1, <1>2, <1>10
<1>12. QED
  BY <1>2, <1>11 DEF FollowInv, Builds

LEMMA CompoundFollows == ASSUME CodeInv, FollowInv, CompoundStmt PROVE FollowInv'
<1>1. pc = "build" /\ todo # <<>> /\ Here.task = "stmt" /\ Here.node.kind = "block" /\ ~returnFlag
  BY DEF CompoundStmt, AtStmt, AtTask, Here
<1>2. PICK W, D, d, e, H : Now(W, D, d, e, H)
  BY <1>1, NowIs
<1>3. PICK w, n, f, sd, T, x, pre, I, J :
        /\ w = Source(Here.node, Here.path, Env(scope))
        /\ n = Len(Here.node.stmts)
        /\ f = [y \in ToSet(Here.node.decls) |-> Here.path] /\ sd = Append(scope, f)
        /\ T = [i \in 1..n |-> Stmt(Here.node.stmts[i], Append(Here.path, i))]
        /\ x = [task |-> "exit scope"] /\ pre = T \o <<x>>
        /\ I = [i \in 1..n |-> Source(Here.node.stmts[i], Append(Here.path, i), Env(sd))]
        /\ J = Joined(I, e.k)
  OBVIOUS
<1>4. /\ w.node = Here.node /\ w.path = Here.path /\ w.env = Env(scope)
      /\ e.sc = scope /\ IsSeq(e.k) /\ IsStmt(d.k)
      /\ Unfolded(d.k) = Joined(Items(w), e.k)
  <2>1. w = Source(Here.node, Here.path, Env(scope))
    BY <1>3
  <2>2. QED
    BY <1>1, <1>2, <2>1, StmtPlan
<1>5. /\ Planned(Here, code, W, d, e) /\ d.sc = scope /\ ScopeOK(d.sc)
      /\ \A b, q : <<b, q>> \in H =>
           b \in Waits(Tail(todo)) /\ b # cur /\ b \in OpenBlocks(code)
      /\ Fits(code, W, {<<cur, d.k>>} \cup Leads(Here, e) \cup H)
  BY <1>1, <1>2, HandFacts
<1>6. /\ IsGraph(code) /\ cur \in OpenBlocks(code) /\ fun \in Functions
      /\ TaskOK(Here, Statements[fun.void], Len(code))
  BY <1>1, BuildFacts
<1>7. n \in Nat
  <2>1. Here.node.stmts \in Seq(Statements[fun.void])
    BY <1>1, <1>6, FunctionsAssumption DEF TaskOK
  <2>2. Len(Here.node.stmts) \in Nat
    BY ONLY <2>1
  <2>3. n = Len(Here.node.stmts)
    BY <1>3
  <2>4. QED
    BY <2>2, <2>3
<1>8. /\ ScopeOK(sd) /\ Front(sd) = scope
      /\ Env(sd) = [y \in Names |-> IF y \in ToSet(Here.node.decls) THEN Here.path ELSE Env(scope)[y]]
  <2>1. /\ ScopeOK(sd) /\ Front(sd) = scope
        /\ Env(sd) = [y \in Names |-> IF y \in DOMAIN f THEN f[y] ELSE Env(scope)[y]]
    <3>1. sd = Append(scope, f) /\ ScopeOK(scope)
      BY <1>3, <1>5
    <3>2. PICK sc : sc = scope
      OBVIOUS
    <3>3. ScopeOK(sc) /\ sd = Append(sc, f)
      BY <3>1, <3>2
    <3>4. /\ ScopeOK(Append(sc, f)) /\ Front(Append(sc, f)) = sc
          /\ Env(Append(sc, f)) = [y \in Names |-> IF y \in DOMAIN f THEN f[y] ELSE Env(sc)[y]]
      BY ONLY <3>3, EnvAppend
    <3>5. QED
      BY <3>2, <3>3, <3>4
  <2>2. DOMAIN f = ToSet(Here.node.decls) /\ \A y \in DOMAIN f : f[y] = Here.path
    BY <1>3
  <2>3. QED
    BY <2>1, <2>2
<1>9. Items(w) = I
  <2>1. PICK env : env = [y \in Names |-> IF y \in ToSet(w.node.decls) THEN w.path ELSE w.env[y]]
    OBVIOUS
  <2>2. env = Env(sd)
    BY <1>4, <1>8, <2>1
  <2>3. Items(w) = [i \in 1..Len(w.node.stmts) |->
                      Source(w.node.stmts[i], Append(w.path, i), env)]
    BY <1>1, <1>4, <2>1, BlockItems
  <2>4. QED
    BY <1>3, <1>4, <2>2, <2>3
<1>10. /\ IsSeq(T) /\ Len(T) = n /\ IsSeq(I) /\ Len(I) = n
       /\ \A i \in 1..n : T[i].task = "stmt" /\ I[i] = Source(T[i].node, T[i].path, Env(sd))
  <2> DEFINE A == {T[i] : i \in 1..n}
             B == {I[i] : i \in 1..n}
  <2>1. T \in [1..n -> A] /\ I \in [1..n -> B]
    BY <1>3
  <2>2. \A i \in 1..n : /\ T[i] = Stmt(Here.node.stmts[i], Append(Here.path, i))
                        /\ I[i] = Source(Here.node.stmts[i], Append(Here.path, i), Env(sd))
    BY <1>3
  <2>3. \A i \in 1..n : T[i].task = "stmt" /\ I[i] = Source(T[i].node, T[i].path, Env(sd))
    <3>1. ASSUME NEW i \in 1..n
          PROVE  T[i].task = "stmt" /\ I[i] = Source(T[i].node, T[i].path, Env(sd))
      <4>1. T[i] = Stmt(Here.node.stmts[i], Append(Here.path, i))
        BY <2>2
      <4>2. PICK t, a, p : t = T[i] /\ a = Here.node.stmts[i] /\ p = Append(Here.path, i)
        OBVIOUS
      <4>3. t = Stmt(a, p)
        BY <4>1, <4>2
      <4>4. t.task = "stmt" /\ t.node = a /\ t.path = p
        BY ONLY <4>3 DEF Stmt
      <4>5. t.task = "stmt" /\ t.node = Here.node.stmts[i] /\ t.path = Append(Here.path, i)
        BY <4>2, <4>4
      <4>6. I[i] = Source(t.node, t.path, Env(sd))
        BY <2>2, <4>5
      <4>7. QED
        BY <4>2, <4>5, <4>6
    <3>2. QED
      BY <3>1
  <2> HIDE DEF A, B
  <2>4. T \in Seq(A) /\ Len(T) = n /\ I \in Seq(B) /\ Len(I) = n
    BY <1>7, <2>1
  <2>5. IsSeq(T) /\ IsSeq(I)
    BY <2>4, SeqIsSeq
  <2>6. QED
    BY <2>3, <2>4, <2>5
<1>11. BlockTasks(n, T, x, pre, I, e, J, sd)
  <2>1. x.task = "exit scope" /\ pre = Joined(T, <<x>>)
    BY <1>3 DEF Joined
  <2>2. QED
    BY <1>3, <1>4, <1>8, <1>10, <2>1 DEF BlockTasks
<1>12. IsSeq(J)
  BY <1>3, <1>4, <1>10, RestJoined
<1>13. \E V : W \subseteq V /\ Fits(code, V, {<<cur, J>>} \cup H)
  <2>1. PICK c, b, k, F : c = code /\ b = cur /\ k = d.k /\ F = {<<b, k>>} \cup H
    OBVIOUS
  <2>2. Unfolded(k) = J /\ IsStmt(k)
    BY <1>3, <1>4, <1>9, <2>1
  <2>3. Fits(c, W, F)
    <3>1. Leads(Here, e) = {}
      BY <1>1 DEF Leads, Pending
    <3>2. {<<cur, d.k>>} \cup Leads(Here, e) \cup H = F
      BY <2>1, <3>1
    <3>3. QED
      BY <1>5, <2>1, <3>2
  <2>4. PICK V, G : /\ V = W \cup {<<b, Len(c[b]) + 1, Unfolded(k)>>}
                    /\ G = {h \in F : h[1] # b} \cup {<<b, Unfolded(k)>>}
    OBVIOUS
  <2>5. Fits(c, V, G)
    <3>1. IsGraph(c) /\ b \in OpenBlocks(c) /\ IsSeq(Unfolded(k)) /\ \A q : <<b, q>> \in F => q = k
      BY <1>5, <1>6, <1>12, <2>1, <2>2
    <3>2. QED
      BY <2>2, <2>3, <2>4, <3>1, UnfoldFits
  <2>6. Fits(c, V, {<<b, J>>} \cup H)
    <3>1. PICK M : M = {<<b, J>>} \cup H
      OBVIOUS
    <3>2. \A a, q : <<a, q>> \in G => <<a, q>> \in M
      BY <2>1, <2>2, <2>4, <3>1
    <3>3. QED
      BY <2>5, <3>1, <3>2, FitsMore
  <2>7. QED
    BY <2>1, <2>4, <2>6
<1>14. PICK V : W \subseteq V /\ Fits(code, V, {<<cur, J>>} \cup H)
  BY <1>13
<1>15. /\ fun' = fun /\ pc' = pc /\ blk' = blk /\ idx' = idx /\ code' = code /\ cur' = cur
       /\ scope' = sd /\ todo' = Joined(pre, Tail(todo))
  BY <1>3 DEF CompoundStmt, execVars, Joined
<1>16. QED
  BY <1>1, <1>2, <1>7, <1>11, <1>14, <1>15, BlockFollows

LEMMA UnfoldsSame == ASSUME NEW k PROVE Unfolds(k, k)
BY DEF Unfolds

LEMMA UnfoldsOn ==
  ASSUME NEW k, NEW l, Unfolds(k, l), IsStmt(l)
  PROVE  Unfolds(k, Unfolded(l))
BY DEF Unfolds

(****************************************************************************)
(* The first step and the last of the builder                               *)
(****************************************************************************)
LEMMA RootIsPlanned ==
  ASSUME NEW f \in Functions, NEW sc, sc = <<[x \in Names |-> Global]>>,
         NEW sd, sd = Append(sc, [x \in f.params |-> Param])
  PROVE  ScopeOK(sd) /\ Root(f) = Source(f.body, <<1>>, Env(sd))
<1>1. PICK g : g = [x \in f.params |-> Param]
  OBVIOUS
<1>2. ScopeOK(sc) /\ Env(sc) = [x \in Names |-> Global]
  BY RootEnv
<1>3. sd = Append(sc, g)
  BY <1>1
<1>4. ScopeOK(sd) /\ Env(sd) = [x \in Names |-> IF x \in DOMAIN g THEN g[x] ELSE Env(sc)[x]]
  BY <1>2, <1>3, EnvAppend
<1>5. DOMAIN g = f.params /\ \A x \in f.params : g[x] = Param
  BY <1>1
<1>6. Env(sd) = [x \in Names |-> IF x \in f.params THEN Param ELSE Global]
  BY <1>2, <1>4, <1>5
<1>7. QED
  BY <1>4, <1>6 DEF Root

LEMMA FirstPlan ==
  ASSUME NEW f, NEW g, g = <<<<>>>>, NEW p, NEW t, t = Stmt(f.body, p), NEW s, s = <<t>>,
         NEW sd, ScopeOK(sd), Root(f) = Source(f.body, p, Env(sd)),
         NEW W, W = {<<1, 1, <<Root(f)>>>>}
  PROVE  \E D : PlanOK(s, g, 1, sd, W, D)
<1>1. PICK w, l : w = Root(f) /\ l = <<w>>
  OBVIOUS
<1>2. IsSeq(l)
  BY <1>1, SingleFacts
<1>3. l = Cons(w, <<>>)
  <2>1. <<w>> \o <<>> = <<w>>
    BY <1>1, <1>2, NilConcat
  <2>2. QED
    BY <1>1, <2>1 DEF Cons
<1>4. t.task = "stmt" /\ t.node = f.body /\ t.path = p
  BY DEF Stmt
<1>5. /\ Len(s) = 1 /\ s[1] = t /\ Waits(s) = {}
  <2>1. Waits(<<t>>) = Pending(t) /\ Len(<<t>>) = 1 /\ <<t>>[1] = t
    BY SingleTask, SingleFacts
  <2>2. Pending(t) = {}
    BY <1>4 DEF Pending
  <2>3. QED
    BY <2>1, <2>2
<1>6. PICK D : D = [m \in {0, 1} |-> IF m = 0 THEN [k |-> <<>>, sc |-> sd]
                                     ELSE [k |-> l, sc |-> sd]]
  OBVIOUS
<1>7. D[0].k = <<>> /\ D[0].sc = sd /\ D[1].k = l /\ D[1].sc = sd
  BY <1>6
<1>8. 1..1 = {1} /\ 0..1 = {0, 1} /\ 1 + 1 - 1 = 1 /\ 1 - 1 = 0
  OBVIOUS
<1>9. Job(s, 1) = t
  BY <1>5, <1>8 DEF Job
<1>10. Planned(t, g, W, D[1], D[0])
  <2>1. D[1].k = Cons(Source(t.node, t.path, Env(D[1].sc)), D[0].k)
    BY <1>1, <1>3, <1>4, <1>7
  <2>2. QED
    BY <1>4, <1>7, <2>1 DEF Planned
<1>11. Left(s, D) = {}
  <2>1. Left(s, D) = UNION {Leads(Job(s, m), D[m - 1]) : m \in {1}}
    BY <1>5, <1>8 DEF Left
  <2>2. Leads(t, D[0]) = {}
    BY <1>4 DEF Leads, Pending
  <2>3. QED
    BY <1>8, <1>9, <2>1, <2>2
<1>12. /\ DOMAIN g = {1} /\ g[1] = <<>> /\ Len(g[1]) = 0 /\ OpenBlocks(g) = {1}
  <2>1. DOMAIN g = {1} /\ g[1] = <<>>
    BY SingleTask
  <2>2. Len(<<>>) = 0
    OBVIOUS
  <2>3. QED
    BY <2>1, <2>2 DEF OpenBlocks
<1>13. Fits(g, W, {<<1, l>>})
  <2> SUFFICES ASSUME NEW b, NEW i, NEW k, <<b, i, k>> \in W
               PROVE  /\ b \in DOMAIN g /\ i \in 1..(Len(g[b]) + 1) /\ IsSeq(k)
                      /\ i = Len(g[b]) + 1 /\ b \in OpenBlocks(g) /\ <<b, k>> \in {<<1, l>>}
    BY DEF Fits
  <2>1. b = 1 /\ i = 1 /\ k = l
    BY <1>1
  <2>2. 1 \in 1..(0 + 1) /\ 1 = 0 + 1
    OBVIOUS
  <2>3. QED
    BY <1>2, <1>12, <2>1, <2>2
<1>14. Fits(g, W, {<<1, D[Len(s)].k>>} \cup Left(s, D))
  <2>1. {<<1, D[Len(s)].k>>} \cup Left(s, D) = {<<1, l>>}
    BY <1>5, <1>7, <1>11
  <2>2. QED
    BY <1>13, <2>1
<1>15. \A m \in 0..Len(s) : IsSeq(D[m].k) /\ ScopeOK(D[m].sc)
  BY <1>2, <1>5, <1>7, <1>8, NilIsSeq
<1>16. \A m \in 1..Len(s) : Planned(Job(s, m), g, W, D[m], D[m - 1])
  BY <1>5, <1>8, <1>9, <1>10
<1>17. PlanOK(s, g, 1, sd, W, D)
  BY <1>5, <1>7, <1>14, <1>15, <1>16 DEF PlanOK
<1>18. QED
  BY <1>17

LEMMA StartFollows == ASSUME CodeInv, FollowInv, StartFunction PROVE FollowInv'
<1>1. pc = "start" /\ fun \in Functions
  BY DEF StartFunction, CodeInv
<1>2. scope = <<[x \in Names |-> Global]>> /\ blk = 1 /\ idx = 1
  BY <1>1 DEF FollowInv
<1>3. /\ fun' = fun /\ pc' = "build" /\ blk' = blk /\ idx' = idx
      /\ code' = <<<<>>>> /\ cur' = 1 /\ todo' = <<Stmt(fun.body, <<1>>)>>
      /\ scope' = Append(scope, [x \in fun.params |-> Param])
  BY DEF StartFunction, execVars
<1>4. PICK f, g, p, t, s, sc, sd, W :
        /\ f = fun /\ g = <<<<>>>> /\ p = <<1>> /\ t = Stmt(fun.body, <<1>>) /\ s = <<t>>
        /\ sc = scope /\ sd = Append(scope, [x \in fun.params |-> Param])
        /\ W = {<<1, 1, <<Root(fun)>>>>}
  OBVIOUS
<1>5. ScopeOK(sd) /\ Root(f) = Source(f.body, p, Env(sd))
  <2>1. f \in Functions /\ sc = <<[x \in Names |-> Global]>>
        /\ sd = Append(sc, [x \in f.params |-> Param])
    BY <1>1, <1>2, <1>4
  <2>2. ScopeOK(sd) /\ Root(f) = Source(f.body, <<1>>, Env(sd))
    BY <2>1, RootIsPlanned
  <2>3. QED
    BY <1>4, <2>2
<1>6. \E D : PlanOK(s, g, 1, sd, W, D)
  <2>1. g = <<<<>>>> /\ t = Stmt(f.body, p) /\ s = <<t>> /\ W = {<<1, 1, <<Root(f)>>>>}
    BY <1>4
  <2>2. QED
    BY ONLY <1>5, <2>1, FirstPlan
<1>7. PICK D : PlanOK(todo', code', cur', scope', W, D)
  BY <1>3, <1>4, <1>6
<1>8. <<1, 1, <<Root(fun')>>>> \in W
  BY <1>3, <1>4
<1>9. QED
  BY <1>2, <1>3, <1>7, <1>8 DEF FollowInv, Builds

LEMMA EndFollows == ASSUME CodeInv, FollowInv, EndFunction PROVE FollowInv'
<1>1. pc = "build" /\ todo = <<>>
  BY DEF EndFunction
<1>2. IsGraph(code) /\ cur \in DOMAIN code /\ (returnFlag <=> cur \notin OpenBlocks(code))
  BY <1>1 DEF CodeInv, BuildInv
<1>3. PICK W, D : PlanOK(todo, code, cur, scope, W, D) /\ <<1, 1, <<Root(fun)>>>> \in W
  BY <1>1 DEF FollowInv, Builds
<1>4. /\ fun' = fun /\ pc' = "exec" /\ blk' = 1 /\ idx' = 1
      /\ code' = (IF returnFlag THEN code ELSE Emit(code, cur, Ret))
      /\ cont' = <<Root(fun)>>
  BY <1>1 DEF EndFunction, FollowInv, Root, Source
<1>5. Fits(code, W, {<<cur, <<>>>>} \cup {})
  <2>1. Len(todo) = 0 /\ 1..0 = {}
    BY <1>1
  <2>2. Left(todo, D) = {}
    BY <2>1 DEF Left
  <2>3. D[Len(todo)].k = <<>>
    BY <1>3, <2>1 DEF PlanOK
  <2>4. {<<cur, D[Len(todo)].k>>} \cup Left(todo, D) = {<<cur, <<>>>>} \cup {}
    BY <2>2, <2>3
  <2>5. Fits(code, W, {<<cur, D[Len(todo)].k>>} \cup Left(todo, D))
    BY <1>3 DEF PlanOK
  <2>6. QED
    BY <2>4, <2>5
<1>6. Fits(code', W, {})
  <2>1. CASE returnFlag
    <3>1. PICK F, l, b : F = {} /\ l = <<>> /\ b = cur
      OBVIOUS
    <3>2. Fits(code, W, {<<b, l>>} \cup F) /\ b \notin OpenBlocks(code) /\ F \subseteq F
      BY <1>2, <1>5, <2>1, <3>1
    <3>3. Fits(code, W, F)
      BY <3>2, ClosedFits
    <3>4. QED
      BY <1>4, <2>1, <3>1, <3>3
  <2>2. CASE ~returnFlag
    <3>1. PICK c, b, x, l, F, G, N :
            /\ c = code /\ b = cur /\ x = Emit(code, cur, Ret) /\ l = <<>>
            /\ F = {<<cur, <<>>>>} \cup {} /\ G = {} /\ N = {}
      OBVIOUS
    <3>2. IsGraph(c) /\ b \in OpenBlocks(c) /\ b \in DOMAIN c /\ Fits(c, W, F) /\ x = Emit(c, b, Ret)
      BY <1>2, <1>5, <2>2, <3>1
    <3>3. x[b][Len(c[b]) + 1] = Ret
      BY <3>2, EmitFacts
    <3>4. Matches(x, W \cup N, b, Len(c[b]) + 1, l)
      <4>1. Matches(x, W \cup N, b, Len(c[b]) + 1, <<>>)
        BY <3>3, NilIsSeq, RetMatches
      <4>2. QED
        BY <3>1, <4>1
    <3>5. \A q : <<b, q>> \in F => q = l
      BY <3>1
    <3>6. Ret.op # "br" /\ Targets(Ret) \subseteq 2..Len(c)
      BY InstrFacts DEF Ret
    <3>7. \A a, q : <<a, q>> \in F /\ a # b => <<a, q>> \in G
      BY <3>1
    <3>8. \A n \in N : \E a, q : /\ n = <<a, Len(Emit(c, b, Ret)[a]) + 1, q>> /\ IsSeq(q)
                                 /\ a \in OpenBlocks(Emit(c, b, Ret)) /\ <<a, q>> \in G
      BY <3>1
    <3>9. Matches(Emit(c, b, Ret), W \cup N, b, Len(c[b]) + 1, l)
      BY <3>2, <3>4
    <3>10. Fits(Emit(c, b, Ret), W \cup N, G)
      BY <3>2, <3>5, <3>6, <3>7, <3>8, <3>9, EmitFits
    <3>11. W \cup N = W
      BY <3>1
    <3>12. QED
      BY <1>4, <2>2, <3>1, <3>10, <3>11
  <2>3. QED
    BY <2>1, <2>2
<1>7. Executes(code', blk', idx', cont')
  BY <1>3, <1>4, <1>6, UnfoldsSame DEF Executes
<1>8. QED
  BY <1>4, <1>7 DEF FollowInv

(****************************************************************************)
(* The blocks and the source side by side                                   *)
(****************************************************************************)
(* At an instruction other than a branch, a place paired with a statement   *)
(* is paired with what the statement unfolds to.                            *)
LEMMA UnfoldedPlace ==
  ASSUME NEW c, NEW W, Fits(c, W, {}), OpenBlocks(c) = {},
         NEW b, NEW i, NEW k, <<b, i, k>> \in W, c[b][i].op # "br",
         NEW l, Unfolds(k, l)
  PROVE  <<b, i, l>> \in W
<1>1. PICK S : S = {n[3] : n \in {m \in W : m = <<b, i, m[3]>>}}
  OBVIOUS
<1>2. \A q : q \in S <=> <<b, i, q>> \in W
  BY <1>1
<1>3. ASSUME NEW q \in S, IsStmt(q) PROVE Unfolded(q) \in S
  <2>1. <<b, i, q>> \in W
    BY <1>2, <1>3
  <2>2. Matches(c, W, b, i, q)
    BY <2>1 DEF Fits
  <2>3. <<b, i, Unfolded(q)>> \in W
    BY <1>3, <2>2 DEF Matches
  <2>4. QED
    BY <1>2, <2>3
<1>4. k \in S
  BY <1>2
<1>5. l \in S
  BY <1>3, <1>4 DEF Unfolds
<1>6. QED
  BY <1>2, <1>5

(* The place reached: its instruction, and what it is paired with *)
LEMMA Reaches ==
  ASSUME CodeInv, FollowInv, pc = "exec"
  PROVE  \E W, k : /\ Fits(code, W, {}) /\ <<blk, idx, k>> \in W /\ Unfolds(k, cont)
                   /\ Instr = code[blk][idx] /\ Matches(code, W, blk, idx, k)
                   /\ Instr.op # "br" => /\ <<blk, idx, cont>> \in W
                                         /\ Matches(code, W, blk, idx, cont)
<1>1. IsGraph(code) /\ OpenBlocks(code) = {}
  BY DEF CodeInv
<1>2. PICK W, k : Fits(code, W, {}) /\ <<blk, idx, k>> \in W /\ Unfolds(k, cont)
  BY DEF FollowInv, Executes
<1>3. /\ blk \in DOMAIN code /\ idx \in 1..(Len(code[blk]) + 1) /\ idx # Len(code[blk]) + 1
      /\ Matches(code, W, blk, idx, k)
  BY <1>1, <1>2 DEF Fits
<1>4. Len(code[blk]) \in Nat
  BY <1>1, <1>3, SeqFacts DEF IsGraph
<1>5. idx <= Len(code[blk])
  BY <1>3, <1>4
<1>6. Instr = code[blk][idx]
  BY <1>5 DEF Instr
<1>7. ASSUME Instr.op # "br"
      PROVE  <<blk, idx, cont>> \in W /\ Matches(code, W, blk, idx, cont)
  <2>1. PICK b, i, l : b = blk /\ i = idx /\ l = cont
    OBVIOUS
  <2>2. /\ <<b, i, k>> \in W /\ code[b][i].op # "br" /\ Unfolds(k, l)
    BY <1>2, <1>6, <1>7, <2>1
  <2>3. <<b, i, l>> \in W
    BY <1>1, <1>2, <2>2, UnfoldedPlace
  <2>4. Matches(code, W, b, i, l)
    BY <1>1, <1>2, <2>3 DEF Fits
  <2>5. QED
    BY <2>1, <2>3, <2>4
<1>8. QED
  BY <1>2, <1>3, <1>6, <1>7

LEMMA ItemIsFirst == Item = First(cont) /\ (IsStmt(cont) <=> Item.do = "stmt")
BY DEF Item, First, IsStmt

(* A step of the execution changes nothing that was built.                  *)
LEMMA SameRoot ==
  ASSUME CodeInv, FollowInv, pc = "exec", UNCHANGED <<fun, pc, buildVars>>,
         Executes(code, blk', idx', cont')
  PROVE  FollowInv'
BY DEF FollowInv, buildVars

LEMMA UnfoldFollows == ASSUME CodeInv, FollowInv, Unfold PROVE FollowInv'
<1>1. /\ pc = "exec" /\ IsStmt(cont) /\ cont' = Unfolded(cont) /\ blk' = blk /\ idx' = idx
      /\ UNCHANGED <<fun, pc, buildVars>>
  BY DEF Unfold, IsStmt, Unfolded
<1>2. PICK W, k : Fits(code, W, {}) /\ <<blk, idx, k>> \in W /\ Unfolds(k, cont)
  BY <1>1 DEF FollowInv, Executes
<1>3. Unfolds(k, cont')
  BY <1>1, <1>2, UnfoldsOn
<1>4. Executes(code, blk', idx', cont')
  BY <1>1, <1>2, <1>3 DEF Executes
<1>5. QED
  BY <1>1, <1>4, SameRoot

LEMMA JumpFollows == ASSUME CodeInv, FollowInv, Jump PROVE FollowInv'
<1>1. /\ pc = "exec" /\ Instr.op = "br" /\ blk' = Instr.to /\ idx' = 1 /\ cont' = cont
      /\ UNCHANGED <<fun, pc, buildVars>>
  BY DEF Jump
<1>2. PICK W, k : /\ Fits(code, W, {}) /\ <<blk, idx, k>> \in W /\ Unfolds(k, cont)
                  /\ Instr = code[blk][idx] /\ Matches(code, W, blk, idx, k)
  BY <1>1, Reaches
<1>3. \A p, d : Use(p, d).op # "br" /\ Except(p).op # "br" /\ Ret.op # "br"
  BY DEF Use, Except, Ret
<1>4. <<Instr.to, 1, k>> \in W
  BY <1>1, <1>2, <1>3 DEF Matches
<1>5. Executes(code, blk', idx', cont')
  BY <1>1, <1>2, <1>4 DEF Executes
<1>6. QED
  BY <1>1, <1>5, SameRoot

LEMMA UseFollows == ASSUME CodeInv, FollowInv, DoUse PROVE FollowInv'
<1>1. /\ pc = "exec" /\ Instr.op # "br" /\ Item.do = "use"
      /\ blk' = blk /\ idx' = idx + 1 /\ cont' = Tail(cont)
      /\ UNCHANGED <<fun, pc, buildVars>>
  BY DEF DoUse, Settled
<1>2. PICK W : /\ Fits(code, W, {})
               /\ <<blk, idx, cont>> \in W /\ Matches(code, W, blk, idx, cont)
               /\ Instr = code[blk][idx]
  BY <1>1, Reaches
<1>3. <<blk, idx + 1, Tail(cont)>> \in W
  BY <1>1, <1>2, ItemIsFirst DEF Matches
<1>4. Executes(code, blk', idx', cont')
  BY <1>1, <1>2, <1>3, UnfoldsSame DEF Executes
<1>5. QED
  BY <1>1, <1>4, SameRoot

LEMMA TestFollows == ASSUME CodeInv, FollowInv, DoTest PROVE FollowInv'
<1>1. /\ pc = "exec" /\ Instr.op # "br" /\ Item.do = "test" /\ idx' = 1
      /\ \/ blk' = Instr.yes /\ cont' = Item.yes \o Tail(cont)
         \/ blk' = Instr.no /\ cont' = Item.no \o Tail(cont)
      /\ UNCHANGED <<fun, pc, buildVars>>
  BY DEF DoTest, Settled
<1>2. PICK W : /\ Fits(code, W, {})
               /\ <<blk, idx, cont>> \in W /\ Matches(code, W, blk, idx, cont)
               /\ Instr = code[blk][idx]
  BY <1>1, Reaches
<1>3. /\ <<Instr.yes, 1, Item.yes \o Tail(cont)>> \in W
      /\ <<Instr.no, 1, Item.no \o Tail(cont)>> \in W
  BY <1>1, <1>2, ItemIsFirst DEF Matches
<1>4. <<blk', 1, cont'>> \in W
  BY <1>1, <1>3
<1>5. Executes(code, blk', idx', cont')
  BY <1>1, <1>2, <1>4, UnfoldsSame DEF Executes
<1>6. QED
  BY <1>1, <1>5, SameRoot

LEMMA InitFollows == Init => FollowInv
BY DEF Init, FollowInv

LEMMA NextFollows == CodeInv /\ FollowInv /\ [Next]_vars => FollowInv'
<1> SUFFICES ASSUME CodeInv, FollowInv, [Next]_vars PROVE FollowInv'
  OBVIOUS
<1>1. CASE StartFunction
  BY <1>1, StartFollows
<1>2. CASE SkipStmt
  BY <1>2, SkipFollows
<1>3. CASE CompoundStmt
  BY <1>3, CompoundFollows
<1>4. CASE ExitScope
  BY <1>4, ExitScopeFollows
<1>5. CASE ExpressionStmt
  BY <1>5, ExpressionFollows
<1>6. CASE ReturnStmt
  BY <1>6, ReturnFollows
<1>7. CASE IfElse
  BY <1>7, IfElseFollows
<1>8. CASE ElseBuilt
  BY <1>8, ElseBuiltFollows
<1>9. CASE ThenBuilt
  BY <1>9, ThenBuiltFollows
<1>10. CASE If
  BY <1>10, IfFollows
<1>11. CASE IfBuilt
  BY <1>11, IfBuiltFollows
<1>12. CASE While
  BY <1>12, WhileFollows
<1>13. CASE BodyBuilt
  BY <1>13, BodyBuiltFollows
<1>14. CASE EndFunction
  BY <1>14, EndFollows
<1>15. CASE Unfold
  BY <1>15, UnfoldFollows
<1>16. CASE Jump
  BY <1>16, JumpFollows
<1>17. CASE DoUse
  BY <1>17, UseFollows
<1>18. CASE DoTest
  BY <1>18, TestFollows
<1>19. CASE Ended \/ UNCHANGED vars
  <2>1. UNCHANGED vars
    BY <1>19 DEF Ended
  <2>2. QED
    BY <2>1 DEF FollowInv, vars, buildVars, execVars
<1>20. QED
  BY <1>1, <1>2, <1>3, <1>4, <1>5, <1>6, <1>7, <1>8, <1>9, <1>10, <1>11, <1>12, <1>13,
     <1>14, <1>15, <1>16, <1>17, <1>18, <1>19 DEF Next

(* Whatever the syntax tree and whichever way the tests go, the blocks do   *)
(* what the source says, in its order, and every name used is the           *)
(* declaration that is in scope; what return_flag made the builder leave    *)
(* out is never reached.                                                    *)
THEOREM BlocksFollowSource == Spec => []FollowsSource
<1>1. CodeInv /\ FollowInv => FollowsSource
  <2> SUFFICES ASSUME CodeInv, FollowInv, Settled PROVE Agree
    BY DEF FollowsSource
  <2>1. pc = "exec" /\ Item.do # "stmt" /\ Instr.op # "br"
    BY DEF Settled
  <2>2. PICK W : Matches(code, W, blk, idx, cont) /\ Instr = code[blk][idx]
    BY <2>1, Reaches
  <2>3. QED
    BY <2>1, <2>2, ItemIsFirst DEF Matches, Agree
<1>2. CodeInv /\ FollowInv /\ [Next]_vars => FollowInv'
  BY NextFollows
<1>3. QED
  BY <1>1, <1>2, InitFollows, CodeIsWellBuilt, PTL DEF Spec
================================================================================

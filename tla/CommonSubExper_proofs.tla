------------------------- MODULE CommonSubExper_proofs -------------------------
(****************************************************************************)
(* For every program: the functions with side effects are found exactly,    *)
(* nobody but a moved instruction reads what the pass deletes, the          *)
(* rewritten function does what the original one does, and it computes      *)
(* nothing twice in a block.                                                *)
(****************************************************************************)
EXTENDS CommonSubExper, SequenceTheorems, FiniteSetTheorems, TLAPS

ProgOK == prog \in Programs

LEMMA ProgStays == ASSUME ProgOK, [Next]_vars PROVE ProgOK' /\ UNCHANGED prog
  BY DEF ProgOK, Next, Rewrite, vars, PropagateSideEffect, EndSideEffects, InitSets,
     InitSetsHangs, Reuse, Remember, ReadBeyondFails, Store, Call, Pass, LeaveBlock, EndPass,
     Execute, Jump

(****************************************************************************)
(* The side effects                                                         *)
(****************************************************************************)
(* The callers of a set are closed: they hold the set and who calls them. *)
LEMMA CallersContainBase ==
  ASSUME NEW funs, NEW base, NEW f \in DOMAIN funs, f \in base
  PROVE  f \in Original!Callers(funs, base)
  BY DEF Original!Callers

LEMMA CallersAreClosed ==
  ASSUME NEW funs, NEW base, NEW f \in DOMAIN funs,
         funs[f].calls \cap Original!Callers(funs, base) # {}
  PROVE  f \in Original!Callers(funs, base)
<1>1. PICK g \in funs[f].calls : g \in Original!Callers(funs, base)
  OBVIOUS
<1> SUFFICES ASSUME NEW closed \in SUBSET DOMAIN funs,
                    \A h \in DOMAIN funs :
                      (h \in base \/ funs[h].calls \cap closed # {}) => h \in closed
             PROVE  f \in closed
  BY DEF Original!Callers
<1>2. g \in closed
  BY <1>1 DEF Original!Callers
<1>3. QED
  BY <1>1, <1>2

LEMMA CallersAreLeast ==
  ASSUME NEW funs, NEW base, NEW closed \in SUBSET DOMAIN funs,
         \A h \in DOMAIN funs :
           (h \in base \/ funs[h].calls \cap closed # {}) => h \in closed
  PROVE  Original!Callers(funs, base) \subseteq closed
  BY DEF Original!Callers

(* What the pass looks at *)
LEMMA SeenFacts ==
  ASSUME NEW funs
  PROVE  /\ DOMAIN Seen(funs) = DOMAIN funs
         /\ \A f \in DOMAIN funs :
              IF funs[f].main THEN Seen(funs)[f].stores = {} /\ Seen(funs)[f].calls = {}
              ELSE Seen(funs)[f] = funs[f]
  BY DEF Seen

(* What the pass starts from: the functions that store to memory of others, *)
(* and main and the ones outside if they take a value.                      *)
LEMMA StartingFuncs ==
  ASSUME ProgOK, NEW f \in DOMAIN prog.funs
  PROVE  f \in StoringFuncs(prog) <=> \/ Seen(prog.funs)[f].stores \cap {"S", "G", "A"} # {}
                                      \/ f \in Printers
<1> DEFINE fun == prog.funs[f]
<1>1. /\ fun.external \in BOOLEAN /\ fun.args \in BOOLEAN /\ fun.main \in BOOLEAN
      /\ fun.external => fun.stores = {}
      /\ fun.stores \subseteq {"S", "G", "A", "L"}
  BY ProgramsAssumption DEF ProgOK
<1>2. IF fun.main THEN Seen(prog.funs)[f].stores = {} ELSE Seen(prog.funs)[f] = fun
  BY SeenFacts
<1>3. f \in Printers <=> (fun.external \/ fun.main) /\ fun.args
  BY DEF Printers
<1>4. f \in StoringFuncs(prog) <=> IF fun.external \/ fun.main THEN fun.args
                                   ELSE \E base \in fun.stores : ~isLocalStore(base)
  BY DEF StoringFuncs
<1> HIDE DEF fun
<1>5. CASE fun.external \/ fun.main
  BY <1>1, <1>2, <1>3, <1>4, <1>5
<1>6. CASE ~(fun.external \/ fun.main)
  <2>1. f \in StoringFuncs(prog) <=> \E base \in fun.stores : base # "L"
    BY <1>4, <1>6 DEF isLocalStore
  <2>2. (\E base \in fun.stores : base # "L") <=> fun.stores \cap {"S", "G", "A"} # {}
    BY <1>1
  <2>3. QED
    BY <1>2, <1>3, <1>6, <2>1, <2>2
<1>7. QED
  BY <1>5, <1>6

(* What the walk may come to *)
Reached == Original!Writers(Seen(prog.funs)) \cup Original!Callers(Seen(prog.funs), Printers)

LEMMA InitEffects == Init => EffectsInv
<1> SUFFICES ASSUME Init PROVE EffectsInv
  OBVIOUS
<1>1. ProgOK /\ phase = "effects" /\ sideEffect = StoringFuncs(prog)
  BY DEF Init, ProgOK
<1>2. ASSUME NEW f \in StoringFuncs(prog)
      PROVE  f \in Reached
  <2>1. f \in DOMAIN Seen(prog.funs) /\ f \in DOMAIN prog.funs
    BY SeenFacts DEF StoringFuncs
  <2>2. \/ Seen(prog.funs)[f].stores \cap {"S", "G", "A"} # {}
        \/ f \in Printers
    BY <1>1, <2>1, StartingFuncs
  <2>3. \/ f \in {g \in DOMAIN Seen(prog.funs) : Seen(prog.funs)[g].stores \cap {"S", "G", "A"} # {}}
        \/ f \in Printers
    BY <2>1, <2>2
  <2>4. QED
    BY <2>1, <2>3, CallersContainBase DEF Reached, Original!Writers
<1>3. QED
  BY <1>1, <1>2 DEF EffectsInv, Reached

LEMMA NextEffects == ASSUME ProgOK, EffectsInv, [Next]_vars PROVE EffectsInv'
<1>1. CASE PropagateSideEffect
  <2>1. PICK f \in DOMAIN prog.funs \ sideEffect :
          /\ Walked(f) /\ prog.funs[f].calls \cap sideEffect # {}
          /\ sideEffect' = sideEffect \cup {f}
    BY <1>1 DEF PropagateSideEffect
  <2>2. phase' = "effects" /\ prog' = prog
    BY <1>1 DEF PropagateSideEffect
  <2>3. f \in DOMAIN Seen(prog.funs) /\ Seen(prog.funs)[f] = prog.funs[f]
    BY <2>1, SeenFacts DEF Walked
  <2>4. \/ Seen(prog.funs)[f].calls \cap Original!Writers(Seen(prog.funs)) # {}
        \/ Seen(prog.funs)[f].calls \cap Original!Callers(Seen(prog.funs), Printers) # {}
    BY <2>1, <2>3 DEF EffectsInv
  <2>5. f \in Reached
    BY <2>3, <2>4, CallersAreClosed DEF Reached, Original!Writers
  <2>6. QED
    BY <2>1, <2>2, <2>5 DEF EffectsInv, Printers, Reached
<1>2. CASE EndSideEffects
  BY <1>2 DEF EndSideEffects, EffectsInv, Printers, Walked
<1>3. ASSUME UNCHANGED <<prog, sideEffect>>, phase' # "effects" => phase # "effects"
      PROVE  EffectsInv'
  BY <1>3 DEF EffectsInv, Printers, Walked
<1>4. CASE InitSets \/ InitSetsHangs \/ Reuse \/ Remember \/ ReadBeyondFails \/ Store \/ Call
           \/ Pass \/ LeaveBlock \/ EndPass \/ Execute \/ Jump \/ UNCHANGED vars
  BY <1>3, <1>4 DEF InitSets, InitSetsHangs, Reuse, Remember, ReadBeyondFails, Store, Call,
     Pass, LeaveBlock, EndPass, Execute, Jump, vars, passVars, Visiting
<1>5. QED
  BY <1>1, <1>2, <1>4 DEF Next, Rewrite

(* When the walk over the calls has ended nothing else has side effects.    *)
LEMMA EffectsAreExact ==
  ASSUME ProgOK, EffectsInv, phase # "effects"
  PROVE  sideEffect = Reached
<1> DEFINE seen == Seen(prog.funs)
<1>1. /\ StoringFuncs(prog) \subseteq sideEffect
      /\ sideEffect \subseteq Reached
      /\ \A f \in DOMAIN prog.funs \ sideEffect :
           Walked(f) => prog.funs[f].calls \cap sideEffect = {}
  BY DEF EffectsInv, Reached
<1>2. sideEffect \in SUBSET DOMAIN seen /\ DOMAIN seen = DOMAIN prog.funs
  BY <1>1, SeenFacts DEF Reached, Original!Writers, Original!Callers
<1>3. ASSUME NEW h \in DOMAIN seen, seen[h].calls \cap sideEffect # {}
      PROVE  h \in sideEffect
  <2>1. /\ prog.funs[h].external => prog.funs[h].calls = {}
        /\ prog.funs[h].external \in BOOLEAN /\ prog.funs[h].main \in BOOLEAN
    BY <1>2, ProgramsAssumption DEF ProgOK
  <2>2. ~prog.funs[h].main /\ seen[h] = prog.funs[h]
    BY <1>2, <1>3, SeenFacts
  <2>3. Walked(h)
    BY <1>3, <2>1, <2>2 DEF Walked
  <2>4. QED
    BY <1>1, <1>2, <1>3, <2>2, <2>3
<1>4. \A h \in DOMAIN seen :
        h \in Printers \/ seen[h].stores \cap {"S", "G", "A"} # {} => h \in sideEffect
  BY <1>1, <1>2, StartingFuncs
<1> HIDE DEF seen
<1>5. Original!Callers(seen, Printers) \subseteq sideEffect
  BY <1>2, <1>3, <1>4, CallersAreLeast
<1>6. Original!Writers(seen) \subseteq sideEffect
  BY <1>2, <1>3, <1>4, CallersAreLeast DEF Original!Writers
<1>7. QED
  BY <1>1, <1>5, <1>6 DEF Reached, seen

(* The functions taken to have side effects are exactly those that can      *)
(* change memory of others or print, through calls or not, if main is taken *)
(* to do nothing (CommonSubExper.cpp, InitSideEffectFunc).                  *)
THEOREM SideEffectsAreKnown == Spec => []SideEffectsKnown
<1>1. Init => ProgOK /\ EffectsInv
  BY InitEffects DEF Init, ProgOK
<1>2. (ProgOK /\ EffectsInv) /\ [Next]_vars => (ProgOK /\ EffectsInv)'
  BY ProgStays, NextEffects
<1>3. ProgOK /\ EffectsInv => SideEffectsKnown
  BY EffectsAreExact DEF SideEffectsKnown, Reached
<1>4. QED
  BY <1>1, <1>2, <1>3, PTL DEF Spec

(****************************************************************************)
(* The walk over the blocks                                                 *)
(****************************************************************************)
LEMMA ProgFacts ==
  ASSUME ProgOK
  PROVE  /\ prog.list \in Seq(DOMAIN prog.code)
         /\ \A i, j \in DOMAIN prog.list : prog.list[i] = prog.list[j] => i = j
         /\ \A a, b \in DOMAIN prog.code :
              \A j \in DOMAIN prog.code[a], k \in DOMAIN prog.code[b] :
                prog.code[a][j].id = prog.code[b][k].id => a = b /\ j = k
         /\ \A b \in DOMAIN prog.code : DOMAIN prog.code[b] \subseteq Nat
<1>1. /\ prog.list \in Seq(DOMAIN prog.code)
      /\ \A i, j \in DOMAIN prog.list : prog.list[i] = prog.list[j] => i = j
      /\ \A b \in DOMAIN prog.code :
           prog.code[b] \in Seq({prog.code[b][k] : k \in DOMAIN prog.code[b]})
  BY ProgramsAssumption DEF ProgOK
<1>2. \A a, b \in DOMAIN prog.code :
        \A j \in DOMAIN prog.code[a], k \in DOMAIN prog.code[b] :
          prog.code[a][j].id = prog.code[b][k].id => a = b /\ j = k
  BY ProgramsAssumption DEF ProgOK
<1>3. ASSUME NEW b \in DOMAIN prog.code PROVE DOMAIN prog.code[b] \subseteq Nat
  <2> DEFINE s == prog.code[b]
             S == {prog.code[b][k] : k \in DOMAIN prog.code[b]}
  <2>1. s \in Seq(S)
    BY <1>1
  <2> HIDE DEF s, S
  <2>2. DOMAIN s \subseteq Nat
    BY <2>1
  <2>3. QED
    BY <2>2 DEF s
<1>4. QED
  BY <1>1, <1>2, <1>3

(* code starts as the function itself: one instruction for each id. *)
LEMMA InitCode ==
  ASSUME Init
  PROVE  /\ DOMAIN code = Original!Ids(prog)
         /\ \A id \in DOMAIN code :
              code[id].id = id /\ DOMAIN code[id] = {"id", "kind", "x", "y"}
<1> DEFINE All == UNION {{prog.code[b][k] : k \in DOMAIN prog.code[b]} : b \in DOMAIN prog.code}
<1>1. /\ DOMAIN code = Original!Ids(prog)
      /\ \A id \in DOMAIN code : code[id] = CHOOSE n \in All : n.id = id
  BY DEF Init, Written, Instructions
<1>2. ASSUME NEW id \in DOMAIN code
      PROVE  code[id].id = id /\ DOMAIN code[id] = {"id", "kind", "x", "y"}
  <2>1. \E n \in All : n.id = id
    BY <1>1 DEF Original!Ids
  <2>2. code[id] \in All /\ code[id].id = id
    BY <1>1, <2>1
  <2>3. PICK b \in DOMAIN prog.code : \E k \in DOMAIN prog.code[b] : code[id] = prog.code[b][k]
    BY <2>2
  <2>4. PICK k \in DOMAIN prog.code[b] : code[id] = prog.code[b][k]
    BY <2>3
  <2>5. LET n == prog.code[b][k]
        IN  n = [id |-> n.id, kind |-> n.kind, x |-> n.x, y |-> n.y]
    BY ProgramsAssumption, SMTT(30) DEF Init
  <2>6. DOMAIN code[id] = {"id", "kind", "x", "y"}
    BY <2>4, <2>5
  <2>7. QED
    BY <2>2, <2>6
<1>3. QED
  BY <1>1, <1>2

LEMMA InitWalk == Init => WalkInv /\ UsersFollow
<1> SUFFICES ASSUME Init PROVE WalkInv /\ UsersFollow
  OBVIOUS
<1>1. /\ phase = "effects" /\ todo = prog.list /\ avail = Empty /\ saved = Empty
      /\ waitDelete = {} /\ ProgOK
  BY DEF Init, ProgOK
<1>2. ASSUME NEW b \in DOMAIN prog.code, NEW k \in DOMAIN prog.code[b]
      PROVE  prog.code[b][k].id \in Original!Ids(prog)
  BY DEF Original!Ids
<1>3. UsersFollow
  BY <1>1, InitCode DEF UsersFollow, Operands, PhiOperands
<1>4. \A id \in DOMAIN code : Untouched(id)
  BY <1>1 DEF Untouched, Left, Empty
<1>5. \A i \in DOMAIN todo : todo[i] \in DOMAIN prog.code
  BY <1>1, ProgFacts
<1>6. QED
  BY <1>1, <1>2, <1>3, <1>4, <1>5, InitCode, ProgFacts DEF WalkInv, Empty

(* What the walk knows of the instruction it is at. *)
LEMMA AtCurrent ==
  ASSUME ProgOK, WalkInv, Visiting
  PROVE  LET id == prog.code[Head(todo)][pos].id
         IN  /\ Current = code[id] /\ Current.id = id /\ Untouched(id)
             /\ \A i \in DOMAIN todo : \A k \in DOMAIN prog.code[todo[i]] :
                  (i = 1 => k >= pos + 1) =>
                     /\ prog.code[todo[i]][k].id # id
                     /\ Untouched(prog.code[todo[i]][k].id)
<1> DEFINE id == prog.code[Head(todo)][pos].id
<1>1. /\ phase = "visit" /\ todo # <<>> /\ todo \in Seq(DOMAIN prog.code) /\ pos \in Nat
      /\ pos \in DOMAIN prog.code[Head(todo)]
  BY DEF Visiting, WalkInv
<1>2. /\ Head(todo) = todo[1] /\ 1 \in DOMAIN todo
      /\ \A i \in DOMAIN todo : i \in Nat /\ todo[i] \in DOMAIN prog.code
  BY <1>1
<1>3. Untouched(id)
  BY <1>1, <1>2 DEF WalkInv
<1>4. Current = code[id] /\ Current.id = id
  BY <1>3 DEF Current, WalkInv, Untouched, Left
<1>5. ASSUME NEW i \in DOMAIN todo, NEW k \in DOMAIN prog.code[todo[i]], i = 1 => k >= pos + 1
      PROVE  prog.code[todo[i]][k].id # id /\ Untouched(prog.code[todo[i]][k].id)
  <2>1. k \in Nat
    BY <1>2, ProgFacts
  <2>2. Untouched(prog.code[todo[i]][k].id)
    BY <1>1, <1>5, <2>1 DEF WalkInv
  <2>3. prog.code[todo[i]][k].id = id => todo[i] = todo[1] /\ k = pos
    BY <1>1, <1>2, ProgFacts
  <2>4. todo[i] = todo[1] => i = 1
    BY <1>2 DEF WalkInv
  <2>5. QED
    BY <1>1, <1>5, <2>1, <2>2, <2>3, <2>4
<1>6. QED
  BY <1>3, <1>4, <1>5

(* A step to the next instruction that changes avail only. *)
LEMMA StepOn ==
  ASSUME ProgOK, WalkInv, UsersFollow, Visiting, pos' = pos + 1,
         UNCHANGED <<prog, phase, todo, waitDelete, saved, code, phis>>,
         \A key \in DOMAIN avail' :
           \/ key \in DOMAIN avail /\ avail'[key] = avail[key]
           \/ avail'[key] = prog.code[Head(todo)][pos].id
  PROVE  WalkInv' /\ UsersFollow'
<1>1. UsersFollow' /\ \A id : Left(id)' <=> Left(id)
  BY DEF UsersFollow, Operands, PhiOperands, Left
<1>2. /\ phase = "visit" /\ pos \in Nat /\ todo # <<>>
      /\ Left(prog.code[Head(todo)][pos].id)
  BY AtCurrent DEF Visiting, WalkInv, Untouched
<1>3. \A key \in DOMAIN avail' : Left(avail'[key])
  BY <1>2 DEF WalkInv
<1>4. ASSUME NEW i \in DOMAIN todo, NEW k \in DOMAIN prog.code[todo[i]], i = 1 => k >= pos + 1
      PROVE  Untouched(prog.code[todo[i]][k].id)'
  <2>1. /\ prog.code[todo[i]][k].id # prog.code[Head(todo)][pos].id
        /\ Untouched(prog.code[todo[i]][k].id)
    BY <1>4, AtCurrent
  <2>2. QED
    BY <1>1, <2>1 DEF Untouched
<1>5. QED
  BY <1>1, <1>2, <1>3, <1>4 DEF WalkInv

LEMMA ReuseWalk == ASSUME ProgOK, WalkInv, UsersFollow, Reuse PROVE WalkInv' /\ UsersFollow'
<1> DEFINE id == prog.code[Head(todo)][pos].id
           v == avail[KeyOf(Current)]
<1>1. /\ Visiting /\ phase = "visit" /\ KeyOf(Current) \in DOMAIN avail
      /\ code' = Replaced(Current.id, v) /\ waitDelete' = waitDelete \cup {Current.id}
      /\ phis' = [w \in DOMAIN phis |-> RenamedIn(phis[w], Current.id, v)]
      /\ pos' = pos + 1 /\ UNCHANGED <<prog, phase, todo, avail, saved>>
  BY DEF Reuse, Known, Visiting
<1>2. Current.id = id /\ Untouched(id) /\ Left(v) /\ v # id
  BY <1>1, AtCurrent DEF WalkInv, Untouched
<1> HIDE DEF id, v
<1>3. DOMAIN code' = DOMAIN code /\ waitDelete' = waitDelete \cup {id}
  BY <1>1, <1>2 DEF Replaced
<1>4. \A m \in DOMAIN code :
        code'[m] = IF m \in prog.moved THEN code[m]
                   ELSE [code[m] EXCEPT !.x = IF code[m].x = id THEN v ELSE code[m].x,
                                        !.y = IF code[m].y = id THEN v ELSE code[m].y]
  BY <1>1, <1>2 DEF Replaced
<1>5. ASSUME NEW m \in DOMAIN code
      PROVE  /\ code'[m].id = m /\ DOMAIN code'[m] = {"id", "kind", "x", "y"}
             /\ m \notin prog.moved =>
                  /\ code'[m].x = IF code[m].x = id THEN v ELSE code[m].x
                  /\ code'[m].y = IF code[m].y = id THEN v ELSE code[m].y
  <2>1. code[m].id = m /\ DOMAIN code[m] = {"id", "kind", "x", "y"}
    BY DEF WalkInv
  <2>2. CASE m \in prog.moved
    BY <1>4, <2>1, <2>2
  <2>3. CASE m \notin prog.moved
    <3>1. code'[m] = [code[m] EXCEPT !.x = IF code[m].x = id THEN v ELSE code[m].x,
                                     !.y = IF code[m].y = id THEN v ELSE code[m].y]
      BY <1>4, <2>3
    <3>2. QED
      BY <2>1, <2>3, <3>1
  <2>4. QED
    BY <2>2, <2>3
<1>6. \A z : Left(z)' <=> Left(z) /\ z # id
  BY <1>3 DEF Left
<1>7. /\ \A key \in DOMAIN avail : Left(avail[key]) /\ avail[key] # id
      /\ \A b \in DOMAIN saved : \A key \in DOMAIN saved[b] :
           Left(saved[b][key]) /\ saved[b][key] # id
  BY <1>2 DEF WalkInv, Untouched
<1>8. ASSUME NEW i \in DOMAIN todo, NEW k \in DOMAIN prog.code[todo[i]], i = 1 => k >= pos + 1
      PROVE  Untouched(prog.code[todo[i]][k].id)'
  <2>1. prog.code[todo[i]][k].id # id /\ Untouched(prog.code[todo[i]][k].id)
    BY <1>1, <1>8, AtCurrent DEF id
  <2>2. QED
    BY <1>1, <1>6, <2>1 DEF Untouched
<1>9. WalkInv'
  BY <1>1, <1>3, <1>5, <1>6, <1>7, <1>8 DEF WalkInv
<1>10. ASSUME NEW m \in DOMAIN code \ prog.moved, NEW o \in Operands(code'[m])
       PROVE  o \in DOMAIN code \ (waitDelete \cup {id})
  <2>1. Operands(code[m]) \subseteq DOMAIN code \ waitDelete
    BY DEF UsersFollow
  <2>2. o = v \/ (o \in Operands(code[m]) /\ o # id)
    BY <1>2, <1>5 DEF Operands
  <2>3. QED
    BY <1>2, <2>1, <2>2 DEF Left
<1>11. ASSUME NEW w \in DOMAIN phis, NEW o \in PhiOperands(w)'
       PROVE  o \in DOMAIN code \ (waitDelete \cup {id})
  <2>1. PhiOperands(w) \subseteq DOMAIN code \ waitDelete
    BY DEF UsersFollow
  <2>2. phis'[w] = [a \in DOMAIN phis[w] |-> IF phis[w][a] = id THEN v ELSE phis[w][a]]
    BY <1>1, <1>2 DEF RenamedIn
  <2>3. o = v \/ (o \in PhiOperands(w) /\ o # id)
    BY <1>1, <1>2, <2>2 DEF PhiOperands
  <2>4. QED
    BY <1>2, <2>1, <2>3 DEF Left
<1>12. UsersFollow'
  BY <1>1, <1>3, <1>10, <1>11 DEF UsersFollow, Operands
<1>13. QED
  BY <1>9, <1>12

LEMMA InitSetsWalk ==
  ASSUME ProgOK, WalkInv, UsersFollow, InitSets PROVE WalkInv' /\ UsersFollow'
<1>1. /\ phase = "enter" /\ phase' = "visit" /\ pos' = 1 /\ todo # <<>>
      /\ avail' = Inherited(Head(todo))
      /\ UNCHANGED <<prog, todo, waitDelete, saved, code, phis>>
  BY DEF InitSets
<1>2. \A key \in DOMAIN avail' : \E a \in DOMAIN saved :
        key \in DOMAIN saved[a] /\ avail'[key] = saved[a][key]
  <2>1. CASE Processed(Head(todo)) = {}
    BY <1>1, <2>1 DEF Inherited, Empty
  <2>2. CASE Processed(Head(todo)) # {}
    <3> DEFINE a == CHOOSE c \in Processed(Head(todo)) : TRUE
    <3>1. a \in DOMAIN saved
      BY <2>2 DEF Processed
    <3>2. \A key \in DOMAIN avail' : key \in DOMAIN saved[a] /\ avail'[key] = saved[a][key]
      BY <1>1, <2>2 DEF Inherited
    <3>3. QED
      BY <3>1, <3>2
  <2>3. QED
    BY <2>1, <2>2
<1>3. UsersFollow' /\ \A id : Left(id)' <=> Left(id)
  BY <1>1 DEF UsersFollow, Operands, PhiOperands, Left
<1>4. \A key \in DOMAIN avail' : Left(avail'[key])
  BY <1>2 DEF WalkInv
<1>5. \A i \in DOMAIN todo : \A k \in DOMAIN prog.code[todo[i]] :
        Untouched(prog.code[todo[i]][k].id)'
  BY <1>1, <1>2, <1>3 DEF WalkInv, Untouched
<1>6. QED
  BY <1>1, <1>3, <1>4, <1>5 DEF WalkInv

LEMMA LeaveBlockWalk ==
  ASSUME ProgOK, WalkInv, UsersFollow, LeaveBlock PROVE WalkInv' /\ UsersFollow'
<1>1. /\ phase = "visit" /\ phase' = "enter" /\ todo' = Tail(todo) /\ waitDelete' = {}
      /\ code' = [id \in DOMAIN code \ waitDelete |-> code[id]]
      /\ saved' = [b \in DOMAIN saved \cup {Head(todo)} |->
                     IF b = Head(todo) THEN avail ELSE saved[b]]
      /\ UNCHANGED <<prog, avail, phis>>
  BY DEF LeaveBlock
<1>2. todo # <<>> /\ todo \in Seq(DOMAIN prog.code) /\ pos \in Nat
  BY <1>1 DEF WalkInv
<1>3. /\ Tail(todo) \in Seq(DOMAIN prog.code)
      /\ \A i \in DOMAIN Tail(todo) :
           /\ i \in Nat /\ i + 1 \in DOMAIN todo /\ i + 1 # 1
           /\ Tail(todo)[i] = todo[i + 1]
  BY <1>2
<1>4. \A id : Left(id)' <=> Left(id)
  BY <1>1 DEF Left
<1>5. \A b \in DOMAIN saved' : \A key \in DOMAIN saved'[b] :
        \/ key \in DOMAIN avail /\ saved'[b][key] = avail[key]
        \/ b \in DOMAIN saved /\ key \in DOMAIN saved[b] /\ saved'[b][key] = saved[b][key]
  BY <1>1
<1>6. \A id : Untouched(id) => Untouched(id)'
  BY <1>1, <1>4, <1>5 DEF Untouched
<1>7. \A i \in DOMAIN todo' : \A k \in DOMAIN prog.code[todo'[i]] :
        Untouched(prog.code[todo[i]][k].id)'
  BY <1>1, <1>3, <1>6 DEF WalkInv
<1>8. \A i, j \in DOMAIN todo' : todo'[i] = todo'[j] => i = j
  <2> SUFFICES ASSUME NEW i \in DOMAIN todo', NEW j \in DOMAIN todo', todo'[i] = todo'[j]
               PROVE  i = j
    OBVIOUS
  <2>1. i + 1 \in DOMAIN todo /\ j + 1 \in DOMAIN todo /\ todo[i + 1] = todo[j + 1]
    BY <1>1, <1>3
  <2>2. i + 1 = j + 1
    BY <2>1 DEF WalkInv
  <2>3. i \in Nat /\ j \in Nat
    BY <1>1, <1>3
  <2>4. QED
    BY <2>2, <2>3
<1>9. \A b \in DOMAIN saved' : \A key \in DOMAIN saved'[b] : Left(saved[b][key])'
  BY <1>4, <1>5 DEF WalkInv
<1>10. /\ DOMAIN code' \subseteq Original!Ids(prog)
       /\ \A id \in DOMAIN code' :
            code'[id].id = id /\ DOMAIN code'[id] = {"id", "kind", "x", "y"}
       /\ \A key \in DOMAIN avail' : Left(avail[key])'
  BY <1>1, <1>4 DEF WalkInv
<1>11. WalkInv'
  BY <1>1, <1>3, <1>7, <1>8, <1>9, <1>10 DEF WalkInv
<1>12. UsersFollow'
  BY <1>1 DEF UsersFollow, Operands, PhiOperands
<1>13. QED
  BY <1>11, <1>12

LEMMA NextWalk ==
  ASSUME ProgOK, WalkInv, UsersFollow, [Next]_vars PROVE WalkInv' /\ UsersFollow'
<1>1. CASE Remember
  <2>1. Visiting /\ ~Known /\ Current.id = prog.code[Head(todo)][pos].id
    BY <1>1, AtCurrent DEF Remember
  <2>2. \A key \in DOMAIN avail' :
          \/ key \in DOMAIN avail /\ avail'[key] = avail[key]
          \/ avail'[key] = prog.code[Head(todo)][pos].id
    BY <1>1, <2>1 DEF Remember
  <2>3. QED
    BY <1>1, <2>1, <2>2, StepOn DEF Remember
<1>2. CASE Store
  BY <1>2, StepOn DEF Store, Without
<1>3. CASE Call
  BY <1>3, StepOn DEF Call, Without
<1>4. CASE Pass
  BY <1>4, StepOn DEF Pass
<1>5. ASSUME UNCHANGED <<prog, todo, waitDelete, avail, saved, code, phis>>,
             \/ phase' \notin {"effects", "enter", "visit"}
             \/ phase' \in {"effects", "enter"} /\ phase \in {"effects", "enter"}
             \/ phase' = phase /\ pos' = pos
      PROVE  WalkInv' /\ UsersFollow'
  <2>1. UsersFollow' /\ \A id : Untouched(id)' <=> Untouched(id)
    BY <1>5 DEF UsersFollow, Operands, PhiOperands, Untouched, Left
  <2>2. QED
    BY <1>5, <2>1 DEF WalkInv, Left
<1>6. CASE PropagateSideEffect \/ EndSideEffects \/ InitSetsHangs \/ ReadBeyondFails \/ EndPass
           \/ Execute \/ Jump \/ UNCHANGED vars
  BY <1>5, <1>6 DEF PropagateSideEffect, EndSideEffects, InitSetsHangs, ReadBeyondFails, EndPass,
     Execute, Jump, vars, passVars
<1>7. QED
  BY <1>1, <1>2, <1>3, <1>4, <1>6, ReuseWalk, InitSetsWalk, LeaveBlockWalk DEF Next, Rewrite

(* Nobody reads an instruction that is deleted or about to be, except what  *)
(* LoopInvHoist moved before (CommonSubExper.cpp, CommonSubExperDelete).    *)
THEOREM UsersAreRedirected == Spec => []UsersFollow
<1>1. Init => ProgOK /\ WalkInv /\ UsersFollow
  BY InitWalk DEF Init, ProgOK
<1>2. (ProgOK /\ WalkInv /\ UsersFollow) /\ [Next]_vars => (ProgOK /\ WalkInv /\ UsersFollow)'
  BY ProgStays, NextWalk
<1>3. QED
  BY <1>1, <1>2, PTL DEF Spec

(****************************************************************************)
(* Why the rewritten function does what the original one does               *)
(****************************************************************************)

(* A function the pass gets through, whose operands are listed in order *)
Plain == ProgOK /\ Joins(prog) = {} /\ OperandsListed(prog)

USE DEF Plain

Blocks == DOMAIN prog.code
Ids == Original!Ids(prog)
Phis == DOMAIN prog.phis
Registers == Ids \cup Phis
Sites == UNION {{b} \X DOMAIN prog.code[b] : b \in Blocks}
End(b) == Len(prog.code[b]) + 1

Site(id) == CHOOSE l \in Sites : prog.code[l[1]][l[2]].id = id
Given(id) == prog.code[Site(id)[1]][Site(id)[2]]

(* An instruction has been executed whenever place k of b is reached.      *)
Prior(id, b, k) ==
  IF Site(id)[1] = b THEN Site(id)[2] < k ELSE Dominates(prog, Site(id)[1], b)

Walking == phase \in {"effects", "enter", "visit"}

(* The walk has still to come to it.                                       *)
Future ==
  {id \in Ids : /\ Walking
                /\ \E i \in DOMAIN todo : /\ Site(id)[1] = todo[i]
                                          /\ phase = "visit" /\ i = 1 => Site(id)[2] >= pos}

(* rep tells what each instruction has been replaced by, itself if it is   *)
(* left.  So this is what an instruction looks like now.                   *)
Now(id, rep) ==
  LET Operand(v) == IF v \in Ids /\ id \notin prog.moved THEN rep[v] ELSE v
  IN  [id |-> id, kind |-> Given(id).kind, x |-> Operand(Given(id).x), y |-> Operand(Given(id).y)]

PhiNow(w, rep) ==
  LET from == prog.phis[w].from
  IN  [a \in DOMAIN from |-> IF from[a] \in Ids THEN rep[from[a]] ELSE from[a]]

(* The array or scalar an address lies in                                  *)
BaseOf(x) == IF x \in Ids THEN Given(x).x ELSE x
MayAlias(x, y) == BaseOf(x) = BaseOf(y) \/ {BaseOf(x), BaseOf(y)} = {"A", "G"}

(* held says for the places of a block which loads still have the value    *)
(* that memory has at their address.                                       *)
HeldInv(rep, held) ==
  /\ DOMAIN held = UNION {{b} \X (1 .. End(b)) : b \in Blocks}
  /\ held[<<prog.list[1], 1>>] = {}
  /\ \A l \in DOMAIN held : \A e \in held[l] :
       /\ e = <<e[1], e[2]>> /\ e[2] \in Ids /\ Prior(e[2], l[1], l[2])
       /\ IF e[1] \in Ids
          THEN /\ Given(e[1]).kind = "gep" /\ rep[e[1]] = e[1]
               /\ e[1] \notin Future /\ Prior(e[1], l[1], l[2])
          ELSE e[1] = "S"
  /\ \A b \in Blocks : held[<<b, 1>>] # {} =>
       \E a \in Blocks : Preds(b) = {a} /\ held[<<b, 1>>] \subseteq held[<<a, End(a)>>]
  /\ \A id \in Ids :
       LET n == Now(id, rep)
           b == Site(id)[1]
           k == Site(id)[2]
       IN  \A e \in held[<<b, k + 1>>] :
             \/ n.kind = "load" /\ e = <<n.x, id>>
             \/ /\ e \in held[<<b, k>>]
                /\ n.kind = "store" => ~MayAlias(e[1], n.y)
                /\ n.kind = "call" => n.x \notin sideEffect

(* An instruction was replaced by one that computed the same before.       *)
ReplacedInv(rep, held) ==
  /\ rep \in [Ids -> Ids]
  /\ DOMAIN code \subseteq Ids /\ DOMAIN code \ waitDelete = {id \in Ids : rep[id] = id}
  /\ \A id \in DOMAIN code : code[id] = Now(id, rep)
  /\ phis = [w \in Phis |-> PhiNow(w, rep)]
  /\ \A id \in Ids : rep[id] # id =>
       LET n == Now(id, rep)
           b == Site(id)[1]
           k == Site(id)[2]
       IN  /\ n.kind \in {"op", "gep", "load"}
           /\ rep[rep[id]] = rep[id] /\ Prior(rep[id], b, k) /\ rep[id] \notin Future
           /\ n.kind = Now(rep[id], rep).kind /\ KeyOf(n) = KeyOf(Now(rep[id], rep))
           /\ n.kind = "load" => <<n.x, rep[id]>> \in held[<<b, k>>]

(* The walk follows the list. *)
TodoInv ==
  Walking => /\ Len(todo) <= Len(prog.list)
             /\ \A i \in DOMAIN todo : todo[i] = prog.list[Len(prog.list) - Len(todo) + i]

(* What a map of the pass offers at place k of b                           *)
Offers(map, b, k, rep, held) ==
  \A key \in DOMAIN map :
    LET r == map[key]
    IN  /\ r \in Ids \ Future /\ rep[r] = r /\ Prior(r, b, k)
        /\ Given(r).kind \in {"op", "gep", "load"} /\ KeyOf(Now(r, rep)) = key
        /\ key[1] = "load" => <<key[2], r>> \in held[<<b, k>>]

SavedInv ==
  /\ TodoInv
  /\ Walking => DOMAIN saved = Blocks \ {todo[i] : i \in DOMAIN todo}

OffersInv(rep, held) ==
  /\ TodoInv
  /\ Walking =>
       /\ DOMAIN saved = Blocks \ {todo[i] : i \in DOMAIN todo}
       /\ \A b \in DOMAIN saved : Offers(saved[b], b, End(b), rep, held)
       /\ \A id \in Future : rep[id] = id /\ held[<<Site(id)[1], Site(id)[2] + 1>>] = {}
  /\ phase = "effects" => todo = prog.list /\ \A l \in DOMAIN held : held[l] = {}
  /\ phase = "visit" => /\ todo # <<>> /\ pos \in 1 .. End(Head(todo))
                        /\ Offers(avail, Head(todo), pos, rep, held)

(* What an address or an expression was when it was computed it still is,  *)
(* what replaces an instruction has its value, and what is held is memory. *)
ValuesInv(rep, held) ==
  /\ at.block \in Blocks /\ at.next \in 1 .. End(at.block)
  /\ at = [block |-> at.block, next |-> at.next]
  /\ DOMAIN regs = Registers /\ DOMAIN ghost = Registers
  /\ \A id \in DOMAIN code \cup Phis : regs[id] = ghost[id]
  /\ \A id \in Ids : Prior(id, at.block, at.next) =>
       /\ ghost[id] = ghost[rep[id]]
       /\ Given(id).kind \in {"op", "gep"} =>
            ghost[id] = Original!Result(prog, ghost, mem, Given(id))
  /\ \A e \in held[<<at.block, at.next>>] :
       ghost[e[2]] = Original!Result(prog, ghost, mem, [kind |-> "load", x |-> e[1]])
  /\ phase = "exec" => \A id \in DOMAIN code : Operands(code[id]) \subseteq DOMAIN code
  /\ phase # "exec" => at = Original!Start(prog)

FollowInv(rep, held) ==
  HeldInv(rep, held) /\ ReplacedInv(rep, held) /\ OffersInv(rep, held) /\ ValuesInv(rep, held)

(****************************************************************************)
(* Places and dominance                                                     *)
(****************************************************************************)
LEMMA FlowFacts ==
  ASSUME ProgOK
  PROVE  /\ prog.list \in Seq(Blocks) /\ Len(prog.list) \in Nat \ {0}
         /\ DOMAIN prog.list = 1 .. Len(prog.list) /\ prog.list[1] \in Blocks
         /\ \A i, j \in DOMAIN prog.list : prog.list[i] = prog.list[j] => i = j
         /\ \A b \in Blocks : \E i \in DOMAIN prog.list : prog.list[i] = b
         /\ \A a \in Blocks : prog.succs[a] \subseteq Blocks
         /\ \A b : Preds(b) = {a \in Blocks : b \in prog.succs[a]}
         /\ \A b \in Blocks : Len(prog.code[b]) \in Nat /\ DOMAIN prog.code[b] = 1 .. Len(prog.code[b])
<1>1. prog.list \in Seq(Blocks) /\ \A i, j \in DOMAIN prog.list : prog.list[i] = prog.list[j] => i = j
  BY ProgFacts DEF Blocks
<1>2. IsFlow(prog)
  BY FunctionsAssumption DEF ProgOK
<1>3. /\ prog.list # <<>> /\ Blocks = {prog.list[i] : i \in DOMAIN prog.list}
      /\ prog.succs \in [Blocks -> SUBSET Blocks]
  BY <1>2 DEF IsFlow, Blocks
<1>4. Len(prog.list) \in Nat \ {0} /\ DOMAIN prog.list = 1 .. Len(prog.list)
  BY <1>1, <1>3
<1>5. \A b : Preds(b) = {a \in Blocks : b \in prog.succs[a]}
  BY <1>3 DEF Preds
<1>6. ASSUME NEW b \in Blocks
      PROVE  Len(prog.code[b]) \in Nat /\ DOMAIN prog.code[b] = 1 .. Len(prog.code[b])
  <2> DEFINE s == prog.code[b]
             S == {prog.code[b][k] : k \in DOMAIN prog.code[b]}
  <2>1. s \in Seq(S)
    BY ProgramsAssumption DEF ProgOK, Blocks
  <2> HIDE DEF s, S
  <2>2. Len(s) \in Nat /\ DOMAIN s = 1 .. Len(s)
    BY <2>1
  <2>3. QED
    BY <2>2 DEF s
<1>7. prog.list[1] \in Blocks
  BY <1>3, <1>4
<1>8. /\ \A b \in Blocks : \E i \in DOMAIN prog.list : prog.list[i] = b
      /\ \A a \in Blocks : prog.succs[a] \subseteq Blocks
  BY <1>3
<1>9. QED
  BY <1>1, <1>4, <1>5, <1>6, <1>7, <1>8

(* Every instruction is at one site. *)
LEMMA SiteFacts ==
  ASSUME Plain
  PROVE  /\ \A id \in Ids : /\ Site(id)[1] \in Blocks
                            /\ Site(id)[2] \in DOMAIN prog.code[Site(id)[1]]
                            /\ Given(id).id = id
         /\ \A b \in Blocks : \A k \in DOMAIN prog.code[b] :
              LET id == prog.code[b][k].id
              IN  id \in Ids /\ Site(id)[1] = b /\ Site(id)[2] = k /\ Given(id) = prog.code[b][k]
<1>1. \A l : l \in Sites <=> /\ l = <<l[1], l[2]>> /\ l[1] \in Blocks
                             /\ l[2] \in DOMAIN prog.code[l[1]]
  BY DEF Sites
<1>2. ASSUME NEW id \in Ids
      PROVE  Site(id) \in Sites /\ prog.code[Site(id)[1]][Site(id)[2]].id = id
  <2>1. PICK n \in UNION {{prog.code[b][k] : k \in DOMAIN prog.code[b]} : b \in DOMAIN prog.code} :
          n.id = id
    BY DEF Ids, Original!Ids
  <2>2. PICK b \in Blocks : n \in {prog.code[b][k] : k \in DOMAIN prog.code[b]}
    BY <2>1 DEF Blocks
  <2>3. PICK k \in DOMAIN prog.code[b] : n = prog.code[b][k]
    BY <2>2
  <2> DEFINE l == <<b, k>>
  <2>4. l[1] = b /\ l[2] = k
    OBVIOUS
  <2>5. l \in Sites /\ prog.code[l[1]][l[2]].id = id
    BY <1>1, <2>1, <2>3, <2>4
  <2> HIDE DEF l
  <2>6. QED
    BY <2>5 DEF Site
<1>3. ASSUME NEW b \in Blocks, NEW k \in DOMAIN prog.code[b]
      PROVE  LET id == prog.code[b][k].id
             IN  id \in Ids /\ Site(id)[1] = b /\ Site(id)[2] = k /\ Given(id) = prog.code[b][k]
  <2> DEFINE id == prog.code[b][k].id
  <2>1. id \in Ids
    BY DEF Ids, Original!Ids, Blocks
  <2>2. /\ Site(id)[1] \in Blocks /\ Site(id)[2] \in DOMAIN prog.code[Site(id)[1]]
        /\ prog.code[Site(id)[1]][Site(id)[2]].id = prog.code[b][k].id
    BY <1>1, <1>2, <2>1
  <2>3. Site(id)[1] = b /\ Site(id)[2] = k
    <3>1. PICK a, j : a = Site(id)[1] /\ j = Site(id)[2]
      OBVIOUS
    <3>2. a \in Blocks /\ j \in DOMAIN prog.code[a] /\ prog.code[a][j].id = prog.code[b][k].id
      BY <2>2, <3>1
    <3>3. a = b /\ j = k
      BY <3>2, ProgFacts DEF Blocks
    <3>4. QED
      BY <3>1, <3>3
  <2>4. QED
    BY <2>1, <2>3 DEF Given
<1>4. ASSUME NEW id \in Ids
      PROVE  /\ Site(id)[1] \in Blocks /\ Site(id)[2] \in DOMAIN prog.code[Site(id)[1]]
             /\ Given(id).id = id
  BY <1>1, <1>2 DEF Given
<1>5. QED
  BY <1>3, <1>4

LEMMA Among ==
  ASSUME Plain, NEW id \in Ids
  PROVE  Given(id) \in UNION {{prog.code[b][k] : k \in DOMAIN prog.code[b]} : b \in DOMAIN prog.code}
<1>1. Site(id)[1] \in DOMAIN prog.code /\ Site(id)[2] \in DOMAIN prog.code[Site(id)[1]]
  BY SiteFacts DEF Blocks
<1>2. QED
  BY <1>1 DEF Given

LEMMA WrittenIsGiven ==
  ASSUME Plain, NEW id \in Ids
  PROVE  Written(id) = Given(id)
<1>1. Given(id) \in Instructions(prog) /\ Given(id).id = id
  BY Among, SiteFacts DEF Instructions
<1>2. Written(id) \in Instructions(prog) /\ Written(id).id = id
  BY <1>1 DEF Written
<1>3. PICK b \in Blocks : \E k \in DOMAIN prog.code[b] : Written(id) = prog.code[b][k]
  BY <1>2 DEF Instructions, Blocks
<1>4. PICK k \in DOMAIN prog.code[b] : Written(id) = prog.code[b][k]
  BY <1>3
<1>5. Given(prog.code[b][k].id) = prog.code[b][k] /\ prog.code[b][k].id = id
  BY <1>2, <1>4, SiteFacts
<1>6. QED
  BY <1>4, <1>5

LEMMA DominatorsAreTransitive ==
  ASSUME NEW a, NEW b, NEW c, Dominates(prog, a, b), Dominates(prog, b, c)
  PROVE  Dominates(prog, a, c)
<1>1. PICK S \in SUBSET (DOMAIN prog.code \ {a}) :
        /\ prog.list[1] \in S \cup {a} /\ b \notin S
        /\ \A x \in S : prog.succs[x] \subseteq S \cup {a}
  BY DEF Dominates
<1>2. PICK T \in SUBSET (DOMAIN prog.code \ {b}) :
        /\ prog.list[1] \in T \cup {b} /\ c \notin T
        /\ \A x \in T : prog.succs[x] \subseteq T \cup {b}
  BY DEF Dominates
<1>3. /\ S \cap T \in SUBSET (DOMAIN prog.code \ {a})
      /\ prog.list[1] \in (S \cap T) \cup {a} /\ c \notin S \cap T
      /\ \A x \in S \cap T : prog.succs[x] \subseteq (S \cap T) \cup {a}
  BY <1>1, <1>2
<1>4. QED
  BY <1>3 DEF Dominates

LEMMA DominatorsAreOrdered ==
  ASSUME Plain, NEW a \in Blocks, NEW b, Dominates(prog, a, b), Dominates(prog, b, a)
  PROVE  a = b
<1> SUFFICES ASSUME a # b PROVE FALSE
  OBVIOUS
<1>1. PICK S \in SUBSET (DOMAIN prog.code \ {a}) :
        /\ prog.list[1] \in S \cup {a} /\ b \notin S
        /\ \A x \in S : prog.succs[x] \subseteq S \cup {a}
  BY DEF Dominates
<1>2. PICK T \in SUBSET (DOMAIN prog.code \ {b}) :
        /\ prog.list[1] \in T \cup {b} /\ a \notin T
        /\ \A x \in T : prog.succs[x] \subseteq T \cup {b}
  BY DEF Dominates
<1>3. /\ S \cap T \in SUBSET DOMAIN prog.code /\ prog.list[1] \in S \cap T
      /\ \A x \in S \cap T : prog.succs[x] \subseteq S \cap T
  BY <1>1, <1>2
<1>4. IsFlow(prog)
  BY FunctionsAssumption DEF ProgOK
<1>5. S \cap T = DOMAIN prog.code
  BY <1>3, <1>4 DEF IsFlow
<1>6. QED
  BY <1>1, <1>5 DEF Blocks

(* What dominates a block, and is not the block, dominates each predecessor. *)
LEMMA DominatorOfSource ==
  ASSUME NEW d, NEW a, NEW b \in prog.succs[a], d # b, Dominates(prog, d, b)
  PROVE  Dominates(prog, d, a)
<1>1. PICK S \in SUBSET (DOMAIN prog.code \ {d}) :
        /\ prog.list[1] \in S \cup {d} /\ b \notin S
        /\ \A x \in S : prog.succs[x] \subseteq S \cup {d}
  BY DEF Dominates
<1>2. a \notin S
  BY <1>1
<1>3. QED
  BY <1>1, <1>2 DEF Dominates

LEMMA NothingAboveFirst ==
  ASSUME Plain, NEW d \in Blocks, Dominates(prog, d, prog.list[1])
  PROVE  d = prog.list[1]
  BY FlowFacts DEF Dominates

(****************************************************************************)
(* Instructions that have been executed before a place                      *)
(****************************************************************************)
LEMMA PriorTransitive ==
  ASSUME Plain, NEW c \in Ids, NEW d \in Ids, NEW b \in Blocks, NEW k \in Nat,
         Prior(c, Site(d)[1], Site(d)[2]), Prior(d, b, k)
  PROVE  Prior(c, b, k)
<1>1. /\ Site(c)[1] \in Blocks /\ Site(d)[1] \in Blocks
      /\ Site(c)[2] \in Nat /\ Site(d)[2] \in Nat
  <2>1. /\ Site(c)[1] \in Blocks /\ Site(c)[2] \in DOMAIN prog.code[Site(c)[1]]
        /\ Site(d)[1] \in Blocks /\ Site(d)[2] \in DOMAIN prog.code[Site(d)[1]]
    BY SiteFacts
  <2>2. QED
    BY <2>1, ProgFacts DEF Blocks
<1>2. CASE Site(c)[1] = Site(d)[1] /\ Site(d)[1] = b
  BY <1>1, <1>2 DEF Prior
<1>3. CASE Site(c)[1] = Site(d)[1] /\ Site(d)[1] # b
  BY <1>3 DEF Prior
<1>4. CASE Site(c)[1] # Site(d)[1] /\ Site(d)[1] = b
  BY <1>4 DEF Prior
<1>5. CASE Site(c)[1] # Site(d)[1] /\ Site(d)[1] # b
  <2>1. Dominates(prog, Site(c)[1], Site(d)[1]) /\ Dominates(prog, Site(d)[1], b)
    BY <1>5 DEF Prior
  <2>2. Site(c)[1] # b
    BY <1>1, <1>5, <2>1, DominatorsAreOrdered
  <2>3. QED
    BY <2>1, <2>2, DominatorsAreTransitive DEF Prior
<1>6. QED
  BY <1>2, <1>3, <1>4, <1>5

LEMMA PriorIrreflexive ==
  ASSUME Plain, NEW c \in Ids
  PROVE  ~Prior(c, Site(c)[1], Site(c)[2])
<1>1. Site(c)[2] \in Nat
  BY SiteFacts, FlowFacts
<1>2. QED
  BY <1>1 DEF Prior

LEMMA PriorAntisymmetric ==
  ASSUME Plain, NEW c \in Ids, NEW d \in Ids, Prior(c, Site(d)[1], Site(d)[2])
  PROVE  ~Prior(d, Site(c)[1], Site(c)[2]) /\ c # d
<1>1. Site(c)[1] \in Blocks /\ Site(c)[2] \in Nat
  BY SiteFacts, FlowFacts
<1>2. QED
  BY <1>1, PriorTransitive, PriorIrreflexive

LEMMA PriorNext ==
  ASSUME Plain, NEW b \in Blocks, NEW k \in DOMAIN prog.code[b], NEW c \in Ids
  PROVE  Prior(c, b, k + 1) <=> (Prior(c, b, k) \/ c = prog.code[b][k].id)
<1>1. k \in Nat /\ Site(c)[2] \in Nat
  BY SiteFacts, FlowFacts
<1>2. CASE Site(c)[1] # b
  BY <1>2, SiteFacts DEF Prior
<1>3. CASE Site(c)[1] = b
  <2>1. Site(c)[2] = k <=> c = prog.code[b][k].id
    BY <1>3, SiteFacts DEF Given
  <2>2. QED
    BY <1>1, <1>3, <2>1 DEF Prior
<1>4. QED
  BY <1>2, <1>3

LEMMA PriorAcross ==
  ASSUME Plain, NEW a \in Blocks, NEW b \in prog.succs[a], NEW c \in Ids, Prior(c, b, 1)
  PROVE  Prior(c, a, End(a))
<1>1. Site(c)[1] \in Blocks /\ Site(c)[2] \in 1 .. Len(prog.code[Site(c)[1]]) /\ b \in Blocks
  BY SiteFacts, FlowFacts
<1>2. Site(c)[1] # b /\ Dominates(prog, Site(c)[1], b)
  BY <1>1 DEF Prior
<1>3. Dominates(prog, Site(c)[1], a)
  BY <1>2, DominatorOfSource
<1>4. Site(c)[1] = a => Site(c)[2] < End(a)
  BY <1>1, FlowFacts DEF End
<1>5. QED
  BY <1>3, <1>4 DEF Prior

LEMMA NothingPriorToStart ==
  ASSUME Plain, NEW c \in Ids
  PROVE  ~Prior(c, prog.list[1], 1)
<1>1. Site(c)[1] \in Blocks /\ Site(c)[2] \in 1 .. Len(prog.code[Site(c)[1]])
  BY SiteFacts, FlowFacts
<1>2. CASE Site(c)[1] = prog.list[1]
  BY <1>1, <1>2, FlowFacts DEF Prior
<1>3. CASE Site(c)[1] # prog.list[1]
  BY <1>1, <1>3, NothingAboveFirst DEF Prior
<1>4. QED
  BY <1>2, <1>3

(* What is executed by the end of a block is, wherever the block dominates. *)
LEMMA PriorBelow ==
  ASSUME Plain, NEW a \in Blocks, NEW b \in Blocks, a # b, Dominates(prog, a, b),
         NEW c \in Ids, Prior(c, a, End(a))
  PROVE  Prior(c, b, 1)
<1>1. Site(c)[1] \in Blocks
  BY SiteFacts
<1>2. CASE Site(c)[1] = a
  BY <1>2 DEF Prior
<1>3. CASE Site(c)[1] # a
  <2>1. Dominates(prog, Site(c)[1], a)
    BY <1>3 DEF Prior
  <2>2. Site(c)[1] # b
    BY <1>1, <2>1, DominatorsAreOrdered
  <2>3. QED
    BY <2>1, <2>2, DominatorsAreTransitive DEF Prior
<1>4. QED
  BY <1>2, <1>3

(****************************************************************************)
(* Instructions and their operands                                          *)
(****************************************************************************)
OperandsOf(id) == {Given(id).x, Given(id).y} \cap Ids

LEMMA OperandsBefore ==
  ASSUME Plain, NEW id \in Ids, NEW v \in OperandsOf(id)
  PROVE  /\ Prior(v, Site(id)[1], Site(id)[2])
         /\ \/ Site(v)[1] = Site(id)[1] /\ Site(v)[2] < Site(id)[2]
            \/ Site(v)[1] # Site(id)[1] /\ Listed(prog, Site(v)[1], Site(id)[1])
<1> DEFINE b == Site(id)[1]
           k == Site(id)[2]
           c == Site(v)[1]
           j == Site(v)[2]
<1>1. v \in Ids /\ v \in {Given(id).x, Given(id).y}
  BY DEF OperandsOf
<1>2. /\ b \in Blocks /\ k \in DOMAIN prog.code[b] /\ Given(id) = prog.code[b][k]
      /\ c \in Blocks /\ j \in DOMAIN prog.code[c] /\ prog.code[c][j].id = v
  BY <1>1, SiteFacts DEF Given
<1>3. InSSA(prog) /\ OperandsListed(prog)
  BY RewrittenAssumption DEF ProgOK
<1>4. prog.code[c][j].id \in {prog.code[b][k].x, prog.code[b][k].y}
  BY <1>1, <1>2
<1> HIDE DEF b, k, c, j
<1>5. IF c = b THEN j < k ELSE Dominates(prog, c, b) /\ Listed(prog, c, b)
  BY <1>2, <1>3, <1>4 DEF InSSA, OperandsListed, Blocks
<1>6. QED
  BY <1>5 DEF Prior, b, k, c, j

LEMMA KindFacts ==
  ASSUME Plain, NEW id \in Ids
  PROVE  /\ Given(id) = [id |-> id, kind |-> Given(id).kind, x |-> Given(id).x, y |-> Given(id).y]
         /\ Given(id).kind \in {"op", "cmp", "gep", "load", "store", "call", "ret"}
         /\ Given(id).kind = "gep" => /\ Given(id).x \in {"G", "L", "A"}
                                      /\ Given(id).x \notin Ids
         /\ Given(id).kind = "load" =>
              Given(id).x = "S" \/ (Given(id).x \in Ids /\ Given(Given(id).x).kind = "gep")
         /\ Given(id).kind = "store" =>
              Given(id).y = "S" \/ (Given(id).y \in Ids /\ Given(Given(id).y).kind = "gep")
         /\ Given(id).kind = "call" => Given(id).x \notin Ids
         /\ id \in prog.moved => Given(id).kind \in {"op", "cmp", "gep"}
<1> DEFINE n == Given(id)
<1>1. /\ Site(id)[1] \in DOMAIN prog.code /\ Site(id)[2] \in DOMAIN prog.code[Site(id)[1]]
      /\ n.id = id /\ n = prog.code[Site(id)[1]][Site(id)[2]]
  BY SiteFacts DEF Blocks, Given
<1>2. n = [id |-> n.id, kind |-> n.kind, x |-> n.x, y |-> n.y]
  BY <1>1, ProgramsAssumption DEF ProgOK
<1>3. IsInstruction(prog, n)
  BY Among, FunctionsAssumption DEF Instructions, ProgOK
<1>4. (DOMAIN prog.funs \cup {"S", "G", "L", "A"}) \cap Ids = {}
  BY FunctionsAssumption DEF ProgOK, Ids
<1>5. ASSUME NEW x, \E i \in Instructions(prog) : i.id = x /\ i.kind = "gep"
      PROVE  x \in Ids /\ Given(x).kind = "gep"
  <2>1. PICK b \in Blocks : \E k \in DOMAIN prog.code[b] :
          prog.code[b][k].id = x /\ prog.code[b][k].kind = "gep"
    BY <1>5 DEF Instructions, Blocks
  <2>2. QED
    BY <2>1, SiteFacts
<1> HIDE DEF n
<1>6. /\ n.kind \in {"op", "cmp", "gep", "load", "store", "call", "ret"}
      /\ n.kind = "gep" => n.x \in {"G", "L", "A"}
      /\ n.kind = "load" => n.x = "S" \/ (n.x \in Ids /\ Given(n.x).kind = "gep")
      /\ n.kind = "store" => n.y = "S" \/ (n.y \in Ids /\ Given(n.y).kind = "gep")
      /\ n.kind = "call" => n.x \in DOMAIN prog.funs
      /\ id \in prog.moved => n.kind \in {"op", "cmp", "gep"}
  BY <1>1, <1>3, <1>5 DEF IsInstruction, Ids
<1>7. QED
  BY <1>1, <1>2, <1>4, <1>6 DEF n

LEMMA NamesApart ==
  ASSUME Plain
  PROVE  /\ "S" \notin Ids /\ "G" \notin Ids /\ "L" \notin Ids /\ "A" \notin Ids
         /\ "S" \notin Phis /\ "G" \notin Phis /\ "L" \notin Phis /\ "A" \notin Phis
         /\ prog.alias \in {"A", "G"} /\ Phis \cap Ids = {}
         /\ \A x : IsConstant(x) => x \notin Ids \cup Phis \cup {"S", "G", "L", "A"}
         /\ \A m, n \in Ids :
              /\ Given(m).kind = "gep" /\ Given(m).x = "A"
              /\ Given(n).kind = "gep" /\ Given(n).x = "A"
              /\ Alike(prog, prog.beyond[m], prog.beyond[n])
              => Alike(prog, Given(m).y, Given(n).y)
<1>1. /\ (DOMAIN prog.funs \cup {"S", "G", "L", "A"}) \cap Registers = {}
      /\ DOMAIN prog.value \cap ({"S", "G", "L", "A"} \cup Registers) = {} /\ Phis \cap Ids = {}
      /\ prog.alias \in {"A", "G"}
  BY FunctionsAssumption DEF ProgOK, Ids, Phis, Registers
<1> DEFINE geps == {n \in Instructions(prog) : n.kind = "gep" /\ n.x = "A"}
<1>2. \A m, n \in geps :
         Alike(prog, prog.beyond[m.id], prog.beyond[n.id]) => Alike(prog, m.y, n.y)
  BY RewrittenAssumption DEF ProgOK
<1>3. \A m \in Ids : Given(m) \in Instructions(prog) /\ Given(m).id = m
  BY Among, SiteFacts DEF Instructions
<1>4. \A m \in Ids : Given(m).kind = "gep" /\ Given(m).x = "A" => Given(m) \in geps
  BY <1>3
<1> HIDE DEF geps
<1>5. \A m, n \in Ids :
         /\ Given(m).kind = "gep" /\ Given(m).x = "A"
         /\ Given(n).kind = "gep" /\ Given(n).x = "A"
         /\ Alike(prog, prog.beyond[m], prog.beyond[n])
         => Alike(prog, Given(m).y, Given(n).y)
  BY <1>2, <1>3, <1>4
<1>6. QED
  BY <1>1, <1>5 DEF IsConstant, Registers

(* What an instruction looks like now. *)
LEMMA NowFacts ==
  ASSUME Plain, NEW id \in Ids, NEW rep
  PROVE  /\ Now(id, rep).id = id /\ Now(id, rep).kind = Given(id).kind
         /\ Now(id, rep).x = IF Given(id).x \in Ids /\ id \notin prog.moved
                             THEN rep[Given(id).x] ELSE Given(id).x
         /\ Now(id, rep).y = IF Given(id).y \in Ids /\ id \notin prog.moved
                             THEN rep[Given(id).y] ELSE Given(id).y
         /\ Now(id, rep) = [id |-> id, kind |-> Given(id).kind,
                            x |-> Now(id, rep).x, y |-> Now(id, rep).y]
  BY DEF Now

LEMMA NowStays ==
  ASSUME Plain, NEW id \in Ids, NEW rep, NEW new, \A v \in OperandsOf(id) : new[v] = rep[v]
  PROVE  Now(id, new) = Now(id, rep)
<1>1. /\ Given(id).x \in Ids => new[Given(id).x] = rep[Given(id).x]
      /\ Given(id).y \in Ids => new[Given(id).y] = rep[Given(id).y]
  BY DEF OperandsOf
<1>2. Now(id, new).x = Now(id, rep).x /\ Now(id, new).y = Now(id, rep).y
  BY <1>1, NowFacts
<1>3. QED
  BY <1>2, NowFacts

(****************************************************************************)
(* What the walk has still to come to                                       *)
(****************************************************************************)
LEMMA TodoFacts ==
  ASSUME ProgOK, WalkInv, TodoInv, Walking
  PROVE  /\ Len(todo) \in Nat /\ DOMAIN todo = 1 .. Len(todo)
         /\ \A i \in DOMAIN todo : todo[i] \in Blocks
         /\ \A i, j \in DOMAIN todo : todo[i] = todo[j] => i = j
         /\ \A i \in DOMAIN todo : \A q \in DOMAIN prog.list :
              \A p \in DOMAIN prog.list : p < q /\ prog.list[p] = todo[i] =>
                \E j \in DOMAIN todo : j > i /\ todo[j] = prog.list[q]
<1>1. /\ Len(todo) \in Nat /\ DOMAIN todo = 1 .. Len(todo)
      /\ \A i \in DOMAIN todo : todo[i] \in Blocks
      /\ \A i, j \in DOMAIN todo : todo[i] = todo[j] => i = j
  <2>1. todo \in Seq(DOMAIN prog.code) /\ \A i, j \in DOMAIN todo : todo[i] = todo[j] => i = j
    BY DEF WalkInv
  <2>2. QED
    BY <2>1 DEF Blocks
<1>2. ASSUME NEW i \in DOMAIN todo, NEW q \in DOMAIN prog.list, NEW p \in DOMAIN prog.list,
             p < q, prog.list[p] = todo[i]
      PROVE  \E j \in DOMAIN todo : j > i /\ todo[j] = prog.list[q]
  <2> DEFINE d == Len(prog.list) - Len(todo)
  <2>1. Len(prog.list) \in Nat /\ DOMAIN prog.list = 1 .. Len(prog.list)
    BY FlowFacts
  <2>2. Len(todo) <= Len(prog.list) /\ \A j \in DOMAIN todo : todo[j] = prog.list[d + j]
    BY DEF TodoInv
  <2>3. d \in Nat /\ i \in Nat /\ p \in Nat /\ q \in Nat
    BY <1>1, <2>1, <2>2
  <2>4. d + i \in DOMAIN prog.list
    BY <1>1, <2>1, <2>2, <2>3
  <2>5. p = d + i
    BY <1>2, <2>2, <2>4, FlowFacts
  <2>6. q - d \in DOMAIN todo /\ q - d > i /\ d + (q - d) = q
    BY <1>1, <1>2, <2>1, <2>3, <2>5
  <2>7. todo[q - d] = prog.list[d + (q - d)]
    BY <2>2, <2>6
  <2>8. QED
    BY <2>6, <2>7
<1>3. QED
  BY <1>1, <1>2

(* Nothing that lies behind reads what the walk has still to come to. *)
LEMMA OperandsDone ==
  ASSUME Plain, WalkInv, TodoInv, NEW id \in Ids, NEW v \in OperandsOf(id),
         id \notin Future \/ (Visiting /\ id = prog.code[Head(todo)][pos].id)
  PROVE  v \in Ids \ Future
<1>1. v \in Ids
  BY DEF OperandsOf
<1> SUFFICES ASSUME v \in Future PROVE FALSE
  BY <1>1
<1>2. Walking
  BY DEF Future
<1>3. PICK i \in DOMAIN todo : /\ Site(v)[1] = todo[i]
                               /\ phase = "visit" /\ i = 1 => Site(v)[2] >= pos
  BY DEF Future
<1>4. Site(id)[2] \in Nat /\ Site(v)[2] \in Nat /\ i \in Nat
  <2>1. i \in Nat
    BY <1>2, TodoFacts
  <2>2. /\ Site(id)[1] \in Blocks /\ Site(id)[2] \in DOMAIN prog.code[Site(id)[1]]
        /\ Site(v)[1] \in Blocks /\ Site(v)[2] \in DOMAIN prog.code[Site(v)[1]]
    BY <1>1, SiteFacts
  <2>3. QED
    BY <2>1, <2>2, ProgFacts DEF Blocks
<1>5. phase = "visit" => pos \in Nat
  BY DEF WalkInv
<1>6. Visiting /\ id = prog.code[Head(todo)][pos].id =>
        /\ phase = "visit" /\ Site(id)[1] = todo[1] /\ Site(id)[2] = pos /\ 1 \in DOMAIN todo
  <2> SUFFICES ASSUME Visiting, id = prog.code[Head(todo)][pos].id
               PROVE  /\ phase = "visit" /\ Site(id)[1] = todo[1] /\ Site(id)[2] = pos
                      /\ 1 \in DOMAIN todo
    OBVIOUS
  <2>1. phase = "visit" /\ todo # <<>> /\ todo \in Seq(DOMAIN prog.code)
    BY DEF Visiting, WalkInv
  <2>2. Head(todo) = todo[1] /\ 1 \in DOMAIN todo /\ todo[1] \in Blocks
    BY <2>1 DEF Blocks
  <2>3. pos \in DOMAIN prog.code[todo[1]]
    BY <2>2 DEF Visiting
  <2>4. QED
    BY <2>1, <2>2, <2>3, SiteFacts
<1>7. CASE Site(v)[1] = Site(id)[1] /\ Site(v)[2] < Site(id)[2]
  <2>1. id \in Future
    <3>1. phase = "visit" /\ i = 1 => Site(id)[2] >= pos
      BY <1>3, <1>4, <1>5, <1>7
    <3>2. QED
      BY <1>2, <1>3, <1>7, <3>1 DEF Future
  <2>2. Site(id)[1] = todo[1] => i = 1
    BY <1>2, <1>3, <1>6, <1>7, <2>1, TodoFacts
  <2>3. QED
    BY <1>3, <1>4, <1>5, <1>6, <1>7, <2>1, <2>2
<1>8. CASE Site(v)[1] # Site(id)[1] /\ Listed(prog, Site(v)[1], Site(id)[1])
  <2>1. PICK p \in DOMAIN prog.list, q \in DOMAIN prog.list :
          p < q /\ prog.list[p] = Site(v)[1] /\ prog.list[q] = Site(id)[1]
    BY <1>8 DEF Listed
  <2>2. PICK j \in DOMAIN todo : j > i /\ todo[j] = Site(id)[1]
    BY <1>2, <1>3, <2>1, TodoFacts
  <2>3. j \in Nat /\ i \in Nat /\ i >= 1
    BY <1>2, TodoFacts
  <2>4. j # 1
    BY <2>2, <2>3
  <2>5. id \in Future
    BY <1>2, <2>2, <2>4 DEF Future
  <2>6. QED
    BY <1>2, <1>6, <2>2, <2>4, <2>5, TodoFacts
<1>9. QED
  BY <1>7, <1>8, OperandsBefore

(* What is said of the function given is said of it in every state. *)
LEMMA SameProgram ==
  ASSUME UNCHANGED prog
  PROVE  /\ Blocks' = Blocks /\ Ids' = Ids
         /\ \A b : End(b)' = End(b) /\ Preds(b)' = Preds(b)
         /\ \A id : Site(id)' = Site(id) /\ Given(id)' = Given(id)
         /\ \A id, b, k : Prior(id, b, k)' <=> Prior(id, b, k)
         /\ \A id, rep : Now(id, rep)' = Now(id, rep)
         /\ \A n : KeyOf(n)' = KeyOf(n)
         /\ \A x, y : MayAlias(x, y)' <=> MayAlias(x, y)
         /\ Phis' = Phis /\ Registers' = Registers /\ \A w, rep : PhiNow(w, rep)' = PhiNow(w, rep)
<1>1. Blocks' = Blocks /\ Ids' = Ids /\ Phis' = Phis /\ Registers' = Registers
  BY DEF Blocks, Ids, Phis, Registers
<1>2. \A b : End(b)' = End(b) /\ Preds(b)' = Preds(b)
  BY DEF End, Preds
<1>3. \A id : Site(id)' = Site(id)
  BY <1>1 DEF Site, Sites
<1>4. \A id : Given(id)' = Given(id)
  BY <1>3 DEF Given
<1>5. \A id, b, k : Prior(id, b, k)' <=> Prior(id, b, k)
  BY <1>3 DEF Prior
<1>6. \A id, rep : Now(id, rep)' = Now(id, rep)
  BY <1>1, <1>4 DEF Now
<1>7. \A n : KeyOf(n)' = KeyOf(n)
  BY DEF KeyOf, IsConstant, Index
<1>8. \A x, y : MayAlias(x, y)' <=> MayAlias(x, y)
  BY <1>1, <1>4 DEF MayAlias, BaseOf
<1>9. \A w, rep : PhiNow(w, rep)' = PhiNow(w, rep)
  BY <1>1 DEF PhiNow
<1>10. QED
  BY <1>1, <1>2, <1>3, <1>4, <1>5, <1>6, <1>7, <1>8, <1>9

(****************************************************************************)
(* Instructions as they are now                                             *)
(****************************************************************************)
(* What stands for an operand was computed before, in the same way. *)
LEMMA OperandNow ==
  ASSUME Plain, WalkInv, TodoInv, NEW rep, NEW held, ReplacedInv(rep, held),
         NEW id \in Ids, NEW v \in OperandsOf(id)
  PROVE  /\ v \in Ids /\ rep[v] \in Ids /\ rep[rep[v]] = rep[v]
         /\ Prior(rep[v], Site(id)[1], Site(id)[2])
         /\ Given(rep[v]).kind = Given(v).kind
         /\ v \notin Future => rep[v] \notin Future
<1>1. v \in Ids /\ rep \in [Ids -> Ids]
  BY DEF OperandsOf, ReplacedInv
<1>2. Prior(v, Site(id)[1], Site(id)[2])
  BY OperandsBefore
<1>3. CASE rep[v] = v
  BY <1>1, <1>2, <1>3
<1>4. CASE rep[v] # v
  <2>1. /\ rep[rep[v]] = rep[v] /\ Prior(rep[v], Site(v)[1], Site(v)[2]) /\ rep[v] \notin Future
        /\ Now(v, rep).kind = Now(rep[v], rep).kind
    BY <1>1, <1>4 DEF ReplacedInv
  <2>2. Given(rep[v]).kind = Given(v).kind
    BY <1>1, <2>1, NowFacts
  <2>3. Site(id)[1] \in Blocks /\ Site(id)[2] \in Nat
    BY SiteFacts, FlowFacts
  <2>4. Prior(rep[v], Site(id)[1], Site(id)[2])
    BY <1>1, <1>2, <2>1, <2>3, PriorTransitive
  <2>5. QED
    BY <1>1, <2>1, <2>2, <2>4
<1>5. QED
  BY <1>3, <1>4

(* An address is S or what a gep has computed before. *)
IsAddress(x, b, k, rep) ==
  \/ x = "S" /\ x \notin Ids
  \/ x \in Ids /\ Given(x).kind = "gep" /\ rep[x] = x /\ Prior(x, b, k)

LEMMA AddressNow ==
  ASSUME Plain, WalkInv, TodoInv, NEW rep, NEW held, ReplacedInv(rep, held), NEW id \in Ids
  PROVE  /\ Given(id).kind = "load" =>
              /\ IsAddress(Now(id, rep).x, Site(id)[1], Site(id)[2], rep)
              /\ Now(id, rep).x = "S" <=> Given(id).x = "S"
         /\ Given(id).kind = "store" =>
              /\ IsAddress(Now(id, rep).y, Site(id)[1], Site(id)[2], rep)
              /\ Now(id, rep).y = "S" <=> Given(id).y = "S"
<1>1. "S" \notin Ids /\ (Given(id).kind \in {"load", "store"} => id \notin prog.moved)
  BY KindFacts, NamesApart
<1>2. ASSUME NEW v \in OperandsOf(id), Given(v).kind = "gep"
      PROVE  IsAddress(rep[v], Site(id)[1], Site(id)[2], rep) /\ rep[v] # "S"
  BY <1>1, <1>2, OperandNow DEF IsAddress
<1>3. CASE Given(id).kind = "load"
  <2>1. CASE Given(id).x = "S"
    BY <1>1, <1>3, <2>1, NowFacts DEF IsAddress
  <2>2. CASE Given(id).x # "S"
    <3>1. Given(id).x \in OperandsOf(id) /\ Given(Given(id).x).kind = "gep"
      BY <1>3, <2>2, KindFacts DEF OperandsOf
    <3>2. Now(id, rep).x = rep[Given(id).x]
      BY <1>1, <1>3, <3>1, NowFacts DEF OperandsOf
    <3>3. QED
      BY <1>2, <1>3, <2>2, <3>1, <3>2
  <2>3. QED
    BY <2>1, <2>2
<1>4. CASE Given(id).kind = "store"
  <2>1. CASE Given(id).y = "S"
    BY <1>1, <1>4, <2>1, NowFacts DEF IsAddress
  <2>2. CASE Given(id).y # "S"
    <3>1. Given(id).y \in OperandsOf(id) /\ Given(Given(id).y).kind = "gep"
      BY <1>4, <2>2, KindFacts DEF OperandsOf
    <3>2. Now(id, rep).y = rep[Given(id).y]
      BY <1>1, <1>4, <3>1, NowFacts DEF OperandsOf
    <3>3. QED
      BY <1>2, <1>4, <2>2, <3>1, <3>2
  <2>3. QED
    BY <2>1, <2>2
<1>5. QED
  BY <1>3, <1>4

(****************************************************************************)
(* The walk visits an instruction                                           *)
(****************************************************************************)
(* The instruction the walk is at. *)
Here == prog.code[Head(todo)][pos].id

LEMMA HereFacts ==
  ASSUME Plain, WalkInv, TodoInv, Visiting
  PROVE  /\ Here \in Ids /\ Here \in Future /\ Site(Here)[1] = Head(todo) /\ Site(Here)[2] = pos
         /\ Head(todo) \in Blocks /\ pos \in DOMAIN prog.code[Head(todo)] /\ pos \in Nat \ {0}
         /\ phase = "visit" /\ todo # <<>> /\ todo[1] = Head(todo)
         /\ \A id \in Ids : Site(id)[1] = Head(todo) /\ Site(id)[2] = pos => id = Here
<1>1. phase = "visit" /\ todo # <<>> /\ todo \in Seq(DOMAIN prog.code) /\ pos \in Nat /\ Walking
  BY DEF Visiting, WalkInv, Walking
<1>2. Head(todo) = todo[1] /\ 1 \in DOMAIN todo /\ todo[1] \in Blocks
  BY <1>1 DEF Blocks
<1>3. Head(todo) \in Blocks /\ pos \in DOMAIN prog.code[Head(todo)]
  BY <1>2 DEF Visiting
<1>4. pos # 0
  BY <1>1, <1>3, FlowFacts
<1>5. Here \in Ids /\ Site(Here)[1] = Head(todo) /\ Site(Here)[2] = pos
  BY <1>3, SiteFacts DEF Here
<1>6. Here \in Future
  BY <1>1, <1>2, <1>5 DEF Future
<1>7. \A id \in Ids : Site(id)[1] = Head(todo) /\ Site(id)[2] = pos => id = Here
  BY SiteFacts DEF Here, Given
<1>8. QED
  BY <1>1, <1>2, <1>3, <1>4, <1>5, <1>6, <1>7

(* Visiting an instruction takes it, and nothing else, from what is to come. *)
LEMMA FutureOnVisit ==
  ASSUME Plain, WalkInv, TodoInv, Visiting, pos' = pos + 1, UNCHANGED <<prog, phase, todo>>
  PROVE  Future' = Future \ {Here}
<1>1. phase = "visit" /\ Walking /\ pos \in Nat /\ 1 \in DOMAIN todo /\ Head(todo) = todo[1]
  <2>1. Walking
    BY HereFacts DEF Walking
  <2>2. QED
    BY <2>1, HereFacts, TodoFacts
<1>2. Ids' = Ids /\ \A id : Site(id)' = Site(id)
  BY SameProgram
<1>3. \A id \in Ids : id \in Future <=>
        \E i \in DOMAIN todo : Site(id)[1] = todo[i] /\ (i = 1 => Site(id)[2] >= pos)
  BY <1>1 DEF Future
<1>4. \A id \in Ids : id \in Future' <=>
        \E i \in DOMAIN todo : Site(id)[1] = todo[i] /\ (i = 1 => Site(id)[2] >= pos + 1)
  BY <1>1, <1>2 DEF Future, Walking
<1>5. \A i \in DOMAIN todo : todo[i] = Head(todo) <=> i = 1
  BY <1>1, TodoFacts
<1>6. ASSUME NEW id \in Ids
      PROVE  id \in Future' <=> id \in Future /\ id # Here
  <2>1. Site(id)[2] \in Nat
    BY SiteFacts, FlowFacts
  <2>2. CASE Site(id)[1] = Head(todo)
    <3>1. id \in Future <=> Site(id)[2] >= pos
      BY <1>1, <1>3, <1>5, <2>2
    <3>2. id \in Future' <=> Site(id)[2] >= pos + 1
      BY <1>1, <1>4, <1>5, <2>2
    <3>3. id = Here <=> Site(id)[2] = pos
      BY <2>2, HereFacts
    <3>4. QED
      BY <1>1, <2>1, <3>1, <3>2, <3>3
  <2>3. CASE Site(id)[1] # Head(todo)
    BY <1>3, <1>4, <1>5, <2>3, HereFacts
  <2>4. QED
    BY <2>2, <2>3
<1>7. Future \subseteq Ids /\ Future' \subseteq Ids
  BY <1>2 DEF Future
<1>8. QED
  BY <1>6, <1>7

LEMMA CurrentNow ==
  ASSUME Plain, WalkInv, TodoInv, Visiting, NEW rep, NEW held, ReplacedInv(rep, held)
  PROVE  Current = Now(Here, rep) /\ Current.id = Here /\ Current.kind = Given(Here).kind
<1>1. Current = code[Here] /\ Here \in DOMAIN code
  BY AtCurrent DEF Here, Untouched, Left
<1>2. Current = Now(Here, rep)
  BY <1>1 DEF ReplacedInv
<1>3. QED
  BY <1>2, HereFacts, NowFacts

(* What it is replaced by does not change what lies behind. *)
LEMMA NowBehind ==
  ASSUME Plain, WalkInv, TodoInv, Visiting, NEW rep, NEW new,
         \A id \in Ids : id # Here => new[id] = rep[id],
         NEW id \in Ids, id \notin Future \/ id = Here
  PROVE  Now(id, new) = Now(id, rep)
<1>1. \A v \in OperandsOf(id) : v \in Ids \ Future
  BY OperandsDone DEF Here
<1>2. \A v \in OperandsOf(id) : new[v] = rep[v]
  BY <1>1, HereFacts
<1>3. QED
  BY <1>2, NowStays

(* The address it reads was computed by an instruction left behind. *)
LEMMA AddressDone ==
  ASSUME Plain, WalkInv, TodoInv, Visiting, NEW rep, NEW held, ReplacedInv(rep, held),
         Current.kind = "load"
  PROVE  IsAddress(Current.x, Head(todo), pos, rep) /\ Current.x \notin Future
<1>1. Current = Now(Here, rep) /\ Given(Here).kind = "load" /\ Here \in Ids
  BY CurrentNow, HereFacts
<1>2. IsAddress(Current.x, Head(todo), pos, rep)
  BY <1>1, AddressNow, HereFacts
<1>3. CASE Given(Here).x \in OperandsOf(Here) /\ Here \notin prog.moved
  <2>1. Given(Here).x \in Ids \ Future
    BY <1>1, <1>3, OperandsDone DEF Here
  <2>2. rep[Given(Here).x] \notin Future
    BY <1>1, <1>3, <2>1, OperandNow
  <2>3. QED
    BY <1>1, <1>2, <2>1, <2>2, NowFacts
<1>4. CASE Given(Here).x \notin Ids
  <2>1. Current.x = Given(Here).x
    BY <1>1, <1>4, NowFacts
  <2>2. QED
    BY <1>2, <1>4, <2>1 DEF Future
<1>5. Here \notin prog.moved
  BY <1>1, KindFacts
<1>6. QED
  BY <1>3, <1>4, <1>5 DEF OperandsOf

(* Behind the instruction now is held. *)
Entered(h, held, now) ==
  /\ DOMAIN h = DOMAIN held /\ h[<<Head(todo), pos + 1>>] = now
  /\ \A l \in DOMAIN held : l # <<Head(todo), pos + 1>> => h[l] = held[l]

(* Visiting an instruction keeps what is said of the loads that are held.   *)
LEMMA VisitHeld ==
  ASSUME Plain, WalkInv, Visiting, NEW rep, NEW held,
         HeldInv(rep, held), ReplacedInv(rep, held), OffersInv(rep, held),
         pos' = pos + 1, UNCHANGED <<prog, phase, sideEffect, todo>>,
         NEW new, \A id \in Ids : id # Here => new[id] = rep[id],
         NEW now, NEW h, Entered(h, held, now),
         \A e \in now :
           \/ Current.kind = "load" /\ e = <<Current.x, Here>>
           \/ /\ e \in held[<<Head(todo), pos>>]
              /\ Current.kind = "store" => ~MayAlias(e[1], Current.y)
              /\ Current.kind = "call" => Current.x \notin sideEffect
  PROVE  HeldInv(new, h)' /\ \A l \in DOMAIN held : held[l] \subseteq h[l]
<1> DEFINE b == Head(todo)
           there == <<b, pos + 1>>
<1>1. /\ TodoInv /\ Walking
      /\ \A id \in Future : rep[id] = id /\ held[<<Site(id)[1], Site(id)[2] + 1>>] = {}
  BY HereFacts DEF OffersInv, Walking
<1>2. /\ Here \in Ids /\ Here \in Future /\ Site(Here)[1] = b /\ Site(Here)[2] = pos
      /\ b \in Blocks /\ pos \in DOMAIN prog.code[b] /\ pos \in Nat \ {0}
      /\ \A id \in Ids : Site(id)[1] = b /\ Site(id)[2] = pos => id = Here
  BY <1>1, HereFacts
<1>3. Future' = Future \ {Here}
  BY <1>1, FutureOnVisit
<1>4. /\ DOMAIN held = UNION {{c} \X (1 .. End(c)) : c \in Blocks}
      /\ held[<<prog.list[1], 1>>] = {}
  BY DEF HeldInv
<1>5. \A c \in Blocks : \A k \in 1 .. End(c) : <<c, k>> \in DOMAIN held
  BY <1>4
<1>6. \A c \in Blocks : Len(prog.code[c]) \in Nat /\ DOMAIN prog.code[c] = 1 .. Len(prog.code[c])
  BY FlowFacts
<1>7. there \in DOMAIN held /\ <<b, pos>> \in DOMAIN held
  <2>1. pos + 1 \in 1 .. End(b) /\ pos \in 1 .. End(b)
    BY <1>2, <1>6 DEF End
  <2>2. QED
    BY <1>2, <1>5, <2>1
<1>8. held[there] = {}
  BY <1>1, <1>2
<1>9. /\ DOMAIN h = DOMAIN held /\ h[there] = now
      /\ \A l \in DOMAIN held : l # there => h[l] = held[l]
  BY DEF Entered
<1>10. \A l \in DOMAIN held : held[l] \subseteq h[l]
  BY <1>8, <1>9
<1>11. h[<<b, pos>>] = held[<<b, pos>>]
  <2>1. <<b, pos>> # there
    BY <1>2
  <2>2. QED
    BY <1>7, <1>9, <2>1
<1> HIDE DEF there
<1>12. ASSUME NEW id \in Ids, id \notin Future \/ id = Here PROVE Now(id, new) = Now(id, rep)
  BY <1>1, <1>12, NowBehind
<1>13. Current = Now(Here, rep)
  BY <1>1, CurrentNow
<1>14. /\ h[<<prog.list[1], 1>>] = {}
       /\ \A c \in Blocks : <<c, 1>> # there
  <2>1. \A c \in Blocks : <<c, 1>> # there
    BY <1>2 DEF there
  <2>2. prog.list[1] \in Blocks /\ 1 \in 1 .. End(prog.list[1])
    BY FlowFacts DEF End
  <2>3. QED
    BY <1>4, <1>5, <1>9, <2>1, <2>2
<1>15. ASSUME NEW l \in DOMAIN held, NEW e \in h[l]
       PROVE  /\ e = <<e[1], e[2]>> /\ e[2] \in Ids /\ Prior(e[2], l[1], l[2])
              /\ IF e[1] \in Ids
                 THEN /\ Given(e[1]).kind = "gep" /\ new[e[1]] = e[1]
                      /\ e[1] \notin Future' /\ Prior(e[1], l[1], l[2])
                 ELSE e[1] = "S"
  <2>1. ASSUME NEW m \in DOMAIN held, e \in held[m]
        PROVE  /\ e = <<e[1], e[2]>> /\ e[2] \in Ids /\ Prior(e[2], m[1], m[2])
               /\ IF e[1] \in Ids
                  THEN /\ Given(e[1]).kind = "gep" /\ new[e[1]] = e[1]
                       /\ e[1] \notin Future' /\ Prior(e[1], m[1], m[2])
                  ELSE e[1] = "S"
    <3>1. /\ e = <<e[1], e[2]>> /\ e[2] \in Ids /\ Prior(e[2], m[1], m[2])
          /\ IF e[1] \in Ids
             THEN /\ Given(e[1]).kind = "gep" /\ rep[e[1]] = e[1]
                  /\ e[1] \notin Future /\ Prior(e[1], m[1], m[2])
             ELSE e[1] = "S"
      BY <2>1 DEF HeldInv
    <3>2. e[1] \in Ids => e[1] # Here
      BY <1>2, <3>1
    <3>3. QED
      BY <1>3, <3>1, <3>2
  <2>2. CASE e \in held[l]
    BY <2>1, <2>2
  <2>3. CASE e \notin held[l]
    <3>1. l = there /\ e \in now
      BY <1>9, <2>3
    <3>2. l[1] = b /\ l[2] = pos + 1
      BY <3>1 DEF there
    <3>3. \A c \in Ids : Prior(c, b, pos) \/ c = Here => Prior(c, l[1], l[2])
      BY <1>2, <3>2, PriorNext DEF Here
    <3>4. CASE Current.kind = "load" /\ e = <<Current.x, Here>>
      <4>1. e[1] = Current.x /\ e[2] = Here
        BY <3>4
      <4>2. IsAddress(Current.x, b, pos, rep) /\ Current.x \notin Future
        BY <1>1, <3>4, AddressDone
      <4>3. Current.x # Here
        BY <1>2, <4>2
      <4>4. IF Current.x \in Ids
            THEN /\ Given(Current.x).kind = "gep" /\ rep[Current.x] = Current.x
                 /\ Prior(Current.x, b, pos)
            ELSE Current.x = "S"
        BY <4>2 DEF IsAddress
      <4>5. QED
        BY <1>2, <1>3, <3>3, <3>4, <4>1, <4>2, <4>3, <4>4
    <3>5. CASE e \in held[<<b, pos>>]
      <4> DEFINE m == <<b, pos>>
      <4>1. m \in DOMAIN held /\ m[1] = b /\ m[2] = pos /\ e \in held[m]
        BY <1>7, <3>5
      <4> HIDE DEF m
      <4>2. QED
        BY <2>1, <3>3, <4>1
    <3>6. QED
      BY <3>1, <3>4, <3>5
  <2>4. QED
    BY <2>2, <2>3
<1>16. ASSUME NEW c \in Blocks, h[<<c, 1>>] # {}
       PROVE  \E a \in Blocks : Preds(c) = {a} /\ h[<<c, 1>>] \subseteq h[<<a, End(a)>>]
  <2>1. <<c, 1>> \in DOMAIN held
    BY <1>5, <1>6 DEF End
  <2>2. h[<<c, 1>>] = held[<<c, 1>>]
    BY <1>9, <1>14, <2>1
  <2>3. PICK a \in Blocks : Preds(c) = {a} /\ held[<<c, 1>>] \subseteq held[<<a, End(a)>>]
    BY <1>16, <2>2 DEF HeldInv
  <2>4. End(a) \in 1 .. End(a)
    BY <1>6 DEF End
  <2>5. <<a, End(a)>> \in DOMAIN held
    BY <1>5, <2>4
  <2>6. QED
    BY <1>10, <2>2, <2>3, <2>5
<1>17. ASSUME NEW id \in Ids, NEW e \in h[<<Site(id)[1], Site(id)[2] + 1>>]
       PROVE  \/ Now(id, new).kind = "load" /\ e = <<Now(id, new).x, id>>
              \/ /\ e \in h[<<Site(id)[1], Site(id)[2]>>]
                 /\ Now(id, new).kind = "store" => ~MayAlias(e[1], Now(id, new).y)
                 /\ Now(id, new).kind = "call" => Now(id, new).x \notin sideEffect
  <2>1. CASE id = Here
    <3>1. <<Site(id)[1], Site(id)[2] + 1>> = there /\ <<Site(id)[1], Site(id)[2]>> = <<b, pos>>
      BY <1>2, <2>1 DEF there
    <3>2. e \in now
      BY <1>9, <1>17, <3>1
    <3>3. QED
      BY <1>11, <1>12, <1>13, <2>1, <3>1, <3>2
  <2>2. CASE id # Here
    <3> DEFINE k == Site(id)[2]
               c == Site(id)[1]
    <3>1. c \in Blocks /\ k \in 1 .. Len(prog.code[c]) /\ Len(prog.code[c]) \in Nat
      BY SiteFacts, FlowFacts
    <3>2. <<c, k + 1>> # there
      <4>1. c # b \/ k # pos
        BY <1>2, <2>2
      <4>2. k \in Nat /\ pos \in Nat
        BY <1>2, <3>1
      <4> HIDE DEF c, k
      <4>3. c # b \/ k + 1 # pos + 1
        BY <4>1, <4>2
      <4>4. QED
        BY <4>3 DEF there
    <3>3. k + 1 \in 1 .. End(c) /\ k \in 1 .. End(c)
      BY ONLY <3>1 DEF End
    <3>4. <<c, k + 1>> \in DOMAIN held /\ <<c, k>> \in DOMAIN held
      BY <1>5, <3>1, <3>3
    <3>5. e \in held[<<c, k + 1>>]
      BY <1>9, <1>17, <3>2, <3>4
    <3>6. id \notin Future
      BY <1>1, <3>5
    <3>7. Now(id, new) = Now(id, rep)
      BY <1>12, <3>6
    <3>8. \/ Now(id, rep).kind = "load" /\ e = <<Now(id, rep).x, id>>
          \/ /\ e \in held[<<c, k>>]
             /\ Now(id, rep).kind = "store" => ~MayAlias(e[1], Now(id, rep).y)
             /\ Now(id, rep).kind = "call" => Now(id, rep).x \notin sideEffect
      BY <3>5 DEF HeldInv
    <3>9. QED
      BY <1>10, <3>4, <3>7, <3>8
  <2>3. QED
    BY <2>1, <2>2
<1>18. HeldInv(new, h)'
  <2>1. /\ Blocks' = Blocks /\ Ids' = Ids /\ prog' = prog /\ sideEffect' = sideEffect
        /\ \A c : End(c)' = End(c) /\ Preds(c)' = Preds(c)
    BY SameProgram
  <2>2. /\ \A id : Site(id)' = Site(id) /\ Given(id)' = Given(id) /\ Now(id, new)' = Now(id, new)
        /\ \A id, c, k : Prior(id, c, k)' <=> Prior(id, c, k)
        /\ \A x, y : MayAlias(x, y)' <=> MayAlias(x, y)
    BY SameProgram
  <2>3. (DOMAIN h = UNION {{c} \X (1 .. End(c)) : c \in Blocks} /\ h[<<prog.list[1], 1>>] = {})'
    BY <1>4, <1>9, <1>14, <2>1
  <2>4. (\A l \in DOMAIN h : \A e \in h[l] :
           /\ e = <<e[1], e[2]>> /\ e[2] \in Ids /\ Prior(e[2], l[1], l[2])
           /\ IF e[1] \in Ids
              THEN /\ Given(e[1]).kind = "gep" /\ new[e[1]] = e[1]
                   /\ e[1] \notin Future /\ Prior(e[1], l[1], l[2])
              ELSE e[1] = "S")'
    BY <1>9, <1>15, <2>1, <2>2
  <2>5. (\A c \in Blocks : h[<<c, 1>>] # {} =>
           \E a \in Blocks : Preds(c) = {a} /\ h[<<c, 1>>] \subseteq h[<<a, End(a)>>])'
    BY <1>16, <2>1
  <2>6. (\A id \in Ids :
           LET n == Now(id, new)
               c == Site(id)[1]
               k == Site(id)[2]
           IN  \A e \in h[<<c, k + 1>>] :
                 \/ n.kind = "load" /\ e = <<n.x, id>>
                 \/ /\ e \in h[<<c, k>>]
                    /\ n.kind = "store" => ~MayAlias(e[1], n.y)
                    /\ n.kind = "call" => n.x \notin sideEffect)'
    BY <1>17, <2>1, <2>2
  <2>7. QED
    BY <2>3, <2>4, <2>5, <2>6 DEF HeldInv
<1>19. QED
  BY <1>10, <1>18

(* What the walk has left is offered as before. *)
LEMMA OfferKept ==
  ASSUME NEW map, NEW b, NEW k, NEW rep, NEW held, Offers(map, b, k, rep, held),
         UNCHANGED prog, Future' \subseteq Future, NEW new, NEW h,
         held[<<b, k>>] \subseteq h[<<b, k>>],
         \A id \in Ids \ Future : new[id] = rep[id] /\ Now(id, new) = Now(id, rep)
  PROVE  Offers(map, b, k, new, h)'
<1>1. /\ Blocks' = Blocks /\ Ids' = Ids
      /\ \A id : Given(id)' = Given(id) /\ Now(id, new)' = Now(id, new)
  BY SameProgram
<1>2. /\ \A id, c, n : Prior(id, c, n)' <=> Prior(id, c, n)
      /\ \A n : KeyOf(n)' = KeyOf(n)
  BY SameProgram
<1>3. ASSUME NEW key \in DOMAIN map
      PROVE  /\ map[key] \in Ids \ Future' /\ new[map[key]] = map[key]
             /\ Prior(map[key], b, k) /\ Given(map[key]).kind \in {"op", "gep", "load"}
             /\ KeyOf(Now(map[key], new)) = key
             /\ key[1] = "load" => <<key[2], map[key]>> \in h[<<b, k>>]
  BY DEF Offers
<1>4. QED
  BY <1>1, <1>2, <1>3 DEF Offers

(* Visiting an instruction keeps what is said of the maps of the pass.      *)
LEMMA VisitOffers ==
  ASSUME Plain, WalkInv, Visiting, NEW rep, NEW held,
         HeldInv(rep, held), ReplacedInv(rep, held), OffersInv(rep, held),
         pos' = pos + 1, UNCHANGED <<prog, phase, todo, saved>>,
         NEW new, \A id \in Ids : id # Here => new[id] = rep[id],
         NEW now, NEW h, Entered(h, held, now), \A l \in DOMAIN held : held[l] \subseteq h[l],
         \A key \in DOMAIN avail' :
           /\ \/ key \in DOMAIN avail /\ avail'[key] = avail[key]
              \/ /\ key = KeyOf(Current) /\ avail'[key] = Here /\ new[Here] = Here
                 /\ Current.kind \in {"op", "gep", "load"}
           /\ key[1] = "load" => <<key[2], avail'[key]>> \in now
  PROVE  OffersInv(new, h)'
<1> DEFINE b == Head(todo)
           there == <<b, pos + 1>>
<1>1. /\ TodoInv /\ Walking /\ phase = "visit" /\ todo # <<>>
      /\ DOMAIN saved = Blocks \ {todo[i] : i \in DOMAIN todo}
      /\ \A c \in DOMAIN saved : Offers(saved[c], c, End(c), rep, held)
      /\ \A id \in Future : rep[id] = id /\ held[<<Site(id)[1], Site(id)[2] + 1>>] = {}
      /\ Offers(avail, b, pos, rep, held)
  BY HereFacts DEF OffersInv, Walking
<1>2. /\ Here \in Ids /\ Here \in Future /\ Site(Here)[1] = b /\ Site(Here)[2] = pos
      /\ b \in Blocks /\ pos \in DOMAIN prog.code[b] /\ pos \in Nat \ {0}
      /\ \A id \in Ids : Site(id)[1] = b /\ Site(id)[2] = pos => id = Here
  BY <1>1, HereFacts
<1>3. Future' = Future \ {Here}
  BY <1>1, FutureOnVisit
<1>4. \A c \in Blocks : \A k \in 1 .. End(c) : <<c, k>> \in DOMAIN held
  BY DEF HeldInv
<1>5. \A c \in Blocks : Len(prog.code[c]) \in Nat /\ DOMAIN prog.code[c] = 1 .. Len(prog.code[c])
  BY FlowFacts
<1>6. /\ DOMAIN h = DOMAIN held /\ h[there] = now
      /\ \A l \in DOMAIN held : l # there => h[l] = held[l]
  BY DEF Entered
<1> HIDE DEF there
<1>7. \A id \in Ids : id \notin Future \/ id = Here => Now(id, new) = Now(id, rep)
  BY <1>1, NowBehind
<1>8. \A id \in Ids \ Future : new[id] = rep[id] /\ Now(id, new) = Now(id, rep)
  BY <1>2, <1>7
<1>9. Current = Now(Here, rep) /\ Current.kind = Given(Here).kind
  BY <1>1, CurrentNow
<1>10. ASSUME NEW c \in DOMAIN saved PROVE Offers(saved[c], c, End(c), new, h)'
  <2>1. c \in Blocks /\ <<c, End(c)>> \in DOMAIN held
    <3>1. c \in Blocks
      BY <1>1
    <3>2. End(c) \in 1 .. End(c)
      BY <1>5, <3>1 DEF End
    <3>3. QED
      BY <1>4, <3>1, <3>2
  <2>2. Offers(saved[c], c, End(c), rep, held) /\ held[<<c, End(c)>>] \subseteq h[<<c, End(c)>>]
    BY <1>1, <2>1
  <2>3. Future' \subseteq Future
    BY <1>3
  <2> DEFINE map == saved[c]
             k == End(c)
  <2>4. map' = map /\ k' = k
    BY SameProgram
  <2> HIDE DEF map, k
  <2>5. Offers(map, c, k, rep, held) /\ held[<<c, k>>] \subseteq h[<<c, k>>]
    BY <2>2 DEF map, k
  <2>6. Offers(map, c, k, new, h)'
    BY <1>8, <2>3, <2>4, <2>5, OfferKept
  <2>7. QED
    BY <2>4, <2>6 DEF map, k
<1>11. ASSUME NEW id \in Future'
       PROVE  new[id] = id /\ h[<<Site(id)[1], Site(id)[2] + 1>>] = {}
  <2> DEFINE c == Site(id)[1]
             k == Site(id)[2]
  <2>1. id \in Future /\ id # Here /\ id \in Ids
    BY <1>3, <1>11 DEF Future
  <2>2. c \in Blocks /\ k \in 1 .. Len(prog.code[c]) /\ Len(prog.code[c]) \in Nat
    BY <2>1, SiteFacts, FlowFacts
  <2>3. <<c, k + 1>> # there
    BY <1>2, <2>1, <2>2 DEF there
  <2>4. k + 1 \in 1 .. End(c)
    BY <2>2 DEF End
  <2>5. <<c, k + 1>> \in DOMAIN held
    BY <1>4, <2>2, <2>4
  <2>6. QED
    BY <1>1, <1>6, <2>1, <2>3, <2>5
<1>12. ASSUME NEW key \in DOMAIN avail'
       PROVE  LET r == avail'[key]
              IN  /\ r \in Ids \ Future' /\ new[r] = r /\ Prior(r, b, pos + 1)
                  /\ Given(r).kind \in {"op", "gep", "load"} /\ KeyOf(Now(r, new)) = key
                  /\ key[1] = "load" => <<key[2], r>> \in h[there]
  <2>1. \A c \in Ids : Prior(c, b, pos) \/ c = Here => Prior(c, b, pos + 1)
    BY <1>2, PriorNext DEF Here
  <2>2. key[1] = "load" => <<key[2], avail'[key]>> \in h[there]
    BY <1>6, <1>12
  <2>3. CASE key \in DOMAIN avail /\ avail'[key] = avail[key]
    <3> DEFINE r == avail[key]
    <3>1. /\ r \in Ids \ Future /\ rep[r] = r /\ Prior(r, b, pos)
          /\ Given(r).kind \in {"op", "gep", "load"} /\ KeyOf(Now(r, rep)) = key
      BY <1>1, <2>3 DEF Offers
    <3> HIDE DEF r
    <3>2. /\ r \in Ids \ Future' /\ new[r] = r /\ Prior(r, b, pos + 1)
          /\ Given(r).kind \in {"op", "gep", "load"} /\ KeyOf(Now(r, new)) = key
      BY <1>3, <1>8, <2>1, <3>1
    <3>3. QED
      BY <2>2, <2>3, <3>2 DEF r
  <2>4. CASE /\ key = KeyOf(Current) /\ avail'[key] = Here /\ new[Here] = Here
             /\ Current.kind \in {"op", "gep", "load"}
    <3>1. Now(Here, new) = Current
      BY <1>2, <1>7, <1>9
    <3>2. QED
      BY <1>2, <1>3, <1>9, <2>1, <2>2, <2>4, <3>1
  <2>5. QED
    BY <1>12, <2>3, <2>4
<1>13. Offers(avail, b, pos, new, h)'
  <2>1. /\ Ids' = Ids /\ b' = b /\ pos' = pos + 1
        /\ \A id : Given(id)' = Given(id) /\ Now(id, new)' = Now(id, new)
    BY SameProgram
  <2>2. /\ \A id, c, n : Prior(id, c, n)' <=> Prior(id, c, n)
        /\ \A n : KeyOf(n)' = KeyOf(n)
    BY SameProgram
  <2> HIDE DEF b
  <2>3. QED
    BY <1>12, <2>1, <2>2 DEF Offers, there
<1>14. pos' \in 1 .. End(b)
  BY <1>2, <1>5 DEF End
<1>15. TodoInv'
  BY <1>1 DEF TodoInv, Walking
<1>16. QED
  <2>1. (Walking => /\ DOMAIN saved = Blocks \ {todo[i] : i \in DOMAIN todo}
                    /\ \A c \in DOMAIN saved : Offers(saved[c], c, End(c), new, h)
                    /\ \A id \in Future :
                         new[id] = id /\ h[<<Site(id)[1], Site(id)[2] + 1>>] = {})'
    <3>1. (DOMAIN saved = Blocks \ {todo[i] : i \in DOMAIN todo})'
      BY <1>1, SameProgram
    <3>2. (\A c \in DOMAIN saved : Offers(saved[c], c, End(c), new, h))'
      BY <1>10
    <3>3. (\A id \in Future :
             new[id] = id /\ h[<<Site(id)[1], Site(id)[2] + 1>>] = {})'
      BY <1>11, SameProgram
    <3>4. QED
      BY <3>1, <3>2, <3>3
  <2>2. (phase = "visit" => /\ todo # <<>> /\ pos \in 1 .. End(Head(todo))
                            /\ Offers(avail, Head(todo), pos, new, h))'
    BY <1>1, <1>13, <1>14, SameProgram
  <2>3. (phase # "effects")'
    BY <1>1
  <2>4. QED
    BY <1>15, <2>1, <2>2, <2>3 DEF OffersInv

(****************************************************************************)
(* What has been replaced                                                   *)
(****************************************************************************)
LEMMA KeyFacts ==
  ASSUME NEW n, n.kind \in {"op", "gep", "load"}
  PROVE  /\ n.kind = "op" => KeyOf(n)[1] \in {"op", "left", "right"}
         /\ n.kind = "gep" => KeyOf(n)[1] \in {"gep", "element"}
         /\ n.kind = "load" => KeyOf(n) = <<"load", n.x>> /\ KeyOf(n)[1] = "load"
  BY DEF KeyOf

(* Who has one key computes the same, from operands that are alike. *)
LEMMA SameKeySameOperands ==
  ASSUME NEW m, NEW n, m.kind \in {"op", "gep", "load"}, n.kind \in {"op", "gep", "load"},
         KeyOf(m) = KeyOf(n)
  PROVE  /\ m.kind = n.kind
         /\ m.kind = "op" => Alike(prog, m.x, n.x) /\ Alike(prog, m.y, n.y)
         /\ m.kind = "op" /\ IsConstant(m.x) => m.y = n.y
         /\ m.kind = "gep" => m.x = n.x /\ Alike(prog, Index(m), Index(n))
         /\ m.kind = "load" => m.x = n.x
<1>1. ASSUME NEW i, i.kind = "op"
      PROVE  LET key == KeyOf(i)
             IN  \/ IsConstant(i.x) /\ key[1] = "left" /\ key[2] = prog.value[i.x] /\ key[3] = i.y
                 \/ /\ ~IsConstant(i.x) /\ IsConstant(i.y)
                    /\ key[1] = "right" /\ key[2] = i.x /\ key[3] = prog.value[i.y]
                 \/ /\ ~IsConstant(i.x) /\ ~IsConstant(i.y)
                    /\ key[1] = "op" /\ key[2] = i.x /\ key[3] = i.y
  BY <1>1 DEF KeyOf
<1>2. ASSUME NEW i, i.kind = "gep"
      PROVE  LET key == KeyOf(i)
             IN  /\ key[2] = i.x
                 /\ \/ /\ IsConstant(Index(i)) /\ key[1] = "element"
                       /\ key[3] = prog.value[Index(i)]
                    \/ ~IsConstant(Index(i)) /\ key[1] = "gep" /\ key[3] = Index(i)
  BY <1>2 DEF KeyOf
<1>3. ASSUME NEW i, i.kind = "load" PROVE KeyOf(i)[1] = "load" /\ KeyOf(i)[2] = i.x
  BY <1>3 DEF KeyOf
<1>4. m.kind = n.kind
  BY <1>1, <1>2, <1>3
<1>5. ASSUME m.kind = "op"
      PROVE  /\ Alike(prog, m.x, n.x) /\ Alike(prog, m.y, n.y)
             /\ IsConstant(m.x) => m.y = n.y
  <2>1. \/ /\ IsConstant(m.x) /\ IsConstant(n.x)
           /\ prog.value[m.x] = prog.value[n.x] /\ m.y = n.y
        \/ /\ IsConstant(m.y) /\ IsConstant(n.y) /\ ~IsConstant(m.x)
           /\ m.x = n.x /\ prog.value[m.y] = prog.value[n.y]
        \/ ~IsConstant(m.x) /\ m.x = n.x /\ m.y = n.y
    BY <1>1, <1>4, <1>5
  <2>2. QED
    BY <2>1 DEF Alike, IsConstant
<1>6. ASSUME m.kind = "gep" PROVE m.x = n.x /\ Alike(prog, Index(m), Index(n))
  <2>1. /\ m.x = n.x
        /\ \/ /\ IsConstant(Index(m)) /\ IsConstant(Index(n))
              /\ prog.value[Index(m)] = prog.value[Index(n)]
           \/ Index(m) = Index(n)
    BY <1>2, <1>4, <1>6
  <2>2. QED
    BY <2>1 DEF Alike, IsConstant
<1>7. ASSUME m.kind = "load" PROVE m.x = n.x
  BY <1>3, <1>4, <1>7
<1>8. QED
  BY <1>4, <1>5, <1>6, <1>7

LEMMA ReplacedKept ==
  ASSUME Plain, NEW rep, NEW held, HeldInv(rep, held), ReplacedInv(rep, held),
         UNCHANGED prog, Future' \subseteq Future,
         DOMAIN code' \subseteq DOMAIN code, \A id \in DOMAIN code' : code'[id] = code[id],
         DOMAIN code' \ waitDelete' = DOMAIN code \ waitDelete, phis' = phis,
         NEW h, \A l \in DOMAIN held : held[l] \subseteq h[l]
  PROVE  ReplacedInv(rep, h)'
<1>1. /\ Ids' = Ids
      /\ \A id : Site(id)' = Site(id) /\ Given(id)' = Given(id) /\ Now(id, rep)' = Now(id, rep)
  BY SameProgram
<1>2. /\ \A id, c, n : Prior(id, c, n)' <=> Prior(id, c, n)
      /\ \A n : KeyOf(n)' = KeyOf(n)
  BY SameProgram
<1>3. ASSUME NEW id \in Ids
      PROVE  held[<<Site(id)[1], Site(id)[2]>>] \subseteq h[<<Site(id)[1], Site(id)[2]>>]
  <2>1. /\ Site(id)[1] \in Blocks /\ Site(id)[2] \in 1 .. Len(prog.code[Site(id)[1]])
        /\ Len(prog.code[Site(id)[1]]) \in Nat
    BY SiteFacts, FlowFacts
  <2>2. Site(id)[2] \in 1 .. End(Site(id)[1])
    BY <2>1 DEF End
  <2>3. <<Site(id)[1], Site(id)[2]>> \in DOMAIN held
    BY <2>1, <2>2 DEF HeldInv
  <2>4. QED
    BY <2>3
<1>4. (/\ rep \in [Ids -> Ids]
       /\ DOMAIN code \subseteq Ids /\ DOMAIN code \ waitDelete = {id \in Ids : rep[id] = id}
       /\ \A id \in DOMAIN code : code[id] = Now(id, rep))'
  BY <1>1 DEF ReplacedInv
<1>7. (phis = [w \in Phis |-> PhiNow(w, rep)])'
  BY SameProgram DEF ReplacedInv
<1>5. ASSUME NEW id \in Ids, rep[id] # id
      PROVE  LET n == Now(id, rep)
                 b == Site(id)[1]
                 k == Site(id)[2]
             IN  /\ n.kind \in {"op", "gep", "load"}
                 /\ rep[rep[id]] = rep[id] /\ Prior(rep[id], b, k) /\ rep[id] \notin Future'
                 /\ n.kind = Now(rep[id], rep).kind /\ KeyOf(n) = KeyOf(Now(rep[id], rep))
                 /\ n.kind = "load" => <<n.x, rep[id]>> \in h[<<b, k>>]
  BY <1>3, <1>5 DEF ReplacedInv
<1>6. QED
  BY <1>1, <1>2, <1>4, <1>5, <1>7 DEF ReplacedInv

(* An instruction is replaced by one that was found to compute the same.    *)
LEMMA ReuseReplaced ==
  ASSUME Plain, WalkInv, NEW rep, NEW held,
         HeldInv(rep, held), ReplacedInv(rep, held), OffersInv(rep, held), Reuse,
         NEW new \in [Ids -> Ids], new[Here] = avail[KeyOf(Current)],
         \A id \in Ids : id # Here => new[id] = rep[id],
         NEW h, \A l \in DOMAIN held : held[l] \subseteq h[l]
  PROVE  ReplacedInv(new, h)'
<1> DEFINE b == Head(todo)
           r == avail[KeyOf(Current)]
<1>1. /\ Visiting /\ Current.kind \in {"op", "gep", "load"} /\ KeyOf(Current) \in DOMAIN avail
      /\ code' = Replaced(Current.id, r) /\ waitDelete' = waitDelete \cup {Current.id}
      /\ phis' = [w \in DOMAIN phis |-> RenamedIn(phis[w], Current.id, r)]
      /\ pos' = pos + 1 /\ UNCHANGED <<prog, phase, todo>>
  BY DEF Reuse, Known
<1>2. TodoInv
  BY DEF OffersInv
<1>3. /\ Here \in Ids /\ Here \in Future /\ Site(Here)[1] = b /\ Site(Here)[2] = pos
      /\ phase = "visit" /\ Walking /\ b \in Blocks /\ pos \in 1 .. End(b)
  BY <1>1, <1>2, HereFacts DEF Walking, OffersInv
<1>4. Future' = Future \ {Here}
  BY <1>1, <1>2, FutureOnVisit
<1>5. \A id \in Future : rep[id] = id
  BY <1>3 DEF OffersInv
<1>6. Current = Now(Here, rep) /\ Current.id = Here /\ Current.kind = Given(Here).kind
  BY <1>1, <1>2, CurrentNow
<1>7. /\ r \in Ids \ Future /\ rep[r] = r /\ Prior(r, b, pos)
      /\ Given(r).kind \in {"op", "gep", "load"} /\ KeyOf(Now(r, rep)) = KeyOf(Current)
      /\ KeyOf(Current)[1] = "load" => <<KeyOf(Current)[2], r>> \in held[<<b, pos>>]
  BY <1>1, <1>3 DEF OffersInv, Offers
<1>8. /\ rep \in [Ids -> Ids]
      /\ DOMAIN code \subseteq Ids /\ DOMAIN code \ waitDelete = {id \in Ids : rep[id] = id}
      /\ \A id \in DOMAIN code : code[id] = Now(id, rep)
  BY DEF ReplacedInv
<1> HIDE DEF b, r
<1>9. /\ new \in [Ids -> Ids] /\ new[Here] = r /\ r # Here
      /\ \A id \in Ids : id # Here => new[id] = rep[id]
  BY <1>3, <1>7, <1>8 DEF r
<1>10. ASSUME NEW id \in Ids, id \notin Future \/ id = Here PROVE Now(id, new) = Now(id, rep)
  <2>1. Visiting /\ \A m \in Ids : m # Here => new[m] = rep[m]
    BY <1>1, <1>9
  <2>2. QED
    BY <1>2, <1>10, <2>1, NowBehind
<1>11. ASSUME NEW v \in Ids PROVE new[v] = IF rep[v] = Here THEN r ELSE rep[v]
  <2>1. CASE v = Here
    BY <1>3, <1>5, <1>9, <2>1
  <2>2. CASE v # Here
    <3>1. rep[v] # Here
      BY <1>3, <2>2 DEF ReplacedInv
    <3>2. QED
      BY <1>9, <2>2, <3>1
  <2>3. QED
    BY <2>1, <2>2
<1>12. DOMAIN code' = DOMAIN code /\ waitDelete' = waitDelete \cup {Here}
  BY <1>1, <1>6 DEF Replaced
<1>13. DOMAIN code' \ waitDelete' = {id \in Ids : new[id] = id}
  BY <1>3, <1>8, <1>9, <1>12
<1>14. ASSUME NEW id \in DOMAIN code PROVE code'[id] = Now(id, new)
  <2>1. id \in Ids /\ code[id] = Now(id, rep)
    BY <1>8
  <2>2. code'[id] = IF id \in prog.moved THEN code[id]
                    ELSE [code[id] EXCEPT !.x = IF code[id].x = Here THEN r ELSE code[id].x,
                                          !.y = IF code[id].y = Here THEN r ELSE code[id].y]
    BY <1>1, <1>6 DEF Replaced
  <2>3. CASE id \in prog.moved
    <3>1. Now(id, new).x = Now(id, rep).x /\ Now(id, new).y = Now(id, rep).y
      BY <2>1, <2>3, NowFacts
    <3>2. Now(id, new) = Now(id, rep)
      BY <2>1, <3>1, NowFacts
    <3>3. QED
      BY <2>1, <2>2, <2>3, <3>2
  <2>4. CASE id \notin prog.moved
    <3> DEFINE n == Now(id, rep)
    <3>1. /\ n = [id |-> id, kind |-> Given(id).kind, x |-> n.x, y |-> n.y]
          /\ n.x = IF Given(id).x \in Ids THEN rep[Given(id).x] ELSE Given(id).x
          /\ n.y = IF Given(id).y \in Ids THEN rep[Given(id).y] ELSE Given(id).y
      BY <2>1, <2>4, NowFacts
    <3>2. /\ Now(id, new) = [id |-> id, kind |-> Given(id).kind,
                             x |-> Now(id, new).x, y |-> Now(id, new).y]
          /\ Now(id, new).x = IF Given(id).x \in Ids THEN new[Given(id).x] ELSE Given(id).x
          /\ Now(id, new).y = IF Given(id).y \in Ids THEN new[Given(id).y] ELSE Given(id).y
      BY <2>1, <2>4, NowFacts
    <3> HIDE DEF n
    <3>3. /\ Now(id, new).x = IF n.x = Here THEN r ELSE n.x
          /\ Now(id, new).y = IF n.y = Here THEN r ELSE n.y
      BY <1>3, <1>11, <3>1, <3>2
    <3>4. /\ DOMAIN n = {"id", "kind", "x", "y"} /\ n.id = id /\ n.kind = Given(id).kind
          /\ n = [f \in DOMAIN n |-> n[f]]
      BY <3>1
    <3>5. code'[id] = [n EXCEPT !.x = IF n.x = Here THEN r ELSE n.x,
                                !.y = IF n.y = Here THEN r ELSE n.y]
      BY <2>1, <2>2, <2>4 DEF n
    <3>6. code'[id] = [n EXCEPT !.x = Now(id, new).x, !.y = Now(id, new).y]
      BY <3>3, <3>5
    <3> DEFINE m == code'[id]
               x == Now(id, new).x
               y == Now(id, new).y
    <3> HIDE DEF m, x, y
    <3>7. m = [n EXCEPT !.x = x, !.y = y]
      BY <3>6 DEF m, x, y
    <3>8. DOMAIN m = DOMAIN n /\ m.id = n.id /\ m.kind = n.kind /\ m.x = x /\ m.y = y
      BY <3>4, <3>7
    <3>9. m = [f \in DOMAIN m |-> m[f]]
      BY <3>7
    <3>10. m = [id |-> id, kind |-> Given(id).kind, x |-> x, y |-> y]
      BY <3>4, <3>8, <3>9
    <3>11. QED
      BY <3>2, <3>10 DEF m, x, y
  <2>5. QED
    BY <2>3, <2>4
<1>15. ASSUME NEW id \in Ids
       PROVE  held[<<Site(id)[1], Site(id)[2]>>] \subseteq h[<<Site(id)[1], Site(id)[2]>>]
  <2>1. /\ Site(id)[1] \in Blocks /\ Site(id)[2] \in 1 .. Len(prog.code[Site(id)[1]])
        /\ Len(prog.code[Site(id)[1]]) \in Nat
    BY SiteFacts, FlowFacts
  <2>2. Site(id)[2] \in 1 .. End(Site(id)[1])
    BY <2>1 DEF End
  <2>3. <<Site(id)[1], Site(id)[2]>> \in DOMAIN held
    BY <2>1, <2>2 DEF HeldInv
  <2>4. QED
    BY <2>3
<1>16. ASSUME NEW id \in Ids, new[id] # id
       PROVE  LET n == Now(id, new)
                  c == Site(id)[1]
                  k == Site(id)[2]
              IN  /\ n.kind \in {"op", "gep", "load"}
                  /\ new[new[id]] = new[id] /\ Prior(new[id], c, k) /\ new[id] \notin Future'
                  /\ n.kind = Now(new[id], new).kind /\ KeyOf(n) = KeyOf(Now(new[id], new))
                  /\ n.kind = "load" => <<n.x, new[id]>> \in h[<<c, k>>]
  <2>1. CASE id = Here
    <3>1. Now(id, new) = Current /\ Now(r, new) = Now(r, rep) /\ new[id] = r /\ new[r] = r
      BY <1>6, <1>7, <1>9, <1>10, <2>1
    <3>2. Now(r, rep).kind = Given(r).kind
      BY <1>7, NowFacts
    <3>3. Current.kind = Now(r, rep).kind
      BY <1>1, <1>7, <3>2, SameKeySameOperands
    <3>4. Current.kind = "load" => KeyOf(Current)[1] = "load" /\ KeyOf(Current)[2] = Current.x
      BY <1>1, KeyFacts
    <3>5. Current.kind = "load" => <<Current.x, r>> \in h[<<b, pos>>]
      <4>1. held[<<b, pos>>] \subseteq h[<<b, pos>>]
        BY <1>3, <1>15
      <4>2. QED
        BY <1>7, <3>4, <4>1
    <3>6. r \notin Future' /\ Prior(r, b, pos)
      BY <1>4, <1>7
    <3>7. KeyOf(Current) = KeyOf(Now(r, new))
      BY <1>7, <3>1
    <3>8. Site(id)[1] = b /\ Site(id)[2] = pos
      BY <1>3, <2>1
    <3>9. QED
      BY <1>1, <3>1, <3>3, <3>5, <3>6, <3>7, <3>8
  <2>2. CASE id # Here
    <3>1. new[id] = rep[id] /\ rep[id] # id
      BY <1>9, <1>16, <2>2
    <3>2. id \notin Future
      BY <1>5, <3>1
    <3>3. LET n == Now(id, rep)
              c == Site(id)[1]
              k == Site(id)[2]
          IN  /\ n.kind \in {"op", "gep", "load"}
              /\ rep[rep[id]] = rep[id] /\ Prior(rep[id], c, k) /\ rep[id] \notin Future
              /\ n.kind = Now(rep[id], rep).kind /\ KeyOf(n) = KeyOf(Now(rep[id], rep))
              /\ n.kind = "load" => <<n.x, rep[id]>> \in held[<<c, k>>]
      BY <3>1 DEF ReplacedInv
    <3>4. rep[id] \in Ids /\ rep[id] # Here
      BY <1>3, <1>8, <3>3
    <3>5. Now(id, new) = Now(id, rep) /\ Now(rep[id], new) = Now(rep[id], rep)
      BY <1>10, <3>2, <3>3, <3>4
    <3>6. QED
      BY <1>4, <1>9, <1>15, <3>1, <3>3, <3>4, <3>5
  <2>3. QED
    BY <2>1, <2>2
<1>17. /\ Ids' = Ids
       /\ \A id : Site(id)' = Site(id) /\ Given(id)' = Given(id) /\ Now(id, new)' = Now(id, new)
  BY <1>1, SameProgram
<1>18. /\ \A id, c, n : Prior(id, c, n)' <=> Prior(id, c, n)
       /\ \A n : KeyOf(n)' = KeyOf(n)
  BY <1>1, SameProgram
<1>19. (/\ new \in [Ids -> Ids]
        /\ DOMAIN code \subseteq Ids /\ DOMAIN code \ waitDelete = {id \in Ids : new[id] = id}
        /\ \A id \in DOMAIN code : code[id] = Now(id, new))'
  <2>1. DOMAIN code' \subseteq Ids' /\ new \in [Ids' -> Ids']
    BY <1>8, <1>9, <1>12, <1>17
  <2>2. DOMAIN code' \ waitDelete' = {id \in Ids' : new[id] = id}
    BY <1>13, <1>17
  <2>3. \A id \in DOMAIN code' : code'[id] = Now(id, new)'
    BY <1>12, <1>14, <1>17
  <2>4. QED
    BY <2>1, <2>2, <2>3
<1>20. (\A id \in Ids : new[id] # id =>
          LET n == Now(id, new)
              c == Site(id)[1]
              k == Site(id)[2]
          IN  /\ n.kind \in {"op", "gep", "load"}
              /\ new[new[id]] = new[id] /\ Prior(new[id], c, k) /\ new[id] \notin Future
              /\ n.kind = Now(new[id], new).kind /\ KeyOf(n) = KeyOf(Now(new[id], new))
              /\ n.kind = "load" => <<n.x, new[id]>> \in h[<<c, k>>])'
  BY <1>16, <1>17, <1>18
<1>21. phis' = [w \in Phis |-> PhiNow(w, new)]
  <2>1. phis = [w \in Phis |-> PhiNow(w, rep)]
    BY DEF ReplacedInv
  <2>2. phis' = [w \in Phis |-> RenamedIn(PhiNow(w, rep), Here, r)]
    BY <1>1, <1>6, <2>1
  <2>3. ASSUME NEW w \in Phis PROVE RenamedIn(PhiNow(w, rep), Here, r) = PhiNow(w, new)
    <3> DEFINE from == prog.phis[w].from
    <3>1. RenamedIn(PhiNow(w, rep), Here, r) =
            [a \in DOMAIN from |-> IF PhiNow(w, rep)[a] = Here THEN r ELSE PhiNow(w, rep)[a]]
      BY DEF RenamedIn, PhiNow
    <3>2. ASSUME NEW a \in DOMAIN from
          PROVE  (IF PhiNow(w, rep)[a] = Here THEN r ELSE PhiNow(w, rep)[a]) =
                 (IF from[a] \in Ids THEN new[from[a]] ELSE from[a])
      <4>1. PhiNow(w, rep)[a] = IF from[a] \in Ids THEN rep[from[a]] ELSE from[a]
        BY DEF PhiNow
      <4> HIDE DEF from
      <4>2. QED
        BY <1>3, <1>11, <4>1
    <3>3. PhiNow(w, new) = [a \in DOMAIN from |-> IF from[a] \in Ids THEN new[from[a]] ELSE from[a]]
      BY DEF PhiNow
    <3> HIDE DEF from
    <3>4. QED
      BY <3>1, <3>2, <3>3
  <2>4. QED
    BY <2>2, <2>3
<1>22. (phis = [w \in Phis |-> PhiNow(w, new)])'
  BY <1>1, <1>21, SameProgram
<1>23. QED
  BY <1>19, <1>20, <1>22 DEF ReplacedInv

(****************************************************************************)
(* The steps of the walk                                                    *)
(****************************************************************************)
(* While the pass walks the function does not run. *)
LEMMA ValuesWait ==
  ASSUME Plain, NEW rep, NEW held, ValuesInv(rep, held), phase # "exec",
         UNCHANGED <<prog, runVars>>, DOMAIN code' \subseteq DOMAIN code,
         phase' = "exec" => (\A id \in DOMAIN code : Operands(code[id]) \subseteq DOMAIN code)',
         NEW new, NEW h, HeldInv(new, h)'
  PROVE  ValuesInv(new, h)'
<1>1. /\ at' = at /\ regs' = regs /\ ghost' = ghost /\ mem' = mem
      /\ at = Original!Start(prog)
  BY DEF runVars, ValuesInv
<1>2. /\ Blocks' = Blocks /\ Ids' = Ids /\ Phis' = Phis /\ Registers' = Registers
      /\ \A b : End(b)' = End(b)
      /\ \A id, c, n : Prior(id, c, n)' <=> Prior(id, c, n)
  BY SameProgram
<1>3. at.block = prog.list[1] /\ at.next = 1
  BY <1>1 DEF Original!Start
<1>4. \A id \in Ids : ~Prior(id, at.block, at.next)
  BY <1>3, NothingPriorToStart
<1>5. h[<<at.block, at.next>>] = {}
  BY <1>3 DEF HeldInv
<1>6. (/\ at.block \in Blocks /\ at.next \in 1 .. End(at.block)
       /\ at = [block |-> at.block, next |-> at.next]
       /\ DOMAIN regs = Registers /\ DOMAIN ghost = Registers
       /\ \A id \in DOMAIN code \cup Phis : regs[id] = ghost[id])'
  BY <1>1, <1>2 DEF ValuesInv
<1>7. (phase # "exec" => at = Original!Start(prog))'
  BY <1>1
<1>8. (\A id \in Ids : ~Prior(id, at.block, at.next))'
  BY <1>1, <1>2, <1>4
<1>9. (h[<<at.block, at.next>>] = {})'
  BY <1>1, <1>5
<1>10. QED
  BY <1>6, <1>7, <1>8, <1>9 DEF ValuesInv

(* The loads that the pass holds, with their addresses. *)
LoadsIn(map) == {<<key[2], map[key]>> : key \in {k \in DOMAIN map : k[1] = "load"}}

LEMMA VisitStep ==
  ASSUME Plain, WalkInv, Visiting, NEW rep, NEW held, FollowInv(rep, held),
         pos' = pos + 1, UNCHANGED <<prog, phase, sideEffect, todo, saved, runVars>>,
         DOMAIN code' \subseteq DOMAIN code,
         NEW new, \A id \in Ids : id # Here => new[id] = rep[id],
         NEW h, Entered(h, held, LoadsIn(avail')),
         \A key \in DOMAIN avail' :
           \/ /\ key \in DOMAIN avail /\ avail'[key] = avail[key]
              /\ key[1] = "load" =>
                   /\ Current.kind = "store" => ~MayAlias(key[2], Current.y)
                   /\ Current.kind = "call" => Current.x \notin sideEffect
           \/ /\ key = KeyOf(Current) /\ avail'[key] = Here /\ new[Here] = Here
              /\ Current.kind \in {"op", "gep", "load"}
  PROVE  /\ HeldInv(new, h)' /\ OffersInv(new, h)' /\ ValuesInv(new, h)'
         /\ \A l \in DOMAIN held : held[l] \subseteq h[l]
<1> DEFINE now == LoadsIn(avail')
<1>1. HeldInv(rep, held) /\ ReplacedInv(rep, held) /\ OffersInv(rep, held) /\ ValuesInv(rep, held)
  BY DEF FollowInv
<1>2. TodoInv
  BY <1>1 DEF OffersInv
<1>3. phase = "visit" /\ Offers(avail, Head(todo), pos, rep, held)
  BY <1>1, <1>2, HereFacts DEF OffersInv
<1>4. \A key \in DOMAIN avail' : key[1] = "load" => <<key[2], avail'[key]>> \in now
  BY DEF LoadsIn
<1>5. ASSUME NEW e \in now
      PROVE  \/ Current.kind = "load" /\ e = <<Current.x, Here>>
             \/ /\ e \in held[<<Head(todo), pos>>]
                /\ Current.kind = "store" => ~MayAlias(e[1], Current.y)
                /\ Current.kind = "call" => Current.x \notin sideEffect
  <2>1. PICK key \in DOMAIN avail' : key[1] = "load" /\ e = <<key[2], avail'[key]>>
    BY DEF LoadsIn
  <2>2. e[1] = key[2] /\ e[2] = avail'[key]
    BY <2>1
  <2>3. CASE /\ key \in DOMAIN avail /\ avail'[key] = avail[key]
             /\ Current.kind = "store" => ~MayAlias(key[2], Current.y)
             /\ Current.kind = "call" => Current.x \notin sideEffect
    BY <1>3, <2>1, <2>2, <2>3 DEF Offers
  <2>4. CASE /\ key = KeyOf(Current) /\ avail'[key] = Here
             /\ Current.kind \in {"op", "gep", "load"}
    <3>1. Current.kind = "load" /\ key = <<"load", Current.x>>
      BY <2>1, <2>4, KeyFacts
    <3>2. key[2] = Current.x
      BY <3>1
    <3>3. QED
      BY <2>1, <2>4, <3>1, <3>2
  <2>5. QED
    BY <2>1, <2>3, <2>4
<1>6. Entered(h, held, now)
  OBVIOUS
<1> HIDE DEF now
<1>7. HeldInv(new, h)' /\ \A l \in DOMAIN held : held[l] \subseteq h[l]
  <2>1. UNCHANGED <<prog, phase, sideEffect, todo>>
    OBVIOUS
  <2>2. HeldInv(rep, held) /\ ReplacedInv(rep, held) /\ OffersInv(rep, held)
    BY <1>1
  <2>3. \A e \in now :
           \/ Current.kind = "load" /\ e = <<Current.x, Here>>
           \/ /\ e \in held[<<Head(todo), pos>>]
              /\ Current.kind = "store" => ~MayAlias(e[1], Current.y)
              /\ Current.kind = "call" => Current.x \notin sideEffect
    BY <1>5
  <2>4. QED
    BY <1>6, <2>1, <2>2, <2>3, VisitHeld
<1>8. \A key \in DOMAIN avail' :
        /\ \/ key \in DOMAIN avail /\ avail'[key] = avail[key]
           \/ /\ key = KeyOf(Current) /\ avail'[key] = Here /\ new[Here] = Here
              /\ Current.kind \in {"op", "gep", "load"}
        /\ key[1] = "load" => <<key[2], avail'[key]>> \in now
  BY <1>4
<1>9. OffersInv(new, h)'
  <2>1. UNCHANGED <<prog, phase, todo, saved>>
    OBVIOUS
  <2>2. HeldInv(rep, held) /\ ReplacedInv(rep, held) /\ OffersInv(rep, held)
    BY <1>1
  <2>3. QED
    BY <1>6, <1>7, <1>8, <2>1, <2>2, VisitOffers
<1>10. ValuesInv(new, h)'
  BY <1>1, <1>3, <1>7, ValuesWait
<1>11. QED
  BY <1>7, <1>9, <1>10

LEMMA EntryExists ==
  ASSUME Plain, WalkInv, Visiting, NEW rep, NEW held, HeldInv(rep, held), OffersInv(rep, held)
  PROVE  <<Head(todo), pos + 1>> \in DOMAIN held
<1>1. Head(todo) \in Blocks /\ pos \in DOMAIN prog.code[Head(todo)]
  BY HereFacts DEF OffersInv
<1>2. pos + 1 \in 1 .. End(Head(todo))
  BY <1>1, FlowFacts DEF End
<1>3. QED
  BY <1>1, <1>2 DEF HeldInv

LEMMA ReuseFollows ==
  ASSUME Plain, WalkInv, NEW rep, NEW held, FollowInv(rep, held), Reuse
  PROVE  \E new, h : FollowInv(new, h)'
<1>1. HeldInv(rep, held) /\ ReplacedInv(rep, held) /\ OffersInv(rep, held)
  BY DEF FollowInv
<1>2. /\ Visiting /\ pos' = pos + 1 /\ UNCHANGED <<prog, phase, sideEffect, todo, saved, runVars>>
      /\ Current.kind \in {"op", "gep", "load"} /\ DOMAIN code' = DOMAIN code /\ avail' = avail
  BY DEF Reuse, Replaced
<1>3. Here \in Ids /\ avail[KeyOf(Current)] \in Ids
  <2>1. TodoInv /\ KeyOf(Current) \in DOMAIN avail
    BY <1>1 DEF OffersInv, Reuse, Known
  <2>2. phase = "visit" /\ Here \in Ids
    BY <1>2, <2>1, HereFacts
  <2>3. QED
    BY <1>1, <2>1, <2>2 DEF OffersInv, Offers
<1>4. <<Head(todo), pos + 1>> \in DOMAIN held
  BY <1>1, <1>2, EntryExists
<1>5. PICK h : h = [held EXCEPT ![<<Head(todo), pos + 1>>] = LoadsIn(avail')]
  OBVIOUS
<1>6. Entered(h, held, LoadsIn(avail'))
  BY <1>4, <1>5 DEF Entered
<1>7. PICK new : new = [rep EXCEPT ![Here] = avail[KeyOf(Current)]]
  OBVIOUS
<1>8. /\ new \in [Ids -> Ids] /\ new[Here] = avail[KeyOf(Current)]
      /\ \A id \in Ids : id # Here => new[id] = rep[id]
  BY <1>1, <1>3, <1>7 DEF ReplacedInv
<1>9. \A key \in DOMAIN avail' :
        \/ /\ key \in DOMAIN avail /\ avail'[key] = avail[key]
           /\ key[1] = "load" =>
                /\ Current.kind = "store" => ~MayAlias(key[2], Current.y)
                /\ Current.kind = "call" => Current.x \notin sideEffect
        \/ /\ key = KeyOf(Current) /\ avail'[key] = Here /\ new[Here] = Here
           /\ Current.kind \in {"op", "gep", "load"}
  BY <1>2
<1>10. /\ HeldInv(new, h)' /\ OffersInv(new, h)' /\ ValuesInv(new, h)'
       /\ \A l \in DOMAIN held : held[l] \subseteq h[l]
  <2>1. UNCHANGED <<prog, phase, sideEffect, todo, saved, runVars>> /\ DOMAIN code' \subseteq DOMAIN code
    BY <1>2
  <2>2. QED
    BY <1>2, <1>6, <1>8, <1>9, <2>1, VisitStep
<1>11. ReplacedInv(new, h)'
  BY <1>1, <1>8, <1>10, ReuseReplaced
<1>12. FollowInv(new, h)'
  BY <1>10, <1>11 DEF FollowInv
<1>13. QED
  BY <1>12

LEMMA VisitFollows ==
  ASSUME Plain, WalkInv, NEW rep, NEW held, FollowInv(rep, held), Visiting, pos' = pos + 1,
         UNCHANGED <<prog, phase, sideEffect, todo, waitDelete, saved, code, phis, runVars>>,
         \A key \in DOMAIN avail' :
           \/ /\ key \in DOMAIN avail /\ avail'[key] = avail[key]
              /\ key[1] = "load" =>
                   /\ Current.kind = "store" => ~MayAlias(key[2], Current.y)
                   /\ Current.kind = "call" => Current.x \notin sideEffect
           \/ /\ key = KeyOf(Current) /\ avail'[key] = Here
              /\ Current.kind \in {"op", "gep", "load"}
  PROVE  \E new, h : FollowInv(new, h)'
<1>1. HeldInv(rep, held) /\ ReplacedInv(rep, held) /\ OffersInv(rep, held) /\ TodoInv
  BY DEF FollowInv, OffersInv
<1>2. rep[Here] = Here /\ Here \in Future
  <2>1. Here \in Future /\ Walking
    BY <1>1, HereFacts DEF Walking
  <2>2. QED
    BY <1>1, <2>1 DEF OffersInv
<1>3. <<Head(todo), pos + 1>> \in DOMAIN held
  BY <1>1, EntryExists
<1>4. PICK h : h = [held EXCEPT ![<<Head(todo), pos + 1>>] = LoadsIn(avail')]
  OBVIOUS
<1>5. Entered(h, held, LoadsIn(avail'))
  BY <1>3, <1>4 DEF Entered
<1>6. \A key \in DOMAIN avail' :
        \/ /\ key \in DOMAIN avail /\ avail'[key] = avail[key]
           /\ key[1] = "load" =>
                /\ Current.kind = "store" => ~MayAlias(key[2], Current.y)
                /\ Current.kind = "call" => Current.x \notin sideEffect
        \/ /\ key = KeyOf(Current) /\ avail'[key] = Here /\ rep[Here] = Here
           /\ Current.kind \in {"op", "gep", "load"}
  BY <1>2
<1>7. UNCHANGED <<prog, phase, sideEffect, todo, saved, runVars>> /\ DOMAIN code' \subseteq DOMAIN code
  OBVIOUS
<1>8. \A id \in Ids : id # Here => rep[id] = rep[id]
  OBVIOUS
<1>9. /\ HeldInv(rep, h)' /\ OffersInv(rep, h)' /\ ValuesInv(rep, h)'
      /\ \A l \in DOMAIN held : held[l] \subseteq h[l]
  BY <1>5, <1>6, <1>7, <1>8, VisitStep
<1>10. ReplacedInv(rep, h)'
  <2>1. Future' \subseteq Future
    BY <1>1, FutureOnVisit
  <2>2. /\ DOMAIN code' \subseteq DOMAIN code /\ \A id \in DOMAIN code' : code'[id] = code[id]
        /\ DOMAIN code' \ waitDelete' = DOMAIN code \ waitDelete /\ phis' = phis
    OBVIOUS
  <2>3. QED
    BY <1>1, <1>9, <2>1, <2>2, ReplacedKept
<1>11. FollowInv(rep, h)'
  BY <1>9, <1>10 DEF FollowInv
<1>12. QED
  BY <1>11

(* A place is S or an address that is left in the code. *)
IsPlace(x, rep) ==
  \/ x = "S" /\ x \notin Ids
  \/ x \in Ids /\ Given(x).kind = "gep" /\ rep[x] = x

LEMMA PlaceFacts ==
  ASSUME Plain, NEW rep, NEW held, ReplacedInv(rep, held), NEW z, IsPlace(z, rep)
  PROVE  /\ z \in Ids => IsGep(z) /\ Written(z).x = BaseOf(z) /\ BaseOf(z) \in {"G", "L", "A"}
         /\ z \notin Ids => z = "S" /\ ~IsGep(z) /\ BaseOf(z) = "S"
<1>1. CASE z \in Ids
  BY <1>1, KindFacts, WrittenIsGiven DEF IsPlace, IsGep, BaseOf, Ids
<1>2. CASE z \notin Ids
  BY <1>2 DEF IsPlace, IsGep, BaseOf, Ids
<1>3. QED
  BY <1>1, <1>2

(* The pass gives up the loads that a store may change, and no others. *)
LEMMA AliasIsOverwritten ==
  ASSUME Plain, NEW rep, NEW held, ReplacedInv(rep, held), NEW x, NEW p,
         IsPlace(x, rep), IsPlace(p, rep)
  PROVE  Overwritten(x, p) <=> MayAlias(x, p)
<1>1. /\ x \in Ids => IsGep(x) /\ Written(x).x = BaseOf(x) /\ BaseOf(x) \in {"G", "L", "A"}
      /\ x \notin Ids => x = "S" /\ ~IsGep(x) /\ BaseOf(x) = "S"
  BY PlaceFacts
<1>2. /\ p \in Ids => IsGep(p) /\ Written(p).x = BaseOf(p) /\ BaseOf(p) \in {"G", "L", "A"}
      /\ p \notin Ids => p = "S" /\ ~IsGep(p) /\ BaseOf(p) = "S"
  BY PlaceFacts
<1>3. MayAlias(x, p) <=> (BaseOf(x) = BaseOf(p) \/ {BaseOf(x), BaseOf(p)} = {"A", "G"})
  BY DEF MayAlias
<1>4. isEqualFirstPtr(x, p) <=> BaseOf(x) = BaseOf(p)
  BY <1>1, <1>2 DEF isEqualFirstPtr
<1>5. /\ isArgArrayPtr(x) <=> BaseOf(x) = "A"
      /\ isArgArrayPtr(p) <=> BaseOf(p) = "A"
      /\ isGlobalArgArrayPtr(x) <=> BaseOf(x) \in {"A", "G"}
      /\ isGlobalArgArrayPtr(p) <=> BaseOf(p) \in {"A", "G"}
  BY <1>1, <1>2 DEF isArgArrayPtr, isGlobalArgArrayPtr
<1>6. {BaseOf(x), BaseOf(p)} = {"A", "G"} <=>
        \/ BaseOf(x) = "A" /\ BaseOf(p) = "G"
        \/ BaseOf(x) = "G" /\ BaseOf(p) = "A"
  OBVIOUS
<1>7. CASE BaseOf(p) \notin {"A", "G"}
  BY <1>3, <1>4, <1>5, <1>6, <1>7 DEF Overwritten
<1>8. CASE BaseOf(p) = "A"
  BY <1>3, <1>4, <1>5, <1>6, <1>8 DEF Overwritten
<1>9. CASE BaseOf(p) = "G"
  BY <1>3, <1>4, <1>5, <1>6, <1>9 DEF Overwritten
<1>10. QED
  BY <1>7, <1>8, <1>9

LEMMA LoadKeys ==
  ASSUME Plain, WalkInv, Visiting, NEW rep, NEW held, OffersInv(rep, held),
         NEW key \in DOMAIN avail, key[1] = "load"
  PROVE  key \in {"load"} \X Loaded
<1> DEFINE r == avail[key]
<1>1. r \in Ids /\ Given(r).kind \in {"op", "gep", "load"} /\ KeyOf(Now(r, rep)) = key
  BY HereFacts DEF OffersInv, Offers
<1>2. Now(r, rep).kind \in {"op", "gep", "load"}
  BY <1>1, NowFacts
<1>3. Now(r, rep).kind = "load" /\ key = <<"load", Now(r, rep).x>>
  BY <1>1, <1>2, KeyFacts
<1>4. key = <<"load", key[2]>>
  BY <1>3
<1>5. key[2] \in Loaded
  BY DEF Loaded
<1>6. QED
  BY <1>4, <1>5

LEMMA VisitedPlaces ==
  ASSUME Plain, WalkInv, Visiting, NEW rep, NEW held, FollowInv(rep, held)
  PROVE  /\ Current.kind = "store" => IsPlace(Current.y, rep)
         /\ \A key \in DOMAIN avail : key[1] = "load" => IsPlace(key[2], rep)
<1>1. HeldInv(rep, held) /\ ReplacedInv(rep, held) /\ OffersInv(rep, held) /\ TodoInv
  BY DEF FollowInv, OffersInv
<1>2. /\ Here \in Ids /\ Site(Here)[1] = Head(todo) /\ Site(Here)[2] = pos /\ phase = "visit"
      /\ Head(todo) \in Blocks /\ pos \in DOMAIN prog.code[Head(todo)]
  BY <1>1, HereFacts
<1>3. ASSUME Current.kind = "store" PROVE IsPlace(Current.y, rep)
  <2>1. Current = Now(Here, rep) /\ Given(Here).kind = "store"
    BY <1>1, <1>3, CurrentNow
  <2>2. IsAddress(Current.y, Head(todo), pos, rep)
    BY <1>1, <1>2, <2>1, AddressNow
  <2>3. QED
    BY <2>2 DEF IsAddress, IsPlace
<1>4. ASSUME NEW key \in DOMAIN avail, key[1] = "load" PROVE IsPlace(key[2], rep)
  <2> DEFINE e == <<key[2], avail[key]>>
  <2>1. e \in held[<<Head(todo), pos>>] /\ e[1] = key[2]
    BY <1>1, <1>2, <1>4 DEF OffersInv, Offers
  <2>2. <<Head(todo), pos>> \in DOMAIN held
    <3>1. pos \in 1 .. End(Head(todo))
      BY <1>2, FlowFacts DEF End
    <3>2. QED
      BY <1>1, <1>2, <3>1 DEF HeldInv
  <2> HIDE DEF e
  <2>3. QED
    BY <1>1, <2>1, <2>2 DEF HeldInv, IsPlace
<1>5. QED
  BY <1>3, <1>4

LEMMA StoreFollows ==
  ASSUME Plain, WalkInv, NEW rep, NEW held, FollowInv(rep, held), Store
  PROVE  \E new, h : FollowInv(new, h)'
<1>1. HeldInv(rep, held) /\ ReplacedInv(rep, held) /\ OffersInv(rep, held)
  BY DEF FollowInv
<1>2. /\ Visiting /\ Current.kind = "store" /\ pos' = pos + 1
      /\ UNCHANGED <<prog, phase, sideEffect, todo, waitDelete, saved, code, phis, runVars>>
      /\ avail' = Without({x \in Loaded : Overwritten(x, Current.y)})
  BY DEF Store
<1>3. ASSUME NEW key \in DOMAIN avail'
      PROVE  /\ key \in DOMAIN avail /\ avail'[key] = avail[key]
             /\ key[1] = "load" => ~MayAlias(key[2], Current.y)
  <2>1. key \in DOMAIN avail /\ avail'[key] = avail[key]
    BY <1>2 DEF Without
  <2>2. ASSUME key[1] = "load" PROVE ~MayAlias(key[2], Current.y)
    <3>1. key \in {"load"} \X Loaded
      BY <1>1, <1>2, <2>1, <2>2, LoadKeys
    <3>2. key = <<"load", key[2]>> /\ key[2] \in Loaded
      BY <3>1
    <3>3. ~Overwritten(key[2], Current.y)
      BY <1>2, <3>2 DEF Without
    <3>4. IsPlace(Current.y, rep) /\ IsPlace(key[2], rep)
      BY <1>2, <2>1, <2>2, VisitedPlaces
    <3>5. QED
      BY <1>1, <3>3, <3>4, AliasIsOverwritten
  <2>3. QED
    BY <2>1, <2>2
<1>4. \A key \in DOMAIN avail' :
        /\ key \in DOMAIN avail /\ avail'[key] = avail[key]
        /\ key[1] = "load" =>
             /\ Current.kind = "store" => ~MayAlias(key[2], Current.y)
             /\ Current.kind = "call" => Current.x \notin sideEffect
  BY <1>2, <1>3
<1>5. QED
  BY <1>2, <1>4, VisitFollows

LEMMA OtherVisitsFollow ==
  ASSUME Plain, WalkInv, NEW rep, NEW held, FollowInv(rep, held), Remember \/ Call \/ Pass
  PROVE  \E new, h : FollowInv(new, h)'
<1>1. /\ Visiting /\ pos' = pos + 1
      /\ UNCHANGED <<prog, phase, sideEffect, todo, waitDelete, saved, code, phis, runVars>>
  BY DEF Remember, Call, Pass
<1>2. Current.id = Here
  BY <1>1, CurrentNow DEF FollowInv, OffersInv
<1>3. \A key \in DOMAIN avail' :
        \/ /\ key \in DOMAIN avail /\ avail'[key] = avail[key]
           /\ key[1] = "load" =>
                /\ Current.kind = "store" => ~MayAlias(key[2], Current.y)
                /\ Current.kind = "call" => Current.x \notin sideEffect
        \/ /\ key = KeyOf(Current) /\ avail'[key] = Here
           /\ Current.kind \in {"op", "gep", "load"}
  <2>1. CASE Remember
    BY <1>2, <2>1 DEF Remember
  <2>2. CASE Pass
    BY <2>2 DEF Pass
  <2>3. CASE Call
    <3>1. CASE Current.x \notin sideEffect
      BY <2>3, <3>1 DEF Call
    <3>2. CASE Current.x \in sideEffect
      <4>1. avail' = Without(Loaded) /\ Current.kind = "call"
        BY <2>3, <3>2 DEF Call
      <4>2. \A key \in DOMAIN avail' : key \in DOMAIN avail /\ avail'[key] = avail[key]
        BY <4>1 DEF Without
      <4>3. \A key \in DOMAIN avail' : key[1] # "load"
        <5>1. HeldInv(rep, held) /\ OffersInv(rep, held)
          BY DEF FollowInv
        <5>2. \A key \in DOMAIN avail : key[1] = "load" => key \in {"load"} \X Loaded
          BY <1>1, <5>1, LoadKeys
        <5>3. QED
          BY <4>1, <5>2 DEF Without
      <4>4. QED
        BY <4>1, <4>2, <4>3
    <3>3. QED
      BY <3>1, <3>2
  <2>4. QED
    BY <2>1, <2>2, <2>3
<1>4. QED
  BY <1>1, <1>3, VisitFollows

(****************************************************************************)
(* The steps between the blocks                                             *)
(****************************************************************************)
LEMMA HeldKept ==
  ASSUME Plain, NEW rep, NEW held, HeldInv(rep, held), UNCHANGED prog, Future' \subseteq Future,
         sideEffect' = sideEffect \/ \A l \in DOMAIN held : held[l] = {}
  PROVE  HeldInv(rep, held)'
<1>1. /\ Blocks' = Blocks /\ Ids' = Ids /\ prog' = prog
      /\ \A c : End(c)' = End(c) /\ Preds(c)' = Preds(c)
  BY SameProgram
<1>2. /\ \A id : Site(id)' = Site(id) /\ Given(id)' = Given(id) /\ Now(id, rep)' = Now(id, rep)
      /\ \A id, c, k : Prior(id, c, k)' <=> Prior(id, c, k)
      /\ \A x, y : MayAlias(x, y)' <=> MayAlias(x, y)
  BY SameProgram
<1>3. (/\ DOMAIN held = UNION {{b} \X (1 .. End(b)) : b \in Blocks}
       /\ held[<<prog.list[1], 1>>] = {})'
  <2>1. /\ DOMAIN held = UNION {{b} \X (1 .. End(b)) : b \in Blocks}
        /\ held[<<prog.list[1], 1>>] = {}
    BY DEF HeldInv
  <2>2. QED
    BY ONLY <1>1, <2>1
<1>4. (\A l \in DOMAIN held : \A e \in held[l] :
         /\ e = <<e[1], e[2]>> /\ e[2] \in Ids /\ Prior(e[2], l[1], l[2])
         /\ IF e[1] \in Ids
            THEN /\ Given(e[1]).kind = "gep" /\ rep[e[1]] = e[1]
                 /\ e[1] \notin Future /\ Prior(e[1], l[1], l[2])
            ELSE e[1] = "S")'
  BY <1>1, <1>2 DEF HeldInv
<1>5. (\A b \in Blocks : held[<<b, 1>>] # {} =>
         \E a \in Blocks : Preds(b) = {a} /\ held[<<b, 1>>] \subseteq held[<<a, End(a)>>])'
  BY <1>1 DEF HeldInv
<1>6. ASSUME NEW id \in Ids, NEW e \in held[<<Site(id)[1], Site(id)[2] + 1>>]
      PROVE  \/ Now(id, rep).kind = "load" /\ e = <<Now(id, rep).x, id>>
             \/ /\ e \in held[<<Site(id)[1], Site(id)[2]>>]
                /\ Now(id, rep).kind = "store" => ~MayAlias(e[1], Now(id, rep).y)
                /\ Now(id, rep).kind = "call" => Now(id, rep).x \notin sideEffect'
  <2>1. \/ Now(id, rep).kind = "load" /\ e = <<Now(id, rep).x, id>>
        \/ /\ e \in held[<<Site(id)[1], Site(id)[2]>>]
           /\ Now(id, rep).kind = "store" => ~MayAlias(e[1], Now(id, rep).y)
           /\ Now(id, rep).kind = "call" => Now(id, rep).x \notin sideEffect
    BY DEF HeldInv
  <2>2. ASSUME \A l \in DOMAIN held : held[l] = {} PROVE FALSE
    <3>1. /\ Site(id)[1] \in Blocks /\ Site(id)[2] \in 1 .. Len(prog.code[Site(id)[1]])
          /\ Len(prog.code[Site(id)[1]]) \in Nat
      BY SiteFacts, FlowFacts
    <3>2. Site(id)[2] + 1 \in 1 .. End(Site(id)[1])
      BY <3>1 DEF End
    <3>3. <<Site(id)[1], Site(id)[2] + 1>> \in DOMAIN held
      BY <3>1, <3>2 DEF HeldInv
    <3>4. QED
      BY <2>2, <3>3
  <2>3. QED
    BY <2>1, <2>2
<1>7. (\A id \in Ids :
         LET n == Now(id, rep)
             b == Site(id)[1]
             k == Site(id)[2]
         IN  \A e \in held[<<b, k + 1>>] :
               \/ n.kind = "load" /\ e = <<n.x, id>>
               \/ /\ e \in held[<<b, k>>]
                  /\ n.kind = "store" => ~MayAlias(e[1], n.y)
                  /\ n.kind = "call" => n.x \notin sideEffect)'
  BY <1>1, <1>2, <1>6
<1>8. QED
  BY <1>3, <1>4, <1>5, <1>7 DEF HeldInv

(* The pass goes on, or stops, without looking at the code. *)
LEMMA QuietStep ==
  ASSUME Plain, NEW rep, NEW held, FollowInv(rep, held), phase # "exec",
         UNCHANGED <<prog, todo, avail, waitDelete, saved, code, phis, runVars>>,
         Walking' => {phase, phase'} \subseteq {"effects", "enter"},
         phase' = "effects" => phase = "effects",
         sideEffect' = sideEffect \/ phase = "effects",
         phase' = "exec" => \A id \in DOMAIN code : Operands(code[id]) \subseteq DOMAIN code
  PROVE  \E new, h : FollowInv(new, h)'
<1>1. HeldInv(rep, held) /\ ReplacedInv(rep, held) /\ OffersInv(rep, held) /\ ValuesInv(rep, held)
  BY DEF FollowInv
<1>2. /\ Blocks' = Blocks /\ Ids' = Ids /\ \A b : End(b)' = End(b)
      /\ \A id : Site(id)' = Site(id) /\ Given(id)' = Given(id) /\ Now(id, rep)' = Now(id, rep)
  BY SameProgram
<1>3. Walking' => Walking /\ Future' = Future
  BY <1>2 DEF Walking, Future
<1>4. Future' \subseteq Future
  BY <1>3 DEF Future
<1>5. HeldInv(rep, held)'
  BY <1>1, <1>4, HeldKept DEF OffersInv
<1>6. ReplacedInv(rep, held)'
  BY <1>1, <1>4, ReplacedKept
<1>7. ASSUME NEW b \in DOMAIN saved, Walking PROVE Offers(saved[b], b, End(b), rep, held)'
  <2> DEFINE map == saved[b]
             k == End(b)
  <2>1. map' = map /\ k' = k
    BY <1>2
  <2>2. Offers(map, b, k, rep, held)
    BY <1>1, <1>7 DEF OffersInv
  <2> HIDE DEF map, k
  <2>3. Offers(map, b, k, rep, held)'
    BY <1>4, <2>1, <2>2, OfferKept
  <2>4. QED
    BY <2>1, <2>3 DEF map, k
<1>8. (Walking => /\ DOMAIN saved = Blocks \ {todo[i] : i \in DOMAIN todo}
                  /\ \A b \in DOMAIN saved : Offers(saved[b], b, End(b), rep, held)
                  /\ \A id \in Future :
                       rep[id] = id /\ held[<<Site(id)[1], Site(id)[2] + 1>>] = {})'
  <2> SUFFICES ASSUME Walking'
               PROVE  (/\ DOMAIN saved = Blocks \ {todo[i] : i \in DOMAIN todo}
                       /\ \A b \in DOMAIN saved : Offers(saved[b], b, End(b), rep, held)
                       /\ \A id \in Future :
                            rep[id] = id /\ held[<<Site(id)[1], Site(id)[2] + 1>>] = {})'
    OBVIOUS
  <2>1. (DOMAIN saved = Blocks \ {todo[i] : i \in DOMAIN todo})'
    BY <1>1, <1>2, <1>3 DEF OffersInv
  <2>2. (\A b \in DOMAIN saved : Offers(saved[b], b, End(b), rep, held))'
    BY <1>3, <1>7
  <2>3. (\A id \in Future : rep[id] = id /\ held[<<Site(id)[1], Site(id)[2] + 1>>] = {})'
    BY <1>1, <1>2, <1>3 DEF OffersInv
  <2>4. QED
    BY <2>1, <2>2, <2>3
<1>9. TodoInv'
  BY <1>1, <1>3 DEF OffersInv, TodoInv
<1>10. (phase = "visit" => FALSE)'
  BY DEF Walking
<1>11. (phase = "effects" => todo = prog.list /\ \A l \in DOMAIN held : held[l] = {})'
  BY <1>1 DEF OffersInv
<1>12. OffersInv(rep, held)'
  BY <1>8, <1>9, <1>10, <1>11 DEF OffersInv
<1>13. phase' = "exec" => (\A id \in DOMAIN code : Operands(code[id]) \subseteq DOMAIN code)'
  BY DEF Operands
<1>14. ValuesInv(rep, held)'
  BY <1>1, <1>5, <1>13, ValuesWait
<1>15. FollowInv(rep, held)'
  BY <1>5, <1>6, <1>12, <1>14 DEF FollowInv
<1>16. QED
  BY <1>15

LEMMA LeaveFollows ==
  ASSUME Plain, WalkInv, NEW rep, NEW held, FollowInv(rep, held), LeaveBlock
  PROVE  \E new, h : FollowInv(new, h)'
<1> DEFINE b == Head(todo)
<1>1. /\ HeldInv(rep, held) /\ ReplacedInv(rep, held) /\ OffersInv(rep, held)
      /\ ValuesInv(rep, held) /\ TodoInv
  BY DEF FollowInv, OffersInv
<1>2. /\ phase = "visit" /\ ~Visiting /\ phase' = "enter" /\ todo' = Tail(todo)
      /\ code' = [id \in DOMAIN code \ waitDelete |-> code[id]] /\ waitDelete' = {}
      /\ saved' = [c \in DOMAIN saved \cup {b} |-> IF c = b THEN avail ELSE saved[c]]
      /\ UNCHANGED <<prog, sideEffect, phis, runVars>>
  BY DEF LeaveBlock
<1>3. /\ Walking /\ Walking' /\ todo # <<>> /\ pos \in 1 .. End(b)
      /\ Offers(avail, b, pos, rep, held)
      /\ DOMAIN saved = Blocks \ {todo[i] : i \in DOMAIN todo}
      /\ \A c \in DOMAIN saved : Offers(saved[c], c, End(c), rep, held)
      /\ \A id \in Future : rep[id] = id /\ held[<<Site(id)[1], Site(id)[2] + 1>>] = {}
  BY <1>1, <1>2 DEF OffersInv, Walking
<1>4. /\ Len(todo) \in Nat /\ DOMAIN todo = 1 .. Len(todo)
      /\ \A i \in DOMAIN todo : todo[i] \in Blocks
      /\ \A i, j \in DOMAIN todo : todo[i] = todo[j] => i = j
  BY <1>1, <1>3, TodoFacts
<1>5. /\ b = todo[1] /\ 1 \in DOMAIN todo /\ b \in Blocks /\ Len(todo) # 0
      /\ Len(Tail(todo)) = Len(todo) - 1 /\ DOMAIN Tail(todo) = 1 .. Len(todo) - 1
      /\ \A i \in 1 .. Len(todo) - 1 : Tail(todo)[i] = todo[i + 1]
  <2>1. todo \in Seq(DOMAIN prog.code)
    BY DEF WalkInv
  <2>2. b = todo[1] /\ Len(todo) # 0
    BY <1>3, <2>1
  <2>3. 1 \in DOMAIN todo /\ b \in Blocks
    BY <1>4, <2>2
  <2>4. /\ Len(Tail(todo)) = Len(todo) - 1 /\ DOMAIN Tail(todo) = 1 .. Len(todo) - 1
        /\ \A i \in 1 .. Len(todo) - 1 : Tail(todo)[i] = todo[i + 1]
    BY <1>3, <2>1
  <2>5. QED
    BY <2>2, <2>3, <2>4
<1>6. pos = End(b)
  <2>1. pos \notin DOMAIN prog.code[b]
    BY <1>2 DEF Visiting
  <2>2. Len(prog.code[b]) \in Nat /\ DOMAIN prog.code[b] = 1 .. Len(prog.code[b])
    BY <1>5, FlowFacts
  <2>3. pos \in 1 .. Len(prog.code[b]) + 1
    BY <1>3 DEF End
  <2> HIDE DEF b
  <2>4. QED
    BY <2>1, <2>2, <2>3 DEF End
<1>7. /\ Blocks' = Blocks /\ Ids' = Ids /\ \A c : End(c)' = End(c)
      /\ \A id : Site(id)' = Site(id)
  BY <1>2, SameProgram
<1> HIDE DEF b
<1>8. \A c : (\E i \in DOMAIN todo' : todo'[i] = c) <=> c # b /\ \E i \in DOMAIN todo : todo[i] = c
  <2>1. ASSUME NEW i \in DOMAIN todo' PROVE i + 1 \in DOMAIN todo /\ todo'[i] = todo[i + 1] /\ i + 1 # 1
    BY <1>2, <1>4, <1>5
  <2>2. ASSUME NEW i \in DOMAIN todo, todo[i] # b
        PROVE  i - 1 \in DOMAIN todo' /\ todo'[i - 1] = todo[i]
    <3>1. i # 1 /\ i - 1 \in 1 .. Len(todo) - 1 /\ (i - 1) + 1 = i
      BY <1>4, <1>5, <2>2
    <3>2. QED
      BY <1>2, <1>5, <3>1
  <2>3. ASSUME NEW i \in DOMAIN todo' PROVE todo'[i] # b
    BY <1>4, <1>5, <2>1
  <2>4. QED
    BY <2>1, <2>2, <2>3
<1>9. Future' = Future
  <2>1. ASSUME NEW id \in Ids PROVE id \in Future' <=> id \in Future
    <3>1. id \in Future' <=> \E i \in DOMAIN todo' : todo'[i] = Site(id)[1]
      BY <1>2, <1>3, <1>7 DEF Future
    <3>2. id \in Future <=> \E i \in DOMAIN todo : Site(id)[1] = todo[i] /\ (i = 1 => Site(id)[2] >= pos)
      BY <1>2, <1>3 DEF Future
    <3>3. Site(id)[1] = b => ~(Site(id)[2] >= pos)
      <4>1. /\ Site(id)[2] \in 1 .. Len(prog.code[Site(id)[1]])
            /\ Len(prog.code[Site(id)[1]]) \in Nat
        BY SiteFacts, FlowFacts
      <4>2. QED
        BY <1>6, <4>1 DEF End
    <3>4. \A i \in DOMAIN todo : todo[i] = b <=> i = 1
      BY <1>4, <1>5
    <3>5. QED
      BY <1>8, <3>1, <3>2, <3>3, <3>4
  <2>2. Future \subseteq Ids /\ Future' \subseteq Ids
    BY <1>7 DEF Future
  <2>3. QED
    BY <2>1, <2>2
<1>10. HeldInv(rep, held)'
  BY <1>1, <1>2, <1>9, HeldKept
<1>11. ReplacedInv(rep, held)'
  <2>1. /\ DOMAIN code' \subseteq DOMAIN code /\ \A id \in DOMAIN code' : code'[id] = code[id]
        /\ DOMAIN code' \ waitDelete' = DOMAIN code \ waitDelete /\ Future' \subseteq Future
    BY <1>2, <1>9
  <2>2. QED
    BY <1>1, <1>2, <2>1, ReplacedKept
<1>12. ASSUME NEW c \in DOMAIN saved' PROVE Offers(saved[c], c, End(c), rep, held)'
  <2>1. PICK map : map = saved'[c]
    OBVIOUS
  <2>2. PICK k : k = End(c)
    OBVIOUS
  <2>3. Offers(map, c, k, rep, held)
    <3>1. CASE c = b
      BY <1>2, <1>3, <1>6, <2>1, <2>2, <3>1
    <3>2. CASE c # b
      BY <1>2, <1>3, <2>1, <2>2, <3>2
    <3>3. QED
      BY <3>1, <3>2
  <2>4. Future' \subseteq Future /\ prog' = prog
    BY <1>2, <1>9
  <2>5. Offers(map, c, k, rep, held)'
    BY <2>3, <2>4, OfferKept
  <2>6. QED
    BY <1>7, <2>1, <2>2, <2>5
<1>13. OffersInv(rep, held)'
  <2>1. (DOMAIN saved = Blocks \ {todo[i] : i \in DOMAIN todo})'
    <3>1. DOMAIN saved' = DOMAIN saved \cup {b}
      BY <1>2
    <3>2. ASSUME NEW c
          PROVE  c \in DOMAIN saved' <=> c \in Blocks' /\ c \notin {todo'[i] : i \in DOMAIN todo'}
      <4>1. c \in {todo'[i] : i \in DOMAIN todo'} <=> c # b /\ \E i \in DOMAIN todo : todo[i] = c
        BY <1>8
      <4>2. c \in DOMAIN saved <=> c \in Blocks /\ ~\E i \in DOMAIN todo : todo[i] = c
        BY <1>3
      <4>3. QED
        BY <1>5, <1>7, <3>1, <4>1, <4>2
    <3>3. DOMAIN saved' \subseteq Blocks'
      BY <3>2
    <3>4. QED
      BY <3>2, <3>3
  <2>2. (\A c \in DOMAIN saved : Offers(saved[c], c, End(c), rep, held))'
    BY <1>12
  <2>3. (\A id \in Future : rep[id] = id /\ held[<<Site(id)[1], Site(id)[2] + 1>>] = {})'
    BY <1>3, <1>7, <1>9
  <2>4. TodoInv'
    <3>1. Len(todo) <= Len(prog.list) /\ Len(prog.list) \in Nat
      BY <1>1, <1>3, FlowFacts DEF TodoInv
    <3>2. Len(todo') <= Len(prog.list)
      BY <1>2, <1>4, <1>5, <3>1
    <3>3. ASSUME NEW i \in DOMAIN todo'
          PROVE  todo'[i] = prog.list[Len(prog.list) - Len(todo') + i]
      <4>1. i + 1 \in DOMAIN todo /\ todo'[i] = todo[i + 1] /\ i \in Nat
        BY <1>2, <1>4, <1>5
      <4>2. todo[i + 1] = prog.list[Len(prog.list) - Len(todo) + (i + 1)]
        BY <1>1, <1>3, <4>1 DEF TodoInv
      <4>3. Len(prog.list) - Len(todo) + (i + 1) = Len(prog.list) - Len(todo') + i
        <5>1. Len(todo') = Len(todo) - 1
          BY <1>2, <1>5
        <5>2. Len(prog.list) \in Nat /\ Len(todo) \in Nat /\ i \in Nat
          BY <1>4, <3>1, <4>1
        <5>3. QED
          BY ONLY <5>1, <5>2
      <4>4. QED
        BY <4>1, <4>2, <4>3
    <3>4. QED
      BY <1>2, <3>2, <3>3 DEF TodoInv
  <2>5. QED
    BY <1>2, <2>1, <2>2, <2>3, <2>4 DEF OffersInv
<1>14. ValuesInv(rep, held)'
  <2>1. DOMAIN code' \subseteq DOMAIN code /\ phase # "exec" /\ phase' # "exec"
    BY <1>2
  <2>2. QED
    BY <1>1, <1>2, <1>10, <2>1, ValuesWait
<1>15. FollowInv(rep, held)'
  BY <1>10, <1>11, <1>13, <1>14 DEF FollowInv
<1>16. QED
  BY <1>15

(* Only one predecessor was visited before, if any: it dominates the block. *)
LEMMA ProcessedFacts ==
  ASSUME ProgOK, WalkInv, SavedInv, InitSets, NEW b, b = Head(todo)
  PROVE  /\ b \in Blocks /\ 1 \in DOMAIN todo /\ b = todo[1] /\ b \notin Joins(prog)
         /\ \A a \in Processed(b) : /\ Processed(b) = {a} /\ a \in DOMAIN saved /\ a \in Blocks
                                    /\ b \in prog.succs[a] /\ a # b /\ Dominates(prog, a, b)
<1>1. /\ phase = "enter" /\ todo # <<>> /\ Cardinality(Processed(b)) < 2 /\ TodoInv /\ Walking
      /\ DOMAIN saved = Blocks \ {todo[i] : i \in DOMAIN todo}
  BY DEF InitSets, SavedInv, Walking
<1>2. /\ Len(todo) \in Nat /\ DOMAIN todo = 1 .. Len(todo)
      /\ \A i \in DOMAIN todo : todo[i] \in Blocks
      /\ \A i, j \in DOMAIN todo : todo[i] = todo[j] => i = j
      /\ \A i \in DOMAIN todo : \A q \in DOMAIN prog.list :
           \A p \in DOMAIN prog.list : p < q /\ prog.list[p] = todo[i] =>
             \E j \in DOMAIN todo : j > i /\ todo[j] = prog.list[q]
  BY <1>1, TodoFacts
<1>3. 1 \in DOMAIN todo /\ b = todo[1] /\ b \in Blocks
  <2>1. todo \in Seq(DOMAIN prog.code)
    BY DEF WalkInv
  <2>2. b = todo[1] /\ Len(todo) # 0
    BY <1>1, <2>1
  <2>3. QED
    BY <1>2, <2>2
<1>4. Processed(b) \subseteq Preds(b) /\ Processed(b) \subseteq DOMAIN saved /\ b \notin Processed(b)
  BY DEF Processed
<1>5. ASSUME NEW c \in Blocks, c # b
      PROVE  Listed(prog, c, b) <=> c \in DOMAIN saved
  <2>1. PICK q \in DOMAIN prog.list, p \in DOMAIN prog.list : prog.list[q] = c /\ prog.list[p] = b
    BY <1>3, FlowFacts
  <2>2. p \in Nat /\ q \in Nat /\ p # q
    BY <1>5, <2>1, FlowFacts
  <2>3. Listed(prog, c, b) <=> q < p
    <3>1. q < p => Listed(prog, c, b)
      BY <2>1 DEF Listed
    <3>2. Listed(prog, c, b) => q < p
      BY <2>1, FlowFacts DEF Listed
    <3>3. QED
      BY <3>1, <3>2
  <2>4. ASSUME q < p, NEW i \in DOMAIN todo, c = todo[i] PROVE FALSE
    <3>1. PICK j \in DOMAIN todo : j > i /\ todo[j] = b
      BY <1>2, <2>1, <2>4
    <3>2. j = 1
      BY <1>2, <1>3, <3>1
    <3>3. QED
      BY <1>2, <3>1, <3>2
  <2>5. ASSUME p < q PROVE \E i \in DOMAIN todo : todo[i] = c
    BY <1>2, <1>3, <2>1, <2>5
  <2>6. QED
    BY <1>1, <1>5, <2>2, <2>3, <2>4, <2>5
<1>6. ASSUME NEW a \in Processed(b), NEW c \in Processed(b) PROVE c = a
  <2> SUFFICES ASSUME c # a PROVE FALSE
    OBVIOUS
  <2>1. IsFiniteSet(Processed(b))
    <3>1. IsFiniteSet(1 .. Len(prog.list))
      <4>1. Len(prog.list) \in Int
        BY FlowFacts
      <4>2. QED
        BY <4>1, FS_Interval
    <3>2. prog.list \in Surjection(1 .. Len(prog.list), Blocks)
      BY FlowFacts DEF Surjection
    <3>3. IsFiniteSet(Blocks)
      BY <3>1, <3>2, FS_Surjection
    <3>4. QED
      BY <1>1, <1>4, <3>3, FS_Subset
  <2>2. Cardinality({a, c}) = 2
    <3>1. IsFiniteSet({a}) /\ Cardinality({a}) = 1
      BY FS_Singleton
    <3>2. Cardinality({a} \cup {c}) = Cardinality({a}) + 1
      BY <3>1, FS_AddElement
    <3>3. {a, c} = {a} \cup {c}
      OBVIOUS
    <3>4. QED
      BY <3>1, <3>2, <3>3
  <2>3. Cardinality({a, c}) <= Cardinality(Processed(b))
    BY <2>1, FS_Subset
  <2>4. Cardinality(Processed(b)) \in Nat
    BY <2>1, FS_CardinalityType
  <2>5. QED
    BY <1>1, <2>2, <2>3, <2>4
<1>7. ASSUME NEW a \in Processed(b)
      PROVE  /\ Processed(b) = {a} /\ a \in DOMAIN saved /\ a \in Blocks
             /\ b \in prog.succs[a] /\ a # b /\ Dominates(prog, a, b)
  <2>1. Processed(b) = {a} /\ a \in DOMAIN saved /\ a # b
    BY <1>4, <1>6
  <2>2. a \in Blocks /\ b \in prog.succs[a]
    BY <1>1, <1>4, <2>1, FlowFacts
  <2>3. ASSUME NEW c \in DOMAIN prog.code
        PROVE  b \in prog.succs[c] /\ Listed(prog, c, b) <=> c = a
    <3>1. CASE c = b
      <4>1. ~Listed(prog, b, b)
        <5> SUFFICES ASSUME Listed(prog, b, b) PROVE FALSE
          OBVIOUS
        <5>1. PICK i \in DOMAIN prog.list, j \in DOMAIN prog.list :
                i < j /\ prog.list[i] = b /\ prog.list[j] = b
          BY DEF Listed
        <5>2. i = j /\ i \in Nat
          BY <5>1, FlowFacts
        <5>3. QED
          BY <5>1, <5>2
      <4>2. QED
        BY <2>1, <3>1, <4>1
    <3>2. CASE c # b
      <4>1. Listed(prog, c, b) <=> c \in DOMAIN saved
        BY <1>5, <3>2 DEF Blocks
      <4>2. b \in prog.succs[c] <=> c \in Preds(b)
        BY FlowFacts DEF Blocks
      <4>3. c \in Processed(b) <=> c = a
        BY <2>1
      <4>4. c \in Processed(b) <=> c \in Preds(b) /\ c \in DOMAIN saved
        BY <3>2 DEF Processed
      <4>5. QED
        BY <4>1, <4>2, <4>3, <4>4
    <3>3. QED
      BY <3>1, <3>2
  <2>4. IsFlow(prog)
    BY FunctionsAssumption DEF ProgOK
  <2>5. Earlier(prog, b) = {a}
    <3>1. DOMAIN prog.succs = DOMAIN prog.code
      BY <2>4 DEF IsFlow
    <3>2. QED
      BY <2>2, <2>3, <3>1 DEF Earlier, Blocks
  <2>6. Dominates(prog, a, b)
    BY <1>3, <2>2, <2>4, <2>5 DEF IsFlow, Blocks
  <2>7. QED
    BY <2>1, <2>2, <2>6
<1>8. b \notin Joins(prog)
  <2> SUFFICES ASSUME NEW a \in Earlier(prog, b), NEW c \in Earlier(prog, b), a # c PROVE FALSE
    BY DEF Joins
  <2>1. ASSUME NEW d \in Earlier(prog, b) PROVE d \in Processed(b)
    <3>1. d \in DOMAIN prog.succs /\ b \in prog.succs[d] /\ Listed(prog, d, b)
      BY DEF Earlier
    <3>2. PICK i \in DOMAIN prog.list, j \in DOMAIN prog.list :
            i < j /\ prog.list[i] = d /\ prog.list[j] = b
      BY <3>1 DEF Listed
    <3>3. d \in Blocks /\ d # b
      BY <3>2, FlowFacts
    <3>4. d \in DOMAIN saved
      BY <1>5, <3>1, <3>3
    <3>5. QED
      BY <3>1, <3>3, <3>4 DEF Processed, Preds
  <2>2. QED
    BY <1>6, <2>1
<1>9. QED
  BY <1>3, <1>7, <1>8

LEMMA InheritedFacts ==
  ASSUME NEW b, NEW key \in DOMAIN Inherited(b)
  PROVE  \E a \in Processed(b) : /\ key \in DOMAIN saved[a] /\ Inherited(b)[key] = saved[a][key]
                                 /\ key[1] = "load" => Processed(b) = Preds(b)
<1>1. Processed(b) # {}
  BY DEF Inherited, Empty
<1> DEFINE a == CHOOSE c \in Processed(b) : TRUE
<1>2. a \in Processed(b)
  BY <1>1
<1>3. /\ key \in DOMAIN saved[a] /\ Inherited(b)[key] = saved[a][key]
      /\ key[1] = "load" => Processed(b) = Preds(b)
  BY <1>1 DEF Inherited
<1>4. QED
  BY <1>2, <1>3

(* What a block takes over from its predecessor holds at its start.         *)
LEMMA InitSetsFollows ==
  ASSUME Plain, WalkInv, NEW rep, NEW held, FollowInv(rep, held), InitSets
  PROVE  \E new, h : FollowInv(new, h)'
<1>1. /\ HeldInv(rep, held) /\ ReplacedInv(rep, held) /\ OffersInv(rep, held)
      /\ ValuesInv(rep, held) /\ TodoInv
  BY DEF FollowInv, OffersInv
<1>2. /\ phase = "enter" /\ todo # <<>> /\ avail' = Inherited(Head(todo))
      /\ phase' = "visit" /\ pos' = 1
      /\ UNCHANGED <<prog, sideEffect, todo, waitDelete, saved, code, phis, runVars>>
  BY DEF InitSets
<1>3. PICK b : b = Head(todo)
  OBVIOUS
<1>4. /\ b \in Blocks /\ 1 \in DOMAIN todo /\ b = todo[1]
      /\ \A a \in Processed(b) : /\ Processed(b) = {a} /\ a \in DOMAIN saved /\ a \in Blocks
                                 /\ b \in prog.succs[a] /\ a # b /\ Dominates(prog, a, b)
  BY <1>1, <1>3, ProcessedFacts DEF OffersInv, SavedInv
<1>5. \A c \in Blocks : \A k \in 1 .. End(c) : <<c, k>> \in DOMAIN held
  BY <1>1 DEF HeldInv
<1>6. \A c \in Blocks : Len(prog.code[c]) \in Nat /\ 1 \in 1 .. End(c) /\ End(c) \in 1 .. End(c)
  <2> SUFFICES ASSUME NEW c \in Blocks
               PROVE  Len(prog.code[c]) \in Nat /\ 1 \in 1 .. End(c) /\ End(c) \in 1 .. End(c)
    OBVIOUS
  <2>1. Len(prog.code[c]) \in Nat
    BY FlowFacts
  <2>2. QED
    BY <2>1 DEF End
<1>7. PICK start : start = <<b, 1>>
  OBVIOUS
<1>8. start \in DOMAIN held /\ start[1] = b /\ start[2] = 1
  BY <1>4, <1>5, <1>6, <1>7
<1>9. PICK now : now = held[start] \cup LoadsIn(avail')
  OBVIOUS
<1>10. PICK h : h = [held EXCEPT ![start] = now]
  OBVIOUS
<1>11. /\ DOMAIN h = DOMAIN held /\ h[start] = held[start] \cup LoadsIn(avail')
       /\ \A l \in DOMAIN held : l # start => h[l] = held[l]
       /\ \A l \in DOMAIN held : held[l] \subseteq h[l]
  BY <1>8, <1>9, <1>10
<1>12. /\ \A c \in DOMAIN saved : Offers(saved[c], c, End(c), rep, held)
       /\ DOMAIN saved = Blocks \ {todo[i] : i \in DOMAIN todo}
       /\ \A id \in Future : rep[id] = id /\ held[<<Site(id)[1], Site(id)[2] + 1>>] = {}
  BY <1>1, <1>2 DEF OffersInv, Walking
(* what is taken over *)
<1>13. ASSUME NEW key \in DOMAIN avail'
       PROVE  \E a \in Processed(b) :
                LET r == avail'[key]
                IN  /\ r \in Ids \ Future /\ rep[r] = r /\ Prior(r, b, 1)
                    /\ Given(r).kind \in {"op", "gep", "load"} /\ KeyOf(Now(r, rep)) = key
                    /\ key[1] = "load" => /\ <<key[2], r>> \in held[<<a, End(a)>>]
                                          /\ Processed(b) = Preds(b)
  <2>1. PICK a \in Processed(b) : /\ key \in DOMAIN saved[a] /\ avail'[key] = saved[a][key]
                                  /\ key[1] = "load" => Processed(b) = Preds(b)
    BY <1>2, <1>3, <1>13, InheritedFacts
  <2> DEFINE r == saved[a][key]
  <2>2. /\ r \in Ids \ Future /\ rep[r] = r /\ Prior(r, a, End(a))
        /\ Given(r).kind \in {"op", "gep", "load"} /\ KeyOf(Now(r, rep)) = key
        /\ key[1] = "load" => <<key[2], r>> \in held[<<a, End(a)>>]
    BY <1>4, <1>12, <2>1 DEF Offers
  <2> HIDE DEF r
  <2>3. Prior(r, b, 1)
    BY <1>4, <2>1, <2>2, PriorBelow
  <2>4. QED
    BY <2>1, <2>2, <2>3 DEF r
<1>14. ASSUME NEW e \in LoadsIn(avail')
       PROVE  \E a \in Processed(b) : Preds(b) = {a} /\ e \in held[<<a, End(a)>>]
  <2>1. PICK key \in DOMAIN avail' : key[1] = "load" /\ e = <<key[2], avail'[key]>>
    BY DEF LoadsIn
  <2>2. PICK a \in Processed(b) : e \in held[<<a, End(a)>>] /\ Processed(b) = Preds(b)
    BY <1>13, <2>1
  <2>3. QED
    BY <1>4, <2>2
(* the loads that are held *)
<1>15. ASSUME NEW e, NEW m \in DOMAIN held, e \in held[m]
       PROVE  /\ e = <<e[1], e[2]>> /\ e[2] \in Ids /\ Prior(e[2], m[1], m[2])
              /\ IF e[1] \in Ids
                 THEN /\ Given(e[1]).kind = "gep" /\ rep[e[1]] = e[1]
                      /\ e[1] \notin Future /\ Prior(e[1], m[1], m[2])
                 ELSE e[1] = "S"
  BY <1>1, <1>15 DEF HeldInv
<1>16. ASSUME NEW l \in DOMAIN h, NEW e \in h[l]
       PROVE  /\ e = <<e[1], e[2]>> /\ e[2] \in Ids /\ Prior(e[2], l[1], l[2])
              /\ IF e[1] \in Ids
                 THEN /\ Given(e[1]).kind = "gep" /\ rep[e[1]] = e[1]
                      /\ e[1] \notin Future /\ Prior(e[1], l[1], l[2])
                 ELSE e[1] = "S"
  <2>1. CASE e \in held[l]
    BY <1>11, <1>15, <2>1
  <2>2. CASE e \notin held[l]
    <3>1. l = start /\ e \in LoadsIn(avail')
      BY <1>11, <2>2
    <3>2. PICK a \in Processed(b) : e \in held[<<a, End(a)>>]
      BY <1>14, <3>1
    <3>3. PICK m : m = <<a, End(a)>>
      OBVIOUS
    <3>4. m \in DOMAIN held /\ m[1] = a /\ m[2] = End(a) /\ e \in held[m]
      BY <1>4, <1>5, <1>6, <3>2, <3>3
    <3>5. /\ e = <<e[1], e[2]>> /\ e[2] \in Ids /\ Prior(e[2], a, End(a))
          /\ IF e[1] \in Ids
             THEN /\ Given(e[1]).kind = "gep" /\ rep[e[1]] = e[1]
                  /\ e[1] \notin Future /\ Prior(e[1], a, End(a))
             ELSE e[1] = "S"
      BY <1>15, <3>4
    <3>6. \A c \in Ids : Prior(c, a, End(a)) => Prior(c, b, 1)
      BY <1>4, <3>2, PriorBelow
    <3>7. QED
      BY <1>8, <3>1, <3>5, <3>6
  <2>3. QED
    BY <2>1, <2>2
<1>17. \A c \in Blocks : c # b => h[<<c, 1>>] = held[<<c, 1>>]
  BY <1>5, <1>6, <1>7, <1>11
<1>18. h[<<prog.list[1], 1>>] = {}
  <2>1. prog.list[1] \in Blocks /\ held[<<prog.list[1], 1>>] = {}
    BY <1>1, FlowFacts DEF HeldInv
  <2>2. CASE b # prog.list[1]
    BY <1>17, <2>1, <2>2
  <2>3. CASE b = prog.list[1]
    <3>1. Processed(b) = {}
      BY <1>4, <2>3, NothingAboveFirst
    <3>2. LoadsIn(avail') = {}
      BY <1>14, <3>1
    <3>3. QED
      BY <1>7, <1>11, <2>1, <2>3, <3>2
  <2>4. QED
    BY <2>2, <2>3
<1>19. ASSUME NEW c \in Blocks, h[<<c, 1>>] # {}
       PROVE  \E a \in Blocks : Preds(c) = {a} /\ h[<<c, 1>>] \subseteq h[<<a, End(a)>>]
  <2>1. ASSUME NEW a \in Blocks PROVE held[<<a, End(a)>>] \subseteq h[<<a, End(a)>>]
    BY <1>5, <1>6, <1>11
  <2>2. ASSUME held[<<c, 1>>] # {}
        PROVE  \E a \in Blocks : Preds(c) = {a} /\ held[<<c, 1>>] \subseteq held[<<a, End(a)>>]
    BY <1>1, <2>2 DEF HeldInv
  <2>3. CASE c # b
    BY <1>17, <1>19, <2>1, <2>2, <2>3
  <2>4. CASE c = b
    <3>1. h[<<c, 1>>] = held[<<c, 1>>] \cup LoadsIn(avail')
      BY <1>7, <1>11, <2>4
    <3>2. PICK a \in Blocks : Preds(c) = {a}
      BY <1>4, <1>14, <1>19, <2>2, <2>4, <3>1
    <3>3. held[<<c, 1>>] \subseteq held[<<a, End(a)>>]
      BY <2>2, <3>2
    <3>4. LoadsIn(avail') \subseteq held[<<a, End(a)>>]
      BY <1>14, <2>4, <3>2
    <3>5. QED
      BY <2>1, <3>1, <3>2, <3>3, <3>4
  <2>5. QED
    BY <2>3, <2>4
<1>20. ASSUME NEW id \in Ids
       PROVE  /\ h[<<Site(id)[1], Site(id)[2] + 1>>] = held[<<Site(id)[1], Site(id)[2] + 1>>]
              /\ held[<<Site(id)[1], Site(id)[2]>>] \subseteq h[<<Site(id)[1], Site(id)[2]>>]
  <2>1. /\ Site(id)[1] \in Blocks /\ Site(id)[2] \in 1 .. Len(prog.code[Site(id)[1]])
        /\ Len(prog.code[Site(id)[1]]) \in Nat
    BY SiteFacts, FlowFacts
  <2>2. Site(id)[2] + 1 \in 1 .. End(Site(id)[1]) /\ Site(id)[2] \in 1 .. End(Site(id)[1])
    BY <2>1 DEF End
  <2>3. <<Site(id)[1], Site(id)[2] + 1>> # start
    BY <1>7, <2>1
  <2>4. QED
    BY <1>5, <1>11, <2>1, <2>2, <2>3
<1>21. HeldInv(rep, h)
  <2>1. /\ DOMAIN h = UNION {{c} \X (1 .. End(c)) : c \in Blocks}
        /\ h[<<prog.list[1], 1>>] = {}
    BY <1>1, <1>11, <1>18 DEF HeldInv
  <2>2. \A l \in DOMAIN h : \A e \in h[l] :
          /\ e = <<e[1], e[2]>> /\ e[2] \in Ids /\ Prior(e[2], l[1], l[2])
          /\ IF e[1] \in Ids
             THEN /\ Given(e[1]).kind = "gep" /\ rep[e[1]] = e[1]
                  /\ e[1] \notin Future /\ Prior(e[1], l[1], l[2])
             ELSE e[1] = "S"
    BY <1>16
  <2>3. \A id \in Ids :
          LET n == Now(id, rep)
              c == Site(id)[1]
              k == Site(id)[2]
          IN  \A e \in h[<<c, k + 1>>] :
                \/ n.kind = "load" /\ e = <<n.x, id>>
                \/ /\ e \in h[<<c, k>>]
                   /\ n.kind = "store" => ~MayAlias(e[1], n.y)
                   /\ n.kind = "call" => n.x \notin sideEffect
    <3> SUFFICES ASSUME NEW id \in Ids, NEW e \in h[<<Site(id)[1], Site(id)[2] + 1>>]
                 PROVE  \/ Now(id, rep).kind = "load" /\ e = <<Now(id, rep).x, id>>
                        \/ /\ e \in h[<<Site(id)[1], Site(id)[2]>>]
                           /\ Now(id, rep).kind = "store" => ~MayAlias(e[1], Now(id, rep).y)
                           /\ Now(id, rep).kind = "call" => Now(id, rep).x \notin sideEffect
      OBVIOUS
    <3>1. e \in held[<<Site(id)[1], Site(id)[2] + 1>>]
      BY <1>20
    <3>2. \/ Now(id, rep).kind = "load" /\ e = <<Now(id, rep).x, id>>
          \/ /\ e \in held[<<Site(id)[1], Site(id)[2]>>]
             /\ Now(id, rep).kind = "store" => ~MayAlias(e[1], Now(id, rep).y)
             /\ Now(id, rep).kind = "call" => Now(id, rep).x \notin sideEffect
      BY <1>1, <3>1 DEF HeldInv
    <3>3. QED
      BY <1>20, <3>2
  <2>4. QED
    BY <1>19, <2>1, <2>2, <2>3 DEF HeldInv
<1>22. Future' = Future
  <2>1. Ids' = Ids /\ \A id : Site(id)' = Site(id)
    BY <1>2, SameProgram
  <2>2. \A id \in Ids : Site(id)[2] >= 1
    BY SiteFacts, FlowFacts
  <2>3. QED
    BY <1>2, <2>1, <2>2 DEF Future, Walking
<1>23. HeldInv(rep, h)'
  BY <1>2, <1>21, <1>22, HeldKept
<1>24. ReplacedInv(rep, h)'
  BY <1>1, <1>2, <1>11, <1>22, ReplacedKept
<1>25. ASSUME NEW c \in DOMAIN saved PROVE Offers(saved[c], c, End(c), rep, h)'
  <2>1. PICK map : map = saved[c]
    OBVIOUS
  <2>2. PICK k : k = End(c)
    OBVIOUS
  <2>3. Offers(map, c, k, rep, held)
    BY <1>12, <2>1, <2>2
  <2>4. <<c, k>> \in DOMAIN held
    BY <1>5, <1>6, <1>12, <2>2
  <2>5. held[<<c, k>>] \subseteq h[<<c, k>>] /\ Future' \subseteq Future /\ prog' = prog
    BY <1>2, <1>11, <1>22, <2>4
  <2>6. Offers(map, c, k, rep, h)'
    BY <2>3, <2>5, OfferKept
  <2>7. map = saved'[c] /\ k = End(c)'
    BY <1>2, <2>1, <2>2, SameProgram
  <2>8. QED
    BY <2>6, <2>7
<1>26. Offers(avail, b, 1, rep, h)'
  <2>1. Ids' = Ids /\ \A id : Given(id)' = Given(id) /\ Now(id, rep)' = Now(id, rep)
    BY <1>2, SameProgram
  <2>2. /\ \A id, c, k : Prior(id, c, k)' <=> Prior(id, c, k)
        /\ \A n : KeyOf(n)' = KeyOf(n)
    BY <1>2, SameProgram
  <2>3. ASSUME NEW key \in DOMAIN avail'
        PROVE  LET r == avail'[key]
               IN  /\ r \in Ids \ Future' /\ rep[r] = r /\ Prior(r, b, 1)
                   /\ Given(r).kind \in {"op", "gep", "load"} /\ KeyOf(Now(r, rep)) = key
                   /\ key[1] = "load" => <<key[2], r>> \in h[<<b, 1>>]
    <3>1. key[1] = "load" => <<key[2], avail'[key]>> \in LoadsIn(avail')
      BY DEF LoadsIn
    <3>2. QED
      BY <1>7, <1>11, <1>13, <1>22, <3>1
  <2>4. QED
    BY <2>1, <2>2, <2>3 DEF Offers
<1>27. OffersInv(rep, h)'
  <2>1. /\ Blocks' = Blocks /\ Ids' = Ids /\ \A c : End(c)' = End(c)
        /\ \A id : Site(id)' = Site(id)
    BY <1>2, SameProgram
  <2>2. (DOMAIN saved = Blocks \ {todo[i] : i \in DOMAIN todo})'
    BY <1>2, <1>12, <2>1
  <2>3. (\A c \in DOMAIN saved : Offers(saved[c], c, End(c), rep, h))'
    BY <1>2, <1>25
  <2>4. (\A id \in Future : rep[id] = id /\ h[<<Site(id)[1], Site(id)[2] + 1>>] = {})'
    BY <1>12, <1>20, <1>22, <2>1 DEF Future
  <2>5. TodoInv'
    BY <1>1, <1>2 DEF TodoInv, Walking
  <2>6. (todo # <<>> /\ pos \in 1 .. End(Head(todo)))'
    BY <1>2, <1>3, <1>4, <1>6, <2>1
  <2>7. Offers(avail, Head(todo), pos, rep, h)'
    BY <1>2, <1>3, <1>26
  <2>8. QED
    BY <1>2, <2>2, <2>3, <2>4, <2>5, <2>6, <2>7 DEF OffersInv
<1>28. ValuesInv(rep, h)'
  <2>1. DOMAIN code' \subseteq DOMAIN code /\ phase # "exec" /\ phase' # "exec"
    BY <1>2
  <2>2. QED
    BY <1>1, <1>2, <1>23, <2>1, ValuesWait
<1>29. FollowInv(rep, h)'
  BY <1>23, <1>24, <1>27, <1>28 DEF FollowInv
<1>30. QED
  BY <1>29

(****************************************************************************)
(* Values                                                                   *)
(****************************************************************************)
(* Every operand of id has the value of what stands for it. *)
OperandsAgree(id, rep) == \A v \in OperandsOf(id) : ghost[v] = ghost[rep[v]]

LEMMA OperandValues ==
  ASSUME Plain, WalkInv, TodoInv, NEW rep, NEW held, ReplacedInv(rep, held), DOMAIN ghost = Registers,
         NEW id \in Ids, OperandsAgree(id, rep)
  PROVE  /\ Original!Value(prog, ghost, Now(id, rep).x) = Original!Value(prog, ghost, Given(id).x)
         /\ Original!Value(prog, ghost, Now(id, rep).y) = Original!Value(prog, ghost, Given(id).y)
         /\ Given(id).kind = "load" =>
              Original!Address(prog, ghost, Now(id, rep).x) = Original!Address(prog, ghost, Given(id).x)
         /\ Given(id).kind = "store" =>
              Original!Address(prog, ghost, Now(id, rep).y) = Original!Address(prog, ghost, Given(id).y)
<1>1. ASSUME NEW v \in OperandsOf(id) PROVE rep[v] \in Ids /\ v \in Ids /\ ghost[v] = ghost[rep[v]]
  BY OperandNow DEF OperandsAgree
<1>2. Original!Value(prog, ghost, Now(id, rep).x) = Original!Value(prog, ghost, Given(id).x)
  <2>1. CASE Given(id).x \in Ids /\ id \notin prog.moved
    BY <1>1, <2>1, NowFacts DEF Original!Value, OperandsOf, Registers
  <2>2. CASE ~(Given(id).x \in Ids /\ id \notin prog.moved)
    BY <2>2, NowFacts
  <2>3. QED
    BY <2>1, <2>2
<1>3. Original!Value(prog, ghost, Now(id, rep).y) = Original!Value(prog, ghost, Given(id).y)
  <2>1. CASE Given(id).y \in Ids /\ id \notin prog.moved
    BY <1>1, <2>1, NowFacts DEF Original!Value, OperandsOf, Registers
  <2>2. CASE ~(Given(id).y \in Ids /\ id \notin prog.moved)
    BY <2>2, NowFacts
  <2>3. QED
    BY <2>1, <2>2
<1>4. /\ Given(id).kind = "load" => (Now(id, rep).x = "S" <=> Given(id).x = "S")
      /\ Given(id).kind = "store" => (Now(id, rep).y = "S" <=> Given(id).y = "S")
  BY AddressNow
<1>5. QED
  BY <1>2, <1>3, <1>4 DEF Original!Address

(* The base of an address and the function called are names. *)
LEMMA NamesStay ==
  ASSUME Plain, NEW rep, NEW id \in Ids
  PROVE  /\ Given(id).kind = "gep" => Now(id, rep).x = Given(id).x
         /\ Given(id).kind = "call" => Now(id, rep).x = Given(id).x
  BY KindFacts, NowFacts

(* An instruction that is left does now what the original one does.         *)
LEMMA LeftValues ==
  ASSUME Plain, WalkInv, TodoInv, NEW rep, NEW held, ReplacedInv(rep, held), DOMAIN ghost = Registers,
         DOMAIN regs = Registers, NEW id \in DOMAIN code, id \in Ids, OperandsAgree(id, rep),
         \A o \in DOMAIN code \cup Phis : regs[o] = ghost[o], Operands(code[id]) \subseteq DOMAIN code
  PROVE  /\ Original!Result(prog, regs, mem, code[id]) = Original!Result(prog, ghost, mem, Given(id))
         /\ Original!Memory(prog, regs, mem, code[id]) = Original!Memory(prog, ghost, mem, Given(id))
         /\ Original!Value(prog, regs, code[id].x) = Original!Value(prog, ghost, Given(id).x)
<1>1. /\ code[id] = Now(id, rep) /\ code[id].kind = Given(id).kind
  BY NowFacts DEF ReplacedInv
<1>2. ASSUME NEW x \in {code[id].x, code[id].y}
      PROVE  Original!Value(prog, regs, x) = Original!Value(prog, ghost, x)
  BY DEF Original!Value, Operands, Ids, Registers
<1>3. /\ Original!Value(prog, regs, code[id].x) = Original!Value(prog, ghost, Given(id).x)
      /\ Original!Value(prog, regs, code[id].y) = Original!Value(prog, ghost, Given(id).y)
  BY <1>1, <1>2, OperandValues
<1>4. /\ Given(id).kind = "load" =>
           Original!Address(prog, regs, code[id].x) = Original!Address(prog, ghost, Given(id).x)
      /\ Given(id).kind = "store" =>
           Original!Address(prog, regs, code[id].y) = Original!Address(prog, ghost, Given(id).y)
  <2>1. /\ Given(id).kind = "load" => (code[id].x = "S" <=> Given(id).x = "S")
        /\ Given(id).kind = "store" => (code[id].y = "S" <=> Given(id).y = "S")
    BY <1>1, AddressNow
  <2>2. QED
    BY <1>3, <2>1 DEF Original!Address
<1>5. /\ Given(id).kind = "gep" => code[id].x = Given(id).x
      /\ Given(id).kind = "call" => code[id].x = Given(id).x
  BY <1>1, NamesStay
<1>6. Given(id).kind \in {"op", "cmp", "gep", "load", "store", "call", "ret"}
  BY KindFacts
<1>7. Original!Result(prog, regs, mem, code[id]) = Original!Result(prog, ghost, mem, Given(id))
  <2>1. CASE Given(id).kind = "op"
    BY <1>1, <1>3, <2>1 DEF Original!Result
  <2>2. CASE Given(id).kind = "gep"
    BY <1>1, <1>3, <1>5, <2>2 DEF Original!Result
  <2>3. CASE Given(id).kind = "load"
    BY <1>1, <1>4, <2>3 DEF Original!Result
  <2>4. CASE Given(id).kind \in {"cmp", "store", "call", "ret"}
    BY <1>1, <2>4 DEF Original!Result
  <2>5. QED
    BY <1>6, <2>1, <2>2, <2>3, <2>4
<1>8. Original!Memory(prog, regs, mem, code[id]) = Original!Memory(prog, ghost, mem, Given(id))
  <2>1. CASE Given(id).kind = "store"
    BY <1>1, <1>3, <1>4, <2>1 DEF Original!Memory
  <2>2. CASE Given(id).kind = "call"
    BY <1>1, <1>5, <2>2 DEF Original!Memory
  <2>3. CASE Given(id).kind \in {"op", "cmp", "gep", "load", "ret"}
    BY <1>1, <2>3 DEF Original!Memory
  <2>4. QED
    BY <1>6, <2>1, <2>2, <2>3
<1>9. QED
  BY <1>3, <1>7, <1>8

(* Operands that are alike have one value. *)
LEMMA AlikeValues ==
  ASSUME Plain, NEW r, DOMAIN r = Registers, NEW x, NEW y, Alike(prog, x, y)
  PROVE  Original!Value(prog, r, x) = Original!Value(prog, r, y)
<1>1. CASE x = y
  BY <1>1
<1>2. CASE IsConstant(x) /\ IsConstant(y) /\ prog.value[x] = prog.value[y]
  <2>1. x \notin DOMAIN r /\ y \notin DOMAIN r
    BY <1>2, NamesApart DEF Registers
  <2>2. QED
    BY <1>2, <2>1 DEF Original!Value, IsConstant
<1>3. QED
  BY <1>1, <1>2 DEF Alike, IsConstant

(* The instructions and the phis that id reads *)
ReadBy(id) == {Given(id).x, Given(id).y} \cap Registers

(* What an expression or an address is depends on its operands only. *)
LEMMA ResultStays ==
  ASSUME NEW id \in Ids, Given(id).kind \in {"op", "gep"}, NEW r, NEW new, NEW m, NEW later,
         DOMAIN r = Registers, DOMAIN new = Registers,
         \A v \in ReadBy(id) : new[v] = r[v]
  PROVE  Original!Result(prog, new, later, Given(id)) = Original!Result(prog, r, m, Given(id))
<1>1. /\ Original!Value(prog, new, Given(id).x) = Original!Value(prog, r, Given(id).x)
      /\ Original!Value(prog, new, Given(id).y) = Original!Value(prog, r, Given(id).y)
  BY DEF ReadBy, Original!Value
<1>2. QED
  BY <1>1 DEF Original!Result

(* Two expressions, or two addresses, with the same key are equal.          *)
LEMMA SameKeySameResult ==
  ASSUME Plain, WalkInv, TodoInv, NEW rep, NEW held, ReplacedInv(rep, held), DOMAIN ghost = Registers,
         NEW c \in Ids, NEW r \in Ids, OperandsAgree(c, rep), OperandsAgree(r, rep),
         Given(c).kind = Given(r).kind, Given(c).kind \in {"op", "gep"},
         KeyOf(Now(c, rep)) = KeyOf(Now(r, rep))
  PROVE  Original!Result(prog, ghost, mem, Given(c)) = Original!Result(prog, ghost, mem, Given(r))
<1>1. /\ Now(c, rep).kind = Given(c).kind /\ Now(r, rep).kind = Given(r).kind
      /\ Now(c, rep).id = c /\ Now(r, rep).id = r
  BY NowFacts
<1>2. PICK m, n : m = Now(c, rep) /\ n = Now(r, rep)
  OBVIOUS
<1>3. /\ m.kind = "op" => Alike(prog, m.x, n.x) /\ Alike(prog, m.y, n.y)
      /\ m.kind = "gep" => m.x = n.x /\ Alike(prog, Index(m), Index(n))
  BY <1>1, <1>2, SameKeySameOperands
<1>4. /\ Original!Value(prog, ghost, m.x) = Original!Value(prog, ghost, Given(c).x)
      /\ Original!Value(prog, ghost, n.x) = Original!Value(prog, ghost, Given(r).x)
      /\ Original!Value(prog, ghost, m.y) = Original!Value(prog, ghost, Given(c).y)
      /\ Original!Value(prog, ghost, n.y) = Original!Value(prog, ghost, Given(r).y)
  BY <1>2, OperandValues
<1>5. CASE Given(c).kind = "op"
  <2>1. /\ Original!Value(prog, ghost, m.x) = Original!Value(prog, ghost, n.x)
        /\ Original!Value(prog, ghost, m.y) = Original!Value(prog, ghost, n.y)
    BY <1>1, <1>2, <1>3, <1>5, AlikeValues
  <2>2. QED
    BY <1>4, <1>5, <2>1 DEF Original!Result
<1>6. CASE Given(c).kind = "gep"
  <2>1. m.x = Given(c).x /\ n.x = Given(r).x /\ Given(c).x = Given(r).x
    <3>1. Given(r).kind = "gep"
      BY <1>6
    <3>2. Now(c, rep).x = Given(c).x /\ Now(r, rep).x = Given(r).x
      BY <1>6, <3>1, NamesStay
    <3>3. QED
      BY <1>1, <1>2, <1>3, <1>6, <3>2
  <2>2. Original!Value(prog, ghost, Given(c).y) = Original!Value(prog, ghost, Given(r).y)
    <3>1. CASE Given(c).x = "A"
      <4>1. Alike(prog, prog.beyond[c], prog.beyond[r])
        BY <1>1, <1>2, <1>3, <1>6, <2>1, <3>1 DEF Index
      <4>2. Alike(prog, Given(c).y, Given(r).y)
        BY <1>6, <2>1, <3>1, <4>1, NamesApart
      <4>3. QED
        BY <4>2, AlikeValues
    <3>2. CASE Given(c).x # "A"
      <4>1. Alike(prog, m.y, n.y)
        BY <1>1, <1>2, <1>3, <1>6, <2>1, <3>2 DEF Index
      <4>2. Original!Value(prog, ghost, m.y) = Original!Value(prog, ghost, n.y)
        BY <4>1, AlikeValues
      <4>3. QED
        BY <1>4, <4>2
    <3>3. QED
      BY <3>1, <3>2
  <2>3. QED
    BY <1>6, <2>1, <2>2 DEF Original!Result
<1>7. QED
  BY <1>5, <1>6

(****************************************************************************)
(* The function runs                                                        *)
(****************************************************************************)
(* Where an address lies. *)
Holder(x) == IF BaseOf(x) = "A" THEN prog.alias ELSE BaseOf(x)

(* Addresses that no store confuses are different. *)
LEMMA AddressesApart ==
  ASSUME Plain, NEW rep, NEW b, NEW k, NEW x, NEW y,
         IsAddress(x, b, k, rep), IsAddress(y, b, k, rep), ~MayAlias(x, y), DOMAIN ghost = Registers,
         \A id \in Ids : Prior(id, b, k) /\ Given(id).kind = "gep" =>
           ghost[id] = Original!Result(prog, ghost, mem, Given(id))
  PROVE  Original!Address(prog, ghost, x) # Original!Address(prog, ghost, y)
<1>1. ASSUME NEW z, IsAddress(z, b, k, rep)
      PROVE  Original!Address(prog, ghost, z)[1] = Holder(z) /\ BaseOf(z) \in {"S", "G", "L", "A"}
  <2>1. CASE z = "S" /\ z \notin Ids
    BY <2>1 DEF Original!Address, Holder, BaseOf
  <2>2. CASE z \in Ids /\ Given(z).kind = "gep" /\ Prior(z, b, k)
    <3>1. Given(z).x \in {"G", "L", "A"} /\ BaseOf(z) = Given(z).x
      BY <2>2, KindFacts DEF BaseOf
    <3>2. ghost[z] = <<IF Given(z).x = "A" THEN prog.alias ELSE Given(z).x,
                       Original!Offset(prog, Original!Value(prog, ghost, Given(z).y))>>
      BY <2>2 DEF Original!Result
    <3>3. z # "S"
      BY <2>2, NamesApart
    <3>4. Original!Address(prog, ghost, z) = ghost[z]
      BY <2>2, <3>3 DEF Original!Address, Original!Value, Registers
    <3>5. QED
      BY <3>1, <3>2, <3>4 DEF Holder
  <2>3. QED
    BY <1>1, <2>1, <2>2 DEF IsAddress
<1>2. prog.alias \in {"A", "G"}
  BY NamesApart
<1>3. Holder(x) # Holder(y)
  <2>1. BaseOf(x) # BaseOf(y) /\ {BaseOf(x), BaseOf(y)} # {"A", "G"}
    BY DEF MayAlias
  <2>2. BaseOf(x) \in {"S", "G", "L", "A"} /\ BaseOf(y) \in {"S", "G", "L", "A"}
    BY <1>1
  <2>3. QED
    BY <1>2, <2>1, <2>2 DEF Holder
<1>4. QED
  BY <1>1, <1>3

(* What is true of the place the function is at. *)
LEMMA RunningFacts ==
  ASSUME Plain, NEW rep, NEW held, ValuesInv(rep, held), ReplacedInv(rep, held),
         NEW b, NEW k, b = at.block, k = at.next
  PROVE  /\ b \in Blocks /\ k \in 1 .. End(b) /\ k \in Nat
         /\ Original!Ahead(prog, at) <=> k \in DOMAIN prog.code[b]
         /\ ~Original!Ahead(prog, at) => k = End(b)
         /\ \A id \in Ids : Prior(id, b, k) =>
              /\ ghost[id] = ghost[rep[id]]
              /\ \A v \in OperandsOf(id) : Prior(v, b, k)
              /\ OperandsAgree(id, rep)
              /\ Given(id).kind \in {"op", "gep"} =>
                   ghost[id] = Original!Result(prog, ghost, mem, Given(id))
              /\ rep[id] \in Ids /\ Prior(rep[id], b, k)
<1>1. b \in Blocks /\ k \in 1 .. End(b)
  BY DEF ValuesInv
<1>2. Len(prog.code[b]) \in Nat /\ DOMAIN prog.code[b] = 1 .. Len(prog.code[b])
  BY <1>1, FlowFacts
<1>3. k \in Nat
  BY <1>1, <1>2 DEF End
<1>4. Original!Ahead(prog, at) <=> k \in DOMAIN prog.code[b]
  BY DEF Original!Ahead
<1>5. ~Original!Ahead(prog, at) => k = End(b)
  BY <1>1, <1>2, <1>3, <1>4 DEF End
<1>6. ASSUME NEW id \in Ids, Prior(id, b, k)
      PROVE  /\ ghost[id] = ghost[rep[id]]
             /\ \A v \in OperandsOf(id) : Prior(v, b, k)
             /\ OperandsAgree(id, rep)
             /\ Given(id).kind \in {"op", "gep"} =>
                  ghost[id] = Original!Result(prog, ghost, mem, Given(id))
             /\ rep[id] \in Ids /\ Prior(rep[id], b, k)
  <2>1. /\ ghost[id] = ghost[rep[id]]
        /\ Given(id).kind \in {"op", "gep"} =>
             ghost[id] = Original!Result(prog, ghost, mem, Given(id))
    BY <1>6 DEF ValuesInv
  <2>2. ASSUME NEW v \in OperandsOf(id) PROVE Prior(v, b, k) /\ v \in Ids
    <3>1. v \in Ids /\ Prior(v, Site(id)[1], Site(id)[2])
      BY OperandsBefore DEF OperandsOf
    <3>2. QED
      BY <1>1, <1>3, <1>6, <3>1, PriorTransitive
  <2>3. OperandsAgree(id, rep)
    BY <2>2 DEF OperandsAgree, ValuesInv
  <2>4. rep[id] \in Ids
    BY DEF ReplacedInv
  <2>5. CASE rep[id] = id
    BY <1>6, <2>1, <2>2, <2>3, <2>4, <2>5
  <2>6. CASE rep[id] # id
    <3>1. Prior(rep[id], Site(id)[1], Site(id)[2])
      BY <2>6 DEF ReplacedInv
    <3>2. Prior(rep[id], b, k)
      BY <1>1, <1>3, <1>6, <2>4, <3>1, PriorTransitive
    <3>3. QED
      BY <2>1, <2>2, <2>3, <2>4, <3>2
  <2>7. QED
    BY <2>5, <2>6
<1>7. QED
  BY <1>1, <1>3, <1>4, <1>5, <1>6

LEMMA PhisAreFunctions ==
  ASSUME ProgOK, NEW w \in Phis, NEW from, from = prog.phis[w].from
  PROVE  from = [a \in DOMAIN from |-> from[a]]
<1>1. \A v \in DOMAIN prog.phis :
        LET pairs == prog.phis[v].from IN pairs = [a \in DOMAIN pairs |-> pairs[a]]
  BY ProgramsAssumption DEF ProgOK
<1>2. QED
  BY <1>1 DEF Phis

LEMMA InitFollows ==
  ASSUME Init, Plain
  PROVE  \E rep, held : FollowInv(rep, held)
<1>1. /\ Plain /\ phase = "effects" /\ todo = prog.list /\ avail = Empty /\ saved = Empty
      /\ waitDelete = {} /\ regs = ghost /\ at = Original!Start(prog)
      /\ ghost = [id \in Registers |-> Original!Undef]
      /\ phis = [w \in Phis |-> prog.phis[w].from]
  BY DEF Init, Original!Init, Original!From, Ids, Phis, Registers
<1>2. DOMAIN code = Ids /\ \A id \in Ids : code[id] = Written(id)
  BY DEF Init, Ids
<1>3. ASSUME NEW id \in Ids PROVE code[id] = Given(id)
  BY <1>2, WrittenIsGiven
<1>4. PICK rep : rep = [id \in Ids |-> id]
  OBVIOUS
<1>5. PICK held : held = [l \in UNION {{b} \X (1 .. End(b)) : b \in Blocks} |-> {}]
  OBVIOUS
<1>6. /\ DOMAIN held = UNION {{b} \X (1 .. End(b)) : b \in Blocks}
      /\ \A l \in DOMAIN held : held[l] = {}
  BY <1>5
<1>7. \A b \in Blocks : \A k \in 1 .. End(b) : held[<<b, k>>] = {}
  BY <1>6
<1>8. \A b \in Blocks : 1 \in 1 .. End(b) /\ \A k \in DOMAIN prog.code[b] : k + 1 \in 1 .. End(b)
  <2>1. TAKE b \in Blocks
  <2>2. Len(prog.code[b]) \in Nat /\ DOMAIN prog.code[b] = 1 .. Len(prog.code[b])
    BY <1>1, FlowFacts
  <2>3. QED
    BY <2>2 DEF End
<1>9. /\ held[<<prog.list[1], 1>>] = {} /\ prog.list[1] \in Blocks
      /\ \A id \in Ids : held[<<Site(id)[1], Site(id)[2] + 1>>] = {}
      /\ \A b \in Blocks : held[<<b, 1>>] = {}
  <2>1. prog.list[1] \in Blocks
    BY <1>1, FlowFacts
  <2>2. ASSUME NEW id \in Ids PROVE held[<<Site(id)[1], Site(id)[2] + 1>>] = {}
    <3>1. Site(id)[1] \in Blocks /\ Site(id)[2] \in DOMAIN prog.code[Site(id)[1]]
      BY <1>1, SiteFacts
    <3>2. QED
      BY <1>7, <1>8, <3>1
  <2>3. \A b \in Blocks : held[<<b, 1>>] = {}
    BY <1>7, <1>8
  <2>4. QED
    BY <2>1, <2>2, <2>3
<1>10. HeldInv(rep, held)
  BY <1>6, <1>9 DEF HeldInv
<1>11. /\ rep \in [Ids -> Ids] /\ \A id \in Ids : rep[id] = id
  BY <1>4
<1>12. ASSUME NEW id \in Ids PROVE code[id] = Now(id, rep)
  <2>1. Now(id, rep).x = Given(id).x /\ Now(id, rep).y = Given(id).y
    BY <1>1, <1>11, NowFacts
  <2>2. Given(id) = [id |-> id, kind |-> Given(id).kind, x |-> Given(id).x, y |-> Given(id).y]
    BY <1>1, KindFacts
  <2>3. Now(id, rep) = [id |-> id, kind |-> Given(id).kind, x |-> Given(id).x, y |-> Given(id).y]
    BY <1>1, <2>1, NowFacts
  <2>4. QED
    BY <1>3, <2>2, <2>3
<1>13. ReplacedInv(rep, held)
  <2>1. ASSUME NEW w \in Phis PROVE PhiNow(w, rep) = prog.phis[w].from
    <3>1. PICK from : from = prog.phis[w].from
      OBVIOUS
    <3>2. PhiNow(w, rep) = [a \in DOMAIN from |-> from[a]]
      BY <1>11, <3>1 DEF PhiNow
    <3>3. from = [a \in DOMAIN from |-> from[a]]
      BY <3>1, PhisAreFunctions
    <3>4. QED
      BY <3>1, <3>2, <3>3
  <2>2. phis = [w \in Phis |-> PhiNow(w, rep)]
    BY <1>1, <2>1
  <2>3. QED
    BY <1>1, <1>2, <1>11, <1>12, <2>2 DEF ReplacedInv
<1>14. Len(prog.list) \in Nat /\ \A b \in Blocks : \E i \in DOMAIN prog.list : prog.list[i] = b
  BY <1>1, FlowFacts
<1>15. TodoInv
  <2>1. \A i \in DOMAIN prog.list : i \in Nat
    BY <1>1, FlowFacts
  <2>2. QED
    BY <1>1, <1>14, <2>1 DEF TodoInv
<1>16. DOMAIN saved = {} /\ Blocks \ {todo[i] : i \in DOMAIN todo} = {}
  BY <1>1, <1>14 DEF Empty
<1>17. OffersInv(rep, held)
  BY <1>1, <1>6, <1>9, <1>11, <1>15, <1>16 DEF OffersInv, Future
<1>18. ValuesInv(rep, held)
  <2>1. at = [block |-> prog.list[1], next |-> 1]
    BY <1>1 DEF Original!Start
  <2>2. at.block = prog.list[1] /\ at.next = 1 /\ at = [block |-> at.block, next |-> at.next]
    BY <2>1
  <2>3. at.block \in Blocks /\ at.next \in 1 .. End(at.block)
    BY <1>8, <1>9, <2>2
  <2>4. \A id \in Ids : ~Prior(id, at.block, at.next)
    BY <1>1, <2>2, NothingPriorToStart
  <2>5. held[<<at.block, at.next>>] = {}
    BY <1>9, <2>2
  <2>6. DOMAIN regs = Registers /\ DOMAIN ghost = Registers
    BY <1>1
  <2>7. QED
    BY <1>1, <2>2, <2>3, <2>4, <2>5, <2>6 DEF ValuesInv
<1>19. QED
  BY <1>10, <1>13, <1>17, <1>18 DEF FollowInv

(* While the function runs nothing is to come, and nothing is rewritten.    *)
LEMMA RunKeeps ==
  ASSUME Plain, NEW rep, NEW held, FollowInv(rep, held), phase = "exec",
         UNCHANGED <<prog, passVars>>
  PROVE  /\ Future = {} /\ TodoInv
         /\ HeldInv(rep, held)' /\ ReplacedInv(rep, held)' /\ OffersInv(rep, held)'
<1>1. HeldInv(rep, held) /\ ReplacedInv(rep, held) /\ OffersInv(rep, held)
  BY DEF FollowInv
<1>2. /\ phase' = "exec" /\ UNCHANGED <<prog, todo, sideEffect, code, waitDelete, phis>>
      /\ UNCHANGED <<prog, phase, todo, sideEffect, pos, avail, saved, code, waitDelete>>
  BY DEF passVars
<1>3. Future = {} /\ Future' = {} /\ ~Walking /\ ~Walking'
  BY <1>2 DEF Future, Walking
<1>4. Future' \subseteq Future
  BY <1>3
<1>5. HeldInv(rep, held)'
  BY <1>1, <1>2, <1>4, HeldKept
<1>6. ReplacedInv(rep, held)'
  BY <1>1, <1>2, <1>4, ReplacedKept
<1>7. TodoInv /\ TodoInv'
  BY <1>3 DEF TodoInv
<1>8. OffersInv(rep, held)'
  BY <1>2, <1>3, <1>7 DEF OffersInv
<1>9. QED
  BY <1>3, <1>5, <1>6, <1>7, <1>8

(* What executing instruction c, at place k of block b, does.               *)
LEMMA ExecuteStep ==
  ASSUME Plain, WalkInv, NEW rep, NEW held, FollowInv(rep, held), Execute,
         NEW b, NEW k, NEW c, b = at.block, k = at.next, c = prog.code[b][k].id
  PROVE  /\ b \in Blocks /\ k \in DOMAIN prog.code[b] /\ k \in Nat /\ c \in Ids
         /\ Site(c)[1] = b /\ Site(c)[2] = k /\ Given(c) = prog.code[b][k]
         /\ OperandsAgree(c, rep)
         /\ DOMAIN ghost' = Registers /\ ghost'[c] = Original!Result(prog, ghost, mem, Given(c))
         /\ \A id \in Registers : id # c => ghost'[id] = ghost[id]
         /\ DOMAIN regs' = Registers /\ \A id \in DOMAIN code \cup Phis : regs'[id] = ghost'[id]
         /\ mem' = Original!Memory(prog, ghost, mem, Given(c))
         /\ result' = IF Given(c).kind = "ret" THEN Original!Value(prog, ghost, Given(c).x) ELSE result
         /\ at' = [block |-> b, next |-> k + 1]
<1>1. /\ HeldInv(rep, held) /\ ReplacedInv(rep, held) /\ ValuesInv(rep, held) /\ phase = "exec"
      /\ UNCHANGED <<prog, passVars>> /\ Original!Ahead(prog, at)
  BY DEF FollowInv, Execute
<1>2. TodoInv
  BY <1>1, RunKeeps
<1>3. b \in Blocks /\ k \in Nat /\ k \in DOMAIN prog.code[b]
  BY <1>1, RunningFacts
<1>4. c \in Ids /\ Site(c)[1] = b /\ Site(c)[2] = k /\ Given(c) = prog.code[b][k]
  BY <1>3, SiteFacts
<1>5. OperandsAgree(c, rep)
  <2>1. \A v \in OperandsOf(c) : v \in Ids /\ Prior(v, b, k)
    BY <1>4, OperandsBefore DEF OperandsOf
  <2>2. QED
    BY <1>1, <2>1 DEF OperandsAgree, ValuesInv
<1>6. /\ DOMAIN ghost = Registers /\ DOMAIN regs = Registers /\ DOMAIN code \subseteq Ids
      /\ \A id \in DOMAIN code \cup Phis : regs[id] = ghost[id]
      /\ \A id \in DOMAIN code : Operands(code[id]) \subseteq DOMAIN code
      /\ c \notin Phis
  BY <1>1, <1>4, NamesApart DEF ValuesInv, ReplacedInv, Registers
<1>7. c \in DOMAIN code =>
        /\ Original!Result(prog, regs, mem, code[c]) = Original!Result(prog, ghost, mem, Given(c))
        /\ Original!Memory(prog, regs, mem, code[c]) = Original!Memory(prog, ghost, mem, Given(c))
        /\ Original!Value(prog, regs, code[c].x) = Original!Value(prog, ghost, Given(c).x)
  BY <1>1, <1>2, <1>4, <1>5, <1>6, LeftValues
<1>8. c \notin DOMAIN code => Given(c).kind \in {"op", "gep", "load"}
  <2>1. c \notin DOMAIN code => rep[c] # c
    BY <1>1, <1>4 DEF ReplacedInv
  <2>2. rep[c] # c => Now(c, rep).kind \in {"op", "gep", "load"}
    BY <1>1, <1>4 DEF ReplacedInv
  <2>3. Now(c, rep).kind = Given(c).kind
    BY <1>4, NowFacts
  <2>4. QED
    BY <2>1, <2>2, <2>3
<1> DEFINE R == Original!Result(prog, ghost, mem, Given(c))
           M == Original!Memory(prog, ghost, mem, Given(c))
           V == Original!Value(prog, ghost, Given(c).x)
<1>9. /\ ghost' = [ghost EXCEPT ![c] = R]
      /\ regs' = IF c \in DOMAIN code THEN [regs EXCEPT ![c] = R] ELSE regs
      /\ mem' = IF c \in DOMAIN code THEN M ELSE mem
      /\ result' = IF c \in DOMAIN code /\ Given(c).kind = "ret" THEN V ELSE result
      /\ at' = [at EXCEPT !.next = at.next + 1]
  BY <1>4, <1>7 DEF Execute
<1>10. c \notin DOMAIN code => M = mem
  BY <1>8 DEF Original!Memory
<1>11. at' = [block |-> b, next |-> k + 1]
  <2>1. at = [block |-> b, next |-> k]
    BY <1>1 DEF ValuesInv
  <2>2. QED
    BY <1>9, <2>1
<1> HIDE DEF R, M, V
<1>12. /\ DOMAIN ghost' = Registers /\ ghost'[c] = R
       /\ \A id \in Registers : id # c => ghost'[id] = ghost[id]
  BY <1>4, <1>6, <1>9 DEF Registers
<1>13. DOMAIN regs' = Registers /\ \A id \in DOMAIN code \cup Phis : regs'[id] = ghost'[id]
  BY <1>4, <1>6, <1>9, <1>12 DEF Registers
<1>14. mem' = M /\ result' = IF Given(c).kind = "ret" THEN V ELSE result
  BY <1>8, <1>9, <1>10
<1>15. QED
  BY <1>3, <1>4, <1>5, <1>11, <1>12, <1>13, <1>14 DEF R, M, V

(* The address of a held load is that of a name or of an earlier gep.       *)
LEMMA HeldAddress ==
  ASSUME Plain, NEW rep, NEW held, HeldInv(rep, held), NEW b \in Blocks, NEW k \in 1 .. End(b),
         NEW e \in held[<<b, k>>]
  PROVE  e[2] \in Ids /\ Prior(e[2], b, k) /\ IsAddress(e[1], b, k, rep)
<1>1. <<b, k>> \in DOMAIN held
  BY DEF HeldInv
<1> DEFINE l == <<b, k>>
<1>2. l[1] = b /\ l[2] = k
  OBVIOUS
<1>3. l \in DOMAIN held /\ e \in held[l]
  BY <1>1
<1> HIDE DEF l
<1>4. /\ e[2] \in Ids /\ Prior(e[2], l[1], l[2])
      /\ IF e[1] \in Ids
         THEN Given(e[1]).kind = "gep" /\ rep[e[1]] = e[1] /\ Prior(e[1], l[1], l[2])
         ELSE e[1] = "S"
  BY <1>3 DEF HeldInv
<1>5. QED
  BY <1>2, <1>4 DEF IsAddress

(* Executing an instruction leaves the memory at the address of every load  *)
(* that is still held behind it.                                            *)
LEMMA MemoryKept ==
  ASSUME Plain, EffectsInv, WalkInv, NEW rep, NEW held, FollowInv(rep, held), Execute,
         NEW b, NEW k, NEW c, b = at.block, k = at.next, c = prog.code[b][k].id,
         NEW e \in held[<<b, k>>],
         Now(c, rep).kind = "store" => ~MayAlias(e[1], Now(c, rep).y),
         Now(c, rep).kind = "call" => Now(c, rep).x \notin sideEffect
  PROVE  LET a == Original!Address(prog, ghost, e[1])
         IN  (a \in DOMAIN mem' <=> a \in DOMAIN mem) /\ (a \in DOMAIN mem => mem'[a] = mem[a])
<1> DEFINE a == Original!Address(prog, ghost, e[1])
<1>1. /\ HeldInv(rep, held) /\ ReplacedInv(rep, held) /\ ValuesInv(rep, held) /\ phase = "exec"
      /\ UNCHANGED <<prog, passVars>>
  BY DEF FollowInv, Execute
<1>2. TodoInv /\ DOMAIN ghost = Registers
  BY <1>1, RunKeeps DEF ValuesInv
<1>3. /\ b \in Blocks /\ k \in 1 .. End(b) /\ c \in Ids /\ Site(c)[1] = b /\ Site(c)[2] = k
      /\ OperandsAgree(c, rep) /\ mem' = Original!Memory(prog, ghost, mem, Given(c))
  <2>1. b \in Blocks /\ k \in 1 .. End(b)
    BY <1>1, RunningFacts
  <2>2. QED
    BY <2>1, ExecuteStep
<1>4. IsAddress(e[1], b, k, rep)
  BY <1>1, <1>3, HeldAddress
<1>5. CASE Given(c).kind = "store"
  <2> DEFINE s == Original!Address(prog, ghost, Given(c).y)
  <2>1. s = Original!Address(prog, ghost, Now(c, rep).y)
    BY <1>1, <1>2, <1>3, <1>5, OperandValues
  <2>2. IsAddress(Now(c, rep).y, b, k, rep) /\ ~MayAlias(e[1], Now(c, rep).y)
    <3>1. IsAddress(Now(c, rep).y, Site(c)[1], Site(c)[2], rep)
      BY <1>1, <1>2, <1>3, <1>5, AddressNow
    <3>2. Now(c, rep).kind = "store"
      BY <1>3, <1>5, NowFacts
    <3>3. QED
      BY <1>3, <3>1, <3>2
  <2>3. \A id \in Ids : Prior(id, b, k) /\ Given(id).kind = "gep" =>
          ghost[id] = Original!Result(prog, ghost, mem, Given(id))
    BY <1>1 DEF ValuesInv
  <2>4. a # Original!Address(prog, ghost, Now(c, rep).y)
    <3>1. PICK x, y : x = e[1] /\ y = Now(c, rep).y
      OBVIOUS
    <3>2. IsAddress(x, b, k, rep) /\ IsAddress(y, b, k, rep) /\ ~MayAlias(x, y)
      BY <1>4, <2>2, <3>1
    <3>3. Original!Address(prog, ghost, x) # Original!Address(prog, ghost, y)
      BY <1>2, <2>3, <3>2, AddressesApart
    <3>4. QED
      BY <3>1, <3>3
  <2>5. a # s
    BY <2>1, <2>4
  <2>6. mem' = IF s \in DOMAIN mem THEN [mem EXCEPT ![s] = Original!Value(prog, ghost, Given(c).x)]
               ELSE mem
    BY <1>3, <1>5 DEF Original!Memory
  <2> HIDE DEF s, a
  <2>7. QED
    BY <2>5, <2>6 DEF a
<1>6. CASE Given(c).kind = "call"
  <2>1. Now(c, rep).kind = "call" /\ Now(c, rep).x = Given(c).x
    <3>1. Now(c, rep).kind = Given(c).kind
      BY <1>3, NowFacts
    <3>2. Now(c, rep).x = Given(c).x
      BY <1>3, <1>6, NamesStay
    <3>3. QED
      BY <1>6, <3>1, <3>2
  <2>2. Given(c).x \notin sideEffect
    BY <2>1
  <2>3. Given(c).x \notin Original!Writers(prog.funs)
    <3>1. Given(c).x \notin Original!Writers(Seen(prog.funs))
      BY <1>1, <2>2, EffectsAreExact DEF Reached
    <3>2. Given(c) \in {n \in Instructions(prog) : n.kind = "call"}
      BY <1>3, <1>6, Among DEF Instructions
    <3>3. QED
      BY <3>1, <3>2, RewrittenAssumption DEF ProgOK
  <2>4. mem' = mem
    BY <1>3, <1>6, <2>2, <2>3 DEF Original!Memory
  <2>5. QED
    BY <2>4
<1>7. CASE Given(c).kind \notin {"store", "call"}
  <2>1. mem' = mem
    BY <1>3, <1>7 DEF Original!Memory
  <2>2. QED
    BY <2>1
<1>8. QED
  BY <1>5, <1>6, <1>7

(* What is held behind an instruction is what memory has there.             *)
LEMMA HeldRuns ==
  ASSUME Plain, EffectsInv, WalkInv, NEW rep, NEW held, FollowInv(rep, held), Execute,
         NEW b, NEW k, NEW c, b = at.block, k = at.next, c = prog.code[b][k].id,
         NEW e \in held[<<b, k + 1>>]
  PROVE  ghost'[e[2]] = Original!Result(prog, ghost', mem', [kind |-> "load", x |-> e[1]])
<1>1. /\ HeldInv(rep, held) /\ ReplacedInv(rep, held) /\ ValuesInv(rep, held) /\ phase = "exec"
      /\ UNCHANGED <<prog, passVars>>
  BY DEF FollowInv, Execute
<1>2. TodoInv /\ DOMAIN ghost = Registers
  BY <1>1, RunKeeps DEF ValuesInv
<1>3. /\ b \in Blocks /\ k \in 1 .. End(b) /\ c \in Ids /\ Site(c)[1] = b /\ Site(c)[2] = k
      /\ OperandsAgree(c, rep) /\ mem' = Original!Memory(prog, ghost, mem, Given(c))
      /\ DOMAIN ghost' = Registers /\ ghost'[c] = Original!Result(prog, ghost, mem, Given(c))
      /\ \A id \in Registers : id # c => ghost'[id] = ghost[id]
  <2>1. b \in Blocks /\ k \in 1 .. End(b)
    BY <1>1, RunningFacts
  <2>2. /\ c \in Ids /\ Site(c)[1] = b /\ Site(c)[2] = k
        /\ OperandsAgree(c, rep) /\ mem' = Original!Memory(prog, ghost, mem, Given(c))
    BY ExecuteStep
  <2>3. DOMAIN ghost' = Registers /\ ghost'[c] = Original!Result(prog, ghost, mem, Given(c))
    BY ExecuteStep
  <2>4. \A id \in Registers : id # c => ghost'[id] = ghost[id]
    BY ExecuteStep
  <2>5. QED
    BY <2>1, <2>2, <2>3, <2>4
<1>4. ASSUME NEW x, IsAddress(x, b, k, rep)
      PROVE  Original!Address(prog, ghost', x) = Original!Address(prog, ghost, x)
  <2>1. x \in Ids => x # c
    BY <1>3, <1>4, PriorIrreflexive, NamesApart DEF IsAddress
  <2>2. x \in DOMAIN ghost => ghost'[x] = ghost[x]
    BY <1>2, <1>3, <1>4, <2>1, NamesApart DEF Registers
  <2>3. QED
    BY <1>2, <1>3, <2>2 DEF Original!Address, Original!Value
<1>5. Now(c, rep).kind = Given(c).kind
  <2>1. c \in Ids
    BY <1>3
  <2>2. QED
    BY <2>1, NowFacts
<1>6. \/ Now(c, rep).kind = "load" /\ e = <<Now(c, rep).x, c>>
      \/ /\ e \in held[<<b, k>>]
         /\ Now(c, rep).kind = "store" => ~MayAlias(e[1], Now(c, rep).y)
         /\ Now(c, rep).kind = "call" => Now(c, rep).x \notin sideEffect
  BY <1>1, <1>3 DEF HeldInv
<1>7. CASE Now(c, rep).kind = "load" /\ e = <<Now(c, rep).x, c>>
  <2>1. e[1] = Now(c, rep).x /\ e[2] = c /\ Given(c).kind = "load"
    BY <1>5, <1>7
  <2>2. IsAddress(e[1], b, k, rep)
    BY <1>1, <1>2, <1>3, <2>1, AddressNow
  <2>3. /\ Original!Address(prog, ghost', e[1]) = Original!Address(prog, ghost, e[1])
        /\ Original!Address(prog, ghost, e[1]) = Original!Address(prog, ghost, Given(c).x)
    BY <1>1, <1>2, <1>3, <1>4, <2>1, <2>2, OperandValues
  <2>4. mem' = mem
    BY <1>3, <2>1 DEF Original!Memory
  <2>5. QED
    BY <1>3, <2>1, <2>3, <2>4 DEF Original!Result
<1>8. CASE /\ e \in held[<<b, k>>]
           /\ Now(c, rep).kind = "store" => ~MayAlias(e[1], Now(c, rep).y)
           /\ Now(c, rep).kind = "call" => Now(c, rep).x \notin sideEffect
  <2> DEFINE a == Original!Address(prog, ghost, e[1])
  <2>1. e[2] \in Ids /\ Prior(e[2], b, k) /\ IsAddress(e[1], b, k, rep)
    BY <1>1, <1>3, <1>8, HeldAddress
  <2>2. e[2] # c
    BY <1>3, <2>1, PriorIrreflexive
  <2>3. ghost'[e[2]] = Original!Result(prog, ghost, mem, [kind |-> "load", x |-> e[1]])
    BY <1>1, <1>3, <1>8, <2>1, <2>2 DEF ValuesInv, Registers
  <2>4. (a \in DOMAIN mem' <=> a \in DOMAIN mem) /\ (a \in DOMAIN mem => mem'[a] = mem[a])
    BY <1>8, MemoryKept
  <2>5. Original!Address(prog, ghost', e[1]) = a
    BY <1>4, <2>1
  <2> HIDE DEF a
  <2>6. QED
    BY <2>3, <2>4, <2>5 DEF a, Original!Result
<1>9. QED
  BY <1>6, <1>7, <1>8

(* The instruction that is executed has the value of what replaces it.      *)
LEMMA ReplacedRuns ==
  ASSUME Plain, WalkInv, NEW rep, NEW held, FollowInv(rep, held), Execute,
         NEW b, NEW k, NEW c, b = at.block, k = at.next, c = prog.code[b][k].id,
         NEW r, rep[c] = r
  PROVE  ghost'[r] = ghost'[c]
<1> SUFFICES ASSUME rep[c] # c PROVE ghost'[r] = ghost'[c]
  OBVIOUS
<1>1. /\ HeldInv(rep, held) /\ ReplacedInv(rep, held) /\ ValuesInv(rep, held) /\ phase = "exec"
      /\ UNCHANGED <<prog, passVars>>
  BY DEF FollowInv, Execute
<1>2. TodoInv /\ DOMAIN ghost = Registers
  BY <1>1, RunKeeps DEF ValuesInv
<1>3. /\ b \in Blocks /\ k \in 1 .. End(b) /\ c \in Ids /\ Site(c)[1] = b /\ Site(c)[2] = k
      /\ OperandsAgree(c, rep) /\ ghost'[c] = Original!Result(prog, ghost, mem, Given(c))
      /\ \A id \in Registers : id # c => ghost'[id] = ghost[id]
  <2>1. b \in Blocks /\ k \in 1 .. End(b)
    BY <1>1, RunningFacts
  <2>2. QED
    BY <2>1, ExecuteStep
<1>4. /\ Now(c, rep).kind \in {"op", "gep", "load"} /\ r \in Ids /\ Prior(r, b, k)
      /\ Now(c, rep).kind = Now(r, rep).kind /\ KeyOf(Now(c, rep)) = KeyOf(Now(r, rep))
      /\ Now(c, rep).kind = "load" => <<Now(c, rep).x, r>> \in held[<<b, k>>]
  BY <1>1, <1>3 DEF ReplacedInv
<1>5. ghost'[r] = ghost[r]
  BY <1>3, <1>4 DEF Registers
<1>6. Now(c, rep).kind = Given(c).kind
  <2>1. c \in Ids
    BY <1>3
  <2>2. QED
    BY <2>1, NowFacts
<1>7. Now(r, rep).kind = Given(r).kind
  BY <1>4, NowFacts
<1>8. CASE Given(c).kind \in {"op", "gep"}
  <2>1. Given(r).kind = Given(c).kind
    BY <1>4, <1>6, <1>7
  <2>2. OperandsAgree(r, rep)
    BY <1>1, <1>4, RunningFacts
  <2>3. ghost[r] = Original!Result(prog, ghost, mem, Given(r))
    BY <1>1, <1>4, <1>8, <2>1 DEF ValuesInv
  <2>4. Original!Result(prog, ghost, mem, Given(c)) = Original!Result(prog, ghost, mem, Given(r))
    BY <1>1, <1>2, <1>3, <1>4, <1>8, <2>1, <2>2, SameKeySameResult
  <2>5. QED
    BY <1>3, <1>5, <2>3, <2>4
<1>9. CASE Given(c).kind = "load"
  <2> DEFINE e == <<Now(c, rep).x, r>>
  <2>1. e[1] = Now(c, rep).x /\ e[2] = r /\ e \in held[<<b, k>>]
    BY <1>4, <1>6, <1>9
  <2> HIDE DEF e
  <2>2. ghost[r] = Original!Result(prog, ghost, mem, [kind |-> "load", x |-> e[1]])
    BY <1>1, <2>1 DEF ValuesInv
  <2>3. Original!Address(prog, ghost, Now(c, rep).x) = Original!Address(prog, ghost, Given(c).x)
    BY <1>1, <1>2, <1>3, <1>9, OperandValues
  <2>4. Original!Address(prog, ghost, e[1]) = Original!Address(prog, ghost, Given(c).x)
    BY <2>1, <2>3
  <2>5. QED
    BY <1>3, <1>5, <1>9, <2>2, <2>4 DEF Original!Result
<1>10. QED
  BY <1>4, <1>6, <1>8, <1>9

LEMMA ExecuteValues ==
  ASSUME Plain, EffectsInv, WalkInv, NEW rep, NEW held, FollowInv(rep, held), Execute
  PROVE  ValuesInv(rep, held)'
<1>1. /\ HeldInv(rep, held) /\ ReplacedInv(rep, held) /\ ValuesInv(rep, held) /\ phase = "exec"
      /\ UNCHANGED <<prog, passVars>>
  BY DEF FollowInv, Execute
<1>2. PICK b, k : b = at.block /\ k = at.next
  OBVIOUS
<1>3. PICK c : c = prog.code[b][k].id
  OBVIOUS
<1>4. /\ b \in Blocks /\ k \in DOMAIN prog.code[b] /\ k \in Nat /\ c \in Ids
      /\ Site(c)[1] = b /\ Site(c)[2] = k
      /\ DOMAIN ghost' = Registers /\ ghost'[c] = Original!Result(prog, ghost, mem, Given(c))
      /\ \A id \in Registers : id # c => ghost'[id] = ghost[id]
      /\ DOMAIN regs' = Registers /\ \A id \in DOMAIN code \cup Phis : regs'[id] = ghost'[id]
      /\ at' = [block |-> b, next |-> k + 1]
  <2>1. /\ b \in Blocks /\ k \in DOMAIN prog.code[b] /\ k \in Nat /\ c \in Ids
        /\ Site(c)[1] = b /\ Site(c)[2] = k
    BY <1>2, <1>3, ExecuteStep
  <2>2. DOMAIN ghost' = Registers /\ ghost'[c] = Original!Result(prog, ghost, mem, Given(c))
    BY <1>2, <1>3, ExecuteStep
  <2>3. \A id \in Registers : id # c => ghost'[id] = ghost[id]
    BY <1>2, <1>3, ExecuteStep
  <2>4. /\ DOMAIN regs' = Registers /\ \A id \in DOMAIN code \cup Phis : regs'[id] = ghost'[id]
        /\ at' = [block |-> b, next |-> k + 1]
    BY <1>2, <1>3, ExecuteStep
  <2>5. QED
    BY <2>1, <2>2, <2>3, <2>4
<1>5. DOMAIN ghost = Registers /\ c \notin Phis
  BY <1>1, <1>4, NamesApart DEF ValuesInv, Registers
<1>6. ~Prior(c, b, k)
  BY <1>4, PriorIrreflexive
<1>7. /\ Blocks' = Blocks /\ Ids' = Ids /\ Phis' = Phis /\ Registers' = Registers
      /\ End(b)' = End(b)
      /\ \A id : Site(id)' = Site(id) /\ Given(id)' = Given(id)
      /\ prog' = prog /\ code' = code /\ phase' = "exec"
  BY <1>1, SameProgram DEF passVars
<1>8. at'.block = b /\ at'.next = k + 1 /\ at' = [block |-> at'.block, next |-> at'.next]
  BY <1>4
<1>9. k + 1 \in 1 .. End(b)
  BY <1>4, FlowFacts DEF End
<1>10. \A id \in Ids : Prior(id, at.block, at.next)' <=> Prior(id, b, k) \/ id = c
  <2>1. \A id \in Ids : Prior(id, b, k + 1) <=> Prior(id, b, k) \/ id = c
    BY <1>3, <1>4, PriorNext
  <2>2. \A id \in Ids : Prior(id, at.block, at.next)' <=> Prior(id, b, k + 1)
    BY <1>7, <1>8 DEF Prior
  <2>3. QED
    BY <2>1, <2>2
<1>11. ASSUME NEW id \in Ids, Prior(id, b, k)
       PROVE  /\ ghost'[id] = ghost'[rep[id]]
              /\ Given(id).kind \in {"op", "gep"} =>
                   ghost'[id] = Original!Result(prog, ghost', mem', Given(id))
  <2>1. /\ ghost[id] = ghost[rep[id]] /\ rep[id] \in Ids /\ Prior(rep[id], b, k)
        /\ \A v \in OperandsOf(id) : Prior(v, b, k)
        /\ Given(id).kind \in {"op", "gep"} =>
             ghost[id] = Original!Result(prog, ghost, mem, Given(id))
    BY <1>1, <1>2, <1>11, RunningFacts
  <2>2. ghost'[id] = ghost[id] /\ ghost'[rep[id]] = ghost[rep[id]]
    BY <1>4, <1>6, <1>11, <2>1 DEF Registers
  <2>3. \A v \in ReadBy(id) : ghost'[v] = ghost[v]
    BY <1>4, <1>5, <1>6, <2>1 DEF OperandsOf, ReadBy, Registers
  <2>4. Given(id).kind \in {"op", "gep"} =>
          Original!Result(prog, ghost', mem', Given(id)) = Original!Result(prog, ghost, mem, Given(id))
    BY <1>4, <1>5, <2>3, ResultStays
  <2>5. QED
    BY <2>1, <2>2, <2>4
<1>12. /\ ghost'[c] = ghost'[rep[c]]
       /\ Given(c).kind \in {"op", "gep"} =>
            ghost'[c] = Original!Result(prog, ghost', mem', Given(c))
  <2>1. PICK r : rep[c] = r
    OBVIOUS
  <2>2. ghost'[r] = ghost'[c]
    BY <1>2, <1>3, <2>1, ReplacedRuns
  <2>3. \A v \in ReadBy(c) : ghost'[v] = ghost[v]
    BY <1>4, <1>5, <1>6, OperandsBefore DEF OperandsOf, ReadBy, Registers
  <2>4. Given(c).kind \in {"op", "gep"} =>
          Original!Result(prog, ghost', mem', Given(c)) = Original!Result(prog, ghost, mem, Given(c))
    BY <1>4, <1>5, <2>3, ResultStays
  <2>5. QED
    BY <1>4, <2>1, <2>2, <2>4
<1>13. (\A id \in Ids : Prior(id, at.block, at.next) =>
          /\ ghost[id] = ghost[rep[id]]
          /\ Given(id).kind \in {"op", "gep"} =>
               ghost[id] = Original!Result(prog, ghost, mem, Given(id)))'
  BY <1>7, <1>10, <1>11, <1>12
<1>14. (\A e \in held[<<at.block, at.next>>] :
          ghost[e[2]] = Original!Result(prog, ghost, mem, [kind |-> "load", x |-> e[1]]))'
  <2>1. ASSUME NEW e \in held[<<b, k + 1>>]
        PROVE  ghost'[e[2]] = Original!Result(prog, ghost', mem', [kind |-> "load", x |-> e[1]])
    <3>1. b = at.block /\ k = at.next /\ c = prog.code[b][k].id
      BY <1>2, <1>3
    <3>2. QED
      BY <2>1, <3>1, HeldRuns
  <2>2. QED
    BY <1>7, <1>8, <2>1
<1>15. (/\ at.block \in Blocks /\ at.next \in 1 .. End(at.block)
        /\ at = [block |-> at.block, next |-> at.next]
        /\ DOMAIN regs = Registers /\ DOMAIN ghost = Registers
        /\ \A id \in DOMAIN code \cup Phis : regs[id] = ghost[id])'
  <2>1. End(at.block)' = End(b)
    BY <1>7, <1>8 DEF End
  <2>2. QED
    BY <1>4, <1>7, <1>8, <1>9, <2>1
<1>16. (\A id \in DOMAIN code : Operands(code[id]) \subseteq DOMAIN code)'
  BY <1>1, <1>7 DEF ValuesInv, Operands
<1>17. QED
  BY <1>7, <1>13, <1>14, <1>15, <1>16 DEF ValuesInv

LEMMA ExecuteFollows ==
  ASSUME Plain, EffectsInv, WalkInv, NEW rep, NEW held, FollowInv(rep, held), Execute
  PROVE  (\E new, h : FollowInv(new, h)') /\ Original!Step
<1>1. phase = "exec" /\ UNCHANGED <<prog, passVars>> /\ Original!Ahead(prog, at)
  BY DEF Execute
<1>2. HeldInv(rep, held)' /\ ReplacedInv(rep, held)' /\ OffersInv(rep, held)'
  BY <1>1, RunKeeps
<1>3. ValuesInv(rep, held)'
  BY ExecuteValues
<1>4. \E new, h : FollowInv(new, h)'
  BY <1>2, <1>3 DEF FollowInv
<1>5. PICK b, k : b = at.block /\ k = at.next
  OBVIOUS
<1>6. PICK c : c = prog.code[b][k].id
  OBVIOUS
<1>7. /\ Given(c) = prog.code[b][k]
      /\ mem' = Original!Memory(prog, ghost, mem, Given(c))
      /\ result' = IF Given(c).kind = "ret" THEN Original!Value(prog, ghost, Given(c).x) ELSE result
  BY <1>5, <1>6, ExecuteStep
<1>8. /\ ghost' = [ghost EXCEPT ![prog.code[b][k].id] =
                     Original!Result(prog, ghost, mem, prog.code[b][k])]
      /\ at' = [at EXCEPT !.next = k + 1]
  BY <1>5 DEF Execute
<1>9. Original!Step
  BY <1>1, <1>5, <1>7, <1>8 DEF Original!Step
<1>10. QED
  BY <1>4, <1>9

(* What a phi reads has been executed where it comes from, and who reads a  *)
(* phi comes behind it.                                                     *)
LEMMA PhiFacts ==
  ASSUME Plain, NEW w \in Phis
  PROVE  /\ \A a \in DOMAIN prog.phis[w].from : prog.phis[w].from[a] \in Ids =>
              Prior(prog.phis[w].from[a], a, End(a))
         /\ \A id \in Ids : w \in ReadBy(id) =>
              \/ Site(id)[1] = prog.phis[w].block
              \/ Dominates(prog, prog.phis[w].block, Site(id)[1])
<1> DEFINE from == prog.phis[w].from
           In(x, b) == \E j \in DOMAIN prog.code[b] : prog.code[b][j].id = x
<1>1. /\ \A b \in Blocks \ {prog.phis[w].block} : \A k \in DOMAIN prog.code[b] :
           w \in {prog.code[b][k].x, prog.code[b][k].y} => Dominates(prog, prog.phis[w].block, b)
      /\ \A a \in DOMAIN from : \A c \in Blocks \ {a} : In(from[a], c) => Dominates(prog, c, a)
  <2>1. InSSA(prog)
    BY RewrittenAssumption DEF ProgOK
  <2>2. QED
    BY <2>1 DEF InSSA, Blocks, Phis
<1>2. ASSUME NEW id \in Ids
      PROVE  /\ Site(id)[1] \in Blocks /\ Site(id)[2] \in DOMAIN prog.code[Site(id)[1]]
             /\ Given(id) = prog.code[Site(id)[1]][Site(id)[2]] /\ Given(id).id = id
  BY SiteFacts DEF Given
<1>3. ASSUME NEW a \in DOMAIN from, from[a] \in Ids PROVE Prior(from[a], a, End(a))
  <2>1. PICK v : v = from[a]
    OBVIOUS
  <2>2. Site(v)[1] \in Blocks /\ In(v, Site(v)[1])
    BY <1>2, <1>3, <2>1
  <2>3. CASE Site(v)[1] = a
    <3>1. Site(v)[2] \in 1 .. Len(prog.code[a]) /\ Len(prog.code[a]) \in Nat
      BY <1>2, <1>3, <2>1, <2>3, FlowFacts
    <3>2. Site(v)[2] < End(a)
      BY <3>1 DEF End
    <3>3. QED
      BY <2>1, <2>3, <3>2 DEF Prior
  <2>4. CASE Site(v)[1] # a
    <3>1. Dominates(prog, Site(v)[1], a)
      BY <1>1, <2>1, <2>2, <2>4
    <3>2. QED
      BY <2>1, <2>4, <3>1 DEF Prior
  <2>5. QED
    BY <2>3, <2>4
<1>4. ASSUME NEW id \in Ids, w \in ReadBy(id), Site(id)[1] # prog.phis[w].block
      PROVE  Dominates(prog, prog.phis[w].block, Site(id)[1])
  BY <1>1, <1>2, <1>4 DEF ReadBy
<1>5. QED
  BY <1>3, <1>4

(* On the way from block a to block s only the phis of s change.            *)
LEMMA JumpStep ==
  ASSUME Plain, NEW rep, NEW held, ReplacedInv(rep, held), ValuesInv(rep, held),
         NEW a, a = at.block, ~Original!Ahead(prog, at), NEW s \in prog.succs[a],
         ghost' = Original!Entered(prog, ghost, Original!From(prog), a, s),
         regs' = Original!Entered(prog, regs, phis, a, s)
  PROVE  /\ DOMAIN ghost' = Registers /\ DOMAIN regs' = Registers
         /\ \A id \in Ids : ghost'[id] = ghost[id] /\ regs'[id] = regs[id]
         /\ \A w \in Phis : regs'[w] = ghost'[w]
         /\ \A id \in Ids : Prior(id, s, 1) => \A v \in ReadBy(id) : ghost'[v] = ghost[v]
<1>1. /\ DOMAIN ghost = Registers /\ DOMAIN regs = Registers
      /\ \A id \in DOMAIN code \cup Phis : regs[id] = ghost[id]
  BY DEF ValuesInv
<1>2. a \in Blocks /\ s \in Blocks /\ at.next = End(a)
  <2>1. a \in Blocks /\ at.next = End(a)
    BY RunningFacts
  <2>2. QED
    BY <2>1, FlowFacts
<1>3. /\ DOMAIN ghost' = Registers /\ DOMAIN regs' = Registers
      /\ \A x \in Registers : x \notin Phis \/ prog.phis[x].block # s =>
           ghost'[x] = ghost[x] /\ regs'[x] = regs[x]
  BY <1>1 DEF Original!Entered, Phis
<1>4. \A id \in Ids : ghost'[id] = ghost[id] /\ regs'[id] = regs[id]
  BY <1>3, NamesApart DEF Registers
<1>5. ASSUME NEW v \in Ids, Prior(v, a, End(a))
      PROVE  rep[v] \in Ids /\ regs[rep[v]] = ghost[v]
  <2>1. ghost[v] = ghost[rep[v]] /\ rep[v] \in Ids
    BY <1>2, <1>5, RunningFacts
  <2>2. rep[rep[v]] = rep[v] /\ DOMAIN code \ waitDelete = {id \in Ids : rep[id] = id}
    BY DEF ReplacedInv
  <2>3. rep[v] \in DOMAIN code
    BY <2>1, <2>2
  <2>4. QED
    BY <1>1, <2>1, <2>3
<1>6. ASSUME NEW w \in Phis PROVE regs'[w] = ghost'[w]
  <2>1. w \in Registers /\ regs[w] = ghost[w]
    BY <1>1 DEF Registers
  <2>2. CASE prog.phis[w].block # s
    BY <1>3, <2>1, <2>2
  <2>3. CASE prog.phis[w].block = s
    <3>1. PICK from : from = prog.phis[w].from
      OBVIOUS
    <3>2. PICK now : now = phis[w]
      OBVIOUS
    <3>3. now = [c \in DOMAIN from |-> IF from[c] \in Ids THEN rep[from[c]] ELSE from[c]]
      BY <3>1, <3>2 DEF ReplacedInv, PhiNow
    <3>4. /\ ghost'[w] = IF a \in DOMAIN from THEN Original!Value(prog, ghost, from[a])
                         ELSE Original!Undef
          /\ regs'[w] = IF a \in DOMAIN now THEN Original!Value(prog, regs, now[a])
                        ELSE Original!Undef
      BY <1>1, <2>1, <2>3, <3>1, <3>2 DEF Original!Entered, Original!From, Phis
    <3>5. CASE a \notin DOMAIN from
      BY <3>3, <3>4, <3>5
    <3>6. CASE a \in DOMAIN from /\ from[a] \in Ids
      <4>1. Prior(from[a], a, End(a))
        BY <3>1, <3>6, PhiFacts
      <4>2. rep[from[a]] \in Ids /\ regs[rep[from[a]]] = ghost[from[a]]
        BY <1>5, <3>6, <4>1
      <4>3. now[a] = rep[from[a]] /\ a \in DOMAIN now
        BY <3>3, <3>6
      <4>4. Original!Value(prog, regs, now[a]) = Original!Value(prog, ghost, from[a])
        BY <1>1, <3>6, <4>2, <4>3 DEF Original!Value, Registers
      <4>5. QED
        BY <3>4, <3>6, <4>3, <4>4
    <3>7. CASE a \in DOMAIN from /\ from[a] \notin Ids
      <4>1. now[a] = from[a] /\ a \in DOMAIN now
        BY <3>3, <3>7
      <4>2. from[a] \in Registers => regs[from[a]] = ghost[from[a]]
        BY <1>1, <3>7 DEF Registers
      <4>3. Original!Value(prog, regs, from[a]) = Original!Value(prog, ghost, from[a])
        BY <1>1, <4>2 DEF Original!Value
      <4>4. QED
        BY <3>4, <3>7, <4>1, <4>3
    <3>8. QED
      BY <3>5, <3>6, <3>7
  <2>4. QED
    BY <2>2, <2>3
<1>7. ASSUME NEW id \in Ids, Prior(id, s, 1), NEW v \in ReadBy(id) PROVE ghost'[v] = ghost[v]
  <2>1. v \in Registers
    BY DEF ReadBy
  <2>2. ASSUME v \in Phis, prog.phis[v].block = s PROVE FALSE
    <3>1. Site(id)[1] = s \/ Dominates(prog, s, Site(id)[1])
      BY <2>2, PhiFacts
    <3>2. Site(id)[1] \in Blocks /\ Site(id)[2] \in Nat /\ Site(id)[2] >= 1
      BY SiteFacts, FlowFacts
    <3>3. Site(id)[1] # s /\ Dominates(prog, Site(id)[1], s)
      BY <1>7, <3>2 DEF Prior
    <3>4. QED
      BY <3>1, <3>2, <3>3, DominatorsAreOrdered
  <2>3. QED
    BY <1>3, <2>1, <2>2
<1>8. QED
  BY <1>3, <1>4, <1>6, <1>7

(* At a branch: what is held at the start of a block is held at the end of  *)
(* the one it is always reached from.                                       *)
LEMMA JumpFollows ==
  ASSUME Plain, WalkInv, NEW rep, NEW held, FollowInv(rep, held), Jump
  PROVE  (\E new, h : FollowInv(new, h)') /\ Original!Branch
<1>1. /\ phase = "exec" /\ UNCHANGED <<prog, passVars>> /\ UNCHANGED <<prog, mem, result>>
      /\ UNCHANGED <<code, phase>> /\ ~Original!Ahead(prog, at)
  BY DEF Jump, passVars
<1>2. HeldInv(rep, held) /\ ReplacedInv(rep, held) /\ ValuesInv(rep, held)
  BY DEF FollowInv
<1>3. HeldInv(rep, held)' /\ ReplacedInv(rep, held)' /\ OffersInv(rep, held)'
  BY <1>1, RunKeeps
<1>4. PICK a, k : a = at.block /\ k = at.next
  OBVIOUS
<1>5. a \in Blocks /\ k = End(a) /\ k \in 1 .. End(a)
  BY <1>1, <1>2, <1>4, RunningFacts
<1>6. PICK s \in prog.succs[a] :
        /\ at' = [block |-> s, next |-> 1]
        /\ ghost' = Original!Entered(prog, ghost, Original!From(prog), a, s)
        /\ regs' = Original!Entered(prog, regs, phis, a, s)
  BY <1>4 DEF Jump
<1>7. s \in Blocks /\ a \in Preds(s)
  BY <1>5, FlowFacts
<1>8. /\ Blocks' = Blocks /\ Ids' = Ids /\ Phis' = Phis /\ Registers' = Registers
      /\ \A b : End(b)' = End(b)
      /\ \A id : Site(id)' = Site(id) /\ Given(id)' = Given(id)
  BY <1>1, SameProgram
<1>9. at'.block = s /\ at'.next = 1 /\ at' = [block |-> at'.block, next |-> at'.next]
  BY <1>6
<1>10. 1 \in 1 .. End(s)
  BY <1>7, FlowFacts DEF End
<1>11. \A id \in Ids : Prior(id, at.block, at.next)' =>
         Prior(id, s, 1) /\ Prior(id, a, k)
  <2>1. \A id \in Ids : Prior(id, at.block, at.next)' <=> Prior(id, s, 1)
    BY <1>1, <1>8, <1>9 DEF Prior
  <2>2. \A id \in Ids : Prior(id, s, 1) => Prior(id, a, End(a))
    BY <1>5, <1>6, PriorAcross
  <2>3. QED
    BY <1>5, <2>1, <2>2
<1>12. held[<<s, 1>>] \subseteq held[<<a, k>>]
  <2>1. held[<<s, 1>>] # {} =>
          \E p \in Blocks : Preds(s) = {p} /\ held[<<s, 1>>] \subseteq held[<<p, End(p)>>]
    BY <1>2, <1>7 DEF HeldInv
  <2>2. QED
    BY <1>5, <1>7, <2>1
<1>13. /\ DOMAIN ghost' = Registers /\ DOMAIN regs' = Registers
       /\ \A id \in Ids : ghost'[id] = ghost[id] /\ regs'[id] = regs[id]
       /\ \A w \in Phis : regs'[w] = ghost'[w]
       /\ \A id \in Ids : Prior(id, s, 1) => \A v \in ReadBy(id) : ghost'[v] = ghost[v]
  BY <1>1, <1>2, <1>4, <1>6, JumpStep
<1>14. DOMAIN ghost = Registers
  BY <1>2 DEF ValuesInv
<1>15. ASSUME NEW id \in Ids, Prior(id, s, 1), Prior(id, a, k)
       PROVE  /\ ghost'[id] = ghost'[rep[id]]
              /\ Given(id).kind \in {"op", "gep"} =>
                   ghost'[id] = Original!Result(prog, ghost', mem', Given(id))
  <2>1. /\ ghost[id] = ghost[rep[id]] /\ rep[id] \in Ids
        /\ Given(id).kind \in {"op", "gep"} =>
             ghost[id] = Original!Result(prog, ghost, mem, Given(id))
    BY <1>1, <1>2, <1>4, <1>15, RunningFacts
  <2>2. Given(id).kind \in {"op", "gep"} =>
          Original!Result(prog, ghost', mem', Given(id)) = Original!Result(prog, ghost, mem, Given(id))
    BY <1>13, <1>14, <1>15, ResultStays
  <2>3. QED
    BY <1>13, <2>1, <2>2
<1>16. (\A id \in Ids : Prior(id, at.block, at.next) =>
          /\ ghost[id] = ghost[rep[id]]
          /\ Given(id).kind \in {"op", "gep"} =>
               ghost[id] = Original!Result(prog, ghost, mem, Given(id)))'
  BY <1>1, <1>8, <1>11, <1>15
<1>17. ASSUME NEW e \in held[<<a, k>>]
       PROVE  ghost'[e[2]] = Original!Result(prog, ghost', mem', [kind |-> "load", x |-> e[1]])
  <2>1. e[2] \in Ids /\ IsAddress(e[1], a, k, rep)
    BY <1>2, <1>5, HeldAddress
  <2>2. ghost[e[2]] = Original!Result(prog, ghost, mem, [kind |-> "load", x |-> e[1]])
    BY <1>2, <1>4 DEF ValuesInv
  <2>3. Original!Address(prog, ghost', e[1]) = Original!Address(prog, ghost, e[1])
    <3>1. CASE e[1] = "S"
      BY <3>1 DEF Original!Address
    <3>2. CASE e[1] \in Ids
      BY <1>13, <1>14, <3>2 DEF Original!Address, Original!Value, Registers
    <3>3. QED
      BY <2>1, <3>1, <3>2 DEF IsAddress
  <2>4. ghost'[e[2]] = ghost[e[2]] /\ mem' = mem
    BY <1>1, <1>13, <2>1
  <2>5. QED
    BY <2>2, <2>3, <2>4 DEF Original!Result
<1>18. (\A e \in held[<<at.block, at.next>>] :
          ghost[e[2]] = Original!Result(prog, ghost, mem, [kind |-> "load", x |-> e[1]]))'
  <2>1. \A e \in held[<<s, 1>>] :
          ghost'[e[2]] = Original!Result(prog, ghost', mem', [kind |-> "load", x |-> e[1]])
    BY <1>12, <1>17
  <2>2. QED
    BY <1>1, <1>9, <1>12, <2>1
<1>19. (/\ at.block \in Blocks /\ at.next \in 1 .. End(at.block)
        /\ at = [block |-> at.block, next |-> at.next]
        /\ DOMAIN regs = Registers /\ DOMAIN ghost = Registers
        /\ \A id \in DOMAIN code \cup Phis : regs[id] = ghost[id])'
  <2>1. End(at.block)' = End(s)
    BY <1>1, <1>9 DEF End
  <2>2. \A id \in DOMAIN code \cup Phis : regs'[id] = ghost'[id]
    BY <1>2, <1>13 DEF ValuesInv, ReplacedInv
  <2>3. QED
    BY <1>1, <1>7, <1>8, <1>9, <1>10, <1>13, <2>1, <2>2
<1>20. (\A id \in DOMAIN code : Operands(code[id]) \subseteq DOMAIN code)'
  BY <1>1, <1>2 DEF ValuesInv, Operands
<1>21. ValuesInv(rep, held)'
  BY <1>1, <1>16, <1>18, <1>19, <1>20 DEF ValuesInv
<1>22. Original!Branch
  BY <1>1, <1>4, <1>6 DEF Original!Branch
<1>23. QED
  BY <1>3, <1>21, <1>22 DEF FollowInv

(* Nothing happens. *)
LEMMA StutterFollows ==
  ASSUME Plain, NEW rep, NEW held, FollowInv(rep, held), UNCHANGED vars
  PROVE  \E new, h : FollowInv(new, h)'
<1>1. HeldInv(rep, held) /\ ReplacedInv(rep, held) /\ OffersInv(rep, held) /\ ValuesInv(rep, held)
  BY DEF FollowInv
<1>2. /\ UNCHANGED <<prog, phase, sideEffect, todo, pos, avail, waitDelete, saved, code, phis>>
      /\ UNCHANGED <<at, regs, ghost, mem>>
  BY DEF vars, passVars, runVars
<1>3. /\ Blocks' = Blocks /\ Ids' = Ids /\ Phis' = Phis /\ Registers' = Registers
      /\ \A b : End(b)' = End(b)
      /\ \A id : Site(id)' = Site(id) /\ Given(id)' = Given(id) /\ Now(id, rep)' = Now(id, rep)
      /\ \A id, b, k : Prior(id, b, k)' <=> Prior(id, b, k)
  BY <1>2, SameProgram
<1>4. (Walking' <=> Walking) /\ Future' = Future
  BY <1>2, <1>3 DEF Walking, Future
<1>5. Future' \subseteq Future
  BY <1>4
<1>6. HeldInv(rep, held)'
  BY <1>1, <1>2, <1>5, HeldKept
<1>7. ReplacedInv(rep, held)'
  BY <1>1, <1>2, <1>5, ReplacedKept
<1>8. ASSUME NEW map, NEW b, NEW k, Offers(map, b, k, rep, held)
      PROVE  Offers(map, b, k, rep, held)'
  BY <1>2, <1>5, <1>8, OfferKept
<1>9. (Walking => /\ DOMAIN saved = Blocks \ {todo[i] : i \in DOMAIN todo}
                  /\ \A b \in DOMAIN saved : Offers(saved[b], b, End(b), rep, held)
                  /\ \A id \in Future :
                       rep[id] = id /\ held[<<Site(id)[1], Site(id)[2] + 1>>] = {})'
  <2> SUFFICES ASSUME Walking'
               PROVE  (/\ DOMAIN saved = Blocks \ {todo[i] : i \in DOMAIN todo}
                       /\ \A b \in DOMAIN saved : Offers(saved[b], b, End(b), rep, held)
                       /\ \A id \in Future :
                            rep[id] = id /\ held[<<Site(id)[1], Site(id)[2] + 1>>] = {})'
    OBVIOUS
  <2>1. ASSUME NEW b \in DOMAIN saved PROVE Offers(saved[b], b, End(b), rep, held)'
    <3>1. PICK map, k : map = saved[b] /\ k = End(b)
      OBVIOUS
    <3>2. Offers(map, b, k, rep, held)'
      BY <1>1, <1>4, <1>8, <3>1 DEF OffersInv
    <3>3. map = saved'[b] /\ k = End(b)'
      BY <1>2, <1>3, <3>1
    <3>4. QED
      BY <3>2, <3>3
  <2>2. (DOMAIN saved = Blocks \ {todo[i] : i \in DOMAIN todo})'
    BY <1>1, <1>2, <1>3, <1>4 DEF OffersInv
  <2>3. (\A b \in DOMAIN saved : Offers(saved[b], b, End(b), rep, held))'
    BY <1>2, <2>1
  <2>4. (\A id \in Future : rep[id] = id /\ held[<<Site(id)[1], Site(id)[2] + 1>>] = {})'
    BY <1>1, <1>3, <1>4 DEF OffersInv
  <2>5. QED
    BY <2>2, <2>3, <2>4
<1>10. TodoInv'
  BY <1>1, <1>2, <1>4 DEF OffersInv, TodoInv
<1>11. (phase = "effects" => todo = prog.list /\ \A l \in DOMAIN held : held[l] = {})'
  BY <1>1, <1>2 DEF OffersInv
<1>12. (phase = "visit" => /\ todo # <<>> /\ pos \in 1 .. End(Head(todo))
                           /\ Offers(avail, Head(todo), pos, rep, held))'
  <2> SUFFICES ASSUME phase' = "visit"
               PROVE  (/\ todo # <<>> /\ pos \in 1 .. End(Head(todo))
                       /\ Offers(avail, Head(todo), pos, rep, held))'
    OBVIOUS
  <2>1. todo # <<>> /\ pos \in 1 .. End(Head(todo)) /\ Offers(avail, Head(todo), pos, rep, held)
    BY <1>1, <1>2 DEF OffersInv
  <2>2. PICK map, b, k : map = avail /\ b = Head(todo) /\ k = pos
    OBVIOUS
  <2>3. Offers(map, b, k, rep, held)'
    BY <1>8, <2>1, <2>2
  <2>4. map = avail' /\ b = Head(todo') /\ k = pos'
    BY <1>2, <2>2
  <2>5. Offers(avail, Head(todo), pos, rep, held)'
    BY <2>3, <2>4
  <2>6. (todo # <<>> /\ pos \in 1 .. End(Head(todo)))'
    BY <1>2, <2>1 DEF End
  <2>7. QED
    BY <2>5, <2>6
<1>13. OffersInv(rep, held)'
  BY <1>9, <1>10, <1>11, <1>12 DEF OffersInv
<1>14. ValuesInv(rep, held)'
  <2>1. (\A id \in Ids : Prior(id, at.block, at.next) =>
           /\ ghost[id] = ghost[rep[id]]
           /\ Given(id).kind \in {"op", "gep"} =>
                ghost[id] = Original!Result(prog, ghost, mem, Given(id)))'
    <3>1. \A id : Prior(id, at.block, at.next)' <=> Prior(id, at.block, at.next)
      BY <1>2, <1>3 DEF Prior
    <3>2. QED
      BY <1>1, <1>2, <1>3, <3>1 DEF ValuesInv
  <2>2. (\A e \in held[<<at.block, at.next>>] :
           ghost[e[2]] = Original!Result(prog, ghost, mem, [kind |-> "load", x |-> e[1]]))'
    BY <1>1, <1>2 DEF ValuesInv
  <2>3. (/\ at.block \in Blocks /\ at.next \in 1 .. End(at.block)
         /\ at = [block |-> at.block, next |-> at.next]
         /\ DOMAIN regs = Registers /\ DOMAIN ghost = Registers
         /\ \A id \in DOMAIN code \cup Phis : regs[id] = ghost[id])'
    BY <1>1, <1>2, <1>3 DEF ValuesInv, End
  <2>4. (/\ phase = "exec" => \A id \in DOMAIN code : Operands(code[id]) \subseteq DOMAIN code
         /\ phase # "exec" => at = Original!Start(prog))'
    BY <1>1, <1>2 DEF ValuesInv, Operands, Original!Start
  <2>5. QED
    BY <2>1, <2>2, <2>3, <2>4 DEF ValuesInv
<1>15. QED
  BY <1>6, <1>7, <1>13, <1>14 DEF FollowInv

Following == \E rep, held : FollowInv(rep, held)

LEMMA NextFollows ==
  ASSUME Plain, EffectsInv, WalkInv, Following, [Next]_vars PROVE Following'
<1>1. PICK rep, held : FollowInv(rep, held)
  BY DEF Following
<1>2. CASE \/ PropagateSideEffect \/ EndSideEffects \/ InitSetsHangs \/ ReadBeyondFails \/ EndPass
  <2>1. /\ phase # "exec" /\ UNCHANGED <<prog, todo, avail, waitDelete, saved, code, phis, runVars>>
        /\ phase' = "effects" => phase = "effects"
        /\ sideEffect' = sideEffect \/ phase = "effects"
    BY <1>2 DEF PropagateSideEffect, EndSideEffects, InitSetsHangs, ReadBeyondFails, EndPass, Visiting
  <2>2. Walking' => {phase, phase'} \subseteq {"effects", "enter"}
    BY <1>2 DEF PropagateSideEffect, EndSideEffects, InitSetsHangs, ReadBeyondFails, EndPass, Walking
  <2>3. phase' = "exec" => \A id \in DOMAIN code : Operands(code[id]) \subseteq DOMAIN code
    BY <1>2 DEF PropagateSideEffect, EndSideEffects, InitSetsHangs, ReadBeyondFails, EndPass, Visiting
  <2>4. \E new, h : FollowInv(new, h)'
    <3>1. UNCHANGED <<prog, todo, avail, waitDelete, saved, code, phis, runVars>>
      BY <2>1
    <3>2. QED
      BY <1>1, <2>1, <2>2, <2>3, <3>1, QuietStep
  <2>5. QED
    BY <2>4 DEF Following
<1>3. CASE Reuse
  BY <1>1, <1>3, ReuseFollows DEF Following
<1>4. CASE Remember \/ Call \/ Pass
  BY <1>1, <1>4, OtherVisitsFollow DEF Following
<1>5. CASE Store
  BY <1>1, <1>5, StoreFollows DEF Following
<1>6. CASE InitSets
  BY <1>1, <1>6, InitSetsFollows DEF Following
<1>7. CASE LeaveBlock
  BY <1>1, <1>7, LeaveFollows DEF Following
<1>8. CASE Execute
  BY <1>1, <1>8, ExecuteFollows DEF Following
<1>9. CASE Jump
  BY <1>1, <1>9, JumpFollows DEF Following
<1>10. CASE UNCHANGED vars
  BY <1>1, <1>10, StutterFollows DEF Following
<1>11. QED
  BY <1>2, <1>3, <1>4, <1>5, <1>6, <1>7, <1>8, <1>9, <1>10 DEF Next, Rewrite

(****************************************************************************)
(* The pass gets to no join                                                 *)
(****************************************************************************)
JoinInv ==
  /\ SavedInv
  /\ Walking => Joins(prog) \cap DOMAIN saved = {}
  /\ phase = "visit" => Head(todo) \notin Joins(prog)
  /\ phase \in {"exec", "refused"} => Joins(prog) = {}

LEMMA InitJoins == Init => JoinInv
<1> SUFFICES ASSUME Init PROVE JoinInv
  OBVIOUS
<1>1. /\ ProgOK /\ phase = "effects" /\ todo = prog.list /\ saved = Empty
  BY DEF Init, ProgOK
<1>2. DOMAIN saved = {}
  BY <1>1 DEF Empty
<1>3. /\ Blocks = {prog.list[i] : i \in DOMAIN prog.list}
      /\ Len(prog.list) \in Nat /\ DOMAIN prog.list = 1 .. Len(prog.list)
  BY <1>1, FlowFacts
<1>4. SavedInv
  BY <1>1, <1>2, <1>3 DEF SavedInv, TodoInv
<1>5. QED
  BY <1>1, <1>2, <1>4 DEF JoinInv

LEMMA NextJoins ==
  ASSUME ProgOK, WalkInv, JoinInv, [Next]_vars PROVE JoinInv'
<1>1. prog' = prog /\ Blocks' = Blocks /\ Joins(prog)' = Joins(prog)
  BY ProgStays, SameProgram
<1>2. ASSUME UNCHANGED <<todo, saved>>, Walking' => Walking,
             phase' = "visit" => Head(todo) \notin Joins(prog),
             phase' \in {"exec", "refused"} => Joins(prog) = {}
      PROVE  JoinInv'
  BY <1>1, <1>2 DEF JoinInv, SavedInv, TodoInv
<1>3. CASE InitSets
  <2>1. UNCHANGED <<todo, saved>> /\ phase' = "visit" /\ Walking
    BY <1>3 DEF InitSets, Walking
  <2>2. Head(todo) \notin Joins(prog)
    BY <1>3, ProcessedFacts DEF JoinInv
  <2>3. QED
    BY <1>2, <2>1, <2>2
<1>4. CASE LeaveBlock
  <2>1. /\ phase = "visit" /\ Walking /\ phase' = "enter" /\ todo' = Tail(todo)
        /\ DOMAIN saved' = DOMAIN saved \cup {Head(todo)}
    BY <1>4 DEF LeaveBlock, Walking
  <2>2. todo \in Seq(Blocks) /\ todo # <<>> /\ \A i, j \in DOMAIN todo : todo[i] = todo[j] => i = j
    BY <2>1 DEF WalkInv, Blocks
  <2>3. /\ Len(todo) \in Nat \ {0} /\ DOMAIN todo = 1 .. Len(todo) /\ Head(todo) = todo[1]
        /\ Len(Tail(todo)) = Len(todo) - 1 /\ DOMAIN Tail(todo) = 1 .. Len(todo) - 1
        /\ \A i \in DOMAIN Tail(todo) : Tail(todo)[i] = todo[i + 1]
    BY <2>2
  <2>4. Head(todo) \in Blocks \ {Tail(todo)[i] : i \in DOMAIN Tail(todo)}
    BY <2>2, <2>3
  <2>5. {todo[i] : i \in DOMAIN todo} = {Head(todo)} \cup {Tail(todo)[i] : i \in DOMAIN Tail(todo)}
    <3>1. ASSUME NEW i \in DOMAIN todo, i # 1
          PROVE  i - 1 \in DOMAIN Tail(todo) /\ Tail(todo)[i - 1] = todo[i]
      BY <2>3, <3>1
    <3>2. QED
      BY <2>3, <3>1
  <2>6. DOMAIN saved' = Blocks \ {Tail(todo)[i] : i \in DOMAIN Tail(todo)}
    BY <2>1, <2>4, <2>5 DEF JoinInv, SavedInv
  <2>7. TodoInv'
    <3>1. Len(todo) <= Len(prog.list)
      BY <2>1 DEF JoinInv, SavedInv, TodoInv
    <3>2. Len(prog.list) \in Nat
      BY FlowFacts
    <3>3. ASSUME NEW i \in DOMAIN Tail(todo)
          PROVE  Tail(todo)[i] = prog.list[Len(prog.list) - (Len(todo) - 1) + i]
      <4>1. i + 1 \in DOMAIN todo /\ i \in Nat
        BY <2>3
      <4>2. todo[i + 1] = prog.list[Len(prog.list) - Len(todo) + (i + 1)]
        BY <2>1, <4>1 DEF JoinInv, SavedInv, TodoInv
      <4>3. Len(prog.list) - (Len(todo) - 1) + i = Len(prog.list) - Len(todo) + (i + 1)
        <5>1. Len(todo) \in Nat
          BY <2>3
        <5>2. \A l, t, n \in Nat : l - (t - 1) + n = l - t + (n + 1)
          OBVIOUS
        <5>3. QED
          BY ONLY <3>2, <4>1, <5>1, <5>2, Zenon
      <4>4. QED
        BY <2>3, <4>2, <4>3
    <3>4. QED
      BY <1>1, <2>1, <2>3, <3>1, <3>2, <3>3 DEF TodoInv
  <2>8. Joins(prog) \cap DOMAIN saved' = {}
    BY <2>1 DEF JoinInv
  <2>9. QED
    BY <1>1, <2>1, <2>6, <2>7, <2>8 DEF JoinInv, SavedInv
<1>5. CASE EndPass
  <2>1. UNCHANGED <<todo, saved>> /\ todo = <<>> /\ Walking /\ phase' \in {"exec", "refused"}
    BY <1>5 DEF EndPass, Walking
  <2>2. DOMAIN saved = Blocks
    BY <2>1 DEF JoinInv, SavedInv
  <2>3. Joins(prog) \subseteq Blocks
    BY DEF Joins, Blocks
  <2>4. Joins(prog) = {}
    BY <2>1, <2>2, <2>3 DEF JoinInv
  <2>5. QED
    BY <1>2, <2>1, <2>4
<1>6. CASE PropagateSideEffect \/ EndSideEffects \/ InitSetsHangs \/ ReadBeyondFails
  <2>1. UNCHANGED <<todo, saved>> /\ phase' \in {"effects", "enter", "hung", "crashed"}
    BY <1>6 DEF PropagateSideEffect, EndSideEffects, InitSetsHangs, ReadBeyondFails
  <2>2. Walking' => Walking
    BY <1>6 DEF PropagateSideEffect, EndSideEffects, InitSetsHangs, ReadBeyondFails, Walking
  <2>3. QED
    BY <1>2, <2>1, <2>2
<1>7. CASE Reuse \/ Remember \/ Store \/ Call \/ Pass \/ Execute \/ Jump \/ UNCHANGED vars
  <2>1. UNCHANGED <<phase, todo, saved>>
    BY <1>7 DEF Reuse, Remember, Store, Call, Pass, Execute, Jump, passVars, vars
  <2>2. QED
    BY <1>2, <2>1 DEF JoinInv, Walking
<1>8. QED
  BY <1>3, <1>4, <1>5, <1>6, <1>7 DEF Next, Rewrite

(* The rewritten function does to memory, and returns, what the original    *)
(* function does on the same path: a step of the pass is no step of the     *)
(* function, and a step of the function is one of the original              *)
(* (CommonSubExper.cpp:28).  With a join none comes out; without, operands  *)
(* have to be listed before what reads them.                                *)
THEOREM RewrittenFollows == Spec /\ OperandsListed(prog) => Implements
<1> DEFINE Rewritten == Joins(prog) = {} => Following
           Inv == ProgOK /\ OperandsListed(prog) /\ EffectsInv /\ WalkInv /\ UsersFollow
                  /\ JoinInv /\ Rewritten
<1>1. Init /\ OperandsListed(prog) => Inv /\ Original!Init
  BY InitEffects, InitWalk, InitFollows, InitJoins DEF Init, ProgOK, Plain, Following
<1>2. Inv /\ [Next]_vars => Inv'
  <2> SUFFICES ASSUME Inv, [Next]_vars PROVE Inv'
    OBVIOUS
  <2>1. ProgOK' /\ EffectsInv' /\ WalkInv' /\ UsersFollow' /\ JoinInv' /\ prog' = prog
    BY ProgStays, NextEffects, NextWalk, NextJoins
  <2>2. OperandsListed(prog)'
    BY <2>1
  <2>3. Rewritten'
    BY <2>1, NextFollows DEF Plain
  <2>4. QED
    BY <2>1, <2>2, <2>3
<1>3. ASSUME Inv, [Next]_vars PROVE [Original!Next]_(Original!vars)
  <2>1. CASE Execute \/ Jump
    <3>1. Plain /\ Following
      BY <1>3, <2>1 DEF Execute, Jump, JoinInv, Plain
    <3>2. PICK rep, held : FollowInv(rep, held)
      BY <3>1 DEF Following
    <3>3. QED
      BY <1>3, <2>1, <3>1, <3>2, ExecuteFollows, JumpFollows DEF Original!Next
  <2>2. CASE Rewrite
    BY <2>2 DEF Rewrite, PropagateSideEffect, EndSideEffects, InitSets, InitSetsHangs, Reuse,
       Remember, ReadBeyondFails, Store, Call, Pass, LeaveBlock, EndPass, runVars, Original!vars
  <2>3. CASE UNCHANGED vars
    BY <2>3 DEF vars, passVars, runVars, Original!vars
  <2>4. QED
    BY <1>3, <2>1, <2>2, <2>3 DEF Next
<1>4. QED
  BY <1>1, <1>2, <1>3, PTL DEF Spec, Implements, Original!Spec

(****************************************************************************)
(* Why nothing is left twice                                                *)
(****************************************************************************)
Sharable(n) == n.kind \in {"op", "load"} \/ (n.kind = "gep" /\ n.x # "A")
Shares(m, n) ==
  /\ Sharable(m) /\ m.kind = n.kind
  /\ Alike(prog, m.x, n.x) /\ Alike(prog, m.y, n.y)
  /\ m.kind # "op" => m.x = n.x
  /\ IsConstant(m.x) => m.y = n.y

(* Between places j and k of b something may change memory at x.            *)
Changed(b, j, k, x) ==
  \E m \in (j + 1) .. (k - 1) :
    LET id == prog.code[b][m].id
    IN  /\ id \in DOMAIN code
        /\ \/ code[id].kind = "call" /\ code[id].x \in sideEffect
           \/ code[id].kind = "store" /\ MayAlias(x, code[id].y)

(* Behind the walk the second of two equal instructions is left only if it  *)
(* loads again what may have changed.                                       *)
Once(b, j, k) ==
  LET first == prog.code[b][j].id
      again == prog.code[b][k].id
  IN  /\ j < k /\ Left(first) /\ Left(again) /\ again \notin Future
      /\ Shares(code[first], code[again])
      => code[first].kind = "load" /\ Changed(b, j, k, code[first].x)

(* What the walk left in its block is available, unless it may have changed. *)
Available(j) ==
  LET id == prog.code[Head(todo)][j].id
  IN  j < pos /\ Left(id) /\ Sharable(code[id]) =>
        \/ KeyOf(code[id]) \in DOMAIN avail
        \/ code[id].kind = "load" /\ Changed(Head(todo), j, pos, code[id].x)

OnceInv ==
  /\ phase \in {"effects", "enter", "exec"} => waitDelete = {}
  /\ Walking \/ phase = "exec" =>
       \A b \in Blocks : \A j, k \in DOMAIN prog.code[b] : Once(b, j, k)
  /\ phase = "visit" => \A j \in DOMAIN prog.code[Head(todo)] : Available(j)

LEMMA SharedKeys ==
  ASSUME NEW m, NEW n, Shares(m, n)
  PROVE  KeyOf(m) = KeyOf(n)
<1>1. /\ m.kind \in {"op", "gep", "load"} /\ n.kind = m.kind
      /\ m.kind # "op" => n.x = m.x
      /\ m.kind = "gep" => m.x # "A"
      /\ IsConstant(m.x) => m.y = n.y
  BY DEF Shares, Sharable
<1>2. \/ m.x = n.x
      \/ IsConstant(m.x) /\ IsConstant(n.x) /\ prog.value[m.x] = prog.value[n.x]
  BY DEF Shares, Alike, IsConstant
<1>3. \/ m.y = n.y
      \/ IsConstant(m.y) /\ IsConstant(n.y) /\ prog.value[m.y] = prog.value[n.y]
  BY DEF Shares, Alike, IsConstant
<1>4. CASE m.kind = "op"
  BY <1>1, <1>2, <1>3, <1>4 DEF KeyOf
<1>5. CASE m.kind = "gep"
  BY <1>1, <1>3, <1>5 DEF KeyOf, Index
<1>6. CASE m.kind = "load"
  BY <1>1, <1>6 DEF KeyOf
<1>7. QED
  BY <1>1, <1>4, <1>5, <1>6

LEMMA FutureOrder ==
  ASSUME Plain, NEW b \in Blocks, NEW j \in DOMAIN prog.code[b], NEW k \in DOMAIN prog.code[b],
         WalkInv, j < k, prog.code[b][k].id \notin Future
  PROVE  prog.code[b][j].id \notin Future
<1> SUFFICES ASSUME prog.code[b][j].id \in Future PROVE FALSE
  OBVIOUS
<1>1. PICK i \in DOMAIN todo : /\ Site(prog.code[b][j].id)[1] = todo[i]
                               /\ phase = "visit" /\ i = 1 => Site(prog.code[b][j].id)[2] >= pos
  BY DEF Future
<1>2. /\ Site(prog.code[b][j].id)[1] = b /\ Site(prog.code[b][j].id)[2] = j
      /\ Site(prog.code[b][k].id)[1] = b /\ Site(prog.code[b][k].id)[2] = k
      /\ prog.code[b][k].id \in Ids
  BY SiteFacts
<1>3. j \in Nat /\ k \in Nat
  BY FlowFacts
<1>4. phase = "visit" => pos \in Nat
  BY DEF WalkInv
<1>5. phase = "visit" /\ i = 1 => k >= pos
  BY <1>1, <1>2, <1>3, <1>4
<1>6. Walking
  BY DEF Future
<1>7. QED
  BY <1>1, <1>2, <1>5, <1>6 DEF Future

LEMMA BehindHere ==
  ASSUME Plain, WalkInv, TodoInv, Visiting, NEW j \in DOMAIN prog.code[Head(todo)], j < pos
  PROVE  prog.code[Head(todo)][j].id \notin Future
<1>1. /\ phase = "visit" /\ Head(todo) \in Blocks /\ pos \in Nat /\ todo[1] = Head(todo)
      /\ todo # <<>> /\ Walking
  BY HereFacts DEF Walking
<1>2. /\ Site(prog.code[Head(todo)][j].id)[1] = Head(todo)
      /\ Site(prog.code[Head(todo)][j].id)[2] = j
  BY <1>1, SiteFacts
<1>3. j \in Nat /\ 1 \in DOMAIN todo
  BY <1>1, FlowFacts, TodoFacts
<1>4. \A i \in DOMAIN todo : todo[i] = Head(todo) => i = 1
  BY <1>1, <1>3, TodoFacts
<1>5. QED
  BY <1>1, <1>2, <1>3, <1>4 DEF Future

(* What may change memory stays where it is, and keeps doing so.            *)
LEMMA ChangedStays ==
  ASSUME Plain, UNCHANGED <<prog, sideEffect>>, NEW b \in Blocks, NEW j \in DOMAIN prog.code[b],
         NEW k \in 1 .. End(b), NEW later \in Nat, k <= later, NEW x, Changed(b, j, k, x),
         \A m \in DOMAIN prog.code[b] :
           LET id == prog.code[b][m].id
           IN  m < k /\ id \in DOMAIN code /\ code[id].kind \in {"call", "store"} =>
                 id \in DOMAIN code' /\ code'[id] = code[id]
  PROVE  Changed(b, j, later, x)'
<1>1. Len(prog.code[b]) \in Nat /\ DOMAIN prog.code[b] = 1 .. Len(prog.code[b])
  BY FlowFacts
<1>2. PICK m \in (j + 1) .. (k - 1) :
        /\ prog.code[b][m].id \in DOMAIN code
        /\ \/ /\ code[prog.code[b][m].id].kind = "call"
              /\ code[prog.code[b][m].id].x \in sideEffect
           \/ /\ code[prog.code[b][m].id].kind = "store"
              /\ MayAlias(x, code[prog.code[b][m].id].y)
  BY DEF Changed
<1>3. m \in DOMAIN prog.code[b] /\ m < k /\ m \in (j + 1) .. (later - 1)
  BY <1>1 DEF End
<1>4. /\ prog.code[b][m].id \in DOMAIN code'
      /\ code'[prog.code[b][m].id] = code[prog.code[b][m].id]
  BY <1>2, <1>3
<1>5. prog' = prog /\ sideEffect' = sideEffect /\ \A y, z : MayAlias(y, z)' <=> MayAlias(y, z)
  BY SameProgram
<1>6. QED
  BY <1>2, <1>3, <1>4, <1>5 DEF Changed

(* What lies behind the walk no longer changes. *)
LEMMA CodeBehind ==
  ASSUME Plain, WalkInv, NEW rep, NEW held, FollowInv(rep, held), Reuse,
         NEW id \in DOMAIN code, id \notin Future \/ id = Here
  PROVE  id \in DOMAIN code' /\ code'[id] = code[id]
<1>1. HeldInv(rep, held) /\ ReplacedInv(rep, held) /\ OffersInv(rep, held) /\ TodoInv
  BY DEF FollowInv, OffersInv
<1>2. Visiting /\ UNCHANGED prog /\ DOMAIN code' = DOMAIN code /\ KeyOf(Current) \in DOMAIN avail
  BY DEF Reuse, Replaced, Known
<1>3. id \in Ids /\ code[id] = Now(id, rep) /\ rep \in [Ids -> Ids]
  BY <1>1 DEF ReplacedInv
<1>4. Here \in Ids /\ avail[KeyOf(Current)] \in Ids
  <2>1. phase = "visit" /\ Here \in Ids
    BY <1>1, <1>2, HereFacts
  <2>2. QED
    BY <1>1, <1>2, <2>1 DEF OffersInv, Offers
<1>5. PICK new : new = [rep EXCEPT ![Here] = avail[KeyOf(Current)]]
  OBVIOUS
<1>6. /\ new \in [Ids -> Ids] /\ new[Here] = avail[KeyOf(Current)]
      /\ \A m \in Ids : m # Here => new[m] = rep[m]
  BY <1>3, <1>4, <1>5
<1>7. \A l \in DOMAIN held : held[l] \subseteq held[l]
  OBVIOUS
<1>8. ReplacedInv(new, held)'
  BY <1>1, <1>6, <1>7, ReuseReplaced
<1>9. code'[id] = Now(id, new)
  BY <1>2, <1>8, SameProgram DEF ReplacedInv
<1>10. Now(id, new) = Now(id, rep)
  BY <1>1, <1>2, <1>3, <1>6, NowBehind
<1>11. QED
  BY <1>2, <1>3, <1>9, <1>10

(* Visiting an instruction keeps that nothing behind is left twice, if it   *)
(* enters what it leaves and gives up only what it may change.              *)
LEMMA VisitOnce ==
  ASSUME Plain, WalkInv, TodoInv, OnceInv, Visiting, pos' = pos + 1,
         UNCHANGED <<prog, phase, sideEffect, todo>>,
         DOMAIN code' = DOMAIN code,
         \A id \in DOMAIN code : id \notin Future \/ id = Here => code'[id] = code[id],
         waitDelete \subseteq waitDelete',
         Here \notin waitDelete' /\ Sharable(code[Here]) =>
           KeyOf(code[Here]) \in DOMAIN avail' \ DOMAIN avail,
         \A key \in DOMAIN avail \ DOMAIN avail' :
           /\ key[1] = "load"
           /\ \/ code[Here].kind = "call" /\ code[Here].x \in sideEffect
              \/ code[Here].kind = "store" /\ MayAlias(key[2], code[Here].y)
  PROVE  OnceInv'
<1>1. /\ Here \in Ids /\ Site(Here)[1] = Head(todo) /\ Site(Here)[2] = pos
      /\ Head(todo) \in Blocks /\ pos \in DOMAIN prog.code[Head(todo)] /\ pos \in Nat
      /\ phase = "visit" /\ Walking
  BY HereFacts DEF Walking
<1>2. Future' = Future \ {Here}
  BY FutureOnVisit
<1>3. /\ Blocks' = Blocks /\ \A n : KeyOf(n)' = KeyOf(n)
      /\ \A x, y : MayAlias(x, y)' <=> MayAlias(x, y)
  BY SameProgram
<1>4. Here \in DOMAIN code
  BY AtCurrent DEF Here, Untouched, Left
<1>5. ASSUME NEW b \in Blocks, NEW j \in DOMAIN prog.code[b]
      PROVE  /\ prog.code[b][j].id \in Ids /\ j \in Nat /\ j \in 1 .. End(b)
             /\ Site(prog.code[b][j].id)[1] = b /\ Site(prog.code[b][j].id)[2] = j
  <2>1. j \in 1 .. Len(prog.code[b]) /\ Len(prog.code[b]) \in Nat
    BY FlowFacts
  <2>2. QED
    BY <2>1, SiteFacts DEF End
<1>6. ASSUME NEW b \in Blocks, NEW j \in DOMAIN prog.code[b], NEW k \in DOMAIN prog.code[b],
             prog.code[b][k].id \notin Future \/ prog.code[b][k].id = Here,
             NEW x, NEW later \in Nat, k <= later, Changed(b, j, k, x)
      PROVE  Changed(b, j, later, x)'
  <2>1. ASSUME NEW m \in DOMAIN prog.code[b], m < k
        PROVE  prog.code[b][m].id \notin Future
    <3>1. CASE prog.code[b][k].id \notin Future
      BY <2>1, <3>1, FutureOrder
    <3>2. CASE prog.code[b][k].id = Here
      <4>1. b = Head(todo) /\ k = pos
        BY <1>1, <1>5, <3>2
      <4>2. QED
        BY <2>1, <4>1, BehindHere
    <3>3. QED
      BY <1>6, <3>1, <3>2
  <2>2. \A m \in DOMAIN prog.code[b] :
          LET id == prog.code[b][m].id
          IN  m < k /\ id \in DOMAIN code /\ code[id].kind \in {"call", "store"} =>
                id \in DOMAIN code' /\ code'[id] = code[id]
    BY <2>1
  <2>3. k \in 1 .. End(b) /\ UNCHANGED <<prog, sideEffect>>
    BY <1>5
  <2>4. QED
    BY <1>6, <2>2, <2>3, ChangedStays
<1>7. ASSUME NEW b \in Blocks, NEW j \in DOMAIN prog.code[b], NEW k \in DOMAIN prog.code[b]
      PROVE  Once(b, j, k)'
  <2> DEFINE first == prog.code[b][j].id
             again == prog.code[b][k].id
  <2> SUFFICES ASSUME j < k, first \in DOMAIN code \ waitDelete', again \in DOMAIN code \ waitDelete',
                      again \notin Future \/ again = Here, Shares(code'[first], code'[again])
               PROVE  code'[first].kind = "load" /\ \E x : x = code'[first].x /\ Changed(b, j, k, x)'
    <3> SUFFICES ASSUME first \in (DOMAIN code)' \ waitDelete', again \in (DOMAIN code)' \ waitDelete',
                        j < k, again \notin Future', Shares(code[first], code[again])'
                 PROVE  code'[first].kind = "load" /\ Changed(b, j, k, code[first].x)'
      BY DEF Once, Left
    <3>1. Shares(code'[first], code'[again])
      BY DEF Shares, Sharable, Alike, IsConstant
    <3>2. again \notin Future \/ again = Here
      BY <1>2
    <3>3. code'[first].kind = "load" /\ \E x : x = code'[first].x /\ Changed(b, j, k, x)'
      BY <3>1, <3>2
    <3>4. QED
      BY <3>3 DEF Changed
  <2>1. first \notin Future
    <3>1. CASE again \notin Future
      BY <3>1, FutureOrder
    <3>2. CASE again = Here
      <4>1. b = Head(todo) /\ k = pos
        BY <1>1, <1>5, <3>2
      <4>2. QED
        BY <4>1, BehindHere
    <3>3. QED
      BY <3>1, <3>2
  <2>2. /\ code'[first] = code[first] /\ code'[again] = code[again]
        /\ Left(first) /\ Left(again) /\ Shares(code[first], code[again])
    BY <2>1 DEF Left
  <2>3. code[first].kind = "load" /\ Changed(b, j, k, code[first].x)
    <3>1. CASE again \notin Future
      BY <1>1, <2>2, <3>1 DEF OnceInv, Once
    <3>2. CASE again = Here
      <4>1. b = Head(todo) /\ k = pos
        BY <1>1, <1>5, <3>2
      <4>2. Sharable(code[first]) /\ Sharable(code[again])
        BY <2>2 DEF Shares, Sharable
      <4>3. KeyOf(code[again]) \notin DOMAIN avail /\ KeyOf(code[first]) = KeyOf(code[again])
        BY <2>2, <3>2, <4>2, SharedKeys
      <4>4. QED
        BY <1>1, <2>2, <4>1, <4>2, <4>3 DEF OnceInv, Available
    <3>3. QED
      BY <3>1, <3>2
  <2>4. k \in Nat /\ k <= k
    BY <1>5
  <2> HIDE DEF first
  <2>5. PICK x : x = code[first].x
    OBVIOUS
  <2>6. Changed(b, j, k, x)'
    BY <1>6, <2>3, <2>4, <2>5
  <2>7. QED
    BY <2>2, <2>3, <2>5, <2>6
<1>8. ASSUME NEW j \in DOMAIN prog.code[Head(todo)], j < pos + 1
      PROVE  Available(j)'
  <2> DEFINE id == prog.code[Head(todo)][j].id
  <2>1. j \in Nat /\ j <= pos /\ id \in Ids
    BY <1>1, <1>5, <1>8
  <2>2. id \notin Future \/ (j = pos /\ id = Here)
    <3>1. CASE j < pos
      BY <1>1, <3>1, BehindHere
    <3>2. CASE j = pos
      BY <3>2 DEF Here
    <3>3. QED
      BY <1>1, <2>1, <3>1, <3>2
  <2>3. PICK b, p : b = Head(todo) /\ p = pos
    OBVIOUS
  <2> SUFFICES ASSUME id \in DOMAIN code \ waitDelete', Sharable(code[id])
               PROVE  \/ KeyOf(code[id]) \in DOMAIN avail'
                      \/ code[id].kind = "load" /\ \E x : x = code[id].x /\ Changed(b, j, p + 1, x)'
    <3> SUFFICES ASSUME id \in (DOMAIN code)' \ waitDelete', Sharable(code[id])'
                 PROVE  \/ KeyOf(code[id])' \in DOMAIN avail'
                        \/ code'[id].kind = "load" /\ Changed(Head(todo), j, pos, code[id].x)'
      BY DEF Available, Left
    <3>1. id \in DOMAIN code /\ code'[id] = code[id]
      BY <2>2
    <3>2. Sharable(code[id])
      BY <3>1 DEF Sharable
    <3>3. KeyOf(code[id])' = KeyOf(code[id])
      BY <3>1 DEF KeyOf, IsConstant, Index
    <3>4. CASE KeyOf(code[id]) \in DOMAIN avail'
      BY <3>3, <3>4
    <3>5. CASE code[id].kind = "load" /\ \E x : x = code[id].x /\ Changed(b, j, p + 1, x)'
      <4>1. PICK x : x = code[id].x /\ Changed(b, j, p + 1, x)'
        BY <3>5
      <4>2. Head(todo)' = b /\ pos' = p + 1 /\ code'[id].x = x
        BY <2>3, <3>1, <4>1
      <4>3. Changed(Head(todo), j, pos, code[id].x)'
        BY <4>1, <4>2 DEF Changed
      <4>4. QED
        BY <3>1, <3>5, <4>3
    <3>6. QED
      BY <3>1, <3>2, <3>4, <3>5
  <2>4. CASE id \notin Future
    <3>1. Left(id) /\ j < pos
      <4>1. Here \in Future /\ (j = pos => id = Here)
        BY HereFacts DEF Here
      <4>2. j # pos
        BY <2>4, <4>1
      <4>3. QED
        BY <1>1, <2>1, <4>2 DEF Left
    <3>2. \/ KeyOf(code[id]) \in DOMAIN avail
          \/ code[id].kind = "load" /\ Changed(Head(todo), j, pos, code[id].x)
      <4>1. Available(j)
        BY <1>1 DEF OnceInv
      <4>2. QED
        BY <3>1, <4>1 DEF Available
    <3>3. CASE KeyOf(code[id]) \in DOMAIN avail'
      BY <3>3
    <3>4. CASE code[id].kind = "load" /\ Changed(Head(todo), j, pos, code[id].x)
      <4>1. prog.code[b][p].id = Here /\ p + 1 \in Nat /\ p <= p + 1
        <5>1. p \in Nat
          BY <1>1, <2>3
        <5>2. prog.code[b][p].id = Here
          BY ONLY <2>3 DEF Here
        <5>3. QED
          BY <5>1, <5>2
      <4>2. PICK x : x = code[id].x
        OBVIOUS
      <4>3. Changed(b, j, p + 1, x)'
        <5>1. b \in Blocks /\ p \in DOMAIN prog.code[b] /\ j \in DOMAIN prog.code[b]
          BY <1>1, <2>3
        <5>2. Changed(b, j, p, x)
          BY <2>3, <3>4, <4>2
        <5>3. QED
          BY <1>6, <4>1, <5>1, <5>2
      <4>4. QED
        BY <3>4, <4>2, <4>3
    <3>5. CASE KeyOf(code[id]) \in DOMAIN avail \ DOMAIN avail'
      <4>1. PICK key : key = KeyOf(code[id])
        OBVIOUS
      <4>2. /\ key[1] = "load" /\ key \in DOMAIN avail \ DOMAIN avail'
            /\ \/ code[Here].kind = "call" /\ code[Here].x \in sideEffect
               \/ code[Here].kind = "store" /\ MayAlias(key[2], code[Here].y)
        BY <3>5, <4>1
      <4>3. code[id].kind \in {"op", "gep", "load"}
        BY DEF Sharable
      <4>4. code[id].kind = "load" /\ key = <<"load", code[id].x>>
        <5>1. PICK n : n = code[id]
          OBVIOUS
        <5>2. n.kind \in {"op", "gep", "load"} /\ key = KeyOf(n)
          BY <4>1, <4>3, <5>1
        <5>3. /\ n.kind # "load" => KeyOf(n)[1] # "load"
              /\ n.kind = "load" => KeyOf(n) = <<"load", n.x>>
          BY ONLY <5>2, KeyFacts
        <5>4. n.kind = "load" /\ key = <<"load", n.x>>
          BY <4>2, <5>2, <5>3
        <5>5. QED
          BY <5>1, <5>4
      <4>5. PICK x : x = code[id].x
        OBVIOUS
      <4>6. key[2] = x
        BY <4>4, <4>5
      <4>7. /\ Here \in DOMAIN code' /\ code'[Here] = code[Here]
            /\ prog'.code[b][p].id = Here /\ sideEffect' = sideEffect
        BY <1>4, <2>3 DEF Here
      <4>8. p \in (j + 1) .. (p + 1 - 1)
        BY <1>1, <2>1, <2>3, <3>1
      <4>9. \/ code'[Here].kind = "call" /\ code'[Here].x \in sideEffect'
            \/ code'[Here].kind = "store" /\ MayAlias(x, code[Here].y)
        BY <4>2, <4>6, <4>7
      <4>10. PICK y : y = code[Here].y
        OBVIOUS
      <4>11. MayAlias(x, y)' <=> MayAlias(x, code[Here].y)
        BY <1>3, <4>10
      <4>12. Changed(b, j, p + 1, x)'
        <5>1. CASE code'[Here].kind = "call" /\ code'[Here].x \in sideEffect'
          BY ONLY <4>7, <4>8, <5>1 DEF Changed
        <5>2. CASE code'[Here].kind = "store" /\ MayAlias(x, code[Here].y)
          <6>1. MayAlias(x, y)' /\ code'[Here].y = y
            BY <4>7, <4>10, <4>11, <5>2
          <6>2. QED
            BY ONLY <4>7, <4>8, <5>2, <6>1 DEF Changed, MayAlias
        <5>3. QED
          BY <4>9, <5>1, <5>2
      <4>13. QED
        BY <4>4, <4>5, <4>12
    <3>6. QED
      BY <3>2, <3>3, <3>4, <3>5
  <2>5. CASE id = Here
    BY <2>5
  <2>6. QED
    BY <2>2, <2>4, <2>5
<1>9. \A j \in DOMAIN prog.code[Head(todo)] : Available(j)'
  <2> SUFFICES ASSUME NEW j \in DOMAIN prog.code[Head(todo)], ~(j < pos + 1)
               PROVE  Available(j)'
    BY <1>8
  <2>1. QED
    BY DEF Available
<1>10. QED
  BY <1>1, <1>3, <1>7, <1>9 DEF OnceInv

LEMMA VisitsOnce ==
  ASSUME Plain, WalkInv, NEW rep, NEW held, FollowInv(rep, held), OnceInv,
         Reuse \/ Remember \/ Store \/ Call \/ Pass
  PROVE  OnceInv'
<1>1. HeldInv(rep, held) /\ ReplacedInv(rep, held) /\ OffersInv(rep, held) /\ TodoInv
  BY DEF FollowInv, OffersInv
<1>2. Visiting /\ pos' = pos + 1 /\ UNCHANGED <<prog, phase, sideEffect, todo>>
  BY DEF Reuse, Remember, Store, Call, Pass
<1>3. DOMAIN code' = DOMAIN code /\ waitDelete \subseteq waitDelete'
  BY DEF Reuse, Replaced, Remember, Store, Call, Pass
<1>4. \A id \in DOMAIN code : id \notin Future \/ id = Here => code'[id] = code[id]
  BY CodeBehind DEF Remember, Store, Call, Pass
<1>5. code[Here] = Current /\ Current.id = Here
  BY <1>1, <1>2, CurrentNow DEF Current, Here
<1>6. ASSUME Here \notin waitDelete', Sharable(Current)
      PROVE  KeyOf(Current) \in DOMAIN avail' \ DOMAIN avail
  <2>1. Current.kind \in {"op", "gep", "load"}
    BY <1>6 DEF Sharable
  <2>2. Remember
    BY <1>5, <1>6, <2>1 DEF Reuse, Store, Call, Pass
  <2>3. QED
    BY <2>2 DEF Remember, Known
<1>7. ASSUME NEW key \in DOMAIN avail \ DOMAIN avail'
      PROVE  /\ key[1] = "load"
             /\ \/ Current.kind = "call" /\ Current.x \in sideEffect
                \/ Current.kind = "store" /\ MayAlias(key[2], Current.y)
  <2>1. CASE Reuse \/ Remember \/ Pass
    BY <2>1 DEF Reuse, Remember, Pass
  <2>2. CASE Call
    <3>1. Current.kind = "call" /\ Current.x \in sideEffect /\ avail' = Without(Loaded)
      BY <2>2 DEF Call
    <3>2. key \in {"load"} \X Loaded
      BY <3>1 DEF Without
    <3>3. QED
      BY <3>1, <3>2
  <2>3. CASE Store
    <3>1. /\ Current.kind = "store"
          /\ key \in {"load"} \X {x \in Loaded : Overwritten(x, Current.y)}
      BY <2>3 DEF Store, Without
    <3>2. key[1] = "load" /\ Overwritten(key[2], Current.y)
      BY <3>1
    <3>3. IsPlace(Current.y, rep) /\ IsPlace(key[2], rep)
      BY <1>2, <3>1, <3>2, VisitedPlaces
    <3>4. QED
      BY <1>1, <3>1, <3>2, <3>3, AliasIsOverwritten
  <2>4. QED
    BY <2>1, <2>2, <2>3
<1>8. /\ Here \notin waitDelete' /\ Sharable(code[Here]) =>
           KeyOf(code[Here]) \in DOMAIN avail' \ DOMAIN avail
      /\ \A key \in DOMAIN avail \ DOMAIN avail' :
           /\ key[1] = "load"
           /\ \/ code[Here].kind = "call" /\ code[Here].x \in sideEffect
              \/ code[Here].kind = "store" /\ MayAlias(key[2], code[Here].y)
  BY <1>5, <1>6, <1>7
<1>9. QED
  BY <1>1, <1>2, <1>3, <1>4, <1>8, VisitOnce

(* Between the blocks, and when the pass is over, nothing is left twice     *)
(* that was not.                                                            *)
LEMMA OnceStays ==
  ASSUME Plain, UNCHANGED <<prog, sideEffect>>, Future \subseteq Future',
         DOMAIN code' \subseteq DOMAIN code, \A id \in DOMAIN code' : code'[id] = code[id],
         DOMAIN code' \ waitDelete' \subseteq DOMAIN code \ waitDelete,
         \A id \in DOMAIN code : code[id].kind \in {"call", "store"} => id \in DOMAIN code',
         NEW b \in Blocks, NEW j \in DOMAIN prog.code[b], NEW k \in DOMAIN prog.code[b],
         Once(b, j, k)
  PROVE  Once(b, j, k)'
<1> DEFINE first == prog.code[b][j].id
           again == prog.code[b][k].id
<1> SUFFICES ASSUME first \in (DOMAIN code)' \ waitDelete', again \in (DOMAIN code)' \ waitDelete',
                    j < k, again \notin Future', Shares(code[first], code[again])'
             PROVE  code'[first].kind = "load" /\ Changed(b, j, k, code[first].x)'
  BY DEF Once, Left
<1>1. code'[first] = code[first] /\ code'[again] = code[again] /\ again \notin Future
  OBVIOUS
<1>2. Shares(code[first], code[again])
  BY <1>1 DEF Shares, Sharable, Alike, IsConstant
<1>3. code[first].kind = "load" /\ Changed(b, j, k, code[first].x)
  BY <1>1, <1>2 DEF Once, Left
<1>4. PICK x : x = code[first].x
  OBVIOUS
<1>5. Changed(b, j, k, x)'
  <2>1. Len(prog.code[b]) \in Nat /\ DOMAIN prog.code[b] = 1 .. Len(prog.code[b])
    BY FlowFacts
  <2>2. k \in 1 .. End(b) /\ k \in Nat /\ k <= k
    BY <2>1 DEF End
  <2>3. \A m \in DOMAIN prog.code[b] :
          LET id == prog.code[b][m].id
          IN  m < k /\ id \in DOMAIN code /\ code[id].kind \in {"call", "store"} =>
                id \in DOMAIN code' /\ code'[id] = code[id]
    OBVIOUS
  <2>4. Changed(b, j, k, x)
    BY <1>3, <1>4
  <2>5. UNCHANGED <<prog, sideEffect>>
    OBVIOUS
  <2> HIDE DEF first, again
  <2>6. QED
    BY <2>2, <2>3, <2>4, <2>5, ChangedStays
<1>6. code'[first].x = x
  BY <1>1, <1>4
<1>7. QED
  BY <1>1, <1>3, <1>5, <1>6 DEF Changed

LEMMA NextOnce ==
  ASSUME Plain, WalkInv, Following, OnceInv, [Next]_vars PROVE OnceInv'
<1>1. PICK rep, held : FollowInv(rep, held)
  BY DEF Following
<1>2. HeldInv(rep, held) /\ ReplacedInv(rep, held) /\ OffersInv(rep, held) /\ TodoInv
  BY <1>1 DEF FollowInv, OffersInv
<1>3. ASSUME UNCHANGED <<prog, sideEffect>>, Walking \/ phase = "exec", Future \subseteq Future',
             DOMAIN code' \subseteq DOMAIN code, \A id \in DOMAIN code' : code'[id] = code[id],
             DOMAIN code' \ waitDelete' \subseteq DOMAIN code \ waitDelete,
             \A id \in DOMAIN code : code[id].kind \in {"call", "store"} => id \in DOMAIN code'
      PROVE  (\A b \in Blocks : \A j, k \in DOMAIN prog.code[b] : Once(b, j, k))'
  <2>1. UNCHANGED prog /\ Blocks' = Blocks
    BY <1>3, SameProgram
  <2>2. ASSUME NEW b \in Blocks, NEW j \in DOMAIN prog.code[b], NEW k \in DOMAIN prog.code[b]
        PROVE  Once(b, j, k)'
    <3>1. Once(b, j, k)
      BY <1>3 DEF OnceInv
    <3>2. QED
      BY <1>3, <3>1, OnceStays
  <2>3. QED
    BY <2>1, <2>2
<1>4. CASE Reuse \/ Remember \/ Store \/ Call \/ Pass
  BY <1>1, <1>4, VisitsOnce
<1>5. CASE PropagateSideEffect
  <2>1. /\ phase = "effects" /\ todo = prog.list
        /\ UNCHANGED <<prog, phase, todo, pos, waitDelete, code>>
    BY <1>2, <1>5 DEF PropagateSideEffect, OffersInv
  <2>2. Ids' = Ids /\ \A id : Site(id)' = Site(id)
    BY <2>1, SameProgram
  <2>3. \A id \in Ids : id \in Future'
    <3>1. TAKE id \in Ids
    <3>2. \E i \in DOMAIN prog.list : prog.list[i] = Site(id)[1]
      BY SiteFacts, FlowFacts
    <3>3. QED
      BY <2>1, <2>2, <3>2 DEF Future, Walking
  <2>4. ASSUME NEW b \in Blocks', NEW j \in DOMAIN prog'.code[b], NEW k \in DOMAIN prog'.code[b]
        PROVE  Once(b, j, k)'
    <3>1. prog'.code[b][k].id \in Ids
      BY <2>1, <2>4, SiteFacts, SameProgram
    <3>2. QED
      BY <2>3, <3>1 DEF Once
  <2>5. QED
    BY <2>1, <2>4 DEF OnceInv
<1>6. CASE EndSideEffects \/ EndPass
  <2>1. /\ UNCHANGED <<prog, sideEffect, waitDelete, code>> /\ phase \in {"effects", "enter"}
        /\ phase' # "visit" /\ todo' = todo
        /\ phase' = "enter" \/ todo = <<>>
    BY <1>6 DEF EndSideEffects, EndPass
  <2>2. Future \subseteq Future'
    <3>1. Ids' = Ids /\ \A id : Site(id)' = Site(id)
      BY <2>1, SameProgram
    <3>2. QED
      BY <2>1, <3>1 DEF Future, Walking
  <2>3. (\A b \in Blocks : \A j, k \in DOMAIN prog.code[b] : Once(b, j, k))'
    BY <1>3, <2>1, <2>2 DEF Walking
  <2>4. waitDelete' = {}
    BY <2>1 DEF OnceInv
  <2>5. QED
    BY <2>1, <2>3, <2>4 DEF OnceInv
<1>7. CASE InitSets
  <2>1. /\ UNCHANGED <<prog, sideEffect, waitDelete, code, todo>> /\ phase = "enter"
        /\ phase' = "visit" /\ pos' = 1
    BY <1>7 DEF InitSets
  <2>2. Future \subseteq Future'
    <3>1. Ids' = Ids /\ \A id : Site(id)' = Site(id)
      BY <2>1, SameProgram
    <3>2. \A id \in Ids : Site(id)[2] >= 1
      BY SiteFacts, FlowFacts
    <3>3. QED
      BY <2>1, <3>1, <3>2 DEF Future, Walking
  <2>3. (\A b \in Blocks : \A j, k \in DOMAIN prog.code[b] : Once(b, j, k))'
    BY <1>3, <2>1, <2>2 DEF Walking
  <2>4. Head(todo) \in Blocks
    <3>1. todo # <<>> /\ todo \in Seq(DOMAIN prog.code)
      BY <1>7 DEF InitSets, WalkInv
    <3>2. QED
      BY <3>1 DEF Blocks
  <2>5. ASSUME NEW j \in DOMAIN prog.code[Head(todo)] PROVE ~(j < pos')
    BY <2>1, <2>4, FlowFacts
  <2>6. (\A j \in DOMAIN prog.code[Head(todo)] : Available(j))'
    BY <2>1, <2>5 DEF Available
  <2>7. QED
    BY <2>1, <2>3, <2>6 DEF OnceInv
<1>8. CASE LeaveBlock
  <2>1. /\ phase = "visit" /\ ~Visiting /\ phase' = "enter" /\ todo' = Tail(todo)
        /\ code' = [id \in DOMAIN code \ waitDelete |-> code[id]] /\ waitDelete' = {}
        /\ UNCHANGED <<prog, sideEffect>>
    BY <1>8 DEF LeaveBlock
  <2>2. /\ todo # <<>> /\ todo \in Seq(DOMAIN prog.code) /\ pos \in 1 .. End(Head(todo))
        /\ Head(todo) \in Blocks /\ Head(todo) = todo[1]
    <3>1. todo # <<>> /\ todo \in Seq(DOMAIN prog.code) /\ pos \in 1 .. End(Head(todo))
      BY <1>2, <2>1 DEF WalkInv, OffersInv
    <3>2. QED
      BY <3>1 DEF Blocks
  <2>3. \A k \in DOMAIN prog.code[Head(todo)] : ~(k >= pos)
    <3>1. pos \notin DOMAIN prog.code[Head(todo)]
      BY <2>1 DEF Visiting
    <3>2. /\ Len(prog.code[Head(todo)]) \in Nat
          /\ DOMAIN prog.code[Head(todo)] = 1 .. Len(prog.code[Head(todo)])
      BY <2>2, FlowFacts
    <3>3. pos \in 1 .. Len(prog.code[Head(todo)]) + 1
      BY <2>2 DEF End
    <3>4. QED
      BY <3>1, <3>2, <3>3
  <2>4. Future \subseteq Future'
    <3> SUFFICES ASSUME NEW id \in Future PROVE id \in Future'
      OBVIOUS
    <3>1. PICK i \in DOMAIN todo : /\ Site(id)[1] = todo[i]
                                   /\ phase = "visit" /\ i = 1 => Site(id)[2] >= pos
      BY DEF Future
    <3>2. id \in Ids /\ Site(id)[2] \in DOMAIN prog.code[Site(id)[1]]
      BY SiteFacts DEF Future
    <3>3. i # 1
      BY <2>1, <2>2, <2>3, <3>1, <3>2
    <3>4. /\ Len(todo) \in Nat /\ DOMAIN todo = 1 .. Len(todo)
          /\ DOMAIN Tail(todo) = 1 .. Len(todo) - 1
          /\ \A n \in 1 .. Len(todo) - 1 : Tail(todo)[n] = todo[n + 1]
      BY <2>2
    <3>5. i - 1 \in 1 .. Len(todo) - 1 /\ (i - 1) + 1 = i
      BY <3>3, <3>4
    <3>6. i - 1 \in DOMAIN todo' /\ todo'[i - 1] = Site(id)[1]
      BY <2>1, <3>1, <3>4, <3>5
    <3>7. id \in Ids' /\ Site(id)' = Site(id)
      BY <2>1, <3>2, SameProgram
    <3>8. QED
      BY <2>1, <3>6, <3>7 DEF Future, Walking
  <2>5. \A id \in DOMAIN code : code[id].kind \in {"call", "store"} => id \in DOMAIN code'
    <3> SUFFICES ASSUME NEW id \in DOMAIN code, code[id].kind \in {"call", "store"}
                 PROVE  id \notin waitDelete
      BY <2>1
    <3>1. id \in Ids /\ Now(id, rep).kind \in {"call", "store"}
      BY <1>2 DEF ReplacedInv
    <3>2. rep[id] = id
      BY <1>2, <3>1 DEF ReplacedInv
    <3>3. QED
      BY <1>2, <3>1, <3>2 DEF ReplacedInv
  <2>6. (\A b \in Blocks : \A j, k \in DOMAIN prog.code[b] : Once(b, j, k))'
    BY <1>3, <2>1, <2>4, <2>5 DEF Walking
  <2>7. QED
    BY <2>1, <2>6 DEF OnceInv
<1>9. CASE InitSetsHangs \/ ReadBeyondFails
  <2>1. phase' \in {"hung", "crashed"}
    BY <1>9 DEF InitSetsHangs, ReadBeyondFails
  <2>2. QED
    BY <2>1 DEF OnceInv, Walking
<1>10. CASE Execute \/ Jump
  <2>1. /\ phase = "exec" /\ phase' = "exec"
        /\ UNCHANGED <<prog, sideEffect, waitDelete, code, todo, pos>>
    BY <1>10 DEF Execute, Jump, passVars
  <2>2. Future \subseteq Future'
    BY <2>1 DEF Future, Walking
  <2>3. (\A b \in Blocks : \A j, k \in DOMAIN prog.code[b] : Once(b, j, k))'
    BY <1>3, <2>1, <2>2
  <2>4. QED
    BY <2>1, <2>3 DEF OnceInv
<1>11. CASE UNCHANGED vars
  <2>1. UNCHANGED <<prog, phase, sideEffect, todo, pos, avail, waitDelete, code>>
    BY <1>11 DEF vars, passVars
  <2>2. /\ Ids' = Ids /\ \A id : Site(id)' = Site(id)
        /\ \A x, y : MayAlias(x, y)' <=> MayAlias(x, y)
    BY <2>1, SameProgram
  <2>3. (Walking' <=> Walking) /\ Future \subseteq Future'
    BY <2>1, <2>2 DEF Walking, Future
  <2>4. (Walking \/ phase = "exec" =>
           \A b \in Blocks : \A j, k \in DOMAIN prog.code[b] : Once(b, j, k))'
    BY <1>3, <2>1, <2>3
  <2>5. ASSUME phase = "visit", NEW j \in DOMAIN prog.code[Head(todo)] PROVE Available(j)'
    <3>1. Available(j)
      BY <2>5 DEF OnceInv
    <3>2. PICK b : b = Head(todo)
      OBVIOUS
    <3>3. ASSUME NEW x, Changed(b, j, pos, x) PROVE Changed(b, j, pos, x)'
      BY <2>1, <2>2, <3>3 DEF Changed
    <3>4. PICK x : x = code[prog.code[b][j].id].x
      OBVIOUS
    <3>5. Changed(b, j, pos, x) => Changed(b, j, pos, x)'
      BY <3>3
    <3>6. QED
      BY <2>1, <3>1, <3>2, <3>4, <3>5 DEF Available, Left, Sharable, KeyOf, IsConstant, Index, Changed
  <2>6. QED
    BY <2>1, <2>4, <2>5 DEF OnceInv
<1>12. QED
  BY <1>4, <1>5, <1>6, <1>7, <1>8, <1>9, <1>10, <1>11 DEF Next, Rewrite

LEMMA InitOnce == ASSUME Init, Plain PROVE OnceInv
<1>1. phase = "effects" /\ todo = prog.list /\ waitDelete = {}
  BY DEF Init
<1>2. ASSUME NEW b \in Blocks, NEW k \in DOMAIN prog.code[b]
      PROVE  prog.code[b][k].id \in Future
  <2>1. prog.code[b][k].id \in Ids /\ Site(prog.code[b][k].id)[1] = b
    BY <1>1, SiteFacts
  <2>2. \E i \in DOMAIN prog.list : prog.list[i] = b
    BY <1>1, FlowFacts
  <2>3. QED
    BY <1>1, <2>1, <2>2 DEF Future, Walking
<1>3. QED
  BY <1>1, <1>2 DEF OnceInv, Once

(* When the pass is over, what is left twice loads what may have changed.   *)
LEMMA OnceIsEnough ==
  ASSUME Plain, WalkInv, Following, OnceInv PROVE NothingLeftTwice
<1>1. PICK rep, held : FollowInv(rep, held)
  BY DEF Following
<1>2. ReplacedInv(rep, held) /\ TodoInv
  BY <1>1 DEF FollowInv, OffersInv
<1> SUFFICES ASSUME phase = "exec",
                    NEW b \in Blocks, NEW j \in DOMAIN prog.code[b], NEW k \in DOMAIN prog.code[b],
                    NEW first, first = prog.code[b][j].id, NEW again, again = prog.code[b][k].id,
                    j < k, first \in DOMAIN code, again \in DOMAIN code,
                    code[first].kind = code[again].kind,
                    code[first].kind \in {"op", "load"} \/ (IsGep(first) /\ code[first].x # "A"),
                    Alike(prog, code[first].x, code[again].x),
                    Alike(prog, code[first].y, code[again].y),
                    IsConstant(code[first].x) => code[first].y = code[again].y
             PROVE  /\ code[first].kind = "load"
                    /\ \E id \in {prog.code[b][m].id : m \in (j + 1) .. (k - 1)} \cap DOMAIN code :
                         MayChange(code[id], code[first].x)
  BY DEF NothingLeftTwice, Blocks
<1>3. ASSUME NEW i \in DOMAIN code PROVE i \in Ids /\ code[i] = Now(i, rep) /\ code[i].kind = Given(i).kind
  <2>1. i \in Ids /\ code[i] = Now(i, rep)
    BY <1>2 DEF ReplacedInv
  <2>2. QED
    BY <2>1, NowFacts
<1>4. ASSUME NEW i \in DOMAIN code, code[i].kind = "load"
       PROVE  IsPlace(code[i].x, rep) /\ ~IsConstant(code[i].x)
  <2>1. i \in Ids /\ code[i] = Now(i, rep) /\ Given(i).kind = "load"
    BY <1>3, <1>4
  <2>2. IsAddress(Now(i, rep).x, Site(i)[1], Site(i)[2], rep)
    BY <1>2, <2>1, AddressNow
  <2>3. IsPlace(code[i].x, rep)
    BY <2>1, <2>2 DEF IsAddress, IsPlace
  <2>4. QED
    BY <2>3, NamesApart DEF IsPlace
<1>5. ASSUME NEW i \in DOMAIN code, code[i].kind = "gep" PROVE ~IsConstant(code[i].x)
  <2>1. i \in Ids /\ code[i] = Now(i, rep) /\ Given(i).kind = "gep"
    BY <1>3, <1>5
  <2>2. code[i].x \in {"G", "L", "A"}
    BY <2>1, KindFacts, NowFacts
  <2>3. QED
    BY <2>2, NamesApart
<1>6. Shares(code[first], code[again])
  <2>1. IsGep(first) => code[first].kind = "gep"
    BY <1>3, WrittenIsGiven DEF IsGep
  <2>2. ~IsConstant(code[first].x) => code[first].x = code[again].x
    BY DEF Alike, IsConstant
  <2>3. code[first].kind # "op" => ~IsConstant(code[first].x)
    BY <1>4, <1>5, <2>1
  <2>4. Sharable(code[first])
    BY <2>1 DEF Sharable
  <2>5. QED
    BY <2>2, <2>3, <2>4 DEF Shares
<1>7. Left(first) /\ Left(again) /\ again \notin Future
  BY DEF OnceInv, Left, Future, Walking
<1>8. code[first].kind = "load" /\ Changed(b, j, k, code[first].x)
  BY <1>6, <1>7 DEF OnceInv, Once
<1>9. PICK m \in (j + 1) .. (k - 1) :
        /\ prog.code[b][m].id \in DOMAIN code
        /\ \/ /\ code[prog.code[b][m].id].kind = "call"
              /\ code[prog.code[b][m].id].x \in sideEffect
           \/ /\ code[prog.code[b][m].id].kind = "store"
              /\ MayAlias(code[first].x, code[prog.code[b][m].id].y)
  BY <1>8 DEF Changed
<1>10. PICK id \in DOMAIN code : id = prog.code[b][m].id
  BY <1>9
<1>11. IsPlace(code[first].x, rep)
  BY <1>4, <1>8
<1>12. ASSUME code[id].kind = "store" PROVE IsPlace(code[id].y, rep)
  <2>1. id \in Ids /\ code[id] = Now(id, rep) /\ Given(id).kind = "store"
    BY <1>3, <1>12
  <2>2. IsAddress(Now(id, rep).y, Site(id)[1], Site(id)[2], rep)
    BY <1>2, <2>1, AddressNow
  <2>3. QED
    BY <2>1, <2>2 DEF IsAddress, IsPlace
<1>13. ASSUME NEW z, IsPlace(z, rep) PROVE Base(z) = BaseOf(z)
  BY <1>2, <1>13, PlaceFacts DEF Base
<1>14. MayChange(code[id], code[first].x)
  <2>1. CASE code[id].kind = "call"
    BY <1>9, <1>10, <2>1 DEF MayChange
  <2>2. CASE code[id].kind = "store"
    <3>1. Base(code[id].y) = BaseOf(code[id].y) /\ Base(code[first].x) = BaseOf(code[first].x)
      BY <1>11, <1>12, <1>13, <2>2
    <3>2. MayAlias(code[first].x, code[id].y)
      BY <1>9, <1>10, <2>2
    <3>3. QED
      BY <2>2, <3>1, <3>2 DEF MayChange, MayAlias
  <2>3. QED
    BY <1>9, <1>10, <2>1, <2>2
<1>15. QED
  BY <1>8, <1>10, <1>14

(* In a block nothing is computed twice when the pass is over, and loaded   *)
(* twice only if a store that may alias or a call with side effects that is *)
(* left lies in between (CommonSubExper.cpp:33, :114, :153).                *)
THEOREM NothingIsLeftTwice == Spec => []NothingLeftTwice
<1> DEFINE Rewritten == Plain => Following /\ OnceInv
           Inv == ProgOK /\ EffectsInv /\ WalkInv /\ UsersFollow /\ JoinInv /\ Rewritten
<1>1. Init => Inv
  BY InitEffects, InitWalk, InitFollows, InitJoins, InitOnce DEF Init, ProgOK, Following
<1>2. Inv /\ [Next]_vars => Inv'
  <2> SUFFICES ASSUME Inv, [Next]_vars PROVE Inv'
    OBVIOUS
  <2>1. ProgOK' /\ EffectsInv' /\ WalkInv' /\ UsersFollow' /\ JoinInv' /\ prog' = prog
    BY ProgStays, NextEffects, NextWalk, NextJoins
  <2>2. Rewritten'
    BY <2>1, NextFollows, NextOnce DEF Plain
  <2>3. QED
    BY <2>1, <2>2
<1>3. Inv => NothingLeftTwice
  <2> SUFFICES ASSUME Inv, phase = "exec", OperandsListed(prog) PROVE NothingLeftTwice
    BY DEF NothingLeftTwice
  <2>1. Plain
    BY DEF JoinInv, Plain
  <2>2. QED
    BY <2>1, OnceIsEnough
<1>4. QED
  BY <1>1, <1>2, <1>3, PTL DEF Spec
=============================================================================

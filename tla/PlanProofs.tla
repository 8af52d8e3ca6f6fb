----------------------------- MODULE PlanProofs -----------------------------
(***************************************************************************)
(* What the planner's operators keep and compute, for all actions, worlds  *)
(* and goals: the transposition table's list and map hold the same goals   *)
(* (src/src/transposition_table.cpp), what a plan found backwards does     *)
(* when it is run, and which plans can be found backwards.                 *)
(***************************************************************************)
EXTENDS RidaPlanner, SequenceProofs

-----------------------------------------------------------------------------
(* Tables *)

\* A table of goals in S with costs in C.
IsTable(t, S, C) ==
    /\ t = [order |-> t.order, cost |-> t.cost]
    /\ t.order \in Seq(S) /\ DOMAIN t.cost \subseteq S
    /\ \A g \in DOMAIN t.cost : t.cost[g] \in C

\* The list and the map have the same goals, each of them once.
InStep(t) ==
    /\ DOMAIN t.cost = ToSet(t.order) /\ IsFiniteSet(DOMAIN t.cost)
    /\ Len(t.order) = Cardinality(DOMAIN t.cost)
    /\ \A i, j \in 1..Len(t.order) : t.order[i] = t.order[j] => i = j

\* A cleared table.
LEMMA EmptyInStep ==
    ASSUME NEW S, NEW C
    PROVE  IsTable(EmptyTable, S, C) /\ InStep(EmptyTable) /\ Len(EmptyTable.order) = 0
  <1>1. EmptyTable.order = <<>> /\ EmptyTable.cost = <<>>
    BY DEF EmptyTable
  <1>2. <<>> \in Seq(S) /\ Len(<<>>) = 0 /\ DOMAIN <<>> = {}
    BY EmptySeq, LenProperties
  <1>3. ToSet(<<>>) = {}
    BY <1>2 DEF ToSet
  <1>4. IsFiniteSet({}) /\ Cardinality({}) = 0
    BY FS_EmptySet
  <1>5. EmptyTable = [order |-> EmptyTable.order, cost |-> EmptyTable.cost]
    BY DEF EmptyTable
  <1> QED
    BY <1>1, <1>2, <1>3, <1>4, <1>5 DEF IsTable, InStep

\* A goal that is not held is put in front.
LEMMA InsertKeeps ==
    ASSUME NEW S, NEW C, NEW t, IsTable(t, S, C), InStep(t), NEW g \in S, ~Holds(t, g), NEW c \in C
    PROVE  /\ IsTable(Insert(t, g, c), S, C) /\ InStep(Insert(t, g, c))
           /\ Len(Insert(t, g, c).order) = Len(t.order) + 1
  <1> DEFINE s == t.order
             u == <<g>> \o s
             D == DOMAIN t.cost
             f == [x \in D \cup {g} |-> IF x = g THEN c ELSE t.cost[x]]
  <1>1. /\ s \in Seq(S) /\ Len(s) \in Nat /\ D = ToSet(s) /\ IsFiniteSet(D)
        /\ Len(s) = Cardinality(D) /\ g \notin D /\ D \subseteq S
        /\ \A i, j \in 1..Len(s) : s[i] = s[j] => i = j
    BY ToSetOfSeq DEF IsTable, InStep, Holds
  <1>2. /\ u \in Seq(S) /\ Len(u) = Len(s) + 1 /\ u[1] = g
        /\ \A i \in 1..Len(s) : u[i + 1] = s[i]
    BY <1>1, InFrontOf
  <1>3. DOMAIN f = D \cup {g} /\ \A x \in DOMAIN f : f[x] \in C
    BY DEF IsTable
  <1>4. Insert(t, g, c) = [order |-> u, cost |-> f]
    BY DEF Insert
  <1> HIDE DEF s, u, D, f
  <1>5. IsFiniteSet(D \cup {g}) /\ Cardinality(D \cup {g}) = Cardinality(D) + 1
    BY <1>1, FS_AddElement
  <1>6. \A i \in 1..Len(u) : i = 1 \/ (i - 1 \in 1..Len(s) /\ u[i] = s[i - 1])
    BY <1>1, <1>2
  <1>7. ToSet(u) = D \cup {g}
    <2>1. \A x \in ToSet(u) : x \in D \cup {g}
      BY <1>1, <1>2, <1>6, ToSetOfSeq
    <2>2. ASSUME NEW x \in D PROVE x \in ToSet(u)
      <3>1. PICK i \in 1..Len(s) : x = s[i]
        BY <1>1, ToSetOfSeq
      <3>2. i + 1 \in 1..Len(u) /\ u[i + 1] = x
        BY <1>1, <1>2, <3>1
      <3> QED
        BY <1>2, <3>2, ToSetOfSeq
    <2>3. g \in ToSet(u)
      <3>1. 1 \in 1..Len(u)
        BY <1>1, <1>2
      <3> QED
        BY <1>2, <3>1, ToSetOfSeq
    <2> QED
      BY <2>1, <2>2, <2>3
  <1>8. ASSUME NEW i \in 1..Len(u), NEW j \in 1..Len(u), u[i] = u[j] PROVE i = j
    <2>1. \A k \in 1..Len(s) : s[k] \in D
      BY <1>1, ToSetOfSeq
    <2>2. CASE i = 1 /\ j = 1
      BY <2>2
    <2>3. CASE i = 1 /\ j # 1
      BY <1>1, <1>2, <1>6, <1>8, <2>1, <2>3
    <2>4. CASE i # 1 /\ j = 1
      BY <1>1, <1>2, <1>6, <1>8, <2>1, <2>4
    <2>5. CASE i # 1 /\ j # 1
      BY <1>1, <1>6, <1>8, <2>5
    <2> QED
      BY <2>2, <2>3, <2>4, <2>5
  <1>9. IsTable([order |-> u, cost |-> f], S, C)
    BY <1>1, <1>2, <1>3 DEF IsTable
  <1>10. InStep([order |-> u, cost |-> f])
    BY <1>1, <1>2, <1>3, <1>5, <1>7, <1>8 DEF InStep
  <1> QED
    BY <1>2, <1>4, <1>9, <1>10 DEF s

\* The goal least recently used leaves the list and the map.
LEMMA EvictKeeps ==
    ASSUME NEW S, NEW C, NEW t, IsTable(t, S, C), InStep(t), t.order # <<>>
    PROVE  /\ IsTable(Evict(t), S, C) /\ InStep(Evict(t))
           /\ Len(Evict(t).order) = Len(t.order) - 1
           /\ DOMAIN Evict(t).cost \subseteq DOMAIN t.cost
  <1> DEFINE s == t.order
             u == Front(s)
             D == DOMAIN t.cost
             f == [x \in D \ {Last(s)} |-> t.cost[x]]
  <1>1. /\ s \in Seq(S) /\ s # <<>> /\ D = ToSet(s) /\ IsFiniteSet(D)
        /\ Len(s) = Cardinality(D) /\ D \subseteq S
        /\ \A i, j \in 1..Len(s) : s[i] = s[j] => i = j
    BY DEF IsTable, InStep
  <1>2. /\ u \in Seq(S) /\ Len(u) = Len(s) - 1
        /\ \A i \in 1..(Len(s) - 1) : u[i] = s[i]
        /\ Len(s) \in Nat \ {0} /\ Last(s) = s[Len(s)]
    BY <1>1, FrontOfSeq
  <1>3. DOMAIN f = D \ {Last(s)} /\ \A x \in DOMAIN f : f[x] \in C
    BY DEF IsTable
  <1>4. Evict(t) = [order |-> u, cost |-> f]
    BY DEF Evict
  <1> HIDE DEF s, u, D, f
  <1>5. Last(s) \in D
    BY <1>1, <1>2, ToSetOfSeq
  <1>6. IsFiniteSet(D \ {Last(s)}) /\ Cardinality(D \ {Last(s)}) = Cardinality(D) - 1
    BY <1>1, <1>5, FS_RemoveElement
  <1>7. ToSet(u) = D \ {Last(s)}
    <2>1. ASSUME NEW x \in ToSet(u) PROVE x \in D \ {Last(s)}
      <3>1. PICK i \in 1..Len(u) : x = u[i]
        BY <1>2, ToSetOfSeq
      <3>2. i \in 1..Len(s) /\ i # Len(s) /\ x = s[i] /\ Len(s) \in 1..Len(s)
        BY <1>2, <3>1
      <3> QED
        BY <1>1, <1>2, <3>2, ToSetOfSeq
    <2>2. ASSUME NEW x \in D \ {Last(s)} PROVE x \in ToSet(u)
      <3>1. PICK i \in 1..Len(s) : x = s[i]
        BY <1>1, ToSetOfSeq
      <3>2. i \in 1..Len(u) /\ x = u[i]
        BY <1>2, <3>1
      <3> QED
        BY <1>2, <3>2, ToSetOfSeq
    <2> QED
      BY <2>1, <2>2
  <1>8. \A i, j \in 1..Len(u) : u[i] = u[j] => i = j
    BY <1>1, <1>2
  <1>9. IsTable([order |-> u, cost |-> f], S, C)
    BY <1>1, <1>2, <1>3 DEF IsTable
  <1>10. InStep([order |-> u, cost |-> f])
    BY <1>1, <1>2, <1>3, <1>6, <1>7, <1>8 DEF InStep
  <1> QED
    BY <1>2, <1>3, <1>4, <1>9, <1>10 DEF s, D

\* A goal that is held goes to the front, and nothing else changes.
LEMMA PromoteKeeps ==
    ASSUME NEW S, NEW C, NEW t, IsTable(t, S, C), InStep(t), NEW g, Holds(t, g)
    PROVE  /\ IsTable(Promote(t, g), S, C) /\ InStep(Promote(t, g))
           /\ Len(Promote(t, g).order) = Len(t.order) /\ Promote(t, g).cost = t.cost
  <1> DEFINE s == t.order
             p == Place(t, g)
             r == RemoveAt(s, p)
             u == <<g>> \o r
             D == DOMAIN t.cost
  <1>1. /\ s \in Seq(S) /\ Len(s) \in Nat /\ D = ToSet(s) /\ IsFiniteSet(D)
        /\ Len(s) = Cardinality(D) /\ g \in D /\ D \subseteq S
        /\ \A i, j \in 1..Len(s) : s[i] = s[j] => i = j
    BY ToSetOfSeq DEF IsTable, InStep, Holds
  <1>2. p \in 1..Len(s) /\ s[p] = g
    <2>1. DOMAIN s = 1..Len(s) /\ \E i \in 1..Len(s) : g = s[i]
      BY <1>1, ToSetOfSeq
    <2> QED
      BY <2>1 DEF Place
  <1>3. Promote(t, g) = [order |-> u, cost |-> t.cost]
    BY DEF Promote, IsTable
  <1> HIDE DEF s, p, D
  <1>4. /\ r \in Seq(S) /\ Len(r) = Len(s) - 1
        /\ \A i \in 1..(Len(s) - 1) : r[i] = IF i < p THEN s[i] ELSE s[i + 1]
    BY <1>1, <1>2, RemovedAt
  <1> HIDE DEF r
  <1>5. /\ u \in Seq(S) /\ Len(u) = Len(r) + 1 /\ u[1] = g
        /\ \A i \in 1..Len(r) : u[i + 1] = r[i]
    BY <1>1, <1>4, InFrontOf
  <1> HIDE DEF u
  <1>6. Len(u) = Len(s)
    BY <1>1, <1>4, <1>5
  <1> DEFINE from(i) == IF i = 1 THEN p ELSE IF i - 1 < p THEN i - 1 ELSE i
  <1>7. ASSUME NEW i \in 1..Len(s) PROVE from(i) \in 1..Len(s) /\ u[i] = s[from(i)]
    <2>1. CASE i = 1
      BY <1>2, <1>5, <2>1
    <2>2. CASE i # 1
      <3>1. i - 1 \in 1..(Len(s) - 1) /\ i - 1 \in 1..Len(r) /\ i = (i - 1) + 1
        BY <1>1, <1>4, <2>2
      <3>2. u[i] = r[i - 1]
        BY <1>5, <3>1
      <3>3. r[i - 1] = IF i - 1 < p THEN s[i - 1] ELSE s[i]
        BY <1>4, <3>1
      <3> QED
        BY <1>1, <2>2, <3>1, <3>2, <3>3
    <2> QED
      BY <2>1, <2>2
  <1>8. \A i, j \in 1..Len(s) : from(i) = from(j) => i = j
    BY <1>1, <1>2
  <1>9. \A k \in 1..Len(s) : \E i \in 1..Len(s) : from(i) = k
    <2> SUFFICES ASSUME NEW k \in 1..Len(s) PROVE \E i \in 1..Len(s) : from(i) = k
      OBVIOUS
    <2>1. CASE k = p
      <3>1. 1 \in 1..Len(s) /\ from(1) = k
        BY <1>1, <2>1
      <3> QED
        BY <3>1
    <2>2. CASE k < p
      <3>1. k + 1 \in 1..Len(s) /\ from(k + 1) = k
        BY <1>1, <1>2, <2>2
      <3> QED
        BY <3>1
    <2>3. CASE k > p
      <3>1. k \in 1..Len(s) /\ from(k) = k
        BY <1>1, <1>2, <2>3
      <3> QED
        BY <3>1
    <2> QED
      BY <1>2, <2>1, <2>2, <2>3
  <1> HIDE DEF from
  <1>10. ToSet(u) = D
    <2>1. ASSUME NEW x \in ToSet(u) PROVE x \in D
      <3>1. PICK i \in 1..Len(s) : x = u[i]
        BY <1>5, <1>6, ToSetOfSeq
      <3> QED
        BY <1>1, <1>7, <3>1, ToSetOfSeq
    <2>2. ASSUME NEW x \in D PROVE x \in ToSet(u)
      <3>1. PICK k \in 1..Len(s) : x = s[k]
        BY <1>1, ToSetOfSeq
      <3>2. PICK i \in 1..Len(s) : from(i) = k
        BY <1>9
      <3>3. x = u[i] /\ i \in 1..Len(u)
        BY <1>6, <1>7, <3>1, <3>2
      <3> QED
        BY <1>5, <3>3, ToSetOfSeq
    <2> QED
      BY <2>1, <2>2
  <1>11. \A i, j \in 1..Len(u) : u[i] = u[j] => i = j
    BY <1>1, <1>6, <1>7, <1>8
  <1>12. IsTable([order |-> u, cost |-> t.cost], S, C)
    BY <1>1, <1>5 DEF IsTable, D
  <1>13. InStep([order |-> u, cost |-> t.cost])
    BY <1>1, <1>6, <1>10, <1>11 DEF InStep, D
  <1> QED
    BY <1>3, <1>6, <1>12, <1>13 DEF s

\* lookup().
LEMMA LookupKeeps ==
    ASSUME NEW S, NEW C, NEW t, IsTable(t, S, C), InStep(t), NEW g
    PROVE  /\ IsTable(Lookup(t, g), S, C) /\ InStep(Lookup(t, g))
           /\ Len(Lookup(t, g).order) = Len(t.order)
  BY PromoteKeeps DEF Lookup

\* store() keeps to a limit that the table kept to.
LEMMA StoreKeeps ==
    ASSUME NEW S, NEW C, NEW t, IsTable(t, S, C), InStep(t), NEW g \in S, NEW c \in C,
           NEW limit \in Nat
    PROVE  /\ IsTable(Store(t, limit, g, c), S, C) /\ InStep(Store(t, limit, g, c))
           /\ Len(t.order) <= limit => Len(Store(t, limit, g, c).order) <= limit
  <1>1. t.order \in Seq(S) /\ Len(t.order) \in Nat /\ Len(t.order) = Cardinality(DOMAIN t.cost)
    BY ToSetOfSeq DEF IsTable, InStep
  <1>2. CASE limit = 0
    BY <1>2 DEF Store
  <1>3. CASE limit # 0 /\ Holds(t, g)
    <2> DEFINE q == Promote(t, g)
               f == [q.cost EXCEPT ![g] = c]
    <2>1. IsTable(q, S, C) /\ InStep(q) /\ Len(q.order) = Len(t.order) /\ q.cost = t.cost
      BY <1>3, PromoteKeeps
    <2> HIDE DEF q
    <2>2. Store(t, limit, g, c) = [order |-> q.order, cost |-> f]
      <3>1. Store(t, limit, g, c) = [q EXCEPT !.cost[g] = c]
        BY <1>3 DEF Store, q
      <3> QED
        BY <2>1, <3>1 DEF IsTable
    <2>3. DOMAIN f = DOMAIN q.cost /\ \A x \in DOMAIN f : f[x] = IF x = g THEN c ELSE q.cost[x]
      OBVIOUS
    <2> HIDE DEF f
    <2>4. IsTable([order |-> q.order, cost |-> f], S, C)
      BY <2>1, <2>3 DEF IsTable
    <2>5. InStep([order |-> q.order, cost |-> f])
      BY <2>1, <2>3 DEF InStep
    <2> QED
      BY <2>1, <2>2, <2>4, <2>5
  <1>4. CASE limit # 0 /\ ~Holds(t, g)
    <2>1. CASE Cardinality(DOMAIN t.cost) >= limit /\ t.order # <<>>
      <3> DEFINE e == Evict(t)
      <3>1. /\ IsTable(e, S, C) /\ InStep(e) /\ Len(e.order) = Len(t.order) - 1
            /\ DOMAIN e.cost \subseteq DOMAIN t.cost
        BY <2>1, EvictKeeps
      <3>2. ~Holds(e, g)
        BY <1>4, <3>1 DEF Holds
      <3>3. Store(t, limit, g, c) = Insert(e, g, c)
        BY <1>4, <2>1 DEF Store
      <3> HIDE DEF e
      <3>4. /\ IsTable(Insert(e, g, c), S, C) /\ InStep(Insert(e, g, c))
            /\ Len(Insert(e, g, c).order) = Len(e.order) + 1
        BY <3>1, <3>2, InsertKeeps
      <3> QED
        BY <1>1, <3>1, <3>3, <3>4
    <2>2. CASE ~(Cardinality(DOMAIN t.cost) >= limit /\ t.order # <<>>)
      <3>1. Store(t, limit, g, c) = Insert(t, g, c)
        BY <1>4, <2>2 DEF Store
      <3>2. /\ IsTable(Insert(t, g, c), S, C) /\ InStep(Insert(t, g, c))
            /\ Len(Insert(t, g, c).order) = Len(t.order) + 1
        BY <1>4, InsertKeeps
      <3>3. Len(t.order) < limit
        <4>1. t.order = <<>> => Len(t.order) = 0
          BY EmptySeq
        <4> QED
          BY <1>1, <1>4, <2>2, <4>1
      <3> QED
        BY <1>1, <3>1, <3>2, <3>3
    <2> QED
      BY <2>1, <2>2
  <1> QED
    BY <1>2, <1>3, <1>4

-----------------------------------------------------------------------------
(* Costs and worlds along a plan *)

\* The cost of a plan is that of its actions one by one.
LEMMA CostsComputed ==
    ASSUME NEW s \in Seq(Action)
    PROVE  /\ Costs(s) \in [0..Len(s) -> Nat] /\ Costs(s)[0] = 0
           /\ \A i \in 1..Len(s) : Costs(s)[i] = Costs(s)[i - 1] + Cost[s[i]]
  <1> DEFINE n == Len(s)
             Sum(f) == [i \in 0..n |-> IF i = 0 THEN 0 ELSE f[i - 1] + Cost[s[i]]]
             F == [i \in 1..n |-> [x \in Nat |-> x + Cost[s[i]]]]
             c == Costs(s)
  <1>1. n \in Nat /\ \A i \in 1..n : Cost[s[i]] \in Nat
    BY PlannerAssumption, ElementOfSeq
  <1>2. c = CHOOSE f : f = Sum(f)
    BY DEF Costs
  <1>3. \E f : f = Sum(f)
    <2>1. AreSteps(F, n, Nat)
      BY <1>1 DEF AreSteps
    <2> HIDE DEF F, n
    <2>2. PICK f \in [0..n -> Nat] : f[0] = 0 /\ \A i \in 1..n : f[i] = F[i][f[i - 1]]
      <3>1. Follow(F, n, Nat, 0)
        BY <1>1, <2>1, Computed
      <3> QED
        BY <3>1 DEF Follow
    <2>3. \A i \in 1..n : f[i] = f[i - 1] + Cost[s[i]]
      <3>1. \A i \in 1..n : f[i - 1] \in Nat
        BY <1>1
      <3> QED
        BY <2>2, <3>1 DEF F
    <2>4. f = Sum(f)
      BY <1>1, <2>2, <2>3
    <2> QED
      BY <2>4
  <1>4. c = Sum(c)
    BY <1>2, <1>3
  <1> HIDE DEF c
  <1>5. c[0] = 0 /\ \A i \in 1..n : c[i] = c[i - 1] + Cost[s[i]]
    BY <1>1, <1>4
  <1> DEFINE T == {k \in Nat : k <= n => c[k] \in Nat}
  <1>6. 0 \in T /\ \A k \in Nat : k \in T => k + 1 \in T
    <2>1. ASSUME NEW k \in Nat, k \in T, k + 1 <= n PROVE c[k + 1] \in Nat
      <3>1. k + 1 \in 1..n /\ c[k] \in Nat /\ (k + 1) - 1 = k
        BY <1>1, <2>1
      <3>2. c[k + 1] = c[k] + Cost[s[k + 1]]
        BY <1>5, <3>1
      <3> QED
        BY <1>1, <3>1, <3>2
    <2> QED
      BY <1>5, <2>1
  <1>7. \A k \in 0..n : c[k] \in Nat
    <2> HIDE DEF T
    <2>1. Nat \subseteq T
      BY <1>6, Upward
    <2> QED
      BY <1>1, <2>1 DEF T
  <1> QED
    BY <1>4, <1>5, <1>7 DEF c

-----------------------------------------------------------------------------
(* Running a plan and regressing a goal through it *)

\* A goal regressed through an action is a goal.
LEMMA RegressTyped ==
    ASSUME NEW a \in Action, NEW g \in State
    PROVE  Regress(a, g) \in State
  <1>1. Pre[a] \in Conditions
    BY PlannerAssumption
  <1>2. \A k \in Equalities(a) : Pre[a][k].value \in Value
    BY <1>1 DEF Equalities, Keys, Conditions, Condition
  <1> QED
    BY <1>2 DEF Regress, State

\* The worlds a plan leads to are worlds, each the last one with an action's effects.
LEMMA WorldsComputed ==
    ASSUME NEW s \in Seq(Action), NEW w \in State
    PROVE  /\ Worlds(w, s) \in [0..Len(s) -> State] /\ Worlds(w, s)[0] = w
           /\ \A i \in 1..Len(s) : Worlds(w, s)[i] = ApplyEffects(Eff[s[i]], Worlds(w, s)[i - 1])
  <1> DEFINE n == Len(s)
             Run(f) == [i \in 0..n |-> IF i = 0 THEN w
                                      ELSE ApplyEffects(Eff[s[i]], f[i - 1])]
             F == [i \in 1..n |-> [x \in State |-> ApplyEffects(Eff[s[i]], x)]]
             c == Worlds(w, s)
  <1>1. n \in Nat /\ \A i \in 1..n : s[i] \in Action
    BY ElementOfSeq
  <1>2. c = CHOOSE f : f = Run(f)
    BY DEF Worlds
  <1>3. \A i \in 1..n, x \in State : ApplyEffects(Eff[s[i]], x) \in State
    BY <1>1, PlannerAssumption DEF ApplyEffects, Merge, State
  <1>4. \E f : f = Run(f)
    <2>1. AreSteps(F, n, State)
      BY <1>3 DEF AreSteps
    <2> HIDE DEF F
    <2>2. PICK f \in [0..n -> State] : f[0] = w /\ \A i \in 1..n : f[i] = F[i][f[i - 1]]
      <3>1. Follow(F, n, State, w)
        BY <1>1, <2>1, Computed
      <3> QED
        BY <3>1 DEF Follow
    <2>3. \A i \in 1..n : f[i - 1] \in State
      BY <1>1
    <2>4. \A i \in 1..n : f[i] = ApplyEffects(Eff[s[i]], f[i - 1])
      BY <2>2, <2>3 DEF F
    <2>5. f = Run(f)
      BY <1>1, <2>2, <2>4
    <2> QED
      BY <2>5
  <1>5. c = Run(c)
    BY <1>2, <1>4
  <1> HIDE DEF c
  <1>6. c[0] = w /\ \A i \in 1..n : c[i] = ApplyEffects(Eff[s[i]], c[i - 1])
    BY <1>1, <1>5
  <1> DEFINE T == {k \in Nat : k <= n => c[k] \in State}
  <1>7. 0 \in T /\ \A k \in Nat : k \in T => k + 1 \in T
    <2>1. ASSUME NEW k \in Nat, k \in T, k + 1 <= n PROVE c[k + 1] \in State
      <3>1. k + 1 \in 1..n /\ c[k] \in State /\ (k + 1) - 1 = k
        BY <1>1, <2>1
      <3> QED
        BY <1>3, <1>6, <3>1
    <2> QED
      BY <1>6, <2>1
  <1>8. \A k \in 0..n : c[k] \in State
    <2> HIDE DEF T
    <2>1. Nat \subseteq T
      BY <1>7, Upward
    <2> QED
      BY <1>1, <2>1 DEF T
  <1> QED
    BY <1>5, <1>6, <1>8 DEF c

\* What is left of a goal is a goal, each the last one regressed through an action.
LEMMA RegressedComputed ==
    ASSUME NEW s \in Seq(Action), NEW g \in State
    PROVE  /\ Regressed(g, s) \in [0..Len(s) -> State] /\ Regressed(g, s)[0] = g
           /\ \A i \in 1..Len(s) : Regressed(g, s)[i] = Regress(s[Len(s) + 1 - i], Regressed(g, s)[i - 1])
  <1> DEFINE n == Len(s)
             Run(f) == [i \in 0..n |-> IF i = 0 THEN g
                                      ELSE Regress(s[n + 1 - i], f[i - 1])]
             F == [i \in 1..n |-> [x \in State |-> Regress(s[n + 1 - i], x)]]
             c == Regressed(g, s)
  <1>1. n \in Nat /\ \A i \in 1..n : s[n + 1 - i] \in Action
    BY ElementOfSeq
  <1>2. c = CHOOSE f : f = Run(f)
    BY DEF Regressed
  <1>3. \A i \in 1..n, x \in State : Regress(s[n + 1 - i], x) \in State
    BY <1>1, RegressTyped
  <1>4. \E f : f = Run(f)
    <2>1. AreSteps(F, n, State)
      BY <1>3 DEF AreSteps
    <2> HIDE DEF F
    <2>2. PICK f \in [0..n -> State] : f[0] = g /\ \A i \in 1..n : f[i] = F[i][f[i - 1]]
      <3>1. Follow(F, n, State, g)
        BY <1>1, <2>1, Computed
      <3> QED
        BY <3>1 DEF Follow
    <2>3. \A i \in 1..n : f[i - 1] \in State
      BY <1>1
    <2>4. \A i \in 1..n : f[i] = Regress(s[n + 1 - i], f[i - 1])
      BY <2>2, <2>3 DEF F
    <2>5. f = Run(f)
      BY <1>1, <2>2, <2>4
    <2> QED
      BY <2>5
  <1>5. c = Run(c)
    BY <1>2, <1>4
  <1> HIDE DEF c
  <1>6. c[0] = g /\ \A i \in 1..n : c[i] = Regress(s[n + 1 - i], c[i - 1])
    BY <1>1, <1>5
  <1> DEFINE T == {k \in Nat : k <= n => c[k] \in State}
  <1>7. 0 \in T /\ \A k \in Nat : k \in T => k + 1 \in T
    <2>1. ASSUME NEW k \in Nat, k \in T, k + 1 <= n PROVE c[k + 1] \in State
      <3>1. k + 1 \in 1..n /\ c[k] \in State /\ (k + 1) - 1 = k
        BY <1>1, <2>1
      <3> QED
        BY <1>3, <1>6, <3>1
    <2> QED
      BY <1>6, <2>1
  <1>8. \A k \in 0..n : c[k] \in State
    <2> HIDE DEF T
    <2>1. Nat \subseteq T
      BY <1>7, Upward
    <2> QED
      BY <1>1, <2>1 DEF T
  <1> QED
    BY <1>5, <1>6, <1>8 DEF c

-----------------------------------------------------------------------------
(* What is found backwards runs forwards *)

\* An action that a goal g is regressed through when the search began in w.
Fits(a, g, w) == IsRelevant(a, g) /\ ~HasConflict(a, g) /\ Applies(a, g, w)

\* A plan s as it is found backwards from a goal: left[i] is what is left of the
\* goal when all but the first i actions are regressed through.
Way(w, s, left) ==
    /\ s \in Seq(Action) /\ left \in [0..Len(s) -> State]
    /\ \A i \in 1..Len(s) : Fits(s[i], left[i], w) /\ left[i - 1] = Regress(s[i], left[i])
    /\ SatisfiesGoal(w, left[0])

\* An action does nothing against what is left to reach after it.
Helps(a, g) == \A k \in Keys(g) : Eff[a][k] \in {Absent, g[k]}

\* The actions are of their types.
LEMMA ActionTyped ==
    ASSUME NEW a \in Action
    PROVE  /\ Pre[a] \in Conditions /\ Eff[a] \in State /\ Cost[a] \in Nat
           /\ \A k \in Keys(Pre[a]) : k \in Key /\ Pre[a][k] \in Condition /\ Pre[a][k].value \in Value
           /\ \A k \in Keys(Pre[a]) : Pre[a][k].value # Absent
  <1>1. Pre[a] \in Conditions /\ Eff[a] \in State /\ Cost[a] \in Nat
    BY PlannerAssumption
  <1>2. \A k \in Keys(Pre[a]) : k \in Key /\ Pre[a][k] \in Condition
    BY <1>1 DEF Keys, Conditions
  <1> QED
    BY <1>1, <1>2, AbsentAssumption DEF Condition

\* A condition is about one key.
LEMMA EvaluateSame ==
    ASSUME NEW c, NEW v, NEW w, NEW k, v[k] = w[k], Evaluate(c, v, k)
    PROVE  Evaluate(c, w, k)
  BY DEF Evaluate

\* A world that satisfies what is left of a goal runs the action and satisfies the goal.
LEMMA ActionRuns ==
    ASSUME NEW a \in Action, NEW g \in State, NEW v \in State, NEW w \in State,
           Fits(a, g, w), Helps(a, g), SatisfiesGoal(v, Regress(a, g)),
           \A k \in Keys(Pre[a]) \ Equalities(a) : v[k] = w[k]
    PROVE  CheckPreconditions(Pre[a], v) /\ SatisfiesGoal(ApplyEffects(Eff[a], v), g)
  <1> DEFINE r == Regress(a, g)
  <1>1. \A k \in Key : r[k] # Absent => v[k] = r[k]
    BY DEF SatisfiesGoal, Keys
  <1>2. \A k \in Equalities(a) : /\ k \in Keys(Pre[a]) /\ k \in Key /\ r[k] = Pre[a][k].value
                                 /\ v[k] = Pre[a][k].value
    <2>1. \A k \in Equalities(a) : k \in Keys(Pre[a]) /\ k \in Key /\ Pre[a][k].value # Absent
      BY ActionTyped DEF Equalities
    <2>2. \A k \in Equalities(a) : r[k] = Pre[a][k].value
      BY <2>1 DEF Regress
    <2> QED
      BY <1>1, <2>1, <2>2
  <1>3. ASSUME NEW k \in Keys(Pre[a]) PROVE Evaluate(Pre[a][k], v, k)
    <2>1. k \in Key /\ Pre[a][k].value # Absent
      BY ActionTyped
    <2>2. CASE k \in Equalities(a)
      <3>1. v[k] = Pre[a][k].value /\ Pre[a][k].op = "Equal"
        BY <1>2, <2>2 DEF Equalities
      <3> QED
        BY <2>1, <3>1 DEF Evaluate, Compare
    <2>3. CASE k \notin Equalities(a)
      <3>1. CASE r[k] # Absent
        <4>1. Evaluate(Pre[a][k], r, k)
          BY <2>3, <3>1 DEF Fits, Applies
        <4>2. r[k] = v[k]
          BY <1>1, <2>1, <3>1
        <4> QED
          BY <4>1, <4>2, EvaluateSame
      <3>2. CASE r[k] = Absent
        <4>1. Evaluate(Pre[a][k], w, k)
          BY <2>3, <3>2 DEF Fits, Applies
        <4>2. w[k] = v[k]
          BY <2>3
        <4> QED
          BY <4>1, <4>2, EvaluateSame
      <3> QED
        BY <3>1, <3>2
    <2> QED
      BY <2>2, <2>3
  <1>4. ASSUME NEW k \in Keys(g) PROVE ApplyEffects(Eff[a], v)[k] = g[k]
    <2>1. k \in Key /\ g[k] # Absent
      BY DEF Keys
    <2>2. ApplyEffects(Eff[a], v)[k] = IF Eff[a][k] = Absent THEN v[k] ELSE Eff[a][k]
      BY <2>1 DEF ApplyEffects, Merge
    <2>3. CASE Eff[a][k] # Absent
      BY <2>2, <2>3 DEF Helps
    <2>4. CASE Eff[a][k] = Absent /\ k \in Equalities(a)
      <3>1. Evaluate(Pre[a][k], g, k)
        BY <1>2, <2>4 DEF Fits, HasConflict
      <3>2. g[k] = Pre[a][k].value
        BY <2>4, <3>1 DEF Evaluate, Compare, Equalities
      <3> QED
        BY <1>2, <2>2, <2>4, <3>2
    <2>5. CASE Eff[a][k] = Absent /\ k \notin Equalities(a)
      <3>1. r[k] = g[k]
        BY <2>1, <2>5 DEF Regress
      <3> QED
        BY <1>1, <2>1, <2>2, <2>5, <3>1
    <2> QED
      BY <2>3, <2>4, <2>5
  <1> QED
    BY <1>3, <1>4 DEF CheckPreconditions, SatisfiesConditions, SatisfiesGoal

\* A way runs from the world it was found from, and leads to its goal.
LEMMA WayRuns ==
    ASSUME NEW w \in State, NEW s, NEW left, Way(w, s, left), ~Shifts(s),
           \A i \in 1..Len(s) : Helps(s[i], left[i])
    PROVE  /\ \A i \in 1..Len(s) : CheckPreconditions(Pre[s[i]], Worlds(w, s)[i - 1])
           /\ SatisfiesGoal(Worlds(w, s)[Len(s)], left[Len(s)])
  <1> DEFINE n == Len(s)
             v == Worlds(w, s)
  <1>1. /\ s \in Seq(Action) /\ n \in Nat /\ left \in [0..n -> State] /\ DOMAIN s = 1..n
        /\ \A i \in 1..n : s[i] \in Action
    BY ElementOfSeq DEF Way
  <1>2. /\ v \in [0..n -> State] /\ v[0] = w
        /\ \A i \in 1..n : v[i] = ApplyEffects(Eff[s[i]], v[i - 1])
    BY <1>1, WorldsComputed
  <1> DEFINE Same(i) == \A k \in Key : (\A j \in 1..i : Eff[s[j]][k] = Absent) => v[i][k] = w[k]
             T == {i \in Nat : i <= n => /\ SatisfiesGoal(v[i], left[i]) /\ Same(i)
                                         /\ i # 0 => CheckPreconditions(Pre[s[i]], v[i - 1])}
  <1> HIDE DEF v
  <1>3. 0 \in T
    BY <1>2 DEF Way
  <1>4. ASSUME NEW i \in Nat, i \in T PROVE i + 1 \in T
    <2> SUFFICES ASSUME i + 1 <= n
                 PROVE  /\ SatisfiesGoal(v[i + 1], left[i + 1]) /\ Same(i + 1)
                        /\ CheckPreconditions(Pre[s[i + 1]], v[i])
      OBVIOUS
    <2> DEFINE a == s[i + 1]
               g == left[i + 1]
    <2>1. i + 1 \in 1..n /\ i + 1 \in 0..n /\ i \in 0..n /\ (i + 1) - 1 = i
      BY <1>1
    <2>2. a \in Action /\ g \in State /\ v[i] \in State
      BY <1>1, <1>2, <2>1
    <2>3. Fits(a, g, w) /\ left[i] = Regress(a, g) /\ Helps(a, g)
      BY <2>1 DEF Way
    <2>4. SatisfiesGoal(v[i], left[i]) /\ Same(i)
      BY <1>4, <2>1
    <2>5. \A k \in Keys(Pre[a]) \ Equalities(a) : v[i][k] = w[k]
      <3> SUFFICES ASSUME NEW k \in Keys(Pre[a]) \ Equalities(a) PROVE v[i][k] = w[k]
        OBVIOUS
      <3>1. \A j \in 1..i : j \in DOMAIN s /\ j < i + 1
        BY <1>1, <2>1
      <3>2. \A j \in 1..i : Eff[s[j]][k] = Absent
        BY <1>1, <2>1, <3>1 DEF Shifts
      <3>3. k \in Key
        BY DEF Keys
      <3> QED
        BY <2>4, <3>2, <3>3
    <2>6. v[i + 1] = ApplyEffects(Eff[a], v[i])
      BY <1>2, <2>1
    <2>7. CheckPreconditions(Pre[a], v[i]) /\ SatisfiesGoal(v[i + 1], g)
      BY <2>2, <2>3, <2>4, <2>5, <2>6, ActionRuns
    <2>8. ASSUME NEW k \in Key, \A j \in 1..(i + 1) : Eff[s[j]][k] = Absent
          PROVE  v[i + 1][k] = w[k]
      <3>1. \A j \in 1..i : j \in 1..(i + 1)
        OBVIOUS
      <3>2. v[i][k] = w[k]
        BY <2>4, <2>8, <3>1
      <3>3. Eff[a][k] = Absent
        BY <2>8
      <3> QED
        BY <2>6, <3>2, <3>3 DEF ApplyEffects, Merge
    <2> QED
      BY <2>7, <2>8
  <1>5. \A i \in 0..n : /\ SatisfiesGoal(v[i], left[i])
                        /\ i # 0 => CheckPreconditions(Pre[s[i]], v[i - 1])
    <2> HIDE DEF T
    <2>1. Nat \subseteq T
      BY <1>3, <1>4, Upward
    <2> QED
      BY <1>1, <2>1 DEF T
  <1> QED
    BY <1>1, <1>5 DEF v

-----------------------------------------------------------------------------
(* What runs forwards is found backwards *)

\* An action after which a world satisfies a goal either helps, and is then one
\* that the search regresses the goal through, or the world satisfied it before.
LEMMA ActionFound ==
    ASSUME NEW a \in Action, NEW g \in State, NEW v \in State, NEW w \in State,
           CheckPreconditions(Pre[a], v), SatisfiesGoal(ApplyEffects(Eff[a], v), g),
           \A k \in Keys(Pre[a]) \ Equalities(a) : v[k] = w[k] /\ Eff[a][k] = Absent
    PROVE  \/ SatisfiesGoal(v, g)
           \/ Fits(a, g, w) /\ Helps(a, g) /\ SatisfiesGoal(v, Regress(a, g))
  <1> DEFINE r == Regress(a, g)
  <1>1. \A k \in Keys(g) : /\ k \in Key /\ g[k] # Absent
                           /\ (IF Eff[a][k] = Absent THEN v[k] ELSE Eff[a][k]) = g[k]
    BY DEF SatisfiesGoal, ApplyEffects, Merge, Keys
  <1>2. \A k \in Keys(Pre[a]) : Evaluate(Pre[a][k], v, k)
    BY DEF CheckPreconditions, SatisfiesConditions
  <1>3. Helps(a, g)
    BY <1>1 DEF Helps
  <1>4. CASE ~IsRelevant(a, g)
    BY <1>1, <1>4 DEF IsRelevant, SatisfiesGoal
  <1>5. CASE IsRelevant(a, g)
    <2>1. ~HasConflict(a, g)
      <3> SUFFICES ASSUME NEW k \in Keys(Pre[a]) \cap Keys(g), Eff[a][k] = Absent
                   PROVE  Evaluate(Pre[a][k], g, k)
        BY DEF HasConflict
      <3>1. v[k] = g[k]
        BY <1>1
      <3> QED
        BY <1>2, <3>1, EvaluateSame
    <2>2. Applies(a, g, w)
      <3> SUFFICES ASSUME NEW k \in Keys(Pre[a]) \ Equalities(a)
                   PROVE  Evaluate(Pre[a][k], IF r[k] # Absent THEN r ELSE w, k)
        BY DEF Applies
      <3>1. v[k] = w[k] /\ Eff[a][k] = Absent /\ k \in Key /\ Evaluate(Pre[a][k], v, k)
        BY <1>2 DEF Keys
      <3>2. CASE r[k] # Absent
        <4>1. r[k] = g[k] /\ k \in Keys(g)
          BY <3>1, <3>2 DEF Regress, Keys
        <4>2. v[k] = r[k]
          BY <1>1, <3>1, <4>1
        <4>3. Evaluate(Pre[a][k], r, k)
          BY <3>1, <4>2, EvaluateSame
        <4> QED
          BY <3>2, <4>3
      <3>3. CASE r[k] = Absent
        <4>1. Evaluate(Pre[a][k], w, k)
          BY <3>1, EvaluateSame
        <4> QED
          BY <3>3, <4>1
      <3> QED
        BY <3>2, <3>3
    <2>3. SatisfiesGoal(v, r)
      <3> SUFFICES ASSUME NEW k \in Key, r[k] # Absent PROVE v[k] = r[k]
        BY DEF SatisfiesGoal, Keys
      <3>1. CASE k \in Equalities(a)
        <4>1. r[k] = Pre[a][k].value /\ k \in Keys(Pre[a]) /\ Pre[a][k].op = "Equal"
          BY <3>1 DEF Regress, Equalities
        <4> QED
          BY <1>2, <4>1 DEF Evaluate, Compare
      <3>2. CASE k \notin Equalities(a)
        <4>1. Eff[a][k] = Absent /\ r[k] = g[k]
          BY <3>2 DEF Regress
        <4>2. k \in Keys(g)
          BY <4>1 DEF Keys
        <4> QED
          BY <1>1, <4>1, <4>2
      <3> QED
        BY <3>1, <3>2
    <2> QED
      BY <1>3, <1>5, <2>1, <2>2, <2>3 DEF Fits
  <1> QED
    BY <1>4, <1>5

\* A plan with one action more costs what that action costs more.
LEMMA CostsOfAppend ==
    ASSUME NEW s \in Seq(Action), NEW a \in Action
    PROVE  /\ \A i \in 0..Len(s) : Costs(Append(s, a))[i] = Costs(s)[i]
           /\ SumCost(Append(s, a)) = SumCost(s) + Cost[a]
  <1> DEFINE n == Len(s)
             t == Append(s, a)
             c == Costs(s)
             d == Costs(t)
  <1>1. /\ n \in Nat /\ t \in Seq(Action) /\ Len(t) = n + 1 /\ t[n + 1] = a
        /\ \A i \in 1..n : t[i] = s[i]
    BY AppendToSeq, LenProperties
  <1>2. c[0] = 0 /\ \A i \in 1..n : c[i] = c[i - 1] + Cost[s[i]]
    BY CostsComputed
  <1>3. d[0] = 0 /\ \A i \in 1..(n + 1) : d[i] = d[i - 1] + Cost[t[i]]
    BY <1>1, CostsComputed
  <1> HIDE DEF c, d, t
  <1> DEFINE T == {i \in Nat : i <= n => d[i] = c[i]}
  <1>4. 0 \in T
    BY <1>2, <1>3
  <1>5. ASSUME NEW i \in Nat, i \in T PROVE i + 1 \in T
    <2> SUFFICES ASSUME i + 1 <= n PROVE d[i + 1] = c[i + 1]
      OBVIOUS
    <2>1. i + 1 \in 1..n /\ i + 1 \in 1..(n + 1) /\ (i + 1) - 1 = i /\ d[i] = c[i]
      BY <1>1, <1>5
    <2> QED
      BY <1>1, <1>2, <1>3, <2>1
  <1> HIDE DEF T
  <1>6. \A i \in 0..n : d[i] = c[i]
    <2>1. Nat \subseteq T
      BY <1>4, <1>5, Upward
    <2> QED
      BY <1>1, <2>1 DEF T
  <1>7. d[n + 1] = c[n] + Cost[a]
    <2>1. n + 1 \in 1..(n + 1) /\ (n + 1) - 1 = n /\ n \in 0..n
      BY <1>1
    <2> QED
      BY <1>1, <1>3, <1>6, <2>1
  <1> QED
    BY <1>1, <1>6, <1>7 DEF SumCost, c, d, t

\* A way with one action more.
LEMMA WayExtended ==
    ASSUME NEW w \in State, NEW s, NEW left, Way(w, s, left), NEW a \in Action, NEW g \in State,
           Fits(a, g, w), left[Len(s)] = Regress(a, g)
    PROVE  LET goals == [i \in 0..(Len(s) + 1) |-> IF i = Len(s) + 1 THEN g ELSE left[i]]
           IN  /\ Way(w, Append(s, a), goals)
               /\ goals[Len(s) + 1] = g /\ \A i \in 0..Len(s) : goals[i] = left[i]
  <1> DEFINE n == Len(s)
             t == Append(s, a)
             goals == [i \in 0..(n + 1) |-> IF i = n + 1 THEN g ELSE left[i]]
  <1>1. /\ s \in Seq(Action) /\ n \in Nat /\ left \in [0..n -> State]
        /\ t \in Seq(Action) /\ Len(t) = n + 1 /\ t[n + 1] = a
        /\ \A i \in 1..n : t[i] = s[i]
    BY AppendToSeq, LenProperties DEF Way
  <1>2. /\ goals \in [0..(n + 1) -> State] /\ goals[n + 1] = g
        /\ \A i \in 0..n : goals[i] = left[i]
    BY <1>1
  <1> HIDE DEF goals, t
  <1>3. ASSUME NEW i \in 1..(n + 1)
        PROVE  Fits(t[i], goals[i], w) /\ goals[i - 1] = Regress(t[i], goals[i])
    <2>1. CASE i = n + 1
      <3>1. i - 1 = n /\ n \in 0..n
        BY <1>1, <2>1
      <3> QED
        BY <1>1, <1>2, <2>1, <3>1
    <2>2. CASE i # n + 1
      <3>1. i \in 1..n /\ i \in 0..n /\ i - 1 \in 0..n
        BY <1>1, <2>2
      <3> QED
        BY <1>1, <1>2, <3>1 DEF Way
    <2> QED
      BY <2>1, <2>2
  <1>4. SatisfiesGoal(w, goals[0])
    BY <1>1, <1>2 DEF Way
  <1>5. Way(w, t, goals)
    BY <1>1, <1>2, <1>3, <1>4 DEF Way
  <1> QED
    BY <1>2, <1>5 DEF goals, t

\* A plan t that is found backwards from a goal, of actions that help.
Found(w, t, left, g) ==
    /\ Way(w, t, left) /\ left[Len(t)] = g
    /\ \A i \in 1..Len(t) : Helps(t[i], left[i])

\* What a way is made of.
LEMMA WayTyped ==
    ASSUME NEW w, NEW s, NEW left, Way(w, s, left)
    PROVE  /\ s \in Seq(Action) /\ Len(s) \in Nat /\ left \in [0..Len(s) -> State]
           /\ \A i \in 0..Len(s) : Costs(s)[i] \in Nat
           /\ SumCost(s) \in Nat /\ SumCost(s) = Costs(s)[Len(s)]
  <1>1. s \in Seq(Action) /\ Len(s) \in Nat /\ left \in [0..Len(s) -> State]
    BY LenProperties DEF Way
  <1>2. Costs(s) \in [0..Len(s) -> Nat]
    BY <1>1, CostsComputed
  <1> QED
    BY <1>1, <1>2 DEF SumCost

\* It takes nothing but first actions of s, no more of them and at no more cost.
Within(t, s, n) ==
    /\ Len(t) <= n /\ SumCost(t) <= Costs(s)[n]
    /\ \A i \in 1..Len(t) : \E j \in 1..n : t[i] = s[j]

\* Of every plan that runs and satisfies a goal some actions are found backwards,
\* if no action writes what another compares otherwise than by Equal.
LEMMA PlanFound ==
    ASSUME NEW w \in State, NEW g \in State, NEW s \in Seq(Action),
           \A i \in 1..Len(s) : CheckPreconditions(Pre[s[i]], Worlds(w, s)[i - 1]),
           SatisfiesGoal(Worlds(w, s)[Len(s)], g),
           \A i, j \in 1..Len(s) :
               \A k \in Keys(Pre[s[i]]) \ Equalities(s[i]) : Eff[s[j]][k] = Absent
    PROVE  \E t, left : Found(w, t, left, g) /\ Within(t, s, Len(s))
  <1> DEFINE n == Len(s)
             v == Worlds(w, s)
             c == Costs(s)
  <1>1. /\ n \in Nat /\ DOMAIN s = 1..n /\ \A i \in 1..n : s[i] \in Action
    BY ElementOfSeq
  <1>2. /\ v \in [0..n -> State] /\ v[0] = w
        /\ \A i \in 1..n : v[i] = ApplyEffects(Eff[s[i]], v[i - 1])
    BY WorldsComputed
  <1>3. c \in [0..n -> Nat] /\ c[0] = 0 /\ \A i \in 1..n : c[i] = c[i - 1] + Cost[s[i]]
    BY CostsComputed
  <1>4. \A i \in 1..n : CheckPreconditions(Pre[s[i]], v[i - 1])
    OBVIOUS
  <1> HIDE DEF v, c
  <1> DEFINE Same(i) == \A j \in 1..n : \A k \in Keys(Pre[s[j]]) \ Equalities(s[j]) : v[i][k] = w[k]
             Some(x, i) == \E t, left : Found(w, t, left, x) /\ Within(t, s, i)
             T == {i \in Nat : i <= n =>
                      Same(i) /\ \A x \in State : SatisfiesGoal(v[i], x) => Some(x, i)}
  <1>5. 0 \in T
    <2> SUFFICES ASSUME NEW x \in State, SatisfiesGoal(w, x) PROVE Some(x, 0)
      BY <1>2
    <2> DEFINE left == [i \in 0..0 |-> x]
    <2>1. <<>> \in Seq(Action) /\ Len(<<>>) = 0
      BY EmptySeq
    <2>2. left \in [0..0 -> State] /\ left[0] = x
      OBVIOUS
    <2> HIDE DEF left
    <2>3. Found(w, <<>>, left, x)
      BY <2>1, <2>2 DEF Found, Way
    <2>4. SumCost(<<>>) = 0
      BY <2>1, CostsComputed DEF SumCost
    <2>5. Within(<<>>, s, 0)
      BY <1>3, <2>1, <2>4 DEF Within, c
    <2> QED
      BY <2>3, <2>5
  <1>6. ASSUME NEW i \in Nat, i \in T, i + 1 <= n PROVE Same(i + 1)
    <2>1. i + 1 \in 1..n /\ (i + 1) - 1 = i /\ Same(i)
      BY <1>1, <1>6
    <2>2. v[i + 1] = ApplyEffects(Eff[s[i + 1]], v[i])
      BY <1>2, <2>1
    <2> SUFFICES ASSUME NEW j \in 1..n, NEW k \in Keys(Pre[s[j]]) \ Equalities(s[j])
                 PROVE  v[i + 1][k] = w[k]
      OBVIOUS
    <2>3. Eff[s[i + 1]][k] = Absent /\ k \in Key
      BY <2>1 DEF Keys
    <2> QED
      BY <2>1, <2>2, <2>3 DEF ApplyEffects, Merge
  <1>7. ASSUME NEW i \in Nat, i \in T, i + 1 <= n,
               NEW x \in State, SatisfiesGoal(v[i + 1], x)
        PROVE  Some(x, i + 1)
    <2> DEFINE a == s[i + 1]
    <2>1. i + 1 \in 1..n /\ i \in 0..n /\ (i + 1) - 1 = i /\ i <= n
      BY <1>1, <1>7
    <2>2. a \in Action /\ v[i] \in State /\ v[i + 1] = ApplyEffects(Eff[a], v[i])
      BY <1>1, <1>2, <2>1
    <2>3. CheckPreconditions(Pre[a], v[i])
      BY <1>4, <2>1
    <2>4. \A k \in Keys(Pre[a]) \ Equalities(a) : v[i][k] = w[k] /\ Eff[a][k] = Absent
      <3>1. Same(i)
        BY <1>7, <2>1
      <3> QED
        BY <2>1, <3>1
    <2>5. c[i] \in Nat /\ Cost[a] \in Nat /\ c[i + 1] = c[i] + Cost[a]
      BY <1>3, <2>1, <2>2, ActionTyped
    <2>6. \A j \in 1..i : j \in 1..(i + 1)
      OBVIOUS
    <2>7. \/ SatisfiesGoal(v[i], x)
          \/ Fits(a, x, w) /\ Helps(a, x) /\ SatisfiesGoal(v[i], Regress(a, x))
      BY <1>7, <2>2, <2>3, <2>4, ActionFound
    <2>8. CASE SatisfiesGoal(v[i], x)
      <3>1. PICK t, left : Found(w, t, left, x) /\ Within(t, s, i)
        BY <1>7, <2>1, <2>8
      <3>2. t \in Seq(Action) /\ Len(t) \in Nat /\ SumCost(t) \in Nat
        BY <3>1, WayTyped DEF Found
      <3>3. Within(t, s, i + 1)
        BY <2>5, <2>6, <3>1, <3>2 DEF Within, c
      <3> QED
        BY <3>1, <3>3
    <2>9. CASE Fits(a, x, w) /\ Helps(a, x) /\ SatisfiesGoal(v[i], Regress(a, x))
      <3>1. Regress(a, x) \in State
        BY <2>2, RegressTyped
      <3>2. PICK t, left : Found(w, t, left, Regress(a, x)) /\ Within(t, s, i)
        BY <1>7, <2>1, <2>9, <3>1
      <3> DEFINE u == Append(t, a)
                 goals == [j \in 0..(Len(t) + 1) |-> IF j = Len(t) + 1 THEN x ELSE left[j]]
      <3>3. /\ t \in Seq(Action) /\ Len(t) \in Nat /\ SumCost(t) \in Nat
            /\ Way(w, t, left) /\ left[Len(t)] = Regress(a, x)
        BY <3>2, WayTyped DEF Found
      <3>4. /\ Way(w, u, goals) /\ goals[Len(t) + 1] = x
            /\ \A j \in 0..Len(t) : goals[j] = left[j]
        BY <2>2, <2>9, <3>3, WayExtended
      <3>5. /\ Len(u) = Len(t) + 1 /\ u[Len(t) + 1] = a
            /\ \A j \in 1..Len(t) : u[j] = t[j]
        BY <2>2, <3>3, AppendToSeq
      <3>6. SumCost(u) = SumCost(t) + Cost[a]
        BY <2>2, <3>3, CostsOfAppend
      <3> HIDE DEF u, goals
      <3>7. \A j \in 1..Len(u) : j \in 1..Len(t) \/ j = Len(t) + 1
        BY <3>3, <3>5
      <3>8. \A j \in 1..Len(u) : Helps(u[j], goals[j])
        <4>1. \A j \in 1..Len(t) : Helps(u[j], goals[j])
          BY <3>2, <3>3, <3>4, <3>5 DEF Found
        <4> QED
          BY <2>9, <3>4, <3>5, <3>7, <4>1
      <3>9. Found(w, u, goals, x)
        BY <3>4, <3>5, <3>8 DEF Found
      <3>10. Within(u, s, i + 1)
        <4>1. \A j \in 1..Len(u) : \E m \in 1..(i + 1) : u[j] = s[m]
          <5>1. \A j \in 1..Len(t) : \E m \in 1..(i + 1) : u[j] = s[m]
            BY <2>6, <3>2, <3>5 DEF Within
          <5> QED
            BY <3>5, <3>7, <5>1
        <4>2. Len(u) <= i + 1 /\ SumCost(u) <= c[i + 1]
          BY <2>5, <3>2, <3>3, <3>5, <3>6 DEF Within, c
        <4> QED
          BY <4>1, <4>2 DEF Within, c
      <3> QED
        BY <3>9, <3>10
    <2> QED
      BY <2>7, <2>8, <2>9
  <1>8. \A i \in Nat : i \in T => i + 1 \in T
    <2> SUFFICES ASSUME NEW i \in Nat, i \in T PROVE i + 1 \in T
      OBVIOUS
    <2> HIDE DEF T, Some, Same
    <2>1. i + 1 <= n =>
              Same(i + 1) /\ \A x \in State : SatisfiesGoal(v[i + 1], x) => Some(x, i + 1)
      BY <1>6, <1>7
    <2> QED
      BY <2>1 DEF T
  <1> HIDE DEF T
  <1>9. n \in T
    BY <1>1, <1>5, <1>8, Upward
  <1> QED
    BY <1>1, <1>9 DEF T, v

\* What is left of the goal on a way is the goal regressed.
LEMMA WayRegresses ==
    ASSUME NEW w, NEW s, NEW left, Way(w, s, left)
    PROVE  \A i \in 0..Len(s) : Regressed(left[Len(s)], s)[Len(s) - i] = left[i]
  <1> DEFINE n == Len(s)
             r == Regressed(left[n], s)
  <1>1. s \in Seq(Action) /\ n \in Nat /\ left \in [0..n -> State] /\ left[n] \in State
    BY LenProperties DEF Way
  <1>2. r[0] = left[n] /\ \A i \in 1..n : r[i] = Regress(s[n + 1 - i], r[i - 1])
    BY <1>1, RegressedComputed
  <1> HIDE DEF r
  <1> DEFINE T == {j \in Nat : j <= n => r[j] = left[n - j]}
  <1>3. 0 \in T
    BY <1>1, <1>2
  <1>4. ASSUME NEW j \in Nat, j \in T PROVE j + 1 \in T
    <2> SUFFICES ASSUME j + 1 <= n PROVE r[j + 1] = left[n - (j + 1)]
      OBVIOUS
    <2>1. /\ j + 1 \in 1..n /\ (j + 1) - 1 = j /\ n + 1 - (j + 1) = n - j
          /\ n - j \in 1..n /\ (n - j) - 1 = n - (j + 1) /\ r[j] = left[n - j]
      BY <1>1, <1>4
    <2>2. r[j + 1] = Regress(s[n - j], r[j])
      BY <1>2, <2>1
    <2>3. left[(n - j) - 1] = Regress(s[n - j], left[n - j])
      BY <2>1 DEF Way
    <2> QED
      BY <2>1, <2>2, <2>3
  <1> HIDE DEF T
  <1>5. Nat \subseteq T
    BY <1>3, <1>4, Upward
  <1>6. \A i \in 0..n : n - i \in T /\ n - i <= n /\ n - (n - i) = i
    BY <1>1, <1>5
  <1> QED
    BY <1>6 DEF T, r

-----------------------------------------------------------------------------
(* Estimates *)

\* A position is a vector.
LEMMA PositionTyped ==
    ASSUME NEW w \in State, NEW k \in Key
    PROVE  Position(w, k) \in Seq(Int)
  BY CoordinatesAssumption, EmptySeq DEF Position

\* The dimensions two vectors share are finitely many.
LEMMA DimensionsTyped ==
    ASSUME NEW p \in Seq(Int), NEW q \in Seq(Int)
    PROVE  /\ IsFiniteSet(Dimensions(p, q))
           /\ \A i \in Dimensions(p, q) : q[i] - p[i] \in Int
  <1>1. DOMAIN p = 1..Len(p) /\ DOMAIN q = 1..Len(q) /\ Len(p) \in Nat
    BY LenProperties
  <1>2. IsFiniteSet(DOMAIN p)
    BY <1>1, FS_Interval
  <1>3. Dimensions(p, q) \in SUBSET (DOMAIN p)
    BY DEF Dimensions
  <1>4. IsFiniteSet(Dimensions(p, q))
    BY <1>2, <1>3, FS_Subset
  <1>5. \A i \in Dimensions(p, q) : p[i] \in Int /\ q[i] \in Int
    BY <1>1, ElementOfSeq DEF Dimensions
  <1> QED
    BY <1>4, <1>5

\* The distances are natural numbers, and no more than any that is large enough.
LEMMA DistancesTyped ==
    ASSUME NEW p \in Seq(Int), NEW q \in Seq(Int)
    PROVE  /\ SumFunction(Squares(p, q)) \in Nat /\ SumFunction(Steps(p, q)) \in Nat
           /\ Euclidean(p, q) \in Nat /\ Manhattan(p, q) \in Nat
           /\ \A n \in Nat : SumFunction(Squares(p, q)) <= Square(n * Grain) => Euclidean(p, q) <= n
           /\ \A n \in Nat : SumFunction(Steps(p, q)) <= n * Grain => Manhattan(p, q) <= n
  <1> DEFINE D == Dimensions(p, q)
             squares == SumFunction(Squares(p, q))
             steps == SumFunction(Steps(p, q))
  <1>1. IsFiniteSet(D) /\ \A i \in D : q[i] - p[i] \in Int
    BY DimensionsTyped
  <1>2. squares \in Nat
    <2>1. \A x \in Int : Square(x) \in Nat
      BY DEF Square
    <2>2. Squares(p, q) \in [D -> Nat]
      BY <1>1, <2>1 DEF Squares
    <2> QED
      BY <1>1, <2>2, SumIsNat
  <1>3. steps \in Nat
    <2>1. \A x \in Int : Magnitude(x) \in Nat
      BY DEF Magnitude
    <2>2. Steps(p, q) \in [D -> Nat]
      BY <1>1, <2>1 DEF Steps
    <2> QED
      BY <1>1, <2>2, SumIsNat
  <1> HIDE DEF squares, steps
  <1>4. steps \div Grain \in Nat
    BY <1>3, GrainAssumption
  <1> DEFINE Enough(n) == Square(n * Grain) >= squares
             T == {n \in Nat : Enough(n)}
  <1>5. squares \in T
    <2>1. squares * Grain \in Nat /\ squares * Grain >= squares
      BY <1>2, GrainAssumption
    <2>2. \A x \in Nat : Square(x) >= x
      BY DEF Square
    <2>3. Square(squares * Grain) >= squares * Grain /\ Square(squares * Grain) \in Nat
      BY <2>1, <2>2 DEF Square
    <2> QED
      BY <1>2, <2>1, <2>3
  <1>6. PICK n \in T : \A m \in T : n <= m
    <2> HIDE DEF T
    <2>1. T \subseteq Nat
      BY DEF T
    <2> QED
      BY <1>5, <2>1, LeastNat
  <1>7. n \in 0..squares /\ Enough(n)
    BY <1>2, <1>5, <1>6
  <1>8. \A m \in 0..(n - 1) : Square(m * Grain) < squares
    <2> SUFFICES ASSUME NEW m \in 0..(n - 1) PROVE Square(m * Grain) < squares
      OBVIOUS
    <2>1. m \in Nat /\ ~(n <= m)
      OBVIOUS
    <2>2. ~Enough(m)
      BY <1>6, <2>1
    <2>3. Square(m * Grain) \in Int
      <3>1. m * Grain \in Int
        BY <2>1, GrainAssumption
      <3> QED
        BY <3>1 DEF Square
    <2> QED
      BY <1>2, <2>2, <2>3
  <1> DEFINE Root(x) == /\ Square(x * Grain) >= squares
                        /\ \A m \in 0..(x - 1) : Square(m * Grain) < squares
  <1>9. \E x \in 0..squares : Root(x)
    BY <1>7, <1>8
  <1> DEFINE root == CHOOSE x \in 0..squares : Root(x)
  <1>10. root \in 0..squares /\ Root(root)
    <2> HIDE DEF Root
    <2> QED
      BY <1>9
  <1>11. Euclidean(p, q) = root
    BY DEF Euclidean, squares
  <1>12. Manhattan(p, q) = steps \div Grain
    BY DEF Manhattan, steps
  <1> HIDE DEF root
  <1>13. ASSUME NEW k \in Nat, squares <= Square(k * Grain) PROVE root <= k
    <2> SUFFICES ASSUME k < root PROVE FALSE
      BY <1>2, <1>10
    <2>1. k \in 0..(root - 1)
      BY <1>2, <1>10
    <2>2. Square(k * Grain) < squares
      BY <1>10, <2>1
    <2>3. Square(k * Grain) \in Int
      <3>1. k * Grain \in Int
        BY GrainAssumption
      <3> QED
        BY <3>1 DEF Square
    <2> QED
      BY <1>2, <1>13, <2>2, <2>3
  <1>14. ASSUME NEW k \in Nat, steps <= k * Grain PROVE steps \div Grain <= k
    BY <1>3, <1>14, GrainAssumption
  <1>15. root \in Nat
    BY <1>2, <1>10
  <1> HIDE DEF Root
  <1> QED
    BY <1>2, <1>3, <1>4, <1>11, <1>12, <1>13, <1>14, <1>15 DEF squares, steps

\* Every heuristic of the library estimates a natural number.
LEMMA EstimateIsNat ==
    ASSUME NEW h \in Heuristic, NEW w \in State, NEW g \in State
    PROVE  Estimate(h, w, g) \in Nat
  <1>1. ASSUME NEW x \in Simple PROVE SimpleEstimate(x, w, g) \in Nat
    <2>1. CASE x.kind = "zero"
      BY <2>1 DEF SimpleEstimate
    <2>2. CASE x.kind = "goal_count"
      <3>1. {k \in Keys(g) : w[k] # g[k]} \in SUBSET Key
        BY DEF Keys
      <3>2. Unsatisfied(w, g) \in Nat
        BY <3>1, FiniteKeyAssumption, FS_Subset, FS_CardinalityType DEF Unsatisfied
      <3> QED
        BY <2>2, <3>2 DEF SimpleEstimate
    <2>3. CASE x \in [kind : {"euclidean", "manhattan"}, key : Key]
      <3>1. Position(w, x.key) \in Seq(Int) /\ Position(g, x.key) \in Seq(Int)
        BY <2>3, PositionTyped
      <3>2. /\ Euclidean(Position(w, x.key), Position(g, x.key)) \in Nat
            /\ Manhattan(Position(w, x.key), Position(g, x.key)) \in Nat
        BY <3>1, DistancesTyped
      <3>3. x.kind = "euclidean" \/ x.kind = "manhattan"
        BY <2>3
      <3> QED
        BY <3>2, <3>3 DEF SimpleEstimate
    <2>4. \/ x.kind \in {"zero", "goal_count"}
          \/ x \in [kind : {"euclidean", "manhattan"}, key : Key]
      BY DEF Simple
    <2> QED
      BY <2>1, <2>2, <2>3, <2>4
  <1>2. CASE h \in Simple
    <2>1. h.kind # "composite"
      BY <1>2 DEF Simple
    <2> QED
      BY <1>1, <1>2, <2>1 DEF Estimate
  <1>3. CASE h \in Composite
    <2> DEFINE parts == h.parts
               D == DOMAIN parts
               f == [i \in D |-> parts[i].weight * SimpleEstimate(parts[i].of, w, g)]
    <2>1. h.kind = "composite" /\ parts \in Seq([of : Simple, weight : Nat])
      BY <1>3 DEF Composite
    <2>2. D = 1..Len(parts) /\ Len(parts) \in Nat
      BY <2>1, LenProperties
    <2>3. IsFiniteSet(D)
      BY <2>2, FS_Interval
    <2>4. f \in [D -> Nat]
      <3>1. ASSUME NEW i \in D PROVE parts[i].weight * SimpleEstimate(parts[i].of, w, g) \in Nat
        <4>1. parts[i] \in [of : Simple, weight : Nat]
          BY <2>1, <2>2, ElementOfSeq
        <4>2. parts[i].of \in Simple /\ parts[i].weight \in Nat
          BY <4>1
        <4>3. SimpleEstimate(parts[i].of, w, g) \in Nat
          BY <1>1, <4>2
        <4> QED
          BY <4>2, <4>3
      <3> QED
        BY <3>1
    <2>5. SumFunction(f) \in Nat
      <3> HIDE DEF f, D
      <3> QED
        BY <2>3, <2>4, SumIsNat
    <2>6. Estimate(h, w, g) = SumFunction(f) \div WeightGrain
      BY <2>1 DEF Estimate, Weighted
    <2> HIDE DEF f
    <2> QED
      BY <2>5, <2>6, GrainAssumption
  <1> QED
    BY <1>2, <1>3 DEF Heuristic

-----------------------------------------------------------------------------
(* What an action takes off an estimate *)

\* A way on to a point of as many dimensions lengthens a distance by no more than itself.
LEMMA DistanceOnwards ==
    ASSUME NEW p \in Seq(Int), NEW q \in Seq(Int), NEW r \in Seq(Int), DOMAIN q = DOMAIN r,
           NEW A \in Nat, NEW B \in Nat
    PROVE  /\ (SumFunction(Squares(p, q)) <= A * A /\ SumFunction(Squares(q, r)) <= B * B)
                  => SumFunction(Squares(p, r)) <= (A + B) * (A + B)
           /\ (SumFunction(Steps(p, q)) <= A /\ SumFunction(Steps(q, r)) <= B)
                  => SumFunction(Steps(p, r)) <= A + B
  <1> DEFINE D == Dimensions(p, q)
             E == Dimensions(q, r)
             x == [i \in D |-> q[i] - p[i]]
             y == [i \in D |-> r[i] - q[i]]
  <1>1. D = Dimensions(p, r) /\ D \in SUBSET E
    BY DEF Dimensions
  <1>2. /\ IsFiniteSet(D) /\ IsFiniteSet(E)
        /\ \A i \in D : q[i] - p[i] \in Int /\ r[i] - p[i] \in Int
        /\ \A i \in E : r[i] - q[i] \in Int
    BY <1>1, DimensionsTyped
  <1>3. \A i \in D : p[i] \in Int /\ q[i] \in Int /\ r[i] \in Int
    <2>1. DOMAIN p = 1..Len(p) /\ DOMAIN q = 1..Len(q) /\ DOMAIN r = 1..Len(r)
      BY LenProperties
    <2> QED
      BY <2>1, ElementOfSeq DEF Dimensions
  <1>4. x \in [D -> Int] /\ y \in [D -> Int]
    BY <1>1, <1>2
  <1>5. \A i \in D : x[i] = q[i] - p[i] /\ y[i] = r[i] - q[i] /\ x[i] + y[i] = r[i] - p[i]
    BY <1>3
  <1>6. ASSUME SumFunction(Squares(p, q)) <= A * A, SumFunction(Squares(q, r)) <= B * B
        PROVE  SumFunction(Squares(p, r)) <= (A + B) * (A + B)
    <2>1. Squares(p, q) = [i \in D |-> x[i] * x[i]]
      BY <1>5 DEF Squares, Square
    <2>2. Squares(p, r) = [i \in D |-> (x[i] + y[i]) * (x[i] + y[i])]
      BY <1>1, <1>5 DEF Squares, Square
    <2> DEFINE yy == [i \in D |-> y[i] * y[i]]
    <2>3. SumFunction(yy) <= B * B
      <3>1. Squares(q, r) \in [E -> Nat]
        BY <1>2, ProductTyped DEF Squares, Square
      <3>2. yy \in [D -> Nat] /\ \A i \in D : yy[i] = Squares(q, r)[i]
        BY <1>1, <1>4, <1>5, ProductTyped DEF Squares, Square
      <3>3. SumFunction(yy) <= SumFunction(Squares(q, r))
        <4> HIDE DEF yy, D, E
        <4> QED
          BY <1>1, <1>2, <3>1, <3>2, SumOfPart
      <3>4. SumFunction(yy) \in Nat /\ SumFunction(Squares(q, r)) \in Nat /\ B * B \in Nat
        <4> HIDE DEF yy, D, E
        <4> QED
          BY <1>2, <3>1, <3>2, SumIsNat, ProductTyped
      <3> QED
        BY <1>6, <3>3, <3>4
    <2>4. SumFunction([i \in D |-> (x[i] + y[i]) * (x[i] + y[i])]) <= (A + B) * (A + B)
      <3>1. SumFunction([i \in D |-> x[i] * x[i]]) <= A * A
        BY <1>6, <2>1
      <3>2. SumFunction([i \in D |-> y[i] * y[i]]) <= B * B
        BY <2>3
      <3> HIDE DEF D, x, y
      <3> QED
        BY <1>2, <1>4, <3>1, <3>2, SquaresOfSum
    <2> QED
      BY <2>2, <2>4
  <1>7. ASSUME SumFunction(Steps(p, q)) <= A, SumFunction(Steps(q, r)) <= B
        PROVE  SumFunction(Steps(p, r)) <= A + B
    <2> DEFINE xs == Steps(p, q)
               ys == [i \in D |-> Magnitude(y[i])]
               both == [i \in D |-> xs[i] + ys[i]]
    <2>1. \A n \in Int : Magnitude(n) \in Nat
      BY DEF Magnitude
    <2>2. xs \in [D -> Nat] /\ ys \in [D -> Nat] /\ xs \in [D -> Int] /\ ys \in [D -> Int]
      <3>1. \A i \in D : Magnitude(q[i] - p[i]) \in Nat
        BY <1>2, <2>1
      <3>2. xs = [i \in D |-> Magnitude(q[i] - p[i])]
        BY DEF Steps
      <3>3. xs \in [D -> Nat]
        <4> HIDE DEF xs, D
        <4> QED
          BY <3>1, <3>2
      <3>4. \A i \in D : Magnitude(y[i]) \in Nat
        BY <1>4, <2>1
      <3>5. ys \in [D -> Nat]
        <4> HIDE DEF D
        <4> QED
          BY <3>4
      <3> HIDE DEF xs, ys, D
      <3> QED
        BY <3>3, <3>5
    <2>3. both \in [D -> Int] /\ (\A i \in D : both[i] = xs[i] + ys[i])
      <3>1. \A i \in D : xs[i] \in Int /\ ys[i] \in Int
        BY <2>2
      <3> HIDE DEF xs, ys, D
      <3> QED
        BY <3>1
    <2>4. Steps(p, r) \in [D -> Int] /\ \A i \in D : Steps(p, r)[i] <= both[i]
      <3>1. \A m, n \in Int : Magnitude(m + n) <= Magnitude(m) + Magnitude(n)
        BY DEF Magnitude
      <3>2. \A i \in D : xs[i] = Magnitude(x[i]) /\ Steps(p, r)[i] = Magnitude(x[i] + y[i])
        BY <1>1, <1>5 DEF Steps
      <3>3. Steps(p, r) \in [D -> Int]
        BY <1>1, <1>2, <2>1 DEF Steps
      <3>4. \A i \in D : both[i] = Magnitude(x[i]) + Magnitude(y[i])
        BY <3>2
      <3>5. \A i \in D : x[i] \in Int /\ y[i] \in Int
        BY <1>4
      <3> HIDE DEF x, y, xs, ys, both, D
      <3> QED
        BY <3>1, <3>2, <3>3, <3>4, <3>5
    <2>5. SumFunction(ys) <= SumFunction(Steps(q, r))
      <3>1. Steps(q, r) \in [E -> Nat]
        BY <1>2, <2>1 DEF Steps
      <3>2. \A i \in D : ys[i] = Steps(q, r)[i]
        BY <1>1, <1>5 DEF Steps
      <3> HIDE DEF ys, D, E
      <3> QED
        BY <1>1, <1>2, <2>2, <3>1, <3>2, SumOfPart
    <2>6. SumFunction(Steps(p, r)) <= SumFunction(both)
      <3> HIDE DEF both, D, xs, ys
      <3> QED
        BY <1>2, <2>3, <2>4, SumMonotone
    <2>7. SumFunction(both) = SumFunction(xs) + SumFunction(ys)
      <3>1. IsFiniteSet(D) /\ xs \in [D -> Int] /\ ys \in [D -> Int] /\ both \in [D -> Int]
        BY <1>2, <2>2, <2>3
      <3>2. \A i \in D : both[i] = xs[i] + ys[i]
        BY <2>3
      <3> HIDE DEF both, D, xs, ys
      <3>3. \A f \in [D -> Int], g \in [D -> Int], h \in [D -> Int] :
               (\A i \in D : h[i] = f[i] + g[i]) => SumFunction(h) = SumFunction(f) + SumFunction(g)
        BY <3>1, SumAdded
      <3> QED
        BY <3>1, <3>2, <3>3
    <2>8. /\ SumFunction(xs) \in Nat /\ SumFunction(ys) \in Nat
          /\ SumFunction(Steps(q, r)) \in Nat /\ SumFunction(Steps(p, r)) \in Nat
          /\ SumFunction(both) \in Int
      <3>1. SumFunction(Steps(q, r)) \in Nat /\ SumFunction(Steps(p, r)) \in Nat
        BY DistancesTyped
      <3>2. SumFunction(both) \in Int
        <4> HIDE DEF both, D, xs, ys
        <4> QED
          BY <1>2, <2>3, SumIsInt
      <3> HIDE DEF both, D, xs, ys
      <3> QED
        BY <1>2, <2>2, <3>1, <3>2, SumIsNat
    <2>9. SumFunction(xs) <= A
      BY <1>7
    <2> HIDE DEF both, xs, ys
    <2> QED
      BY <1>7, <2>5, <2>6, <2>7, <2>8, <2>9
  <1> QED
    BY <1>6, <1>7

\* The cost c covers what h estimates of the way from w to g, before rounding.
Covers(h, w, g, c) ==
    CASE h.kind = "zero"       -> TRUE
      [] h.kind = "goal_count" -> Unsatisfied(w, g) <= c
      [] h.kind = "euclidean"  ->
            SumFunction(Squares(Position(w, h.key), Position(g, h.key))) <= (c * Grain) * (c * Grain)
      [] h.kind = "manhattan"  ->
            SumFunction(Steps(Position(w, h.key), Position(g, h.key))) <= c * Grain

\* A simple heuristic is one of four.
LEMMA SimpleKinds ==
    ASSUME NEW h \in Simple
    PROVE  \/ h.kind = "zero"
           \/ h.kind = "goal_count"
           \/ h.kind = "euclidean" /\ h.key \in Key
           \/ h.kind = "manhattan" /\ h.key \in Key
  BY DEF Simple

\* What a cost covers is estimated no higher.
LEMMA CoveredEstimate ==
    ASSUME NEW h \in Simple, NEW w \in State, NEW g \in State, NEW c \in Nat,
           Covers(h, w, g, c)
    PROVE  SimpleEstimate(h, w, g) <= c
  <1>1. CASE h.kind = "zero"
    BY <1>1 DEF SimpleEstimate
  <1>2. CASE h.kind = "goal_count"
    BY <1>2 DEF SimpleEstimate, Covers
  <1>3. CASE h.kind = "euclidean" /\ h.key \in Key
    <2> DEFINE p == Position(w, h.key)
               q == Position(g, h.key)
    <2>1. p \in Seq(Int) /\ q \in Seq(Int)
      BY <1>3, PositionTyped
    <2>2. SumFunction(Squares(p, q)) <= Square(c * Grain)
      BY <1>3 DEF Covers, Square
    <2>3. SimpleEstimate(h, w, g) = Euclidean(p, q)
      BY <1>3 DEF SimpleEstimate
    <2> HIDE DEF p, q
    <2> QED
      BY <2>1, <2>2, <2>3, DistancesTyped
  <1>4. CASE h.kind = "manhattan" /\ h.key \in Key
    <2> DEFINE p == Position(w, h.key)
               q == Position(g, h.key)
    <2>1. p \in Seq(Int) /\ q \in Seq(Int)
      BY <1>4, PositionTyped
    <2>2. SumFunction(Steps(p, q)) <= c * Grain
      BY <1>4 DEF Covers
    <2>3. SimpleEstimate(h, w, g) = Manhattan(p, q)
      BY <1>4 DEF SimpleEstimate
    <2> HIDE DEF p, q
    <2> QED
      BY <2>1, <2>2, <2>3, DistancesTyped
  <1> QED
    BY <1>1, <1>2, <1>3, <1>4, SimpleKinds

\* The distances from a point to itself, or to none, are nothing.
LEMMA NoDistance ==
    ASSUME NEW p \in Seq(Int), NEW q \in Seq(Int), q = p \/ q = <<>>
    PROVE  SumFunction(Squares(p, q)) = 0 /\ SumFunction(Steps(p, q)) = 0
  <1> DEFINE D == Dimensions(p, q)
  <1>1. IsFiniteSet(D)
    BY DimensionsTyped
  <1>2. \A i \in D : q[i] - p[i] = 0
    <2>1. DOMAIN p = 1..Len(p)
      BY LenProperties
    <2>2. CASE q = p
      <3>1. \A i \in D : p[i] \in Int
        BY <2>1, ElementOfSeq DEF Dimensions
      <3> QED
        BY <2>2, <3>1
    <2>3. CASE q = <<>>
      <3>1. D = {}
        BY <2>3 DEF Dimensions
      <3> QED
        BY <3>1
    <2> QED
      BY <2>2, <2>3
  <1>3. Squares(p, q) \in [D -> Int] /\ \A i \in D : Squares(p, q)[i] = 0
    BY <1>2 DEF Squares, Square
  <1>4. Steps(p, q) \in [D -> Int] /\ \A i \in D : Steps(p, q)[i] = 0
    BY <1>2 DEF Steps, Magnitude
  <1> HIDE DEF D
  <1> QED
    BY <1>1, <1>3, <1>4, SumIsInt

\* At a key that it does not have a goal has no position.
LEMMA NoPosition ==
    ASSUME NEW g, NEW k, g[k] = Absent
    PROVE  Position(g, k) = <<>>
  BY DEF Position

\* A position is a matter of one key.
LEMMA SamePosition ==
    ASSUME NEW g, NEW v, NEW k, g[k] = v[k]
    PROVE  Position(g, k) = Position(v, k)
  BY DEF Position

\* A world that satisfies a goal is at no distance from it.
LEMMA NothingToCover ==
    ASSUME NEW h \in Simple, NEW w \in State, NEW g \in State, SatisfiesGoal(w, g)
    PROVE  Covers(h, w, g, 0)
  <1>1. CASE h.kind = "zero"
    BY <1>1 DEF Covers
  <1>2. CASE h.kind = "goal_count"
    <2>1. {k \in Keys(g) : w[k] # g[k]} = {}
      BY DEF SatisfiesGoal
    <2>2. Unsatisfied(w, g) = 0
      BY <2>1, FS_EmptySet DEF Unsatisfied
    <2> QED
      BY <1>2, <2>2 DEF Covers
  <1>3. ASSUME h.key \in Key
        PROVE  /\ SumFunction(Squares(Position(w, h.key), Position(g, h.key))) = 0
               /\ SumFunction(Steps(Position(w, h.key), Position(g, h.key))) = 0
    <2>1. Position(w, h.key) \in Seq(Int) /\ Position(g, h.key) \in Seq(Int)
      BY <1>3, PositionTyped
    <2>2. g[h.key] = Absent \/ w[h.key] = g[h.key]
      BY <1>3 DEF SatisfiesGoal, Keys
    <2>3. Position(g, h.key) = Position(w, h.key) \/ Position(g, h.key) = <<>>
      BY <2>2, NoPosition, SamePosition
    <2> QED
      BY <2>1, <2>3, NoDistance
  <1>4. 0 * Grain = 0 /\ 0 * 0 = 0
    BY GrainAssumption
  <1>5. CASE h.kind = "euclidean" /\ h.key \in Key
    BY <1>3, <1>4, <1>5 DEF Covers
  <1>6. CASE h.kind = "manhattan" /\ h.key \in Key
    BY <1>3, <1>4, <1>6 DEF Covers
  <1> QED
    BY <1>1, <1>2, <1>5, <1>6, SimpleKinds

\* A goal that holds after an action, when its preconditions held before, held before
\* as far as it is regressed, and agrees with what it is regressed to where the action
\* does nothing.
LEMMA HeldBefore ==
    ASSUME NEW a \in Action, NEW g \in State, NEW v \in State,
           CheckPreconditions(Pre[a], v), SatisfiesGoal(ApplyEffects(Eff[a], v), g)
    PROVE  /\ SatisfiesGoal(v, Regress(a, g))
           /\ \A k \in Keys(g) : /\ Eff[a][k] = Absent => Regress(a, g)[k] = g[k]
                                 /\ Eff[a][k] # Absent => g[k] = Eff[a][k]
           /\ \A k \in Equalities(a) : Regress(a, g)[k] = Pre[a][k].value
  <1>1. \A k \in Equalities(a) : k \in Key /\ Regress(a, g)[k] = Pre[a][k].value
                                 /\ v[k] = Pre[a][k].value
    BY DEF Equalities, Keys, Regress, CheckPreconditions, SatisfiesConditions, Evaluate, Compare
  <1>2. \A k \in Key : k \notin Equalities(a) =>
            Regress(a, g)[k] = IF Eff[a][k] # Absent THEN Absent ELSE g[k]
    BY DEF Regress
  <1>3. \A k \in Keys(g) : k \in Key /\ g[k] = IF Eff[a][k] = Absent THEN v[k] ELSE Eff[a][k]
    BY DEF SatisfiesGoal, ApplyEffects, Merge, Keys
  <1>4. ASSUME NEW k \in Keys(g), Eff[a][k] = Absent PROVE Regress(a, g)[k] = g[k]
    BY <1>1, <1>2, <1>3, <1>4
  <1>5. ASSUME NEW k \in Keys(Regress(a, g)) PROVE v[k] = Regress(a, g)[k]
    <2>1. k \in Key /\ Regress(a, g)[k] # Absent
      BY DEF Keys
    <2>2. CASE k \in Equalities(a)
      BY <1>1, <2>2
    <2>3. CASE k \notin Equalities(a)
      <3>1. Eff[a][k] = Absent /\ Regress(a, g)[k] = g[k] /\ k \in Keys(g)
        BY <1>2, <2>1, <2>3 DEF Keys
      <3> QED
        BY <1>3, <3>1
    <2> QED
      BY <2>2, <2>3
  <1> QED
    BY <1>1, <1>3, <1>4, <1>5 DEF SatisfiesGoal

\* An action that is paid for leaves covered what was covered before.
LEMMA StaysCovered ==
    ASSUME NEW h \in Simple, NEW a \in Action, PaidFor(h, a), NEW w \in State,
           NEW g \in State, NEW v \in State, NEW c \in Nat,
           CheckPreconditions(Pre[a], v), SatisfiesGoal(ApplyEffects(Eff[a], v), g),
           Covers(h, w, Regress(a, g), c)
    PROVE  Covers(h, w, g, c + Cost[a])
  <1> DEFINE b == Regress(a, g)
             n == Cost[a]
  <1>1. b \in State /\ n \in Nat /\ Eff[a] \in State
    BY RegressTyped, ActionTyped
  <1>2. /\ \A k \in Keys(g) : Eff[a][k] = Absent => b[k] = g[k]
        /\ \A k \in Keys(g) : Eff[a][k] # Absent => g[k] = Eff[a][k]
        /\ \A k \in Equalities(a) : b[k] = Pre[a][k].value
    BY HeldBefore
  <1>3. CASE h.kind = "zero"
    BY <1>3 DEF Covers
  <1>4. CASE h.kind = "goal_count"
    <2> DEFINE before == {k \in Keys(b) : w[k] # b[k]}
               after == {k \in Keys(g) : w[k] # g[k]}
               done == Keys(Eff[a])
    <2>1. Cardinality(before) <= c
      BY <1>4 DEF Covers, Unsatisfied
    <2>2. n >= Cardinality(done)
      BY <1>4 DEF PaidFor
    <2>3. after \in SUBSET (before \cup done)
      BY <1>2 DEF Keys
    <2>4. IsFiniteSet(before) /\ IsFiniteSet(done)
      <3>1. before \in SUBSET Key /\ done \in SUBSET Key
        BY DEF Keys
      <3> QED
        BY <3>1, FiniteKeyAssumption, FS_Subset
    <2> HIDE DEF before, done
    <2>5. /\ IsFiniteSet(before \cup done)
          /\ Cardinality(before \cup done) <= Cardinality(before) + Cardinality(done)
      <3>1. IsFiniteSet(before \cap done) /\ Cardinality(before \cap done) \in Nat
        BY <2>4, FS_Intersection, FS_CardinalityType
      <3>2. Cardinality(before) \in Nat /\ Cardinality(done) \in Nat
        BY <2>4, FS_CardinalityType
      <3>3. /\ IsFiniteSet(before \cup done)
            /\ Cardinality(before \cup done)
                   = Cardinality(before) + Cardinality(done) - Cardinality(before \cap done)
        BY <2>4, FS_Union
      <3> QED
        BY <3>1, <3>2, <3>3
    <2>6. Cardinality(after) <= Cardinality(before \cup done)
      <3> HIDE DEF after
      <3> QED
        BY <2>3, <2>5, FS_Subset
    <2>7. /\ Cardinality(after) \in Nat /\ Cardinality(before) \in Nat
          /\ Cardinality(done) \in Nat /\ Cardinality(before \cup done) \in Nat
      <3>1. IsFiniteSet(after)
        <4> HIDE DEF after
        <4> QED
          BY <2>3, <2>5, FS_Subset
      <3> QED
        BY <2>4, <2>5, <3>1, FS_CardinalityType
    <2>8. Cardinality(after) <= c + n
      <3> HIDE DEF after
      <3> QED
        BY <1>1, <2>1, <2>2, <2>5, <2>6, <2>7
    <2> QED
      BY <1>4, <2>8 DEF Covers, Unsatisfied
  <1>5. CASE (h.kind = "euclidean" \/ h.kind = "manhattan") /\ h.key \in Key
    <2> DEFINE k == h.key
               p == Position(w, k)
               q == Position(b, k)
               r == Position(g, k)
               A == c * Grain
               B == n * Grain
    <2>1. p \in Seq(Int) /\ q \in Seq(Int) /\ r \in Seq(Int)
      BY <1>1, <1>5, PositionTyped
    <2>2. A \in Nat /\ B \in Nat /\ (c + n) * Grain = A + B
      BY <1>1, GrainAssumption
    <2>3. h.kind = "euclidean" => SumFunction(Squares(p, q)) <= A * A
      BY <1>5 DEF Covers
    <2>4. h.kind = "manhattan" => SumFunction(Steps(p, q)) <= A
      BY <1>5 DEF Covers
    <2>5. /\ h.kind = "euclidean" => SumFunction(Squares(p, r)) <= (A + B) * (A + B)
          /\ h.kind = "manhattan" => SumFunction(Steps(p, r)) <= A + B
      <3>1. CASE g[k] = Absent
        <4>1. SumFunction(Squares(p, r)) = 0 /\ SumFunction(Steps(p, r)) = 0
          BY <2>1, <3>1, NoPosition, NoDistance
        <4>2. 0 <= (A + B) * (A + B) /\ 0 <= A + B
          <5> HIDE DEF A, B
          <5> QED
            BY <2>2, ProductTyped
        <4> QED
          BY <4>1, <4>2
      <3>2. CASE g[k] # Absent /\ Eff[a][k] = Absent
        <4>1. b[k] = g[k]
          BY <1>2, <1>5, <3>2 DEF Keys
        <4>2. q = r
          BY <4>1, SamePosition
        <4>3. A * A <= (A + B) * (A + B) /\ A <= A + B
          <5>1. (A + B) * (A + B) = A * A + (2 * (A * B) + B * B)
            BY <2>2
          <5>2. A * A \in Nat /\ A * B \in Nat /\ B * B \in Nat
            BY <2>2, ProductTyped
          <5> HIDE DEF A, B
          <5> QED
            BY <2>2, <5>1, <5>2
        <4>4. SumFunction(Squares(p, q)) \in Nat /\ SumFunction(Steps(p, q)) \in Nat
          BY <2>1, DistancesTyped
        <4>5. A * A \in Nat /\ (A + B) * (A + B) \in Nat
          BY <2>2, ProductTyped
        <4> HIDE DEF p, q, r, A, B
        <4> QED
          BY <2>2, <2>3, <2>4, <4>2, <4>3, <4>4, <4>5
      <3>3. CASE g[k] # Absent /\ Eff[a][k] # Absent
        <4> DEFINE from == Position([EmptyState EXCEPT ![h.key] = Pre[a][h.key].value], h.key)
                   to == Position(Eff[a], h.key)
        <4>1. /\ h.key \in Equalities(a) /\ DOMAIN from = DOMAIN to
              /\ IF h.kind = "euclidean"
                 THEN Square(Cost[a] * Grain) >= SumFunction(Squares(from, to))
                 ELSE Cost[a] * Grain >= SumFunction(Steps(from, to))
          BY <1>5, <3>3 DEF PaidFor
        <4>2. g[k] = Eff[a][k] /\ b[k] = Pre[a][k].value
          BY <1>2, <1>5, <3>3, <4>1 DEF Keys
        <4>3. to = r
          BY <4>2, SamePosition
        <4>4. from = q
          <5>1. [EmptyState EXCEPT ![h.key] = Pre[a][h.key].value][k] = b[k]
            BY <1>5, <4>2 DEF EmptyState
          <5> QED
            BY <5>1, SamePosition
        <4>5. DOMAIN q = DOMAIN r
          BY <4>1, <4>3, <4>4
        <4>6. h.kind = "euclidean" => SumFunction(Squares(q, r)) <= B * B
          <5>1. SumFunction(Squares(q, r)) \in Nat
            BY <2>1, DistancesTyped
          <5>2. B * B \in Nat
            BY <2>2, ProductTyped
          <5>3. h.kind = "euclidean" => B * B >= SumFunction(Squares(from, to))
            BY <4>1 DEF Square
          <5> QED
            BY <4>3, <4>4, <5>1, <5>2, <5>3
        <4>7. h.kind = "manhattan" => SumFunction(Steps(q, r)) <= B
          <5>1. SumFunction(Steps(q, r)) \in Nat
            BY <2>1, DistancesTyped
          <5>2. h.kind = "manhattan" => B >= SumFunction(Steps(from, to))
            BY <4>1
          <5> QED
            BY <2>2, <4>3, <4>4, <5>1, <5>2
        <4> HIDE DEF p, q, r, A, B
        <4> QED
          BY <2>1, <2>2, <2>3, <2>4, <4>5, <4>6, <4>7, DistanceOnwards
      <3> QED
        BY <3>1, <3>2, <3>3
    <2> QED
      BY <1>5, <2>2, <2>5 DEF Covers
  <1> QED
    BY <1>3, <1>4, <1>5, SimpleKinds

\* Along a plan that runs and reaches the goal every estimate of what is left of
\* the goal is covered by what has been paid.
LEMMA CoveredAlong ==
    ASSUME NEW s \in Seq(Action), NEW w \in State, NEW g \in State, NEW h \in Simple,
           \A i \in 1..Len(s) : PaidFor(h, s[i]),
           \A i \in 1..Len(s) : CheckPreconditions(Pre[s[i]], Worlds(w, s)[i - 1]),
           SatisfiesGoal(Worlds(w, s)[Len(s)], g)
    PROVE  \A i \in 0..Len(s) : Covers(h, w, Regressed(g, s)[Len(s) - i], Costs(s)[i])
  <1> DEFINE n == Len(s)
             world == Worlds(w, s)
             left(i) == Regressed(g, s)[n - i]
             paid == Costs(s)
  <1>1. n \in Nat /\ \A i \in 1..n : s[i] \in Action
    BY LenProperties, ElementOfSeq
  <1>2. /\ world \in [0..n -> State] /\ world[0] = w
        /\ \A i \in 1..n : world[i] = ApplyEffects(Eff[s[i]], world[i - 1])
    BY WorldsComputed
  <1>3. /\ \A i \in 0..n : left(i) \in State
        /\ left(n) = g /\ \A i \in 1..n : left(i - 1) = Regress(s[i], left(i))
    <2>1. /\ Regressed(g, s) \in [0..n -> State] /\ Regressed(g, s)[0] = g
          /\ \A j \in 1..n : Regressed(g, s)[j] = Regress(s[n + 1 - j], Regressed(g, s)[j - 1])
      BY RegressedComputed
    <2>2. \A i \in 0..n : n - i \in 0..n
      BY <1>1
    <2>3. n - n = 0
      BY <1>1
    <2>4. ASSUME NEW i \in 1..n PROVE left(i - 1) = Regress(s[i], left(i))
      <3>1. n - (i - 1) \in 1..n /\ n + 1 - (n - (i - 1)) = i /\ (n - (i - 1)) - 1 = n - i
        BY <1>1
      <3> QED
        BY <2>1, <3>1
    <2> QED
      BY <2>1, <2>2, <2>3, <2>4
  <1>4. /\ paid \in [0..n -> Nat] /\ paid[0] = 0
        /\ \A i \in 1..n : paid[i] = paid[i - 1] + Cost[s[i]]
    BY CostsComputed
  <1>5. \A i \in 1..n : PaidFor(h, s[i]) /\ CheckPreconditions(Pre[s[i]], world[i - 1])
    OBVIOUS
  <1>6. SatisfiesGoal(world[n], left(n))
    BY <1>3
  <1> HIDE DEF n, world, left, paid
  <1>7. ASSUME NEW i \in 1..n, SatisfiesGoal(world[i], left(i))
        PROVE  SatisfiesGoal(world[i - 1], left(i - 1))
    <2>1. i \in 0..n /\ i - 1 \in 0..n
      BY <1>1
    <2>2. left(i) \in State /\ world[i - 1] \in State /\ s[i] \in Action
      BY <1>1, <1>2, <1>3, <2>1
    <2>3. SatisfiesGoal(ApplyEffects(Eff[s[i]], world[i - 1]), left(i))
      BY <1>2, <1>7
    <2>4. SatisfiesGoal(world[i - 1], Regress(s[i], left(i)))
      BY <1>5, <2>2, <2>3, HeldBefore
    <2> QED
      BY <1>3, <2>4
  <1>8. \A i \in 0..n : SatisfiesGoal(world[i], left(i))
    <2> DEFINE T == {j \in Nat : j <= n => SatisfiesGoal(world[n - j], left(n - j))}
    <2>1. 0 \in T
      BY <1>1, <1>6
    <2>2. ASSUME NEW j \in Nat, j \in T PROVE j + 1 \in T
      <3> SUFFICES ASSUME j + 1 <= n
                   PROVE  SatisfiesGoal(world[n - (j + 1)], left(n - (j + 1)))
        OBVIOUS
      <3>1. n - j \in 1..n /\ (n - j) - 1 = n - (j + 1) /\ j <= n
        BY <1>1
      <3>2. SatisfiesGoal(world[n - j], left(n - j))
        BY <2>2, <3>1
      <3> QED
        BY <1>7, <3>1, <3>2
    <2> HIDE DEF T
    <2>3. Nat \subseteq T
      BY <2>1, <2>2, Upward
    <2>4. ASSUME NEW i \in 0..n PROVE SatisfiesGoal(world[i], left(i))
      <3>1. n - i \in Nat /\ n - i <= n /\ n - (n - i) = i
        BY <1>1
      <3>2. n - i \in T
        BY <2>3, <3>1
      <3> QED
        BY <3>1, <3>2 DEF T
    <2> QED
      BY <2>4
  <1> DEFINE U == {i \in Nat : i <= n => Covers(h, w, left(i), paid[i])}
  <1>9. 0 \in U
    <2>1. 0 \in 0..n
      BY <1>1
    <2>2. left(0) \in State /\ SatisfiesGoal(w, left(0))
      BY <1>2, <1>3, <1>8, <2>1
    <2> QED
      BY <1>4, <2>2, NothingToCover
  <1>10. ASSUME NEW i \in Nat, i \in U PROVE i + 1 \in U
    <2> SUFFICES ASSUME i + 1 <= n PROVE Covers(h, w, left(i + 1), paid[i + 1])
      OBVIOUS
    <2>1. i + 1 \in 1..n /\ (i + 1) - 1 = i /\ i \in 0..n /\ i + 1 \in 0..n
      BY <1>1
    <2>2. /\ s[i + 1] \in Action /\ PaidFor(h, s[i + 1])
          /\ CheckPreconditions(Pre[s[i + 1]], world[i])
      BY <1>1, <1>5, <2>1
    <2>3. left(i + 1) \in State /\ world[i] \in State /\ paid[i] \in Nat
      BY <1>2, <1>3, <1>4, <2>1
    <2>4. /\ left(i) = Regress(s[i + 1], left(i + 1))
          /\ paid[i + 1] = paid[i] + Cost[s[i + 1]]
          /\ world[i + 1] = ApplyEffects(Eff[s[i + 1]], world[i])
      BY <1>2, <1>3, <1>4, <2>1
    <2>5. SatisfiesGoal(ApplyEffects(Eff[s[i + 1]], world[i]), left(i + 1))
      BY <1>8, <2>1, <2>4
    <2>6. Covers(h, w, Regress(s[i + 1], left(i + 1)), paid[i])
      <3>1. i <= n
        BY <2>1
      <3> QED
        BY <1>10, <2>4, <3>1
    <2>7. Covers(h, w, left(i + 1), paid[i] + Cost[s[i + 1]])
      BY <2>2, <2>3, <2>5, <2>6, StaysCovered
    <2> QED
      BY <2>4, <2>7
  <1>11. ASSUME NEW i \in 0..n PROVE Covers(h, w, left(i), paid[i])
    <2>1. i \in U
      <3> HIDE DEF U
      <3>1. Nat \subseteq U
        BY <1>9, <1>10, Upward
      <3> QED
        BY <3>1
    <2> QED
      BY <1>1, <2>1
  <1> QED
    BY <1>11 DEF n, left, paid

\* A composite of parts that estimate no more than c, of weights that come to no
\* more than 1.0, estimates no more than c.
LEMMA WeightedBelow ==
    ASSUME NEW h \in Composite, NEW w \in State, NEW g \in State, NEW c \in Nat,
           \A i \in DOMAIN h.parts : SimpleEstimate(h.parts[i].of, w, g) <= c,
           SumFunction([i \in DOMAIN h.parts |-> h.parts[i].weight]) <= WeightGrain
    PROVE  Estimate(h, w, g) <= c
  <1> DEFINE parts == h.parts
             D == DOMAIN parts
             e(i) == SimpleEstimate(parts[i].of, w, g)
             f == [i \in D |-> parts[i].weight * e(i)]
             weights == [i \in D |-> parts[i].weight]
             top == [i \in D |-> c * weights[i] + 0 * weights[i]]
  <1>1. h.kind = "composite" /\ parts \in Seq([of : Simple, weight : Nat])
    BY DEF Composite
  <1>2. D = 1..Len(parts) /\ Len(parts) \in Nat
    BY <1>1, LenProperties
  <1>3. IsFiniteSet(D)
    <2>1. IsFiniteSet(1..Len(parts))
      BY <1>2, FS_Interval
    <2> QED
      BY <1>2, <2>1
  <1>4. ASSUME NEW i \in D PROVE parts[i].weight \in Nat /\ e(i) \in Nat /\ e(i) <= c
    <2>1. parts[i] \in [of : Simple, weight : Nat]
      BY <1>1, <1>2, ElementOfSeq
    <2>2. parts[i].of \in Simple /\ parts[i].weight \in Nat
      BY <2>1
    <2>3. parts[i].of \in Heuristic /\ parts[i].of.kind # "composite"
      BY <2>2 DEF Heuristic, Simple
    <2>4. Estimate(parts[i].of, w, g) = e(i)
      BY <2>3 DEF Estimate
    <2> QED
      BY <2>2, <2>3, <2>4, EstimateIsNat
  <1>5. Estimate(h, w, g) = SumFunction(f) \div WeightGrain
    BY <1>1 DEF Estimate, Weighted
  <1>6. SumFunction(weights) <= WeightGrain
    OBVIOUS
  <1>7. weights \in [D -> Nat] /\ weights \in [D -> Int]
        /\ \A i \in D : weights[i] = parts[i].weight
    BY <1>4
  <1> HIDE DEF e
  <1>8. f \in [D -> Nat] /\ f \in [D -> Int]
    <2>1. \A i \in D : parts[i].weight * e(i) \in Nat
      BY <1>4, ProductTyped
    <2> QED
      BY <2>1
  <1>9. top \in [D -> Int] /\ IsCombined(top, D, c, weights, 0, weights)
    <2>1. \A i \in D : c * weights[i] + 0 * weights[i] \in Int
      BY <1>7, ProductTyped
    <2> QED
      BY <2>1 DEF IsCombined
  <1>10. \A i \in D : f[i] <= top[i]
    <2> SUFFICES ASSUME NEW i \in D
                 PROVE  parts[i].weight * e(i) <= c * parts[i].weight + 0 * parts[i].weight
      BY <1>7
    <2>1. \A u, v \in Nat : v <= c => u * v <= c * u + 0 * u
      OBVIOUS
    <2> QED
      BY <1>4, <2>1
  <1> HIDE DEF f, top, weights, D
  <1>11. SumFunction(f) <= SumFunction(top)
    BY <1>3, <1>8, <1>9, <1>10, SumMonotone
  <1>12. SumFunction(top) = c * SumFunction(weights) + 0 * SumFunction(weights)
    BY <1>3, <1>7, <1>9, SumCombined, 0 \in Int, c \in Int
  <1>13. SumFunction(f) \in Nat /\ SumFunction(weights) \in Nat
    BY <1>3, <1>7, <1>8, SumIsNat
  <1>14. SumFunction(f) <= c * WeightGrain
    <2>1. c * SumFunction(weights) <= c * WeightGrain
      BY <1>6, <1>13, GrainAssumption
    <2>2. c * SumFunction(weights) \in Int /\ c * WeightGrain \in Int
      BY <1>13, GrainAssumption, ProductTyped
    <2>3. SumFunction(top) = c * SumFunction(weights)
      BY <1>12, <1>13, <2>2
    <2> QED
      BY <1>11, <1>13, <2>1, <2>2, <2>3
  <1>15. SumFunction(f) \div WeightGrain <= c
    <2>1. \A x, k \in Nat, y \in Nat \ {0} : x <= k * y => x \div y <= k
      OBVIOUS
    <2> QED
      BY <1>13, <1>14, <2>1, GrainAssumption
  <1> QED
    BY <1>5, <1>15
=============================================================================

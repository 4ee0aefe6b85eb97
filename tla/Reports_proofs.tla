--------------------------- MODULE Reports_proofs --------------------------
(***************************************************************************)
(* Proofs about Reports: a report has one row for each thing in its scope  *)
(* and the sum of their values, and its row, its file and its answer       *)
(* agree.                                                                  *)
(*                                                                         *)
(* Sums and folds are functions that a recursion defines.  What they are   *)
(* is proved by smallest counterexamples: among the sets of which a claim  *)
(* is false, one has no smaller one below it.                              *)
(***************************************************************************)
EXTENDS Reports, FiniteSetTheorems, TLAPS

-----------------------------------------------------------------------------
(* Sums over finite sets.                                                  *)

(* The element that a sum adds next.                                       *)
Pick(s) == CHOOSE x \in s : TRUE

(* g sums w over the subsets of S, one element after the other.            *)
SumsOver(g, w, S) ==
    g = [s \in SUBSET S |-> IF s = {} THEN 0 ELSE w[Pick(s)] + g[s \ {Pick(s)}]]

LEMMA Picked == \A s : s # {} => Pick(s) \in s
  BY DEF Pick

(* Of some subsets of a finite set there is a smallest one.                *)
LEMMA SmallestSet ==
    ASSUME NEW S, IsFiniteSet(S), NEW T \in SUBSET SUBSET S, T # {}
    PROVE  \E s \in T : \A t \in T : t \subseteq s => t = s
  <1>1. IsWellFoundedOn(StrictSubsetOrdering(S), SUBSET S)
    BY FS_StrictSubsetOrderingWellFounded, FS_FiniteSubsetsOfFinite
  <1>2. PICK s \in T : \A t \in T : <<t, s>> \notin StrictSubsetOrdering(S)
    BY <1>1, WFMin
  <1> QED
    BY <1>2 DEF StrictSubsetOrdering

LEMMA LeastNatural ==
    ASSUME NEW T \in SUBSET Nat, T # {}
    PROVE  \E n \in T : \A m \in T : n <= m
  <1> DEFINE R == {ss \in Nat \X Nat : ss[1] < ss[2]}
  <1>1. IsWellFoundedOn(R, Nat)
    BY NatLessThanWellFounded DEF OpToRel
  <1>2. PICK n \in T : \A m \in T : <<m, n>> \notin R
    <2> HIDE DEF R
    <2> QED BY <1>1, WFMin
  <1>3. ASSUME NEW m \in T PROVE n <= m
    <2>1. <<m, n>> \notin R /\ m \in Nat /\ n \in Nat
      BY <1>2
    <2> QED
      BY <2>1
  <1> QED
    BY <1>3

(* A function that sums the subsets of up to n elements gives one for the  *)
(* subsets of one more, and so there is one for all.                       *)
LEMMA SumExists ==
    ASSUME NEW S, IsFiniteSet(S), NEW w \in [S -> Nat]
    PROVE  \E g : SumsOver(g, w, S)
  <1> DEFINE Next1(g) == [s \in SUBSET S |-> IF s = {} THEN 0 ELSE w[Pick(s)] + g[s \ {Pick(s)}]]
             Upto(g, n) == \A s \in SUBSET S : Cardinality(s) <= n => g[s] = Next1(g)[s]
             Good == {n \in Nat : \E g : g = [s \in SUBSET S |-> g[s]] /\ Upto(g, n)}
  <1>1. \A s \in SUBSET S : IsFiniteSet(s) /\ Cardinality(s) \in Nat
    BY FS_Subset, FS_CardinalityType
  <1>2. 0 \in Good
    <2> DEFINE g == [s \in SUBSET S |-> 0]
    <2>1. \A s \in SUBSET S : Cardinality(s) <= 0 => s = {}
      BY <1>1, FS_EmptySet
    <2>2. Upto(g, 0)
      BY <2>1
    <2>3. g = [s \in SUBSET S |-> g[s]]
      OBVIOUS
    <2> HIDE DEF g, Upto
    <2> QED
      BY <2>2, <2>3
  <1>3. ASSUME NEW n \in Nat, n \in Good PROVE n + 1 \in Good
    <2>1. PICK g : Upto(g, n)
      BY <1>3
    <2> DEFINE h == Next1(g)
    <2>2. ASSUME NEW s \in SUBSET S, Cardinality(s) <= n + 1 PROVE h[s] = Next1(h)[s]
      <3>1. CASE s = {}
        BY <3>1
      <3>2. CASE s # {}
        <4> DEFINE r == s \ {Pick(s)}
        <4>1. Pick(s) \in s /\ r \in SUBSET S
          BY <3>2, Picked
        <4>2. Cardinality(r) = Cardinality(s) - 1
          BY <4>1, <1>1, FS_RemoveElement
        <4> HIDE DEF r
        <4>3. g[r] = h[r]
          <5>1. Cardinality(s) \in Nat /\ Cardinality(r) <= n
            BY <2>2, <4>2, <1>1
          <5> QED
            BY <2>1, <4>1, <5>1
        <4>4. h[s] = w[Pick(s)] + g[r] /\ Next1(h)[s] = w[Pick(s)] + h[r]
          BY <2>2, <3>2 DEF r
        <4> QED
          BY <4>3, <4>4
      <3> QED
        BY <3>1, <3>2
    <2>3. Upto(h, n + 1)
      BY <2>2
    <2>4. h = [s \in SUBSET S |-> h[s]]
      OBVIOUS
    <2> HIDE DEF h, Upto
    <2> QED
      BY <2>3, <2>4
  <1>4. Good = Nat
    <2> HIDE DEF Good
    <2> SUFFICES ASSUME Nat \ Good # {} PROVE FALSE
      BY DEF Good
    <2>1. PICK n \in Nat \ Good : \A m \in Nat \ Good : n <= m
      BY LeastNatural
    <2>2. n # 0 /\ n - 1 \in Nat /\ n - 1 \in Good
      BY <2>1, <1>2
    <2> QED
      BY <2>1, <2>2, <1>3
  <1>5. PICK g : g = [s \in SUBSET S |-> g[s]] /\ Upto(g, Cardinality(S))
    BY <1>1, <1>4
  <1>6. \A s \in SUBSET S : Cardinality(s) <= Cardinality(S)
    BY FS_Subset
  <1>7. g = Next1(g)
    <2>1. \A s \in SUBSET S : g[s] = Next1(g)[s]
      BY <1>5, <1>6
    <2> HIDE DEF Upto
    <2> QED
      BY <2>1, <1>5
  <1> QED
    BY <1>7 DEF SumsOver

LEMMA SumIsUnique ==
    ASSUME NEW S, IsFiniteSet(S), NEW V, NEW w, NEW v, NEW g, NEW h,
           SumsOver(g, w, S), SumsOver(h, v, V), NEW X \in SUBSET (S \cap V),
           \A x \in X : w[x] = v[x]
    PROVE  g[X] = h[X]
  <1> DEFINE Bad == {s \in SUBSET X : g[s] # h[s]}
  <1>1. IsFiniteSet(X)
    BY FS_Subset
  <1>2. SUFFICES ASSUME Bad # {} PROVE FALSE
    OBVIOUS
  <1>3. PICK s \in Bad : \A t \in Bad : t \subseteq s => t = s
    <2> HIDE DEF Bad
    <2>1. Bad \in SUBSET SUBSET X
      BY DEF Bad
    <2> QED
      BY <2>1, <1>1, <1>2, SmallestSet
  <1>4. s \in SUBSET S /\ s \in SUBSET V
    OBVIOUS
  <1>5. s # {}
    BY <1>4 DEF SumsOver
  <1>6. Pick(s) \in s
    BY <1>5, Picked
  <1>7. g[s \ {Pick(s)}] = h[s \ {Pick(s)}]
    BY <1>3, <1>6
  <1>8. g[s] = w[Pick(s)] + g[s \ {Pick(s)}] /\ h[s] = v[Pick(s)] + h[s \ {Pick(s)}]
    BY <1>4, <1>5 DEF SumsOver
  <1> QED
    BY <1>3, <1>6, <1>7, <1>8

LEMMA SumIsNatural ==
    ASSUME NEW S, IsFiniteSet(S), NEW w \in [S -> Nat], NEW g, SumsOver(g, w, S), NEW X \in SUBSET S
    PROVE  g[X] \in Nat
  <1> DEFINE Bad == {s \in SUBSET S : g[s] \notin Nat}
  <1>2. SUFFICES ASSUME Bad # {} PROVE FALSE
    OBVIOUS
  <1>3. PICK s \in Bad : \A t \in Bad : t \subseteq s => t = s
    <2> HIDE DEF Bad
    <2>1. Bad \in SUBSET SUBSET S
      BY DEF Bad
    <2> QED
      BY <2>1, <1>2, SmallestSet
  <1>5. s # {}
    BY DEF SumsOver
  <1>6. Pick(s) \in s /\ w[Pick(s)] \in Nat
    BY <1>5, Picked
  <1>7. g[s \ {Pick(s)}] \in Nat
    BY <1>3, <1>6
  <1>8. g[s] = w[Pick(s)] + g[s \ {Pick(s)}]
    BY <1>5 DEF SumsOver
  <1> QED
    BY <1>3, <1>6, <1>7, <1>8

LEMMA SumTakesAny ==
    ASSUME NEW S, IsFiniteSet(S), NEW w \in [S -> Nat], NEW g, SumsOver(g, w, S),
           NEW X \in SUBSET S, NEW x \in X
    PROVE  g[X] = w[x] + g[X \ {x}]
  <1> DEFINE Bad == {s \in SUBSET S : \E y \in s : g[s] # w[y] + g[s \ {y}]}
  <1>1. \A s \in SUBSET S : g[s] \in Nat
    BY SumIsNatural
  <1>2. SUFFICES ASSUME Bad # {} PROVE FALSE
    OBVIOUS
  <1>3. PICK s \in Bad : \A t \in Bad : t \subseteq s => t = s
    <2> HIDE DEF Bad
    <2>1. Bad \in SUBSET SUBSET S
      BY DEF Bad
    <2> QED
      BY <2>1, <1>2, SmallestSet
  <1>4. PICK y \in s : g[s] # w[y] + g[s \ {y}]
    OBVIOUS
  <1> DEFINE p == Pick(s)
  <1>5. p \in s
    BY Picked
  <1>6. g[s] = w[p] + g[s \ {p}]
    BY DEF SumsOver
  <1> HIDE DEF p
  <1>7. p # y
    BY <1>4, <1>6
  <1>8. s \ {p} \notin Bad /\ s \ {y} \notin Bad
    BY <1>3, <1>5, <1>4
  <1>9. g[s \ {p}] = w[y] + g[(s \ {p}) \ {y}] /\ g[s \ {y}] = w[p] + g[(s \ {y}) \ {p}]
    BY <1>8, <1>5, <1>7
  <1>10. (s \ {p}) \ {y} = (s \ {y}) \ {p}
    OBVIOUS
  <1>11. w[p] \in Nat /\ w[y] \in Nat /\ g[(s \ {p}) \ {y}] \in Nat
    BY <1>1, <1>5
  <1> DEFINE r == (s \ {p}) \ {y}
  <1>12. g[s] = w[p] + (w[y] + g[r]) /\ g[s \ {y}] = w[p] + g[r]
    BY <1>6, <1>9, <1>10
  <1> HIDE DEF r
  <1>13. g[r] \in Nat
    BY <1>11 DEF r
  <1> QED
    BY <1>4, <1>11, <1>12, <1>13

LEMMA SumOfUnion ==
    ASSUME NEW S, IsFiniteSet(S), NEW w \in [S -> Nat], NEW g, SumsOver(g, w, S),
           NEW X \in SUBSET S, NEW Y \in SUBSET S, X \cap Y = {}
    PROVE  g[X \cup Y] = g[X] + g[Y]
  <1> DEFINE Bad == {s \in SUBSET Y : g[X \cup s] # g[X] + g[s]}
  <1>1. \A s \in SUBSET S : g[s] \in Nat
    BY SumIsNatural
  <1>2. SUFFICES ASSUME g[X \cup Y] # g[X] + g[Y] PROVE FALSE
    OBVIOUS
  <1>3. PICK s \in Bad : \A t \in Bad : t \subseteq s => t = s
    <2> HIDE DEF Bad
    <2>1. Bad \in SUBSET SUBSET S /\ Y \in Bad
      BY <1>2 DEF Bad
    <2> QED
      BY <2>1, SmallestSet
  <1>4. s # {}
    <2>1. SUFFICES ASSUME s = {} PROVE FALSE
      OBVIOUS
    <2>2. g[{}] = 0 /\ g[X] \in Nat
      BY <1>1 DEF SumsOver
    <2>3. X \cup s = X /\ g[s] = 0
      BY <2>1, <2>2
    <2>4. g[X \cup s] # g[X] + g[s]
      BY <1>3
    <2> QED
      BY <2>2, <2>3, <2>4
  <1>5. PICK p \in s : TRUE
    BY <1>4
  <1>6. g[X \cup (s \ {p})] = g[X] + g[s \ {p}]
    BY <1>3, <1>5
  <1>7. g[s] = w[p] + g[s \ {p}]
    BY SumTakesAny
  <1>8. (X \cup s) \ {p} = X \cup (s \ {p}) /\ p \in X \cup s /\ X \cup s \in SUBSET S
    OBVIOUS
  <1>9. g[X \cup s] = w[p] + g[X \cup (s \ {p})]
    <2>1. \A Z \in SUBSET S : p \in Z => g[Z] = w[p] + g[Z \ {p}]
      BY SumTakesAny
    <2> QED
      BY <2>1, <1>8
  <1>10. w[p] \in Nat /\ g[X] \in Nat /\ g[s \ {p}] \in Nat
    BY <1>1
  <1> QED
    BY <1>6, <1>7, <1>9, <1>10
-----------------------------------------------------------------------------
(* The sum of the values that things have in one currency.                 *)

Things == Items \cup Kits

Value(w, c) == [x \in Things |-> IF w[x] = c THEN Amount[x] ELSE 0]

Total(v, S) == CHOOSE g : SumsOver(g, v, S)

(* What the things of S are worth in currency c, of values w.              *)
WorthOf(w, c, S) == Total(Value(w, c), Things)[S]

LEMMA ManyThings == IsFiniteSet(Kits) /\ IsFiniteSet(Things)
  <1>1. DOMAIN KitOrder = 1..Len(KitOrder) /\ Len(KitOrder) \in Nat
    BY ReportsAssumption
  <1>2. IsFiniteSet(DOMAIN KitOrder)
    BY <1>1, FS_Interval
  <1>3. IsFiniteSet(Kits)
    <2>1. KitOrder \in Surjection(DOMAIN KitOrder, Kits)
      BY ReportsAssumption DEF Kits, ToSet, Surjection
    <2> QED
      BY <1>2, <2>1, FS_Surjection
  <1> QED
    BY <1>3, FS_Union, ReportsAssumption DEF Things

LEMMA ValueTyped == \A w, c : Value(w, c) \in [Things -> Nat]
  BY ReportsAssumption DEF Value, Things

LEMMA TotalSums ==
    ASSUME NEW S, IsFiniteSet(S), NEW v \in [S -> Nat]
    PROVE  SumsOver(Total(v, S), v, S)
  <1>1. \E g : SumsOver(g, v, S)
    BY SumExists
  <1> QED
    BY <1>1, Zenon DEF Total

(* The sum that MapThenSumSet computes.                                    *)
LEMMA AddedIsTotal ==
    ASSUME NEW S, IsFiniteSet(S), NEW v \in [S -> Nat]
    PROVE  Added(v) = Total(v, S)[S]
  <1> DEFINE Rule(g) == [s \in SUBSET S |->
                            IF s = {} THEN 0
                            ELSE v[CHOOSE x \in s : TRUE] + g[s \ {CHOOSE x \in s : TRUE}]]
  <1>1. DOMAIN v = S
    OBVIOUS
  <1>2. Added(v) = (CHOOSE g : g = Rule(g))[S]
    BY <1>1, Zenon DEF Added, MapThenSumSet, MapThenFoldSet
  <1>3. \A g : SumsOver(g, v, S) <=> g = Rule(g)
    BY Zenon DEF SumsOver, Pick
  <1> DEFINE f == CHOOSE g : g = Rule(g)
  <1>4. SumsOver(f, v, S)
    <2> HIDE DEF Rule
    <2>1. \E g : g = Rule(g)
      BY <1>3, SumExists
    <2>2. f = Rule(f)
      BY <2>1, Zenon
    <2> HIDE DEF f
    <2> QED
      BY <1>3, <2>2
  <1>5. SumsOver(Total(v, S), v, S)
    BY TotalSums
  <1> HIDE DEF f
  <1>6. f[S] = Total(v, S)[S]
    BY <1>4, <1>5, SumIsUnique
  <1> QED
    BY <1>2, <1>6 DEF f

LEMMA SumComputed ==
    ASSUME NEW c, NEW S \in SUBSET Things
    PROVE  Sum(S, c) = WorthOf(worth, c, S)
  <1> DEFINE v == [x \in S |-> IF worth[x] = c THEN Amount[x] ELSE 0]
  <1>1. IsFiniteSet(S) /\ v \in [S -> Nat]
    BY ManyThings, FS_Subset, ReportsAssumption DEF Things
  <1>2. Sum(S, c) = Added(v)
    BY DEF Sum
  <1>3. \A x \in S : v[x] = Value(worth, c)[x]
    BY DEF Value
  <1> HIDE DEF v
  <1>4. Sum(S, c) = Total(v, S)[S]
    BY <1>1, <1>2, AddedIsTotal
  <1>5. SumsOver(Total(v, S), v, S)
    BY <1>1, TotalSums
  <1>6. SumsOver(Total(Value(worth, c), Things), Value(worth, c), Things)
    BY ManyThings, ValueTyped, TotalSums
  <1>7. Total(v, S)[S] = Total(Value(worth, c), Things)[S]
    BY <1>1, <1>3, <1>5, <1>6, SumIsUnique
  <1> QED
    BY <1>4, <1>7 DEF WorthOf

LEMMA WorthAdds ==
    ASSUME NEW w, NEW c
    PROVE  /\ WorthOf(w, c, {}) = 0
           /\ \A S \in SUBSET Things : WorthOf(w, c, S) \in Nat
           /\ \A x \in Things : WorthOf(w, c, {x}) = Value(w, c)[x]
  <1> DEFINE v == Value(w, c)
             g == Total(v, Things)
  <1>1. IsFiniteSet(Things) /\ v \in [Things -> Nat] /\ SumsOver(g, v, Things)
    BY ManyThings, ValueTyped, TotalSums
  <1>2. \A S : WorthOf(w, c, S) = g[S]
    BY DEF WorthOf
  <1> HIDE DEF v, g
  <1>3. g[{}] = 0
    BY <1>1 DEF SumsOver
  <1>4. \A S \in SUBSET Things : g[S] \in Nat
    BY <1>1, SumIsNatural
  <1>6. ASSUME NEW x \in Things PROVE g[{x}] = v[x]
    <2>1. g[{x}] = v[x] + g[{x} \ {x}]
      BY <1>1, SumTakesAny
    <2>2. {x} \ {x} = {} /\ v[x] \in Nat
      BY <1>1
    <2> QED
      BY <2>1, <2>2, <1>3
  <1> QED
    BY <1>2, <1>3, <1>4, <1>6 DEF v

LEMMA WorthOfBoth ==
    ASSUME NEW w, NEW c, NEW S \in SUBSET Things, NEW T \in SUBSET Things, S \cap T = {}
    PROVE  /\ WorthOf(w, c, S \cup T) = WorthOf(w, c, S) + WorthOf(w, c, T)
           /\ WorthOf(w, c, S) \in Nat /\ WorthOf(w, c, T) \in Nat
  <1> DEFINE v == Value(w, c)
             g == Total(v, Things)
  <1>1. IsFiniteSet(Things) /\ v \in [Things -> Nat] /\ SumsOver(g, v, Things)
    BY ManyThings, ValueTyped, TotalSums
  <1> HIDE DEF v, g
  <1>2. g[S \cup T] = g[S] + g[T]
    BY <1>1, SumOfUnion
  <1> QED
    BY <1>2, WorthAdds DEF v, g, WorthOf

(* Things that have no value in a currency are worth nothing in it.        *)
LEMMA WorthNothing ==
    ASSUME NEW w, NEW c, NEW S \in SUBSET Things, \A x \in S : w[x] # c
    PROVE  WorthOf(w, c, S) = 0
  <1> DEFINE Bad == {s \in SUBSET S : WorthOf(w, c, s) # 0}
  <1>1. SUFFICES ASSUME WorthOf(w, c, S) # 0 PROVE FALSE
    OBVIOUS
  <1>2. PICK s \in Bad : \A t \in Bad : t \subseteq s => t = s
    <2>1. Bad \in SUBSET SUBSET S /\ S \in Bad
      BY <1>1
    <2>2. IsFiniteSet(S)
      BY ManyThings, FS_Subset
    <2> HIDE DEF Bad
    <2> QED
      BY <2>1, <2>2, SmallestSet
  <1>3. s # {}
    BY <1>2, WorthAdds
  <1>4. PICK x \in s : TRUE
    BY <1>3
  <1>5. WorthOf(w, c, s \ {x}) = 0
    BY <1>2, <1>4
  <1>6. WorthOf(w, c, {x}) = 0
    <2>1. x \in Things /\ Value(w, c)[x] = 0
      BY <1>4 DEF Value
    <2> QED
      BY <2>1, WorthAdds
  <1>7. WorthOf(w, c, (s \ {x}) \cup {x}) = WorthOf(w, c, s \ {x}) + WorthOf(w, c, {x})
    <2>1. s \ {x} \in SUBSET Things /\ {x} \in SUBSET Things /\ (s \ {x}) \cap {x} = {}
      OBVIOUS
    <2> QED
      BY <2>1, WorthOfBoth
  <1>8. (s \ {x}) \cup {x} = s
    BY <1>4
  <1>9. WorthOf(w, c, s) = 0
    BY <1>5, <1>6, <1>7, <1>8
  <1> QED
    BY <1>2, <1>9
-----------------------------------------------------------------------------
(* What PrepareReport makes of the packages.                               *)

(* The scope as it was read: no item is in two kits, or in one and loose.  *)
WellFound(f) ==
    /\ f \in [kits : SUBSET Kits, items : [Kits -> SUBSET Items], loose : SUBSET Items]
    /\ \A j, k \in Kits : j # k => f.items[j] \cap f.items[k] = {}
    /\ \A k \in Kits : f.items[k] \cap f.loose = {}

(* What gives the kits of Q their value.                                   *)
Carried(w, f, Q) == {k \in Q : w[k] # None} \cup UNION {f.items[k] : k \in {k \in Q : w[k] = None}}

(* The currencies of a kit, and the sum that its row shows.                *)
Used(w, f, k) == IF w[k] # None THEN {w[k]} ELSE {w[i] : i \in f.items[k]} \ {None}
ShownOf(used, sums) ==
    IF Cardinality(used) = 1 THEN LET c == CHOOSE c \in used : TRUE IN <<c, sums[c]>>
    ELSE <<None, 0>>
Shown(w, f, k) ==
    ShownOf(Used(w, f, k), [c \in Currencies |-> WorthOf(w, c, Carried(w, f, {k}))])

(* The report of the kits of Q.                                            *)
ReportOf(w, f, Q) ==
    [seen   |-> UNION {f.items[k] : k \in Q},
     rows   |-> {r \in Kits \X Items : r[1] \in Q /\ r[2] \in f.items[r[1]]},
     totals |-> [c \in Currencies |-> WorthOf(w, c, Carried(w, f, Q))],
     values |-> [k \in Kits |-> IF k \in Q THEN Shown(w, f, k) ELSE <<None, 0>>]]

LEMMA ReportOfNone == \A w, f : ReportOf(w, f, {}) = NoReport
  <1> SUFFICES ASSUME NEW w, NEW f PROVE ReportOf(w, f, {}) = NoReport
    OBVIOUS
  <1>1. Carried(w, f, {}) = {}
    BY DEF Carried
  <1>2. \A c : WorthOf(w, c, {}) = 0
    BY WorthAdds
  <1> QED
    BY <1>1, <1>2 DEF ReportOf, NoReport

LEMMA CarriedAdds ==
    ASSUME NEW w, NEW f, WellFound(f), NEW Q \in SUBSET Kits, NEW k \in Kits \ Q
    PROVE  /\ Carried(w, f, Q \cup {k}) = Carried(w, f, Q) \cup Carried(w, f, {k})
           /\ Carried(w, f, Q) \cap Carried(w, f, {k}) = {}
  <1> USE DEF WellFound, Carried
  <1>1. Carried(w, f, Q \cup {k}) = Carried(w, f, Q) \cup Carried(w, f, {k})
    OBVIOUS
  <1>2. ASSUME NEW x \in Carried(w, f, Q), x \in Carried(w, f, {k}) PROVE FALSE
    <2>1. CASE x \in Kits
      BY <1>2, <2>1, ReportsAssumption
    <2>2. CASE x \notin Kits
      <3>1. PICK j \in Q : x \in f.items[j]
        BY <1>2, <2>2
      <3>2. x \in f.items[k]
        BY <1>2, <2>2
      <3> QED
        BY <3>1, <3>2
    <2> QED
      BY <2>1, <2>2
  <1> QED
    BY <1>1, <1>2

LEMMA CarriedAre ==
    ASSUME NEW w, NEW f, WellFound(f)
    PROVE  \A Q \in SUBSET Kits : Carried(w, f, Q) \in SUBSET Things
  BY DEF WellFound, Carried, Things

(* One package more is the report of one kit more.                         *)
LEMMA PackageAdds ==
    ASSUME WellFound(found), NEW Q \in SUBSET Kits, NEW k \in Kits \ Q
    PROVE  Package(ReportOf(worth, found, Q), k) = ReportOf(worth, found, Q \cup {k})
  <1> DEFINE acc == ReportOf(worth, found, Q)
             new == ReportOf(worth, found, Q \cup {k})
             mine == found.items[k] \ acc.seen
             used == {worth[i] : i \in mine} \ {None}
             sums == [c \in Currencies |-> IF worth[k] = None THEN Sum(mine, c) ELSE Sum({k}, c)]
             shown == IF worth[k] # None THEN {worth[k]} ELSE used
  <1>1. mine = found.items[k]
    <2>1. \A j \in Q : found.items[j] \cap found.items[k] = {}
      BY DEF WellFound
    <2>2. acc.seen = UNION {found.items[j] : j \in Q}
      BY DEF ReportOf
    <2> QED
      BY <2>1, <2>2
  <1>2. shown = Used(worth, found, k)
    BY <1>1 DEF Used
  <1>3. sums = [c \in Currencies |-> WorthOf(worth, c, Carried(worth, found, {k}))]
    <2>1. found.items[k] \in SUBSET Things /\ {k} \in SUBSET Things
      BY DEF WellFound, Things
    <2>2. Carried(worth, found, {k}) = IF worth[k] = None THEN found.items[k] ELSE {k}
      BY DEF Carried
    <2>3. ASSUME NEW c \in Currencies
          PROVE  (IF worth[k] = None THEN Sum(found.items[k], c) ELSE Sum({k}, c)) =
                     WorthOf(worth, c, Carried(worth, found, {k}))
      BY <2>1, <2>2, SumComputed
    <2> HIDE DEF mine
    <2> QED
      BY <1>1, <2>3
  <1>4. Package(acc, k) =
           [seen   |-> acc.seen \cup mine,
            rows   |-> acc.rows \cup {<<k, i>> : i \in mine},
            totals |-> [c \in Currencies |-> acc.totals[c] + sums[c]],
            values |-> [acc.values EXCEPT ![k] = ShownOf(shown, sums)]]
    BY Zenon DEF Package, ShownOf
  <1> HIDE DEF mine, used, sums, shown
  <1>5. ShownOf(shown, sums) = Shown(worth, found, k)
    BY <1>2, <1>3 DEF Shown
  <1>6. Package(acc, k) =
           [seen   |-> acc.seen \cup found.items[k],
            rows   |-> acc.rows \cup {<<k, i>> : i \in found.items[k]},
            totals |-> [c \in Currencies |-> acc.totals[c] + sums[c]],
            values |-> [acc.values EXCEPT ![k] = Shown(worth, found, k)]]
    BY <1>1, <1>4, <1>5
  <1>7. acc.seen \cup found.items[k] = new.seen
    BY DEF ReportOf
  <1>8. acc.rows \cup {<<k, i>> : i \in found.items[k]} = new.rows
    BY DEF ReportOf, WellFound
  <1>9. [c \in Currencies |-> acc.totals[c] + sums[c]] = new.totals
    <2>1. ASSUME NEW c \in Currencies
          PROVE  WorthOf(worth, c, Carried(worth, found, Q)) + WorthOf(worth, c, Carried(worth, found, {k}))
                     = WorthOf(worth, c, Carried(worth, found, Q \cup {k}))
      <3> DEFINE A == Carried(worth, found, Q)
                 B == Carried(worth, found, {k})
      <3>1. {k} \in SUBSET Kits
        OBVIOUS
      <3>2. /\ A \in SUBSET Things /\ B \in SUBSET Things
            /\ Carried(worth, found, Q \cup {k}) = A \cup B /\ A \cap B = {}
        <4>1. A \in SUBSET Things /\ B \in SUBSET Things
          BY <3>1, CarriedAre
        <4>2. Carried(worth, found, Q \cup {k}) = A \cup B /\ A \cap B = {}
          BY CarriedAdds
        <4> QED
          BY <4>1, <4>2
      <3> HIDE DEF A, B
      <3>3. WorthOf(worth, c, A \cup B) = WorthOf(worth, c, A) + WorthOf(worth, c, B)
        <4>1. A \in SUBSET Things /\ B \in SUBSET Things /\ A \cap B = {}
          BY <3>2
        <4> HIDE DEF acc, new
        <4> QED
          BY ONLY <4>1, WorthOfBoth
      <3> QED
        BY <3>2, <3>3 DEF A, B
    <2>2. /\ acc.totals = [c \in Currencies |-> WorthOf(worth, c, Carried(worth, found, Q))]
          /\ new.totals = [c \in Currencies |-> WorthOf(worth, c, Carried(worth, found, Q \cup {k}))]
      BY DEF ReportOf
    <2> QED
      BY <2>1, <2>2, <1>3
  <1>10. [acc.values EXCEPT ![k] = Shown(worth, found, k)] = new.values
    BY DEF ReportOf
  <1>11. new = [seen |-> new.seen, rows |-> new.rows, totals |-> new.totals, values |-> new.values]
    BY DEF ReportOf
  <1> HIDE DEF acc, new
  <1>12. Package(acc, k) = new
    BY <1>6, <1>7, <1>8, <1>9, <1>10, <1>11
  <1> QED
    BY <1>12 DEF acc, new

(* Of some numbers up to a greatest one, Max is one that no other exceeds. *)
LEMMA MaxIsThere ==
    ASSUME NEW n \in Nat, NEW S \in SUBSET (1..n), S # {}
    PROVE  Max(S) \in S
  <1> DEFINE T == {n - x : x \in S}
  <1>1. T \in SUBSET Nat /\ T # {}
    <2>1. \A x \in 1..n : n - x \in Nat
      OBVIOUS
    <2> QED
      BY <2>1
  <1>2. PICK m \in T : \A t \in T : m <= t
    <2> HIDE DEF T
    <2> QED
      BY <1>1, LeastNatural
  <1>3. PICK x \in S : m = n - x
    OBVIOUS
  <1>4. \A y \in S : x >= y
    <2>1. ASSUME NEW y \in S PROVE x >= y
      <3>1. n - x <= n - y
        BY <1>2, <1>3
      <3> QED
        BY <3>1
    <2> QED
      BY <2>1
  <1> QED
    BY <1>4, Zenon DEF Max

KitsAt(P) == {KitOrder[n] : n \in P} \cap found.kits

LEMMA PackagesFolded ==
    ASSUME WellFound(found)
    PROVE  FoldLeft(AddPackage, NoReport, KitOrder) = ReportOf(worth, found, found.kits)
  <1> DEFINE D == DOMAIN KitOrder
             Rule(g) == [s \in SUBSET D |->
                            IF s = {} THEN NoReport
                            ELSE AddPackage(g[s \ {Max(s)}], KitOrder[Max(s)])]
             f == CHOOSE g : g = Rule(g)
             h == [s \in SUBSET D |-> ReportOf(worth, found, KitsAt(s))]
  <1>1. FoldLeft(AddPackage, NoReport, KitOrder) = f[D]
    BY Zenon DEF FoldLeft, MapThenFoldSet
  <1>2. D = 1..Len(KitOrder) /\ Len(KitOrder) \in Nat /\ Kits = {KitOrder[n] : n \in D}
    BY ReportsAssumption DEF Kits, ToSet
  <1>3. \A s \in SUBSET D : s # {} => Max(s) \in s
    BY <1>2, MaxIsThere
  <1>4. h = Rule(h)
    <2>1. ASSUME NEW s \in SUBSET D PROVE h[s] = Rule(h)[s]
      <3>1. CASE s = {}
        BY <3>1, ReportOfNone DEF KitsAt
      <3>2. CASE s # {}
        <4> DEFINE m == Max(s)
                   r == s \ {m}
        <4>1. m \in s /\ m \in D /\ r \in SUBSET D /\ KitOrder[m] \in Kits
          BY <1>2, <1>3, <3>2
        <4>2. Rule(h)[s] = AddPackage(h[r], KitOrder[m]) /\ h[r] = ReportOf(worth, found, KitsAt(r))
          BY <3>2, <4>1
        <4> HIDE DEF m
        <4>3. KitOrder[m] \notin KitsAt(r) /\ KitsAt(r) \in SUBSET Kits
          BY <4>1, <1>2, ReportsAssumption DEF KitsAt, IsInjective
        <4>4. KitsAt(s) = KitsAt(r) \cup ({KitOrder[m]} \cap found.kits)
          BY <4>1 DEF KitsAt
        <4> HIDE DEF Rule, r
        <4>5. AddPackage(ReportOf(worth, found, KitsAt(r)), KitOrder[m]) = ReportOf(worth, found, KitsAt(s))
          <5>1. CASE KitOrder[m] \in found.kits
            <6>1. KitsAt(s) = KitsAt(r) \cup {KitOrder[m]}
              BY <4>4, <5>1
            <6>2. Package(ReportOf(worth, found, KitsAt(r)), KitOrder[m]) =
                      ReportOf(worth, found, KitsAt(r) \cup {KitOrder[m]})
              BY <4>1, <4>3, PackageAdds
            <6> QED
              BY <5>1, <6>1, <6>2 DEF AddPackage
          <5>2. CASE KitOrder[m] \notin found.kits
            <6>1. KitsAt(s) = KitsAt(r)
              BY <4>4, <5>2
            <6> QED
              BY <5>2, <6>1 DEF AddPackage
          <5> QED
            BY <5>1, <5>2
        <4> QED
          BY <4>2, <4>5
      <3> QED
        BY <3>1, <3>2
    <2> HIDE DEF D
    <2> QED
      BY <2>1
  <1> HIDE DEF h
  <1>5. f = Rule(f)
    <2> HIDE DEF Rule
    <2> QED
      BY <1>4, Zenon
  <1> HIDE DEF f
  <1>6. f[D] = h[D]
    <2> DEFINE Bad == {s \in SUBSET D : f[s] # h[s]}
    <2>1. SUFFICES ASSUME f[D] # h[D] PROVE FALSE
      OBVIOUS
    <2>2. PICK s \in Bad : \A t \in Bad : t \subseteq s => t = s
      <3>1. Bad \in SUBSET SUBSET D /\ D \in Bad
        BY <2>1
      <3>2. IsFiniteSet(D)
        BY <1>2, FS_Interval
      <3> HIDE DEF Bad, D
      <3> QED
        BY <3>1, <3>2, SmallestSet
    <2>3. s \in SUBSET D /\ f[s] # h[s]
      BY <2>2
    <2> HIDE DEF D
    <2>4. s # {}
      <3>1. s = {} => f[s] = NoReport /\ h[s] = NoReport
        BY <1>4, <1>5, <2>3
      <3> QED
        BY <2>3, <3>1
    <2>5. Max(s) \in s
      BY <1>3, <2>3, <2>4
    <2>6. f[s \ {Max(s)}] = h[s \ {Max(s)}]
      BY <2>2, <2>3, <2>5
    <2>7. /\ f[s] = AddPackage(f[s \ {Max(s)}], KitOrder[Max(s)])
          /\ h[s] = AddPackage(h[s \ {Max(s)}], KitOrder[Max(s)])
      BY <1>4, <1>5, <2>3, <2>4
    <2> QED
      BY <2>3, <2>6, <2>7
  <1>7. h[D] = ReportOf(worth, found, found.kits)
    <2>1. KitsAt(D) = found.kits
      BY <1>2 DEF KitsAt, WellFound
    <2> QED
      BY <2>1 DEF h
  <1> QED
    BY <1>1, <1>6, <1>7

(* What PrepareReport returns.                                             *)
ReportFrom(w, f) ==
    LET kits == ReportOf(w, f, f.kits)
    IN  [seen   |-> kits.seen \cup f.loose,
         rows   |-> kits.rows \cup {<<None, i>> : i \in f.loose},
         totals |-> [c \in Currencies |-> WorthOf(w, c, Carried(w, f, f.kits) \cup f.loose)],
         values |-> kits.values]

LEMMA ReportPrepared ==
    ASSUME WellFound(found)
    PROVE  PrepareReport = ReportFrom(worth, found)
  <1> DEFINE kits == ReportOf(worth, found, found.kits)
             rest == found.loose \ kits.seen
             B == Carried(worth, found, found.kits)
  <1>1. PrepareReport =
            [seen   |-> kits.seen \cup rest,
             rows   |-> kits.rows \cup {<<None, i>> : i \in rest},
             totals |-> [c \in Currencies |-> kits.totals[c] + Sum(rest, c)],
             values |-> kits.values]
    BY PackagesFolded, Zenon DEF PrepareReport
  <1>2. rest = found.loose
    BY DEF WellFound, ReportOf
  <1>3. kits.totals = [c \in Currencies |-> WorthOf(worth, c, B)]
    BY DEF ReportOf
  <1>4. /\ B \in SUBSET Things /\ found.loose \in SUBSET Things
        /\ B \cap found.loose = {}
    <2>1. found.kits \in SUBSET Kits /\ found.loose \in SUBSET Things
      BY DEF WellFound, Things
    <2>2. B \in SUBSET Things
      BY <2>1, CarriedAre
    <2>3. \A x \in B : x \notin found.loose
      BY ReportsAssumption DEF WellFound, Carried
    <2> QED
      BY <2>1, <2>2, <2>3
  <1> HIDE DEF kits, rest, B
  <1>5. ASSUME NEW c \in Currencies
        PROVE  kits.totals[c] + Sum(found.loose, c) = WorthOf(worth, c, B \cup found.loose)
    <2>1. WorthOf(worth, c, B \cup found.loose) = WorthOf(worth, c, B) + WorthOf(worth, c, found.loose)
      BY <1>4, WorthOfBoth
    <2>2. Sum(found.loose, c) = WorthOf(worth, c, found.loose)
      BY <1>4, SumComputed
    <2> QED
      BY <1>3, <2>1, <2>2
  <1>6. [c \in Currencies |-> kits.totals[c] + Sum(found.loose, c)] =
            [c \in Currencies |-> WorthOf(worth, c, B \cup found.loose)]
    BY <1>5
  <1> QED
    BY <1>1, <1>2, <1>6, Zenon DEF ReportFrom, kits, B

LEMMA ReportFromTyped ==
    ASSUME NEW w, NEW f, WellFound(f)
    PROVE  /\ ReportFrom(w, f).rows \subseteq (Kits \cup {None}) \X Items
           /\ ReportFrom(w, f).seen \subseteq Items
  <1>1. /\ ReportOf(w, f, f.kits).rows \subseteq Kits \X Items
        /\ ReportOf(w, f, f.kits).seen \subseteq Items
    BY DEF ReportOf, WellFound
  <1>2. f.loose \subseteq Items
    BY DEF WellFound
  <1> QED
    BY <1>1, <1>2 DEF ReportFrom

(* The rows: of the kits that were found, and loose ones.                  *)
LEMMA RowsFrom ==
    ASSUME NEW w, NEW f, WellFound(f)
    PROVE  \A r : r \in ReportFrom(w, f).rows <=>
                     \/ r \in Kits \X Items /\ r[1] \in f.kits /\ r[2] \in f.items[r[1]]
                     \/ \E i \in f.loose : r = <<None, i>>
  BY DEF ReportFrom, ReportOf
-----------------------------------------------------------------------------
(* What the statements of a transaction read from one state of the         *)
(* inventory, and what is in scope there.                                  *)

KitsRead(d, s) == IF s = Location THEN d.kitsHere ELSE d.kits \cap s
Earlier(d, s, k) == UNION {d.contents[j] : j \in {j \in KitsRead(d, s) : Position(j) < Position(k)}}
ItemsRead(d, s) ==
    [k \in Kits |-> IF k \in KitsRead(d, s) THEN d.contents[k] \ Earlier(d, s, k) ELSE {}]
LooseRead(d, s) == IF s = Location THEN d.here \ Contained(d) ELSE {}
ReadFrom(d, s) == [kits |-> KitsRead(d, s), items |-> ItemsRead(d, s), loose |-> LooseRead(d, s)]

ScopeOf(d, s) == (UNION {d.contents[k] : k \in KitsRead(d, s)}) \cup LooseRead(d, s)

LEMMA ScopeIs ==
    /\ \A d : KitsOf(d) = KitsRead(d, scope)
    /\ \A d : InScope(d) = ScopeOf(d, scope)
  BY DEF KitsOf, KitsRead, InScope, ScopeOf, LooseRead

LEMMA PositionsDiffer ==
    /\ \A k \in Kits : Position(k) \in Nat
    /\ \A j, k \in Kits : Position(j) = Position(k) => j = k
  <1>1. DOMAIN KitOrder \subseteq Nat /\ Kits = {KitOrder[n] : n \in DOMAIN KitOrder}
    BY ReportsAssumption DEF Kits, ToSet
  <1>2. ASSUME NEW k \in Kits PROVE Position(k) \in DOMAIN KitOrder /\ KitOrder[Position(k)] = k
    <2>1. \E n \in DOMAIN KitOrder : KitOrder[n] = k
      BY <1>1
    <2> QED
      BY <2>1, Zenon DEF Position
  <1> QED
    BY <1>1, <1>2

LEMMA ReadIsWell ==
    ASSUME NEW d \in Inventories, NEW s
    PROVE  WellFound(ReadFrom(d, s))
  <1> DEFINE f == ReadFrom(d, s)
  <1>1. f.kits \in SUBSET Kits
    BY DEF ReadFrom, KitsRead, Inventories
  <1>2. f.items \in [Kits -> SUBSET Items]
    BY DEF ReadFrom, ItemsRead, Inventories
  <1>3. f.loose \in SUBSET Items
    BY DEF ReadFrom, LooseRead, Inventories
  <1>4. ASSUME NEW j \in Kits, NEW k \in Kits, j # k PROVE f.items[j] \cap f.items[k] = {}
    <2>1. f.items[j] = IF j \in KitsRead(d, s) THEN d.contents[j] \ Earlier(d, s, j) ELSE {}
      BY DEF ReadFrom, ItemsRead
    <2>2. f.items[k] = IF k \in KitsRead(d, s) THEN d.contents[k] \ Earlier(d, s, k) ELSE {}
      BY DEF ReadFrom, ItemsRead
    <2>3. Position(j) < Position(k) \/ Position(k) < Position(j)
      BY <1>4, PositionsDiffer
    <2>4. ASSUME j \in KitsRead(d, s), k \in KitsRead(d, s)
          PROVE  d.contents[j] \subseteq Earlier(d, s, k) \/ d.contents[k] \subseteq Earlier(d, s, j)
      BY <2>3, <2>4 DEF Earlier
    <2> QED
      BY <2>1, <2>2, <2>4
  <1>5. ASSUME NEW k \in Kits PROVE f.items[k] \cap f.loose = {}
    BY DEF ReadFrom, ItemsRead, LooseRead, Contained
  <1>6. f = [kits |-> f.kits, items |-> f.items, loose |-> f.loose]
    BY DEF ReadFrom
  <1> HIDE DEF f
  <1> QED
    BY <1>1, <1>2, <1>3, <1>4, <1>5, <1>6 DEF WellFound, f

(* Of the kits that hold an item the first one has it in the report.       *)
LEMMA FirstHasIt ==
    ASSUME NEW d \in Inventories, NEW s, NEW i, NEW k \in KitsRead(d, s), i \in d.contents[k]
    PROVE  \E j \in KitsRead(d, s) :
              /\ i \in ItemsRead(d, s)[j] /\ i \in d.contents[j]
              /\ \A l \in KitsRead(d, s) : i \in d.contents[l] => Position(j) <= Position(l)
  <1> DEFINE T == {Position(j) : j \in {j \in KitsRead(d, s) : i \in d.contents[j]}}
  <1>0. KitsRead(d, s) \subseteq Kits
    BY DEF KitsRead, Inventories
  <1>1. T \in SUBSET Nat /\ T # {}
    BY <1>0, PositionsDiffer
  <1>2. PICK n \in T : \A m \in T : n <= m
    <2> HIDE DEF T
    <2> QED
      BY <1>1, LeastNatural
  <1>3. PICK j \in KitsRead(d, s) : i \in d.contents[j] /\ n = Position(j)
    OBVIOUS
  <1>4. \A l \in KitsRead(d, s) : i \in d.contents[l] => Position(j) <= Position(l)
    BY <1>2, <1>3
  <1>5. i \notin Earlier(d, s, j)
    <2>1. \A l \in KitsRead(d, s) : Position(l) < Position(j) => i \notin d.contents[l]
      BY <1>0, <1>4, PositionsDiffer
    <2> QED
      BY <2>1 DEF Earlier
  <1>6. i \in ItemsRead(d, s)[j]
    BY <1>0, <1>3, <1>5 DEF ItemsRead
  <1> QED
    BY <1>3, <1>4, <1>6

(* The items of the report are those in scope.                             *)
LEMMA ReadsScope ==
    ASSUME NEW d \in Inventories, NEW s
    PROVE  ScopeOf(d, s) = (UNION {ItemsRead(d, s)[k] : k \in KitsRead(d, s)}) \cup LooseRead(d, s)
  <1>0. KitsRead(d, s) \subseteq Kits
    BY DEF KitsRead, Inventories
  <1>1. ASSUME NEW k \in KitsRead(d, s) PROVE ItemsRead(d, s)[k] \subseteq d.contents[k]
    BY <1>0 DEF ItemsRead
  <1>2. ASSUME NEW k \in KitsRead(d, s), NEW i \in d.contents[k]
        PROVE  \E j \in KitsRead(d, s) : i \in ItemsRead(d, s)[j]
    BY FirstHasIt
  <1> QED
    BY <1>1, <1>2 DEF ScopeOf

(* What gives the scope its value is what the report counts.               *)
LEMMA CarriersCarried ==
    ASSUME NEW d \in Inventories, NEW f, f = ReadFrom(d, scope)
    PROVE  Carriers(d) = Carried(worth, f, f.kits) \cup f.loose
  <1> DEFINE K == KitsRead(d, scope)
             first(i) == {k \in KitsOf(d) : i \in d.contents[k]
                            /\ \A j \in KitsOf(d) : i \in d.contents[j] => Position(k) <= Position(j)}
  <1>0. K \subseteq Kits /\ f.kits = K /\ f.items = ItemsRead(d, scope) /\ f.loose = LooseRead(d, scope)
    BY DEF KitsRead, Inventories, ReadFrom
  <1>1. KitsOf(d) = K
    BY ScopeIs
  <1>2. Carriers(d) = {k \in K : worth[k] # None}
                        \cup {i \in InScope(d) : \A k \in first(i) : worth[k] = None}
    BY <1>1, Zenon DEF Carriers
  <1> HIDE DEF K
  <1>3. ASSUME NEW i, NEW k \in K, i \in f.items[k]
        PROVE  i \in d.contents[k] /\ first(i) = {k}
    <2>1. i \in d.contents[k] /\ i \notin Earlier(d, scope, k)
      BY <1>0, <1>3 DEF ItemsRead, K
    <2>2. \A j \in K : i \in d.contents[j] => ~(Position(j) < Position(k))
      BY <2>1 DEF Earlier, K
    <2>3. \A j \in K : i \in d.contents[j] => Position(k) <= Position(j)
      BY <1>0, <2>2, PositionsDiffer
    <2>4. \A j \in K : i \in d.contents[j] /\ Position(j) <= Position(k) => j = k
      BY <1>0, <2>3, PositionsDiffer
    <2> QED
      BY <1>1, <2>1, <2>3, <2>4
  <1>4. ASSUME NEW i \in f.loose PROVE first(i) = {}
    <2>1. i \notin Contained(d)
      BY <1>0 DEF LooseRead
    <2> QED
      BY <1>0, <1>1, <2>1 DEF Contained
  <1>5. InScope(d) = (UNION {f.items[k] : k \in K}) \cup f.loose
    BY <1>0, ScopeIs, ReadsScope DEF K
  <1> HIDE DEF first
  <1>6. {i \in InScope(d) : \A k \in first(i) : worth[k] = None} =
            (UNION {f.items[k] : k \in {k \in K : worth[k] = None}}) \cup f.loose
    <2>1. ASSUME NEW i \in InScope(d), \A k \in first(i) : worth[k] = None
          PROVE  i \in (UNION {f.items[k] : k \in {k \in K : worth[k] = None}}) \cup f.loose
      <3>1. CASE i \in f.loose
        BY <3>1
      <3>2. ASSUME NEW k \in K, i \in f.items[k] PROVE worth[k] = None
        BY <1>3, <2>1, <3>2
      <3> QED
        BY <1>5, <3>1, <3>2
    <2>2. ASSUME NEW i \in (UNION {f.items[k] : k \in {k \in K : worth[k] = None}}) \cup f.loose
          PROVE  i \in InScope(d) /\ \A k \in first(i) : worth[k] = None
      <3>1. i \in InScope(d)
        BY <1>5
      <3>2. CASE i \in f.loose
        BY <1>4, <3>1, <3>2
      <3>3. ASSUME NEW k \in K, worth[k] = None, i \in f.items[k]
            PROVE  \A j \in first(i) : worth[j] = None
        BY <1>3, <3>3
      <3> QED
        BY <3>1, <3>2, <3>3
    <2> QED
      BY <2>1, <2>2
  <1>7. Carried(worth, f, f.kits) = {k \in K : worth[k] # None}
            \cup UNION {f.items[k] : k \in {k \in K : worth[k] = None}}
    BY <1>0 DEF Carried
  <1> QED
    BY <1>2, <1>6, <1>7
-----------------------------------------------------------------------------
(* The rows and the totals of a report that is made of one state of the    *)
(* inventory.                                                              *)

LEMMA OneRowEach ==
    ASSUME NEW d \in Inventories, NEW s, NEW w, NEW R, R = ReportFrom(w, ReadFrom(d, s)).rows
    PROVE  /\ \A i \in ScopeOf(d, s) : Cardinality({r \in R : r[2] = i}) = 1
           /\ \A i : i \notin ScopeOf(d, s) => Cardinality({r \in R : r[2] = i}) = 0
           /\ \A r \in R : r[2] \in ScopeOf(d, s)
  <1> DEFINE f == ReadFrom(d, s)
  <1>1. WellFound(f)
    BY ReadIsWell
  <1>2. f.kits = KitsRead(d, s) /\ f.items = ItemsRead(d, s) /\ f.loose = LooseRead(d, s)
    BY DEF ReadFrom
  <1>3. ScopeOf(d, s) = (UNION {f.items[k] : k \in f.kits}) \cup f.loose
    BY <1>2, ReadsScope
  <1>4. \A r : r \in R <=> \/ r \in Kits \X Items /\ r[1] \in f.kits /\ r[2] \in f.items[r[1]]
                           \/ \E i \in f.loose : r = <<None, i>>
    BY <1>1, RowsFrom
  <1> HIDE DEF f
  <1>5. ASSUME NEW r \in R PROVE r[2] \in ScopeOf(d, s)
    BY <1>3, <1>4
  <1>6. ASSUME NEW i \in ScopeOf(d, s) PROVE \E r \in R : r[2] = i
    <2>1. CASE i \in f.loose
      <3>1. <<None, i>> \in R /\ <<None, i>>[2] = i
        BY <1>4, <2>1
      <3> QED
        BY <3>1
    <2>2. ASSUME NEW k \in f.kits, i \in f.items[k] PROVE \E r \in R : r[2] = i
      <3>1. <<k, i>> \in Kits \X Items
        BY <1>1, <2>2 DEF WellFound
      <3>2. <<k, i>> \in R
        BY <1>4, <2>2, <3>1
      <3> QED
        BY <3>2
    <2> QED
      BY <1>3, <2>1, <2>2
  <1>7. ASSUME NEW r \in R, NEW q \in R, r[2] = q[2] PROVE r = q
    <2>1. CASE r \in Kits \X Items /\ q \in Kits \X Items
      <3>1. r[1] \in Kits /\ q[1] \in Kits /\ r[2] \in f.items[r[1]] /\ r[2] \in f.items[q[1]]
        BY <1>4, <1>7, <2>1, ReportsAssumption
      <3>2. r[1] = q[1]
        BY <1>1, <3>1 DEF WellFound
      <3> QED
        BY <1>7, <2>1, <3>2
    <2>2. ASSUME NEW x \in R, NEW y \in R, x[2] = y[2], x \in Kits \X Items,
                 NEW i \in f.loose, y = <<None, i>>
          PROVE  FALSE
      <3>1. x[1] \in Kits /\ x[2] \in f.items[x[1]]
        BY <1>4, <2>2, ReportsAssumption
      <3>2. x[2] = i
        BY <2>2
      <3> QED
        BY <1>1, <3>1, <3>2 DEF WellFound
    <2>3. ASSUME NEW i \in f.loose, NEW j \in f.loose, r = <<None, i>>, q = <<None, j>> PROVE r = q
      BY <1>7, <2>3
    <2> QED
      BY <1>4, <1>7, <2>1, <2>2, <2>3
  <1>8. ASSUME NEW i \in ScopeOf(d, s) PROVE Cardinality({r \in R : r[2] = i}) = 1
    <2>1. PICK r \in R : r[2] = i
      BY <1>6
    <2>2. {q \in R : q[2] = i} = {r}
      BY <1>7, <2>1
    <2> QED
      BY <2>2, FS_Singleton
  <1>9. ASSUME NEW i, i \notin ScopeOf(d, s) PROVE Cardinality({r \in R : r[2] = i}) = 0
    <2>1. {r \in R : r[2] = i} = {}
      BY <1>5, <1>9
    <2> QED
      BY <2>1, FS_EmptySet
  <1> QED
    BY <1>5, <1>8, <1>9

(* What a row shows for its kit in a currency is what the kit adds to the  *)
(* total, when the row of a kit with items shows a sum.                    *)
LEMMA ShownIsCarried ==
    ASSUME NEW w \in [Things -> Worths], NEW f, WellFound(f), NEW c \in Currencies, NEW k \in Kits,
           NEW v, v = Shown(w, f, k), f.items[k] # {} => v[1] # None
    PROVE  (IF v[1] = c THEN v[2] ELSE 0) = WorthOf(w, c, Carried(w, f, {k}))
  <1> DEFINE used == Used(w, f, k)
             sums == [e \in Currencies |-> WorthOf(w, e, Carried(w, f, {k}))]
  <1>1. k \in Things /\ {k} \in SUBSET Things /\ f.items[k] \in SUBSET Things
    BY DEF Things, WellFound
  <1>2. used \subseteq Currencies
    BY <1>1, ReportsAssumption DEF Used
  <1>3. Carried(w, f, {k}) = IF w[k] = None THEN f.items[k] ELSE {k}
    BY DEF Carried
  <1>4. IsFiniteSet(used)
    <2>1. IsFiniteSet(f.items[k])
      BY <1>1, ManyThings, FS_Subset
    <2>2. [i \in f.items[k] |-> w[i]] \in Surjection(f.items[k], {w[i] : i \in f.items[k]})
      BY DEF Surjection
    <2>3. IsFiniteSet({w[i] : i \in f.items[k]})
      BY <2>1, <2>2, FS_Surjection
    <2>4. IsFiniteSet({w[i] : i \in f.items[k]} \ {None})
      BY <2>3, FS_Difference
    <2> QED
      BY <2>4, FS_Singleton DEF Used
  <1>5. v = ShownOf(used, sums)
    BY DEF Shown
  <1>6. CASE Cardinality(used) = 1
    <2>1. PICK e : used = {e}
      BY <1>4, <1>6, FS_Singleton
    <2>2. (CHOOSE x \in used : TRUE) = e
      BY <2>1
    <2>3. v = <<e, sums[e]>>
      BY <1>5, <1>6, <2>2, Zenon DEF ShownOf
    <2>4. e \in Currencies
      BY <1>2, <2>1
    <2>5. v[1] = e /\ v[2] = WorthOf(w, e, Carried(w, f, {k}))
      BY <2>3, <2>4
    <2>6. CASE e = c
      BY <2>5, <2>6
    <2>7. CASE e # c
      <3>1. \A x \in Carried(w, f, {k}) : w[x] # c
        <4>1. c # None /\ c \notin used
          BY <2>1, <2>7, ReportsAssumption
        <4>2. CASE w[k] = None
          BY <1>3, <4>1, <4>2 DEF Used
        <4>3. CASE w[k] # None
          BY <1>3, <4>1, <4>3 DEF Used
        <4> QED
          BY <4>2, <4>3
      <3>2. WorthOf(w, c, Carried(w, f, {k})) = 0
        BY <1>1, <1>3, <3>1, WorthNothing
      <3> QED
        BY <2>5, <2>7, <3>2
    <2> QED
      BY <2>6, <2>7
  <1>7. CASE Cardinality(used) # 1
    <2>1. v = <<None, 0>>
      BY <1>5, <1>7 DEF ShownOf
    <2>2. f.items[k] = {} /\ v[1] # c
      BY <2>1, ReportsAssumption
    <2>3. w[k] = None
      BY <1>7, FS_Singleton DEF Used
    <2> QED
      BY <1>3, <2>2, <2>3, WorthAdds
  <1> QED
    BY <1>6, <1>7

(* The kits together.                                                      *)
LEMMA KitsAddUp ==
    ASSUME NEW w \in [Things -> Worths], NEW f, WellFound(f), NEW c \in Currencies,
           NEW v, v = ReportFrom(w, f).values,
           \A k \in f.kits : f.items[k] # {} => v[k][1] # None
    PROVE  Added([k \in Kits |-> IF v[k][1] = c THEN v[k][2] ELSE 0])
               = WorthOf(w, c, Carried(w, f, f.kits))
  <1> DEFINE u == [k \in Kits |-> IF v[k][1] = c THEN v[k][2] ELSE 0]
             g == Total(u, Kits)
             C(Q) == Carried(w, f, Q \cap f.kits)
  <1>1. \A k \in Kits : v[k] = IF k \in f.kits THEN Shown(w, f, k) ELSE <<None, 0>>
    BY DEF ReportFrom, ReportOf
  <1>2. C({}) = {}
    BY DEF Carried
  <1>3. f.kits \in SUBSET Kits /\ \A Q \in SUBSET Kits : C(Q) \in SUBSET Things
    <2>1. f.kits \in SUBSET Kits
      BY DEF WellFound
    <2>2. \A Q \in SUBSET Kits : Q \cap f.kits \in SUBSET Kits
      BY <2>1
    <2> QED
      BY <2>1, <2>2, CarriedAre
  <1>4. ASSUME NEW k \in Kits PROVE u[k] = WorthOf(w, c, C({k}))
    <2>1. CASE k \in f.kits
      <3>1. {k} \cap f.kits = {k} /\ v[k] = Shown(w, f, k) /\ (f.items[k] # {} => v[k][1] # None)
        BY <1>1, <2>1
      <3>2. (IF v[k][1] = c THEN v[k][2] ELSE 0) = WorthOf(w, c, Carried(w, f, {k}))
        BY <3>1, ShownIsCarried
      <3> QED
        BY <3>1, <3>2
    <2>2. CASE k \notin f.kits
      <3>1. {k} \cap f.kits = {} \cap f.kits /\ v[k] = <<None, 0>>
        BY <1>1, <2>2
      <3>2. WorthOf(w, c, C({k})) = 0
        BY <1>2, <3>1, WorthAdds
      <3>3. u[k] = 0
        BY <3>1, ReportsAssumption
      <3> QED
        BY <3>2, <3>3
    <2> QED
      BY <2>1, <2>2
  <1>5. ASSUME NEW Q \in SUBSET Kits, NEW k \in Q
        PROVE  WorthOf(w, c, C(Q)) = WorthOf(w, c, C(Q \ {k})) + WorthOf(w, c, C({k}))
    <2>1. CASE k \in f.kits
      <3> DEFINE P == (Q \ {k}) \cap f.kits
      <3>1. /\ P \in SUBSET Kits /\ {k} \in SUBSET Kits /\ k \in Kits \ P
            /\ {k} \cap f.kits = {k} /\ Q \cap f.kits = P \cup {k}
        BY <2>1
      <3> HIDE DEF P
      <3> DEFINE A == Carried(w, f, P)
                 B == Carried(w, f, {k})
      <3>2. A \in SUBSET Things /\ B \in SUBSET Things /\ A \cap B = {}
            /\ Carried(w, f, P \cup {k}) = A \cup B
        <4>1. Carried(w, f, P) \in SUBSET Things /\ Carried(w, f, {k}) \in SUBSET Things
          BY <3>1, CarriedAre
        <4>2. /\ Carried(w, f, P) \cap Carried(w, f, {k}) = {}
              /\ Carried(w, f, P \cup {k}) = Carried(w, f, P) \cup Carried(w, f, {k})
          <5>1. ASSUME NEW S, S \in SUBSET Kits, NEW j, j \in Kits \ S
                PROVE  /\ Carried(w, f, S \cup {j}) = Carried(w, f, S) \cup Carried(w, f, {j})
                       /\ Carried(w, f, S) \cap Carried(w, f, {j}) = {}
            BY <5>1, CarriedAdds
          <5> HIDE DEF A, B, C
          <5> QED
            BY <3>1, <5>1
        <4> QED
          BY <4>1, <4>2
      <3>3. C(Q) = Carried(w, f, P \cup {k}) /\ C(Q \ {k}) = A /\ C({k}) = B
        BY <3>1 DEF P
      <3>4. C(Q) = A \cup B
        BY <3>2, <3>3
      <3> HIDE DEF A, B, C
      <3>5. WorthOf(w, c, A \cup B) = WorthOf(w, c, A) + WorthOf(w, c, B)
        BY <3>2, WorthOfBoth
      <3> QED
        BY <3>3, <3>4, <3>5
    <2>2. CASE k \notin f.kits
      <3>1. Q \cap f.kits = (Q \ {k}) \cap f.kits /\ {k} \cap f.kits = {} \cap f.kits
        BY <2>2
      <3>2. C(Q) = C(Q \ {k}) /\ C({k}) = {}
        BY <1>2, <3>1
      <3>3. WorthOf(w, c, C({k})) = 0 /\ WorthOf(w, c, C(Q)) \in Nat
        BY <1>3, <3>2, WorthAdds
      <3> HIDE DEF C
      <3> QED
        BY <3>2, <3>3
    <2> QED
      BY <2>1, <2>2
  <1>6. IsFiniteSet(Kits) /\ u \in [Kits -> Nat]
    <2>1. ASSUME NEW k \in Kits PROVE u[k] \in Nat
      <3>1. {k} \in SUBSET Kits
        OBVIOUS
      <3> HIDE DEF u, C
      <3>2. C({k}) \in SUBSET Things /\ u[k] = WorthOf(w, c, C({k}))
        BY <3>1, <1>3, <1>4
      <3>3. \A S \in SUBSET Things : WorthOf(w, c, S) \in Nat
        BY WorthAdds
      <3> QED
        BY <3>2, <3>3
    <2>2. u \in [Kits -> Nat]
      BY <2>1
    <2> QED
      BY <2>2, ManyThings
  <1>7. Added(u) = g[Kits]
    BY <1>6, AddedIsTotal
  <1>8. SumsOver(g, u, Kits)
    BY <1>6, TotalSums
  <1> HIDE DEF u, g, C
  <1>9. g[Kits] = WorthOf(w, c, C(Kits))
    <2> DEFINE Bad == {Q \in SUBSET Kits : g[Q] # WorthOf(w, c, C(Q))}
    <2>1. SUFFICES ASSUME g[Kits] # WorthOf(w, c, C(Kits)) PROVE FALSE
      OBVIOUS
    <2>2. PICK Q \in Bad : \A P \in Bad : P \subseteq Q => P = Q
      <3>1. Bad \in SUBSET SUBSET Kits /\ Kits \in Bad
        BY <2>1
      <3> HIDE DEF Bad
      <3> QED
        BY <3>1, <1>6, SmallestSet
    <2>3. Q # {}
      <3>1. g[{}] = 0 /\ WorthOf(w, c, C({})) = 0
        BY <1>2, <1>8, WorthAdds DEF SumsOver
      <3> QED
        BY <2>2, <3>1
    <2>4. PICK k \in Q : TRUE
      BY <2>3
    <2>5. g[Q \ {k}] = WorthOf(w, c, C(Q \ {k}))
      BY <2>2, <2>4
    <2>6. g[Q] = u[k] + g[Q \ {k}]
      BY <1>6, <1>8, <2>4, SumTakesAny
    <2>7. WorthOf(w, c, C(Q)) = WorthOf(w, c, C(Q \ {k})) + WorthOf(w, c, C({k}))
      BY <1>5, <2>4
    <2>8. /\ u[k] = WorthOf(w, c, C({k})) /\ u[k] \in Nat
          /\ WorthOf(w, c, C(Q \ {k})) \in Nat
      BY <1>3, <1>4, <1>6, <2>4, WorthAdds
    <2> QED
      BY <2>2, <2>5, <2>6, <2>7, <2>8
  <1>10. C(Kits) = Carried(w, f, f.kits)
    <2>1. Kits \cap f.kits = f.kits
      BY <1>3
    <2> QED
      BY <2>1 DEF C
  <1> QED
    BY <1>7, <1>9, <1>10 DEF u
-----------------------------------------------------------------------------
(* Create, step by step.                                                   *)

Prepares == {"render", "publish", "insert", "cleanup"}
Reported == {"publish", "insert", "cleanup", "answered", "dead"}
NoItems  == [k \in Kits |-> {}]

(* What has been read at a step, all of it of one state of the inventory.  *)
FoundAt(s, d, a, f) ==
    /\ s \in {"begin", "containers"} => f = NothingFound
    /\ s = "items" => f = [kits |-> KitsRead(d, a), items |-> NoItems, loose |-> {}]
    /\ s = "loose" => a = Location /\ f = [kits |-> KitsRead(d, a), items |-> ItemsRead(d, a), loose |-> {}]
    /\ s \in Prepares => f = ReadFrom(d, a)

(* A state of which the scope is neither less than what stayed in it nor   *)
(* more than what ever was.                                                *)
Between(d, a, lo, hi) == lo \subseteq ScopeOf(d, a) /\ ScopeOf(d, a) \subseteq hi

ScopeInv ==
    /\ ReportsTypeOK
    /\ Between(db, scope, stayed, ever)
    /\ step = "begin" => snapshot = None
    /\ step \in {"containers", "items", "loose"} \cup Prepares => snapshot # None
    /\ snapshot # None => Between(snapshot, scope, stayed, ever)
    /\ FoundAt(step, snapshot, scope, found)
    /\ report # NoReport => step \in Reported
    /\ step \in {"publish", "insert", "cleanup"} \/ answer = "created" \/ report # NoReport =>
          snapshot # None /\ found = ReadFrom(snapshot, scope) /\ report = ReportFrom(worth, found)
    /\ answer = "created" => step = "answered"

LEMMA ReadTyped ==
    ASSUME NEW d \in Inventories, NEW a
    PROVE  /\ KitsRead(d, a) \in SUBSET Kits /\ ItemsRead(d, a) \in [Kits -> SUBSET Items]
           /\ LooseRead(d, a) \in SUBSET Items /\ ScopeOf(d, a) \in SUBSET Items
  BY DEF Inventories, KitsRead, ItemsRead, LooseRead, ScopeOf

(* Whatever is asked for, and from any values of the counters.             *)
LEMMA RequestIsTyped ==
    ASSUME NEW d \in Placements, NEW s \in Scopes, NEW w \in [Things -> Worths], Requested(d, s, w),
           edits \in 0..MaxEdits, faults \in 0..MaxErrors
    PROVE  ScopeInv
  <1>1. d \in Inventories /\ d.located /\ d.kits = Kits /\ d.kitsHere \in SUBSET Kits
    BY DEF Placements, Inventories
  <1>2. Sound(d)
    BY <1>1 DEF Sound
  <1>3. ScopeOf(d, s) \in SUBSET Items /\ InScope(d) = ScopeOf(d, scope)
    BY <1>1, ReadTyped, ScopeIs
  <1>4. found \in [kits : SUBSET Kits, items : [Kits -> SUBSET Items], loose : SUBSET Items]
    BY DEF Requested, NothingFound
  <1>5. report.rows = {} /\ report.seen = {}
    BY DEF Requested, NoReport
  <1>6. ReportsTypeOK
    BY <1>1, <1>2, <1>3, <1>4, <1>5 DEF Requested, ReportsTypeOK, Things
  <1>7. FoundAt(step, snapshot, scope, found)
    BY DEF Requested, FoundAt, Prepares
  <1> QED
    BY <1>3, <1>6, <1>7 DEF ScopeInv, Requested, Between, Prepares

(* An edit leaves an inventory that could be.                              *)
LEMMA EditsAreSound ==
    ASSUME db \in Inventories, Sound(db), Edit
    PROVE  db' \in Inventories /\ Sound(db')
  <1> USE DEF Inventories, Sound
  <1>1. ASSUME NEW i \in Items, NEW k \in db.kits, db' = Packed(db, i, k)
        PROVE  db' \in Inventories /\ Sound(db')
    <2>1. \E S \in SUBSET Items : db' = [db EXCEPT !.contents[k] = S]
      BY <1>1 DEF Packed
    <2> QED
      BY <2>1
  <1>2. ASSUME NEW k \in db.kits, db' = KitDeleted(db, k)
        PROVE  db' \in Inventories /\ Sound(db')
    BY <1>2 DEF KitDeleted
  <1>3. ASSUME db' = LocationDeleted(db)
        PROVE  db' \in Inventories /\ Sound(db')
    BY <1>3 DEF LocationDeleted
  <1>4. ASSUME db.located, NEW i \in Items, db' = Moved(db, i)
        PROVE  db' \in Inventories /\ Sound(db')
    <2>1. \E S \in SUBSET Items : db' = [db EXCEPT !.here = S]
      BY <1>4 DEF Moved
    <2> QED
      BY <1>4, <2>1
  <1>5. ASSUME db.located, NEW k \in db.kits, db' = KitMoved(db, k)
        PROVE  db' \in Inventories /\ Sound(db')
    <2>1. \E S \in SUBSET db.kits : db' = [db EXCEPT !.kitsHere = S]
      BY <1>5 DEF KitMoved
    <2> QED
      BY <1>5, <2>1
  <1>6. \/ \E i \in Items, k \in db.kits : db' = Packed(db, i, k)
        \/ \E k \in db.kits : db' = KitDeleted(db, k)
        \/ db' = LocationDeleted(db)
        \/ db.located /\ \E i \in Items : db' = Moved(db, i)
        \/ db.located /\ \E k \in db.kits : db' = KitMoved(db, k)
    BY DEF Edit
  <1> QED
    BY <1>1, <1>2, <1>3, <1>4, <1>5, <1>6, Zenon

(* A step that reads nothing, edits nothing and prepares nothing, and the  *)
(* file is stored as it may be.                                            *)
LEMMA OthersKeepScope ==
    ASSUME ScopeInv, UNCHANGED <<db, asked, snapshot, found, report, history>>,
           ReportsTypeOK',
           answer' = "created" => step' = "answered" /\ (step = "insert" \/ answer = "created"),
           \/ step' = step
           \/ step' \in {"insert", "cleanup"} /\ step \in {"publish", "insert"}
           \/ step' \in {"answered", "dead"}
    PROVE  ScopeInv'
  <1>1. /\ db' = db /\ worth' = worth /\ scope' = scope /\ snapshot' = snapshot /\ found' = found
        /\ report' = report /\ stayed' = stayed /\ ever' = ever
    BY DEF asked, history
  <1>2. FoundAt(step', snapshot, scope, found)
    BY DEF ScopeInv, FoundAt, Prepares
  <1> HIDE DEF FoundAt
  <1> QED
    BY <1>1, <1>2 DEF ScopeInv, Between, Prepares, Reported

LEMMA FilesKeepScope ==
    ASSUME ScopeInv, RenderFails \/ Publish \/ PublishFails \/ InsertReport \/ InsertFails
                        \/ Cleanup \/ CleanupFails \/ ResolveFails \/ Crash
    PROVE  ScopeInv'
  <1> DEFINE Stored == /\ {temp, file} \subseteq {"none", "part", "whole"}
                       /\ {row, unsure, stuck} \subseteq BOOLEAN
                       /\ answer \in {"none", "created", "notFound", "failed"}
                       /\ edits \in 0..MaxEdits /\ faults \in 0..MaxErrors
             Moves == /\ answer' = "created" => step' = "answered" /\ (step = "insert" \/ answer = "created")
                      /\ \/ step' = step
                         \/ step' \in {"insert", "cleanup"} /\ step \in {"publish", "insert"}
                         \/ step' \in {"answered", "dead"}
  <1>1. UNCHANGED <<db, asked, snapshot, found, report, history>>
    BY Zenon DEF RenderFails, Publish, PublishFails, InsertReport, InsertFails, Cleanup, CleanupFails,
                 ResolveFails, Crash
  <1>2. Stored /\ (answer = "created" => step = "answered") /\ MaxErrors \in Nat
    BY ReportsAssumption DEF ScopeInv, ReportsTypeOK
  <1>3. Stored' /\ Moves
    <2> USE DEF Answers
    <2>1. CASE RenderFails
      BY <1>2, <2>1 DEF RenderFails
    <2>2. CASE Publish
      BY <1>2, <2>2 DEF Publish
    <2>3. CASE PublishFails
      BY <1>2, <2>3 DEF PublishFails
    <2>4. CASE InsertReport
      BY <1>2, <2>4 DEF InsertReport
    <2>5. CASE InsertFails
      BY <1>2, <2>5 DEF InsertFails
    <2>6. CASE Cleanup
      BY <1>2, <2>6 DEF Cleanup
    <2>7. CASE CleanupFails
      BY <1>2, <2>7 DEF CleanupFails
    <2>8. CASE ResolveFails
      BY <1>2, <2>8 DEF ResolveFails, store
    <2>9. CASE Crash
      BY <1>2, <2>9 DEF Crash
    <2> QED
      BY <2>1, <2>2, <2>3, <2>4, <2>5, <2>6, <2>7, <2>8, <2>9
  <1>4. ReportsTypeOK'
    BY <1>1, <1>3 DEF ScopeInv, ReportsTypeOK, asked, history
  <1> QED
    BY <1>1, <1>3, <1>4, OthersKeepScope

LEMMA EditKeepsScope ==
    ASSUME ScopeInv, Edit
    PROVE  ScopeInv'
  <1>1. db' \in Inventories /\ Sound(db')
    BY EditsAreSound DEF ScopeInv, ReportsTypeOK
  <1>2. /\ worth' = worth /\ scope' = scope /\ snapshot' = snapshot /\ found' = found
        /\ report' = report /\ step' = step /\ answer' = answer /\ faults' = faults
        /\ temp' = temp /\ file' = file /\ row' = row /\ unsure' = unsure /\ stuck' = stuck
    BY DEF Edit, asked, store
  <1>3. edits' \in 0..MaxEdits
    BY ReportsAssumption DEF Edit, ScopeInv, ReportsTypeOK
  <1>4. /\ stayed' = stayed \cap ScopeOf(db', scope) /\ ever' = ever \cup ScopeOf(db', scope)
        /\ ScopeOf(db', scope) \in SUBSET Items
    <2>1. InScope(db') = ScopeOf(db', scope)
      BY ScopeIs
    <2> QED
      BY <1>1, <2>1, ReadTyped DEF Edit
  <1>5. ReportsTypeOK'
    BY <1>1, <1>2, <1>3, <1>4 DEF ScopeInv, ReportsTypeOK
  <1>6. Between(db', scope, stayed', ever')
    BY <1>4 DEF Between
  <1>7. snapshot # None => Between(snapshot, scope, stayed', ever')
    BY <1>4 DEF ScopeInv, Between
  <1> HIDE DEF FoundAt, Between
  <1> QED
    BY <1>2, <1>5, <1>6, <1>7 DEF ScopeInv

(* The first statement of the transaction sees what is committed, and the  *)
(* others what it saw.                                                     *)
LEMMA SeesOneState ==
    ASSUME ScopeInv, NEW d, d = RepeatableRead
    PROVE  /\ d \in Inventories /\ d # None /\ Between(d, scope, stayed, ever)
           /\ snapshot # None => d = snapshot
  <1>1. db \in Inventories /\ None \notin Inventories /\ snapshot \in Inventories \cup {None}
    BY ReportsAssumption DEF ScopeInv, ReportsTypeOK
  <1> QED
    BY <1>1 DEF ScopeInv, RepeatableRead

LEMMA StatementsKeepScope ==
    ASSUME ScopeInv, GetLocation \/ ListContainers \/ HydrateContainers \/ ListLooseItems
    PROVE  ScopeInv'
  <1> DEFINE d == RepeatableRead
  <1>1. /\ d \in Inventories /\ d # None /\ Between(d, scope, stayed, ever)
        /\ snapshot # None => d = snapshot
    BY SeesOneState
  <1>2. UNCHANGED <<db, worth, scope, report, temp, file, row, unsure, stuck, edits, faults, stayed, ever>>
    BY Zenon DEF GetLocation, ListContainers, HydrateContainers, ListLooseItems, asked, store, history
  <1>3. KitsOf(d) = KitsRead(d, scope)
    BY ScopeIs
  <1> HIDE DEF d
  <1>4. /\ KitsRead(d, scope) \in SUBSET Kits /\ ItemsRead(d, scope) \in [Kits -> SUBSET Items]
        /\ LooseRead(d, scope) \in SUBSET Items
    BY <1>1, ReadTyped
  <1>5. /\ snapshot' = d /\ step' \in {"containers", "items", "loose", "render", "answered"}
        /\ answer' \in {answer, "notFound"} /\ FoundAt(step', d, scope, found')
        /\ found' \in [kits : SUBSET Kits, items : [Kits -> SUBSET Items], loose : SUBSET Items]
        /\ step \in {"begin", "containers", "items", "loose"}
    <2>0. /\ found \in [kits : SUBSET Kits, items : [Kits -> SUBSET Items], loose : SUBSET Items]
          /\ FoundAt(step, snapshot, scope, found)
          /\ step \in {"containers", "items", "loose"} => snapshot = d
      BY <1>1 DEF ScopeInv, ReportsTypeOK
    <2>1. CASE GetLocation
      <3>1. /\ snapshot' = d /\ step = "begin" /\ found' = found /\ answer' \in {answer, "notFound"}
            /\ step' \in {"containers", "answered"}
        BY <2>1 DEF GetLocation, Answers, d
      <3>2. found = NothingFound
        BY <2>0, <3>1 DEF FoundAt
      <3>3. FoundAt(step', d, scope, found')
        BY <3>1, <3>2 DEF FoundAt, Prepares
      <3> QED
        BY <2>0, <3>1, <3>3
    <2>2. CASE ListContainers
      <3>1. /\ snapshot' = d /\ step \in {"begin", "containers"} /\ step' \in {"items", "answered"}
            /\ answer' \in {answer, "notFound"} /\ found' = [found EXCEPT !.kits = KitsRead(d, scope)]
        BY <1>3, <2>2 DEF ListContainers, Answers, d
      <3>2. found = NothingFound
        BY <2>0, <3>1 DEF FoundAt
      <3>3. found' = [kits |-> KitsRead(d, scope), items |-> NoItems, loose |-> {}]
        BY <3>1, <3>2 DEF NothingFound, NoItems
      <3>4. FoundAt(step', d, scope, found')
        BY <3>1, <3>3 DEF FoundAt, Prepares
      <3>5. NoItems \in [Kits -> SUBSET Items]
        BY DEF NoItems
      <3>6. found' \in [kits : SUBSET Kits, items : [Kits -> SUBSET Items], loose : SUBSET Items]
        BY <1>4, <3>3, <3>5
      <3> QED
        BY <3>1, <3>4, <3>6
    <2>3. CASE HydrateContainers
      <3>1. /\ step = "items" /\ snapshot' = snapshot /\ answer' = answer
            /\ step' = IF scope = Location THEN "loose" ELSE "render"
        BY <2>3 DEF HydrateContainers
      <3>2. found = [kits |-> KitsRead(d, scope), items |-> NoItems, loose |-> {}] /\ snapshot = d
        BY <2>0, <3>1 DEF FoundAt
      <3>3. found' = [found EXCEPT !.items = ItemsRead(d, scope)]
        BY <2>3, <3>2 DEF HydrateContainers, ItemsRead, Earlier, d
      <3>4. found' = [kits |-> KitsRead(d, scope), items |-> ItemsRead(d, scope), loose |-> {}]
        BY <3>2, <3>3
      <3>5. FoundAt(step', d, scope, found')
        BY <3>1, <3>4 DEF FoundAt, Prepares, ReadFrom, LooseRead
      <3> QED
        BY <1>4, <3>1, <3>2, <3>4, <3>5
    <2>4. CASE ListLooseItems
      <3>1. /\ step = "loose" /\ snapshot' = snapshot /\ answer' = answer /\ step' = "render"
            /\ found' = [found EXCEPT !.loose = d.here \ Contained(d)]
        BY <2>4 DEF ListLooseItems, d
      <3>2. /\ found = [kits |-> KitsRead(d, scope), items |-> ItemsRead(d, scope), loose |-> {}]
            /\ snapshot = d /\ scope = Location
        BY <2>0, <3>1 DEF FoundAt
      <3>3. found' = ReadFrom(d, scope)
        BY <3>1, <3>2 DEF ReadFrom, LooseRead
      <3>4. FoundAt(step', d, scope, found')
        BY <3>1, <3>3 DEF FoundAt, Prepares
      <3> QED
        BY <1>4, <3>1, <3>2, <3>3, <3>4 DEF ReadFrom
    <2> QED
      BY <2>1, <2>2, <2>3, <2>4
  <1>6. report = NoReport /\ answer # "created"
    BY <1>5 DEF ScopeInv, Reported
  <1>7. ReportsTypeOK'
    BY <1>1, <1>2, <1>5 DEF ScopeInv, ReportsTypeOK
  <1> HIDE DEF FoundAt, Between
  <1> QED
    BY <1>1, <1>2, <1>5, <1>6, <1>7 DEF ScopeInv

LEMMA RenderKeepsScope ==
    ASSUME ScopeInv, Render
    PROVE  ScopeInv'
  <1>1. /\ UNCHANGED <<db, worth, scope, snapshot, found, file, row, unsure, stuck, answer, edits, faults,
                       stayed, ever>>
        /\ step = "render" /\ step' = "publish" /\ temp' = "whole" /\ report' = PrepareReport
    BY Zenon DEF Render, asked, history
  <1>2. snapshot \in Inventories /\ snapshot # None /\ found = ReadFrom(snapshot, scope)
    BY <1>1 DEF ScopeInv, ReportsTypeOK, FoundAt, Prepares
  <1>3. WellFound(found) /\ report' = ReportFrom(worth, found)
    BY <1>1, <1>2, ReadIsWell, ReportPrepared
  <1>4. ReportsTypeOK'
    BY <1>1, <1>3, ReportFromTyped DEF ScopeInv, ReportsTypeOK
  <1>5. FoundAt(step', snapshot, scope, found) /\ step' \in Reported /\ answer # "created"
    BY <1>1, <1>2 DEF ScopeInv, FoundAt, Prepares, Reported
  <1> HIDE DEF FoundAt, Between
  <1> QED
    BY <1>1, <1>2, <1>3, <1>4, <1>5 DEF ScopeInv, Reported

LEMMA ScopeStep ==
    ASSUME ScopeInv, [ReportsNext]_reportsVars
    PROVE  ScopeInv'
  <1>1. CASE UNCHANGED reportsVars
    BY <1>1 DEF reportsVars, asked, store, history, ScopeInv, ReportsTypeOK
  <1> QED
    BY <1>1, EditKeepsScope, StatementsKeepScope, RenderKeepsScope, FilesKeepScope DEF ReportsNext

(* A report of one state of the inventory covers the scope of that.        *)
LEMMA ScopeCovered == ScopeInv => CoversScope
  <1> SUFFICES ASSUME ScopeInv, answer = "created" PROVE CoversScope
    BY DEF CoversScope
  <1> DEFINE S == ScopeOf(snapshot, scope)
  <1>1. /\ snapshot \in Inventories /\ report = ReportFrom(worth, ReadFrom(snapshot, scope))
        /\ Between(snapshot, scope, stayed, ever)
    BY DEF ScopeInv, ReportsTypeOK
  <1>2. /\ \A i \in S : Cardinality({r \in report.rows : r[2] = i}) = 1
        /\ \A i : i \notin S => Cardinality({r \in report.rows : r[2] = i}) = 0
        /\ \A r \in report.rows : r[2] \in S
    BY <1>1, OneRowEach
  <1>3. stayed \subseteq S /\ S \subseteq ever
    BY <1>1 DEF Between
  <1> HIDE DEF S
  <1>4. \A i \in Items : Cardinality({r \in report.rows : r[2] = i}) <= 1
    <2>1. ASSUME NEW i \in Items PROVE Cardinality({r \in report.rows : r[2] = i}) \in {0, 1}
      BY <1>2
    <2> QED
      BY <2>1
  <1> QED
    BY <1>2, <1>3, <1>4 DEF CoversScope

(* Its totals are the values of what gives the scope a value, and what the *)
(* rows add up to, if each of them shows a value.                          *)
LEMMA TotalsCarried == ScopeInv => TotalsAddUp
  <1> SUFFICES ASSUME ScopeInv, report # NoReport, NEW c \in Currencies
               PROVE  /\ report.totals[c] = Sum(Carriers(snapshot), c)
                      /\ (\A k \in found.kits : RowsOf(k) # {} => report.values[k][1] # None) =>
                            report.totals[c] = Sum(RowsOf(None), c) +
                                Added([k \in Kits |->
                                    IF report.values[k][1] = c THEN report.values[k][2] ELSE 0])
    BY DEF TotalsAddUp, Prepared
  <1> DEFINE A == Carried(worth, found, found.kits)
             L == found.loose
  <1>1. /\ snapshot \in Inventories /\ found = ReadFrom(snapshot, scope)
        /\ report = ReportFrom(worth, found) /\ worth \in [Things -> Worths]
    BY DEF ScopeInv, ReportsTypeOK, Things
  <1>2. WellFound(found)
    BY <1>1, ReadIsWell
  <1>3. /\ A \in SUBSET Things /\ L \in SUBSET Things /\ A \cap L = {}
        /\ found.kits \in SUBSET Kits
    <2>1. found.kits \in SUBSET Kits /\ L \in SUBSET Items
      BY <1>2 DEF WellFound
    <2>2. A \in SUBSET Things /\ L \in SUBSET Things
      BY <1>2, <2>1, CarriedAre DEF Things
    <2>3. \A x \in A : x \notin L
      BY <1>2, ReportsAssumption DEF WellFound, Carried
    <2> QED
      BY <2>1, <2>2, <2>3
  <1>4. report.totals[c] = WorthOf(worth, c, A \cup L)
    BY <1>1 DEF ReportFrom
  <1>5. Carriers(snapshot) = A \cup L
    BY <1>1, CarriersCarried
  <1> HIDE DEF A, L
  <1>6. report.totals[c] = Sum(Carriers(snapshot), c)
    <2>1. A \cup L \in SUBSET Things
      BY <1>3
    <2>2. Sum(A \cup L, c) = WorthOf(worth, c, A \cup L)
      BY <2>1, SumComputed
    <2> QED
      BY <1>4, <1>5, <2>2
  <1>7. RowsOf(None) = L /\ \A k \in found.kits : RowsOf(k) = found.items[k]
    <2>1. \A r : r \in report.rows <=> \/ r \in Kits \X Items /\ r[1] \in found.kits /\ r[2] \in found.items[r[1]]
                                      \/ \E i \in L : r = <<None, i>>
      BY <1>1, <1>2, RowsFrom DEF L
    <2>2. RowsOf(None) = L
      <3>1. ASSUME NEW i \in RowsOf(None) PROVE i \in L
        BY <2>1, ReportsAssumption DEF RowsOf
      <3>2. ASSUME NEW i \in L PROVE i \in RowsOf(None)
        <4>1. <<None, i>> \in report.rows /\ <<None, i>>[1] = None /\ <<None, i>>[2] = i
          BY <2>1
        <4> QED
          BY <4>1 DEF RowsOf
      <3> QED
        BY <3>1, <3>2
    <2>3. ASSUME NEW k \in found.kits PROVE RowsOf(k) = found.items[k]
      <3>1. k \in Kits /\ k # None /\ found.items[k] \in SUBSET Items
        BY <1>2, <1>3, ReportsAssumption DEF WellFound
      <3>2. ASSUME NEW i \in RowsOf(k) PROVE i \in found.items[k]
        BY <2>1, <3>1 DEF RowsOf
      <3>3. ASSUME NEW i \in found.items[k] PROVE i \in RowsOf(k)
        <4>1. <<k, i>> \in report.rows /\ <<k, i>>[1] = k /\ <<k, i>>[2] = i
          BY <2>1, <3>1
        <4> QED
          BY <4>1 DEF RowsOf
      <3> QED
        BY <3>2, <3>3
    <2> QED
      BY <2>2, <2>3
  <1>8. ASSUME \A k \in found.kits : RowsOf(k) # {} => report.values[k][1] # None
        PROVE  report.totals[c] = Sum(RowsOf(None), c) +
                   Added([k \in Kits |-> IF report.values[k][1] = c THEN report.values[k][2] ELSE 0])
    <2> DEFINE v == report.values
    <2>1. v = ReportFrom(worth, found).values /\ \A k \in found.kits : found.items[k] # {} => v[k][1] # None
      BY <1>1, <1>7, <1>8
    <2> HIDE DEF v
    <2>2. Added([k \in Kits |-> IF v[k][1] = c THEN v[k][2] ELSE 0]) = WorthOf(worth, c, A)
      BY <1>1, <1>2, <2>1, KitsAddUp DEF A
    <2>3. Sum(RowsOf(None), c) = WorthOf(worth, c, L)
      BY <1>3, <1>7, SumComputed
    <2>4. /\ WorthOf(worth, c, A \cup L) = WorthOf(worth, c, A) + WorthOf(worth, c, L)
          /\ WorthOf(worth, c, A) \in Nat /\ WorthOf(worth, c, L) \in Nat
      BY <1>3, WorthOfBoth
    <2> QED
      BY <1>4, <2>2, <2>3, <2>4 DEF v
  <1> QED
    BY <1>6, <1>8

(* The values of the variables of a request, whatever it is for.           *)
THEOREM ReportsAreTyped == ReportsSpec => []ReportsTypeOK
  <1>1. ReportsInit => ScopeInv
    BY RequestIsTyped, ReportsAssumption DEF ReportsInit, Things
  <1>2. ScopeInv /\ [ReportsNext]_reportsVars => ScopeInv'
    BY ScopeStep
  <1>3. ScopeInv => ReportsTypeOK
    BY DEF ScopeInv
  <1> QED
    BY <1>1, <1>2, <1>3, PTL DEF ReportsSpec

(* However the inventory is edited while the scope is read: a report that  *)
(* is created has a row for each item that was in the scope all the time,  *)
(* none for one that never was, and the totals are the values of the kits  *)
(* and items that count, each counted once.                                *)
THEOREM ReportsCountTheirScope == ReportsSpec => []ReportCountsScope
  <1>1. ReportsInit => ScopeInv
    BY RequestIsTyped, ReportsAssumption DEF ReportsInit, Things
  <1>2. ScopeInv /\ [ReportsNext]_reportsVars => ScopeInv'
    BY ScopeStep
  <1>3. ScopeInv => ReportCountsScope
    BY ScopeCovered, TotalsCarried DEF ReportCountsScope
  <1> QED
    BY <1>1, <1>2, <1>3, PTL DEF ReportsSpec
-----------------------------------------------------------------------------
(* Reports: what is stored, at each step of Create.                        *)

(* What Create has done when it is at a step.                              *)
Nothing == temp = "none" /\ file = "none" /\ ~row /\ ~unsure /\ ~stuck
StoredBy(s) ==
    CASE s = "publish" -> temp = "whole" /\ file = "none" /\ ~row /\ ~unsure /\ ~stuck
      [] s = "insert"  -> temp = "none" /\ file = "whole" /\ ~row /\ ~unsure /\ ~stuck
      [] s = "cleanup" -> temp = "none" /\ file = "whole" /\ row = unsure /\ ~stuck
      [] OTHER         -> Nothing

OutcomeInv ==
    /\ {row, unsure, stuck} \subseteq BOOLEAN
    /\ step \notin {"answered", "dead"} => StoredBy(step) /\ answer = "none"
    /\ step = "dead" => answer = "none"
    /\ OutcomeIsTrue

LEMMA OutcomeInitial == ReportsInit => OutcomeInv
  BY DEF ReportsInit, Requested, OutcomeInv, OutcomeIsTrue, StoredBy, Nothing

LEMMA OutcomeStep ==
    ASSUME OutcomeInv, [ReportsNext]_reportsVars
    PROVE  OutcomeInv'
  <1> USE DEF OutcomeInv, OutcomeIsTrue, StoredBy, Nothing, Listed, Answers
  <1>1. ASSUME Edit \/ UNCHANGED reportsVars PROVE OutcomeInv'
    BY <1>1 DEF Edit, store, reportsVars
  <1>2. ASSUME GetLocation \/ ListContainers PROVE OutcomeInv'
    BY <1>2 DEF GetLocation, ListContainers, store
  <1>3. ASSUME HydrateContainers \/ ListLooseItems PROVE OutcomeInv'
    BY <1>3 DEF HydrateContainers, ListLooseItems, store
  <1>4. ASSUME ResolveFails PROVE OutcomeInv'
    BY <1>4 DEF ResolveFails, Reading, store
  <1>5. ASSUME Render \/ RenderFails PROVE OutcomeInv'
    <2>1. CASE Render
      BY <2>1 DEF Render
    <2>2. CASE RenderFails
      BY <2>2 DEF RenderFails
    <2> QED
      BY <1>5, <2>1, <2>2
  <1>6. ASSUME Publish \/ PublishFails PROVE OutcomeInv'
    <2>1. CASE Publish
      BY <2>1 DEF Publish
    <2>2. CASE PublishFails
      BY <2>2 DEF PublishFails
    <2> QED
      BY <1>6, <2>1, <2>2
  <1>7. ASSUME InsertReport \/ InsertFails PROVE OutcomeInv'
    BY <1>7 DEF InsertReport, InsertFails
  <1>8. ASSUME Cleanup \/ CleanupFails PROVE OutcomeInv'
    <2>1. CASE Cleanup
      BY <2>1 DEF Cleanup
    <2>2. CASE CleanupFails
      BY <2>2 DEF CleanupFails
    <2> QED
      BY <1>8, <2>1, <2>2
  <1>9. ASSUME Crash PROVE OutcomeInv'
    BY <1>9 DEF Crash
  <1> QED
    BY <1>1, <1>2, <1>3, <1>4, <1>5, <1>6, <1>7, <1>8, <1>9 DEF ReportsNext

(* Whatever is asked for, and however many statements and operations on    *)
(* files fail: a report that was created is listed, and one that failed    *)
(* left nothing but what OutcomeIsTrue excepts.                            *)
THEOREM ReportsAreAsAnswered == ReportsSpec => []OutcomeIsTrue
  <1>1. OutcomeInv /\ [ReportsNext]_reportsVars => OutcomeInv'
    BY OutcomeStep
  <1>2. OutcomeInv => OutcomeIsTrue
    BY DEF OutcomeInv
  <1> QED
    BY <1>1, <1>2, OutcomeInitial, PTL DEF ReportsSpec
=============================================================================

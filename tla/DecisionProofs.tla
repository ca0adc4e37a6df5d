--------------------------- MODULE DecisionProofs ---------------------------
(***************************************************************************)
(* Proofs about the pure functions of Routing, Params, Persons and         *)
(* Contacts: what they answer to any input, where TLC asks them the        *)
(* questions of Decisions and PersonRules.                                 *)
(***************************************************************************)
EXTENDS Decisions, PersonRules, FiniteSetTheorems, TLAPS

-----------------------------------------------------------------------------
(* Weights: the fold of TotalWeight is a sum, whatever the order in which  *)
(* it takes the items.                                                     *)

Plus(x, y) == x + y
WeightOf(items, k) == items[k].weight
AnyOf(s) == CHOOSE x \in s : TRUE

Weighing == INSTANCE FoldProofs WITH Op <- Plus, Base <- 0, Val <- WeightOf, Choose <- AnyOf

LEMMA LeastPart ==
    ASSUME NEW S, IsFiniteSet(S), NEW B, B \subseteq SUBSET S, B # {}
    PROVE  \E s \in B : \A t \in B : t \subseteq s => t = s
<1>1. Weighing!IsFiniteSet(S) BY DEF IsFiniteSet, Weighing!IsFiniteSet
<1> QED BY <1>1, Weighing!LeastSubset

Weighed(items, among) == IsFiniteSet(among) /\ \A k \in among : items[k].weight \in Nat

LEMMA WeighedParts ==
    ASSUME NEW items, NEW among, Weighed(items, among), NEW part \in SUBSET among
    PROVE  Weighed(items, part)
BY FS_Subset DEF Weighed

Unfolds(items, s) ==
    /\ TotalWeight(items, {}) = 0
    /\ s # {} => /\ AnyOf(s) \in s
                 /\ TotalWeight(items, s) = items[AnyOf(s)].weight + TotalWeight(items, s \ {AnyOf(s)})

LEMMA SumSteps ==
    ASSUME NEW items, NEW among, Weighed(items, among) PROVE Unfolds(items, among)
<1>1. \A s : TotalWeight(items, s) = Weighing!Fold(items, s)
  BY DEF TotalWeight, MapThenSumSet, MapThenFoldSet, Plus, WeightOf, AnyOf,
         Weighing!Fold, Weighing!FoldOn, Weighing!IsFold
<1>2. Weighing!Chooses(among) BY DEF Weighing!Chooses, AnyOf
<1>3. Weighing!Fold(items, {}) = 0 /\ (among # {} => Weighing!Fold(items, among)
          = Plus(WeightOf(items, AnyOf(among)), Weighing!Fold(items, among \ {AnyOf(among)})))
  <2>1. Weighing!IsFiniteSet(among) BY DEF Weighed, IsFiniteSet, Weighing!IsFiniteSet
  <2> QED BY <1>2, <2>1, Weighing!FoldSteps
<1> QED BY <1>1, <1>3 DEF Plus, WeightOf, AnyOf, Unfolds

LEMMA SumIsNatural ==
    ASSUME NEW items, NEW among, Weighed(items, among)
    PROVE  TotalWeight(items, among) \in Nat
<1> DEFINE B == {s \in SUBSET among : TotalWeight(items, s) \notin Nat}
<1> SUFFICES ASSUME B # {} PROVE FALSE OBVIOUS
<1>1. \E s \in B : \A t \in B : t \subseteq s => t = s
  <2>1. B \subseteq SUBSET among /\ IsFiniteSet(among) BY DEF Weighed
  <2> HIDE DEF B
  <2> QED BY <2>1, LeastPart
<1> PICK s \in B : \A t \in B : t \subseteq s => t = s BY <1>1
<1>2. Weighed(items, s) BY WeighedParts
<1>8. Unfolds(items, s) BY <1>2, SumSteps
<1>3. s # {}
  <2>1. TotalWeight(items, {}) = 0 BY <1>8 DEF Unfolds
  <2>2. TotalWeight(items, s) \notin Nat OBVIOUS
  <2>3. s = {} => TotalWeight(items, s) = 0 BY <2>1, Zenon
  <2> QED BY <2>2, <2>3
<1>4. AnyOf(s) \in s /\ TotalWeight(items, s) = items[AnyOf(s)].weight + TotalWeight(items, s \ {AnyOf(s)})
  BY <1>3, <1>8 DEF Unfolds
<1>5. s \ {AnyOf(s)} \notin B BY <1>4
<1>6. TotalWeight(items, s \ {AnyOf(s)}) \in Nat BY <1>5
<1>7. items[AnyOf(s)].weight \in Nat BY <1>2, <1>4 DEF Weighed
<1> QED BY <1>4, <1>6, <1>7

LEMMA SumTakesAny ==
    ASSUME NEW items, NEW among, Weighed(items, among), NEW y \in among
    PROVE  TotalWeight(items, among) = items[y].weight + TotalWeight(items, among \ {y})
<1> DEFINE B == {s \in SUBSET among :
                   \E x \in s : TotalWeight(items, s) # items[x].weight + TotalWeight(items, s \ {x})}
<1> SUFFICES ASSUME B # {} PROVE FALSE OBVIOUS
<1>1. \E s \in B : \A t \in B : t \subseteq s => t = s
  <2>1. B \subseteq SUBSET among /\ IsFiniteSet(among) BY DEF Weighed
  <2> HIDE DEF B
  <2> QED BY <2>1, LeastPart
<1> PICK s \in B : \A t \in B : t \subseteq s => t = s BY <1>1
<1> PICK x \in s : TotalWeight(items, s) # items[x].weight + TotalWeight(items, s \ {x}) OBVIOUS
<1>2. Weighed(items, s) BY WeighedParts
<1> DEFINE c == AnyOf(s)
           total(t) == TotalWeight(items, t)
<1>3. c \in s /\ total(s) = items[c].weight + total(s \ {c}) BY <1>2, SumSteps DEF Unfolds
<1>4. c # x BY <1>3
<1>5. s \ {c} \notin B /\ s \ {x} \notin B BY <1>3
<1>6. total(s \ {c}) = items[x].weight + total((s \ {c}) \ {x}) BY <1>4, <1>5
<1>7. total(s \ {x}) = items[c].weight + total((s \ {x}) \ {c}) BY <1>3, <1>4, <1>5
<1>8. (s \ {c}) \ {x} = (s \ {x}) \ {c} OBVIOUS
<1>9. /\ items[c].weight \in Nat /\ items[x].weight \in Nat
      /\ total((s \ {x}) \ {c}) \in Nat
  <2>1. Weighed(items, (s \ {x}) \ {c}) BY <1>2, WeighedParts
  <2> QED BY <1>2, <1>3, <2>1, SumIsNatural DEF Weighed
<1>10. total(s) # items[x].weight + total(s \ {x}) OBVIOUS
<1> DEFINE u == items[c].weight
           v == items[x].weight
           w == total((s \ {x}) \ {c})
<1>11. u \in Nat /\ v \in Nat /\ w \in Nat BY <1>9
<1>12. total(s) = u + (v + w) /\ total(s) # v + (u + w)
  <2> HIDE DEF total, c
  <2> QED BY <1>3, <1>6, <1>7, <1>8, <1>10
<1> HIDE DEF u, v, w, total
<1> QED BY <1>11, <1>12

\* Of two sets of items the larger weighs as much, or more; the same when the rest weighs nothing.
LEMMA SumGrows ==
    ASSUME NEW items, NEW among, Weighed(items, among), NEW part \in SUBSET among
    PROVE  /\ TotalWeight(items, part) <= TotalWeight(items, among)
           /\ (\A k \in among \ part : items[k].weight = 0) =>
                 TotalWeight(items, part) = TotalWeight(items, among)
<1> DEFINE total(t) == TotalWeight(items, t)
           holds(t) == /\ total(part) <= total(t)
                       /\ (\A k \in t \ part : items[k].weight = 0) => total(part) = total(t)
           B == {s \in SUBSET among : part \subseteq s /\ ~holds(s)}
<1> SUFFICES ASSUME B # {} PROVE FALSE OBVIOUS
<1>1. \E s \in B : \A t \in B : t \subseteq s => t = s
  <2>1. B \subseteq SUBSET among /\ IsFiniteSet(among) BY DEF Weighed
  <2> HIDE DEF B
  <2> QED BY <2>1, LeastPart
<1> PICK s \in B : \A t \in B : t \subseteq s => t = s BY <1>1
<1>2. Weighed(items, s) /\ Weighed(items, part) BY WeighedParts
<1>3. total(s) \in Nat /\ total(part) \in Nat BY <1>2, SumIsNatural
<1>4. s # part BY <1>3
<1> PICK x \in s \ part : TRUE BY <1>4
<1>5. total(s) = items[x].weight + total(s \ {x}) BY <1>2, SumTakesAny
<1>6. holds(s \ {x}) BY s \ {x} \notin B
<1>7. items[x].weight \in Nat /\ total(s \ {x}) \in Nat
  <2>1. Weighed(items, s \ {x}) BY <1>2, WeighedParts
  <2> QED BY <1>2, <2>1, SumIsNatural DEF Weighed
<1>8. ~holds(s) OBVIOUS
<1> HIDE DEF total
<1> QED BY <1>3, <1>5, <1>6, <1>7, <1>8

-----------------------------------------------------------------------------
(* Draws.                                                                  *)

LEMMA Extremes ==
    ASSUME NEW S, \A x \in S : x \in Int, IsFiniteSet(S), S # {}
    PROVE  /\ Min(S) \in S /\ \A y \in S : Min(S) <= y
           /\ Max(S) \in S /\ \A y \in S : Max(S) >= y
<1>1. \E x \in S : \A y \in S : x <= y
  <2> DEFINE below(k) == {j \in S : j < k}
             B == {below(k) : k \in S}
  <2>1. B \subseteq SUBSET S /\ B # {} /\ IsFiniteSet(S) OBVIOUS
  <2>2. PICK s \in B : \A t \in B : t \subseteq s => t = s
    <3> HIDE DEF B, below
    <3> QED BY <2>1, LeastPart
  <2>3. PICK k \in S : s = below(k) OBVIOUS
  <2>4. ASSUME NEW j \in S, j < k PROVE FALSE
    <3>1. below(j) \in B OBVIOUS
    <3>2. \A i \in below(j) : i \in s
      <4>1. j \in Int /\ k \in Int OBVIOUS
      <4>2. \A i \in S : i \in Int OBVIOUS
      <4> QED BY <2>3, <2>4, <4>1, <4>2
    <3>3. j \in s /\ j \notin below(j) BY <2>3, <2>4
    <3> QED BY <2>2, <3>1, <3>2, <3>3
  <2> QED BY <2>4
<1>2. \E x \in S : \A y \in S : x >= y
  <2> DEFINE above(k) == {j \in S : j > k}
             B == {above(k) : k \in S}
  <2>1. B \subseteq SUBSET S /\ B # {} /\ IsFiniteSet(S) OBVIOUS
  <2>2. PICK s \in B : \A t \in B : t \subseteq s => t = s
    <3> HIDE DEF B, above
    <3> QED BY <2>1, LeastPart
  <2>3. PICK k \in S : s = above(k) OBVIOUS
  <2>4. ASSUME NEW j \in S, j > k PROVE FALSE
    <3>1. above(j) \in B OBVIOUS
    <3>2. \A i \in above(j) : i \in s
      <4>1. j \in Int /\ k \in Int OBVIOUS
      <4>2. \A i \in S : i \in Int OBVIOUS
      <4> QED BY <2>3, <2>4, <4>1, <4>2
    <3>3. j \in s /\ j \notin above(j) BY <2>3, <2>4
    <3> QED BY <2>2, <3>1, <3>2, <3>3
  <2> QED BY <2>4
<1> QED BY <1>1, <1>2 DEF Min, Max

Upto(items, pool, k) == TotalWeight(items, {j \in pool : j <= k})
Before(items, pool, k) == TotalWeight(items, {j \in pool : j < k})

LEMMA UptoSteps ==
    ASSUME NEW items, NEW pool, \A i \in pool : i \in Nat, Weighed(items, pool), NEW k \in pool
    PROVE  /\ Before(items, pool, k) \in Nat /\ items[k].weight \in Nat
           /\ Upto(items, pool, k) = items[k].weight + Before(items, pool, k)
           /\ Upto(items, pool, k) <= TotalWeight(items, pool)
<1> DEFINE upto == {j \in pool : j <= k}
           before == {j \in pool : j < k}
<1>0. k <= k /\ \A i \in pool : i < k <=> i <= k /\ i # k
  <2>1. k \in Nat /\ \A i \in pool : i \in Nat OBVIOUS
  <2> HIDE DEF upto, before
  <2> QED BY <2>1
<1>1. upto \in SUBSET pool /\ before \in SUBSET pool /\ k \in upto /\ before = upto \ {k} BY <1>0
<1>2. Weighed(items, upto) /\ Weighed(items, before) BY <1>1, WeighedParts
<1>3. items[k].weight \in Nat BY DEF Weighed
<1> HIDE DEF upto, before
<1>4. TotalWeight(items, before) \in Nat BY <1>2, SumIsNatural
<1>5. TotalWeight(items, upto) = items[k].weight + TotalWeight(items, before) BY <1>1, <1>2, SumTakesAny
<1>6. TotalWeight(items, upto) <= TotalWeight(items, pool) BY <1>1, SumGrows
<1> QED BY <1>3, <1>4, <1>5, <1>6 DEF Upto, Before, upto, before

LEMMA BeforeLater ==
    ASSUME NEW items, NEW pool, \A i \in pool : i \in Nat, Weighed(items, pool),
           NEW j \in pool, NEW k \in pool, j < k
    PROVE  Upto(items, pool, j) <= Before(items, pool, k)
<1> DEFINE upto == {i \in pool : i <= j}
           before == {i \in pool : i < k}
<1>0. \A i \in pool : i <= j => i < k
  <2>1. j \in Nat /\ k \in Nat /\ \A i \in pool : i \in Nat OBVIOUS
  <2> QED BY <2>1
<1>1. before \in SUBSET pool /\ upto \in SUBSET before BY <1>0
<1>2. Weighed(items, before) BY <1>1, WeighedParts
<1> HIDE DEF upto, before
<1>3. TotalWeight(items, upto) <= TotalWeight(items, before) BY <1>1, <1>2, SumGrows
<1> QED BY <1>3 DEF Upto, Before, upto, before

LEMMA BeforeIsReached ==
    ASSUME NEW items, NEW pool, \A i \in pool : i \in Nat, Weighed(items, pool), NEW k \in pool
    PROVE  \/ Before(items, pool, k) = 0
           \/ \E j \in pool : j < k /\ Upto(items, pool, j) = Before(items, pool, k)
<1> DEFINE before == {i \in pool : i < k}
<1>1. CASE before = {}
  <2>1. Unfolds(items, pool) BY SumSteps
  <2>2. TotalWeight(items, {}) = 0 BY <2>1 DEF Unfolds
  <2>3. Before(items, pool, k) = 0 BY <1>1, <2>2 DEF Before
  <2> QED BY <2>3
<1>2. CASE before # {}
  <2>1. (\A x \in before : x \in Int) /\ IsFiniteSet(before)
    <3>1. before \subseteq pool /\ IsFiniteSet(pool) BY DEF Weighed
    <3>2. IsFiniteSet(before) BY <3>1, FS_Subset
    <3> QED BY <3>2
  <2> DEFINE j == Max(before)
  <2>2. j \in before /\ \A y \in before : j >= y
    <3> HIDE DEF before
    <3> QED BY <1>2, <2>1, Extremes
  <2>3. j \in pool /\ j < k BY <2>2
  <2>4. {i \in pool : i <= j} = before
    <3> HIDE DEF j
    <3>1. ASSUME NEW i \in pool PROVE i <= j <=> i < k
      <4>1. i \in Nat /\ j \in Nat /\ k \in Nat BY <2>3
      <4>2. i < k => i <= j BY <2>2, <4>1
      <4> QED BY <2>3, <4>1, <4>2
    <3> QED BY <3>1
  <2>5. Upto(items, pool, j) = Before(items, pool, k) BY <2>4 DEF Upto, Before
  <2> QED BY <2>3, <2>5
<1> QED BY <1>1, <1>2

\* An item is picked by the numbers from the weights before it up to its own.
LEMMA PicksByWeight ==
    ASSUME NEW items, NEW among, \A i \in among : i \in Nat, Weighed(items, among),
           NEW n \in Nat, n < TotalWeight(items, among)
    PROVE  LET pool == {k \in among : items[k].weight > 0}
           IN  /\ PickWeighted(items, among, n) \in pool
               /\ \A k \in pool : PickWeighted(items, among, n) = k
                                    <=> Before(items, pool, k) <= n /\ n < Upto(items, pool, k)
<1> DEFINE pool == {k \in among : items[k].weight > 0}
           passed == {k \in pool : Upto(items, pool, k) > n}
<1>1. pool \in SUBSET among /\ (\A i \in pool : i \in Nat /\ i \in Int) OBVIOUS
<1>2. Weighed(items, pool) BY <1>1, WeighedParts
<1>3. TotalWeight(items, pool) = TotalWeight(items, among)
  <2>1. \A k \in among \ pool : items[k].weight = 0 BY DEF Weighed
  <2> QED BY <1>1, <2>1, SumGrows
<1>4. pool # {}
  <2>1. Unfolds(items, pool) BY <1>2, SumSteps
  <2>2. TotalWeight(items, {}) = 0 BY <2>1 DEF Unfolds
  <2>3. TotalWeight(items, pool) > 0
    <3>1. TotalWeight(items, among) \in Nat BY SumIsNatural
    <3> QED BY <1>3, <3>1
  <2>4. pool = {} => TotalWeight(items, pool) = 0 BY <2>2, Zenon
  <2> QED BY <2>3, <2>4
<1>5. Max(pool) \in passed
  <2>1. Max(pool) \in pool /\ \A y \in pool : Max(pool) >= y
    <3> HIDE DEF pool
    <3> QED BY <1>1, <1>2, <1>4, Extremes DEF Weighed
  <2>2. {j \in pool : j <= Max(pool)} = pool
    <3> HIDE DEF pool
    <3> QED BY <1>1, <2>1
  <2>3. Upto(items, pool, Max(pool)) = TotalWeight(items, pool) BY <2>2 DEF Upto
  <2>4. TotalWeight(items, pool) > n
    <3>1. TotalWeight(items, among) \in Nat BY SumIsNatural
    <3> QED BY <1>3, <3>1
  <2> QED BY <2>1, <2>3, <2>4
<1> DEFINE got == PickWeighted(items, among, n)
<1>6. got = Min(passed) BY <1>4, <1>5 DEF PickWeighted, Upto
<1>7. got \in passed /\ \A y \in passed : got <= y
  <2>1. passed \subseteq pool OBVIOUS
  <2>2. (\A x \in passed : x \in Int) /\ IsFiniteSet(passed) BY <1>1, <1>2, <2>1, FS_Subset DEF Weighed
  <2> HIDE DEF passed, got
  <2> QED BY <1>5, <1>6, <2>2, Extremes
<1>8. ASSUME NEW k \in pool PROVE got = k <=> Before(items, pool, k) <= n /\ n < Upto(items, pool, k)
  <2> HIDE DEF got, pool
  <2> DEFINE before(j) == Before(items, pool, j)
             upto(j) == Upto(items, pool, j)
  <2>1. \A j \in pool : before(j) \in Nat /\ upto(j) \in Nat
    <3>1. ASSUME NEW j \in pool PROVE before(j) \in Nat /\ upto(j) \in Nat
      <4>1. /\ Before(items, pool, j) \in Nat /\ items[j].weight \in Nat
            /\ Upto(items, pool, j) = items[j].weight + Before(items, pool, j)
        BY <1>1, <1>2, UptoSteps
      <4> QED BY <4>1
    <3> QED BY <3>1
  <2>2. ASSUME got = k PROVE before(k) <= n /\ n < upto(k)
    <3>1. n < upto(k) BY <1>7, <2>1, <2>2
    <3>2. before(k) = 0 \/ \E j \in pool : j < k /\ upto(j) = before(k)
      BY <1>1, <1>2, BeforeIsReached
    <3>3. ASSUME NEW j \in pool, j < k PROVE upto(j) <= n
      <4>1. k \in Nat /\ j \in Nat BY <1>1
      <4>2. j \notin passed BY <1>7, <2>2, <3>3, <4>1
      <4> QED BY <2>1, <4>2
    <3> HIDE DEF before, upto
    <3> QED BY <2>1, <3>1, <3>2, <3>3
  <2>3. ASSUME before(k) <= n, n < upto(k) PROVE got = k
    <3>1. k \in passed BY <2>1, <2>3
    <3>2. got \in pool /\ got <= k BY <1>7, <3>1
    <3>3. ASSUME got < k PROVE FALSE
      <4>1. upto(got) <= before(k) BY <1>1, <1>2, <3>2, <3>3, BeforeLater
      <4>2. upto(got) > n BY <1>7
      <4> HIDE DEF before, upto
      <4> QED BY <2>1, <2>3, <3>2, <4>1, <4>2
    <3> QED BY <1>1, <3>2, <3>3
  <2> QED BY <2>2, <2>3
<1> QED BY <1>7, <1>8

\* An item is drawn as often as its weight says.
LEMMA DrawsAreFair ==
    ASSUME NEW items, NEW among, \A i \in among : i \in Nat, Weighed(items, among), NEW k \in among
    PROVE  Cardinality({n \in 0 .. TotalWeight(items, among) - 1 : PickWeighted(items, among, n) = k})
               = items[k].weight
<1> DEFINE pool == {j \in among : items[j].weight > 0}
           total == TotalWeight(items, among)
           draws == {n \in 0 .. total - 1 : PickWeighted(items, among, n) = k}
<1>0. total \in Nat BY SumIsNatural
<1>1. ASSUME NEW n \in 0 .. total - 1
      PROVE  /\ PickWeighted(items, among, n) \in pool
             /\ k \in pool => (PickWeighted(items, among, n) = k
                                 <=> Before(items, pool, k) <= n /\ n < Upto(items, pool, k))
  <2>1. n \in Nat /\ n < TotalWeight(items, among) BY <1>0
  <2> QED BY <2>1, PicksByWeight
<1>2. CASE k \notin pool
  <2>1. items[k].weight = 0 BY <1>2 DEF Weighed
  <2>2. draws = {} BY <1>1, <1>2
  <2> QED BY <2>1, <2>2, FS_EmptySet
<1>3. CASE k \in pool
  <2> DEFINE before == Before(items, pool, k)
             upto == Upto(items, pool, k)
  <2>1. pool \in SUBSET among /\ (\A i \in pool : i \in Nat) OBVIOUS
  <2>2. Weighed(items, pool) BY <2>1, WeighedParts
  <2>3. before \in Nat /\ items[k].weight \in Nat /\ upto = items[k].weight + before
        /\ upto <= TotalWeight(items, pool)
    <3> HIDE DEF pool
    <3> QED BY <1>3, <2>1, <2>2, UptoSteps
  <2>4. TotalWeight(items, pool) <= total /\ TotalWeight(items, pool) \in Nat
    <3> HIDE DEF pool
    <3> QED BY <2>1, <2>2, SumGrows, SumIsNatural
  <2>5. upto <= total
    <3> HIDE DEF upto, total, before, pool
    <3> QED BY <1>0, <2>3, <2>4
  <2>6. draws = before .. (upto - 1)
    <3>1. \A n \in 0 .. total - 1 : n \in draws <=> before <= n /\ n < upto BY <1>1, <1>3
    <3>2. draws \subseteq 0 .. total - 1 OBVIOUS
    <3> HIDE DEF draws, before, upto, total, pool
    <3>3. upto \in Nat BY <2>3
    <3>4. \A n \in before .. (upto - 1) : n \in 0 .. total - 1 /\ before <= n /\ n < upto
      BY <1>0, <2>3, <2>5, <3>3
    <3>5. \A n \in draws : n \in before .. (upto - 1) BY <1>0, <2>3, <3>1, <3>2, <3>3
    <3> QED BY <3>1, <3>4, <3>5
  <2>7. Cardinality(before .. (upto - 1)) = items[k].weight
    <3> HIDE DEF before, upto, pool
    <3>1. before \in Int /\ upto - 1 \in Int BY <2>3
    <3>2. Cardinality(before .. (upto - 1)) = IF before > upto - 1 THEN 0 ELSE (upto - 1) - before + 1
      BY <3>1, FS_Interval
    <3> QED BY <2>3, <3>2
  <2> QED BY <2>6, <2>7
<1> QED BY <1>2, <1>3

-----------------------------------------------------------------------------
(* Routes.                                                                 *)

LEMMA NoItems == DOMAIN <<>> = {}
<1>1. <<>> \in Seq({}) /\ Len(<<>>) = 0 OBVIOUS
<1>2. DOMAIN <<>> = 1 .. 0 BY <1>1
<1> QED BY <1>2
LEMMA OneItem == ASSUME NEW a PROVE DOMAIN <<a>> = {1}
<1>1. DOMAIN <<a>> = 1 .. 1 OBVIOUS
<1> QED BY <1>1
LEMMA TwoItems == ASSUME NEW a, NEW b PROVE DOMAIN <<a, b>> = {1, 2}
<1>1. DOMAIN <<a, b>> = 1 .. 2 OBVIOUS
<1> QED BY <1>1

Indices(s) == IsFiniteSet(s) /\ \A k \in s : k \in Nat /\ k # 0

LEMMA PicksOfPool ==
    ASSUME NEW items, NEW among, Indices(among), NEW target,
           {k \in among : items[k].weight > 0} # {}
    PROVE  /\ PickWeighted(items, among, target) \in among
           /\ items[PickWeighted(items, among, target)].weight > 0
<1> DEFINE pool == {k \in among : items[k].weight > 0}
           passed == {k \in pool : TotalWeight(items, {j \in pool : j <= k}) > target}
<1>1. pool # {} OBVIOUS
<1>2. IsFiniteSet(pool) /\ IsFiniteSet(passed) /\ \A k \in pool : k \in Int
  <2>1. pool \subseteq among /\ passed \subseteq among OBVIOUS
  <2> HIDE DEF pool, passed
  <2> QED BY <2>1, FS_Subset DEF Indices
<1>3. Max(pool) \in pool
  <2> HIDE DEF pool
  <2> QED BY <1>1, <1>2, Extremes
<1>4. passed # {} => Min(passed) \in pool
  <2>1. \A k \in passed : k \in Int /\ k \in pool BY <1>2
  <2> HIDE DEF pool, passed
  <2> QED BY <1>2, <2>1, Extremes
<1>5. PickWeighted(items, among, target) = IF passed = {} THEN Max(pool) ELSE Min(passed)
  BY <1>1 DEF PickWeighted
<1> QED BY <1>3, <1>4, <1>5

LEMMA PicksAmong ==
    ASSUME NEW items, NEW among, Indices(among), NEW target, PickWeighted(items, among, target) # 0
    PROVE  /\ PickWeighted(items, among, target) \in among
           /\ items[PickWeighted(items, among, target)].weight > 0
<1>1. {k \in among : items[k].weight > 0} # {} BY DEF PickWeighted
<1> QED BY <1>1, PicksOfPool

\* Nothing is drawn only of what has no weight.
LEMMA DrawsSomething ==
    ASSUME NEW items, NEW among, Indices(among), NEW target
    PROVE  PickWeighted(items, among, target) = 0 <=> {k \in among : items[k].weight > 0} = {}
<1> DEFINE pick == PickWeighted(items, among, target)
<1>1. {k \in among : items[k].weight > 0} = {} => pick = 0 BY DEF PickWeighted
<1>2. ASSUME pick # 0 PROVE {k \in among : items[k].weight > 0} # {} BY <1>1, <1>2
<1>3. ASSUME {k \in among : items[k].weight > 0} # {} PROVE pick # 0
  <2>1. pick \in among BY <1>3, PicksOfPool
  <2> HIDE DEF pick
  <2> QED BY <2>1 DEF Indices
<1> QED BY <1>1, <1>3

Shown(path) == {v \in DOMAIN path.variants : path.variants[v].active /\ path.variants[v].weight > 0}
Nearest(home, path) == IF path.url # "" THEN path.url ELSE home

\* A record of where a visitor was sent along a path.
IsAlong(got, home, path) ==
    /\ got.path = path.id
    /\ \/ Shown(path) = {} /\ got.variant = "" /\ got.destination = Nearest(home, path)
       \/ \E v \in Shown(path) :
            /\ got.variant = path.variants[v].id
            /\ got.destination = IF path.variants[v].url # "" THEN path.variants[v].url
                                 ELSE Nearest(home, path)

\* The paths a visitor may be sent along.
ActivePaths(paths) == {k \in DOMAIN paths : paths[k].active}
Met(paths, ctx) == {k \in ActivePaths(paths) : paths[k].conditions # {}
                                               /\ EvaluateConditions(paths[k].conditions, ctx)}
Pool(paths, ctx) == IF Met(paths, ctx) # {} THEN Met(paths, ctx)
                    ELSE {k \in ActivePaths(paths) : paths[k].conditions = {}}
Drawn(paths, ctx) == {k \in Pool(paths, ctx) : paths[k].weight > 0}
IsRoute(got, home, paths, ctx) ==
    \/ Drawn(paths, ctx) = {} /\ got = [path |-> "", variant |-> "", destination |-> home]
    \/ \E k \in Drawn(paths, ctx) : IsAlong(got, home, paths[k])

LEMMA SelectsByRule ==
    ASSUME NEW paths, Indices(DOMAIN paths), NEW ctx, NEW target
    PROVE  LET k == SelectPath(paths, ctx, target) IN
           IF Drawn(paths, ctx) = {} THEN k = 0 ELSE k # 0 /\ k \in Drawn(paths, ctx)
<1> DEFINE pool == Pool(paths, ctx)
           k == SelectPath(paths, ctx, target)
<1>1. k = PickWeighted(paths, pool, target)
  BY DEF SelectPath, Pool, Met, ActivePaths
<1>2. Indices(pool)
  <2>1. pool \subseteq DOMAIN paths BY DEF Pool, Met, ActivePaths
  <2> HIDE DEF pool
  <2> QED BY <2>1, FS_Subset DEF Indices
<1>3. Drawn(paths, ctx) = {i \in pool : paths[i].weight > 0} BY DEF Drawn
<1> HIDE DEF pool, k
<1>4. k = 0 <=> Drawn(paths, ctx) = {} BY <1>1, <1>2, <1>3, DrawsSomething
<1>5. k # 0 => k \in pool /\ paths[k].weight > 0 BY <1>1, <1>2, PicksAmong
<1> QED BY <1>3, <1>4, <1>5 DEF k

LEMMA SelectsVariants ==
    ASSUME NEW path, Indices(DOMAIN path.variants), NEW target
    PROVE  LET v == SelectVariant(path.variants, target) IN
           IF Shown(path) = {} THEN v = 0 ELSE v # 0 /\ v \in Shown(path)
<1> DEFINE among == {i \in DOMAIN path.variants : path.variants[i].active}
           v == SelectVariant(path.variants, target)
<1>1. v = PickWeighted(path.variants, among, target) BY DEF SelectVariant
<1>2. Indices(among)
  <2>1. among \subseteq DOMAIN path.variants OBVIOUS
  <2> HIDE DEF among
  <2> QED BY <2>1, FS_Subset DEF Indices
<1>3. Shown(path) = {i \in among : path.variants[i].weight > 0} BY DEF Shown
<1> HIDE DEF among, v
<1>4. v = 0 <=> Shown(path) = {} BY <1>1, <1>2, <1>3, DrawsSomething
<1>5. v # 0 => v \in among /\ path.variants[v].weight > 0 BY <1>1, <1>2, PicksAmong
<1> QED BY <1>3, <1>4, <1>5 DEF v

\* Any paths, whatever their conditions, weights, addresses and variants.
Routable(paths) ==
    /\ Indices(DOMAIN paths)
    /\ \A k \in DOMAIN paths : Indices(DOMAIN paths[k].variants)

LEMMA RoutesByRule ==
    ASSUME NEW paths, Routable(paths), NEW home, NEW ctx, NEW n, NEW m
    PROVE  IsRoute(ResolveRouting(home, paths, ctx, n, m), home, paths, ctx)
<1> DEFINE path == SelectPath(paths, ctx, n)
           variants == IF path = 0 THEN <<>> ELSE paths[path].variants
           variant == SelectVariant(variants, m)
           got == ResolveRouting(home, paths, ctx, n, m)
<1>1. got = [destination |-> IF variant # 0 /\ variants[variant].url # "" THEN variants[variant].url
                             ELSE IF path # 0 /\ paths[path].url # "" THEN paths[path].url ELSE home,
             path |-> IF path = 0 THEN "" ELSE paths[path].id,
             variant |-> IF variant = 0 THEN "" ELSE variants[variant].id]
  BY DEF ResolveRouting
<1>2. IF Drawn(paths, ctx) = {} THEN path = 0 ELSE path # 0 /\ path \in Drawn(paths, ctx)
  BY SelectsByRule DEF Routable
<1>3. CASE path = 0
  <2>1. variant = 0
    <3>1. variants = <<>> BY <1>3
    <3>2. DOMAIN variants = {} BY <3>1, NoItems
    <3> HIDE DEF variants
    <3>3. {k \in DOMAIN variants : variants[k].active} = {} BY <3>2
    <3> QED BY <3>3 DEF SelectVariant, PickWeighted
  <2>2. got = [path |-> "", variant |-> "", destination |-> home]
    <3> HIDE DEF got, variants, variant, path
    <3> QED BY <1>1, <1>3, <2>1
  <2> QED BY <1>2, <1>3, <2>2 DEF IsRoute
<1>4. CASE path # 0
  <2>1. path \in Drawn(paths, ctx) BY <1>2, <1>4
  <2>2. Indices(DOMAIN paths[path].variants)
    <3>1. path \in DOMAIN paths BY <2>1 DEF ActivePaths, Met, Pool, Drawn
    <3> QED BY <3>1 DEF Routable
  <2>3. variants = paths[path].variants BY <1>4
  <2>4. IF Shown(paths[path]) = {} THEN variant = 0
        ELSE variant # 0 /\ variant \in Shown(paths[path])
    <3>1. variant = SelectVariant(paths[path].variants, m) BY <2>3
    <3> HIDE DEF variant, variants, path
    <3> QED BY <2>2, <3>1, SelectsVariants
  <2>5. IsAlong(got, home, paths[path])
    <3> HIDE DEF got, variants, variant, path
    <3> QED BY <1>1, <1>4, <2>3, <2>4 DEF IsAlong, Nearest
  <2> QED BY <2>1, <2>5 DEF IsRoute
<1> QED BY <1>3, <1>4

LEMMA RoutingAnswers == question \in Questions => RoutingIsFair
<1> SUFFICES ASSUME question \in Questions PROVE RoutingIsFair OBVIOUS
<1>1. CASE question.about = "pick"
  <2> DEFINE items == Items(question.weights)
             all == DOMAIN items
             total == TotalWeight(items, all)
  <2>1. PICK size \in 0 .. MaxItems : question.weights \in [1 .. size -> Weights]
    BY <1>1 DEF Questions, WeightedLists
  <2>2. all = 1 .. size BY <2>1 DEF Items
  <2>3. \A k \in all : items[k].weight \in Nat
    <3>1. \A k \in 1 .. size : items[k].weight = question.weights[k] BY <2>1 DEF Items, Item
    <3> QED BY <2>1, <2>2, <3>1, DecisionsAssumption
  <2>4. Weighed(items, all) /\ \A k \in all : k \in Nat /\ k # 0
    <3>1. size \in Nat BY <2>1, DecisionsAssumption
    <3>2. IsFiniteSet(1 .. size) BY <3>1, FS_Interval
    <3> QED BY <2>2, <2>3, <3>1, <3>2 DEF Weighed
  <2> HIDE DEF items, all
  <2>5. ASSUME NEW k \in all
        PROVE  Cardinality({n \in 0 .. total - 1 : PickWeighted(items, all, n) = k}) = items[k].weight
    BY <2>4, DrawsAreFair
  <2>6. ASSUME total = 0 PROVE PickWeighted(items, all, 0) = 0
    <3>1. ASSUME NEW k \in all PROVE ~(items[k].weight > 0)
      <4>1. total = items[k].weight + TotalWeight(items, all \ {k}) BY <2>4, SumTakesAny
      <4>2. Weighed(items, all \ {k}) BY <2>4, WeighedParts
      <4>3. TotalWeight(items, all \ {k}) \in Nat /\ items[k].weight \in Nat
        BY <2>3, <4>2, SumIsNatural
      <4> HIDE DEF total
      <4> QED BY <2>6, <4>1, <4>3
    <3>2. {k \in all : items[k].weight > 0} = {} BY <3>1
    <3> QED BY <3>2 DEF PickWeighted
  <2> QED BY <1>1, <2>5, <2>6 DEF RoutingIsFair, items, all
<1>2. CASE question.about = "route"
  <2> DEFINE paths == question.paths
             ctx == [country |-> question.country]
  <2>1. paths \in RoutedPaths BY <1>2 DEF Questions
  <2>5. PICK w \in Weights, on \in BOOLEAN, k \in ConditionSets, j \in ConditionSets,
             u \in Urls, v \in Urls, shown \in BOOLEAN :
             paths = TwoPaths(w, on, shown, k, j, u, v)
    BY <2>1 DEF RoutedPaths
  <2>2. /\ DOMAIN paths = {1, 2} /\ DOMAIN paths[1].variants = {1}
        /\ DOMAIN paths[2].variants = {}
    <3> HIDE DEF paths
    <3>1. DOMAIN paths = {1, 2} BY <2>5, TwoItems DEF TwoPaths
    <3>3. /\ paths[1].variants = <<[id |-> "v", weight |-> w, active |-> shown, url |-> v]>>
          /\ paths[2].variants = <<>>
      BY <2>5 DEF RoutedPath, TwoPaths
    <3> QED BY <3>1, <3>3, NoItems, OneItem
  <2>3. Routable(paths)
    <3>1. Indices({1, 2}) /\ Indices({1}) /\ Indices({})
      <4>1. IsFiniteSet({}) /\ IsFiniteSet({1}) BY FS_EmptySet, FS_Singleton
      <4>2. IsFiniteSet({1} \cup {2}) BY <4>1, FS_AddElement
      <4>3. {1} \cup {2} = {1, 2} OBVIOUS
      <4> QED BY <4>1, <4>2, <4>3 DEF Indices
    <3> HIDE DEF paths
    <3> QED BY <2>2, <3>1 DEF Routable
  <2>4. ASSUME NEW n PROVE IsRoute(ResolveRouting("home", paths, ctx, n, 0), "home", paths, ctx)
    <3> HIDE DEF paths, ctx
    <3> QED BY <2>3, RoutesByRule
  <2> QED BY <1>2, <2>4 DEF RoutingIsFair, IsRoute, IsAlong, Shown, Nearest, Drawn, Pool, Met, ActivePaths
<1>3. CASE question.about \notin {"pick", "route"} BY <1>3 DEF RoutingIsFair
<1> QED BY <1>1, <1>2, <1>3

-----------------------------------------------------------------------------
(* Postbacks.                                                              *)

LEMMA EventsKeepToTheirNetworks ==
    ASSUME NEW event, NEW method, NEW enabled
    PROVE  LET fired == FiredNetworks(event, method, enabled)
           IN  /\ method # Absent => fired \subseteq {method}
               /\ event \in NeverForwardedEvents => fired = {}
               /\ event \in FacebookOnlyEvents => fired \subseteq {"facebook"}
               /\ fired \subseteq enabled
BY DEF FiredNetworks, ShouldFireNetworkPostback, CanHandle

\* One visit at most is found, whatever names it.
LEMMA FindsOne ==
    ASSUME NEW clicks, DOMAIN clicks \subseteq {"k1", "k2"}, NEW cid, NEW tracking
    PROVE  /\ FindClick(clicks, cid, tracking) \subseteq DOMAIN clicks
           /\ \A k, l \in FindClick(clicks, cid, tracking) : k = l
<1> DEFINE tracked == {k \in DOMAIN clicks : tracking # Absent /\ clicks[k].tracking = tracking}
<1>1. CASE cid # Absent BY <1>1 DEF FindClick
<1>2. CASE cid = Absent /\ "k2" \in tracked BY <1>2 DEF FindClick
<1>3. CASE cid = Absent /\ "k2" \notin tracked BY <1>3 DEF FindClick
<1> QED BY <1>1, <1>2, <1>3

\* What is stored was proved to the campaign it is stored under.
LEMMA StoredIsProved ==
    ASSUME NEW before, NEW after, NEW p,
           DOMAIN before \subseteq {"k1", "k2"}, DOMAIN after \subseteq {"k1", "k2"},
           \A k \in DOMAIN before \cap DOMAIN after : before[k] = after[k],
           FindClick(before, p.cid, p.tracking) = FindClick(after, p.cid, p.tracking),
           NEW k \in TriggerByClickId(before, after, p)
    PROVE  \/ after[k].secret # Absent /\ after[k].secret = p.provided
           \/ p.ip \in p.allowlist
           \/ after[k].secret = Absent /\ p.allowlist = {} /\ p.event \notin LeadOutcomeEvents
<1> DEFINE found == FindClick(before, p.cid, p.tracking)
           secrets == {before[j].secret : j \in found}
           expected == IF secrets = {} THEN Absent ELSE CHOOSE s \in secrets : TRUE
<1>1. AssertPostbackAuthorized(before, p) /\ k \in found BY DEF TriggerByClickId
<1>2. found = {k} /\ k \in DOMAIN before \cap DOMAIN after BY <1>1, FindsOne
<1>3. secrets = {after[k].secret} BY <1>2
<1>4. expected = after[k].secret BY <1>3
<1>5. IF expected = Absent /\ p.allowlist = {} THEN p.event \notin LeadOutcomeEvents
      ELSE IsPostbackAuthorized(expected, p.provided, p.ip, p.allowlist)
  BY <1>1 DEF AssertPostbackAuthorized
<1> HIDE DEF expected
<1> QED BY <1>4, <1>5 DEF IsPostbackAuthorized

LEMMA PostbackAnswers == question \in Questions => PostbacksStayInBounds
<1> SUFFICES ASSUME question \in Questions PROVE PostbacksStayInBounds OBVIOUS
<1>1. CASE question.about = "postback"
  BY <1>1, EventsKeepToTheirNetworks DEF PostbacksStayInBounds
<1>2. CASE question.about = "auth"
  <2> DEFINE p == question.postback
             after == question.clicks
             before == IF question.late THEN [k \in {"k1"} |-> after[k]] ELSE after
  <2>1. DOMAIN after = {"k1", "k2"} BY <1>2 DEF Questions, TrackedClicks
  <2>2. DOMAIN before \subseteq {"k1", "k2"} /\ \A k \in DOMAIN before \cap DOMAIN after : before[k] = after[k]
    BY <2>1
  <2> HIDE DEF p, after, before
  <2>3. FindClick(before, p.cid, p.tracking) = FindClick(after, p.cid, p.tracking) =>
             \A k \in TriggerByClickId(before, after, p) :
                \/ after[k].secret # Absent /\ after[k].secret = p.provided
                \/ p.ip \in p.allowlist
                \/ /\ after[k].secret = Absent /\ p.allowlist = {}
                   /\ p.event \notin LeadOutcomeEvents
    BY <2>1, <2>2, StoredIsProved
  <2> USE DEF p, after, before
  <2> QED BY <1>2, <2>3 DEF PostbacksStayInBounds
<1>3. CASE question.about \notin {"postback", "auth"} BY <1>3 DEF PostbacksStayInBounds
<1> QED BY <1>1, <1>2, <1>3

-----------------------------------------------------------------------------
(* Params: any query, and any mappings with priorities.                    *)

LEMMA Markers == Macro # Absent /\ \A v : SanitizeParam(v) # Macro /\ (v # Macro => SanitizeParam(v) = v)
<1>1. Macro # Absent BY Zenon DEF Macro, Absent
<1> QED BY <1>1 DEF SanitizeParam, IsUnreplacedMacro

Indexed(values) == IsFiniteSet(DOMAIN values) /\ \A k \in DOMAIN values : k \in Int

LEMMA FirstValue ==
    ASSUME NEW values, Indexed(values)
    PROVE  /\ (\A k \in DOMAIN values : values[k] = Absent) => FirstOf(values) = Absent
           /\ \A k \in DOMAIN values : values[k] # Absent =>
                 \E first \in DOMAIN values :
                    /\ first <= k /\ FirstOf(values) = values[first] /\ values[first] # Absent
                    /\ \A j \in DOMAIN values : values[j] # Absent => first <= j
<1> DEFINE there == {k \in DOMAIN values : values[k] # Absent}
<1>1. FirstOf(values) = IF there = {} THEN Absent ELSE values[Min(there)] BY DEF FirstOf
<1>2. there # {} => Min(there) \in there /\ \A y \in there : Min(there) <= y
  <2>1. IsFiniteSet(there) /\ \A k \in there : k \in Int BY FS_Subset DEF Indexed
  <2> HIDE DEF there
  <2> QED BY <2>1, Extremes
<1> QED BY <1>1, <1>2

LEMMA FirstOfOne ==
    ASSUME NEW a PROVE FirstOf(<<a>>) = a /\ Indexed(<<a>>)
<1> DEFINE s == <<a>>
<1>1. DOMAIN s = {1} /\ s[1] = a BY OneItem
<1>2. IsFiniteSet({1}) BY FS_Singleton
<1> SUFFICES FirstOf(s) = a /\ Indexed(s) OBVIOUS
<1> HIDE DEF s
<1>3. Indexed(s) BY <1>1, <1>2 DEF Indexed
<1>4. CASE a = Absent BY <1>1, <1>3, <1>4, FirstValue
<1>5. CASE a # Absent BY <1>1, <1>3, <1>5, FirstValue
<1> QED BY <1>4, <1>5

LEMMA FirstOfFive ==
    ASSUME NEW a, NEW b, NEW c, NEW d, NEW e
    PROVE  /\ FirstOf(<<a, b, c, d, e>>) \in {Absent, a, b, c, d, e}
           /\ c # Absent => FirstOf(<<a, b, c, d, e>>) # Absent
<1> DEFINE s == <<a, b, c, d, e>>
<1>1. /\ DOMAIN s = 1 .. 5
      /\ s[1] = a /\ s[2] = b /\ s[3] = c /\ s[4] = d /\ s[5] = e
  OBVIOUS
<1>2. IsFiniteSet(1 .. 5)
  <2>1. 1 \in Int /\ 5 \in Int OBVIOUS
  <2> QED BY <2>1, FS_Interval, Zenon
<1> SUFFICES FirstOf(s) \in {Absent, a, b, c, d, e} /\ (c # Absent => FirstOf(s) # Absent) OBVIOUS
<1> HIDE DEF s
<1>3. Indexed(s) BY <1>1, <1>2 DEF Indexed
<1>4. CASE \A k \in 1 .. 5 : s[k] = Absent
  <2>1. FirstOf(s) = Absent BY <1>1, <1>3, <1>4, FirstValue
  <2>2. s[3] = Absent BY <1>4
  <2> QED BY <1>1, <2>1, <2>2
<1>5. ASSUME NEW k \in 1 .. 5, s[k] # Absent
      PROVE  FirstOf(s) \in {Absent, a, b, c, d, e} /\ FirstOf(s) # Absent
  <2>1. PICK first \in 1 .. 5 : FirstOf(s) = s[first] /\ s[first] # Absent BY <1>1, <1>3, <1>5, FirstValue
  <2>2. first \in {1, 2, 3, 4, 5} OBVIOUS
  <2> QED BY <1>1, <2>1, <2>2
<1> QED BY <1>4, <1>5

LEMMA FirstOfTwo ==
    ASSUME NEW a, NEW b PROVE FirstOf(<<a, b>>) = Or(a, b) /\ Indexed(<<a, b>>)
<1> DEFINE s == <<a, b>>
<1>1. DOMAIN s = {1, 2} /\ s[1] = a /\ s[2] = b BY TwoItems
<1>2. IsFiniteSet({1, 2})
  <2>1. IsFiniteSet({1} \cup {2}) BY FS_Singleton, FS_AddElement
  <2>2. {1} \cup {2} = {1, 2} OBVIOUS
  <2> QED BY <2>1, <2>2
<1> SUFFICES FirstOf(s) = Or(a, b) /\ Indexed(s) OBVIOUS
<1> HIDE DEF s
<1>3. Indexed(s) BY <1>1, <1>2 DEF Indexed
<1>4. CASE a = Absent /\ b = Absent BY <1>1, <1>3, <1>4, FirstValue DEF Or
<1>5. CASE a = Absent /\ b # Absent
  <2>1. PICK first \in {1, 2} : FirstOf(s) = s[first] /\ s[first] # Absent BY <1>1, <1>3, <1>5, FirstValue
  <2> QED BY <1>1, <1>3, <1>5, <2>1 DEF Or
<1>6. CASE a # Absent
  <2>1. PICK first \in {1, 2} : first <= 1 /\ FirstOf(s) = s[first]
    BY <1>1, <1>3, <1>6, FirstValue
  <2> QED BY <1>1, <1>3, <1>6, <2>1 DEF Or
<1> QED BY <1>4, <1>5, <1>6

LEMMA PicksOne ==
    ASSUME NEW q, NEW names, Indexed(names)
    PROVE  /\ Pick(q, names) # Absent =>
                \E k \in DOMAIN names : names[k] \in DOMAIN q /\ Pick(q, names) = q[names[k]]
           /\ \A k \in DOMAIN names :
                names[k] \in DOMAIN q /\ q[names[k]] # Absent => Pick(q, names) # Absent
<1> DEFINE values == [k \in DOMAIN names |-> IF names[k] \in DOMAIN q THEN q[names[k]] ELSE Absent]
<1>1. Pick(q, names) = FirstOf(values) BY DEF Pick
<1>2. Indexed(values) /\ DOMAIN values = DOMAIN names BY DEF Indexed
<1>3. \A k \in DOMAIN names :
         values[k] = IF names[k] \in DOMAIN q THEN q[names[k]] ELSE Absent
  OBVIOUS
<1> HIDE DEF values
<1>4. ASSUME NEW k \in DOMAIN names, values[k] # Absent
      PROVE  \E j \in DOMAIN names : FirstOf(values) = values[j] /\ values[j] # Absent
  BY <1>2, <1>4, FirstValue
<1>5. (\A k \in DOMAIN names : values[k] = Absent) => FirstOf(values) = Absent BY <1>2, FirstValue
<1> QED BY <1>1, <1>3, <1>4, <1>5

-----------------------------------------------------------------------------
(* Mappings.                                                               *)
Mapped(mappings) ==
    /\ Indexed(mappings)
    /\ \A k \in DOMAIN mappings : mappings[k].priority \in Int /\ Indexed(mappings[k].keys)

LEMMA OneIsTriedFirst ==
    ASSUME NEW mappings, Mapped(mappings), NEW s, s \subseteq DOMAIN mappings, s # {}
    PROVE  \E k \in s : \A j \in s \ {k} : TriedBefore(mappings, k, j)
<1> DEFINE below(k) == {j \in s : TriedBefore(mappings, j, k)}
           B == {below(k) : k \in s}
<1>1. B \subseteq SUBSET s /\ B # {} OBVIOUS
<1>2. IsFiniteSet(s) BY FS_Subset DEF Mapped, Indexed
<1>3. PICK t \in B : \A u \in B : u \subseteq t => u = t
  <2> HIDE DEF B, below
  <2> QED BY <1>1, <1>2, LeastPart
<1>4. PICK k \in s : t = below(k) OBVIOUS
<1>5. \A i \in s : i \in Int /\ mappings[i].priority \in Int BY DEF Mapped, Indexed
<1>6. ASSUME NEW j \in s, TriedBefore(mappings, j, k) PROVE FALSE
  <2>1. below(j) \in B OBVIOUS
  <2>2. ASSUME NEW i \in s, TriedBefore(mappings, i, j) PROVE TriedBefore(mappings, i, k)
    BY <1>5, <1>6, <2>2 DEF TriedBefore
  <2>3. below(j) \subseteq t BY <1>4, <2>2
  <2>4. j \in t /\ j \notin below(j) BY <1>4, <1>5, <1>6 DEF TriedBefore
  <2> HIDE DEF B, below
  <2> QED BY <1>3, <2>1, <2>3, <2>4
<1>7. ASSUME NEW j \in s \ {k} PROVE TriedBefore(mappings, k, j)
  BY <1>5, <1>6 DEF TriedBefore
<1> QED BY <1>7

Finds(q, field, mappings) ==
    {k \in DOMAIN mappings : mappings[k].field = field /\ Pick(q, mappings[k].keys) # Absent}

LEMMA FirstMappingDecides ==
    ASSUME NEW q, NEW field, NEW mappings, Mapped(mappings)
    PROVE  LET finds == Finds(q, field, mappings)
           IN  /\ finds = {} => FieldValue(q, field, mappings) = Absent
               /\ finds # {} => \E k \in finds :
                    /\ FieldValue(q, field, mappings) = Pick(q, mappings[k].keys)
                    /\ \A j \in finds \ {k} : TriedBefore(mappings, k, j)
<1> DEFINE finds == Finds(q, field, mappings)
           first == CHOOSE k \in finds : \A j \in finds \ {k} : TriedBefore(mappings, k, j)
<1>1. FieldValue(q, field, mappings) = IF finds = {} THEN Absent ELSE Pick(q, mappings[first].keys)
  BY DEF FieldValue, Finds
<1>2. ASSUME finds # {} PROVE first \in finds /\ \A j \in finds \ {first} : TriedBefore(mappings, first, j)
  <2>1. finds \subseteq DOMAIN mappings BY DEF Finds
  <2> HIDE DEF finds
  <2>2. \E k \in finds : \A j \in finds \ {k} : TriedBefore(mappings, k, j)
    BY <1>2, <2>1, OneIsTriedFirst
  <2> QED BY <2>2
<1> HIDE DEF finds, first
<1> QED BY <1>1, <1>2 DEF finds

LEMMA FoundIsClean ==
    ASSUME NEW q, NEW field, NEW mappings, Mapped(mappings)
    PROVE  FieldValue(Clean(q), field, mappings) # Macro
<1> DEFINE c == Clean(q)
           finds == Finds(c, field, mappings)
<1>1. \A n \in DOMAIN c : c[n] # Macro BY Markers DEF Clean
<1> HIDE DEF c, finds
<1>2. CASE finds = {} BY <1>2, FirstMappingDecides, Markers DEF finds, c
<1>3. CASE finds # {}
  <2>1. PICK k \in finds : FieldValue(c, field, mappings) = Pick(c, mappings[k].keys)
    BY <1>3, FirstMappingDecides DEF finds
  <2>2. Indexed(mappings[k].keys) /\ Pick(c, mappings[k].keys) # Absent BY DEF finds, Finds, Mapped
  <2> QED BY <1>1, <2>1, <2>2, PicksOne DEF c
<1> QED BY <1>2, <1>3

\* What a click keeps, of any query under any mappings.
LEMMA ResolvesByRule ==
    ASSUME NEW q, NEW mappings, Mapped(mappings), NEW tkCid, NEW fields,
           {"tracking_id", "external_click_id", "gclid", "fbclid", "subid"} \subseteq fields
    PROVE  LET r == ResolveParams(q, mappings, tkCid, fields)
               found(f) == FieldValue(Clean(q), f, mappings)
           IN  /\ \A f \in fields : r[f] # Macro
               /\ r["tracking_id"] = Or(found("tracking_id"), found("external_click_id"))
               /\ r["external_click_id"] = Or(found("external_click_id"), r["tracking_id"])
               /\ r["tracking_id"] # Absent => r["gclid"] # Absent
               /\ \A f \in fields \ {"tracking_id", "external_click_id", "gclid"} : r[f] = found(f)
<1> DEFINE found == [f \in fields |-> FieldValue(Clean(q), f, mappings)]
           tracking == Or(found["tracking_id"], found["external_click_id"])
           external == Or(found["external_click_id"], tracking)
           others == <<found["gclid"], found["fbclid"], tracking, SanitizeParam(tkCid), found["subid"]>>
           gclid == FirstOf(others)
           one == [found EXCEPT !["tracking_id"] = tracking]
           two == [one EXCEPT !["external_click_id"] = external]
           r == [two EXCEPT !["gclid"] = gclid]
<1>1. ResolveParams(q, mappings, tkCid, fields) = r BY DEF ResolveParams
<1>2. \A f \in fields : found[f] = FieldValue(Clean(q), f, mappings) OBVIOUS
<1>3. \A f \in fields : found[f] # Macro BY <1>2, FoundIsClean
<1>4. tracking # Macro /\ external # Macro /\ SanitizeParam(tkCid) # Macro
  BY <1>3, Markers DEF Or
<1>5. gclid # Macro /\ (tracking # Absent => gclid # Absent)
  <2>1. gclid \in {Absent, found["gclid"], found["fbclid"], tracking, SanitizeParam(tkCid), found["subid"]}
        /\ (tracking # Absent => gclid # Absent)
    BY FirstOfFive
  <2> HIDE DEF gclid, found, tracking
  <2> QED BY <1>3, <1>4, <2>1, Markers
<1>6. DOMAIN found = fields OBVIOUS
<1> HIDE DEF found, tracking, external, gclid
<1>7. DOMAIN one = fields /\ one["tracking_id"] = tracking
      /\ \A f \in fields \ {"tracking_id"} : one[f] = found[f]
  BY <1>6
<1> HIDE DEF one
<1>8. DOMAIN two = fields /\ two["external_click_id"] = external /\ two["tracking_id"] = tracking
      /\ \A f \in fields \ {"tracking_id", "external_click_id"} : two[f] = found[f]
  BY <1>7
<1> HIDE DEF two
<1>9. r["gclid"] = gclid /\ r["external_click_id"] = external /\ r["tracking_id"] = tracking
      /\ \A f \in fields \ {"tracking_id", "external_click_id", "gclid"} : r[f] = found[f]
  BY <1>8
<1> HIDE DEF r
<1>10. \A f \in fields : r[f] # Macro BY <1>3, <1>4, <1>5, <1>9
<1>11. tracking = Or(found["tracking_id"], found["external_click_id"])
       /\ external = Or(found["external_click_id"], tracking)
  BY DEF tracking, external
<1> QED BY <1>1, <1>2, <1>5, <1>9, <1>10, <1>11

LEMMA FirstOfThree ==
    ASSUME NEW a, NEW b, NEW c, a # Absent PROVE FirstOf(<<a, b, c>>) = a
<1> DEFINE s == <<a, b, c>>
<1>1. DOMAIN s = 1 .. 3 /\ s[1] = a OBVIOUS
<1>2. IsFiniteSet(1 .. 3)
  <2>1. 1 \in Int /\ 3 \in Int OBVIOUS
  <2> QED BY <2>1, FS_Interval, Zenon
<1> SUFFICES FirstOf(s) = a OBVIOUS
<1> HIDE DEF s
<1>3. Indexed(s) BY <1>1, <1>2 DEF Indexed
<1>4. PICK first \in 1 .. 3 : first <= 1 /\ FirstOf(s) = s[first] BY <1>1, <1>3, FirstValue
<1> QED BY <1>1, <1>4

LEMMA PicksOnly ==
    ASSUME NEW q, NEW names, Indexed(names), NEW i \in DOMAIN names, names[i] \in DOMAIN q,
           \A k \in DOMAIN names : k = i \/ names[k] \notin DOMAIN q
    PROVE  Pick(q, names) = q[names[i]]
BY PicksOne

LEMMA SourcesAre ==
    /\ DOMAIN Sources = {1, 2, 3, 4, 5}
    /\ Sources[1] = [field |-> "tracking_id", keys |-> <<"click_id", "subid">>, priority |-> 1]
    /\ Sources[2] = [field |-> "external_click_id", keys |-> <<"ext">>, priority |-> 2]
    /\ Sources[3] = [field |-> "ad_id", keys |-> <<"ext">>, priority |-> 2]
    /\ Sources[4] = [field |-> "cv1", keys |-> <<"kw">>, priority |-> 1]
    /\ Sources[5] = [field |-> "cv1", keys |-> <<"subid">>, priority |-> 0]
    /\ Mapped(Sources)
<1>1. DOMAIN Sources = 1 .. 5 BY DEF Sources
<1>2. DOMAIN Sources = {1, 2, 3, 4, 5} BY <1>1
<1>3. /\ Sources[1] = [field |-> "tracking_id", keys |-> <<"click_id", "subid">>, priority |-> 1]
      /\ Sources[2] = [field |-> "external_click_id", keys |-> <<"ext">>, priority |-> 2]
      /\ Sources[3] = [field |-> "ad_id", keys |-> <<"ext">>, priority |-> 2]
      /\ Sources[4] = [field |-> "cv1", keys |-> <<"kw">>, priority |-> 1]
      /\ Sources[5] = [field |-> "cv1", keys |-> <<"subid">>, priority |-> 0]
  BY DEF Sources
<1>4. IsFiniteSet(1 .. 5)
  <2>1. 1 \in Int /\ 5 \in Int OBVIOUS
  <2> QED BY <2>1, FS_Interval, Zenon
<1>5. Indexed(Sources) BY <1>1, <1>4 DEF Indexed
<1>6. /\ Indexed(Sources[1].keys) /\ Indexed(Sources[2].keys) /\ Indexed(Sources[3].keys)
      /\ Indexed(Sources[4].keys) /\ Indexed(Sources[5].keys)
  BY <1>3, FirstOfOne, FirstOfTwo
<1>7. \A k \in DOMAIN Sources : Sources[k].priority \in Int BY <1>2, <1>3
<1>8. \A k \in DOMAIN Sources : Indexed(Sources[k].keys) BY <1>2, <1>6
<1>9. Mapped(Sources) BY <1>5, <1>7, <1>8 DEF Mapped
<1> QED BY <1>2, <1>3, <1>9

LEMMA QueriesAre ==
    ASSUME NEW q \in Queries
    PROVE  /\ DOMAIN q = Keys /\ DOMAIN Clean(q) = Keys
           /\ \A n \in Keys : n # Absent /\ Clean(q)[n] = IF q[n] = n THEN n ELSE Absent
<1>1. PICK given \in SUBSET Keys, macros \in SUBSET Keys :
         q = [k \in Keys |-> IF k \in given THEN k ELSE IF k \in macros THEN Macro ELSE Absent]
  BY DEF Queries
<1>2. \A n \in Keys : n # Absent /\ n # Macro BY Zenon DEF Keys, Absent, Macro
<1>3. DOMAIN q = Keys /\ \A n \in Keys : q[n] \in {n, Macro, Absent} BY <1>1
<1>4. DOMAIN Clean(q) = Keys /\ \A n \in Keys : Clean(q)[n] = SanitizeParam(q[n]) BY <1>3 DEF Clean
<1>5. SanitizeParam(Macro) = Absent /\ \A v : v # Macro => SanitizeParam(v) = v
  BY DEF SanitizeParam, IsUnreplacedMacro
<1>6. \A n \in Keys : Clean(q)[n] = IF q[n] = n THEN n ELSE Absent
  BY <1>2, <1>3, <1>4, <1>5
<1> QED BY <1>2, <1>3, <1>4, <1>6

LEMMA PicksTheKey ==
    ASSUME NEW q, NEW n \in DOMAIN q PROVE Pick(q, <<n>>) = q[n]
<1> DEFINE names == <<n>>
<1>1. DOMAIN names = {1} /\ names[1] = n BY OneItem
<1>2. Indexed(names) BY FirstOfOne
<1> SUFFICES Pick(q, names) = q[n] OBVIOUS
<1> HIDE DEF names
<1> QED BY <1>1, <1>2, PicksOnly

LEMMA MappedFields ==
    ASSUME NEW q \in Queries
    PROVE  LET found(f) == FieldValue(Clean(q), f, Sources)
           IN  /\ found("external_click_id") = IF q["ext"] = "ext" THEN "ext" ELSE Absent
               /\ found("cv1") = IF q["subid"] = "subid" THEN "subid"
                                 ELSE IF q["kw"] = "kw" THEN "kw" ELSE Absent
<1> DEFINE c == Clean(q)
           external == Finds(c, "external_click_id", Sources)
           cv1 == Finds(c, "cv1", Sources)
<1>1. DOMAIN c = {"click_id", "subid", "ext", "kw", "var1"} BY QueriesAre DEF Keys
<1>2. /\ c["ext"] = IF q["ext"] = "ext" THEN "ext" ELSE Absent
      /\ c["kw"] = IF q["kw"] = "kw" THEN "kw" ELSE Absent
      /\ c["subid"] = IF q["subid"] = "subid" THEN "subid" ELSE Absent
      /\ "ext" # Absent /\ "kw" # Absent /\ "subid" # Absent
  BY QueriesAre DEF Keys
<1> HIDE DEF c
<1>3. /\ Pick(c, Sources[2].keys) = c["ext"] /\ Pick(c, Sources[4].keys) = c["kw"]
      /\ Pick(c, Sources[5].keys) = c["subid"]
  BY <1>1, PicksTheKey, SourcesAre
<1>4. external = IF c["ext"] # Absent THEN {2} ELSE {} BY <1>3, SourcesAre DEF Finds
<1>5. cv1 = {k \in {4, 5} : (k = 4 /\ c["kw"] # Absent) \/ (k = 5 /\ c["subid"] # Absent)}
  BY <1>3, SourcesAre DEF Finds
<1>6. /\ external = {} => FieldValue(c, "external_click_id", Sources) = Absent
      /\ external # {} => \E k \in external :
            FieldValue(c, "external_click_id", Sources) = Pick(c, Sources[k].keys)
      /\ cv1 = {} => FieldValue(c, "cv1", Sources) = Absent
      /\ cv1 # {} => \E k \in cv1 :
            /\ FieldValue(c, "cv1", Sources) = Pick(c, Sources[k].keys)
            /\ \A j \in cv1 \ {k} : TriedBefore(Sources, k, j)
  BY SourcesAre, FirstMappingDecides
<1> HIDE DEF external, cv1
<1>7. FieldValue(c, "external_click_id", Sources) = c["ext"] BY <1>3, <1>4, <1>6
<1>8. ~TriedBefore(Sources, 4, 5) BY SourcesAre DEF TriedBefore
<1>9. FieldValue(c, "cv1", Sources) = IF c["subid"] # Absent THEN c["subid"] ELSE c["kw"]
  BY <1>3, <1>5, <1>6, <1>8
<1> QED BY <1>2, <1>7, <1>9 DEF c

LEMMA CustomVariableOne ==
    ASSUME NEW q \in Queries, NEW r, NEW v
    PROVE  CustomVariables(q, Aliases, NativeFallbacks(r), [cv1 |-> v]).cv1
              = Or(v, Or(q["var1"], r["ad_id"]))
<1> DEFINE names == <<"var1", "cv1">>
           picked == ExtractCustomVariables(q, Aliases)
           native == ApplyNativeParamFallbacks(picked, NativeFallbacks(r))
<1>1. "cv1" \in DOMAIN Aliases /\ Aliases["cv1"] = names BY DEF Aliases
<1>2. Pick(q, names) = q["var1"]
  <2>1. DOMAIN names = {1, 2} /\ names[1] = "var1" /\ names[2] = "cv1" BY TwoItems
  <2>2. Indexed(names) BY FirstOfTwo
  <2>3. "var1" \in DOMAIN q /\ "cv1" \notin DOMAIN q BY QueriesAre DEF Keys
  <2> HIDE DEF names
  <2> QED BY <2>1, <2>2, <2>3, PicksOnly
<1> HIDE DEF names
<1>3. "cv1" \in DOMAIN picked /\ picked["cv1"] = q["var1"]
  BY <1>1, <1>2 DEF ExtractCustomVariables
<1> HIDE DEF picked
<1>4. "cv1" \in DOMAIN native /\ native["cv1"] = Or(q["var1"], r["ad_id"])
  <2>1. "cv1" \in DOMAIN NativeFallbacks(r) /\ NativeFallbacks(r)["cv1"] = r["ad_id"]
    BY DEF NativeFallbacks
  <2> QED BY <1>3, <2>1 DEF ApplyNativeParamFallbacks
<1> HIDE DEF native
<1>5. ApplyMappedCustomVariables(native, [cv1 |-> v])["cv1"] = Or(v, native["cv1"])
  BY <1>4 DEF ApplyMappedCustomVariables
<1> QED BY <1>4, <1>5 DEF CustomVariables, native, picked

LEMMA ParamAnswers == question \in Questions => ParamsAreClean
<1> SUFFICES ASSUME question \in Questions, question.about = "params" PROVE ParamsAreClean
  BY DEF ParamsAreClean
<1> DEFINE q == question.query
           r == ResolveParams(q, Sources, question.tkCid, Fields)
           told == NetworkClickId(r, q)
           cvs == CustomVariables(q, Aliases, NativeFallbacks(r), [cv1 |-> r["cv1"]])
           found(f) == FieldValue(Clean(q), f, Sources)
<1>1. q \in Queries BY DEF Questions
<1>2. {"tracking_id", "external_click_id", "gclid", "fbclid", "subid"} \subseteq Fields
      /\ "cv1" \in Fields
  BY DEF Fields
<1>3. /\ \A f \in Fields : r[f] # Macro
      /\ r["tracking_id"] = Or(found("tracking_id"), found("external_click_id"))
      /\ r["external_click_id"] = Or(found("external_click_id"), r["tracking_id"])
      /\ r["tracking_id"] # Absent => r["gclid"] # Absent
      /\ \A f \in Fields \ {"tracking_id", "external_click_id", "gclid"} : r[f] = found(f)
  BY <1>2, SourcesAre, ResolvesByRule
<1>4. /\ found("external_click_id") = IF q["ext"] = "ext" THEN "ext" ELSE Absent
      /\ found("cv1") = IF q["subid"] = "subid" THEN "subid" ELSE IF q["kw"] = "kw" THEN "kw" ELSE Absent
  BY <1>1, MappedFields
<1>5. cvs.cv1 = Or(r["cv1"], Or(q["var1"], r["ad_id"])) BY <1>1, CustomVariableOne
<1>6. "ext" # Absent /\ "subid" # Absent /\ "kw" # Absent BY Zenon DEF Absent
<1> HIDE DEF q, r, found, cvs
<1>7. /\ DOMAIN told = {"mediago", "google", "outbrain"}
      /\ told["google"] = r["gclid"] /\ told["outbrain"] = r["tracking_id"]
      /\ r["tracking_id"] # Absent => told["mediago"] = r["tracking_id"]
  BY FirstOfThree DEF NetworkClickId, ResolveMediagoTrackingId
<1> HIDE DEF told
<1>8. \A n \in DOMAIN told : told[n] = Macro => n = "mediago" /\ told["outbrain"] = Absent
  BY <1>2, <1>3, <1>7
<1>9. told["outbrain"] # Absent => told["google"] # Absent /\ told["mediago"] = told["outbrain"]
  BY <1>3, <1>7
<1>10. /\ IF q["ext"] = "ext" THEN r["external_click_id"] = "ext"
          ELSE r["external_click_id"] = r["tracking_id"]
       /\ r["external_click_id"] = Absent => r["tracking_id"] = Absent
  BY <1>3, <1>4, <1>6 DEF Or
<1>11. r["cv1"] = found("cv1") BY <1>2, <1>3
<1>12. cvs.cv1 = IF q["subid"] = "subid" THEN "subid"
                 ELSE IF q["kw"] = "kw" THEN "kw" ELSE Or(q["var1"], r["ad_id"])
  BY <1>4, <1>5, <1>6, <1>11 DEF Or
<1> QED BY <1>3, <1>8, <1>9, <1>10, <1>12 DEF ParamsAreClean, q, r, told, cvs

-----------------------------------------------------------------------------
(* Payloads: what a cleaning leaves of one value, then of any number.      *)

LEMMA WordsAreUnread ==
    ASSUME NEW v \in Values, v.what = "words", NEW key, NEW own
    PROVE  Detect(v, key, own) = {} /\ ~Masked(v, key)
<1> DEFINE inner == [v EXCEPT !.place = "alone"]
<1>1. inner.what = "words" BY DEF Values
<1>2. Detect(v, key, own) = {} BY <1>1 DEF Detect, ReadEmail, ReadNumber, ReadParameter
<1>3. Detect(v, key, TRUE) = {} BY <1>1 DEF Detect, ReadEmail, ReadNumber, ReadParameter
<1> QED BY <1>2, <1>3 DEF Masked

LEMMA UnmaskedIsUnread ==
    ASSUME NEW v \in Values, NEW key, ~Masked(v, key), NEW own \in BOOLEAN
    PROVE  Detect(v, key, own) = {}
<1> DEFINE inner == [v EXCEPT !.place = "alone"]
<1>1. Detect(v, key, TRUE) = {} BY DEF Masked
<1>2. ReadEmail(v, key, TRUE) = {} /\ ReadNumber(v, key, TRUE) = {} /\ ReadParameter(v, key, TRUE) = {}
  BY <1>1 DEF Detect
<1>3. ReadEmail(v, key, own) = {} BY <1>2 DEF ReadEmail, Found
<1>4. ReadNumber(v, key, own) = {} BY <1>2 DEF ReadNumber, Found
<1>5. ReadParameter(v, key, own) = {}
  <2>1. CASE v.place # "parameter" \/ key \in IdentifierKeys BY <2>1 DEF ReadParameter
  <2>2. CASE ~(v.place # "parameter" \/ key \in IdentifierKeys)
    <3>1. ReadEmail(inner, v.name, TRUE) = {} /\ ReadNumber(inner, v.name, TRUE) = {}
      BY <1>2, <2>2 DEF ReadParameter
    <3>2. ReadEmail(inner, v.name, own) = {} BY <3>1 DEF ReadEmail, Found
    <3>3. ReadNumber(inner, v.name, own) = {} BY <3>1 DEF ReadNumber, Found
    <3> QED BY <3>2, <3>3 DEF ReadParameter
  <2> QED BY <2>1, <2>2
<1> QED BY <1>3, <1>4, <1>5 DEF Detect

Wordless(v) == [v EXCEPT !.what = "words"]

LEMMA WordsOf ==
    ASSUME NEW v \in Values
    PROVE  Wordless(v) \in Values /\ Wordless(v).what = "words" /\ Wordless(v).key = v.key
<1>1. Wordless(v).place = v.place /\ Wordless(v).name = v.name /\ Wordless(v).what = "words"
      /\ Wordless(v).key = v.key /\ Wordless(v).own = v.own /\ Wordless(v).label = v.label
  BY DEF Wordless, Values
<1>2. Wordless(v) \in [own: BOOLEAN, key: KeySorts, label: BOOLEAN, place: Places, name: KeySorts, what: Things]
  BY DEF Wordless, Values, Things
<1> QED BY <1>1, <1>2 DEF Values

LEMMA LeftIsUnread ==
    ASSUME NEW v \in Values, NEW w \in LeftOf(v, v.key)
    PROVE  /\ w \in Values /\ w.key = v.key /\ ~Masked(w, w.key) /\ LeftOf(w, w.key) = {w}
           /\ w = v \/ LeftOf(v, v.key) = {w}
<1>1. CASE ~Masked(v, v.key) BY <1>1 DEF LeftOf
<1>2. CASE Masked(v, v.key)
  <2>1. w = Wordless(v) /\ LeftOf(v, v.key) = {w} BY <1>2 DEF LeftOf, Wordless
  <2>2. ~Masked(w, w.key) BY <2>1, WordsOf, WordsAreUnread
  <2> QED BY <2>1, <2>2, WordsOf DEF LeftOf
<1> QED BY <1>1, <1>2

LEMMA ErasedIsUnread ==
    ASSUME NEW v \in Values, NEW w \in WithoutContact(v, "erased")
    PROVE  w \in Values /\ Detect(w, w.key, w.own) = {}
<1>1. w \in LeftOf(v, v.key) BY DEF WithoutContact, LabelKept
<1>2. w \in Values /\ ~Masked(w, w.key) BY <1>1, LeftIsUnread
<1>3. w.own \in BOOLEAN BY <1>2 DEF Values
<1> QED BY <1>2, <1>3, UnmaskedIsUnread

LEMMA PurgedIsUnread ==
    ASSUME NEW v \in Values, NEW w \in WithoutContact(v, "purged")
    PROVE  w \in Values /\ ((w = v /\ v.key \in NeverPersonal) \/ Detect(w, w.key, w.own) = {})
<1>1. CASE v.key \in NeverPersonal BY <1>1 DEF WithoutContact, LabelKept
<1>2. CASE v.key \notin NeverPersonal
  <2>1. w \in LeftOf(v, v.key) BY <1>2 DEF WithoutContact, LabelKept
  <2>2. w \in Values /\ ~Masked(w, w.key) BY <2>1, LeftIsUnread
  <2>3. w.own \in BOOLEAN BY <2>2 DEF Values
  <2> QED BY <2>2, <2>3, UnmaskedIsUnread
<1> QED BY <1>1, <1>2

\* A value cleaned again.
LEMMA CleanedAgain ==
    ASSUME NEW v \in Values, NEW reason \in {"erased", "purged"}
    PROVE  UNION {WithoutContact(w, reason) : w \in WithoutContact(v, "purged")} = WithoutContact(v, reason)
<1>1. CASE v.key \in NeverPersonal
  <2>1. WithoutContact(v, "purged") = {v} BY <1>1 DEF WithoutContact, LabelKept
  <2> QED BY <2>1
<1>2. CASE v.key \notin NeverPersonal /\ IsPersonalKey(v.key)
  <2>1. WithoutContact(v, "purged") = {} /\ WithoutContact(v, reason) = {} BY <1>2 DEF WithoutContact
  <2> QED BY <2>1
<1>3. CASE v.key \notin NeverPersonal /\ ~IsPersonalKey(v.key)
  <2>1. WithoutContact(v, "purged") = LeftOf(v, v.key)
    BY <1>3 DEF WithoutContact, LabelKept
  <2>2. CASE reason = "erased" /\ v.key \in ContextKeys
    <3>1. \A w \in LeftOf(v, v.key) : WithoutContact(w, reason) = {}
      BY <1>3, <2>2, LeftIsUnread DEF WithoutContact
    <3>2. WithoutContact(v, reason) = {} BY <2>2, <1>3 DEF WithoutContact
    <3> QED BY <2>1, <3>1, <3>2
  <2>3. CASE ~(reason = "erased" /\ v.key \in ContextKeys)
    <3>1. WithoutContact(v, reason) = LeftOf(v, v.key) BY <1>3, <2>3 DEF WithoutContact, LabelKept
    <3>2. ASSUME NEW w \in LeftOf(v, v.key) PROVE WithoutContact(w, reason) = {w}
      <4>1. w.key = v.key /\ LeftOf(w, w.key) = {w} BY LeftIsUnread
      <4> QED BY <1>3, <2>3, <4>1 DEF WithoutContact, LabelKept
    <3> QED BY <2>1, <3>1, <3>2
  <2> QED BY <2>2, <2>3
<1> QED BY <1>1, <1>2, <1>3

LEMMA FoundUndeclared == ASSUME NEW what, NEW c \in Found(what, FALSE) PROVE ~c.declared
<1>1. c = [what |-> what, declared |-> FALSE] BY DEF Found
<1>2. c.declared = FALSE BY <1>1
<1> QED BY <1>2

LEMMA DeclaredRead ==
    ASSUME NEW v, NEW key, NEW own, NEW c, c.declared, v.place # "scheme", ~own
    PROVE  c \notin ReadEmail(v, key, own) /\ c \notin ReadNumber(v, key, own)
<1>1. c \notin Found("email", FALSE) /\ c \notin Found(v.what, FALSE) BY FoundUndeclared
<1>2. ReadEmail(v, key, own) \in {{}, Found("email", FALSE)}
  <2>1. (v.place # "path" /\ ((own /\ key = "email") \/ v.place = "scheme")) = FALSE OBVIOUS
  <2> QED BY <2>1 DEF ReadEmail
<1>3. ReadNumber(v, key, own) \in {{}, Found(v.what, FALSE)}
  <2>1. ((own /\ key = "phone") \/ v.place = "scheme") = FALSE OBVIOUS
  <2> QED BY <2>1 DEF ReadNumber
<1> QED BY <1>1, <1>2, <1>3

LEMMA DeclaredWhere ==
    ASSUME NEW v \in Values, NEW c \in Detect(v, v.key, v.own), c.declared
    PROVE  v.own \/ v.place = "scheme"
<1> DEFINE inner == [v EXCEPT !.place = "alone"]
<1>1. inner.place = "alone" BY DEF Values
<1> SUFFICES ASSUME ~v.own, v.place # "scheme" PROVE FALSE OBVIOUS
<1>2. c \notin ReadEmail(v, v.key, v.own) /\ c \notin ReadNumber(v, v.key, v.own) BY DeclaredRead
<1>3. c \notin ReadEmail(inner, v.name, v.own) /\ c \notin ReadNumber(inner, v.name, v.own)
  <2>1. inner.place # "scheme" BY <1>1
  <2> HIDE DEF inner
  <2> QED BY <2>1, DeclaredRead
<1>4. c \notin ReadParameter(v, v.key, v.own) BY <1>3 DEF ReadParameter
<1> QED BY <1>2, <1>4 DEF Detect

LEMMA UrlsAreRead ==
    ASSUME NEW v \in Values, NEW reason
    PROVE  LET left == Detect(SanitizeUrl(v, reason), "", TRUE)
           IN  /\ reason = "erased" => left = {}
               /\ v.place = "parameter" /\ v.name \notin NeverPersonal => left = {}
               /\ left \subseteq Detect(v, "", TRUE)
<1>1. CASE SanitizeUrl(v, reason) = Wordless(v)
  <2>1. Detect(Wordless(v), "", TRUE) = {} BY WordsOf, WordsAreUnread
  <2> QED BY <1>1, <2>1
<1>2. CASE SanitizeUrl(v, reason) # Wordless(v)
  <2>1. SanitizeUrl(v, reason) = v BY <1>2 DEF SanitizeUrl, Wordless
  <2>2. reason = "erased" \/ (v.place = "parameter" /\ v.name \notin NeverPersonal) => ~Masked(v, "")
    BY <1>2 DEF SanitizeUrl, Wordless
  <2> QED BY <2>1, <2>2, UnmaskedIsUnread
<1> QED BY <1>1, <1>2

ReadOf(values) == UNION {Detect(v, v.key, v.own) : v \in {w \in values : w.key \notin UnreadKeys}}

LEMMA ReadPart == ASSUME NEW values PROVE ReadContacts(values) \subseteq ReadOf(values)
BY DEF ReadContacts, ReadOf

LEMMA PayloadAnswers == affair.about = "payload" /\ affair.values \subseteq Values => WhatIsReadIsRemoved
<1> SUFFICES ASSUME affair.about = "payload", affair.values \subseteq Values
             PROVE  WhatIsReadIsRemoved
  OBVIOUS
<1> DEFINE values == affair.values
           read == ReadContacts(values)
           purged == Cleaned(values, "purged")
           erased == Cleaned(values, "erased")
<1>0. \A v \in values : v \in Values OBVIOUS
<1> HIDE DEF values
<1>1. ReadContacts(erased) = {}
  <2>1. \A w \in erased : Detect(w, w.key, w.own) = {} BY <1>0, ErasedIsUnread DEF Cleaned
  <2>2. ReadOf(erased) = {} BY <2>1 DEF ReadOf
  <2> QED BY <2>2, ReadPart
<1>2. \A c \in ReadContacts(purged) :
         \E v \in values : v.key \in NeverPersonal /\ c \in Detect(v, v.key, v.own)
  <2>1. \A w \in purged : Detect(w, w.key, w.own) = {} \/ (w \in values /\ w.key \in NeverPersonal)
    BY <1>0, PurgedIsUnread DEF Cleaned
  <2>2. \A c \in ReadOf(purged) : \E w \in purged : c \in Detect(w, w.key, w.own) BY DEF ReadOf
  <2> QED BY <2>1, <2>2, ReadPart
<1>3. ASSUME NEW reason \in {"erased", "purged"} PROVE Cleaned(purged, reason) = Cleaned(values, reason)
  <2>1. ASSUME NEW v \in values
        PROVE  UNION {WithoutContact(w, reason) : w \in WithoutContact(v, "purged")}
                   = WithoutContact(v, reason)
    BY <1>0, CleanedAgain
  <2>2. \A x : x \in Cleaned(purged, reason) <=>
               \E v \in values : \E w \in WithoutContact(v, "purged") : x \in WithoutContact(w, reason)
    BY DEF Cleaned
  <2>3. \A x : x \in Cleaned(values, reason) <=> \E v \in values : x \in WithoutContact(v, reason)
    BY DEF Cleaned
  <2>4. \A v \in values : \A x : x \in WithoutContact(v, reason) <=>
               \E w \in WithoutContact(v, "purged") : x \in WithoutContact(w, reason)
    BY <2>1
  <2> QED BY <2>2, <2>3, <2>4
<1>4. ASSUME NEW v \in values, v.what = "words", ~IsPersonalKey(v.key), v.key \notin ContextKeys
      PROVE  v \in erased /\ v \in purged
  <2>1. LeftOf(v, v.key) = {v} BY <1>0, <1>4, WordsAreUnread DEF LeftOf
  <2>2. v \in WithoutContact(v, "erased") /\ v \in WithoutContact(v, "purged")
    BY <1>4, <2>1 DEF WithoutContact, LabelKept
  <2> QED BY <2>2 DEF Cleaned
<1>5. (\A v \in values : v.key \in UnreadKeys) => read = {} BY ReadPart DEF ReadOf
<1>6. \A c \in read : c.declared =>
         \E v \in values : v.key \notin UnreadKeys /\ (v.own \/ v.place = "scheme")
  <2>1. \A c \in read : \E v \in values : v.key \notin UnreadKeys /\ c \in Detect(v, v.key, v.own)
    BY ReadPart DEF ReadOf
  <2> QED BY <1>0, <2>1, DeclaredWhere
<1>7. ASSUME NEW v \in values
      PROVE  /\ Detect(SanitizeUrl(v, "erased"), "", TRUE) = {}
             /\ v.place = "parameter" /\ v.name \notin NeverPersonal =>
                   Detect(SanitizeUrl(v, "purged"), "", TRUE) = {}
             /\ Detect(SanitizeUrl(v, "purged"), "", TRUE) \subseteq Detect(v, "", TRUE)
  BY <1>0, UrlsAreRead
<1> QED BY <1>1, <1>2, <1>3, <1>4, <1>5, <1>6, <1>7 DEF WhatIsReadIsRemoved, values

-----------------------------------------------------------------------------
(* Returns: numbers of one country, `mine`, in every way they are written, *)
(* French ones, `others`, and addresses.                                   *)

IsContact(home, mine, others, c) ==
    \/ \E box, tag : c = Email(box, tag)
    \/ \E name \in mine : c \in WrittenAs(home, name)
    \/ \E name \in others : c = Number("33", None, Nine(name))

\* What ErasedStayAway calls known and same.
Known(home, c, country) == c.kind = "email" \/ c.code # None \/ home \in {country, "US"}
Same(c, d) == \/ c.kind = "email" /\ d.kind = "email" /\ c.box = d.box
              \/ c.kind = "phone" /\ d.kind = "phone" /\ c.digits.name = d.digits.name

DigitsOf(home, name) == IF home = "US" THEN Ten(name) ELSE Nine(name)

LEMMA NumberForms ==
    ASSUME NEW home \in DOMAIN Plans, NEW name, NEW c \in WrittenAs(home, name)
    PROVE  /\ \E code, zero : c = Number(code, zero, DigitsOf(home, name))
           /\ c.kind = "phone" /\ c.digits = DigitsOf(home, name) /\ c.digits.name = name
<1>1. home \in {"FR", "IT", "ES", "US"} BY DEF Plans
<1>2. \E code, zero : c = Number(code, zero, DigitsOf(home, name))
  <2>1. CASE home = "FR" BY <2>1 DEF WrittenAs, DigitsOf
  <2>2. CASE home = "IT" BY <2>2 DEF WrittenAs, DigitsOf
  <2>3. CASE home = "ES" BY <2>3 DEF WrittenAs, DigitsOf
  <2>4. CASE home = "US" BY <2>4 DEF WrittenAs, DigitsOf
  <2> QED BY <1>1, <2>1, <2>2, <2>3, <2>4
<1>3. c.kind = "phone" /\ c.digits = DigitsOf(home, name) BY <1>2 DEF Number
<1>4. DigitsOf(home, name).name = name BY DEF DigitsOf, Nine, Ten
<1> QED BY <1>2, <1>3, <1>4

LEMMA Normalized ==
    ASSUME NEW code, NEW zero, NEW digits
    PROVE  NormalizePhone(Number(code, zero, digits))
               = Number(IF code = "1" THEN None ELSE code,
                        IF zero = None \/ (code # None /\ (zero = "(0)" \/ code = "33")) THEN None ELSE "0",
                        digits)
BY DEF NormalizePhone, Number, CodesThatDropZero

LEMMA NormalizedWays ==
    ASSUME NEW d
    PROVE  /\ NormalizePhone(Number(None, "0", d)) = Number(None, "0", d)
           /\ NormalizePhone(Number("33", None, d)) = Number("33", None, d)
           /\ NormalizePhone(Number("33", "0", d)) = Number("33", None, d)
           /\ NormalizePhone(Number("33", "(0)", d)) = Number("33", None, d)
           /\ NormalizePhone(Number("39", "0", d)) = Number("39", "0", d)
           /\ NormalizePhone(Number(None, None, d)) = Number(None, None, d)
           /\ NormalizePhone(Number("34", None, d)) = Number("34", None, d)
           /\ NormalizePhone(Number("1", None, d)) = Number(None, None, d)
<1>1. NormalizePhone(Number(None, "0", d)) = Number(None, "0", d) BY Normalized DEF None
<1>2. NormalizePhone(Number("33", None, d)) = Number("33", None, d) BY Normalized
<1>3. NormalizePhone(Number("33", "0", d)) = Number("33", None, d) BY Normalized DEF None
<1>4. NormalizePhone(Number("33", "(0)", d)) = Number("33", None, d) BY Normalized DEF None
<1>5. NormalizePhone(Number("39", "0", d)) = Number("39", "0", d)
  <2>1. "0" # "(0)" /\ "0" # None /\ "39" # "1" /\ "39" # "33" BY Zenon DEF None
  <2> QED BY <2>1, Normalized, Zenon
<1>6. NormalizePhone(Number(None, None, d)) = Number(None, None, d) BY Normalized DEF None
<1>7. NormalizePhone(Number("34", None, d)) = Number("34", None, d) BY Normalized
<1>8. NormalizePhone(Number("1", None, d)) = Number(None, None, d) BY Normalized
<1> QED BY <1>1, <1>2, <1>3, <1>4, <1>5, <1>6, <1>7, <1>8

LEMMA PlansAre ==
    /\ DOMAIN Plans = {"FR", "IT", "ES", "US"}
    /\ Plans["FR"].code = "33" /\ Plans["FR"].trunk /\ Plans["FR"].from = 9 /\ Plans["FR"].to = 9
    /\ Plans["IT"].code = "39" /\ ~Plans["IT"].trunk /\ Plans["IT"].from = 6 /\ Plans["IT"].to = 11
    /\ Plans["ES"].code = "34" /\ ~Plans["ES"].trunk /\ Plans["ES"].from = 9 /\ Plans["ES"].to = 9
<1>1. DOMAIN Plans = {"FR", "IT", "ES", "US"} BY DEF Plans
<1>2. Plans["FR"] = [code |-> "33", trunk |-> TRUE,  from |-> 9, to |-> 9] BY DEF Plans
<1>3. Plans["IT"] = [code |-> "39", trunk |-> FALSE, from |-> 6, to |-> 11] BY DEF Plans
<1>4. Plans["ES"] = [code |-> "34", trunk |-> FALSE, from |-> 9, to |-> 9] BY DEF Plans
<1> QED BY <1>1, <1>2, <1>3, <1>4

LEMMA Converted ==
    ASSUME NEW name
    PROVE  /\ International(Number(None, "0", Nine(name)), "FR") = Number("33", None, Nine(name))
           /\ International(Number(None, "0", Nine(name)), "IT") = Number("39", "0", Nine(name))
           /\ International(Number(None, None, Nine(name)), "ES") = Number("34", None, Nine(name))
<1> DEFINE n == Number(None, "0", Nine(name))
           m == Number(None, None, Nine(name))
<1>1. Nine(name).many = 9 /\ Nine(name).first = 6 BY DEF Nine
<1>2. /\ n.code = None /\ n.zero = "0" /\ n.digits = Nine(name)
      /\ m.code = None /\ m.zero = None /\ m.digits = Nine(name)
  BY DEF Number
<1>3. [n EXCEPT !.zero = None] = m /\ [m EXCEPT !.code = "33"] = Number("33", None, Nine(name))
      /\ [n EXCEPT !.code = "39"] = Number("39", "0", Nine(name))
      /\ [m EXCEPT !.code = "34"] = Number("34", None, Nine(name))
  BY DEF Number
<1>4. Length(n) = 10 /\ Length(m) = 9
  <2> HIDE DEF n, m
  <2>1. n.digits.many = 9 /\ m.digits.many = 9 BY <1>1, <1>2
  <2>2. n.zero = "0" /\ m.zero # "0" BY <1>2 DEF None
  <2> QED BY <2>1, <2>2 DEF Length
<1> HIDE DEF n, m
<1>5. International(n, "FR") = Number("33", None, Nine(name))
  <2>1. ~(n.code # None \/ "FR" \notin DOMAIN Plans \ {"US"}) /\ n.zero = "0" BY <1>2, PlansAre
  <2>2. Plans["FR"].trunk /\ Length(m) \in Plans["FR"].from .. Plans["FR"].to BY <1>4, PlansAre
  <2>3. International(n, "FR") = [m EXCEPT !.code = Plans["FR"].code]
    BY <1>3, <2>1, <2>2 DEF International
  <2> QED BY <1>3, <2>3, PlansAre
<1>6. International(n, "IT") = Number("39", "0", Nine(name))
  BY <1>2, <1>3, <1>4, PlansAre DEF International, MayBegin
<1>7. International(m, "ES") = Number("34", None, Nine(name))
  BY <1>1, <1>2, <1>3, <1>4, PlansAre DEF International, MayBegin
<1> QED BY <1>5, <1>6, <1>7 DEF n, m

LEMMA Unconverted ==
    ASSUME NEW code, NEW zero, NEW digits, NEW country, code # None \/ country \in {"US", None}
    PROVE  International(Number(code, zero, digits), country) = Number(code, zero, digits)
<1>1. Number(code, zero, digits).code = code BY DEF Number
<1> QED BY <1>1, PlansAre DEF International, None

\* A number as it is compared, whole: with its code wherever one is stored.
Whole(home, digits) ==
    Number(IF home = "US" THEN None ELSE Plans[home].code, IF home = "IT" THEN "0" ELSE None, digits)

LEMMA WholeNumbers ==
    ASSUME NEW name
    PROVE  /\ Whole("FR", Nine(name)) = Number("33", None, Nine(name))
           /\ Whole("IT", Nine(name)) = Number("39", "0", Nine(name))
           /\ Whole("ES", Nine(name)) = Number("34", None, Nine(name))
           /\ Whole("US", Ten(name)) = Number(None, None, Ten(name))
BY PlansAre DEF Whole

\* What the forms of a number are, by what it is written as.
LEMMA WaysToWrite ==
    ASSUME NEW home \in DOMAIN Plans, NEW name, NEW c \in WrittenAs(home, name)
    PROVE  LET whole == Whole(home, DigitsOf(home, name))
           IN  /\ \/ NormalizePhone(c) = whole
                  \/ International(NormalizePhone(c), home) = whole /\ c.code = None
               /\ International(whole, home) = whole
<1>1. home \in {"FR", "IT", "ES", "US"} BY PlansAre
<1>2. CASE home = "FR"
  <2>1. c \in {Number(None, "0", Nine(name)), Number("33", None, Nine(name)),
               Number("33", "0", Nine(name)), Number("33", "(0)", Nine(name))}
    BY <1>2 DEF WrittenAs
  <2>2. NormalizePhone(c) \in {Number(None, "0", Nine(name)), Number("33", None, Nine(name))}
        /\ (NormalizePhone(c) = Number(None, "0", Nine(name)) => c.code = None)
    <3>1. CASE c = Number(None, "0", Nine(name))
      <4>1. c.code = None BY <3>1 DEF Number
      <4> QED BY <3>1, <4>1, NormalizedWays
    <3>2. CASE c # Number(None, "0", Nine(name))
      <4>1. NormalizePhone(c) = Number("33", None, Nine(name)) BY <2>1, <3>2, NormalizedWays
      <4>2. Number(None, "0", Nine(name)) # Number("33", None, Nine(name)) BY DEF Number, None
      <4> QED BY <4>1, <4>2
    <3> QED BY <3>1, <3>2
  <2>3. International(Number("33", None, Nine(name)), "FR") = Number("33", None, Nine(name))
    BY Unconverted DEF None
  <2>4. Number(None, "0", Nine(name)) # Number("33", None, Nine(name)) BY DEF Number, None
  <2> QED BY <1>2, <2>2, <2>3, <2>4, Converted, WholeNumbers DEF DigitsOf
<1>3. CASE home = "IT"
  <2>1. c \in {Number(None, "0", Nine(name)), Number("39", "0", Nine(name))} BY <1>3 DEF WrittenAs
  <2>2. NormalizePhone(c) = c BY <2>1, NormalizedWays
  <2>3. International(Number("39", "0", Nine(name)), "IT") = Number("39", "0", Nine(name))
    BY Unconverted DEF None
  <2>4. Number(None, "0", Nine(name)).code = None BY DEF Number
  <2> QED BY <1>3, <2>1, <2>2, <2>3, <2>4, Converted, WholeNumbers DEF DigitsOf
<1>4. CASE home = "ES"
  <2>1. c \in {Number(None, None, Nine(name)), Number("34", None, Nine(name))} BY <1>4 DEF WrittenAs
  <2>2. NormalizePhone(c) = c BY <2>1, NormalizedWays
  <2>3. International(Number("34", None, Nine(name)), "ES") = Number("34", None, Nine(name))
    BY Unconverted DEF None
  <2>4. Number(None, None, Nine(name)).code = None BY DEF Number
  <2> QED BY <1>4, <2>1, <2>2, <2>3, <2>4, Converted, WholeNumbers DEF DigitsOf
<1>5. CASE home = "US"
  <2>1. c \in {Number(None, None, Ten(name)), Number("1", None, Ten(name))} BY <1>5 DEF WrittenAs
  <2>2. NormalizePhone(c) = Number(None, None, Ten(name)) BY <2>1, NormalizedWays
  <2>3. International(Number(None, None, Ten(name)), "US") = Number(None, None, Ten(name))
    BY Unconverted
  <2> QED BY <1>5, <2>2, <2>3, WholeNumbers DEF DigitsOf
<1> QED BY <1>1, <1>2, <1>3, <1>4, <1>5

LEMMA WholeIsAForm ==
    ASSUME NEW home \in DOMAIN Plans, NEW name, NEW c \in WrittenAs(home, name), NEW country,
           Known(home, c, country)
    PROVE  Whole(home, DigitsOf(home, name)) \in FormsOf(c, country)
<1> DEFINE whole == Whole(home, DigitsOf(home, name))
<1>1. CASE NormalizePhone(c) = whole BY <1>1 DEF FormsOf
<1>2. CASE NormalizePhone(c) # whole
  <2>1. International(NormalizePhone(c), home) = whole /\ c.code = None BY <1>2, WaysToWrite
  <2>2. home # "US"
    <3>1. ASSUME home = "US" PROVE FALSE
      <4>1. International(NormalizePhone(c), home) = NormalizePhone(c)
        BY <3>1, PlansAre DEF International
      <4> QED BY <1>2, <2>1, <4>1
    <3> QED BY <3>1
  <2>3. c.kind = "phone" BY NumberForms
  <2>4. home = country BY <2>1, <2>2, <2>3 DEF Known
  <2> QED BY <2>1, <2>4 DEF FormsOf
<1> QED BY <1>1, <1>2

\* Two ways to write one number are the same somewhere.
LEMMA WaysAreTheSame ==
    ASSUME NEW home \in DOMAIN Plans, NEW name, NEW c \in WrittenAs(home, name),
           NEW d \in WrittenAs(home, name)
    PROVE  SameNumberSomewhere(NormalizePhone(c), NormalizePhone(d))
<1> DEFINE whole == Whole(home, DigitsOf(home, name))
<1>1. ASSUME NEW x \in WrittenAs(home, name) PROVE International(NormalizePhone(x), home) = whole
  BY WaysToWrite
<1>2. International(NormalizePhone(c), home) = International(NormalizePhone(d), home) BY <1>1
<1> QED BY <1>2 DEF SameNumberSomewhere

LEMMA ConversionKeepsDigits ==
    ASSUME NEW code, NEW zero, NEW digits, NEW country
    PROVE  \E a, b : International(Number(code, zero, digits), country) = Number(a, b, digits)
<1> DEFINE n == Number(code, zero, digits)
           m == Number(code, None, digits)
<1>0. [n EXCEPT !.zero = None] = m BY DEF Number
<1>1. ASSUME NEW a
      PROVE  [n EXCEPT !.code = a] = Number(a, zero, digits) /\ [m EXCEPT !.code = a] = Number(a, None, digits)
  BY DEF Number
<1>2. \/ International(n, country) = n
      \/ \E a : International(n, country) = [n EXCEPT !.code = a]
      \/ \E a : International(n, country) = [m EXCEPT !.code = a]
  <2> HIDE DEF n, m
  <2> QED BY <1>0 DEF International
<1>3. CASE International(n, country) = n BY <1>3
<1>4. CASE \E a : International(n, country) = [n EXCEPT !.code = a]
  <2>1. PICK a : International(n, country) = [n EXCEPT !.code = a] BY <1>4
  <2>2. International(n, country) = Number(a, zero, digits) BY <1>1, <2>1
  <2> QED BY <2>2
<1>5. CASE \E a : International(n, country) = [m EXCEPT !.code = a]
  <2>1. PICK a : International(n, country) = [m EXCEPT !.code = a] BY <1>5
  <2>2. International(n, country) = Number(a, None, digits) BY <1>1, <2>1
  <2> QED BY <2>2
<1> QED BY <1>2, <1>3, <1>4, <1>5

\* The print of a contact that every known way of writing it makes.
PrintOf(home, mine, c) ==
    IF c.kind = "email" THEN Email(c.box, None)
    ELSE IF c.digits.name \in mine THEN Whole(home, c.digits) ELSE Number("33", None, c.digits)

LEMMA EmailsAre == ASSUME NEW box, NEW tag PROVE Email(box, tag).kind = "email" /\ Email(box, tag).box = box
BY DEF Email

LEMMA NumbersAre ==
    ASSUME NEW code, NEW zero, NEW digits
    PROVE  /\ Number(code, zero, digits).kind = "phone" /\ Number(code, zero, digits).digits = digits
           /\ Number(code, zero, digits).code = code
BY DEF Number

LEMMA ContactKinds ==
    ASSUME NEW home \in DOMAIN Plans, NEW mine, NEW others, NEW c, IsContact(home, mine, others, c)
    PROVE  \/ \E box, tag : c = Email(box, tag)
           \/ \E code, zero : c = Number(code, zero, c.digits)
<1>1. CASE \E box, tag : c = Email(box, tag) BY <1>1
<1>2. CASE \E name \in mine : c \in WrittenAs(home, name)
  <2>1. PICK name \in mine : c \in WrittenAs(home, name) BY <1>2
  <2>2. PICK code, zero : c = Number(code, zero, DigitsOf(home, name)) BY <2>1, NumberForms
  <2>3. c.digits = DigitsOf(home, name) BY <2>2, NumbersAre
  <2> QED BY <2>2, <2>3
<1>3. CASE \E name \in others : c = Number("33", None, Nine(name)) BY <1>3, NumbersAre
<1> QED BY <1>1, <1>2, <1>3 DEF IsContact

\* The prints of a contact are of its own box or digits.
LEMMA PrintsKeep ==
    ASSUME NEW home \in DOMAIN Plans, NEW mine, NEW others, NEW c, IsContact(home, mine, others, c),
           NEW country, NEW p \in Prints(c, country)
    PROVE  \/ /\ c.kind = "email" /\ p.of = Email(c.box, None) /\ p.contact = Email(c.box, None)
           \/ /\ c.kind = "phone" /\ p.contact = NormalizePhone(c)
              /\ \E a, b : p.of = Number(a, b, c.digits)
              /\ \E a, b : p.contact = Number(a, b, c.digits)
<1>1. CASE \E box, tag : c = Email(box, tag)
  <2>1. c.kind = "email" BY <1>1, EmailsAre
  <2> QED BY <2>1 DEF Prints
<1>2. CASE \E code, zero : c = Number(code, zero, c.digits)
  <2>1. PICK code, zero : c = Number(code, zero, c.digits) BY <1>2
  <2>2. c.kind = "phone" BY <2>1, NumbersAre
  <2>3. PICK n \in FormsOf(c, country) : p = [of |-> n, contact |-> NormalizePhone(c)] BY <2>2 DEF Prints
  <2>4. PICK a, b : NormalizePhone(c) = Number(a, b, c.digits) BY <2>1, Normalized
  <2>5. \E x, y : n = Number(x, y, c.digits)
    <3>1. n = NormalizePhone(c) \/ n = International(NormalizePhone(c), country) BY DEF FormsOf
    <3>2. \E x, y : International(Number(a, b, c.digits), country) = Number(x, y, c.digits)
      BY ConversionKeepsDigits
    <3> QED BY <2>4, <3>1, <3>2
  <2>6. p.of = n /\ p.contact = NormalizePhone(c) BY <2>3
  <2> QED BY <2>2, <2>4, <2>5, <2>6
<1> QED BY <1>1, <1>2, ContactKinds

LEMMA SharedPrintsAreSame ==
    ASSUME NEW home \in DOMAIN Plans, NEW mine, NEW others,
           NEW c, IsContact(home, mine, others, c), NEW d, IsContact(home, mine, others, d),
           NEW k, NEW l, NEW p \in Prints(c, k), NEW q \in Prints(d, l), p.of = q.of
    PROVE  Same(c, d)
<1>1. \/ c.kind = "email" /\ p.of = Email(c.box, None)
      \/ c.kind = "phone" /\ \E a, b : p.of = Number(a, b, c.digits)
  BY PrintsKeep
<1>2. \/ d.kind = "email" /\ q.of = Email(d.box, None)
      \/ d.kind = "phone" /\ \E a, b : q.of = Number(a, b, d.digits)
  BY PrintsKeep
<1> QED BY <1>1, <1>2, EmailsAre, NumbersAre DEF Same

LEMMA KnownMakesPrint ==
    ASSUME NEW home \in DOMAIN Plans, NEW mine, NEW others, mine \cap others = {},
           NEW c, IsContact(home, mine, others, c), NEW country, Known(home, c, country)
    PROVE  PrintOf(home, mine, c) \in Hashes(Prints(c, country))
<1>1. CASE \E box, tag : c = Email(box, tag)
  <2>1. c.kind = "email" BY <1>1, EmailsAre
  <2>2. [of |-> Email(c.box, None), contact |-> Email(c.box, None)] \in Prints(c, country)
    BY <2>1 DEF Prints
  <2>3. [of |-> Email(c.box, None), contact |-> Email(c.box, None)].of = PrintOf(home, mine, c)
    BY <2>1 DEF PrintOf
  <2> QED BY <2>2, <2>3 DEF Hashes
<1>2. ASSUME c.kind = "phone", PrintOf(home, mine, c) \in FormsOf(c, country)
      PROVE  PrintOf(home, mine, c) \in Hashes(Prints(c, country))
  <2> DEFINE p == [of |-> PrintOf(home, mine, c), contact |-> NormalizePhone(c)]
  <2>1. p \in Prints(c, country) BY <1>2 DEF Prints
  <2>2. p.of = PrintOf(home, mine, c) OBVIOUS
  <2> HIDE DEF p
  <2> QED BY <2>1, <2>2 DEF Hashes
<1>3. CASE \E name \in mine : c \in WrittenAs(home, name)
  <2>1. PICK name \in mine : c \in WrittenAs(home, name) BY <1>3
  <2>2. c.kind = "phone" /\ c.digits = DigitsOf(home, name) /\ c.digits.name = name BY <2>1, NumberForms
  <2>3. PrintOf(home, mine, c) = Whole(home, DigitsOf(home, name)) BY <2>1, <2>2 DEF PrintOf
  <2>4. PrintOf(home, mine, c) \in FormsOf(c, country) BY <2>1, <2>3, WholeIsAForm
  <2> QED BY <1>2, <2>2, <2>4
<1>4. CASE \E name \in others : c = Number("33", None, Nine(name))
  <2>1. PICK name \in others : c = Number("33", None, Nine(name)) BY <1>4
  <2>2. c.kind = "phone" /\ c.digits = Nine(name) BY <2>1, NumbersAre
  <2>3. c.digits.name = name BY <2>2 DEF Nine
  <2>4. PrintOf(home, mine, c) = c BY <2>1, <2>2, <2>3 DEF PrintOf
  <2>5. NormalizePhone(c) = c BY <2>1, NormalizedWays
  <2> QED BY <1>2, <2>2, <2>4, <2>5 DEF FormsOf
<1> QED BY <1>1, <1>3, <1>4 DEF IsContact

\* Where the digits of a number come from.
LEMMA DigitsByName ==
    ASSUME NEW home \in DOMAIN Plans, NEW mine, NEW others, mine \cap others = {},
           NEW c, IsContact(home, mine, others, c), c.kind = "phone"
    PROVE  \/ c.digits.name \in mine /\ c \in WrittenAs(home, c.digits.name)
              /\ c.digits = DigitsOf(home, c.digits.name)
           \/ c.digits.name \notin mine /\ c = Number("33", None, Nine(c.digits.name))
              /\ c.digits = Nine(c.digits.name)
<1>1. ~ \E box, tag : c = Email(box, tag) BY EmailsAre
<1>2. CASE \E name \in mine : c \in WrittenAs(home, name) BY <1>2, NumberForms
<1>3. CASE \E name \in others : c = Number("33", None, Nine(name))
  <2>1. PICK name \in others : c = Number("33", None, Nine(name)) BY <1>3
  <2>2. c.digits = Nine(name) BY <2>1, NumbersAre
  <2>3. c.digits.name = name BY <2>2 DEF Nine
  <2> QED BY <2>1, <2>2, <2>3
<1> QED BY <1>1, <1>2, <1>3 DEF IsContact

LEMMA SameMakeOnePrint ==
    ASSUME NEW home \in DOMAIN Plans, NEW mine, NEW others, mine \cap others = {},
           NEW c, IsContact(home, mine, others, c), NEW d, IsContact(home, mine, others, d), Same(c, d)
    PROVE  PrintOf(home, mine, c) = PrintOf(home, mine, d)
<1>1. CASE c.kind = "email" /\ d.kind = "email" /\ c.box = d.box BY <1>1 DEF PrintOf
<1>2. CASE c.kind = "phone" /\ d.kind = "phone" /\ c.digits.name = d.digits.name
  <2>1. c.digits = d.digits BY <1>2, DigitsByName
  <2> QED BY <1>2, <2>1 DEF PrintOf
<1> QED BY <1>1, <1>2 DEF Same

\* What autreContact takes for one contact.
OneContact(x, y) == x = y \/ (x.kind = "phone" /\ y.kind = "phone" /\ SameNumberSomewhere(x, y))

LEMMA SameAreOneContact ==
    ASSUME NEW home \in DOMAIN Plans, NEW mine, NEW others, mine \cap others = {},
           NEW c, IsContact(home, mine, others, c), NEW d, IsContact(home, mine, others, d), Same(c, d),
           NEW k, NEW l, NEW p \in Prints(c, k), NEW q \in Prints(d, l)
    PROVE  OneContact(p.contact, q.contact)
<1>1. CASE c.kind = "email" /\ d.kind = "email" /\ c.box = d.box
  <2>1. p.contact = Email(c.box, None) /\ q.contact = Email(d.box, None) BY <1>1, PrintsKeep
  <2> QED BY <1>1, <2>1 DEF OneContact
<1>2. CASE c.kind = "phone" /\ d.kind = "phone" /\ c.digits.name = d.digits.name
  <2>1. p.contact = NormalizePhone(c) /\ q.contact = NormalizePhone(d) BY <1>2, PrintsKeep
  <2>2. \/ c \in WrittenAs(home, c.digits.name) /\ d \in WrittenAs(home, c.digits.name)
        \/ c = d
    BY <1>2, DigitsByName
  <2>3. NormalizePhone(c).kind = "phone" /\ NormalizePhone(d).kind = "phone"
    BY NumbersAre DEF NormalizePhone
  <2>4. CASE c = d BY <2>1, <2>4 DEF OneContact
  <2>5. CASE c \in WrittenAs(home, c.digits.name) /\ d \in WrittenAs(home, c.digits.name)
    BY <2>1, <2>3, <2>5, WaysAreTheSame DEF OneContact
  <2> QED BY <2>2, <2>4, <2>5
<1> QED BY <1>1, <1>2 DEF Same

LEMMA OneContactIsSame ==
    ASSUME NEW home \in DOMAIN Plans, NEW mine, NEW others,
           NEW c, IsContact(home, mine, others, c), NEW d, IsContact(home, mine, others, d),
           NEW k, NEW l, NEW p \in Prints(c, k), NEW q \in Prints(d, l),
           OneContact(p.contact, q.contact)
    PROVE  Same(c, d)
<1> DEFINE x == p.contact
           y == q.contact
<1>1. \/ c.kind = "email" /\ x = Email(c.box, None)
      \/ c.kind = "phone" /\ \E a, b : x = Number(a, b, c.digits)
  BY PrintsKeep
<1>2. \/ d.kind = "email" /\ y = Email(d.box, None)
      \/ d.kind = "phone" /\ \E a, b : y = Number(a, b, d.digits)
  BY PrintsKeep
<1> HIDE DEF x, y
<1>3. CASE x = y BY <1>1, <1>2, <1>3, EmailsAre, NumbersAre DEF Same
<1>4. CASE x.kind = "phone" /\ y.kind = "phone" /\ SameNumberSomewhere(x, y)
  <2>1. c.kind = "phone" /\ d.kind = "phone" BY <1>1, <1>2, <1>4, EmailsAre
  <2>2. PICK a, b : x = Number(a, b, c.digits) BY <1>1, <2>1
  <2>3. PICK e, f : y = Number(e, f, d.digits) BY <1>2, <2>1
  <2>4. x = y \/ \E country \in DOMAIN Plans : International(x, country) = International(y, country)
    BY <1>4 DEF SameNumberSomewhere
  <2>5. ASSUME NEW country, International(x, country) = International(y, country) PROVE c.digits = d.digits
    <3>1. PICK g, h : International(x, country) = Number(g, h, c.digits) BY <2>2, ConversionKeepsDigits
    <3>2. PICK i, j : International(y, country) = Number(i, j, d.digits) BY <2>3, ConversionKeepsDigits
    <3>3. Number(g, h, c.digits) = Number(i, j, d.digits) BY <2>5, <3>1, <3>2
    <3>4. Number(g, h, c.digits).digits = c.digits /\ Number(i, j, d.digits).digits = d.digits
      BY NumbersAre
    <3> QED BY <3>3, <3>4
  <2>6. c.digits = d.digits BY <2>2, <2>3, <2>4, <2>5, NumbersAre
  <2> QED BY <2>1, <2>6 DEF Same
<1> QED BY <1>3, <1>4 DEF OneContact, x, y

LEMMA HashesAre ==
    ASSUME NEW contacts, NEW country, NEW h
    PROVE  h \in Hashes(PrintsOf(contacts, country)) <=> \E c \in contacts : \E p \in Prints(c, country) : p.of = h
BY DEF Hashes, PrintsOf

LEMMA Remembered ==
    ASSUME NEW e
    PROVE  /\ \A h \in Hashes(PrintsOf(e.declared, e.country)) :
                 \E r \in Remember(e) : r.hash = h /\ r.declared
           /\ \A h \in Hashes(PrintsOf(e.found, e.country)) :
                 \E r \in Remember(e) : r.hash = h /\ r.group = e.group
           /\ \A r \in Remember(e) :
                 /\ r.group = e.group
                 /\ r.declared => r.hash \in Hashes(PrintsOf(e.declared, e.country))
                 /\ ~r.declared => r.hash \in Hashes(PrintsOf(e.found, e.country))
<1> DEFINE told == Hashes(PrintsOf(e.declared, e.country))
           read == Hashes(PrintsOf(e.found, e.country))
           row(h, d) == [hash |-> h, declared |-> d, group |-> e.group]
           first == [hash: told, declared: {TRUE}, group: {e.group}]
           second == [hash: read \ told, declared: {FALSE}, group: {e.group}]
<1>1. Remember(e) = first \cup second BY DEF Remember
<1> HIDE DEF told, read
<1>2. \A h \in told : /\ row(h, TRUE) \in first /\ row(h, TRUE).hash = h
                      /\ row(h, TRUE).group = e.group /\ row(h, TRUE).declared = TRUE
  OBVIOUS
<1>3. \A h \in read \ told : /\ row(h, FALSE) \in second /\ row(h, FALSE).hash = h
                             /\ row(h, FALSE).group = e.group
  OBVIOUS
<1>7. \A r \in first : r.hash \in told /\ r.declared = TRUE /\ r.group = e.group OBVIOUS
<1>8. \A r \in second : r.hash \in read /\ r.declared = FALSE /\ r.group = e.group OBVIOUS
<1> HIDE DEF row, first, second
<1>4. \A h \in told : \E r \in Remember(e) : r.hash = h /\ r.declared BY <1>1, <1>2
<1>5. \A h \in read : \E r \in Remember(e) : r.hash = h /\ r.group = e.group
  <2>1. ASSUME NEW h \in read, h \in told PROVE \E r \in Remember(e) : r.hash = h /\ r.group = e.group
    BY <1>1, <1>2, <2>1
  <2>2. ASSUME NEW h \in read, h \notin told PROVE \E r \in Remember(e) : r.hash = h /\ r.group = e.group
    BY <1>1, <1>3, <2>2
  <2> QED BY <2>1, <2>2
<1>6. ASSUME NEW r \in Remember(e)
      PROVE  r.group = e.group /\ (r.declared => r.hash \in told) /\ (~r.declared => r.hash \in read)
  <2>1. CASE r \in first BY <1>7, <2>1
  <2>2. CASE r \in second BY <1>8, <2>2
  <2> QED BY <1>1, <2>1, <2>2
<1> QED BY <1>4, <1>5, <1>6 DEF told, read

\* An affair of a return, as any number of erasures and contacts may make it.
IsReturn(home, mine, others, erasures, declared, found) ==
    /\ home \in DOMAIN Plans /\ mine \cap others = {}
    /\ \A c \in declared \cup found : IsContact(home, mine, others, c)
    /\ \A e \in erasures : \A c \in e.declared \cup e.found : IsContact(home, mine, others, c)
    /\ \A e, b \in erasures : e.group = b.group => e = b \/ e.group = 0

LEMMA DeclaredIsRefused ==
    ASSUME NEW home, NEW mine, NEW others, NEW erasures, NEW declared, NEW found, NEW country,
           IsReturn(home, mine, others, erasures, declared, found),
           NEW e \in erasures, NEW c \in declared, NEW d \in e.declared,
           Same(c, d), Known(home, c, country), Known(home, d, e.country)
    PROVE  IsErasedPerson(declared, found, country, UNION {Remember(b) : b \in erasures})
<1> DEFINE h == PrintOf(home, mine, c)
           list == UNION {Remember(b) : b \in erasures}
<1>1. home \in DOMAIN Plans /\ mine \cap others = {} /\ IsContact(home, mine, others, c)
      /\ IsContact(home, mine, others, d)
  BY DEF IsReturn
<1>2. h \in Hashes(Prints(c, country)) /\ h \in Hashes(Prints(d, e.country))
  <2>1. h = PrintOf(home, mine, d) BY <1>1, SameMakeOnePrint
  <2> QED BY <1>1, <2>1, KnownMakesPrint
<1>3. h \in Hashes(PrintsOf(declared, country)) /\ h \in Hashes(PrintsOf(e.declared, e.country))
  BY <1>2 DEF Hashes, PrintsOf
<1> HIDE DEF h
<1>4. PICK r \in Remember(e) : r.hash = h /\ r.declared BY <1>3, Remembered
<1>5. r \in list OBVIOUS
<1>6. h \in Hashes(PrintsOf(declared, country) \cup PrintsOf(found, country)) BY <1>3 DEF Hashes
<1> HIDE DEF list
<1> QED BY <1>3, <1>4, <1>5, <1>6 DEF IsErasedPerson, list

LEMMA SeenTwiceIsRefused ==
    ASSUME NEW home, NEW mine, NEW others, NEW erasures, NEW declared, NEW found, NEW country,
           IsReturn(home, mine, others, erasures, declared, found),
           NEW e \in erasures, NEW c \in declared, NEW d \in declared \cup found, ~Same(c, d),
           Known(home, c, country), NEW x \in e.found, Same(c, x), Known(home, x, e.country),
           Known(home, d, country), NEW y \in e.found, Same(d, y), Known(home, y, e.country)
    PROVE  IsErasedPerson(declared, found, country, UNION {Remember(b) : b \in erasures})
<1> DEFINE h == PrintOf(home, mine, c)
           k == PrintOf(home, mine, d)
           told == PrintsOf(declared, country)
           prints == told \cup PrintsOf(found, country)
           list == UNION {Remember(b) : b \in erasures}
           rows == {r \in list : r.hash \in Hashes(prints)}
<1>1. /\ home \in DOMAIN Plans /\ mine \cap others = {}
      /\ IsContact(home, mine, others, c) /\ IsContact(home, mine, others, d)
      /\ IsContact(home, mine, others, x) /\ IsContact(home, mine, others, y)
  BY DEF IsReturn
<1>2. h = PrintOf(home, mine, x) /\ k = PrintOf(home, mine, y) BY <1>1, SameMakeOnePrint
<1>3. /\ h \in Hashes(Prints(c, country)) /\ k \in Hashes(Prints(d, country))
      /\ h \in Hashes(Prints(x, e.country)) /\ k \in Hashes(Prints(y, e.country))
  BY <1>1, <1>2, KnownMakesPrint
<1> HIDE DEF h, k
<1>4. PICK q \in Prints(c, country) : q.of = h BY <1>3 DEF Hashes
<1>5. PICK p \in Prints(d, country) : p.of = k BY <1>3 DEF Hashes
<1>6. q \in told /\ p \in prints /\ q \in prints BY DEF PrintsOf
<1>7. h \in Hashes(told) /\ h \in Hashes(prints) /\ k \in Hashes(prints)
  <2> HIDE DEF told, prints
  <2> QED BY <1>4, <1>5, <1>6 DEF Hashes
<1>8. h \in Hashes(PrintsOf(e.found, e.country)) /\ k \in Hashes(PrintsOf(e.found, e.country))
  BY <1>3 DEF Hashes, PrintsOf
<1>9. PICK r \in Remember(e) : r.hash = h /\ r.group = e.group BY <1>8, Remembered
<1>10. PICK m \in Remember(e) : m.hash = k /\ m.group = e.group BY <1>8, Remembered
<1>11. r \in rows /\ m \in rows
  <2>1. r \in list /\ m \in list OBVIOUS
  <2> HIDE DEF list, prints
  <2> QED BY <1>7, <1>9, <1>10, <2>1
<1>12. AnotherContact(prints, m.hash, r.hash)
  <2>1. ~OneContact(p.contact, q.contact)
    <3>1. ~Same(d, c) BY DEF Same
    <3> QED BY <1>1, <3>1, OneContactIsSame
  <2>2. k # h
    <3>1. ASSUME k = h PROVE FALSE
      <4>1. Same(d, c) BY <1>1, <1>4, <1>5, <3>1, SharedPrintsAreSame
      <4> QED BY <4>1 DEF Same
    <3> QED BY <3>1
  <2> HIDE DEF prints
  <2> QED BY <1>4, <1>5, <1>6, <1>9, <1>10, <2>1, <2>2 DEF AnotherContact, OneContact
<1>13. IsErasedPerson(declared, found, country, list)
       <=> \E s \in rows : IF s.hash \notin Hashes(told) THEN s.declared
                           ELSE \/ s.declared \/ s.group = 0
                                \/ \E t \in rows : t.group = s.group /\ AnotherContact(prints, t.hash, s.hash)
  BY DEF IsErasedPerson
<1> HIDE DEF rows, list, prints, told
<1> QED BY <1>7, <1>9, <1>10, <1>11, <1>12, <1>13 DEF list

LEMMA RefusedIsKnown ==
    ASSUME NEW home, NEW mine, NEW others, NEW erasures, NEW declared, NEW found, NEW country,
           IsReturn(home, mine, others, erasures, declared, found),
           IsErasedPerson(declared, found, country, UNION {Remember(b) : b \in erasures})
    PROVE  LET sent == declared \cup found
               within(c, contacts) == \E d \in contacts : Same(c, d)
           IN  \E e \in erasures :
                  \/ \E c \in sent : within(c, e.declared)
                  \/ e.group = 0 /\ \E c \in declared : within(c, e.found)
                  \/ \E c \in declared, d \in sent : ~Same(c, d) /\ within(c, e.found) /\ within(d, e.found)
<1> DEFINE told == PrintsOf(declared, country)
           prints == told \cup PrintsOf(found, country)
           list == UNION {Remember(b) : b \in erasures}
           rows == {r \in list : r.hash \in Hashes(prints)}
           sent == declared \cup found
           within(c, contacts) == \E d \in contacts : Same(c, d)
<1>1. home \in DOMAIN Plans /\ mine \cap others = {} /\ \A c \in sent : IsContact(home, mine, others, c)
  BY DEF IsReturn
<1>2. ASSUME NEW e \in erasures, NEW c \in sent, NEW p \in Prints(c, country),
             NEW contacts, contacts \in {e.declared, e.found},
             p.of \in Hashes(PrintsOf(contacts, e.country))
      PROVE  within(c, contacts)
  <2>4. PICK d \in contacts : \E q \in Prints(d, e.country) : q.of = p.of BY <1>2, HashesAre
  <2>1. PICK q \in Prints(d, e.country) : q.of = p.of BY <2>4
  <2>2. IsContact(home, mine, others, d) BY <1>2 DEF IsReturn
  <2>3. Same(c, d) BY <1>1, <2>1, <2>2, SharedPrintsAreSame
  <2> QED BY <2>3
<1>3. PICK r \in rows : IF r.hash \notin Hashes(told) THEN r.declared
                        ELSE \/ r.declared \/ r.group = 0
                             \/ \E m \in rows : m.group = r.group /\ AnotherContact(prints, m.hash, r.hash)
  BY DEF IsErasedPerson
<1>4. ASSUME NEW s \in rows
      PROVE  \E e \in erasures, c \in sent : \E p \in Prints(c, country) : s \in Remember(e) /\ p.of = s.hash
  <2>1. PICK p \in prints : p.of = s.hash BY DEF Hashes
  <2>2. \E c \in sent : p \in Prints(c, country) BY DEF PrintsOf
  <2>3. \E e \in erasures : s \in Remember(e) OBVIOUS
  <2> QED BY <2>1, <2>2, <2>3
<1>5. PICK e \in erasures, c \in sent : \E p \in Prints(c, country) : r \in Remember(e) /\ p.of = r.hash
  BY <1>4
<1>6. CASE r.declared
  <2>1. r.hash \in Hashes(PrintsOf(e.declared, e.country)) BY <1>5, <1>6, Remembered
  <2>2. within(c, e.declared) BY <1>2, <1>5, <2>1
  <2> QED BY <2>2
<1>7. CASE ~r.declared
  <2>1. r.hash \in Hashes(told) BY <1>3, <1>7
  <2>7. PICK a \in declared : \E q \in Prints(a, country) : q.of = r.hash BY <2>1, HashesAre
  <2>2. PICK q \in Prints(a, country) : q.of = r.hash BY <2>7
  <2>3. r.group = e.group /\ r.hash \in Hashes(PrintsOf(e.found, e.country)) BY <1>5, <1>7, Remembered
  <2>4. within(a, e.found) BY <1>2, <2>2, <2>3
  <2>5. CASE r.group = 0 BY <2>3, <2>4, <2>5
  <2>6. CASE r.group # 0
    <3>1. PICK m \in rows : m.group = r.group /\ AnotherContact(prints, m.hash, r.hash)
      BY <1>3, <1>7, <2>1, <2>6
    <3>2. PICK u, v \in prints : u.of = m.hash /\ v.of = r.hash /\ ~OneContact(u.contact, v.contact)
      BY <3>1 DEF AnotherContact, OneContact
    <3>3. PICK d \in sent : u \in Prints(d, country) BY DEF PrintsOf
    <3>4. PICK b \in sent : v \in Prints(b, country) BY DEF PrintsOf
    <3>5. PICK f \in erasures : m \in Remember(f) OBVIOUS
    <3>6. f = e
      <4>1. m.group = f.group BY <3>5, Remembered
      <4> QED BY <2>3, <2>6, <3>1, <4>1 DEF IsReturn
    <3>7. ~Same(a, d)
      <4>1. Same(a, b) BY <1>1, <2>2, <3>2, <3>4, SharedPrintsAreSame
      <4>2. ~Same(d, b) BY <1>1, <3>2, <3>3, <3>4, SameAreOneContact
      <4> QED BY <4>1, <4>2 DEF Same
    <3>8. CASE m.declared
      <4>1. m.hash \in Hashes(PrintsOf(e.declared, e.country)) BY <3>5, <3>6, <3>8, Remembered
      <4>2. within(d, e.declared) BY <1>2, <3>2, <3>3, <4>1
      <4> QED BY <4>2
    <3>9. CASE ~m.declared
      <4>1. m.hash \in Hashes(PrintsOf(e.found, e.country)) BY <3>5, <3>6, <3>9, Remembered
      <4>2. within(d, e.found) BY <1>2, <3>2, <3>3, <4>1
      <4> QED BY <2>4, <3>7, <4>2
    <3> QED BY <3>8, <3>9
  <2> QED BY <2>5, <2>6
<1> QED BY <1>6, <1>7

LEMMA ReturnAnswers ==
    ASSUME NEW mine, NEW others, affair.about = "return",
           IsReturn(affair.home, mine, others, affair.erasures, affair.declared, affair.found)
    PROVE  ErasedStayAway
<1> DEFINE list == UNION {Remember(e) : e \in affair.erasures}
           refused == IsErasedPerson(affair.declared, affair.found, affair.country, list)
           sent == affair.declared \cup affair.found
           known(c, country) == Known(affair.home, c, country)
           within(c, contacts) == \E d \in contacts : Same(c, d)
           read(c, e) == known(c, affair.country) /\ \E d \in e.found : Same(c, d) /\ known(d, e.country)
<1>1. \A e \in affair.erasures : \A c \in affair.declared, d \in e.declared :
         Same(c, d) /\ known(c, affair.country) /\ known(d, e.country) => refused
  BY DeclaredIsRefused
<1>2. \A e \in affair.erasures : \A c \in affair.declared, d \in sent :
         ~Same(c, d) /\ read(c, e) /\ read(d, e) => refused
  <2>1. ASSUME NEW e \in affair.erasures, NEW c \in affair.declared, NEW d \in sent,
               ~Same(c, d), read(c, e), read(d, e)
        PROVE  refused
    <3>1. PICK x \in e.found : Same(c, x) /\ known(x, e.country) BY <2>1
    <3>2. PICK y \in e.found : Same(d, y) /\ known(y, e.country) BY <2>1
    <3> QED BY <2>1, <3>1, <3>2, SeenTwiceIsRefused
  <2> HIDE DEF refused, read
  <2> QED BY <2>1
<1>3. refused => \E e \in affair.erasures :
         \/ \E c \in sent : within(c, e.declared)
         \/ e.group = 0 /\ \E c \in affair.declared : within(c, e.found)
         \/ \E c \in affair.declared, d \in sent : ~Same(c, d) /\ within(c, e.found) /\ within(d, e.found)
  BY RefusedIsKnown
<1> HIDE DEF refused, list
<1> QED BY <1>1, <1>2, <1>3 DEF ErasedStayAway, Known, Same, refused, list

LEMMA ReturnsAreReturns ==
    affair \in Returns => affair.about = "return"
        /\ IsReturn(affair.home, {"a"}, {"b"}, affair.erasures, affair.declared, affair.found)
<1> SUFFICES ASSUME affair \in Returns
             PROVE  affair.about = "return"
                    /\ IsReturn(affair.home, {"a"}, {"b"}, affair.erasures, affair.declared, affair.found)
  OBVIOUS
<1> PICK home \in DOMAIN Plans : affair \in ReturnsTo(home) BY DEF Returns
<1> DEFINE contacts == WrittenAs(home, "a") \cup {Other, Email("e", None), Email("e", "tag")}
<1>1. /\ affair.about = "return" /\ affair.home = home
      /\ affair.erasures \in {{e, b} : e \in ErasuresAt(home), b \in ErasuresBefore(home)}
      /\ affair.declared \in AtMost(2, WrittenAs(home, "a") \cup {Other, Email("e", None)})
      /\ affair.found \in {{}, {Other}, {Email("e", "tag")}}
  BY DEF ReturnsTo
<1>2. affair.declared \subseteq contacts /\ affair.found \subseteq contacts BY <1>1 DEF AtMost
<1>3. PICK e \in ErasuresAt(home), b \in ErasuresBefore(home) : affair.erasures = {e, b} BY <1>1
<1>4. Plain(home) \subseteq contacts BY DEF Plain
<1>5. e.group = 1 /\ e.declared \subseteq contacts /\ e.found \subseteq contacts
  BY <1>4 DEF ErasuresAt, AtMost
<1>6. b.group \in {0, 2} /\ b.declared \subseteq contacts /\ b.found \subseteq contacts
  <2>1. CASE b \in [declared: {{}}, country: {home}, group: {0, 2}, found: {{Other}}] BY <2>1
  <2>2. CASE b \in [declared: {{}}, country: {None}, group: {2}, found: {{}}] BY <2>2
  <2>3. CASE b \in [declared: {{Email("e", "tag")}}, country: {None}, group: {2}, found: {Plain(home)}]
    BY <1>4, <2>3
  <2> QED BY <2>1, <2>2, <2>3 DEF ErasuresBefore
<1>7. \A c \in contacts : IsContact(home, {"a"}, {"b"}, c)
  <2>1. \A c \in WrittenAs(home, "a") : IsContact(home, {"a"}, {"b"}, c) BY DEF IsContact
  <2>2. IsContact(home, {"a"}, {"b"}, Other) BY DEF IsContact, Other
  <2>3. \A tag : IsContact(home, {"a"}, {"b"}, Email("e", tag)) BY DEF IsContact
  <2> QED BY <2>1, <2>2, <2>3
<1> HIDE DEF contacts
<1>8. \A x, y \in affair.erasures : x.group = y.group => x = y \/ x.group = 0
  BY <1>3, <1>5, <1>6
<1>9. \A x \in affair.erasures : \A c \in x.declared \cup x.found : IsContact(home, {"a"}, {"b"}, c)
  BY <1>3, <1>5, <1>6, <1>7
<1>10. \A c \in affair.declared \cup affair.found : IsContact(home, {"a"}, {"b"}, c) BY <1>2, <1>7
<1>11. {"a"} \cap {"b"} = {} OBVIOUS
<1> QED BY <1>1, <1>8, <1>9, <1>10, <1>11 DEF IsReturn

-----------------------------------------------------------------------------
(* Visits: any number of them, of the three persons.                       *)

IsVisit(v) ==
    /\ v = [who |-> v.who, hasLead |-> v.hasLead, lead |-> v.lead, visitor |-> v.visitor,
            fingerprint |-> v.fingerprint]
    /\ v.who \in DOMAIN People
    /\ \A d \in Details : v.lead[d] \in {None, People[v.who][d]}
    /\ v.visitor \in [id: {"shared", "fp", "other", "else"}, hashed: {0, 1}]
    /\ v.fingerprint \in {"no", "yes", "unknown"}
    /\ v.visitor.id = "fp" => v.fingerprint # "no"
    /\ v.visitor.id = "shared" => v.fingerprint # "yes"

IsAsked(v) ==
    /\ IsVisit(v) /\ v.who = "Ann" /\ v.visitor.id \in {"shared", "fp"}

LEMMA Persons ==
    /\ DOMAIN People = {"Ann", "Bob", "Eve"} /\ Details = {"first", "last", "phone", "email"}
    /\ \A who \in DOMAIN People : \A d \in Details : People[who][d] # None
    /\ \A who \in DOMAIN People : People[who]["phone"] = People["Ann"]["phone"]
    /\ \A who \in {"Bob", "Eve"} : \A d \in {"first", "email"} : People[who][d] # People["Ann"][d]
    /\ People["Bob"]["last"] = People["Ann"]["last"] /\ People["Eve"]["last"] # People["Ann"]["last"]
<1>1. DOMAIN People = {"Ann", "Bob", "Eve"} BY DEF People
<1>2. /\ People["Ann"] = [first |-> "ann", last |-> "d", phone |-> "p", email |-> "ann@"]
      /\ People["Bob"] = [first |-> "bob", last |-> "d", phone |-> "p", email |-> "bob@"]
      /\ People["Eve"] = [first |-> "eve", last |-> "x", phone |-> "p", email |-> "eve@"]
  BY DEF People
<1>3. Details = {"first", "last", "phone", "email"} BY DEF Details
<1>4. /\ None \notin {"ann", "d", "p", "ann@"} /\ None \notin {"bob", "bob@"}
      /\ None \notin {"eve", "x", "eve@"}
  BY Zenon DEF None
<1>5. \A d \in Details : People["Ann"][d] \in {"ann", "d", "p", "ann@"} BY <1>2, <1>3
<1>6. /\ \A d \in Details : People["Bob"][d] \in {"bob", "d", "p", "bob@"}
      /\ \A d \in Details : People["Eve"][d] \in {"eve", "x", "p", "eve@"}
  BY <1>2, <1>3
<1>7. People["Bob"]["phone"] = People["Ann"]["phone"] /\ People["Eve"]["phone"] = People["Ann"]["phone"]
  BY <1>2
<1>8. \A d \in {"first", "email"} : People["Bob"][d] # People["Ann"][d] BY <1>2
<1>9. \A d \in {"first", "email"} : People["Eve"][d] # People["Ann"][d] BY <1>2
<1>10. People["Bob"]["last"] = People["Ann"]["last"] /\ People["Eve"]["last"] # People["Ann"]["last"]
  BY <1>2
<1> HIDE DEF None
<1> QED BY <1>1, <1>3, <1>4, <1>5, <1>6, <1>7, <1>8, <1>9, <1>10

LEMMA SameBrowser ==
    ASSUME NEW asked, IsAsked(asked), NEW c, IsVisit(c)
    PROVE  /\ SameVisitor(asked, c) <=> asked.visitor.id = c.visitor.id
           /\ ByVisitor(asked, c) => asked.visitor.id = "shared" /\ c.visitor.id = "shared"
           /\ /\ asked.visitor.id = "shared" /\ c.visitor.id = "shared"
              /\ asked.fingerprint # "unknown" /\ c.fingerprint # "unknown"
              => ByVisitor(asked, c)
<1> DEFINE x == asked.visitor
           y == c.visitor
<1>1. /\ x \in [id: {"shared", "fp", "other", "else"}, hashed: {0, 1}]
      /\ y \in [id: {"shared", "fp", "other", "else"}, hashed: {0, 1}]
      /\ x.id \in {"shared", "fp"}
  BY DEF IsAsked, IsVisit
<1> HIDE DEF x, y
<1>2. /\ y = x <=> y.id = x.id /\ y.hashed = x.hashed
      /\ y = Pseudonym(x) <=> y.id = x.id /\ y.hashed = x.hashed + 1
      /\ Pseudonym(y) = x <=> y.id = x.id /\ x.hashed = y.hashed + 1
  BY <1>1 DEF Pseudonym
<1>3. y = x \/ y = Pseudonym(x) \/ Pseudonym(y) = x <=> x.id = y.id BY <1>1, <1>2
<1>4. SameVisitor(asked, c) <=> x.id = y.id BY <1>3 DEF SameVisitor, x, y
<1>5. asked.fingerprint \in {"no", "yes", "unknown"} /\ (x.id = "fp" => asked.fingerprint # "no")
      /\ (x.id = "shared" => asked.fingerprint # "yes") /\ c.fingerprint \in {"no", "yes", "unknown"}
      /\ (y.id = "shared" => c.fingerprint # "yes")
  BY DEF IsAsked, IsVisit, x, y
<1>6. x.id = "fp" => IsFingerprint(asked)
  BY <1>5 DEF IsFingerprint, x
<1>7. asked.fingerprint = "no" => ~IsFingerprint(asked) BY DEF IsFingerprint
<1>8. c.fingerprint = "no" => ~IsFingerprint(c) BY DEF IsFingerprint
<1> QED BY <1>1, <1>4, <1>5, <1>6, <1>7, <1>8 DEF ByVisitor, x, y

LEMMA WhatIsRepeated ==
    ASSUME NEW asked, IsAsked(asked), NEW c, IsVisit(c)
    PROVE  /\ \A d \in Details : d \in Repeats(asked, c) <=>
                 /\ asked.lead[d] # None /\ c.lead[d] # None
                 /\ c.who = "Ann" \/ d = "phone" \/ (c.who = "Bob" /\ d = "last")
           /\ c.who = "Ann" => ~Contradicts(asked, c)
           /\ c.who # "Ann" => \A d \in {"first", "email"} :
                 None \notin {asked.lead[d], c.lead[d]} => Contradicts(asked, c)
<1>1. /\ \A d \in Details : asked.lead[d] \in {None, People["Ann"][d]}
      /\ \A d \in Details : c.lead[d] \in {None, People[c.who][d]}
      /\ c.who \in {"Ann", "Bob", "Eve"}
  BY Persons DEF IsAsked, IsVisit
<1>2. \A d \in Details : d \in Repeats(asked, c) <=> asked.lead[d] # None /\ c.lead[d] = asked.lead[d]
  BY DEF Repeats
<1>3. ASSUME NEW d \in Details
      PROVE  People[c.who][d] = People["Ann"][d] <=>
                c.who = "Ann" \/ d = "phone" \/ (c.who = "Bob" /\ d = "last")
  BY <1>1, Persons
<1>4. \A d \in Details : People["Ann"][d] # None /\ People[c.who][d] # None BY <1>1, Persons
<1>5. ASSUME NEW d \in Details
      PROVE  d \in Repeats(asked, c) <=>
                 /\ asked.lead[d] # None /\ c.lead[d] # None
                 /\ c.who = "Ann" \/ d = "phone" \/ (c.who = "Bob" /\ d = "last")
  BY <1>1, <1>2, <1>3, <1>4
<1>6. c.who = "Ann" => ~Contradicts(asked, c) BY <1>1 DEF Contradicts
<1>7. ASSUME c.who # "Ann", NEW d \in {"first", "email"}, None \notin {asked.lead[d], c.lead[d]}
      PROVE  Contradicts(asked, c)
  <2>1. d \in Details /\ c.who \in {"Bob", "Eve"} BY <1>1, <1>7, Persons
  <2>2. c.lead[d] # asked.lead[d] BY <1>1, <1>7, <2>1, Persons
  <2> QED BY <1>7, <2>1, <2>2 DEF Contradicts
<1> QED BY <1>5, <1>6, <1>7


(* One of two is enough when the other is not there.                       *)
LEMMA TwoOfTwo ==
    ASSUME NEW s, NEW x, NEW y, s \subseteq {x, y}, Cardinality(s) >= 2
    PROVE  x \in s /\ y \in s
<1>1. ASSUME NEW z, s \subseteq {z} PROVE FALSE
  <2>1. IsFiniteSet({z}) /\ Cardinality({z}) = 1 BY FS_Singleton
  <2>2. Cardinality(s) <= 1 BY <1>1, <2>1, FS_Subset
  <2>3. IsFiniteSet(s) BY <1>1, <2>1, FS_Subset
  <2>4. Cardinality(s) \in Nat BY <2>3, FS_CardinalityType
  <2> QED BY <2>2, <2>4
<1> QED BY <1>1

LEMMA TwoAreDistinct ==
    ASSUME NEW s, IsFiniteSet(s), Cardinality(s) >= 2
    PROVE  \E x, y \in s : x # y
<1>1. s # {} BY FS_EmptySet
<1>2. PICK x \in s : TRUE BY <1>1
<1>3. ~(s \subseteq {x})
  <2>1. IsFiniteSet({x}) /\ Cardinality({x}) = 1 BY FS_Singleton
  <2>2. s \subseteq {x} => Cardinality(s) <= 1 BY <2>1, FS_Subset
  <2>3. Cardinality(s) \in Nat BY FS_CardinalityType
  <2> QED BY <2>2, <2>3
<1> QED BY <1>2, <1>3

LEMMA DistinctAreTwo ==
    ASSUME NEW s, IsFiniteSet(s), NEW x \in s, NEW y \in s, x # y
    PROVE  Cardinality(s) >= 2
<1>1. IsFiniteSet({x}) /\ Cardinality({x}) = 1 BY FS_Singleton
<1>2. Cardinality({x} \cup {y}) = 2
  <2>1. y \notin {x} OBVIOUS
  <2>2. Cardinality({x} \cup {y}) = Cardinality({x}) + 1 BY <1>1, <2>1, FS_AddElement, Zenon
  <2> QED BY <1>1, <2>2
<1>3. Cardinality({x} \cup {y}) <= Cardinality(s) BY FS_Subset
<1>4. Cardinality(s) \in Nat BY FS_CardinalityType
<1> QED BY <1>2, <1>3, <1>4

(* To widen by contact takes two details, and a second beside the address  *)
(* is enough.                                                              *)
LEMMA WhatWidens ==
    ASSUME NEW asked, IsAsked(asked)
    PROVE  /\ CanWidenByContact(asked) => Cardinality({d \in Details : asked.lead[d] # None}) >= 2
           /\ asked.lead["email"] # None /\ (\E d \in Details \ {"email"} : asked.lead[d] # None)
              => CanWidenByContact(asked)
<1> DEFINE kinds == {{"first", "last"}, {"phone"}, {"email"}}
           given(ds) == \E d \in ds : asked.lead[d] # None
           widening == {ds \in kinds : given(ds)}
           shown == {d \in Details : asked.lead[d] # None}
<1>1. IsFiniteSet(kinds) /\ IsFiniteSet(Details)
  <2>1. IsFiniteSet({}) BY FS_EmptySet
  <2>2. IsFiniteSet({} \cup {{"first", "last"}}) BY <2>1, FS_AddElement
  <2>3. IsFiniteSet(({} \cup {{"first", "last"}}) \cup {{"phone"}}) BY <2>2, FS_AddElement
  <2>4. IsFiniteSet((({} \cup {{"first", "last"}}) \cup {{"phone"}}) \cup {{"email"}})
    BY <2>3, FS_AddElement
  <2>5. kinds = (({} \cup {{"first", "last"}}) \cup {{"phone"}}) \cup {{"email"}} OBVIOUS
  <2>6. IsFiniteSet(kinds) BY <2>4, <2>5
  <2>7. IsFiniteSet({} \cup {"first"}) BY <2>1, FS_AddElement
  <2>8. IsFiniteSet(({} \cup {"first"}) \cup {"last"}) BY <2>7, FS_AddElement
  <2>9. IsFiniteSet((({} \cup {"first"}) \cup {"last"}) \cup {"phone"}) BY <2>8, FS_AddElement
  <2>10. IsFiniteSet(((({} \cup {"first"}) \cup {"last"}) \cup {"phone"}) \cup {"email"})
    BY <2>9, FS_AddElement
  <2>11. Details = ((({} \cup {"first"}) \cup {"last"}) \cup {"phone"}) \cup {"email"} BY DEF Details
  <2> QED BY <2>6, <2>10, <2>11
<1>2. IsFiniteSet(widening) /\ IsFiniteSet(shown)
  <2>1. widening \subseteq kinds /\ shown \subseteq Details OBVIOUS
  <2> HIDE DEF kinds, widening, shown
  <2> QED BY <1>1, <2>1, FS_Subset
<1>3. CanWidenByContact(asked) <=> Cardinality(widening) >= 2 BY DEF CanWidenByContact
<1>4. UNION kinds = Details BY DEF Details
<1>5. \A x, y \in kinds : x # y => x \cap y = {} OBVIOUS
<1>6. ASSUME Cardinality(widening) >= 2 PROVE Cardinality(shown) >= 2
  <2>1. PICK x, y \in widening : x # y
    <3> HIDE DEF widening
    <3> QED BY <1>2, <1>6, TwoAreDistinct
  <2>2. PICK d \in x : asked.lead[d] # None OBVIOUS
  <2>3. PICK b \in y : asked.lead[b] # None OBVIOUS
  <2>4. x \in kinds /\ y \in kinds OBVIOUS
  <2> HIDE DEF kinds, widening
  <2>5. d # b /\ d \in shown /\ b \in shown BY <1>4, <1>5, <2>1, <2>2, <2>3, <2>4
  <2> HIDE DEF shown
  <2> QED BY <1>2, <2>5, DistinctAreTwo
<1>7. ASSUME asked.lead["email"] # None, NEW d \in Details \ {"email"}, asked.lead[d] # None
      PROVE  Cardinality(widening) >= 2
  <2>1. {"email"} \in widening BY <1>7
  <2>2. \E ds \in widening : d \in ds BY <1>4, <1>7
  <2>3. PICK ds \in widening : ds # {"email"} BY <1>7, <2>2
  <2> HIDE DEF widening
  <2> QED BY <1>2, <2>1, <2>3, DistinctAreTwo
<1> QED BY <1>3, <1>6, <1>7


(* What an erasure takes, of whatever visits there are beside hers.        *)
LEMMA TakesOfOthers ==
    ASSUME NEW asked, IsAsked(asked), NEW others, \A v \in others : IsVisit(v),
           NEW c \in VisitsOfPerson(asked, others), c.who # "Ann"
    PROVE  /\ \/ ~c.hasLead /\ asked.visitor.id = "shared" /\ c.visitor.id = "shared"
              \/ /\ asked.visitor.id = "shared" /\ c.visitor.id = "shared"
                 /\ c.lead["phone"] # None \/ (c.who = "Bob" /\ c.lead["last"] # None)
              \/ c.who = "Bob" /\ None \notin {c.lead["phone"], c.lead["last"]}
           /\ \A d \in {"first", "email"} : None \in {asked.lead[d], c.lead[d]}
<1>1. /\ IsVisit(c) /\ ~Contradicts(asked, c)
      /\ \/ ByVisitor(asked, c) /\ (~c.hasLead \/ Repeats(asked, c) # {})
         \/ Cardinality(Repeats(asked, c)) >= 2 \/ "email" \in Repeats(asked, c)
  BY DEF VisitsOfPerson, PersonCandidates, LinkedByVisitor, LinkedByContact
<1>2. \A d \in {"first", "email"} : None \in {asked.lead[d], c.lead[d]} BY <1>1, WhatIsRepeated
<1>3. \A d \in Repeats(asked, c) : \/ d = "phone" /\ c.lead["phone"] # None
                                   \/ d = "last" /\ c.who = "Bob" /\ c.lead["last"] # None
  <2>1. Repeats(asked, c) \subseteq Details BY DEF Repeats
  <2> QED BY <1>1, <2>1, WhatIsRepeated
<1>4. CASE ByVisitor(asked, c) /\ ~c.hasLead
  <2>1. asked.visitor.id = "shared" /\ c.visitor.id = "shared" BY <1>1, <1>4, SameBrowser
  <2> QED BY <1>2, <1>4, <2>1
<1>5. CASE ByVisitor(asked, c) /\ Repeats(asked, c) # {}
  <2>1. asked.visitor.id = "shared" /\ c.visitor.id = "shared" BY <1>1, <1>5, SameBrowser
  <2>2. PICK d \in Repeats(asked, c) : TRUE BY <1>5
  <2> QED BY <1>2, <1>3, <2>1, <2>2
<1>6. CASE Cardinality(Repeats(asked, c)) >= 2
  <2>1. Repeats(asked, c) \subseteq {"phone", "last"} BY <1>3
  <2>2. "phone" \in Repeats(asked, c) /\ "last" \in Repeats(asked, c) BY <1>6, <2>1, TwoOfTwo
  <2>3. c.lead["phone"] # None /\ c.who = "Bob" /\ c.lead["last"] # None BY <1>3, <2>2
  <2> QED BY <1>2, <2>3
<1>7. CASE "email" \in Repeats(asked, c) BY <1>3, <1>7
<1> QED BY <1>1, <1>4, <1>5, <1>6, <1>7

LEMMA TakesElsewhere ==
    ASSUME NEW asked, IsAsked(asked), NEW others, \A v \in others : IsVisit(v),
           NEW c \in VisitsOfPerson(asked, others),
           ~(asked.visitor.id = "shared" /\ c.visitor.id = "shared")
    PROVE  /\ Cardinality({d \in Details : asked.lead[d] # None}) >= 2
           /\ \A w \in others : asked.lead["phone"] # None /\ w.lead["phone"] # None
                => \A d \in {"first", "email"} : None \in {asked.lead[d], w.lead[d]} \/ w.who = "Ann"
<1>1. IsVisit(c) /\ LinkedByContact(asked, c, others)
  <2>1. IsVisit(c) /\ (LinkedByVisitor(asked, c) \/ LinkedByContact(asked, c, others))
    BY DEF VisitsOfPerson, PersonCandidates
  <2>2. ~LinkedByVisitor(asked, c) BY <2>1, SameBrowser DEF LinkedByVisitor
  <2> QED BY <2>1, <2>2
<1>2. CanWidenByContact(asked) /\ ~SharedContact(asked, others) BY <1>1 DEF LinkedByContact
<1>3. ASSUME NEW w \in others, asked.lead["phone"] # None, w.lead["phone"] # None,
             NEW d \in {"first", "email"}, None \notin {asked.lead[d], w.lead[d]}, w.who # "Ann"
      PROVE  FALSE
  <2>1. Contradicts(asked, w) BY <1>3, WhatIsRepeated
  <2>2. "phone" \in Repeats(asked, w) BY <1>3, WhatIsRepeated DEF Details
  <2>3. ByContact(asked, w) BY <2>2 DEF ByContact
  <2> QED BY <1>2, <2>1, <2>3 DEF SharedContact, PersonCandidates
<1> QED BY <1>2, <1>3, WhatWidens

LEMMA TakesHers ==
    ASSUME NEW asked, IsAsked(asked), NEW others, NEW c \in others, IsVisit(c), c.who = "Ann",
           asked.fingerprint # "unknown", c.fingerprint # "unknown"
    PROVE  \/ c \in VisitsOfPerson(asked, others)
           \/ /\ ~(/\ asked.visitor.id = "shared" /\ c.visitor.id = "shared"
                   /\ ~c.hasLead \/ Repeats(asked, c) # {})
              /\ ~("email" \in Repeats(asked, c) /\ ~SharedContact(asked, others)
                   /\ \E d \in Details \ {"email"} : asked.lead[d] # None)
<1>1. ~Contradicts(asked, c) BY WhatIsRepeated
<1>2. ASSUME asked.visitor.id = "shared", c.visitor.id = "shared", ~c.hasLead \/ Repeats(asked, c) # {}
      PROVE  c \in VisitsOfPerson(asked, others)
  <2>1. ByVisitor(asked, c) BY <1>2, SameBrowser
  <2>2. SameVisitor(asked, c) BY <2>1 DEF ByVisitor
  <2> QED BY <1>1, <1>2, <2>1, <2>2 DEF VisitsOfPerson, PersonCandidates, LinkedByVisitor
<1>3. ASSUME "email" \in Repeats(asked, c), ~SharedContact(asked, others),
             \E d \in Details \ {"email"} : asked.lead[d] # None
      PROVE  c \in VisitsOfPerson(asked, others)
  <2>1. ByContact(asked, c) /\ asked.lead["email"] # None BY <1>3 DEF ByContact, Repeats
  <2>2. CanWidenByContact(asked) BY <1>3, <2>1, WhatWidens
  <2>3. LinkedByContact(asked, c, others) BY <1>1, <1>3, <2>1, <2>2 DEF LinkedByContact
  <2> QED BY <2>1, <2>3 DEF VisitsOfPerson, PersonCandidates
<1> QED BY <1>2, <1>3


LEMMA PairsAreTwo ==
    ASSUME NEW x, NEW y, x # y
    PROVE  Cardinality({x, y}) = 2
<1>1. IsFiniteSet({x}) /\ Cardinality({x}) = 1 /\ y \notin {x} BY FS_Singleton
<1>2. Cardinality({x} \cup {y}) = Cardinality({x}) + 1 BY <1>1, FS_AddElement, Zenon
<1>3. {x} \cup {y} = {x, y} OBVIOUS
<1> QED BY <1>1, <1>2, <1>3

(* A night changes nothing: what two visits repeat and contradict is in    *)
(* their leads, and the same visitor is told by its id.                    *)
LEMMA ANightIsAVisit ==
    ASSUME NEW v, IsVisit(v), v.visitor.hashed = 0
    PROVE  LET n == NightPassed(v)
           IN  IsVisit(n) /\ n.who = v.who /\ n.lead = v.lead /\ n.hasLead = v.hasLead
               /\ n.fingerprint = v.fingerprint /\ n.visitor.id = v.visitor.id
<1> DEFINE n == NightPassed(v)
           x == v.visitor
<1>1. n.who = v.who /\ n.lead = v.lead /\ n.hasLead = v.hasLead /\ n.fingerprint = v.fingerprint
      /\ n.visitor = Pseudonym(x)
      /\ n = [who |-> n.who, hasLead |-> n.hasLead, lead |-> n.lead, visitor |-> n.visitor,
              fingerprint |-> n.fingerprint]
  BY DEF NightPassed, IsVisit
<1>2. x \in [id: {"shared", "fp", "other", "else"}, hashed: {0, 1}] /\ x.hashed = 0 BY DEF IsVisit
<1> HIDE DEF x
<1>3. /\ Pseudonym(x) \in [id: {"shared", "fp", "other", "else"}, hashed: {0, 1}]
      /\ Pseudonym(x).id = x.id
  BY <1>2 DEF Pseudonym
<1> HIDE DEF n
<1>4. IsVisit(n) BY <1>1, <1>3 DEF IsVisit, x
<1> QED BY <1>1, <1>3, <1>4 DEF n, x

(* Two visits that an erasure cannot tell apart.                           *)
Alike(v, n) ==
    /\ n.who = v.who /\ n.lead = v.lead /\ n.hasLead = v.hasLead
    /\ n.fingerprint = v.fingerprint /\ n.visitor.id = v.visitor.id

SamePersons(s, t) == {c.who : c \in s} = {c.who : c \in t} /\ Cardinality(s) = Cardinality(t)

LEMMA AlikeAreJudgedAlike ==
    ASSUME NEW asked, IsAsked(asked), asked.fingerprint # "unknown", NEW a, IsAsked(a), Alike(asked, a),
           NEW v, IsVisit(v), v.fingerprint # "unknown" \/ v.visitor.id = "else",
           NEW n, IsVisit(n), Alike(v, n)
    PROVE  /\ Repeats(a, n) = Repeats(asked, v) /\ (Contradicts(a, n) <=> Contradicts(asked, v))
           /\ ByContact(a, n) <=> ByContact(asked, v)
           /\ SameVisitor(a, n) <=> SameVisitor(asked, v)
           /\ LinkedByVisitor(a, n) <=> LinkedByVisitor(asked, v)
           /\ CanWidenByContact(a) <=> CanWidenByContact(asked)
<1>1. Repeats(a, n) = Repeats(asked, v) /\ (Contradicts(a, n) <=> Contradicts(asked, v))
  BY DEF Alike, Repeats, Contradicts
<1>2. ByContact(a, n) <=> ByContact(asked, v) BY <1>1 DEF ByContact
<1>3. SameVisitor(a, n) <=> SameVisitor(asked, v) BY SameBrowser DEF Alike
<1>4. ByVisitor(a, n) <=> ByVisitor(asked, v) BY SameBrowser DEF Alike
<1>5. LinkedByVisitor(a, n) <=> LinkedByVisitor(asked, v) BY <1>1, <1>4 DEF Alike, LinkedByVisitor
<1>6. CanWidenByContact(a) <=> CanWidenByContact(asked) BY DEF Alike, CanWidenByContact
<1> QED BY <1>1, <1>2, <1>3, <1>5, <1>6

LEMMA NightTakesTheSame ==
    ASSUME NEW asked, IsAsked(asked), asked.fingerprint # "unknown", NEW a, IsAsked(a), Alike(asked, a),
           NEW v, IsVisit(v), v.fingerprint # "unknown", v.visitor.id # "else",
           NEW n, IsVisit(n), Alike(v, n),
           NEW third, IsVisit(third), third.visitor.id = "else"
    PROVE  SamePersons(VisitsOfPerson(a, {n, third}), VisitsOfPerson(asked, {v, third}))
<1> DEFINE taken == VisitsOfPerson(asked, {v, third})
           atNight == VisitsOfPerson(a, {n, third})
<1>1. Alike(third, third) BY DEF Alike
<1>2. /\ Repeats(a, n) = Repeats(asked, v) /\ (Contradicts(a, n) <=> Contradicts(asked, v))
      /\ ByContact(a, n) <=> ByContact(asked, v)
      /\ SameVisitor(a, n) <=> SameVisitor(asked, v)
      /\ LinkedByVisitor(a, n) <=> LinkedByVisitor(asked, v)
      /\ CanWidenByContact(a) <=> CanWidenByContact(asked)
  BY AlikeAreJudgedAlike
<1>3. /\ Repeats(a, third) = Repeats(asked, third) /\ (Contradicts(a, third) <=> Contradicts(asked, third))
      /\ ByContact(a, third) <=> ByContact(asked, third)
      /\ SameVisitor(a, third) <=> SameVisitor(asked, third)
      /\ LinkedByVisitor(a, third) <=> LinkedByVisitor(asked, third)
  BY <1>1, AlikeAreJudgedAlike
<1>4. SharedContact(a, {n, third}) <=> SharedContact(asked, {v, third})
  BY <1>2, <1>3 DEF SharedContact, PersonCandidates
<1>5. LinkedByContact(a, n, {n, third}) <=> LinkedByContact(asked, v, {v, third})
  BY <1>2, <1>4 DEF LinkedByContact
<1>6. LinkedByContact(a, third, {n, third}) <=> LinkedByContact(asked, third, {v, third})
  BY <1>2, <1>3, <1>4 DEF LinkedByContact
<1>7. (n \in atNight <=> v \in taken) /\ (third \in atNight <=> third \in taken)
  BY <1>2, <1>3, <1>5, <1>6 DEF VisitsOfPerson, PersonCandidates
<1>8. v # third /\ n # third BY DEF Alike
<1>9. taken \subseteq {v, third} /\ atNight \subseteq {n, third} BY DEF VisitsOfPerson, PersonCandidates
<1>10. n.who = v.who BY DEF Alike
<1> HIDE DEF taken, atNight
<1>11. {c.who : c \in atNight} = {c.who : c \in taken}
  <2>1. \A c \in atNight : \E d \in taken : d.who = c.who BY <1>7, <1>9, <1>10
  <2>2. \A c \in taken : \E d \in atNight : d.who = c.who BY <1>7, <1>9, <1>10
  <2> QED BY <2>1, <2>2
<1>12. Cardinality(atNight) = Cardinality(taken)
  <2>1. \A x : Cardinality({x}) = 1 BY FS_Singleton
  <2>2. Cardinality({v, third}) = 2 /\ Cardinality({n, third}) = 2
    BY <1>8, PairsAreTwo
  <2>3. CASE v \in taken /\ third \in taken
    <3>1. taken = {v, third} /\ atNight = {n, third} BY <1>7, <1>9, <2>3
    <3> QED BY <2>2, <3>1
  <2>4. CASE v \in taken /\ third \notin taken
    <3>1. taken = {v} /\ atNight = {n} BY <1>7, <1>9, <2>4
    <3> QED BY <2>1, <3>1
  <2>5. CASE v \notin taken /\ third \in taken
    <3>1. taken = {third} /\ atNight = {third} BY <1>7, <1>9, <2>5
    <3> QED BY <3>1
  <2>6. CASE v \notin taken /\ third \notin taken
    <3>1. taken = {} /\ atNight = {} BY <1>7, <1>9, <2>6
    <3> QED BY <3>1
  <2> QED BY <2>3, <2>4, <2>5, <2>6
<1> QED BY <1>11, <1>12 DEF SamePersons, taken, atNight

LEMMA HouseholdAnswers ==
    ASSUME affair.about = "visits", IsAsked(affair.asked), affair.asked.visitor.hashed = 0,
           IsVisit(affair.second), affair.second.visitor.id # "else",
           IsVisit(affair.third), affair.third.visitor.id = "else"
    PROVE  ErasureTakesOnePerson
<1> DEFINE asked == affair.asked
           others == {affair.second, affair.third}
           taken == VisitsOfPerson(asked, others)
           atNight(a, b) == VisitsOfPerson(IF a THEN NightPassed(asked) ELSE asked,
                                           {IF b THEN NightPassed(affair.second) ELSE affair.second, affair.third})
           browser(c) == asked.visitor.id = "shared" /\ c.visitor.id = "shared"
           known(v) == v.fingerprint # "unknown"
<1>1. \A v \in others : IsVisit(v) OBVIOUS
<1>2. \A c \in taken : c.who # "Ann" =>
         /\ \/ ~c.hasLead /\ browser(c)
            \/ browser(c) /\ (c.lead["phone"] # None \/ (c.who = "Bob" /\ c.lead["last"] # None))
            \/ c.who = "Bob" /\ None \notin {c.lead["phone"], c.lead["last"]}
         /\ \A d \in {"first", "email"} : None \in {asked.lead[d], c.lead[d]}
  BY <1>1, TakesOfOthers
<1>3. \A c \in taken : ~browser(c) =>
         /\ Cardinality({d \in Details : asked.lead[d] # None}) >= 2
         /\ \A w \in others : asked.lead["phone"] # None /\ w.lead["phone"] # None
                => \A d \in {"first", "email"} : None \in {asked.lead[d], w.lead[d]} \/ w.who = "Ann"
  BY <1>1, TakesElsewhere
<1>4. \A c \in others : c.who = "Ann" /\ known(asked) /\ known(c) =>
         \/ c \in taken
         \/ ~(browser(c) /\ (~c.hasLead \/ Repeats(asked, c) # {}))
            /\ ~("email" \in Repeats(asked, c) /\ ~SharedContact(asked, others)
                 /\ \E d \in Details \ {"email"} : asked.lead[d] # None)
  BY <1>1, TakesHers
<1>5. ASSUME known(asked), known(affair.second), affair.second.visitor.hashed = 0,
             NEW a \in BOOLEAN, NEW b \in BOOLEAN
      PROVE  /\ {c.who : c \in atNight(a, b)} = {c.who : c \in taken}
             /\ Cardinality(atNight(a, b)) = Cardinality(taken)
  <2> DEFINE x == IF a THEN NightPassed(asked) ELSE asked
             n == IF b THEN NightPassed(affair.second) ELSE affair.second
  <2>1. IsAsked(x) /\ Alike(asked, x) BY ANightIsAVisit DEF IsAsked, Alike
  <2>2. IsVisit(n) /\ Alike(affair.second, n) BY <1>5, ANightIsAVisit DEF Alike
  <2> HIDE DEF x, n
  <2>3. SamePersons(VisitsOfPerson(x, {n, affair.third}), taken)
    BY <1>5, <2>1, <2>2, NightTakesTheSame
  <2> QED BY <2>3 DEF SamePersons, x, n
<1> HIDE DEF taken, atNight
<1> QED BY <1>2, <1>3, <1>4, <1>5 DEF ErasureTakesOnePerson, taken, atNight


(* The visits that the runs ask about are visits.                          *)
IsDevice(id, print) ==
    /\ id \in {"shared", "fp", "other", "else"} /\ print \in {"no", "yes", "unknown"}
    /\ id = "fp" => print # "no"
    /\ id = "shared" => print # "yes"

LEMMA VisitOfIsAVisit ==
    ASSUME NEW who \in DOMAIN People, NEW shows \in SUBSET Details, NEW id, NEW print, IsDevice(id, print)
    PROVE  LET v == VisitOf(who, shows, id, print)
           IN  IsVisit(v) /\ v.who = who /\ v.visitor.id = id /\ v.visitor.hashed = 0
<1> DEFINE v == VisitOf(who, shows, id, print)
<1>1. /\ v = [who |-> v.who, hasLead |-> v.hasLead, lead |-> v.lead, visitor |-> v.visitor,
              fingerprint |-> v.fingerprint]
      /\ v.who = who /\ v.visitor = [id |-> id, hashed |-> 0] /\ v.fingerprint = print
      /\ v.lead = [e \in Details |-> IF e \in shows THEN People[who][e] ELSE None]
  BY DEF VisitOf
<1> HIDE DEF v
<1>2. \A e \in Details : v.lead[e] \in {None, People[v.who][e]} BY <1>1
<1>3. IsVisit(v) BY <1>1, <1>2 DEF IsVisit, IsDevice
<1> QED BY <1>1, <1>3 DEF v

LEMMA DevicesAreDevices ==
    ASSUME NEW d \in Devices \cup {<<"other", "no">>}
    PROVE  IsDevice(d[1], d[2]) /\ d[1] # "else" /\ (d \in Devices => d[1] \in {"shared", "fp"})
BY DEF Devices, IsDevice

LEMMA PurgedIsAVisit ==
    ASSUME NEW v, IsVisit(v)
    PROVE  IsVisit(Purged(v)) /\ Purged(v).visitor = v.visitor
<1> DEFINE n == Purged(v)
           m == [v EXCEPT !.lead = [d \in Details |-> None]]
<1>1. m = [who |-> v.who, hasLead |-> v.hasLead, lead |-> [d \in Details |-> None],
           visitor |-> v.visitor, fingerprint |-> v.fingerprint]
  BY DEF IsVisit
<1>2. n = [m EXCEPT !.hasLead = TRUE] BY DEF Purged
<1> HIDE DEF m, n
<1>3. n = [who |-> v.who, hasLead |-> TRUE, lead |-> [d \in Details |-> None],
           visitor |-> v.visitor, fingerprint |-> v.fingerprint]
  BY <1>1, <1>2
<1>4. \A d \in Details : n.lead[d] = None BY <1>3
<1>5. IsVisit(n) BY <1>3, <1>4 DEF IsVisit
<1> QED BY <1>3, <1>5 DEF n

LEMMA SeenAreVisits ==
    ASSUME NEW v \in SeenVisits
    PROVE  IsVisit(v) /\ v.visitor.hashed = 0 /\ v.visitor.id # "else"
<1>1. PICK who \in DOMAIN People, shows \in SUBSET Details, d \in Devices \cup {<<"other", "no">>} :
         v = VisitOf(who, shows, d[1], d[2])
  BY DEF SeenVisits
<1>2. IsDevice(d[1], d[2]) /\ d[1] # "else" BY DevicesAreDevices
<1> QED BY <1>1, <1>2, VisitOfIsAVisit

LEMMA LaterAreVisits ==
    ASSUME NEW v \in LaterVisits
    PROVE  IsVisit(v) /\ v.visitor.id # "else"
<1>1. CASE v \in SeenVisits BY <1>1, SeenAreVisits
<1>2. CASE v \in {Purged(w) : w \in SeenVisits} BY <1>2, SeenAreVisits, PurgedIsAVisit
<1>3. CASE v \in {NightPassed(w) : w \in {u \in SeenVisits : u.visitor.id # "other"}}
  <2>1. PICK w \in SeenVisits : v = NightPassed(w) BY <1>3
  <2> QED BY <2>1, SeenAreVisits, ANightIsAVisit
<1> QED BY <1>1, <1>2, <1>3 DEF LaterVisits

LEMMA ThirdAreVisits ==
    ASSUME NEW v \in ThirdVisits
    PROVE  IsVisit(v) /\ v.visitor.id = "else"
<1>1. \E who \in DOMAIN People : \E shows \in SUBSET Details : v = VisitOf(who, shows, "else", "no")
  BY Persons DEF ThirdVisits
<1>2. IsDevice("else", "no") BY DEF IsDevice
<1> QED BY <1>1, <1>2, VisitOfIsAVisit

LEMMA AskedAreAsked ==
    ASSUME NEW v \in AskedVisits
    PROVE  IsAsked(v) /\ v.visitor.hashed = 0
<1>1. PICK shows \in SUBSET Details, d \in Devices \ {<<"fp", "yes">>} :
         v = VisitOf("Ann", shows, d[1], d[2])
  BY DEF AskedVisits
<1>2. IsDevice(d[1], d[2]) /\ d[1] \in {"shared", "fp"} BY DevicesAreDevices
<1>3. "Ann" \in DOMAIN People BY Persons
<1>4. IsVisit(v) /\ v.who = "Ann" /\ v.visitor.id = d[1] /\ v.visitor.hashed = 0
  BY <1>1, <1>2, <1>3, VisitOfIsAVisit
<1> QED BY <1>2, <1>4 DEF IsAsked

LEMMA HouseholdsAnswer ==
    affair \in Households => ErasureTakesOnePerson
<1> SUFFICES ASSUME affair \in Households PROVE ErasureTakesOnePerson OBVIOUS
<1>1. affair.about = "visits" /\ affair.asked \in AskedVisits /\ affair.second \in LaterVisits
      /\ affair.third \in ThirdVisits
  BY DEF Households
<1> QED BY <1>1, AskedAreAsked, LaterAreVisits, ThirdAreVisits, HouseholdAnswers
=============================================================================

---------------------------- MODULE ReportProofs ----------------------------
(***************************************************************************)
(* Proofs about the figures of the reports (Reports) and of the machine    *)
(* (Machine): whose report a visit is in, and that figures which count the *)
(* same rows in groups of different kinds add up to the same, for any      *)
(* number of visits, events, groups, questions and tallies.                *)
(***************************************************************************)
EXTENDS Machine, FiniteSetTheorems, TLAPS

-----------------------------------------------------------------------------
(* Sums over a finite set, whatever the order they are taken in.           *)

Plus(x, y) == x + y
ValueAt(f, x) == f[x]
AnyOf(s) == CHOOSE x \in s : TRUE

Summing == INSTANCE FoldProofs WITH Op <- Plus, Base <- 0, Val <- ValueAt, Choose <- AnyOf

Sum(f, S) == SumFunctionOnSet(f, S)
Summed(f, S) == IsFiniteSet(S) /\ \A x \in S : f[x] \in Nat

LEMMA LeastPart ==
    ASSUME NEW S, IsFiniteSet(S), NEW B, B \subseteq SUBSET S, B # {}
    PROVE  \E s \in B : \A t \in B : t \subseteq s => t = s
<1>1. Summing!IsFiniteSet(S) BY DEF IsFiniteSet, Summing!IsFiniteSet
<1> QED BY <1>1, Summing!LeastSubset

LEMMA SumIsFold == ASSUME NEW f, NEW S PROVE Sum(f, S) = Summing!Fold(f, S)
BY DEF Sum, SumFunctionOnSet, FoldFunctionOnSet, MapThenFoldSet, Plus, ValueAt, AnyOf,
       Summing!Fold, Summing!FoldOn, Summing!IsFold

LEMMA SumOfFunction == ASSUME NEW f PROVE SumFunction(f) = Sum(f, DOMAIN f)
BY DEF SumFunction, Sum

SumUnfolds(f, S) ==
    /\ Sum(f, {}) = 0
    /\ S # {} => AnyOf(S) \in S /\ Sum(f, S) = f[AnyOf(S)] + Sum(f, S \ {AnyOf(S)})

LEMMA SumSteps == ASSUME NEW S, IsFiniteSet(S), NEW f PROVE SumUnfolds(f, S)
<1>1. Summing!Chooses(S) BY DEF Summing!Chooses, AnyOf
<1>2. Summing!Fold(f, {}) = 0 /\ (S # {} => Summing!Fold(f, S)
          = Plus(ValueAt(f, AnyOf(S)), Summing!Fold(f, S \ {AnyOf(S)})))
  <2>1. Summing!IsFiniteSet(S) BY DEF IsFiniteSet, Summing!IsFiniteSet
  <2> QED BY <1>1, <2>1, Summing!FoldSteps
<1>3. \A T : Sum(f, T) = Summing!Fold(f, T) BY SumIsFold
<1>4. S # {} => AnyOf(S) \in S BY DEF AnyOf
<1> QED BY <1>2, <1>3, <1>4 DEF Plus, ValueAt, SumUnfolds

\* Only the values in the set matter.
LEMMA SumReads ==
    ASSUME NEW S, IsFiniteSet(S), NEW f, NEW e, \A x \in S : f[x] = e[x]
    PROVE  Sum(f, S) = Sum(e, S)
<1>1. Summing!Chooses(S) BY DEF Summing!Chooses, AnyOf
<1>2. Summing!IsFiniteSet(S) BY DEF IsFiniteSet, Summing!IsFiniteSet
<1>3. \A x \in S : ValueAt(f, x) = ValueAt(e, x) BY DEF ValueAt
<1>4. Summing!Fold(f, S) = Summing!Fold(e, S) BY <1>1, <1>2, <1>3, Summing!FoldReadsTheSet
<1> QED BY <1>4, SumIsFold

LEMMA SumOfNone == ASSUME NEW f PROVE Sum(f, {}) = 0
BY SumSteps, FS_EmptySet DEF SumUnfolds

LEMMA SummedParts == ASSUME NEW f, NEW S, Summed(f, S), NEW T \in SUBSET S PROVE Summed(f, T)
BY FS_Subset DEF Summed

LEMMA SumIsNat == ASSUME NEW f, NEW S, Summed(f, S) PROVE Sum(f, S) \in Nat
<1> DEFINE B == {s \in SUBSET S : Sum(f, s) \notin Nat}
<1> SUFFICES ASSUME B # {} PROVE FALSE OBVIOUS
<1>1. \E s \in B : \A t \in B : t \subseteq s => t = s
  <2>1. B \subseteq SUBSET S /\ IsFiniteSet(S) BY DEF Summed
  <2> HIDE DEF B
  <2> QED BY <2>1, LeastPart
<1> PICK s \in B : \A t \in B : t \subseteq s => t = s BY <1>1
<1>2. Summed(f, s) BY SummedParts
<1>3. SumUnfolds(f, s) BY <1>2, SumSteps DEF Summed
<1>4. s # {}
  <2>1. s = {} => Sum(f, s) = 0 BY SumOfNone, Zenon
  <2> QED BY <2>1
<1>5. AnyOf(s) \in s /\ Sum(f, s) = f[AnyOf(s)] + Sum(f, s \ {AnyOf(s)}) BY <1>3, <1>4 DEF SumUnfolds
<1>6. s \ {AnyOf(s)} \notin B BY <1>5
<1>7. Sum(f, s \ {AnyOf(s)}) \in Nat BY <1>6
<1>8. f[AnyOf(s)] \in Nat BY <1>2, <1>5 DEF Summed
<1> QED BY <1>5, <1>7, <1>8

LEMMA SumTakes ==
    ASSUME NEW f, NEW S, Summed(f, S), NEW y \in S
    PROVE  Sum(f, S) = f[y] + Sum(f, S \ {y})
<1> DEFINE B == {s \in SUBSET S : \E x \in s : Sum(f, s) # f[x] + Sum(f, s \ {x})}
<1> SUFFICES ASSUME B # {} PROVE FALSE OBVIOUS
<1>1. \E s \in B : \A t \in B : t \subseteq s => t = s
  <2>1. B \subseteq SUBSET S /\ IsFiniteSet(S) BY DEF Summed
  <2> HIDE DEF B
  <2> QED BY <2>1, LeastPart
<1> PICK s \in B : \A t \in B : t \subseteq s => t = s BY <1>1
<1> PICK x \in s : Sum(f, s) # f[x] + Sum(f, s \ {x}) OBVIOUS
<1>2. Summed(f, s) BY SummedParts
<1> DEFINE c == AnyOf(s)
<1>3. c \in s /\ Sum(f, s) = f[c] + Sum(f, s \ {c}) BY <1>2, SumSteps DEF SumUnfolds, Summed
<1>4. c # x BY <1>3
<1>5. s \ {c} \notin B /\ s \ {x} \notin B BY <1>3
<1>6. Sum(f, s \ {c}) = f[x] + Sum(f, (s \ {c}) \ {x}) BY <1>4, <1>5
<1>7. Sum(f, s \ {x}) = f[c] + Sum(f, (s \ {x}) \ {c}) BY <1>3, <1>4, <1>5
<1>8. (s \ {c}) \ {x} = (s \ {x}) \ {c} OBVIOUS
<1>9. f[c] \in Nat /\ f[x] \in Nat /\ Sum(f, (s \ {x}) \ {c}) \in Nat
  <2>1. Summed(f, (s \ {x}) \ {c}) BY <1>2, SummedParts
  <2> QED BY <1>2, <1>3, <2>1, SumIsNat DEF Summed
<1>10. Sum(f, s) # f[x] + Sum(f, s \ {x}) OBVIOUS
<1> DEFINE u == f[c]
           v == f[x]
           w == Sum(f, (s \ {x}) \ {c})
<1>11. u \in Nat /\ v \in Nat /\ w \in Nat BY <1>9
<1>12. Sum(f, s) = u + (v + w) /\ Sum(f, s) # v + (u + w)
  <2> HIDE DEF c
  <2> QED BY <1>3, <1>6, <1>7, <1>8, <1>10
<1> HIDE DEF u, v, w
<1> QED BY <1>11, <1>12


\* The sum of a set is that of any part and that of the rest.
LEMMA SumSplits ==
    ASSUME NEW f, NEW S, Summed(f, S), NEW T \in SUBSET S
    PROVE  Sum(f, S) = Sum(f, T) + Sum(f, S \ T)
<1> DEFINE B == {s \in SUBSET T : Sum(f, S) # Sum(f, s) + Sum(f, S \ s)}
<1> SUFFICES ASSUME B # {} PROVE FALSE OBVIOUS
<1>1. \E s \in B : \A t \in B : t \subseteq s => t = s
  <2>1. B \subseteq SUBSET T /\ IsFiniteSet(T) BY FS_Subset DEF Summed
  <2> HIDE DEF B
  <2> QED BY <2>1, LeastPart
<1> PICK s \in B : \A t \in B : t \subseteq s => t = s BY <1>1
<1>2. s # {}
  <2>1. Sum(f, S) \in Nat /\ Sum(f, {}) = 0 BY SumIsNat, SumOfNone
  <2>2. S \ {} = S OBVIOUS
  <2>3. s = {} => Sum(f, s) = 0 /\ Sum(f, S \ s) = Sum(f, S) BY <2>1, <2>2, Zenon
  <2> QED BY <2>1, <2>3
<1> PICK x \in s : TRUE BY <1>2
<1> DEFINE p == s \ {x}
           q == S \ s
<1>3. Sum(f, S) = Sum(f, p) + Sum(f, S \ p)
  <2>1. p \notin B OBVIOUS
  <2> QED BY <2>1
<1>4. Summed(f, s) /\ Summed(f, p) /\ Summed(f, q) /\ Summed(f, S \ p) BY SummedParts
<1>5. Sum(f, s) = f[x] + Sum(f, p) BY <1>4, SumTakes
<1>6. Sum(f, S \ p) = f[x] + Sum(f, q)
  <2>1. x \in S \ p /\ (S \ p) \ {x} = q OBVIOUS
  <2> QED BY <1>4, <2>1, SumTakes
<1>7. f[x] \in Nat /\ Sum(f, p) \in Nat /\ Sum(f, q) \in Nat BY <1>4, SumIsNat DEF Summed
<1>8. Sum(f, S) # Sum(f, s) + Sum(f, q) OBVIOUS
<1> HIDE DEF p, q
<1> QED BY <1>3, <1>5, <1>6, <1>7, <1>8

LEMMA SumGrows ==
    ASSUME NEW f, NEW S, Summed(f, S), NEW T \in SUBSET S PROVE Sum(f, T) <= Sum(f, S)
<1>1. Summed(f, T) /\ Summed(f, S \ T) BY SummedParts
<1>2. Sum(f, S) = Sum(f, T) + Sum(f, S \ T) BY SumSplits
<1> QED BY <1>1, <1>2, SumIsNat

LEMMA SumOfZeros ==
    ASSUME NEW f, NEW S, IsFiniteSet(S), \A x \in S : f[x] = 0 PROVE Sum(f, S) = 0
<1> DEFINE B == {s \in SUBSET S : Sum(f, s) # 0}
<1> SUFFICES ASSUME B # {} PROVE FALSE OBVIOUS
<1>1. \E s \in B : \A t \in B : t \subseteq s => t = s
  <2>1. B \subseteq SUBSET S OBVIOUS
  <2> HIDE DEF B
  <2> QED BY <2>1, LeastPart
<1> PICK s \in B : \A t \in B : t \subseteq s => t = s BY <1>1
<1>2. s # {}
  <2>1. s = {} => Sum(f, s) = 0 BY SumOfNone, Zenon
  <2> QED BY <2>1
<1> PICK x \in s : TRUE BY <1>2
<1>3. Summed(f, s) BY FS_Subset DEF Summed
<1>4. Sum(f, s) = f[x] + Sum(f, s \ {x}) BY <1>3, SumTakes
<1>5. Sum(f, s \ {x}) = 0
  <2>1. s \ {x} \notin B OBVIOUS
  <2> QED BY <2>1
<1>6. f[x] = 0 OBVIOUS
<1>7. Sum(f, s) = 0 BY <1>4, <1>5, <1>6
<1> QED BY <1>7

LEMMA CardinalityIsSum ==
    ASSUME NEW f, NEW S, IsFiniteSet(S), \A x \in S : f[x] = 1 PROVE Sum(f, S) = Cardinality(S)
<1> DEFINE B == {s \in SUBSET S : Sum(f, s) # Cardinality(s)}
<1> SUFFICES ASSUME B # {} PROVE FALSE OBVIOUS
<1>1. \E s \in B : \A t \in B : t \subseteq s => t = s
  <2>1. B \subseteq SUBSET S OBVIOUS
  <2> HIDE DEF B
  <2> QED BY <2>1, LeastPart
<1> PICK s \in B : \A t \in B : t \subseteq s => t = s BY <1>1
<1>2. s # {}
  <2>1. Cardinality({}) = 0 BY FS_EmptySet
  <2>2. s = {} => Sum(f, s) = Cardinality(s) BY <2>1, SumOfNone, Zenon
  <2> QED BY <2>2
<1> PICK x \in s : TRUE BY <1>2
<1>3. Summed(f, s) BY FS_Subset DEF Summed
<1>4. Sum(f, s) = f[x] + Sum(f, s \ {x}) BY <1>3, SumTakes
<1>5. Sum(f, s \ {x}) = Cardinality(s \ {x})
  <2>1. s \ {x} \notin B OBVIOUS
  <2> QED BY <2>1
<1>6. f[x] = 1 OBVIOUS
<1>7. Cardinality(s \ {x}) = Cardinality(s) - 1 /\ Cardinality(s) \in Nat
  BY <1>3, FS_RemoveElement, FS_CardinalityType DEF Summed
<1>8. Sum(f, s) = Cardinality(s) BY <1>4, <1>5, <1>6, <1>7
<1> QED BY <1>8

-----------------------------------------------------------------------------
(* Groups.  What the elements of a set bring is what its groups bring,     *)
(* whatever they are grouped by.                                           *)

Group(S, key, k) == {x \in S : key[x] = k}
GroupSums(f, S, key, K) == [k \in K |-> Sum(f, Group(S, key, k))]
Keyed(S, key, K) == IsFiniteSet(K) /\ \A x \in S : key[x] \in K

LEMMA GroupsSum ==
    ASSUME NEW f, NEW S, Summed(f, S), NEW key, NEW K, Keyed(S, key, K)
    PROVE  Summed(GroupSums(f, S, key, K), K)
<1>1. ASSUME NEW k \in K PROVE Sum(f, Group(S, key, k)) \in Nat
  <2>1. Group(S, key, k) \in SUBSET S BY DEF Group
  <2> QED BY <2>1, SummedParts, SumIsNat
<1> QED BY <1>1 DEF Summed, Keyed, GroupSums

LEMMA GroupsAddUp ==
    ASSUME NEW f, NEW S, Summed(f, S), NEW key, NEW K, Keyed(S, key, K)
    PROVE  Sum(GroupSums(f, S, key, K), K) = Sum(f, S)
<1> DEFINE G(s) == GroupSums(f, s, key, K)
           B == {s \in SUBSET S : Sum(G(s), K) # Sum(f, s)}
<1> SUFFICES ASSUME B # {} PROVE FALSE OBVIOUS
<1>1. \E s \in B : \A t \in B : t \subseteq s => t = s
  <2>1. B \subseteq SUBSET S /\ IsFiniteSet(S) BY DEF Summed
  <2> HIDE DEF B
  <2> QED BY <2>1, LeastPart
<1> PICK s \in B : \A t \in B : t \subseteq s => t = s BY <1>1
<1>2. ASSUME NEW t \in SUBSET S PROVE Summed(f, t) /\ Keyed(t, key, K) /\ Summed(G(t), K)
  <2>1. Summed(f, t) /\ Keyed(t, key, K) BY SummedParts DEF Keyed
  <2> QED BY <2>1, GroupsSum
<1>3. s # {}
  <2>1. \A k \in K : G({})[k] = 0
    <3>1. \A k : Group({}, key, k) = {} BY DEF Group
    <3> QED BY <3>1, SumOfNone DEF GroupSums
  <2>2. Sum(G({}), K) = 0
    <3> HIDE DEF G
    <3> QED BY <2>1, SumOfZeros DEF Keyed
  <2>3. s = {} => Sum(G(s), K) = Sum(f, s) BY <2>2, SumOfNone, Zenon
  <2> QED BY <2>3
<1> PICK x \in s : TRUE BY <1>3
<1> DEFINE r == s \ {x}
           y == key[x]
<1>4. y \in K BY DEF Keyed
<1>5. Sum(G(r), K) = Sum(f, r)
  <2>1. r \notin B OBVIOUS
  <2> QED BY <2>1
<1>6. \A k \in K \ {y} : G(s)[k] = G(r)[k]
  <2>1. ASSUME NEW k \in K \ {y} PROVE Group(s, key, k) = Group(r, key, k) BY DEF Group
  <2> QED BY <2>1 DEF GroupSums
<1>7. G(s)[y] = f[x] + G(r)[y]
  <2>1. x \in Group(s, key, y) /\ Group(s, key, y) \ {x} = Group(r, key, y) BY DEF Group
  <2>2. Group(s, key, y) \in SUBSET S BY DEF Group
  <2>3. Sum(f, Group(s, key, y)) = f[x] + Sum(f, Group(r, key, y))
    <3>1. Summed(f, Group(s, key, y)) BY <2>2, SummedParts
    <3> DEFINE whole == Group(s, key, y)
    <3>2. Sum(f, whole) = f[x] + Sum(f, whole \ {x})
      <4>1. x \in whole /\ Summed(f, whole) BY <2>1, <3>1
      <4> HIDE DEF whole
      <4> QED BY <4>1, SumTakes
    <3> QED BY <2>1, <3>2
  <2> QED BY <1>4, <2>3 DEF GroupSums
<1>8. Sum(G(s), K) = G(s)[y] + Sum(G(s), K \ {y})
  <2>1. Summed(G(s), K) BY <1>2
  <2> HIDE DEF G, y
  <2> QED BY <1>4, <2>1, SumTakes
<1>9. Sum(G(r), K) = G(r)[y] + Sum(G(r), K \ {y})
  <2>1. Summed(G(r), K) BY <1>2
  <2> HIDE DEF G, y
  <2> QED BY <1>4, <2>1, SumTakes
<1>10. Sum(G(s), K \ {y}) = Sum(G(r), K \ {y})
  <2>1. IsFiniteSet(K \ {y}) BY FS_Subset DEF Keyed
  <2> HIDE DEF G, y
  <2> QED BY <1>6, <2>1, SumReads
<1>11. Sum(f, s) = f[x] + Sum(f, r) BY <1>2, SumTakes
<1>12. /\ f[x] \in Nat /\ G(r)[y] \in Nat /\ Sum(f, r) \in Nat
       /\ Sum(G(r), K \ {y}) \in Nat
  <2>1. Summed(G(r), K) /\ Summed(f, r) /\ Summed(f, s) BY <1>2
  <2>2. Summed(G(r), K \ {y})
    <3> HIDE DEF G, y
    <3> QED BY <2>1, SummedParts
  <2> HIDE DEF G, y
  <2> QED BY <1>4, <2>1, <2>2, SumIsNat DEF Summed
<1>13. Sum(G(s), K) # Sum(f, s) OBVIOUS
<1> HIDE DEF G, r, y
<1> QED BY <1>5, <1>7, <1>8, <1>9, <1>10, <1>11, <1>12, <1>13

\* The same of numbers of elements.
LEMMA GroupsCount ==
    ASSUME NEW S, IsFiniteSet(S), NEW key, NEW K, Keyed(S, key, K)
    PROVE  Sum([k \in K |-> Cardinality(Group(S, key, k))], K) = Cardinality(S)
<1> DEFINE ones == [x \in S |-> 1]
           counts == [k \in K |-> Cardinality(Group(S, key, k))]
<1>1. Summed(ones, S) BY DEF Summed
<1>2. ASSUME NEW k \in K PROVE counts[k] = GroupSums(ones, S, key, K)[k]
  <2>1. Group(S, key, k) \in SUBSET S BY DEF Group
  <2>2. IsFiniteSet(Group(S, key, k)) BY <2>1, FS_Subset
  <2>3. \A x \in Group(S, key, k) : ones[x] = 1 BY <2>1
  <2>4. Sum(ones, Group(S, key, k)) = Cardinality(Group(S, key, k))
    <3> HIDE DEF ones
    <3> QED BY <2>2, <2>3, CardinalityIsSum
  <2> QED BY <2>4 DEF GroupSums
<1>3. Sum(ones, S) = Cardinality(S)
  <2>1. \A x \in S : ones[x] = 1 OBVIOUS
  <2> HIDE DEF ones
  <2> QED BY <2>1, CardinalityIsSum
<1> HIDE DEF ones, counts
<1>4. Sum(counts, K) = Sum(GroupSums(ones, S, key, K), K) BY <1>2, SumReads DEF Keyed
<1>5. Sum(counts, K) = Cardinality(S) BY <1>1, <1>3, <1>4, GroupsAddUp
<1> QED BY <1>5 DEF counts

LEMMA SumScales ==
    ASSUME NEW f, NEW S, Summed(f, S), NEW n \in Nat
    PROVE  Sum([x \in S |-> n * f[x]], S) = n * Sum(f, S)
<1> DEFINE g == [x \in S |-> n * f[x]]
           B == {s \in SUBSET S : Sum(g, s) # n * Sum(f, s)}
<1> SUFFICES ASSUME B # {} PROVE FALSE OBVIOUS
<1>1. \E s \in B : \A t \in B : t \subseteq s => t = s
  <2>1. B \subseteq SUBSET S /\ IsFiniteSet(S) BY DEF Summed
  <2> HIDE DEF B
  <2> QED BY <2>1, LeastPart
<1> PICK s \in B : \A t \in B : t \subseteq s => t = s BY <1>1
<1>2. s # {}
  <2>1. s = {} => Sum(f, s) = 0 /\ Sum(g, s) = 0 BY SumOfNone, Zenon
  <2> QED BY <2>1
<1> PICK x \in s : TRUE BY <1>2
<1>3. \A a, b \in Nat : n * (a + b) = n * a + n * b OBVIOUS
<1>4. Summed(g, S)
  <2>1. \A a \in Nat : n * a \in Nat OBVIOUS
  <2> QED BY <2>1 DEF Summed
<1>5. Summed(f, s) /\ Summed(g, s)
  <2> HIDE DEF g
  <2> QED BY <1>4, SummedParts
<1>6. Sum(f, s) = f[x] + Sum(f, s \ {x}) BY <1>5, SumTakes
<1>7. Sum(g, s) = g[x] + Sum(g, s \ {x})
  <2> HIDE DEF g
  <2> QED BY <1>5, SumTakes
<1>8. Sum(g, s \ {x}) = n * Sum(f, s \ {x})
  <2>1. s \ {x} \notin B OBVIOUS
  <2> QED BY <2>1
<1>9. g[x] = n * f[x] OBVIOUS
<1>10. f[x] \in Nat /\ Sum(f, s \ {x}) \in Nat BY <1>5, SummedParts, SumIsNat DEF Summed
<1>11. n * Sum(f, s) = n * f[x] + n * Sum(f, s \ {x})
  <2> DEFINE a == f[x]
             b == Sum(f, s \ {x})
  <2>1. n * (a + b) = n * a + n * b
    <3> HIDE DEF a, b
    <3> QED BY <1>3, <1>10 DEF a, b
  <2> QED BY <1>6, <2>1
<1>12. Sum(g, s) = n * Sum(f, s) BY <1>7, <1>8, <1>9, <1>11
<1> QED BY <1>12


-----------------------------------------------------------------------------
(* The totals of a campaign.  A report's rows are groups: if each counts,  *)
(* or sums up, the part of a set that has its key, together they give what *)
(* the set has.                                                            *)

LEMMA RowsCount ==
    ASSUME NEW rows, NEW field, NEW S, IsFiniteSet(S), NEW key, Keyed(S, key, DOMAIN rows),
           \A k \in DOMAIN rows : rows[k][field] = Cardinality(Group(S, key, k))
    PROVE  Total(rows, field) = Cardinality(S)
<1> DEFINE K == DOMAIN rows
           all == [k \in K |-> rows[k][field]]
           counts == [k \in K |-> Cardinality(Group(S, key, k))]
<1>1. Total(rows, field) = Sum(all, K) BY SumOfFunction DEF Total
<1>2. all = counts OBVIOUS
<1>3. Sum(counts, K) = Cardinality(S) BY GroupsCount
<1> QED BY <1>1, <1>2, <1>3

LEMMA RowsSum ==
    ASSUME NEW rows, NEW field, NEW f, NEW S, Summed(f, S), NEW key, Keyed(S, key, DOMAIN rows),
           \A k \in DOMAIN rows : rows[k][field] = Sum(f, Group(S, key, k))
    PROVE  Total(rows, field) = Sum(f, S)
<1> DEFINE K == DOMAIN rows
           all == [k \in K |-> rows[k][field]]
<1>1. Total(rows, field) = Sum(all, K) BY SumOfFunction DEF Total
<1>2. all = GroupSums(f, S, key, K) BY DEF GroupSums
<1>3. Sum(GroupSums(f, S, key, K), K) = Sum(f, S) BY GroupsAddUp
<1> QED BY <1>1, <1>2, <1>3

LEMMA Smaller ==
    ASSUME NEW S, IsFiniteSet(S), NEW T \in SUBSET S
    PROVE  IsFiniteSet(T) /\ Cardinality(T) \in Nat /\ Cardinality(S) \in Nat
           /\ Cardinality(T) <= Cardinality(S)
BY FS_Subset, FS_CardinalityType

LEMMA ImageIsSmaller ==
    ASSUME NEW S, IsFiniteSet(S), NEW f
    PROVE  /\ IsFiniteSet({f[x] : x \in S})
           /\ Cardinality({f[x] : x \in S}) <= Cardinality(S)
<1> DEFINE T == {f[x] : x \in S}
           g == [x \in S |-> f[x]]
<1>1. g \in Surjection(S, T) BY DEF Surjection
<1> HIDE DEF T, g
<1>2. IsFiniteSet(T) /\ Cardinality(T) <= Cardinality(S) BY <1>1, FS_Surjection
<1> QED BY <1>2 DEF T

Ledger ==
    /\ {"kind", "visits", "spend", "configured", "excludeBots", "events"} \subseteq DOMAIN inquiry
    /\ inquiry.kind = "totals"
    /\ inquiry.visits \in [Visits -> [tag: Tags, place: Places, test: BOOLEAN, early: BOOLEAN]]
    /\ inquiry.spend \in Nat /\ inquiry.configured \in BOOLEAN /\ inquiry.excludeBots \in BOOLEAN
    /\ inquiry.events \in
         [Happened -> [of: Visits, type: {"sale", "step"}, test: BOOLEAN, sent: BOOLEAN]]

LEMMA Selections ==
    ASSUME Ledger
    PROVE  /\ IsFiniteSet(Shown) /\ Shown \subseteq Visits
           /\ IsFiniteSet(OfShown) /\ OfShown \subseteq Happened /\ OfShown \subseteq RealEvents
           /\ IsFiniteSet(RealEvents) /\ RealEvents \subseteq Happened
           /\ \A k \in OfShown : inquiry.events[k].of \in Shown
<1>1. Shown \subseteq Visits /\ RealEvents \subseteq Happened /\ OfShown \subseteq RealEvents
      /\ \A k \in OfShown : inquiry.events[k].of \in Shown
  BY DEF Shown, RealEvents, AllReal, OfShown
<1> QED BY <1>1, ReportsAssumption, FS_Subset

LEMMA DrilledSelections ==
    ASSUME Ledger
    PROVE  /\ IsFiniteSet(Drilled) /\ Drilled \subseteq Visits
           /\ IsFiniteSet(OfDrilled) /\ OfDrilled \subseteq Happened
           /\ \A k \in OfDrilled : inquiry.events[k].of \in Drilled
<1>1. Drilled \subseteq Visits /\ OfDrilled \subseteq Happened
      /\ \A k \in OfDrilled : inquiry.events[k].of \in Drilled
  BY DEF Drilled, InRow, OfDrilled, OfRow, AllReal
<1> QED BY <1>1, ReportsAssumption, FS_Subset

\* The row of the table with the sibling listed and without, and the overview
\* of real visits.
TheRow == TableRow(TRUE)
RowAlone == TableRow(FALSE)
Seen == Overview(FALSE)

LEMMA TableIs ==
    /\ TheRow.visits = Cardinality(Drilled)
    /\ TheRow.suspicious = Cardinality({i \in Drilled : Bot(i)})
    /\ TheRow.unique = Unique(Drilled)
    /\ TheRow.errors = Cardinality(OfDrilled \ Sent(OfDrilled))
    /\ TheRow.conversions = Cardinality(Counting(OfDrilled))
    /\ TheRow.revenue = Revenue(OfDrilled)
    /\ inquiry.spend = 0 => TheRow.cost = Cost(OfDrilled)
<1>1. TheRow =
        [visits |-> Cardinality(Drilled), suspicious |-> Cardinality({i \in Drilled : Bot(i)}),
         unique |-> Unique(Drilled), errors |-> Cardinality(OfDrilled \ Sent(OfDrilled)),
         conversions |-> Cardinality(Counting(OfDrilled)), revenue |-> Revenue(OfDrilled),
         cost |-> IF inquiry.spend > 0 THEN inquiry.spend ELSE Cost(OfDrilled)]
  BY Zenon DEF TheRow, TableRow, Drilled, OfDrilled
<1>2. inquiry.spend = 0 => ~(inquiry.spend > 0) OBVIOUS
<1> QED BY <1>1, <1>2

Earned == [k \in Happened |-> k]
Charged == [k \in Happened |-> CostOf(k)]

LEMMA MoneyIsSummed ==
    ASSUME NEW E \in SUBSET Happened
    PROVE  /\ Summed(Earned, E) /\ Revenue(E) = Sum(Earned, E)
           /\ Summed(Charged, E) /\ Cost(E) = Sum(Charged, E)
<1>1. IsFiniteSet(E) /\ \A k \in E : k \in Nat /\ CostOf(k) \in Nat
  BY ReportsAssumption, FS_Subset DEF CostOf
<1>2. Summed(Earned, E) /\ Summed(Charged, E) BY <1>1 DEF Summed, Earned, Charged
<1>3. Revenue(E) = Sum([k \in E |-> k], E) /\ Cost(E) = Sum([k \in E |-> CostOf(k)], E)
  BY SumOfFunction DEF Revenue, Cost
<1>4. Sum([k \in E |-> k], E) = Sum(Earned, E) BY <1>1, SumReads DEF Earned
<1>5. Sum([k \in E |-> CostOf(k)], E) = Sum(Charged, E) BY <1>1, SumReads DEF Charged
<1> QED BY <1>2, <1>3, <1>4, <1>5

\* The rows of a drilldown, whatever the events are grouped by.
LEMMA BucketsAddUp ==
    ASSUME Ledger, NEW rows, NEW key, Keyed(OfDrilled, key, DOMAIN rows),
           \A g \in DOMAIN rows : \E visits : rows[g] = Bucket(visits, Group(OfDrilled, key, g))
    PROVE  /\ Total(rows, "errors") = TheRow.errors
           /\ Total(rows, "revenue") = TheRow.revenue
           /\ inquiry.spend = 0 => Total(rows, "cost") = TheRow.cost
           /\ inquiry.configured => Total(rows, "conversions") = TheRow.conversions
<1> DEFINE Part(g) == Group(OfDrilled, key, g)
<1>1. \A g \in DOMAIN rows :
        /\ rows[g].errors = Cardinality(Part(g) \ Sent(Part(g)))
        /\ rows[g].revenue = Revenue(Part(g)) /\ rows[g].cost = Cost(Part(g))
        /\ rows[g].conversions = Cardinality({k \in Part(g) : CountsInDrilldown(k)})
  <2> TAKE g \in DOMAIN rows
  <2> DEFINE events == Group(OfDrilled, key, g)
  <2>1. PICK visits : rows[g] = Bucket(visits, events) OBVIOUS
  <2> HIDE DEF events
  <2>2. /\ rows[g].errors = Cardinality(events \ Sent(events))
        /\ rows[g].revenue = Revenue(events) /\ rows[g].cost = Cost(events)
        /\ rows[g].conversions = Cardinality({k \in events : CountsInDrilldown(k)})
    BY <2>1 DEF Bucket
  <2> QED BY <2>2 DEF events
<1>2. \A g : Part(g) \in SUBSET Happened BY DrilledSelections DEF Group
<1>3. Total(rows, "errors") = TheRow.errors
  <2> DEFINE S == OfDrilled \ Sent(OfDrilled)
  <2>1. IsFiniteSet(S) /\ Keyed(S, key, DOMAIN rows) BY DrilledSelections, FS_Subset DEF Keyed
  <2>2. \A g : Part(g) \ Sent(Part(g)) = Group(S, key, g) BY DEF Group, Sent
  <2>3. \A g \in DOMAIN rows : rows[g]["errors"] = Cardinality(Group(S, key, g)) BY <1>1, <2>2
  <2>4. Total(rows, "errors") = Cardinality(S)
    <3> HIDE DEF S
    <3> QED BY <2>1, <2>3, RowsCount
  <2> QED BY <2>4, TableIs
<1>4. Total(rows, "revenue") = TheRow.revenue
  <2>1. Summed(Earned, OfDrilled) /\ Revenue(OfDrilled) = Sum(Earned, OfDrilled) BY DrilledSelections, MoneyIsSummed
  <2>2. \A g \in DOMAIN rows : rows[g]["revenue"] = Sum(Earned, Group(OfDrilled, key, g))
    BY <1>1, <1>2, MoneyIsSummed
  <2>3. Total(rows, "revenue") = Sum(Earned, OfDrilled) BY <2>1, <2>2, RowsSum
  <2> QED BY <2>1, <2>3, TableIs
<1>5. ASSUME inquiry.spend = 0 PROVE Total(rows, "cost") = TheRow.cost
  <2>1. Summed(Charged, OfDrilled) /\ Cost(OfDrilled) = Sum(Charged, OfDrilled) BY DrilledSelections, MoneyIsSummed
  <2>2. \A g \in DOMAIN rows : rows[g]["cost"] = Sum(Charged, Group(OfDrilled, key, g))
    BY <1>1, <1>2, MoneyIsSummed
  <2>3. Total(rows, "cost") = Sum(Charged, OfDrilled) BY <2>1, <2>2, RowsSum
  <2> QED BY <1>5, <2>1, <2>3, TableIs
<1>6. ASSUME inquiry.configured PROVE Total(rows, "conversions") = TheRow.conversions
  <2> DEFINE S == Counting(OfDrilled)
  <2>1. IsFiniteSet(S) /\ Keyed(S, key, DOMAIN rows) BY DrilledSelections, FS_Subset DEF Keyed, Counting
  <2>2. \A g : {k \in Part(g) : CountsInDrilldown(k)} = Group(S, key, g)
    BY <1>6 DEF Group, Counting, CountsInDrilldown, CountSlugs
  <2>3. \A g \in DOMAIN rows : rows[g]["conversions"] = Cardinality(Group(S, key, g)) BY <1>1, <2>2
  <2>4. Total(rows, "conversions") = Cardinality(S)
    <3> HIDE DEF S
    <3> QED BY <2>1, <2>3, RowsCount
  <2> QED BY <2>4, TableIs
<1> QED BY <1>3, <1>4, <1>5, <1>6


LEMMA TwoAreFinite == ASSUME NEW a, NEW b PROVE IsFiniteSet({a, b})
<1>1. IsFiniteSet({a}) /\ IsFiniteSet({b}) BY FS_Singleton
<1>2. {a, b} = {a} \cup {b} OBVIOUS
<1>3. IsFiniteSet({a} \cup {b}) BY <1>1, FS_Union
<1> QED BY <1>2, <1>3

LEMMA TagIsKept ==
    ASSUME NEW tag \in Tags, NEW byName, NEW otherwise, byName \notin Groups, otherwise \notin Groups
    PROVE  /\ TagKey(tag, byName, otherwise) \in Groups \cup {byName, otherwise}
           /\ \A g \in Groups : TagKey(tag, byName, otherwise) = g <=> tag.id = g
           /\ TagKey(tag, byName, otherwise) \notin Groups <=> tag.id = NoId
           /\ tag.id = NoId \/ tag.id \in Groups
<1>1. NoId \notin Groups BY ReportsAssumption
<1> QED BY <1>1 DEF Tags, TagKey

TagOf(i) == inquiry.visits[i].tag
Known == Groups \cup {"name:", "unassigned"}

LEMMA GroupOfVisit ==
    ASSUME Ledger, NEW i \in Visits
    PROVE  /\ TagOf(i) \in Tags /\ TagOf(i).id \in Groups \cup {NoId}
           /\ GroupOf(i) \in Known /\ BreakdownKey(i) \in Groups \cup {"(unknown)"}
           /\ \A g \in Groups : (GroupOf(i) = g <=> TagOf(i).id = g) /\ (BreakdownKey(i) = g <=> TagOf(i).id = g)
           /\ BreakdownKey(i) = "(unknown)" <=> TagOf(i).id = NoId
           /\ GroupOf(i) \in {"name:", "unassigned"} <=> TagOf(i).id = NoId
<1>1. TagOf(i) \in Tags BY DEF Ledger, TagOf
<1>2. {NoId, "name:", "unassigned", "(unknown)"} \cap Groups = {} BY ReportsAssumption
<1>3. GroupOf(i) = TagKey(TagOf(i), "name:", "unassigned") BY DEF GroupOf, TagOf
<1>4. BreakdownKey(i) = TagKey(TagOf(i), "(unknown)", "(unknown)") BY DEF BreakdownKey, TagOf
<1>5. /\ GroupOf(i) \in Known
      /\ \A g \in Groups : GroupOf(i) = g <=> TagOf(i).id = g
      /\ GroupOf(i) \notin Groups <=> TagOf(i).id = NoId
      /\ TagOf(i).id = NoId \/ TagOf(i).id \in Groups
  BY <1>1, <1>2, <1>3, TagIsKept DEF Known
<1>6. /\ BreakdownKey(i) \in Groups \cup {"(unknown)"}
      /\ \A g \in Groups : BreakdownKey(i) = g <=> TagOf(i).id = g
      /\ BreakdownKey(i) \notin Groups <=> TagOf(i).id = NoId
  BY <1>1, <1>2, <1>4, TagIsKept
<1> QED BY <1>1, <1>2, <1>5, <1>6 DEF Known

GroupKey == [i \in Visits |-> GroupOf(i)]
EventGroupKey == [k \in Happened |-> GroupOf(inquiry.events[k].of)]

LEMMA KnownKeys ==
    ASSUME Ledger
    PROVE  /\ DOMAIN DrilldownByGroup = Known /\ IsFiniteSet(Known)
           /\ \A S \in SUBSET Visits : Keyed(S, GroupKey, Known)
           /\ \A E \in SUBSET Happened : Keyed(E, EventGroupKey, Known)
           /\ \A g \in Known : DrilldownByGroup[g] =
                 Bucket(Group(Drilled, GroupKey, g), Group(OfDrilled, EventGroupKey, g))
<1>1. IsFiniteSet(Known)
  <2>1. IsFiniteSet({"name:", "unassigned"}) BY TwoAreFinite
  <2> QED BY <2>1, ReportsAssumption, FS_Union DEF Known
<1>2. \A i \in Visits : GroupKey[i] \in Known BY GroupOfVisit DEF GroupKey
<1>3. \A k \in Happened : EventGroupKey[k] \in Known BY GroupOfVisit DEF EventGroupKey, Ledger
<1>4. ASSUME NEW g \in Known
      PROVE  DrilldownByGroup[g] = Bucket(Group(Drilled, GroupKey, g), Group(OfDrilled, EventGroupKey, g))
  <2>1. By(GroupOf, g, Drilled) = Group(Drilled, GroupKey, g)
    BY DrilledSelections DEF By, Group, GroupKey
  <2>2. EventsBy(GroupOf, g, OfDrilled) = Group(OfDrilled, EventGroupKey, g)
    BY DrilledSelections DEF EventsBy, Group, EventGroupKey
  <2>3. DrilldownByGroup[g] = Bucket(By(GroupOf, g, Drilled), EventsBy(GroupOf, g, OfDrilled))
    BY DEF DrilldownByGroup, Known
  <2> QED BY <2>1, <2>2, <2>3
<1>5. DOMAIN DrilldownByGroup = Known BY DEF DrilldownByGroup, Known
<1> QED BY <1>1, <1>2, <1>3, <1>4, <1>5 DEF Keyed

\* A set that is not empty has a group that is not.
LEMMA SomeGroup ==
    ASSUME NEW S, NEW key, NEW K, Keyed(S, key, K), S # {} PROVE \E k \in K : Group(S, key, k) # {}
BY DEF Keyed, Group

LEMMA OneVisitor ==
    ASSUME NEW S
    PROVE  /\ Unique(S) \in {0, 1} /\ (Unique(S) = 0 <=> S = {})
<1> DEFINE who == {"visitor" : i \in S}
<1>1. S = {} => who = {} OBVIOUS
<1>2. S # {} => who = {"visitor"} OBVIOUS
<1>3. Unique(S) = Cardinality(who) BY DEF Unique
<1> HIDE DEF who
<1> QED BY <1>1, <1>2, <1>3, FS_EmptySet, FS_Singleton

LEMMA KnownRow ==
    ASSUME Ledger, NEW g \in Known
    PROVE  LET visits == Group(Drilled, GroupKey, g) IN
           /\ DrilldownByGroup[g].visits = Cardinality(visits)
           /\ DrilldownByGroup[g].unique = Unique(visits)
           /\ DrilldownByGroup[g].suspicious = Cardinality({i \in visits : Bot(i)})
<1> DEFINE rows == DrilldownByGroup
           visits == Group(Drilled, GroupKey, g)
           events == Group(OfDrilled, EventGroupKey, g)
<1>1. rows[g] = Bucket(visits, events) BY KnownKeys
<1>2. /\ rows[g].visits = Cardinality(visits) /\ rows[g].unique = Unique(visits)
      /\ rows[g].suspicious = Cardinality({i \in visits : Bot(i)})
  <2> HIDE DEF rows, visits, events
  <2> QED BY <1>1 DEF Bucket
<1> QED BY <1>2

LEMMA GroupsShowTheVisits ==
    ASSUME Ledger
    PROVE  /\ Total(DrilldownByGroup, "visits") = TheRow.visits
           /\ Total(DrilldownByGroup, "suspicious") = TheRow.suspicious
           /\ Total(DrilldownByGroup, "unique") >= TheRow.unique
<1> DEFINE rows == DrilldownByGroup
           Part(g) == Group(Drilled, GroupKey, g)
<1>1. DOMAIN rows = Known /\ Keyed(Drilled, GroupKey, Known) BY KnownKeys, DrilledSelections
<1>2. \A g \in Known : /\ rows[g].visits = Cardinality(Part(g)) /\ rows[g].unique = Unique(Part(g))
                       /\ rows[g].suspicious = Cardinality({i \in Part(g) : Bot(i)})
  BY KnownRow
<1>3. Total(rows, "visits") = TheRow.visits
  <2>1. \A g \in Known : rows[g]["visits"] = Cardinality(Part(g)) BY <1>2
  <2>2. Total(rows, "visits") = Cardinality(Drilled)
    <3> HIDE DEF rows
    <3> QED BY <1>1, <2>1, DrilledSelections, RowsCount
  <2> QED BY <2>2, TableIs
<1>4. Total(rows, "suspicious") = TheRow.suspicious
  <2> DEFINE S == {i \in Drilled : Bot(i)}
  <2>1. IsFiniteSet(S) /\ Keyed(S, GroupKey, Known) BY <1>1, DrilledSelections, FS_Subset DEF Keyed
  <2>2. \A g \in Known : rows[g]["suspicious"] = Cardinality(Group(S, GroupKey, g))
    <3>1. \A g : {i \in Part(g) : Bot(i)} = Group(S, GroupKey, g) BY DEF Group
    <3> HIDE DEF S, Part, rows
    <3> QED BY <1>2, <3>1
  <2>3. Total(rows, "suspicious") = Cardinality(S)
    <3> HIDE DEF rows, S
    <3> QED BY <1>1, <2>1, <2>2, RowsCount
  <2> QED BY <2>3, TableIs
<1>5. Total(rows, "unique") >= TheRow.unique
  <2> DEFINE all == [g \in Known |-> rows[g]["unique"]]
  <2>1. Total(rows, "unique") = Sum(all, Known) BY <1>1, SumOfFunction DEF Total
  <2>2. \A g \in Known : all[g] = Unique(Part(g)) BY <1>2
  <2>3. Summed(all, Known)
    <3> HIDE DEF all, Part
    <3> QED BY <1>1, <2>2, OneVisitor DEF Summed, Keyed
  <2>4. Sum(all, Known) \in Nat
    <3> HIDE DEF all
    <3> QED BY <2>3, SumIsNat
  <2>5. CASE Drilled = {}
    <3>1. TheRow.unique = 0 BY <2>5, OneVisitor, TableIs
    <3> QED BY <2>1, <2>4, <3>1
  <2>6. CASE Drilled # {}
    <3>1. PICK g \in Known : Part(g) # {} BY <1>1, <2>6, SomeGroup
    <3>2. all[g] = 1
      <4> HIDE DEF all, Part
      <4> QED BY <2>2, <3>1, OneVisitor
    <3>3. Sum(all, Known) = all[g] + Sum(all, Known \ {g}) /\ Summed(all, Known \ {g})
      <4> HIDE DEF all
      <4> QED BY <2>3, SumTakes, SummedParts
    <3>4. Sum(all, Known \ {g}) \in Nat
      <4> HIDE DEF all
      <4> QED BY <3>3, SumIsNat
    <3>5. TheRow.unique = 1 BY <2>6, OneVisitor, TableIs
    <3> HIDE DEF all, rows
    <3> QED BY <2>1, <3>2, <3>3, <3>4, <3>5
  <2> QED BY <2>5, <2>6
<1> QED BY <1>3, <1>4, <1>5


LEMMA Disjoint ==
    ASSUME NEW S, NEW T, IsFiniteSet(S), IsFiniteSet(T), S \cap T = {}
    PROVE  /\ IsFiniteSet(S \cup T) /\ Cardinality(S \cup T) = Cardinality(S) + Cardinality(T)
           /\ Cardinality(S) \in Nat /\ Cardinality(T) \in Nat
<1>1. Cardinality(S \cup T) = Cardinality(S) + Cardinality(T) - Cardinality(S \cap T)
  BY FS_Union
<1>2. Cardinality(S \cap T) = 0 BY FS_EmptySet
<1>3. Cardinality(S) \in Nat /\ Cardinality(T) \in Nat BY FS_CardinalityType
<1> QED BY <1>1, <1>2, <1>3, FS_Union

\* What the attribution moves is all the row and the recorded visits differ by.
LEMMA AttributionMoves ==
    ASSUME Ledger
    PROVE  /\ IsFiniteSet(Drilled) /\ IsFiniteSet(Shown) /\ IsFiniteSet(Moved) /\ IsFiniteSet(Taken)
           /\ Drilled \cap Moved = {} /\ Shown \cap Taken = {}
           /\ Drilled \cup Moved = {i \in Visits : Reportable(i)}
           /\ Shown \cup Taken = {i \in Visits : Reportable(i)}
<1>1. \A i \in Visits : PlaceOf(i) \in {"kept", "moved", "taken"} BY DEF Ledger, PlaceOf, Places
<1>2. \A i \in Visits : Attributed(TRUE, i) <=> PlaceOf(i) # "moved" BY DEF Attributed
<1>3. \A i \in Visits : Recorded(i) <=> PlaceOf(i) # "taken" BY DEF Recorded
<1>4. /\ Drilled = {i \in Visits : PlaceOf(i) # "moved" /\ Reportable(i)}
      /\ Shown = {i \in Visits : PlaceOf(i) # "taken" /\ Reportable(i)}
  BY <1>2, <1>3 DEF Drilled, InRow, Shown
<1>5. Moved \subseteq Visits /\ Taken \subseteq Visits BY DEF Moved, Taken
<1>6. IsFiniteSet(Moved) /\ IsFiniteSet(Taken) BY <1>5, ReportsAssumption, FS_Subset
<1> QED BY <1>1, <1>4, <1>6, Selections, DrilledSelections DEF Moved, Taken

LEMMA BreakdownGroups ==
    ASSUME Ledger
    PROVE  /\ \A g \in Groups :
                DrilldownByGroup[g].visits + Cardinality(By(GroupOf, g, Moved))
                  = VisitBreakdown[g].visits + Cardinality(By(GroupOf, g, Taken))
           /\ VisitBreakdown["(unknown)"].visits + Nameless(Taken)
                = DrilldownByGroup["name:"].visits + DrilldownByGroup["unassigned"].visits + Nameless(Moved)
<1> DEFINE Part(g) == Group(Drilled, GroupKey, g)
           In(g) == By(BreakdownKey, g, Shown)
           NamedIn(g, S) == {i \in S : TagOf(i).id = g}
<1>1. \A g \in Known : DrilldownByGroup[g].visits = Cardinality(Part(g)) BY KnownRow
<1>2. \A g \in Groups \cup {"(unknown)"} : VisitBreakdown[g].visits = Cardinality(In(g))
  BY DEF VisitBreakdown
<1>3. \A S \in SUBSET Visits : IsFiniteSet(S) BY ReportsAssumption, FS_Subset
<1>4. Moved \in SUBSET Visits /\ Taken \in SUBSET Visits /\ Drilled \in SUBSET Visits /\ Shown \in SUBSET Visits
  BY Selections, DrilledSelections DEF Moved, Taken
<1>5. \A S \in SUBSET Visits : \A g : IsFiniteSet(NamedIn(g, S))
  <2> TAKE S \in SUBSET Visits
  <2> TAKE g
  <2>1. NamedIn(g, S) \in SUBSET Visits OBVIOUS
  <2> HIDE DEF NamedIn
  <2> QED BY <1>3, <2>1
<1>6. ASSUME NEW g PROVE Cardinality(NamedIn(g, Drilled)) + Cardinality(NamedIn(g, Moved))
                          = Cardinality(NamedIn(g, Shown)) + Cardinality(NamedIn(g, Taken))
  <2>1. /\ NamedIn(g, Drilled) \cup NamedIn(g, Moved) = NamedIn(g, Shown) \cup NamedIn(g, Taken)
        /\ NamedIn(g, Drilled) \cap NamedIn(g, Moved) = {} /\ NamedIn(g, Shown) \cap NamedIn(g, Taken) = {}
    <3>1. Drilled \cup Moved = Shown \cup Taken /\ Drilled \cap Moved = {} /\ Shown \cap Taken = {}
      BY AttributionMoves
    <3> QED BY <3>1
  <2>2. /\ IsFiniteSet(NamedIn(g, Drilled)) /\ IsFiniteSet(NamedIn(g, Moved))
        /\ IsFiniteSet(NamedIn(g, Shown)) /\ IsFiniteSet(NamedIn(g, Taken))
    BY <1>4, <1>5
  <2> HIDE DEF NamedIn
  <2>3. Cardinality(NamedIn(g, Drilled) \cup NamedIn(g, Moved))
          = Cardinality(NamedIn(g, Drilled)) + Cardinality(NamedIn(g, Moved))
    BY <2>1, <2>2, Disjoint
  <2>4. Cardinality(NamedIn(g, Shown) \cup NamedIn(g, Taken))
          = Cardinality(NamedIn(g, Shown)) + Cardinality(NamedIn(g, Taken))
    BY <2>1, <2>2, Disjoint
  <2> QED BY <2>1, <2>3, <2>4
<1>7. ASSUME NEW g \in Groups
      PROVE  /\ Part(g) = NamedIn(g, Drilled) /\ In(g) = NamedIn(g, Shown)
             /\ \A S \in SUBSET Visits : By(GroupOf, g, S) = NamedIn(g, S)
  BY <1>4, GroupOfVisit DEF Group, GroupKey, By
<1>8. /\ In("(unknown)") = NamedIn(NoId, Shown)
      /\ \A S \in SUBSET Visits : By(BreakdownKey, "(unknown)", S) = NamedIn(NoId, S)
      /\ Part("name:") \cup Part("unassigned") = NamedIn(NoId, Drilled)
      /\ Part("name:") \cap Part("unassigned") = {}
  <2>1. \A S \in SUBSET Visits : By(BreakdownKey, "(unknown)", S) = NamedIn(NoId, S)
    BY GroupOfVisit DEF By
  <2>2. Part("name:") \cup Part("unassigned") = NamedIn(NoId, Drilled)
    BY <1>4, GroupOfVisit DEF Group, GroupKey
  <2> QED BY <1>4, <2>1, <2>2 DEF Group
<1>9. Cardinality(NamedIn(NoId, Drilled)) = Cardinality(Part("name:")) + Cardinality(Part("unassigned"))
  <2>1. \A g : IsFiniteSet(Part(g))
    <3>1. \A g : Part(g) \subseteq Drilled BY DEF Group
    <3> QED BY <3>1, DrilledSelections, FS_Subset
  <2> HIDE DEF Part, NamedIn
  <2> QED BY <1>8, <2>1, Disjoint
<1>10. ASSUME NEW g \in Groups
       PROVE  DrilldownByGroup[g].visits + Cardinality(By(GroupOf, g, Moved))
                = VisitBreakdown[g].visits + Cardinality(By(GroupOf, g, Taken))
  <2> HIDE DEF Part, In, NamedIn
  <2> QED BY <1>1, <1>2, <1>4, <1>6, <1>7 DEF Known
<1>11. Nameless(Moved) = Cardinality(NamedIn(NoId, Moved)) /\ Nameless(Taken) = Cardinality(NamedIn(NoId, Taken))
  <2> HIDE DEF NamedIn
  <2> QED BY <1>4, <1>8 DEF Nameless
<1>12. VisitBreakdown["(unknown)"].visits = Cardinality(NamedIn(NoId, Shown))
  <2> HIDE DEF NamedIn, In
  <2> QED BY <1>2, <1>8
<1>13. /\ DrilldownByGroup["name:"].visits = Cardinality(Part("name:"))
       /\ DrilldownByGroup["unassigned"].visits = Cardinality(Part("unassigned"))
  <2> HIDE DEF Part
  <2> QED BY <1>1 DEF Known
<1>14. Cardinality(NamedIn(NoId, Drilled)) + Cardinality(NamedIn(NoId, Moved))
         = Cardinality(NamedIn(NoId, Shown)) + Cardinality(NamedIn(NoId, Taken))
  BY <1>6
<1> HIDE DEF Part, In, NamedIn
<1> QED BY <1>9, <1>10, <1>11, <1>12, <1>13, <1>14

EventKeyIn(dimension) == [k \in OfDrilled |-> EventKey(dimension, k)]

LEMMA EventRows ==
    ASSUME Ledger, NEW dimension
    PROVE  /\ DOMAIN DrilldownByEvent(dimension) = EventKeys(dimension)
           /\ Keyed(OfDrilled, EventKeyIn(dimension), EventKeys(dimension))
           /\ \A key \in EventKeys(dimension) :
                /\ DrilldownByEvent(dimension)[key] =
                     Bucket({inquiry.events[k].of : k \in OfKey(dimension, key)},
                            Group(OfDrilled, EventKeyIn(dimension), key))
                /\ DrilldownByEvent(dimension)[key].visits <= TheRow.visits
<1>1. DOMAIN DrilldownByEvent(dimension) = EventKeys(dimension) BY DEF DrilldownByEvent
<1>2. IsFiniteSet(EventKeys(dimension))
  <2> DEFINE f == EventKeyIn(dimension)
  <2>1. EventKeys(dimension) = {f[k] : k \in OfDrilled} BY DEF EventKeys, EventKeyIn
  <2> HIDE DEF f
  <2> QED BY <2>1, DrilledSelections, ImageIsSmaller
<1>3. Keyed(OfDrilled, EventKeyIn(dimension), EventKeys(dimension))
  BY <1>2 DEF Keyed, EventKeyIn, EventKeys
<1>4. ASSUME NEW key \in EventKeys(dimension)
      PROVE  /\ DrilldownByEvent(dimension)[key] =
                  Bucket({inquiry.events[k].of : k \in OfKey(dimension, key)},
                         Group(OfDrilled, EventKeyIn(dimension), key))
             /\ DrilldownByEvent(dimension)[key].visits <= TheRow.visits
  <2> DEFINE visits == {inquiry.events[k].of : k \in OfKey(dimension, key)}
             events == OfKey(dimension, key)
  <2>1. DrilldownByEvent(dimension)[key] = Bucket(visits, events) BY DEF DrilldownByEvent
  <2>2. events = Group(OfDrilled, EventKeyIn(dimension), key) BY DEF OfKey, Group, EventKeyIn
  <2>3. visits \in SUBSET Drilled BY DrilledSelections DEF OfKey
  <2>4. DrilldownByEvent(dimension)[key].visits = Cardinality(visits)
    <3> HIDE DEF visits, events
    <3> QED BY <2>1 DEF Bucket
  <2>5. Cardinality(visits) <= TheRow.visits
    <3> HIDE DEF visits
    <3> QED BY <2>3, DrilledSelections, Smaller, TableIs
  <2> QED BY <2>1, <2>2, <2>4, <2>5
<1> QED BY <1>1, <1>3, <1>4

LEMMA DrilldownsDo == Ledger => DrilldownsAddUp
<1> SUFFICES ASSUME Ledger PROVE DrilldownsAddUp OBVIOUS
<1>1. ASSUME NEW rows \in {DrilldownByGroup, DrilldownByEvent("type"), DrilldownByEvent("transaction")}
      PROVE  /\ Total(rows, "errors") = TheRow.errors
             /\ Total(rows, "revenue") = TheRow.revenue
             /\ inquiry.spend = 0 => Total(rows, "cost") = TheRow.cost
             /\ inquiry.configured => Total(rows, "conversions") = TheRow.conversions
  <2>1. CASE rows = DrilldownByGroup
    <3>1. Keyed(OfDrilled, EventGroupKey, DOMAIN rows) BY <2>1, KnownKeys, DrilledSelections
    <3>2. \A g \in DOMAIN rows : \E visits : rows[g] = Bucket(visits, Group(OfDrilled, EventGroupKey, g))
      BY <2>1, KnownKeys
    <3> QED BY <3>1, <3>2, BucketsAddUp
  <2>2. ASSUME NEW dimension, rows = DrilldownByEvent(dimension)
        PROVE  /\ Total(rows, "errors") = TheRow.errors
               /\ Total(rows, "revenue") = TheRow.revenue
               /\ inquiry.spend = 0 => Total(rows, "cost") = TheRow.cost
               /\ inquiry.configured => Total(rows, "conversions") = TheRow.conversions
    <3> DEFINE key == EventKeyIn(dimension)
    <3>1. Keyed(OfDrilled, key, DOMAIN rows) BY <2>2, EventRows
    <3>2. \A g \in DOMAIN rows : \E visits : rows[g] = Bucket(visits, Group(OfDrilled, key, g))
      BY <2>2, EventRows
    <3> HIDE DEF key
    <3> QED BY <3>1, <3>2, BucketsAddUp
  <2> QED BY <2>1, <2>2
<1>2. ASSUME NEW rows \in {DrilldownByEvent("type"), DrilldownByEvent("transaction")}, NEW key \in DOMAIN rows
      PROVE  rows[key].visits <= TheRow.visits
  BY <1>2, EventRows
<1> QED BY <1>1, <1>2, GroupsShowTheVisits, BreakdownGroups DEF DrilldownsAddUp, TheRow


-----------------------------------------------------------------------------
(* The screens.                                                            *)

BreakdownKeys == Groups \cup {"(unknown)"}
VisitBreakdownKey == [i \in Visits |-> BreakdownKey(i)]
EventBreakdownKey == [k \in Happened |-> BreakdownKey(inquiry.events[k].of)]

LEMMA KeysOfBreakdown ==
    ASSUME Ledger
    PROVE  /\ \A S \in SUBSET Visits : IsFiniteSet(S) /\ Keyed(S, VisitBreakdownKey, BreakdownKeys)
           /\ \A E \in SUBSET Happened : IsFiniteSet(E) /\ Keyed(E, EventBreakdownKey, BreakdownKeys)
           /\ \A S \in SUBSET Visits : \A g : By(BreakdownKey, g, S) = Group(S, VisitBreakdownKey, g)
           /\ \A E \in SUBSET Happened : \A g : EventsBy(BreakdownKey, g, E) = Group(E, EventBreakdownKey, g)
<1>1. IsFiniteSet(BreakdownKeys)
  <2>1. IsFiniteSet({"(unknown)"}) BY FS_Singleton
  <2> QED BY <2>1, ReportsAssumption, FS_Union DEF BreakdownKeys
<1>2. \A i \in Visits : VisitBreakdownKey[i] \in BreakdownKeys
  BY GroupOfVisit DEF VisitBreakdownKey, BreakdownKeys
<1>3. \A k \in Happened : EventBreakdownKey[k] \in BreakdownKeys
  BY GroupOfVisit DEF EventBreakdownKey, BreakdownKeys, Ledger
<1>4. \A S \in SUBSET Visits : \A g : By(BreakdownKey, g, S) = Group(S, VisitBreakdownKey, g)
  BY DEF By, Group, VisitBreakdownKey
<1>5. \A E \in SUBSET Happened : \A g : EventsBy(BreakdownKey, g, E) = Group(E, EventBreakdownKey, g)
  BY DEF EventsBy, Group, EventBreakdownKey
<1>6. /\ \A S \in SUBSET Visits : IsFiniteSet(S)
      /\ \A E \in SUBSET Happened : IsFiniteSet(E)
  BY ReportsAssumption, FS_Subset
<1> QED BY <1>1, <1>2, <1>3, <1>4, <1>5, <1>6 DEF Keyed

\* A breakdown of some visits and some events gives them all.
BreakdownOf(rows, S, E) ==
    /\ DOMAIN rows = BreakdownKeys
    /\ \A g \in BreakdownKeys : /\ rows[g].visits = Cardinality(Group(S, VisitBreakdownKey, g))
                                /\ rows[g].conversions = Cardinality(Group(E, EventBreakdownKey, g))

LEMMA BreakdownAddsUp ==
    ASSUME Ledger, NEW rows, NEW S \in SUBSET Visits, NEW E \in SUBSET Happened, BreakdownOf(rows, S, E)
    PROVE  Total(rows, "visits") = Cardinality(S) /\ Total(rows, "conversions") = Cardinality(E)
<1>1. /\ IsFiniteSet(S) /\ Keyed(S, VisitBreakdownKey, DOMAIN rows)
      /\ IsFiniteSet(E) /\ Keyed(E, EventBreakdownKey, DOMAIN rows)
  BY KeysOfBreakdown DEF BreakdownOf
<1>2. \A g \in DOMAIN rows : rows[g]["visits"] = Cardinality(Group(S, VisitBreakdownKey, g))
  BY DEF BreakdownOf
<1>3. \A g \in DOMAIN rows : rows[g]["conversions"] = Cardinality(Group(E, EventBreakdownKey, g))
  BY DEF BreakdownOf
<1> QED BY <1>1, <1>2, <1>3, RowsCount

LEMMA VisitBreakdownAddsUp ==
    ASSUME Ledger
    PROVE  /\ Total(VisitBreakdown, "visits") = VisitSummary.visits
           /\ Total(VisitBreakdown, "conversions") = VisitSummary.conversions
<1> DEFINE E == Counting(Sent(OfShown))
<1>1. Shown \in SUBSET Visits /\ E \in SUBSET Happened BY Selections DEF Counting, Sent
<1>2. DOMAIN VisitBreakdown = BreakdownKeys BY DEF VisitBreakdown, BreakdownKeys
<1>3. ASSUME NEW g \in BreakdownKeys
      PROVE  /\ VisitBreakdown[g].visits = Cardinality(Group(Shown, VisitBreakdownKey, g))
             /\ VisitBreakdown[g].conversions = Cardinality(Group(E, EventBreakdownKey, g))
  <2>1. /\ VisitBreakdown[g].visits = Cardinality(By(BreakdownKey, g, Shown))
        /\ VisitBreakdown[g].conversions = Cardinality(EventsBy(BreakdownKey, g, E))
    BY DEF VisitBreakdown, BreakdownKeys
  <2> HIDE DEF E
  <2> QED BY <1>1, <2>1, KeysOfBreakdown
<1>4. Total(VisitBreakdown, "visits") = Cardinality(Shown) /\ Total(VisitBreakdown, "conversions") = Cardinality(E)
  <2>1. BreakdownOf(VisitBreakdown, Shown, E) BY <1>2, <1>3 DEF BreakdownOf
  <2> HIDE DEF E
  <2> QED BY <1>1, <2>1, BreakdownAddsUp
<1> QED BY <1>4 DEF VisitSummary

LEMMA RealBreakdownAddsUp ==
    ASSUME Ledger, ~inquiry.excludeBots
    PROVE  LET rehearsed == {k \in Counting(Sent(Happened)) :
                                inquiry.events[k].test /\ inquiry.events[k].of \in Ours} IN
           /\ Total(Breakdown, "visits") = Cardinality(Ours)
           /\ Total(Breakdown, "conversions") = VisitSummary.conversions + Cardinality(rehearsed)
<1> DEFINE E == {k \in Counting(Sent(Happened)) : inquiry.events[k].of \in Ours}
           rehearsed == {k \in Counting(Sent(Happened)) :
                            inquiry.events[k].test /\ inquiry.events[k].of \in Ours}
           shown == Counting(Sent(OfShown))
<1>1. Ours \in SUBSET Visits /\ E \in SUBSET Happened BY DEF Ours, Counting, Sent
<1>2. DOMAIN Breakdown = BreakdownKeys BY DEF Breakdown, BreakdownKeys
<1>3. ASSUME NEW g \in BreakdownKeys
      PROVE  /\ Breakdown[g].visits = Cardinality(Group(Ours, VisitBreakdownKey, g))
             /\ Breakdown[g].conversions = Cardinality(Group(E, EventBreakdownKey, g))
  <2> DEFINE joined == Counting(Sent(Happened))
  <2>1. /\ Breakdown[g].visits = Cardinality(By(BreakdownKey, g, Ours))
        /\ Breakdown[g].conversions =
             Cardinality({k \in EventsBy(BreakdownKey, g, joined) : inquiry.events[k].of \in Ours})
    BY <1>3 DEF Breakdown, BreakdownKeys
  <2>2. By(BreakdownKey, g, Ours) = Group(Ours, VisitBreakdownKey, g) BY <1>1, KeysOfBreakdown
  <2>3. joined \subseteq Happened BY DEF Counting, Sent
  <2>4. {k \in EventsBy(BreakdownKey, g, joined) : inquiry.events[k].of \in Ours}
          = Group(E, EventBreakdownKey, g)
    <3> HIDE DEF joined
    <3> QED BY <2>3 DEF EventsBy, Group, EventBreakdownKey, joined
  <2> QED BY <2>1, <2>2, <2>4
<1>4. Total(Breakdown, "visits") = Cardinality(Ours) /\ Total(Breakdown, "conversions") = Cardinality(E)
  <2>1. BreakdownOf(Breakdown, Ours, E) BY <1>2, <1>3 DEF BreakdownOf
  <2> HIDE DEF E
  <2> QED BY <1>1, <2>1, BreakdownAddsUp
<1>5. E = shown \cup rehearsed /\ shown \cap rehearsed = {}
  <2>1. Shown = Ours BY DEF Shown, Ours, Reportable
  <2>2. OfShown = {k \in Happened : ~inquiry.events[k].test /\ inquiry.events[k].of \in Ours}
    BY <2>1 DEF OfShown, RealEvents, AllReal, Ours
  <2> QED BY <2>2 DEF Counting, Sent, Ledger
<1>6. IsFiniteSet(shown) /\ IsFiniteSet(rehearsed) BY <1>1, <1>5, ReportsAssumption, FS_Subset
<1>7. Cardinality(E) = Cardinality(shown) + Cardinality(rehearsed)
  <2> HIDE DEF E, shown, rehearsed
  <2> QED BY <1>5, <1>6, Disjoint
<1> QED BY <1>4, <1>7 DEF VisitSummary


RealBots == {i \in Ours : Bot(i)}

LEMMA VisitsOnScreens ==
    ASSUME Ledger
    PROVE  /\ RowAlone.visits = Cardinality(Shown)
           /\ VisitSummary.visits = Cardinality(Shown) /\ Seen.visits = Cardinality(Shown)
           /\ Rollup.visits = TheRow.visits + Cardinality(Moved)
           /\ Rollup.visits = VisitSummary.visits + Cardinality(Taken)
           /\ Seen.visits <= Overview(TRUE).visits
           /\ Chart.visits = Cardinality(Ours) /\ Funnel.visits = Cardinality(Ours)
           /\ CampaignStats.stats.visits = Cardinality(Ours)
           /\ ~inquiry.excludeBots => Shown = Ours
<1>1. RowAlone.visits = Cardinality(Shown) /\ VisitSummary.visits = Cardinality(Shown)
  <2>1. InRow(FALSE) = Shown BY DEF InRow, Attributed, Shown
  <2> QED BY <2>1 DEF RowAlone, TableRow, VisitSummary
<1>2. /\ Chart.visits = Cardinality(Ours) /\ Funnel.visits = Cardinality(Ours)
      /\ CampaignStats.stats.visits = Cardinality(Ours)
  BY DEF Chart, Funnel, CampaignStats, VisitStats
<1> DEFINE seen(includeTest) ==
             {i \in Visits : /\ Recorded(i) /\ ~inquiry.visits[i].early
                             /\ (includeTest \/ ~inquiry.visits[i].test)
                             /\ (inquiry.excludeBots => ~Bot(i))}
<1>3. /\ Seen.visits = Cardinality(seen(FALSE))
      /\ Overview(TRUE).visits = Cardinality(seen(TRUE))
  BY DEF Seen, Overview
<1>4. seen(FALSE) = Shown BY DEF Shown, Reportable, Real
<1>5. seen(FALSE) \in SUBSET seen(TRUE) /\ IsFiniteSet(seen(TRUE))
  <2>1. seen(TRUE) \subseteq Visits OBVIOUS
  <2>2. IsFiniteSet(seen(TRUE)) BY <2>1, ReportsAssumption, FS_Subset
  <2> QED BY <2>2
<1>6. Cardinality(seen(FALSE)) <= Cardinality(seen(TRUE))
  <2> HIDE DEF seen
  <2> QED BY <1>5, Smaller
<1>7. ~inquiry.excludeBots => Shown = Ours BY DEF Shown, Reportable, Ours
<1>8. Rollup.visits = Cardinality(Drilled) + Cardinality(Moved)
      /\ Rollup.visits = Cardinality(Shown) + Cardinality(Taken)
  <2> DEFINE all == {i \in Visits : Reportable(i)}
  <2>1. Rollup.visits = Cardinality(all) BY DEF Rollup
  <2>2. /\ all = Drilled \cup Moved /\ all = Shown \cup Taken
        /\ Drilled \cap Moved = {} /\ Shown \cap Taken = {}
        /\ IsFiniteSet(Drilled) /\ IsFiniteSet(Shown) /\ IsFiniteSet(Moved) /\ IsFiniteSet(Taken)
    BY AttributionMoves
  <2> HIDE DEF all
  <2>3. Cardinality(Drilled \cup Moved) = Cardinality(Drilled) + Cardinality(Moved) BY <2>2, Disjoint
  <2>4. Cardinality(Shown \cup Taken) = Cardinality(Shown) + Cardinality(Taken) BY <2>2, Disjoint
  <2> QED BY <2>1, <2>2, <2>3, <2>4
<1> QED BY <1>1, <1>2, <1>3, <1>4, <1>6, <1>7, <1>8, TableIs

\* A part of the events and the rest, of those that count.
LEMMA CountedParts ==
    ASSUME NEW whole \in SUBSET Happened, NEW part, NEW rest, whole = part \cup rest, part \cap rest = {}
    PROVE  Cardinality(Counting(whole)) = Cardinality(Counting(part)) + Cardinality(Counting(rest))
<1>1. Counting(whole) = Counting(part) \cup Counting(rest) /\ Counting(part) \cap Counting(rest) = {}
  BY DEF Counting
<1>2. Counting(part) \subseteq Happened /\ Counting(rest) \subseteq Happened BY DEF Counting
<1>3. IsFiniteSet(Counting(part)) /\ IsFiniteSet(Counting(rest)) BY <1>2, ReportsAssumption, FS_Subset
<1> QED BY <1>1, <1>3, Disjoint

LEMMA ConversionsOnScreens ==
    ASSUME Ledger
    PROVE  LET missed == {k \in RollupEvents :
                            inquiry.events[k].of \in Moved \/ ~Reportable(inquiry.events[k].of)}
               others == {k \in RollupEvents : ~Recorded(inquiry.events[k].of)}
           IN
           /\ Rollup.conversions = TheRow.conversions + Cardinality(Counting(missed))
           /\ Rollup.conversions = Seen.conversions + Cardinality(Counting(others))
           /\ VisitSummary.conversions <= RowAlone.conversions
           /\ RowAlone.conversions <= Seen.conversions
           /\ ~inquiry.excludeBots =>
                /\ Chart.conversions = Seen.conversions
                /\ inquiry.configured => Funnel.events = Seen.conversions
                /\ CampaignStats.conversions = Seen.conversions
<1> DEFINE missed == {k \in RollupEvents :
                        inquiry.events[k].of \in Moved \/ ~Reportable(inquiry.events[k].of)}
           others == {k \in RollupEvents : ~Recorded(inquiry.events[k].of)}
           ours == {k \in RollupEvents : Recorded(inquiry.events[k].of)}
<1>1. RollupEvents \in SUBSET Happened /\ \A k \in Happened : inquiry.events[k].of \in Visits
  BY DEF RollupEvents, AllReal, Ledger
<1>2. Rollup.conversions = Cardinality(Counting(RollupEvents)) BY DEF Rollup
<1>3. Rollup.conversions = TheRow.conversions + Cardinality(Counting(missed))
  <2>1. \A i \in Visits : (i \in Drilled \/ i \in Moved) <=> Reportable(i) BY AttributionMoves
  <2>2. Drilled \cap Moved = {} BY AttributionMoves
  <2>3. OfDrilled = {k \in AllReal : inquiry.events[k].of \in Drilled} BY DEF OfDrilled, OfRow, Drilled
  <2>4. RollupEvents = OfDrilled \cup missed /\ OfDrilled \cap missed = {}
    BY <1>1, <2>1, <2>2, <2>3 DEF RollupEvents, AllReal
  <2> HIDE DEF missed
  <2> QED BY <1>1, <1>2, <2>4, CountedParts, TableIs
<1>4. Seen.conversions = Cardinality(Counting(ours))
  <2> DEFINE seen == {i \in Visits : /\ Recorded(i) /\ ~inquiry.visits[i].early
                                     /\ (FALSE \/ ~inquiry.visits[i].test)
                                     /\ (inquiry.excludeBots => ~Bot(i))}
             events == {k \in Happened : /\ Recorded(inquiry.events[k].of)
                                         /\ (FALSE \/ ~inquiry.events[k].test)
                                         /\ (inquiry.excludeBots => inquiry.events[k].of \in seen)}
  <2>1. Seen.conversions = Cardinality(Counting(events)) BY DEF Seen, Overview
  <2>2. \A i \in Visits : i \in seen <=> Recorded(i) /\ Reportable(i) BY DEF Reportable, Real
  <2>3. events = ours
    <3> HIDE DEF seen
    <3> QED BY <1>1, <2>2 DEF RollupEvents, AllReal
  <2> QED BY <2>1, <2>3
<1>5. Rollup.conversions = Seen.conversions + Cardinality(Counting(others))
  <2>1. RollupEvents = ours \cup others /\ ours \cap others = {} OBVIOUS
  <2> HIDE DEF ours, others
  <2> QED BY <1>1, <1>2, <1>4, <2>1, CountedParts
<1>6. RowAlone.conversions = Cardinality(Counting(OfShown))
  <2>1. InRow(FALSE) = Shown BY DEF InRow, Attributed, Shown
  <2>2. OfRow(FALSE) = OfShown BY <2>1 DEF OfRow, OfShown, RealEvents, Shown
  <2> QED BY <2>2 DEF RowAlone, TableRow
<1>7. ASSUME NEW S, NEW T \in SUBSET Happened, S \subseteq T PROVE Cardinality(S) <= Cardinality(T)
  BY <1>7, ReportsAssumption, FS_Subset, Smaller
<1>8. VisitSummary.conversions <= RowAlone.conversions
  <2>1. Counting(Sent(OfShown)) \subseteq Counting(OfShown) /\ Counting(OfShown) \in SUBSET Happened
    BY Selections DEF Counting, Sent
  <2> QED BY <1>6, <1>7, <2>1 DEF VisitSummary
<1>9. RowAlone.conversions <= Seen.conversions
  <2>1. OfShown \subseteq ours BY DEF OfShown, RealEvents, RollupEvents, Shown
  <2>2. Counting(OfShown) \subseteq Counting(ours) /\ Counting(ours) \in SUBSET Happened
    BY <1>1, <2>1 DEF Counting
  <2> HIDE DEF ours
  <2> QED BY <1>4, <1>6, <1>7, <2>2
<1>10. ASSUME ~inquiry.excludeBots
       PROVE  /\ Chart.conversions = Seen.conversions
              /\ inquiry.configured => Funnel.events = Seen.conversions
              /\ CampaignStats.conversions = Seen.conversions
  <2>1. ours = RealEvents BY <1>10 DEF RollupEvents, RealEvents
  <2> HIDE DEF ours
  <2>2. Chart.conversions = Cardinality(Counting(ours)) /\ CampaignStats.conversions = Cardinality(Counting(ours))
    BY <2>1 DEF Chart, CampaignStats
  <2>3. ASSUME inquiry.configured PROVE Funnel.events = Cardinality(Counting(ours))
    <3>1. FunnelStep = Counting(ours) BY <2>1, <2>3 DEF FunnelStep, Counting, CountSlugs
    <3>2. Funnel.events = Cardinality(FunnelStep) BY DEF Funnel
    <3> QED BY <3>1, <3>2
  <2> QED BY <1>4, <2>2, <2>3
<1> QED BY <1>3, <1>5, <1>8, <1>9, <1>10

LEMMA BotsOnScreens ==
    ASSUME Ledger
    PROVE  BotsInSpend.bots <= BotsInSpend.visits /\ BotsInSpend.visits = Chart.visits
<1>1. BotsInSpend.bots = Cardinality(RealBots)
      /\ BotsInSpend.visits = Cardinality(Shown) + IF inquiry.excludeBots THEN Cardinality(RealBots) ELSE 0
  BY DEF BotsInSpend, RealBots
<1>2. Chart.visits = Cardinality(Ours) BY VisitsOnScreens
<1>3. IsFiniteSet(Ours) /\ RealBots \in SUBSET Ours
  BY ReportsAssumption, FS_Subset DEF Ours, RealBots
<1>4. IsFiniteSet(RealBots) /\ Cardinality(RealBots) <= Cardinality(Ours)
      /\ Cardinality(Ours) \in Nat
  BY <1>3, Smaller
<1>5. CASE inquiry.excludeBots
  <2>1. Ours = Shown \cup RealBots /\ Shown \cap RealBots = {}
    BY <1>5 DEF Ours, RealBots, Shown, Reportable
  <2>2. Cardinality(Ours) = Cardinality(Shown) + Cardinality(RealBots)
    BY <1>4, <2>1, Selections, Disjoint
  <2> QED BY <1>1, <1>2, <1>4, <1>5, <2>2
<1>6. CASE ~inquiry.excludeBots
  <2>1. Shown = Ours BY <1>6, VisitsOnScreens
  <2> QED BY <1>1, <1>2, <1>4, <1>6, <2>1
<1> QED BY <1>5, <1>6 DEF Ledger

LEMMA StatsOnScreens ==
    ASSUME Ledger
    PROVE  LET stats == VisitStats(Shown) IN
           /\ stats.visits = VisitSummary.visits /\ stats.newVisitors <= stats.uniqueVisits
           /\ stats.newVisitors + stats.returning = stats.visits
<1> DEFINE new == Shown \cap {1}
<1>1. /\ VisitStats(Shown).visits = Cardinality(Shown)
      /\ VisitStats(Shown).newVisitors = Cardinality(new)
      /\ VisitStats(Shown).uniqueVisits = Unique(Shown)
      /\ VisitStats(Shown).returning = Cardinality(Shown) - Cardinality(new)
  BY DEF VisitStats
<1>2. new = {} \/ (new = {1} /\ Shown # {}) OBVIOUS
<1>3. Cardinality(new) <= Unique(Shown)
  <2>1. Unique(Shown) \in {0, 1} /\ (Shown # {} => Unique(Shown) = 1) BY OneVisitor
  <2>2. Cardinality({}) = 0 /\ Cardinality({1}) = 1 BY FS_EmptySet, FS_Singleton
  <2> HIDE DEF new
  <2>3. CASE new = {}
    <3>1. Cardinality(new) = 0 BY <2>2, <2>3
    <3> QED BY <2>1, <3>1
  <2>4. CASE new = {1} /\ Shown # {}
    <3>1. Cardinality(new) = 1 BY <2>2, <2>4
    <3> QED BY <2>1, <2>4, <3>1
  <2> QED BY <1>2, <2>3, <2>4
<1>4. Cardinality(new) \in Nat /\ Cardinality(Shown) \in Nat
  <2> HIDE DEF new
  <2> QED BY <1>2, Selections, FS_CardinalityType, FS_EmptySet, FS_Singleton
<1> HIDE DEF new
<1> QED BY <1>1, <1>3, <1>4, VisitsOnScreens

LEMMA ScreensDo == Ledger => ScreensAgree
<1> SUFFICES ASSUME Ledger PROVE ScreensAgree OBVIOUS
<1> DEFINE missed == {k \in RollupEvents :
                        inquiry.events[k].of \in Moved \/ ~Reportable(inquiry.events[k].of)}
           others == {k \in RollupEvents : ~Recorded(inquiry.events[k].of)}
           rehearsed == {k \in Counting(Sent(Happened)) :
                            inquiry.events[k].test /\ inquiry.events[k].of \in Ours}
<1>1. /\ Total(VisitBreakdown, "visits") = VisitSummary.visits
      /\ Total(VisitBreakdown, "conversions") = VisitSummary.conversions
  BY VisitBreakdownAddsUp
<1>2. {VisitSummary.visits} = {RowAlone.visits, Seen.visits,
                               Total(VisitBreakdown, "visits")}
  BY <1>1, VisitsOnScreens
<1>3. ASSUME ~inquiry.excludeBots
      PROVE  /\ {VisitSummary.visits} = {Chart.visits, Total(Breakdown, "visits"), Funnel.visits}
             /\ CampaignStats.stats.visits = VisitSummary.visits
             /\ Total(Breakdown, "conversions") = VisitSummary.conversions + Cardinality(rehearsed)
  <2>1. /\ Total(Breakdown, "visits") = Cardinality(Ours)
        /\ Total(Breakdown, "conversions") = VisitSummary.conversions + Cardinality(rehearsed)
    BY <1>3, RealBreakdownAddsUp
  <2> QED BY <1>3, <2>1, VisitsOnScreens
<1>4. /\ Rollup.conversions = TheRow.conversions + Cardinality(Counting(missed))
      /\ Rollup.conversions = Seen.conversions + Cardinality(Counting(others))
      /\ VisitSummary.conversions <= RowAlone.conversions
      /\ RowAlone.conversions <= Seen.conversions
      /\ ~inquiry.excludeBots =>
           /\ Chart.conversions = Seen.conversions
           /\ inquiry.configured => Funnel.events = Seen.conversions
           /\ CampaignStats.conversions = Seen.conversions
  BY ConversionsOnScreens
<1>5. /\ Seen.visits <= Overview(TRUE).visits
      /\ Rollup.visits = TheRow.visits + Cardinality(Moved)
      /\ Rollup.visits = VisitSummary.visits + Cardinality(Taken)
  BY VisitsOnScreens
<1> HIDE DEF missed, others, rehearsed
<1>6. BotsInSpend.bots <= BotsInSpend.visits /\ BotsInSpend.visits = Chart.visits BY BotsOnScreens
<1>7. LET stats == VisitStats(Shown) IN
      /\ stats.visits = VisitSummary.visits /\ stats.newVisitors <= stats.uniqueVisits
      /\ stats.newVisitors + stats.returning = stats.visits
  BY StatsOnScreens
<1> QED BY <1>1, <1>2, <1>3, <1>4, <1>5, <1>6, <1>7 DEF ScreensAgree, missed, others, rehearsed, TheRow, RowAlone, Seen


-----------------------------------------------------------------------------
(* The reports about one type of event.                                    *)

AskedOf(mode, visits) == {k \in AskedAbout(mode) : inquiry.events[k].of \in visits}
Converted(mode, visits) == {inquiry.events[k].of : k \in AskedOf(mode, visits)}
KeyOfEvents(key) == [k \in Happened |-> key[inquiry.events[k].of]]

LEMMA PerformanceIs ==
    ASSUME NEW mode, NEW visits
    PROVE  /\ Performance(mode, visits).visits = Cardinality(visits)
           /\ Performance(mode, visits).events = Cardinality(AskedOf(mode, visits))
           /\ Performance(mode, visits).revenue = Revenue(AskedOf(mode, visits))
           /\ Performance(mode, visits).converting = Cardinality(Converted(mode, visits))
           /\ Performance(mode, visits).share = inquiry.spend * Cardinality(visits)
BY DEF Performance, AskedOf, Converted, Share

LEMMA AskedEvents ==
    ASSUME Ledger, NEW mode
    PROVE  /\ AskedAbout(mode) \in SUBSET Happened /\ AskedAbout(mode) \in SUBSET OfShown
           /\ AskedOf(mode, Shown) = AskedAbout(mode)
           /\ IsFiniteSet(AskedAbout(mode))
           /\ \A visits : AskedOf(mode, visits) \in SUBSET Happened
           /\ \A visits : Converted(mode, visits) \in SUBSET visits
<1>1. AskedAbout(mode) \subseteq OfShown BY DEF AskedAbout
<1>2. AskedAbout(mode) \subseteq Happened BY <1>1, Selections
<1>3. \A visits : AskedOf(mode, visits) \subseteq AskedAbout(mode)
                  /\ Converted(mode, visits) \subseteq visits
  BY DEF AskedOf, Converted
<1>4. AskedOf(mode, Shown) = AskedAbout(mode) BY <1>1, Selections DEF AskedOf
<1>5. IsFiniteSet(AskedAbout(mode)) BY <1>2, ReportsAssumption, FS_Subset
<1> QED BY <1>1, <1>2, <1>3, <1>4, <1>5

\* Grouped by whatever the visits have.
KeyedRows(rows, key, mode) ==
    /\ DOMAIN rows = {key[i] : i \in Shown}
    /\ \A g \in DOMAIN rows : rows[g] = Performance(mode, Group(Shown, key, g))

LEMMA RowsAddUp ==
    ASSUME Ledger, NEW mode, NEW key, NEW rows, KeyedRows(rows, key, mode)
    PROVE  AddsUp(rows, Benchmarks(mode))
<1> DEFINE K == DOMAIN rows
           Part(g) == Group(Shown, key, g)
           whole == Performance(mode, Shown)
           events == AskedAbout(mode)
           ekey == KeyOfEvents(key)
<1>1. IsFiniteSet(K) /\ Keyed(Shown, key, K)
  <2>1. K = {key[i] : i \in Shown} BY DEF KeyedRows
  <2>2. IsFiniteSet({key[i] : i \in Shown}) BY Selections, ImageIsSmaller
  <2> QED BY <2>1, <2>2 DEF Keyed
<1>2. \A g \in K : /\ rows[g].visits = Cardinality(Part(g))
                   /\ rows[g].events = Cardinality(AskedOf(mode, Part(g)))
                   /\ rows[g].revenue = Revenue(AskedOf(mode, Part(g)))
                   /\ rows[g].converting = Cardinality(Converted(mode, Part(g)))
                   /\ rows[g].share = inquiry.spend * Cardinality(Part(g))
  <2>1. \A g \in K : rows[g] = Performance(mode, Part(g)) BY DEF KeyedRows
  <2> HIDE DEF Part
  <2> QED BY <2>1, PerformanceIs
<1>3. events \in SUBSET Happened /\ IsFiniteSet(events) /\ Keyed(events, ekey, K)
  <2>1. events \in SUBSET Happened /\ IsFiniteSet(events) /\ events \in SUBSET OfShown BY AskedEvents
  <2>2. \A k \in events : ekey[k] \in K BY <1>1, <2>1, Selections DEF Keyed, KeyOfEvents
  <2> QED BY <1>1, <2>1, <2>2 DEF Keyed
<1>4. \A g : AskedOf(mode, Part(g)) = Group(events, ekey, g)
  BY <1>3, AskedEvents, Selections DEF AskedOf, Group, KeyOfEvents
<1>5. AskedOf(mode, Shown) = events BY AskedEvents
<1>6. Total(rows, "visits") = whole.visits
  <2>1. \A g \in K : rows[g]["visits"] = Cardinality(Part(g)) BY <1>2
  <2>2. Total(rows, "visits") = Cardinality(Shown) BY <1>1, <2>1, Selections, RowsCount
  <2> QED BY <2>2, PerformanceIs
<1>7. Total(rows, "events") = whole.events
  <2>1. \A g \in K : rows[g]["events"] = Cardinality(Group(events, ekey, g)) BY <1>2, <1>4
  <2>2. Total(rows, "events") = Cardinality(events)
    <3> HIDE DEF events, ekey
    <3> QED BY <1>3, <2>1, RowsCount
  <2> QED BY <1>5, <2>2, PerformanceIs
<1>8. Total(rows, "revenue") = whole.revenue
  <2>1. \A g \in K : rows[g]["revenue"] = Sum(Earned, Group(events, ekey, g))
    <3>1. \A g : Group(events, ekey, g) \in SUBSET Happened BY <1>3 DEF Group
    <3> HIDE DEF events, ekey, Part
    <3> QED BY <1>2, <1>4, <3>1, MoneyIsSummed
  <2>2. Summed(Earned, events) /\ Revenue(events) = Sum(Earned, events) BY <1>3, MoneyIsSummed
  <2>3. Total(rows, "revenue") = Sum(Earned, events)
    <3> HIDE DEF events, ekey
    <3> QED BY <1>3, <2>1, <2>2, RowsSum
  <2> QED BY <1>5, <2>2, <2>3, PerformanceIs
<1>9. Total(rows, "converting") = whole.converting
  <2> DEFINE S == Converted(mode, Shown)
  <2>1. S \in SUBSET Shown BY AskedEvents
  <2>2. IsFiniteSet(S) /\ Keyed(S, key, K) BY <1>1, <2>1, Selections, FS_Subset DEF Keyed
  <2>3. \A g : Converted(mode, Part(g)) = Group(S, key, g) BY DEF Converted, Group, AskedOf
  <2>4. \A g \in K : rows[g]["converting"] = Cardinality(Group(S, key, g)) BY <1>2, <2>3
  <2>5. Total(rows, "converting") = Cardinality(S)
    <3> HIDE DEF S
    <3> QED BY <2>2, <2>4, RowsCount
  <2> QED BY <2>5, PerformanceIs
<1>10. Total(rows, "share") = whole.share
  <2> DEFINE n == inquiry.spend
             counts == [g \in K |-> Cardinality(Part(g))]
             all == [g \in K |-> rows[g]["share"]]
  <2>1. Total(rows, "share") = Sum(all, K) BY SumOfFunction DEF Total
  <2>2. all = [g \in K |-> n * counts[g]] BY <1>2
  <2>3. Sum(counts, K) = Cardinality(Shown) BY <1>1, Selections, GroupsCount
  <2>4. Summed(counts, K)
    <3>1. \A g : IsFiniteSet(Part(g))
      <4>1. \A g : Part(g) \subseteq Shown BY DEF Group
      <4> QED BY <4>1, Selections, FS_Subset
    <3> HIDE DEF Part
    <3> QED BY <1>1, <3>1, FS_CardinalityType DEF Summed
  <2>5. n \in Nat BY DEF Ledger
  <2>6. Sum(all, K) = n * Sum(counts, K)
    <3> DEFINE scaled == [g \in K |-> n * counts[g]]
    <3>1. Sum(scaled, K) = n * Sum(counts, K)
      <4> HIDE DEF counts, n
      <4> QED BY <2>4, <2>5, SumScales
    <3> HIDE DEF all
    <3> QED BY <2>2, <3>1
  <2> QED BY <2>1, <2>3, <2>6, PerformanceIs
<1>11. ASSUME NEW g \in K PROVE rows[g].converting <= rows[g].visits
  <2>1. Converted(mode, Part(g)) \in SUBSET Part(g) BY AskedEvents
  <2>2. IsFiniteSet(Part(g))
    <3>1. Part(g) \subseteq Shown BY DEF Group
    <3> QED BY <3>1, Selections, FS_Subset
  <2>3. Cardinality(Converted(mode, Part(g))) <= Cardinality(Part(g))
    <3> HIDE DEF Part
    <3> QED BY <2>1, <2>2, Smaller
  <2> QED BY <1>2, <2>3
<1>12. whole = Benchmarks(mode) BY DEF Benchmarks
<1> HIDE DEF whole
<1> QED BY <1>6, <1>7, <1>8, <1>9, <1>10, <1>11, <1>12 DEF AddsUp

\* What the reports about one type of event have to do with the others.
PerformanceFits(mode) ==
    LET whole == Benchmarks(mode) IN
    /\ whole.visits = VisitSummary.visits /\ whole.revenue <= RowAlone.revenue
    /\ AddsUp(ByImage(mode), whole) /\ AddsUp(ByHeadline(mode), whole)
    /\ AddsUp(ByPair(mode), whole) /\ AddsUp(Profitability(mode), whole)
    /\ AddsUp(Placements(mode), whole)

LEMMA PerformanceIsThat == (\A mode : PerformanceFits(mode)) => PerformanceAddsUp
BY ZenonT(60) DEF PerformanceFits, PerformanceAddsUp, RowAlone

LEMMA PerformanceDo == Ledger => PerformanceAddsUp
<1> SUFFICES ASSUME Ledger, NEW mode PROVE PerformanceFits(mode) BY PerformanceIsThat
<1>1. Benchmarks(mode).visits = VisitSummary.visits BY PerformanceIs, VisitsOnScreens DEF Benchmarks
<1>2. Benchmarks(mode).revenue <= RowAlone.revenue
  <2>1. Benchmarks(mode).revenue = Revenue(AskedAbout(mode)) BY PerformanceIs, AskedEvents DEF Benchmarks
  <2>2. RowAlone.revenue = Revenue(OfShown)
    <3>1. InRow(FALSE) = Shown BY DEF InRow, Attributed, Shown
    <3>2. OfRow(FALSE) = OfShown BY <3>1 DEF OfRow, OfShown, RealEvents, Shown
    <3> QED BY <3>2 DEF RowAlone, TableRow
  <2>3. /\ Revenue(AskedAbout(mode)) = Sum(Earned, AskedAbout(mode))
        /\ Revenue(OfShown) = Sum(Earned, OfShown) /\ Summed(Earned, OfShown)
    BY AskedEvents, Selections, MoneyIsSummed
  <2>4. Sum(Earned, AskedAbout(mode)) <= Sum(Earned, OfShown) BY <2>3, AskedEvents, SumGrows
  <2> QED BY <2>1, <2>2, <2>3, <2>4
<1>3. Shown \subseteq Visits BY Selections
<1>4. AddsUp(ByImage(mode), Benchmarks(mode))
  <2> DEFINE key == [i \in Visits |-> ImageOf(i)]
  <2>1. \A g : By(ImageOf, g, Shown) = Group(Shown, key, g) BY <1>3 DEF By, Group
  <2>2. {ImageOf(i) : i \in Shown} = {key[i] : i \in Shown} BY <1>3
  <2>3. KeyedRows(ByImage(mode), key, mode) BY <2>1, <2>2 DEF KeyedRows, ByImage, Rows
  <2> HIDE DEF key
  <2> QED BY <2>3, RowsAddUp
<1>5. AddsUp(ByHeadline(mode), Benchmarks(mode))
  <2> DEFINE key == [i \in Visits |-> HeadlineOf(i)]
  <2>1. \A g : By(HeadlineOf, g, Shown) = Group(Shown, key, g) BY <1>3 DEF By, Group
  <2>2. {HeadlineOf(i) : i \in Shown} = {key[i] : i \in Shown} BY <1>3
  <2>3. KeyedRows(ByHeadline(mode), key, mode) BY <2>1, <2>2 DEF KeyedRows, ByHeadline, Rows
  <2> HIDE DEF key
  <2> QED BY <2>3, RowsAddUp
<1>6. AddsUp(ByPair(mode), Benchmarks(mode))
  <2> DEFINE key == [i \in Visits |-> PairOf(i)]
  <2>1. \A g : By(PairOf, g, Shown) = Group(Shown, key, g) BY <1>3 DEF By, Group
  <2>2. {PairOf(i) : i \in Shown} = {key[i] : i \in Shown} BY <1>3
  <2>3. KeyedRows(ByPair(mode), key, mode) BY <2>1, <2>2 DEF KeyedRows, ByPair, Rows
  <2> HIDE DEF key
  <2> QED BY <2>3, RowsAddUp
<1>7. AddsUp(Profitability(mode), Benchmarks(mode))
  <2> DEFINE key == [i \in Visits |-> HourOf(i)]
  <2>1. \A g : By(HourOf, g, Shown) = Group(Shown, key, g) BY <1>3 DEF By, Group
  <2>2. {HourOf(i) : i \in Shown} = {key[i] : i \in Shown} BY <1>3
  <2>3. KeyedRows(Profitability(mode), key, mode) BY <2>1, <2>2 DEF KeyedRows, Profitability, Rows
  <2> HIDE DEF key
  <2> QED BY <2>3, RowsAddUp
<1>8. AddsUp(Placements(mode), Benchmarks(mode))
  <2> DEFINE key == [i \in Visits |-> BreakdownKey(i)]
  <2>1. \A g : By(BreakdownKey, g, Shown) = Group(Shown, key, g) BY <1>3 DEF By, Group
  <2>2. {BreakdownKey(i) : i \in Shown} = {key[i] : i \in Shown} BY <1>3
  <2>3. KeyedRows(Placements(mode), key, mode) BY <2>1, <2>2 DEF KeyedRows, Placements, Rows
  <2> HIDE DEF key
  <2> QED BY <2>3, RowsAddUp
<1> QED BY <1>1, <1>2, <1>4, <1>5, <1>6, <1>7, <1>8 DEF PerformanceFits

-----------------------------------------------------------------------------
(* The funnel of the questions of a page.                                  *)

Quiz ==
    /\ {"kind", "guests"} \subseteq DOMAIN inquiry
    /\ inquiry.guests \in [Guests -> [bot: BOOLEAN, rehearsed: BOOLEAN, renumbered: BOOLEAN,
                                      reached: SUBSET Questions]]

FunnelRows == {row \in StepRows : AtStep(row) # {}}
RowsBefore(row) == {other \in FunnelRows : ComesBefore(other, row)}
RowBefore(row) ==
    CHOOSE other \in RowsBefore(row) : \A third \in RowsBefore(row) \ {other} : ComesBefore(third, other)
ReachedBefore(row) ==
    IF RowsBefore(row) = {} THEN Arrivals ELSE Cardinality(AtStep(RowBefore(row)))
LeftHere(row) ==
    IF ReachedBefore(row) > Cardinality(AtStep(row))
    THEN ReachedBefore(row) - Cardinality(AtStep(row)) ELSE 0

LEMMA FunnelIs ==
    /\ DOMAIN StepFunnel = FunnelRows
    /\ \A row \in FunnelRows : /\ StepFunnel[row].visits = Cardinality(AtStep(row))
                               /\ StepFunnel[row].leftHere = LeftHere(row)
<1>1. StepFunnel = [row \in FunnelRows |->
                      [visits |-> Cardinality(AtStep(row)), previousReached |-> ReachedBefore(row),
                       leftHere |-> LeftHere(row)]]
  BY DEF StepFunnel, FunnelRows, RowsBefore, RowBefore, ReachedBefore, LeftHere
<1> HIDE DEF FunnelRows, StepFunnel
<1> QED BY <1>1

RowOf(g, q) == <<NumberOf(g, q), q>>

LEMMA RowsOfFunnel ==
    ASSUME Quiz
    PROVE  /\ \A row \in FunnelRows : /\ row[1] \in Nat /\ row[2] \in Questions
                                      /\ row = <<row[1], row[2]>>
                                      /\ AtStep(row) \in SUBSET Reached(row[2]) /\ AtStep(row) # {}
           /\ \A q \in Questions : \A g \in Reached(q) :
                g \in Guests /\ RowOf(g, q) \in FunnelRows /\ g \in AtStep(RowOf(g, q))
           /\ \A q : Reached(q) \in SUBSET Guests /\ IsFiniteSet(Reached(q))
<1>1. \A g \in Guests, q \in Questions : NumberOf(g, q) \in Nat
  BY ReportsAssumption DEF Quiz, NumberOf, Questions
<1>2. ASSUME NEW row \in FunnelRows
      PROVE  /\ row[1] \in Nat /\ row[2] \in Questions /\ row = <<row[1], row[2]>>
             /\ AtStep(row) \in SUBSET Reached(row[2]) /\ AtStep(row) # {}
  <2>1. AtStep(row) \in SUBSET Reached(row[2]) /\ AtStep(row) # {} BY DEF FunnelRows, AtStep
  <2>2. PICK g \in Guests, q \in Questions : row = <<NumberOf(g, q), q>>
    BY DEF FunnelRows, StepRows
  <2> QED BY <1>1, <2>1, <2>2
<1>3. ASSUME NEW q \in Questions, NEW g \in Reached(q)
      PROVE  g \in Guests /\ RowOf(g, q) \in FunnelRows /\ g \in AtStep(RowOf(g, q))
  <2>1. g \in Guests BY DEF Reached
  <2>2. RowOf(g, q) \in StepRows BY <2>1 DEF RowOf, StepRows
  <2>3. g \in AtStep(RowOf(g, q)) BY DEF AtStep, RowOf
  <2> QED BY <2>1, <2>2, <2>3 DEF FunnelRows
<1>4. \A q : Reached(q) \in SUBSET Guests /\ IsFiniteSet(Reached(q))
  <2>1. \A q : Reached(q) \subseteq Guests BY DEF Reached
  <2> QED BY <2>1, ReportsAssumption, FS_Subset
<1> QED BY <1>2, <1>3, <1>4

LEMMA RowsOfKey ==
    ASSUME Quiz, NEW q \in Questions
    PROVE  SumFunctionOnSet([row \in FunnelRows |-> StepFunnel[row].visits], {row \in FunnelRows : row[2] = q})
             = Cardinality(Reached(q))
<1> DEFINE visits == [row \in FunnelRows |-> StepFunnel[row].visits]
           K == {row \in FunnelRows : row[2] = q}
           S == Reached(q)
           key == [g \in S |-> RowOf(g, q)]
           counts == [row \in K |-> Cardinality(Group(S, key, row))]
<1>1. \A g \in S : key[g] \in K BY RowsOfFunnel DEF RowOf
<1>2. ASSUME NEW row \in K PROVE Group(S, key, row) = AtStep(row)
  <2>1. row = <<row[1], q>> BY RowsOfFunnel
  <2>2. \A g \in S : key[g] = row <=> NumberOf(g, q) = row[1] BY <2>1 DEF RowOf
  <2> QED BY <2>2 DEF Group, AtStep
<1>3. IsFiniteSet(K)
  <2>1. \A row \in K : \E g \in S : key[g] = row
    <3> TAKE row \in K
    <3>1. PICK g \in AtStep(row) : TRUE BY RowsOfFunnel
    <3> QED BY <1>2, <3>1 DEF Group
  <2>2. K \subseteq {key[g] : g \in S} BY <2>1
  <2>3. IsFiniteSet(S) BY RowsOfFunnel
  <2>4. IsFiniteSet({key[g] : g \in S})
    <3> HIDE DEF key, S
    <3> QED BY <2>3, ImageIsSmaller
  <2> QED BY <2>2, <2>4, FS_Subset
<1>4. IsFiniteSet(S) /\ Keyed(S, key, K) BY <1>1, <1>3, RowsOfFunnel DEF Keyed
<1>5. Sum(counts, K) = Cardinality(S)
  <2> HIDE DEF S, key, K
  <2> QED BY <1>4, GroupsCount
<1>6. \A row \in K : visits[row] = counts[row] BY <1>2, FunnelIs
<1>7. Sum(visits, K) = Sum(counts, K)
  <2> HIDE DEF visits, counts, K
  <2> QED BY <1>3, <1>6, SumReads
<1> QED BY <1>5, <1>7 DEF Sum

LEMMA RowsAreArrivals ==
    ASSUME Quiz, NEW row \in FunnelRows
    PROVE  StepFunnel[row].visits
             <= Arrivals + Cardinality({g \in Reached(row[2]) : inquiry.guests[g].bot})
<1> DEFINE people == {g \in Guests : ~inquiry.guests[g].bot}
           bots == {g \in Reached(row[2]) : inquiry.guests[g].bot}
<1>1. IsFiniteSet(people) /\ people \subseteq Guests BY ReportsAssumption, FS_Subset
<1>2. IsFiniteSet(bots) /\ bots \subseteq Guests
  <2>1. bots \subseteq Guests BY RowsOfFunnel
  <2> QED BY <2>1, ReportsAssumption, FS_Subset
<1>3. people \cap bots = {} OBVIOUS
<1>4. AtStep(row) \in SUBSET (people \cup bots) BY RowsOfFunnel
<1>5. IsFiniteSet(people \cup bots) /\ Cardinality(people \cup bots) = Cardinality(people) + Cardinality(bots)
  <2> HIDE DEF people, bots
  <2> QED BY <1>1, <1>2, <1>3, Disjoint
<1>6. Cardinality(AtStep(row)) <= Cardinality(people \cup bots)
  <2> HIDE DEF people, bots
  <2> QED BY <1>4, <1>5, Smaller
<1>7. StepFunnel[row].visits = Cardinality(AtStep(row)) /\ Arrivals = Cardinality(people)
  BY FunnelIs DEF Arrivals
<1> QED BY <1>5, <1>6, <1>7


\* The visits are people who take the questions in order.
InOrder ==
    \A g \in Guests :
        /\ \E n \in 0 .. Steps : inquiry.guests[g].reached = 1 .. n
        /\ inquiry.guests[g].reached # {} =>
             /\ ~inquiry.guests[g].bot /\ ~inquiry.guests[g].rehearsed
             /\ ~inquiry.guests[g].renumbered

LEMMA RowsInOrder ==
    ASSUME Quiz, InOrder, NEW row \in FunnelRows
    PROVE  LET q == row[2] IN
           /\ row = <<q, q>> /\ AtStep(row) = Reached(q)
           /\ Reached(q) \subseteq {g \in Guests : ~inquiry.guests[g].bot}
           /\ \A p \in 1 .. q : /\ Reached(q) \subseteq Reached(p)
                                /\ <<p, p>> \in FunnelRows /\ AtStep(<<p, p>>) = Reached(p)
<1> DEFINE q == row[2]
<1>1. row[1] \in Nat /\ q \in Questions /\ row = <<row[1], q>> /\ AtStep(row) # {}
      /\ AtStep(row) \in SUBSET Reached(q)
  BY RowsOfFunnel
<1>2. ASSUME NEW p \in Questions, NEW g \in Reached(p)
      PROVE  /\ NumberOf(g, p) = p /\ ~inquiry.guests[g].bot /\ g \in Guests
             /\ \A o \in 1 .. p : g \in Reached(o)
  <2>1. g \in Guests /\ p \in inquiry.guests[g].reached BY DEF Reached
  <2>2. /\ ~inquiry.guests[g].bot /\ ~inquiry.guests[g].rehearsed /\ ~inquiry.guests[g].renumbered
    BY <2>1 DEF InOrder
  <2>3. PICK n \in 0 .. Steps : inquiry.guests[g].reached = 1 .. n BY <2>1 DEF InOrder
  <2>4. \A o \in 1 .. p : o \in inquiry.guests[g].reached
    BY <2>1, <2>3, ReportsAssumption DEF Questions
  <2> QED BY <2>1, <2>2, <2>4 DEF NumberOf, Reached
<1>3. row[1] = q
  <2>1. PICK g \in AtStep(row) : TRUE BY <1>1
  <2>2. g \in Reached(q) /\ NumberOf(g, q) = row[1] BY DEF AtStep
  <2> QED BY <1>1, <1>2, <2>2
<1>4. ASSUME NEW p \in Questions PROVE AtStep(<<p, p>>) = Reached(p)
  BY <1>2 DEF AtStep
<1>5. ASSUME NEW p \in 1 .. q
      PROVE  Reached(q) \subseteq Reached(p) /\ <<p, p>> \in FunnelRows /\ p \in Questions
  <2>1. p \in Questions BY <1>1, ReportsAssumption DEF Questions
  <2>2. Reached(q) \subseteq Reached(p) BY <1>1, <1>2
  <2>3. PICK g \in Reached(p) : TRUE BY <1>1, <2>2
  <2>4. RowOf(g, p) \in FunnelRows BY <2>1, RowsOfFunnel
  <2>5. RowOf(g, p) = <<p, p>> BY <1>2, <2>1 DEF RowOf
  <2> QED BY <2>1, <2>2, <2>4, <2>5
<1>6. row = <<q, q>> BY <1>1, <1>3
<1>7. AtStep(row) = Reached(q) BY <1>1, <1>4, <1>6
<1>8. Reached(q) \subseteq {g \in Guests : ~inquiry.guests[g].bot} BY <1>1, <1>2
<1> QED BY <1>4, <1>5, <1>6, <1>7, <1>8

LEMMA RowBeforeInOrder ==
    ASSUME Quiz, InOrder, NEW row \in FunnelRows
    PROVE  LET q == row[2] IN
           /\ q = 1 => RowsBefore(row) = {}
           /\ q # 1 => RowsBefore(row) # {} /\ RowBefore(row) = <<q - 1, q - 1>>
<1> DEFINE q == row[2]
           before == <<q - 1, q - 1>>
<1>1. q \in Nat /\ q >= 1 /\ row = <<q, q>>
  BY RowsOfFunnel, RowsInOrder, ReportsAssumption DEF Questions
<1>2. \A other \in RowsBefore(row) :
        other[2] \in 1 .. q - 1 /\ other = <<other[2], other[2]>> /\ other \in FunnelRows
  <2> TAKE other \in RowsBefore(row)
  <2>1. other \in FunnelRows /\ ComesBefore(other, row) BY DEF RowsBefore
  <2>2. other[2] \in Nat /\ other[2] >= 1 /\ other = <<other[2], other[2]>>
    BY <2>1, RowsOfFunnel, RowsInOrder, ReportsAssumption DEF Questions
  <2>3. other[1] = other[2] /\ row[1] = q BY <1>1, <2>2
  <2>4. other[2] < q BY <2>1, <2>3, <2>2, <1>1 DEF ComesBefore
  <2> QED BY <1>1, <2>1, <2>2, <2>4
<1>3. ASSUME q = 1 PROVE RowsBefore(row) = {} BY <1>2, <1>3
<1>4. ASSUME q # 1 PROVE RowsBefore(row) # {} /\ RowBefore(row) = before
  <2>1. q - 1 \in 1 .. q BY <1>1, <1>4
  <2>2. before \in FunnelRows BY <2>1, RowsInOrder
  <2>3. before \in RowsBefore(row) BY <1>1, <2>1, <2>2 DEF RowsBefore, ComesBefore
  <2>4. \A third \in RowsBefore(row) \ {before} : ComesBefore(third, before)
    <3> TAKE third \in RowsBefore(row) \ {before}
    <3>1. third[2] \in 1 .. q - 1 /\ third = <<third[2], third[2]>> BY <1>2
    <3>2. third[2] # q - 1 BY <3>1
    <3>3. third[1] = third[2] BY <3>1
    <3> QED BY <1>1, <3>1, <3>2, <3>3 DEF ComesBefore
  <2>5. \A other \in RowsBefore(row) :
          (\A third \in RowsBefore(row) \ {other} : ComesBefore(third, other)) => other = before
    <3> SUFFICES ASSUME NEW other \in RowsBefore(row), other # before, ComesBefore(before, other)
                 PROVE  FALSE
      BY <2>3
    <3>1. other[2] \in 1 .. q - 1 /\ other = <<other[2], other[2]>> BY <1>2
    <3>2. other[1] = other[2] BY <3>1
    <3> QED BY <1>1, <3>1, <3>2 DEF ComesBefore
  <2> HIDE DEF before
  <2> QED BY <2>3, <2>4, <2>5 DEF RowBefore
<1> QED BY <1>3, <1>4

LEMMA LeftInOrder ==
    ASSUME Quiz, InOrder, NEW row \in FunnelRows
    PROVE  LeftHere(row) = IF row[2] = 1 THEN Arrivals - Cardinality(Reached(1))
                           ELSE Cardinality(Reached(row[2] - 1) \ Reached(row[2]))
<1> DEFINE q == row[2]
<1>1. q \in Nat /\ q >= 1 BY RowsOfFunnel, ReportsAssumption DEF Questions
<1>2. AtStep(row) = Reached(q) BY RowsInOrder
<1>3. CASE q = 1
  <2> DEFINE people == {g \in Guests : ~inquiry.guests[g].bot}
  <2>1. ReachedBefore(row) = Arrivals BY <1>3, RowBeforeInOrder DEF ReachedBefore
  <2>2. Reached(1) \in SUBSET people BY <1>3, RowsInOrder
  <2>3. Arrivals = Cardinality(people) BY DEF Arrivals
  <2>4. IsFiniteSet(people) BY ReportsAssumption, FS_Subset
  <2>5. Cardinality(Reached(1)) <= Arrivals /\ Cardinality(Reached(1)) \in Nat /\ Arrivals \in Nat
    <3> HIDE DEF people
    <3> QED BY <2>2, <2>3, <2>4, Smaller
  <2> QED BY <1>2, <1>3, <2>1, <2>5 DEF LeftHere
<1>4. CASE q # 1
  <2> DEFINE R == Reached(q)
             P == Reached(q - 1)
  <2>1. q - 1 \in 1 .. q BY <1>1, <1>4
  <2>2. AtStep(<<q - 1, q - 1>>) = P /\ R \subseteq P BY <2>1, RowsInOrder
  <2>3. ReachedBefore(row) = Cardinality(P) BY <1>4, <2>2, RowBeforeInOrder DEF ReachedBefore
  <2>4. IsFiniteSet(P) /\ IsFiniteSet(R) BY RowsOfFunnel
  <2>5. Cardinality(P) = Cardinality(R) + Cardinality(P \ R)
        /\ Cardinality(R) \in Nat /\ Cardinality(P \ R) \in Nat
    <3> DEFINE D == P \ R
    <3>1. IsFiniteSet(D) /\ R \cap D = {} /\ P = R \cup D BY <2>2, <2>4, FS_Subset
    <3>2. Cardinality(P) = Cardinality(R) + Cardinality(D)
          /\ Cardinality(R) \in Nat /\ Cardinality(D) \in Nat
      <4> HIDE DEF P, R, D
      <4> QED BY <2>4, <3>1, Disjoint
    <3> QED BY <3>2
  <2>6. LeftHere(row) = Cardinality(P \ R)
    <3> HIDE DEF P, R
    <3>1. Cardinality(AtStep(row)) = Cardinality(R) BY <1>2 DEF R
    <3> QED BY <2>3, <2>5, <3>1 DEF LeftHere
  <2> QED BY <1>4, <2>6
<1> QED BY <1>3, <1>4

LEMMA StepsDo == Quiz => StepsCountVisits
<1> SUFFICES ASSUME Quiz PROVE StepsCountVisits OBVIOUS
<1> DEFINE rows == DOMAIN StepFunnel
           visits == [row \in rows |-> StepFunnel[row].visits]
<1>1. rows = FunnelRows BY FunnelIs
<1>2. \A q \in Questions :
        SumFunctionOnSet(visits, {row \in rows : row[2] = q}) = Cardinality(Reached(q))
  <2> TAKE q \in Questions
  <2>1. SumFunctionOnSet([row \in FunnelRows |-> StepFunnel[row].visits], {row \in FunnelRows : row[2] = q})
          = Cardinality(Reached(q))
    BY RowsOfKey
  <2> QED BY <1>1, <2>1
<1>3. \A row \in rows :
        visits[row] <= Arrivals + Cardinality({g \in Reached(row[2]) : inquiry.guests[g].bot})
  BY <1>1, RowsAreArrivals
<1>4. InOrder => \A row \in rows : StepFunnel[row].leftHere =
                IF row[2] = 1 THEN Arrivals - Cardinality(Reached(1))
                ELSE Cardinality(Reached(row[2] - 1) \ Reached(row[2]))
  BY <1>1, FunnelIs, LeftInOrder
<1> QED BY <1>2, <1>3, <1>4 DEF StepsCountVisits, InOrder


-----------------------------------------------------------------------------
(* The outcomes of leads.                                                  *)

Answered ==
    /\ {"kind", "leads", "spend"} \subseteq DOMAIN inquiry
    /\ \A i \in Leads : /\ Of(i).ad \in MeteredAds /\ Of(i).within \in BOOLEAN /\ Of(i).test \in BOOLEAN
                        /\ Of(i).currency \in Currencies
    /\ inquiry.spend \in SpendTables

AdOf == [i \in Leads |-> Of(i).ad]
OfAds == ClicksOf(MeteredAds)
HavingLead(S) == {i \in S : Has(i, "lead")}
KeptOf(S) == {i \in S : Kept(i)}
ReturnedOf(S) == {i \in S : Has(i, "returned")}
RefusedOf(S) == {i \in S : Refused(i)}
UndecidedOf(S) == {i \in S : Undecided(i)}
PendingOf(S) == {i \in S : Has(i, "lead") /\ Undecided(i)}
TwiceOf(S) == {i \in S : Has(i, "rejected") /\ Has(i, "returned") /\ ~Has(i, "sold")}
MetOf(S) == {i \in S : Has(i, "lead") \/ ~Undecided(i)}
BidsOf(S) == IF Cardinality(BidCurrencies(S)) > 1 THEN -1 ELSE BidsSum(S)
SpendingAds == {d \in DOMAIN inquiry.spend : SpentOn(d) > 0}

LEMMA FactsAre ==
    ASSUME NEW ad
    PROVE  LET clicks == ClicksOf({ad})
               f == FactsForAd(ad)
           IN  /\ f.leads = Cardinality(HavingLead(clicks)) /\ f.sold = Cardinality(KeptOf(clicks))
               /\ f.returned = Cardinality(ReturnedOf(clicks))
               /\ f.rejected = Cardinality(RefusedOf(clicks))
               /\ f.pending = Cardinality(PendingOf(clicks)) /\ f.bids = BidsOf(clicks)
               /\ f.currency = CurrencyOf({ad}) /\ f.spend = SpentOn(ad)
               /\ f.adsetSpend = IF ad \in DOMAIN inquiry.spend THEN SpentOnAll ELSE 0
               /\ f.activeAds = IF ad \in DOMAIN inquiry.spend THEN Cardinality(SpendingAds) ELSE 0
<1> DEFINE clicks == ClicksOf({ad})
<1>1. FactsForAd(ad) =
        [clicks |-> Cardinality(clicks), leads |-> Cardinality(HavingLead(clicks)),
         sold |-> Cardinality(KeptOf(clicks)), returned |-> Cardinality(ReturnedOf(clicks)),
         rejected |-> Cardinality(RefusedOf(clicks)), pending |-> Cardinality(PendingOf(clicks)),
         bids |-> BidsOf(clicks), currency |-> CurrencyOf({ad}), spend |-> SpentOn(ad),
         adsetSpend |-> IF ad \in DOMAIN inquiry.spend THEN SpentOnAll ELSE 0,
         activeAds |-> IF ad \in DOMAIN inquiry.spend THEN Cardinality(SpendingAds) ELSE 0]
  BY DEF FactsForAd, How, HavingLead, KeptOf, ReturnedOf, RefusedOf, PendingOf, BidsOf, SpendingAds
<1> HIDE DEF clicks
<1> QED BY <1>1 DEF clicks

LEMMA ValueIs ==
    /\ RealizedValue.settled = Cardinality(Cohort)
    /\ RealizedValue.kept = Cardinality(KeptOf(Cohort))
    /\ RealizedValue.returned = Cardinality(ReturnedOf(Cohort))
    /\ RealizedValue.rejected = Cardinality(RefusedOf(Cohort))
    /\ RealizedValue.noOutcome = Cardinality(UndecidedOf(Cohort))
    /\ RealizedValue.bids = BidsOf(Cohort)
BY DEF RealizedValue, How, KeptOf, ReturnedOf, RefusedOf, UndecidedOf, BidsOf

LEMMA LeadsAreFinite ==
    ASSUME NEW S \in SUBSET Leads
    PROVE  IsFiniteSet(S) /\ Cardinality(S) \in Nat
<1>1. IsFiniteSet(Leads) BY TwoAreFinite DEF Leads
<1> QED BY <1>1, FS_Subset, FS_CardinalityType

\* Every lead that was met is in one of four parts; two of them overlap.
LEMMA FourParts ==
    ASSUME NEW S \in SUBSET Leads
    PROVE  /\ Cardinality(KeptOf(S)) + Cardinality(ReturnedOf(S)) + Cardinality(RefusedOf(S))
                + Cardinality(PendingOf(S))
                  = Cardinality(MetOf(S)) + Cardinality(TwiceOf(S))
<1> DEFINE K == KeptOf(S)
           R == ReturnedOf(S)
           F == RefusedOf(S)
           P == PendingOf(S)
           RF == R \cup F
<1>1. IsFiniteSet(K) /\ IsFiniteSet(R) /\ IsFiniteSet(F) /\ IsFiniteSet(P)
      /\ Cardinality(TwiceOf(S)) \in Nat
  <2>1. K \subseteq Leads /\ R \subseteq Leads /\ F \subseteq Leads /\ P \subseteq Leads
        /\ TwiceOf(S) \subseteq Leads
    BY DEF KeptOf, ReturnedOf, RefusedOf, PendingOf, TwiceOf
  <2> QED BY <2>1, LeadsAreFinite
<1>2. R \cap F = TwiceOf(S) BY DEF ReturnedOf, RefusedOf, TwiceOf, Refused
<1>3. K \cap RF = {} BY DEF KeptOf, ReturnedOf, RefusedOf, Refused, Kept
<1>4. P \cap (K \cup RF) = {}
  BY DEF KeptOf, ReturnedOf, RefusedOf, PendingOf, Refused, Kept, Undecided, Outcomes
<1>5. MetOf(S) = P \cup (K \cup RF)
  BY DEF KeptOf, ReturnedOf, RefusedOf, PendingOf, MetOf, Refused, Kept, Undecided, Outcomes
<1> HIDE DEF K, R, F, P
<1>6. IsFiniteSet(RF) /\ Cardinality(RF) = Cardinality(R) + Cardinality(F) - Cardinality(R \cap F)
  BY <1>1, FS_Union
<1>7. IsFiniteSet(K \cup RF) /\ Cardinality(K \cup RF) = Cardinality(K) + Cardinality(RF)
  <2> HIDE DEF RF
  <2> QED BY <1>1, <1>3, <1>6, Disjoint
<1>8. Cardinality(P \cup (K \cup RF)) = Cardinality(P) + Cardinality(K \cup RF)
  <2> DEFINE KRF == K \cup RF
  <2>1. IsFiniteSet(KRF) /\ P \cap KRF = {} BY <1>4, <1>7
  <2> HIDE DEF KRF
  <2>2. Cardinality(P \cup KRF) = Cardinality(P) + Cardinality(KRF) BY <1>1, <2>1, Disjoint
  <2> QED BY <2>2 DEF KRF
<1>9. Cardinality(K) \in Nat /\ Cardinality(R) \in Nat /\ Cardinality(F) \in Nat
      /\ Cardinality(P) \in Nat
  BY <1>1, FS_CardinalityType
<1>10. Cardinality(K) + Cardinality(R) + Cardinality(F) + Cardinality(P)
         = Cardinality(MetOf(S)) + Cardinality(TwiceOf(S))
  <2>1. Cardinality(MetOf(S)) = Cardinality(P) + Cardinality(K \cup RF) BY <1>5, <1>8
  <2>2. Cardinality(RF) = Cardinality(R) + Cardinality(F) - Cardinality(TwiceOf(S)) BY <1>2, <1>6
  <2>3. Cardinality(K \cup RF) = Cardinality(K) + Cardinality(RF) BY <1>7
  <2>4. Cardinality(TwiceOf(S)) \in Nat BY <1>1
  <2> HIDE DEF RF
  <2> QED BY <1>9, <2>1, <2>2, <2>3, <2>4
<1> QED BY <1>10 DEF K, R, F, P

LEMMA SpendIsSummed ==
    ASSUME Answered
    PROVE  /\ Summed(inquiry.spend, DOMAIN inquiry.spend)
           /\ SpentOnAll = Sum(inquiry.spend, DOMAIN inquiry.spend) /\ SpentOnAll \in Nat
           /\ DOMAIN inquiry.spend = {} \/ MeteredAds \subseteq DOMAIN inquiry.spend
           /\ \A ad : SpentOn(ad) \in Nat
<1> DEFINE spend == inquiry.spend
<1>1. \/ DOMAIN spend = {}
      \/ DOMAIN spend = MeteredAds \cup {"c"} /\ \A ad \in DOMAIN spend : spend[ad] \in Nat
  <2>1. CASE spend = <<>> BY <2>1
  <2>2. CASE spend = [ad \in MeteredAds \cup {"c"} |-> IF ad = "c" THEN 0 ELSE 5] BY <2>2
  <2> QED BY <2>1, <2>2 DEF Answered, SpendTables
<1>2. IsFiniteSet(DOMAIN spend)
  <2>1. IsFiniteSet(MeteredAds) /\ IsFiniteSet({"c"}) BY TwoAreFinite, FS_Singleton DEF MeteredAds
  <2>2. IsFiniteSet(MeteredAds \cup {"c"}) BY <2>1, FS_Union
  <2> QED BY <1>1, <2>2, FS_EmptySet
<1>3. Summed(spend, DOMAIN spend) BY <1>1, <1>2 DEF Summed
<1>4. SpentOnAll = Sum(spend, DOMAIN spend) BY SumOfFunction DEF SpentOnAll
<1>5. SpentOnAll \in Nat BY <1>3, <1>4, SumIsNat
<1>6. \A ad : SpentOn(ad) \in Nat BY <1>1 DEF SpentOn
<1> QED BY <1>1, <1>3, <1>4, <1>5, <1>6

LEMMA SharesOfSpend ==
    ASSUME Answered, NEW ad \in MeteredAds
    PROVE  LET f == FactsForAd(ad) IN f.spend <= f.adsetSpend /\ (f.spend > 0 => f.activeAds > 0)
<1>1. /\ FactsForAd(ad).spend = SpentOn(ad)
      /\ FactsForAd(ad).adsetSpend = IF ad \in DOMAIN inquiry.spend THEN SpentOnAll ELSE 0
      /\ FactsForAd(ad).activeAds = IF ad \in DOMAIN inquiry.spend THEN Cardinality(SpendingAds) ELSE 0
  BY FactsAre
<1>2. CASE ad \notin DOMAIN inquiry.spend BY <1>1, <1>2 DEF SpentOn
<1>3. CASE ad \in DOMAIN inquiry.spend
  <2> DEFINE spend == inquiry.spend
             all == DOMAIN spend
  <2>1. Summed(spend, all) /\ SpentOnAll = Sum(spend, all) BY SpendIsSummed
  <2>2. Sum(spend, all) = spend[ad] + Sum(spend, all \ {ad}) /\ Summed(spend, all \ {ad})
    BY <1>3, <2>1, SumTakes, SummedParts
  <2>3. Sum(spend, all \ {ad}) \in Nat /\ spend[ad] \in Nat BY <1>3, <2>1, <2>2, SumIsNat DEF Summed
  <2>4. SpentOn(ad) = spend[ad] BY <1>3 DEF SpentOn
  <2>5. SpentOn(ad) <= SpentOnAll BY <2>1, <2>2, <2>3, <2>4
  <2>6. ASSUME SpentOn(ad) > 0 PROVE Cardinality(SpendingAds) > 0
    <3>1. ad \in SpendingAds BY <1>3, <2>6 DEF SpendingAds
    <3>2. IsFiniteSet(SpendingAds)
      <4>1. SpendingAds \subseteq all BY DEF SpendingAds
      <4> QED BY <2>1, <4>1, FS_Subset DEF Summed
    <3>3. Cardinality(SpendingAds) \in Nat /\ Cardinality(SpendingAds) # 0
      BY <3>1, <3>2, FS_CardinalityType, FS_EmptySet
    <3> QED BY <3>3
  <2> QED BY <1>1, <1>3, <2>5, <2>6
<1> QED BY <1>2, <1>3

Facts == [ad \in MeteredAds |-> FactsForAd(ad)]

LEMMA SpendOfAds == Answered => Total(Facts, "spend") <= SpentOnAll
<1> SUFFICES ASSUME Answered PROVE Total(Facts, "spend") <= SpentOnAll OBVIOUS
<1> DEFINE all == [ad \in MeteredAds |-> SpentOn(ad)]
<1>1. Total(Facts, "spend") = Sum(all, MeteredAds)
  <2>1. DOMAIN Facts = MeteredAds BY DEF Facts
  <2>2. \A ad \in MeteredAds : Facts[ad]["spend"] = SpentOn(ad) BY FactsAre DEF Facts
  <2>3. [ad \in DOMAIN Facts |-> Facts[ad]["spend"]] = all BY <2>1, <2>2
  <2> QED BY <2>3, SumOfFunction DEF Total
<1>2. IsFiniteSet(MeteredAds) BY TwoAreFinite DEF MeteredAds
<1>3. CASE DOMAIN inquiry.spend = {}
  <2>1. \A ad \in MeteredAds : all[ad] = 0 BY <1>3 DEF SpentOn
  <2>2. Sum(all, MeteredAds) = 0
    <3> HIDE DEF all
    <3> QED BY <1>2, <2>1, SumOfZeros
  <2> QED BY <1>1, <2>2, SpendIsSummed
<1>4. CASE MeteredAds \subseteq DOMAIN inquiry.spend
  <2> DEFINE spend == inquiry.spend
  <2>1. \A ad \in MeteredAds : all[ad] = spend[ad] BY <1>4 DEF SpentOn
  <2>2. Sum(all, MeteredAds) = Sum(spend, MeteredAds)
    <3> HIDE DEF all
    <3> QED BY <1>2, <2>1, SumReads
  <2>3. Sum(spend, MeteredAds) <= Sum(spend, DOMAIN spend) BY <1>4, SpendIsSummed, SumGrows
  <2> QED BY <1>1, <2>2, <2>3, SpendIsSummed
<1> QED BY <1>3, <1>4, SpendIsSummed


BidOf == [i \in Leads |-> i]

LEMMA BidsAreSummed ==
    ASSUME NEW S \in SUBSET Leads
    PROVE  /\ Summed(BidOf, KeptOf(S)) /\ BidsSum(S) = Sum(BidOf, KeptOf(S))
           /\ BidsSum(S) \in Nat /\ (KeptOf(S) = {} => BidsSum(S) = 0)
           /\ IsFiniteSet(BidCurrencies(S))
<1> DEFINE K == KeptOf(S)
           f == [i \in K |-> i]
<1>1. K \subseteq Leads /\ IsFiniteSet(K)
  <2>1. K \subseteq Leads BY DEF KeptOf
  <2> QED BY <2>1, LeadsAreFinite
<1>2. Summed(BidOf, K) BY <1>1 DEF Summed, BidOf, Leads
<1>3. BidsSum(S) = Sum(f, K) BY SumOfFunction DEF BidsSum, KeptOf
<1>4. Sum(f, K) = Sum(BidOf, K)
  <2>1. \A i \in K : f[i] = BidOf[i] BY <1>1 DEF BidOf
  <2> HIDE DEF f, K
  <2> QED BY <1>1, <2>1, SumReads
<1>5. Sum(BidOf, K) \in Nat BY <1>2, SumIsNat
<1>6. K = {} => Sum(BidOf, K) = 0 BY SumOfNone, Zenon
<1>7. IsFiniteSet(BidCurrencies(S))
  <2> DEFINE c == [i \in K |-> Of(i).currency]
  <2>1. BidCurrencies(S) = {c[i] : i \in K} BY DEF BidCurrencies, KeptOf
  <2> HIDE DEF c, K
  <2> QED BY <1>1, <2>1, ImageIsSmaller
<1> HIDE DEF f
<1> QED BY <1>2, <1>3, <1>4, <1>5, <1>6, <1>7

LEMMA BidsHaveACurrency ==
    ASSUME NEW ad
    PROVE  FactsForAd(ad).bids > 0 => FactsForAd(ad).currency \in BidCurrencies(ClicksOf({ad}))
<1> DEFINE S == ClicksOf({ad})
           C == BidCurrencies(S)
<1>1. S \in SUBSET Leads BY DEF ClicksOf
<1>2. FactsForAd(ad).bids = BidsOf(S) /\ FactsForAd(ad).currency = CurrencyOf({ad}) BY FactsAre
<1> SUFFICES ASSUME BidsOf(S) > 0 PROVE CurrencyOf({ad}) \in C BY <1>2
<1>3. BidsSum(S) \in Nat /\ IsFiniteSet(C) /\ (KeptOf(S) = {} => BidsSum(S) = 0)
  BY <1>1, BidsAreSummed
<1>4. ~(Cardinality(C) > 1) /\ BidsSum(S) > 0 BY <1>3 DEF BidsOf
<1>5. C # {}
  <2>1. PICK i \in KeptOf(S) : TRUE BY <1>3, <1>4
  <2>2. Of(i).currency \in C BY <2>1 DEF KeptOf, BidCurrencies
  <2> QED BY <2>2
<1>6. Cardinality(C) \in Nat /\ (Cardinality(C) = 0 => C = {})
  BY <1>3, FS_CardinalityType, FS_EmptySet
<1>7. Cardinality(C) = 1 BY <1>4, <1>5, <1>6
<1>8. CurrencyOf({ad}) = TheOne(C) BY <1>5 DEF CurrencyOf
<1>9. TheOne(C) \in C
  <2> HIDE DEF C
  <2> QED BY <1>5, <1>7 DEF TheOne
<1> QED BY <1>8, <1>9

LEMMA AdsAreKeys ==
    ASSUME Answered
    PROVE  /\ DOMAIN Facts = MeteredAds /\ IsFiniteSet(MeteredAds)
           /\ OfAds \in SUBSET Leads
           /\ \A S \in SUBSET OfAds : IsFiniteSet(S) /\ Keyed(S, AdOf, MeteredAds)
           /\ \A ad \in MeteredAds : ClicksOf({ad}) = Group(OfAds, AdOf, ad)
<1>1. DOMAIN Facts = MeteredAds BY DEF Facts
<1>2. IsFiniteSet(MeteredAds) BY TwoAreFinite DEF MeteredAds
<1>3. OfAds \in SUBSET Leads BY DEF OfAds, ClicksOf
<1>4. \A S \in SUBSET OfAds : IsFiniteSet(S) BY <1>3, LeadsAreFinite
<1>5. \A i \in Leads : AdOf[i] \in MeteredAds BY DEF Answered, AdOf
<1>6. \A ad \in MeteredAds : ClicksOf({ad}) = Group(OfAds, AdOf, ad)
  BY DEF ClicksOf, Group, OfAds, AdOf
<1> QED BY <1>1, <1>2, <1>3, <1>4, <1>5, <1>6 DEF Keyed

\* The ads' facts are those of all their clicks.
LEMMA FactsAddUp ==
    ASSUME Answered
    PROVE  /\ Total(Facts, "leads") = Cardinality(HavingLead(OfAds))
           /\ Total(Facts, "sold") = Cardinality(KeptOf(OfAds))
           /\ Total(Facts, "returned") = Cardinality(ReturnedOf(OfAds))
           /\ Total(Facts, "rejected") = Cardinality(RefusedOf(OfAds))
           /\ Total(Facts, "pending") = Cardinality(PendingOf(OfAds))
<1>1. ASSUME NEW field, NEW S \in SUBSET OfAds,
             \A ad \in MeteredAds : Facts[ad][field] = Cardinality(Group(S, AdOf, ad))
      PROVE  Total(Facts, field) = Cardinality(S)
  <2>1. IsFiniteSet(S) /\ Keyed(S, AdOf, DOMAIN Facts) BY AdsAreKeys
  <2>2. \A ad \in DOMAIN Facts : Facts[ad][field] = Cardinality(Group(S, AdOf, ad))
    BY <1>1, AdsAreKeys
  <2> QED BY <2>1, <2>2, RowsCount
<1>2. Total(Facts, "leads") = Cardinality(HavingLead(OfAds))
  <2>1. \A ad \in MeteredAds : HavingLead(ClicksOf({ad})) = Group(HavingLead(OfAds), AdOf, ad)
    BY AdsAreKeys DEF HavingLead, Group
  <2>2. \A ad \in MeteredAds : Facts[ad]["leads"] = Cardinality(Group(HavingLead(OfAds), AdOf, ad))
    BY <2>1, FactsAre DEF Facts
  <2>3. HavingLead(OfAds) \in SUBSET OfAds BY DEF HavingLead
  <2> QED BY <1>1, <2>2, <2>3
<1>3. Total(Facts, "sold") = Cardinality(KeptOf(OfAds))
  <2>1. \A ad \in MeteredAds : KeptOf(ClicksOf({ad})) = Group(KeptOf(OfAds), AdOf, ad)
    BY AdsAreKeys DEF KeptOf, Group
  <2>2. \A ad \in MeteredAds : Facts[ad]["sold"] = Cardinality(Group(KeptOf(OfAds), AdOf, ad))
    BY <2>1, FactsAre DEF Facts
  <2>3. KeptOf(OfAds) \in SUBSET OfAds BY DEF KeptOf
  <2> QED BY <1>1, <2>2, <2>3
<1>4. Total(Facts, "returned") = Cardinality(ReturnedOf(OfAds))
  <2>1. \A ad \in MeteredAds : ReturnedOf(ClicksOf({ad})) = Group(ReturnedOf(OfAds), AdOf, ad)
    BY AdsAreKeys DEF ReturnedOf, Group
  <2>2. \A ad \in MeteredAds : Facts[ad]["returned"] = Cardinality(Group(ReturnedOf(OfAds), AdOf, ad))
    BY <2>1, FactsAre DEF Facts
  <2>3. ReturnedOf(OfAds) \in SUBSET OfAds BY DEF ReturnedOf
  <2> QED BY <1>1, <2>2, <2>3
<1>5. Total(Facts, "rejected") = Cardinality(RefusedOf(OfAds))
  <2>1. \A ad \in MeteredAds : RefusedOf(ClicksOf({ad})) = Group(RefusedOf(OfAds), AdOf, ad)
    BY AdsAreKeys DEF RefusedOf, Group
  <2>2. \A ad \in MeteredAds : Facts[ad]["rejected"] = Cardinality(Group(RefusedOf(OfAds), AdOf, ad))
    BY <2>1, FactsAre DEF Facts
  <2>3. RefusedOf(OfAds) \in SUBSET OfAds BY DEF RefusedOf
  <2> QED BY <1>1, <2>2, <2>3
<1>6. Total(Facts, "pending") = Cardinality(PendingOf(OfAds))
  <2>1. \A ad \in MeteredAds : PendingOf(ClicksOf({ad})) = Group(PendingOf(OfAds), AdOf, ad)
    BY AdsAreKeys DEF PendingOf, Group
  <2>2. \A ad \in MeteredAds : Facts[ad]["pending"] = Cardinality(Group(PendingOf(OfAds), AdOf, ad))
    BY <2>1, FactsAre DEF Facts
  <2>3. PendingOf(OfAds) \in SUBSET OfAds BY DEF PendingOf
  <2> QED BY <1>1, <2>2, <2>3
<1> QED BY <1>2, <1>3, <1>4, <1>5, <1>6

LEMMA BidsAddUp ==
    ASSUME Answered, BidsOf(OfAds) >= 0
    PROVE  Total(Facts, "bids") = BidsOf(OfAds)
<1>1. OfAds \in SUBSET Leads BY AdsAreKeys
<1>2. BidsOf(OfAds) = BidsSum(OfAds) /\ ~(Cardinality(BidCurrencies(OfAds)) > 1)
  BY <1>1, BidsAreSummed DEF BidsOf
<1> DEFINE S == KeptOf(OfAds)
<1>3. S \in SUBSET OfAds BY DEF KeptOf
<1>4. Summed(BidOf, S) /\ BidsSum(OfAds) = Sum(BidOf, S) BY <1>1, BidsAreSummed
<1>5. ASSUME NEW ad \in MeteredAds
      PROVE  Facts[ad]["bids"] = Sum(BidOf, Group(S, AdOf, ad))
  <2> DEFINE C == ClicksOf({ad})
  <2>1. C \in SUBSET OfAds BY AdsAreKeys DEF Group
  <2>2. KeptOf(C) = Group(S, AdOf, ad) BY AdsAreKeys DEF KeptOf, Group
  <2>3. BidsSum(C) = Sum(BidOf, Group(S, AdOf, ad)) BY <1>1, <2>1, <2>2, BidsAreSummed
  <2>4. BidCurrencies(C) \in SUBSET BidCurrencies(OfAds) BY <2>1 DEF BidCurrencies
  <2>5. Cardinality(BidCurrencies(C)) <= Cardinality(BidCurrencies(OfAds))
        /\ Cardinality(BidCurrencies(C)) \in Nat /\ Cardinality(BidCurrencies(OfAds)) \in Nat
    <3> HIDE DEF C
    <3> QED BY <1>1, <2>4, BidsAreSummed, Smaller
  <2>6. BidsOf(C) = BidsSum(C) BY <1>2, <2>5 DEF BidsOf
  <2>7. Facts[ad]["bids"] = BidsOf(C) BY FactsAre DEF Facts
  <2> QED BY <2>3, <2>6, <2>7
<1>6. Keyed(S, AdOf, DOMAIN Facts) /\ DOMAIN Facts = MeteredAds BY <1>3, AdsAreKeys
<1>7. Total(Facts, "bids") = Sum(BidOf, S)
  <2>1. \A ad \in DOMAIN Facts : Facts[ad]["bids"] = Sum(BidOf, Group(S, AdOf, ad)) BY <1>5, <1>6
  <2> HIDE DEF S
  <2> QED BY <1>4, <1>6, <2>1, RowsSum
<1> QED BY <1>2, <1>4, <1>7

LEMMA OutcomesDo == Answered => OutcomesAddUp
<1> SUFFICES ASSUME Answered PROVE OutcomesAddUp OBVIOUS
<1>1. ASSUME NEW ad \in MeteredAds
      PROVE  LET f == Facts[ad] IN
             /\ f.sold + f.returned + f.rejected + f.pending
                  = Cardinality(MetOf(ClicksOf({ad}))) + Cardinality(TwiceOf(ClicksOf({ad})))
             /\ f.spend <= f.adsetSpend /\ (f.spend > 0 => f.activeAds > 0)
             /\ f.bids > 0 => f.currency \in BidCurrencies(ClicksOf({ad}))
  <2> DEFINE clicks == ClicksOf({ad})
             f == FactsForAd(ad)
  <2>1. Facts[ad] = f BY DEF Facts
  <2>2. clicks \in SUBSET Leads BY DEF ClicksOf
  <2>3. f.sold + f.returned + f.rejected + f.pending
          = Cardinality(MetOf(clicks)) + Cardinality(TwiceOf(clicks))
    <3>1. f.sold = Cardinality(KeptOf(clicks)) /\ f.returned = Cardinality(ReturnedOf(clicks))
          /\ f.rejected = Cardinality(RefusedOf(clicks)) /\ f.pending = Cardinality(PendingOf(clicks))
      BY FactsAre
    <3> HIDE DEF clicks, f
    <3> QED BY <2>2, <3>1, FourParts
  <2>4. f.spend <= f.adsetSpend /\ (f.spend > 0 => f.activeAds > 0) BY SharesOfSpend
  <2>5. f.bids > 0 => f.currency \in BidCurrencies(clicks) BY BidsHaveACurrency
  <2> HIDE DEF f
  <2> QED BY <2>1, <2>3, <2>4, <2>5
<1>2. Total(Facts, "spend") <= SpentOnAll BY SpendOfAds
<1>3. Cohort \in SUBSET Leads /\ (\A i \in Cohort : Has(i, "lead")) BY DEF Cohort
<1>4. RealizedValue.kept + RealizedValue.returned + RealizedValue.rejected + RealizedValue.noOutcome
        = RealizedValue.settled + Cardinality(TwiceOf(Cohort))
  <2>1. MetOf(Cohort) = Cohort /\ PendingOf(Cohort) = UndecidedOf(Cohort)
    BY <1>3 DEF MetOf, PendingOf, UndecidedOf
  <2> QED BY <1>3, <2>1, FourParts, ValueIs
<1>5. ASSUME OfAds = Cohort
      PROVE  /\ Total(Facts, "leads") = RealizedValue.settled
             /\ Total(Facts, "sold") = RealizedValue.kept
             /\ Total(Facts, "returned") = RealizedValue.returned
             /\ Total(Facts, "rejected") = RealizedValue.rejected
             /\ Total(Facts, "pending") = RealizedValue.noOutcome
             /\ RealizedValue.bids >= 0 => Total(Facts, "bids") = RealizedValue.bids
  <2>1. HavingLead(OfAds) = Cohort /\ PendingOf(OfAds) = UndecidedOf(Cohort)
    BY <1>3, <1>5 DEF HavingLead, PendingOf, UndecidedOf
  <2>2. RealizedValue.bids = BidsOf(OfAds) BY <1>5, ValueIs
  <2>3. RealizedValue.bids >= 0 => Total(Facts, "bids") = RealizedValue.bids BY <2>2, BidsAddUp
  <2> QED BY <1>5, <2>1, <2>3, FactsAddUp, ValueIs
<1>6. \A S : /\ How(S, LAMBDA i : Has(i, "lead") \/ ~Undecided(i)) = Cardinality(MetOf(S))
             /\ How(S, LAMBDA i : Has(i, "rejected") /\ Has(i, "returned") /\ ~Has(i, "sold"))
                  = Cardinality(TwiceOf(S))
  BY DEF How, MetOf, TwiceOf
<1> HIDE DEF Facts
<1> QED BY <1>1, <1>2, <1>4, <1>5, <1>6 DEF OutcomesAddUp, Facts, OfAds


-----------------------------------------------------------------------------
(* The advice on the creatives.  What each row brought, and how rates      *)
(* compare that are kept as fractions.                                     *)

Contest ==
    /\ {"kind", "pairs", "known", "spend"} \subseteq DOMAIN inquiry
    /\ inquiry.pairs \in [Pairs -> Tallies]
    /\ inquiry.known \in {Images, {{"image"}}} /\ inquiry.spend = 20

LEMMA SumOfOne == ASSUME NEW f, NEW x, f[x] \in Nat PROVE Sum(f, {x}) = f[x]
<1>1. Summed(f, {x}) BY FS_Singleton DEF Summed
<1>2. Sum(f, {x}) = f[x] + Sum(f, {x} \ {x}) BY <1>1, SumTakes
<1>3. {x} \ {x} = {} OBVIOUS
<1>4. Sum(f, {x} \ {x}) = 0 BY <1>3, SumOfNone, Zenon
<1> QED BY <1>2, <1>4

LEMMA SumOfTwo ==
    ASSUME NEW f, NEW x, NEW y, x # y, f[x] \in Nat, f[y] \in Nat
    PROVE  Sum(f, {x, y}) = f[x] + f[y]
<1>1. Summed(f, {x, y}) BY TwoAreFinite DEF Summed
<1>2. Sum(f, {x, y}) = f[x] + Sum(f, {x, y} \ {x}) BY <1>1, SumTakes
<1>3. {x, y} \ {x} = {y} OBVIOUS
<1>4. Sum(f, {x, y} \ {x}) = f[y] BY <1>3, SumOfOne, Zenon
<1> QED BY <1>2, <1>4

Brought(pair, field) == inquiry.pairs[pair][field]
Counted == {"visits", "converting", "bots"}

LEMMA Combined ==
    ASSUME NEW S, NEW field \in Counted
    PROVE  Together(S)[field] = Sum([pair \in S |-> Brought(pair, field)], S)
<1> DEFINE all(f) == SumFunction([pair \in S |-> inquiry.pairs[pair][f]])
<1>1. Together(S) = [visits |-> all("visits"), converting |-> all("converting"), bots |-> all("bots")]
  BY DEF Together
<1>2. Together(S)[field] = all(field)
  <2> HIDE DEF all
  <2> QED BY <1>1 DEF Counted
<1>3. all(field) = Sum([pair \in S |-> Brought(pair, field)], S) BY SumOfFunction DEF Brought
<1> QED BY <1>2, <1>3

LEMMA PairsAre ==
    /\ \A image \in Images, headline \in Headlines : image \cup headline \in Pairs
    /\ \A pair \in Pairs : \E image \in Images, headline \in Headlines : pair = image \cup headline
    /\ \A image \in Images : {pair \in Pairs : image \subseteq pair}
                               = {image \cup {"headline"}, image \cup {"another"}}
    /\ \A headline \in Headlines : {pair \in Pairs : headline \subseteq pair}
                                     = {{"image"} \cup headline, {"other"} \cup headline}
    /\ \A pair \in Pairs : {other \in Pairs : pair \subseteq other} = {pair}
    /\ {pair \in Pairs : {} \subseteq pair} = Pairs
    /\ \A image \in Images : image \cup {"headline"} # image \cup {"another"}
    /\ \A headline \in Headlines : {"image"} \cup headline # {"other"} \cup headline
<1>1. /\ \A image \in Images, headline \in Headlines : image \cup headline \in Pairs
      /\ \A pair \in Pairs : \E image \in Images, headline \in Headlines : pair = image \cup headline
  BY DEF Pairs
<1>2. Pairs = {{"image", "headline"}, {"image", "another"}, {"other", "headline"}, {"other", "another"}}
  BY DEF Pairs, Images, Headlines
<1>3. "image" # "other" /\ "headline" # "another" /\ "image" # "headline" /\ "image" # "another"
      /\ "other" # "headline" /\ "other" # "another"
  BY Zenon
<1>4. \A image \in Images : {pair \in Pairs : image \subseteq pair}
                               = {image \cup {"headline"}, image \cup {"another"}}
  <2>1. {pair \in Pairs : {"image"} \subseteq pair} = {{"image", "headline"}, {"image", "another"}}
    BY <1>2, <1>3
  <2>2. {pair \in Pairs : {"other"} \subseteq pair} = {{"other", "headline"}, {"other", "another"}}
    BY <1>2, <1>3
  <2> QED BY <2>1, <2>2 DEF Images
<1>5. \A headline \in Headlines : {pair \in Pairs : headline \subseteq pair}
                                     = {{"image"} \cup headline, {"other"} \cup headline}
  <2>1. {pair \in Pairs : {"headline"} \subseteq pair} = {{"image", "headline"}, {"other", "headline"}}
    BY <1>2, <1>3
  <2>2. {pair \in Pairs : {"another"} \subseteq pair} = {{"image", "another"}, {"other", "another"}}
    BY <1>2, <1>3
  <2> QED BY <2>1, <2>2 DEF Headlines
<1>6. \A pair \in Pairs : {other \in Pairs : pair \subseteq other} = {pair} BY <1>2, <1>3
<1>7. {pair \in Pairs : {} \subseteq pair} = Pairs OBVIOUS
<1>8. /\ \A image \in Images : image \cup {"headline"} # image \cup {"another"}
      /\ \A headline \in Headlines : {"image"} \cup headline # {"other"} \cup headline
  BY <1>3 DEF Images, Headlines
<1> QED BY <1>1, <1>4, <1>5, <1>6, <1>7, <1>8


LEMMA BroughtIsNat ==
    ASSUME Contest, NEW pair \in Pairs
    PROVE  /\ \A field \in Counted : Brought(pair, field) \in Nat
           /\ Brought(pair, "converting") <= Brought(pair, "visits")
<1> DEFINE tally == inquiry.pairs[pair]
<1>1. tally \in Tallies BY DEF Contest
<1>2. tally \in [visits: Nat, converting: Nat, bots: Nat] /\ tally.converting <= tally.visits
  <2> HIDE DEF tally
  <2> QED BY <1>1, ReportsAssumption
<1>3. tally["visits"] \in Nat /\ tally["converting"] \in Nat /\ tally["bots"] \in Nat
  <2> HIDE DEF tally
  <2> QED BY <1>2
<1> QED BY <1>2, <1>3 DEF Brought, Counted

LEMMA RowFigures ==
    ASSUME Contest, NEW field \in Counted
    PROVE  /\ \A pair \in Pairs : Row(pair)[field] = Brought(pair, field)
           /\ \A image \in Images : Row(image)[field] =
                Brought(image \cup {"headline"}, field) + Brought(image \cup {"another"}, field)
           /\ \A headline \in Headlines : Row(headline)[field] =
                Brought({"image"} \cup headline, field) + Brought({"other"} \cup headline, field)
           /\ Everything[field] = Row({"image"})[field] + Row({"other"})[field]
           /\ Everything[field] = Row({"headline"})[field] + Row({"another"})[field]
<1> DEFINE all == [pair \in Pairs |-> Brought(pair, field)]
           under(key) == {pair \in Pairs : key \subseteq pair}
<1>1. \A pair \in Pairs : all[pair] \in Nat BY BroughtIsNat
<1>2. IsFiniteSet(Pairs)
  <2>1. {{"image"} \cup {"headline"}, {"image"} \cup {"another"}, {"other"} \cup {"headline"}, {"other"} \cup {"another"}}
          = {{"image"} \cup {"headline"}, {"image"} \cup {"another"}} \cup {{"other"} \cup {"headline"}, {"other"} \cup {"another"}}
    OBVIOUS
  <2>2. Pairs = {{"image"} \cup {"headline"}, {"image"} \cup {"another"}} \cup {{"other"} \cup {"headline"}, {"other"} \cup {"another"}}
    BY DEF Pairs, Images, Headlines
  <2> QED BY <2>2, TwoAreFinite, FS_Union
<1>3. Summed(all, Pairs) BY <1>1, <1>2 DEF Summed
<1>4. ASSUME NEW key PROVE Row(key)[field] = Sum(all, under(key))
  <2> DEFINE U == under(key)
             part == [pair \in U |-> Brought(pair, field)]
  <2>1. Row(key) = Together(U) BY DEF Row
  <2>2. Row(key)[field] = Sum(part, U)
    <3> HIDE DEF U
    <3> QED BY <2>1, Combined
  <2>3. Sum(part, U) = Sum(all, U)
    <3>1. IsFiniteSet(U)
      <4>1. U \subseteq Pairs OBVIOUS
      <4> QED BY <1>2, <4>1, FS_Subset
    <3>2. \A pair \in U : part[pair] = all[pair] OBVIOUS
    <3> HIDE DEF all, part, U
    <3> QED BY <3>1, <3>2, SumReads
  <2> QED BY <2>2, <2>3
<1>5. ASSUME NEW image \in Images
      PROVE  Row(image)[field] =
                Brought(image \cup {"headline"}, field) + Brought(image \cup {"another"}, field)
  <2> DEFINE x == image \cup {"headline"}
             y == image \cup {"another"}
  <2>1. under(image) = {x, y} /\ x # y BY PairsAre
  <2>2. x \in Pairs /\ y \in Pairs BY PairsAre DEF Headlines
  <2>3. Sum(all, {x, y}) = all[x] + all[y]
    <3>1. all[x] \in Nat /\ all[y] \in Nat BY <1>1, <2>2
    <3>2. x # y BY <2>1
    <3> HIDE DEF all, x, y
    <3> QED BY <3>1, <3>2, SumOfTwo
  <2>4. Sum(all, under(image)) = Sum(all, {x, y}) BY <2>1
  <2>5. all[x] = Brought(x, field) /\ all[y] = Brought(y, field) BY <2>2
  <2>6. Row(image)[field] = Sum(all, under(image)) BY <1>4
  <2> HIDE DEF all, under
  <2> QED BY <2>3, <2>4, <2>5, <2>6
<1>6. ASSUME NEW headline \in Headlines
      PROVE  Row(headline)[field] =
                Brought({"image"} \cup headline, field) + Brought({"other"} \cup headline, field)
  <2> DEFINE x == {"image"} \cup headline
             y == {"other"} \cup headline
  <2>1. under(headline) = {x, y} /\ x # y BY PairsAre
  <2>2. x \in Pairs /\ y \in Pairs BY PairsAre DEF Images
  <2>3. Sum(all, {x, y}) = all[x] + all[y]
    <3>1. all[x] \in Nat /\ all[y] \in Nat BY <1>1, <2>2
    <3>2. x # y BY <2>1
    <3> HIDE DEF all, x, y
    <3> QED BY <3>1, <3>2, SumOfTwo
  <2>4. Sum(all, under(headline)) = Sum(all, {x, y}) BY <2>1
  <2>5. all[x] = Brought(x, field) /\ all[y] = Brought(y, field) BY <2>2
  <2>6. Row(headline)[field] = Sum(all, under(headline)) BY <1>4
  <2> HIDE DEF all, under
  <2> QED BY <2>3, <2>4, <2>5, <2>6
<1>7. ASSUME NEW pair \in Pairs PROVE Row(pair)[field] = Brought(pair, field)
  <2>1. under(pair) = {pair} BY PairsAre
  <2>2. Sum(all, {pair}) = all[pair]
    <3>1. all[pair] \in Nat BY <1>1
    <3> HIDE DEF all
    <3> QED BY <3>1, SumOfOne
  <2>3. Row(pair)[field] = Sum(all, under(pair)) BY <1>4
  <2>4. Sum(all, under(pair)) = Sum(all, {pair}) BY <2>1
  <2>5. all[pair] = Brought(pair, field) OBVIOUS
  <2> HIDE DEF all, under
  <2> QED BY <2>2, <2>3, <2>4, <2>5
<1>8. Everything[field] = Sum(all, Pairs)
  <2>1. under({}) = Pairs BY PairsAre
  <2>2. Everything = Row({}) BY DEF Everything
  <2>3. Row({})[field] = Sum(all, under({})) BY <1>4
  <2> HIDE DEF all, under
  <2> QED BY <2>1, <2>2, <2>3
<1>9. ASSUME NEW a, NEW b, under(b) = Pairs \ under(a)
      PROVE  Everything[field] = Row(a)[field] + Row(b)[field]
  <2>1. Row(a)[field] = Sum(all, under(a)) /\ Row(b)[field] = Sum(all, under(b)) BY <1>4
  <2>2. under(a) \in SUBSET Pairs OBVIOUS
  <2>3. Sum(all, Pairs) = Sum(all, under(a)) + Sum(all, Pairs \ under(a))
    <3> HIDE DEF all, under
    <3> QED BY <1>3, <2>2, SumSplits
  <2>4. Sum(all, under(b)) = Sum(all, Pairs \ under(a)) BY <1>9
  <2> HIDE DEF all, under
  <2> QED BY <1>8, <2>1, <2>3, <2>4
<1>10. "image" # "other" /\ "headline" # "another" /\ "image" # "headline" /\ "image" # "another"
      /\ "other" # "headline" /\ "other" # "another"
  BY Zenon
<1>11. under({"other"}) = Pairs \ under({"image"}) BY <1>10 DEF Pairs, Images, Headlines
<1>12. under({"another"}) = Pairs \ under({"headline"}) BY <1>10 DEF Pairs, Images, Headlines
<1> HIDE DEF all, under
<1> QED BY <1>5, <1>6, <1>7, <1>9, <1>11, <1>12

Keys == Images \cup Headlines \cup Pairs

\* What each row is made of, as numbers.
LEMMA RowNumbers ==
    ASSUME Contest
    PROVE  /\ \A key \in Keys : /\ Row(key).visits \in Nat /\ Row(key).converting \in Nat
                                /\ Row(key).bots \in Nat
                                /\ Row(key).converting <= Row(key).visits
           /\ Everything.visits \in Nat /\ Everything.converting \in Nat
           /\ Everything.visits = Row({"image"}).visits + Row({"other"}).visits
           /\ Everything.converting = Row({"image"}).converting + Row({"other"}).converting
           /\ \A image \in Images : \E a, b \in Pairs :
                /\ Row(image).visits = Row(a).visits + Row(b).visits
                /\ Row(image).converting = Row(a).converting + Row(b).converting
<1>1. {"visits", "converting", "bots"} \subseteq Counted BY DEF Counted
<1>2. ASSUME NEW pair \in Pairs
      PROVE  /\ Row(pair).visits \in Nat /\ Row(pair).converting \in Nat /\ Row(pair).bots \in Nat
             /\ Row(pair).converting <= Row(pair).visits
  BY <1>1, RowFigures, BroughtIsNat
<1>3. ASSUME NEW image \in Images
      PROVE  \E a, b \in Pairs : \A field \in Counted :
                Row(image)[field] = Row(a)[field] + Row(b)[field]
  <2>1. image \cup {"headline"} \in Pairs /\ image \cup {"another"} \in Pairs
    BY PairsAre DEF Headlines
  <2>2. \A field \in Counted : Row(image)[field]
           = Row(image \cup {"headline"})[field] + Row(image \cup {"another"})[field]
    BY <2>1, RowFigures
  <2> QED BY <2>1, <2>2
<1>4. ASSUME NEW headline \in Headlines
      PROVE  \E a, b \in Pairs : \A field \in Counted :
                Row(headline)[field] = Row(a)[field] + Row(b)[field]
  <2>1. {"image"} \cup headline \in Pairs /\ {"other"} \cup headline \in Pairs
    BY PairsAre DEF Images
  <2>2. \A field \in Counted : Row(headline)[field]
           = Row({"image"} \cup headline)[field] + Row({"other"} \cup headline)[field]
    BY <2>1, RowFigures
  <2> QED BY <2>1, <2>2
<1>5. ASSUME NEW key \in Images \cup Headlines
      PROVE  /\ Row(key).visits \in Nat /\ Row(key).converting \in Nat /\ Row(key).bots \in Nat
             /\ Row(key).converting <= Row(key).visits
  <2>1. PICK a \in Pairs, b \in Pairs : \A field \in Counted :
                Row(key)[field] = Row(a)[field] + Row(b)[field]
    BY <1>3, <1>4
  <2>2. /\ Row(key).visits = Row(a).visits + Row(b).visits
        /\ Row(key).converting = Row(a).converting + Row(b).converting
        /\ Row(key).bots = Row(a).bots + Row(b).bots
    BY <1>1, <2>1
  <2> QED BY <1>2, <2>2
<1>6. /\ Everything.visits = Row({"image"}).visits + Row({"other"}).visits
      /\ Everything.converting = Row({"image"}).converting + Row({"other"}).converting
  BY <1>1, RowFigures
<1>7. {"image"} \in Images /\ {"other"} \in Images BY DEF Images
<1>8. ASSUME NEW image \in Images
      PROVE  \E a, b \in Pairs :
                /\ Row(image).visits = Row(a).visits + Row(b).visits
                /\ Row(image).converting = Row(a).converting + Row(b).converting
  <2>1. PICK a \in Pairs, b \in Pairs : \A field \in Counted :
                Row(image)[field] = Row(a)[field] + Row(b)[field]
    BY <1>3
  <2> QED BY <1>1, <2>1
<1> QED BY <1>2, <1>5, <1>6, <1>7, <1>8 DEF Keys


Measured(row) == row.visits \in Nat /\ row.converting \in Nat /\ row.converting <= row.visits
Hits(row) == row.converting * Everything.visits
Par(row) == Everything.converting * row.visits

LEMMA TimesIsNat == \A a, b \in Nat : a * b \in Nat
OBVIOUS

LEMMA TimesGrows == ASSUME NEW a \in Nat, NEW b \in Nat, NEW n \in Nat, a <= b PROVE a * n <= b * n
<1>1. PICK d \in Nat : b = a + d
  <2>1. b - a \in Nat /\ b = a + (b - a) OBVIOUS
  <2> QED BY <2>1
<1>2. (a + d) * n = a * n + d * n OBVIOUS
<1>3. a * n \in Nat /\ d * n \in Nat BY TimesIsNat
<1> QED BY <1>1, <1>2, <1>3

LEMMA TimesGrowsMore ==
    ASSUME NEW a \in Nat, NEW b \in Nat, NEW n \in Nat, a < b, n > 0 PROVE a * n < b * n
<1>1. (a + 1) * n <= b * n BY TimesGrows
<1>2. (a + 1) * n = a * n + n OBVIOUS
<1>3. a * n \in Nat /\ b * n \in Nat BY TimesIsNat
<1> QED BY <1>1, <1>2, <1>3

LEMMA TimesTimes == \A a, b, c \in Nat : (a * b) * c = a * (b * c) /\ a * b = b * a
                                         /\ (a * b) * c = (a * c) * b
OBVIOUS

LEMMA Rates ==
    ASSUME NEW row, Measured(row), Everything.visits \in Nat, Everything.converting \in Nat
    PROVE  /\ Hits(row) \in Nat /\ Par(row) \in Nat
           /\ \A percent \in Nat : /\ Reaches(row, percent) <=> 100 * Hits(row) >= percent * Par(row)
                                   /\ Exceeds(row, percent) <=> 100 * Hits(row) > percent * Par(row)
<1> DEFINE c == row.converting
           v == row.visits
           C == Everything.converting
           V == Everything.visits
<1>1. c \in Nat /\ v \in Nat /\ C \in Nat /\ V \in Nat BY DEF Measured
<1>2. 100 * c * V = 100 * (c * V)
  <2> HIDE DEF c, v, C, V
  <2> QED BY <1>1, TimesTimes
<1>3. \A percent \in Nat : percent * C * v = percent * (C * v)
  <2> HIDE DEF c, v, C, V
  <2> QED BY <1>1, TimesTimes
<1>4. c * V \in Nat /\ C * v \in Nat
  <2> HIDE DEF c, v, C, V
  <2> QED BY <1>1, TimesIsNat
<1> QED BY <1>2, <1>3, <1>4 DEF Reaches, Exceeds, Hits, Par

\* If b is no better than a, neither is its share of the hits.
LEMMA RatesCompare ==
    ASSUME NEW a, NEW b, Measured(a), Measured(b), Everything.visits \in Nat, Everything.converting \in Nat,
           ~Better(b, a)
    PROVE  Hits(b) * a.visits <= Hits(a) * b.visits /\ Par(b) * a.visits = Par(a) * b.visits
<1> DEFINE ca == a.converting
           va == a.visits
           cb == b.converting
           vb == b.visits
           C == Everything.converting
           V == Everything.visits
<1>1. ca \in Nat /\ va \in Nat /\ cb \in Nat /\ vb \in Nat /\ C \in Nat /\ V \in Nat BY DEF Measured
<1>2. ~(cb * va > ca * vb) BY DEF Better
<1>3. (cb * V) * va <= (ca * V) * vb
  <2> HIDE DEF ca, va, cb, vb, C, V
  <2>1. cb * va \in Nat /\ ca * vb \in Nat BY <1>1, TimesIsNat
  <2>2. cb * va <= ca * vb BY <1>2, <2>1
  <2>3. (cb * va) * V <= (ca * vb) * V BY <1>1, <2>1, <2>2, TimesGrows
  <2>4. (cb * V) * va = (cb * va) * V /\ (ca * V) * vb = (ca * vb) * V BY <1>1, TimesTimes
  <2> QED BY <2>3, <2>4
<1>4. (C * vb) * va = (C * va) * vb
  <2> HIDE DEF ca, va, cb, vb, C, V
  <2> QED BY <1>1, TimesTimes
<1> QED BY <1>3, <1>4 DEF Hits, Par

\* What falls short by a margin, and what exceeds by one, passes it on.
LEMMA ShortIsShort ==
    ASSUME NEW h \in Nat, NEW p \in Nat, NEW v \in Nat, NEW g \in Nat, NEW q \in Nat, NEW w \in Nat,
           v > 0, w > 0, g * v <= h * w, q * v = p * w, 100 * h < 50 * p
    PROVE  100 * g < 60 * q
<1>1. (100 * h) * w < (50 * p) * w BY TimesGrowsMore
<1>2. (100 * h) * w = 100 * (h * w) /\ (50 * p) * w = 50 * (p * w) OBVIOUS
<1>3. h * w \in Nat /\ p * w \in Nat /\ g * v \in Nat /\ q * v \in Nat BY TimesIsNat
<1>4. 100 * (g * v) < 60 * (q * v)
  <2> DEFINE hw == h * w
             pw == p * w
             gv == g * v
             qv == q * v
  <2>1. hw \in Nat /\ pw \in Nat /\ gv \in Nat /\ qv \in Nat /\ 100 * hw < 50 * pw
        /\ gv <= hw /\ qv = pw
    BY <1>1, <1>2, <1>3
  <2> HIDE DEF hw, pw, gv, qv
  <2>2. 100 * gv < 60 * qv BY <2>1
  <2> QED BY <2>2 DEF gv, qv
<1>5. ASSUME 60 * q <= 100 * g PROVE FALSE
  <2>1. (60 * q) * v <= (100 * g) * v BY <1>5, TimesGrows
  <2>2. (60 * q) * v = 60 * (q * v) /\ (100 * g) * v = 100 * (g * v) OBVIOUS
  <2> DEFINE gv == g * v
             qv == q * v
  <2>3. gv \in Nat /\ qv \in Nat /\ 100 * gv < 60 * qv /\ 60 * qv <= 100 * gv
    BY <1>3, <1>4, <2>1, <2>2
  <2> HIDE DEF gv, qv
  <2> QED BY <2>3
<1> QED BY <1>5

LEMMA MuchIsMuch ==
    ASSUME NEW h \in Nat, NEW p \in Nat, NEW v \in Nat, NEW g \in Nat, NEW q \in Nat, NEW w \in Nat,
           v > 0, w > 0, h * w <= g * v, q * v = p * w, 100 * h >= 125 * p, p > 0
    PROVE  100 * g > 100 * q
<1>1. 100 * p < 100 * h OBVIOUS
<1>2. (100 * p) * w < (100 * h) * w BY <1>1, TimesGrowsMore
<1>3. (100 * h) * w = 100 * (h * w) /\ (100 * p) * w = 100 * (p * w) OBVIOUS
<1>4. h * w \in Nat /\ p * w \in Nat /\ g * v \in Nat /\ q * v \in Nat BY TimesIsNat
<1>5. q * v < g * v
  <2> DEFINE hw == h * w
             pw == p * w
             gv == g * v
             qv == q * v
  <2>1. hw \in Nat /\ pw \in Nat /\ gv \in Nat /\ qv \in Nat /\ 100 * pw < 100 * hw
        /\ hw <= gv /\ qv = pw
    BY <1>2, <1>3, <1>4
  <2> HIDE DEF hw, pw, gv, qv
  <2>2. qv < gv BY <2>1
  <2> QED BY <2>2 DEF gv, qv
<1>6. ASSUME g <= q PROVE FALSE
  <2>1. g * v <= q * v BY <1>6, TimesGrows
  <2> QED BY <1>4, <1>5, <2>1
<1> QED BY <1>6


LEMMA BetterIsOneWay ==
    ASSUME NEW a, NEW b, Measured(a), Measured(b) PROVE ~(Better(a, b) /\ Better(b, a))
<1>1. a.converting * b.visits \in Nat /\ b.converting * a.visits \in Nat BY TimesIsNat DEF Measured
<1> QED BY <1>1 DEF Better

LEMMA KeysAreMeasured ==
    ASSUME Contest
    PROVE  /\ \A key \in Keys : Measured(Row(key))
           /\ Images \subseteq Keys /\ Pairs \subseteq Keys /\ Headlines \subseteq Keys
           /\ inquiry.known \subseteq Images
<1>1. \A key \in Keys : Measured(Row(key)) BY RowNumbers DEF Measured
<1>2. inquiry.known \subseteq Images BY DEF Contest, Images
<1> QED BY <1>1, <1>2 DEF Keys

\* Of two images one is the best and one the worst.
LEMMA BestAndWorst ==
    ASSUME Contest, NEW S \in SUBSET Images, NEW image \in S
    PROVE  Best(S) # {} /\ Worst(S) # {}
<1>1. \A a \in S : Measured(Row(a)) BY KeysAreMeasured
<1>2. \A a, b \in S : ~(Better(Row(a), Row(b)) /\ Better(Row(b), Row(a))) BY <1>1, BetterIsOneWay
<1>3. \A a, b, c \in S : a = b \/ b = c \/ a = c BY DEF Images
<1>4. image \in Best(S) \/ \E a \in S : Better(Row(a), Row(image)) BY DEF Best
<1>5. \A a \in S : Better(Row(a), Row(image)) => a \in Best(S)
  <2> SUFFICES ASSUME NEW a \in S, Better(Row(a), Row(image)), NEW b \in S, Better(Row(b), Row(a))
               PROVE  FALSE
    BY DEF Best
  <2>1. a # image /\ b # a BY <1>2
  <2>2. b = image BY <1>3, <2>1
  <2> QED BY <1>2, <2>2
<1>6. image \in Worst(S) \/ \E a \in S : Better(Row(image), Row(a)) BY DEF Worst
<1>7. \A a \in S : Better(Row(image), Row(a)) => a \in Worst(S)
  <2> SUFFICES ASSUME NEW a \in S, Better(Row(image), Row(a)), NEW b \in S, Better(Row(a), Row(b))
               PROVE  FALSE
    BY DEF Worst
  <2>1. a # image /\ b # a BY <1>2
  <2>2. b = image BY <1>3, <2>1
  <2> QED BY <1>2, <2>2
<1> QED BY <1>4, <1>5, <1>6, <1>7

LEMMA AdviceIs ==
    LET advice == buildCreativeRecommendations
        known == inquiry.known
    IN  /\ Everything.converting # 0 =>
             /\ advice.scale = Scale(known) /\ advice.pause = Pause(known) /\ advice.waste = Waste(known)
             /\ advice.combo = Combo /\ advice.suspect = Suspect(known) /\ advice.wait = Wait
        /\ Everything.converting = 0 =>
             /\ advice.scale = {} /\ advice.pause = {} /\ advice.waste = {}
             /\ advice.combo = {} /\ advice.suspect = {} /\ advice.wait = {}
BY DEF buildCreativeRecommendations

\* Whom the advice is about, and by how much.
LEMMA Advised ==
    ASSUME Contest, NEW keys \in SUBSET Images
    PROVE  /\ \A key \in Scale(keys) :
                key \in keys /\ 100 * Hits(Row(key)) > 100 * Par(Row(key))
                /\ \A other \in Eligible(keys) : ~Better(Row(other), Row(key))
           /\ \A key \in Pause(keys) :
                key \in keys /\ Row(key).visits >= 30 /\ 100 * Hits(Row(key)) < 60 * Par(Row(key))
           /\ \A key \in Waste(keys) :
                key \in keys /\ Row(key).visits >= 15 /\ Row(key).converting = 0
           /\ \A key \in keys : Hits(Row(key)) \in Nat /\ Par(Row(key)) \in Nat
           /\ \A key \in keys : \A percent \in Nat :
                /\ Reaches(Row(key), percent) <=> 100 * Hits(Row(key)) >= percent * Par(Row(key))
                /\ Exceeds(Row(key), percent) <=> 100 * Hits(Row(key)) > percent * Par(Row(key))
<1>1. Everything.visits \in Nat /\ Everything.converting \in Nat BY RowNumbers
<1>2. \A key \in keys : Measured(Row(key)) BY KeysAreMeasured
<1>3. \A key \in keys :
        /\ Hits(Row(key)) \in Nat /\ Par(Row(key)) \in Nat
        /\ \A percent \in Nat :
             /\ Reaches(Row(key), percent) <=> 100 * Hits(Row(key)) >= percent * Par(Row(key))
             /\ Exceeds(Row(key), percent) <=> 100 * Hits(Row(key)) > percent * Par(Row(key))
  BY <1>1, <1>2, Rates
<1>4. \A key \in Scale(keys) :
        key \in keys /\ 100 * Hits(Row(key)) > 100 * Par(Row(key))
        /\ \A other \in Eligible(keys) : ~Better(Row(other), Row(key))
  <2> TAKE key \in Scale(keys)
  <2>1. key \in Best(Eligible(keys)) /\ Exceeds(Row(key), 100) BY DEF Scale
  <2>2. key \in keys /\ \A other \in Eligible(keys) : ~Better(Row(other), Row(key))
    BY <2>1 DEF Best, Eligible
  <2> QED BY <1>3, <2>1, <2>2
<1>5. \A key \in Pause(keys) :
        key \in keys /\ Row(key).visits >= 30 /\ 100 * Hits(Row(key)) < 60 * Par(Row(key))
  <2> TAKE key \in Pause(keys)
  <2>1. key \in Worst(Seasoned(keys)) /\ ~Reaches(Row(key), 60) BY DEF Pause
  <2>2. key \in keys /\ Row(key).visits >= 30 BY <2>1 DEF Worst, Seasoned, MinSample
  <2>3. ~(100 * Hits(Row(key)) >= 60 * Par(Row(key))) BY <1>3, <2>1, <2>2
  <2>4. Hits(Row(key)) \in Nat /\ Par(Row(key)) \in Nat BY <1>3, <2>2
  <2> QED BY <2>2, <2>3, <2>4
<1>6. \A key \in Waste(keys) :
        key \in keys /\ Row(key).visits >= 15 /\ Row(key).converting = 0
  BY DEF Waste, Eligible, MinSample
<1> QED BY <1>3, <1>4, <1>5, <1>6


\* Nobody is scaled who is paused, wasteful or poor, and none paused who has to wait.
LEMMA AdviceIsConsistent ==
    ASSUME Contest, Everything.converting # 0
    PROVE  LET known == inquiry.known IN
           /\ Scale(known) \cap (Pause(known) \cup Waste(known)) = {}
           /\ \A image \in Scale(known) : scoreCreativeQuality(Row(image)) # "poor"
           /\ (Pause(known) \cup Waste(known)) \cap Wait = {}
           /\ \A image \in Pause(known) : PlacementVerdict(Row(image)) # "scale"
<1> DEFINE known == inquiry.known
<1>1. known \in SUBSET Images BY KeysAreMeasured
<1>2. /\ \A key \in Scale(known) : key \in known /\ 100 * Hits(Row(key)) > 100 * Par(Row(key))
      /\ \A key \in Pause(known) :
           key \in known /\ Row(key).visits >= 30 /\ 100 * Hits(Row(key)) < 60 * Par(Row(key))
      /\ \A key \in Waste(known) : key \in known /\ Row(key).visits >= 15 /\ Row(key).converting = 0
      /\ \A key \in known : Hits(Row(key)) \in Nat /\ Par(Row(key)) \in Nat
      /\ \A key \in known : \A percent \in Nat :
           Reaches(Row(key), percent) <=> 100 * Hits(Row(key)) >= percent * Par(Row(key))
  <2> HIDE DEF known
  <2> QED BY <1>1, Advised
<1>3. Scale(known) \cap Pause(known) = {}
  <2> SUFFICES ASSUME NEW key \in Scale(known), key \in Pause(known) PROVE FALSE OBVIOUS
  <2> QED BY <1>2
<1>4. Scale(known) \cap Waste(known) = {}
  <2> SUFFICES ASSUME NEW key \in Scale(known), key \in Waste(known) PROVE FALSE OBVIOUS
  <2>1. Hits(Row(key)) = 0 BY <1>2, RowNumbers DEF Hits
  <2> QED BY <1>2, <2>1
<1>5. ASSUME NEW image \in Scale(known) PROVE scoreCreativeQuality(Row(image)) # "poor"
  <2>1. Reaches(Row(image), 50) BY <1>2
  <2>2. "low_data" # "poor" /\ "risk" # "poor" /\ "excellent" # "poor" /\ "good" # "poor"
        /\ "average" # "poor"
    BY Zenon
  <2> QED BY <2>1, <2>2 DEF scoreCreativeQuality
<1>6. (Pause(known) \cup Waste(known)) \cap Wait = {}
  <2> SUFFICES ASSUME NEW key \in Wait, Row(key).visits >= 15 PROVE FALSE BY <1>1, <1>2, RowNumbers DEF Keys
  <2>1. Row(key).visits \in 1 .. 14 BY DEF Wait, MinSample
  <2> QED BY <2>1
<1>7. ASSUME NEW image \in Pause(known) PROVE PlacementVerdict(Row(image)) # "scale"
  <2>1. ~Reaches(Row(image), 120) BY <1>2
  <2>2. "kill" # "scale" /\ "watch" # "scale" BY Zenon
  <2> QED BY <2>1, <2>2 DEF PlacementVerdict
<1> QED BY <1>3, <1>4, <1>5, <1>6, <1>7

\* What is good is scaled, what is poor leads to a pause, what is risky is named.
LEMMA AdviceIsGiven ==
    ASSUME Contest, Everything.converting # 0, NEW image \in inquiry.known
    PROVE  LET known == inquiry.known
               quality == scoreCreativeQuality(Row(image))
           IN
           /\ quality = "poor" => Pause(known) # {}
           /\ quality = "risk" => image \in Suspect(known)
           /\ quality = "excellent" => Scale(known) # {}
           /\ Row(image).visits >= MinSample /\ Row(image).converting = 0
              /\ PlacementVerdict(Row(image)) = "kill" /\ BotTenths(Row(image)) < 450
              => image \in Waste(known)
<1> DEFINE known == inquiry.known
           row == Row(image)
           quality == scoreCreativeQuality(row)
           V == Everything.visits
           C == Everything.converting
<1>1. known \in SUBSET Images /\ V \in Nat /\ C \in Nat /\ C > 0 BY KeysAreMeasured, RowNumbers
<1>2. \A key \in known : Measured(Row(key)) BY <1>1, KeysAreMeasured
<1>3. /\ \A key \in known : Hits(Row(key)) \in Nat /\ Par(Row(key)) \in Nat
      /\ \A key \in known : \A percent \in Nat :
           /\ Reaches(Row(key), percent) <=> 100 * Hits(Row(key)) >= percent * Par(Row(key))
           /\ Exceeds(Row(key), percent) <=> 100 * Hits(Row(key)) > percent * Par(Row(key))
  <2> HIDE DEF known
  <2> QED BY <1>1, Advised
<1>4. /\ "low_data" # "poor" /\ "risk" # "poor" /\ "excellent" # "poor" /\ "good" # "poor"
      /\ "average" # "poor" /\ "low_data" # "risk" /\ "low_data" # "excellent"
      /\ "risk" # "excellent" /\ "good" # "excellent" /\ "average" # "excellent"
      /\ "good" # "risk" /\ "average" # "risk"
  BY Zenon
<1>5. row.visits \in Nat /\ row.converting \in Nat BY <1>2 DEF Measured
<1>6. ASSUME quality = "poor" PROVE Pause(known) # {}
  <2>1. ~Reaches(row, 50) /\ row.visits >= 30 BY <1>4, <1>5, <1>6 DEF scoreCreativeQuality, MinSample
  <2>2. image \in Seasoned(known) BY <2>1 DEF Seasoned, MinSample
  <2>3. Seasoned(known) \in SUBSET Images BY <1>1 DEF Seasoned
  <2>4. PICK w \in Worst(Seasoned(known)) : TRUE BY <2>2, <2>3, BestAndWorst
  <2>5. w \in known /\ Row(w).visits >= 30 /\ ~Better(Row(w), row)
    BY <2>2 DEF Worst, Seasoned, MinSample
  <2>6. Hits(Row(w)) * row.visits <= Hits(row) * Row(w).visits
        /\ Par(Row(w)) * row.visits = Par(row) * Row(w).visits
    BY <1>1, <1>2, <2>5, RatesCompare
  <2>7. 100 * Hits(row) < 50 * Par(row)
    <3>1. ~(100 * Hits(row) >= 50 * Par(row)) /\ Hits(row) \in Nat /\ Par(row) \in Nat BY <1>3, <2>1
    <3> HIDE DEF row
    <3> QED BY <3>1
  <2>8. 100 * Hits(Row(w)) < 60 * Par(Row(w))
    <3>1. Row(w).visits \in Nat BY <1>2, <2>5 DEF Measured
    <3>2. Hits(row) \in Nat /\ Par(row) \in Nat /\ Hits(Row(w)) \in Nat /\ Par(Row(w)) \in Nat
      BY <1>3, <2>5
    <3> HIDE DEF row
    <3> QED BY <1>5, <2>1, <2>5, <2>6, <2>7, <3>1, <3>2, ShortIsShort
  <2>9. ~Reaches(Row(w), 60)
    <3>1. Hits(Row(w)) \in Nat /\ Par(Row(w)) \in Nat BY <1>3, <2>5
    <3> QED BY <1>3, <2>5, <2>8, <3>1
  <2> QED BY <2>4, <2>9 DEF Pause
<1>7. ASSUME quality = "risk" PROVE image \in Suspect(known)
  <2>1. ~(row.visits < MinSample) /\ BotTenths(row) >= 400
    BY <1>4, <1>7 DEF scoreCreativeQuality
  <2>2. image \in Eligible(known) BY <1>5, <2>1 DEF Eligible, MinSample
  <2>3. BotTenths(row) >= 350
    <3>1. BotTenths(row) \in Int
      <4>1. row.bots \in Nat /\ row.visits > 0
        BY <1>1, <1>5, <2>1, RowNumbers DEF MinSample, Keys
      <4> DEFINE top == 2000 * row.bots + row.visits
                 unit == 2 * row.visits
      <4>2. top \in Nat /\ unit \in Nat /\ unit > 0
        <5> HIDE DEF row
        <5> QED BY <1>5, <4>1
      <4>3. top \div unit \in Int
        <5> HIDE DEF top, unit
        <5> QED BY <4>2
      <4> QED BY <4>3 DEF BotTenths
    <3> HIDE DEF row
    <3> QED BY <2>1, <3>1
  <2> QED BY <2>2, <2>3 DEF Suspect
<1>8. ASSUME quality = "excellent" PROVE Scale(known) # {}
  <2>1. ~(row.visits < MinSample) /\ Reaches(row, 125)
    BY <1>4, <1>8 DEF scoreCreativeQuality
  <2>2. row.visits >= 15 /\ image \in Eligible(known) BY <1>5, <2>1 DEF Eligible, MinSample
  <2>3. Eligible(known) \in SUBSET Images BY <1>1 DEF Eligible
  <2>4. PICK b \in Best(Eligible(known)) : TRUE BY <2>2, <2>3, BestAndWorst
  <2>5. b \in known /\ Row(b).visits >= 15 /\ ~Better(row, Row(b))
    BY <2>2 DEF Best, Eligible, MinSample
  <2>6. Hits(row) * Row(b).visits <= Hits(Row(b)) * row.visits
        /\ Par(row) * Row(b).visits = Par(Row(b)) * row.visits
    BY <1>1, <1>2, <2>5, RatesCompare
  <2>7. Par(row) > 0
    <3>1. C * row.visits > 0
      <4> DEFINE v == row.visits
      <4>1. 0 * v < C * v
        <5>1. v \in Nat /\ v > 0 BY <1>5, <2>2
        <5> HIDE DEF v, C
        <5> QED BY <1>1, <5>1, TimesGrowsMore
      <4>2. 0 * v = 0 BY <1>5
      <4> HIDE DEF v, C
      <4> QED BY <4>1, <4>2 DEF v
    <3> QED BY <3>1 DEF Par
  <2>8. 100 * Hits(Row(b)) > 100 * Par(Row(b))
    <3>1. Row(b).visits \in Nat BY <1>2, <2>5 DEF Measured
    <3>2. Hits(row) \in Nat /\ Par(row) \in Nat /\ Hits(Row(b)) \in Nat /\ Par(Row(b)) \in Nat
      BY <1>3, <2>5
    <3>3. 100 * Hits(row) >= 125 * Par(row) BY <1>3, <2>1
    <3>4. row.visits > 0 /\ Row(b).visits > 0 BY <1>5, <2>2, <2>5, <3>1
    <3> HIDE DEF row
    <3> QED BY <1>5, <2>6, <2>7, <3>1, <3>2, <3>3, <3>4, MuchIsMuch
  <2>9. Exceeds(Row(b), 100) BY <1>3, <2>5, <2>8
  <2> QED BY <2>4, <2>9 DEF Scale
<1>9. ASSUME row.visits >= MinSample, row.converting = 0, PlacementVerdict(row) = "kill",
             BotTenths(row) < 450
      PROVE  image \in Waste(known)
  <2>1. image \in Eligible(known) BY <1>9 DEF Eligible
  <2>2. SpentOnRow(row) \in Nat
    <3>1. SpentOnRow(row) = 20 * row.visits BY DEF SpentOnRow, Contest
    <3> HIDE DEF row
    <3> QED BY <1>5, <3>1
  <2>3. "kill" # "scale" /\ "kill" # "watch" BY Zenon
  <2>4. \/ SpentOnRow(row) >= 5 * V
        \/ SpentOnRow(row) >= 10 * V
        \/ BotTenths(row) >= 450
    <3> HIDE DEF row
    <3> QED BY <1>9, <2>3 DEF PlacementVerdict
  <2>5. ~(BotTenths(row) >= 450)
    <3>1. BotTenths(row) \in Int
      <4>1. row.bots \in Nat /\ row.visits > 0
        BY <1>1, <1>5, <1>9, RowNumbers DEF MinSample, Keys
      <4> DEFINE top == 2000 * row.bots + row.visits
                 unit == 2 * row.visits
      <4>2. top \in Nat /\ unit \in Nat /\ unit > 0
        <5> HIDE DEF row
        <5> QED BY <1>5, <4>1
      <4>3. top \div unit \in Int
        <5> HIDE DEF top, unit
        <5> QED BY <4>2
      <4> QED BY <4>3 DEF BotTenths
    <3> HIDE DEF row
    <3> QED BY <1>9, <3>1
  <2>6. SpentOnRow(row) >= 5 * V
    <3> HIDE DEF row, V
    <3> QED BY <1>1, <2>2, <2>4, <2>5
  <2> QED BY <1>9, <2>1, <2>6 DEF Waste
<1> QED BY <1>6, <1>7, <1>8, <1>9


\* Where one image beats another it is better than both together.
LEMMA WinnerIsScaled ==
    ASSUME Contest, Eligible(Images) = inquiry.known,
           NEW a \in inquiry.known, NEW b \in inquiry.known, Better(Row(a), Row(b))
    PROVE  Everything.converting # 0 /\ Scale(inquiry.known) # {}
<1> DEFINE known == inquiry.known
           ca == Row(a).converting
           va == Row(a).visits
           cb == Row(b).converting
           vb == Row(b).visits
<1>1. known \in SUBSET Images BY KeysAreMeasured
<1>2. \A key \in known : Measured(Row(key)) BY <1>1, KeysAreMeasured
<1>3. ca \in Nat /\ va \in Nat /\ cb \in Nat /\ vb \in Nat BY <1>2 DEF Measured
<1>4. ca * vb > cb * va BY DEF Better
<1>5. a # b /\ ~Better(Row(a), Row(a)) /\ ~Better(Row(b), Row(a)) BY <1>2, BetterIsOneWay
<1>6. \A key \in known : key = a \/ key = b BY <1>1, <1>5 DEF Images
<1>7. /\ Everything.visits = va + vb /\ Everything.converting = ca + cb
  <2>1. {a, b} = {{"image"}, {"other"}} BY <1>1, <1>5 DEF Images
  <2>2. (a = {"image"} /\ b = {"other"}) \/ (a = {"other"} /\ b = {"image"}) BY <1>5, <2>1
  <2>3. /\ Everything.visits = Row({"image"}).visits + Row({"other"}).visits
        /\ Everything.converting = Row({"image"}).converting + Row({"other"}).converting
    BY RowNumbers
  <2>4. CASE a = {"image"} /\ b = {"other"} BY <2>3, <2>4
  <2>5. CASE a = {"other"} /\ b = {"image"}
    <3>1. Everything.visits = vb + va /\ Everything.converting = cb + ca BY <2>3, <2>5
    <3> HIDE DEF ca, va, cb, vb
    <3> QED BY <1>3, <3>1
  <2> QED BY <2>2, <2>4, <2>5
<1>8. ca > 0
  <2>1. cb * va \in Nat BY <1>3, TimesIsNat
  <2>2. ca = 0 => ca * vb = 0
    <3> HIDE DEF ca, vb
    <3> QED BY <1>3
  <2> HIDE DEF ca, cb, va, vb
  <2> QED BY <1>3, <1>4, <2>1, <2>2
<1>9. Everything.converting # 0 BY <1>3, <1>7, <1>8
<1>10. Hits(Row(a)) > Par(Row(a))
  <2>1. ca * (va + vb) = ca * va + ca * vb /\ (ca + cb) * va = ca * va + cb * va
    <3> HIDE DEF ca, cb, va, vb
    <3> QED BY <1>3
  <2>2. ca * va \in Nat /\ ca * vb \in Nat /\ cb * va \in Nat BY <1>3, TimesIsNat
  <2>3. Hits(Row(a)) = ca * (va + vb) /\ Par(Row(a)) = (ca + cb) * va BY <1>7 DEF Hits, Par
  <2> QED BY <1>4, <2>1, <2>2, <2>3
<1>11. Exceeds(Row(a), 100)
  <2>1. /\ Hits(Row(a)) \in Nat /\ Par(Row(a)) \in Nat
        /\ Exceeds(Row(a), 100) <=> 100 * Hits(Row(a)) > 100 * Par(Row(a))
    BY <1>1, Advised
  <2> QED BY <1>10, <2>1
<1>12. a \in Eligible(known) /\ Eligible(known) \subseteq known
  BY <1>1 DEF Eligible
<1>13. a \in Best(Eligible(known)) BY <1>5, <1>6, <1>12 DEF Best
<1> QED BY <1>9, <1>11, <1>13 DEF Scale

\* The best pair is as good as an image, which is two of the pairs.
LEMMA BestPairIsBest ==
    ASSUME Contest, Pairs \subseteq Eligible(Pairs) \cup {pair \in Pairs : Row(pair).visits = 0},
           NEW image \in Images, NEW pair \in Combo
    PROVE  ~Better(Row(image), Row(pair))
<1>1. pair \in Pairs /\ \A other \in Eligible(Pairs) : ~Better(Row(other), Row(pair))
  BY DEF Combo, Best, Eligible
<1>2. PICK a \in Pairs, b \in Pairs :
        /\ Row(image).visits = Row(a).visits + Row(b).visits
        /\ Row(image).converting = Row(a).converting + Row(b).converting
  BY RowNumbers
<1> DEFINE c == Row(pair).converting
           v == Row(pair).visits
<1>3. \A key \in Pairs : Measured(Row(key)) BY KeysAreMeasured
<1>4. c \in Nat /\ v \in Nat BY <1>1, <1>3 DEF Measured
<1>5. ASSUME NEW key \in Pairs
      PROVE  Row(key).converting * v <= c * Row(key).visits
  <2> DEFINE ck == Row(key).converting
             vk == Row(key).visits
  <2>1. ck \in Nat /\ vk \in Nat /\ ck <= vk BY <1>3 DEF Measured
  <2>2. ck * v \in Nat /\ c * vk \in Nat BY <1>4, <2>1, TimesIsNat
  <2>3. CASE key \in Eligible(Pairs)
    <3>1. ~(ck * v > c * vk) BY <1>1, <2>3 DEF Better
    <3> HIDE DEF ck, vk, c, v
    <3> QED BY <2>2, <3>1 DEF ck, vk, c, v
  <2>4. CASE vk = 0
    <3>1. ck = 0 BY <2>1, <2>4
    <3>2. ck * v = 0
      <4> HIDE DEF ck, v
      <4> QED BY <1>4, <3>1
    <3> HIDE DEF ck, vk, c, v
    <3> QED BY <2>2, <3>2 DEF ck, vk, c, v
  <2> QED BY <2>3, <2>4
<1> DEFINE ca == Row(a).converting
           va == Row(a).visits
           cb == Row(b).converting
           vb == Row(b).visits
<1>6. ca \in Nat /\ va \in Nat /\ cb \in Nat /\ vb \in Nat BY <1>3 DEF Measured
<1>7. ca * v <= c * va /\ cb * v <= c * vb BY <1>5
<1>8. (ca + cb) * v <= c * (va + vb)
  <2> HIDE DEF ca, cb, va, vb, c, v
  <2>1. (ca + cb) * v = ca * v + cb * v /\ c * (va + vb) = c * va + c * vb BY <1>4, <1>6
  <2>2. ca * v \in Nat /\ cb * v \in Nat /\ c * va \in Nat /\ c * vb \in Nat BY <1>4, <1>6, TimesIsNat
  <2> QED BY <1>7, <2>1, <2>2
<1>9. (ca + cb) * v \in Nat /\ c * (va + vb) \in Nat
  <2>1. ca + cb \in Nat /\ va + vb \in Nat BY <1>6
  <2> HIDE DEF ca, cb, va, vb, c, v
  <2> QED BY <1>4, <2>1, TimesIsNat
<1>10. Better(Row(image), Row(pair)) <=> (ca + cb) * v > c * (va + vb) BY <1>2 DEF Better
<1> HIDE DEF ca, cb, va, vb, c, v
<1> QED BY <1>8, <1>9, <1>10

LEMMA AdviceDo == Contest => AdviceIsCoherent
<1> SUFFICES ASSUME Contest PROVE AdviceIsCoherent OBVIOUS
<1> DEFINE advice == buildCreativeRecommendations
           known == inquiry.known
           quality(image) == scoreCreativeQuality(Row(image))
           sampled == Eligible(Pairs) \cup {pair \in Pairs : Row(pair).visits = 0}
<1>1. known \subseteq Images BY KeysAreMeasured
<1>2. Everything.converting \in Nat BY RowNumbers
<1>3. /\ Everything.converting # 0 =>
           /\ advice.scale = Scale(known) /\ advice.pause = Pause(known) /\ advice.waste = Waste(known)
           /\ advice.combo = Combo /\ advice.suspect = Suspect(known) /\ advice.wait = Wait
      /\ Everything.converting = 0 =>
           /\ advice.scale = {} /\ advice.pause = {} /\ advice.waste = {}
           /\ advice.combo = {} /\ advice.suspect = {} /\ advice.wait = {}
  BY AdviceIs
<1>4. Eligible(Images) = known /\ (\E a, b \in known : Better(Row(a), Row(b))) => advice.scale # {}
  BY <1>3, WinnerIsScaled
<1>5. /\ advice.scale \cap (advice.pause \cup advice.waste) = {}
      /\ \A image \in advice.scale : quality(image) # "poor"
      /\ (advice.pause \cup advice.waste) \cap advice.wait = {}
      /\ \A image \in advice.pause : PlacementVerdict(Row(image)) # "scale"
  <2>1. CASE Everything.converting = 0
    <3> HIDE DEF advice
    <3> QED BY <1>3, <2>1
  <2>2. CASE Everything.converting # 0
    <3>1. /\ Scale(known) \cap (Pause(known) \cup Waste(known)) = {}
          /\ \A image \in Scale(known) : scoreCreativeQuality(Row(image)) # "poor"
          /\ (Pause(known) \cup Waste(known)) \cap Wait = {}
          /\ \A image \in Pause(known) : PlacementVerdict(Row(image)) # "scale"
      BY <2>2, AdviceIsConsistent
    <3> HIDE DEF advice, known
    <3> QED BY <1>3, <2>2, <3>1
  <2> QED BY <2>1, <2>2
<1>6. ASSUME NEW image \in known, Everything.converting > 0
      PROVE  /\ quality(image) = "poor" => advice.pause # {}
             /\ quality(image) = "risk" => image \in advice.suspect
             /\ quality(image) = "excellent" => advice.scale # {}
             /\ Row(image).visits >= MinSample /\ Row(image).converting = 0
                /\ PlacementVerdict(Row(image)) = "kill" /\ BotTenths(Row(image)) < 450
                => image \in advice.waste
  <2>1. Everything.converting # 0 BY <1>2, <1>6
  <2>2. /\ quality(image) = "poor" => Pause(known) # {}
        /\ quality(image) = "risk" => image \in Suspect(known)
        /\ quality(image) = "excellent" => Scale(known) # {}
        /\ Row(image).visits >= MinSample /\ Row(image).converting = 0
           /\ PlacementVerdict(Row(image)) = "kill" /\ BotTenths(Row(image)) < 450
           => image \in Waste(known)
    BY <2>1, AdviceIsGiven
  <2> HIDE DEF advice, known, quality
  <2> QED BY <1>3, <2>1, <2>2
<1>7. sampled = Pairs =>
        \A image \in advice.scale, pair \in advice.combo : ~Better(Row(image), Row(pair))
  <2> SUFFICES ASSUME sampled = Pairs, NEW image \in advice.scale, NEW pair \in advice.combo
               PROVE  ~Better(Row(image), Row(pair))
    OBVIOUS
  <2>1. Everything.converting # 0
    <3> HIDE DEF advice
    <3> QED BY <1>3
  <2>2. image \in Scale(known) /\ pair \in Combo
    <3> HIDE DEF advice
    <3> QED BY <1>3, <2>1
  <2>3. image \in Images
    <3>1. image \in known BY <2>2 DEF Scale, Best, Eligible
    <3> QED BY <1>1, <3>1
  <2> QED BY <2>2, <2>3, BestPairIsBest
<1> HIDE DEF advice, known, quality, sampled
<1> QED BY <1>4, <1>5, <1>6, <1>7 DEF AdviceIsCoherent, advice, known, quality, sampled


-----------------------------------------------------------------------------
(* The questions.  What is asked about keeps its shape, and a question     *)
(* about totals has all it needs once the events are known.                *)

Opened ==
    /\ {"kind", "visits", "spend", "configured", "excludeBots"} \subseteq DOMAIN inquiry
    /\ inquiry.visits \in [Visits -> [tag: Tags, place: Places, test: BOOLEAN, early: BOOLEAN]]
    /\ inquiry.spend \in Nat /\ inquiry.configured \in BOOLEAN /\ inquiry.excludeBots \in BOOLEAN

Inquired ==
    /\ "kind" \in DOMAIN inquiry
    /\ inquiry.kind = "totals" => Opened /\ ("events" \in DOMAIN inquiry => Ledger)
    /\ inquiry.kind = "quiz" => Quiz
    /\ inquiry.kind = "creatives" => Contest
    /\ inquiry.kind = "outcomes" => Answered

LEMMA InquiredStarts == ReportsInit \/ RestingReports \/ inquiry \in OutcomeLedgers => Inquired
<1>1. ASSUME inquiry \in Attributions PROVE Inquired BY <1>1 DEF Attributions, Inquired
<1>2. ASSUME inquiry \in Ledgers PROVE Inquired
  <2>1. PICK visits \in {all \in [Visits -> {visit \in [tag: Tags, place: Places, test: BOOLEAN, early: BOOLEAN] :
                                                ~(visit.test /\ visit.early)}] : OneChanges(all)},
             spend \in {0, 5}, configured \in BOOLEAN, bots \in BOOLEAN :
           inquiry = [kind |-> "totals", visits |-> visits, spend |-> spend,
                      configured |-> configured, excludeBots |-> bots]
    BY <1>2 DEF Ledgers
  <2>2. "events" \notin DOMAIN inquiry /\ inquiry.kind = "totals" BY <2>1
  <2>3. Opened BY <2>1 DEF Opened
  <2> QED BY <2>2, <2>3 DEF Inquired, Opened
<1>3. ASSUME inquiry \in Quizzes PROVE Inquired
  <2>1. PICK guests \in [Guests -> [bot: BOOLEAN, rehearsed: BOOLEAN, renumbered: BOOLEAN,
                                    reached: SUBSET Questions]] :
           inquiry = [kind |-> "quiz", guests |-> guests]
    BY <1>3 DEF Quizzes
  <2> QED BY <2>1 DEF Inquired, Quiz
<1>4. ASSUME inquiry \in Contests PROVE Inquired
  <2>1. PICK pairs \in [Pairs -> Tallies], known \in {Images, {{"image"}}} :
           inquiry = [kind |-> "creatives", pairs |-> pairs, known |-> known, spend |-> 20]
    BY <1>4 DEF Contests
  <2>2. inquiry.kind = "creatives" /\ Contest BY <2>1 DEF Contest
  <2> QED BY <2>2 DEF Inquired, Contest
<1>5. ASSUME inquiry \in OutcomeLedgers PROVE Inquired
  <2>1. PICK one \in LeadOne, two \in LeadTwo, spend \in SpendTables :
           inquiry = [kind |-> "outcomes", leads |-> <<one, two>>, spend |-> spend]
    BY <1>5 DEF OutcomeLedgers
  <2>2. /\ one.ad \in MeteredAds /\ one.within \in BOOLEAN /\ one.test \in BOOLEAN /\ one.currency \in Currencies
        /\ two.ad \in MeteredAds /\ two.within \in BOOLEAN /\ two.test \in BOOLEAN /\ two.currency \in Currencies
    BY DEF LeadOne, LeadTwo, MeteredAds, Currencies
  <2>3. Of(1) = one /\ Of(2) = two BY <2>1 DEF Of
  <2>4. inquiry.kind = "outcomes" /\ Answered BY <2>1, <2>2, <2>3 DEF Answered, Leads
  <2> QED BY <2>4 DEF Inquired, Answered
<1>6. ASSUME RestingReports PROVE Inquired BY <1>6 DEF RestingReports, Inquired
<1> QED BY <1>1, <1>2, <1>3, <1>4, <1>5, <1>6 DEF ReportsInit

LEMMA InquiredStays == ASSUME Inquired, [ReportsNext]_inquiry PROVE Inquired'
<1>1. CASE UNCHANGED inquiry
  BY <1>1 DEF Inquired, Opened, Ledger, Quiz, Contest, Answered, Of
<1>2. CASE AskAttribution
  <2>1. PICK visit : inquiry' = With("visit", visit) BY <1>2 DEF AskAttribution
  <2>2. inquiry.kind = "attribution" BY <1>2 DEF AskAttribution
  <2>3. "kind" \in DOMAIN inquiry' /\ inquiry'.kind = "attribution" BY <2>1, <2>2 DEF Inquired, With
  <2> QED BY <2>3 DEF Inquired
<1>3. CASE AskTotals
  <2>1. PICK events \in [Happened -> [of: Visits, type: {"sale", "step"}, test: BOOLEAN, sent: BOOLEAN]] :
            inquiry' = With("events", events)
    BY <1>3 DEF AskTotals
  <2>2. inquiry.kind = "totals" /\ "events" \notin DOMAIN inquiry /\ Opened BY <1>3 DEF AskTotals, Inquired
  <2>3. /\ {"kind", "visits", "spend", "configured", "excludeBots", "events"} \subseteq DOMAIN inquiry'
        /\ inquiry'.kind = "totals" /\ inquiry'.visits = inquiry.visits
        /\ inquiry'.spend = inquiry.spend /\ inquiry'.configured = inquiry.configured
        /\ inquiry'.excludeBots = inquiry.excludeBots /\ inquiry'.events = events
    BY <2>1, <2>2 DEF With, Opened
  <2>4. Opened' BY <2>2, <2>3 DEF Opened
  <2>5. Ledger' BY <2>1, <2>2, <2>3 DEF Ledger, Opened
  <2> QED BY <2>3, <2>4, <2>5 DEF Inquired
<1> QED BY <1>1, <1>2, <1>3 DEF ReportsNext

LEMMA FiguresDo == Inquired => FiguresAgree
<1> SUFFICES ASSUME Inquired PROVE FiguresAgree OBVIOUS
<1>1. ReportsAgree BY DrilldownsDo, ScreensDo, PerformanceDo DEF Inquired, ReportsAgree
<1>2. AdviceIsCoherent
  <2>1. CASE inquiry.kind = "creatives" BY <2>1, AdviceDo DEF Inquired
  <2>2. CASE inquiry.kind # "creatives" BY <2>2 DEF AdviceIsCoherent
  <2> QED BY <2>1, <2>2
<1>3. StepsCountVisits
  <2>1. CASE inquiry.kind = "quiz" BY <2>1, StepsDo DEF Inquired
  <2>2. CASE inquiry.kind # "quiz" BY <2>2 DEF StepsCountVisits
  <2> QED BY <2>1, <2>2
<1>4. OutcomesAddUp
  <2>1. CASE inquiry.kind = "outcomes" BY <2>1, OutcomesDo DEF Inquired
  <2>2. CASE inquiry.kind # "outcomes" BY <2>2 DEF OutcomesAddUp
  <2> QED BY <2>1, <2>2
<1> QED BY <1>1, <1>2, <1>3, <1>4 DEF FiguresAgree

-----------------------------------------------------------------------------
(* The reports.  Among the campaigns listed, those of a destination's host *)
(* that are Facebook's decide whose row a visit is in, and with every host *)
(* known the siblings of a campaign are also its siblings' siblings.       *)
FacebookOf(c, listed) == {d \in Siblings(c, listed) : IsFacebook(d)}

IsVisit(visit) ==
    visit \in [ad : Ads, utm : {"facebook", "other", "none"},
               fbclid : BOOLEAN, test : BOOLEAN, early : BOOLEAN]

Asked ==
    /\ "kind" \in DOMAIN inquiry
    /\ inquiry.kind = "attribution" =>
        /\ {"ads", "listed"} \subseteq DOMAIN inquiry
        /\ inquiry.ads \in [Ads -> [facebook : BOOLEAN, host : Hosts \cup {NoHost}]]
        /\ inquiry.listed \subseteq Ads
        /\ "visit" \in DOMAIN inquiry => IsVisit(inquiry.visit)

LEMMA AskedStarts == ReportsInit \/ RestingReports \/ inquiry \in OutcomeLedgers => Asked
<1>1. inquiry \in Attributions => Asked
  <2> SUFFICES ASSUME inquiry \in Attributions PROVE Asked OBVIOUS
  <2>1. PICK ads \in [Ads -> [facebook : BOOLEAN, host : Hosts \cup {NoHost}]], listed \in SUBSET Ads :
            inquiry = [kind |-> "attribution", ads |-> ads, listed |-> listed]
    BY DEF Attributions
  <2> QED BY <2>1 DEF Asked
<1>2. inquiry \in Ledgers => Asked BY DEF Ledgers, Asked
<1>3. inquiry \in Quizzes => Asked BY DEF Quizzes, Asked
<1>4. inquiry \in Contests => Asked BY DEF Contests, Asked
<1>5. inquiry \in OutcomeLedgers => Asked BY DEF OutcomeLedgers, Asked
<1>6. RestingReports => Asked BY DEF RestingReports, Asked
<1> QED BY <1>1, <1>2, <1>3, <1>4, <1>5, <1>6 DEF ReportsInit

LEMMA AskedStays == ASSUME Asked, [ReportsNext]_inquiry PROVE Asked'
<1>1. CASE UNCHANGED inquiry BY <1>1 DEF Asked, IsVisit
<1>2. CASE AskAttribution
  <2>1. PICK utm \in {"facebook", "other", "none"}, fbclid, test, early \in BOOLEAN :
            inquiry' = With("visit", [ad |-> CHOOSE a \in Ads : TRUE, utm |-> utm,
                                      fbclid |-> fbclid, test |-> test, early |-> early])
    BY <1>2 DEF AskAttribution
  <2> DEFINE visit == [ad |-> CHOOSE a \in Ads : TRUE, utm |-> utm,
                       fbclid |-> fbclid, test |-> test, early |-> early]
  <2>2. IsVisit(visit) BY ReportsAssumption DEF IsVisit
  <2> HIDE DEF visit
  <2>3. inquiry.kind = "attribution" /\ "visit" \notin DOMAIN inquiry BY <1>2 DEF AskAttribution
  <2>4. inquiry' = With("visit", visit) BY <2>1 DEF visit
  <2>5. /\ {"kind", "ads", "listed", "visit"} \subseteq DOMAIN inquiry'
        /\ inquiry'.kind = inquiry.kind /\ inquiry'.visit = visit
        /\ inquiry'.ads = inquiry.ads /\ inquiry'.listed = inquiry.listed
    BY <2>3, <2>4 DEF Asked, With
  <2> QED BY <2>2, <2>3, <2>5 DEF Asked
<1>3. CASE AskTotals
  <2>1. PICK events : inquiry' = With("events", events) BY <1>3 DEF AskTotals
  <2>2. inquiry.kind = "totals" BY <1>3 DEF AskTotals
  <2>3. "kind" \in DOMAIN inquiry' /\ inquiry'.kind = "totals" BY <2>1, <2>2 DEF Asked, With
  <2> QED BY <2>3 DEF Asked
<1> QED BY <1>1, <1>2, <1>3 DEF ReportsNext

\* The row of a visit, when all hosts are known and it says what it is.
LEMMA RowsOfAVisit ==
    ASSUME Asked, inquiry.kind = "attribution", NEW listed \in SUBSET Ads, NEW visit, IsVisit(visit),
           ~visit.test, ~visit.early, visit.ad \in listed, LooksFacebook(visit) # "null",
           \A c \in Ads : inquiry.ads[c].host # NoHost
    PROVE  ReportedBy(listed, visit)
             = IF LooksFacebook(visit) = "true" /\ Cardinality(FacebookOf(visit.ad, listed)) = 1
               THEN FacebookOf(visit.ad, listed) ELSE {visit.ad}
<1> DEFINE F(c) == FacebookOf(c, listed)
<1>1. LooksFacebook(visit) \in {"true", "false"} BY DEF LooksFacebook
<1>2. \A c \in listed : Siblings(c, listed) = {d \in listed : inquiry.ads[d].host = inquiry.ads[c].host}
  BY DEF Siblings
<1>3. \A c \in listed : F(c) \subseteq listed /\ IsFiniteSet(F(c))
  BY ReportsAssumption, FS_Subset DEF FacebookOf, Siblings
<1>4. \A c, d \in listed : inquiry.ads[d].host = inquiry.ads[c].host => F(c) = F(d)
  BY <1>2 DEF FacebookOf
<1>5. \A c \in listed : Cardinality(F(c)) = 1 => \E f : F(c) = {f}
  BY <1>3, FS_Singleton
<1>6. \A c \in listed : IsFacebook(c) \in BOOLEAN BY DEF Asked, IsFacebook
<1>7. ASSUME NEW c \in listed
      PROVE  Claims(c, listed, visit) <=>
               IF Cardinality(F(c)) # 1 THEN visit.ad = c
               ELSE IF IsFacebook(c)
                    THEN \/ visit.ad = c
                         \/ /\ visit.ad \in Siblings(c, listed) \ F(c)
                            /\ LooksFacebook(visit) = "true"
                    ELSE visit.ad = c /\ LooksFacebook(visit) = "false"
  BY <1>7 DEF Claims, FacebookOf
<1>8. ReportedBy(listed, visit) = {c \in listed : Claims(c, listed, visit)} BY DEF ReportedBy
<1>9. CASE Cardinality(F(visit.ad)) # 1
  <2>1. ASSUME NEW c \in listed PROVE Claims(c, listed, visit) <=> c = visit.ad
    <3>1. CASE inquiry.ads[visit.ad].host = inquiry.ads[c].host BY <1>4, <1>7, <1>9, <3>1
    <3>2. CASE inquiry.ads[visit.ad].host # inquiry.ads[c].host
      <4>1. visit.ad \notin Siblings(c, listed) /\ visit.ad # c BY <1>2, <3>2
      <4> QED BY <1>7, <4>1
    <3> QED BY <3>1, <3>2
  <2> QED BY <1>8, <1>9, <2>1
<1>10. CASE Cardinality(F(visit.ad)) = 1
  <2>1. PICK f : F(visit.ad) = {f} BY <1>5, <1>10
  <2>2. f \in listed /\ IsFacebook(f) /\ inquiry.ads[f].host = inquiry.ads[visit.ad].host
    BY <1>2, <2>1 DEF FacebookOf
  <2>3. ASSUME NEW c \in listed, inquiry.ads[visit.ad].host # inquiry.ads[c].host
        PROVE  ~Claims(c, listed, visit)
    <3>1. visit.ad \notin Siblings(c, listed) /\ visit.ad # c BY <1>2, <2>3
    <3> QED BY <1>7, <3>1
  <2>4. ASSUME NEW c \in listed, inquiry.ads[visit.ad].host = inquiry.ads[c].host
        PROVE  /\ F(c) = {f} /\ Cardinality(F(c)) = 1
               /\ IsFacebook(c) <=> c = f
               /\ visit.ad \in Siblings(c, listed)
    <3>1. F(c) = {f} /\ Cardinality(F(c)) = 1 BY <1>4, <1>10, <2>1, <2>4
    <3>2. c \in Siblings(visit.ad, listed) /\ visit.ad \in Siblings(c, listed) BY <1>2, <2>4
    <3>3. IsFacebook(c) <=> c = f BY <2>1, <2>2, <3>2 DEF FacebookOf
    <3> QED BY <3>1, <3>2, <3>3
  <2>5. CASE LooksFacebook(visit) = "true"
    <3>1. ASSUME NEW c \in listed PROVE Claims(c, listed, visit) <=> c = f
      <4>1. CASE inquiry.ads[visit.ad].host # inquiry.ads[c].host BY <2>2, <2>3, <4>1
      <4>2. CASE inquiry.ads[visit.ad].host = inquiry.ads[c].host
        <5>1. F(c) = {f} /\ Cardinality(F(c)) = 1 /\ (IsFacebook(c) <=> c = f) /\ visit.ad \in Siblings(c, listed)
          BY <2>4, <4>2
        <5>2. CASE c = f BY <1>7, <2>5, <5>1, <5>2
        <5>3. CASE c # f BY <1>7, <2>5, <5>1, <5>3
        <5> QED BY <5>2, <5>3
      <4> QED BY <4>1, <4>2
    <3> QED BY <1>8, <1>10, <2>1, <2>2, <2>5, <3>1
  <2>6. CASE LooksFacebook(visit) = "false"
    <3>1. ASSUME NEW c \in listed PROVE Claims(c, listed, visit) <=> c = visit.ad
      <4>1. CASE inquiry.ads[visit.ad].host # inquiry.ads[c].host BY <2>3, <4>1
      <4>2. CASE inquiry.ads[visit.ad].host = inquiry.ads[c].host BY <1>7, <2>4, <2>6, <4>2
      <4> QED BY <4>1, <4>2
    <3> QED BY <1>8, <2>6, <3>1
  <2> QED BY <1>1, <2>5, <2>6
<1> QED BY <1>9, <1>10

LEMMA RowsOfOthers ==
    ASSUME Asked, inquiry.kind = "attribution", NEW listed \in SUBSET Ads, NEW visit, IsVisit(visit),
           visit.test \/ visit.early \/ visit.ad \notin listed
    PROVE  ReportedBy(listed, visit) = {}
BY DEF ReportedBy, Claims, Siblings, IsVisit

LEMMA AskedImplies == Asked => VisitsAreReportedOnce
<1> SUFFICES ASSUME Asked, inquiry.kind = "attribution", "visit" \in DOMAIN inquiry
             PROVE  VisitsAreReportedOnce
  BY DEF VisitsAreReportedOnce
<1> DEFINE visit == inquiry.visit
           listed == inquiry.listed
           recorded == FindCampaign(visit.ad, visit)
           moved == [visit EXCEPT !.ad = recorded]
<1>1. IsVisit(visit) /\ listed \in SUBSET Ads BY DEF Asked
<1>2. CASE visit.test \/ visit.early \/ visit.ad \notin listed
  <2>1. ReportedBy(listed, visit) = {} BY <1>1, <1>2, RowsOfOthers
  <2> QED BY <1>2, <2>1 DEF VisitsAreReportedOnce
<1>3. ASSUME ~visit.test, ~visit.early, visit.ad \in listed, LooksFacebook(visit) # "null",
             \A c \in Ads : inquiry.ads[c].host # NoHost
      PROVE  Cardinality(ReportedBy(listed, visit)) = 1
  <2>1. ReportedBy(listed, visit)
           = IF LooksFacebook(visit) = "true" /\ Cardinality(FacebookOf(visit.ad, listed)) = 1
             THEN FacebookOf(visit.ad, listed) ELSE {visit.ad}
    BY <1>1, <1>3, RowsOfAVisit
  <2>2. Cardinality({visit.ad}) = 1 BY FS_Singleton
  <2> QED BY <2>1, <2>2
<1>4. ASSUME ~visit.test, ~visit.early, visit.ad \in listed, LooksFacebook(visit) # "null",
             \A c \in Ads : inquiry.ads[c].host # NoHost
      PROVE  ReportedBy(Ads, moved) = {recorded}
  <2> DEFINE F(c) == FacebookOf(c, Ads)
  <2>1. \A c \in Ads : F(c) \subseteq Ads /\ IsFiniteSet(F(c)) /\ (Cardinality(F(c)) = 1 => \E f : F(c) = {f})
    BY ReportsAssumption, FS_Subset, FS_Singleton DEF FacebookOf, Siblings
  <2>2. \A c \in Ads : {d \in Ads : IsFacebook(d)} \cap Siblings(c, Ads) = F(c)
    BY DEF FacebookOf, Siblings
  <2>3. visit.ad \in Ads BY <1>1 DEF IsVisit
  <2>4. InferredFacebook(visit) <=> LooksFacebook(visit) = "true"
    BY <1>1, <1>4 DEF InferredFacebook, LooksFacebook, IsVisit
  <2>5. /\ recorded \in Ads
        /\ LooksFacebook(visit) = "true" /\ Cardinality(F(recorded)) = 1 => F(recorded) = {recorded}
    <3>1. CASE ~InferredFacebook(visit) BY <2>3, <2>4, <3>1 DEF FindCampaign
    <3>2. CASE IsFacebook(visit.ad)
      <4>1. recorded = visit.ad BY <3>2 DEF FindCampaign
      <4>2. visit.ad \in F(visit.ad) BY <2>3, <3>2 DEF FacebookOf, Siblings
      <4> QED BY <2>1, <2>3, <4>1, <4>2
    <3>3. CASE InferredFacebook(visit) /\ ~IsFacebook(visit.ad)
      <4> DEFINE candidates == {d \in Ads : IsFacebook(d)}
                 pool == IF F(visit.ad) = {} THEN candidates ELSE F(visit.ad)
      <4>1. recorded = IF Cardinality(pool) = 1 THEN CHOOSE d \in pool : TRUE ELSE visit.ad
        <5> DEFINE Pool(same) == IF same = {} THEN candidates ELSE same
                   Pick(same) == IF Cardinality(Pool(same)) = 1
                                 THEN CHOOSE d \in Pool(same) : TRUE ELSE visit.ad
        <5>1. recorded = PickForFacebook(visit.ad) BY <3>3 DEF FindCampaign
        <5>2. candidates \cap Siblings(visit.ad, Ads) = F(visit.ad) BY <2>2, <2>3
        <5>3. PickForFacebook(visit.ad) = Pick(candidates \cap Siblings(visit.ad, Ads))
          BY DEF PickForFacebook
        <5>4. Pick(candidates \cap Siblings(visit.ad, Ads)) = Pick(F(visit.ad))
          <6> HIDE DEF Pick
          <6> QED BY <5>2
        <5> QED BY <5>1, <5>3, <5>4
      <4>2. IsFiniteSet(pool) /\ pool \subseteq candidates
        BY <2>1, <2>3, ReportsAssumption, FS_Subset DEF FacebookOf, Siblings
      <4>3. CASE Cardinality(pool) = 1
        <5>1. PICK f : pool = {f} BY <4>2, <4>3, FS_Singleton
        <5>2. recorded = f /\ f \in Ads /\ IsFacebook(f) BY <4>1, <4>2, <4>3, <5>1
        <5>3. f \in F(f) BY <5>2 DEF FacebookOf, Siblings
        <5> QED BY <2>1, <5>2, <5>3
      <4>4. CASE Cardinality(pool) # 1
        <5>1. recorded = visit.ad BY <4>1, <4>4
        <5>2. F(visit.ad) = {} => Cardinality(F(visit.ad)) # 1 BY FS_EmptySet
        <5>3. Cardinality(F(visit.ad)) # 1 BY <4>4, <5>2
        <5> QED BY <2>3, <5>1, <5>3
      <4> QED BY <4>3, <4>4
    <3> QED BY <3>1, <3>2, <3>3
  <2>6. /\ IsVisit(moved) /\ moved.ad = recorded /\ moved.utm = visit.utm /\ moved.fbclid = visit.fbclid
        /\ moved.test = visit.test /\ moved.early = visit.early
    <3> HIDE DEF recorded, visit
    <3> QED BY <1>1, <2>5 DEF IsVisit
  <2> HIDE DEF moved, recorded
  <2>7. LooksFacebook(moved) = LooksFacebook(visit) BY <2>6 DEF LooksFacebook
  <2>8. ReportedBy(Ads, moved)
           = IF LooksFacebook(moved) = "true" /\ Cardinality(FacebookOf(moved.ad, Ads)) = 1
             THEN FacebookOf(moved.ad, Ads) ELSE {moved.ad}
    BY <1>4, <2>5, <2>6, <2>7, RowsOfAVisit
  <2> QED BY <2>5, <2>6, <2>7, <2>8
<1> QED BY <1>2, <1>3, <1>4 DEF VisitsAreReportedOnce
=============================================================================

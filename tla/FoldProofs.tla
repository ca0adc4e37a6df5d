----------------------------- MODULE FoldProofs -----------------------------
(***************************************************************************)
(* What a fold over a finite set returns, for any operation, base, choice  *)
(* of the next element and values: Val(f, x) is what f says of x.  The     *)
(* library's theorems of induction take a formula as a parameter; here the *)
(* least counterexample is a set, and the operation is a constant that the *)
(* module is instantiated with.                                            *)
(***************************************************************************)
EXTENDS Integers, Folds, FiniteSetTheorems, TLAPS

CONSTANTS Op(_, _), Base, Val(_, _), Choose(_)

LEMMA LeastSubset ==
    ASSUME NEW S, IsFiniteSet(S), NEW B \in SUBSET (SUBSET S), B # {}
    PROVE  \E x \in B : \A y \in B : y \subseteq x => y = x
<1>1. IsWellFoundedOn(StrictSubsetOrdering(S), SUBSET S)
  BY FS_StrictSubsetOrderingWellFounded, FS_FiniteSubsetsOfFinite
<1>2. PICK x \in B : \A y \in B : ~(<<y, x>> \in StrictSubsetOrdering(S)) BY <1>1, WFMin
<1>3. ASSUME NEW y \in B, y \subseteq x PROVE y = x BY <1>2, <1>3 DEF StrictSubsetOrdering
<1> QED BY <1>3

-----------------------------------------------------------------------------
\* g is the recursive function that folds f over each subset of S.
IsFold(g, f, S) ==
    g = [s \in SUBSET S |->
            IF s = {} THEN Base ELSE Op(Val(f, Choose(s)), g[s \ {Choose(s)}])]

FoldOn(f, S) == CHOOSE g : IsFold(g, f, S)
Fold(f, S) == FoldOn(f, S)[S]

Chooses(S) == \A s \in SUBSET S : s # {} => Choose(s) \in s

LEMMA FoldIsMapThenFoldSet ==
    ASSUME NEW f, NEW S
    PROVE  MapThenFoldSet(Op, Base, LAMBDA i : Val(f, i), Choose, S) = Fold(f, S)
BY DEF MapThenFoldSet, Fold, FoldOn, IsFold

Unfolds(g, f, S) ==
    /\ g[{}] = Base
    /\ \A s \in SUBSET S : s # {} => g[s] = Op(Val(f, Choose(s)), g[s \ {Choose(s)}])

LEMMA FoldEquation ==
    ASSUME NEW f, NEW S, NEW g, IsFold(g, f, S) PROVE Unfolds(g, f, S)
<1>1. \A s \in SUBSET S :
         g[s] = IF s = {} THEN Base ELSE Op(Val(f, Choose(s)), g[s \ {Choose(s)}])
  BY DEF IsFold
<1>2. {} \in SUBSET S OBVIOUS
<1> QED BY <1>1, <1>2 DEF Unfolds

\* Two folds of the same values agree on the subsets they both know.
LEMMA FoldsAgree ==
    ASSUME NEW S, IsFiniteSet(S), NEW T, NEW f, NEW e, NEW g, NEW h,
           IsFold(g, f, S), IsFold(h, e, T), Chooses(S),
           \A x \in S \cap T : Val(f, x) = Val(e, x)
    PROVE  \A s \in SUBSET (S \cap T) : g[s] = h[s]
<1>0. Unfolds(g, f, S) /\ Unfolds(h, e, T) BY FoldEquation
<1> DEFINE B == {s \in SUBSET (S \cap T) : g[s] # h[s]}
<1> SUFFICES ASSUME B # {} PROVE FALSE OBVIOUS
<1>1. IsFiniteSet(S \cap T) /\ S \cap T \in SUBSET S BY FS_Subset
<1>2. \E s \in B : \A y \in B : y \subseteq s => y = s
  <2>1. B \in SUBSET (SUBSET (S \cap T)) OBVIOUS
  <2> HIDE DEF B
  <2> QED BY <1>1, <2>1, LeastSubset
<1> PICK s \in B : \A y \in B : y \subseteq s => y = s BY <1>2
<1>3. s # {} BY <1>0 DEF Unfolds
<1>4. s \in SUBSET S /\ s \in SUBSET T OBVIOUS
<1> DEFINE c == Choose(s)
<1>5. c \in s BY <1>3, <1>4 DEF Chooses
<1>6. s \ {c} \notin B BY <1>5
<1>7. g[s \ {c}] = h[s \ {c}] BY <1>6
<1>8. Val(f, c) = Val(e, c) BY <1>4, <1>5
<1>9. g[s] = Op(Val(f, c), g[s \ {c}]) BY <1>0, <1>3, <1>4 DEF Unfolds
<1>10. h[s] = Op(Val(e, c), h[s \ {c}]) BY <1>0, <1>3, <1>4 DEF Unfolds
<1> QED BY <1>7, <1>8, <1>9, <1>10

LEMMA FoldExists ==
    ASSUME NEW S, IsFiniteSet(S), NEW f, Chooses(S)
    PROVE  IsFold(FoldOn(f, S), f, S)
<1> DEFINE B == {s \in SUBSET S : ~ \E g : IsFold(g, f, s)}
<1>1. SUFFICES ASSUME B # {} PROVE FALSE
  <2>1. S \in SUBSET S OBVIOUS
  <2>2. \E g : IsFold(g, f, S) BY <1>1, <2>1
  <2> QED BY <2>2 DEF FoldOn
<1>2. \E t \in B : \A y \in B : y \subseteq t => y = t
  <2>1. B \in SUBSET (SUBSET S) OBVIOUS
  <2> HIDE DEF B
  <2> QED BY <1>1, <2>1, LeastSubset
<1> PICK t \in B : \A y \in B : y \subseteq t => y = t BY <1>2
<1>3. t \in SUBSET S /\ Chooses(t) BY DEF Chooses
<1>4. ASSUME NEW s \in SUBSET t, s # t PROVE IsFold(FoldOn(f, s), f, s) /\ IsFiniteSet(s) /\ Chooses(s)
  <2>1. s \in SUBSET S /\ s \notin B BY <1>3, <1>4
  <2>2. \E g : IsFold(g, f, s) BY <2>1
  <2> QED BY <1>3, <2>1, <2>2, FS_Subset DEF FoldOn, Chooses
<1> DEFINE rest(s) == s \ {Choose(s)}
           g == [s \in SUBSET t |-> IF s = {} THEN Base ELSE Op(Val(f, Choose(s)), Fold(f, rest(s)))]
<1>5. ASSUME NEW s \in SUBSET t, s # t PROVE g[s] = Fold(f, s)
  <2> DEFINE h == FoldOn(f, s)
  <2>1. IsFold(h, f, s) /\ IsFiniteSet(s) /\ Chooses(s) BY <1>4, <1>5
  <2>2. CASE s = {}
    <3>1. h[s] = Base BY <2>1, <2>2, FoldEquation DEF Unfolds
    <3> QED BY <3>1, <2>2 DEF Fold
  <2>3. CASE s # {}
    <3>1. Choose(s) \in s BY <2>1, <2>3 DEF Chooses
    <3>2. rest(s) \in SUBSET t /\ rest(s) # t /\ rest(s) \in SUBSET s BY <3>1
    <3>3. IsFold(FoldOn(f, rest(s)), f, rest(s)) BY <1>4, <3>2
    <3>4. \A x \in SUBSET (s \cap rest(s)) : h[x] = FoldOn(f, rest(s))[x]
      <4> HIDE DEF h, rest
      <4> QED BY <2>1, <3>3, FoldsAgree
    <3>5. rest(s) \in SUBSET (s \cap rest(s)) BY <3>2
    <3>6. h[rest(s)] = Fold(f, rest(s)) BY <3>4, <3>5 DEF Fold
    <3>7. h[s] = Op(Val(f, Choose(s)), h[rest(s)]) BY <2>1, <2>3, FoldEquation DEF Unfolds
    <3>8. g[s] = Op(Val(f, Choose(s)), Fold(f, rest(s))) BY <2>3
    <3>9. h[s] = Fold(f, s) BY DEF Fold
    <3> HIDE DEF g, h, rest
    <3> QED BY <3>6, <3>7, <3>8, <3>9
  <2> QED BY <2>2, <2>3
<1>6. ASSUME NEW s \in SUBSET t, s # {} PROVE Fold(f, rest(s)) = g[rest(s)]
  <2>1. Choose(s) \in s BY <1>3, <1>6 DEF Chooses
  <2>2. rest(s) \in SUBSET t /\ rest(s) # t BY <2>1
  <2> HIDE DEF g, rest
  <2> QED BY <1>5, <2>2
<1>7. IsFold(g, f, t)
  <2>1. ASSUME NEW s \in SUBSET t
        PROVE  g[s] = IF s = {} THEN Base ELSE Op(Val(f, Choose(s)), g[s \ {Choose(s)}])
    <3>1. CASE s = {} BY <3>1
    <3>2. CASE s # {}
      <4>1. g[s] = Op(Val(f, Choose(s)), Fold(f, rest(s))) BY <3>2
      <4>2. Fold(f, rest(s)) = g[rest(s)] BY <1>6, <3>2
      <4> HIDE DEF g
      <4> QED BY <3>2, <4>1, <4>2
    <3> QED BY <3>1, <3>2
  <2>2. g = [s \in SUBSET t |-> g[s]] OBVIOUS
  <2> HIDE DEF g
  <2> QED BY <2>1, <2>2 DEF IsFold
<1>8. \E k : IsFold(k, f, t)
  <2> HIDE DEF g
  <2> QED BY <1>7
<1> QED BY <1>8

\* The fold of nothing, and of a set by the element chosen and the fold of the rest.
THEOREM FoldSteps ==
    ASSUME NEW S, IsFiniteSet(S), NEW f, Chooses(S)
    PROVE  /\ Fold(f, {}) = Base
           /\ S # {} => Fold(f, S) = Op(Val(f, Choose(S)), Fold(f, S \ {Choose(S)}))
<1> DEFINE g == FoldOn(f, S)
<1>1. IsFold(g, f, S) BY FoldExists
<1>2. ASSUME NEW s \in SUBSET S PROVE g[s] = Fold(f, s)
  <2>1. IsFiniteSet(s) /\ Chooses(s) BY FS_Subset DEF Chooses
  <2>2. IsFold(FoldOn(f, s), f, s) BY <2>1, FoldExists
  <2> HIDE DEF g
  <2>3. \A x \in SUBSET (S \cap s) : g[x] = FoldOn(f, s)[x] BY <1>1, <2>2, FoldsAgree
  <2>4. s \in SUBSET (S \cap s) OBVIOUS
  <2> QED BY <2>3, <2>4 DEF Fold
<1>3. g[{}] = Base BY <1>1, FoldEquation DEF Unfolds
<1>4. S # {} => g[S] = Op(Val(f, Choose(S)), g[S \ {Choose(S)}]) BY <1>1, FoldEquation DEF Unfolds
<1> HIDE DEF g
<1> QED BY <1>2, <1>3, <1>4

\* Only the values on the set matter.
THEOREM FoldReadsTheSet ==
    ASSUME NEW S, IsFiniteSet(S), NEW f, NEW e, Chooses(S), \A x \in S : Val(f, x) = Val(e, x)
    PROVE  Fold(f, S) = Fold(e, S)
<1>1. IsFold(FoldOn(f, S), f, S) /\ IsFold(FoldOn(e, S), e, S) BY FoldExists
<1>2. \A s \in SUBSET (S \cap S) : FoldOn(f, S)[s] = FoldOn(e, S)[s] BY <1>1, FoldsAgree
<1> QED BY <1>2 DEF Fold
=============================================================================

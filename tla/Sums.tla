-------------------------------- MODULE Sums --------------------------------
(***************************************************************************)
(* Finite sums, SumFunctionOnSet of Functions: what a wallet's entries or  *)
(* the accounts' channels add up to. A sum is a fold in an order chosen by *)
(* CHOOSE; the lemmas say that the order does not matter. Induction over   *)
(* finite sets is by a minimal counterexample (WFMin), which speaks of a   *)
(* set where FS_Induction speaks of an operator.                           *)
(***************************************************************************)
EXTENDS Integers, FiniteSetTheorems, TLAPS

Pick(s) == CHOOSE x \in s : TRUE

\* g folds f over every subset of X.
IsFoldOver(g, f, X) ==
  g = [s \in SUBSET X |-> IF s = {} THEN 0 ELSE f[Pick(s)] + g[s \ {Pick(s)}]]
FoldOf(f, X) == CHOOSE g : IsFoldOver(g, f, X)

LEMMA SumIsFold ==
  ASSUME NEW f, NEW X PROVE SumFunctionOnSet(f, X) = FoldOf(f, X)[X]
<1> QED BY DEF SumFunctionOnSet, FoldFunctionOnSet, MapThenFoldSet, FoldOf, IsFoldOver, Pick

\* A set of subsets of a finite set has a minimal member.
LEMMA SmallestSubset ==
  ASSUME NEW S, IsFiniteSet(S), NEW T \in SUBSET (SUBSET S), T # {}
  PROVE  \E X \in T : \A Y \in T : Y \subseteq X => Y = X
<1>1. SUBSET S = FiniteSubsetsOf(S)
  BY FS_FiniteSubsetsOfFinite
<1>2. IsWellFoundedOn(StrictSubsetOrdering(S), SUBSET S)
  BY <1>1, FS_StrictSubsetOrderingWellFounded
<1>3. PICK X \in T : \A Y \in T : ~ (<<Y, X>> \in StrictSubsetOrdering(S))
  BY <1>2, WFMin
<1> QED BY <1>3 DEF StrictSubsetOrdering

\* A set whose elements are all one.
LEMMA AtMostOne ==
  ASSUME NEW S, \A x, y \in S : x = y
  PROVE  Cardinality(S) <= 1
<1>1. CASE S = {}
  BY <1>1, FS_EmptySet
<1>2. CASE S # {}
  <2>1. PICK x \in S : TRUE
    BY <1>2
  <2>2. S = {x}
    BY <2>1
  <2> QED BY <2>2, FS_Singleton
<1> QED BY <1>1, <1>2

LEMMA PickIsIn == ASSUME NEW s, s # {} PROVE Pick(s) \in s
<1> QED BY DEF Pick

\* Two folds agree where both are defined.
LEMMA FoldsAgree ==
  ASSUME NEW f, NEW X, NEW Y, NEW g, NEW h, IsFoldOver(g, f, X), IsFoldOver(h, f, Y),
         NEW Z, IsFiniteSet(Z), Z \subseteq X, Z \subseteq Y
  PROVE  g[Z] = h[Z]
<1> DEFINE T == {s \in SUBSET Z : g[s] # h[s]}
<1>1. SUFFICES ASSUME T # {} PROVE FALSE
  OBVIOUS
<1>2. PICK s \in T : \A t \in T : t \subseteq s => t = s
  <2>1. T \in SUBSET (SUBSET Z)
    OBVIOUS
  <2> HIDE DEF T
  <2> QED BY <1>1, <2>1, SmallestSubset
<1>3. s \in SUBSET X /\ s \in SUBSET Y
  BY <1>2
<1>4. /\ g[s] = IF s = {} THEN 0 ELSE f[Pick(s)] + g[s \ {Pick(s)}]
      /\ h[s] = IF s = {} THEN 0 ELSE f[Pick(s)] + h[s \ {Pick(s)}]
  BY <1>3 DEF IsFoldOver
<1>5. s # {} => s \ {Pick(s)} \in SUBSET Z /\ s \ {Pick(s)} # s
  BY <1>2, PickIsIn
<1>6. s # {} => g[s \ {Pick(s)}] = h[s \ {Pick(s)}]
  BY <1>2, <1>5
<1> QED BY <1>2, <1>4, <1>6

LEMMA FoldExists ==
  ASSUME NEW f, NEW S, IsFiniteSet(S)
  PROVE  IsFoldOver(FoldOf(f, S), f, S)
<1> DEFINE Has(X) == \E g : IsFoldOver(g, f, X)
           T == {X \in SUBSET S : ~ Has(X)}
<1>1. SUFFICES ASSUME T # {} PROVE FALSE
  <2>1. T = {} => Has(S)
    OBVIOUS
  <2> QED BY <2>1 DEF FoldOf
<1>2. PICK X \in T : \A Y \in T : Y \subseteq X => Y = X
  <2>1. T \in SUBSET (SUBSET S)
    OBVIOUS
  <2> HIDE DEF T
  <2> QED BY <1>1, <2>1, SmallestSubset
<1>3. \A Y \in SUBSET X : Y # X => IsFoldOver(FoldOf(f, Y), f, Y)
  <2>1. ASSUME NEW Y \in SUBSET X, Y # X PROVE Has(Y)
    BY <1>2, <2>1
  <2> QED BY <2>1 DEF FoldOf
<1>4. IsFiniteSet(X)
  BY <1>2, FS_Subset
<1> DEFINE Rest(s) == s \ {Pick(s)}
           h == [s \in SUBSET X |->
                   IF s = {} THEN 0 ELSE f[Pick(s)] + FoldOf(f, Rest(s))[Rest(s)]]
<1>5. ASSUME NEW s \in SUBSET X, s # {} PROVE h[Rest(s)] = FoldOf(f, Rest(s))[Rest(s)]
  <2> DEFINE r == Rest(s)
  <2>1. r \in SUBSET X /\ r # X /\ IsFiniteSet(r)
    BY <1>4, <1>5, PickIsIn, FS_Subset
  <2>2. IsFoldOver(FoldOf(f, r), f, r)
    BY <1>3, <2>1
  <2>3. FoldOf(f, r)[r] = IF r = {} THEN 0 ELSE f[Pick(r)] + FoldOf(f, r)[Rest(r)]
    <3> HIDE DEF r
    <3> QED BY <2>2 DEF IsFoldOver
  <2>4. h[r] = IF r = {} THEN 0 ELSE f[Pick(r)] + FoldOf(f, Rest(r))[Rest(r)]
    <3> HIDE DEF r
    <3> QED BY <2>1
  <2>5. r # {} => FoldOf(f, r)[Rest(r)] = FoldOf(f, Rest(r))[Rest(r)]
    <3> SUFFICES ASSUME r # {} PROVE FoldOf(f, r)[Rest(r)] = FoldOf(f, Rest(r))[Rest(r)]
      OBVIOUS
    <3> HIDE DEF r
    <3>1. Rest(r) \in SUBSET X /\ Rest(r) # X /\ IsFiniteSet(Rest(r)) /\ Rest(r) \subseteq r
      BY <2>1, PickIsIn, FS_Subset
    <3>2. IsFoldOver(FoldOf(f, Rest(r)), f, Rest(r))
      BY <1>3, <3>1
    <3> HIDE DEF Rest
    <3> QED BY <2>2, <3>1, <3>2, FoldsAgree
  <2> QED BY <2>3, <2>4, <2>5
<1>6. IsFoldOver(h, f, X)
  <2>1. h = [s \in SUBSET X |-> IF s = {} THEN 0 ELSE f[Pick(s)] + h[Rest(s)]]
    <3>1. ASSUME NEW s \in SUBSET X
          PROVE  h[s] = IF s = {} THEN 0 ELSE f[Pick(s)] + h[Rest(s)]
      <4>1. h[s] = IF s = {} THEN 0 ELSE f[Pick(s)] + FoldOf(f, Rest(s))[Rest(s)]
        BY DEF h
      <4> HIDE DEF h, Rest
      <4> QED BY <1>5, <4>1
    <3>2. h = [s \in SUBSET X |-> h[s]]
      OBVIOUS
    <3> HIDE DEF h, Rest
    <3> QED BY <3>1, <3>2
  <2> HIDE DEF h
  <2> QED BY <2>1 DEF IsFoldOver
<1> HIDE DEF h
<1> QED BY <1>2, <1>6

LEMMA SumSplits ==
  ASSUME NEW f, NEW S, IsFiniteSet(S)
  PROVE  SumFunctionOnSet(f, S) =
           IF S = {} THEN 0 ELSE f[Pick(S)] + SumFunctionOnSet(f, S \ {Pick(S)})
<1> DEFINE R == S \ {Pick(S)}
<1>1. IsFiniteSet(R) /\ R \subseteq S
  BY FS_Subset
<1>2. IsFoldOver(FoldOf(f, S), f, S) /\ IsFoldOver(FoldOf(f, R), f, R)
  BY <1>1, FoldExists
<1>3. FoldOf(f, S)[R] = FoldOf(f, R)[R]
  BY <1>1, <1>2, FoldsAgree
<1>4. FoldOf(f, S)[S] = IF S = {} THEN 0 ELSE f[Pick(S)] + FoldOf(f, S)[R]
  BY <1>2 DEF IsFoldOver
<1> QED BY <1>3, <1>4, SumIsFold

-----------------------------------------------------------------------------

\* The sum of nothing.
LEMMA SumEmpty == ASSUME NEW f PROVE SumFunctionOnSet(f, {}) = 0
<1> QED BY SumSplits, FS_EmptySet

\* A sum of integers is one, and any element may be taken out first.
LEMMA SumTake ==
  ASSUME NEW f, NEW S, IsFiniteSet(S), \A x \in S : f[x] \in Int
  PROVE  /\ SumFunctionOnSet(f, S) \in Int
         /\ \A x \in S : SumFunctionOnSet(f, S) = f[x] + SumFunctionOnSet(f, S \ {x})
<1> DEFINE Sum(s) == SumFunctionOnSet(f, s)
           Good(s) == Sum(s) \in Int /\ \A x \in s : Sum(s) = f[x] + Sum(s \ {x})
           T == {s \in SUBSET S : ~ Good(s)}
<1>1. SUFFICES ASSUME T # {} PROVE FALSE
  <2>1. T = {} => Good(S)
    OBVIOUS
  <2> QED BY <2>1
<1>2. PICK s \in T : \A t \in T : t \subseteq s => t = s
  <2>1. T \in SUBSET (SUBSET S)
    OBVIOUS
  <2> HIDE DEF T
  <2> QED BY <1>1, <2>1, SmallestSubset
<1>3. \A t \in SUBSET s : t # s => Good(t)
  BY <1>2
<1>4. IsFiniteSet(s) /\ s \subseteq S
  BY <1>2, FS_Subset
<1>5. Sum(s) = IF s = {} THEN 0 ELSE f[Pick(s)] + Sum(s \ {Pick(s)})
  BY <1>4, SumSplits
<1> HIDE DEF Sum
<1>6. CASE s = {}
  BY <1>2, <1>5, <1>6
<1>7. CASE s # {}
  <2> DEFINE p == Pick(s)
  <2>1. p \in s /\ f[p] \in Int
    BY <1>4, <1>7, PickIsIn
  <2> HIDE DEF p
  <2>2. Good(s \ {p})
    BY <1>3, <2>1
  <2>3. Sum(s) = f[p] + Sum(s \ {p})
    BY <1>5, <1>7 DEF p
  <2>4. ASSUME NEW x \in s, x # p PROVE Sum(s) = f[x] + Sum(s \ {x})
    <3>1. Good(s \ {x})
      BY <1>3
    <3>2. Sum(s \ {p}) = f[x] + Sum((s \ {p}) \ {x})
      BY <2>2, <2>4
    <3>3. Sum(s \ {x}) = f[p] + Sum((s \ {x}) \ {p})
      BY <2>1, <2>4, <3>1
    <3>4. (s \ {p}) \ {x} = (s \ {x}) \ {p}
      OBVIOUS
    <3>5. Good((s \ {p}) \ {x})
      BY <1>3, <2>1
    <3>6. f[x] \in Int /\ f[p] \in Int /\ Sum((s \ {p}) \ {x}) \in Int
      BY <1>4, <2>1, <3>5
    <3>7. Sum(s) = f[p] + (f[x] + Sum((s \ {p}) \ {x}))
      BY <2>3, <3>2
    <3>8. Sum(s \ {x}) = f[p] + Sum((s \ {p}) \ {x})
      BY <3>3, <3>4
    <3> QED BY <3>6, <3>7, <3>8
  <2>5. Sum(s) \in Int
    BY <2>1, <2>2, <2>3
  <2>6. Good(s)
    BY <2>3, <2>4, <2>5
  <2> QED BY <1>2, <2>6
<1> QED BY <1>6, <1>7

\* Only the values over S count.
LEMMA SumSame ==
  ASSUME NEW f, NEW g, NEW S, IsFiniteSet(S), \A x \in S : f[x] = g[x]
  PROVE  SumFunctionOnSet(f, S) = SumFunctionOnSet(g, S)
<1> DEFINE T == {s \in SUBSET S : SumFunctionOnSet(f, s) # SumFunctionOnSet(g, s)}
<1>1. SUFFICES ASSUME T # {} PROVE FALSE
  OBVIOUS
<1>2. PICK s \in T : \A t \in T : t \subseteq s => t = s
  <2>1. T \in SUBSET (SUBSET S)
    OBVIOUS
  <2> HIDE DEF T
  <2> QED BY <1>1, <2>1, SmallestSubset
<1>3. IsFiniteSet(s) /\ s \subseteq S
  BY <1>2, FS_Subset
<1>4. /\ SumFunctionOnSet(f, s) =
           IF s = {} THEN 0 ELSE f[Pick(s)] + SumFunctionOnSet(f, s \ {Pick(s)})
      /\ SumFunctionOnSet(g, s) =
           IF s = {} THEN 0 ELSE g[Pick(s)] + SumFunctionOnSet(g, s \ {Pick(s)})
  BY <1>3, SumSplits
<1>5. s # {}
  BY <1>2, <1>4
<1>6. SumFunctionOnSet(f, s \ {Pick(s)}) = SumFunctionOnSet(g, s \ {Pick(s)})
  BY <1>2, <1>5, PickIsIn
<1> QED BY <1>2, <1>3, <1>4, <1>5, <1>6, PickIsIn

\* One entry changes.
LEMMA SumChange ==
  ASSUME NEW f, NEW g, NEW S, IsFiniteSet(S), NEW x \in S,
         \A y \in S : f[y] \in Int /\ g[y] \in Int, \A y \in S \ {x} : g[y] = f[y]
  PROVE  /\ SumFunctionOnSet(f, S) \in Int
         /\ SumFunctionOnSet(g, S) = SumFunctionOnSet(f, S) + g[x] - f[x]
<1>1. IsFiniteSet(S \ {x})
  BY FS_Subset
<1>2. SumFunctionOnSet(g, S \ {x}) = SumFunctionOnSet(f, S \ {x})
  BY <1>1, SumSame
<1>3. /\ SumFunctionOnSet(f, S) = f[x] + SumFunctionOnSet(f, S \ {x})
      /\ SumFunctionOnSet(g, S) = g[x] + SumFunctionOnSet(g, S \ {x})
      /\ SumFunctionOnSet(f, S) \in Int
  BY SumTake
<1>4. SumFunctionOnSet(f, S \ {x}) \in Int
  BY <1>1, SumTake
<1> QED BY <1>2, <1>3, <1>4

\* Zeros add up to zero.
LEMMA SumZeros ==
  ASSUME NEW f, NEW S, IsFiniteSet(S), \A x \in S : f[x] = 0
  PROVE  SumFunctionOnSet(f, S) = 0
<1> DEFINE T == {s \in SUBSET S : SumFunctionOnSet(f, s) # 0}
<1>1. SUFFICES ASSUME T # {} PROVE FALSE
  OBVIOUS
<1>2. PICK s \in T : \A t \in T : t \subseteq s => t = s
  <2>1. T \in SUBSET (SUBSET S)
    OBVIOUS
  <2> HIDE DEF T
  <2> QED BY <1>1, <2>1, SmallestSubset
<1>3. IsFiniteSet(s) /\ s \subseteq S
  BY <1>2, FS_Subset
<1>4. SumFunctionOnSet(f, s) =
        IF s = {} THEN 0 ELSE f[Pick(s)] + SumFunctionOnSet(f, s \ {Pick(s)})
  BY <1>3, SumSplits
<1>5. s # {}
  BY <1>2, <1>4
<1>6. SumFunctionOnSet(f, s \ {Pick(s)}) = 0
  BY <1>2, <1>5, PickIsIn
<1> QED BY <1>2, <1>3, <1>4, <1>5, <1>6, PickIsIn

\* So do natural numbers to one.
LEMMA SumNat ==
  ASSUME NEW f, NEW S, IsFiniteSet(S), \A x \in S : f[x] \in Nat
  PROVE  SumFunctionOnSet(f, S) \in Nat
<1> DEFINE T == {s \in SUBSET S : SumFunctionOnSet(f, s) \notin Nat}
<1>1. SUFFICES ASSUME T # {} PROVE FALSE
  OBVIOUS
<1>2. PICK s \in T : \A t \in T : t \subseteq s => t = s
  <2>1. T \in SUBSET (SUBSET S)
    OBVIOUS
  <2> HIDE DEF T
  <2> QED BY <1>1, <2>1, SmallestSubset
<1>3. IsFiniteSet(s) /\ s \subseteq S
  BY <1>2, FS_Subset
<1>4. SumFunctionOnSet(f, s) =
        IF s = {} THEN 0 ELSE f[Pick(s)] + SumFunctionOnSet(f, s \ {Pick(s)})
  BY <1>3, SumSplits
<1>5. s # {}
  BY <1>2, <1>4
<1>6. SumFunctionOnSet(f, s \ {Pick(s)}) \in Nat
  BY <1>2, <1>5, PickIsIn
<1>7. f[Pick(s)] \in Nat
  BY <1>3, <1>5, PickIsIn
<1> QED BY <1>2, <1>4, <1>5, <1>6, <1>7
=============================================================================

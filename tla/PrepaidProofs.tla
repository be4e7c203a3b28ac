--------------------------- MODULE PrepaidProofs ----------------------------
(* The promise of Prepaid, for every capacity, hold and credit. Inv is     *)
(* inductive as it stands: admission needs room and cover, and a charge is *)
(* never more than the hold that dies with it.                             *)
EXTENDS Prepaid, FiniteSetTheorems, TLAPS

\* Arithmetic of holds: one more, and no fewer for more attempts.
LEMMA HoldArithmetic ==
  ASSUME PrepaidConstants, NEW m \in Nat, NEW n \in Nat, m <= n
  PROVE  /\ Hold * m \in Nat
         /\ Hold * (n + 1) = Hold * n + Hold
         /\ Hold * m <= Hold * n
         /\ m < n => Hold * m + Hold <= Hold * n
<1>h. Hold \in Nat \ {0}
  BY DEF PrepaidConstants
<1>1. PICK d \in Nat : n = m + d
  BY n - m \in Nat
<1>2. Hold * n = Hold * m + Hold * d
  BY <1>h, <1>1
<1>3. Hold * m \in Nat /\ Hold * d \in Nat
  BY <1>h
<1>4. d >= 1 => Hold * d >= Hold
  BY <1>h, <1>1
<1>5. Hold * (n + 1) = Hold * n + Hold
  BY <1>h
<1> QED
  BY <1>h, <1>1, <1>2, <1>3, <1>4, <1>5

\* The open attempts are finitely many, and fewer when some are taken away.
LEMMA OpenFinite ==
  ASSUME PrepaidConstants, TypeOK, NEW T \in SUBSET open
  PROVE  /\ IsFiniteSet(open) /\ IsFiniteSet(T)
         /\ Cardinality(open) \in Nat /\ Cardinality(T) \in Nat
         /\ Cardinality(T) <= Cardinality(open)
<1>1. IsFiniteSet(open)
  BY FS_Subset DEF PrepaidConstants, TypeOK
<1>2. IsFiniteSet(T) /\ Cardinality(T) <= Cardinality(open)
  BY <1>1, FS_Subset
<1> QED
  BY <1>1, <1>2, FS_CardinalityType

\* Init establishes the invariant.
LEMMA InvInit == PrepaidConstants /\ Init => Inv
<1> SUFFICES ASSUME PrepaidConstants, Init PROVE Inv
  OBVIOUS
<1>1. Cardinality(open) = 0
  BY FS_EmptySet DEF Init
<1>2. Hold * 0 = 0
  BY DEF PrepaidConstants
<1> QED
  BY <1>1, <1>2 DEF PrepaidConstants, Init, Inv, TypeOK, WithinCapacity, Covered

\* Every step keeps the invariant.
LEMMA InvStep == ASSUME PrepaidConstants PROVE Inv /\ [Next]_vars => Inv'
<1> SUFFICES ASSUME Inv, [Next]_vars PROVE Inv'
  OBVIOUS
<1> USE DEF PrepaidConstants
<1>n. Cardinality(open) \in Nat /\ IsFiniteSet(open) /\ balance \in Int
  BY OpenFinite, open \in SUBSET open DEF Inv, TypeOK
<1>1. ASSUME NEW r \in Ids, Reserve(r) PROVE Inv'
  <2>1. Cardinality(open') = Cardinality(open) + 1
    BY <1>1, <1>n, FS_AddElement DEF Reserve
  <2>2. Hold * Cardinality(open') = Hold * Cardinality(open) + Hold
    BY <2>1, <1>n, HoldArithmetic
  <2>3. Hold * Cardinality(open) \in Nat
    BY <1>n
  <2>4. TypeOK' /\ WithinCapacity'
    BY <1>1, <2>1, <1>n DEF Inv, Reserve, Room, TypeOK, WithinCapacity
  <2>5. Covered'
    BY <1>1, <2>2, <2>3, <1>n DEF Reserve, Cover, Covered
  <2> QED
    BY <2>4, <2>5 DEF Inv
<1>2. ASSUME NEW S \in SUBSET Ids, Release(S) PROVE Inv'
  <2>1. open' \in SUBSET open
    BY <1>2 DEF Release
  <2>2. Cardinality(open') \in Nat /\ Cardinality(open') <= Cardinality(open)
    BY <2>1, OpenFinite DEF Inv
  <2>3. Hold * Cardinality(open') <= Hold * Cardinality(open)
    BY <2>2, <1>n, HoldArithmetic
  <2>4. Hold * Cardinality(open') \in Nat /\ Hold * Cardinality(open) \in Nat
    BY <2>2, <1>n
  <2> QED
    BY <1>2, <1>n, <2>1, <2>2, <2>3, <2>4
    DEF Inv, Release, TypeOK, WithinCapacity, Covered
<1>3. ASSUME NEW r \in Ids, NEW n \in 1 .. Hold, Settle(r, n) PROVE Inv'
  <2>1. /\ Cardinality(open') \in Nat
        /\ Cardinality(open) = Cardinality(open') + 1
    <3>1. IsFiniteSet(open') /\ Cardinality(open') = Cardinality(open) - 1
      BY <1>3, <1>n, FS_RemoveElement DEF Settle
    <3>2. Cardinality(open') \in Nat
      BY <3>1, FS_CardinalityType
    <3> QED
      BY <3>1, <3>2, <1>n
  <2>2. Hold * Cardinality(open) = Hold * Cardinality(open') + Hold
    BY <2>1, HoldArithmetic
  <2>3. Hold * Cardinality(open') \in Nat
    BY <2>1
  <2> QED
    BY <1>3, <1>n, <2>1, <2>2, <2>3
    DEF Inv, Settle, TypeOK, WithinCapacity, Covered
<1>4. ASSUME NEW n \in Credits, Credit(n) PROVE Inv'
  <2>1. Hold * Cardinality(open) \in Nat
    BY <1>n
  <2> QED
    BY <1>4, <1>n, <2>1 DEF Inv, Credit, TypeOK, WithinCapacity, Covered
<1>5. CASE UNCHANGED vars
  BY <1>5 DEF vars, Inv, TypeOK, WithinCapacity, Covered
<1> QED
  BY <1>1, <1>2, <1>3, <1>4, <1>5 DEF Next

\* However attempts are admitted, settled, released and paid for, no more than
\* Capacity are open and the balance covers the worst case of them all.
THEOREM PrepaidSafe ==
  ASSUME PrepaidConstants
  PROVE  Spec => [](WithinCapacity /\ Covered)
<1>1. Inv => WithinCapacity /\ Covered
  BY DEF Inv
<1> QED
  BY InvInit, InvStep, <1>1, PTL DEF Spec
=============================================================================

------------------------------ MODULE Prepaid -------------------------------
(***************************************************************************)
(* What the prepaid wallet promises (docs/adr/0001-prepaid-wallet-ledger.md*)
(* and becca/services/wallet.py), without saying how: attempts are admitted*)
(* against a capacity and a worst-case hold each, and end either free of   *)
(* charge or with a charge no larger than their hold. Dispatch implements  *)
(* it with open = the calls in 'dialling'.                                 *)
(***************************************************************************)
EXTENDS Integers, FiniteSets

CONSTANTS
  Ids,       \* attempts, each open at most once at a time
  Capacity,  \* how many may be open together
  Hold,      \* the worst case one attempt may cost
  Opening,   \* the balance to begin with
  Credits,   \* amounts that may be credited
  MaxBalance \* BOUND: a credit takes the balance no higher

\* What the constants must be; a hypothesis of every theorem about them.
PrepaidConstants ==
  /\ IsFiniteSet(Ids)
  /\ Capacity \in Nat /\ Hold \in Nat \ {0}
  /\ Opening \in Nat /\ Credits \subseteq Nat \ {0} /\ MaxBalance \in Nat

VARIABLES balance, open
vars == <<balance, open>>

Init == balance = Opening /\ open = {}

Room  == Cardinality(open) < Capacity
Cover == balance - Hold * Cardinality(open) - Hold >= 0

\* Admission: room for one more, and cover for every hold including it.
Reserve(r) ==
  /\ r \in Ids \ open
  /\ Room /\ Cover
  /\ open' = open \cup {r}
  /\ UNCHANGED balance

\* Attempts that cost nothing: failed, refunded, timed out, zero duration.
Release(S) ==
  /\ S \subseteq open
  /\ open' = open \ S
  /\ UNCHANGED balance

\* A conversation ends: its hold dies as its charge is debited.
Settle(r, n) ==
  /\ r \in open
  /\ n \in 1 .. Hold
  /\ open' = open \ {r}
  /\ balance' = balance - n

Credit(n) ==
  /\ balance + n <= MaxBalance
  /\ balance' = balance + n
  /\ UNCHANGED open

Next ==
  \/ \E r \in Ids : Reserve(r) \/ \E n \in 1 .. Hold : Settle(r, n)
  \/ \E S \in SUBSET Ids : Release(S)
  \/ \E n \in Credits : Credit(n)

Spec == Init /\ [][Next]_vars

TypeOK == balance \in Int /\ open \subseteq Ids

\* Never more open attempts than the capacity.
WithinCapacity == Cardinality(open) <= Capacity

\* The balance covers the worst case of all that is open; it follows that the
\* wallet never goes below zero.
Covered == Hold * Cardinality(open) <= balance

Inv == TypeOK /\ WithinCapacity /\ Covered
=============================================================================

----------------------------- MODULE MCDispatch -----------------------------
(* Small instances of Dispatch for TLC.                                    *)
EXTENDS Dispatch, TLC

CONSTANTS a1, a2, i1

\* All items belong to one run, or i1 to a1 and the others to a2.
OneRun  == [i \in Items |-> a1]
TwoRuns == [i \in Items |-> IF i = i1 THEN a1 ELSE a2]

\* Sound where all items belong to one run: no definition tells workers,
\* handlers or items of a run apart.
Symmetry == Permutations(Workers) \cup Permutations(Handlers) \cup Permutations(Items)
=============================================================================

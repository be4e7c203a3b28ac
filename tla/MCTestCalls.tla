----------------------------- MODULE MCTestCalls -----------------------------
(* Small instances of TestCalls for TLC.                                   *)
EXTENDS TestCalls, TLC

\* Sound without liveness: no definition tells tests or screens apart.
Symmetry == Permutations(Tests) \cup Permutations(Pollers)
=============================================================================

------------------------------ MODULE MCLaunch ------------------------------
(* Small instances of Launch for TLC.                                      *)
EXTENDS Launch, TLC

\* Sound: no definition tells two requests of one kind apart.
Symmetry == Permutations(Launches) \cup Permutations(Saves) \cup Permutations(Deletes)
=============================================================================

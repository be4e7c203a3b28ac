----------------------------- MODULE AgentLife ------------------------------
(***************************************************************************)
(* What the launch sequence promises of one agent (FR-LAUNCH-3, "executed  *)
(* transactionally"; services/launch.py; agents.py:41-50): it is open      *)
(* until it is deleted or launched by one request, entirely, and that is   *)
(* for good.                                                               *)
(***************************************************************************)
CONSTANTS Launches, Open, Deleted, LaunchedBy(_)

VARIABLE life

Init == life = Open

Next == life = Open /\ life' \in {Deleted} \cup {LaunchedBy(l) : l \in Launches}

Spec == Init /\ [][Next]_life
=============================================================================

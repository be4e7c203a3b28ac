------------------------------- MODULE Launch -------------------------------
(***************************************************************************)
(* The life of ONE agent up to its run: concurrent requests that save a    *)
(* version, delete the agent (becca/services/agents.py) or launch it       *)
(* (becca/services/launch.py, becca/web/client_plane/launch.py).           *)
(*                                                                         *)
(* A launch reads the agent, builds its run assistant at Telnyx and then   *)
(* writes the queue, the schedule and the agent's row. All its database    *)
(* statements share one transaction, but nothing is locked before the      *)
(* writes: what keeps concurrent requests apart are the keys of the tables *)
(* (run_schedule.agent_id, agent_version (agent_id, n), foreign keys),     *)
(* which Postgres checks at the writes. So a request is one action up to   *)
(* its last read, one per group of gateway calls, and one for its writes.  *)
(*                                                                         *)
(* The run assistant stands for itself, its TeXML application and its      *)
(* insight group, named by the request that made them. The scratch         *)
(* assistant is TestCalls' business, what follows a launch is Dispatch's.  *)
(***************************************************************************)
EXTENDS Integers

CONSTANTS
  Launches,    \* POST /agents/{id}/launch requests
  Saves,       \* requests that save a version
  Deletes,     \* POST /agents/{id}/delete requests
  Events,      \* environment events that may happen (see AllEvents)
  None

AllEvents ==
  { "crash",      \* the web process dies in the middle of a request
    "error",      \* a gateway call fails, or a database statement does
    "ambiguous" } \* an assistant was created and the answer lost

Requests == Launches \cup Saves \cup Deletes

ASSUME LaunchAssumption ==
  /\ None \notin Launches
  /\ Launches \cap Saves = {} /\ Launches \cap Deletes = {} /\ Saves \cap Deletes = {}
  /\ Events \subseteq AllEvents

VARIABLES
  alive,     \* the agent's row exists
  status,    \* agent.status: before launch, or "launched" for all after it
  tested,    \* a test_run row of the agent exists
  version,   \* the number n of agent.current_version_id
  versions,  \* the numbers of its agent_version rows
  queue,     \* requests whose contacts are in queue_item
  schedule,  \* the request that wrote run_schedule
  assistant, \* the request whose assistant is telnyx_run_assistant_id
  made,      \* run assistants that exist at Telnyx
  pc,        \* where each request is
  read       \* launch: the version it read; save: the number it will use

agent == <<alive, status, tested, version, versions>>
run   == <<queue, schedule, assistant>>
vars  == <<agent, run, made, pc, read>>

Init ==
  /\ alive = TRUE /\ status = "open" /\ tested = FALSE
  /\ version = 1 /\ versions = {1}
  /\ queue = {} /\ schedule = None /\ assistant = None
  /\ made = {}
  /\ pc = [r \in Requests |-> "idle"] /\ read = [r \in Requests |-> 0]

Goto(r, from, to) == pc[r] = from /\ pc' = [pc EXCEPT ![r] = to]

\* A test call leaves a test_run row, whatever becomes of it.
PlaceTestCall ==
  /\ alive
  /\ tested' = TRUE
  /\ UNCHANGED <<alive, status, version, versions, run, made, pc, read>>

-----------------------------------------------------------------------------
(* Launching.                                                              *)

\* get_agent, and the pre-flight on what it read.
Begin(l) ==
  /\ Goto(l, "idle", "building")
  /\ alive /\ status = "open" /\ tested
  /\ read' = [read EXCEPT ![l] = version]
  /\ UNCHANGED <<agent, run, made>>

\* LaunchRefused: for the agent, or for its list, wallet, number or channels.
Refuse(l) ==
  /\ Goto(l, "idle", "over")
  /\ UNCHANGED <<agent, run, made, read>>

\* Insight group, insights, and last the assistant.
Build(l) ==
  /\ Goto(l, "building", "built")
  /\ made' = made \cup {l}
  /\ UNCHANGED <<agent, run, read>>

\* A gateway call raises. _compensate deletes what `created` has recorded: no
\* assistant yet, for its creation is the last call. Mutant: it deletes what
\* the agent's row names.
BuildFailsOnRow(l) ==
  /\ Goto(l, "building", "over")
  /\ "error" \in Events
  /\ made' = made \ {assistant}
  /\ UNCHANGED <<agent, run, read>>

BuildFails(l) ==
  /\ Goto(l, "building", "over")
  /\ \/ "error" \in Events /\ UNCHANGED made
     \/ "ambiguous" \in Events /\ made' = made \cup {l}
  /\ UNCHANGED <<agent, run, read>>

\* Steps 7 to 9 and the commit. The schedule's key is the agent, which it also
\* references. Mutant: the queue's own key, which has the contact in it, for
\* two launches with different lists.
CommitByContact(l) ==
  /\ Goto(l, "built", "over")
  /\ alive
  /\ queue' = queue \cup {l} /\ schedule' = l /\ assistant' = l
  /\ status' = "launched"
  /\ UNCHANGED <<alive, tested, version, versions, made, read>>

Commit(l) ==
  /\ Goto(l, "built", "over")
  /\ alive /\ schedule = None
  /\ queue' = queue \cup {l} /\ schedule' = l /\ assistant' = l
  /\ status' = "launched"
  /\ UNCHANGED <<alive, tested, version, versions, made, read>>

\* A key collides, the agent is gone, or a statement fails: all is rolled back
\* except what is at Telnyx, for steps 7 to 9 are not compensated.
CommitFails(l) ==
  /\ Goto(l, "built", "over")
  /\ ~alive \/ schedule # None \/ "error" \in Events
  /\ UNCHANGED <<agent, run, made, read>>

-----------------------------------------------------------------------------
(* Saving a version: read the status and max(n) + 1, then insert.          *)

\* Mutant: without the + 1.
SaveReadLast(s) ==
  /\ Goto(s, "idle", "saving")
  /\ alive /\ status = "open"
  /\ \E n \in versions :
       /\ \A k \in versions : k <= n
       /\ read' = [read EXCEPT ![s] = n]
  /\ UNCHANGED <<agent, run, made>>

SaveRead(s) ==
  /\ Goto(s, "idle", "saving")
  /\ alive /\ status = "open"
  /\ \E n \in versions :
       /\ \A k \in versions : k <= n
       /\ read' = [read EXCEPT ![s] = n + 1]
  /\ UNCHANGED <<agent, run, made>>

\* Gone, or AgentFrozen.
SaveRefused(s) ==
  /\ Goto(s, "idle", "over")
  /\ ~alive \/ status # "open"
  /\ UNCHANGED <<agent, run, made, read>>

\* INSERT agent_version, UPDATE agent.current_version_id. UNIQUE (agent_id, n).
\* Mutant: without the key.
SaveWriteAnyN(s) ==
  /\ Goto(s, "saving", "over")
  /\ alive
  /\ versions' = versions \cup {read[s]} /\ version' = read[s]
  /\ UNCHANGED <<alive, status, tested, run, made, read>>

SaveWrite(s) ==
  /\ Goto(s, "saving", "over")
  /\ alive /\ read[s] \notin versions
  /\ versions' = versions \cup {read[s]} /\ version' = read[s]
  /\ UNCHANGED <<alive, status, tested, run, made, read>>

SaveFails(s) ==
  /\ Goto(s, "saving", "over")
  /\ ~alive \/ read[s] \in versions \/ "error" \in Events
  /\ UNCHANGED <<agent, run, made, read>>

-----------------------------------------------------------------------------
(* Deleting the agent: read the status, then delete what it owns.          *)

DeleteRead(d) ==
  /\ Goto(d, "idle", "deleting")
  /\ alive /\ status = "open"
  /\ UNCHANGED <<agent, run, made, read>>

DeleteRefused(d) ==
  /\ Goto(d, "idle", "over")
  /\ ~alive \/ status # "open"
  /\ UNCHANGED <<agent, run, made, read>>

\* Queue items reference their contacts, the schedule its list and its agent:
\* a run keeps them all. Mutant: rows that cascade.
DeleteCascades(d) ==
  /\ Goto(d, "deleting", "over")
  /\ alive
  /\ alive' = FALSE /\ tested' = FALSE /\ versions' = {}
  /\ UNCHANGED <<status, version, run, made, read>>

DeleteWrite(d) ==
  /\ Goto(d, "deleting", "over")
  /\ alive /\ schedule = None
  /\ alive' = FALSE /\ tested' = FALSE /\ versions' = {}
  /\ UNCHANGED <<status, version, run, made, read>>

\* A foreign key refuses, a rival delete was first (then nothing is left to
\* delete), or a row that references the agent was inserted meanwhile.
DeleteFails(d) ==
  /\ Goto(d, "deleting", "over")
  /\ UNCHANGED <<agent, run, made, read>>

-----------------------------------------------------------------------------
\* The web process dies: the transaction is rolled back.
Crash(r) ==
  /\ "crash" \in Events
  /\ \E from \in {"building", "built", "saving", "deleting"} : Goto(r, from, "over")
  /\ UNCHANGED <<agent, run, made, read>>

Next ==
  \/ PlaceTestCall
  \/ \E l \in Launches :
       Begin(l) \/ Refuse(l) \/ Build(l) \/ BuildFails(l) \/ Commit(l) \/ CommitFails(l)
  \/ \E s \in Saves : SaveRead(s) \/ SaveRefused(s) \/ SaveWrite(s) \/ SaveFails(s)
  \/ \E d \in Deletes :
       DeleteRead(d) \/ DeleteRefused(d) \/ DeleteWrite(d) \/ DeleteFails(d)
  \/ \E r \in Requests : Crash(r)

Spec == Init /\ [][Next]_vars

-----------------------------------------------------------------------------
\* Every variable stays in its type, and a version to be saved is not the first.
TypeOK ==
  /\ alive \in BOOLEAN /\ tested \in BOOLEAN /\ status \in {"open", "launched"}
  /\ version \in Nat /\ versions \subseteq Nat
  /\ queue \subseteq Launches /\ made \subseteq Launches
  /\ schedule \in Launches \cup {None} /\ assistant \in Launches \cup {None}
  /\ pc \in [Requests -> {"idle", "building", "built", "saving", "deleting", "over"}]
  /\ read \in [Requests -> Nat]
  /\ \A s \in Saves : pc[s] = "saving" => read[s] > 1

\* However many tabs save at once, the current version is the newest one and no
\* number is skipped or reused (FR-AGENT-8, agents.py:102-152).
CurrentIsNewest == alive => versions = 1 .. version

\* A run never dials with an assistant that is not at Telnyx: no failure of a
\* rival launch deletes it (launch.py:394-405).
RunAssistantLives == schedule # None => assistant \in made

\* What the database says of the agent's life; everything a launch writes is
\* in it, so a launch that wrote only a part of it is no life at all.
Life == [alive |-> alive, status |-> status, queue |-> queue,
         schedule |-> schedule, assistant |-> assistant]

WithoutRun(exists) == [alive |-> exists, status |-> "open", queue |-> {},
                       schedule |-> None, assistant |-> None]

Launched(l) == [alive |-> TRUE, status |-> "launched", queue |-> {l},
                schedule |-> l, assistant |-> l]

\* Entirely or not at all, by one request, for good; and never both launched
\* and deleted.
P == INSTANCE AgentLife WITH
       life <- Life, Open <- WithoutRun(TRUE), Deleted <- WithoutRun(FALSE),
       LaunchedBy <- Launched

LaunchedOrDeletedOnce == P!Spec

-----------------------------------------------------------------------------
(* What the documents say and the code does not do.                        *)

\* FR-LAUNCH-7: "Launching freezes the insight schema for the life of the run".
\* The dispatcher and the results read the current version (dispatch.py:184,
\* results.py:94), the assistant was built from the version the launch read.
SchemaIsFrozen == schedule # None => version = read[schedule]
=============================================================================

------------------------------ MODULE Monitor -------------------------------
(***************************************************************************)
(* The live monitor of a run: an event stream of counters                  *)
(* (becca/web/client_plane/results.py: run_events; services/results.py:    *)
(* run_counters, notify_run; services/ingest.py: _notify).                 *)
(*                                                                         *)
(* A browser's stream LISTENs before its first query and queries again on  *)
(* every notification and after five seconds without one. Outcomes and     *)
(* results NOTIFY; claims, a stop and the end of the run do not, and a     *)
(* lost connection loses notifications without a word.                     *)
(***************************************************************************)
EXTENDS Integers

CONSTANT MaxEvents \* bound: changes of the run's rows

ASSUME MonitorAssumption == MaxEvents \in Nat

VARIABLES
  events,  \* changes of the queue and the results so far
  status,  \* agent.status: "moving" (scheduled, dialling) or "over"
  inbox,   \* the stream's asyncio.Queue
  stream,  \* "off", "query", "wait", "closed"
  view     \* the last snapshot sent: events seen and status

monitorVars == <<events, status, inbox, stream, view>>

MonitorInit ==
  /\ events = 0 /\ status = "moving"
  /\ inbox = 0 /\ stream = "off"
  /\ view = [events |-> 0, status |-> "moving"]

Listening == stream \in {"query", "wait"}

\* A notification reaches the queue of a stream that listens, or is lost.
Notified == inbox' \in {inbox, inbox + (IF Listening THEN 1 ELSE 0)}

\* An outcome is ingested or results are stored.
Progress ==
  /\ events < MaxEvents /\ events' = events + 1
  /\ Notified
  /\ UNCHANGED <<status, stream, view>>

\* A claim, a skip: no notification.
SilentProgress ==
  /\ events < MaxEvents /\ status = "moving" /\ events' = events + 1
  /\ UNCHANGED <<status, inbox, stream, view>>

RunOver ==
  /\ status = "moving" /\ status' = "over"
  /\ UNCHANGED <<events, inbox, stream, view>>

Connect ==
  /\ stream = "off" /\ stream' = "query"
  /\ UNCHANGED <<events, status, inbox, view>>

\* A snapshot; the one that shows the run over is the last.
Snapshot ==
  /\ stream = "query"
  /\ view' = [events |-> events, status |-> status]
  /\ stream' = IF status = "over" THEN "closed" ELSE "wait"
  /\ UNCHANGED <<events, status, inbox>>

Woken ==
  /\ stream = "wait" /\ inbox > 0
  /\ inbox' = inbox - 1 /\ stream' = "query"
  /\ UNCHANGED <<events, status, view>>

\* Five seconds. Mutant: the stream waits for notifications alone.
HeartbeatNever ==
  /\ stream = "wait" /\ inbox > 0
  /\ stream' = "query"
  /\ UNCHANGED <<events, status, inbox, view>>

Heartbeat ==
  /\ stream = "wait" /\ inbox = 0
  /\ stream' = "query"
  /\ UNCHANGED <<events, status, inbox, view>>

\* The browser leaves.
Disconnect ==
  /\ Listening
  /\ stream' = "closed"
  /\ UNCHANGED <<events, status, inbox, view>>

MonitorNext ==
  \/ Progress \/ SilentProgress \/ RunOver
  \/ Connect \/ Snapshot \/ Woken \/ Heartbeat \/ Disconnect

MonitorFairness ==
  WF_monitorVars(Snapshot) /\ WF_monitorVars(Woken \/ Heartbeat)

MonitorSpec == MonitorInit /\ [][MonitorNext]_monitorVars /\ MonitorFairness

-----------------------------------------------------------------------------
(* Properties.                                                             *)

\* "A missed notification only delays, never strands": however the run moves, the
\* screen shows it as it is again and again, or its stream is over ...
ViewCatchesUp == []<>(~ Listening \/ view = [events |-> events, status |-> status])

\* ... and "the stream ends itself once the run stops moving".
StreamEnds == Listening /\ status = "over" ~> stream = "closed"

\* The monitor follows its run to the end, whatever notifications are lost.
MonitorCatchesUp == ViewCatchesUp /\ StreamEnds
=============================================================================

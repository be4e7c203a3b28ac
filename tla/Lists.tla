------------------------------- MODULE Lists --------------------------------
(***************************************************************************)
(* The contact lists of ONE agent: uploading, mapping, replacing the file, *)
(* making a field optional, with the version editor and the launch that    *)
(* copies the rows (becca/services/contacts.py;                            *)
(* becca/web/client_plane/contacts.py, agents.py; services/launch.py).     *)
(*                                                                         *)
(* A request reads the list, then the agent, computes, and writes. Its     *)
(* first write locks the list's row until the commit and nothing is read   *)
(* after it, so all its writes are one action. Rows are known by what they *)
(* were computed from. The contract is one field, required or not, with a  *)
(* column in each file: a mapping is "full" when it has it. A file is taken*)
(* to have a row that can be dialled.                                      *)
(***************************************************************************)
EXTENDS Integers, FiniteSets

CONSTANTS
  Lists, Files,
  Tasks   \* requests, 1..n in order of arrival

ASSUME ListsAssumption == Tasks \subseteq Nat \ {0} /\ "none" \notin Files \cup Lists

VARIABLES
  list,     \* contact_list: file, column_mapping, and its contacts' origin
  contract, \* whether the agent's current version requires the field
  queued,   \* the run's queue: its list, rows, and the contract launched; or NoQueue
  task,     \* what each request is for and has read
  step,     \* where it is
  lapsed    \* <<list, "file">>: rows written from a file replaced meanwhile;
            \* <<list, "contract">>: a version saved that its rows were not computed for;
            \* <<list, "launch">>: changed between a launch's pre-flight and its copy

listsVars == <<list, contract, queued, task, step, lapsed>>

Contracts == {"required", "optional"}
Mappings == {"full", "bare"}
Computed(f, m, k) == [file |-> f, mapping |-> m, contract |-> k]
Entry(f, m, k) == [file |-> f, mapping |-> m, rows |-> Computed(f, m, k)]
NoList == Entry("none", "bare", "optional")
NoQueue == [list |-> "none", rows |-> NoList.rows, contract |-> "optional"]
NoTask == [op |-> "none", list |-> "none", upload |-> "none", entry |-> NoList,
           contract |-> "optional"]

\* unmapped_required.
Unmapped(m, k) == k = "required" /\ m = "bare"

ListsInit ==
  /\ contract \in Contracts
  /\ list \in [Lists -> {NoList} \cup {Entry(f, m, contract) : f \in Files, m \in Mappings}]
  /\ queued = NoQueue
  /\ task = [t \in Tasks |-> NoTask] /\ step = [t \in Tasks |-> "idle"]
  /\ lapsed = {}

-----------------------------------------------------------------------------
(* Reading: get_list, then get_agent; a launch the other way round, then   *)
(* its pre-flight.                                                         *)

Proceed(t, from, to) == step[t] = from /\ step' = [step EXCEPT ![t] = to]
Arrived(t) == \A u \in Tasks : u < t => step[u] # "idle"

ReadList(t, op, l, f) ==
  /\ Proceed(t, "idle", "half") /\ Arrived(t)
  /\ op # "upload" => list[l] # NoList
  /\ op = "upload" => list[l] = NoList
  /\ task' = [task EXCEPT ![t] = [NoTask EXCEPT !.op = op, !.list = l, !.upload = f,
                                                !.entry = list[l]]]
  /\ UNCHANGED <<list, contract, queued, lapsed>>

ReadAgent(t) ==
  /\ Proceed(t, "half", "ready") /\ task[t].op # "launch"
  /\ task' = [task EXCEPT ![t].contract = contract]
  /\ UNCHANGED <<list, contract, queued, lapsed>>

BeginLaunch(t, l) ==
  /\ Proceed(t, "idle", "half") /\ Arrived(t)
  /\ queued = NoQueue
  /\ task' = [task EXCEPT ![t] = [NoTask EXCEPT !.op = "launch", !.list = l,
                                                !.contract = contract]]
  /\ UNCHANGED <<list, contract, queued, lapsed>>

\* Mutant: a list is launched whatever its mapping.
MappedOkAlways(entry, k) == TRUE
MappedOk(entry, k) == ~ Unmapped(entry.mapping, k)

PreFlight(t) ==
  /\ Proceed(t, "half", "ready") /\ task[t].op = "launch"
  /\ list[task[t].list] # NoList /\ MappedOk(list[task[t].list], task[t].contract)
  /\ task' = [task EXCEPT ![t].entry = list[task[t].list]]
  /\ UNCHANGED <<list, contract, queued, lapsed>>

-----------------------------------------------------------------------------
(* Writing. A contact in the queue cannot be deleted (a foreign key without*)
(* ON DELETE), which fails the request.                                    *)

\* Mutant: contacts are deleted whatever refers to them.
DeletableAlways(l) == TRUE
Deletable(l) == queued.list # l

Overtaken(l, base, k) ==
  (lapsed \ {<<l, "file">>, <<l, "contract">>})
    \cup (IF base = list[l].file THEN {} ELSE {<<l, "file">>})
    \cup (IF k = contract THEN {} ELSE {<<l, "contract">>})

Upload(t) ==
  LET l == task[t].list IN
  /\ task[t].op = "upload" /\ list[l] = NoList
  /\ \E m \in Mappings : list' = [list EXCEPT ![l] = Entry(task[t].upload, m, task[t].contract)]
  /\ lapsed' = Overtaken(l, "none", task[t].contract)
  /\ UNCHANGED <<contract, queued>>

\* Only column_mapping and the contacts: the file stays what it is by now.
Saved(entry, f, m, k) == [file |-> entry.file, mapping |-> m, rows |-> Computed(f, m, k)]

SaveMapping(t) ==
  LET l == task[t].list IN
  /\ task[t].op = "map" /\ Deletable(l)
  /\ \E m \in Mappings :
       list' = [list EXCEPT ![l] = Saved(@, task[t].entry.file, m, task[t].contract)]
  /\ lapsed' = Overtaken(l, task[t].entry.file, task[t].contract)
  /\ UNCHANGED <<contract, queued>>

\* Columns that survive keep their targets, the others are suggested.
ReplaceFile(t) ==
  LET l == task[t].list IN
  /\ task[t].op = "replace" /\ Deletable(l)
  /\ \E m \in Mappings : list' = [list EXCEPT ![l] = Entry(task[t].upload, m, task[t].contract)]
  /\ lapsed' = Overtaken(l, list[l].file, task[t].contract)
  /\ UNCHANGED <<contract, queued>>

\* Mutant: the rows are computed with the contract that was read.
RelaxedOld(t) == task[t].contract
Relaxed(t) == "optional"

\* A new version, and this list's rows under it; other lists' rows stay.
MakeOptional(t) ==
  LET l == task[t].list entry == task[t].entry IN
  /\ task[t].op = "optional" /\ Deletable(l) /\ queued = NoQueue
  /\ contract' = "optional"
  /\ list' = [list EXCEPT ![l] = Saved(@, entry.file, entry.mapping, Relaxed(t))]
  /\ lapsed' = Overtaken(l, entry.file, contract) \cup ((Lists \ {l}) \X {"contract"})
  /\ UNCHANGED queued

\* Step 7 of the launch, gateway calls after the pre-flight: the rows as they are by
\* now, for the version that was read.
Copy(t) ==
  LET l == task[t].list IN
  /\ task[t].op = "launch" /\ queued = NoQueue
  /\ queued' = [list |-> l, rows |-> list[l].rows, contract |-> task[t].contract]
  /\ lapsed' = lapsed \cup (IF list[l] = task[t].entry THEN {} ELSE {<<l, "launch">>})
  /\ UNCHANGED <<list, contract>>

Write(t) ==
  /\ Proceed(t, "ready", "over") /\ task' = [task EXCEPT ![t] = NoTask]
  /\ \/ Upload(t) \/ SaveMapping(t) \/ ReplaceFile(t) \/ MakeOptional(t) \/ Copy(t)

\* The chip editor submits the whole content; the lists are left as they are.
SaveVersion(t) ==
  /\ Proceed(t, "idle", "over") /\ Arrived(t)
  /\ queued = NoQueue
  /\ contract' \in Contracts
  /\ lapsed' = lapsed \cup (IF contract' = contract THEN {} ELSE Lists \X {"contract"})
  /\ UNCHANGED <<list, queued, task>>

\* A refusal, a key that collides, a foreign key, a crash: nothing is written.
Abandon(t) ==
  /\ step[t] \in {"half", "ready"} /\ step' = [step EXCEPT ![t] = "over"]
  /\ task' = [task EXCEPT ![t] = NoTask]
  /\ UNCHANGED <<list, contract, queued, lapsed>>

ListsNext ==
  \E t \in Tasks :
    \/ \E op \in {"map", "optional"}, l \in Lists : ReadList(t, op, l, "none")
    \/ \E op \in {"upload", "replace"}, l \in Lists, f \in Files : ReadList(t, op, l, f)
    \/ \E l \in Lists : BeginLaunch(t, l)
    \/ ReadAgent(t) \/ PreFlight(t) \/ Write(t) \/ SaveVersion(t) \/ Abandon(t)

ListsSpec == ListsInit /\ [][ListsNext]_listsVars

-----------------------------------------------------------------------------
(* Properties.                                                             *)

\* "Every mapping change recomputes the stored rows from the original bytes, so
\* nothing accumulates from stale mappings": a list's rows come from its mapping, and
\* from its file and the agent's contract unless a request wrote what it had computed
\* from a replaced file, or a version was saved elsewhere.
RowsStaleOnlyIfLapsed ==
  \A l \in Lists :
    /\ list[l].rows.mapping = list[l].mapping
    /\ list[l].rows.file = list[l].file \/ <<l, "file">> \in lapsed
    /\ list[l] = NoList \/ list[l].rows.contract = contract \/ <<l, "contract">> \in lapsed

\* "All required variables are mapped": a run dials without a required value only if
\* its list was changed while the launch was at Telnyx.
LaunchedUnmappedOnlyIfChanged ==
  queued # NoQueue /\ queued.contract = "required" /\ queued.rows.mapping = "bare" =>
    <<queued.list, "launch">> \in lapsed

\* The rows a run dials stay what they were at the launch, whatever is saved after.
QueuedRowsStay ==
  queued # NoQueue => queued' = queued /\ list'[queued.list].rows = queued.rows

\* From the upload to the run: rows follow file, mapping and contract, a launch takes
\* mapped rows, and the run keeps them, but for the overlaps lapsed names.
RowsFollow ==
  [][/\ RowsStaleOnlyIfLapsed' /\ LaunchedUnmappedOnlyIfChanged'
     /\ QueuedRowsStay]_listsVars
=============================================================================

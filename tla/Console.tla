------------------------------ MODULE Console -------------------------------
(***************************************************************************)
(* What makes a client account ready to dial: its channels, its contact    *)
(* acknowledgement, its numbers and their billing group                    *)
(* (becca/services/console.py, billing.py, launch.py: acknowledge;         *)
(* becca/web/console_plane/numbers.py).                                    *)
(*                                                                         *)
(* Each request is one transaction at READ COMMITTED: a statement sees what*)
(* is committed when it starts and its own writes, and holds the rows it   *)
(* has written until the end. Requests do not see each other's writes, and *)
(* only writes of the same row wait for each other; the steps of a request *)
(* are its statements and its gateway calls, which an assignment makes with*)
(* its transaction open. missed says what a request could not see.         *)
(***************************************************************************)
EXTENDS Integers, FiniteSets, FiniteSetsExt

CONSTANTS
  Accounts, Numbers,
  Edits,    \* requests, 1..n in order of arrival
  Ceiling,  \* settings.channel_ceiling
  Sizes     \* channel counts staff may enter

ASSUME ConsoleAssumption ==
  /\ "none" \notin Accounts /\ Accounts \cap Numbers = {}
  /\ Edits \subseteq Nat \ {0}
  /\ Ceiling \in Nat /\ Sizes \subseteq Nat /\ IsFiniteSet(Accounts)

VARIABLES
  allocation,   \* client_account.channel_allocation
  acknowledged, \* accounts with acknowledged_at
  active,       \* accounts whose status is 'active', not 'onboarding'
  holder,       \* phone_number.client_account_id
  group,        \* telnyx_billing_group_id: the edit that created it, 0 for none
  attached,     \* Telnyx: the billing group of each number
  scheduled, dialling, \* accounts with a run launched, with one dialling
  edit,         \* what each request asks for and has read
  at,           \* where it is
  locks,        \* rows it has written or selected FOR UPDATE
  missed,       \* accounts and numbers others changed, here or at Telnyx, while it was open
  begun         \* accounts whose run began to dial while it was open

rows    == <<allocation, acknowledged, active, holder, group>>
runs    == <<scheduled, dialling>>
consoleVars == <<rows, runs, attached, edit, at, locks, missed, begun>>

Owners == Accounts \cup {"none"}
Groups == Edits \cup {0}

\* from: the holder it found; seen: the other accounts' channels (allocate) or
\* the group id (assign); wakes: the account it sets to active; todo: numbers to
\* attach; whole: whether no gateway call raised.
NoEdit == [op |-> "none", account |-> "none", number |-> "none", from |-> "none",
           size |-> 0, seen |-> 0, wakes |-> "none", todo |-> {}, whole |-> "yes"]

Trio(acks, channels, numbers) == acks /\ channels > 0 /\ numbers

\* Any account earlier requests, one at a time, can have left; its numbers may
\* have been assigned before billing groups existed.
ConsoleInit ==
  /\ allocation \in [Accounts -> Sizes \cup {0}]
  /\ MapThenSumSet(LAMBDA a : allocation[a], Accounts) <= Ceiling
  /\ acknowledged \in SUBSET Accounts
  /\ holder \in [Numbers -> Owners]
  /\ active = {a \in Accounts :
                 Trio(a \in acknowledged, allocation[a], \E n \in Numbers : holder[n] = a)}
  /\ scheduled = {} /\ dialling = {}
  /\ group = [a \in Accounts |-> 0]
  /\ attached = [n \in Numbers |-> 0]
  /\ edit = [e \in Edits |-> NoEdit] /\ at = [e \in Edits |-> "new"]
  /\ locks = [e \in Edits |-> {}]
  /\ missed = [e \in Edits |-> {}] /\ begun = [e \in Edits |-> {}]

Ended == {"done", "refused", "dead"}
Open(e) == at[e] \notin {"new"} \cup Ended

\* Nobody else has written the row. Mutant: writers do not wait.
FreeAlways(e, x) == e \in Edits
Free(e, x) == \A f \in Edits \ {e} : x \notin locks[f]
Held(a) == {n \in Numbers : holder[n] = a}

\* The other accounts' channels. Mutant: none counts.
SumNothing(a) == 0
Others(a) == MapThenSumSet(LAMBDA b : allocation[b], Accounts \ {a})

\* Requests arrive in order; each arrival is the first statement of its
\* transaction, so that nothing committed before it is missed.
Arrives(e, request) ==
  /\ at[e] = "new" /\ \A f \in Edits : f < e => at[f] # "new"
  /\ edit' = [edit EXCEPT ![e] = request]

Go(e, from, to) == at[e] = from /\ at' = [at EXCEPT ![e] = to]
Lock(e, xs) == locks' = [locks EXCEPT ![e] = @ \cup xs]

\* Everybody else with an open transaction has missed a change of xs.
Misses(e, xs) ==
  missed' = [f \in Edits |-> missed[f] \cup (IF f # e /\ Open(f) THEN xs ELSE {})]

-----------------------------------------------------------------------------
(* refresh_client_status: the account as the request sees it.              *)

SeesReady(e, a) ==
  /\ a \notin active
  /\ Trio(a \in acknowledged \/ edit[e].op = "acknowledge",
          IF edit[e].op = "allocate" THEN edit[e].size ELSE allocation[a],
          Held(a) # {} \/ edit[e].op = "assign")

\* Mutant: only an assignment refreshes.
RefreshOnAssign(e, from, to) ==
  LET a == edit[e].account IN
  /\ Go(e, from, to)
  /\ IF edit[e].op = "assign" /\ SeesReady(e, a)
       THEN /\ Free(e, a) /\ Lock(e, {a})
            /\ edit' = [edit EXCEPT ![e].wakes = a]
       ELSE UNCHANGED <<locks, edit>>
  /\ UNCHANGED <<rows, attached, runs, missed, begun>>

\* The UPDATE waits for a row that satisfies it and that somebody is writing.
Refresh(e, from, to) ==
  LET a == edit[e].account IN
  /\ Go(e, from, to)
  /\ IF SeesReady(e, a)
       THEN /\ Free(e, a) /\ Lock(e, {a})
            /\ edit' = [edit EXCEPT ![e].wakes = a]
       ELSE UNCHANGED <<locks, edit>>
  /\ UNCHANGED <<rows, attached, runs, missed, begun>>

-----------------------------------------------------------------------------
(* Channel allocation: one UPDATE whose WHERE sums the other accounts.     *)

AllocateStart(e) ==
  /\ Go(e, "new", "summed")
  /\ \E a \in Accounts, n \in Sizes :
       Arrives(e, [NoEdit EXCEPT !.op = "allocate", !.account = a, !.size = n,
                                 !.seen = Others(a)])
  /\ UNCHANGED <<rows, attached, runs, locks, missed, begun>>

\* AllocationExceeded rolls back.
AllocateRefused(e) ==
  /\ Go(e, "summed", "refused")
  /\ edit[e].size + edit[e].seen > Ceiling
  /\ UNCHANGED <<rows, attached, runs, edit, locks, missed, begun>>

AllocateUpdate(e) ==
  /\ Go(e, "summed", "allocated")
  /\ Free(e, edit[e].account)
  /\ edit[e].size + edit[e].seen <= Ceiling
  /\ Lock(e, {edit[e].account})
  /\ UNCHANGED <<rows, attached, runs, edit, missed, begun>>

-----------------------------------------------------------------------------
(* The owner's acknowledgement; a second one finds no row to update.       *)

Acknowledge(e) ==
  /\ Go(e, "new", "acknowledged")
  /\ \E a \in Accounts :
       /\ Free(e, a)
       /\ Arrives(e, [NoEdit EXCEPT !.op = "acknowledge", !.account = a])
       /\ IF a \in acknowledged THEN UNCHANGED locks ELSE Lock(e, {a})
  /\ UNCHANGED <<rows, attached, runs, missed, begun>>

-----------------------------------------------------------------------------
(* Assigning a number, or unassigning it (account "none").                 *)

\* SELECT ... FOR UPDATE, then the runs of the account that holds it. Mutant:
\* the SELECT without FOR UPDATE.
AssignUnlocked(e) ==
  /\ \E n \in Numbers, a \in Owners :
       /\ Arrives(e, [NoEdit EXCEPT !.op = "assign", !.account = a, !.number = n,
                                 !.from = holder[n]])
       /\ at' = [at EXCEPT ![e] = IF holder[n] \in dialling THEN "refused" ELSE "counted"]
       /\ UNCHANGED locks
  /\ UNCHANGED <<rows, attached, runs, missed, begun>>

AssignSelect(e) ==
  /\ \E n \in Numbers, a \in Owners :
       /\ Free(e, n)
       /\ Arrives(e, [NoEdit EXCEPT !.op = "assign", !.account = a, !.number = n,
                                 !.from = holder[n]])
       /\ IF holder[n] \in dialling
            THEN at' = [at EXCEPT ![e] = "refused"] /\ UNCHANGED locks
            ELSE at' = [at EXCEPT ![e] = "counted"] /\ Lock(e, {n})
  /\ UNCHANGED <<rows, attached, runs, missed, begun>>

\* The UPDATE of the number, which this request sees from now on, and the
\* refresh of the account it goes to.
AssignUpdate(e) ==
  /\ edit[e].account \in Accounts
  /\ Refresh(e, "counted", "moved")

\* ensure_billing_group: read the group, create it when there is none ...
GroupRead(e) ==
  /\ Go(e, "moved", "grouping")
  /\ edit' = [edit EXCEPT ![e].seen = group[edit[e].account]]
  /\ UNCHANGED <<rows, attached, runs, locks, missed, begun>>

\* ... save its id (a write of the account's row) and list the numbers. Mutant:
\* only the number at hand is listed.
GroupListsOne(e) ==
  LET a == edit[e].account IN
  /\ Go(e, "grouping", "attaching")
  /\ IF edit[e].seen = 0 THEN Free(e, a) /\ Lock(e, {a}) ELSE UNCHANGED locks
  /\ edit' = [edit EXCEPT ![e].seen = IF @ = 0 THEN e ELSE @,
                          ![e].todo = {edit[e].number}]
  /\ UNCHANGED <<rows, attached, runs, missed, begun>>

GroupSave(e) ==
  LET a == edit[e].account IN
  /\ Go(e, "grouping", "attaching")
  /\ IF edit[e].seen = 0 THEN Free(e, a) /\ Lock(e, {a}) ELSE UNCHANGED locks
  /\ edit' = [edit EXCEPT ![e].seen = IF @ = 0 THEN e ELSE @,
                          ![e].todo = Held(a) \cup {edit[e].number}]
  /\ UNCHANGED <<rows, attached, runs, missed, begun>>

Attach(e) ==
  /\ at[e] = "attaching"
  /\ \E n \in edit[e].todo :
       /\ attached' = [attached EXCEPT ![n] = edit[e].seen]
       /\ edit' = [edit EXCEPT ![e].todo = @ \ {n}]
       /\ at' = [at EXCEPT ![e] = IF edit[e].todo = {n} THEN "settled" ELSE @]
       /\ Misses(e, {n})
  /\ UNCHANGED <<rows, runs, locks, begun>>

\* The UPDATE to no client, and detach_number.
Detach(e) ==
  /\ edit[e].account = "none"
  /\ Go(e, "counted", "settled")
  /\ attached' = [attached EXCEPT ![edit[e].number] = 0]
  /\ Misses(e, {edit[e].number})
  /\ UNCHANGED <<rows, runs, edit, locks, begun>>

\* A gateway call raises: a warning, and the assignment stands. A group whose
\* creation raised is not saved; once saved it is.
GroupFails(e) ==
  /\ \/ at[e] = "counted" /\ edit[e].account = "none"
     \/ at[e] = "grouping" /\ edit[e].seen = 0
     \/ at[e] = "attaching" /\ edit[e].todo # {}
  /\ at' = [at EXCEPT ![e] = "settled"]
  /\ edit' = [edit EXCEPT ![e].whole = "no"]
  /\ UNCHANGED <<rows, attached, runs, locks, missed, begun>>

-----------------------------------------------------------------------------
(* The end of a transaction.                                               *)

Touches(e) ==
  ({edit[e].account} \cup (IF edit[e].op = "assign" THEN {holder[edit[e].number]} ELSE {}))
    \ {"none"}

\* It releases its rows, and the others see what it wrote.
Seal(e, xs) == Misses(e, xs) /\ locks' = [locks EXCEPT ![e] = {}]

Commit(e) ==
  LET x == edit[e] IN
  /\ Go(e, "settled", "done")
  /\ allocation' = IF x.op = "allocate" THEN [allocation EXCEPT ![x.account] = x.size]
                   ELSE allocation
  /\ acknowledged' = IF x.op = "acknowledge" THEN acknowledged \cup {x.account}
                     ELSE acknowledged
  /\ holder' = IF x.op = "assign" THEN [holder EXCEPT ![x.number] = x.account] ELSE holder
  /\ group' = IF x.op = "assign" /\ x.account # "none" /\ x.seen # 0
                THEN [group EXCEPT ![x.account] = x.seen] ELSE group
  /\ active' = active \cup ({x.wakes} \ {"none"})
  /\ Seal(e, Touches(e))
  /\ UNCHANGED <<attached, runs, edit, begun>>

\* The web process dies: the database rolls back, Telnyx does not.
Crash(e) ==
  /\ Open(e)
  /\ at' = [at EXCEPT ![e] = "dead"]
  /\ Seal(e, {})
  /\ UNCHANGED <<rows, runs, attached, edit, begun>>

\* A launch passes the pre-flight; the dispatcher later begins to dial without
\* looking again; the run ends.
Launches(a) ==
  /\ a \notin scheduled \cup dialling
  /\ Trio(a \in acknowledged, allocation[a], Held(a) # {})
  /\ scheduled' = scheduled \cup {a}
  /\ UNCHANGED <<rows, attached, dialling, edit, at, locks, missed, begun>>

RunBegins(a) ==
  /\ a \in scheduled
  /\ scheduled' = scheduled \ {a} /\ dialling' = dialling \cup {a}
  /\ begun' = [e \in Edits |-> begun[e] \cup (IF Open(e) THEN {a} ELSE {})]
  /\ UNCHANGED <<rows, attached, edit, at, locks, missed>>

RunEnds(a) ==
  /\ a \in dialling
  /\ dialling' = dialling \ {a}
  /\ UNCHANGED <<rows, scheduled, attached, edit, at, locks, missed, begun>>

ConsoleNext ==
  \/ \E e \in Edits :
       \/ AllocateStart(e) \/ AllocateRefused(e) \/ AllocateUpdate(e)
       \/ Acknowledge(e)
       \/ Refresh(e, "allocated", "settled") \/ Refresh(e, "acknowledged", "settled")
       \/ AssignSelect(e) \/ AssignUpdate(e)
       \/ GroupRead(e) \/ GroupSave(e) \/ Attach(e)
       \/ Detach(e) \/ GroupFails(e)
       \/ Commit(e) \/ Crash(e)
  \/ \E a \in Accounts : Launches(a) \/ RunBegins(a) \/ RunEnds(a)

ConsoleSpec == ConsoleInit /\ [][ConsoleNext]_consoleVars

-----------------------------------------------------------------------------
(* Properties.                                                             *)

RequestStates == {"new", "summed", "allocated", "acknowledged", "counted", "moved",
                  "grouping", "attaching", "settled"} \cup Ended

\* Type correctness, and no row written by two open requests.
ConsoleTypeOK ==
  /\ allocation \in [Accounts -> Sizes \cup {0}]
  /\ acknowledged \subseteq Accounts /\ active \subseteq Accounts
  /\ scheduled \subseteq Accounts /\ dialling \subseteq Accounts
  /\ holder \in [Numbers -> Owners] /\ group \in [Accounts -> Groups]
  /\ attached \in [Numbers -> Groups]
  /\ edit \in [Edits -> [op : {"none", "allocate", "acknowledge", "assign"},
                         account : Owners, number : Numbers \cup {"none"}, from : Owners,
                         size : Sizes \cup {0}, seen : Nat, wakes : Owners,
                         todo : SUBSET Numbers, whole : {"yes", "no"}]]
  /\ at \in [Edits -> RequestStates]
  /\ locks \in [Edits -> SUBSET (Accounts \cup Numbers)]
  /\ missed \in [Edits -> SUBSET (Accounts \cup Numbers)] /\ begun \in [Edits -> SUBSET Accounts]
  /\ \A e, f \in Edits : e # f => locks[e] \cap locks[f] = {}

Commits(e) == at[e] = "settled" /\ at'[e] = "done"

\* "Refused while the currently assigned client has a run dialling": a number
\* that moves leaves the client whose runs were counted, and leaves it under a
\* dialling run only when that run began after the count.
NumberStaysUnderRun ==
  [][\A e \in Edits : Commits(e) /\ edit[e].op = "assign" =>
       LET h == holder[edit[e].number] IN
       h \in dialling => h = edit[e].from /\ h \in begun[e]]_consoleVars

\* The ceiling is passed only by an edit that another one overlapped: alone,
\* set_allocation's single statement keeps the sum.
OversoldOnlyIfMissed ==
  \A e \in Edits :
    /\ Commits(e) /\ edit[e].op = "allocate"
    /\ MapThenSumSet(LAMBDA a : allocation'[a], Accounts) > Ceiling
    => missed[e] \cap Accounts # {}

\* An account whose acknowledgement, channels and number are all in place is
\* left in onboarding only by a request that overlapped another one on it.
ReadyOnlyIfMissed ==
  \A e \in Edits : Commits(e) =>
    \A a \in Accounts :
      /\ a = edit[e].account /\ a \notin active'
      /\ Trio(a \in acknowledged', allocation'[a], \E n \in Numbers : holder'[n] = a)
      => a \in missed[e]

\* An assignment that ends without a warning, and that no commit about its client
\* overlapped, leaves the client's numbers in the client's saved billing group, but for
\* those that another request, with an older list, attached or detached meanwhile.
AttachedUnlessMissed ==
  \A e \in Edits :
    /\ Commits(e) /\ edit[e].op = "assign" /\ edit[e].whole = "yes"
    /\ edit[e].account \in Accounts \ missed[e]
    => \A n \in Numbers \ missed[e] : holder'[n] = edit[e].account
         => attached[n] = group'[edit[e].account]

\* What a client account needs, staff and owner set up as if each request were alone:
\* within the ceiling, active when complete, its numbers in its billing group. Each
\* part fails only by a request that did not see what another one changed meanwhile.
SetUpUnlessMissed ==
  [][OversoldOnlyIfMissed /\ ReadyOnlyIfMissed /\ AttachedUnlessMissed]_consoleVars
=============================================================================

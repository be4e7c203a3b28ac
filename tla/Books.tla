------------------------------- MODULE Books --------------------------------
(***************************************************************************)
(* The console's landing page as it keeps the books: the hourly balance    *)
(* snapshot, the sync of what Telnyx charged for each call, and the manual *)
(* life of an old invoice (becca/services/console.py: balance_overview,    *)
(* billing.py; becca/web/console_plane/clients.py, billing.py).            *)
(*                                                                         *)
(* A render is one transaction, open while it lists Telnyx's detail        *)
(* records type by type: its snapshot and costs are seen once it ends.     *)
(***************************************************************************)
EXTENDS Integers, FiniteSets, FiniteSetsExt

CONSTANTS
  Renders,     \* GET / of staff
  Sessions,    \* telnyx_call_session_id of the calls made
  RecordTypes, \* JOINABLE_RECORD_TYPES
  MaxHours     \* bound: hours that pass

ASSUME BooksAssumption == IsFiniteSet(RecordTypes) /\ MaxHours \in Nat

VARIABLES
  records,  \* Telnyx: the detail records there are, one for a session and type
  cost,     \* call.cost_actual: how many records it adds up; 0 for none
  taken,    \* snapshots of the last hour
  hour,
  render,   \* where each page is, what it has listed and has to
  bypassed, \* renders another one committed beside
  invoice   \* invoice.status of an invoice

booksVars == <<records, cost, taken, hour, render, bypassed, invoice>>

Closed == [where |-> "closed", listed |-> {}, left |-> {}]
InvoiceStates == {"draft", "sent", "overdue", "paid"}

BooksInit ==
  /\ records = {} /\ cost = [s \in Sessions |-> 0]
  /\ taken = 0 /\ hour = 0
  /\ render = [r \in Renders |-> Closed] /\ bypassed = {}
  /\ invoice \in InvoiceStates

\* Records of one call come one after the other, some of them late.
RecordAppears ==
  /\ \E r \in (Sessions \X RecordTypes) \ records : records' = records \cup {r}
  /\ UNCHANGED <<cost, taken, hour, render, bypassed, invoice>>

HourPasses ==
  /\ hour < MaxHours /\ hour' = hour + 1 /\ taken' = 0
  /\ \A r \in Renders : render[r].where = "closed"
  /\ bypassed' = {}
  /\ UNCHANGED <<records, cost, render, invoice>>

-----------------------------------------------------------------------------
(* balance_overview, then sync_costs when it took the hour's snapshot.     *)

\* Mutant: each render takes one.
DueAlways == TRUE
Due == taken = 0

\* Telnyx does not answer: no balance, no snapshot, no sync; nothing changes.
OpenPage(r) ==
  /\ render[r].where = "closed" /\ Due
  /\ render' = [render EXCEPT ![r] =
       [where |-> "listing", listed |-> {}, left |-> RecordTypes]]
  /\ bypassed' = bypassed \ {r}
  /\ UNCHANGED <<records, cost, taken, hour, invoice>>

ListRecords(r) ==
  /\ render[r].where = "listing"
  /\ \E t \in render[r].left :
       render' = [render EXCEPT ![r].left = @ \ {t},
                                ![r].listed = @ \cup {q \in records : q[2] = t}]
  /\ UNCHANGED <<records, cost, taken, hour, bypassed, invoice>>

\* A listing raises: the page gives the sync up, and keeps the snapshot. Mutant: it
\* goes on without that type.
ListingSkipped(r) ==
  /\ render[r].where = "listing"
  /\ \E t \in render[r].left : render' = [render EXCEPT ![r].left = @ \ {t}]
  /\ UNCHANGED <<records, cost, taken, hour, bypassed, invoice>>
ListingRaises(r) ==
  /\ render[r].where = "listing" /\ render[r].left # {}
  /\ render' = [render EXCEPT ![r].where = "given up"]
  /\ UNCHANGED <<records, cost, taken, hour, bypassed, invoice>>

\* Mutant: a sync adds to what the last one stored.
TotalAdded(r, s) == cost[s] + Cardinality({q \in render[r].listed : q[1] = s})
Total(r, s) == Cardinality({q \in render[r].listed : q[1] = s})

\* "A full recompute per session"; a session with no cost is left as it is.
EndSync(r) ==
  /\ render[r].where = "listing" /\ render[r].left = {}
  /\ cost' = [s \in Sessions |->
                IF {q \in render[r].listed : q[1] = s} = {} THEN cost[s] ELSE Total(r, s)]

GiveUpSync(r) == render[r].where = "given up" /\ UNCHANGED cost

EndPage(r) ==
  /\ EndSync(r) \/ GiveUpSync(r)
  /\ taken' = taken + 1
  /\ render' = [render EXCEPT ![r] = Closed]
  /\ bypassed' = bypassed \cup {q \in Renders \ {r} : render[q].where # "closed"}
  /\ UNCHANGED <<records, hour, invoice>>

\* The request dies and its transaction with it.
PageDies(r) ==
  /\ render[r].where # "closed"
  /\ render' = [render EXCEPT ![r] = Closed]
  /\ UNCHANGED <<records, cost, taken, hour, bypassed, invoice>>

-----------------------------------------------------------------------------
\* mark_invoice.
Sendable == {"draft", "overdue"}

MarkInvoice ==
  /\ \/ invoice \in Sendable /\ invoice' = "sent"
     \/ invoice \in {"draft", "sent", "overdue"} /\ invoice' = "paid"
  /\ UNCHANGED <<records, cost, taken, hour, render, bypassed>>

BooksNext ==
  \/ RecordAppears \/ HourPasses \/ MarkInvoice
  \/ \E r \in Renders : \/ OpenPage(r) \/ ListRecords(r) \/ ListingRaises(r)
                        \/ EndPage(r) \/ PageDies(r)

BooksSpec == BooksInit /\ [][BooksNext]_booksVars

-----------------------------------------------------------------------------
(* Properties.                                                             *)

\* "Idempotent": however often and beside each other syncs run, a call's cost never
\* exceeds its records.
CostWithinRecords ==
  \A s \in Sessions : cost[s] <= Cardinality({q \in records : q[1] = s})

\* "A record that arrived late simply raises the total on the next sync": a total
\* falls only when a slower sync commits what it had listed before a faster one.
CostFallsOnlyIfBypassed ==
  \A s \in Sessions : cost'[s] < cost[s] =>
    \E r \in bypassed : render[r].where = "listing" /\ render'[r] = Closed

\* One snapshot an hour, and one cost sync with it, unless two renders overlapped.
HourlyUnlessBypassed == taken > 1 => bypassed # {}

\* Costs and snapshots are what one render after the other would make them, but for
\* renders another one overtook.
CostsFollowRecords ==
  [][/\ CostWithinRecords' /\ HourlyUnlessBypassed'
     /\ CostFallsOnlyIfBypassed]_booksVars
=============================================================================

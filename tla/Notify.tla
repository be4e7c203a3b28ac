------------------------------- MODULE Notify -------------------------------
(***************************************************************************)
(* In-app notifications: emit with its dedupe window, the low-wallet pair  *)
(* a settlement emits, and a reader's panel (becca/services/notify.py,     *)
(* ingest.py: _warn_if_wallet_low; web notifications pages).               *)
(*                                                                         *)
(* The count of recent rows and the insert are two statements: rows of a   *)
(* transaction still open are not counted. A settlement has moved the      *)
(* client's cached balance, so it holds the client's row to the end.       *)
(***************************************************************************)
EXTENDS Integers, FiniteSets

CONSTANTS
  Payers,     \* client accounts; each is an audience, "staff" is another
  Settlers,   \* transactions that settle a call of a wallet below its line
  Readers, AudienceOf,
  MaxNotes    \* bound: rows ever written

ASSUME NotifyAssumption ==
  /\ "staff" \notin Payers /\ AudienceOf \in [Readers -> Payers \cup {"staff"}]
  /\ MaxNotes \in Nat

VARIABLES
  notes,    \* committed rows: n, audience, event, about (the wallet), age
  written,  \* rows ever inserted
  settling, \* settler -> where, wallet, its own uncommitted rows
  besides,  \* staff rows inserted beside another one not yet committed
  readOf,   \* notification_read: reader -> row numbers
  mutedBy   \* notification_pref with enabled = false: reader -> events

notifyVars == <<notes, written, settling, besides, readOf, mutedBy>>

Idle == [where |-> "idle", wallet |-> "staff", rows |-> {}]
Note(n, to, event, about) ==
  [n |-> n, audience |-> to, event |-> event, about |-> about, age |-> "today"]

NotifyInit ==
  /\ notes = {} /\ written = 0
  /\ settling = [s \in Settlers |-> Idle] /\ besides = {}
  /\ readOf = [r \in Readers |-> {}] /\ mutedBy = [r \in Readers |-> {}]

readerVars == <<readOf, mutedBy>>

-----------------------------------------------------------------------------
(* Emitting.                                                               *)

Seen(s) == notes \cup settling[s].rows

\* Mutant: only unread rows suppress another one.
RecentUnread(s, to, event) ==
  {m \in Seen(s) : /\ m.audience = to /\ m.event = event /\ m.age = "today"
                   /\ \A r \in Readers : m.n \notin readOf[r]}
\* Mutant: any audience's row does.
RecentAnyAudience(s, to, event) == {m \in Seen(s) : m.event = event /\ m.age = "today"}
Recent(s, to, event) ==
  {m \in Seen(s) : m.audience = to /\ m.event = event /\ m.age = "today"}

Emit(s, to, event, next) ==
  /\ written < MaxNotes
  /\ IF Recent(s, to, event) # {} THEN
       /\ settling' = [settling EXCEPT ![s].where = next]
       /\ UNCHANGED written
     ELSE
       /\ written' = written + 1
       /\ settling' = [settling EXCEPT
            ![s].where = next,
            ![s].rows = @ \cup {Note(written + 1, to, event, settling[s].wallet)}]
  /\ UNCHANGED <<notes, readerVars>>

Settle(s, p) ==
  /\ settling[s].where = "idle"
  /\ \A t \in Settlers : settling[t].wallet # p   \* the row lock of _move_cache
  /\ settling' = [settling EXCEPT ![s] = [Idle EXCEPT !.where = "own", !.wallet = p]]
  /\ UNCHANGED <<notes, written, besides, readerVars>>

TellOwner(s) ==
  /\ settling[s].where = "own"
  /\ Emit(s, settling[s].wallet, "wallet_low", "staff")
  /\ UNCHANGED besides

\* "A same-event row for the same audience": whichever wallet it was about.
TellStaff(s) ==
  /\ settling[s].where = "staff"
  /\ Emit(s, "staff", "client_wallet_low", "told")
  /\ besides' = besides \cup
       {m.n : m \in {k \in settling'[s].rows :
          /\ k.audience = "staff"
          /\ \E t \in Settlers \ {s} : \E o \in settling[t].rows : o.audience = "staff"}}

CommitSettle(s) ==
  /\ settling[s].where = "told"
  /\ notes' = notes \cup settling[s].rows
  /\ settling' = [settling EXCEPT ![s] = Idle]
  /\ UNCHANGED <<written, besides, readerVars>>

RollBackSettle(s) ==
  /\ settling[s].where # "idle"
  /\ settling' = [settling EXCEPT ![s] = Idle]
  /\ UNCHANGED <<notes, written, besides, readerVars>>

\* Rows stay; only their age counts. (A transaction is shorter than a day.)
DayPasses ==
  /\ \E m \in notes : m.age = "today"
  /\ \A s \in Settlers : settling[s].where = "idle"
  /\ notes' = {[m EXCEPT !.age = "old"] : m \in notes}
  /\ UNCHANGED <<written, settling, besides, readerVars>>

-----------------------------------------------------------------------------
(* Reading.                                                                *)

RowsFor(r) == {m \in notes : m.audience = AudienceOf[r]}

Enabled(r) == {m \in RowsFor(r) : m.event \notin mutedBy[r]}
UnreadCount(r) == Cardinality({m \in Enabled(r) : m.n \notin readOf[r]})

\* Mutant: read state is per audience.
ReadersLike(r) == {q \in Readers : AudienceOf[q] = AudienceOf[r]}
ReaderAlone(r) == {r}

\* mark_all_read: every row of the audience, those the page hides included.
MarkAllRead(r) ==
  /\ readOf' = [q \in Readers |->
       IF q \in ReaderAlone(r) THEN readOf[q] \cup {m.n : m \in RowsFor(r)} ELSE readOf[q]]
  /\ UNCHANGED <<notes, written, settling, besides, mutedBy>>

SetPref(r, event) ==
  /\ \/ mutedBy' = [mutedBy EXCEPT ![r] = @ \cup {event}]
     \/ mutedBy' = [mutedBy EXCEPT ![r] = @ \ {event}]
  /\ UNCHANGED <<notes, written, settling, besides, readOf>>

NotifyNext ==
  \/ \E s \in Settlers : \/ \E p \in Payers : Settle(s, p)
                         \/ TellOwner(s) \/ TellStaff(s)
                         \/ CommitSettle(s) \/ RollBackSettle(s)
  \/ DayPasses
  \/ \E r \in Readers : \/ MarkAllRead(r)
                        \/ SetPref(r, "wallet_low")

NotifySpec == NotifyInit /\ [][NotifyNext]_notifyVars

-----------------------------------------------------------------------------
(* Properties.                                                             *)

Today(to, event) == {m \in notes : m.audience = to /\ m.event = event /\ m.age = "today"}

\* "One row per day, not a flood": an owner is told of a low wallet once a day, for
\* settlements of one wallet wait for each other; staff are told once a day, and once
\* more only by a settlement of another wallet beside the first.
OncePerDay ==
  /\ \A p \in Payers : Cardinality(Today(p, "wallet_low")) <= 1
  /\ Cardinality({m \in Today("staff", "client_wallet_low") : m.n \notin besides}) <= 1

\* A settlement that leaves a wallet below its line leaves its owner told that day,
\* whatever other clients were told, and staff told that day of some wallet.
LowWalletIsTold ==
  \A s \in Settlers, p \in Payers : CommitSettle(s) /\ settling[s].wallet = p =>
    /\ Today(p, "wallet_low")' # {}
    /\ Today("staff", "client_wallet_low")' # {}

\* "Read state is per reader": staff who have entered an account and mark all read
\* leave the owner's badge as it was.
BadgeIsOwn ==
  \A r, q \in Readers :
    r # q /\ readOf'[q] # readOf[q] => UnreadCount(r)' = UnreadCount(r)

\* Everyone concerned is told, once, and reads for themselves.
ToldOnce == [][OncePerDay' /\ LowWalletIsTold /\ BadgeIsOwn]_notifyVars
=============================================================================

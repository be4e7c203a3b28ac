------------------------------ MODULE Dispatch ------------------------------
(***************************************************************************)
(* The dispatch core of Becca for ONE client account: the worker's tick    *)
(* (becca/worker/dispatch.py), the claim governor (becca/worker/claims.py),*)
(* the stuck-call sweep (becca/worker/housekeeping.py), the TeXML callback *)
(* (becca/services/ingest.py), wallet settlement (becca/services/wallet.py)*)
(* and the owner's pause / resume / stop (becca/web/client_plane/launch.py)*)
(*                                                                         *)
(* Granularity: one action per database transaction, because Postgres runs *)
(* at READ COMMITTED and the worker holds no lock between transactions.    *)
(* A transaction is split in two where the code reads a row without a lock *)
(* and later writes from that stale read (the callback and the sweep).     *)
(*                                                                         *)
(* Abstractions: the rate, the allocation and the retry policy of a run    *)
(* are constants (no console edit during the run); a hold and a charge are *)
(* counted in an arbitrary money unit; clock conditions (calling window,   *)
(* retry interval, 15-minute timeout) are nondeterministic choices bounded *)
(* by the timing assumptions listed at Overdue.                            *)
(***************************************************************************)
EXTENDS Integers, FiniteSets, Functions

CONSTANTS
  Agents,        \* launched agents (runs) of the client account
  Items,         \* queue items, one per contact
  AgentOf,       \* the agent each queue item belongs to
  Workers,       \* worker processes (two overlap during a deploy)
  Handlers,      \* concurrent webhook requests in the web process
  Copies,        \* distinct deliveries of one terminal status
                 \* (CallbackSource / SequenceNumber differ)
  Allocation,    \* client_account.channel_allocation
  RetryAttempts, \* run_schedule.retry_attempts
  Hold,          \* per_call_reserve(rate, max_call_minutes)
  Charges,       \* what a conversation can cost
  SpendCap,      \* run_schedule.spend_cap
  OpeningBalance,\* client_account.wallet_balance_usd at launch
  TopUps,        \* amounts staff may credit
  MaxCredit,     \* BOUND: total credit the model allows
  MaxCrashes,    \* BOUND: process crashes the model allows
  Events,        \* environment events that may happen (see AllEvents)
  None           \* no agent / no call / idle handler

AllEvents ==
  { "crash",      \* a worker or a web process dies between transactions
    "ambiguous",  \* the dial request was sent and its answer lost
    "refuse",     \* DialRefused, or the unresolved-variable assertion
    "forbid",     \* Telnyx answers the dial with 403
    "error",      \* any other failure before the call exists
    "longcall",   \* a call may outlast the 15-minute timeout
    "sweeprace",  \* sweep and callback / other sweep overlap on one call
    "earlycallback", \* a callback overtakes the recording of its CallSid
    "lostcallback",  \* a callback is lost, or later than the timeout
    "pause", "stop" }

Calls == Items \X (1 .. RetryAttempts + 1)
Kinds == {"completed", "failed"}
Messages == [call: Calls, kind: Kinds, charge: Charges \cup {0}, copy: Copies]

ASSUME DispatchAssumption ==
  /\ IsFiniteSet(Items) /\ IsFiniteSet(Agents)
  /\ AgentOf \in [Items -> Agents]
  /\ Allocation \in Nat /\ RetryAttempts \in Nat
  /\ Hold \in Nat \ {0} /\ SpendCap \in Nat
  /\ OpeningBalance \in Nat /\ MaxCredit \in Nat /\ MaxCrashes \in Nat
  /\ Charges \subseteq Nat /\ TopUps \subseteq Nat \ {0}
  /\ Events \subseteq AllEvents
  /\ None \notin Agents /\ None \notin Calls

VARIABLES
  status,    \* agent.status, from launch on
  paused,    \* run_schedule.paused
  state,     \* queue_item.state
  attempts,  \* queue_item.attempts
  waiting,   \* items whose next_attempt_at is still in the future
  call,      \* call.status per (item, attempt); "none": no such row
  known,     \* calls whose telnyx_call_control_id is recorded
  balance,   \* client_account.wallet_balance_usd
  credited,  \* sum of the credit rows of wallet_ledger
  ledger,    \* debit_call amount per call in wallet_ledger; 0: no row
  seen,      \* webhook_event rows
  line,      \* Telnyx's side of each call
  sent,      \* status callbacks Telnyx has issued
  pc,        \* where each worker is between two transactions
  todo,      \* agents left in the worker's tick
  sched,     \* of those, the ones its snapshot saw 'scheduled'
  run,       \* the agent the worker is at
  held,      \* the call the worker has claimed and not yet recorded
  stuck,     \* calls the worker's sweep selected
  handler,   \* a webhook request past its unlocked read of the call
  crashes

db      == <<status, paused, state, attempts, waiting, call, known>>
money   == <<balance, credited, ledger>>
phone   == <<line, sent>>
local   == <<todo, sched, run, held, stuck>>
vars    == <<db, money, seen, phone, pc, local, handler, crashes>>

InFlight   == {c \in Calls : call[c] = "dialling"}
Reserved   == Hold * Cardinality(InFlight)
Available  == balance - Reserved
CallsOf(a) == {c \in Calls : AgentOf[c[1]] = a}
Settled(a) == SumFunctionOnSet(ledger, CallsOf(a))

NextAttempt(i) == <<i, attempts[i] + 1>>

\* Mutant: items that are done are claimable too.
DueDoneToo(a) ==
  {i \in Items : AgentOf[i] = a /\ state[i] \in {"pending", "done"} /\ i \notin waiting}
Due(a)     == {i \in Items : AgentOf[i] = a /\ state[i] = "pending" /\ i \notin waiting}

Goto(w, from, to) == pc[w] = from /\ pc' = [pc EXCEPT ![w] = to]

Init ==
  /\ status \in [Agents -> {"scheduled", "dialling"}]
  /\ paused = [a \in Agents |-> FALSE]
  /\ state = [i \in Items |-> "pending"]
  /\ attempts = [i \in Items |-> 0]
  /\ waiting = {}
  /\ call = [c \in Calls |-> "none"]
  /\ known = {}
  /\ balance = OpeningBalance /\ credited = OpeningBalance
  /\ ledger = [c \in Calls |-> 0]
  /\ seen = {}
  /\ line = [c \in Calls |-> "none"]
  /\ sent = {}
  /\ pc = [w \in Workers |-> "idle"]
  /\ todo = [w \in Workers |-> {}] /\ sched = [w \in Workers |-> {}]
  /\ run = [w \in Workers |-> None] /\ held = [w \in Workers |-> None]
  /\ stuck = [w \in Workers |-> {}]
  /\ handler = [h \in Handlers |-> None]
  /\ crashes = 0

-----------------------------------------------------------------------------
(* The retry policy, shared by the dispatcher, the callback and the sweep. *)

AfterFailure(i) == IF attempts[i] < 1 + RetryAttempts THEN "pending" ELSE "failed"

\* Mutant: the call is closed and its queue item forgotten.
ForgetItems(S) == UNCHANGED <<state, waiting>>

\* Apply the policy to the items in S; only those still 'dialling' change.
ApplyRetryPolicy(S) ==
  LET T == {i \in S : state[i] = "dialling"}
  IN  /\ state' = [i \in Items |-> IF i \in T THEN AfterFailure(i) ELSE state[i]]
      /\ waiting' = waiting \cup {i \in T : AfterFailure(i) = "pending"}

RetryIntervalOver(i) ==
  /\ i \in waiting
  /\ waiting' = waiting \ {i}
  /\ UNCHANGED <<status, paused, state, attempts, call, known, money, seen,
                 phone, pc, local, handler, crashes>>

-----------------------------------------------------------------------------
(* One dispatch tick.                                                      *)

Runnable == {a \in Agents : status[a] \in {"scheduled", "dialling"} /\ ~paused[a]}

TickStart(w) ==
  /\ Goto(w, "idle", "select")
  /\ todo' = [todo EXCEPT ![w] = Runnable]
  /\ sched' = [sched EXCEPT ![w] = {a \in Runnable : status[a] = "scheduled"}]
  /\ UNCHANGED <<db, money, seen, phone, run, held, stuck, handler, crashes>>

\* The run's calling window is shut (or its not_before has not come).
OutsideWindow(w, a) ==
  /\ pc[w] = "select" /\ a \in todo[w]
  /\ todo' = [todo EXCEPT ![w] = @ \ {a}]
  /\ UNCHANGED <<db, money, seen, phone, pc, sched, run, held, stuck, handler, crashes>>

SpendReached(a) ==
  Settled(a) + Hold * Cardinality(InFlight \cap CallsOf(a)) >= SpendCap

CheckSpend(w, a) ==
  /\ a \in todo[w]
  /\ Goto(w, "select", IF SpendReached(a) THEN "halt" ELSE "wallet")
  /\ run' = [run EXCEPT ![w] = a]
  /\ UNCHANGED <<db, money, seen, phone, todo, sched, held, stuck, handler, crashes>>

\* Balance and holds are two reads of one transaction, taken here as one: the
\* answer only decides whether to pause, Claim decides again behind the lock.
CheckWallet(w) ==
  /\ Goto(w, "wallet", IF Available < Hold THEN "halt" ELSE "begin")
  /\ UNCHANGED <<db, money, seen, phone, local, handler, crashes>>

\* _pause_run: before the claim loop it ends the run's turn ("halt"), inside
\* the loop the drained check still follows ("haltRun").
PauseRun(w) ==
  /\ pc[w] \in {"halt", "haltRun"}
  /\ paused' = [paused EXCEPT ![run[w]] = TRUE]
  /\ \/ /\ Goto(w, "halt", "select")
        /\ todo' = [todo EXCEPT ![w] = @ \ {run[w]}]
     \/ /\ Goto(w, "haltRun", "finish")
        /\ UNCHANGED todo
  /\ UNCHANGED <<status, state, attempts, waiting, call, known, money, seen,
                 phone, sched, run, held, stuck, handler, crashes>>

\* The snapshot decides, and the UPDATE has no guard on the current status.
BeginDialling(w) ==
  /\ Goto(w, "begin", "claim")
  /\ status' = IF run[w] \in sched[w] THEN [status EXCEPT ![run[w]] = "dialling"]
                                      ELSE status
  /\ UNCHANGED <<paused, state, attempts, waiting, call, known, money, seen,
                 phone, local, handler, crashes>>

-----------------------------------------------------------------------------
(* claim_one: one transaction behind the client's row lock.                *)

\* Mutants: an off-by-one on the allocation; a gate that forgets the new hold.
GateOneTooMany == Cardinality(InFlight) <= Allocation /\ balance - Reserved - Hold >= 0
GateNoNewHold  == Cardinality(InFlight) < Allocation /\ balance - Reserved >= 0

GateOpen == Cardinality(InFlight) < Allocation /\ balance - Reserved - Hold >= 0

\* call.idempotency_key is UNIQUE. Mutant: it is not.
KeyUnchecked(c) == TRUE
KeyFree(c)      == call[c] = "none"

Claim(w) ==
  /\ Goto(w, "claim", "dial")
  /\ GateOpen
  /\ \E i \in Due(run[w]) :
       LET c == NextAttempt(i)
       IN  /\ KeyFree(c)
           /\ state' = [state EXCEPT ![i] = "dialling"]
           /\ attempts' = [attempts EXCEPT ![i] = @ + 1]
           /\ call' = [call EXCEPT ![c] = "dialling"]
           /\ held' = [held EXCEPT ![w] = c]
  /\ UNCHANGED <<status, paused, waiting, known, money, seen, phone,
                 todo, sched, run, stuck, handler, crashes>>

\* The attempt's key is taken: the INSERT's unique violation rolls the claim
\* back and ends the whole tick (run_forever swallows it).
ClaimCollides(w) ==
  /\ Goto(w, "claim", "idle")
  /\ GateOpen
  /\ \E i \in Due(run[w]) : ~KeyFree(NextAttempt(i))
  /\ todo' = [todo EXCEPT ![w] = {}] /\ sched' = [sched EXCEPT ![w] = {}]
  /\ run' = [run EXCEPT ![w] = None]
  /\ UNCHANGED <<db, money, seen, phone, held, stuck, handler, crashes>>

NothingToClaim(w) ==
  /\ Goto(w, "claim", "finish")
  /\ ~GateOpen \/ Due(run[w]) = {}
  /\ UNCHANGED <<db, money, seen, phone, local, handler, crashes>>

-----------------------------------------------------------------------------
(* gateway.place_call and what dispatch_tick does with each answer.        *)

\* 2xx: Telnyx has the call; the row does not know its CallSid yet.
DialAccepted(w) ==
  /\ Goto(w, "dial", "record")
  /\ line' = [line EXCEPT ![held[w]] = "live"]
  /\ UNCHANGED <<db, money, seen, sent, local, handler, crashes>>

\* Mutant: an ambiguous dial is taken for one Telnyx refused.
DialAmbiguousRefunded(w) ==
  /\ "ambiguous" \in Events
  /\ Goto(w, "dial", "refund")
  /\ line' \in {line, [line EXCEPT ![held[w]] = "live"]}
  /\ UNCHANGED <<db, money, seen, sent, local, handler, crashes>>

\* AmbiguousDialError: the row stays 'dialling', whether or not it rings.
DialAmbiguous(w) ==
  /\ "ambiguous" \in Events
  /\ Goto(w, "dial", "finish")
  /\ line' \in {line, [line EXCEPT ![held[w]] = "live"]}
  /\ held' = [held EXCEPT ![w] = None]
  /\ UNCHANGED <<db, money, seen, sent, todo, sched, run, stuck, handler, crashes>>

DialFailed(w) ==
  /\ \/ "refuse" \in Events /\ Goto(w, "dial", "drop")
     \/ "forbid" \in Events /\ Goto(w, "dial", "refund")
     \/ "error"  \in Events /\ Goto(w, "dial", "retry")
  /\ UNCHANGED <<db, money, seen, phone, local, handler, crashes>>

\* _record_outcome(failed=False): then the claim loop goes round again.
RecordDialled(w) ==
  /\ Goto(w, "record", "claim")
  /\ known' = known \cup {held[w]}
  /\ held' = [held EXCEPT ![w] = None]
  /\ UNCHANGED <<status, paused, state, attempts, waiting, call, money, seen,
                 phone, todo, sched, run, stuck, handler, crashes>>

\* _record_outcome(failed=True): retry=False skips the item, retry=True hands
\* it to the retry policy.
RecordFailed(w) ==
  /\ pc[w] \in {"drop", "retry"}
  /\ call' = [call EXCEPT ![held[w]] = "failed"]
  /\ LET i == held[w][1]
     IN  \/ /\ Goto(w, "drop", "haltRun")
            /\ state' = [state EXCEPT ![i] = IF @ = "dialling" THEN "skipped" ELSE @]
            /\ UNCHANGED waiting
         \/ /\ Goto(w, "retry", "finish")
            /\ ApplyRetryPolicy({i})
  /\ held' = [held EXCEPT ![w] = None]
  /\ UNCHANGED <<status, paused, attempts, known, money, seen, phone,
                 todo, sched, run, stuck, handler, crashes>>

\* DELETE FROM call ... AND status = 'dialling'.
\* Mutant: the refunded row is closed instead of deleted.
RowClosed(s)  == IF s = "dialling" THEN "failed" ELSE s
RowDeleted(s) == IF s = "dialling" THEN "none" ELSE s

\* _refund_claim: the row disappears and its attempt number is free again.
RefundClaim(w) ==
  /\ Goto(w, "refund", "haltRun")
  /\ LET c == held[w]
         i == held[w][1]
     IN  /\ call' = [call EXCEPT ![c] = RowDeleted(@)]
         /\ IF state[i] = "dialling"
            THEN /\ state' = [state EXCEPT ![i] = "pending"]
                 /\ attempts' = [attempts EXCEPT ![i] = IF @ > 0 THEN @ - 1 ELSE 0]
            ELSE UNCHANGED <<state, attempts>>
  /\ held' = [held EXCEPT ![w] = None]
  /\ UNCHANGED <<status, paused, waiting, known, money, seen, phone,
                 todo, sched, run, stuck, handler, crashes>>

\* _finish_if_drained, after every way out of the claim loop.
Drained(a) == \A i \in Items : AgentOf[i] = a => state[i] \notin {"pending", "dialling"}

FinishIfDrained(w) ==
  /\ Goto(w, "finish", "select")
  /\ status' = IF Drained(run[w]) /\ status[run[w]] = "dialling"
               THEN [status EXCEPT ![run[w]] = "finished"] ELSE status
  /\ todo' = [todo EXCEPT ![w] = @ \ {run[w]}]
  /\ UNCHANGED <<paused, state, attempts, waiting, call, known, money, seen,
                 phone, sched, run, held, stuck, handler, crashes>>

TickEnd(w) ==
  /\ todo[w] = {}
  /\ Goto(w, "select", "idle")
  /\ sched' = [sched EXCEPT ![w] = {}]
  /\ run' = [run EXCEPT ![w] = None]
  /\ UNCHANGED <<db, money, seen, phone, todo, held, stuck, handler, crashes>>

-----------------------------------------------------------------------------
(* reconcile_stuck_dialling: one transaction, an unlocked SELECT and then  *)
(* unguarded UPDATEs.                                                      *)
(*                                                                         *)
(* Overdue abstracts "claimed over 15 minutes ago". Timing assumptions: a  *)
(* live worker never needs 15 minutes between a claim and its outcome      *)
(* (dispatch and sweep run in the same loop, dials time out in seconds),   *)
(* and, unless "longcall" \in Events, the assistant's time limit ends every*)
(* call before then (default 300 s, voice_config.py:135). Unless           *)
(* "lostcallback" \in Events, a callback the code can match is ingested    *)
(* before then too.                                                        *)

Unheard(c) == \E m \in sent \ seen : m.call = c

\* Mutants: a timeout shorter than a call; a sweep of the calls whose CallSid is
\* known only.
OverdueMidCall(c)  == call[c] = "dialling" /\ \A w \in Workers : held[w] # c
OverdueKnown(c)    ==
  /\ call[c] = "dialling" /\ c \in known
  /\ line[c] # "live" /\ (Unheard(c) => "lostcallback" \in Events)

Overdue(c) ==
  /\ call[c] = "dialling"
  /\ \A w \in Workers : held[w] # c
  /\ line[c] = "live" => "longcall" \in Events
  /\ c \in known /\ Unheard(c) => "lostcallback" \in Events

Ingesting(c) == \E h \in Handlers : handler[h] # None /\ handler[h].msg.call = c
Sweeping(c)  == \E w \in Workers : c \in stuck[w]

SweepSelect(w, S) ==
  /\ S # {}
  /\ \A c \in S : Overdue(c)
  /\ "sweeprace" \in Events \/ \A c \in S : ~Ingesting(c) /\ ~Sweeping(c)
  /\ Goto(w, "idle", "sweep")
  /\ stuck' = [stuck EXCEPT ![w] = S]
  /\ UNCHANGED <<db, money, seen, phone, todo, sched, run, held, handler, crashes>>

SweepUpdate(w) ==
  /\ Goto(w, "sweep", "idle")
  /\ call' = [c \in Calls |-> IF c \in stuck[w] THEN "failed" ELSE call[c]]
  /\ ApplyRetryPolicy({c[1] : c \in stuck[w]})
  /\ stuck' = [stuck EXCEPT ![w] = {}]
  /\ UNCHANGED <<status, paused, attempts, known, money, seen, phone,
                 todo, sched, run, held, handler, crashes>>

-----------------------------------------------------------------------------
(* Telnyx, as the code sees it: a placed call ends once and its terminal   *)
(* status is then called back, in any order, any number of times or never. *)

HangUp(c) ==
  /\ line[c] = "live"
  /\ \E kind \in Kinds, n \in Charges \cup {0} :
       /\ kind = "failed" => n = 0
       /\ line' = [line EXCEPT ![c] = IF kind = "completed" THEN "talked" ELSE "unanswered"]
       /\ sent' = sent \cup [call: {c}, kind: {kind}, charge: {n}, copy: Copies]
  /\ UNCHANGED <<db, money, seen, pc, local, handler, crashes>>

-----------------------------------------------------------------------------
(* ingest_texml_callback. The dedupe row, the lookup by CallSid and the    *)
(* status read come first and lock nothing a sweep or another event needs; *)
(* the writes follow from the status then read.                            *)

Delivered(h, m) ==
  /\ handler[h] = None
  /\ m \in sent \ seen
  /\ \A g \in Handlers : handler[g] # None => handler[g].msg # m

\* No row carries this CallSid (yet): the event is spent on the test-call
\* lookup and its dedupe row commits.
IngestUnknown(h, m) ==
  /\ Delivered(h, m)
  /\ m.call \notin known
  /\ (\E w \in Workers : held[w] = m.call) => "earlycallback" \in Events
  /\ seen' = seen \cup {m}
  /\ UNCHANGED <<db, money, phone, pc, local, handler, crashes>>

\* Mutant: the current status is not looked at.
IngestReadBlind(h, m) ==
  /\ Delivered(h, m)
  /\ m.call \in known
  /\ "sweeprace" \in Events \/ ~Sweeping(m.call)
  /\ handler' = [handler EXCEPT ![h] = [msg |-> m, status |-> "dialling"]]
  /\ UNCHANGED <<db, money, seen, phone, pc, local, crashes>>

IngestRead(h, m) ==
  /\ Delivered(h, m)
  /\ m.call \in known
  /\ "sweeprace" \in Events \/ ~Sweeping(m.call)
  /\ handler' = [handler EXCEPT ![h] = [msg |-> m, status |-> call[m.call]]]
  /\ UNCHANGED <<db, money, seen, phone, pc, local, crashes>>

\* Mutants: the cache moves without its entry; a second entry for one call; the
\* entry takes the signed amount.
SettleCacheAnyway(c, n) ==
  /\ ledger' = [ledger EXCEPT ![c] = IF @ = 0 THEN n ELSE @]
  /\ balance' = balance - n
SettleAgain(c, n) ==
  /\ ledger' = [ledger EXCEPT ![c] = @ + n]
  /\ balance' = balance - n

SettleSigned(c, n) ==
  IF n > 0 /\ ledger[c] = 0
  THEN /\ ledger' = [ledger EXCEPT ![c] = 0 - n]
       /\ balance' = balance - n
  ELSE UNCHANGED <<ledger, balance>>

\* settle_call: ON CONFLICT DO NOTHING on call_id, no entry for a zero charge;
\* the cached balance moves only with the entry.
Settle(c, n) ==
  IF n > 0 /\ ledger[c] = 0
  THEN /\ ledger' = [ledger EXCEPT ![c] = n]
       /\ balance' = balance - n
  ELSE UNCHANGED <<ledger, balance>>

IngestWrite(h) ==
  /\ handler[h] # None
  /\ LET m == handler[h].msg
         c == m.call
         i == m.call[1]
     IN  /\ seen' = seen \cup {m}
         /\ \/ /\ m.kind = "completed" /\ handler[h].status = "dialling"
               /\ call' = [call EXCEPT ![c] = "completed"]
               /\ state' = [state EXCEPT ![i] = "done"]
               /\ Settle(c, m.charge)
               /\ UNCHANGED waiting
            \/ /\ m.kind = "failed" /\ handler[h].status = "dialling"
               /\ call' = [call EXCEPT ![c] = "failed"]
               /\ ApplyRetryPolicy({i})
               /\ UNCHANGED <<ledger, balance>>
            \/ /\ handler[h].status # "dialling"
               /\ UNCHANGED <<call, state, waiting, ledger, balance>>
  /\ handler' = [handler EXCEPT ![h] = None]
  /\ UNCHANGED <<status, paused, attempts, known, credited, phone, pc, local, crashes>>

-----------------------------------------------------------------------------
(* The owner and the staff.                                                *)

SetPaused(a, p) ==
  /\ "pause" \in Events \/ ~p
  /\ paused[a] # p
  /\ paused' = [paused EXCEPT ![a] = p]
  /\ UNCHANGED <<status, state, attempts, waiting, call, known, money, seen,
                 phone, pc, local, handler, crashes>>

StopRun(a) ==
  /\ "stop" \in Events
  /\ state' = [i \in Items |-> IF AgentOf[i] = a /\ state[i] = "pending"
                               THEN "skipped" ELSE state[i]]
  /\ status' = [status EXCEPT ![a] = IF @ \in {"scheduled", "dialling"}
                                     THEN "finished" ELSE @]
  /\ UNCHANGED <<paused, attempts, waiting, call, known, money, seen,
                 phone, pc, local, handler, crashes>>

\* wallet.credit after a bank transfer.
TopUp(n) ==
  /\ credited + n <= MaxCredit
  /\ credited' = credited + n
  /\ balance' = balance + n
  /\ UNCHANGED <<db, ledger, seen, phone, pc, local, handler, crashes>>

-----------------------------------------------------------------------------
(* Crashes. A worker loses what it holds in memory (an exception that ends *)
(* the tick does the same: run_forever swallows it); an open transaction   *)
(* rolls back. A web process drops the request, and Telnyx delivers again. *)

WorkerCrash(w) ==
  /\ "crash" \in Events /\ crashes < MaxCrashes
  /\ pc[w] # "idle"
  /\ crashes' = crashes + 1
  /\ pc' = [pc EXCEPT ![w] = "idle"]
  /\ todo' = [todo EXCEPT ![w] = {}] /\ sched' = [sched EXCEPT ![w] = {}]
  /\ run' = [run EXCEPT ![w] = None] /\ held' = [held EXCEPT ![w] = None]
  /\ stuck' = [stuck EXCEPT ![w] = {}]
  /\ UNCHANGED <<db, money, seen, phone, handler>>

WebCrash(h) ==
  /\ "crash" \in Events /\ crashes < MaxCrashes
  /\ handler[h] # None
  /\ crashes' = crashes + 1
  /\ handler' = [handler EXCEPT ![h] = None]
  /\ UNCHANGED <<db, money, seen, phone, pc, local>>

-----------------------------------------------------------------------------
Tick(w) ==
  \/ TickStart(w) \/ CheckWallet(w) \/ PauseRun(w) \/ BeginDialling(w)
  \/ \E a \in Agents : OutsideWindow(w, a) \/ CheckSpend(w, a)
  \/ Claim(w) \/ ClaimCollides(w) \/ NothingToClaim(w)
  \/ DialAccepted(w) \/ DialAmbiguous(w) \/ DialFailed(w)
  \/ RecordDialled(w) \/ RecordFailed(w) \/ RefundClaim(w)
  \/ FinishIfDrained(w) \/ TickEnd(w)

Sweep(w) == SweepUpdate(w) \/ \E S \in SUBSET InFlight : SweepSelect(w, S)

Webhook(h) ==
  IngestWrite(h) \/ \E m \in sent : IngestUnknown(h, m) \/ IngestRead(h, m)

Next ==
  \/ \E w \in Workers : Tick(w) \/ Sweep(w) \/ WorkerCrash(w)
  \/ \E h \in Handlers : Webhook(h) \/ WebCrash(h)
  \/ \E i \in Items : RetryIntervalOver(i)
  \/ \E c \in Calls : HangUp(c)
  \/ \E a \in Agents : StopRun(a) \/ \E p \in BOOLEAN : SetPaused(a, p)
  \/ \E n \in TopUps : TopUp(n)

Spec == Init /\ [][Next]_vars

\* What keeps running: the worker loop (worker/loop.py restarts it after any
\* exception), its sweep, every accepted webhook request, and time itself.
\* Windows open again and again, so a run is checked again and again. No
\* callback is owed by anyone: Telnyx's delivery is not fair.
Fairness ==
  /\ \A w \in Workers : WF_vars(Tick(w)) /\ WF_vars(SweepUpdate(w))
  /\ \A w \in Workers, a \in Agents : SF_vars(CheckSpend(w, a))
  /\ \A c \in Calls :
       SF_vars(\E w \in Workers, S \in SUBSET InFlight : c \in S /\ SweepSelect(w, S))
  /\ \A h \in Handlers : WF_vars(IngestWrite(h))
  /\ \A i \in Items : WF_vars(RetryIntervalOver(i))
  /\ \A c \in Calls : WF_vars(HangUp(c))

FairSpec == Spec /\ Fairness

-----------------------------------------------------------------------------
(* Types.                                                                  *)

PCs == {"idle", "select", "wallet", "halt", "begin", "claim", "dial", "record",
        "drop", "refund", "retry", "haltRun", "finish", "sweep"}
CallStates == {"none", "dialling", "completed", "failed"}

\* Every variable stays in its type; attempts never passes 1 + retry_attempts,
\* so the per-attempt idempotency key stays in its range (claims.py:120).
TypeOK ==
  /\ status \in [Agents -> {"scheduled", "dialling", "finished"}]
  /\ paused \in [Agents -> BOOLEAN]
  /\ state \in [Items -> {"pending", "dialling", "done", "failed", "skipped"}]
  /\ attempts \in [Items -> 0 .. RetryAttempts + 1]
  /\ waiting \subseteq Items
  /\ call \in [Calls -> CallStates]
  /\ known \subseteq Calls
  /\ balance \in Int /\ credited \in Nat
  /\ ledger \in [Calls -> Nat]
  /\ seen \subseteq Messages
  /\ line \in [Calls -> {"none", "live", "talked", "unanswered"}]
  /\ sent \subseteq Messages
  /\ pc \in [Workers -> PCs]
  /\ todo \in [Workers -> SUBSET Agents]
  /\ sched \in [Workers -> SUBSET Agents]
  /\ run \in [Workers -> Agents \cup {None}]
  /\ held \in [Workers -> Calls \cup {None}]
  /\ stuck \in [Workers -> SUBSET Calls]
  /\ handler \in [Handlers -> {None} \cup [msg: Messages, status: CallStates]]
  /\ crashes \in Nat

-----------------------------------------------------------------------------
(* Safety.                                                                 *)

\* FR-DISPATCH-9 (claims.py:65-74): however many workers overlap, the client
\* never has more calls in flight than its channel allocation.
GovernorHolds == Cardinality(InFlight) <= Allocation

\* Reserve-then-settle (claims.py:76-87): the wallet covers the worst case of
\* every call in flight, so no settlement can take it below zero.
WalletCovers == Reserved <= balance

\* wallet.verify (wallet.py:100-103): the cached balance is the ledger's sum,
\* under concurrent settlements, redeliveries and crashes.
CacheIsLedger == balance = credited - SumFunction(ledger)

\* SD-27 (claims.py:115-141): the next attempt's UNIQUE key is always free, so
\* a claim cannot fail on it, not even after a 403 refund. Without "sweeprace".
NextKeyFree ==
  \A i \in Items : state[i] = "pending" =>
    \A k \in 1 .. RetryAttempts + 1 : k > attempts[i] => call[<<i, k>>] = "none"

\* The sweep looks for stuck calls, never for stuck items
\* (housekeeping.py:69-79), so an item in 'dialling' must have its current
\* attempt's call in 'dialling', and no other.
ItemMirrorsCall ==
  \A c \in Calls : call[c] = "dialling" <=> state[c[1]] = "dialling" /\ c[2] = attempts[c[1]]

\* SD-27: two workers never dial the same attempt, even when a sweep and a
\* callback that overlap have left the queue item in the wrong state.
AttemptHeldOnce == \A v, w \in Workers : held[v] = held[w] /\ held[v] # None => v = w

\* A contact is never on two live lines at once (dispatch.py:1-11).
OneLinePerContact ==
  \A i \in Items : Cardinality({k \in 1 .. RetryAttempts + 1 : line[<<i, k>>] = "live"}) <= 1

\* Every call Telnyx ever saw keeps its row: a refund deletes only a row whose
\* dial never rang (dispatch.py:409-430).
RungCallKeepsRow == \A c \in Calls : line[c] # "none" => call[c] # "none"

\* A call that reads 'completed' is billed for exactly what was said, however
\* its callbacks were repeated and interleaved (wallet.py:286-331).
BilledExactly == \A m \in seen : call[m.call] = "completed" => ledger[m.call] = m.charge

\* The wallet's books: the cache is their sum, and a talk is in them once and exactly,
\* whichever deliveries, sweeps and workers met over its row.
LedgerIsTrue == CacheIsLedger /\ BilledExactly

\* FR-DISPATCH-8: a contact whose conversation was recorded is never rung
\* again, whatever was retried, refunded, swept or delivered late.
RecordedTalkIsLast ==
  \A i \in Items, k \in 1 .. RetryAttempts :
    call[<<i, k>>] = "completed" => line[<<i, k + 1>>] = "none"

-----------------------------------------------------------------------------
(* Action properties.                                                      *)

Closed == {"done", "failed", "skipped"}

\* A contact the run is through with is never queued or dialled again.
ClosedStaysClosed == [][\A i \in Items : state[i] \in Closed => state'[i] \in Closed]_vars

\* Retry budget comes back only for an attempt that never rang.
RefundOnlyUnrung ==
  [][\A i \in Items : attempts'[i] < attempts[i] => line[<<i, attempts[i]>>] = "none"]_vars

\* A call row that left 'dialling' keeps its outcome (ingest.py:33-37, "the
\* guarded dialling->completed transition ... fires at most once").
OutcomeIsFinal ==
  [][\A c \in Calls : call[c] \in {"completed", "failed"} => call'[c] = call[c]]_vars

\* The whole machinery keeps the promise of the prepaid wallet.
P == INSTANCE Prepaid WITH
       Ids <- Calls, Capacity <- Allocation, Opening <- OpeningBalance,
       Credits <- TopUps, MaxBalance <- MaxCredit, open <- InFlight

KeepsPrepaidPromise == P!Spec

-----------------------------------------------------------------------------
(* Liveness, under FairSpec.                                               *)

\* A hold never leaks: whatever crashed or got lost, every call leaves
\* 'dialling' (wallet.py:7-12).
HoldsReleased == \A c \in Calls : call[c] = "dialling" ~> call[c] # "dialling"

\* A run nobody pauses comes to its end.
RunsEnd == \A a \in Agents : status[a] # "finished" ~> status[a] = "finished" \/ paused[a]

-----------------------------------------------------------------------------
(* What the documents say and the code does not do; each is the subject of *)
(* one violation run.                                                      *)

\* dispatch.py:341: an ambiguous dial is "never a redial"; README.md:88: "a
\* crash can't double-call". Both mean: never ring again a contact that talked.
NeverRungAfterTalk ==
  \A i \in Items, k \in 1 .. RetryAttempts :
    line[<<i, k>>] = "talked" => line[<<i, k + 1>>] = "none"

\* CONTEXT.md:143: Stop ends "a run permanently".
FinishedIsPermanent ==
  [][\A a \in Agents : status[a] = "finished" => status'[a] = "finished"]_vars
=============================================================================

------------------------------ MODULE TestCalls ------------------------------
(***************************************************************************)
(* The test loop of ONE agent: the request that reserves and places a test *)
(* call (becca/web/client_plane/testing.py), the polls of the test screen  *)
(* that give it a verdict (becca/services/testing.py), the callback that   *)
(* bills it (becca/services/ingest.py), and the two sweeps that clean up   *)
(* after it (becca/worker/housekeeping.py).                                *)
(*                                                                         *)
(* A test call has two owners: the polls own its status, the callback owns *)
(* its duration and its bill, and neither waits for the other.             *)
(*                                                                         *)
(* Granularity: one action per database transaction, or two where gateway  *)
(* calls are awaited between what a transaction read and what it writes.   *)
(* The scratch assistant that the request of test t creates is named t.    *)
(*                                                                         *)
(* Clock conditions are nondeterministic choices, bounded by two timing    *)
(* assumptions: a call is over within 8 minutes (the assistant's default   *)
(* limit is 300 s), and a request within 15.                               *)
(***************************************************************************)
EXTENDS Money, FiniteSets, Functions

CONSTANTS
  Tests,         \* test_run rows; each is placed by a request of its own
  Pollers,       \* open test screens
  Rates,         \* rates staff may set, in cents per minute
  Durations,     \* CallDuration values, in seconds
  WalletFloor,   \* settings.wallet_floor_usd
  OpeningBalance,\* client_account.wallet_balance_usd
  Events,        \* environment events that may happen (see AllEvents)
  None

AllEvents ==
  { "crash",         \* the web process or the worker dies
    "error",         \* a gateway call fails
    "ambiguous",     \* the dial was sent and its answer lost
    "earlycallback" }\* a callback overtakes the commit of its CallSid

ASSUME TestCallsAssumption ==
  /\ IsFiniteSet(Tests) /\ None \notin Tests \cup Durations
  /\ Rates \subseteq Nat /\ Rates # {} /\ Durations \subseteq Nat
  /\ WalletFloor \in Nat /\ OpeningBalance \in Nat
  /\ Events \subseteq AllEvents

VARIABLES
  status,   \* agent.status: before launch, and "launched" for all after it
  scratch,  \* agent.telnyx_scratch_assistant_id
  test,     \* test_run.status; "none": no row yet
  snap,     \* test_run.rate_per_min_usd
  sid,      \* tests whose telnyx_call_sid is recorded
  conv,     \* tests whose telnyx_conversation_id is recorded
  dur,      \* test_run.duration_sec
  rate,     \* client_account.rate_per_min_usd
  balance,  \* client_account.wallet_balance_usd
  ledger,   \* debit_test_call amount per test; 0: no row
  pc,       \* where the request that places the test is
  asst,     \* the assistant that request dials with
  poll,     \* per screen: the tests its query joined to a conversation
  sweep,    \* the assistant the scratch sweeper has just deleted
  line,     \* Telnyx's side of each test call
  reports,  \* durations of the 'completed' callbacks still to be delivered
  made      \* scratch assistants that exist at Telnyx

row    == <<test, snap, sid, conv, dur>>
money  == <<balance, ledger>>
telnyx == <<line, reports, made>>
vars   == <<status, scratch, row, rate, money, pc, asst, poll, sweep, telnyx>>

Init ==
  /\ status = "draft" /\ scratch = None
  /\ test = [t \in Tests |-> "none"]
  /\ rate \in Rates /\ snap = [t \in Tests |-> rate]
  /\ sid = {} /\ conv = {} /\ dur = [t \in Tests |-> None]
  /\ balance = OpeningBalance /\ ledger = [t \in Tests |-> 0]
  /\ pc = [t \in Tests |-> "idle"] /\ asst = [t \in Tests |-> None]
  /\ poll = [p \in Pollers |-> None] /\ sweep = None
  /\ line = [t \in Tests |-> "none"] /\ reports = [t \in Tests |-> {}]
  /\ made = {}

Goto(t, from, to) == pc[t] = from /\ pc' = [pc EXCEPT ![t] = to]

\* A dial's transaction holds the agent's row from its UPDATE to its commit.
AgentUnlocked == \A t \in Tests : pc[t] # "dialled"

-----------------------------------------------------------------------------
(* Placing a test call: reserve in one transaction, dial in the next.      *)

\* reserve_test_run, behind the client's row lock. The gate is the balance.
Reserve(t) ==
  /\ Goto(t, "idle", "reserved")
  /\ balance >= WalletFloor
  /\ test' = [test EXCEPT ![t] = "dialling"]
  /\ snap' = [snap EXCEPT ![t] = rate]
  /\ UNCHANGED <<status, scratch, sid, conv, dur, rate, money, asst, poll, sweep, telnyx>>

\* ensure_scratch_synced up to its UPDATE: what it read decides whether it
\* creates an assistant or changes the recorded one.
Sync(t) ==
  /\ Goto(t, "reserved", "synced")
  /\ \/ /\ scratch = None
        /\ made' = made \cup {t}
        /\ asst' = [asst EXCEPT ![t] = t]
     \/ /\ scratch \in made
        /\ asst' = [asst EXCEPT ![t] = scratch]
        /\ UNCHANGED made
  /\ UNCHANGED <<status, scratch, row, rate, money, poll, sweep, line, reports>>

\* A gateway call of the sync fails, perhaps after the assistant was created.
SyncFails(t) ==
  /\ Goto(t, "reserved", "failing")
  /\ "error" \in Events \/ scratch \notin made \cup {None}
  /\ made' \in {made, IF scratch = None THEN made \cup {t} ELSE made}
  /\ UNCHANGED <<status, scratch, row, rate, money, asst, poll, sweep, line, reports>>

\* UPDATE agent (it waits for the row), then place_call.
Dial(t) ==
  /\ Goto(t, "synced", "dialled")
  /\ AgentUnlocked /\ asst[t] \in made
  /\ line' = [line EXCEPT ![t] = "ringing"]
  /\ UNCHANGED <<status, scratch, row, rate, money, asst, poll, sweep, reports, made>>

\* The dial raises: refused, or sent and its answer lost. All is rolled back.
DialFails(t) ==
  /\ Goto(t, "synced", "failing")
  /\ AgentUnlocked
  /\ \/ /\ "error" \in Events \/ asst[t] \notin made
        /\ UNCHANGED line
     \/ /\ "ambiguous" \in Events /\ asst[t] \in made
        /\ line' = [line EXCEPT ![t] = "ringing"]
  /\ UNCHANGED <<status, scratch, row, rate, money, asst, poll, sweep, reports, made>>

CommitDial(t) ==
  /\ Goto(t, "dialled", "done")
  /\ sid' = sid \cup {t}
  /\ scratch' = asst[t]
  /\ UNCHANGED <<status, test, snap, conv, dur, rate, money, asst, poll, sweep, telnyx>>

\* Mutant: fail_test_run without its guard, for a dial that went through too.
FailAnyTestRun(t) ==
  /\ \E from \in {"failing", "done"} : Goto(t, from, "done")
  /\ test' = [test EXCEPT ![t] = "failed"]
  /\ UNCHANGED <<status, scratch, snap, sid, conv, dur, rate, money, asst, poll, sweep, telnyx>>

FailTestRun(t) ==
  /\ Goto(t, "failing", "done")
  /\ test' = [test EXCEPT ![t] = IF @ = "dialling" THEN "failed" ELSE @]
  /\ UNCHANGED <<status, scratch, snap, sid, conv, dur, rate, money, asst, poll, sweep, telnyx>>

\* The web process dies; an open transaction is rolled back.
Crash(t) ==
  /\ "crash" \in Events
  /\ \E from \in {"reserved", "synced", "dialled", "failing"} : Goto(t, from, "done")
  /\ UNCHANGED <<status, scratch, row, rate, money, asst, poll, sweep, telnyx>>

-----------------------------------------------------------------------------
(* The call at Telnyx, and the callback that bills it.                     *)

PickUp(t) ==
  /\ line[t] = "ringing"
  /\ line' = [line EXCEPT ![t] = "talking"]
  /\ UNCHANGED <<status, scratch, row, rate, money, pc, asst, poll, sweep, reports, made>>

\* Busy, no answer: no conversation, and nothing the callback would bill.
Missed(t) ==
  /\ line[t] = "ringing"
  /\ line' = [line EXCEPT ![t] = "missed"]
  /\ UNCHANGED <<status, scratch, row, rate, money, pc, asst, poll, sweep, reports, made>>

\* The call ends; its 'completed' callbacks may differ in CallDuration.
HangUp(t) ==
  /\ line[t] = "talking"
  /\ line' = [line EXCEPT ![t] = "over"]
  /\ \E D \in SUBSET Durations \ {{}} : reports' = [reports EXCEPT ![t] = D]
  /\ UNCHANGED <<status, scratch, row, rate, money, pc, asst, poll, sweep, made>>

\* duration_sec = coalesce(duration_sec, :dur).
FirstReport(t, d) == IF dur[t] = None THEN d ELSE dur[t]

\* settle_test_call at the rate snapshotted on the row. ON CONFLICT swallows
\* a second debit. Mutants: debits kept with their sign; the client's rate of
\* today; the cache moves even if nothing was inserted.
SettleSigned(t, d) ==
  LET charge == CallCharge(d, snap[t])
  IN  ledger' = [ledger EXCEPT ![t] = -charge] /\ balance' = balance - charge
SettleAtTodaysRate(t, d) ==
  LET charge == CallCharge(d, rate)
  IN  IF charge > 0 /\ ledger[t] = 0
      THEN ledger' = [ledger EXCEPT ![t] = charge] /\ balance' = balance - charge
      ELSE UNCHANGED money
SettleCacheAnyway(t, d) ==
  LET charge == CallCharge(d, snap[t])
  IN  /\ ledger' = [ledger EXCEPT ![t] = IF @ = 0 THEN charge ELSE @]
      /\ balance' = balance - charge
SettleTestCall(t, d) ==
  LET charge == CallCharge(d, snap[t])
  IN  IF charge > 0 /\ ledger[t] = 0
      THEN ledger' = [ledger EXCEPT ![t] = charge] /\ balance' = balance - charge
      ELSE UNCHANGED money

\* _ingest_test_call; whatever it finds, the delivery is consumed (dedupe).
IngestTestCall(t, d) ==
  /\ d \in reports[t]
  /\ reports' = [reports EXCEPT ![t] = @ \ {d}]
  /\ IF t \in sid
     THEN /\ dur' = [dur EXCEPT ![t] = FirstReport(t, d)]
          /\ SettleTestCall(t, FirstReport(t, d))
     ELSE /\ "earlycallback" \in Events \/ pc[t] = "done"
          /\ UNCHANGED <<dur, money>>
  /\ UNCHANGED <<status, scratch, test, snap, sid, conv, rate, pc, asst, poll,
                 sweep, line, made>>

-----------------------------------------------------------------------------
(* The test screen: fetch_pending_results.                                 *)

Dialling == {t \in Tests : test[t] = "dialling"}

\* find_conversations lists one page of the account's conversations (limit 20)
\* and keeps those of this assistant.
Conversations(a) == {t \in Tests : asst[t] = a /\ line[t] \in {"talking", "over"}}

CallEnded(t) == line[t] \notin {"ringing", "talking"}

\* _fail_stale_runs: 90 seconds without a conversation, or 8 minutes.
\* Mutant: 90 seconds for every test.
StaleAfter90s == Dialling
MayBeStale == {t \in Dialling : t \notin conv \/ CallEnded(t)}

\* Mutant: conversations are handed to pending tests by position.
PollQueryByPosition(p) ==
  /\ poll[p] = None
  /\ Dialling # {} /\ scratch # None
  /\ \E page \in SUBSET Conversations(scratch) :
       poll' = [poll EXCEPT ![p] = IF page = {} THEN Dialling \cap conv ELSE Dialling]
  /\ UNCHANGED <<status, scratch, row, rate, money, pc, asst, sweep, telnyx>>

\* The query: a pending test joins its conversation by its CallSid.
PollQuery(p) ==
  /\ poll[p] = None
  /\ Dialling # {} /\ scratch # None
  /\ \E page \in SUBSET Conversations(scratch) :
       poll' = [poll EXCEPT ![p] = Dialling \cap (conv \cup (sid \cap page))]
  /\ UNCHANGED <<status, scratch, row, rate, money, pc, asst, sweep, telnyx>>

\* The writes: time out, record matches, complete what is scored.
PollWrite(p) ==
  /\ poll[p] # None
  /\ \E late \in SUBSET MayBeStale :
       LET matched == poll[p] \ late
       IN  \E scored \in SUBSET {t \in matched : line[t] = "over"} :
             /\ conv' = conv \cup matched
             /\ test' = [t \in Tests |-> IF t \in scored THEN "complete"
                                         ELSE IF t \in late THEN "failed" ELSE test[t]]
             /\ IF status = "draft" /\ late \cup scored \cup (matched \ conv) # {}
                THEN AgentUnlocked /\ status' = "tested"
                ELSE UNCHANGED status
  /\ poll' = [poll EXCEPT ![p] = None]
  /\ UNCHANGED <<scratch, snap, sid, dur, rate, money, pc, asst, sweep, telnyx>>

\* Insights or messages cannot be fetched: everything is rolled back.
PollFails(p) ==
  /\ "error" \in Events /\ poll[p] # None
  /\ poll' = [poll EXCEPT ![p] = None]
  /\ UNCHANGED <<status, scratch, row, rate, money, pc, asst, sweep, telnyx>>

\* No scratch assistant is recorded: there is nothing to ask, only to time out.
PollBlind(p) ==
  /\ poll[p] = None /\ scratch = None
  /\ \E late \in SUBSET MayBeStale \ {{}} :
       test' = [t \in Tests |-> IF t \in late THEN "failed" ELSE test[t]]
  /\ UNCHANGED <<status, scratch, snap, sid, conv, dur, rate, money, pc, asst,
                 poll, sweep, telnyx>>

-----------------------------------------------------------------------------
(* Housekeeping.                                                           *)

\* 15 minutes. Mutant: the sweep waits for a recorded CallSid.
DialledAndAbandoned == {t \in Dialling \cap sid : pc[t] = "done" /\ CallEnded(t)}
MayBeAbandoned == {t \in Dialling : pc[t] = "done" /\ CallEnded(t)}

FailStaleTestRuns(S) ==
  /\ S # {} /\ S \subseteq MayBeAbandoned
  /\ test' = [t \in Tests |-> IF t \in S THEN "failed" ELSE test[t]]
  /\ UNCHANGED <<status, scratch, snap, sid, conv, dur, rate, money, pc, asst,
                 poll, sweep, telnyx>>

\* sweep_scratch_assistants: delete at Telnyx (404 raises), then forget the id.
SweepDelete ==
  /\ sweep = None
  /\ status = "launched" /\ scratch \in made
  /\ sweep' = scratch
  /\ made' = made \ {scratch}
  /\ UNCHANGED <<status, scratch, row, rate, money, pc, asst, poll, line, reports>>

SweepForget ==
  /\ sweep # None /\ AgentUnlocked
  /\ scratch' = None /\ sweep' = None
  /\ UNCHANGED <<status, row, rate, money, pc, asst, poll, telnyx>>

\* Deleting the TeXML application fails, or the worker dies: the id stays.
SweepAborts ==
  /\ Events \cap {"crash", "error"} # {}
  /\ sweep # None /\ sweep' = None
  /\ UNCHANGED <<status, scratch, row, rate, money, pc, asst, poll, telnyx>>

-----------------------------------------------------------------------------
(* The rest of the system, as far as it touches the test loop.             *)

\* launch: preflight wants one test_run row and an agent that has not run.
Launch ==
  /\ status # "launched" /\ AgentUnlocked
  /\ \E t \in Tests : test[t] # "none"
  /\ status' = "launched"
  /\ UNCHANGED <<scratch, row, rate, money, pc, asst, poll, sweep, telnyx>>

\* wallet.set_rate from the console.
SetRate(r) ==
  /\ r # rate
  /\ rate' = r
  /\ UNCHANGED <<status, scratch, row, money, pc, asst, poll, sweep, telnyx>>

-----------------------------------------------------------------------------
Place(t) ==
  \/ Reserve(t) \/ Sync(t) \/ SyncFails(t) \/ Dial(t) \/ DialFails(t)
  \/ CommitDial(t) \/ FailTestRun(t) \/ Crash(t)

Telephone(t) == PickUp(t) \/ Missed(t) \/ HangUp(t)

Screen(p) == PollQuery(p) \/ PollWrite(p) \/ PollFails(p) \/ PollBlind(p)

Housekeeping ==
  \/ \E S \in SUBSET Dialling : FailStaleTestRuns(S)
  \/ SweepDelete \/ SweepForget \/ SweepAborts

Next ==
  \/ \E t \in Tests : Place(t) \/ Telephone(t)
  \/ \E t \in Tests, d \in Durations : IngestTestCall(t, d)
  \/ \E p \in Pollers : Screen(p)
  \/ Housekeeping
  \/ Launch
  \/ \E r \in Rates : SetRate(r)

Spec == Init /\ [][Next]_vars

\* What keeps running: an accepted request (or it crashes), the worker's
\* housekeeping, time, and the end of a call. No callback is owed, and nobody
\* need ever open the test screen.
Fairness ==
  /\ \A t \in Tests :
       /\ WF_vars(Sync(t) \/ SyncFails(t) \/ Dial(t) \/ DialFails(t) \/ CommitDial(t)
                  \/ FailTestRun(t))
       /\ WF_vars(PickUp(t) \/ Missed(t)) /\ WF_vars(HangUp(t))
       /\ WF_vars(\E S \in SUBSET Dialling : t \in S /\ FailStaleTestRuns(S))
  /\ WF_vars(SweepDelete) /\ WF_vars(SweepForget)

FairSpec == Spec /\ Fairness

-----------------------------------------------------------------------------
\* Every variable stays in its type, whatever crashes or fails.
TypeOK ==
  /\ status \in {"draft", "tested", "launched"}
  /\ scratch \in Tests \cup {None} /\ sweep \in Tests \cup {None}
  /\ test \in [Tests -> {"none", "dialling", "complete", "failed"}]
  /\ rate \in Rates /\ snap \in [Tests -> Rates]
  /\ sid \subseteq Tests /\ conv \subseteq Tests
  /\ dur \in [Tests -> Durations \cup {None}]
  /\ balance \in Int /\ ledger \in [Tests -> Nat]
  /\ pc \in [Tests -> {"idle", "reserved", "synced", "dialled", "failing", "done"}]
  /\ asst \in [Tests -> Tests \cup {None}]
  /\ poll \in [Pollers -> (SUBSET Tests) \cup {None}]
  /\ line \in [Tests -> {"none", "ringing", "talking", "missed", "over"}]
  /\ reports \in [Tests -> SUBSET Durations]
  /\ made \subseteq Tests

\* A test call is billed for the first duration Telnyx reported, at the rate
\* it was placed at, once, whatever its verdict and whatever staff did to the
\* rate since (ingest.py:143-146, wallet.py:286-331).
TestsBilledExactly ==
  \A t \in Tests : ledger[t] = IF dur[t] = None THEN 0 ELSE CallCharge(dur[t], snap[t])

\* wallet.verify: the cached balance is the ledger's sum.
CacheIsLedger == balance = OpeningBalance - SumFunction(ledger)

\* The exact join (testing.py:346-355): a verdict of 'complete' is of a test
\* whose own call was tracked and has ended.
CompleteWasTalked ==
  \A t \in Tests : test[t] = "complete" => line[t] = "over" /\ t \in sid \cap conv

\* No timeout, sweep or failed request overwrites a result (testing.py:255-260,
\* housekeeping.py:90-109).
CompleteIsFinal ==
  [][\A t \in Tests : test[t] = "complete" => test'[t] = "complete"]_vars

\* A matched test whose call is still going on is not timed out, by a poll, the
\* sweep or its own request (testing.py:300-304).
MatchedIsNotCutOff ==
  [][\A t \in conv : test[t] = "dialling" /\ test'[t] = "failed" => line[t] # "talking"]_vars

\* A test's hold never leaks (wallet.py:21-26), though nobody watches the
\* screen and requests crash.
TestHoldsReleased == \A t \in Tests : test[t] = "dialling" ~> test[t] # "dialling"

-----------------------------------------------------------------------------
(* What comments say and the code does not do.                             *)

\* testing.py:356-357: "'no conversation' means Telnyx really has none". So a
\* poll never fails a call in progress whose conversation it has just been told.
TimedOutHasNoConversation ==
  [][\A p \in Pollers : poll[p] # None =>
       \A t \in poll[p] \ conv :
         test[t] = "dialling" /\ test'[t] = "failed" => line[t] # "talking"]_vars
=============================================================================

--------------------------- MODULE TestCallsProofs ---------------------------
(***************************************************************************)
(* Theorems about the test loop, for any number of tests and screens, any  *)
(* rates and durations, and every subset of AllEvents.                     *)
(***************************************************************************)
EXTENDS TestCalls, Sums

-----------------------------------------------------------------------------
(* Money.                                                                  *)

\* A call no longer than the minutes it was held for costs at most its hold
\* (wallet.py:57-61, "no attempt can cost more than its hold").
THEOREM ChargeWithinHold ==
  ASSUME NEW r \in Nat, NEW minutes \in Nat, NEW d \in Nat, d <= 60 * minutes
  PROVE  CallCharge(d, r) <= PerCallReserve(r, minutes)
<1>1. CASE d = 0
  <2>1. r * minutes >= 0
    OBVIOUS
  <2> QED
    BY <1>1, <2>1 DEF CallCharge, PerCallReserve
<1>2. CASE d > 0
  <2> DEFINE h == r * minutes
  <2>1. r * d <= r * (60 * minutes)
    OBVIOUS
  <2>2. r * (60 * minutes) = 60 * h
    OBVIOUS
  <2>3. h \in Nat /\ r * d \in Nat
    OBVIOUS
  <2>4. \A x, y \in Nat : x <= 60 * y => (2 * x + 60) \div 120 <= y
    OBVIOUS
  <2> HIDE DEF h
  <2>5. (2 * (r * d) + 60) \div 120 <= h
    BY <2>1, <2>2, <2>3, <2>4
  <2> QED
    BY <1>2, <2>5 DEF CallCharge, PerCallReserve, h
<1> QED
  BY <1>1, <1>2

\* The started minutes a ledger line shows, times the rate, bound what it
\* debits: per-second billing never exceeds what per-minute billing would be
\* (wallet.py:36-54).
THEOREM ChargeWithinShownMinutes ==
  ASSUME NEW r \in Nat, NEW d \in Nat
  PROVE  CallCharge(d, r) <= r * BilledMinutes(d)
<1>1. BilledMinutes(d) \in Nat /\ d <= 60 * BilledMinutes(d)
  BY DEF BilledMinutes
<1> QED
  BY <1>1, ChargeWithinHold DEF PerCallReserve

\* A charge is never negative.
LEMMA ChargeIsNat ==
  ASSUME NEW r \in Nat, NEW d \in Nat
  PROVE  CallCharge(d, r) \in Nat
<1>1. r * d \in Nat
  OBVIOUS
<1>2. \A x \in Nat : (2 * x + 60) \div 120 \in Nat
  OBVIOUS
<1> QED
  BY <1>1, <1>2 DEF CallCharge

-----------------------------------------------------------------------------
(* Types.                                                                  *)

LEMMA TypeInit == Init => TypeOK
BY TestCallsAssumption DEF Init, TypeOK

LEMMA TypePlace ==
  ASSUME TypeOK, NEW t \in Tests, Place(t)
  PROVE  TypeOK'
<1> USE DEF TypeOK, Goto, row, money, telnyx
<1>1. CASE Reserve(t)
  BY <1>1 DEF Reserve
<1>2. CASE Sync(t)
  BY <1>2 DEF Sync
<1>3. CASE SyncFails(t)
  BY <1>3 DEF SyncFails
<1>4. CASE Dial(t)
  BY <1>4 DEF Dial
<1>5. CASE DialFails(t)
  BY <1>5 DEF DialFails
<1>6. CASE CommitDial(t)
  BY <1>6 DEF CommitDial
<1>7. CASE FailTestRun(t)
  BY <1>7 DEF FailTestRun
<1>8. CASE Crash(t)
  BY <1>8 DEF Crash
<1> QED
  BY <1>1, <1>2, <1>3, <1>4, <1>5, <1>6, <1>7, <1>8 DEF Place

LEMMA TypeTelephone ==
  ASSUME TypeOK, NEW t \in Tests, Telephone(t)
  PROVE  TypeOK'
<1> USE DEF TypeOK, row, money
<1>1. CASE PickUp(t)
  BY <1>1 DEF PickUp
<1>2. CASE Missed(t)
  BY <1>2 DEF Missed
<1>3. CASE HangUp(t)
  BY <1>3 DEF HangUp
<1> QED
  BY <1>1, <1>2, <1>3 DEF Telephone

\* What a settlement may do to the ledger and the cache.
LEMMA SettleShape ==
  ASSUME TypeOK, NEW t \in Tests, NEW d \in Durations, SettleTestCall(t, d)
  PROVE  /\ balance' \in Int /\ ledger' \in [Tests -> Nat]
         /\ CallCharge(d, snap[t]) \in Nat
         /\ \A u \in Tests \ {t} : ledger'[u] = ledger[u]
         /\ ledger'[t] = IF ledger[t] = 0 THEN CallCharge(d, snap[t]) ELSE ledger[t]
<1>1. CallCharge(d, snap[t]) \in Nat
  BY ChargeIsNat, TestCallsAssumption DEF TypeOK
<1> QED
  BY <1>1 DEF SettleTestCall, TypeOK, money

LEMMA TypeIngest ==
  ASSUME TypeOK, NEW t \in Tests, NEW d \in Durations, IngestTestCall(t, d)
  PROVE  TypeOK'
<1>1. FirstReport(t, d) \in Durations
  BY DEF FirstReport, TypeOK
<1>2. balance' \in Int /\ ledger' \in [Tests -> Nat] /\ dur' \in [Tests -> Durations \cup {None}]
  BY <1>1, SettleShape DEF IngestTestCall, TypeOK, money
<1> QED
  BY <1>2 DEF IngestTestCall, TypeOK

LEMMA TypeScreen ==
  ASSUME TypeOK, NEW p \in Pollers, Screen(p)
  PROVE  TypeOK'
<1> USE DEF TypeOK, money, telnyx
<1>1. CASE PollQuery(p)
  BY <1>1 DEF PollQuery, Dialling, row
<1>2. CASE PollWrite(p)
  BY <1>2 DEF PollWrite
<1>3. CASE PollFails(p)
  BY <1>3 DEF PollFails, row
<1>4. CASE PollBlind(p)
  BY <1>4 DEF PollBlind
<1> QED
  BY <1>1, <1>2, <1>3, <1>4 DEF Screen

LEMMA TypeHousekeeping ==
  ASSUME TypeOK, Housekeeping
  PROVE  TypeOK'
<1> USE DEF TypeOK, money, telnyx
<1>1. CASE \E S \in SUBSET Dialling : FailStaleTestRuns(S)
  BY <1>1 DEF FailStaleTestRuns
<1>2. CASE SweepDelete
  BY <1>2, TestCallsAssumption DEF SweepDelete, row
<1>3. CASE SweepForget
  BY <1>3 DEF SweepForget, row
<1>4. CASE SweepAborts
  BY <1>4 DEF SweepAborts, row
<1> QED
  BY <1>1, <1>2, <1>3, <1>4 DEF Housekeeping

LEMMA TypeStep == TypeOK /\ [Next]_vars => TypeOK'
<1> SUFFICES ASSUME TypeOK, [Next]_vars PROVE TypeOK'
  OBVIOUS
<1>1. ASSUME NEW t \in Tests, Place(t) \/ Telephone(t) PROVE TypeOK'
  BY <1>1, TypePlace, TypeTelephone
<1>2. CASE Launch
  BY <1>2 DEF Launch, TypeOK, row, money, telnyx
<1>3. ASSUME NEW r \in Rates, SetRate(r) PROVE TypeOK'
  BY <1>3 DEF SetRate, TypeOK, row, money, telnyx
<1>4. CASE UNCHANGED vars
  BY <1>4 DEF vars, TypeOK, row, money, telnyx
<1> QED
  BY <1>1, <1>2, <1>3, <1>4, TypeIngest, TypeScreen, TypeHousekeeping DEF Next

\* Every variable keeps its type, whatever crashes, fails or overlaps.
THEOREM TypeCorrect == Spec => []TypeOK
BY TypeInit, TypeStep, PTL DEF Spec

-----------------------------------------------------------------------------
(* Verdicts and bills. A CallSid is recorded when the request is done, and *)
(* everything else that is known of the call is known through it.          *)

TrackedInv ==
  /\ TypeOK
  /\ \A t \in Tests : pc[t] = "idle" => test[t] = "none"
  /\ \A t \in sid : pc[t] = "done"
  /\ conv \subseteq sid
  /\ \A p \in Pollers : poll[p] # None => poll[p] \subseteq sid
  /\ \A t \in Tests : dur[t] # None => t \in sid

LoopInv == TrackedInv /\ TestsBilledExactly /\ CompleteWasTalked

LEMMA LoopInit == Init => LoopInv
BY TypeInit, TestCallsAssumption
   DEF Init, LoopInv, TrackedInv, TestsBilledExactly, CompleteWasTalked

\* A request leaves the bills alone, and gives no verdict but 'failed'.
LEMMA LoopPlace ==
  ASSUME LoopInv, TypeOK', NEW t \in Tests, Place(t)
  PROVE  LoopInv'
<1> USE DEF LoopInv, TrackedInv, TypeOK, TestsBilledExactly, CompleteWasTalked, Goto,
            row, money, telnyx
<1>1. CASE Reserve(t)
  <2>1. pc[t] = "idle" /\ t \notin sid /\ dur[t] = None
    BY <1>1 DEF Reserve
  <2> QED
    BY <1>1, <2>1 DEF Reserve
<1>2. CASE Sync(t)
  BY <1>2 DEF Sync
<1>3. CASE SyncFails(t)
  BY <1>3 DEF SyncFails
<1>4. CASE Dial(t)
  <2>1. t \notin sid
    BY <1>4 DEF Dial
  <2> QED
    BY <1>4, <2>1 DEF Dial
<1>5. CASE DialFails(t)
  <2>1. t \notin sid
    BY <1>5 DEF DialFails
  <2> QED
    BY <1>5, <2>1 DEF DialFails
<1>6. CASE CommitDial(t)
  BY <1>6 DEF CommitDial
<1>7. CASE FailTestRun(t)
  BY <1>7 DEF FailTestRun
<1>8. CASE Crash(t)
  BY <1>8 DEF Crash
<1> QED
  BY <1>1, <1>2, <1>3, <1>4, <1>5, <1>6, <1>7, <1>8 DEF Place

LEMMA LoopTelephone ==
  ASSUME LoopInv, TypeOK', NEW t \in Tests, Telephone(t)
  PROVE  LoopInv'
<1> USE DEF LoopInv, TrackedInv, TypeOK, TestsBilledExactly, CompleteWasTalked, row, money
<1>1. CASE PickUp(t)
  BY <1>1 DEF PickUp
<1>2. CASE Missed(t)
  BY <1>2 DEF Missed
<1>3. CASE HangUp(t)
  BY <1>3 DEF HangUp
<1> QED
  BY <1>1, <1>2, <1>3 DEF Telephone

\* The first callback fixes the duration, and with it the bill; a later one
\* finds both fixed.
LEMMA LoopIngest ==
  ASSUME LoopInv, TypeOK', NEW t \in Tests, NEW d \in Durations, IngestTestCall(t, d)
  PROVE  LoopInv'
<1>1. CASE t \notin sid
  BY <1>1 DEF IngestTestCall, LoopInv, TrackedInv, TestsBilledExactly, CompleteWasTalked, money
<1>2. CASE t \in sid
  <2> DEFINE f == FirstReport(t, d)
  <2>1. f \in Durations /\ f # None
    BY TestCallsAssumption DEF FirstReport, LoopInv, TrackedInv, TypeOK
  <2>2. SettleTestCall(t, f) /\ dur' = [dur EXCEPT ![t] = f]
    BY <1>2 DEF IngestTestCall
  <2>3. /\ CallCharge(f, snap[t]) \in Nat
        /\ \A u \in Tests \ {t} : ledger'[u] = ledger[u]
        /\ ledger'[t] = IF ledger[t] = 0 THEN CallCharge(f, snap[t]) ELSE ledger[t]
    BY <2>1, <2>2, SettleShape DEF LoopInv, TrackedInv
  <2>4. ledger[t] = 0 \/ ledger[t] = CallCharge(f, snap[t])
    BY DEF FirstReport, LoopInv, TestsBilledExactly
  <2>5. TestsBilledExactly'
    <3> SUFFICES ASSUME NEW u \in Tests
                 PROVE  ledger'[u] = IF dur'[u] = None THEN 0 ELSE CallCharge(dur'[u], snap'[u])
      BY DEF TestsBilledExactly
    <3>1. snap' = snap
      BY DEF IngestTestCall
    <3>2. CASE u = t
      BY <2>1, <2>2, <2>3, <2>4, <3>1, <3>2 DEF LoopInv, TrackedInv, TypeOK
    <3>3. CASE u # t
      BY <2>2, <2>3, <3>1, <3>3 DEF LoopInv, TrackedInv, TypeOK, TestsBilledExactly
    <3> QED
      BY <3>2, <3>3
  <2>6. TrackedInv'
    BY <1>2, <2>2 DEF IngestTestCall, LoopInv, TrackedInv, TypeOK
  <2>7. CompleteWasTalked'
    BY DEF IngestTestCall, LoopInv, CompleteWasTalked
  <2> QED
    BY <2>5, <2>6, <2>7 DEF LoopInv
<1> QED
  BY <1>1, <1>2

\* What one poll writes.
LEMMA PollWriteShape ==
  ASSUME NEW p \in Pollers, PollWrite(p)
  PROVE  \E late \in SUBSET MayBeStale :
           \E scored \in SUBSET {t \in poll[p] \ late : line[t] = "over"} :
             /\ conv' = conv \cup (poll[p] \ late)
             /\ test' = [t \in Tests |-> IF t \in scored THEN "complete"
                                         ELSE IF t \in late THEN "failed" ELSE test[t]]
BY Zenon DEF PollWrite

LEMMA LoopScreen ==
  ASSUME LoopInv, TypeOK', NEW p \in Pollers, Screen(p)
  PROVE  LoopInv'
<1> USE DEF LoopInv, TrackedInv, TypeOK, TestsBilledExactly, CompleteWasTalked, money, telnyx
<1>1. CASE PollQuery(p)
  BY <1>1 DEF PollQuery, row
<1>2. CASE PollWrite(p)
  <2>1. poll[p] # None /\ poll[p] \subseteq sid
    BY <1>2 DEF PollWrite
  <2>2. PICK late \in SUBSET MayBeStale :
          \E scored \in SUBSET {t \in poll[p] \ late : line[t] = "over"} :
            /\ conv' = conv \cup (poll[p] \ late)
            /\ test' = [t \in Tests |-> IF t \in scored THEN "complete"
                                        ELSE IF t \in late THEN "failed" ELSE test[t]]
    BY <1>2, PollWriteShape
  <2>3. UNCHANGED <<sid, snap, dur, ledger, pc, line>>
    BY <1>2 DEF PollWrite
  <2>4. CompleteWasTalked'
    BY <2>1, <2>2, <2>3
  <2>5. TrackedInv'
    BY <1>2, <2>1, <2>2, <2>3 DEF PollWrite, MayBeStale, Dialling
  <2> QED
    BY <2>3, <2>4, <2>5
<1>3. CASE PollFails(p)
  BY <1>3 DEF PollFails, row
<1>4. CASE PollBlind(p)
  BY <1>4 DEF PollBlind, MayBeStale, Dialling
<1> QED
  BY <1>1, <1>2, <1>3, <1>4 DEF Screen

LEMMA LoopHousekeeping ==
  ASSUME LoopInv, TypeOK', Housekeeping
  PROVE  LoopInv'
<1> USE DEF LoopInv, TrackedInv, TypeOK, TestsBilledExactly, CompleteWasTalked, money, telnyx
<1>1. CASE \E S \in SUBSET Dialling : FailStaleTestRuns(S)
  BY <1>1 DEF FailStaleTestRuns, MayBeAbandoned, Dialling
<1>2. CASE SweepDelete
  BY <1>2 DEF SweepDelete, row
<1>3. CASE SweepForget
  BY <1>3 DEF SweepForget, row
<1>4. CASE SweepAborts
  BY <1>4 DEF SweepAborts, row
<1> QED
  BY <1>1, <1>2, <1>3, <1>4 DEF Housekeeping

LEMMA LoopStep == LoopInv /\ [Next]_vars => LoopInv'
<1> SUFFICES ASSUME LoopInv, [Next]_vars PROVE LoopInv'
  OBVIOUS
<1>0. TypeOK'
  BY TypeStep DEF LoopInv, TrackedInv
<1>1. CASE Launch
  BY <1>0, <1>1 DEF Launch, LoopInv, TrackedInv, TestsBilledExactly, CompleteWasTalked,
                    row, money, telnyx
<1>2. ASSUME NEW r \in Rates, SetRate(r) PROVE LoopInv'
  BY <1>0, <1>2 DEF SetRate, LoopInv, TrackedInv, TestsBilledExactly, CompleteWasTalked,
                    row, money, telnyx
<1>3. CASE UNCHANGED vars
  BY <1>0, <1>3 DEF vars, LoopInv, TrackedInv, TestsBilledExactly, CompleteWasTalked,
                    row, money, telnyx
<1> QED
  BY <1>0, <1>1, <1>2, <1>3, LoopPlace, LoopTelephone, LoopIngest, LoopScreen, LoopHousekeeping
     DEF Next

THEOREM LoopCorrect == Spec => []LoopInv
BY LoopInit, LoopStep, PTL DEF Spec

\* A test call is billed once, for its first reported duration, at the rate it
\* was placed at, whatever the polls made of it.
THEOREM BilledCorrect == Spec => []TestsBilledExactly
<1>1. LoopInv => TestsBilledExactly
  BY DEF LoopInv
<1> QED
  BY <1>1, LoopCorrect, PTL

\* A test reads 'complete' only after its own tracked call has ended.
THEOREM TalkedCorrect == Spec => []CompleteWasTalked
<1>1. LoopInv => CompleteWasTalked
  BY DEF LoopInv
<1> QED
  BY <1>1, LoopCorrect, PTL

-----------------------------------------------------------------------------
(* The books: the cached balance and the entries move together.            *)

\* Only a callback moves money.
LEMMA OnlyCallbacksSettle ==
  ASSUME [Next]_vars, ~\E t \in Tests, d \in Durations : IngestTestCall(t, d)
  PROVE  UNCHANGED money
<1>1. ASSUME NEW t \in Tests, Place(t) \/ Telephone(t) PROVE UNCHANGED money
  BY <1>1 DEF Place, Reserve, Sync, SyncFails, Dial, DialFails, CommitDial, FailTestRun, Crash,
     Telephone, PickUp, Missed, HangUp
<1>2. ASSUME NEW p \in Pollers, Screen(p) PROVE UNCHANGED money
  BY <1>2 DEF Screen, PollQuery, PollWrite, PollFails, PollBlind
<1>3. CASE Housekeeping \/ Launch \/ (\E r \in Rates : SetRate(r)) \/ UNCHANGED vars
  BY <1>3 DEF Housekeeping, FailStaleTestRuns, SweepDelete, SweepForget, SweepAborts, Launch,
     SetRate, vars
<1> QED
  BY <1>1, <1>2, <1>3 DEF Next

\* A callback adds one entry, or nothing, and takes the same off the cache.
LEMMA CallbackSettles ==
  ASSUME TypeOK, NEW t \in Tests, NEW d \in Durations, IngestTestCall(t, d)
  PROVE  \/ UNCHANGED money
         \/ /\ ledger[t] = 0 /\ balance' = balance - ledger'[t]
            /\ \A u \in Tests \ {t} : ledger'[u] = ledger[u]
<1>1. CASE t \notin sid
  BY <1>1 DEF IngestTestCall
<1>2. CASE t \in sid
  <2> DEFINE f == FirstReport(t, d)
  <2>1. f \in Durations /\ SettleTestCall(t, f)
    BY <1>2 DEF IngestTestCall, FirstReport, TypeOK
  <2> QED
    BY <2>1 DEF SettleTestCall, TypeOK, money
<1> QED
  BY <1>1, <1>2

LEMMA CacheStep == TypeOK /\ CacheIsLedger /\ [Next]_vars => CacheIsLedger'
<1> SUFFICES ASSUME TypeOK, CacheIsLedger, [Next]_vars PROVE CacheIsLedger'
  OBVIOUS
<1>1. /\ ledger \in [Tests -> Nat] /\ ledger' \in [Tests -> Nat] /\ balance \in Int
      /\ balance = OpeningBalance - SumFunctionOnSet(ledger, Tests)
  BY TypeStep DEF TypeOK, CacheIsLedger, SumFunction
<1>2. SumFunctionOnSet(ledger, Tests) \in Int
  BY <1>1, TestCallsAssumption, SumTake
<1>3. SUFFICES balance' = OpeningBalance - SumFunctionOnSet(ledger', Tests)
  BY <1>1 DEF CacheIsLedger, SumFunction
<1>4. CASE UNCHANGED money
  BY <1>1, <1>4 DEF money
<1>5. ASSUME NEW t \in Tests, NEW d \in Durations, IngestTestCall(t, d), ~UNCHANGED money
      PROVE  balance' = OpeningBalance - SumFunctionOnSet(ledger', Tests)
  <2>1. /\ ledger[t] = 0 /\ balance' = balance - ledger'[t]
        /\ \A u \in Tests \ {t} : ledger'[u] = ledger[u]
    BY <1>5, CallbackSettles
  <2>2. \A u \in Tests : ledger[u] \in Int /\ ledger'[u] \in Int
    BY <1>1
  <2>3. SumFunctionOnSet(ledger', Tests)
          = SumFunctionOnSet(ledger, Tests) + ledger'[t] - ledger[t]
    BY <2>1, <2>2, TestCallsAssumption, SumChange
  <2> QED
    BY <1>1, <1>2, <2>1, <2>2, <2>3, TestCallsAssumption
<1> QED
  BY <1>4, <1>5, OnlyCallbacksSettle

\* The cached balance is what the test debits leave of the opening balance.
THEOREM CacheCorrect == Spec => []CacheIsLedger
<1>1. Init => CacheIsLedger
  <2> SUFFICES ASSUME Init PROVE CacheIsLedger
    OBVIOUS
  <2>1. DOMAIN ledger = Tests /\ \A t \in Tests : ledger[t] = 0
    BY DEF Init
  <2>2. SumFunction(ledger) = 0
    BY <2>1, TestCallsAssumption, SumZeros DEF SumFunction
  <2> QED
    BY <2>2, TestCallsAssumption DEF Init, CacheIsLedger
<1> QED
  BY <1>1, TypeInit, TypeStep, CacheStep, PTL DEF Spec

-----------------------------------------------------------------------------
(* Who may write 'failed', and over what.                                  *)

\* Only four statements change a verdict; none of them touches 'complete', and
\* none fails a matched test whose call goes on.
LEMMA VerdictStep ==
  ASSUME TrackedInv, [Next]_vars, NEW t \in Tests
  PROVE  /\ test[t] = "complete" => test'[t] = "complete"
         /\ t \in conv /\ test[t] = "dialling" /\ test'[t] = "failed" => line[t] # "talking"
<1> DEFINE Goal == /\ test[t] = "complete" => test'[t] = "complete"
                   /\ t \in conv /\ test[t] = "dialling" /\ test'[t] = "failed"
                        => line[t] # "talking"
<1>0. ASSUME UNCHANGED test PROVE Goal
  BY <1>0
<1>1. ASSUME NEW u \in Tests, Place(u) PROVE Goal
  <2>1. CASE Reserve(u)
    BY <2>1 DEF Reserve, Goto, TrackedInv, TypeOK
  <2>2. CASE FailTestRun(u)
    BY <2>2 DEF FailTestRun, Goto, TrackedInv, TypeOK
  <2>3. CASE Sync(u) \/ SyncFails(u) \/ Dial(u) \/ DialFails(u) \/ CommitDial(u) \/ Crash(u)
    BY <1>0, <2>3 DEF Sync, SyncFails, Dial, DialFails, CommitDial, Crash, row
  <2> QED
    BY <1>1, <2>1, <2>2, <2>3 DEF Place
<1>2. ASSUME NEW u \in Tests, Telephone(u) PROVE Goal
  BY <1>0, <1>2 DEF Telephone, PickUp, Missed, HangUp, row
<1>3. ASSUME NEW u \in Tests, NEW d \in Durations, IngestTestCall(u, d) PROVE Goal
  BY <1>0, <1>3 DEF IngestTestCall
<1>4. ASSUME NEW p \in Pollers, Screen(p) PROVE Goal
  <2>1. CASE PollWrite(p)
    <3>1. PICK late \in SUBSET MayBeStale :
            \E scored \in SUBSET {u \in poll[p] \ late : line[u] = "over"} :
              /\ conv' = conv \cup (poll[p] \ late)
              /\ test' = [u \in Tests |-> IF u \in scored THEN "complete"
                                          ELSE IF u \in late THEN "failed" ELSE test[u]]
      BY <2>1, PollWriteShape
    <3> QED
      BY <3>1 DEF MayBeStale, Dialling, CallEnded
  <2>2. CASE PollBlind(p)
    BY <2>2 DEF PollBlind, MayBeStale, Dialling, CallEnded
  <2>3. CASE PollQuery(p) \/ PollFails(p)
    BY <1>0, <2>3 DEF PollQuery, PollFails, row
  <2> QED
    BY <1>4, <2>1, <2>2, <2>3 DEF Screen
<1>5. CASE Housekeeping
  <2>1. CASE \E S \in SUBSET Dialling : FailStaleTestRuns(S)
    BY <2>1 DEF FailStaleTestRuns, MayBeAbandoned, Dialling, CallEnded
  <2>2. CASE SweepDelete \/ SweepForget \/ SweepAborts
    BY <1>0, <2>2 DEF SweepDelete, SweepForget, SweepAborts, row
  <2> QED
    BY <1>5, <2>1, <2>2 DEF Housekeeping
<1>6. ASSUME Launch \/ \E r \in Rates : SetRate(r) PROVE Goal
  BY <1>0, <1>6 DEF Launch, SetRate, row
<1>7. CASE UNCHANGED vars
  BY <1>0, <1>7 DEF vars, row
<1> QED
  BY <1>1, <1>2, <1>3, <1>4, <1>5, <1>6, <1>7 DEF Next

\* No timeout, sweep or failed request overwrites a result.
THEOREM FinalCorrect == Spec => CompleteIsFinal
<1>1. LoopInv /\ [Next]_vars
        => [\A t \in Tests : test[t] = "complete" => test'[t] = "complete"]_vars
  BY VerdictStep DEF LoopInv
<1> QED
  BY <1>1, LoopCorrect, PTL DEF Spec, CompleteIsFinal

\* A matched test whose call is going on is not timed out.
THEOREM MatchedCorrect == Spec => MatchedIsNotCutOff
<1>1. LoopInv /\ [Next]_vars
        => [\A t \in conv : test[t] = "dialling" /\ test'[t] = "failed"
                               => line[t] # "talking"]_vars
  BY VerdictStep DEF LoopInv, TrackedInv, TypeOK
<1> QED
  BY <1>1, LoopCorrect, PTL DEF Spec, MatchedIsNotCutOff
=============================================================================

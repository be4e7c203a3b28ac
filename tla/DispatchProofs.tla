--------------------------- MODULE DispatchProofs ---------------------------
(* What the dispatch core guarantees for any number of agents, contacts,   *)
(* workers and webhook requests: types, the governor, the life of a call   *)
(* row and the books whatever the events, and the prepaid wallet's promise *)
(* while no sweep overlaps a callback.                                     *)
EXTENDS Dispatch, Sums

Holding == {"dial", "record", "drop", "refund", "retry"}

\* A pending item has an attempt left.
BudgetLeft == \A i \in Items : state[i] = "pending" => attempts[i] <= RetryAttempts

\* A worker between a claim and its outcome holds a call.
HeldWhileDialling == \A w \in Workers : pc[w] \in Holding => held[w] \in Calls

TypeInv == TypeOK /\ BudgetLeft /\ HeldWhileDialling

\* The parts of a call's name.
LEMMA CallParts ==
  /\ \A c \in Calls : c[1] \in Items /\ c[2] \in 1 .. RetryAttempts + 1 /\ c = <<c[1], c[2]>>
  /\ \A i \in Items, k \in 1 .. RetryAttempts + 1 : <<i, k>> \in Calls
BY DEF Calls

\* The next attempt of a pending item is within the budget.
LEMMA NextAttemptIsCall ==
  ASSUME TypeOK, BudgetLeft, NEW i \in Items, state[i] = "pending"
  PROVE  NextAttempt(i) \in Calls
<1>1. attempts[i] + 1 \in 1 .. RetryAttempts + 1
  BY DispatchAssumption DEF TypeOK, BudgetLeft
<1> QED
  BY <1>1, CallParts DEF NextAttempt

\* The retry policy keeps items and their budgets in type.
LEMMA RetryPolicyTyped ==
  ASSUME TypeInv, NEW S \in SUBSET Items, ApplyRetryPolicy(S), attempts' = attempts
  PROVE  /\ state' \in [Items -> {"pending", "dialling", "done", "failed", "skipped"}]
         /\ waiting' \subseteq Items
         /\ BudgetLeft'
<1>1. \A i \in Items : AfterFailure(i) = "pending" => attempts[i] <= RetryAttempts
  BY DispatchAssumption DEF AfterFailure, TypeInv, TypeOK
<1> QED
  BY <1>1 DEF ApplyRetryPolicy, AfterFailure, TypeInv, TypeOK, BudgetLeft

-----------------------------------------------------------------------------
\* The initial state is well typed.
LEMMA TypeInit == Init => TypeInv
BY DispatchAssumption DEF Init, TypeInv, TypeOK, BudgetLeft, HeldWhileDialling,
   PCs, Holding, CallStates

\* The steps of a tick before and after its claims.
LEMMA TypeTick ==
  ASSUME TypeInv, NEW w \in Workers,
         \/ \E a \in Agents : OutsideWindow(w, a) \/ CheckSpend(w, a)
         \/ TickStart(w) \/ CheckWallet(w) \/ PauseRun(w) \/ BeginDialling(w)
         \/ NothingToClaim(w) \/ ClaimCollides(w) \/ FinishIfDrained(w) \/ TickEnd(w)
  PROVE  TypeInv'
<1> USE DispatchAssumption DEF TypeInv, TypeOK, BudgetLeft, HeldWhileDialling, PCs,
        Holding, Goto, db, money, phone, local
<1>1. CASE TickStart(w)
  BY <1>1 DEF TickStart, Runnable
<1>2. ASSUME NEW a \in Agents, OutsideWindow(w, a) PROVE TypeInv'
  BY <1>2 DEF OutsideWindow
<1>3. ASSUME NEW a \in Agents, CheckSpend(w, a) PROVE TypeInv'
  BY <1>3 DEF CheckSpend
<1>4. CASE CheckWallet(w)
  BY <1>4 DEF CheckWallet
<1>5. CASE PauseRun(w)
  <2>1. paused' \in [Agents -> BOOLEAN]
    BY <1>5, Zenon DEF PauseRun
  <2>3. todo' = [todo EXCEPT ![w] = @ \ {run[w]}] \/ todo' = todo
    BY <1>5 DEF PauseRun
  <2>4. todo' \in [Workers -> SUBSET Agents]
    BY <2>3
  <2>5. pc' \in [Workers -> PCs]
    BY <1>5 DEF PauseRun
  <2>2. \A v \in Workers : pc'[v] \in Holding => pc[v] \in Holding
    BY <1>5 DEF PauseRun
  <2> QED
    BY <1>5, <2>1, <2>2, <2>4, <2>5 DEF PauseRun
<1>6. CASE BeginDialling(w)
  BY <1>6 DEF BeginDialling
<1>7. CASE NothingToClaim(w)
  BY <1>7 DEF NothingToClaim
<1>8. CASE ClaimCollides(w)
  BY <1>8 DEF ClaimCollides
<1>9. CASE FinishIfDrained(w)
  BY <1>9 DEF FinishIfDrained
<1>10. CASE TickEnd(w)
  BY <1>10 DEF TickEnd
<1> QED
  BY <1>1, <1>2, <1>3, <1>4, <1>5, <1>6, <1>7, <1>8, <1>9, <1>10

\* Claims, dials and their outcomes.
LEMMA TypeDial ==
  ASSUME TypeInv, NEW w \in Workers,
         \/ Claim(w) \/ DialAccepted(w) \/ DialAmbiguous(w) \/ DialFailed(w)
         \/ RecordDialled(w) \/ RecordFailed(w) \/ RefundClaim(w)
  PROVE  TypeInv'
<1> USE DispatchAssumption DEF TypeInv, TypeOK, BudgetLeft, HeldWhileDialling, PCs,
        Holding, CallStates, Goto, db, money, phone, local
<1>1. CASE Claim(w)
  <2>1. PICK i \in Due(run[w]) :
          LET c == NextAttempt(i)
          IN  /\ KeyFree(c)
              /\ state' = [state EXCEPT ![i] = "dialling"]
              /\ attempts' = [attempts EXCEPT ![i] = @ + 1]
              /\ call' = [call EXCEPT ![c] = "dialling"]
              /\ held' = [held EXCEPT ![w] = c]
    BY <1>1 DEF Claim
  <2>2. i \in Items /\ state[i] = "pending" /\ NextAttempt(i) \in Calls
    BY NextAttemptIsCall DEF Due
  <2> QED
    BY <1>1, <2>1, <2>2 DEF Claim
<1>2. CASE DialAccepted(w)
  BY <1>2 DEF DialAccepted
<1>3. CASE DialAmbiguous(w)
  BY <1>3 DEF DialAmbiguous
<1>4. CASE DialFailed(w)
  BY <1>4 DEF DialFailed
<1>5. CASE RecordDialled(w)
  BY <1>5 DEF RecordDialled
<1>6. CASE RecordFailed(w)
  <2>1. held[w] \in Calls /\ held[w][1] \in Items
    BY <1>6, CallParts DEF RecordFailed
  <2>2. CASE pc[w] = "drop"
    BY <1>6, <2>1, <2>2 DEF RecordFailed
  <2>3. CASE pc[w] = "retry"
    <3>1. ApplyRetryPolicy({held[w][1]}) /\ attempts' = attempts
      BY <1>6, <2>3 DEF RecordFailed
    <3>2. /\ state' \in [Items -> {"pending", "dialling", "done", "failed", "skipped"}]
          /\ waiting' \subseteq Items
          /\ BudgetLeft'
      BY <2>1, <3>1, RetryPolicyTyped
    <3> QED
      BY <1>6, <2>1, <2>3, <3>2 DEF RecordFailed
  <2> QED
    BY <1>6, <2>2, <2>3 DEF RecordFailed
<1>7. CASE RefundClaim(w)
  BY <1>7 DEF RefundClaim, RowDeleted
<1> QED
  BY <1>1, <1>2, <1>3, <1>4, <1>5, <1>6, <1>7

\* The sweep and the callbacks.
LEMMA TypeSweep ==
  ASSUME TypeInv, NEW w \in Workers,
         SweepUpdate(w) \/ \E S \in SUBSET InFlight : SweepSelect(w, S)
  PROVE  TypeInv'
<1> USE DEF TypeInv, TypeOK, HeldWhileDialling, PCs, Holding, CallStates, Goto,
        db, money, phone
<1>1. CASE SweepUpdate(w)
  <2>1. {c[1] : c \in stuck[w]} \in SUBSET Items
    BY CallParts
  <2>2. /\ state' \in [Items -> {"pending", "dialling", "done", "failed", "skipped"}]
        /\ waiting' \subseteq Items
        /\ BudgetLeft'
    BY <1>1, <2>1, RetryPolicyTyped DEF SweepUpdate
  <2> QED
    BY <1>1, <2>2 DEF SweepUpdate
<1>2. ASSUME NEW S \in SUBSET InFlight, SweepSelect(w, S) PROVE TypeInv'
  BY <1>2 DEF SweepSelect, InFlight, BudgetLeft
<1> QED
  BY <1>1, <1>2

LEMMA TypeWebhook ==
  ASSUME TypeInv, NEW h \in Handlers, Webhook(h)
  PROVE  TypeInv'
<1> USE DEF TypeInv, TypeOK, HeldWhileDialling, CallStates, db, money, phone, local
<1>1. ASSUME NEW m \in sent, IngestUnknown(h, m) PROVE TypeInv'
  BY <1>1 DEF IngestUnknown, BudgetLeft
<1>2. ASSUME NEW m \in sent, IngestRead(h, m) PROVE TypeInv'
  <2>1. m \in Messages /\ m.call \in Calls
    BY DEF Messages
  <2>2. [msg |-> m, status |-> call[m.call]] \in [msg : Messages, status : CallStates]
    BY <2>1
  <2> QED
    BY <1>2, <2>2 DEF IngestRead, BudgetLeft
<1>3. CASE IngestWrite(h)
  <2> DEFINE m == handler[h].msg
             c == m.call
             i == c[1]
  <2>1. m \in Messages /\ c \in Calls /\ i \in Items /\ m.charge \in Nat
    BY <1>3, CallParts, DispatchAssumption DEF IngestWrite, Messages
  <2>2. /\ seen' = seen \cup {m}
        /\ handler' = [handler EXCEPT ![h] = None]
        /\ UNCHANGED <<status, paused, attempts, known, credited, phone, pc, local, crashes>>
    BY <1>3 DEF IngestWrite
  <2>3. CASE call' = [call EXCEPT ![c] = "completed"] /\ state' = [state EXCEPT ![i] = "done"]
             /\ Settle(c, m.charge) /\ UNCHANGED waiting
    <3>1. balance' \in Int /\ ledger' \in [Calls -> Nat]
      BY <2>1, <2>3 DEF Settle
    <3> QED
      BY <2>1, <2>2, <2>3, <3>1 DEF BudgetLeft
  <2>4. CASE call' = [call EXCEPT ![c] = "failed"] /\ ApplyRetryPolicy({i})
             /\ UNCHANGED <<ledger, balance>>
    <3>1. /\ state' \in [Items -> {"pending", "dialling", "done", "failed", "skipped"}]
          /\ waiting' \subseteq Items
          /\ BudgetLeft'
      BY <2>1, <2>2, <2>4, RetryPolicyTyped
    <3> QED
      BY <2>1, <2>2, <2>4, <3>1
  <2>5. CASE UNCHANGED <<call, state, waiting, ledger, balance>>
    BY <2>1, <2>2, <2>5 DEF BudgetLeft
  <2> QED
    BY <1>3, <2>3, <2>4, <2>5 DEF IngestWrite
<1> QED
  BY <1>1, <1>2, <1>3 DEF Webhook

\* The environment, the owner, the staff and the crashes.
LEMMA TypeRest ==
  ASSUME TypeInv,
         \/ \E w \in Workers : WorkerCrash(w)
         \/ \E h \in Handlers : WebCrash(h)
         \/ \E i \in Items : RetryIntervalOver(i)
         \/ \E c \in Calls : HangUp(c)
         \/ \E a \in Agents : StopRun(a) \/ \E p \in BOOLEAN : SetPaused(a, p)
         \/ \E n \in TopUps : TopUp(n)
  PROVE  TypeInv'
<1> USE DispatchAssumption DEF TypeInv, TypeOK, BudgetLeft, HeldWhileDialling, PCs,
        Holding, db, money, phone, local
<1>1. ASSUME NEW w \in Workers, WorkerCrash(w) PROVE TypeInv'
  BY <1>1 DEF WorkerCrash
<1>2. ASSUME NEW h \in Handlers, WebCrash(h) PROVE TypeInv'
  BY <1>2 DEF WebCrash
<1>3. ASSUME NEW i \in Items, RetryIntervalOver(i) PROVE TypeInv'
  BY <1>3 DEF RetryIntervalOver
<1>4. ASSUME NEW c \in Calls, HangUp(c) PROVE TypeInv'
  <2>1. PICK kind \in Kinds, n \in Charges \cup {0} :
          /\ line' = [line EXCEPT ![c] = IF kind = "completed" THEN "talked" ELSE "unanswered"]
          /\ sent' = sent \cup [call: {c}, kind: {kind}, charge: {n}, copy: Copies]
    BY <1>4 DEF HangUp
  <2>2. [call: {c}, kind: {kind}, charge: {n}, copy: Copies] \subseteq Messages
    BY <2>1 DEF Messages
  <2> QED
    BY <1>4, <2>1, <2>2 DEF HangUp
<1>5. ASSUME NEW a \in Agents, StopRun(a) PROVE TypeInv'
  BY <1>5 DEF StopRun
<1>6. ASSUME NEW a \in Agents, NEW p \in BOOLEAN, SetPaused(a, p) PROVE TypeInv'
  BY <1>6 DEF SetPaused
<1>7. ASSUME NEW n \in TopUps, TopUp(n) PROVE TypeInv'
  BY <1>7 DEF TopUp
<1> QED
  BY <1>1, <1>2, <1>3, <1>4, <1>5, <1>6, <1>7

\* Every step keeps the types.
LEMMA TypeStep == TypeInv /\ [Next]_vars => TypeInv'
<1> SUFFICES ASSUME TypeInv, [Next]_vars PROVE TypeInv'
  OBVIOUS
<1>1. ASSUME NEW w \in Workers, Tick(w) PROVE TypeInv'
  BY <1>1, TypeTick, TypeDial DEF Tick
<1>2. CASE UNCHANGED vars
  BY <1>2 DEF vars, db, money, phone, local, TypeInv, TypeOK, BudgetLeft, HeldWhileDialling
<1> QED
  BY <1>1, <1>2, TypeSweep, TypeWebhook, TypeRest DEF Next, Sweep

\* Every variable keeps its type; in particular no item is ever tried more
\* than 1 + retry_attempts times.
THEOREM TypeCorrect == Spec => []TypeOK
<1>1. TypeInv => TypeOK
  BY DEF TypeInv
<1> QED
  BY TypeInit, TypeStep, <1>1, PTL DEF Spec

-----------------------------------------------------------------------------
(* The governor: only a claim puts a call in flight, and the claim counts. *)

\* No other step adds to the calls in flight.
LEMMA OnlyClaimsAdd ==
  ASSUME TypeInv, [Next]_vars, \A w \in Workers : ~Claim(w)
  PROVE  InFlight' \subseteq InFlight
<1> USE DEF TypeInv, TypeOK, InFlight, db, money, phone, local
<1> DEFINE Shrinks == \A c \in Calls : call'[c] = "dialling" => call[c] = "dialling"
<1>1. ASSUME NEW w \in Workers, Tick(w) PROVE Shrinks
  <2>1. CASE call' = call
    BY <2>1
  <2>2. CASE RecordFailed(w)
    BY <2>2 DEF RecordFailed
  <2>3. CASE RefundClaim(w)
    BY <2>3 DEF RefundClaim, RowDeleted
  <2>4. CASE TickStart(w) \/ CheckWallet(w) \/ PauseRun(w) \/ BeginDialling(w)
             \/ \E a \in Agents : OutsideWindow(w, a) \/ CheckSpend(w, a)
    BY <2>1, <2>4 DEF TickStart, CheckWallet, PauseRun, BeginDialling, OutsideWindow, CheckSpend
  <2>5. CASE ClaimCollides(w) \/ NothingToClaim(w) \/ DialAccepted(w) \/ DialAmbiguous(w)
             \/ DialFailed(w) \/ RecordDialled(w) \/ FinishIfDrained(w) \/ TickEnd(w)
    BY <2>1, <2>5 DEF ClaimCollides, NothingToClaim, DialAccepted, DialAmbiguous,
       DialFailed, RecordDialled, FinishIfDrained, TickEnd
  <2> QED
    BY <1>1, <2>2, <2>3, <2>4, <2>5 DEF Tick
<1>2. ASSUME NEW w \in Workers, Sweep(w) PROVE Shrinks
  BY <1>2 DEF Sweep, SweepUpdate, SweepSelect
<1>3. ASSUME NEW h \in Handlers, Webhook(h) PROVE Shrinks
  <2>1. CASE IngestWrite(h)
    BY <2>1 DEF IngestWrite
  <2> QED
    BY <1>3, <2>1 DEF Webhook, IngestUnknown, IngestRead
<1>4. CASE UNCHANGED vars
  BY <1>4 DEF vars
<1>5. CASE \/ \E w \in Workers : WorkerCrash(w)
           \/ \E h \in Handlers : WebCrash(h)
           \/ \E i \in Items : RetryIntervalOver(i)
           \/ \E c \in Calls : HangUp(c)
           \/ \E a \in Agents : StopRun(a) \/ \E p \in BOOLEAN : SetPaused(a, p)
           \/ \E n \in TopUps : TopUp(n)
  BY <1>5 DEF WorkerCrash, WebCrash, RetryIntervalOver, HangUp, StopRun, SetPaused, TopUp
<1> QED
  BY <1>1, <1>2, <1>3, <1>4, <1>5 DEF Next

\* A claim adds exactly one call, through the gate.
LEMMA ClaimAddsOne ==
  ASSUME TypeInv, NEW w \in Workers, Claim(w)
  PROVE  /\ GateOpen
         /\ balance' = balance
         /\ \E c \in Calls \ InFlight : InFlight' = InFlight \cup {c}
<1>1. PICK i \in Due(run[w]) : KeyFree(NextAttempt(i))
                            /\ call' = [call EXCEPT ![NextAttempt(i)] = "dialling"]
  BY DEF Claim
<1>2. NextAttempt(i) \in Calls
  BY NextAttemptIsCall DEF Due, TypeInv
<1>3. NextAttempt(i) \notin InFlight
  BY <1>1 DEF KeyFree, InFlight
<1>4. InFlight' = InFlight \cup {NextAttempt(i)}
  BY <1>1, <1>2 DEF InFlight, TypeInv, TypeOK
<1> QED
  BY <1>2, <1>3, <1>4 DEF Claim, money

\* The calls are finitely many.
LEMMA CallsFinite ==
  /\ IsFiniteSet(Calls)
  /\ \A S \in SUBSET Calls : IsFiniteSet(S) /\ Cardinality(S) \in Nat
<1>1. IsFiniteSet(1 .. RetryAttempts + 1)
  BY DispatchAssumption, FS_Interval
<1>2. IsFiniteSet(Calls)
  BY <1>1, DispatchAssumption, FS_Product DEF Calls
<1> QED
  BY <1>2, FS_Subset, FS_CardinalityType

\* FR-DISPATCH-9: the channel allocation is never exceeded, whatever the number
\* of workers, the crashes and the races.
THEOREM GovernorCorrect == Spec => []GovernorHolds
<1>1. Init => GovernorHolds
  <2> SUFFICES ASSUME Init PROVE GovernorHolds
    OBVIOUS
  <2>1. InFlight = {}
    BY DEF Init, InFlight
  <2> QED
    BY <2>1, FS_EmptySet, DispatchAssumption DEF GovernorHolds
<1>2. TypeInv /\ GovernorHolds /\ [Next]_vars => GovernorHolds'
  <2> SUFFICES ASSUME TypeInv, GovernorHolds, [Next]_vars PROVE GovernorHolds'
    OBVIOUS
  <2>1. InFlight \in SUBSET Calls /\ InFlight' \in SUBSET Calls
    BY DEF InFlight
  <2>2. CASE \A w \in Workers : ~Claim(w)
    <3>1. Cardinality(InFlight') <= Cardinality(InFlight)
      BY <2>1, <2>2, CallsFinite, OnlyClaimsAdd, FS_Subset
    <3> QED
      BY <2>1, <3>1, CallsFinite, DispatchAssumption DEF GovernorHolds
  <2>3. ASSUME NEW w \in Workers, Claim(w) PROVE GovernorHolds'
    <3>1. PICK c \in Calls \ InFlight : InFlight' = InFlight \cup {c}
      BY <2>3, ClaimAddsOne
    <3>2. Cardinality(InFlight') = Cardinality(InFlight) + 1
      BY <2>1, <3>1, CallsFinite, FS_AddElement
    <3>3. Cardinality(InFlight) < Allocation
      BY <2>3, ClaimAddsOne DEF GateOpen
    <3> QED
      BY <2>1, <3>2, <3>3, CallsFinite, DispatchAssumption DEF GovernorHolds
  <2> QED
    BY <2>2, <2>3
<1> QED
  BY <1>1, <1>2, TypeInit, TypeStep, PTL DEF Spec

-----------------------------------------------------------------------------
(* The life of a call row. A held call is in 'dialling', unknown to the    *)
(* callbacks, out of the sweep's reach and nobody else's; a row that rang  *)
(* is never deleted; a call ends once, so its callbacks all agree.         *)

HeldIsOpen ==
  \A w \in Workers : held[w] # None =>
    held[w] \in Calls /\ call[held[w]] = "dialling" /\ held[w] \notin known

KnownHasRow == \A c \in known : call[c] # "none"

StuckIsNotHeld ==
  \A w \in Workers : \A c \in stuck[w] :
    call[c] # "none" /\ \A v \in Workers : held[v] # c

HandlerOnKnown ==
  \A h \in Handlers : handler[h] # None =>
    handler[h].msg \in sent /\ handler[h].msg.call \in known

Unrung == {"dial", "drop", "refund", "retry"}

HeldIsUnrung == \A w \in Workers : pc[w] \in Unrung => line[held[w]] = "none"

SentIsOver == \A m \in sent : line[m.call] \in {"talked", "unanswered"}

SentAgrees == \A m, n \in sent : m.call = n.call => m.kind = n.kind /\ m.charge = n.charge

RowInv == HeldIsOpen /\ AttemptHeldOnce /\ KnownHasRow /\ StuckIsNotHeld
PhoneInv == RungCallKeepsRow /\ HeldIsUnrung /\ SentIsOver /\ SentAgrees
CallInv == TypeInv /\ RowInv /\ HandlerOnKnown /\ PhoneInv

LEMMA CallInit == Init => CallInv
BY TypeInit DEF Init, CallInv, RowInv, PhoneInv, HeldIsOpen, AttemptHeldOnce, KnownHasRow,
   StuckIsNotHeld, HandlerOnKnown, RungCallKeepsRow, HeldIsUnrung, SentIsOver, SentAgrees,
   Unrung

\* Steps that leave the calls, their lines and who holds them alone.
LEMMA CallQuiet ==
  ASSUME CallInv, UNCHANGED <<call, known, line, sent, held, stuck, handler>>,
         \A w \in Workers : pc'[w] \in Unrung => pc[w] \in Unrung
  PROVE  RowInv' /\ HandlerOnKnown' /\ PhoneInv'
BY DEF CallInv, RowInv, PhoneInv, HeldIsOpen, AttemptHeldOnce, KnownHasRow, StuckIsNotHeld,
   HandlerOnKnown, RungCallKeepsRow, HeldIsUnrung, SentIsOver, SentAgrees

LEMMA CallTick ==
  ASSUME CallInv, NEW w \in Workers,
         \/ \E a \in Agents : OutsideWindow(w, a) \/ CheckSpend(w, a)
         \/ TickStart(w) \/ CheckWallet(w) \/ PauseRun(w) \/ BeginDialling(w)
         \/ NothingToClaim(w) \/ ClaimCollides(w) \/ FinishIfDrained(w) \/ TickEnd(w)
         \/ DialFailed(w)
  PROVE  RowInv' /\ HandlerOnKnown' /\ PhoneInv'
<1>1. UNCHANGED <<call, known, line, sent, held, stuck, handler>>
  BY DEF OutsideWindow, CheckSpend, TickStart, CheckWallet, PauseRun, BeginDialling,
     NothingToClaim, ClaimCollides, FinishIfDrained, TickEnd, DialFailed, db, phone, local
<1>2. PICK from \in PCs, to \in PCs :
        Goto(w, from, to) /\ (to \in Unrung => from \in Unrung)
  BY DEF OutsideWindow, CheckSpend, TickStart, CheckWallet, PauseRun, BeginDialling,
     NothingToClaim, ClaimCollides, FinishIfDrained, TickEnd, DialFailed, Goto, PCs, Unrung,
     CallInv, TypeInv, TypeOK
<1>3. \A v \in Workers : pc'[v] \in Unrung => pc[v] \in Unrung
  BY <1>2 DEF Goto, CallInv, TypeInv, TypeOK
<1> QED
  BY <1>1, <1>3, CallQuiet

\* A claim takes a key nobody used: no row, so no line, no holder, no sweep.
LEMMA CallClaim ==
  ASSUME CallInv, NEW w \in Workers, Claim(w)
  PROVE  RowInv' /\ HandlerOnKnown' /\ PhoneInv'
<1> DEFINE i == held'[w][1]
           c == held'[w]
<1>1. /\ c \in Calls /\ call[c] = "none" /\ call' = [call EXCEPT ![c] = "dialling"]
      /\ held' = [held EXCEPT ![w] = c]
  <2>1. PICK j \in Due(run[w]) :
          /\ KeyFree(NextAttempt(j))
          /\ call' = [call EXCEPT ![NextAttempt(j)] = "dialling"]
          /\ held' = [held EXCEPT ![w] = NextAttempt(j)]
    BY DEF Claim
  <2>2. NextAttempt(j) \in Calls
    BY NextAttemptIsCall DEF Due, CallInv, TypeInv
  <2> QED
    BY <2>1, <2>2 DEF KeyFree, CallInv, TypeInv, TypeOK
<1>2. UNCHANGED <<known, line, sent, stuck, handler>> /\ Goto(w, "claim", "dial")
  BY DEF Claim, phone
<1> USE DEF CallInv, TypeInv, TypeOK, RowInv, PhoneInv
<1>3. HeldIsOpen'
  BY <1>1, <1>2 DEF HeldIsOpen, KnownHasRow
<1>4. AttemptHeldOnce'
  BY <1>1 DEF AttemptHeldOnce, HeldIsOpen
<1>5. KnownHasRow' /\ StuckIsNotHeld'
  BY <1>1, <1>2 DEF KnownHasRow, StuckIsNotHeld
<1>6. HandlerOnKnown'
  BY <1>2 DEF HandlerOnKnown
<1>7. RungCallKeepsRow' /\ SentIsOver' /\ SentAgrees'
  BY <1>1, <1>2 DEF RungCallKeepsRow, SentIsOver, SentAgrees
<1>8. HeldIsUnrung'
  BY <1>1, <1>2 DEF HeldIsUnrung, RungCallKeepsRow, Goto, Unrung
<1> QED
  BY <1>3, <1>4, <1>5, <1>6, <1>7, <1>8

\* The line of a held call is the only one a dial touches.
LEMMA CallDial ==
  ASSUME CallInv, NEW w \in Workers,
         DialAccepted(w) \/ DialAmbiguous(w)
  PROVE  RowInv' /\ HandlerOnKnown' /\ PhoneInv'
<1> USE DEF CallInv, TypeInv, TypeOK, RowInv, PhoneInv, Goto
<1>1. /\ pc[w] = "dial" /\ held[w] \in Calls /\ held[w] # None
      /\ line[held[w]] = "none" /\ call[held[w]] = "dialling"
  BY DispatchAssumption DEF DialAccepted, DialAmbiguous, HeldWhileDialling, Holding, HeldIsOpen,
     HeldIsUnrung, Unrung
<1>2. /\ UNCHANGED <<call, known, sent, stuck, handler>>
      /\ line' \in {line, [line EXCEPT ![held[w]] = "live"]}
      /\ pc' = [pc EXCEPT ![w] = "record"] \/ pc' = [pc EXCEPT ![w] = "finish"]
      /\ held' \in {held, [held EXCEPT ![w] = None]}
  BY DEF DialAccepted, DialAmbiguous, db, local
<1>3. HeldIsOpen' /\ AttemptHeldOnce' /\ KnownHasRow' /\ StuckIsNotHeld' /\ HandlerOnKnown'
  <2>1. \A v \in Workers : held'[v] = held[v] \/ held'[v] = None
    BY <1>2
  <2>2. HeldIsOpen' /\ AttemptHeldOnce'
    BY <1>2, <2>1 DEF HeldIsOpen, AttemptHeldOnce
  <2>3. StuckIsNotHeld'
    BY <1>2, <2>1, DispatchAssumption DEF StuckIsNotHeld
  <2> QED
    BY <1>2, <2>2, <2>3 DEF KnownHasRow, HandlerOnKnown
<1>4. RungCallKeepsRow' /\ SentAgrees'
  BY <1>1, <1>2 DEF RungCallKeepsRow, SentAgrees
<1>5. SentIsOver'
  <2> SUFFICES ASSUME NEW m \in sent' PROVE line'[m.call] \in {"talked", "unanswered"}
    BY DEF SentIsOver
  <2>1. m \in sent /\ m.call # held[w] /\ m.call \in Calls
    BY <1>1, <1>2 DEF SentIsOver, Messages
  <2> QED
    BY <1>2, <2>1 DEF SentIsOver
<1>6. HeldIsUnrung'
  <2> SUFFICES ASSUME NEW v \in Workers, pc'[v] \in Unrung PROVE line'[held'[v]] = "none"
    BY DEF HeldIsUnrung
  <2>1. v # w /\ pc[v] \in Unrung /\ held'[v] = held[v]
    BY <1>2 DEF Unrung
  <2>2. line[held[v]] = "none" /\ held[v] \in Calls /\ held[v] # None
    BY <2>1, DispatchAssumption DEF HeldIsUnrung, HeldWhileDialling, Holding, Unrung
  <2>3. held[v] # held[w]
    BY <1>1, <2>1, <2>2 DEF AttemptHeldOnce
  <2> QED
    BY <1>2, <2>1, <2>2, <2>3
<1> QED
  BY <1>3, <1>4, <1>5, <1>6

\* Recording an outcome ends the hold; only an unrung row is deleted.
LEMMA CallRecord ==
  ASSUME CallInv, NEW w \in Workers,
         RecordDialled(w) \/ RecordFailed(w) \/ RefundClaim(w)
  PROVE  RowInv' /\ HandlerOnKnown' /\ PhoneInv'
<1> USE DEF CallInv, TypeInv, TypeOK, RowInv, PhoneInv, Goto
<1> DEFINE c == held[w]
<1>1. /\ c \in Calls /\ c # None /\ call[c] = "dialling" /\ c \notin known
      /\ \A v \in Workers : v # w => held[v] # c
      /\ \A v \in Workers : c \notin stuck[v]
  BY DispatchAssumption DEF RecordDialled, RecordFailed, RefundClaim, HeldWhileDialling,
     Holding, HeldIsOpen, AttemptHeldOnce, StuckIsNotHeld
<1>2. /\ UNCHANGED <<line, sent, stuck, handler>>
      /\ held' = [held EXCEPT ![w] = None]
      /\ known' \in {known, known \cup {c}}
      /\ \A v \in Workers : pc'[v] \in Unrung => v # w /\ pc[v] \in Unrung
  BY DEF RecordDialled, RecordFailed, RefundClaim, phone, Unrung
<1>3. \/ call' = call
      \/ call' = [call EXCEPT ![c] = "failed"] /\ known' = known
      \/ call' = [call EXCEPT ![c] = "none"] /\ known' = known /\ line[c] = "none"
  BY <1>1 DEF RecordDialled, RecordFailed, RefundClaim, RowDeleted, HeldIsUnrung, Unrung
<1>4. HeldIsOpen' /\ AttemptHeldOnce'
  BY <1>1, <1>2, <1>3 DEF HeldIsOpen, AttemptHeldOnce
<1>5. KnownHasRow' /\ StuckIsNotHeld'
  BY <1>1, <1>2, <1>3, DispatchAssumption DEF KnownHasRow, StuckIsNotHeld
<1>6. HandlerOnKnown'
  BY <1>2 DEF HandlerOnKnown
<1>7. RungCallKeepsRow' /\ SentIsOver' /\ SentAgrees'
  BY <1>1, <1>2, <1>3 DEF RungCallKeepsRow, SentIsOver, SentAgrees
<1>8. HeldIsUnrung'
  BY <1>2 DEF HeldIsUnrung
<1> QED
  BY <1>4, <1>5, <1>6, <1>7, <1>8

\* The sweep closes only calls no worker holds.
LEMMA CallSweep ==
  ASSUME CallInv, NEW w \in Workers, Sweep(w)
  PROVE  RowInv' /\ HandlerOnKnown' /\ PhoneInv'
<1> USE DEF CallInv, TypeInv, TypeOK, RowInv, PhoneInv, Goto
<1>1. UNCHANGED <<known, held, line, sent, handler>>
      /\ \A v \in Workers : pc'[v] \in Unrung => pc[v] \in Unrung
  BY DEF Sweep, SweepSelect, SweepUpdate, db, phone, Unrung
<1>2. HandlerOnKnown' /\ SentIsOver' /\ SentAgrees' /\ HeldIsUnrung' /\ AttemptHeldOnce'
  BY <1>1 DEF HandlerOnKnown, SentIsOver, SentAgrees, HeldIsUnrung, AttemptHeldOnce
<1>3. CASE SweepUpdate(w)
  <2>1. /\ call' = [c \in Calls |-> IF c \in stuck[w] THEN "failed" ELSE call[c]]
        /\ stuck' = [stuck EXCEPT ![w] = {}]
    BY <1>3 DEF SweepUpdate
  <2> QED
    BY <1>1, <1>2, <2>1 DEF HeldIsOpen, KnownHasRow, StuckIsNotHeld, RungCallKeepsRow
<1>4. ASSUME NEW S \in SUBSET InFlight, SweepSelect(w, S)
      PROVE  RowInv' /\ HandlerOnKnown' /\ PhoneInv'
  <2>1. /\ call' = call /\ stuck' = [stuck EXCEPT ![w] = S]
        /\ \A c \in S : call[c] # "none" /\ \A v \in Workers : held[v] # c
    BY <1>4 DEF SweepSelect, Overdue, db
  <2> QED
    BY <1>1, <1>2, <2>1 DEF HeldIsOpen, KnownHasRow, StuckIsNotHeld, RungCallKeepsRow
<1> QED
  BY <1>3, <1>4 DEF Sweep

\* A callback closes only a call whose CallSid is recorded, so none that is held.
LEMMA CallWebhook ==
  ASSUME CallInv, NEW h \in Handlers, Webhook(h)
  PROVE  RowInv' /\ HandlerOnKnown' /\ PhoneInv'
<1> USE DEF CallInv, TypeInv, TypeOK, RowInv, PhoneInv
<1>1. ASSUME NEW m \in sent, IngestUnknown(h, m)
      PROVE  RowInv' /\ HandlerOnKnown' /\ PhoneInv'
  BY <1>1, CallQuiet DEF IngestUnknown, db, phone, local
<1>2. ASSUME NEW m \in sent, IngestRead(h, m)
      PROVE  RowInv' /\ HandlerOnKnown' /\ PhoneInv'
  <2>1. UNCHANGED <<call, known, held, stuck, line, sent, pc>>
    BY <1>2 DEF IngestRead, db, phone, local
  <2>2. HandlerOnKnown'
    BY <1>2, <2>1 DEF IngestRead, HandlerOnKnown
  <2> QED
    BY <2>1, <2>2 DEF HeldIsOpen, AttemptHeldOnce, KnownHasRow, StuckIsNotHeld,
       RungCallKeepsRow, HeldIsUnrung, SentIsOver, SentAgrees
<1>3. CASE IngestWrite(h)
  <2> DEFINE c == handler[h].msg.call
  <2>1. c \in known
    BY <1>3 DEF IngestWrite, HandlerOnKnown
  <2>2. /\ UNCHANGED <<known, held, stuck, line, sent, pc>>
        /\ handler' = [handler EXCEPT ![h] = None]
        /\ call' = call \/ call' = [call EXCEPT ![c] = "completed"]
                        \/ call' = [call EXCEPT ![c] = "failed"]
    BY <1>3 DEF IngestWrite, phone, local
  <2>3. HeldIsOpen' /\ AttemptHeldOnce'
    BY <2>1, <2>2 DEF HeldIsOpen, AttemptHeldOnce
  <2>4. KnownHasRow' /\ StuckIsNotHeld' /\ HandlerOnKnown'
    BY <2>2 DEF KnownHasRow, StuckIsNotHeld, HandlerOnKnown
  <2>5. PhoneInv'
    BY <2>2 DEF RungCallKeepsRow, HeldIsUnrung, SentIsOver, SentAgrees
  <2> QED
    BY <2>3, <2>4, <2>5
<1> QED
  BY <1>1, <1>2, <1>3 DEF Webhook

\* A live line ends once: its callbacks are the first and the only ones.
LEMMA CallHangUp ==
  ASSUME CallInv, NEW c \in Calls, HangUp(c)
  PROVE  RowInv' /\ HandlerOnKnown' /\ PhoneInv'
<1> USE DEF CallInv, TypeInv, TypeOK, RowInv, PhoneInv
<1>1. PICK kind \in Kinds, n \in Charges \cup {0} :
        /\ line' = [line EXCEPT ![c] = IF kind = "completed" THEN "talked" ELSE "unanswered"]
        /\ sent' = sent \cup [call: {c}, kind: {kind}, charge: {n}, copy: Copies]
  BY DEF HangUp
<1>2. UNCHANGED <<call, known, held, stuck, handler, pc>> /\ line[c] = "live"
  BY DEF HangUp, db, local
<1>3. \A m \in sent' : m \in sent \/ (m.call = c /\ m.kind = kind /\ m.charge = n)
  BY <1>1
<1>4. \A m \in sent : m.call # c /\ m.call \in Calls
  BY <1>2 DEF SentIsOver, Messages
<1>5. RowInv' /\ HandlerOnKnown'
  BY <1>1, <1>2 DEF HeldIsOpen, AttemptHeldOnce, KnownHasRow, StuckIsNotHeld, HandlerOnKnown
<1>6. RungCallKeepsRow'
  BY <1>1, <1>2 DEF RungCallKeepsRow
<1>7. HeldIsUnrung'
  <2> SUFFICES ASSUME NEW w \in Workers, pc[w] \in Unrung PROVE line'[held[w]] = "none"
    BY <1>2 DEF HeldIsUnrung
  <2>1. held[w] \in Calls /\ line[held[w]] = "none"
    BY DEF HeldIsUnrung, HeldWhileDialling, Unrung, Holding
  <2> QED
    BY <1>1, <1>2, <2>1
<1>8. SentIsOver'
  BY <1>1, <1>3, <1>4 DEF SentIsOver
<1>9. SentAgrees'
  BY <1>3, <1>4 DEF SentAgrees
<1> QED
  BY <1>5, <1>6, <1>7, <1>8, <1>9

\* The owner, the staff, the clock and the crashes.
LEMMA CallRest ==
  ASSUME CallInv,
         \/ \E w \in Workers : WorkerCrash(w)
         \/ \E h \in Handlers : WebCrash(h)
         \/ \E i \in Items : RetryIntervalOver(i)
         \/ \E a \in Agents : StopRun(a) \/ \E p \in BOOLEAN : SetPaused(a, p)
         \/ \E n \in TopUps : TopUp(n)
         \/ UNCHANGED vars
  PROVE  RowInv' /\ HandlerOnKnown' /\ PhoneInv'
<1>1. ASSUME NEW w \in Workers, WorkerCrash(w) PROVE RowInv' /\ HandlerOnKnown' /\ PhoneInv'
  <2>1. /\ UNCHANGED <<call, known, line, sent, handler>>
        /\ held' = [held EXCEPT ![w] = None] /\ stuck' = [stuck EXCEPT ![w] = {}]
        /\ pc' = [pc EXCEPT ![w] = "idle"]
    BY <1>1 DEF WorkerCrash, db, phone
  <2> USE DEF CallInv, TypeInv, TypeOK, RowInv, PhoneInv
  <2>2. HeldIsOpen' /\ AttemptHeldOnce' /\ KnownHasRow'
    BY <2>1 DEF HeldIsOpen, AttemptHeldOnce, KnownHasRow
  <2>3. StuckIsNotHeld' /\ HandlerOnKnown'
    BY <2>1, DispatchAssumption DEF StuckIsNotHeld, HandlerOnKnown
  <2>4. HeldIsUnrung'
    BY <2>1 DEF HeldIsUnrung, Unrung
  <2> QED
    BY <2>1, <2>2, <2>3, <2>4 DEF RungCallKeepsRow, SentIsOver, SentAgrees
<1>2. ASSUME NEW h \in Handlers, WebCrash(h) PROVE RowInv' /\ HandlerOnKnown' /\ PhoneInv'
  <2>1. /\ UNCHANGED <<call, known, line, sent, held, stuck, pc>>
        /\ handler' = [handler EXCEPT ![h] = None]
    BY <1>2 DEF WebCrash, db, phone, local
  <2> USE DEF CallInv, TypeInv, TypeOK, RowInv, PhoneInv
  <2>2. HandlerOnKnown'
    BY <2>1 DEF HandlerOnKnown
  <2> QED
    BY <2>1, <2>2 DEF HeldIsOpen, AttemptHeldOnce, KnownHasRow, StuckIsNotHeld,
       RungCallKeepsRow, HeldIsUnrung, SentIsOver, SentAgrees
<1>3. CASE \/ \E i \in Items : RetryIntervalOver(i)
           \/ \E a \in Agents : StopRun(a) \/ \E p \in BOOLEAN : SetPaused(a, p)
           \/ \E n \in TopUps : TopUp(n)
           \/ UNCHANGED vars
  <2>1. UNCHANGED <<call, known, line, sent, held, stuck, handler, pc>>
    BY <1>3 DEF RetryIntervalOver, StopRun, SetPaused, TopUp, vars, db, phone, local
  <2> QED
    BY <2>1, CallQuiet
<1> QED
  BY <1>1, <1>2, <1>3

LEMMA CallStep == CallInv /\ [Next]_vars => CallInv'
<1> SUFFICES ASSUME CallInv, [Next]_vars PROVE CallInv'
  OBVIOUS
<1>1. TypeInv'
  BY TypeStep DEF CallInv
<1>2. ASSUME NEW w \in Workers, Tick(w) PROVE RowInv' /\ HandlerOnKnown' /\ PhoneInv'
  BY <1>2, CallTick, CallClaim, CallDial, CallRecord DEF Tick
<1>3. RowInv' /\ HandlerOnKnown' /\ PhoneInv'
  BY <1>2, CallSweep, CallWebhook, CallHangUp, CallRest DEF Next
<1> QED
  BY <1>1, <1>3 DEF CallInv

\* No attempt is ever dialled by two workers, and no row is deleted whose call
\* Telnyx ever saw, whatever crashes and races there are.
THEOREM CallsCorrect == Spec => [](AttemptHeldOnce /\ RungCallKeepsRow)
<1>1. CallInv => AttemptHeldOnce /\ RungCallKeepsRow
  BY DEF CallInv, RowInv, PhoneInv
<1> QED
  BY CallInit, CallStep, <1>1, PTL DEF Spec

-----------------------------------------------------------------------------
(* The books. Only a callback writes an entry, and takes its charge off    *)
(* the balance with it; only a top-up adds to either side besides. A call  *)
(* is billed or completed only when its line is over, so a callback of an  *)
(* earlier talk never finds its row claimed anew.                          *)

\* The parts of a callback.
LEMMA MessageParts ==
  \A m \in Messages : /\ m.call \in Calls
                     /\ m.charge \in Charges \cup {0}
                     /\ m.charge \in Nat
<1> SUFFICES ASSUME NEW m \in Messages
             PROVE  m.call \in Calls /\ m.charge \in Charges \cup {0} /\ m.charge \in Nat
  OBVIOUS
<1>1. m.call \in Calls /\ m.charge \in Charges \cup {0}
  BY DEF Messages
<1>2. Charges \cup {0} \subseteq Nat
  BY DispatchAssumption
<1>3. m.charge \in Nat
  BY <1>1, <1>2
<1> QED
  BY <1>1, <1>3

\* Only a callback and a top-up move the balance; credits are top-ups.
LEMMA BalanceMoves ==
  ASSUME [Next]_vars, ~\E n \in TopUps : TopUp(n)
  PROVE  /\ credited' = credited
         /\ balance' = balance \/ \E h \in Handlers : IngestWrite(h)
<1>1. ASSUME NEW w \in Workers, Tick(w) PROVE UNCHANGED <<balance, credited>>
  BY <1>1 DEF Tick, OutsideWindow, CheckSpend, TickStart, CheckWallet, PauseRun, BeginDialling,
     Claim, NothingToClaim, ClaimCollides, FinishIfDrained, TickEnd, DialFailed,
     DialAccepted, DialAmbiguous, RecordDialled, RecordFailed, RefundClaim, money
<1>2. ASSUME NEW w \in Workers, Sweep(w) \/ WorkerCrash(w) PROVE UNCHANGED <<balance, credited>>
  BY <1>2 DEF Sweep, SweepSelect, SweepUpdate, WorkerCrash, money
<1>3. ASSUME NEW h \in Handlers, Webhook(h) \/ WebCrash(h)
      PROVE  /\ credited' = credited
             /\ balance' = balance \/ IngestWrite(h)
  BY <1>3 DEF Webhook, IngestUnknown, IngestRead, IngestWrite, WebCrash, money
<1>4. CASE \/ \E i \in Items : RetryIntervalOver(i)
           \/ \E c \in Calls : HangUp(c)
           \/ \E a \in Agents : StopRun(a) \/ \E p \in BOOLEAN : SetPaused(a, p)
           \/ UNCHANGED vars
  BY <1>4 DEF RetryIntervalOver, HangUp, StopRun, SetPaused, vars, money
<1> QED
  BY <1>1, <1>2, <1>3, <1>4 DEF Next

Over == {"talked", "unanswered"}

SeenWasSent == seen \subseteq sent

\* A call is billed and completed only once its line is over.
BilledIsOver ==
  \A c \in Calls : ledger[c] # 0 \/ call[c] = "completed" => line[c] \in Over

\* Whatever is billed is what the callbacks say, and a completed call is billed.
BilledAsSent ==
  \A m \in sent :
    /\ ledger[m.call] \in {0, m.charge}
    /\ call[m.call] = "completed" => ledger[m.call] = m.charge

BilledInv == SeenWasSent /\ BilledIsOver /\ BilledAsSent

LedgerInv == CallInv /\ BilledInv /\ CacheIsLedger

LEMMA LedgerInit == Init => LedgerInv
<1> SUFFICES ASSUME Init PROVE LedgerInv
  OBVIOUS
<1>1. CallInv
  BY CallInit
<1>2. BilledInv
  BY DEF Init, BilledInv, SeenWasSent, BilledIsOver, BilledAsSent
<1>3. CacheIsLedger
  <2>1. DOMAIN ledger = Calls /\ \A c \in Calls : ledger[c] = 0
    BY DEF Init
  <2>2. SumFunction(ledger) = 0
    BY <2>1, CallsFinite, SumZeros DEF SumFunction
  <2> QED
    BY <2>2, DispatchAssumption DEF Init, CacheIsLedger
<1> QED
  BY <1>1, <1>2, <1>3 DEF LedgerInv

\* Only a callback writes an entry or completes a call; a line that is over
\* stays so.
LEMMA OnlyCallbacksBill ==
  ASSUME CallInv, [Next]_vars, \A h \in Handlers : ~IngestWrite(h)
  PROVE  /\ ledger' = ledger
         /\ \A c \in Calls : call'[c] = "completed" => call[c] = "completed"
<1> USE DEF CallInv, TypeInv, TypeOK, db, money
<1> DEFINE Goal == /\ ledger' = ledger
                   /\ \A c \in Calls : call'[c] = "completed" => call[c] = "completed"
<1>1. ASSUME NEW w \in Workers, Tick(w) PROVE Goal
  <2>1. CASE Claim(w)
    BY <2>1 DEF Claim
  <2>2. CASE RecordFailed(w) \/ RefundClaim(w)
    BY <2>2 DEF RecordFailed, RefundClaim, RowDeleted
  <2>3. CASE ~Claim(w) /\ ~RecordFailed(w) /\ ~RefundClaim(w)
    BY <1>1, <2>3 DEF Tick, OutsideWindow, CheckSpend, TickStart, CheckWallet, PauseRun,
       BeginDialling, NothingToClaim, ClaimCollides, FinishIfDrained, TickEnd, DialFailed,
       DialAccepted, DialAmbiguous, RecordDialled
  <2> QED
    BY <2>1, <2>2, <2>3
<1>2. ASSUME NEW w \in Workers, Sweep(w) \/ WorkerCrash(w) PROVE Goal
  BY <1>2 DEF Sweep, SweepSelect, SweepUpdate, WorkerCrash
<1>3. ASSUME NEW h \in Handlers, Webhook(h) \/ WebCrash(h) PROVE Goal
  BY <1>3 DEF Webhook, IngestUnknown, IngestRead, WebCrash
<1>4. CASE \/ \E i \in Items : RetryIntervalOver(i)
           \/ \E c \in Calls : HangUp(c)
           \/ \E a \in Agents : StopRun(a) \/ \E p \in BOOLEAN : SetPaused(a, p)
           \/ \E n \in TopUps : TopUp(n)
           \/ UNCHANGED vars
  BY <1>4 DEF RetryIntervalOver, HangUp, StopRun, SetPaused, TopUp, vars
<1> QED
  BY <1>1, <1>2, <1>3, <1>4 DEF Next

\* Lines that are over stay so; events seen were sent; only a hang-up sends.
LEMMA LinesEnd ==
  ASSUME CallInv, SeenWasSent, [Next]_vars
  PROVE  /\ SeenWasSent'
         /\ \A c \in Calls : line[c] \in Over => line'[c] = line[c]
         /\ sent' = sent \/ \E c \in Calls : HangUp(c)
<1> USE DEF CallInv, TypeInv, TypeOK, phone, SeenWasSent, Over
<1> DEFINE Goal == /\ SeenWasSent'
                   /\ \A c \in Calls : line[c] \in Over => line'[c] = line[c]
                   /\ sent' = sent \/ \E c \in Calls : HangUp(c)
<1>1. ASSUME NEW w \in Workers, Tick(w) PROVE Goal
  <2>1. CASE DialAccepted(w) \/ DialAmbiguous(w)
    <3>1. /\ line' \in {line, [line EXCEPT ![held[w]] = "live"]}
          /\ line[held[w]] = "none" /\ UNCHANGED <<seen, sent>>
      BY <2>1 DEF DialAccepted, DialAmbiguous, Goto, PhoneInv, HeldIsUnrung, Unrung
    <3> QED
      BY <3>1
  <2>2. CASE ~DialAccepted(w) /\ ~DialAmbiguous(w)
    <3>1. UNCHANGED <<seen, line, sent>>
      BY <1>1, <2>2 DEF Tick, OutsideWindow, CheckSpend, TickStart, CheckWallet, PauseRun,
         BeginDialling, Claim, NothingToClaim, ClaimCollides, FinishIfDrained, TickEnd,
         DialFailed, RecordDialled, RecordFailed, RefundClaim
    <3> QED
      BY <3>1
  <2> QED
    BY <2>1, <2>2
<1>2. ASSUME NEW w \in Workers, Sweep(w) \/ WorkerCrash(w) PROVE Goal
  BY <1>2 DEF Sweep, SweepSelect, SweepUpdate, WorkerCrash
<1>3. ASSUME NEW h \in Handlers, Webhook(h) \/ WebCrash(h) PROVE Goal
  <2>1. CASE IngestWrite(h)
    BY <2>1 DEF IngestWrite, HandlerOnKnown
  <2> QED
    BY <1>3, <2>1 DEF Webhook, IngestUnknown, IngestRead, WebCrash
<1>4. ASSUME NEW c \in Calls, HangUp(c) PROVE Goal
  BY <1>4 DEF HangUp
<1>5. CASE \/ \E i \in Items : RetryIntervalOver(i)
           \/ \E a \in Agents : StopRun(a) \/ \E p \in BOOLEAN : SetPaused(a, p)
           \/ \E n \in TopUps : TopUp(n)
           \/ UNCHANGED vars
  BY <1>5 DEF RetryIntervalOver, StopRun, SetPaused, TopUp, vars
<1> QED
  BY <1>1, <1>2, <1>3, <1>4, <1>5 DEF Next

\* What a callback does to the books: nothing, or one entry of its charge,
\* taken off the balance in the same transaction.
LEMMA CallbackBills ==
  ASSUME CallInv, NEW h \in Handlers, IngestWrite(h)
  PROVE  \E m \in sent :
           /\ UNCHANGED <<sent, line, credited>>
           /\ \A c \in Calls : c # m.call =>
                ledger'[c] = ledger[c] /\ (call'[c] = "completed" => call[c] = "completed")
           /\ \/ /\ UNCHANGED <<ledger, balance>>
                 /\ call'[m.call] = "completed" =>
                      \/ call[m.call] = "completed"
                      \/ m.charge = 0 \/ ledger[m.call] # 0
              \/ /\ ledger[m.call] = 0 /\ ledger' = [ledger EXCEPT ![m.call] = m.charge]
                 /\ balance' = balance - m.charge
<1> USE DEF CallInv, TypeInv, TypeOK, phone
<1> DEFINE m == handler[h].msg
<1>1. m \in sent /\ m.call \in Calls /\ m.charge \in Nat
  BY MessageParts DEF IngestWrite, HandlerOnKnown
<1>2. UNCHANGED <<sent, line, credited>>
  BY DEF IngestWrite
<1>3. \A c \in Calls : c # m.call =>
        ledger'[c] = ledger[c] /\ (call'[c] = "completed" => call[c] = "completed")
  BY DEF IngestWrite, Settle
<1>4. CASE m.kind = "completed" /\ handler[h].status = "dialling"
  BY <1>1, <1>2, <1>3, <1>4 DEF IngestWrite, Settle
<1>5. CASE ~(m.kind = "completed" /\ handler[h].status = "dialling")
  <2>1. UNCHANGED <<ledger, balance>> /\ (call'[m.call] = "completed" => call[m.call] = "completed")
    BY <1>1, <1>5 DEF IngestWrite
  <2> QED
    BY <1>1, <1>2, <1>3, <2>1
<1> QED
  BY <1>4, <1>5

LEMMA BilledStep == CallInv /\ BilledInv /\ [Next]_vars => BilledInv'
<1> SUFFICES ASSUME CallInv, BilledInv, [Next]_vars PROVE BilledInv'
  OBVIOUS
<1> USE DEF CallInv, TypeInv, TypeOK, PhoneInv, BilledInv
<1>1. SeenWasSent'
  BY LinesEnd
<1>2. \A m \in sent : m.call \in Calls /\ m.charge \in Nat /\ line[m.call] \in Over
  BY MessageParts DEF SentIsOver, Over
<1>3. ASSUME NEW h \in Handlers, IngestWrite(h) PROVE BilledIsOver' /\ BilledAsSent'
  <2>1. PICK m \in sent :
           /\ UNCHANGED <<sent, line, credited>>
           /\ \A c \in Calls : c # m.call =>
                ledger'[c] = ledger[c] /\ (call'[c] = "completed" => call[c] = "completed")
           /\ \/ /\ UNCHANGED <<ledger, balance>>
                 /\ call'[m.call] = "completed" =>
                      \/ call[m.call] = "completed"
                      \/ m.charge = 0 \/ ledger[m.call] # 0
              \/ /\ ledger[m.call] = 0 /\ ledger' = [ledger EXCEPT ![m.call] = m.charge]
                 /\ balance' = balance - m.charge
    BY <1>3, CallbackBills
  <2>2. BilledIsOver'
    BY <1>2, <2>1 DEF BilledIsOver
  <2>3. ASSUME NEW n \in sent
        PROVE  /\ ledger'[n.call] \in {0, n.charge}
               /\ call'[n.call] = "completed" => ledger'[n.call] = n.charge
    <3>1. /\ ledger[n.call] \in {0, n.charge} /\ n.call \in Calls
          /\ call[n.call] = "completed" => ledger[n.call] = n.charge
      BY <1>2 DEF BilledAsSent
    <3>2. CASE n.call # m.call
      BY <2>1, <3>1, <3>2
    <3>3. CASE n.call = m.call
      <4>1. n.charge = m.charge
        BY <3>3 DEF SentAgrees
      <4> QED
        BY <2>1, <3>1, <3>3, <4>1
    <3> QED
      BY <3>2, <3>3
  <2> QED
    BY <2>1, <2>2, <2>3 DEF BilledAsSent
<1>4. CASE \A h \in Handlers : ~IngestWrite(h)
  <2>1. /\ ledger' = ledger
        /\ \A c \in Calls : call'[c] = "completed" => call[c] = "completed"
    BY <1>4, OnlyCallbacksBill
  <2>2. \A c \in Calls : line[c] \in Over => line'[c] = line[c]
    BY LinesEnd
  <2>3. BilledIsOver'
    BY <2>1, <2>2 DEF BilledIsOver
  <2>4. ASSUME sent' = sent PROVE BilledAsSent'
    <3> SUFFICES ASSUME NEW m \in sent
                 PROVE  /\ ledger'[m.call] \in {0, m.charge}
                        /\ call'[m.call] = "completed" => ledger'[m.call] = m.charge
      BY <2>4 DEF BilledAsSent
    <3> QED
      BY <1>2, <2>1 DEF BilledAsSent
  <2>5. ASSUME NEW c \in Calls, HangUp(c) PROVE BilledAsSent'
    <3>1. ledger[c] = 0 /\ call[c] # "completed"
      BY <2>5 DEF HangUp, BilledIsOver, Over
    <3>2. \A m \in sent' : m \in sent \/ m.call = c
      BY <2>5 DEF HangUp
    <3> QED
      BY <1>2, <2>1, <3>1, <3>2 DEF BilledAsSent
  <2> QED
    BY <2>3, <2>4, <2>5, LinesEnd
<1> QED
  BY <1>1, <1>3, <1>4

\* The cache and the entries move together.
LEMMA CacheStep == CallInv /\ CacheIsLedger /\ [Next]_vars => CacheIsLedger'
<1> SUFFICES ASSUME CallInv, CacheIsLedger, [Next]_vars PROVE CacheIsLedger'
  OBVIOUS
<1> USE DEF CallInv, TypeInv, TypeOK
<1>1. /\ balance \in Int /\ credited \in Int
      /\ balance = credited - SumFunctionOnSet(ledger, Calls)
      /\ DOMAIN ledger = Calls
  BY DEF CacheIsLedger, SumFunction
<1>2. SumFunctionOnSet(ledger, Calls) \in Int
  BY CallsFinite, SumTake
<1>3. ledger' \in [Calls -> Nat]
  BY TypeStep
<1>4. SUFFICES balance' = credited' - SumFunctionOnSet(ledger', Calls)
  BY <1>3 DEF CacheIsLedger, SumFunction
<1>5. ASSUME NEW h \in Handlers, IngestWrite(h)
      PROVE  balance' = credited' - SumFunctionOnSet(ledger', Calls)
  <2>1. PICK m \in sent :
           /\ UNCHANGED <<sent, line, credited>>
           /\ \/ UNCHANGED <<ledger, balance>>
              \/ /\ ledger[m.call] = 0 /\ ledger' = [ledger EXCEPT ![m.call] = m.charge]
                 /\ balance' = balance - m.charge
    BY <1>5, CallbackBills
  <2>2. m.call \in Calls /\ m.charge \in Nat
    BY MessageParts
  <2>3. CASE UNCHANGED <<ledger, balance>>
    BY <1>1, <2>1, <2>3
  <2>4. CASE /\ ledger[m.call] = 0 /\ ledger' = [ledger EXCEPT ![m.call] = m.charge]
             /\ balance' = balance - m.charge
    <3>1. ledger'[m.call] = m.charge
      BY <2>2, <2>4
    <3>2. SumFunctionOnSet(ledger', Calls) = SumFunctionOnSet(ledger, Calls) + m.charge - 0
      <4>1. \A c \in Calls \ {m.call} : ledger'[c] = ledger[c]
        BY <2>4
      <4>2. \A c \in Calls : ledger[c] \in Int /\ ledger'[c] \in Int
        BY <1>3
      <4>3. SumFunctionOnSet(ledger', Calls)
              = SumFunctionOnSet(ledger, Calls) + ledger'[m.call] - ledger[m.call]
        BY <2>2, <4>1, <4>2, CallsFinite, SumChange
      <4> QED
        BY <2>4, <3>1, <4>3
    <3> QED
      BY <1>1, <1>2, <2>1, <2>2, <2>4, <3>2
  <2> QED
    BY <2>1, <2>3, <2>4
<1>6. ASSUME NEW n \in TopUps, TopUp(n)
      PROVE  balance' = credited' - SumFunctionOnSet(ledger', Calls)
  <2>1. n \in Int /\ ledger' = ledger /\ balance' = balance + n /\ credited' = credited + n
    BY <1>6, DispatchAssumption DEF TopUp
  <2> QED
    BY <1>1, <1>2, <2>1
<1>7. CASE (\A h \in Handlers : ~IngestWrite(h)) /\ ~\E n \in TopUps : TopUp(n)
  BY <1>1, <1>7, BalanceMoves, OnlyCallbacksBill
<1> QED
  BY <1>5, <1>6, <1>7

\* Whatever overlaps, repeats, crashes or comes late: the cached balance is what
\* the entries add up to, and a completed call is billed exactly what was said.
THEOREM LedgerCorrect == Spec => []LedgerIsTrue
<1>1. LedgerInv /\ [Next]_vars => LedgerInv'
  BY CallStep, BilledStep, CacheStep DEF LedgerInv
<1>2. LedgerInv => LedgerIsTrue
  BY DEF LedgerInv, BilledInv, SeenWasSent, BilledAsSent, LedgerIsTrue, BilledExactly
<1> QED
  BY LedgerInit, <1>1, <1>2, PTL DEF Spec

-----------------------------------------------------------------------------
(* The dispatch core implements the prepaid wallet: Spec implies P!Spec,   *)
(* as long as no sweep overlaps a callback or another sweep on one call    *)
(* and no conversation costs more than its hold.                           *)

\* One assumption on the environment, one on the price (wallet.py:45-61: a
\* hold is the charge of a call of max_call_minutes).
NoSweepRace  == "sweeprace" \notin Events
HoldSuffices == \A n \in Charges : n <= Hold

\* A call is not swept while one of its callbacks is being applied.
SweepAlone ==
  \A h \in Handlers, w \in Workers : handler[h] # None => handler[h].msg.call \notin stuck[w]

\* A request that read 'dialling' for a billable call will find it so, or
\* find the call billed by another delivery.
StaleIsSettled ==
  \A h \in Handlers :
    /\ handler[h] # None /\ handler[h].status = "dialling"
    /\ handler[h].msg.kind = "completed" /\ handler[h].msg.charge > 0
    => \/ call[handler[h].msg.call] = "dialling"
       \/ ledger[handler[h].msg.call] > 0

\* Only credits raise the balance.
BalanceIsCredited == balance <= credited

WalletInv == CallInv /\ SweepAlone /\ StaleIsSettled /\ BalanceIsCredited
-----------------------------------------------------------------------------
LEMMA WalletInit == Init => WalletInv
BY CallInit, DispatchAssumption
DEF Init, WalletInv, SweepAlone, StaleIsSettled, BalanceIsCredited

\* Steps that touch none of the state these two relate.
LEMMA WalletQuiet ==
  ASSUME WalletInv, UNCHANGED <<call, handler, stuck, ledger>>
  PROVE  SweepAlone' /\ StaleIsSettled'
BY DEF WalletInv, SweepAlone, StaleIsSettled

LEMMA WalletTick ==
  ASSUME WalletInv, NEW w \in Workers, Tick(w)
  PROVE  SweepAlone' /\ StaleIsSettled'
<1> USE DEF WalletInv, CallInv, TypeInv, TypeOK, RowInv
<1>1. UNCHANGED <<handler, stuck, ledger>>
  BY DEF Tick, OutsideWindow, CheckSpend, TickStart, CheckWallet, PauseRun, BeginDialling,
     Claim, NothingToClaim, ClaimCollides, FinishIfDrained, TickEnd, DialFailed,
     DialAccepted, DialAmbiguous, RecordDialled, RecordFailed, RefundClaim, local, money
<1>2. SweepAlone'
  BY <1>1 DEF SweepAlone
<1>3. CASE UNCHANGED call
  BY <1>1, <1>3, WalletQuiet
<1>4. CASE Claim(w)
  <2>1. PICK c \in Calls : call' = [call EXCEPT ![c] = "dialling"]
    BY <1>4, NextAttemptIsCall DEF Claim, Due
  <2>2. \A d \in Calls : call[d] = "dialling" => call'[d] = "dialling"
    BY <2>1
  <2>3. \A h \in Handlers : handler[h] # None => handler[h].msg.call \in Calls
    BY DEF Messages
  <2> QED
    BY <1>1, <1>2, <2>2, <2>3 DEF StaleIsSettled
<1>5. CASE RecordFailed(w) \/ RefundClaim(w)
  <2>1. /\ held[w] \notin known
        /\ \A d \in Calls : d # held[w] => call'[d] = call[d]
    BY <1>5, DispatchAssumption DEF RecordFailed, RefundClaim, HeldIsOpen, HeldWhileDialling,
       Holding, Goto
  <2>2. \A h \in Handlers : handler[h] # None =>
          call'[handler[h].msg.call] = call[handler[h].msg.call]
    BY <2>1 DEF HandlerOnKnown
  <2> QED
    BY <1>1, <1>2, <2>2 DEF StaleIsSettled
<1>6. CASE TickStart(w) \/ CheckWallet(w) \/ PauseRun(w) \/ BeginDialling(w)
           \/ \E a \in Agents : OutsideWindow(w, a) \/ CheckSpend(w, a)
  BY <1>3, <1>6 DEF TickStart, CheckWallet, PauseRun, BeginDialling, OutsideWindow, CheckSpend, db
<1>7. CASE ClaimCollides(w) \/ NothingToClaim(w) \/ DialAccepted(w) \/ DialAmbiguous(w)
           \/ DialFailed(w) \/ RecordDialled(w) \/ FinishIfDrained(w) \/ TickEnd(w)
  BY <1>3, <1>7 DEF ClaimCollides, NothingToClaim, DialAccepted, DialAmbiguous,
     DialFailed, RecordDialled, FinishIfDrained, TickEnd, db
<1> QED
  BY <1>4, <1>5, <1>6, <1>7 DEF Tick

LEMMA WalletSweep ==
  ASSUME WalletInv, NoSweepRace, NEW w \in Workers, Sweep(w)
  PROVE  SweepAlone' /\ StaleIsSettled'
<1> USE DEF WalletInv, CallInv, TypeInv, TypeOK
<1>1. UNCHANGED <<handler, ledger>>
  BY DEF Sweep, SweepSelect, SweepUpdate, money
<1>2. \A h \in Handlers : handler[h] # None => handler[h].msg.call \in Calls
  BY DEF Messages
<1>3. CASE SweepUpdate(w)
  <2>1. /\ call' = [c \in Calls |-> IF c \in stuck[w] THEN "failed" ELSE call[c]]
        /\ stuck' = [stuck EXCEPT ![w] = {}]
    BY <1>3 DEF SweepUpdate
  <2> QED
    BY <1>1, <1>2, <2>1 DEF SweepAlone, StaleIsSettled
<1>4. ASSUME NEW S \in SUBSET InFlight, SweepSelect(w, S)
      PROVE  SweepAlone' /\ StaleIsSettled'
  <2>1. /\ call' = call /\ stuck' = [stuck EXCEPT ![w] = S]
        /\ \A h \in Handlers : handler[h] # None => handler[h].msg.call \notin S
    BY <1>4 DEF SweepSelect, NoSweepRace, Ingesting, db
  <2> QED
    BY <1>1, <1>2, <2>1 DEF SweepAlone, StaleIsSettled
<1> QED
  BY <1>3, <1>4 DEF Sweep

LEMMA WalletWebhook ==
  ASSUME WalletInv, NoSweepRace, NEW h \in Handlers, Webhook(h)
  PROVE  SweepAlone' /\ StaleIsSettled'
<1> USE DEF WalletInv, CallInv, TypeInv, TypeOK, RowInv
<1>1. ASSUME NEW m \in sent, IngestUnknown(h, m) PROVE SweepAlone' /\ StaleIsSettled'
  BY <1>1, WalletQuiet DEF IngestUnknown, db, money, local
<1>2. ASSUME NEW m \in sent, IngestRead(h, m) PROVE SweepAlone' /\ StaleIsSettled'
  <2>1. /\ UNCHANGED <<call, stuck, ledger>>
        /\ handler' = [handler EXCEPT ![h] = [msg |-> m, status |-> call[m.call]]]
        /\ \A w \in Workers : m.call \notin stuck[w]
    BY <1>2 DEF IngestRead, NoSweepRace, Sweeping, db, money, local
  <2> QED
    BY <2>1 DEF SweepAlone, StaleIsSettled
<1>3. CASE IngestWrite(h)
  <2> DEFINE m == handler[h].msg
             c == m.call
  <2>1. /\ handler[h] # None /\ m \in sent /\ c \in Calls /\ m.charge \in Nat
        /\ handler' = [handler EXCEPT ![h] = None] /\ UNCHANGED stuck
    <3>1. handler[h] # None /\ m \in sent
      BY <1>3 DEF IngestWrite, HandlerOnKnown
    <3>2. c \in Calls /\ m.charge \in Nat
      BY <3>1, MessageParts
    <3> QED
      BY <1>3, <3>1, <3>2 DEF IngestWrite, local
  <2>2. \A d \in Calls : d # c => call'[d] = call[d] /\ ledger'[d] = ledger[d]
    BY <1>3 DEF IngestWrite, Settle
  <2>3. \A d \in Calls : ledger[d] > 0 => ledger'[d] > 0
    BY <1>3, <2>1 DEF IngestWrite, Settle
  <2>4. \/ call'[c] = call[c]
        \/ m.kind = "completed" /\ (m.charge > 0 => ledger'[c] > 0)
        \/ m.kind = "failed"
    BY <1>3, <2>1 DEF IngestWrite, Settle
  <2>5. SweepAlone'
    BY <2>1 DEF SweepAlone
  <2>6. StaleIsSettled'
    <3> SUFFICES ASSUME NEW g \in Handlers, handler'[g] # None,
                        handler[g].status = "dialling",
                        handler[g].msg.kind = "completed", handler[g].msg.charge > 0
                 PROVE  \/ call'[handler[g].msg.call] = "dialling"
                        \/ ledger'[handler[g].msg.call] > 0
      BY <2>1 DEF StaleIsSettled
    <3>1. /\ handler[g] # None /\ handler[g].msg \in sent /\ handler[g].msg.call \in Calls
          /\ call[handler[g].msg.call] = "dialling" \/ ledger[handler[g].msg.call] > 0
      BY <2>1 DEF HandlerOnKnown, StaleIsSettled, Messages
    <3>2. CASE handler[g].msg.call # c
      BY <2>2, <3>1, <3>2
    <3>3. CASE handler[g].msg.call = c
      <4>1. m.kind = "completed" /\ m.charge > 0
        BY <2>1, <3>1, <3>3 DEF PhoneInv, SentAgrees
      <4> QED
        BY <2>3, <2>4, <3>1, <3>3, <4>1
    <3> QED
      BY <3>2, <3>3
  <2> QED
    BY <2>5, <2>6
<1> QED
  BY <1>1, <1>2, <1>3 DEF Webhook

-----------------------------------------------------------------------------
(* The refinement: a claim is a reservation, a billed callback a           *)
(* settlement, a top-up a credit, and all else releases calls or stutters. *)

\* The abstract wallet counts with the same Cardinality.
LEMMA SameCardinality == \A S : P!Cardinality(S) = Cardinality(S)
BY DEF P!Cardinality, Cardinality

\* A step that leaves the balance alone and adds no call releases or stutters.
LEMMA ShrinkIsRelease ==
  ASSUME balance' = balance, InFlight' \subseteq InFlight
  PROVE  [P!Next]_P!vars
<1> DEFINE S == InFlight \ InFlight'
<1>1. S \in SUBSET Calls
  BY DEF InFlight
<1>2. P!Release(S)
  BY DEF P!Release
<1> QED
  BY <1>1, <1>2 DEF P!Next

\* A reservation and a settlement are steps of the abstract wallet.
LEMMA ReserveIsStep ==
  ASSUME NEW c \in Calls, P!Reserve(c)
  PROVE  P!Next
BY DEF P!Next

LEMMA SettleIsStep ==
  ASSUME NEW c \in Calls, NEW n \in 1 .. Hold, P!Settle(c, n)
  PROVE  P!Next
BY DEF P!Next

\* Settlements lower the balance, top-ups raise both.
LEMMA CreditedBounds ==
  ASSUME CallInv, BalanceIsCredited, [Next]_vars
  PROVE  BalanceIsCredited'
<1> USE DEF BalanceIsCredited, CallInv, TypeInv, TypeOK
<1>1. ASSUME NEW h \in Handlers, IngestWrite(h) PROVE BalanceIsCredited'
  <2>1. handler[h].msg.charge \in Nat
    BY <1>1, MessageParts DEF IngestWrite, HandlerOnKnown
  <2>2. balance' = balance \/ balance' = balance - handler[h].msg.charge
    BY <1>1 DEF IngestWrite, Settle
  <2> QED
    BY <1>1, <2>1, <2>2 DEF IngestWrite
<1>2. ASSUME NEW n \in TopUps, TopUp(n) PROVE BalanceIsCredited'
  BY <1>2, DispatchAssumption DEF TopUp
<1>3. CASE ~\E n \in TopUps : TopUp(n)
  BY <1>1, <1>3, BalanceMoves
<1> QED
  BY <1>2, <1>3

LEMMA WalletStep ==
  ASSUME NoSweepRace
  PROVE  WalletInv /\ [Next]_vars => WalletInv'
<1> SUFFICES ASSUME WalletInv, [Next]_vars PROVE WalletInv'
  OBVIOUS
<1>1. CallInv'
  BY CallStep DEF WalletInv
<1>2. ASSUME NEW w \in Workers, WorkerCrash(w) PROVE SweepAlone' /\ StaleIsSettled'
  <2>1. UNCHANGED <<call, handler, ledger>> /\ stuck' = [stuck EXCEPT ![w] = {}]
    BY <1>2 DEF WorkerCrash, db, money
  <2> QED
    BY <2>1 DEF WalletInv, CallInv, TypeInv, TypeOK, SweepAlone, StaleIsSettled
<1>3. ASSUME NEW h \in Handlers, WebCrash(h) PROVE SweepAlone' /\ StaleIsSettled'
  <2>1. UNCHANGED <<call, stuck, ledger>> /\ handler' = [handler EXCEPT ![h] = None]
    BY <1>3 DEF WebCrash, db, money, local
  <2> QED
    BY <2>1 DEF WalletInv, CallInv, TypeInv, TypeOK, SweepAlone, StaleIsSettled
<1>4. ASSUME \/ \E i \in Items : RetryIntervalOver(i)
             \/ \E c \in Calls : HangUp(c)
             \/ \E a \in Agents : StopRun(a) \/ \E p \in BOOLEAN : SetPaused(a, p)
             \/ \E n \in TopUps : TopUp(n)
             \/ UNCHANGED vars
      PROVE  SweepAlone' /\ StaleIsSettled'
  <2>1. UNCHANGED <<call, handler, stuck, ledger>>
    BY <1>4 DEF RetryIntervalOver, HangUp, StopRun, SetPaused, TopUp, vars, db, money, local
  <2> QED
    BY <2>1, WalletQuiet
<1>5. SweepAlone' /\ StaleIsSettled'
  BY <1>2, <1>3, <1>4, WalletTick, WalletSweep, WalletWebhook DEF Next
<1>6. BalanceIsCredited'
  BY CreditedBounds DEF WalletInv
<1> QED
  BY <1>1, <1>5, <1>6 DEF WalletInv

\* A callback that bills finds the call still in flight.
LEMMA IngestSettles ==
  ASSUME HoldSuffices, WalletInv, NEW h \in Handlers, IngestWrite(h)
  PROVE  [P!Next]_P!vars
<1> USE DEF WalletInv, CallInv, TypeInv, TypeOK
<1> DEFINE m == handler[h].msg
           c == m.call
<1>1. handler[h] # None /\ m \in sent /\ m \in Messages
  BY DEF IngestWrite, HandlerOnKnown
<1>2. c \in Calls /\ m.charge \in Charges \cup {0} /\ m.charge \in Nat
  BY <1>1, MessageParts
<1>3. CASE balance' = balance
  <2>1. InFlight' \subseteq InFlight
    BY DEF IngestWrite, InFlight
  <2> QED
    BY <1>3, <2>1, ShrinkIsRelease
<1>4. CASE balance' # balance
  <2>1. /\ m.kind = "completed" /\ handler[h].status = "dialling"
        /\ call' = [call EXCEPT ![c] = "completed"]
        /\ m.charge > 0 /\ ledger[c] = 0 /\ balance' = balance - m.charge
    BY <1>2, <1>4 DEF IngestWrite, Settle
  <2>2. call[c] = "dialling"
    BY <1>1, <1>2, <2>1 DEF StaleIsSettled
  <2>3. c \in InFlight /\ InFlight' = InFlight \ {c}
    BY <1>2, <2>1, <2>2 DEF InFlight
  <2>4. m.charge \in 1 .. Hold
    <3>1. m.charge \in Charges /\ m.charge > 0
      BY <1>2, <2>1
    <3>2. m.charge <= Hold
      BY <3>1 DEF HoldSuffices
    <3> QED
      BY <1>2, <3>1, <3>2, DispatchAssumption
  <2>5. P!Settle(c, m.charge)
    BY <2>1, <2>3, <2>4 DEF P!Settle
  <2>6. P!Next
    BY ONLY <1>2, <2>4, <2>5, SettleIsStep
  <2> QED
    BY <2>6
<1> QED
  BY <1>3, <1>4

LEMMA RefinementStep ==
  ASSUME NoSweepRace, HoldSuffices
  PROVE  WalletInv /\ [Next]_vars => [P!Next]_P!vars
<1> SUFFICES ASSUME WalletInv, [Next]_vars PROVE [P!Next]_P!vars
  OBVIOUS
<1>1. ASSUME NEW w \in Workers, Claim(w) PROVE [P!Next]_P!vars
  <2>1. PICK c \in Calls \ InFlight : InFlight' = InFlight \cup {c}
    BY <1>1, ClaimAddsOne DEF WalletInv, CallInv
  <2>2. GateOpen /\ balance' = balance
    BY <1>1, ClaimAddsOne DEF WalletInv, CallInv
  <2>3. P!Reserve(c)
    BY <2>1, <2>2, SameCardinality DEF P!Reserve, P!Room, P!Cover,
       GateOpen, Reserved
  <2> QED
    BY <2>3, ReserveIsStep
<1>2. ASSUME NEW h \in Handlers, IngestWrite(h) PROVE [P!Next]_P!vars
  BY <1>2, IngestSettles
<1>3. ASSUME NEW n \in TopUps, TopUp(n) PROVE [P!Next]_P!vars
  <2>1. balance' = balance + n /\ InFlight' = InFlight
    BY <1>3 DEF TopUp, InFlight, db
  <2>2. balance + n <= MaxCredit
    BY <1>3, DispatchAssumption
    DEF TopUp, WalletInv, CallInv, TypeInv, TypeOK, BalanceIsCredited
  <2>3. P!Credit(n)
    BY <2>1, <2>2 DEF P!Credit
  <2> QED
    BY <1>3, <2>3 DEF P!Next
<1>4. CASE /\ \A w \in Workers : ~Claim(w)
           /\ ~\E h \in Handlers : IngestWrite(h)
           /\ ~\E n \in TopUps : TopUp(n)
  BY <1>4, OnlyClaimsAdd, BalanceMoves, ShrinkIsRelease DEF WalletInv, CallInv
<1> QED
  BY <1>1, <1>2, <1>3, <1>4

LEMMA RefinementInit == Init => P!Init
<1> SUFFICES ASSUME Init PROVE P!Init
  OBVIOUS
<1>1. InFlight = {}
  BY DEF Init, InFlight
<1> QED
  BY <1>1 DEF Init, P!Init

\* The dispatch core keeps the promise of the prepaid wallet.
THEOREM KeepsPromise ==
  ASSUME NoSweepRace, HoldSuffices
  PROVE  Spec => KeepsPrepaidPromise
<1>1. WalletInv /\ [Next]_vars => WalletInv'
  BY WalletStep
<1>2. WalletInv /\ [Next]_vars => [P!Next]_P!vars
  BY RefinementStep
<1> QED
  BY <1>1, <1>2, WalletInit, RefinementInit, PTL DEF Spec, KeepsPrepaidPromise, P!Spec

-----------------------------------------------------------------------------
(* What Prepaid is proved to promise then holds of the dispatch core.      *)

W == INSTANCE PrepaidProofs WITH
       Ids <- Calls, Capacity <- Allocation, Opening <- OpeningBalance,
       Credits <- TopUps, MaxBalance <- MaxCredit, open <- InFlight

LEMMA SameWallet ==
  /\ W!PrepaidConstants
  /\ P!Init => W!Init
  /\ [P!Next]_P!vars => [W!Next]_W!vars
  /\ W!Covered => WalletCovers
<1>1. W!PrepaidConstants
  BY CallsFinite, DispatchAssumption DEF W!PrepaidConstants, W!IsFiniteSet, IsFiniteSet
<1>2. P!Init => W!Init
  BY DEF P!Init, W!Init
<1>3. \A S : W!Cardinality(S) = P!Cardinality(S)
  BY DEF P!Cardinality, W!Cardinality
<1>4. P!Next => W!Next
  BY <1>3 DEF P!Next, W!Next, P!Reserve, W!Reserve, P!Room, W!Room,
     P!Cover, W!Cover, P!Release, W!Release,
     P!Settle, W!Settle, P!Credit, W!Credit
<1>5. UNCHANGED P!vars => UNCHANGED W!vars
  BY DEF P!vars, W!vars
<1>6. W!Covered => WalletCovers
  BY <1>3, SameCardinality DEF W!Covered, WalletCovers, Reserved
<1> QED
  BY <1>1, <1>2, <1>4, <1>5, <1>6

\* Whatever the runs, workers, crashes, top-ups and lost callbacks: the balance
\* covers the worst case of every call in flight, and never drops below zero.
THEOREM WalletCorrect ==
  ASSUME NoSweepRace, HoldSuffices
  PROVE  Spec => []WalletCovers
<1>1. Spec => P!Spec
  BY KeepsPromise DEF KeepsPrepaidPromise
<1>2. P!Spec => W!Spec
  BY SameWallet, PTL DEF P!Spec, W!Spec
<1>3. W!Spec => [](W!WithinCapacity /\ W!Covered)
  BY W!PrepaidSafe, SameWallet
<1> QED
  BY <1>1, <1>2, <1>3, SameWallet, PTL
=============================================================================

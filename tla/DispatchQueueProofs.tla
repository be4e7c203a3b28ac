------------------------- MODULE DispatchQueueProofs ------------------------
(* The queue and the call table agree: while no sweep overlaps a callback  *)
(* and Telnyx issues one terminal event per call (redelivered any number   *)
(* of times), an item is in 'dialling' exactly as long as its last         *)
(* attempt's call is, keys are never reused and outcomes never change. It  *)
(* follows which lines a contact can be on, and when it is rung again.     *)
EXTENDS DispatchProofs

OneTerminalEvent == \A x, y \in Copies : x = y

\* Attempts not made yet have no row.
FutureKeysFree ==
  \A i \in Items, k \in 1 .. RetryAttempts + 1 : k > attempts[i] => call[<<i, k>>] = "none"

\* What a sweep selected is still open when it writes, and selected once.
StuckIsOpen ==
  \A w \in Workers : \A c \in stuck[w] :
    call[c] = "dialling" /\ \A v \in Workers : c \in stuck[v] => v = w

\* What a request read is still so when it writes.
ReadIsFresh ==
  \A h \in Handlers : handler[h] # None /\ handler[h].status = "dialling" =>
    call[handler[h].msg.call] = "dialling"

OneRequestPerCall ==
  \A g, h \in Handlers :
    handler[g] # None /\ handler[h] # None /\ handler[g].msg.call = handler[h].msg.call => g = h

QueueInv == /\ WalletInv /\ FutureKeysFree /\ ItemMirrorsCall
            /\ StuckIsOpen /\ ReadIsFresh /\ OneRequestPerCall

Kept == /\ FutureKeysFree' /\ ItemMirrorsCall'
        /\ StuckIsOpen' /\ ReadIsFresh' /\ OneRequestPerCall'

-----------------------------------------------------------------------------
LEMMA QueueInit == Init => QueueInv
BY WalletInit, CallParts DEF Init, QueueInv, FutureKeysFree, ItemMirrorsCall, StuckIsOpen,
   ReadIsFresh, OneRequestPerCall

\* Two open calls of one item are one call.
LEMMA OneOpenCall ==
  ASSUME ItemMirrorsCall, NEW c \in Calls, NEW d \in Calls,
         call[c] = "dialling", call[d] = "dialling", c[1] = d[1]
  PROVE  c = d
<1>1. c[2] = attempts[c[1]] /\ d[2] = attempts[d[1]]
  BY DEF ItemMirrorsCall
<1> QED
  BY <1>1, CallParts

\* Steps that leave all of it alone; a pending item may be skipped.
LEMMA QueueQuiet ==
  ASSUME QueueInv, UNCHANGED <<call, attempts, stuck, handler>>,
         \A i \in Items : state'[i] = "dialling" <=> state[i] = "dialling"
  PROVE  Kept
<1>1. \A c \in Calls : c[1] \in Items
  BY CallParts
<1> QED
  BY <1>1 DEF QueueInv, Kept, FutureKeysFree, ItemMirrorsCall, StuckIsOpen, ReadIsFresh,
     OneRequestPerCall

\* Closing a call together with its item: what all outcomes have in common.
LEMMA ClosingKeeps ==
  ASSUME QueueInv, NEW c \in Calls, call[c] = "dialling",
         call' = [call EXCEPT ![c] = "completed"] \/ call' = [call EXCEPT ![c] = "failed"],
         attempts' = attempts,
         state'[c[1]] # "dialling",
         \A i \in Items : i # c[1] => state'[i] = state[i]
  PROVE  FutureKeysFree' /\ ItemMirrorsCall'
<1> USE DEF QueueInv, WalletInv, CallInv, TypeInv, TypeOK
<1>1. FutureKeysFree'
  BY CallParts DEF FutureKeysFree
<1>2. ItemMirrorsCall'
  <2> SUFFICES ASSUME NEW d \in Calls
               PROVE  call'[d] = "dialling" <=> state'[d[1]] = "dialling" /\ d[2] = attempts'[d[1]]
    BY DEF ItemMirrorsCall
  <2>1. CASE d[1] = c[1]
    <3>1. call'[d] # "dialling"
      BY <2>1, OneOpenCall
    <3> QED
      BY <2>1, <3>1
  <2>2. CASE d[1] # c[1]
    <3>1. call'[d] = call[d] /\ state'[d[1]] = state[d[1]]
      BY <2>2, CallParts
    <3> QED
      BY <3>1 DEF ItemMirrorsCall
  <2> QED
    BY <2>1, <2>2
<1> QED
  BY <1>1, <1>2

-----------------------------------------------------------------------------
LEMMA QueueClaim ==
  ASSUME QueueInv, NEW w \in Workers, Claim(w)
  PROVE  Kept
<1> USE DEF QueueInv, WalletInv, CallInv, TypeInv, TypeOK, RowInv
<1>1. PICK i \in Items :
        /\ state[i] = "pending" /\ NextAttempt(i) \in Calls /\ call[NextAttempt(i)] = "none"
        /\ state' = [state EXCEPT ![i] = "dialling"]
        /\ attempts' = [attempts EXCEPT ![i] = @ + 1]
        /\ call' = [call EXCEPT ![NextAttempt(i)] = "dialling"]
  BY NextAttemptIsCall DEF Claim, Due, KeyFree
<1>2. UNCHANGED <<stuck, handler>>
  BY DEF Claim
<1>3. FutureKeysFree'
  BY <1>1 DEF FutureKeysFree, NextAttempt
<1>4. ItemMirrorsCall'
  <2> SUFFICES ASSUME NEW d \in Calls
               PROVE  call'[d] = "dialling" <=> state'[d[1]] = "dialling" /\ d[2] = attempts'[d[1]]
    BY DEF ItemMirrorsCall
  <2>1. d[1] \in Items /\ d = <<d[1], d[2]>>
    BY CallParts
  <2>2. CASE d = NextAttempt(i)
    BY <1>1, <2>2 DEF NextAttempt
  <2>3. CASE d # NextAttempt(i) /\ d[1] = i
    BY <1>1, <2>1, <2>3 DEF NextAttempt, ItemMirrorsCall
  <2>4. CASE d[1] # i
    <3>1. d # NextAttempt(i)
      BY <2>4 DEF NextAttempt
    <3> QED
      BY <1>1, <2>1, <2>4, <3>1 DEF ItemMirrorsCall
  <2> QED
    BY <2>2, <2>3, <2>4
<1>5. \A c \in Calls : call[c] = "dialling" => call'[c] = "dialling"
  BY <1>1
<1>6. \A h \in Handlers : handler[h] # None => handler[h].msg.call \in Calls
  BY MessageParts
<1>7. StuckIsOpen' /\ ReadIsFresh' /\ OneRequestPerCall'
  BY <1>2, <1>5, <1>6 DEF StuckIsOpen, ReadIsFresh, OneRequestPerCall
<1> QED
  BY <1>3, <1>4, <1>7 DEF Kept

\* The held call is the item's current attempt; sweeps and requests are on others.
LEMMA HeldIsCurrent ==
  ASSUME QueueInv, NEW w \in Workers, pc[w] \in Holding
  PROVE  /\ held[w] \in Calls /\ call[held[w]] = "dialling"
         /\ held[w][1] \in Items /\ state[held[w][1]] = "dialling"
         /\ held[w][2] = attempts[held[w][1]] /\ held[w] = <<held[w][1], held[w][2]>>
         /\ \A v \in Workers : held[w] \notin stuck[v]
         /\ \A h \in Handlers : handler[h] # None => handler[h].msg.call # held[w]
<1> USE DEF QueueInv, WalletInv, CallInv, TypeInv, RowInv
<1>1. held[w] \in Calls /\ held[w] # None
  BY DispatchAssumption DEF HeldWhileDialling
<1>2. call[held[w]] = "dialling" /\ held[w] \notin known
  BY <1>1 DEF HeldIsOpen
<1>3. held[w][1] \in Items /\ held[w] = <<held[w][1], held[w][2]>>
  BY <1>1, CallParts
<1>4. state[held[w][1]] = "dialling" /\ held[w][2] = attempts[held[w][1]]
  BY <1>1, <1>2 DEF ItemMirrorsCall
<1>5. \A v \in Workers : held[w] \notin stuck[v]
  BY DEF StuckIsNotHeld
<1>6. \A h \in Handlers : handler[h] # None => handler[h].msg.call # held[w]
  BY <1>2 DEF HandlerOnKnown
<1> QED
  BY <1>1, <1>2, <1>3, <1>4, <1>5, <1>6

\* Other calls keep their rows, so sweeps and requests in progress are right.
LEMMA OthersKeep ==
  ASSUME QueueInv, NEW c \in Calls, UNCHANGED <<stuck, handler>>,
         \A d \in Calls : d # c => call'[d] = call[d],
         \A v \in Workers : c \notin stuck[v],
         \A h \in Handlers : handler[h] # None => handler[h].msg.call # c
  PROVE  StuckIsOpen' /\ ReadIsFresh' /\ OneRequestPerCall'
<1>1. \A v \in Workers : \A d \in stuck[v] : call'[d] = call[d]
  BY DEF QueueInv, WalletInv, CallInv, TypeInv, TypeOK
<1>2. \A h \in Handlers : handler[h] # None =>
        call'[handler[h].msg.call] = call[handler[h].msg.call]
  BY MessageParts DEF QueueInv, WalletInv, CallInv, TypeInv, TypeOK
<1> QED
  BY <1>1, <1>2 DEF QueueInv, StuckIsOpen, ReadIsFresh, OneRequestPerCall

LEMMA QueueRecordFailed ==
  ASSUME QueueInv, NEW w \in Workers, RecordFailed(w)
  PROVE  Kept
<1> DEFINE c == held[w]
<1>1. pc[w] \in {"drop", "retry"} /\ pc[w] \in Holding
  BY DEF RecordFailed, Holding
<1>2. /\ call' = [call EXCEPT ![c] = "failed"]
      /\ UNCHANGED <<attempts, stuck, handler>>
  BY DEF RecordFailed
<1>3. state'[c[1]] # "dialling" /\ \A i \in Items : i # c[1] => state'[i] = state[i]
  <2> USE DEF QueueInv, WalletInv, CallInv, TypeInv, TypeOK
  <2>1. c[1] \in Items /\ state[c[1]] = "dialling"
    BY <1>1, HeldIsCurrent
  <2>2. CASE pc[w] = "drop"
    BY <2>1, <2>2 DEF RecordFailed, Goto
  <2>3. CASE pc[w] = "retry"
    <3>1. ApplyRetryPolicy({c[1]})
      BY <2>3 DEF RecordFailed, Goto
    <3> QED
      BY <2>1, <3>1 DEF ApplyRetryPolicy, AfterFailure
  <2> QED
    BY <1>1, <2>2, <2>3
<1>4. FutureKeysFree' /\ ItemMirrorsCall'
  BY <1>1, <1>2, <1>3, HeldIsCurrent, ClosingKeeps
<1>5. \A d \in Calls : d # c => call'[d] = call[d]
  BY <1>2
<1>6. StuckIsOpen' /\ ReadIsFresh' /\ OneRequestPerCall'
  BY <1>1, <1>2, <1>5, HeldIsCurrent, OthersKeep
<1> QED
  BY <1>4, <1>6 DEF Kept

LEMMA QueueRefund ==
  ASSUME QueueInv, NEW w \in Workers, RefundClaim(w)
  PROVE  Kept
<1> USE DEF QueueInv, WalletInv, CallInv, TypeInv, TypeOK
<1> DEFINE c == held[w]
           i == c[1]
<1>1. pc[w] \in Holding
  BY DEF RefundClaim, Goto, Holding
<1>2. /\ c \in Calls /\ i \in Items /\ c = <<i, c[2]>> /\ c[2] = attempts[i]
      /\ call[c] = "dialling" /\ state[i] = "dialling" /\ c[2] \in 1 .. RetryAttempts + 1
  BY <1>1, HeldIsCurrent, CallParts
<1>3. /\ call' = [call EXCEPT ![c] = "none"]
      /\ state' = [state EXCEPT ![i] = "pending"]
      /\ attempts' = [attempts EXCEPT ![i] = @ - 1]
      /\ UNCHANGED <<stuck, handler>>
  BY <1>2, DispatchAssumption DEF RefundClaim, RowDeleted
<1>4. FutureKeysFree'
  <2> SUFFICES ASSUME NEW j \in Items, NEW k \in 1 .. RetryAttempts + 1, k > attempts'[j]
               PROVE  call'[<<j, k>>] = "none"
    BY DEF FutureKeysFree
  <2>1. <<j, k>> \in Calls
    BY CallParts
  <2>2. CASE j = i /\ k = c[2]
    BY <1>2, <1>3, <2>2
  <2>3. CASE j # i \/ k # c[2]
    <3>1. k > attempts[j]
      BY <1>2, <1>3, <2>3, DispatchAssumption
    <3> QED
      BY <1>2, <1>3, <2>1, <3>1 DEF FutureKeysFree
  <2> QED
    BY <2>2, <2>3
<1>5. ItemMirrorsCall'
  <2> SUFFICES ASSUME NEW d \in Calls
               PROVE  call'[d] = "dialling" <=> state'[d[1]] = "dialling" /\ d[2] = attempts'[d[1]]
    BY DEF ItemMirrorsCall
  <2>1. d[1] \in Items
    BY CallParts
  <2>2. CASE d[1] = i
    <3>1. d # c => call[d] # "dialling"
      BY <1>2, <2>2, OneOpenCall
    <3> QED
      BY <1>2, <1>3, <2>2, <3>1
  <2>3. CASE d[1] # i
    BY <1>2, <1>3, <2>1, <2>3 DEF ItemMirrorsCall
  <2> QED
    BY <2>2, <2>3
<1>6. \A d \in Calls : d # c => call'[d] = call[d]
  BY <1>3
<1>7. StuckIsOpen' /\ ReadIsFresh' /\ OneRequestPerCall'
  BY <1>1, <1>2, <1>3, <1>6, HeldIsCurrent, OthersKeep
<1> QED
  BY <1>4, <1>5, <1>7 DEF Kept

\* All other steps of a tick leave rows, items and budgets alone.
LEMMA QueueTick ==
  ASSUME QueueInv, NEW w \in Workers, Tick(w)
  PROVE  Kept
<1>1. CASE TickStart(w) \/ CheckWallet(w) \/ PauseRun(w) \/ BeginDialling(w)
           \/ \E a \in Agents : OutsideWindow(w, a) \/ CheckSpend(w, a)
  <2>1. UNCHANGED <<call, attempts, stuck, handler, state>>
    BY <1>1 DEF TickStart, CheckWallet, PauseRun, BeginDialling, OutsideWindow, CheckSpend,
       db, local
  <2> QED
    BY <2>1, QueueQuiet
<1>2. CASE ClaimCollides(w) \/ NothingToClaim(w) \/ DialAccepted(w) \/ DialAmbiguous(w)
           \/ DialFailed(w) \/ RecordDialled(w) \/ FinishIfDrained(w) \/ TickEnd(w)
  <2>1. UNCHANGED <<call, attempts, stuck, handler, state>>
    BY <1>2 DEF ClaimCollides, NothingToClaim, DialAccepted, DialAmbiguous, DialFailed,
       RecordDialled, FinishIfDrained, TickEnd, db, local
  <2> QED
    BY <2>1, QueueQuiet
<1> QED
  BY <1>1, <1>2, QueueClaim, QueueRecordFailed, QueueRefund DEF Tick

LEMMA QueueSweep ==
  ASSUME QueueInv, NoSweepRace, NEW w \in Workers, Sweep(w)
  PROVE  Kept
<1> USE DEF QueueInv, WalletInv, CallInv, TypeInv, TypeOK
<1>1. ASSUME NEW S \in SUBSET InFlight, SweepSelect(w, S) PROVE Kept
  <2>1. /\ UNCHANGED <<call, attempts, state, handler>>
        /\ stuck' = [stuck EXCEPT ![w] = S]
        /\ \A c \in S : call[c] = "dialling" /\ \A v \in Workers : c \notin stuck[v]
    BY <1>1 DEF SweepSelect, Overdue, Sweeping, NoSweepRace, db
  <2>2. FutureKeysFree' /\ ItemMirrorsCall' /\ ReadIsFresh' /\ OneRequestPerCall'
    BY <2>1 DEF FutureKeysFree, ItemMirrorsCall, ReadIsFresh, OneRequestPerCall
  <2>3. StuckIsOpen'
    BY <2>1 DEF StuckIsOpen
  <2> QED
    BY <2>2, <2>3 DEF Kept
<1>2. CASE SweepUpdate(w)
  <2> DEFINE T == {c[1] : c \in stuck[w]}
  <2>1. /\ call' = [c \in Calls |-> IF c \in stuck[w] THEN "failed" ELSE call[c]]
        /\ ApplyRetryPolicy(T)
        /\ stuck' = [stuck EXCEPT ![w] = {}] /\ UNCHANGED <<attempts, handler>>
    BY <1>2 DEF SweepUpdate
  <2>2. \A i \in Items : state'[i] = "dialling" <=> state[i] = "dialling" /\ i \notin T
    BY <2>1 DEF ApplyRetryPolicy, AfterFailure
  <2>3. FutureKeysFree'
    <3>1. \A c \in Calls : call[c] = "none" => call'[c] = "none"
      BY <2>1 DEF StuckIsOpen
    <3> QED
      BY <2>1, <3>1, CallParts DEF FutureKeysFree
  <2>4. ItemMirrorsCall'
    <3> SUFFICES ASSUME NEW d \in Calls
                 PROVE  call'[d] = "dialling" <=> state'[d[1]] = "dialling" /\ d[2] = attempts[d[1]]
      BY <2>1 DEF ItemMirrorsCall
    <3>1. d[1] \in Items
      BY CallParts
    <3>2. ASSUME call[d] = "dialling", d[1] \in T PROVE d \in stuck[w]
      <4>1. PICK c \in stuck[w] : c[1] = d[1]
        BY <3>2
      <4>2. c \in Calls /\ call[c] = "dialling"
        BY DEF StuckIsOpen
      <4> QED
        BY <3>2, <4>1, <4>2, OneOpenCall
    <3>3. d \in stuck[w] => d[1] \in T
      OBVIOUS
    <3> QED
      BY <2>1, <2>2, <3>1, <3>2, <3>3 DEF ItemMirrorsCall
  <2>5. StuckIsOpen'
    BY <2>1 DEF StuckIsOpen
  <2>6. ReadIsFresh' /\ OneRequestPerCall'
    BY <2>1, MessageParts DEF ReadIsFresh, OneRequestPerCall, SweepAlone
  <2> QED
    BY <2>3, <2>4, <2>5, <2>6 DEF Kept
<1> QED
  BY <1>1, <1>2 DEF Sweep

LEMMA QueueWebhook ==
  ASSUME QueueInv, OneTerminalEvent, NEW h \in Handlers, Webhook(h)
  PROVE  Kept
<1> USE DEF QueueInv, WalletInv, CallInv, TypeInv, TypeOK
<1>1. ASSUME NEW m \in sent, IngestUnknown(h, m) PROVE Kept
  BY <1>1, QueueQuiet DEF IngestUnknown, db, local
<1>2. ASSUME NEW m \in sent, IngestRead(h, m) PROVE Kept
  <2>1. /\ UNCHANGED <<call, attempts, stuck, state>>
        /\ handler' = [handler EXCEPT ![h] = [msg |-> m, status |-> call[m.call]]]
        /\ \A g \in Handlers : handler[g] # None => handler[g].msg # m
    BY <1>2 DEF IngestRead, Delivered, db, local
  <2>2. ASSUME NEW n \in sent, n.call = m.call PROVE n = m
    <3>1. n.kind = m.kind /\ n.charge = m.charge
      BY <2>2 DEF PhoneInv, SentAgrees
    <3>2. n.copy = m.copy
      BY DEF OneTerminalEvent, Messages
    <3> QED
      BY <2>2, <3>1, <3>2 DEF Messages
  <2>3. \A g \in Handlers : handler[g] # None => handler[g].msg.call # m.call
    BY <2>1, <2>2 DEF HandlerOnKnown
  <2>4. OneRequestPerCall'
    BY <2>1, <2>3 DEF OneRequestPerCall
  <2>5. ReadIsFresh'
    BY <2>1 DEF ReadIsFresh
  <2> QED
    BY <2>1, <2>4, <2>5 DEF Kept, FutureKeysFree, ItemMirrorsCall, StuckIsOpen
<1>3. CASE IngestWrite(h)
  <2> DEFINE c == handler[h].msg.call
  <2>1. /\ handler[h] # None /\ c \in Calls /\ c[1] \in Items
        /\ UNCHANGED <<attempts, stuck>> /\ handler' = [handler EXCEPT ![h] = None]
        /\ \A v \in Workers : c \notin stuck[v]
    BY <1>3, MessageParts, CallParts DEF IngestWrite, HandlerOnKnown, SweepAlone, local
  <2>2. OneRequestPerCall'
    BY <2>1 DEF OneRequestPerCall
  <2>3. \A g \in Handlers : handler'[g] # None =>
          handler'[g] = handler[g] /\ handler[g].msg.call \in Calls /\ handler[g].msg.call # c
    BY <2>1, MessageParts DEF OneRequestPerCall
  <2>4. \A d \in Calls : d # c => call'[d] = call[d]
    BY <1>3 DEF IngestWrite
  <2>5. StuckIsOpen' /\ ReadIsFresh'
    BY <2>1, <2>3, <2>4 DEF StuckIsOpen, ReadIsFresh
  <2>6. CASE handler[h].status # "dialling"
    <3>1. UNCHANGED <<call, state>>
      BY <1>3, <2>6 DEF IngestWrite
    <3> QED
      BY <2>1, <2>2, <2>5, <3>1 DEF Kept, FutureKeysFree, ItemMirrorsCall
  <2>7. CASE handler[h].status = "dialling"
    <3>1. call[c] = "dialling"
      BY <2>1, <2>7 DEF ReadIsFresh
    <3>2. state[c[1]] = "dialling"
      BY <2>1, <3>1 DEF ItemMirrorsCall
    <3>3. \/ call' = [call EXCEPT ![c] = "completed"] /\ state' = [state EXCEPT ![c[1]] = "done"]
          \/ call' = [call EXCEPT ![c] = "failed"] /\ ApplyRetryPolicy({c[1]})
      BY <1>3, <2>7 DEF IngestWrite
    <3>4. state'[c[1]] # "dialling" /\ \A i \in Items : i # c[1] => state'[i] = state[i]
      BY <2>1, <3>2, <3>3 DEF ApplyRetryPolicy, AfterFailure
    <3>5. FutureKeysFree' /\ ItemMirrorsCall'
      BY <2>1, <3>1, <3>3, <3>4, ClosingKeeps
    <3> QED
      BY <2>2, <2>5, <3>5 DEF Kept
  <2> QED
    BY <2>6, <2>7
<1> QED
  BY <1>1, <1>2, <1>3 DEF Webhook

LEMMA QueueStep ==
  ASSUME NoSweepRace, OneTerminalEvent
  PROVE  QueueInv /\ [Next]_vars => QueueInv'
<1> SUFFICES ASSUME QueueInv, [Next]_vars PROVE QueueInv'
  OBVIOUS
<1>1. WalletInv'
  BY WalletStep DEF QueueInv
<1>2. ASSUME NEW w \in Workers, WorkerCrash(w) PROVE Kept
  <2>1. UNCHANGED <<call, attempts, state, handler>> /\ stuck' = [stuck EXCEPT ![w] = {}]
    BY <1>2 DEF WorkerCrash, db
  <2> QED
    BY <2>1 DEF QueueInv, WalletInv, CallInv, TypeInv, TypeOK, Kept, FutureKeysFree,
       ItemMirrorsCall, StuckIsOpen, ReadIsFresh, OneRequestPerCall
<1>3. ASSUME NEW h \in Handlers, WebCrash(h) PROVE Kept
  <2>1. UNCHANGED <<call, attempts, state, stuck>> /\ handler' = [handler EXCEPT ![h] = None]
    BY <1>3 DEF WebCrash, db, local
  <2> QED
    BY <2>1 DEF QueueInv, WalletInv, CallInv, TypeInv, TypeOK, Kept, FutureKeysFree,
       ItemMirrorsCall, StuckIsOpen, ReadIsFresh, OneRequestPerCall
<1>4. ASSUME \/ \E i \in Items : RetryIntervalOver(i)
             \/ \E c \in Calls : HangUp(c)
             \/ \E a \in Agents : StopRun(a) \/ \E p \in BOOLEAN : SetPaused(a, p)
             \/ \E n \in TopUps : TopUp(n)
             \/ UNCHANGED vars
      PROVE  Kept
  <2>1. UNCHANGED <<call, attempts, stuck, handler>>
    BY <1>4 DEF RetryIntervalOver, HangUp, StopRun, SetPaused, TopUp, vars, db, local
  <2>2. \A i \in Items : state'[i] = "dialling" <=> state[i] = "dialling"
    BY <1>4 DEF RetryIntervalOver, HangUp, StopRun, SetPaused, TopUp, vars, db
  <2> QED
    BY <2>1, <2>2, QueueQuiet
<1>5. Kept
  BY <1>2, <1>3, <1>4, QueueTick, QueueSweep, QueueWebhook DEF Next
<1> QED
  BY <1>1, <1>5 DEF QueueInv, Kept

-----------------------------------------------------------------------------
\* An item in 'dialling' always has its current attempt's call in 'dialling',
\* so the sweep, which looks at calls only, leaves no item behind.
THEOREM QueueCorrect ==
  ASSUME NoSweepRace, OneTerminalEvent
  PROVE  Spec => []ItemMirrorsCall
<1>1. QueueInv => ItemMirrorsCall
  BY DEF QueueInv
<1>2. QueueInv /\ [Next]_vars => QueueInv'
  BY QueueStep
<1> QED
  BY QueueInit, <1>1, <1>2, PTL DEF Spec

\* No claim ever fails on the idempotency key.
THEOREM KeysCorrect ==
  ASSUME NoSweepRace, OneTerminalEvent
  PROVE  Spec => []NextKeyFree
<1>1. QueueInv => NextKeyFree
  BY DEF QueueInv, FutureKeysFree, NextKeyFree
<1>2. QueueInv /\ [Next]_vars => QueueInv'
  BY QueueStep
<1> QED
  BY QueueInit, <1>1, <1>2, PTL DEF Spec

\* Only a refund lowers the attempts, and only of a call that never rang.
LEMMA RefundStep ==
  QueueInv /\ [Next]_vars =>
    \A i \in Items : attempts'[i] < attempts[i] => line[<<i, attempts[i]>>] = "none"
<1> SUFFICES ASSUME QueueInv, [Next]_vars, NEW i \in Items, attempts'[i] < attempts[i]
             PROVE  line[<<i, attempts[i]>>] = "none"
  OBVIOUS
<1> USE DEF QueueInv, WalletInv, CallInv, TypeInv, TypeOK
<1>1. ASSUME NEW w \in Workers, RefundClaim(w) PROVE line[<<i, attempts[i]>>] = "none"
  <2>1. pc[w] = "refund" /\ pc[w] \in Holding /\ pc[w] \in Unrung
    BY <1>1 DEF RefundClaim, Goto, Holding, Unrung
  <2>2. held[w][1] = i
    BY <1>1 DEF RefundClaim
  <2>3. held[w] = <<i, attempts[i]>>
    BY <2>1, <2>2, HeldIsCurrent
  <2> QED
    BY <2>1, <2>3 DEF PhoneInv, HeldIsUnrung
<1>2. ASSUME NEW w \in Workers, Tick(w), ~RefundClaim(w) PROVE FALSE
  <2>1. CASE Claim(w)
    <3>1. PICK j \in Items : attempts' = [attempts EXCEPT ![j] = @ + 1]
      BY <2>1 DEF Claim, Due
    <3>2. attempts[i] \in Nat /\ attempts'[i] \in {attempts[i], attempts[i] + 1}
      BY <3>1
    <3> QED
      BY <3>2
  <2>2. CASE ~Claim(w)
    <3>1. attempts' = attempts
      BY <1>2, <2>2 DEF Tick, OutsideWindow, CheckSpend, TickStart, CheckWallet, PauseRun,
         BeginDialling, NothingToClaim, ClaimCollides, FinishIfDrained, TickEnd, DialFailed,
         DialAccepted, DialAmbiguous, RecordDialled, RecordFailed, db
    <3> QED
      BY <3>1
  <2> QED
    BY <2>1, <2>2
<1>3. ASSUME NEW w \in Workers, Sweep(w) \/ WorkerCrash(w) PROVE FALSE
  BY <1>3 DEF Sweep, SweepSelect, SweepUpdate, WorkerCrash, db
<1>4. ASSUME NEW h \in Handlers, Webhook(h) \/ WebCrash(h) PROVE FALSE
  BY <1>4 DEF Webhook, IngestUnknown, IngestRead, IngestWrite, WebCrash, db
<1>5. CASE \/ \E j \in Items : RetryIntervalOver(j)
           \/ \E c \in Calls : HangUp(c)
           \/ \E a \in Agents : StopRun(a) \/ \E p \in BOOLEAN : SetPaused(a, p)
           \/ \E n \in TopUps : TopUp(n)
           \/ UNCHANGED vars
  BY <1>5 DEF RetryIntervalOver, HangUp, StopRun, SetPaused, TopUp, vars, db
<1> QED
  BY <1>1, <1>2, <1>3, <1>4, <1>5 DEF Next

\* A 403 refund never gives back the budget of a call that rang.
THEOREM RefundCorrect ==
  ASSUME NoSweepRace, OneTerminalEvent
  PROVE  Spec => RefundOnlyUnrung
<1>1. QueueInv /\ [Next]_vars => QueueInv'
  BY QueueStep
<1> QED
  BY QueueInit, <1>1, RefundStep, PTL DEF Spec, RefundOnlyUnrung

\* A closed call keeps its outcome: nobody writes from a status that is stale.
LEMMA OutcomeStep ==
  ASSUME NoSweepRace
  PROVE  QueueInv /\ [Next]_vars =>
           \A c \in Calls : call[c] \in {"completed", "failed"} => call'[c] = call[c]
<1> SUFFICES ASSUME QueueInv, [Next]_vars, NEW c \in Calls,
                    call[c] \in {"completed", "failed"}
             PROVE  call'[c] = call[c]
  OBVIOUS
<1> USE DEF QueueInv, WalletInv, CallInv, TypeInv, TypeOK
<1>1. ASSUME NEW w \in Workers, Tick(w) PROVE call'[c] = call[c]
  <2>1. CASE Claim(w)
    BY <2>1 DEF Claim, KeyFree
  <2>2. CASE RecordFailed(w) \/ RefundClaim(w)
    <3>1. call[held[w]] = "dialling"
      BY <2>2, HeldIsCurrent DEF RecordFailed, RefundClaim, Goto, Holding
    <3> QED
      BY <2>2, <3>1 DEF RecordFailed, RefundClaim
  <2>3. CASE ~Claim(w) /\ ~RecordFailed(w) /\ ~RefundClaim(w)
    BY <1>1, <2>3 DEF Tick, OutsideWindow, CheckSpend, TickStart, CheckWallet, PauseRun,
       BeginDialling, NothingToClaim, ClaimCollides, FinishIfDrained, TickEnd, DialFailed,
       DialAccepted, DialAmbiguous, RecordDialled, db
  <2> QED
    BY <2>1, <2>2, <2>3
<1>2. ASSUME NEW w \in Workers, Sweep(w) PROVE call'[c] = call[c]
  BY <1>2 DEF Sweep, SweepSelect, SweepUpdate, StuckIsOpen, db
<1>3. ASSUME NEW h \in Handlers, IngestWrite(h) PROVE call'[c] = call[c]
  BY <1>3 DEF IngestWrite, ReadIsFresh
<1>4. ASSUME NEW h \in Handlers, Webhook(h), ~IngestWrite(h) PROVE call'[c] = call[c]
  BY <1>4 DEF Webhook, IngestUnknown, IngestRead, db
<1>5. CASE \/ \E w \in Workers : WorkerCrash(w)
           \/ \E h \in Handlers : WebCrash(h)
           \/ \E i \in Items : RetryIntervalOver(i)
           \/ \E d \in Calls : HangUp(d)
           \/ \E a \in Agents : StopRun(a) \/ \E p \in BOOLEAN : SetPaused(a, p)
           \/ \E n \in TopUps : TopUp(n)
           \/ UNCHANGED vars
  BY <1>5 DEF WorkerCrash, WebCrash, RetryIntervalOver, HangUp, StopRun, SetPaused, TopUp, vars, db
<1> QED
  BY <1>1, <1>2, <1>3, <1>4, <1>5 DEF Next

\* The dialling->completed transition fires at most once and is never undone.
THEOREM OutcomeCorrect ==
  ASSUME NoSweepRace, OneTerminalEvent
  PROVE  Spec => OutcomeIsFinal
<1>1. QueueInv /\ [Next]_vars => QueueInv'
  BY QueueStep
<1>2. QueueInv /\ [Next]_vars =>
        \A c \in Calls : call[c] \in {"completed", "failed"} => call'[c] = call[c]
  BY OutcomeStep
<1> QED
  BY QueueInit, <1>1, <1>2, PTL DEF Spec, OutcomeIsFinal

-----------------------------------------------------------------------------
(* A contact's lines. A live line's call is open, since every way of       *)
(* closing a call finds its line not live; an open call is the last        *)
(* attempt, and a completed one stays the last.                            *)

\* The assistant's time limit ends every call before the sweep's timeout.
CallsAreShort == "longcall" \notin Events

\* A sweep never selects, and so never closes, a call whose line is live.
StuckIsSilent == \A w \in Workers : \A c \in stuck[w] : line[c] # "live"

LiveIsOpen == \A c \in Calls : line[c] = "live" => call[c] = "dialling"

\* A completed call is its item's last attempt.
CompletedIsLast ==
  \A c \in Calls : call[c] = "completed" => state[c[1]] = "done" /\ attempts[c[1]] = c[2]

ContactInv == QueueInv /\ StuckIsSilent /\ LiveIsOpen /\ CompletedIsLast

\* An item that is through stays so: claims want it pending, everything else
\* wants it dialling, and a completed call makes it done from any state.
LEMMA ClosedStep ==
  TypeInv /\ [Next]_vars =>
    /\ \A i \in Items : state[i] \in Closed => state'[i] \in Closed
    /\ \A i \in Items : state[i] = "done" => state'[i] = "done"
    /\ \A i \in Items : state[i] \in Closed => attempts'[i] = attempts[i]
<1> DEFINE Goal ==
      /\ \A i \in Items : state[i] \in Closed => state'[i] \in Closed
      /\ \A i \in Items : state[i] = "done" => state'[i] = "done"
      /\ \A i \in Items : state[i] \in Closed => attempts'[i] = attempts[i]
<1> SUFFICES ASSUME TypeInv, [Next]_vars PROVE Goal
  OBVIOUS
<1> USE DEF TypeInv, TypeOK, db, Closed
<1>1. ASSUME NEW S, ApplyRetryPolicy(S), attempts' = attempts PROVE Goal
  BY <1>1 DEF ApplyRetryPolicy
<1>2. ASSUME UNCHANGED <<state, attempts>> PROVE Goal
  BY <1>2
<1>3. ASSUME NEW w \in Workers, Tick(w) PROVE Goal
  <2>1. CASE Claim(w)
    <3>1. PICK i \in Due(run[w]) : /\ state' = [state EXCEPT ![i] = "dialling"]
                                  /\ attempts' = [attempts EXCEPT ![i] = @ + 1]
      BY <2>1 DEF Claim
    <3>2. state[i] = "pending"
      BY DEF Due
    <3> QED
      BY <3>1, <3>2
  <2>2. CASE RecordFailed(w)
    <3>1. CASE state' = [state EXCEPT ![held[w][1]] = IF @ = "dialling" THEN "skipped" ELSE @]
               /\ attempts' = attempts
      BY <3>1
    <3>2. CASE ApplyRetryPolicy({held[w][1]}) /\ attempts' = attempts
      BY <1>1, <3>2
    <3> QED
      BY <2>2, <3>1, <3>2 DEF RecordFailed
  <2>3. CASE RefundClaim(w)
    BY <2>3 DEF RefundClaim
  <2>4. CASE ~Claim(w) /\ ~RecordFailed(w) /\ ~RefundClaim(w)
    BY <1>2, <1>3, <2>4 DEF Tick, OutsideWindow, CheckSpend, TickStart, CheckWallet, PauseRun,
       BeginDialling, NothingToClaim, ClaimCollides, FinishIfDrained, TickEnd, DialFailed,
       DialAccepted, DialAmbiguous, RecordDialled
  <2> QED
    BY <2>1, <2>2, <2>3, <2>4
<1>4. ASSUME NEW w \in Workers, Sweep(w) \/ WorkerCrash(w) PROVE Goal
  <2>1. CASE SweepUpdate(w)
    BY <1>1, <2>1 DEF SweepUpdate
  <2> QED
    BY <1>2, <1>4, <2>1 DEF Sweep, SweepSelect, WorkerCrash
<1>5. ASSUME NEW h \in Handlers, Webhook(h) \/ WebCrash(h) PROVE Goal
  <2>1. CASE IngestWrite(h)
    <3>1. CASE state' = [state EXCEPT ![handler[h].msg.call[1]] = "done"] /\ attempts' = attempts
      BY <3>1
    <3>2. CASE ApplyRetryPolicy({handler[h].msg.call[1]}) /\ attempts' = attempts
      BY <1>1, <3>2
    <3> QED
      BY <1>2, <2>1, <3>1, <3>2 DEF IngestWrite
  <2> QED
    BY <1>2, <1>5, <2>1 DEF Webhook, IngestUnknown, IngestRead, WebCrash
<1>6. ASSUME NEW a \in Agents, StopRun(a) PROVE Goal
  BY <1>6 DEF StopRun
<1>7. CASE \/ \E i \in Items : RetryIntervalOver(i)
           \/ \E c \in Calls : HangUp(c)
           \/ \E a \in Agents : \E p \in BOOLEAN : SetPaused(a, p)
           \/ \E n \in TopUps : TopUp(n)
           \/ UNCHANGED vars
  BY <1>2, <1>7 DEF RetryIntervalOver, HangUp, SetPaused, TopUp, vars
<1> QED
  BY <1>3, <1>4, <1>5, <1>6, <1>7 DEF Next

\* No contact the run is through with is ever queued or dialled again, whatever
\* the events: this needs no assumption.
THEOREM ClosedCorrect == Spec => ClosedStaysClosed
<1>1. TypeInv /\ [Next]_vars => \A i \in Items : state[i] \in Closed => state'[i] \in Closed
  BY ClosedStep
<1> QED
  BY TypeInit, TypeStep, <1>1, PTL DEF Spec, ClosedStaysClosed

-----------------------------------------------------------------------------
LEMMA ContactInit == Init => ContactInv
BY QueueInit DEF Init, ContactInv, StuckIsSilent, LiveIsOpen, CompletedIsLast

\* A call completes from 'dialling', with its item's last attempt.
LEMMA CompletedStep ==
  ASSUME NoSweepRace, OneTerminalEvent
  PROVE  QueueInv /\ CompletedIsLast /\ [Next]_vars => CompletedIsLast'
<1> SUFFICES ASSUME QueueInv, CompletedIsLast, [Next]_vars,
                    NEW c \in Calls, call'[c] = "completed"
             PROVE  state'[c[1]] = "done" /\ attempts'[c[1]] = c[2]
  BY DEF CompletedIsLast
<1> USE DEF QueueInv, WalletInv, CallInv
<1>1. c[1] \in Items
  BY CallParts
<1>2. CASE call[c] = "completed"
  <2>1. state[c[1]] = "done" /\ attempts[c[1]] = c[2]
    BY <1>2 DEF CompletedIsLast
  <2> QED
    BY <1>1, <2>1, ClosedStep DEF Closed
<1>3. CASE call[c] # "completed"
  <2>1. PICK h \in Handlers : IngestWrite(h)
    BY <1>3, OnlyCallbacksBill
  <2>2. /\ handler[h] # None /\ handler[h].status = "dialling" /\ handler[h].msg.call = c
        /\ state' = [state EXCEPT ![c[1]] = "done"] /\ attempts' = attempts
    BY <1>3, <2>1 DEF IngestWrite, TypeInv, TypeOK
  <2>3. call[c] = "dialling"
    BY <2>2 DEF ReadIsFresh
  <2> QED
    BY <1>1, <2>2, <2>3 DEF ItemMirrorsCall, TypeInv, TypeOK
<1> QED
  BY <1>2, <1>3

\* Only a dial makes a line live; every way of closing a call finds it not live.
LEMMA LiveStep ==
  ASSUME CallsAreShort
  PROVE  CallInv /\ StuckIsSilent /\ LiveIsOpen /\ [Next]_vars => StuckIsSilent' /\ LiveIsOpen'
<1> SUFFICES ASSUME CallInv, StuckIsSilent, LiveIsOpen, [Next]_vars
             PROVE  StuckIsSilent' /\ LiveIsOpen'
  OBVIOUS
<1> USE DEF CallInv, TypeInv, TypeOK, RowInv, PhoneInv, db, phone, local
<1>1. ASSUME UNCHANGED <<call, stuck, line>> PROVE StuckIsSilent' /\ LiveIsOpen'
  BY <1>1 DEF StuckIsSilent, LiveIsOpen
<1>2. ASSUME NEW w \in Workers, Tick(w) PROVE StuckIsSilent' /\ LiveIsOpen'
  <2>1. CASE Claim(w)
    <3>1. PICK c \in Calls : call' = [call EXCEPT ![c] = "dialling"]
      BY <2>1, NextAttemptIsCall DEF Claim, Due
    <3> QED
      BY <2>1, <3>1 DEF Claim, StuckIsSilent, LiveIsOpen
  <2>2. CASE DialAccepted(w) \/ DialAmbiguous(w)
    <3>1. /\ held[w] \in Calls /\ call[held[w]] = "dialling"
          /\ \A v \in Workers : held[w] \notin stuck[v]
      BY <2>2, DispatchAssumption DEF DialAccepted, DialAmbiguous, Goto, HeldWhileDialling, Holding,
         HeldIsOpen, StuckIsNotHeld
    <3>2. line' \in {line, [line EXCEPT ![held[w]] = "live"]} /\ UNCHANGED <<call, stuck>>
      BY <2>2 DEF DialAccepted, DialAmbiguous
    <3>3. \A c \in Calls : c # held[w] => line'[c] = line[c]
      BY <3>2
    <3> QED
      BY <3>1, <3>2, <3>3 DEF StuckIsSilent, LiveIsOpen
  <2>3. CASE RecordFailed(w) \/ RefundClaim(w)
    <3>1. /\ line[held[w]] = "none" /\ UNCHANGED <<line, stuck>>
          /\ \A c \in Calls : c # held[w] => call'[c] = call[c]
      BY <2>3 DEF RecordFailed, RefundClaim, Goto, HeldIsUnrung, Unrung
    <3> QED
      BY <3>1 DEF StuckIsSilent, LiveIsOpen
  <2>4. CASE ~(Claim(w) \/ DialAccepted(w) \/ DialAmbiguous(w) \/ RecordFailed(w) \/ RefundClaim(w))
    BY <1>1, <1>2, <2>4 DEF Tick, OutsideWindow, CheckSpend, TickStart, CheckWallet, PauseRun,
       BeginDialling, NothingToClaim, ClaimCollides, FinishIfDrained, TickEnd, DialFailed,
       RecordDialled
  <2> QED
    BY <2>1, <2>2, <2>3, <2>4
<1>3. ASSUME NEW w \in Workers, SweepUpdate(w) PROVE StuckIsSilent' /\ LiveIsOpen'
  BY <1>3 DEF SweepUpdate, StuckIsSilent, LiveIsOpen
<1>4. ASSUME NEW w \in Workers, NEW S \in SUBSET InFlight, SweepSelect(w, S)
      PROVE  StuckIsSilent' /\ LiveIsOpen'
  BY <1>4 DEF SweepSelect, Overdue, CallsAreShort, StuckIsSilent, LiveIsOpen
<1>5. ASSUME NEW w \in Workers, WorkerCrash(w) PROVE StuckIsSilent' /\ LiveIsOpen'
  BY <1>5 DEF WorkerCrash, StuckIsSilent, LiveIsOpen
<1>6. ASSUME NEW h \in Handlers, IngestWrite(h) PROVE StuckIsSilent' /\ LiveIsOpen'
  <2>1. line[handler[h].msg.call] \in {"talked", "unanswered"}
    BY <1>6 DEF IngestWrite, HandlerOnKnown, SentIsOver
  <2>2. /\ \A c \in Calls : c # handler[h].msg.call => call'[c] = call[c]
        /\ UNCHANGED <<line, stuck>>
    BY <1>6 DEF IngestWrite
  <2> QED
    BY <2>1, <2>2 DEF StuckIsSilent, LiveIsOpen
<1>7. ASSUME NEW h \in Handlers, Webhook(h) \/ WebCrash(h), ~IngestWrite(h)
      PROVE  StuckIsSilent' /\ LiveIsOpen'
  BY <1>1, <1>7 DEF Webhook, IngestUnknown, IngestRead, WebCrash
<1>8. ASSUME NEW c \in Calls, HangUp(c) PROVE StuckIsSilent' /\ LiveIsOpen'
  <2>1. /\ line' = [line EXCEPT ![c] = line'[c]] /\ line'[c] # "live"
        /\ UNCHANGED <<call, stuck>>
    BY <1>8 DEF HangUp
  <2> QED
    BY <2>1 DEF StuckIsSilent, LiveIsOpen
<1>9. CASE \/ \E i \in Items : RetryIntervalOver(i)
           \/ \E a \in Agents : StopRun(a) \/ \E p \in BOOLEAN : SetPaused(a, p)
           \/ \E n \in TopUps : TopUp(n)
           \/ UNCHANGED vars
  BY <1>1, <1>9 DEF RetryIntervalOver, StopRun, SetPaused, TopUp, vars
<1> QED
  BY <1>2, <1>3, <1>4, <1>5, <1>6, <1>7, <1>8, <1>9 DEF Next, Sweep

LEMMA ContactStep ==
  ASSUME NoSweepRace, OneTerminalEvent, CallsAreShort
  PROVE  ContactInv /\ [Next]_vars => ContactInv'
BY QueueStep, CompletedStep, LiveStep DEF ContactInv, QueueInv, WalletInv

\* The live line of a contact is its last attempt's, and a completed attempt
\* leaves no key for another.
LEMMA ContactSafe == ContactInv => OneLinePerContact /\ RecordedTalkIsLast
<1> SUFFICES ASSUME ContactInv PROVE OneLinePerContact /\ RecordedTalkIsLast
  OBVIOUS
<1> USE DEF ContactInv, QueueInv, WalletInv, CallInv, TypeInv, TypeOK, PhoneInv
<1>1. ASSUME NEW i \in Items
      PROVE  Cardinality({k \in 1 .. RetryAttempts + 1 : line[<<i, k>>] = "live"}) <= 1
  <2> DEFINE L == {k \in 1 .. RetryAttempts + 1 : line[<<i, k>>] = "live"}
  <2>1. \A k \in L : k = attempts[i]
    <3> SUFFICES ASSUME NEW k \in 1 .. RetryAttempts + 1, line[<<i, k>>] = "live"
                 PROVE  k = attempts[i]
      OBVIOUS
    <3>1. <<i, k>> \in Calls
      BY CallParts
    <3>2. call[<<i, k>>] = "dialling"
      BY <3>1 DEF LiveIsOpen
    <3> QED
      BY <3>1, <3>2 DEF ItemMirrorsCall
  <2>2. L \subseteq {attempts[i]}
    BY <2>1
  <2>3. IsFiniteSet({attempts[i]}) /\ Cardinality({attempts[i]}) = 1
    BY FS_Singleton
  <2> HIDE DEF L
  <2>4. Cardinality(L) <= 1
    BY <2>2, <2>3, FS_Subset
  <2> QED
    BY <2>4 DEF L
<1>2. ASSUME NEW i \in Items, NEW k \in 1 .. RetryAttempts, call[<<i, k>>] = "completed"
      PROVE  line[<<i, k + 1>>] = "none"
  <2>1. k + 1 \in 1 .. RetryAttempts + 1 /\ k \in 1 .. RetryAttempts + 1
    BY DispatchAssumption
  <2>2. <<i, k>> \in Calls /\ <<i, k + 1>> \in Calls
    BY <2>1, CallParts
  <2>3. attempts[i] = k
    BY <1>2, <2>2 DEF CompletedIsLast
  <2>4. call[<<i, k + 1>>] = "none"
    BY <2>1, <2>3 DEF FutureKeysFree
  <2> QED
    BY <2>2, <2>4 DEF RungCallKeepsRow
<1> QED
  BY <1>1, <1>2 DEF OneLinePerContact, RecordedTalkIsLast

LEMMA ContactSound ==
  ASSUME NoSweepRace, OneTerminalEvent, CallsAreShort
  PROVE  Spec => [](OneLinePerContact /\ RecordedTalkIsLast)
<1>1. ContactInv /\ [Next]_vars => ContactInv'
  BY ContactStep
<1> QED
  BY ContactInit, <1>1, ContactSafe, PTL DEF Spec

\* A contact is never on two live lines at once, for any number of workers, requests,
\* retries, crashes, refusals and lost or early callbacks.
THEOREM ContactCorrect ==
  ASSUME NoSweepRace, OneTerminalEvent, CallsAreShort PROVE Spec => []OneLinePerContact
BY ContactSound, PTL

\* A contact whose conversation was recorded is never rung again, as generally.
THEOREM RecordedTalkCorrect ==
  ASSUME NoSweepRace, OneTerminalEvent, CallsAreShort PROVE Spec => []RecordedTalkIsLast
BY ContactSound, PTL

-----------------------------------------------------------------------------
(* No redial, if nothing is lost. A talk's call stays open or completed:   *)
(* its callback finds it by CallSid, and closes it before a sweep can.     *)

\* No worker dies between a dial and its CallSid, no dial's answer is lost, and
\* every callback reaches the web process after the CallSid, before the timeout.
NothingLost ==
  /\ Events \cap {"crash", "ambiguous", "earlycallback", "lostcallback"} = {}
  /\ Copies # {}

\* A call that rang has its CallSid recorded, or a worker about to record it.
RungIsFollowed ==
  \A c \in Calls : line[c] # "none" =>
    c \in known \/ \E w \in Workers : pc[w] = "record" /\ held[w] = c

\* What a request read as closed is closed, and an event spent closed its call.
ClosedWasRead ==
  \A h \in Handlers : handler[h] # None /\ handler[h].status # "dialling" =>
    call[handler[h].msg.call] \in {"completed", "failed"}
SpentIsClosed == \A m \in seen : call[m.call] # "dialling"

\* A talk was called back as one, and its call is open or completed.
SentAsEnded == \A m \in sent : m.kind = "completed" <=> line[m.call] = "talked"
TalkIsSent == \A c \in Calls : line[c] = "talked" => \E m \in sent : m.call = c
TalkIsKept ==
  \A c \in Calls : line[c] = "talked" =>
    /\ call[c] \in {"dialling", "completed"}
    /\ \A w \in Workers : c \notin stuck[w]

FollowInv == RungIsFollowed /\ ClosedWasRead /\ SpentIsClosed
TalkParts == SentAsEnded /\ TalkIsSent /\ TalkIsKept
TalkInv == ContactInv /\ SeenWasSent /\ FollowInv /\ TalkParts

LEMMA TalkInit == Init => TalkInv
BY ContactInit DEF Init, TalkInv, SeenWasSent, FollowInv, TalkParts, RungIsFollowed,
   ClosedWasRead, SpentIsClosed, SentAsEnded, TalkIsSent, TalkIsKept

\* An event in the table has its call's line over, and its call in the table.
LEMMA SentParts ==
  ASSUME TalkInv, NEW m \in sent
  PROVE  /\ m.call \in Calls /\ line[m.call] \in Over
         /\ call[m.call] # "none" /\ m.kind \in Kinds
<1> USE DEF TalkInv, ContactInv, QueueInv, WalletInv, CallInv, TypeInv, TypeOK, PhoneInv
<1>1. m.call \in Calls /\ m.kind \in Kinds
  BY DEF Messages
<1>2. line[m.call] \in Over
  BY DEF SentIsOver, Over
<1> QED
  BY <1>1, <1>2 DEF RungCallKeepsRow, Over

\* Steps that leave calls, lines, events and requests alone.
LEMMA FollowQuiet ==
  ASSUME TalkInv, UNCHANGED <<call, line, known, sent, seen, handler>>,
         \A w \in Workers : pc[w] = "record" => pc'[w] = "record" /\ held'[w] = held[w]
  PROVE  FollowInv'
BY DEF TalkInv, FollowInv, RungIsFollowed, ClosedWasRead, SpentIsClosed

\* Steps that make no line a talk, or none of the talks' calls anything else.
LEMMA TalkQuiet ==
  ASSUME TalkInv, UNCHANGED <<sent>>,
         \A c \in Calls : line'[c] = "talked" <=> line[c] = "talked",
         \A c \in Calls : line[c] = "talked" => call'[c] \in {call[c], "completed"},
         \A w \in Workers : stuck'[w] \subseteq stuck[w]
  PROVE  TalkParts'
<1>1. \A m \in sent : m.call \in Calls
  BY SentParts
<1> QED
  BY <1>1 DEF TalkInv, TalkParts, SentAsEnded, TalkIsSent, TalkIsKept

LEMMA TalkTick ==
  ASSUME NothingLost, TalkInv, NEW w \in Workers, Tick(w)
  PROVE  FollowInv' /\ TalkParts'
<1> USE DEF TalkInv, ContactInv, QueueInv, WalletInv, CallInv, TypeInv, TypeOK, PhoneInv, RowInv,
        db, phone, local, Goto
<1>1. UNCHANGED <<sent, seen, handler, stuck>>
  BY DEF Tick, OutsideWindow, CheckSpend, TickStart, CheckWallet, PauseRun,
     BeginDialling, Claim, NothingToClaim, ClaimCollides, FinishIfDrained, TickEnd, DialFailed,
     DialAccepted, DialAmbiguous, RecordDialled, RecordFailed, RefundClaim
<1>2. \A m \in seen : m \in sent /\ m.call \in Calls /\ line[m.call] \in Over /\ call[m.call] # "none"
  BY SentParts DEF SeenWasSent
<1>3. CASE Claim(w)
  <2>1. PICK c \in Calls : call[c] = "none" /\ call' = [call EXCEPT ![c] = "dialling"]
    BY <1>3, NextAttemptIsCall DEF Claim, Due, KeyFree
  <2>2. /\ UNCHANGED <<known, line>>
        /\ \A v \in Workers : pc[v] = "record" => pc'[v] = "record" /\ held'[v] = held[v]
    BY <1>3 DEF Claim
  <2>3. line[c] = "none"
    BY <2>1 DEF RungCallKeepsRow
  <2>4. RungIsFollowed'
    BY <2>2 DEF FollowInv, RungIsFollowed
  <2>5. ClosedWasRead' /\ SpentIsClosed'
    BY <1>1, <1>2, <2>1, MessageParts DEF FollowInv, ClosedWasRead, SpentIsClosed
  <2>6. TalkParts'
    BY <1>1, <2>1, <2>2, <2>3, TalkQuiet
  <2> QED
    BY <2>4, <2>5, <2>6 DEF FollowInv
<1>4. CASE DialAccepted(w)
  <2>1. /\ line' = [line EXCEPT ![held[w]] = "live"] /\ line[held[w]] = "none"
        /\ held[w] \in Calls
        /\ UNCHANGED <<call, known, held>> /\ pc[w] = "dial" /\ pc' = [pc EXCEPT ![w] = "record"]
    BY <1>4 DEF DialAccepted, HeldIsUnrung, Unrung, HeldWhileDialling, Holding
  <2>2. RungIsFollowed'
    BY <2>1 DEF FollowInv, RungIsFollowed
  <2>3. ClosedWasRead' /\ SpentIsClosed'
    BY <1>1, <2>1 DEF FollowInv, ClosedWasRead, SpentIsClosed
  <2>4. TalkParts'
    BY <1>1, <2>1, TalkQuiet
  <2> QED
    BY <2>2, <2>3, <2>4 DEF FollowInv
<1>5. CASE RecordDialled(w)
  <2>1. /\ UNCHANGED <<call, line>> /\ known' = known \cup {held[w]}
        /\ \A v \in Workers : v # w => pc'[v] = pc[v] /\ held'[v] = held[v]
    BY <1>5 DEF RecordDialled
  <2>2. RungIsFollowed'
    BY <2>1 DEF FollowInv, RungIsFollowed
  <2>3. ClosedWasRead' /\ SpentIsClosed'
    BY <1>1, <2>1 DEF FollowInv, ClosedWasRead, SpentIsClosed
  <2>4. TalkParts'
    BY <1>1, <2>1, TalkQuiet
  <2> QED
    BY <2>2, <2>3, <2>4 DEF FollowInv
<1>6. CASE RecordFailed(w) \/ RefundClaim(w)
  <2>1. /\ line[held[w]] = "none" /\ pc[w] # "record" /\ held[w] \in Calls
        /\ UNCHANGED <<line, known>>
        /\ call' \in {[call EXCEPT ![held[w]] = "failed"], [call EXCEPT ![held[w]] = RowDeleted(@)]}
        /\ \A v \in Workers : v # w => pc'[v] = pc[v] /\ held'[v] = held[v]
    BY <1>6 DEF RecordFailed, RefundClaim, HeldIsUnrung, Unrung, HeldWhileDialling, Holding
  <2>2. \A c \in Calls : c # held[w] => call'[c] = call[c]
    BY <2>1
  <2>3. RungIsFollowed'
    BY <2>1 DEF FollowInv, RungIsFollowed
  <2>4. \A h \in Handlers : handler[h] # None =>
          handler[h].msg.call \in Calls /\ handler[h].msg.call # held[w]
    BY <2>1, SentParts DEF HandlerOnKnown, Over
  <2>5. ClosedWasRead' /\ SpentIsClosed'
    BY <1>1, <1>2, <2>1, <2>2, <2>4 DEF FollowInv, ClosedWasRead, SpentIsClosed, Over
  <2>6. TalkParts'
    BY <1>1, <2>1, <2>2, TalkQuiet
  <2> QED
    BY <2>3, <2>5, <2>6 DEF FollowInv
<1>7. CASE ~(Claim(w) \/ DialAccepted(w) \/ RecordDialled(w) \/ RecordFailed(w) \/ RefundClaim(w))
  <2>1. /\ UNCHANGED <<call, line, known>>
        /\ \A v \in Workers : pc[v] = "record" => pc'[v] = "record" /\ held'[v] = held[v]
    BY <1>7 DEF Tick, OutsideWindow, CheckSpend, TickStart, CheckWallet, PauseRun,
       BeginDialling, NothingToClaim, ClaimCollides, FinishIfDrained, TickEnd, DialFailed,
       DialAmbiguous, NothingLost
  <2> QED
    BY <1>1, <2>1, FollowQuiet, TalkQuiet
<1> QED
  BY <1>3, <1>4, <1>5, <1>6, <1>7

\* A talk is swept only if its callback is lost.
LEMMA TalkSweep ==
  ASSUME NothingLost, TalkInv, NEW w \in Workers, Sweep(w)
  PROVE  FollowInv' /\ TalkParts'
<1> USE DEF TalkInv, ContactInv, QueueInv, WalletInv, CallInv, TypeInv, TypeOK, PhoneInv, RowInv,
        db, phone, local, Goto
<1>1. /\ UNCHANGED <<sent, seen, handler, line, known>>
      /\ \A v \in Workers : pc[v] = "record" => pc'[v] = "record" /\ held'[v] = held[v]
  BY DEF Sweep, SweepSelect, SweepUpdate
<1>2. CASE SweepUpdate(w)
  <2>1. /\ call' = [c \in Calls |-> IF c \in stuck[w] THEN "failed" ELSE call[c]]
        /\ stuck' = [stuck EXCEPT ![w] = {}]
    BY <1>2 DEF SweepUpdate
  <2>2. \A c \in Calls : call'[c] = "dialling" => call[c] = "dialling"
    BY <2>1
  <2>3. \A c \in Calls : call[c] \in {"completed", "failed"} => call'[c] \in {"completed", "failed"}
    BY <2>1
  <2>4. FollowInv'
    <3>1. RungIsFollowed'
      BY <1>1 DEF FollowInv, RungIsFollowed
    <3>2. ClosedWasRead'
      BY <1>1, <2>3, MessageParts DEF FollowInv, ClosedWasRead
    <3>3. SpentIsClosed'
      BY <1>1, <2>2, MessageParts DEF FollowInv, SpentIsClosed
    <3> QED
      BY <3>1, <3>2, <3>3 DEF FollowInv
  <2>5. \A c \in Calls : line[c] = "talked" => call'[c] = call[c]
    BY <2>1 DEF TalkParts, TalkIsKept
  <2>6. TalkParts'
    BY <1>1, <2>1, <2>5, TalkQuiet
  <2> QED
    BY <2>4, <2>6
<1>3. ASSUME NEW S \in SUBSET InFlight, SweepSelect(w, S) PROVE FollowInv' /\ TalkParts'
  <2>1. /\ call' = call /\ stuck' = [stuck EXCEPT ![w] = S]
        /\ \A c \in S : Overdue(c)
    BY <1>3 DEF SweepSelect
  <2>2. ASSUME NEW c \in Calls, c \in S PROVE line[c] # "talked"
    <3>1. SUFFICES ASSUME line[c] = "talked" PROVE FALSE
      OBVIOUS
    <3>2. /\ call[c] = "dialling" /\ \A v \in Workers : held[v] # c
          /\ c \in known => ~ Unheard(c)
      BY <2>1, <2>2 DEF Overdue, NothingLost
    <3>3. c \in known
      BY <3>1, <3>2 DEF FollowInv, RungIsFollowed
    <3>4. PICK m \in sent : m.call = c
      BY <3>1 DEF TalkParts, TalkIsSent
    <3>5. m \in seen
      BY <3>2, <3>3, <3>4 DEF Unheard
    <3> QED
      BY <3>2, <3>4, <3>5 DEF FollowInv, SpentIsClosed
  <2>3. TalkIsKept'
    BY <1>1, <2>1, <2>2 DEF TalkParts, TalkIsKept
  <2>4. TalkParts'
    BY <1>1, <2>3 DEF TalkParts, SentAsEnded, TalkIsSent
  <2>5. FollowInv'
    BY <1>1, <2>1, FollowQuiet
  <2> QED
    BY <2>4, <2>5
<1> QED
  BY <1>2, <1>3 DEF Sweep

\* A callback finds its call by CallSid, and closes it as it ended.
LEMMA TalkWebhook ==
  ASSUME NothingLost, TalkInv, NEW h \in Handlers, Webhook(h)
  PROVE  FollowInv' /\ TalkParts'
<1> USE DEF TalkInv, ContactInv, QueueInv, WalletInv, CallInv, TypeInv, TypeOK, PhoneInv, RowInv,
        db, phone, local
<1>1. UNCHANGED <<sent, line, known, pc, held, stuck>>
  BY DEF Webhook, IngestUnknown, IngestRead, IngestWrite
<1>2. ASSUME NEW m \in sent, IngestUnknown(h, m) PROVE FALSE
  <2>1. m.call \notin known /\ \A w \in Workers : held[w] # m.call
    BY <1>2 DEF IngestUnknown, NothingLost
  <2>2. m.call \in Calls /\ line[m.call] # "none"
    BY SentParts DEF Over
  <2> QED
    BY <2>1, <2>2 DEF FollowInv, RungIsFollowed
<1>3. RungIsFollowed'
  BY <1>1 DEF FollowInv, RungIsFollowed
<1>4. ASSUME NEW m \in sent, IngestRead(h, m) PROVE FollowInv' /\ TalkParts'
  <2>1. /\ UNCHANGED <<call, seen>>
        /\ handler' = [handler EXCEPT ![h] = [msg |-> m, status |-> call[m.call]]]
    BY <1>4 DEF IngestRead
  <2>2. m.call \in Calls /\ call[m.call] \in {"dialling", "completed", "failed"}
    BY SentParts DEF CallStates
  <2>3. ClosedWasRead'
    BY <2>1, <2>2 DEF FollowInv, ClosedWasRead
  <2>4. SpentIsClosed'
    BY <2>1 DEF FollowInv, SpentIsClosed
  <2>5. TalkParts'
    BY <1>1, <2>1, TalkQuiet
  <2> QED
    BY <1>3, <2>3, <2>4, <2>5 DEF FollowInv
<1>5. CASE IngestWrite(h)
  <2> DEFINE m == handler[h].msg
             c == m.call
  <2>1. /\ handler[h] # None /\ m \in sent /\ seen' = seen \cup {m}
        /\ handler' = [handler EXCEPT ![h] = None]
    BY <1>5 DEF IngestWrite, HandlerOnKnown
  <2>2. c \in Calls
    BY <2>1, SentParts
  <2>3. /\ \A d \in Calls : d # c => call'[d] = call[d]
        /\ \/ /\ handler[h].status = "dialling"
              /\ \/ m.kind = "completed" /\ call'[c] = "completed"
                 \/ m.kind = "failed" /\ call'[c] = "failed"
           \/ handler[h].status # "dialling" /\ call'[c] = call[c]
    BY <1>5, <2>2 DEF IngestWrite
  <2>4. call'[c] \in {"completed", "failed"}
    BY <2>1, <2>3 DEF FollowInv, ClosedWasRead
  <2>5. ClosedWasRead'
    BY <2>1, <2>3, <2>4, MessageParts DEF FollowInv, ClosedWasRead
  <2>6. SpentIsClosed'
    BY <2>1, <2>3, <2>4, MessageParts DEF FollowInv, SpentIsClosed
  <2>7. line[c] = "talked" => call'[c] \in {call[c], "completed"}
    BY <2>1, <2>3 DEF TalkParts, SentAsEnded
  <2>8. TalkParts'
    BY <1>1, <2>3, <2>7, TalkQuiet
  <2> QED
    BY <1>3, <2>5, <2>6, <2>8 DEF FollowInv
<1> QED
  BY <1>2, <1>4, <1>5 DEF Webhook

LEMMA TalkHangUp ==
  ASSUME NothingLost, TalkInv, NEW c \in Calls, HangUp(c)
  PROVE  FollowInv' /\ TalkParts'
<1> USE DEF TalkInv, ContactInv, QueueInv, WalletInv, CallInv, TypeInv, TypeOK, PhoneInv
<1>1. PICK kind \in Kinds, n \in Charges \cup {0} :
        /\ line' = [line EXCEPT ![c] = IF kind = "completed" THEN "talked" ELSE "unanswered"]
        /\ sent' = sent \cup [call: {c}, kind: {kind}, charge: {n}, copy: Copies]
  BY DEF HangUp
<1>2. UNCHANGED <<call, known, held, stuck, handler, pc, seen>> /\ line[c] = "live"
  BY DEF HangUp, db, local
<1>3. \A m \in sent : m.call \in Calls /\ m.call # c
  BY <1>2, SentParts DEF Over
<1>4. FollowInv'
  <2>1. RungIsFollowed'
    BY <1>1, <1>2 DEF FollowInv, RungIsFollowed
  <2>2. ClosedWasRead' /\ SpentIsClosed'
    BY <1>2 DEF FollowInv, ClosedWasRead, SpentIsClosed
  <2> QED
    BY <2>1, <2>2 DEF FollowInv
<1>5. SentAsEnded'
  <2> SUFFICES ASSUME NEW m \in sent' PROVE m.kind = "completed" <=> line'[m.call] = "talked"
    BY DEF SentAsEnded
  <2>1. CASE m \in sent
    BY <1>1, <1>3, <2>1 DEF TalkParts, SentAsEnded
  <2>2. CASE m \notin sent
    BY <1>1, <2>2 DEF Kinds
  <2> QED
    BY <2>1, <2>2
<1>6. TalkIsSent'
  <2>1. PICK k \in Copies : TRUE
    BY DEF NothingLost
  <2>2. [call |-> c, kind |-> kind, charge |-> n, copy |-> k] \in sent'
    BY <1>1, <2>1
  <2>3. \E m \in sent' : m.call = c
    BY <2>2
  <2>4. \A d \in Calls : d # c => line'[d] = line[d]
    BY <1>1
  <2> QED
    BY <1>1, <2>3, <2>4 DEF TalkParts, TalkIsSent
<1>7. TalkIsKept'
  <2>1. call[c] = "dialling" /\ \A w \in Workers : c \notin stuck[w]
    BY <1>2 DEF LiveIsOpen, StuckIsSilent
  <2> QED
    BY <1>1, <1>2, <2>1 DEF TalkParts, TalkIsKept
<1> QED
  BY <1>4, <1>5, <1>6, <1>7 DEF TalkParts

LEMMA TalkStep ==
  ASSUME NoSweepRace, OneTerminalEvent, CallsAreShort, NothingLost
  PROVE  TalkInv /\ [Next]_vars => TalkInv'
<1> SUFFICES ASSUME TalkInv, [Next]_vars PROVE TalkInv'
  OBVIOUS
<1>1. ContactInv' /\ SeenWasSent'
  BY ContactStep, LinesEnd DEF TalkInv, ContactInv, QueueInv, WalletInv
<1>2. ASSUME NEW w \in Workers, WorkerCrash(w) PROVE FALSE
  BY <1>2 DEF WorkerCrash, NothingLost
<1>3. ASSUME NEW h \in Handlers, WebCrash(h) PROVE FALSE
  BY <1>3 DEF WebCrash, NothingLost
<1>4. CASE \/ \E i \in Items : RetryIntervalOver(i)
           \/ \E a \in Agents : StopRun(a) \/ \E p \in BOOLEAN : SetPaused(a, p)
           \/ \E n \in TopUps : TopUp(n)
           \/ UNCHANGED vars
  <2>1. UNCHANGED <<call, known, line, sent, seen, held, stuck, handler, pc>>
    BY <1>4 DEF RetryIntervalOver, StopRun, SetPaused, TopUp, vars, db, phone, local
  <2> QED
    BY <1>1, <2>1, FollowQuiet, TalkQuiet DEF TalkInv
<1>5. FollowInv' /\ TalkParts'
  BY <1>2, <1>3, <1>4, TalkTick, TalkSweep, TalkWebhook, TalkHangUp DEF Next, TalkInv
<1> QED
  BY <1>1, <1>5 DEF TalkInv

\* When nothing is lost, a contact that talked is never rung again: the redials
\* of v_redial need a crash, an ambiguous dial, or a callback that is early, late
\* or lost.
THEOREM TalkIsLast ==
  ASSUME NoSweepRace, OneTerminalEvent, CallsAreShort, NothingLost
  PROVE  Spec => []NeverRungAfterTalk
<1>1. TalkInv /\ [Next]_vars => TalkInv'
  BY TalkStep
<1>2. TalkInv => NeverRungAfterTalk
  <2> SUFFICES ASSUME TalkInv, NEW i \in Items, NEW k \in 1 .. RetryAttempts,
                      line[<<i, k>>] = "talked"
               PROVE  line[<<i, k + 1>>] = "none"
    BY DEF NeverRungAfterTalk
  <2>1. k + 1 \in 1 .. RetryAttempts + 1 /\ k \in 1 .. RetryAttempts + 1
    BY DispatchAssumption
  <2>2. <<i, k>> \in Calls /\ <<i, k + 1>> \in Calls
    BY <2>1, CallParts
  <2>3. call[<<i, k>>] \in {"dialling", "completed"}
    BY <2>2 DEF TalkInv, TalkParts, TalkIsKept
  <2>4. attempts[i] = k
    BY <2>2, <2>3 DEF TalkInv, ContactInv, QueueInv, CompletedIsLast, ItemMirrorsCall
  <2>5. call[<<i, k + 1>>] = "none"
    BY <2>1, <2>4 DEF TalkInv, ContactInv, QueueInv, FutureKeysFree
  <2> QED
    BY <2>2, <2>5 DEF TalkInv, ContactInv, QueueInv, WalletInv, CallInv, PhoneInv, RungCallKeepsRow
<1> QED
  BY TalkInit, <1>1, <1>2, PTL DEF Spec
=============================================================================

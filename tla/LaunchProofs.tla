---------------------------- MODULE LaunchProofs ----------------------------
(***************************************************************************)
(* For any number of requests, and whatever fails: an agent is launched    *)
(* entirely, once, or deleted; its run assistant lives; its current        *)
(* version is the newest.                                                  *)
(***************************************************************************)
EXTENDS Launch, TLAPS

\* The rows a launch writes belong together, and what it wrote it had built.
RunInv ==
  \/ schedule = None /\ queue = {} /\ assistant = None /\ status = "open"
  \/ /\ schedule \in Launches /\ queue = {schedule} /\ assistant = schedule
     /\ status = "launched" /\ alive

BuiltInv == \A l \in Launches : pc[l] = "built" \/ schedule = l => l \in made

\* A number read by a save is taken or the next one.
SaveInv == \A s \in Saves : pc[s] = "saving" => read[s] <= version + 1

IInv == TypeOK /\ RunInv /\ BuiltInv /\ CurrentIsNewest /\ SaveInv

-----------------------------------------------------------------------------
LEMMA InitInv == Init => IInv
<1> SUFFICES ASSUME Init PROVE IInv
  OBVIOUS
<1>1. TypeOK
  <2>1. /\ pc \in [Requests -> {"idle", "building", "built", "saving", "deleting", "over"}]
        /\ read \in [Requests -> Nat]
    BY DEF Init
  <2>2. \A s \in Saves : pc[s] # "saving"
    BY DEF Init, Requests
  <2>3. alive \in BOOLEAN /\ tested \in BOOLEAN
    BY Zenon DEF Init
  <2>4. status \in {"open", "launched"} /\ version \in Nat /\ versions \subseteq Nat
    BY DEF Init
  <2>5. /\ queue \subseteq Launches /\ made \subseteq Launches
        /\ schedule \in Launches \cup {None} /\ assistant \in Launches \cup {None}
    BY DEF Init
  <2> QED
    BY <2>1, <2>2, <2>3, <2>4, <2>5, Zenon DEF TypeOK
<1>2. {1} = 1 .. 1
  OBVIOUS
<1>3. RunInv /\ CurrentIsNewest
  BY <1>2 DEF Init, RunInv, CurrentIsNewest
<1>4. BuiltInv /\ SaveInv
  BY LaunchAssumption DEF Init, BuiltInv, SaveInv, Requests
<1> QED
  BY <1>1, <1>3, <1>4 DEF IInv

\* What every action of a request does to pc.
LEMMA GotoType ==
  ASSUME TypeOK, NEW r \in Requests, NEW from,
         NEW to \in {"building", "built", "saving", "deleting", "over"}, Goto(r, from, to)
  PROVE  /\ pc' \in [Requests -> {"idle", "building", "built", "saving", "deleting", "over"}]
         /\ pc'[r] = to /\ pc[r] = from
         /\ \A q \in Requests : q # r => pc'[q] = pc[q]
  BY DEF TypeOK, Goto

\* The actions that only move on, or give up.
LEMMA MoveInv ==
  ASSUME IInv, NEW r \in Requests, NEW from, NEW to \in {"deleting", "over"},
         Goto(r, from, to), UNCHANGED <<agent, run, made, read>>
  PROVE  IInv'
<1>1. TypeOK'
  BY GotoType DEF IInv, TypeOK, agent, run, Requests
<1>2. RunInv' /\ CurrentIsNewest'
  BY DEF IInv, RunInv, CurrentIsNewest, agent, run
<1>3. BuiltInv' /\ SaveInv'
  BY GotoType DEF IInv, BuiltInv, SaveInv, agent, run, Requests
<1> QED
  BY <1>1, <1>2, <1>3 DEF IInv

LEMMA NextInv == IInv /\ [Next]_vars => IInv'
<1> SUFFICES ASSUME IInv, [Next]_vars PROVE IInv'
  OBVIOUS
<1> USE LaunchAssumption DEF agent, run, Requests
<1>1. CASE PlaceTestCall
  BY <1>1 DEF PlaceTestCall, IInv, TypeOK, RunInv, BuiltInv, CurrentIsNewest, SaveInv
<1>2. ASSUME NEW l \in Launches, Begin(l) PROVE IInv'
  <2>1. TypeOK'
    BY <1>2, GotoType DEF Begin, IInv, TypeOK
  <2>2. RunInv' /\ CurrentIsNewest'
    BY <1>2 DEF Begin, IInv, RunInv, CurrentIsNewest
  <2>3. BuiltInv' /\ SaveInv'
    BY <1>2, GotoType DEF Begin, IInv, TypeOK, BuiltInv, SaveInv
  <2> QED
    BY <2>1, <2>2, <2>3 DEF IInv
<1>3. ASSUME NEW l \in Launches, Refuse(l) PROVE IInv'
  BY <1>3, MoveInv DEF Refuse
<1>4. ASSUME NEW l \in Launches, Build(l) PROVE IInv'
  <2>1. TypeOK'
    BY <1>4, GotoType DEF Build, IInv, TypeOK
  <2>2. RunInv' /\ CurrentIsNewest'
    BY <1>4 DEF Build, IInv, RunInv, CurrentIsNewest
  <2>3. BuiltInv' /\ SaveInv'
    BY <1>4, GotoType DEF Build, IInv, BuiltInv, SaveInv
  <2> QED
    BY <2>1, <2>2, <2>3 DEF IInv
<1>5. ASSUME NEW l \in Launches, BuildFails(l) PROVE IInv'
  <2>1. TypeOK'
    BY <1>5, GotoType DEF BuildFails, IInv, TypeOK
  <2>2. RunInv' /\ CurrentIsNewest'
    BY <1>5 DEF BuildFails, IInv, RunInv, CurrentIsNewest
  <2>3. BuiltInv' /\ SaveInv'
    BY <1>5, GotoType DEF BuildFails, IInv, BuiltInv, SaveInv
  <2> QED
    BY <2>1, <2>2, <2>3 DEF IInv
<1>6. ASSUME NEW l \in Launches, Commit(l) PROVE IInv'
  <2>1. TypeOK'
    BY <1>6, GotoType DEF Commit, IInv, TypeOK
  <2>2. RunInv'
    BY <1>6 DEF Commit, IInv, RunInv
  <2>3. CurrentIsNewest'
    BY <1>6 DEF Commit, IInv, CurrentIsNewest
  <2>4. BuiltInv' /\ SaveInv'
    BY <1>6, GotoType DEF Commit, IInv, BuiltInv, SaveInv
  <2> QED
    BY <2>1, <2>2, <2>3, <2>4 DEF IInv
<1>7. ASSUME NEW l \in Launches, CommitFails(l) PROVE IInv'
  BY <1>7, MoveInv DEF CommitFails
<1>8. ASSUME NEW s \in Saves, SaveRead(s) PROVE IInv'
  <2>1. PICK n \in versions : /\ \A k \in versions : k <= n
                              /\ read' = [read EXCEPT ![s] = n + 1]
    BY <1>8 DEF SaveRead
  <2>2. n \in Nat /\ n >= 1 /\ n = version
    BY <1>8, <2>1 DEF SaveRead, IInv, TypeOK, CurrentIsNewest
  <2>3. TypeOK'
    BY <1>8, <2>1, <2>2, GotoType DEF SaveRead, IInv, TypeOK
  <2>4. RunInv' /\ CurrentIsNewest'
    BY <1>8 DEF SaveRead, IInv, RunInv, CurrentIsNewest
  <2>5. BuiltInv' /\ SaveInv'
    BY <1>8, <2>1, <2>2, GotoType DEF SaveRead, IInv, TypeOK, BuiltInv, SaveInv
  <2> QED
    BY <2>3, <2>4, <2>5 DEF IInv
<1>9. ASSUME NEW s \in Saves, SaveRefused(s) PROVE IInv'
  BY <1>9, MoveInv DEF SaveRefused
<1>10. ASSUME NEW s \in Saves, SaveWrite(s) PROVE IInv'
  <2>1. read[s] \in Nat /\ read[s] > 1 /\ read[s] <= version + 1 /\ read[s] \notin 1 .. version
    BY <1>10 DEF SaveWrite, Goto, IInv, TypeOK, SaveInv, CurrentIsNewest
  <2>2. read[s] = version + 1 /\ version' = version + 1 /\ version \in Nat
    BY <1>10, <2>1 DEF SaveWrite, IInv, TypeOK
  <2>3. TypeOK'
    BY <1>10, <2>1, GotoType DEF SaveWrite, IInv, TypeOK
  <2>4. CurrentIsNewest'
    BY <1>10, <2>2 DEF SaveWrite, IInv, CurrentIsNewest
  <2>5. RunInv'
    BY <1>10 DEF SaveWrite, IInv, RunInv
  <2>6. BuiltInv' /\ SaveInv'
    BY <1>10, <2>2, GotoType DEF SaveWrite, IInv, TypeOK, BuiltInv, SaveInv
  <2> QED
    BY <2>3, <2>4, <2>5, <2>6 DEF IInv
<1>11. ASSUME NEW s \in Saves, SaveFails(s) PROVE IInv'
  BY <1>11, MoveInv DEF SaveFails
<1>12. ASSUME NEW d \in Deletes, DeleteRead(d) PROVE IInv'
  BY <1>12, MoveInv DEF DeleteRead
<1>13. ASSUME NEW d \in Deletes, DeleteRefused(d) PROVE IInv'
  BY <1>13, MoveInv DEF DeleteRefused
<1>14. ASSUME NEW d \in Deletes, DeleteWrite(d) PROVE IInv'
  <2>1. TypeOK'
    BY <1>14, GotoType DEF DeleteWrite, IInv, TypeOK
  <2>2. RunInv' /\ CurrentIsNewest'
    BY <1>14 DEF DeleteWrite, IInv, RunInv, CurrentIsNewest
  <2>3. BuiltInv' /\ SaveInv'
    BY <1>14, GotoType DEF DeleteWrite, IInv, BuiltInv, SaveInv
  <2> QED
    BY <2>1, <2>2, <2>3 DEF IInv
<1>15. ASSUME NEW d \in Deletes, DeleteFails(d) PROVE IInv'
  BY <1>15, MoveInv DEF DeleteFails
<1>16. ASSUME NEW r \in Requests, Crash(r) PROVE IInv'
  BY <1>16, MoveInv DEF Crash
<1>17. CASE UNCHANGED vars
  BY <1>17 DEF vars, IInv, TypeOK, RunInv, BuiltInv, CurrentIsNewest, SaveInv
<1> QED
  BY <1>1, <1>2, <1>3, <1>4, <1>5, <1>6, <1>7, <1>8, <1>9, <1>10, <1>11, <1>12, <1>13,
     <1>14, <1>15, <1>16, <1>17 DEF Next

THEOREM Invariance == Spec => []IInv
<1>1. Init => IInv
  BY InitInv
<1>2. IInv /\ [Next]_vars => IInv'
  BY NextInv
<1> QED
  BY <1>1, <1>2, PTL DEF Spec

-----------------------------------------------------------------------------
(* The properties.                                                         *)

\* Every variable of Launch keeps its type.
THEOREM TypeCorrect == Spec => []TypeOK
<1>1. IInv => TypeOK
  BY DEF IInv
<1> QED
  BY <1>1, Invariance, PTL

\* Concurrent saves never leave an older version current (agents.py:102-152).
THEOREM VersionsCorrect == Spec => []CurrentIsNewest
<1>1. IInv => CurrentIsNewest
  BY DEF IInv
<1> QED
  BY <1>1, Invariance, PTL

\* The assistant a run dials with exists (launch.py:394-405).
THEOREM AssistantCorrect == Spec => []RunAssistantLives
<1>1. IInv => RunAssistantLives
  BY LaunchAssumption DEF IInv, RunInv, BuiltInv, RunAssistantLives
<1> QED
  BY <1>1, Invariance, PTL

LEMMA StepsOfLife == IInv /\ [Next]_vars => [P!Next]_Life
<1> SUFFICES ASSUME IInv, [Next]_vars PROVE P!Next \/ UNCHANGED Life
  OBVIOUS
<1> USE LaunchAssumption DEF agent, run
<1>1. CASE \E l \in Launches : Commit(l)
  <2>1. PICK l \in Launches : Commit(l)
    BY <1>1
  <2>2. Life = WithoutRun(TRUE)
    BY <2>1 DEF Commit, IInv, RunInv, Life, WithoutRun
  <2>3. Life' = Launched(l)
    BY <2>1, <2>2 DEF Commit, IInv, RunInv, Life, Launched
  <2> QED
    BY <2>2, <2>3 DEF P!Next
<1>2. CASE \E d \in Deletes : DeleteWrite(d)
  <2>1. PICK d \in Deletes : DeleteWrite(d)
    BY <1>2
  <2>2. Life = WithoutRun(TRUE)
    BY <2>1 DEF DeleteWrite, IInv, RunInv, Life, WithoutRun
  <2>3. Life' = WithoutRun(FALSE)
    BY <2>1, <2>2 DEF DeleteWrite, IInv, RunInv, Life, WithoutRun
  <2> QED
    BY <2>2, <2>3 DEF P!Next
<1>3. CASE UNCHANGED <<alive, status, run>>
  BY <1>3 DEF Life
<1>4. UNCHANGED <<alive, status, run>> \/ (\E l \in Launches : Commit(l))
        \/ (\E d \in Deletes : DeleteWrite(d))
  BY DEF Next, PlaceTestCall, Begin, Refuse, Build, BuildFails, CommitFails, SaveRead,
     SaveRefused, SaveWrite, SaveFails, DeleteRead, DeleteRefused, DeleteFails, Crash, vars
<1> QED
  BY <1>1, <1>2, <1>3, <1>4

\* Launch implements AgentLife: launched entirely and once, or deleted, for good.
THEOREM LifeCorrect == Spec => LaunchedOrDeletedOnce
<1>1. Init => P!Init
  BY DEF Init, P!Init, Life, WithoutRun
<1>2. IInv /\ [Next]_vars => [P!Next]_Life
  BY StepsOfLife
<1> QED
  BY <1>1, <1>2, Invariance, PTL DEF Spec, P!Spec, LaunchedOrDeletedOnce
=============================================================================

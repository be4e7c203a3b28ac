----------------------------- MODULE DeskProofs -----------------------------
(***************************************************************************)
(* Theorems of Results, Books, Notify, Members and Console, for any calls, *)
(* workers, renders, settlements, readers, requests and runs in any order: *)
(* types; the mirror of results holds each call's own values and keeps     *)
(* them, a page shows what it was filtered by, a cost never exceeds its    *)
(* records and falls only behind a faster sync, a low wallet is told always*)
(* and hardly twice, removals leave owners and staff, no number leaves a   *)
(* run that was dialling when its assignment counted, and an account is    *)
(* set up as asked, but for what a request could not see.                  *)
(***************************************************************************)
EXTENDS Console, Members, Results, Books, Notify, Sums

-----------------------------------------------------------------------------
(* Results. What a worker has in hand is of the call it handles, it takes  *)
(* for stale only calls that are old, and what its page does not show has  *)
(* been absent from a listing.                                             *)

PollRecords ==
  [at : {"off", "idle", "unlisted", "listed", "collected"}, todo : SUBSET Calls,
   stale : SUBSET Calls, page : SUBSET Calls, hand : Calls \cup {0}]

ResultsTypes ==
  /\ ended \subseteq Calls /\ old \subseteq ended /\ convs \in Seq(Calls)
  /\ transcript \in [Calls -> {"none", "empty", "full"}]
  /\ value \in [Calls -> Calls \cup {0}]
  /\ poll \in [Pollers -> PollRecords]

PollInv(w) ==
  /\ poll[w].stale \subseteq old
  /\ poll[w].at \in {"listed", "collected"} => Calls \ poll[w].page \subseteq absent
  /\ poll[w].at = "collected" => poll[w].hand \in {0, Head1(w)}

PollsInv == \A w \in Pollers : PollInv(w)

MirrorInv == ResultsTypes /\ PollsInv /\ OwnConversation /\ EmptyIsWitnessed

LEMMA MirrorInit == ResultsInit => MirrorInv
<1> SUFFICES ASSUME ResultsInit PROVE MirrorInv
  OBVIOUS
<1>1. NoPoll \in PollRecords /\ [NoPoll EXCEPT !.at = "off"] \in PollRecords
  BY DEF NoPoll, PollRecords
<1>2. PICK D \in SUBSET Pollers :
        poll = [w \in Pollers |-> IF w \in D THEN NoPoll ELSE [NoPoll EXCEPT !.at = "off"]]
  BY DEF ResultsInit
<1>3. poll \in [Pollers -> PollRecords]
  BY <1>1, <1>2
<1>4. ResultsTypes
  BY <1>3 DEF ResultsInit, ResultsTypes
<1>5. PollsInv
  BY <1>2 DEF ResultsInit, PollsInv, PollInv, NoPoll
<1>6. OwnConversation /\ EmptyIsWitnessed
  BY DEF ResultsInit, OwnConversation, EmptyIsWitnessed
<1> QED BY <1>4, <1>5, <1>6 DEF MirrorInv

\* Calls that end or grow old and Telnyx's own steps disturb no worker and no mirror.
LEMMA SurroundingsKeep ==
  ASSUME MirrorInv, UNCHANGED <<mirror, poll, absent>>,
         old \subseteq old', old' \subseteq ended', ended' \subseteq Calls, convs' \in Seq(Calls)
  PROVE  MirrorInv'
<1>1. transcript' = transcript /\ value' = value /\ poll' = poll /\ absent' = absent
  BY DEF mirror
<1>2. ResultsTypes'
  BY <1>1 DEF MirrorInv, ResultsTypes
<1>3. PollsInv'
  BY <1>1 DEF MirrorInv, PollsInv, PollInv, Head1
<1>4. OwnConversation' /\ EmptyIsWitnessed'
  BY <1>1 DEF MirrorInv, OwnConversation, EmptyIsWitnessed
<1> QED BY <1>2, <1>3, <1>4 DEF MirrorInv

\* A step of one worker: its own record is replaced, the others' facts only gain.
LEMMA WorkerKeeps ==
  ASSUME MirrorInv, NEW w \in Pollers, NEW p \in PollRecords, poll' = [poll EXCEPT ![w] = p],
         UNCHANGED <<ended, old, telnyx>>, absent \subseteq absent', PollInv(w)'
  PROVE  poll' \in [Pollers -> PollRecords] /\ PollsInv'
<1>1. poll' \in [Pollers -> PollRecords]
  BY DEF MirrorInv, ResultsTypes
<1>2. PollsInv'
  <2> SUFFICES ASSUME NEW x \in Pollers PROVE PollInv(x)'
    BY DEF PollsInv
  <2>1. CASE x = w
    BY <2>1
  <2>2. CASE x # w
    <3>1. poll'[x] = poll[x] /\ PollInv(x)
      BY <2>2 DEF MirrorInv, ResultsTypes, PollsInv
    <3> QED BY <3>1 DEF PollInv, Head1
  <2> QED BY <2>1, <2>2
<1> QED BY <1>1, <1>2

\* A step of one worker that leaves the mirror alone.
LEMMA QuietWorkerKeeps ==
  ASSUME MirrorInv, NEW w \in Pollers, NEW p \in PollRecords, poll' = [poll EXCEPT ![w] = p],
         UNCHANGED <<ended, old, telnyx, mirror>>, absent \subseteq absent', PollInv(w)'
  PROVE  MirrorInv'
<1>1. /\ transcript' = transcript /\ value' = value /\ convs' = convs
      /\ ended' = ended /\ old' = old
  BY DEF mirror, telnyx
<1>2. ResultsTypes' /\ PollsInv'
  BY <1>1, WorkerKeeps DEF MirrorInv, ResultsTypes
<1>3. OwnConversation' /\ EmptyIsWitnessed'
  BY <1>1 DEF MirrorInv, OwnConversation, EmptyIsWitnessed
<1> QED BY <1>2, <1>3 DEF MirrorInv

\* Going on to the next candidate.
LEMMA GoingOn ==
  ASSUME MirrorInv, NEW w \in Pollers, Next1(w), UNCHANGED <<old, absent>>,
         poll[w].at \in {"unlisted", "listed", "collected"}
  PROVE  /\ PollInv(w)'
         /\ \E p \in PollRecords : poll' = [poll EXCEPT ![w] = p]
<1> DEFINE go == [poll[w] EXCEPT !.todo = Rest(w), !.hand = 0,
                       !.at = IF poll[w].at = "unlisted" THEN "unlisted" ELSE "listed"]
           p == IF Rest(w) = {} THEN NoPoll ELSE go
<1>1. poll[w] \in PollRecords /\ PollInv(w)
  BY DEF MirrorInv, ResultsTypes, PollsInv
<1>2. Rest(w) \subseteq Calls
  BY <1>1 DEF Rest, PollRecords
<1>3. /\ go \in PollRecords
      /\ go.at = (IF poll[w].at = "unlisted" THEN "unlisted" ELSE "listed")
      /\ go.stale = poll[w].stale /\ go.page = poll[w].page
  BY <1>1, <1>2 DEF PollRecords
<1>4. /\ NoPoll \in PollRecords /\ NoPoll.at = "idle" /\ NoPoll.stale = {}
  BY DEF NoPoll, PollRecords
<1>5. p \in PollRecords
  BY <1>3, <1>4
<1>6. poll' = [poll EXCEPT ![w] = p]
  BY DEF Next1, Onwards
<1>7. poll'[w] = p
  BY <1>6 DEF MirrorInv, ResultsTypes
<1> HIDE DEF go
<1>8. PollInv(w)'
  <2>1. CASE Rest(w) = {}
    BY <2>1, <1>4, <1>7 DEF PollInv
  <2>2. CASE Rest(w) # {}
    <3>1. poll'[w].stale = poll[w].stale /\ poll'[w].page = poll[w].page
      BY <2>2, <1>3, <1>7
    <3>2. /\ poll'[w].at # "collected"
          /\ poll'[w].at = "listed" => poll[w].at # "unlisted"
      BY <2>2, <1>3, <1>7
    <3> QED BY <3>1, <3>2, <1>1 DEF PollInv
  <2> QED BY <2>1, <2>2
<1> QED BY <1>5, <1>6, <1>8

LEMMA CandidatesInvariant ==
  ASSUME MirrorInv, NEW w \in Pollers, Candidates(w)
  PROVE  MirrorInv'
<1> DEFINE S == First(Batch, {c \in ended : transcript[c] = "none"})
           p == [NoPoll EXCEPT !.at = "unlisted", !.todo = S, !.stale = S \cap old]
<1>1. S \subseteq Calls
  BY DEF First, MirrorInv, ResultsTypes
<1>2. p \in PollRecords /\ p.at = "unlisted" /\ p.stale \subseteq old
  <2> HIDE DEF S
  <2> QED BY <1>1 DEF NoPoll, PollRecords
<1>3. poll' = [poll EXCEPT ![w] = p] /\ UNCHANGED <<ended, old, telnyx, mirror, absent>>
  BY DEF Candidates
<1> HIDE DEF p
<1>4. poll'[w] = p
  BY <1>3 DEF MirrorInv, ResultsTypes
<1>5. PollInv(w)'
  BY <1>2, <1>3, <1>4 DEF PollInv
<1> QED BY <1>2, <1>3, <1>5, QuietWorkerKeeps

LEMMA ListingInvariant ==
  ASSUME MirrorInv, NEW w \in Pollers, Listing(w)
  PROVE  MirrorInv'
<1> DEFINE N == Newest(Page)
           p == [poll[w] EXCEPT !.at = "listed", !.page = N]
<1>1. N \subseteq Calls
  BY DEF Newest, MirrorInv, ResultsTypes
<1>2. poll[w] \in PollRecords /\ PollInv(w)
  BY DEF MirrorInv, ResultsTypes, PollsInv
<1>3. /\ p \in PollRecords /\ p.at = "listed" /\ p.page = N /\ p.stale = poll[w].stale
  <2> HIDE DEF N
  <2> QED BY <1>1, <1>2 DEF PollRecords
<1>4. poll' = [poll EXCEPT ![w] = p]
  BY DEF Listing
<1>5. absent' = absent \cup (Calls \ N) /\ UNCHANGED <<ended, old, telnyx, mirror>>
  BY DEF Listing
<1> HIDE DEF p, N
<1>6. poll'[w] = p
  BY <1>4 DEF MirrorInv, ResultsTypes
<1>7. PollInv(w)'
  BY <1>2, <1>3, <1>5, <1>6 DEF PollInv
<1> QED BY <1>3, <1>4, <1>5, <1>7, QuietWorkerKeeps

LEMMA SkippingInvariant ==
  ASSUME MirrorInv, NEW w \in Pollers, ListingFails(w) \/ Later(w)
  PROVE  MirrorInv'
<1>1. /\ poll[w].at \in {"unlisted", "listed"} /\ Next1(w)
      /\ UNCHANGED <<ended, old, telnyx, mirror, absent>>
  BY DEF ListingFails, Later
<1>2. PollInv(w)' /\ \E p \in PollRecords : poll' = [poll EXCEPT ![w] = p]
  BY <1>1, GoingOn
<1> QED BY <1>1, <1>2, QuietWorkerKeeps

LEMMA CollectInvariant ==
  ASSUME MirrorInv, NEW w \in Pollers, Collect(w)
  PROVE  MirrorInv'
<1>1. poll[w] \in PollRecords /\ PollInv(w) /\ poll[w].at = "listed"
  BY DEF MirrorInv, ResultsTypes, PollsInv, Collect
<1>2. PICK v \in {Head1(w), 0} :
        poll' = [poll EXCEPT ![w].at = "collected", ![w].hand = v]
  BY DEF Collect
<1>3. Head1(w) \in Calls
  BY <1>1 DEF Collect, PollRecords
<1> DEFINE p == [poll[w] EXCEPT !.at = "collected", !.hand = v]
<1>4. /\ p \in PollRecords /\ p.at = "collected" /\ p.hand = v
      /\ p.stale = poll[w].stale /\ p.page = poll[w].page /\ p.todo = poll[w].todo
  BY <1>1, <1>2, <1>3 DEF PollRecords
<1>5. poll' = [poll EXCEPT ![w] = p]
  BY <1>2
<1>6. UNCHANGED <<ended, old, telnyx, mirror, absent>>
  BY DEF Collect
<1> HIDE DEF p
<1>7. poll'[w] = p
  BY <1>5 DEF MirrorInv, ResultsTypes
<1>8. PollInv(w)'
  <2>1. Head1(w)' = Head1(w)
    BY <1>4, <1>7 DEF Head1
  <2> QED BY <1>1, <1>2, <1>4, <1>6, <1>7, <2>1 DEF PollInv
<1> QED BY <1>4, <1>5, <1>6, <1>8, QuietWorkerKeeps

LEMMA TickDiesInvariant ==
  ASSUME MirrorInv, NEW w \in Pollers, TickDies(w)
  PROVE  MirrorInv'
<1>1. poll' = [poll EXCEPT ![w] = NoPoll] /\ UNCHANGED <<ended, old, telnyx, mirror, absent>>
  BY DEF TickDies
<1>2. NoPoll \in PollRecords /\ NoPoll.at = "idle" /\ NoPoll.stale = {}
  BY DEF NoPoll, PollRecords
<1>3. poll'[w] = NoPoll
  BY <1>1 DEF MirrorInv, ResultsTypes
<1>4. PollInv(w)'
  BY <1>2, <1>3 DEF PollInv
<1> QED BY <1>1, <1>2, <1>4, QuietWorkerKeeps

\* What a worker writes is the call's own, and empty only for a call given up.
LEMMA StoringKeeps ==
  ASSUME MirrorInv, NEW w \in Pollers, poll[w].at \in {"listed", "collected"}, Next1(w),
         NEW c \in Calls, NEW kind \in {"empty", "full"}, NEW v \in {0, c},
         Store(c, kind, v), UNCHANGED <<ended, old, telnyx, absent>>,
         kind = "empty" => c \in old \cap absent
  PROVE  MirrorInv'
<1>1. convs' = convs /\ ended' = ended /\ old' = old /\ absent' = absent
  BY DEF telnyx
<1>2. /\ transcript' = [transcript EXCEPT ![c] = IF transcript[c] = "none" THEN kind
                                                 ELSE transcript[c]]
      /\ value' = [value EXCEPT ![c] = IF value[c] = 0 THEN v ELSE value[c]]
  BY DEF Store
<1>3. PollInv(w)' /\ \E p \in PollRecords : poll' = [poll EXCEPT ![w] = p]
  BY GoingOn
<1>4. poll' \in [Pollers -> PollRecords] /\ PollsInv'
  BY <1>3, WorkerKeeps
<1>5. ResultsTypes'
  BY <1>1, <1>2, <1>4 DEF MirrorInv, ResultsTypes
<1>6. OwnConversation'
  BY <1>2 DEF MirrorInv, ResultsTypes, OwnConversation
<1>7. EmptyIsWitnessed'
  BY <1>1, <1>2 DEF MirrorInv, ResultsTypes, EmptyIsWitnessed
<1> QED BY <1>4, <1>5, <1>6, <1>7 DEF MirrorInv

LEMMA GivesUpInvariant ==
  ASSUME MirrorInv, NEW w \in Pollers, GivesUp(w)
  PROVE  MirrorInv'
<1> DEFINE c == Head1(w)
<1>1. /\ poll[w].at = "listed" /\ c \notin poll[w].page /\ c \in poll[w].stale
      /\ Store(c, "empty", 0) /\ Next1(w) /\ UNCHANGED <<ended, old, telnyx, absent>>
  BY DEF GivesUp
<1>2. PollInv(w) /\ old \subseteq Calls
  BY DEF MirrorInv, ResultsTypes, PollsInv
<1>3. c \in Calls /\ c \in old \cap absent
  BY <1>1, <1>2 DEF PollInv
<1> HIDE DEF c
<1> QED BY <1>1, <1>3, StoringKeeps

LEMMA StoreCollectedInvariant ==
  ASSUME MirrorInv, NEW w \in Pollers, StoreCollected(w)
  PROVE  MirrorInv'
<1> DEFINE c == Head1(w)  v == poll[w].hand
<1>1. /\ poll[w].at = "collected" /\ Store(c, "full", v) /\ Next1(w)
      /\ UNCHANGED <<ended, old, telnyx, absent>>
  BY DEF StoreCollected
<1>2. v \in {0, c}
  BY <1>1 DEF MirrorInv, PollsInv, PollInv
<1> HIDE DEF c, v
<1>3. CASE c \in Calls
  BY <1>1, <1>2, <1>3, StoringKeeps
<1>4. CASE c \notin Calls
  <2>1. transcript' = transcript /\ value' = value /\ convs' = convs
    BY <1>1, <1>4 DEF Store, MirrorInv, ResultsTypes, telnyx
  <2>2. PollInv(w)' /\ \E p \in PollRecords : poll' = [poll EXCEPT ![w] = p]
    BY <1>1, GoingOn
  <2>3. poll' \in [Pollers -> PollRecords] /\ PollsInv'
    BY <1>1, <2>2, WorkerKeeps
  <2> QED BY <1>1, <2>1, <2>3 DEF MirrorInv, ResultsTypes, OwnConversation, EmptyIsWitnessed
<1> QED BY <1>3, <1>4

LEMMA MirrorNext == MirrorInv /\ [ResultsNext]_resultsVars => MirrorInv'
<1> SUFFICES ASSUME MirrorInv, [ResultsNext]_resultsVars PROVE MirrorInv'
  OBVIOUS
<1>1. old \subseteq ended /\ ended \subseteq Calls /\ convs \in Seq(Calls)
  BY DEF MirrorInv, ResultsTypes
<1>2. CASE \E c \in Calls : CallEnds(c) \/ GrowsOld(c) \/ ConversationAppears(c) \/ Scored(c)
  <2>1. UNCHANGED <<mirror, poll, absent>>
    BY <1>2 DEF CallEnds, GrowsOld, ConversationAppears, Scored
  <2>2. /\ old \subseteq old' /\ old' \subseteq ended' /\ ended' \subseteq Calls
        /\ convs' \in Seq(Calls)
    BY <1>1, <1>2 DEF CallEnds, GrowsOld, ConversationAppears, Scored, telnyx
  <2> QED BY <2>1, <2>2, SurroundingsKeep
<1>3. CASE \E w \in Pollers : Tick(w)
  BY <1>3, CandidatesInvariant, ListingInvariant, SkippingInvariant, CollectInvariant,
     TickDiesInvariant, GivesUpInvariant, StoreCollectedInvariant DEF Tick
<1>4. CASE \/ \E c \in Calls, v \in Calls \cup {0} : Correct(c, v)
           \/ \E v \in Calls : Filter(v)
           \/ Render
           \/ UNCHANGED resultsVars
  <2>1. UNCHANGED <<ended, old, convs, transcript, value, poll, absent>>
    BY <1>4 DEF Correct, Filter, Render, resultsVars, telnyx, mirror
  <2> QED BY <2>1 DEF MirrorInv, ResultsTypes, PollsInv, PollInv, Head1, OwnConversation,
                      EmptyIsWitnessed
<1> QED BY <1>2, <1>3, <1>4 DEF ResultsNext

LEMMA MirrorInvariant == ResultsSpec => []MirrorInv
BY MirrorInit, MirrorNext, PTL DEF ResultsSpec

\* A value stored for a call is of the call's own conversation (results_tick's join by
\* call_control_id), however workers overlap.
THEOREM ValuesAreTheirOwn == ResultsSpec => []OwnConversation
<1>1. MirrorInv => OwnConversation
  BY DEF MirrorInv
<1> QED BY <1>1, MirrorInvariant, PTL

\* A call is given up only when it was old and a listing that was answered did not show
\* it (results_tick: "no verdicts of any kind on stale information").
THEOREM GivenUpIsWitnessed == ResultsSpec => []EmptyIsWitnessed
<1>1. MirrorInv => EmptyIsWitnessed
  BY DEF MirrorInv
<1> QED BY <1>1, MirrorInvariant, PTL

\* What has been mirrored stays mirrored (_store inserts where nothing is), whatever two
\* workers and the client's corrections do.
THEOREM MirrorIsStable == ResultsSpec => [][MirrorStays]_resultsVars
<1>1. MirrorInv /\ [ResultsNext]_resultsVars => [MirrorStays]_resultsVars
  <2> SUFFICES ASSUME MirrorInv, ResultsNext PROVE MirrorStays
    OBVIOUS
  <2>1. \/ transcript' = transcript /\ value' = value
        \/ \E c, kind, v : Store(c, kind, v)
    BY DEF ResultsNext, CallEnds, GrowsOld, ConversationAppears, Scored, Tick, Candidates,
           Listing, ListingFails, GivesUp, Later, Collect, StoreCollected, TickDies, Correct,
           Filter, Render, mirror
  <2>2. CASE transcript' = transcript /\ value' = value
    BY <2>2 DEF MirrorStays
  <2>3. ASSUME NEW c, NEW kind, NEW v, Store(c, kind, v) PROVE MirrorStays
    BY <2>3 DEF MirrorStays, Store, MirrorInv, ResultsTypes
  <2> QED BY <2>1, <2>2, <2>3
<1> QED BY <1>1, MirrorInvariant, PTL DEF ResultsSpec

\* The mirror of results, for any calls and workers and any page size (results_tick,
\* _store, correct_value).
THEOREM MirrorIsAlwaysFaithful == ResultsSpec => MirrorIsFaithful
<1>1. /\ OwnConversation' /\ EmptyIsWitnessed'
      /\ [MirrorStays]_resultsVars
      => [OwnConversation' /\ EmptyIsWitnessed' /\ MirrorStays]_resultsVars
  OBVIOUS
<1> QED BY <1>1, ValuesAreTheirOwn, GivenUpIsWitnessed, MirrorIsStable, PTL DEF MirrorIsFaithful

-----------------------------------------------------------------------------
(* Results, the page. A row that the table was filtered for, and that no   *)
(* correction has touched, still shows the value it was filtered by, since *)
(* what workers store comes only where nothing is.                         *)

ReaderRecords ==
  [at : {"idle", "filtered"}, filter : Calls \cup {0}, rows : SUBSET Calls,
   edited : SUBSET Calls]

Conversations ==
  /\ scored \subseteq ToSet(convs) /\ ToSet(convs) \subseteq ended
  /\ IsFiniteSet(ToSet(convs)) /\ Len(convs) = Cardinality(ToSet(convs))
  /\ absent \subseteq Calls

PageInv ==
  /\ corrected \in [Calls -> Calls \cup {0}] /\ reader \in ReaderRecords
  /\ \A c \in Calls : corrected[c] # 0 => value[c] # 0
  /\ reader.at = "filtered" =>
       /\ reader.filter \in Calls
       /\ \A c \in reader.rows \ reader.edited : Shown(c) = reader.filter

LEMMA PageInit == ResultsInit => Conversations /\ PageInv
<1> SUFFICES ASSUME ResultsInit PROVE Conversations /\ PageInv
  OBVIOUS
<1>1. ToSet(convs) = {} /\ Len(convs) = 0
  BY DEF ResultsInit, ToSet
<1>2. Conversations
  BY <1>1, FS_EmptySet DEF ResultsInit, Conversations
<1>3. reader \in ReaderRecords /\ reader.at = "idle"
  BY DEF ResultsInit, NoReader, ReaderRecords
<1> QED BY <1>2, <1>3 DEF ResultsInit, PageInv

\* Telnyx makes at most one conversation of a call.
LEMMA ConversationsNext ==
  ASSUME MirrorInv, Conversations, [ResultsNext]_resultsVars PROVE Conversations'
<1>1. ended \subseteq Calls /\ convs \in Seq(Calls)
  BY DEF MirrorInv, ResultsTypes
<1>2. CASE \E c \in Calls : ConversationAppears(c)
  <2>1. PICK c \in Calls : ConversationAppears(c)
    BY <1>2
  <2>2. /\ c \in ended /\ c \notin ToSet(convs) /\ convs' = Append(convs, c)
        /\ ended' = ended /\ scored' = scored /\ absent' = absent
    BY <1>1, <2>1 DEF ConversationAppears, Contains, ToSet
  <2>3. ToSet(convs') = ToSet(convs) \cup {c} /\ Len(convs') = Len(convs) + 1
    BY <1>1, <2>2 DEF ToSet
  <2>4. /\ IsFiniteSet(ToSet(convs) \cup {c})
        /\ Cardinality(ToSet(convs) \cup {c}) = Cardinality(ToSet(convs)) + 1
    BY <2>2, FS_AddElement DEF Conversations
  <2> QED BY <2>2, <2>3, <2>4 DEF Conversations
<1>3. CASE \E w \in Pollers : Listing(w)
  BY <1>3 DEF Conversations, Listing, telnyx
<1>4. CASE \E c \in Calls : Scored(c)
  BY <1>1, <1>4 DEF Conversations, Scored, Contains, ToSet
<1>5. CASE \E c \in Calls : CallEnds(c)
  BY <1>5 DEF Conversations, CallEnds, telnyx
<1>6. CASE UNCHANGED <<ended, telnyx, absent>>
  BY <1>6 DEF Conversations, telnyx
<1> QED BY <1>2, <1>3, <1>4, <1>5, <1>6 DEF ResultsNext, GrowsOld, Tick, Candidates,
        ListingFails, GivesUp, Later, Collect, StoreCollected, TickDies, Correct, Filter,
        Render, resultsVars

\* Whatever a step stores, it stores where nothing was.
LEMMA StoresOrKeeps ==
  ASSUME MirrorInv, [ResultsNext]_resultsVars
  PROVE  /\ value' \in [Calls -> Calls \cup {0}]
         /\ \A c \in Calls : value[c] # 0 => value'[c] = value[c]
<1>1. value' \in [Calls -> Calls \cup {0}]
  BY MirrorNext DEF MirrorInv, ResultsTypes
<1>2. \/ value' = value
      \/ \E c, kind, v : Store(c, kind, v)
  BY DEF ResultsNext, CallEnds, GrowsOld, ConversationAppears, Scored, Tick, Candidates,
         Listing, ListingFails, GivesUp, Later, Collect, StoreCollected, TickDies, Correct,
         Filter, Render, mirror, resultsVars
<1>3. ASSUME NEW c, NEW kind, NEW v, Store(c, kind, v)
      PROVE  \A b \in Calls : value[b] # 0 => value'[b] = value[b]
  BY <1>3 DEF Store, MirrorInv, ResultsTypes
<1> QED BY <1>1, <1>2, <1>3

LEMMA PageNext ==
  ASSUME MirrorInv, PageInv, [ResultsNext]_resultsVars PROVE PageInv'
<1>1. /\ value' \in [Calls -> Calls \cup {0}]
      /\ \A c \in Calls : value[c] # 0 => value'[c] = value[c]
  BY StoresOrKeeps
<1>2. 0 \notin Calls /\ ended \subseteq Calls /\ value \in [Calls -> Calls \cup {0}]
  BY ResultsAssumption DEF MirrorInv, ResultsTypes
<1>3. reader \in ReaderRecords /\ corrected \in [Calls -> Calls \cup {0}]
  BY DEF PageInv
<1>4. CASE UNCHANGED <<corrected, reader>>
  <2>1. reader.rows \subseteq Calls
    BY <1>3 DEF ReaderRecords
  <2>2. ASSUME reader.at = "filtered"
        PROVE  \A c \in reader.rows \ reader.edited : Shown(c)' = reader.filter
    BY <1>1, <1>2, <1>4, <2>1, <2>2 DEF PageInv, Shown
  <2>3. \A c \in Calls : corrected[c] # 0 => value'[c] # 0
    BY <1>1 DEF PageInv
  <2> QED BY <1>3, <1>4, <2>2, <2>3 DEF PageInv
<1>5. CASE \E c \in Calls, v \in Calls \cup {0} : Correct(c, v)
  <2>1. PICK c \in Calls, v \in Calls \cup {0} : Correct(c, v)
    BY <1>5
  <2> DEFINE r == [reader EXCEPT !.edited = @ \cup ({c} \cap reader.rows)]
  <2>2. /\ r \in ReaderRecords /\ r.at = reader.at /\ r.filter = reader.filter
        /\ r.rows = reader.rows /\ r.edited = reader.edited \cup ({c} \cap reader.rows)
    BY <1>3 DEF ReaderRecords
  <2>3. /\ value[c] # 0 /\ value' = value /\ corrected' = [corrected EXCEPT ![c] = v]
        /\ reader' = r
    BY <2>1 DEF Correct
  <2> HIDE DEF r
  <2>4. corrected' \in [Calls -> Calls \cup {0}]
        /\ \A b \in Calls \ {c} : corrected'[b] = corrected[b]
    BY <1>3, <2>3
  <2>5. \A b \in Calls : corrected'[b] # 0 => value'[b] # 0
    BY <2>3, <2>4 DEF PageInv
  <2>6. ASSUME reader.at = "filtered", NEW b \in r.rows \ r.edited
        PROVE  Shown(b)' = reader.filter
    <3>1. b \in reader.rows \ reader.edited /\ b \in Calls \ {c}
      BY <1>3, <2>2, <2>6 DEF ReaderRecords
    <3> QED BY <2>3, <2>4, <2>6, <3>1 DEF PageInv, Shown
  <2> QED BY <2>2, <2>3, <2>4, <2>5, <2>6 DEF PageInv
<1>6. CASE \E v \in Calls : Filter(v)
  <2>1. PICK v \in Calls : Filter(v)
    BY <1>6
  <2> DEFINE r == [at |-> "filtered", filter |-> v, edited |-> {},
                   rows |-> {c \in ended : Shown(c) = v}]
  <2>2. reader' = r /\ value' = value /\ corrected' = corrected
    BY <2>1 DEF Filter, mirror
  <2>3. /\ r \in ReaderRecords /\ r.at = "filtered" /\ r.filter = v
        /\ \A c \in r.rows : Shown(c) = v
    BY <1>2 DEF ReaderRecords
  <2> HIDE DEF r
  <2> QED BY <1>3, <2>2, <2>3 DEF PageInv, Shown
<1>7. CASE Render
  <2>1. reader' \in ReaderRecords /\ reader'.at = "idle"
    BY <1>7 DEF Render, NoReader, ReaderRecords
  <2> QED BY <1>3, <1>7, <2>1 DEF PageInv, Render, mirror
<1> QED BY <1>4, <1>5, <1>6, <1>7 DEF ResultsNext, CallEnds, GrowsOld, ConversationAppears,
        Scored, Tick, Candidates, Listing, ListingFails, GivesUp, Later, Collect,
        StoreCollected, TickDies, mirror, resultsVars

LEMMA PageInvariant == ResultsSpec => [](Conversations /\ PageInv)
<1>1. MirrorInv /\ (Conversations /\ PageInv) /\ [ResultsNext]_resultsVars
        => (Conversations /\ PageInv)'
  BY ConversationsNext, PageNext
<1> QED BY <1>1, PageInit, MirrorInvariant, PTL DEF ResultsSpec

\* Type correctness of the mirror, the workers and the page, and no correction without a
\* value beside it (correct_value is an UPDATE, and nothing takes a row away).
THEOREM ResultsTypesCorrect == ResultsSpec => []ResultsTypeOK
<1>1. MirrorInv /\ Conversations /\ PageInv => ResultsTypeOK
  BY DEF MirrorInv, ResultsTypes, PollRecords, Conversations, PageInv, ReaderRecords,
         ResultsTypeOK
<1> QED BY <1>1, MirrorInvariant, PageInvariant, PTL

\* The filtered table and its export show, in every row that was not corrected between the
\* two statements, the value it was filtered by, whatever the workers store meanwhile.
THEOREM PageIsAsFiltered == ResultsSpec => PageMatchesFilter
<1>1. PageInv /\ [ResultsNext]_resultsVars =>
        [reader.at = "filtered" /\ reader'.at = "idle" =>
           \A c \in reader.rows \ reader.edited : Shown(c) = reader.filter]_resultsVars
  BY DEF PageInv
<1> QED BY <1>1, PageInvariant, PTL DEF ResultsSpec, PageMatchesFilter

-----------------------------------------------------------------------------
(* Books. A render that no other one has committed beside will, when it    *)
(* has listed what it has left to, find for each call at least the records *)
(* its stored cost adds up.                                                *)

RenderRecords ==
  [where : {"closed", "listing", "given up"}, listed : SUBSET (Sessions \X RecordTypes),
   left : SUBSET RecordTypes]

BooksTypes ==
  /\ records \subseteq Sessions \X RecordTypes /\ IsFiniteSet(records)
  /\ cost \in [Sessions -> Nat] /\ taken \in Nat
  /\ render \in [Renders -> RenderRecords]

OfSession(S, s) == {q \in S : q[1] = s}
Coming(r) == render[r].listed \cup {q \in records : q[2] \in render[r].left}

RenderInv(r) ==
  /\ render[r].listed \subseteq records
  /\ render[r].where = "listing" /\ r \notin bypassed =>
       \A s \in Sessions : cost[s] <= Cardinality(OfSession(Coming(r), s))
  /\ render[r].where # "closed" /\ taken > 0 => r \in bypassed

BooksInv ==
  /\ BooksTypes /\ CostWithinRecords /\ HourlyUnlessBypassed
  /\ \A r \in Renders : RenderInv(r)

\* What one set of records adds up for a call is at most what a larger one does.
LEMMA MoreRecordsMoreCost ==
  ASSUME NEW S, IsFiniteSet(S), NEW R \in SUBSET S, NEW s
  PROVE  /\ Cardinality(OfSession(R, s)) \in Nat /\ Cardinality(OfSession(S, s)) \in Nat
         /\ Cardinality(OfSession(R, s)) <= Cardinality(OfSession(S, s))
<1>1. OfSession(R, s) \subseteq OfSession(S, s) /\ OfSession(S, s) \subseteq S
  BY DEF OfSession
<1>2. IsFiniteSet(OfSession(S, s))
  BY <1>1, FS_Subset
<1>3. IsFiniteSet(OfSession(R, s))
  BY <1>1, <1>2, FS_Subset
<1> QED BY <1>1, <1>2, <1>3, FS_Subset, FS_CardinalityType

LEMMA BooksInit0 == BooksInit => BooksInv
<1> SUFFICES ASSUME BooksInit PROVE BooksInv
  OBVIOUS
<1>1. BooksTypes
  BY FS_EmptySet DEF BooksInit, BooksTypes, Closed, RenderRecords
<1>2. CostWithinRecords
  <2>1. records = {} /\ \A s \in Sessions : cost[s] = 0
    BY DEF BooksInit
  <2>2. \A s : {q \in records : q[1] = s} = {}
    BY <2>1
  <2> QED BY <2>1, <2>2, FS_EmptySet DEF CostWithinRecords
<1>3. HourlyUnlessBypassed /\ \A r \in Renders : RenderInv(r)
  BY DEF BooksInit, HourlyUnlessBypassed, RenderInv, Closed
<1> QED BY <1>1, <1>2, <1>3 DEF BooksInv

LEMMA RecordAppearsInvariant == BooksInv /\ RecordAppears => BooksInv'
<1> SUFFICES ASSUME BooksInv, RecordAppears PROVE BooksInv'
  OBVIOUS
<1>1. PICK n \in (Sessions \X RecordTypes) \ records : records' = records \cup {n}
  BY DEF RecordAppears
<1>2. UNCHANGED <<cost, taken, render, bypassed>>
  BY DEF RecordAppears
<1>3. IsFiniteSet(records') /\ records \subseteq records'
  BY <1>1, FS_AddElement DEF BooksInv, BooksTypes
<1>4. BooksTypes' /\ HourlyUnlessBypassed'
  BY <1>1, <1>2, <1>3 DEF BooksInv, BooksTypes, HourlyUnlessBypassed
<1>5. CostWithinRecords'
  <2> SUFFICES ASSUME NEW s \in Sessions
               PROVE  cost[s] <= Cardinality(OfSession(records', s))
    BY <1>2 DEF CostWithinRecords, OfSession
  <2>1. cost[s] \in Nat /\ cost[s] <= Cardinality(OfSession(records, s))
    BY DEF BooksInv, BooksTypes, CostWithinRecords, OfSession
  <2>2. /\ Cardinality(OfSession(records, s)) \in Nat /\ Cardinality(OfSession(records', s)) \in Nat
        /\ Cardinality(OfSession(records, s)) <= Cardinality(OfSession(records', s))
    BY <1>3, MoreRecordsMoreCost
  <2> QED BY <2>1, <2>2
<1>6. ASSUME NEW r \in Renders PROVE RenderInv(r)'
  <2>1. RenderInv(r)
    BY DEF BooksInv
  <2>2. Coming(r) \subseteq Coming(r)' /\ Coming(r)' \subseteq records'
    BY <1>2, <1>3, <2>1 DEF Coming, RenderInv
  <2>3. IsFiniteSet(Coming(r)')
    BY <1>3, <2>2, FS_Subset
  <2>4. ASSUME NEW s \in Sessions, cost[s] <= Cardinality(OfSession(Coming(r), s))
        PROVE  cost[s] <= Cardinality(OfSession(Coming(r)', s))
    <3>1. /\ Cardinality(OfSession(Coming(r), s)) \in Nat
          /\ Cardinality(OfSession(Coming(r)', s)) \in Nat
          /\ Cardinality(OfSession(Coming(r), s)) <= Cardinality(OfSession(Coming(r)', s))
      BY <2>2, <2>3, MoreRecordsMoreCost
    <3> QED BY <2>4, <3>1 DEF BooksInv, BooksTypes
  <2>5. \A s : OfSession(Coming(r), s)' = OfSession(Coming(r)', s)
    BY DEF OfSession
  <2> QED BY <1>2, <1>3, <2>1, <2>4, <2>5 DEF RenderInv
<1> QED BY <1>4, <1>5, <1>6 DEF BooksInv

\* A step of one render that leaves the records and the costs alone.
LEMMA RenderKeeps ==
  ASSUME BooksInv, UNCHANGED <<records, cost>>, taken' \in Nat, HourlyUnlessBypassed',
         render' \in [Renders -> RenderRecords], \A r \in Renders : RenderInv(r)'
  PROVE  BooksInv'
BY DEF BooksInv, BooksTypes, CostWithinRecords

LEMMA HourPassesInvariant == BooksInv /\ HourPasses => BooksInv'
<1> SUFFICES ASSUME BooksInv, HourPasses PROVE BooksInv'
  OBVIOUS
<1>1. /\ UNCHANGED <<records, cost, render>> /\ taken' = 0 /\ bypassed' = {}
      /\ \A r \in Renders : render[r].where = "closed"
  BY DEF HourPasses
<1>2. \A r \in Renders : RenderInv(r)'
  BY <1>1 DEF BooksInv, RenderInv
<1> QED BY <1>1, <1>2, RenderKeeps DEF BooksInv, BooksTypes, HourlyUnlessBypassed

LEMMA OpenPageInvariant == ASSUME NEW r \in Renders PROVE BooksInv /\ OpenPage(r) => BooksInv'
<1> SUFFICES ASSUME BooksInv, OpenPage(r) PROVE BooksInv'
  OBVIOUS
<1> DEFINE p == [where |-> "listing", listed |-> {}, left |-> RecordTypes]
<1>1. /\ render' = [render EXCEPT ![r] = p] /\ bypassed' = bypassed \ {r}
      /\ UNCHANGED <<records, cost, taken>> /\ taken = 0
  BY DEF OpenPage, Due
<1>2. p \in RenderRecords
  BY DEF RenderRecords
<1>3. render'[r] = p /\ \A q \in Renders \ {r} : render'[q] = render[q]
  BY <1>1 DEF BooksInv, BooksTypes
<1>4. RenderInv(r)'
  <2>1. Coming(r)' = records
    BY <1>1, <1>3 DEF Coming, BooksInv, BooksTypes
  <2>2. \A s \in Sessions : cost'[s] <= Cardinality(OfSession(Coming(r), s)')
    BY <1>1, <2>1 DEF BooksInv, CostWithinRecords, OfSession
  <2> QED BY <1>1, <1>3, <2>2 DEF RenderInv
<1>5. ASSUME NEW q \in Renders \ {r} PROVE RenderInv(q)'
  <2>1. RenderInv(q) /\ \A s : OfSession(Coming(q), s)' = OfSession(Coming(q), s)
    BY <1>1, <1>3 DEF BooksInv, OfSession, Coming
  <2> QED BY <1>1, <1>3, <2>1 DEF RenderInv
<1> QED BY <1>1, <1>2, <1>4, <1>5, RenderKeeps DEF BooksInv, BooksTypes, HourlyUnlessBypassed

LEMMA ListRecordsInvariant ==
  ASSUME NEW r \in Renders PROVE BooksInv /\ ListRecords(r) => BooksInv'
<1> SUFFICES ASSUME BooksInv, ListRecords(r) PROVE BooksInv'
  OBVIOUS
<1>1. PICK t \in render[r].left :
        render' = [render EXCEPT ![r].left = @ \ {t},
                                 ![r].listed = @ \cup {q \in records : q[2] = t}]
  BY DEF ListRecords
<1> DEFINE p == [render[r] EXCEPT !.left = @ \ {t}, !.listed = @ \cup {q \in records : q[2] = t}]
<1>2. render[r] \in RenderRecords /\ records \subseteq Sessions \X RecordTypes
  BY DEF BooksInv, BooksTypes
<1>3. /\ p \in RenderRecords /\ p.where = render[r].where /\ p.left = render[r].left \ {t}
      /\ p.listed = render[r].listed \cup {q \in records : q[2] = t}
  BY <1>2 DEF RenderRecords
<1>4. render' = [render EXCEPT ![r] = p]
  BY <1>1
<1> HIDE DEF p
<1>5. UNCHANGED <<records, cost, taken, bypassed>>
  BY DEF ListRecords
<1>6. render'[r] = p /\ \A q \in Renders \ {r} : render'[q] = render[q]
  BY <1>4 DEF BooksInv, BooksTypes
<1>7. RenderInv(r)'
  <2>1. Coming(r)' = Coming(r)
    BY <1>1, <1>3, <1>5, <1>6 DEF Coming
  <2>2. \A s : OfSession(Coming(r), s)' = OfSession(Coming(r), s)
    BY <2>1 DEF OfSession
  <2>3. RenderInv(r)
    BY DEF BooksInv
  <2> QED BY <1>3, <1>5, <1>6, <2>2, <2>3 DEF RenderInv
<1>8. ASSUME NEW q \in Renders \ {r} PROVE RenderInv(q)'
  <2>1. RenderInv(q) /\ \A s : OfSession(Coming(q), s)' = OfSession(Coming(q), s)
    BY <1>5, <1>6 DEF BooksInv, OfSession, Coming
  <2> QED BY <1>5, <1>6, <2>1 DEF RenderInv
<1> QED BY <1>3, <1>4, <1>5, <1>7, <1>8, RenderKeeps DEF BooksInv, BooksTypes, HourlyUnlessBypassed

\* A render that gives its sync up or dies lists nothing any more.
LEMMA LeavingInvariant ==
  ASSUME NEW r \in Renders PROVE BooksInv /\ (ListingRaises(r) \/ PageDies(r)) => BooksInv'
<1> SUFFICES ASSUME BooksInv, ListingRaises(r) \/ PageDies(r) PROVE BooksInv'
  OBVIOUS
<1>1. UNCHANGED <<records, cost, taken, bypassed>>
  BY DEF ListingRaises, PageDies
<1>2. render[r] \in RenderRecords /\ RenderInv(r)
  BY DEF BooksInv, BooksTypes
<1>3. PICK p \in RenderRecords :
        /\ render' = [render EXCEPT ![r] = p] /\ p.where # "listing"
        /\ p.where # "closed" => render[r].where # "closed"
        /\ p.listed \subseteq render[r].listed
  <2>1. CASE ListingRaises(r)
    <3> DEFINE p == [render[r] EXCEPT !.where = "given up"]
    <3>1. p \in RenderRecords /\ p.where = "given up" /\ p.listed = render[r].listed
      BY <1>2 DEF RenderRecords
    <3>2. render' = [render EXCEPT ![r] = p] /\ render[r].where = "listing"
      BY <2>1 DEF ListingRaises
    <3> HIDE DEF p
    <3> QED BY <3>1, <3>2
  <2>2. CASE PageDies(r)
    <3>1. Closed \in RenderRecords /\ Closed.where = "closed" /\ Closed.listed = {}
      BY DEF Closed, RenderRecords
    <3> QED BY <2>2, <3>1 DEF PageDies
  <2> QED BY <2>1, <2>2
<1>4. render'[r] = p /\ \A q \in Renders \ {r} : render'[q] = render[q]
  BY <1>3 DEF BooksInv, BooksTypes
<1>5. RenderInv(r)'
  BY <1>1, <1>2, <1>3, <1>4 DEF RenderInv
<1>6. ASSUME NEW q \in Renders \ {r} PROVE RenderInv(q)'
  <2>1. RenderInv(q) /\ \A s : OfSession(Coming(q), s)' = OfSession(Coming(q), s)
    BY <1>1, <1>4 DEF BooksInv, OfSession, Coming
  <2> QED BY <1>1, <1>4, <2>1 DEF RenderInv
<1> QED BY <1>1, <1>3, <1>5, <1>6, RenderKeeps DEF BooksInv, BooksTypes, HourlyUnlessBypassed

LEMMA EndPageInvariant == ASSUME NEW r \in Renders PROVE BooksInv /\ EndPage(r) => BooksInv'
<1> SUFFICES ASSUME BooksInv, EndPage(r) PROVE BooksInv'
  OBVIOUS
<1>1. /\ render' = [render EXCEPT ![r] = Closed] /\ taken' = taken + 1
      /\ bypassed' = bypassed \cup {q \in Renders \ {r} : render[q].where # "closed"}
      /\ records' = records
  BY DEF EndPage
<1>2. Closed \in RenderRecords /\ Closed.where = "closed" /\ Closed.listed = {}
  BY DEF Closed, RenderRecords
<1>3. render'[r] = Closed /\ \A q \in Renders \ {r} : render'[q] = render[q]
  BY <1>1 DEF BooksInv, BooksTypes
<1>4. \A s \in Sessions :
        /\ cost'[s] \in Nat
        /\ cost'[s] <= Cardinality(OfSession(records, s))
  <2> SUFFICES ASSUME NEW s \in Sessions
               PROVE  cost'[s] \in Nat /\ cost'[s] <= Cardinality(OfSession(records, s))
    OBVIOUS
  <2>1. cost[s] \in Nat /\ cost[s] <= Cardinality(OfSession(records, s))
    BY DEF BooksInv, BooksTypes, CostWithinRecords, OfSession
  <2>2. render[r].listed \subseteq records /\ IsFiniteSet(records)
    BY DEF BooksInv, BooksTypes, RenderInv
  <2>3. /\ Cardinality(OfSession(render[r].listed, s)) \in Nat
        /\ Cardinality(OfSession(render[r].listed, s)) <= Cardinality(OfSession(records, s))
    BY <2>2, MoreRecordsMoreCost
  <2>4. cost'[s] = cost[s] \/ cost'[s] = Cardinality(OfSession(render[r].listed, s))
    BY DEF EndPage, EndSync, GiveUpSync, Total, OfSession
  <2> QED BY <2>1, <2>3, <2>4
<1>5. cost' \in [Sessions -> Nat]
  <2>1. cost' = [s \in Sessions |-> cost'[s]]
    BY DEF EndPage, EndSync, GiveUpSync, BooksInv, BooksTypes
  <2> QED BY <1>4, <2>1
<1>6. BooksTypes' /\ CostWithinRecords'
  BY <1>1, <1>2, <1>4, <1>5 DEF BooksInv, BooksTypes, CostWithinRecords, OfSession
<1>7. HourlyUnlessBypassed'
  <2>1. render[r].where # "closed"
    BY DEF EndPage, EndSync, GiveUpSync
  <2>2. taken > 0 => r \in bypassed
    BY <2>1 DEF BooksInv, RenderInv
  <2> QED BY <1>1, <2>2 DEF HourlyUnlessBypassed, BooksInv, BooksTypes
<1>8. ASSUME NEW q \in Renders PROVE RenderInv(q)'
  <2>1. CASE q = r
    BY <1>2, <1>3, <2>1 DEF RenderInv
  <2>2. CASE q # r
    <3>1. render'[q] = render[q] /\ RenderInv(q)
      BY <1>3, <2>2 DEF BooksInv
    <3>2. render'[q].where # "closed" => q \in bypassed'
      BY <1>1, <2>2, <3>1
    <3> QED BY <1>1, <3>1, <3>2 DEF RenderInv
  <2> QED BY <2>1, <2>2
<1> QED BY <1>6, <1>7, <1>8 DEF BooksInv

LEMMA BooksNextInvariant == BooksInv /\ [BooksNext]_booksVars => BooksInv'
<1> SUFFICES ASSUME BooksInv, [BooksNext]_booksVars PROVE BooksInv'
  OBVIOUS
<1>1. CASE MarkInvoice \/ UNCHANGED booksVars
  <2>1. UNCHANGED <<records, cost, taken, render, bypassed>>
    BY <1>1 DEF MarkInvoice, booksVars
  <2> QED BY <2>1 DEF BooksInv, BooksTypes, CostWithinRecords, HourlyUnlessBypassed, RenderInv,
                      OfSession, Coming
<1> QED BY <1>1, RecordAppearsInvariant, HourPassesInvariant, OpenPageInvariant,
           ListRecordsInvariant, LeavingInvariant, EndPageInvariant DEF BooksNext

LEMMA BooksInvariant == BooksSpec => []BooksInv
BY BooksInit0, BooksNextInvariant, PTL DEF BooksSpec

\* However often and beside each other syncs run, a call's cost never exceeds its records
\* (sync_costs: "idempotent").
THEOREM CostsAreRecorded == BooksSpec => []CostWithinRecords
<1>1. BooksInv => CostWithinRecords
  BY DEF BooksInv
<1> QED BY <1>1, BooksInvariant, PTL

\* A second snapshot and sync in an hour needs two renders that overlapped
\* (balance_overview reads the last snapshot and inserts its own in one transaction).
THEOREM SnapshotsAreHourly == BooksSpec => []HourlyUnlessBypassed
<1>1. BooksInv => HourlyUnlessBypassed
  BY DEF BooksInv
<1> QED BY <1>1, BooksInvariant, PTL

\* A call's cost falls only when a slower sync commits what it had listed before a faster
\* one ("a record that arrived late simply raises the total on the next sync").
THEOREM CostsFallOnlyBehind == BooksSpec => [][CostFallsOnlyIfBypassed]_booksVars
<1>1. BooksInv /\ [BooksNext]_booksVars => [CostFallsOnlyIfBypassed]_booksVars
  <2> SUFFICES ASSUME BooksInv, BooksNext, NEW s \in Sessions, cost'[s] < cost[s]
               PROVE  \E r \in bypassed : render[r].where = "listing" /\ render'[r] = Closed
    BY DEF CostFallsOnlyIfBypassed
  <2>1. cost[s] \in Nat
    BY DEF BooksInv, BooksTypes
  <2>2. cost' # cost
    BY <2>1
  <2>3. PICK r \in Renders : EndPage(r) /\ EndSync(r)
    BY <2>2 DEF BooksNext, RecordAppears, HourPasses, MarkInvoice, OpenPage, ListRecords,
               ListingRaises, PageDies, EndPage, GiveUpSync
  <2>4. cost'[s] = cost[s] \/ cost'[s] = Cardinality(OfSession(render[r].listed, s))
    BY <2>3 DEF EndSync, Total, OfSession
  <2>5. Coming(r) = render[r].listed /\ render[r].where = "listing"
    BY <2>3 DEF EndSync, Coming
  <2>6. r \in bypassed
    <3> SUFFICES ASSUME r \notin bypassed PROVE FALSE
      OBVIOUS
    <3>1. cost[s] <= Cardinality(OfSession(render[r].listed, s))
      BY <2>5 DEF BooksInv, RenderInv
    <3>2. Cardinality(OfSession(render[r].listed, s)) \in Nat
      BY MoreRecordsMoreCost DEF BooksInv, BooksTypes, RenderInv
    <3> QED BY <2>1, <2>4, <3>1, <3>2
  <2>7. render'[r] = Closed
    BY <2>3 DEF EndPage, BooksInv, BooksTypes
  <2> QED BY <2>5, <2>6, <2>7
<1> QED BY <1>1, BooksInvariant, PTL DEF BooksSpec

\* Costs and snapshots under any number of overlapping renders (balance_overview,
\* sync_costs).
THEOREM CostsAlwaysFollow == BooksSpec => CostsFollowRecords
<1>1. /\ CostWithinRecords' /\ HourlyUnlessBypassed'
      /\ [CostFallsOnlyIfBypassed]_booksVars
      => [/\ CostWithinRecords' /\ HourlyUnlessBypassed'
          /\ CostFallsOnlyIfBypassed]_booksVars
  OBVIOUS
<1> QED BY <1>1, CostsAreRecorded, SnapshotsAreHourly, CostsFallOnlyBehind, PTL DEF CostsFollowRecords

-----------------------------------------------------------------------------
(* Notify. Of the rows of a day, committed or not yet, an owner has one    *)
(* about a low wallet, and staff one that was not written beside another.  *)

NoteRecords ==
  [n : Nat, audience : Payers \cup {"staff"}, event : {"wallet_low", "client_wallet_low"},
   about : Payers \cup {"staff"}, age : {"today", "old"}]

SettleRecords ==
  [where : {"idle", "own", "staff", "told"}, wallet : Payers \cup {"staff"},
   rows : SUBSET NoteRecords]

NotifyTypes ==
  /\ notes \subseteq NoteRecords /\ written \in Nat
  /\ settling \in [Settlers -> SettleRecords]

SettleInv(s) ==
  /\ settling[s].where = "idle" => settling[s] = Idle
  /\ settling[s].where # "idle" => settling[s].wallet \in Payers
  /\ settling[s].where = "own" => settling[s].rows = {}
  /\ \A m \in settling[s].rows :
       m.age = "today" /\ m.audience \in {settling[s].wallet, "staff"}
  /\ settling[s].where \in {"staff", "told"} =>
       Recent(s, settling[s].wallet, "wallet_low") # {}
  /\ settling[s].where = "told" => Recent(s, "staff", "client_wallet_low") # {}

LockInv ==
  \A s, t \in Settlers :
    s # t /\ settling[s].where # "idle" => settling[s].wallet # settling[t].wallet

AllRows == notes \cup UNION {settling[s].rows : s \in Settlers}
DayRows(to, event) == {m \in AllRows : m.audience = to /\ m.event = event /\ m.age = "today"}

OwnerOnce == \A p \in Payers : \A m, k \in DayRows(p, "wallet_low") : m = k
StaffOnce ==
  \A m, k \in DayRows("staff", "client_wallet_low") :
    m.n \notin besides /\ k.n \notin besides => m = k

NotifyInv ==
  NotifyTypes /\ (\A s \in Settlers : SettleInv(s)) /\ LockInv /\ OwnerOnce /\ StaffOnce

LEMMA NotifyInit0 == NotifyInit => NotifyInv
<1> SUFFICES ASSUME NotifyInit PROVE NotifyInv
  OBVIOUS
<1>1. /\ notes = {} /\ written = 0 /\ settling = [s \in Settlers |-> Idle]
      /\ Idle \in SettleRecords /\ Idle.where = "idle" /\ Idle.rows = {}
  BY DEF NotifyInit, Idle, SettleRecords
<1>2. AllRows = {}
  BY <1>1 DEF AllRows
<1>3. NotifyTypes
  BY <1>1 DEF NotifyTypes
<1>4. LockInv /\ \A s \in Settlers : SettleInv(s)
  BY <1>1 DEF SettleInv, LockInv
<1>5. OwnerOnce /\ StaffOnce
  BY <1>2 DEF OwnerOnce, StaffOnce, DayRows
<1> QED BY <1>3, <1>4, <1>5 DEF NotifyInv

\* Facts about a settler that another settler's step leaves as they were.
LEMMA SettlerKeeps ==
  ASSUME NEW s, SettleInv(s), settling'[s] = settling[s], notes \subseteq notes'
  PROVE  SettleInv(s)'
BY DEF SettleInv, Recent, Seen

LEMMA SettleInvariant ==
  ASSUME NEW s \in Settlers, NEW p \in Payers
  PROVE  NotifyInv /\ Settle(s, p) => NotifyInv'
<1> SUFFICES ASSUME NotifyInv, Settle(s, p) PROVE NotifyInv'
  OBVIOUS
<1> DEFINE x == [Idle EXCEPT !.where = "own", !.wallet = p]
<1>1. x \in SettleRecords /\ x.where = "own" /\ x.wallet = p /\ x.rows = {}
  BY DEF Idle, SettleRecords
<1>2. /\ settling' = [settling EXCEPT ![s] = x] /\ UNCHANGED <<notes, written, besides>>
      /\ settling[s].where = "idle" /\ \A t \in Settlers : settling[t].wallet # p
  BY DEF Settle
<1> HIDE DEF x
<1>3. settling'[s] = x /\ \A t \in Settlers \ {s} : settling'[t] = settling[t]
  BY <1>2 DEF NotifyInv, NotifyTypes
<1>4. NotifyTypes'
  BY <1>1, <1>2 DEF NotifyInv, NotifyTypes
<1>5. ASSUME NEW t \in Settlers PROVE SettleInv(t)'
  <2>1. CASE t = s
    BY <1>1, <1>3, <2>1 DEF SettleInv
  <2>2. CASE t # s
    BY <1>2, <1>3, <2>2, SettlerKeeps DEF NotifyInv
  <2> QED BY <2>1, <2>2
<1>6. LockInv'
  BY <1>1, <1>2, <1>3 DEF NotifyInv, LockInv
<1>7. AllRows' \subseteq AllRows
  BY <1>1, <1>2, <1>3 DEF AllRows
<1>8. OwnerOnce' /\ StaffOnce'
  BY <1>2, <1>7 DEF NotifyInv, OwnerOnce, StaffOnce, DayRows
<1> QED BY <1>4, <1>5, <1>6, <1>8 DEF NotifyInv

\* emit: the settler goes on, with or without a new row; a new row finds no row of its
\* day, audience and event among the committed and its own.
LEMMA Emitted ==
  ASSUME NotifyInv, NEW s \in Settlers, settling[s].where # "idle",
         NEW to \in {settling[s].wallet, "staff"},
         NEW event \in {"wallet_low", "client_wallet_low"},
         NEW next \in {"staff", "told"}, Emit(s, to, event, next)
  PROVE  /\ NotifyTypes'
         /\ UNCHANGED notes /\ \A t \in Settlers \ {s} : settling'[t] = settling[t]
         /\ settling'[s].where = next /\ settling'[s].wallet = settling[s].wallet
         /\ Recent(s, to, event)' # {}
         /\ \/ settling'[s].rows = settling[s].rows
            \/ \E m \in NoteRecords :
                 /\ m.audience = to /\ m.event = event /\ m.age = "today"
                 /\ settling'[s].rows = settling[s].rows \cup {m}
                 /\ Recent(s, to, event) = {}
<1>1. /\ settling[s] \in SettleRecords /\ settling[s].wallet \in Payers /\ written \in Nat
      /\ to \in Payers \cup {"staff"}
  BY DEF NotifyInv, NotifyTypes, SettleInv
<1>2. UNCHANGED notes
  BY DEF Emit
<1>3. CASE Recent(s, to, event) # {}
  <2> DEFINE x == [settling[s] EXCEPT !.where = next]
  <2>1. /\ x \in SettleRecords /\ x.where = next /\ x.wallet = settling[s].wallet
        /\ x.rows = settling[s].rows
    BY <1>1 DEF SettleRecords
  <2>2. settling' = [settling EXCEPT ![s] = x] /\ UNCHANGED written
    BY <1>3 DEF Emit
  <2> HIDE DEF x
  <2>3. settling'[s] = x /\ \A t \in Settlers \ {s} : settling'[t] = settling[t]
    BY <2>2 DEF NotifyInv, NotifyTypes
  <2>4. NotifyTypes'
    BY <1>2, <2>1, <2>2 DEF NotifyInv, NotifyTypes
  <2>5. Recent(s, to, event)' = Recent(s, to, event)
    BY <1>2, <2>1, <2>3 DEF Recent, Seen
  <2> QED BY <1>2, <1>3, <2>1, <2>3, <2>4, <2>5
<1>4. CASE Recent(s, to, event) = {}
  <2> DEFINE m == Note(written + 1, to, event, settling[s].wallet)
             x == [settling[s] EXCEPT !.where = next, !.rows = @ \cup {m}]
  <2>1. m \in NoteRecords /\ m.audience = to /\ m.event = event /\ m.age = "today"
    BY <1>1 DEF Note, NoteRecords
  <2> HIDE DEF m
  <2>2. /\ x \in SettleRecords /\ x.where = next /\ x.wallet = settling[s].wallet
        /\ x.rows = settling[s].rows \cup {m}
    BY <1>1, <2>1 DEF SettleRecords
  <2>3. settling' = [settling EXCEPT ![s] = x] /\ written' = written + 1
    BY <1>4 DEF Emit, m
  <2> HIDE DEF x
  <2>4. settling'[s] = x /\ \A t \in Settlers \ {s} : settling'[t] = settling[t]
    BY <2>3 DEF NotifyInv, NotifyTypes
  <2>5. NotifyTypes'
    BY <1>1, <1>2, <2>2, <2>3 DEF NotifyInv, NotifyTypes
  <2>6. m \in Recent(s, to, event)'
    BY <2>1, <2>2, <2>4 DEF Recent, Seen
  <2> QED BY <1>2, <1>4, <2>1, <2>2, <2>4, <2>5, <2>6
<1> QED BY <1>3, <1>4

LEMMA TellOwnerInvariant ==
  ASSUME NEW s \in Settlers PROVE NotifyInv /\ TellOwner(s) => NotifyInv'
<1> SUFFICES ASSUME NotifyInv, TellOwner(s) PROVE NotifyInv'
  OBVIOUS
<1> DEFINE p == settling[s].wallet
<1>1. /\ settling[s].where = "own" /\ Emit(s, p, "wallet_low", "staff") /\ besides' = besides
      /\ p \in Payers /\ settling[s].rows = {}
  BY DEF TellOwner, NotifyInv, SettleInv
<1>2. /\ NotifyTypes' /\ notes' = notes /\ \A t \in Settlers \ {s} : settling'[t] = settling[t]
      /\ settling'[s].where = "staff" /\ settling'[s].wallet = p
      /\ Recent(s, p, "wallet_low")' # {}
      /\ \/ settling'[s].rows = {}
         \/ \E m \in NoteRecords :
              /\ m.audience = p /\ m.event = "wallet_low" /\ m.age = "today"
              /\ settling'[s].rows = {m} /\ Recent(s, p, "wallet_low") = {}
  BY <1>1, Emitted
<1>3. ASSUME NEW t \in Settlers PROVE SettleInv(t)'
  <2>1. CASE t = s
    BY <1>1, <1>2, <2>1 DEF SettleInv
  <2>2. CASE t # s
    BY <1>2, <2>2, SettlerKeeps DEF NotifyInv
  <2> QED BY <2>1, <2>2
<1>4. LockInv'
  BY <1>1, <1>2 DEF NotifyInv, LockInv
<1>5. CASE settling'[s].rows = {}
  <2>1. AllRows' \subseteq AllRows
    BY <1>2, <1>5 DEF AllRows
  <2>2. OwnerOnce' /\ StaffOnce'
    BY <1>1, <2>1 DEF NotifyInv, OwnerOnce, StaffOnce, DayRows
  <2> QED BY <1>2, <1>3, <1>4, <2>2 DEF NotifyInv
<1>6. ASSUME NEW m \in NoteRecords, m.audience = p, m.event = "wallet_low",
             settling'[s].rows = {m}, Recent(s, p, "wallet_low") = {}
      PROVE  NotifyInv'
  <2>1. AllRows' \subseteq AllRows \cup {m}
    BY <1>2, <1>6 DEF AllRows
  <2>2. DayRows(p, "wallet_low") = {}
    <3> SUFFICES ASSUME NEW k \in DayRows(p, "wallet_low") PROVE FALSE
      OBVIOUS
    <3>1. k.audience = p /\ k.event = "wallet_low" /\ k.age = "today"
      BY DEF DayRows
    <3>2. k \notin notes
      BY <3>1, <1>6 DEF Recent, Seen
    <3>3. PICK t \in Settlers : k \in settling[t].rows
      BY <3>2 DEF DayRows, AllRows
    <3>4. t # s
      BY <1>1, <3>3
    <3>5. settling[t].wallet # p
      BY <1>1, <3>4 DEF NotifyInv, LockInv
    <3>6. k.audience \in {settling[t].wallet, "staff"}
      BY <3>3 DEF NotifyInv, SettleInv
    <3> QED BY <1>1, <3>1, <3>5, <3>6, NotifyAssumption
  <2>3. OwnerOnce'
    BY <1>6, <2>1, <2>2 DEF NotifyInv, OwnerOnce, DayRows
  <2>4. StaffOnce'
    <3>1. DayRows("staff", "client_wallet_low")' \subseteq DayRows("staff", "client_wallet_low")
      BY <1>6, <2>1 DEF DayRows
    <3> QED BY <1>1, <3>1 DEF NotifyInv, StaffOnce
  <2> QED BY <1>2, <1>3, <1>4, <2>3, <2>4 DEF NotifyInv
<1> QED BY <1>2, <1>5, <1>6

LEMMA TellStaffInvariant ==
  ASSUME NEW s \in Settlers PROVE NotifyInv /\ TellStaff(s) => NotifyInv'
<1> SUFFICES ASSUME NotifyInv, TellStaff(s) PROVE NotifyInv'
  OBVIOUS
<1> DEFINE p == settling[s].wallet
           besideAnother ==
             \E t \in Settlers \ {s} : \E o \in settling[t].rows : o.audience = "staff"
<1>1. /\ settling[s].where = "staff" /\ Emit(s, "staff", "client_wallet_low", "told")
      /\ p \in Payers /\ Recent(s, p, "wallet_low") # {}
      /\ \A m \in settling[s].rows : m.age = "today" /\ m.audience \in {p, "staff"}
      /\ besides' = besides \cup
           {m.n : m \in {k \in settling'[s].rows : k.audience = "staff" /\ besideAnother}}
  BY DEF TellStaff, NotifyInv, SettleInv
<1>2. /\ NotifyTypes' /\ notes' = notes /\ \A t \in Settlers \ {s} : settling'[t] = settling[t]
      /\ settling'[s].where = "told" /\ settling'[s].wallet = p
      /\ Recent(s, "staff", "client_wallet_low")' # {}
      /\ \/ settling'[s].rows = settling[s].rows
         \/ \E m \in NoteRecords :
              /\ m.audience = "staff" /\ m.event = "client_wallet_low" /\ m.age = "today"
              /\ settling'[s].rows = settling[s].rows \cup {m}
              /\ Recent(s, "staff", "client_wallet_low") = {}
  BY <1>1, Emitted
<1>3. Recent(s, p, "wallet_low")' # {}
  <2>1. settling[s].rows \subseteq settling'[s].rows
    BY <1>2
  <2>2. Recent(s, p, "wallet_low") \subseteq Recent(s, p, "wallet_low")'
    BY <1>2, <2>1 DEF Recent, Seen
  <2> QED BY <1>1, <2>2
<1>4. ASSUME NEW t \in Settlers PROVE SettleInv(t)'
  <2>1. CASE t = s
    BY <1>1, <1>2, <1>3, <2>1 DEF SettleInv
  <2>2. CASE t # s
    BY <1>2, <2>2, SettlerKeeps DEF NotifyInv
  <2> QED BY <2>1, <2>2
<1>5. LockInv'
  BY <1>1, <1>2 DEF NotifyInv, LockInv
<1>6. besides \subseteq besides'
  BY <1>1
<1> HIDE DEF p
<1>7. CASE settling'[s].rows = settling[s].rows
  <2>1. AllRows' \subseteq AllRows
    BY <1>2, <1>7 DEF AllRows
  <2>2. OwnerOnce' /\ StaffOnce'
    BY <1>6, <2>1 DEF NotifyInv, OwnerOnce, StaffOnce, DayRows
  <2> QED BY <1>2, <1>4, <1>5, <2>2 DEF NotifyInv
<1>8. ASSUME NEW m \in NoteRecords, m.audience = "staff", m.event = "client_wallet_low",
             settling'[s].rows = settling[s].rows \cup {m},
             Recent(s, "staff", "client_wallet_low") = {}
      PROVE  NotifyInv'
  <2>1. AllRows' \subseteq AllRows \cup {m}
    BY <1>2, <1>8 DEF AllRows
  <2>2. OwnerOnce'
    <3>1. \A q \in Payers : \A k \in DayRows(q, "wallet_low")' : k \in DayRows(q, "wallet_low")
      BY <1>8, <2>1, NotifyAssumption DEF DayRows
    <3> QED BY <3>1 DEF NotifyInv, OwnerOnce
  <2>3. CASE m.n \in besides'
    <3>1. \A k \in DayRows("staff", "client_wallet_low")' :
            k.n \notin besides' => k \in DayRows("staff", "client_wallet_low")
      BY <2>1, <2>3 DEF DayRows
    <3>2. StaffOnce'
      BY <1>6, <3>1 DEF NotifyInv, StaffOnce
    <3> QED BY <1>2, <1>4, <1>5, <2>2, <3>2 DEF NotifyInv
  <2>4. CASE m.n \notin besides'
    <3>1. ~ besideAnother
      BY <1>1, <1>8, <2>4
    <3>2. DayRows("staff", "client_wallet_low") = {}
      <4> SUFFICES ASSUME NEW k \in DayRows("staff", "client_wallet_low") PROVE FALSE
        OBVIOUS
      <4>1. k.audience = "staff" /\ k.event = "client_wallet_low" /\ k.age = "today"
        BY DEF DayRows
      <4>2. k \notin notes /\ k \notin settling[s].rows
        BY <4>1, <1>8 DEF Recent, Seen
      <4>3. PICK t \in Settlers : k \in settling[t].rows
        BY <4>2 DEF DayRows, AllRows
      <4> QED BY <3>1, <4>1, <4>2, <4>3
    <3>3. StaffOnce'
      BY <2>1, <3>2 DEF StaffOnce, DayRows
    <3> QED BY <1>2, <1>4, <1>5, <2>2, <3>3 DEF NotifyInv
  <2> QED BY <2>3, <2>4
<1> QED BY <1>2, <1>7, <1>8

LEMMA EndOfSettlingInvariant ==
  ASSUME NEW s \in Settlers
  PROVE  NotifyInv /\ (CommitSettle(s) \/ RollBackSettle(s)) => NotifyInv'
<1> SUFFICES ASSUME NotifyInv, CommitSettle(s) \/ RollBackSettle(s) PROVE NotifyInv'
  OBVIOUS
<1>1. /\ settling' = [settling EXCEPT ![s] = Idle] /\ UNCHANGED <<written, besides>>
      /\ notes \subseteq notes' /\ notes' \subseteq notes \cup settling[s].rows
  BY DEF CommitSettle, RollBackSettle
<1>2. Idle \in SettleRecords /\ Idle.where = "idle" /\ Idle.rows = {} /\ Idle.wallet = "staff"
  BY DEF Idle, SettleRecords
<1>3. settling'[s] = Idle /\ \A t \in Settlers \ {s} : settling'[t] = settling[t]
  BY <1>1 DEF NotifyInv, NotifyTypes
<1>4. NotifyTypes'
  BY <1>1, <1>2 DEF NotifyInv, NotifyTypes, SettleRecords
<1>5. ASSUME NEW t \in Settlers PROVE SettleInv(t)'
  <2>1. CASE t = s
    BY <1>2, <1>3, <2>1 DEF SettleInv
  <2>2. CASE t # s
    BY <1>1, <1>3, <2>2, SettlerKeeps DEF NotifyInv
  <2> QED BY <2>1, <2>2
<1>6. LockInv'
  BY <1>2, <1>3, NotifyAssumption DEF NotifyInv, LockInv, SettleInv
<1>7. AllRows' \subseteq AllRows
  BY <1>1, <1>2, <1>3 DEF AllRows
<1>8. OwnerOnce' /\ StaffOnce'
  BY <1>1, <1>7 DEF NotifyInv, OwnerOnce, StaffOnce, DayRows
<1> QED BY <1>4, <1>5, <1>6, <1>8 DEF NotifyInv

LEMMA DayPassesInvariant == NotifyInv /\ DayPasses => NotifyInv'
<1> SUFFICES ASSUME NotifyInv, DayPasses PROVE NotifyInv'
  OBVIOUS
<1>1. /\ \A s \in Settlers : settling[s].where = "idle"
      /\ notes' = {[m EXCEPT !.age = "old"] : m \in notes}
      /\ UNCHANGED <<written, settling, besides>>
  BY DEF DayPasses
<1>2. \A m \in notes : [m EXCEPT !.age = "old"] \in NoteRecords
                       /\ [m EXCEPT !.age = "old"].age = "old"
  <2> TAKE m \in notes
  <2>1. m \in NoteRecords
    BY DEF NotifyInv, NotifyTypes
  <2> QED BY <2>1 DEF NoteRecords
<1>3. notes' \subseteq NoteRecords /\ \A m \in notes' : m.age = "old"
  BY <1>1, <1>2
<1>4. NotifyTypes'
  BY <1>1, <1>3 DEF NotifyInv, NotifyTypes
<1>5. \A s \in Settlers : settling[s] = Idle /\ Idle.rows = {} /\ Idle.where = "idle"
  BY <1>1 DEF NotifyInv, SettleInv, Idle
<1>6. LockInv' /\ \A s \in Settlers : SettleInv(s)'
  BY <1>1, <1>5 DEF LockInv, SettleInv
<1>7. AllRows' = notes'
  BY <1>1, <1>5 DEF AllRows
<1>8. OwnerOnce' /\ StaffOnce'
  BY <1>3, <1>7 DEF OwnerOnce, StaffOnce, DayRows
<1> QED BY <1>4, <1>6, <1>8 DEF NotifyInv

LEMMA NotifyNextInvariant == NotifyInv /\ [NotifyNext]_notifyVars => NotifyInv'
<1> SUFFICES ASSUME NotifyInv, [NotifyNext]_notifyVars PROVE NotifyInv'
  OBVIOUS
<1>1. CASE \/ \E r \in Readers : MarkAllRead(r) \/ SetPref(r, "wallet_low")
           \/ UNCHANGED notifyVars
  <2>1. UNCHANGED <<notes, written, settling, besides>>
    BY <1>1 DEF MarkAllRead, SetPref, notifyVars
  <2> QED BY <2>1 DEF NotifyInv, NotifyTypes, SettleInv, Recent, Seen, LockInv, OwnerOnce,
                      StaffOnce, DayRows, AllRows
<1> QED BY <1>1, SettleInvariant, TellOwnerInvariant, TellStaffInvariant,
           EndOfSettlingInvariant, DayPassesInvariant DEF NotifyNext

LEMMA NotifyInvariant == NotifySpec => []NotifyInv
BY NotifyInit0, NotifyNextInvariant, PTL DEF NotifySpec

\* A set whose members are all equal has at most one.
\* An owner is told of a low wallet once a day and staff are told once, but for rows
\* written by settlements of other wallets beside the first (emit's count, then insert).
THEOREM ToldOnceADay == NotifySpec => []OncePerDay
<1>1. NotifyInv => OncePerDay
  <2> SUFFICES ASSUME NotifyInv PROVE OncePerDay
    OBVIOUS
  <2>1. ASSUME NEW p \in Payers PROVE Cardinality(Today(p, "wallet_low")) <= 1
    <3>1. Today(p, "wallet_low") \subseteq DayRows(p, "wallet_low")
      BY DEF Today, DayRows, AllRows
    <3> QED BY <3>1, AtMostOne DEF NotifyInv, OwnerOnce
  <2>2. Cardinality({m \in Today("staff", "client_wallet_low") : m.n \notin besides}) <= 1
    <3>1. Today("staff", "client_wallet_low") \subseteq DayRows("staff", "client_wallet_low")
      BY DEF Today, DayRows, AllRows
    <3> QED BY <3>1, AtMostOne DEF NotifyInv, StaffOnce
  <2> QED BY <2>1, <2>2 DEF OncePerDay
<1> QED BY <1>1, NotifyInvariant, PTL

\* A settlement that leaves a wallet low leaves its owner told that day, and staff told
\* that day of some wallet (_warn_if_wallet_low).
THEOREM LowWalletIsAlwaysTold == NotifySpec => [][LowWalletIsTold]_notifyVars
<1>1. NotifyInv /\ [NotifyNext]_notifyVars => [LowWalletIsTold]_notifyVars
  <2> SUFFICES ASSUME NotifyInv, NEW s \in Settlers, NEW p \in Payers,
                      CommitSettle(s), settling[s].wallet = p
               PROVE  /\ Today(p, "wallet_low")' # {}
                      /\ Today("staff", "client_wallet_low")' # {}
    BY DEF LowWalletIsTold
  <2>1. settling[s].where = "told" /\ notes' = notes \cup settling[s].rows
    BY DEF CommitSettle
  <2>2. /\ Recent(s, p, "wallet_low") # {} /\ Recent(s, "staff", "client_wallet_low") # {}
    BY <2>1 DEF NotifyInv, SettleInv
  <2>3. \A to, event : Today(to, event)' = Recent(s, to, event)
    BY <2>1 DEF Today, Recent, Seen
  <2> QED BY <2>2, <2>3
<1> QED BY <1>1, NotifyInvariant, PTL DEF NotifySpec
\* What one reader marks as read leaves the badge of every other reader as it was
\* (mark_all_read, "read state is per reader").
THEOREM BadgesAreApart == NotifySpec => [][BadgeIsOwn]_notifyVars
<1>1. [NotifyNext]_notifyVars => [BadgeIsOwn]_notifyVars
  <2> SUFFICES ASSUME NotifyNext, NEW r \in Readers, NEW q \in Readers, r # q,
                      readOf'[q] # readOf[q]
               PROVE  UnreadCount(r)' = UnreadCount(r)
    BY DEF BadgeIsOwn
  <2>1. PICK z \in Readers : MarkAllRead(z)
    BY DEF NotifyNext, Settle, TellOwner, TellStaff, Emit, CommitSettle, RollBackSettle,
           DayPasses, SetPref, readerVars
  <2>2. z = q
    BY <2>1 DEF MarkAllRead, ReaderAlone
  <2>3. readOf'[r] = readOf[r] /\ notes' = notes /\ mutedBy' = mutedBy
    BY <2>1, <2>2 DEF MarkAllRead, ReaderAlone
  <2> QED BY <2>3 DEF UnreadCount, Enabled, RowsFor
<1> QED BY <1>1, PTL DEF NotifySpec

\* The low-wallet notifications and their badges, for any wallets, settlements and
\* readers (_warn_if_wallet_low, emit, mark_all_read).
THEOREM ToldOnceAlways == NotifySpec => ToldOnce
<1>1. /\ OncePerDay'
      /\ [LowWalletIsTold]_notifyVars /\ [BadgeIsOwn]_notifyVars
      => [OncePerDay' /\ LowWalletIsTold /\ BadgeIsOwn]_notifyVars
  OBVIOUS
<1> QED BY <1>1, ToldOnceADay, LowWalletIsAlwaysTold, BadgesAreApart, PTL DEF ToldOnce
-----------------------------------------------------------------------------
(* Members. Ids are drawn in order and there are enough of them; what a    *)
(* request has read at its gate or its count is still so, or was removed   *)
(* by another request meanwhile.                                           *)

Gated == {"staff", "removing", "leaving"}
AtWork == {d \in Desks : stage[d] # "idle"}

Person == [email : Emails \cup {"none"}, client : Clients \cup {"none"},
           role : {"owner", "member", "none"}]
Cookie == [id : Ids, kind : {"staff", "user"}, entered : Clients \cup {"none"}]
Work == [actor : Ids \cup {0}, email : Emails \cup {"none"},
         target : Ids \cup {0}, saw : SUBSET Ids]

MembersTypes ==
  /\ person \in [Ids -> Person]
  /\ clients \subseteq Clients
  /\ cookies \subseteq Cookie
  /\ work \in [Desks -> Work]
  /\ stage \in [Desks -> Gated \cup {"idle", "looked", "owner"}]
  /\ lost \in [Desks -> SUBSET Ids]
  /\ \A d \in Desks : stage[d] = "looked" => work[d].email \in Emails

\* As many ids are used as people were added, and no more than requests have ended.
IdsInv ==
  /\ staff \subseteq Used /\ users \subseteq Used /\ made \in 0..MaxRequests
  /\ IsFiniteSet(AtWork)
  /\ \E k \in Nat : Used = 1..k /\ k + Cardinality(AtWork) <= 4 + made

DeskInv(d) ==
  /\ stage[d] \in Gated => work[d].actor \in staff \cup lost[d]
  /\ stage[d] = "owner" => work[d].actor \in staff \cup users \cup lost[d]
  /\ stage[d] = "removing" => work[d].target # work[d].actor /\ work[d].target \in Ids
  /\ stage[d] = "leaving" =>
       LET i == work[d].target IN
       /\ i \in Used
       /\ person[i].role = "owner" =>
            /\ work[d].saw \ {i} # {}
            /\ \A o \in work[d].saw :
                 /\ o \in Used /\ o \in users \cup lost[d]
                 /\ person[o].client = person[i].client /\ person[o].role = "owner"

MembersInv == MembersTypes /\ IdsInv /\ \A d \in Desks : DeskInv(d)

LEMMA NoWorkIsWork == NoWork \in Work
<1> QED BY DEF NoWork, Work

LEMMA MembersStart == MembersInit => MembersInv
<1> SUFFICES ASSUME MembersInit PROVE MembersInv
  OBVIOUS
<1>1. PICK mail \in [1..4 -> Emails], c \in Clients :
        /\ staff = {1, 2} /\ users = {3, 4} /\ clients = {c}
        /\ person = [i \in Ids |->
             IF i \in 1..4 THEN [email  |-> mail[i],
                                 client |-> IF i > 2 THEN c ELSE "none",
                                 role   |-> IF i > 2 THEN "owner" ELSE "none"]
             ELSE NoPerson]
        /\ cookies = {[id |-> i, kind |-> IF i > 2 THEN "user" ELSE "staff",
                       entered |-> "none"] : i \in 1..4}
        /\ work = [d \in Desks |-> NoWork] /\ stage = [d \in Desks |-> "idle"]
        /\ lost = [d \in Desks |-> {}] /\ made = 0
  BY DEF MembersInit
<1>2. 1..4 \subseteq Ids /\ MaxRequests \in Nat
  BY MembersAssumption DEF Ids
<1>3. MembersTypes
  <2>1. \A i \in Ids : person[i] \in Person
    BY <1>1 DEF NoPerson, Person
  <2>2. cookies \subseteq Cookie
    BY <1>1, <1>2 DEF Cookie
  <2> QED BY <1>1, <2>1, <2>2, NoWorkIsWork DEF MembersTypes
<1>4. Used = 1..4
  <2>1. \A i \in 1..4 : person[i].email \in Emails
    BY <1>1, <1>2
  <2>2. \A i \in 1..4 : person[i] # NoPerson
    BY <2>1, MembersAssumption DEF NoPerson
  <2>3. \A i \in Ids \ 1..4 : person[i] = NoPerson
    BY <1>1
  <2> QED BY <1>2, <2>2, <2>3 DEF Used
<1>5. AtWork = {}
  BY <1>1 DEF AtWork
<1>6. IdsInv
  BY <1>1, <1>2, <1>4, <1>5, FS_EmptySet DEF IdsInv
<1>7. \A d \in Desks : DeskInv(d)
  BY <1>1 DEF DeskInv, Gated
<1> QED BY <1>3, <1>6, <1>7 DEF MembersInv

\* The next id is free while somebody is at work.
LEMMA FreshId ==
  ASSUME MembersInv, NEW d \in Desks, stage[d] # "idle"
  PROVE  /\ Fresh \in Ids /\ Fresh \notin Used
         /\ \E k \in Nat : Used = 1..k /\ Fresh = k + 1
                           /\ k + Cardinality(AtWork) <= 4 + made
<1>1. PICK k \in Nat : Used = 1..k /\ k + Cardinality(AtWork) <= 4 + made
  BY DEF MembersInv, IdsInv
<1>2. Cardinality(Used) = k
  BY <1>1, FS_Interval
<1>3. Cardinality(AtWork) \in Nat /\ Cardinality(AtWork) # 0
  BY FS_EmptySet, FS_CardinalityType DEF MembersInv, IdsInv, AtWork
<1> QED BY <1>1, <1>2, <1>3, MembersAssumption DEF Fresh, Ids, MembersInv, IdsInv

\* Requests come and go.
LEMMA OneMoreAtWork ==
  ASSUME MembersInv, NEW d \in Desks, NEW to \in Gated \cup {"looked", "owner"}, Begins(d, to),
         staff' \subseteq Used, users' \subseteq Used, UNCHANGED person
  PROVE  IdsInv'
<1>1. AtWork' = AtWork \cup {d} /\ d \notin AtWork
  BY DEF MembersInv, MembersTypes, Begins, AtWork, Gated
<1>2. IsFiniteSet(AtWork') /\ Cardinality(AtWork') = Cardinality(AtWork) + 1
  BY <1>1, FS_AddElement DEF MembersInv, IdsInv
<1>3. made' = made + 1 /\ made' \in 0..MaxRequests /\ made \in Nat
  BY MembersAssumption DEF Begins, MembersInv, IdsInv
<1>4. Used' = Used
  BY DEF Used
<1>5. Cardinality(AtWork) \in Nat
  BY FS_CardinalityType DEF MembersInv, IdsInv
<1>6. PICK k \in Nat : Used = 1..k /\ k + Cardinality(AtWork) <= 4 + made
  BY DEF MembersInv, IdsInv
<1>7. k + Cardinality(AtWork') <= 4 + made'
  BY <1>2, <1>3, <1>5, <1>6
<1> QED BY <1>2, <1>3, <1>4, <1>6, <1>7 DEF IdsInv

LEMMA OneLessAtWork ==
  ASSUME MembersInv, NEW d \in Desks, NEW from \in Gated \cup {"looked", "owner"}, Ends(d, from)
  PROVE  /\ IsFiniteSet(AtWork') /\ Cardinality(AtWork') = Cardinality(AtWork) - 1
         /\ Cardinality(AtWork) \in Nat /\ Cardinality(AtWork') \in Nat /\ made' = made
<1>1. AtWork' = AtWork \ {d} /\ d \in AtWork
  BY DEF MembersInv, MembersTypes, Ends, Step, AtWork, Gated
<1>2. IsFiniteSet(AtWork)
  BY DEF MembersInv, IdsInv
<1>3. IsFiniteSet(AtWork') /\ Cardinality(AtWork') = Cardinality(AtWork) - 1
  BY <1>1, <1>2, FS_RemoveElement
<1> QED BY <1>2, <1>3, FS_CardinalityType DEF Ends, Step

PeopleKept == \A o \in Used : o \in Used' /\ person'[o] = person[o]

\* What the other requests relied on is there, or they have lost it.
NobodyUnseen(d) ==
  \A f \in Desks \ {d} :
    /\ staff \subseteq staff' \cup lost'[f] /\ users \subseteq users' \cup lost'[f]
    /\ lost[f] \subseteq lost'[f] /\ stage'[f] = stage[f] /\ work'[f] = work[f]

LEMMA OtherDesks ==
  ASSUME MembersInv, NEW d \in Desks, PeopleKept, NobodyUnseen(d), NEW f \in Desks \ {d}
  PROVE  DeskInv(f)'
<1>1. /\ staff \subseteq staff' \cup lost'[f] /\ users \subseteq users' \cup lost'[f]
      /\ lost[f] \subseteq lost'[f] /\ stage'[f] = stage[f] /\ work'[f] = work[f]
  BY DEF NobodyUnseen
<1>2. DeskInv(f)
  BY DEF MembersInv
<1>3. stage[f] \in Gated => work[f].actor \in staff' \cup lost'[f]
  BY <1>1, <1>2 DEF DeskInv
<1>4. stage[f] = "owner" => work[f].actor \in staff' \cup users' \cup lost'[f]
  BY <1>1, <1>2 DEF DeskInv
<1>5. stage[f] = "removing" => work[f].target # work[f].actor /\ work[f].target \in Ids
  BY <1>2 DEF DeskInv
<1>6. ASSUME stage[f] = "leaving"
      PROVE  /\ work[f].target \in Used'
             /\ person'[work[f].target].role = "owner" =>
                  /\ work[f].saw \ {work[f].target} # {}
                  /\ \A o \in work[f].saw :
                       /\ o \in Used' /\ o \in users' \cup lost'[f]
                       /\ person'[o].client = person'[work[f].target].client
                       /\ person'[o].role = "owner"
  <2>1. work[f].target \in Used /\ person'[work[f].target] = person[work[f].target]
    BY <1>2, <1>6 DEF DeskInv, PeopleKept
  <2>2. ASSUME person[work[f].target].role = "owner", NEW o \in work[f].saw
        PROVE  /\ o \in Used /\ o \in users \cup lost[f]
               /\ person[o].client = person[work[f].target].client
               /\ person[o].role = "owner"
    BY <1>2, <1>6, <2>2 DEF DeskInv
  <2>3. person[work[f].target].role = "owner" => work[f].saw \ {work[f].target} # {}
    BY <1>2, <1>6 DEF DeskInv
  <2> QED BY <1>1, <2>1, <2>2, <2>3 DEF PeopleKept
<1> QED BY <1>1, <1>3, <1>4, <1>5, <1>6 DEF DeskInv

\* A request that ends keeps the invariant if it adds or removes people as it should.
LEMMA EndingKeeps ==
  ASSUME MembersInv, NEW d \in Desks, NEW from \in Gated \cup {"looked", "owner"},
         Ends(d, from), PeopleKept, NobodyUnseen(d), IdsInv',
         person' \in [Ids -> Person],
         clients' \subseteq Clients, lost' \in [Desks -> SUBSET Ids],
         cookies' \subseteq Cookie
  PROVE  MembersInv'
<1>1. /\ stage' = [stage EXCEPT ![d] = "idle"] /\ work' = [work EXCEPT ![d] = NoWork]
  BY DEF Ends, Step
<1>2. NoWork \in Work
  BY NoWorkIsWork
<1>3. MembersTypes'
  BY <1>1, <1>2 DEF MembersInv, MembersTypes, Gated
<1>4. DeskInv(d)'
  BY <1>1 DEF DeskInv, Gated, MembersInv, MembersTypes
<1> QED BY <1>3, <1>4, OtherDesks DEF MembersInv

\* Nobody comes or goes.
LEMMA QuietEnd ==
  ASSUME MembersInv, NEW d \in Desks, NEW from \in Gated \cup {"looked", "owner"},
         Ends(d, from), UNCHANGED <<staff, users, person, clients, lost>>,
         cookies' \subseteq Cookie
  PROVE  MembersInv'
<1>1. IdsInv'
  <2>1. Used' = Used
    BY DEF Used
  <2> QED BY <2>1, OneLessAtWork DEF MembersInv, IdsInv
<1>2. PeopleKept /\ NobodyUnseen(d)
  BY DEF PeopleKept, NobodyUnseen, Used, Ends, Step, MembersInv, MembersTypes
<1> QED BY <1>1, <1>2, EndingKeeps DEF MembersInv, MembersTypes

\* Somebody goes, and the others have lost them.
LEMMA RemovingEnd ==
  ASSUME MembersInv, NEW d \in Desks, NEW from \in Gated, Ends(d, from), NEW i \in Ids,
         \/ staff' = staff /\ users' = users \ {i}
         \/ users' = users /\ staff' = staff \ {i},
         Removed(d, i), UNCHANGED <<person, clients, cookies>>
  PROVE  MembersInv'
<1>1. lost' = [f \in Desks |-> IF f = d THEN lost[f] ELSE lost[f] \cup {i}]
  BY DEF Removed
<1>2. lost' \in [Desks -> SUBSET Ids]
  BY <1>1 DEF MembersInv, MembersTypes
<1>3. IdsInv'
  <2>1. Used' = Used
    BY DEF Used
  <2>2. IsFiniteSet(AtWork') /\ Cardinality(AtWork') = Cardinality(AtWork) - 1
        /\ Cardinality(AtWork) \in Nat /\ made' = made
    BY OneLessAtWork
  <2>3. staff' \subseteq Used' /\ users' \subseteq Used' /\ made' \in 0..MaxRequests
    BY <2>1, <2>2 DEF MembersInv, IdsInv
  <2>4. PICK k \in Nat : Used = 1..k /\ k + Cardinality(AtWork) <= 4 + made
    BY DEF MembersInv, IdsInv
  <2>5. k + Cardinality(AtWork') <= 4 + made'
    BY <2>2, <2>4 DEF MembersInv, IdsInv
  <2> QED BY <2>1, <2>2, <2>3, <2>4, <2>5 DEF IdsInv
<1>4. PeopleKept /\ NobodyUnseen(d)
  BY <1>1 DEF PeopleKept, NobodyUnseen, Used, Ends, Step, MembersInv, MembersTypes
<1> QED BY <1>2, <1>3, <1>4, EndingKeeps DEF MembersInv, MembersTypes

\* Somebody comes.
LEMMA InsertingEnd ==
  ASSUME MembersInv, NEW d \in Desks, NEW from \in Gated \cup {"looked"}, Ends(d, from),
         NEW e \in Emails, NEW c \in Clients \cup {"none"}, NEW r \in {"owner", "member", "none"},
         Insert(e, c, r), UNCHANGED lost, clients' \subseteq Clients,
         \/ staff' = staff /\ users' = users \cup {Fresh}
         \/ users' = users /\ staff' = staff \cup {Fresh},
         cookies' \subseteq Cookie
  PROVE  MembersInv'
<1>1. stage[d] # "idle"
  BY DEF Ends, Step, Gated
<1>2. PICK k \in Nat : /\ Used = 1..k /\ Fresh = k + 1 /\ Fresh \in Ids /\ Fresh \notin Used
                       /\ k + Cardinality(AtWork) <= 4 + made
  BY <1>1, FreshId
<1>3. person' = [person EXCEPT ![Fresh] = [email |-> e, client |-> c, role |-> r]]
  BY DEF Insert
<1>4. person \in [Ids -> Person]
  BY DEF MembersInv, MembersTypes
<1>5. person'[Fresh] # NoPerson
  BY <1>2, <1>3, <1>4, MembersAssumption DEF NoPerson
<1>6. \A o \in Ids \ {Fresh} : person'[o] = person[o]
  BY <1>3, <1>4
<1>7. Used' = Used \cup {Fresh}
  BY <1>2, <1>5, <1>6 DEF Used
<1>8. Used' = 1..(k + 1)
  BY <1>2, <1>7
<1>9. (k + 1) + Cardinality(AtWork') <= 4 + made'
  BY <1>2, OneLessAtWork DEF MembersInv, IdsInv
<1>10. IdsInv'
  <2>1. IsFiniteSet(AtWork') /\ made' = made
    BY OneLessAtWork
  <2>2. staff' \subseteq Used' /\ users' \subseteq Used' /\ made' \in 0..MaxRequests
    BY <1>7, <2>1 DEF MembersInv, IdsInv
  <2> QED BY <1>8, <1>9, <2>1, <2>2 DEF IdsInv
<1>11. PeopleKept
  BY <1>2, <1>6, <1>7 DEF PeopleKept, Used
<1>12. NobodyUnseen(d)
  BY DEF NobodyUnseen, Ends, Step, MembersInv, MembersTypes
<1>13. person' \in [Ids -> Person]
  BY <1>3, <1>4 DEF Person
<1> QED BY <1>10, <1>11, <1>12, <1>13, EndingKeeps DEF MembersInv, MembersTypes

LEMMA MembersStep == MembersInv /\ [MembersNext]_membersVars => MembersInv'
<1> SUFFICES ASSUME MembersInv, [MembersNext]_membersVars PROVE MembersInv'
  OBVIOUS
<1>1. CASE UNCHANGED membersVars
  <2>1. /\ Used' = Used /\ AtWork' = AtWork /\ UNCHANGED <<staff, users, made>>
        /\ UNCHANGED <<person, clients, cookies, work, stage, lost>>
    BY <1>1 DEF Used, AtWork, membersVars, tables
  <2>2. MembersTypes'
    BY <2>1 DEF MembersInv, MembersTypes
  <2>3. IdsInv'
    BY <2>1 DEF MembersInv, IdsInv
  <2>4. \A d \in Desks : DeskInv(d)'
    BY <2>1 DEF MembersInv, DeskInv
  <2> QED BY <2>2, <2>3, <2>4 DEF MembersInv
<1> SUFFICES ASSUME NEW d \in Desks,
               \/ SignInLook(d) \/ SignInStaff(d) \/ SignInSeeded(d) \/ SignInUser(d)
               \/ RequireStaff(d) \/ RequireOwner(d) \/ OwnerActs(d)
               \/ AddStaff(d) \/ RemoveStaffRead(d) \/ RemoveStaffRefused(d)
               \/ RemoveStaffDelete(d) \/ SaveNote(d)
               \/ CreateClient(d) \/ AddPerson(d) \/ RemovePersonRead(d)
               \/ RemovePersonDelete(d) \/ EnterClient(d)
             PROVE  MembersInv'
  BY <1>1 DEF MembersNext
<1>2. staff \subseteq Ids /\ users \subseteq Ids /\ cookies \subseteq Cookie
  BY DEF MembersInv, MembersTypes, IdsInv, Used
<1>3. ASSUME NEW to \in Gated \cup {"looked", "owner"}, Begins(d, to), UNCHANGED <<tables, cookies>>,
             \A f \in Desks \ {d} : lost'[f] = lost[f],
             \A f \in Desks \ {d} : work'[f] = work[f],
             lost' \in [Desks -> SUBSET Ids],
             work' \in [Desks -> Work],
             to = "looked" => work'[d].email \in Emails,
             DeskInv(d)'
      PROVE  MembersInv'
  <2>1. IdsInv'
    BY <1>3, OneMoreAtWork DEF tables, MembersInv, IdsInv
  <2>2. MembersTypes'
    BY <1>3 DEF Begins, MembersInv, MembersTypes, tables, Gated
  <2>3. PeopleKept /\ NobodyUnseen(d)
    BY <1>3 DEF PeopleKept, NobodyUnseen, Used, Begins, tables, MembersInv, MembersTypes
  <2> QED BY <1>3, <2>1, <2>2, <2>3, OtherDesks DEF MembersInv
<1>4. CASE SignInLook(d)
  <2>1. PICK e \in Emails : work' = [work EXCEPT ![d] = [NoWork EXCEPT !.email = e, !.saw = StaffRow(e)]]
    BY <1>4 DEF SignInLook
  <2>2. StaffRow(e) \in SUBSET Ids
    BY <1>2 DEF StaffRow
  <2>3. LET w == [NoWork EXCEPT !.email = e, !.saw = StaffRow(e)]
        IN  w \in Work /\ w.email = e
    BY <2>2, NoWorkIsWork DEF Work
  <2>4. work' \in [Desks -> Work]
        /\ work'[d].email \in Emails /\ \A f \in Desks \ {d} : work'[f] = work[f]
    BY <2>1, <2>3 DEF MembersInv, MembersTypes, Work
  <2>5. stage'[d] = "looked" /\ Begins(d, "looked") /\ UNCHANGED <<tables, cookies, lost>>
    BY <1>4 DEF SignInLook, Begins, MembersInv, MembersTypes
  <2>6. DeskInv(d)'
    BY <2>5 DEF DeskInv, Gated
  <2> QED BY <1>3, <2>4, <2>5, <2>6 DEF MembersInv, MembersTypes
<1>5. CASE RequireStaff(d) \/ RequireOwner(d)
  <2>1. PICK c \in cookies, to \in {"staff", "owner"} :
          Admit(d, c, to) /\ (to = "staff" => c.kind = "staff")
    BY <1>5 DEF RequireStaff, RequireOwner
  <2>2. /\ work' = [work EXCEPT ![d] = [NoWork EXCEPT !.actor = c.id]]
        /\ lost' = [lost EXCEPT ![d] = {}] /\ Begins(d, to) /\ UNCHANGED <<tables, cookies>>
        /\ c.id \in IF c.kind = "staff" THEN staff ELSE users
    BY <2>1 DEF Admit, RowIsThere
  <2>3. c.id \in Ids /\ [NoWork EXCEPT !.actor = c.id] \in Work
        /\ [NoWork EXCEPT !.actor = c.id].actor = c.id
    BY <1>2, <2>2, NoWorkIsWork DEF Work
  <2>4. /\ work' \in [Desks -> Work]
        /\ lost' \in [Desks -> SUBSET Ids]
        /\ \A f \in Desks \ {d} : work'[f] = work[f] /\ lost'[f] = lost[f]
        /\ work'[d].actor = c.id /\ stage'[d] = to
    BY <2>2, <2>3 DEF MembersInv, MembersTypes, Begins, Work
  <2>5. DeskInv(d)'
    BY <2>1, <2>2, <2>4 DEF DeskInv, Gated, tables
  <2> QED BY <1>3, <2>1, <2>2, <2>4, <2>5 DEF Gated
<1>6. CASE SignInStaff(d)
  <2>1. PICK i \in work[d].saw : Grant(i, "staff")
    BY <1>6 DEF SignInStaff
  <2>2. i \in Ids
    BY DEF MembersInv, MembersTypes, Work
  <2>3. cookies' \subseteq Cookie
    BY <1>2, <2>1, <2>2 DEF Grant, Cookie
  <2> QED BY <1>6, <2>3, QuietEnd DEF SignInStaff, tables
<1>7. CASE SignInUser(d)
  <2>1. cookies' \subseteq Cookie
    BY <1>2, <1>7 DEF SignInUser, Grant, UserRow, Cookie
  <2> QED BY <1>7, <2>1, QuietEnd DEF SignInUser, tables
<1>8. CASE OwnerActs(d) \/ RemoveStaffRefused(d) \/ SaveNote(d)
  BY <1>2, <1>8, QuietEnd DEF OwnerActs, RemoveStaffRefused, SaveNote, tables, Gated
<1>9. CASE EnterClient(d)
  <2>1. PICK c \in clients :
          cookies' = cookies \cup {[id |-> work[d].actor, kind |-> "staff", entered |-> c]}
    BY <1>9 DEF EnterClient
  <2>2. stage[d] = "staff" /\ work[d].actor \in staff \cup lost[d]
    BY <1>9 DEF EnterClient, Ends, Step, MembersInv, DeskInv, Gated
  <2>3. work[d].actor \in Ids /\ c \in Clients
    BY <1>2, <2>2 DEF MembersInv, MembersTypes
  <2>4. cookies' \subseteq Cookie
    BY <1>2, <2>1, <2>3 DEF Cookie
  <2> QED BY <1>9, <2>4, QuietEnd DEF EnterClient, tables, Gated
<1>10. CASE SignInSeeded(d)
  <2>1. stage[d] = "looked" /\ work[d].email \in Emails
    BY <1>10 DEF SignInSeeded, Ends, Step, MembersInv, MembersTypes
  <2>2. Fresh \in Ids
    BY <2>1, FreshId
  <2>3. CASE StaffRow(work[d].email) = {}
    <3>1. cookies' \subseteq Cookie
      BY <1>2, <1>10, <2>2, <2>3 DEF SignInSeeded, Grant, Cookie
    <3> QED BY <1>10, <2>1, <2>3, <3>1, InsertingEnd DEF SignInSeeded, MembersInv, MembersTypes
  <2>4. CASE StaffRow(work[d].email) # {}
    BY <1>2, <1>10, <2>4, QuietEnd DEF SignInSeeded
  <2> QED BY <2>3, <2>4
<1>11. CASE AddStaff(d)
  <2>1. PICK e \in Emails :
          IF StaffRow(e) = {} THEN Insert(e, "none", "none") /\ staff' = staff \cup {Fresh}
          ELSE UNCHANGED <<person, staff>>
    BY <1>11 DEF AddStaff
  <2>2. Ends(d, "staff") /\ UNCHANGED <<users, clients, noted, cookies, lost>>
    BY <1>11 DEF AddStaff
  <2>3. CASE StaffRow(e) = {}
    BY <1>2, <2>1, <2>2, <2>3, InsertingEnd DEF MembersInv, MembersTypes, Gated
  <2>4. CASE StaffRow(e) # {}
    BY <1>2, <2>1, <2>2, <2>4, QuietEnd DEF Gated
  <2> QED BY <2>3, <2>4
<1>12. CASE CreateClient(d)
  <2>1. PICK c \in Clients \ clients, e \in Emails :
          IF UserRow(e) = {}
            THEN /\ Insert(e, c, "owner") /\ users' = users \cup {Fresh}
                 /\ clients' = clients \cup {c}
            ELSE UNCHANGED <<users, person, clients>>
    BY <1>12 DEF CreateClient
  <2>2. Ends(d, "staff") /\ UNCHANGED <<staff, noted, cookies, lost>>
    BY <1>12 DEF CreateClient
  <2>3. CASE UserRow(e) = {}
    <3>1. clients' \subseteq Clients
      BY <2>1, <2>3 DEF MembersInv, MembersTypes
    <3> QED BY <1>2, <2>1, <2>2, <2>3, <3>1, InsertingEnd DEF Gated
  <2>4. CASE UserRow(e) # {}
    BY <1>2, <2>1, <2>2, <2>4, QuietEnd DEF Gated
  <2> QED BY <2>3, <2>4
<1>13. CASE AddPerson(d)
  <2>1. PICK c \in clients, e \in Emails, r \in {"owner", "member"} :
          IF UserRow(e) = {} THEN Insert(e, c, r) /\ users' = users \cup {Fresh}
          ELSE UNCHANGED <<users, person>>
    BY <1>13 DEF AddPerson
  <2>2. Ends(d, "staff") /\ UNCHANGED <<staff, clients, noted, cookies, lost>>
    BY <1>13 DEF AddPerson
  <2>3. CASE UserRow(e) = {}
    BY <1>2, <2>1, <2>2, <2>3, InsertingEnd DEF MembersInv, MembersTypes, Gated
  <2>4. CASE UserRow(e) # {}
    BY <1>2, <2>1, <2>2, <2>4, QuietEnd DEF Gated
  <2> QED BY <2>3, <2>4
<1>14. CASE RemoveStaffDelete(d)
  <2>1. Ends(d, "removing") /\ UNCHANGED <<users, person, clients, noted, cookies>>
    BY <1>14 DEF RemoveStaffDelete
  <2>2. CASE work[d].target = noted
    BY <1>2, <1>14, <2>1, <2>2, QuietEnd DEF RemoveStaffDelete, Gated
  <2>3. CASE work[d].target # noted
    <3>1. staff' = staff \ {work[d].target} /\ Removed(d, work[d].target)
      BY <1>14, <2>3 DEF RemoveStaffDelete
    <3>2. work[d].target \in Ids
      BY <2>1 DEF Ends, Step, MembersInv, DeskInv
    <3> QED BY <2>1, <3>1, <3>2, RemovingEnd DEF Gated
  <2> QED BY <2>2, <2>3
<1>15. CASE RemovePersonDelete(d)
  <2>1. /\ Ends(d, "leaving") /\ UNCHANGED <<staff, person, clients, noted, cookies>>
        /\ users' = users \ {work[d].target} /\ Removed(d, work[d].target)
    BY <1>15 DEF RemovePersonDelete
  <2>2. work[d].target \in Ids
    BY <2>1 DEF Ends, Step, MembersInv, DeskInv, Used
  <2> QED BY <2>1, <2>2, RemovingEnd DEF Gated
<1>16. ASSUME NEW to \in {"removing", "leaving"}, Step(d, "staff", to),
              UNCHANGED <<tables, cookies, lost>>, NEW i \in Ids, NEW seen \in SUBSET Ids,
              work' = [work EXCEPT ![d].target = i, ![d].saw = seen], DeskInv(d)'
       PROVE  MembersInv'
  <2>1. /\ stage' = [stage EXCEPT ![d] = to] /\ stage[d] = "staff" /\ made' = made
        /\ \A f \in Desks \ {d} : work'[f] = work[f]
    BY <1>16 DEF Step, MembersInv, MembersTypes
  <2>2. work' \in [Desks -> Work]
    <3>1. [work[d] EXCEPT !.target = i, !.saw = seen] \in Work
      <4>1. work[d] \in Work
        BY DEF MembersInv, MembersTypes, Work
      <4> QED BY <4>1, <1>16 DEF Work
    <3>2. work' = [work EXCEPT ![d] = [work[d] EXCEPT !.target = i, !.saw = seen]]
      BY <1>16 DEF MembersInv, MembersTypes
    <3> QED BY <3>1, <3>2 DEF MembersInv, MembersTypes, Work
  <2>3. MembersTypes'
    BY <1>16, <2>1, <2>2 DEF MembersInv, MembersTypes, tables, Gated
  <2>4. AtWork' = AtWork /\ Used' = Used
    BY <1>16, <2>1 DEF AtWork, Used, tables, MembersInv, MembersTypes
  <2>5. IdsInv'
    BY <1>16, <2>1, <2>4 DEF IdsInv, MembersInv, tables
  <2>6. PeopleKept /\ NobodyUnseen(d)
    BY <1>16, <2>1, <2>4 DEF PeopleKept, NobodyUnseen, tables, MembersInv, MembersTypes
  <2> QED BY <1>16, <2>3, <2>5, <2>6, OtherDesks DEF MembersInv
<1>17. CASE RemoveStaffRead(d)
  <2>1. PICK i \in staff \ {work[d].actor} :
          Step(d, "staff", "removing") /\ work' = [work EXCEPT ![d].target = i]
    BY <1>17 DEF RemoveStaffRead
  <2>2. work' = [work EXCEPT ![d].target = i, ![d].saw = work[d].saw]
    BY <2>1 DEF MembersInv, MembersTypes
  <2>3. UNCHANGED <<tables, cookies, lost>> /\ i \in Ids /\ work[d].saw \in SUBSET Ids
    BY <1>2, <1>17 DEF RemoveStaffRead, MembersInv, MembersTypes, Work
  <2>4. /\ work'[d].target = i /\ work'[d].actor = work[d].actor
        /\ stage[d] = "staff" /\ stage'[d] = "removing"
    BY <2>1 DEF Step, MembersInv, MembersTypes
  <2>5. DeskInv(d)'
    BY <2>1, <2>3, <2>4 DEF DeskInv, Gated, tables, MembersInv
  <2> QED BY <1>16, <2>1, <2>2, <2>3, <2>5
<1>18. CASE RemovePersonRead(d)
  <2> DEFINE Counted(i) == IF person[i].role = "owner" THEN OwnersOf(person[i].client) ELSE {}
  <2>1. PICK i \in users :
          /\ Step(d, "staff", "leaving")
          /\ person[i].role = "owner" => Cardinality(Counted(i)) > 1
          /\ work' = [work EXCEPT ![d].target = i, ![d].saw = Counted(i)]
    BY <1>18 DEF RemovePersonRead
  <2>2. UNCHANGED <<tables, cookies, lost>> /\ i \in Ids /\ i \in Used
    BY <1>2, <1>18 DEF RemovePersonRead, MembersInv, IdsInv
  <2>3. Counted(i) \in SUBSET Ids
    BY <1>2 DEF OwnersOf
  <2>4. /\ work'[d].target = i /\ work'[d].saw = Counted(i) /\ work'[d].actor = work[d].actor
        /\ stage[d] = "staff" /\ stage'[d] = "leaving"
    BY <2>1, <2>3 DEF Step, MembersInv, MembersTypes
  <2>5. work[d].actor \in staff \cup lost[d]
    BY <2>4 DEF MembersInv, DeskInv, Gated
  <2>6. ASSUME person[i].role = "owner"
        PROVE  /\ Counted(i) \ {i} # {}
               /\ \A o \in Counted(i) : /\ o \in Used /\ o \in users
                                     /\ person[o].client = person[i].client
                                     /\ person[o].role = "owner"
    <3>1. Cardinality(Counted(i)) > 1
      BY <2>1, <2>6
    <3>2. Counted(i) # {i}
      BY <3>1, FS_Singleton
    <3>3. i \in Counted(i)
      BY <2>6 DEF OwnersOf
    <3> QED BY <2>6, <3>2, <3>3 DEF OwnersOf, MembersInv, IdsInv
  <2>7. Used' = Used /\ users' = users /\ staff' = staff /\ person' = person /\ lost' = lost
    BY <2>2 DEF Used, tables
  <2>8. DeskInv(d)'
    <3> HIDE DEF Counted
    <3> QED BY <2>2, <2>4, <2>5, <2>6, <2>7 DEF DeskInv, Gated
  <2> HIDE DEF Counted
  <2> QED BY <1>16, <2>1, <2>2, <2>3, <2>8
<1> QED BY <1>4, <1>5, <1>6, <1>7, <1>8, <1>9, <1>10, <1>11, <1>12, <1>13, <1>14, <1>15,
           <1>17, <1>18

LEMMA MembersSound == MembersSpec => []MembersInv
<1> QED BY MembersStart, MembersStep, PTL DEF MembersSpec

\* Which request a step concludes.
LEMMA Concludes ==
  ASSUME MembersInv, [MembersNext]_membersVars, NEW d \in Desks,
         stage[d] # "idle", stage'[d] = "idle"
  PROVE  \/ stage[d] \in {"looked", "staff", "owner"}
         \/ RemoveStaffDelete(d) \/ RemovePersonDelete(d)
<1>1. CASE UNCHANGED membersVars
  BY <1>1 DEF membersVars
<1>2. CASE MembersNext
  <2>1. PICK f \in Desks :
          \/ SignInLook(f) \/ SignInStaff(f) \/ SignInSeeded(f) \/ SignInUser(f)
          \/ RequireStaff(f) \/ RequireOwner(f) \/ OwnerActs(f)
          \/ AddStaff(f) \/ RemoveStaffRead(f) \/ RemoveStaffRefused(f)
          \/ RemoveStaffDelete(f) \/ SaveNote(f)
          \/ CreateClient(f) \/ AddPerson(f) \/ RemovePersonRead(f)
          \/ RemovePersonDelete(f) \/ EnterClient(f)
    BY <1>2 DEF MembersNext
  <2>2. \E to : stage' = [stage EXCEPT ![f] = to]
    BY <2>1 DEF SignInLook, SignInStaff, SignInSeeded, SignInUser, RequireStaff, RequireOwner,
      OwnerActs, AddStaff, RemoveStaffRead, RemoveStaffRefused, RemoveStaffDelete, SaveNote,
      CreateClient, AddPerson, RemovePersonRead, RemovePersonDelete, EnterClient, Admit,
      Begins, Ends, Step
  <2>3. f = d
    BY <2>2 DEF MembersInv, MembersTypes
  <2>4. CASE SignInLook(d) \/ RequireStaff(d) \/ RequireOwner(d)
    BY <2>4 DEF SignInLook, RequireStaff, RequireOwner, Admit, Begins
  <2>5. CASE RemoveStaffRead(d) \/ RemovePersonRead(d)
    BY <2>5 DEF RemoveStaffRead, RemovePersonRead, Step
  <2>6. CASE SignInStaff(d) \/ SignInSeeded(d) \/ SignInUser(d)
    BY <2>6 DEF SignInStaff, SignInSeeded, SignInUser, Ends, Step
  <2>7. CASE \/ OwnerActs(d) \/ AddStaff(d) \/ RemoveStaffRefused(d) \/ SaveNote(d)
             \/ CreateClient(d) \/ AddPerson(d) \/ EnterClient(d)
    BY <2>7 DEF OwnerActs, AddStaff, RemoveStaffRefused, SaveNote, CreateClient, AddPerson,
      EnterClient, Ends, Step
  <2> QED BY <2>1, <2>3, <2>4, <2>5, <2>6, <2>7
<1> QED BY <1>1, <1>2

LEMMA RemovalsStep ==
  ASSUME MembersInv, [MembersNext]_membersVars
  PROVE  /\ OwnerlessOnlyIfMissed /\ StafflessOnlyIfMissed
         /\ RemovedOnlyFinishes /\ RemovedUnlessNoted
<1>1. ASSUME NEW d \in Desks, stage[d] = "leaving", stage'[d] = "idle",
             NEW c \in clients, OwnersOf(c) # {}, OwnersOf(c)' = {}
      PROVE  \E o \in work[d].saw \ {work[d].target} : o \in lost[d]
  <2> DEFINE i == work[d].target
  <2>1. RemovePersonDelete(d)
    BY <1>1, Concludes DEF RemoveStaffDelete, Ends, Step
  <2>2. users' = users \ {i} /\ person' = person
    BY <2>1 DEF RemovePersonDelete
  <2>3. i \in OwnersOf(c)
    BY <1>1, <2>2 DEF OwnersOf
  <2>4. DeskInv(d)
    BY DEF MembersInv
  <2>5. PICK o \in work[d].saw \ {i} :
          /\ o \in users \cup lost[d] /\ person[o].role = "owner" /\ person[o].client = c
    BY <1>1, <2>3, <2>4 DEF OwnersOf, DeskInv
  <2>6. o \notin users
    BY <1>1, <2>2, <2>5 DEF OwnersOf
  <2> QED BY <2>5, <2>6
<1>2. ASSUME NEW d \in Desks, staff # {}, staff' = {}, stage[d] = "removing", stage'[d] = "idle"
      PROVE  work[d].actor \in lost[d]
  <2>1. RemoveStaffDelete(d)
    BY <1>2, Concludes DEF RemovePersonDelete, Ends, Step
  <2>2. staff' = staff \/ staff' = staff \ {work[d].target}
    BY <2>1 DEF RemoveStaffDelete
  <2>3. work[d].actor \in staff \cup lost[d] /\ work[d].target # work[d].actor
    BY <1>2 DEF MembersInv, DeskInv, Gated
  <2> QED BY <1>2, <2>2, <2>3
<1>3. RemovedOnlyFinishes
  BY DEF RemovedOnlyFinishes, MembersInv, DeskInv, Gated
<1>4. ASSUME NEW d \in Desks, stage[d] = "removing", stage'[d] = "idle"
      PROVE  work[d].target \notin staff' \/ noted = work[d].target
  <2>1. RemoveStaffDelete(d)
    BY <1>4, Concludes DEF RemovePersonDelete, Ends, Step
  <2> QED BY <2>1 DEF RemoveStaffDelete
<1> QED BY <1>1, <1>2, <1>3, <1>4
      DEF OwnerlessOnlyIfMissed, StafflessOnlyIfMissed, RemovedUnlessNoted

\* Removals (remove_staff, remove_person, the gates of deps.py): whatever the order of
\* the requests, for every number of them.
THEOREM RemovalsCorrect == MembersSpec => RemovalsUnlessMissed
<1>1. MembersInv /\ [MembersNext]_membersVars =>
        [/\ OwnerlessOnlyIfMissed /\ StafflessOnlyIfMissed
         /\ RemovedOnlyFinishes /\ RemovedUnlessNoted]_membersVars
  BY RemovalsStep
<1> QED BY <1>1, MembersSound, PTL DEF MembersSpec, RemovalsUnlessMissed

\* An address is one staff member and one person at most, nobody is both, and the author
\* of the account note has a row.
RowsInv ==
  /\ staff \cap users = {} /\ noted \in staff \cup {0}
  /\ \A i, j \in staff : person[i].email = person[j].email => i = j
  /\ \A i, j \in users : person[i].email = person[j].email => i = j

Arriving ==
  \E e, c, r :
    /\ AtWork # {} /\ Insert(e, c, r) /\ noted' = noted
    /\ \/ StaffRow(e) = {} /\ staff' = staff \cup {Fresh} /\ users' = users
       \/ UserRow(e) = {} /\ users' = users \cup {Fresh} /\ staff' = staff

Leaving ==
  /\ person' = person /\ staff' \subseteq staff /\ users' \subseteq users
  /\ noted' \in staff' \cup {0}

LEMMA RowsStart == MembersInit => RowsInv
<1> SUFFICES ASSUME MembersInit PROVE RowsInv
  OBVIOUS
<1>1. PICK mail \in [1..4 -> Emails], c \in Clients :
        /\ \A i, j \in 1..4 : i # j => mail[i] # mail[j]
        /\ staff = {1, 2} /\ users = {3, 4} /\ noted = 0
        /\ person = [i \in Ids |->
             IF i \in 1..4 THEN [email  |-> mail[i],
                                 client |-> IF i > 2 THEN c ELSE "none",
                                 role   |-> IF i > 2 THEN "owner" ELSE "none"]
             ELSE NoPerson]
  BY DEF MembersInit
<1>2. 1..4 \subseteq Ids
  BY MembersAssumption DEF Ids
<1>3. \A i \in 1..4 : person[i].email = mail[i]
  BY <1>1, <1>2
<1>4. {1, 2} \subseteq 1..4 /\ {3, 4} \subseteq 1..4
  OBVIOUS
<1> QED BY <1>1, <1>3, <1>4 DEF RowsInv

LEMMA ArrivesOrLeaves ==
  ASSUME MembersInv, RowsInv, [MembersNext]_membersVars PROVE Arriving \/ Leaving
<1>1. CASE UNCHANGED <<staff, users, person, noted>>
  BY <1>1 DEF RowsInv, Leaving
<1>2. ASSUME NEW d \in Desks, SignInSeeded(d) \/ AddStaff(d) \/ CreateClient(d) \/ AddPerson(d)
      PROVE  Arriving \/ UNCHANGED <<staff, users, person, noted>>
  BY <1>2 DEF SignInSeeded, AddStaff, CreateClient, AddPerson, Arriving, Ends, Step, AtWork
<1>3. ASSUME NEW d \in Desks, RemoveStaffDelete(d) \/ SaveNote(d) \/ RemovePersonDelete(d)
      PROVE  Leaving
  BY <1>3 DEF RemoveStaffDelete, SaveNote, RemovePersonDelete, RowsInv, Leaving
<1> QED BY <1>1, <1>2, <1>3 DEF MembersNext, SignInLook, SignInStaff, SignInUser, RequireStaff,
        RequireOwner, Admit, OwnerActs, RemoveStaffRead, RemoveStaffRefused, RemovePersonRead,
        EnterClient, tables, membersVars

LEMMA RowsStep ==
  ASSUME MembersInv, RowsInv, [MembersNext]_membersVars PROVE RowsInv'
<1>1. CASE Leaving
  BY <1>1 DEF RowsInv, Leaving
<1>2. CASE Arriving
  <2>1. PICK e, c, r :
          /\ AtWork # {} /\ Insert(e, c, r) /\ noted' = noted
          /\ \/ StaffRow(e) = {} /\ staff' = staff \cup {Fresh} /\ users' = users
             \/ UserRow(e) = {} /\ users' = users \cup {Fresh} /\ staff' = staff
    BY <1>2 DEF Arriving
  <2>2. Fresh \in Ids /\ Fresh \notin Used
    <3>1. \E d \in Desks : stage[d] # "idle"
      BY <2>1 DEF AtWork
    <3> QED BY <3>1, FreshId
  <2>3. staff \subseteq Used /\ users \subseteq Used /\ Used \subseteq Ids
    BY DEF MembersInv, IdsInv, Used
  <2>4. person'[Fresh].email = e /\ \A o \in Used : person'[o] = person[o]
    BY <2>1, <2>2, <2>3 DEF Insert, MembersInv, MembersTypes
  <2> HIDE DEF Fresh
  <2>5. CASE StaffRow(e) = {} /\ staff' = staff \cup {Fresh} /\ users' = users
    BY <2>1, <2>2, <2>3, <2>4, <2>5 DEF RowsInv, StaffRow
  <2>6. CASE UserRow(e) = {} /\ users' = users \cup {Fresh} /\ staff' = staff
    BY <2>1, <2>2, <2>3, <2>4, <2>6 DEF RowsInv, UserRow
  <2> QED BY <2>1, <2>5, <2>6
<1> QED BY <1>1, <1>2, ArrivesOrLeaves

LEMMA RowsSound == MembersSpec => []RowsInv
<1>1. MembersInv /\ RowsInv /\ [MembersNext]_membersVars => RowsInv'
  BY RowsStep
<1> QED BY <1>1, RowsStart, MembersSound, PTL DEF MembersSpec

\* Type correctness, and what the UNIQUE addresses and the foreign key of the account note
\* promise: one staff member and one person to an address, an author who has a row.
THEOREM MembersTypesCorrect == MembersSpec => []MembersTypeOK
<1>1. MembersInv /\ RowsInv => MembersTypeOK
  <2> SUFFICES ASSUME MembersInv, RowsInv PROVE MembersTypeOK
    OBVIOUS
  <2>1. staff \subseteq Ids /\ users \subseteq Ids
    BY DEF MembersInv, IdsInv, Used
  <2>2. ASSUME NEW e \in Emails
        PROVE  Cardinality(StaffRow(e)) <= 1 /\ Cardinality(UserRow(e)) <= 1
    <3>1. \A x, y \in StaffRow(e) : x = y
      BY DEF RowsInv, StaffRow
    <3>2. \A x, y \in UserRow(e) : x = y
      BY DEF RowsInv, UserRow
    <3> QED BY <3>1, <3>2, AtMostOne
  <2> QED BY <2>1, <2>2 DEF MembersInv, MembersTypes, RowsInv, MembersTypeOK, Person, Cookie,
             Work, Gated
<1> QED BY <1>1, MembersSound, RowsSound, PTL

-----------------------------------------------------------------------------
(* Console. An assignment that has counted the runs keeps its number's row *)
(* locked until it ends, so the number stays with the holder it found; and *)
(* a run of that holder which dials began after the count.                 *)

AssignSteps == {"counted", "moved", "grouping", "attaching", "settled"}
Names == {"op", "account", "number", "from"}

ConsoleShapes ==
  /\ at \in [Edits -> RequestStates]
  /\ DOMAIN edit = Edits /\ \A e \in Edits : Names \subseteq DOMAIN edit[e]
  /\ DOMAIN locks = Edits /\ DOMAIN begun = Edits /\ DOMAIN holder = Numbers

LocksApart == \A e, f \in Edits : e # f => locks[e] \cap locks[f] = {}

NumberIsKept(e) ==
  /\ at[e] \in AssignSteps /\ edit[e].op = "assign" =>
       /\ edit[e].number \in Numbers \cap locks[e]
       /\ holder[edit[e].number] = edit[e].from
       /\ edit[e].from \in dialling => edit[e].from \in begun[e]
  /\ at[e] \in {"summed", "allocated", "acknowledged"} => edit[e].op # "assign"

ConsoleInv == ConsoleShapes /\ LocksApart /\ \A e \in Edits : NumberIsKept(e)

LEMMA ConsoleStart == ConsoleInit => ConsoleInv
<1> SUFFICES ASSUME ConsoleInit PROVE ConsoleInv
  OBVIOUS
<1>1. /\ edit = [e \in Edits |-> NoEdit] /\ at = [e \in Edits |-> "new"]
      /\ locks = [e \in Edits |-> {}] /\ begun = [e \in Edits |-> {}]
      /\ holder \in [Numbers -> Owners]
  BY DEF ConsoleInit
<1>2. Names \subseteq DOMAIN NoEdit
  BY DEF Names, NoEdit
<1>3. ConsoleShapes
  BY <1>1, <1>2 DEF ConsoleShapes, RequestStates
<1>4. \A e \in Edits : NumberIsKept(e)
  BY <1>1 DEF NumberIsKept, AssignSteps
<1> QED BY <1>1, <1>3, <1>4 DEF ConsoleInv, LocksApart

\* A request that locks only rows nobody holds disturbs no other request.
LEMMA ApartStill ==
  ASSUME ConsoleInv, NEW e \in Edits, NEW xs, \A x \in xs : Free(e, x), Lock(e, xs)
  PROVE  /\ DOMAIN locks' = Edits /\ LocksApart' /\ xs \subseteq locks'[e]
         /\ \A f \in Edits : locks[f] \subseteq locks'[f]
<1>1. locks' = [locks EXCEPT ![e] = locks[e] \cup xs]
  BY DEF Lock
<1>2. locks'[e] = locks[e] \cup xs /\ \A f \in Edits \ {e} : locks'[f] = locks[f]
  BY <1>1 DEF ConsoleInv, ConsoleShapes
<1>3. \A f \in Edits \ {e} : xs \cap locks[f] = {}
  BY DEF Free
<1> QED BY <1>1, <1>2, <1>3 DEF ConsoleInv, ConsoleShapes, LocksApart

LEMMA OneRequest ==
  ASSUME ConsoleInv, NEW e \in Edits, NEW to \in RequestStates, at' = [at EXCEPT ![e] = to],
         DOMAIN edit' = Edits, Names \subseteq DOMAIN edit'[e],
         \A f \in Edits \ {e} : edit'[f] = edit[f],
         UNCHANGED <<holder, dialling, begun>>,
         DOMAIN locks' = Edits, LocksApart', \A f \in Edits : locks[f] \subseteq locks'[f],
         NumberIsKept(e)'
  PROVE  ConsoleInv'
<1>1. /\ at' \in [Edits -> RequestStates] /\ at'[e] = to
      /\ \A f \in Edits \ {e} : at'[f] = at[f]
  BY DEF ConsoleInv, ConsoleShapes
<1>2. ConsoleShapes'
  BY <1>1 DEF ConsoleInv, ConsoleShapes
<1>3. \A f \in Edits \ {e} : NumberIsKept(f)'
  BY <1>1 DEF ConsoleInv, NumberIsKept
<1> QED BY <1>2, <1>3 DEF ConsoleInv

\* A step inside a request: what it asks for stays.
LEMMA RequestGoesOn ==
  ASSUME ConsoleInv, NEW e \in Edits, NEW to \in RequestStates, at' = [at EXCEPT ![e] = to],
         DOMAIN edit' = Edits, Names \subseteq DOMAIN edit'[e],
         edit'[e].op = edit[e].op, edit'[e].number = edit[e].number,
         edit'[e].from = edit[e].from, \A f \in Edits \ {e} : edit'[f] = edit[f],
         UNCHANGED <<holder, dialling, begun>>,
         UNCHANGED locks \/ \E xs : Lock(e, xs) /\ \A x \in xs : Free(e, x),
         to \in AssignSteps => at[e] \in AssignSteps \cup {"allocated", "acknowledged"},
         to \in {"summed", "allocated", "acknowledged"} => at[e] = "summed"
  PROVE  ConsoleInv'
<1>1. DOMAIN locks' = Edits /\ LocksApart' /\ \A f \in Edits : locks[f] \subseteq locks'[f]
  <2>1. CASE UNCHANGED locks
    BY <2>1 DEF ConsoleInv, ConsoleShapes, LocksApart
  <2>2. CASE \E xs : Lock(e, xs) /\ \A x \in xs : Free(e, x)
    BY <2>2, ApartStill
  <2> QED BY <2>1, <2>2
<1>2. at'[e] = to
  BY DEF ConsoleInv, ConsoleShapes
<1>3. NumberIsKept(e)'
  BY <1>1, <1>2 DEF ConsoleInv, NumberIsKept, AssignSteps
<1> QED BY <1>1, <1>3, OneRequest

LEMMA RefreshKeeps ==
  ASSUME ConsoleInv, NEW e \in Edits, NEW from \in {"allocated", "acknowledged", "counted"},
         NEW to \in {"settled", "moved"}, Refresh(e, from, to)
  PROVE  ConsoleInv'
<1>1. /\ at' = [at EXCEPT ![e] = to] /\ at[e] = from
      /\ UNCHANGED <<holder, dialling, begun>>
  BY DEF Refresh, Go, rows, runs
<1>2. CASE SeesReady(e, edit[e].account)
  <2>1. /\ Free(e, edit[e].account) /\ Lock(e, {edit[e].account})
        /\ edit' = [edit EXCEPT ![e].wakes = edit[e].account]
    BY <1>2 DEF Refresh
  <2>2. /\ DOMAIN edit' = Edits /\ \A f \in Edits \ {e} : edit'[f] = edit[f]
        /\ edit'[e] = [edit[e] EXCEPT !.wakes = edit[e].account]
    BY <2>1 DEF ConsoleInv, ConsoleShapes
  <2>3. /\ Names \subseteq DOMAIN edit'[e] /\ edit'[e].op = edit[e].op
        /\ edit'[e].number = edit[e].number /\ edit'[e].from = edit[e].from
    <3>1. Names \subseteq DOMAIN edit[e]
      BY DEF ConsoleInv, ConsoleShapes
    <3> QED BY <2>2, <3>1 DEF Names
  <2>4. \E xs : Lock(e, xs) /\ \A x \in xs : Free(e, x)
    <3>1. \A x \in {edit[e].account} : Free(e, x)
      BY <2>1
    <3> QED BY <2>1, <3>1
  <2>5. to \in AssignSteps => at[e] \in AssignSteps \cup {"allocated", "acknowledged"}
    BY <1>1 DEF AssignSteps
  <2> QED BY <1>1, <2>2, <2>3, <2>4, <2>5, RequestGoesOn DEF RequestStates
<1>3. CASE ~ SeesReady(e, edit[e].account)
  BY <1>1, <1>3, RequestGoesOn DEF Refresh, RequestStates, AssignSteps, ConsoleInv, ConsoleShapes
<1> QED BY <1>2, <1>3

LEMMA AssignSelectKeeps ==
  ASSUME ConsoleInv, NEW e \in Edits, AssignSelect(e)
  PROVE  ConsoleInv'
<1>1. PICK n \in Numbers, a \in Owners :
        /\ Free(e, n)
        /\ edit' = [edit EXCEPT ![e] = [NoEdit EXCEPT !.op = "assign", !.account = a,
                                        !.number = n, !.from = holder[n]]]
        /\ IF holder[n] \in dialling
             THEN at' = [at EXCEPT ![e] = "refused"] /\ UNCHANGED locks
             ELSE at' = [at EXCEPT ![e] = "counted"] /\ Lock(e, {n})
  BY DEF AssignSelect, Arrives
<1>2. UNCHANGED <<holder, dialling, begun>>
  BY DEF AssignSelect, rows, runs
<1>3. /\ DOMAIN edit' = Edits /\ \A f \in Edits \ {e} : edit'[f] = edit[f]
      /\ edit'[e] = [NoEdit EXCEPT !.op = "assign", !.account = a,
                     !.number = n, !.from = holder[n]]
  BY <1>1 DEF ConsoleInv, ConsoleShapes
<1>4. /\ Names \subseteq DOMAIN edit'[e] /\ edit'[e].op = "assign"
      /\ edit'[e].number = n /\ edit'[e].from = holder[n]
  BY <1>3 DEF Names, NoEdit
<1>5. CASE holder[n] \in dialling
  <2>1. at' = [at EXCEPT ![e] = "refused"] /\ UNCHANGED locks /\ at'[e] = "refused"
    BY <1>1, <1>5 DEF ConsoleInv, ConsoleShapes
  <2>2. NumberIsKept(e)'
    BY <2>1 DEF NumberIsKept, AssignSteps
  <2>3. DOMAIN locks' = Edits /\ LocksApart' /\ \A f \in Edits : locks[f] \subseteq locks'[f]
    BY <2>1 DEF ConsoleInv, ConsoleShapes, LocksApart
  <2> QED BY <1>2, <1>3, <1>4, <2>1, <2>2, <2>3, OneRequest DEF RequestStates, Ended
<1>6. CASE holder[n] \notin dialling
  <2>1. at' = [at EXCEPT ![e] = "counted"] /\ Lock(e, {n})
    BY <1>1, <1>6
  <2>2. /\ DOMAIN locks' = Edits /\ LocksApart' /\ n \in locks'[e]
        /\ \A f \in Edits : locks[f] \subseteq locks'[f]
    BY <1>1, <2>1, ApartStill
  <2>3. at'[e] = "counted"
    BY <2>1 DEF ConsoleInv, ConsoleShapes
  <2>4. NumberIsKept(e)'
    BY <1>2, <1>4, <1>6, <2>2, <2>3 DEF NumberIsKept
  <2> QED BY <1>2, <1>3, <1>4, <2>1, <2>2, <2>4, OneRequest DEF RequestStates
<1> QED BY <1>5, <1>6

\* A transaction ends; only an assignment moves a number, its own.
LEMMA EndKeeps ==
  ASSUME ConsoleInv, NEW e \in Edits, NEW to \in Ended, at' = [at EXCEPT ![e] = to],
         UNCHANGED <<edit, dialling, begun>>, locks' = [locks EXCEPT ![e] = {}],
         \/ UNCHANGED holder
         \/ /\ at[e] \in AssignSteps /\ edit[e].op = "assign"
            /\ \E a : holder' = [holder EXCEPT ![edit[e].number] = a]
  PROVE  ConsoleInv'
<1>1. /\ at' \in [Edits -> RequestStates] /\ at'[e] = to
      /\ \A f \in Edits \ {e} : at'[f] = at[f] /\ locks'[f] = locks[f]
      /\ locks'[e] = {}
  BY DEF ConsoleInv, ConsoleShapes, RequestStates
<1>2. ConsoleShapes' /\ LocksApart'
  BY <1>1 DEF ConsoleInv, ConsoleShapes, LocksApart
<1>3. NumberIsKept(e)'
  BY <1>1 DEF NumberIsKept, AssignSteps, Ended
<1>4. ASSUME NEW f \in Edits \ {e} PROVE NumberIsKept(f)'
  <2>1. ASSUME at[f] \in AssignSteps, edit[f].op = "assign"
        PROVE  holder'[edit[f].number] = holder[edit[f].number]
    <3>1. edit[f].number \in Numbers \cap locks[f]
      BY <2>1 DEF ConsoleInv, NumberIsKept
    <3>2. CASE UNCHANGED holder
      BY <3>2
    <3>3. CASE /\ at[e] \in AssignSteps /\ edit[e].op = "assign"
               /\ \E a : holder' = [holder EXCEPT ![edit[e].number] = a]
      <4>1. edit[e].number \in locks[e]
        BY <3>3 DEF ConsoleInv, NumberIsKept
      <4>2. edit[f].number # edit[e].number
        BY <3>1, <4>1 DEF ConsoleInv, LocksApart
      <4> QED BY <3>1, <3>3, <4>2 DEF ConsoleInv, ConsoleShapes
    <3> QED BY <3>2, <3>3
  <2> QED BY <1>1, <2>1 DEF ConsoleInv, NumberIsKept
<1> QED BY <1>2, <1>3, <1>4 DEF ConsoleInv

LEMMA ConsoleStep == ConsoleInv /\ [ConsoleNext]_consoleVars => ConsoleInv'
<1> SUFFICES ASSUME ConsoleInv, [ConsoleNext]_consoleVars PROVE ConsoleInv'
  OBVIOUS
<1>1. CASE UNCHANGED consoleVars
  <2>1. UNCHANGED <<at, edit, locks, begun, holder, dialling>>
    BY <1>1 DEF consoleVars, rows, runs
  <2> QED BY <2>1 DEF ConsoleInv, ConsoleShapes, LocksApart, NumberIsKept
<1>2. ASSUME NEW e \in Edits, AllocateStart(e) PROVE ConsoleInv'
  <2>1. PICK a \in Accounts, n \in Sizes :
          edit' = [edit EXCEPT ![e] = [NoEdit EXCEPT !.op = "allocate", !.account = a,
                                       !.size = n, !.seen = Others(a)]]
    BY <1>2 DEF AllocateStart, Arrives
  <2>2. /\ DOMAIN edit' = Edits /\ \A f \in Edits \ {e} : edit'[f] = edit[f]
        /\ edit'[e] = [NoEdit EXCEPT !.op = "allocate", !.account = a,
                       !.size = n, !.seen = Others(a)]
    BY <2>1 DEF ConsoleInv, ConsoleShapes
  <2>3. Names \subseteq DOMAIN edit'[e] /\ edit'[e].op = "allocate"
    BY <2>2 DEF Names, NoEdit
  <2>4. at' = [at EXCEPT ![e] = "summed"] /\ UNCHANGED <<holder, dialling, begun, locks>>
    BY <1>2 DEF AllocateStart, Go, rows, runs
  <2>5. NumberIsKept(e)'
    BY <2>3 DEF NumberIsKept
  <2> QED BY <2>2, <2>3, <2>4, <2>5, OneRequest
          DEF ConsoleInv, ConsoleShapes, LocksApart, RequestStates
<1>3. ASSUME NEW e \in Edits, Acknowledge(e) PROVE ConsoleInv'
  <2>1. PICK a \in Accounts :
          /\ edit' = [edit EXCEPT ![e] = [NoEdit EXCEPT !.op = "acknowledge", !.account = a]]
          /\ Free(e, a) /\ (UNCHANGED locks \/ Lock(e, {a}))
    BY <1>3 DEF Acknowledge, Arrives
  <2>2. /\ DOMAIN edit' = Edits /\ \A f \in Edits \ {e} : edit'[f] = edit[f]
        /\ edit'[e] = [NoEdit EXCEPT !.op = "acknowledge", !.account = a]
    BY <2>1 DEF ConsoleInv, ConsoleShapes
  <2>3. Names \subseteq DOMAIN edit'[e] /\ edit'[e].op = "acknowledge"
    BY <2>2 DEF Names, NoEdit
  <2>4. at' = [at EXCEPT ![e] = "acknowledged"] /\ UNCHANGED <<holder, dialling, begun>>
    BY <1>3 DEF Acknowledge, Go, rows, runs
  <2>5. DOMAIN locks' = Edits /\ LocksApart' /\ \A f \in Edits : locks[f] \subseteq locks'[f]
    <3>1. CASE UNCHANGED locks
      BY <3>1 DEF ConsoleInv, ConsoleShapes, LocksApart
    <3>2. CASE Lock(e, {a})
      BY <2>1, <3>2, ApartStill
    <3> QED BY <2>1, <3>1, <3>2
  <2>6. NumberIsKept(e)'
    BY <2>3 DEF NumberIsKept
  <2> QED BY <2>2, <2>3, <2>4, <2>5, <2>6, OneRequest DEF RequestStates
<1>4. ASSUME NEW e \in Edits, AllocateRefused(e) \/ AllocateUpdate(e) \/ Detach(e)
      PROVE  ConsoleInv'
  <2>1. PICK to \in {"refused", "allocated", "settled"} :
          /\ at' = [at EXCEPT ![e] = to] /\ UNCHANGED <<holder, edit, dialling, begun>>
          /\ to = "allocated" => at[e] = "summed"
          /\ to = "settled" => at[e] = "counted"
          /\ UNCHANGED locks \/ \E xs : Lock(e, xs) /\ \A x \in xs : Free(e, x)
    BY <1>4 DEF AllocateRefused, AllocateUpdate, Detach, Go, rows, runs
  <2> QED BY <2>1, RequestGoesOn
          DEF RequestStates, Ended, AssignSteps, ConsoleInv, ConsoleShapes
<1>5. ASSUME NEW e \in Edits, GroupRead(e) \/ GroupSave(e) \/ Attach(e) \/ GroupFails(e)
      PROVE  ConsoleInv'
  <2>1. PICK to \in {"grouping", "attaching", "settled"} : at' = [at EXCEPT ![e] = to]
    BY <1>5 DEF GroupRead, GroupSave, Attach, GroupFails, Go, ConsoleInv, ConsoleShapes
  <2>2. at[e] \in AssignSteps /\ UNCHANGED <<holder, dialling, begun>>
    BY <1>5 DEF GroupRead, GroupSave, Attach, GroupFails, Go, AssignSteps, rows, runs
  <2>3. UNCHANGED locks \/ \E xs : Lock(e, xs) /\ \A x \in xs : Free(e, x)
    BY <1>5 DEF GroupRead, GroupSave, Attach, GroupFails
  <2>4. /\ DOMAIN edit' = Edits /\ \A f \in Edits \ {e} : edit'[f] = edit[f]
        /\ \/ \E v : edit'[e] = [edit[e] EXCEPT !.seen = v]
           \/ \E v : edit'[e] = [edit[e] EXCEPT !.todo = v]
           \/ \E v, w : edit'[e] = [edit[e] EXCEPT !.seen = v, !.todo = w]
           \/ \E v : edit'[e] = [edit[e] EXCEPT !.whole = v]
    <3>1. CASE GroupRead(e)
      BY <3>1 DEF GroupRead, ConsoleInv, ConsoleShapes
    <3>2. CASE GroupSave(e)
      BY <3>2 DEF GroupSave, ConsoleInv, ConsoleShapes
    <3>3. CASE Attach(e)
      BY <3>3 DEF Attach, ConsoleInv, ConsoleShapes
    <3>4. CASE GroupFails(e)
      BY <3>4 DEF GroupFails, ConsoleInv, ConsoleShapes
    <3> QED BY <1>5, <3>1, <3>2, <3>3, <3>4
  <2>5. /\ Names \subseteq DOMAIN edit'[e] /\ edit'[e].op = edit[e].op
        /\ edit'[e].number = edit[e].number /\ edit'[e].from = edit[e].from
    BY <2>4 DEF ConsoleInv, ConsoleShapes, Names
  <2> QED BY <2>1, <2>2, <2>3, <2>4, <2>5, RequestGoesOn DEF RequestStates, AssignSteps
<1>6. ASSUME NEW e \in Edits, Refresh(e, "allocated", "settled")
                              \/ Refresh(e, "acknowledged", "settled") \/ AssignUpdate(e)
      PROVE  ConsoleInv'
  BY <1>6, RefreshKeeps DEF AssignUpdate
<1>7. ASSUME NEW e \in Edits, Commit(e) PROVE ConsoleInv'
  <2>1. /\ at' = [at EXCEPT ![e] = "done"] /\ at[e] = "settled"
        /\ UNCHANGED <<edit, dialling, begun>> /\ locks' = [locks EXCEPT ![e] = {}]
    BY <1>7 DEF Commit, Go, Seal, runs
  <2>2. holder' = IF edit[e].op = "assign"
                    THEN [holder EXCEPT ![edit[e].number] = edit[e].account] ELSE holder
    BY <1>7 DEF Commit
  <2> QED BY <2>1, <2>2, EndKeeps DEF Ended, AssignSteps
<1>8. ASSUME NEW e \in Edits, Crash(e) PROVE ConsoleInv'
  <2>1. /\ at' = [at EXCEPT ![e] = "dead"] /\ UNCHANGED <<edit, dialling, begun, holder>>
        /\ locks' = [locks EXCEPT ![e] = {}]
    BY <1>8 DEF Crash, Seal, rows, runs
  <2> QED BY <2>1, EndKeeps DEF Ended
<1>9. ASSUME NEW a \in Accounts, Launches(a) \/ RunBegins(a) \/ RunEnds(a) PROVE ConsoleInv'
  <2>1. UNCHANGED <<at, edit, locks, holder>>
    BY <1>9 DEF Launches, RunBegins, RunEnds, rows
  <2>2. ConsoleShapes' /\ LocksApart'
    BY <1>9, <2>1 DEF Launches, RunBegins, RunEnds, ConsoleInv, ConsoleShapes, LocksApart
  <2>3. ASSUME NEW e \in Edits, at[e] \in AssignSteps, edit[e].op = "assign",
               edit[e].from \in dialling'
        PROVE  edit[e].from \in begun'[e]
    <3>1. edit[e].from \in dialling => edit[e].from \in begun[e]
      BY <2>3 DEF ConsoleInv, NumberIsKept
    <3>2. Open(e)
      BY <2>3 DEF Open, AssignSteps, Ended
    <3>3. CASE RunBegins(a)
      BY <2>3, <3>1, <3>2, <3>3 DEF RunBegins
    <3>4. CASE Launches(a) \/ RunEnds(a)
      BY <2>3, <3>1, <3>4 DEF Launches, RunEnds
    <3> QED BY <1>9, <3>3, <3>4
  <2>4. \A e \in Edits : NumberIsKept(e)'
    BY <2>1, <2>3 DEF ConsoleInv, NumberIsKept
  <2> QED BY <2>2, <2>4 DEF ConsoleInv
<1> QED BY <1>1, <1>2, <1>3, <1>4, <1>5, <1>6, <1>7, <1>8, <1>9, AssignSelectKeeps
        DEF ConsoleNext

\* assign_number: whatever requests and runs overlap it, for every number of them.
THEOREM NumberAlwaysStays == ConsoleSpec => NumberStaysUnderRun
<1> DEFINE Part == \A e \in Edits : Commits(e) /\ edit[e].op = "assign" =>
                     LET h == holder[edit[e].number] IN
                     h \in dialling => h = edit[e].from /\ h \in begun[e]
<1>1. ConsoleInv => Part
  BY DEF ConsoleInv, NumberIsKept, Commits, AssignSteps
<1>2. ConsoleInv /\ [ConsoleNext]_consoleVars => [Part]_consoleVars
  BY <1>1
<1> QED BY <1>2, ConsoleStart, ConsoleStep, PTL DEF ConsoleSpec, NumberStaysUnderRun
-----------------------------------------------------------------------------
(* Console, set up. What an open request has read is what is committed, but*)
(* for what it has missed: the sum of the other accounts' channels, whether*)
(* its account was complete when it refreshed it, the numbers it has listed*)
(* and the group they are attached to.                                     *)

EditRecords ==
  [op : {"none", "allocate", "acknowledge", "assign"},
   account : Owners, number : Numbers \cup {"none"}, from : Owners,
   size : Sizes \cup {0}, seen : Nat, wakes : Owners,
   todo : SUBSET Numbers, whole : {"yes", "no"}]

ConsoleTypes ==
  /\ allocation \in [Accounts -> Sizes \cup {0}]
  /\ acknowledged \subseteq Accounts /\ active \subseteq Accounts
  /\ scheduled \subseteq Accounts /\ dialling \subseteq Accounts
  /\ holder \in [Numbers -> Owners] /\ group \in [Accounts -> Groups]
  /\ attached \in [Numbers -> Groups]
  /\ edit \in [Edits -> EditRecords]
  /\ at \in [Edits -> RequestStates]
  /\ locks \in [Edits -> SUBSET (Accounts \cup Numbers)]
  /\ missed \in [Edits -> SUBSET (Accounts \cup Numbers)]
  /\ begun \in [Edits -> SUBSET Accounts]

\* The request is of the kind its step belongs to.
RequestFits(e) ==
  Open(e) =>
    /\ edit[e].op # "none"
    /\ at[e] \in {"summed", "allocated"} => edit[e].op = "allocate"
    /\ at[e] = "acknowledged" => edit[e].op = "acknowledge"
    /\ at[e] \in {"counted", "moved", "grouping", "attaching"} => edit[e].op = "assign"
    /\ edit[e].op = "assign" => edit[e].number \in Numbers /\ edit[e].seen \in Groups
    /\ edit[e].op # "assign" \/ at[e] \in {"moved", "grouping", "attaching"}
         => edit[e].account \in Accounts

SumIsCurrent(e) ==
  Open(e) /\ edit[e].op = "allocate" =>
    /\ missed[e] \cap Accounts = {} =>
         edit[e].seen = SumFunctionOnSet(allocation, Accounts \ {edit[e].account})
    /\ at[e] # "summed" => edit[e].size + edit[e].seen <= Ceiling

\* SeesReady without the status.
SeesTrio(e) ==
  /\ edit[e].account \in acknowledged \/ edit[e].op = "acknowledge"
  /\ edit[e].op = "allocate" => edit[e].size > 0
  /\ edit[e].op = "allocate" \/ allocation[edit[e].account] > 0
  /\ Held(edit[e].account) # {} \/ edit[e].op = "assign"

StatusIsCurrent(e) ==
  at[e] \in {"moved", "grouping", "attaching", "settled"}
  /\ edit[e].account \in Accounts \ missed[e] =>
    edit[e].account \in active \cup {edit[e].wakes} \/ ~ SeesTrio(e)

Listed(e) == Held(edit[e].account) \cup {edit[e].number}

ListIsDone(e) ==
  /\ at[e] \in {"attaching", "settled"} /\ edit[e].op = "assign" /\ edit[e].whole = "yes"
  /\ edit[e].account \in Accounts \ missed[e]
  => /\ edit[e].seen # 0
     /\ at[e] = "settled" => edit[e].todo = {}
     /\ \A n \in Listed(e) \ missed[e] : n \in edit[e].todo \/ attached[n] = edit[e].seen

RequestInv(e) == RequestFits(e) /\ SumIsCurrent(e) /\ StatusIsCurrent(e) /\ ListIsDone(e)

SetUpInv == ConsoleTypes /\ \A e \in Edits : RequestInv(e)

-----------------------------------------------------------------------------
LEMMA SizesNat == \A n \in Sizes \cup {0} : n \in Nat
<1>1. Sizes \subseteq Nat
  BY ConsoleAssumption
<1> QED BY <1>1

LEMMA GroupsNat == \A g \in Groups : g \in Nat
<1>1. Edits \subseteq Nat
  BY ConsoleAssumption
<1> QED BY <1>1 DEF Groups

LEMMA OthersSum ==
  ConsoleTypes => \A a : /\ Others(a) = SumFunctionOnSet(allocation, Accounts \ {a})
                         /\ Others(a) \in Nat
<1> SUFFICES ASSUME ConsoleTypes, NEW a
             PROVE  /\ Others(a) = SumFunctionOnSet(allocation, Accounts \ {a})
                    /\ Others(a) \in Nat
  OBVIOUS
<1>1. Others(a) = SumFunctionOnSet(allocation, Accounts \ {a})
  BY DEF Others, MapThenSumSet, MapThenFoldSet, SumFunctionOnSet, FoldFunctionOnSet
<1>2. IsFiniteSet(Accounts \ {a})
  BY ConsoleAssumption, FS_Subset
<1>3. \A b \in Accounts \ {a} : allocation[b] \in Nat
  <2>1. allocation \in [Accounts -> Sizes \cup {0}]
    BY DEF ConsoleTypes
  <2> QED BY <2>1, SizesNat
<1> QED BY <1>1, <1>2, <1>3, SumNat

LEMMA SetUpStart == ConsoleInit => SetUpInv
<1> SUFFICES ASSUME ConsoleInit PROVE SetUpInv
  OBVIOUS
<1>1. NoEdit \in EditRecords
  BY DEF NoEdit, EditRecords, Owners
<1>2. ConsoleTypes
  BY <1>1 DEF ConsoleInit, ConsoleTypes, RequestStates, Groups, Owners
<1>3. \A e \in Edits : at[e] = "new"
  BY DEF ConsoleInit
<1>4. \A e \in Edits : RequestInv(e)
  BY <1>3 DEF RequestInv, RequestFits, SumIsCurrent, StatusIsCurrent, ListIsDone, Open
<1> QED BY <1>2, <1>4 DEF SetUpInv

\* A step of e that commits nothing, and whose changes at Telnyx the others miss,
\* leaves the others' reads current.
LEMMA OthersStandStill ==
  ASSUME SetUpInv, NEW e \in Edits, UNCHANGED rows,
         \A f \in Edits \ {e} : at'[f] = at[f] /\ edit'[f] = edit[f],
         \A f \in Edits : missed[f] \subseteq missed'[f],
         \A f \in Edits \ {e}, n \in Numbers :
           attached'[n] = attached[n] \/ (Open(f) => n \in missed'[f])
  PROVE  \A f \in Edits \ {e} : RequestInv(f)'
<1> SUFFICES ASSUME NEW f \in Edits \ {e} PROVE RequestInv(f)'
  OBVIOUS
<1>1. /\ at'[f] = at[f] /\ edit'[f] = edit[f] /\ missed[f] \subseteq missed'[f]
      /\ allocation' = allocation /\ acknowledged' = acknowledged /\ active' = active
      /\ holder' = holder /\ group' = group /\ RequestInv(f)
  BY DEF rows, SetUpInv
<1>2. RequestFits(f)'
  BY <1>1 DEF RequestInv, RequestFits, Open
<1>3. SumIsCurrent(f)'
  BY <1>1 DEF RequestInv, SumIsCurrent, Open
<1>4. StatusIsCurrent(f)'
  BY <1>1 DEF RequestInv, StatusIsCurrent, SeesTrio, Held
<1>5. ListIsDone(f)'
  <2>1. Listed(f)' = Listed(f)
    BY <1>1 DEF Listed, Held
  <2>2. at[f] \in {"attaching", "settled"} => Open(f)
    BY DEF Open, Ended
  <2>3. edit[f].op = "assign" /\ Open(f) => edit[f].number \in Numbers
    BY <1>1 DEF RequestInv, RequestFits
  <2>4. edit[f].op = "assign" /\ Open(f) => Listed(f) \subseteq Numbers
    BY <2>3 DEF Listed, Held
  <2> QED BY <1>1, <2>1, <2>2, <2>4 DEF RequestInv, ListIsDone
<1> QED BY <1>2, <1>3, <1>4, <1>5 DEF RequestInv

\* The same, for every request, when no request moves.
LEMMA RunsDoNotMatter ==
  ASSUME SetUpInv, UNCHANGED <<rows, attached, edit, at, missed>>
  PROVE  \A e \in Edits : RequestInv(e)'
<1> SUFFICES ASSUME NEW e \in Edits PROVE RequestInv(e)'
  OBVIOUS
<1>1. /\ at' = at /\ edit' = edit /\ missed' = missed /\ attached' = attached
      /\ allocation' = allocation /\ acknowledged' = acknowledged /\ active' = active
      /\ holder' = holder /\ RequestInv(e)
  BY DEF rows, SetUpInv
<1>2. RequestFits(e)' /\ SumIsCurrent(e)'
  BY <1>1 DEF RequestInv, RequestFits, SumIsCurrent, Open
<1>3. StatusIsCurrent(e)'
  BY <1>1 DEF RequestInv, StatusIsCurrent, SeesTrio, Held
<1>4. ListIsDone(e)'
  BY <1>1 DEF RequestInv, ListIsDone, Listed, Held
<1> QED BY <1>2, <1>3, <1>4 DEF RequestInv

\* A request that ends is of no concern.
LEMMA EndedFits == ASSUME NEW e \in Edits, at[e] \in Ended PROVE RequestInv(e)
<1> QED BY DEF RequestInv, RequestFits, SumIsCurrent, StatusIsCurrent, ListIsDone, Open, Ended

\* Only the row of one request changes, and what it has locked.
LEMMA RowOfOne ==
  ASSUME SetUpInv, NEW e \in Edits, NEW r \in EditRecords, edit' = [edit EXCEPT ![e] = r]
  PROVE  /\ edit' \in [Edits -> EditRecords] /\ edit'[e] = r
         /\ \A f \in Edits \ {e} : edit'[f] = edit[f]
<1> QED BY DEF SetUpInv, ConsoleTypes

LEMMA StepOfOne ==
  ASSUME SetUpInv, NEW e \in Edits, NEW to \in RequestStates, at' = [at EXCEPT ![e] = to]
  PROVE  /\ at' \in [Edits -> RequestStates] /\ at'[e] = to
         /\ \A f \in Edits \ {e} : at'[f] = at[f]
<1> QED BY DEF SetUpInv, ConsoleTypes

LEMMA LocksOfOne ==
  ASSUME SetUpInv, NEW e \in Edits, NEW xs, xs \subseteq Accounts \cup Numbers, Lock(e, xs)
  PROVE  locks' \in [Edits -> SUBSET (Accounts \cup Numbers)]
<1> QED BY DEF SetUpInv, ConsoleTypes, Lock

LEMMA MissesTyped ==
  ASSUME SetUpInv, NEW e \in Edits, NEW xs, xs \subseteq Accounts \cup Numbers, Misses(e, xs)
  PROVE  /\ missed' \in [Edits -> SUBSET (Accounts \cup Numbers)] /\ missed'[e] = missed[e]
         /\ \A f \in Edits : missed[f] \subseteq missed'[f]
         /\ \A f \in Edits \ {e} : Open(f) => xs \subseteq missed'[f]
<1>1. \A f \in Edits :
        missed'[f] = missed[f] \cup (IF f # e /\ Open(f) THEN xs ELSE {})
  BY DEF Misses
<1>2. missed' \in [Edits -> SUBSET (Accounts \cup Numbers)]
  BY <1>1 DEF SetUpInv, ConsoleTypes, Misses
<1> QED BY <1>1, <1>2

LEMMA AllocateStartSetsUp == ASSUME SetUpInv, NEW e \in Edits, AllocateStart(e) PROVE SetUpInv'
<1>1. PICK a \in Accounts, n \in Sizes :
        edit' = [edit EXCEPT ![e] = [NoEdit EXCEPT !.op = "allocate", !.account = a,
                                     !.size = n, !.seen = Others(a)]]
  BY DEF AllocateStart, Arrives
<1> DEFINE r == [NoEdit EXCEPT !.op = "allocate", !.account = a, !.size = n, !.seen = Others(a)]
<1>2. Others(a) = SumFunctionOnSet(allocation, Accounts \ {a}) /\ Others(a) \in Nat
  BY OthersSum DEF SetUpInv
<1>3. r \in EditRecords /\ r.op = "allocate" /\ r.account = a /\ r.seen = Others(a)
  BY <1>2 DEF NoEdit, EditRecords, Owners
<1> HIDE DEF r
<1>4. /\ edit' \in [Edits -> EditRecords] /\ edit'[e] = r
      /\ \A f \in Edits \ {e} : edit'[f] = edit[f]
  BY <1>1, <1>3, RowOfOne DEF r
<1>5. at' = [at EXCEPT ![e] = "summed"] /\ UNCHANGED <<rows, attached, runs, locks, missed, begun>>
  BY DEF AllocateStart, Go
<1>6. /\ at' \in [Edits -> RequestStates] /\ at'[e] = "summed"
      /\ \A f \in Edits \ {e} : at'[f] = at[f]
  BY <1>5, StepOfOne DEF RequestStates
<1>7. ConsoleTypes'
  BY <1>4, <1>5, <1>6 DEF SetUpInv, ConsoleTypes, rows, runs
<1>8. RequestInv(e)'
  <2>1. allocation' = allocation
    BY <1>5 DEF rows
  <2> QED BY <1>2, <1>3, <1>4, <1>6, <2>1 DEF RequestInv, RequestFits, SumIsCurrent,
             StatusIsCurrent, ListIsDone
<1>9. \A f \in Edits \ {e} : RequestInv(f)'
  BY <1>4, <1>5, <1>6, OthersStandStill
<1> QED BY <1>7, <1>8, <1>9 DEF SetUpInv

\* A step inside e: it replaces its record, may lock, may change numbers at Telnyx.
LEMMA OneSetsUp ==
  ASSUME SetUpInv, NEW e \in Edits, UNCHANGED <<rows, runs, begun>>,
         NEW to \in RequestStates, at' = [at EXCEPT ![e] = to],
         NEW r \in EditRecords, edit' = [edit EXCEPT ![e] = r],
         locks' \in [Edits -> SUBSET (Accounts \cup Numbers)],
         UNCHANGED <<attached, missed>>,
         RequestInv(e)'
  PROVE  SetUpInv'
<1>1. /\ edit' \in [Edits -> EditRecords] /\ edit'[e] = r
      /\ \A f \in Edits \ {e} : edit'[f] = edit[f]
  BY RowOfOne
<1>2. /\ at' \in [Edits -> RequestStates] /\ at'[e] = to
      /\ \A f \in Edits \ {e} : at'[f] = at[f]
  BY StepOfOne
<1>3. ConsoleTypes'
  BY <1>1, <1>2 DEF SetUpInv, ConsoleTypes, rows, runs
<1>4. \A f \in Edits \ {e} : RequestInv(f)'
  BY <1>1, <1>2, OthersStandStill
<1> QED BY <1>3, <1>4 DEF SetUpInv

LEMMA RecordOf ==
  ASSUME SetUpInv, NEW e \in Edits
  PROVE  /\ edit[e] \in EditRecords /\ RequestInv(e)
         /\ edit[e].account \in Owners /\ edit[e].size \in Nat /\ edit[e].seen \in Nat
<1>1. edit[e] \in EditRecords /\ RequestInv(e)
  BY DEF SetUpInv, ConsoleTypes
<1>2. /\ edit[e].account \in Owners /\ edit[e].size \in Sizes \cup {0}
      /\ edit[e].seen \in Nat
  BY <1>1 DEF EditRecords
<1> QED BY <1>1, <1>2, SizesNat

LEMMA AcknowledgeSetsUp == ASSUME SetUpInv, NEW e \in Edits, Acknowledge(e) PROVE SetUpInv'
<1>1. PICK a \in Accounts :
        /\ edit' = [edit EXCEPT ![e] = [NoEdit EXCEPT !.op = "acknowledge", !.account = a]]
        /\ UNCHANGED locks \/ Lock(e, {a})
  BY DEF Acknowledge, Arrives
<1> DEFINE r == [NoEdit EXCEPT !.op = "acknowledge", !.account = a]
<1>2. r \in EditRecords /\ r.op = "acknowledge" /\ r.account = a
  BY DEF NoEdit, EditRecords, Owners
<1> HIDE DEF r
<1>3. edit' = [edit EXCEPT ![e] = r] /\ edit'[e] = r
  BY <1>1, <1>2, RowOfOne DEF r
<1>4. /\ at' = [at EXCEPT ![e] = "acknowledged"]
      /\ UNCHANGED <<rows, attached, runs, missed, begun>>
  BY DEF Acknowledge, Go
<1>5. at'[e] = "acknowledged" /\ "acknowledged" \in RequestStates
  BY <1>4, StepOfOne DEF RequestStates
<1>6. locks' \in [Edits -> SUBSET (Accounts \cup Numbers)]
  <2>1. UNCHANGED locks => locks' \in [Edits -> SUBSET (Accounts \cup Numbers)]
    BY DEF SetUpInv, ConsoleTypes
  <2> QED BY <1>1, <2>1, LocksOfOne
<1>7. RequestInv(e)'
  BY <1>2, <1>3, <1>5 DEF RequestInv, RequestFits, SumIsCurrent, StatusIsCurrent, ListIsDone
<1> QED BY <1>2, <1>3, <1>4, <1>5, <1>6, <1>7, OneSetsUp

LEMMA AssignSelectSetsUp == ASSUME SetUpInv, NEW e \in Edits, AssignSelect(e) PROVE SetUpInv'
<1>1. PICK n \in Numbers, a \in Owners :
        /\ edit' = [edit EXCEPT ![e] = [NoEdit EXCEPT !.op = "assign", !.account = a,
                                        !.number = n, !.from = holder[n]]]
        /\ \/ at' = [at EXCEPT ![e] = "refused"] /\ UNCHANGED locks
           \/ at' = [at EXCEPT ![e] = "counted"] /\ Lock(e, {n})
  BY DEF AssignSelect, Arrives
<1> DEFINE r == [NoEdit EXCEPT !.op = "assign", !.account = a, !.number = n, !.from = holder[n]]
<1>2. r \in EditRecords /\ r.op = "assign" /\ r.account = a /\ r.number = n /\ r.seen \in Groups
  <2>1. holder[n] \in Owners
    BY DEF SetUpInv, ConsoleTypes
  <2> QED BY <2>1 DEF NoEdit, EditRecords, Owners, Groups
<1> HIDE DEF r
<1>3. edit' = [edit EXCEPT ![e] = r] /\ edit'[e] = r
  BY <1>1, <1>2, RowOfOne DEF r
<1>4. UNCHANGED <<rows, attached, runs, missed, begun>>
  BY DEF AssignSelect
<1>5. locks' \in [Edits -> SUBSET (Accounts \cup Numbers)]
  <2>1. UNCHANGED locks => locks' \in [Edits -> SUBSET (Accounts \cup Numbers)]
    BY DEF SetUpInv, ConsoleTypes
  <2> QED BY <1>1, <2>1, LocksOfOne
<1>6. PICK to \in {"refused", "counted"} : at' = [at EXCEPT ![e] = to]
  BY <1>1
<1>7. at'[e] = to /\ to \in RequestStates
  BY <1>6, StepOfOne DEF RequestStates, Ended
<1>8. RequestInv(e)'
  BY <1>2, <1>3, <1>6, <1>7
     DEF RequestInv, RequestFits, SumIsCurrent, StatusIsCurrent, ListIsDone, Open, Ended
<1> QED BY <1>2, <1>3, <1>4, <1>5, <1>6, <1>7, <1>8, OneSetsUp

LEMMA AllocateOnSetsUp ==
  ASSUME SetUpInv, NEW e \in Edits, AllocateRefused(e) \/ AllocateUpdate(e) PROVE SetUpInv'
<1>1. PICK to \in {"refused", "allocated"} :
        /\ at' = [at EXCEPT ![e] = to]
        /\ to = "allocated" => edit[e].size + edit[e].seen <= Ceiling
  BY DEF AllocateRefused, AllocateUpdate, Go
<1>2. at[e] = "summed" /\ UNCHANGED <<rows, attached, runs, edit, missed, begun>>
  BY DEF AllocateRefused, AllocateUpdate, Go
<1>3. edit[e] \in EditRecords /\ RequestInv(e)
  BY RecordOf
<1>4. /\ edit[e].op = "allocate" /\ edit[e].account \in Accounts
      /\ missed[e] \cap Accounts = {} =>
           edit[e].seen = SumFunctionOnSet(allocation, Accounts \ {edit[e].account})
  BY <1>2, <1>3 DEF RequestInv, RequestFits, SumIsCurrent, Open, Ended
<1>5. at'[e] = to /\ to \in RequestStates
  BY <1>1, StepOfOne DEF RequestStates, Ended
<1>6. edit' = [edit EXCEPT ![e] = edit[e]]
  BY <1>2 DEF SetUpInv, ConsoleTypes
<1>7. locks' \in [Edits -> SUBSET (Accounts \cup Numbers)]
  <2>1. UNCHANGED locks \/ Lock(e, {edit[e].account})
    BY DEF AllocateRefused, AllocateUpdate
  <2>2. UNCHANGED locks => locks' \in [Edits -> SUBSET (Accounts \cup Numbers)]
    BY DEF SetUpInv, ConsoleTypes
  <2> QED BY <1>4, <2>1, <2>2, LocksOfOne
<1>8. RequestInv(e)'
  <2>1. allocation' = allocation /\ missed' = missed /\ edit' = edit
    BY <1>2 DEF rows
  <2> QED BY <1>1, <1>4, <1>5, <2>1
          DEF RequestInv, RequestFits, SumIsCurrent, StatusIsCurrent, ListIsDone, Open, Ended
<1> QED BY <1>1, <1>2, <1>3, <1>5, <1>6, <1>7, <1>8, OneSetsUp

\* The refresh: what it sees of its account is committed, or it has missed it.
LEMMA RefreshSetsUp ==
  ASSUME SetUpInv, NEW e \in Edits, NEW from \in {"allocated", "acknowledged", "counted"},
         NEW to \in {"settled", "moved"}, Refresh(e, from, to),
         from = "counted" <=> to = "moved", from = "counted" => edit[e].account \in Accounts
  PROVE  SetUpInv'
<1> DEFINE a == edit[e].account
<1>1. /\ at[e] = from /\ at' = [at EXCEPT ![e] = to]
      /\ UNCHANGED <<rows, attached, runs, missed, begun>>
  BY DEF Refresh, Go
<1>2. edit[e] \in EditRecords /\ RequestInv(e)
  BY RecordOf
<1>3. /\ a \in Accounts /\ edit[e].op # "none"
      /\ to = "settled" => edit[e].op # "assign"
      /\ to = "moved" =>
           edit[e].op = "assign" /\ edit[e].number \in Numbers /\ edit[e].seen \in Groups
      /\ edit[e].op = "allocate" =>
           /\ missed[e] \cap Accounts = {} =>
                edit[e].seen = SumFunctionOnSet(allocation, Accounts \ {a})
           /\ edit[e].size + edit[e].seen <= Ceiling
  BY <1>1, <1>2 DEF RequestInv, RequestFits, SumIsCurrent, Open, Ended
<1>4. PICK w \in {a, edit[e].wakes} :
        /\ edit' = [edit EXCEPT ![e] = [edit[e] EXCEPT !.wakes = w]]
        /\ w = a \/ a \in active \/ ~ SeesTrio(e)
        /\ UNCHANGED locks \/ Lock(e, {a})
  <2>1. CASE SeesReady(e, a)
    <3>1. edit' = [edit EXCEPT ![e].wakes = a] /\ Lock(e, {a})
      BY <2>1 DEF Refresh
    <3> QED BY <3>1
  <2>2. CASE ~ SeesReady(e, a)
    <3>1. UNCHANGED <<locks, edit>>
      BY <2>2 DEF Refresh
    <3>2. a \in active \/ ~ SeesTrio(e)
      BY <2>2 DEF SeesReady, SeesTrio, Trio
    <3>3. edit' = [edit EXCEPT ![e] = [edit[e] EXCEPT !.wakes = edit[e].wakes]]
      BY <1>2, <3>1 DEF SetUpInv, ConsoleTypes, EditRecords
    <3> QED BY <3>1, <3>2, <3>3
  <2> QED BY <2>1, <2>2
<1> DEFINE r == [edit[e] EXCEPT !.wakes = w]
<1>5. /\ r \in EditRecords /\ r.wakes = w /\ r.account = a /\ r.op = edit[e].op
      /\ r.number = edit[e].number /\ r.size = edit[e].size /\ r.seen = edit[e].seen
  BY <1>2, <1>3 DEF EditRecords, Owners
<1> HIDE DEF r
<1>6. edit' = [edit EXCEPT ![e] = r] /\ edit'[e] = r
  BY <1>4, <1>5, RowOfOne DEF r
<1>7. at'[e] = to /\ to \in RequestStates
  BY <1>1, StepOfOne DEF RequestStates
<1>8. locks' \in [Edits -> SUBSET (Accounts \cup Numbers)]
  <2>1. UNCHANGED locks => locks' \in [Edits -> SUBSET (Accounts \cup Numbers)]
    BY DEF SetUpInv, ConsoleTypes
  <2> QED BY <1>3, <1>4, <2>1, LocksOfOne
<1>9. /\ allocation' = allocation /\ missed' = missed /\ acknowledged' = acknowledged
      /\ active' = active /\ holder' = holder
  BY <1>1 DEF rows
<1>10. RequestFits(e)' /\ SumIsCurrent(e)' /\ ListIsDone(e)'
  BY <1>3, <1>5, <1>6, <1>7, <1>9 DEF RequestFits, SumIsCurrent, ListIsDone, Open, Ended
<1>11. StatusIsCurrent(e)'
  BY <1>4, <1>5, <1>6, <1>7, <1>9 DEF StatusIsCurrent, SeesTrio, Held
<1>12. RequestInv(e)'
  BY <1>10, <1>11 DEF RequestInv
<1> QED BY <1>1, <1>5, <1>6, <1>7, <1>8, <1>12, OneSetsUp

\* An assignment's gateway steps leave its status and its account's sum alone.
LEMMA GatewayStepFits ==
  ASSUME SetUpInv, NEW e \in Edits, at[e] \in {"counted", "moved", "grouping", "attaching"},
         NEW to \in {"grouping", "attaching", "settled"}, at'[e] = to,
         at[e] = "counted" => edit[e].account = "none" /\ to = "settled",
         UNCHANGED rows, missed'[e] = missed[e],
         edit'[e].op = edit[e].op, edit'[e].account = edit[e].account,
         edit'[e].number = edit[e].number, edit'[e].wakes = edit[e].wakes,
         edit'[e].seen \in Groups, ListIsDone(e)'
  PROVE  RequestInv(e)'
<1>1. RequestInv(e)
  BY RecordOf
<1>2. /\ edit[e].op = "assign" /\ edit[e].number \in Numbers
      /\ edit[e].account \in Accounts \/ at[e] = "counted"
  BY <1>1 DEF RequestInv, RequestFits, Open, Ended
<1>3. /\ acknowledged' = acknowledged /\ allocation' = allocation
      /\ active' = active /\ holder' = holder
  BY DEF rows
<1>4. RequestFits(e)' /\ SumIsCurrent(e)'
  BY <1>2 DEF RequestFits, SumIsCurrent
<1>5. StatusIsCurrent(e)'
  <2>1. CASE at[e] = "counted"
    BY <2>1, ConsoleAssumption DEF StatusIsCurrent
  <2>2. CASE at[e] # "counted"
    <3>1. StatusIsCurrent(e) /\ at[e] \in {"moved", "grouping", "attaching", "settled"}
      BY <1>1, <2>2 DEF RequestInv
    <3>2. SeesTrio(e)' = SeesTrio(e)
      BY <1>2, <1>3 DEF SeesTrio, Held
    <3> QED BY <1>3, <3>1, <3>2 DEF StatusIsCurrent
  <2> QED BY <2>1, <2>2
<1> QED BY <1>4, <1>5 DEF RequestInv

LEMMA GroupSetsUp ==
  ASSUME SetUpInv, NEW e \in Edits, GroupRead(e) \/ GroupSave(e) PROVE SetUpInv'
<1> DEFINE a == edit[e].account
<1>1. edit[e] \in EditRecords /\ RequestInv(e)
  BY RecordOf
<1>2. at[e] \in {"moved", "grouping"} /\ UNCHANGED <<rows, attached, runs, missed, begun>>
  BY DEF GroupRead, GroupSave, Go
<1>3. a \in Accounts /\ edit[e].op = "assign" /\ edit[e].number \in Numbers
  BY <1>1, <1>2 DEF RequestInv, RequestFits, Open, Ended
<1>4. locks' \in [Edits -> SUBSET (Accounts \cup Numbers)]
  <2>1. UNCHANGED locks \/ Lock(e, {a})
    BY DEF GroupRead, GroupSave
  <2>2. UNCHANGED locks => locks' \in [Edits -> SUBSET (Accounts \cup Numbers)]
    BY DEF SetUpInv, ConsoleTypes
  <2> QED BY <1>3, <2>1, <2>2, LocksOfOne
<1>5. CASE GroupRead(e)
  <2> DEFINE r == [edit[e] EXCEPT !.seen = group[a]]
  <2>1. group[a] \in Groups /\ group[a] \in Nat
    <3>1. group[a] \in Groups
      BY <1>3 DEF SetUpInv, ConsoleTypes
    <3> QED BY <3>1, GroupsNat
  <2>2. /\ r \in EditRecords /\ r.account = a /\ r.op = edit[e].op
        /\ r.number = edit[e].number /\ r.wakes = edit[e].wakes /\ r.seen \in Groups
    BY <1>1, <2>1 DEF EditRecords
  <2>3. edit' = [edit EXCEPT ![e] = r]
    BY <1>5 DEF GroupRead
  <2> HIDE DEF r
  <2>4. edit'[e] = r
    BY <2>2, <2>3, RowOfOne
  <2>5. at[e] = "moved" /\ at' = [at EXCEPT ![e] = "grouping"]
    BY <1>5 DEF GroupRead, Go
  <2>6. at'[e] = "grouping" /\ "grouping" \in RequestStates
    BY <2>5, StepOfOne DEF RequestStates
  <2>7. ListIsDone(e)'
    BY <2>6 DEF ListIsDone
  <2>8. RequestInv(e)'
    BY <1>2, <2>2, <2>4, <2>5, <2>6, <2>7, GatewayStepFits
  <2> QED BY <1>2, <1>4, <2>2, <2>3, <2>5, <2>6, <2>8, OneSetsUp
<1>6. CASE GroupSave(e)
  <2> DEFINE g == IF edit[e].seen = 0 THEN e ELSE edit[e].seen
             T == Held(a) \cup {edit[e].number}
             r == [edit[e] EXCEPT !.seen = g, !.todo = T]
  <2>1. g \in Nat /\ g # 0 /\ g \in Groups
    <3>1. edit[e].seen \in Groups
      BY <1>1, <1>2 DEF RequestInv, RequestFits, Open, Ended
    <3> QED BY <3>1, ConsoleAssumption, RecordOf DEF Groups
  <2>2. T \subseteq Numbers
    BY <1>3 DEF Held
  <2>3. edit' = [edit EXCEPT ![e] = r]
    BY <1>1, <1>6 DEF GroupSave, EditRecords
  <2>4. /\ r \in EditRecords /\ r.account = a /\ r.op = edit[e].op
        /\ r.number = edit[e].number /\ r.wakes = edit[e].wakes /\ r.seen = g /\ r.todo = T
    <3> HIDE DEF g, T
    <3> QED BY <1>1, <2>1, <2>2 DEF EditRecords
  <2> HIDE DEF r
  <2>5. edit'[e] = r
    BY <2>3, <2>4, RowOfOne
  <2>6. at[e] = "grouping" /\ at' = [at EXCEPT ![e] = "attaching"]
    BY <1>6 DEF GroupSave, Go
  <2>7. at'[e] = "attaching" /\ "attaching" \in RequestStates
    BY <2>6, StepOfOne DEF RequestStates
  <2>8. ListIsDone(e)'
    <3>1. holder' = holder
      BY <1>2 DEF rows
    <3>2. Listed(e)' = T
      BY <2>4, <2>5, <3>1 DEF Listed, Held
    <3> HIDE DEF T, g
    <3> QED BY <2>1, <2>4, <2>5, <2>7, <3>2 DEF ListIsDone
  <2>9. RequestInv(e)'
    <3> HIDE DEF g, T
    <3> QED BY <1>2, <2>1, <2>4, <2>5, <2>6, <2>7, <2>8, GatewayStepFits
  <2> QED BY <1>2, <1>4, <2>3, <2>4, <2>6, <2>7, <2>9, OneSetsUp
<1> QED BY <1>5, <1>6

\* A step inside e that changes a number at Telnyx, which the others miss.
LEMMA TelnyxSetsUp ==
  ASSUME SetUpInv, NEW e \in Edits, UNCHANGED <<rows, runs, locks, begun>>,
         NEW to \in RequestStates, at' = [at EXCEPT ![e] = to],
         NEW r \in EditRecords, edit' = [edit EXCEPT ![e] = r],
         NEW n \in Numbers, NEW g \in Groups, attached' = [attached EXCEPT ![n] = g],
         Misses(e, {n}), RequestInv(e)'
  PROVE  SetUpInv'
<1>1. /\ edit' \in [Edits -> EditRecords] /\ edit'[e] = r
      /\ \A f \in Edits \ {e} : edit'[f] = edit[f]
  BY RowOfOne
<1>2. /\ at' \in [Edits -> RequestStates] /\ at'[e] = to
      /\ \A f \in Edits \ {e} : at'[f] = at[f]
  BY StepOfOne
<1>3. /\ missed' \in [Edits -> SUBSET (Accounts \cup Numbers)]
      /\ \A f \in Edits : missed[f] \subseteq missed'[f]
      /\ \A f \in Edits \ {e} : Open(f) => n \in missed'[f]
  BY MissesTyped
<1>4. /\ attached' \in [Numbers -> Groups]
      /\ \A m \in Numbers \ {n} : attached'[m] = attached[m]
  BY DEF SetUpInv, ConsoleTypes
<1>5. ConsoleTypes'
  BY <1>1, <1>2, <1>3, <1>4 DEF SetUpInv, ConsoleTypes, rows, runs
<1>6. \A f \in Edits \ {e}, m \in Numbers :
        attached'[m] = attached[m] \/ (Open(f) => m \in missed'[f])
  BY <1>3, <1>4
<1>7. \A f \in Edits \ {e} : RequestInv(f)'
  BY <1>1, <1>2, <1>3, <1>6, OthersStandStill
<1> QED BY <1>5, <1>7 DEF SetUpInv

LEMMA AttachSetsUp == ASSUME SetUpInv, NEW e \in Edits, Attach(e) PROVE SetUpInv'
<1>1. PICK n \in edit[e].todo :
        /\ attached' = [attached EXCEPT ![n] = edit[e].seen]
        /\ edit' = [edit EXCEPT ![e].todo = @ \ {n}]
        /\ at' = [at EXCEPT ![e] = IF edit[e].todo = {n} THEN "settled" ELSE @]
        /\ Misses(e, {n})
  BY DEF Attach
<1>2. at[e] = "attaching" /\ UNCHANGED <<rows, runs, locks, begun>>
  BY DEF Attach
<1>3. edit[e] \in EditRecords /\ RequestInv(e)
  BY RecordOf
<1>4. n \in Numbers /\ edit[e].todo \subseteq Numbers
  BY <1>3 DEF EditRecords
<1> DEFINE r == [edit[e] EXCEPT !.todo = edit[e].todo \ {n}]
           to == IF edit[e].todo = {n} THEN "settled" ELSE "attaching"
<1>5. /\ r \in EditRecords /\ r.account = edit[e].account /\ r.op = edit[e].op
      /\ r.number = edit[e].number /\ r.wakes = edit[e].wakes /\ r.seen = edit[e].seen
      /\ r.todo = edit[e].todo \ {n} /\ r.whole = edit[e].whole
  BY <1>3, <1>4 DEF EditRecords
<1>6. edit' = [edit EXCEPT ![e] = r] /\ at' = [at EXCEPT ![e] = to]
  BY <1>1, <1>2, <1>3 DEF EditRecords
<1>7. edit'[e] = r
  BY <1>5, <1>6, RowOfOne
<1>8. to \in RequestStates /\ at'[e] = to
  BY <1>6, StepOfOne DEF RequestStates
<1>9. missed'[e] = missed[e]
  BY <1>1, <1>4, MissesTyped
<1>10. ListIsDone(e)'
  <2>1. holder' = holder
    BY <1>2 DEF rows
  <2>2. Listed(e)' = Listed(e)
    BY <1>5, <1>7, <2>1 DEF Listed, Held
  <2>3. edit[e].op = "assign" /\ edit[e].number \in Numbers
    BY <1>2, <1>3 DEF RequestInv, RequestFits, Open, Ended
  <2>4. /\ attached'[n] = edit[e].seen
        /\ \A m \in Numbers \ {n} : attached'[m] = attached[m]
    BY <1>1, <1>4 DEF SetUpInv, ConsoleTypes
  <2>5. Listed(e) \subseteq Numbers
    BY <2>3 DEF Listed, Held
  <2>6. to = "settled" => r.todo = {}
    BY <1>5
  <2> HIDE DEF r, to
  <2> QED BY <1>2, <1>3, <1>5, <1>7, <1>8, <1>9, <2>2, <2>4, <2>5, <2>6
          DEF RequestInv, ListIsDone
<1>11. edit[e].seen \in Groups
  BY <1>2, <1>3 DEF RequestInv, RequestFits, Open, Ended
<1>12. RequestInv(e)'
  <2>1. to \in {"attaching", "settled"}
    OBVIOUS
  <2> HIDE DEF r, to
  <2> QED BY <1>2, <1>5, <1>7, <1>8, <1>9, <1>10, <1>11, <2>1, GatewayStepFits
<1> HIDE DEF r, to
<1> QED BY <1>1, <1>2, <1>4, <1>5, <1>6, <1>8, <1>11, <1>12, TelnyxSetsUp

LEMMA DetachSetsUp == ASSUME SetUpInv, NEW e \in Edits, Detach(e) PROVE SetUpInv'
<1>1. /\ at[e] = "counted" /\ at' = [at EXCEPT ![e] = "settled"] /\ edit[e].account = "none"
      /\ attached' = [attached EXCEPT ![edit[e].number] = 0] /\ Misses(e, {edit[e].number})
      /\ UNCHANGED <<rows, runs, edit, locks, begun>>
  BY DEF Detach, Go
<1>2. edit[e] \in EditRecords /\ RequestInv(e) /\ edit' = [edit EXCEPT ![e] = edit[e]]
  BY <1>1, RecordOf DEF SetUpInv, ConsoleTypes
<1>3. edit[e].number \in Numbers /\ edit[e].seen \in Groups
  BY <1>1, <1>2 DEF RequestInv, RequestFits, Open, Ended
<1>4. at'[e] = "settled" /\ "settled" \in RequestStates
  BY <1>1, StepOfOne DEF RequestStates
<1>5. missed'[e] = missed[e]
  BY <1>1, <1>3, MissesTyped
<1>6. ListIsDone(e)'
  BY <1>1, ConsoleAssumption DEF ListIsDone
<1>7. RequestInv(e)'
  BY <1>1, <1>3, <1>4, <1>5, <1>6, GatewayStepFits
<1>8. 0 \in Groups
  BY DEF Groups
<1> QED BY <1>1, <1>2, <1>3, <1>4, <1>7, <1>8, TelnyxSetsUp

LEMMA GroupFailsSetsUp == ASSUME SetUpInv, NEW e \in Edits, GroupFails(e) PROVE SetUpInv'
<1>1. /\ \/ at[e] = "counted" /\ edit[e].account = "none"
         \/ at[e] \in {"grouping", "attaching"}
      /\ at' = [at EXCEPT ![e] = "settled"] /\ edit' = [edit EXCEPT ![e].whole = "no"]
      /\ UNCHANGED <<rows, attached, runs, locks, missed, begun>>
  BY DEF GroupFails
<1>2. edit[e] \in EditRecords /\ RequestInv(e)
  BY RecordOf
<1> DEFINE r == [edit[e] EXCEPT !.whole = "no"]
<1>3. /\ r \in EditRecords /\ r.account = edit[e].account /\ r.op = edit[e].op
      /\ r.number = edit[e].number /\ r.wakes = edit[e].wakes /\ r.seen = edit[e].seen
      /\ r.whole = "no"
  BY <1>2 DEF EditRecords
<1>4. edit' = [edit EXCEPT ![e] = r]
  BY <1>1
<1> HIDE DEF r
<1>5. edit'[e] = r
  BY <1>3, <1>4, RowOfOne
<1>6. at'[e] = "settled" /\ "settled" \in RequestStates
  BY <1>1, StepOfOne DEF RequestStates
<1>7. edit[e].seen \in Groups
  BY <1>1, <1>2 DEF RequestInv, RequestFits, Open, Ended
<1>8. ListIsDone(e)'
  BY <1>3, <1>5 DEF ListIsDone
<1>9. RequestInv(e)'
  BY <1>1, <1>3, <1>5, <1>6, <1>7, <1>8, GatewayStepFits
<1>10. locks' \in [Edits -> SUBSET (Accounts \cup Numbers)]
  BY <1>1 DEF SetUpInv, ConsoleTypes
<1> QED BY <1>1, <1>3, <1>4, <1>6, <1>9, <1>10, OneSetsUp

LEMMA CrashSetsUp == ASSUME SetUpInv, NEW e \in Edits, Crash(e) PROVE SetUpInv'
<1>1. /\ at' = [at EXCEPT ![e] = "dead"] /\ Misses(e, {})
      /\ locks' = [locks EXCEPT ![e] = {}] /\ UNCHANGED <<rows, runs, attached, edit, begun>>
  BY DEF Crash, Seal
<1>2. /\ at' \in [Edits -> RequestStates] /\ at'[e] = "dead"
      /\ \A f \in Edits \ {e} : at'[f] = at[f]
  BY <1>1, StepOfOne DEF RequestStates, Ended
<1>3. /\ missed' \in [Edits -> SUBSET (Accounts \cup Numbers)]
      /\ \A f \in Edits : missed[f] \subseteq missed'[f]
  BY <1>1, MissesTyped
<1>4. ConsoleTypes'
  BY <1>1, <1>2, <1>3 DEF SetUpInv, ConsoleTypes, rows, runs
<1>5. RequestInv(e)'
  BY <1>2 DEF RequestInv, RequestFits, SumIsCurrent, StatusIsCurrent, ListIsDone, Open, Ended
<1>6. \A f \in Edits \ {e} : RequestInv(f)'
  BY <1>1, <1>2, <1>3, OthersStandStill
<1> QED BY <1>4, <1>5, <1>6 DEF SetUpInv

\* A commit. What another request has read stays current unless it is of an account
\* the commit is about.
LEMMA CommitSetsUp == ASSUME SetUpInv, NEW e \in Edits, Commit(e) PROVE SetUpInv'
<1> DEFINE x == edit[e]
<1>1. /\ at[e] = "settled" /\ at' = [at EXCEPT ![e] = "done"]
      /\ Misses(e, Touches(e)) /\ locks' = [locks EXCEPT ![e] = {}]
      /\ UNCHANGED <<attached, runs, edit, begun>>
  BY DEF Commit, Go, Seal
<1>2. x \in EditRecords /\ RequestInv(e)
  BY RecordOf
<1>3. /\ x.op \in {"allocate", "acknowledge", "assign"} /\ x.account \in Owners
      /\ x.op # "assign" => x.account \in Accounts
      /\ x.op = "assign" => x.number \in Numbers /\ x.seen \in Groups
      /\ x.size \in Sizes \cup {0} /\ x.wakes \in Owners
  BY <1>1, <1>2 DEF RequestInv, RequestFits, Open, Ended, EditRecords
<1>4. /\ allocation' = IF x.op = "allocate" THEN [allocation EXCEPT ![x.account] = x.size]
                       ELSE allocation
      /\ acknowledged' = IF x.op = "acknowledge" THEN acknowledged \cup {x.account}
                         ELSE acknowledged
      /\ holder' = IF x.op = "assign" THEN [holder EXCEPT ![x.number] = x.account] ELSE holder
      /\ group' = IF x.op = "assign" /\ x.account # "none" /\ x.seen # 0
                    THEN [group EXCEPT ![x.account] = x.seen] ELSE group
      /\ active' = active \cup ({x.wakes} \ {"none"})
  BY DEF Commit
<1>5. /\ at' \in [Edits -> RequestStates] /\ at'[e] = "done"
      /\ \A f \in Edits \ {e} : at'[f] = at[f]
  BY <1>1, StepOfOne DEF RequestStates, Ended
<1>6. x.op = "assign" => holder[x.number] \in Owners
  BY <1>3 DEF SetUpInv, ConsoleTypes
<1>7. Touches(e) \subseteq Accounts \cup Numbers
  BY <1>3, <1>6 DEF Touches, Owners
<1>8. /\ missed' \in [Edits -> SUBSET (Accounts \cup Numbers)]
      /\ \A f \in Edits : missed[f] \subseteq missed'[f]
      /\ \A f \in Edits \ {e} : Open(f) => Touches(e) \subseteq missed'[f]
  BY <1>1, <1>7, MissesTyped
<1> HIDE DEF x
<1>9. ConsoleTypes'
  <2>1. allocation' \in [Accounts -> Sizes \cup {0}]
    BY <1>3, <1>4 DEF SetUpInv, ConsoleTypes
  <2>2. acknowledged' \subseteq Accounts /\ active' \subseteq Accounts
    BY <1>3, <1>4 DEF SetUpInv, ConsoleTypes, Owners
  <2>3. holder' \in [Numbers -> Owners] /\ group' \in [Accounts -> Groups]
    BY <1>3, <1>4 DEF SetUpInv, ConsoleTypes
  <2> QED BY <1>1, <1>5, <1>8, <2>1, <2>2, <2>3 DEF SetUpInv, ConsoleTypes, runs
<1>10. RequestInv(e)'
  BY <1>5 DEF RequestInv, RequestFits, SumIsCurrent, StatusIsCurrent, ListIsDone, Open, Ended
<1>11. ASSUME NEW f \in Edits \ {e} PROVE RequestInv(f)'
  <2>1. /\ at'[f] = at[f] /\ edit'[f] = edit[f] /\ missed[f] \subseteq missed'[f]
        /\ attached' = attached /\ RequestInv(f)
    BY <1>1, <1>5, <1>8 DEF SetUpInv
  <2>2. RequestFits(f)'
    BY <2>1 DEF RequestInv, RequestFits, Open
  <2>3. SumIsCurrent(f)'
    <3>1. ASSUME x.op = "allocate", Open(f) PROVE missed'[f] \cap Accounts # {}
      <4>1. x.account \in Touches(e) /\ x.account \in Accounts
        BY <1>3, <3>1, ConsoleAssumption DEF Touches, x
      <4> QED BY <1>8, <3>1, <4>1
    <3>2. x.op # "allocate" => allocation' = allocation
      BY <1>4
    <3> QED BY <2>1, <3>1, <3>2 DEF RequestInv, SumIsCurrent, Open
  <2> DEFINE a == edit[f].account
  <2>4. ASSUME Open(f), a \in Accounts, a \notin missed'[f]
        PROVE  /\ allocation'[a] = allocation[a] /\ (a \in acknowledged' <=> a \in acknowledged)
               /\ Held(a)' = Held(a)
    <3>1. a \notin Touches(e) /\ a # "none"
      BY <1>8, <2>4, ConsoleAssumption
    <3>2. a # x.account /\ (x.op = "assign" => holder[x.number] # a)
      BY <3>1 DEF Touches, x
    <3>3. allocation'[a] = allocation[a] /\ (a \in acknowledged' <=> a \in acknowledged)
      BY <1>3, <1>4, <2>4, <3>2 DEF SetUpInv, ConsoleTypes
    <3>4. \A n \in Numbers : holder'[n] = a <=> holder[n] = a
      BY <1>3, <1>4, <3>2 DEF SetUpInv, ConsoleTypes
    <3>5. Held(a)' = Held(a)
      <4>1. Held(a)' = {n \in Numbers : holder'[n] = a}
        BY <2>1 DEF Held
      <4> QED BY <3>4, <4>1 DEF Held
    <3> QED BY <3>3, <3>5
  <2>5. StatusIsCurrent(f)'
    <3>1. SUFFICES ASSUME at[f] \in {"moved", "grouping", "attaching", "settled"},
                          a \in Accounts, a \notin missed'[f]
                   PROVE  a \in active' \cup {edit[f].wakes} \/ ~ SeesTrio(f)'
      BY <2>1 DEF StatusIsCurrent
    <3>2. Open(f)
      BY <3>1 DEF Open, Ended
    <3>3. a \in active \cup {edit[f].wakes} \/ ~ SeesTrio(f)
      BY <2>1, <3>1 DEF RequestInv, StatusIsCurrent
    <3>4. SeesTrio(f)' <=> SeesTrio(f)
      <4>1. /\ allocation'[a] = allocation[a] /\ (a \in acknowledged' <=> a \in acknowledged)
            /\ Held(a)' = Held(a)
        BY <2>4, <3>1, <3>2
      <4>2. (Held(a) # {})' <=> Held(a) # {}
        BY <4>1
      <4>3. SeesTrio(f)' <=>
              /\ a \in acknowledged' \/ edit[f].op = "acknowledge"
              /\ edit[f].op = "allocate" => edit[f].size > 0
              /\ edit[f].op = "allocate" \/ allocation'[a] > 0
              /\ (Held(a) # {})' \/ edit[f].op = "assign"
        BY <2>1 DEF SeesTrio
      <4> QED BY <4>1, <4>2, <4>3 DEF SeesTrio
    <3> QED BY <1>4, <3>3, <3>4
  <2>6. ListIsDone(f)'
    <3> QED BY <2>1, <2>4 DEF RequestInv, ListIsDone, Listed, Open, Ended
  <2> QED BY <2>2, <2>3, <2>5, <2>6 DEF RequestInv
<1> QED BY <1>9, <1>10, <1>11 DEF SetUpInv

LEMMA RunsSetUp ==
  ASSUME SetUpInv, NEW a \in Accounts, Launches(a) \/ RunBegins(a) \/ RunEnds(a) PROVE SetUpInv'
<1>1. UNCHANGED <<rows, attached, edit, at, missed, locks>>
  BY DEF Launches, RunBegins, RunEnds
<1>2. scheduled' \subseteq Accounts /\ dialling' \subseteq Accounts
  BY DEF Launches, RunBegins, RunEnds, SetUpInv, ConsoleTypes
<1>3. begun' \in [Edits -> SUBSET Accounts]
  BY DEF Launches, RunBegins, RunEnds, SetUpInv, ConsoleTypes
<1>4. ConsoleTypes'
  BY <1>1, <1>2, <1>3 DEF SetUpInv, ConsoleTypes, rows
<1>5. \A e \in Edits : RequestInv(e)'
  BY <1>1, RunsDoNotMatter
<1> QED BY <1>4, <1>5 DEF SetUpInv

LEMMA SetUpStep == SetUpInv /\ [ConsoleNext]_consoleVars => SetUpInv'
<1> SUFFICES ASSUME SetUpInv, [ConsoleNext]_consoleVars PROVE SetUpInv'
  OBVIOUS
<1>1. CASE UNCHANGED consoleVars
  <2>1. UNCHANGED <<rows, attached, edit, at, missed>> /\ UNCHANGED <<runs, locks, begun>>
    BY <1>1 DEF consoleVars
  <2>2. \A e \in Edits : RequestInv(e)'
    BY <2>1, RunsDoNotMatter
  <2>3. ConsoleTypes'
    BY <2>1 DEF SetUpInv, ConsoleTypes, rows, runs
  <2> QED BY <2>2, <2>3 DEF SetUpInv
<1>2. ASSUME NEW e \in Edits, AllocateStart(e) \/ AllocateRefused(e) \/ AllocateUpdate(e)
                              \/ Acknowledge(e) \/ AssignSelect(e)
      PROVE  SetUpInv'
  BY <1>2, AllocateStartSetsUp, AllocateOnSetsUp, AcknowledgeSetsUp, AssignSelectSetsUp
<1>3. ASSUME NEW e \in Edits, Refresh(e, "allocated", "settled")
                              \/ Refresh(e, "acknowledged", "settled") \/ AssignUpdate(e)
      PROVE  SetUpInv'
  BY <1>3, RefreshSetsUp DEF AssignUpdate
<1>4. ASSUME NEW e \in Edits, GroupRead(e) \/ GroupSave(e) \/ Attach(e) \/ Detach(e)
                              \/ GroupFails(e) \/ Commit(e) \/ Crash(e)
      PROVE  SetUpInv'
  BY <1>4, GroupSetsUp, AttachSetsUp, DetachSetsUp, GroupFailsSetsUp, CommitSetsUp, CrashSetsUp
<1> QED BY <1>1, <1>2, <1>3, <1>4, RunsSetUp DEF ConsoleNext

LEMMA SetUpInvariant == ConsoleSpec => []SetUpInv
<1> QED BY SetUpStart, SetUpStep, PTL DEF ConsoleSpec

\* Only a commit ends a request well.
LEMMA OnlyCommitEnds ==
  ASSUME SetUpInv, ConsoleNext, NEW e \in Edits, Commits(e) PROVE Commit(e)
<1>1. at[e] = "settled" /\ at'[e] = "done" /\ at \in [Edits -> RequestStates]
  BY DEF Commits, SetUpInv, ConsoleTypes
<1>2. ASSUME NEW f \in Edits, NEW to, at' = [at EXCEPT ![f] = to], to # "done" PROVE FALSE
  BY <1>1, <1>2
<1>3. ASSUME NEW f \in Edits,
             AllocateStart(f) \/ AllocateRefused(f) \/ AllocateUpdate(f) \/ Acknowledge(f)
             \/ AssignSelect(f) \/ GroupRead(f) \/ GroupSave(f) \/ Detach(f) \/ GroupFails(f)
             \/ Crash(f)
      PROVE  FALSE
  BY <1>2, <1>3 DEF AllocateStart, AllocateRefused, AllocateUpdate, Acknowledge, AssignSelect,
     GroupRead, GroupSave, Detach, GroupFails, Crash, Go
<1>4. ASSUME NEW f \in Edits, Refresh(f, "allocated", "settled")
                              \/ Refresh(f, "acknowledged", "settled") \/ AssignUpdate(f)
      PROVE  FALSE
  BY <1>2, <1>4 DEF AssignUpdate, Refresh, Go
<1>5. ASSUME NEW f \in Edits, Attach(f) PROVE FALSE
  <2>1. PICK to \in {"settled", "attaching"} : at' = [at EXCEPT ![f] = to]
    BY <1>5 DEF Attach
  <2> QED BY <1>2, <2>1
<1>6. ASSUME NEW a \in Accounts, Launches(a) \/ RunBegins(a) \/ RunEnds(a) PROVE FALSE
  BY <1>1, <1>6 DEF Launches, RunBegins, RunEnds
<1>7. PICK f \in Edits : Commit(f)
  BY <1>3, <1>4, <1>5, <1>6 DEF ConsoleNext
<1>8. f = e
  BY <1>1, <1>7 DEF Commit, Go
<1> QED BY <1>7, <1>8

\* The ceiling: the request adds its own channels to what the others have.
LEMMA CeilingStep == ASSUME SetUpInv, ConsoleNext PROVE OversoldOnlyIfMissed
<1> SUFFICES ASSUME NEW e \in Edits, Commits(e), edit[e].op = "allocate",
                    missed[e] \cap Accounts = {}
             PROVE  ~ (MapThenSumSet(LAMBDA a : allocation'[a], Accounts) > Ceiling)
  BY DEF OversoldOnlyIfMissed
<1> DEFINE a == edit[e].account  n == edit[e].size
<1>1. Commit(e) /\ at[e] = "settled"
  BY OnlyCommitEnds DEF Commits
<1>2. RequestInv(e) /\ n \in Nat /\ edit[e].seen \in Nat /\ SetUpInv'
  BY <1>1, RecordOf, CommitSetsUp
<1>3. /\ a \in Accounts /\ edit[e].seen = SumFunctionOnSet(allocation, Accounts \ {a})
      /\ n + edit[e].seen <= Ceiling
  BY <1>1, <1>2 DEF RequestInv, RequestFits, SumIsCurrent, Open, Ended
<1>4. allocation' = [allocation EXCEPT ![a] = n]
  BY <1>1 DEF Commit
<1>5. allocation'[a] = n /\ \A b \in Accounts \ {a} : allocation'[b] = allocation[b]
  BY <1>3, <1>4 DEF SetUpInv, ConsoleTypes
<1>6. \A b \in Accounts : allocation'[b] \in Int
  <2>1. \A b \in Accounts : allocation'[b] \in Sizes \cup {0}
    BY <1>2 DEF SetUpInv, ConsoleTypes
  <2> QED BY <2>1, SizesNat
<1>7. IsFiniteSet(Accounts) /\ IsFiniteSet(Accounts \ {a})
  BY ConsoleAssumption, FS_Subset
<1>8. SumFunctionOnSet(allocation', Accounts)
        = allocation'[a] + SumFunctionOnSet(allocation', Accounts \ {a})
  BY <1>3, <1>6, <1>7, SumTake
<1>9. SumFunctionOnSet(allocation', Accounts \ {a}) = SumFunctionOnSet(allocation, Accounts \ {a})
  BY <1>5, <1>7, SumSame
<1>10. MapThenSumSet(LAMBDA b : allocation'[b], Accounts) = SumFunctionOnSet(allocation', Accounts)
  BY DEF MapThenSumSet, MapThenFoldSet, SumFunctionOnSet, FoldFunctionOnSet
<1>11. SumFunctionOnSet(allocation', Accounts) <= Ceiling
  BY <1>2, <1>3, <1>5, <1>8, <1>9, ConsoleAssumption
<1>12. SumFunctionOnSet(allocation', Accounts) \in Int
  BY <1>6, <1>7, SumTake
<1>13. ~ (SumFunctionOnSet(allocation', Accounts) > Ceiling)
  BY <1>11, <1>12, ConsoleAssumption
<1> QED BY <1>13 DEF MapThenSumSet, MapThenFoldSet, SumFunctionOnSet, FoldFunctionOnSet

\* The status: what the refresh saw is what is committed with it.
LEMMA ReadyStep == ASSUME SetUpInv, ConsoleNext PROVE ReadyOnlyIfMissed
<1> SUFFICES ASSUME NEW e \in Edits, Commits(e), edit[e].account \in Accounts,
                    edit[e].account \notin active', edit[e].account \notin missed[e],
                    Trio(edit[e].account \in acknowledged', allocation'[edit[e].account],
                         \E n \in Numbers : holder'[n] = edit[e].account)
             PROVE  FALSE
  BY DEF ReadyOnlyIfMissed
<1> DEFINE a == edit[e].account
<1>1. Commit(e) /\ at[e] = "settled"
  BY OnlyCommitEnds DEF Commits
<1>2. RequestInv(e)
  BY RecordOf
<1>3. a # "none" /\ active' = active \cup ({edit[e].wakes} \ {"none"})
  BY <1>1, ConsoleAssumption DEF Commit
<1>4. ~ SeesTrio(e)
  BY <1>1, <1>2, <1>3 DEF RequestInv, StatusIsCurrent
<1>5. a \in acknowledged \/ edit[e].op = "acknowledge"
  BY <1>1 DEF Commit, Trio
<1>6. /\ edit[e].op = "allocate" => edit[e].size > 0
      /\ edit[e].op = "allocate" \/ allocation[a] > 0
  BY <1>1 DEF Commit, Trio, SetUpInv, ConsoleTypes
<1>7. Held(a) # {} \/ edit[e].op = "assign"
  BY <1>1 DEF Commit, Trio, Held
<1> QED BY <1>4, <1>5, <1>6, <1>7 DEF SeesTrio

\* The group: what was listed is attached, and nothing joined the client since.
LEMMA AttachedStep == ASSUME SetUpInv, ConsoleNext PROVE AttachedUnlessMissed
<1> SUFFICES ASSUME NEW e \in Edits, Commits(e), edit[e].op = "assign", edit[e].whole = "yes",
                    edit[e].account \in Accounts \ missed[e],
                    NEW n \in Numbers \ missed[e], holder'[n] = edit[e].account
             PROVE  attached[n] = group'[edit[e].account]
  BY DEF AttachedUnlessMissed
<1> DEFINE a == edit[e].account
<1>1. Commit(e) /\ at[e] = "settled"
  BY OnlyCommitEnds DEF Commits
<1>2. RequestInv(e)
  BY RecordOf
<1>3. /\ edit[e].seen # 0 /\ edit[e].todo = {}
      /\ \A m \in Listed(e) \ missed[e] : m \in edit[e].todo \/ attached[m] = edit[e].seen
  BY <1>1, <1>2 DEF RequestInv, ListIsDone
<1>4. edit[e].number \in Numbers
  BY <1>1, <1>2 DEF RequestInv, RequestFits, Open, Ended
<1>5. holder' = [holder EXCEPT ![edit[e].number] = a]
  BY <1>1 DEF Commit
<1>6. n \in Listed(e)
  BY <1>4, <1>5 DEF Listed, Held, SetUpInv, ConsoleTypes
<1>7. group'[a] = edit[e].seen
  <2>1. group' = [group EXCEPT ![a] = edit[e].seen]
    BY <1>1, <1>3, ConsoleAssumption DEF Commit
  <2> QED BY <2>1 DEF SetUpInv, ConsoleTypes
<1> QED BY <1>3, <1>6, <1>7

\* The channel ceiling, a client left in onboarding with all it needs, and numbers left out
\* of their client's billing group: each goes wrong only by a request that overlapped
\* another one, for any accounts, numbers, channel counts and requests.
THEOREM SetUpCorrect == ConsoleSpec => SetUpUnlessMissed
<1>1. SetUpInv /\ [ConsoleNext]_consoleVars =>
        [OversoldOnlyIfMissed /\ ReadyOnlyIfMissed /\ AttachedUnlessMissed]_consoleVars
  BY CeilingStep, ReadyStep, AttachedStep
<1> QED BY <1>1, SetUpInvariant, PTL DEF ConsoleSpec, SetUpUnlessMissed

\* Type correctness, and no row written by two open requests: FOR UPDATE and the waits of
\* the UPDATEs keep their locks apart.
THEOREM ConsoleTypesCorrect == ConsoleSpec => []ConsoleTypeOK
<1>1. ConsoleInv /\ SetUpInv => ConsoleTypeOK
  BY DEF ConsoleInv, LocksApart, SetUpInv, ConsoleTypes, EditRecords, ConsoleTypeOK
<1>2. ConsoleSpec => []ConsoleInv
  BY ConsoleStart, ConsoleStep, PTL DEF ConsoleSpec
<1> QED BY <1>1, <1>2, SetUpInvariant, PTL
=============================================================================

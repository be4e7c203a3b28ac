------------------------------ MODULE Results -------------------------------
(***************************************************************************)
(* Results of completed calls: the worker's poll of Telnyx, the mirror in  *)
(* our database, corrections, the filtered table                           *)
(* (becca/services/results.py, web/client_plane/results.py, worker/loop.py)*)
(*                                                                         *)
(* Telnyx is a list of conversations, newest first, of which one page is   *)
(* read; a conversation is scored some time after it appears. Its result is*)
(* one field, whose value is the call the conversation belongs to, so that *)
(* a wrong join shows. Calls are numbered in the order of ended_at. A tick *)
(* is one SELECT, one listing, then per candidate two gateway calls and one*)
(* transaction; during a deploy two workers tick.                          *)
(***************************************************************************)
EXTENDS Integers, Sequences, FiniteSets, SequencesExt, FiniteSetsExt

CONSTANTS
  Calls,   \* completed calls of a run, 1..n
  Batch,   \* LIMIT of the candidates
  Page,    \* conversations in one listing, of every assistant
  Pollers  \* workers

ASSUME ResultsAssumption ==
  /\ Calls \subseteq Nat \ {0} /\ Batch \in Nat \ {0} /\ Page \in Nat \ {0}

VARIABLES
  ended,      \* calls that are completed
  old,        \* ended more than GIVE_UP_MINUTES ago
  convs,      \* Telnyx: the conversations, oldest first
  scored,     \* those with insights
  transcript, \* "none", "empty" (given up), "full"
  value,      \* insight_result.value, 0 without a row
  corrected,  \* insight_result.corrected_value, 0 for NULL
  poll,       \* each worker's tick, "off" for one that does not run
  absent,     \* calls a listing that was answered did not show
  reader      \* a results page under way

telnyx == <<convs, scored>>
mirror == <<transcript, value, corrected>>
resultsVars == <<ended, old, telnyx, mirror, poll, absent, reader>>

NoPoll == [at |-> "idle", todo |-> {}, stale |-> {}, page |-> {}, hand |-> 0]
NoReader == [at |-> "idle", filter |-> 0, rows |-> {}, edited |-> {}]

ResultsInit ==
  /\ ended = {} /\ old = {}
  /\ convs = <<>> /\ scored = {}
  /\ transcript = [c \in Calls |-> "none"]
  /\ value = [c \in Calls |-> 0] /\ corrected = [c \in Calls |-> 0]
  /\ \E D \in SUBSET Pollers \ {{}} :
       poll = [w \in Pollers |-> IF w \in D THEN NoPoll ELSE [NoPoll EXCEPT !.at = "off"]]
  /\ absent = {}
  /\ reader = NoReader

First(n, S) == {c \in S : Cardinality({b \in S : b < c}) < n}
Newest(n) == {convs[i] : i \in {j \in 1..Len(convs) : j > Len(convs) - n}}
Shown(c) == IF corrected[c] # 0 THEN corrected[c] ELSE value[c]

-----------------------------------------------------------------------------
(* Calls end and grow old; Telnyx makes conversations and scores them.     *)

CallEnds(c) ==
  /\ c \notin ended /\ \A b \in Calls : b < c => b \in ended
  /\ ended' = ended \cup {c}
  /\ UNCHANGED <<old, telnyx, mirror, poll, absent, reader>>

GrowsOld(c) ==
  /\ c \in ended \ old
  /\ old' = old \cup {c}
  /\ UNCHANGED <<ended, telnyx, mirror, poll, absent, reader>>

ConversationAppears(c) ==
  /\ c \in ended /\ ~ Contains(convs, c)
  /\ convs' = Append(convs, c)
  /\ UNCHANGED <<ended, old, scored, mirror, poll, absent, reader>>

Scored(c) ==
  /\ Contains(convs, c) /\ c \notin scored
  /\ scored' = scored \cup {c}
  /\ UNCHANGED <<ended, old, convs, mirror, poll, absent, reader>>

-----------------------------------------------------------------------------
(* results_tick.                                                           *)

Head1(w) == Min(poll[w].todo)
Rest(w) == poll[w].todo \ {Head1(w)}

\* On to the next candidate, or the end of the tick.
Onwards(p, rest) ==
  IF rest = {} THEN NoPoll
  ELSE [p EXCEPT !.todo = rest, !.hand = 0,
                 !.at = IF p.at = "unlisted" THEN "unlisted" ELSE "listed"]
Next1(w) == poll' = [poll EXCEPT ![w] = Onwards(poll[w], Rest(w))]

\* Mutant: without the give-up.
CandidatesNeverStale(w) ==
  LET S == First(Batch, {c \in ended : transcript[c] = "none"}) IN
  /\ poll[w].at = "idle" /\ S # {}
  /\ poll' = [poll EXCEPT ![w] = [NoPoll EXCEPT !.at = "unlisted", !.todo = S]]
  /\ UNCHANGED <<ended, old, telnyx, mirror, absent, reader>>

Candidates(w) ==
  LET S == First(Batch, {c \in ended : transcript[c] = "none"}) IN
  /\ poll[w].at = "idle" /\ S # {}
  /\ poll' = [poll EXCEPT ![w] = [NoPoll EXCEPT !.at = "unlisted", !.todo = S,
                                                !.stale = S \cap old]]
  /\ UNCHANGED <<ended, old, telnyx, mirror, absent, reader>>

Listing(w) ==
  /\ poll[w].at = "unlisted"
  /\ poll' = [poll EXCEPT ![w].at = "listed", ![w].page = Newest(Page)]
  /\ absent' = absent \cup (Calls \ Newest(Page))
  /\ UNCHANGED <<ended, old, telnyx, mirror, reader>>

\* Offline: "no verdicts of any kind"; the next candidate asks again. Mutant: the
\* failed listing is an empty one.
ListingFailsEmpty(w) ==
  /\ poll[w].at = "unlisted"
  /\ poll' = [poll EXCEPT ![w].at = "listed"]
  /\ UNCHANGED <<ended, old, telnyx, mirror, absent, reader>>

ListingFails(w) ==
  /\ poll[w].at = "unlisted"
  /\ Next1(w)
  /\ UNCHANGED <<ended, old, telnyx, mirror, absent, reader>>

\* _store: what is there already stays. Mutant: the last one wins.
StoreOver(c, kind, v) ==
  /\ transcript' = [transcript EXCEPT ![c] = kind]
  /\ value' = [value EXCEPT ![c] = v]

Store(c, kind, v) ==
  /\ transcript' = [transcript EXCEPT ![c] = IF @ = "none" THEN kind ELSE @]
  /\ value' = [value EXCEPT ![c] = IF @ = 0 THEN v ELSE @]

GivesUp(w) ==
  LET c == Head1(w) IN
  /\ poll[w].at = "listed" /\ c \notin poll[w].page /\ c \in poll[w].stale
  /\ Store(c, "empty", 0)
  /\ Next1(w)
  /\ UNCHANGED <<ended, old, telnyx, corrected, absent, reader>>

\* Nothing yet, or not scored yet.
Later(w) ==
  LET c == Head1(w) IN
  /\ poll[w].at = "listed"
  /\ IF c \in poll[w].page THEN c \notin scored ELSE c \notin poll[w].stale
  /\ Next1(w)
  /\ UNCHANGED <<ended, old, telnyx, mirror, absent, reader>>

\* The join by call_control_id, then insights and messages; the field may be
\* missing (0). Mutant: the join by position.
CollectByPosition(w) ==
  /\ poll[w].at = "listed" /\ poll[w].page \cap scored # {}
  /\ \E v \in poll[w].page \cap scored :
       poll' = [poll EXCEPT ![w].at = "collected", ![w].hand = v]
  /\ UNCHANGED <<ended, old, telnyx, mirror, absent, reader>>

Collect(w) ==
  /\ poll[w].at = "listed" /\ Head1(w) \in poll[w].page /\ Head1(w) \in scored
  /\ \E v \in {Head1(w), 0} :
       poll' = [poll EXCEPT ![w].at = "collected", ![w].hand = v]
  /\ UNCHANGED <<ended, old, telnyx, mirror, absent, reader>>

StoreCollected(w) ==
  /\ poll[w].at = "collected"
  /\ Store(Head1(w), "full", poll[w].hand)
  /\ Next1(w)
  /\ UNCHANGED <<ended, old, telnyx, corrected, absent, reader>>

\* An insights or messages call raises out of the tick, or the worker dies: the
\* candidates that follow wait for the next tick.
TickDies(w) ==
  /\ poll[w].at \notin {"idle", "off"}
  /\ poll' = [poll EXCEPT ![w] = NoPoll]
  /\ UNCHANGED <<ended, old, telnyx, mirror, absent, reader>>

-----------------------------------------------------------------------------
(* The client's side.                                                      *)

\* correct_value: an UPDATE of the row there is; an empty value takes it back.
Correct(c, v) ==
  /\ value[c] # 0
  /\ corrected' = [corrected EXCEPT ![c] = v]
  /\ reader' = [reader EXCEPT !.edited = @ \cup ({c} \cap reader.rows)]
  /\ UNCHANGED <<ended, old, telnyx, transcript, value, poll, absent>>

\* filtered_calls: the rows, by the corrected value where there is one ... Mutant:
\* by the original value.
FilterOriginal(v) ==
  /\ reader.at = "idle"
  /\ reader' = [at |-> "filtered", filter |-> v, edited |-> {},
                rows |-> {c \in ended : value[c] = v}]
  /\ UNCHANGED <<ended, old, telnyx, mirror, poll, absent>>

Filter(v) ==
  /\ reader.at = "idle"
  /\ reader' = [at |-> "filtered", filter |-> v, edited |-> {},
                rows |-> {c \in ended : Shown(c) = v}]
  /\ UNCHANGED <<ended, old, telnyx, mirror, poll, absent>>

\* ... and what the page or the CSV shows in them.
Render ==
  /\ reader.at = "filtered"
  /\ reader' = NoReader
  /\ UNCHANGED <<ended, old, telnyx, mirror, poll, absent>>

Tick(w) ==
  \/ Candidates(w) \/ Listing(w) \/ ListingFails(w) \/ GivesUp(w) \/ Later(w)
  \/ Collect(w) \/ StoreCollected(w) \/ TickDies(w)

ResultsNext ==
  \/ \E c \in Calls : CallEnds(c) \/ GrowsOld(c) \/ ConversationAppears(c) \/ Scored(c)
  \/ \E w \in Pollers : Tick(w)
  \/ \E c \in Calls, v \in Calls \cup {0} : Correct(c, v)
  \/ \E v \in Calls : Filter(v)
  \/ Render

Handles(w) == GivesUp(w) \/ Later(w) \/ Collect(w)

\* Time passes and Telnyx scores what it has; the workers, between them, tick
\* again and again, and no call of theirs fails for ever. Nothing is asked of the
\* clients.
ResultsFairness ==
  /\ WF_resultsVars(\E c \in Calls : GrowsOld(c))
  /\ WF_resultsVars(\E c \in Calls : Scored(c))
  /\ WF_resultsVars(\E w \in Pollers : Candidates(w))
  /\ SF_resultsVars(\E w \in Pollers : Listing(w))
  /\ SF_resultsVars(\E w \in Pollers : Handles(w))
  /\ SF_resultsVars(\E w \in Pollers : StoreCollected(w))

ResultsSpec == ResultsInit /\ [][ResultsNext]_resultsVars /\ ResultsFairness

-----------------------------------------------------------------------------
(* Properties.                                                             *)

\* Type correctness, and a correction only beside a value.
ResultsTypeOK ==
  /\ ended \subseteq Calls /\ old \subseteq ended /\ scored \subseteq ToSet(convs)
  /\ ToSet(convs) \subseteq ended /\ Len(convs) = Cardinality(ToSet(convs))
  /\ transcript \in [Calls -> {"none", "empty", "full"}]
  /\ value \in [Calls -> Calls \cup {0}] /\ corrected \in [Calls -> Calls \cup {0}]
  /\ poll \in [Pollers -> [at : {"off", "idle", "unlisted", "listed", "collected"},
                           todo : SUBSET Calls, stale : SUBSET Calls,
                           page : SUBSET Calls, hand : Calls \cup {0}]]
  /\ absent \subseteq Calls
  /\ reader \in [at : {"idle", "filtered"}, filter : Calls \cup {0},
                 rows : SUBSET Calls, edited : SUBSET Calls]
  /\ \A c \in Calls : corrected[c] # 0 => value[c] # 0

\* "Exact join, never positional", whatever corrections and overlapping workers
\* do: a stored value is of the call's own conversation.
OwnConversation == \A c \in Calls : value[c] \in {0, c}

\* "Our database is the system of record from that moment": once mirrored, a
\* transcript and a value stay, whatever overlapping workers and corrections do.
MirrorStays ==
  \A c \in Calls :
    /\ transcript[c] # "none" => transcript'[c] = transcript[c]
    /\ value[c] # 0 => value'[c] = value[c]

\* "No verdicts of any kind on stale information": a call is given up only after
\* its ten minutes and after a listing that was answered did not show it.
EmptyIsWitnessed ==
  \A c \in Calls : transcript[c] = "empty" => c \in old \cap absent

\* "The current filtered view, exactly as seen": a row on the page shows the value
\* it was filtered by, unless it was corrected between the two statements.
PageMatchesFilter ==
  [][reader.at = "filtered" /\ reader'.at = "idle" =>
       \A c \in reader.rows \ reader.edited : Shown(c) = reader.filter]_resultsVars

\* Every completed call is mirrored in the end, if only by an empty mirror.
EveryCallMirrored == \A c \in Calls : c \in ended ~> transcript[c] # "none"

\* The mirror of a call is its own, stays as first stored, and is left empty only for
\* a call that was looked for in time and not found.
MirrorIsFaithful == [][OwnConversation' /\ EmptyIsWitnessed' /\ MirrorStays]_resultsVars
=============================================================================

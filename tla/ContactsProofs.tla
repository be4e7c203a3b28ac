--------------------------- MODULE ContactsProofs ---------------------------
(***************************************************************************)
(* Theorems of Import and Lists. For files of any length, any cells and    *)
(* any values, the row pipeline stores exactly the first of the rows that  *)
(* are one call to one person, and each call that can be dialled is stored *)
(* once; for any header row and any similarities, keys, suggestions and    *)
(* forms are one to one. For any lists, files and requests in any order,   *)
(* stored rows are stale only where a request was overtaken, a launched    *)
(* list is mapped unless it was changed meanwhile, and a run's rows stay.  *)
(***************************************************************************)
EXTENDS Import, Lists, Sums, SequenceTheorems

Row == [phone : PhoneCells, value : Says]

-----------------------------------------------------------------------------
(* The key. Two rows have one key exactly when they are the same call, so  *)
(* the loop may be reasoned about without keys.                            *)

\* Two rows get the same dedupe key exactly when they are the same call (dedupe_key of
\* the normalised number, or of the raw text where there is none).
LEMMA KeyIsCall ==
  ASSUME NEW r \in Row, NEW s \in Row
  PROVE  DedupeKey(r) = DedupeKey(s) <=> SameCall(r, s)
<1>1. r.phone \in PhoneCells /\ s.phone \in PhoneCells
  BY DEF Row
<1>2. CASE NumberOf[r.phone] = "none" /\ NumberOf[s.phone] = "none"
  BY <1>2 DEF DedupeKey, NormalisePhone, SameCall
<1>3. CASE NumberOf[r.phone] # "none" /\ NumberOf[s.phone] # "none"
  BY <1>3 DEF DedupeKey, NormalisePhone, SameCall
<1>4. CASE NumberOf[r.phone] = "none" /\ NumberOf[s.phone] # "none"
  <2>1. NumberOf[s.phone] # r.phone
    BY <1>1, <1>4, NumbersAssumption
  <2> QED BY <2>1, <1>4 DEF DedupeKey, NormalisePhone, SameCall
<1>5. CASE NumberOf[r.phone] # "none" /\ NumberOf[s.phone] = "none"
  <2>1. NumberOf[r.phone] # s.phone
    BY <1>1, <1>5, NumbersAssumption
  <2> QED BY <2>1, <1>5 DEF DedupeKey, NormalisePhone, SameCall
<1> QED BY <1>2, <1>3, <1>4, <1>5

\* Being the same call is symmetric and transitive, and the same call is excluded for
\* the same reason.
LEMMA CallsAreAlike ==
  ASSUME NEW r, NEW s, NEW u, SameCall(r, s)
  PROVE  /\ SameCall(s, r)
         /\ SameCall(s, u) => SameCall(r, u)
         /\ ExclusionReason(r) = ExclusionReason(s)
BY DEF SameCall, ExclusionReason, NormalisePhone

-----------------------------------------------------------------------------
(* The inductive invariant: KeptAreFirsts, what seen holds, and that each  *)
(* row passed has a stored one that is the same call.                      *)

FirstOfItsCall(i) == \A j \in 1..(i - 1) : ~ SameCall(lines[i], lines[j])

RowsInv ==
  /\ lines \in Seq(Row)
  /\ cursor \in 1..(Len(lines) + 1)
  /\ duplicates \in Nat
  /\ importing = "done" => cursor = Len(lines) + 1

SeenInv == seen = {DedupeKey(lines[j]) : j \in 1..(cursor - 1)}

StoredInv ==
  /\ kept = {i \in 1..(cursor - 1) : FirstOfItsCall(i)}
  /\ \A i \in 1..(cursor - 1) : \E k \in kept : SameCall(lines[i], lines[k])

CountInv == IsFiniteSet(kept) /\ duplicates + Cardinality(kept) = cursor - 1

IInv == RowsInv /\ SeenInv /\ StoredInv /\ CountInv

LEMMA InitInvariant == ImportInit => IInv
<1> SUFFICES ASSUME ImportInit PROVE IInv
  OBVIOUS
<1>1. lines \in Seq(Row) /\ Len(lines) \in Nat
  <2>1. CASE lines = <<>>
    BY <2>1
  <2>2. CASE \E n \in 1..MaxRows : lines \in [1..n -> Row]
    BY <2>2, ImportAssumption
  <2> QED BY <2>1, <2>2 DEF ImportInit, TitlesInit, SuggestInit, RowsInit, Row
<1>2. cursor = 1 /\ seen = {} /\ kept = {} /\ duplicates = 0 /\ importing # "done"
  BY DEF ImportInit, TitlesInit, SuggestInit, RowsInit
<1>3. RowsInv
  BY <1>1, <1>2 DEF RowsInv
<1>4. SeenInv /\ StoredInv
  BY <1>2 DEF SeenInv, StoredInv
<1>5. CountInv
  BY <1>2, FS_EmptySet DEF CountInv
<1> QED BY <1>3, <1>4, <1>5 DEF IInv

\* The step of the loop, whichever way it goes: cursor is passed.
LEMMA RowsPassed ==
  ASSUME IInv, importing = "rows", cursor <= Len(lines), importing' = importing,
         lines' = lines, cursor' = cursor + 1, duplicates' \in Nat
  PROVE  /\ RowsInv'
         /\ cursor \in 1..Len(lines) /\ lines[cursor] \in Row
         /\ 1..(cursor' - 1) = (1..(cursor - 1)) \cup {cursor}
         /\ cursor \notin 1..(cursor - 1)
         /\ \A j \in 1..(cursor - 1) : lines[j] \in Row
BY DEF IInv, RowsInv

\* seen has the current key exactly when an earlier row is the same call.
LEMMA SeenIsEarlierCall ==
  ASSUME IInv, cursor <= Len(lines)
  PROVE  DedupeKey(lines[cursor]) \in seen <=> ~ FirstOfItsCall(cursor)
<1>1. lines[cursor] \in Row /\ \A j \in 1..(cursor - 1) : lines[j] \in Row
  BY DEF IInv, RowsInv
<1>2. \A j \in 1..(cursor - 1) :
        DedupeKey(lines[cursor]) = DedupeKey(lines[j]) <=> SameCall(lines[cursor], lines[j])
  BY <1>1, KeyIsCall
<1> QED BY <1>2 DEF IInv, SeenInv, FirstOfItsCall

LEMMA DropInvariant == IInv /\ DropRow => IInv'
<1> SUFFICES ASSUME IInv, DropRow PROVE IInv'
  OBVIOUS
<1>1. /\ importing = "rows" /\ cursor <= Len(lines) /\ importing' = importing
      /\ lines' = lines /\ cursor' = cursor + 1 /\ duplicates' = duplicates + 1
      /\ seen' = seen /\ kept' = kept /\ DedupeKey(lines[cursor]) \in seen
  BY DEF DropRow
<1>2. duplicates' \in Nat
  BY <1>1 DEF IInv, RowsInv
<1>3. /\ RowsInv' /\ cursor \in 1..Len(lines)
      /\ 1..(cursor' - 1) = (1..(cursor - 1)) \cup {cursor}
  BY <1>1, <1>2, RowsPassed
<1>4. SeenInv'
  BY <1>1, <1>3 DEF IInv, SeenInv, DedupeKey, NormalisePhone
<1>5. ~ FirstOfItsCall(cursor)
  BY <1>1, SeenIsEarlierCall
<1>6. \A i : FirstOfItsCall(i)' <=> FirstOfItsCall(i)
  BY <1>1 DEF FirstOfItsCall, SameCall
<1>7. PICK j \in 1..(cursor - 1) : SameCall(lines[cursor], lines[j])
  BY <1>5 DEF FirstOfItsCall
<1>8. PICK k \in kept : SameCall(lines[j], lines[k])
  BY DEF IInv, StoredInv
<1>9. SameCall(lines[cursor], lines[k])
  BY <1>7, <1>8, CallsAreAlike
<1>10. StoredInv'
  <2>1. kept' = {i \in 1..(cursor' - 1) : FirstOfItsCall(i)'}
    BY <1>1, <1>3, <1>5, <1>6 DEF IInv, StoredInv
  <2>2. ASSUME NEW i \in 1..(cursor' - 1)
        PROVE  \E n \in kept : SameCall(lines[i], lines[n])
    <3>1. CASE i = cursor
      BY <3>1, <1>9
    <3>2. CASE i \in 1..(cursor - 1)
      BY <3>2 DEF IInv, StoredInv
    <3> QED BY <1>3, <3>1, <3>2
  <2>3. \A i \in 1..(cursor' - 1) : \E n \in kept' : SameCall(lines[i], lines[n])'
    BY <1>1, <2>2 DEF SameCall
  <2> QED BY <2>1, <2>3 DEF StoredInv
<1>11. CountInv'
  <2>1. IsFiniteSet(kept) /\ Cardinality(kept) \in Nat
    BY FS_CardinalityType DEF IInv, CountInv
  <2> QED BY <2>1, <1>1 DEF IInv, CountInv, RowsInv
<1> QED BY <1>3, <1>4, <1>10, <1>11 DEF IInv

LEMMA KeepInvariant == IInv /\ KeepRow => IInv'
<1> SUFFICES ASSUME IInv, KeepRow PROVE IInv'
  OBVIOUS
<1>1. /\ importing = "rows" /\ cursor <= Len(lines) /\ importing' = importing
      /\ lines' = lines /\ cursor' = cursor + 1 /\ duplicates' = duplicates
      /\ seen' = seen \cup {DedupeKey(lines[cursor])} /\ kept' = kept \cup {cursor}
      /\ DedupeKey(lines[cursor]) \notin seen
  BY DEF KeepRow
<1>2. duplicates' \in Nat
  BY <1>1 DEF IInv, RowsInv
<1>3. /\ RowsInv' /\ cursor \in 1..Len(lines) /\ cursor \notin 1..(cursor - 1)
      /\ 1..(cursor' - 1) = (1..(cursor - 1)) \cup {cursor}
  BY <1>1, <1>2, RowsPassed
<1>4. SeenInv'
  BY <1>1, <1>3 DEF IInv, SeenInv, DedupeKey, NormalisePhone
<1>5. FirstOfItsCall(cursor)
  BY <1>1, SeenIsEarlierCall
<1>6. \A i : FirstOfItsCall(i)' <=> FirstOfItsCall(i)
  BY <1>1 DEF FirstOfItsCall, SameCall
<1>7. StoredInv'
  <2>1. kept' = {i \in 1..(cursor' - 1) : FirstOfItsCall(i)'}
    BY <1>1, <1>3, <1>5, <1>6 DEF IInv, StoredInv
  <2>2. SameCall(lines[cursor], lines[cursor])
    BY DEF SameCall
  <2>3. ASSUME NEW i \in 1..(cursor' - 1)
        PROVE  \E n \in kept' : SameCall(lines[i], lines[n])
    <3>1. CASE i = cursor
      BY <3>1, <1>1, <2>2
    <3>2. CASE i \in 1..(cursor - 1)
      BY <3>2, <1>1 DEF IInv, StoredInv
    <3> QED BY <1>3, <3>1, <3>2
  <2>4. \A i \in 1..(cursor' - 1) : \E n \in kept' : SameCall(lines[i], lines[n])'
    BY <1>1, <2>3 DEF SameCall
  <2> QED BY <2>1, <2>4 DEF StoredInv
<1>8. CountInv'
  <2>1. IsFiniteSet(kept) /\ Cardinality(kept) \in Nat
    BY FS_CardinalityType DEF IInv, CountInv
  <2>2. cursor \notin kept
    BY <1>3 DEF IInv, StoredInv
  <2>3. IsFiniteSet(kept') /\ Cardinality(kept') = Cardinality(kept) + 1
    BY <1>1, <2>1, <2>2, FS_AddElement
  <2> QED BY <2>1, <2>3, <1>1 DEF IInv, CountInv, RowsInv
<1> QED BY <1>3, <1>4, <1>7, <1>8 DEF IInv

LEMMA OtherStepsInvariant ==
  ASSUME IInv, UNCHANGED rowVars, importing' = "done" => cursor = Len(lines) + 1
  PROVE  IInv'
<1>1. /\ lines' = lines /\ cursor' = cursor /\ seen' = seen /\ kept' = kept
      /\ duplicates' = duplicates
  BY DEF rowVars
<1>2. RowsInv'
  BY <1>1 DEF IInv, RowsInv
<1>3. SeenInv'
  BY <1>1 DEF IInv, SeenInv, DedupeKey, NormalisePhone
<1>4. StoredInv'
  BY <1>1 DEF IInv, StoredInv, FirstOfItsCall, SameCall
<1>5. CountInv'
  BY <1>1 DEF IInv, CountInv
<1> QED BY <1>2, <1>3, <1>4, <1>5 DEF IInv

LEMMA NextInvariant == IInv /\ [ImportNext]_importVars => IInv'
<1> SUFFICES ASSUME IInv, [ImportNext]_importVars PROVE IInv'
  OBVIOUS
<1>1. CASE DropRow
  BY <1>1, DropInvariant
<1>2. CASE KeepRow
  BY <1>2, KeepInvariant
<1>3. CASE RowsDone
  <2>1. cursor > Len(lines) /\ UNCHANGED rowVars
    BY <1>3 DEF RowsDone
  <2>2. cursor = Len(lines) + 1
    BY <2>1 DEF IInv, RowsInv
  <2> QED BY <2>1, <2>2, OtherStepsInvariant
<1>4. CASE NameColumns \/ SuggestPhone \/ Match \/ Matched \/ KeepPlaced \/ FromForm
  <2>1. importing' # "done"
    BY <1>4 DEF NameColumns, SuggestPhone, Match, Matched, KeepPlaced, FromForm
  <2>2. UNCHANGED rowVars
    BY <1>4 DEF NameColumns, SuggestPhone, Match, Matched, KeepPlaced, FromForm
  <2> QED BY <2>1, <2>2, OtherStepsInvariant
<1>5. CASE UNCHANGED importVars
  <2>1. importing' = importing /\ UNCHANGED rowVars
    BY <1>5 DEF importVars
  <2> QED BY <2>1, OtherStepsInvariant DEF IInv, RowsInv
<1> QED BY <1>1, <1>2, <1>3, <1>4, <1>5 DEF ImportNext

LEMMA Invariant == ImportSpec => []IInv
BY InitInvariant, NextInvariant, PTL DEF ImportSpec

-----------------------------------------------------------------------------
\* The rows stored are, at every point of the loop, those no earlier row equals, and
\* every other row passed is counted as a duplicate (compute_import, "first occurrence
\* wins").
THEOREM FirstsAreKept == ImportSpec => []KeptAreFirsts
<1>1. IInv => KeptAreFirsts
  BY DEF IInv, StoredInv, CountInv, FirstOfItsCall, KeptAreFirsts
<1> QED BY <1>1, Invariant, PTL

\* A call the file asks for and some row could be dialled for is dialled for exactly
\* one stored row: the pipeline neither loses a person nor calls one twice.
THEOREM EveryoneIsKeptOnce == ImportSpec => []EveryoneOnce
<1>1. IInv => EveryoneOnce
  <2> SUFFICES ASSUME IInv, importing = "done", NEW i \in 1..Len(lines),
                      ExclusionReason(lines[i]) = "ok"
               PROVE  Cardinality({j \in Diallable : SameCall(lines[i], lines[j])}) = 1
    BY DEF EveryoneOnce
  <2>1. cursor - 1 = Len(lines) /\ Len(lines) \in Nat
    BY DEF IInv, RowsInv
  <2>2. PICK k \in kept : SameCall(lines[i], lines[k])
    BY <2>1 DEF IInv, StoredInv
  <2>3. k \in Diallable
    BY <2>2, CallsAreAlike DEF Diallable
  <2>4. ASSUME NEW j \in Diallable, SameCall(lines[i], lines[j]) PROVE j = k
    <3>1. SameCall(lines[j], lines[k]) /\ SameCall(lines[k], lines[j])
      BY <2>2, <2>4, CallsAreAlike
    <3>2. j \in kept /\ k \in kept /\ j \in 1..Len(lines) /\ k \in 1..Len(lines)
      BY <2>1, <2>2, <2>4 DEF Diallable, IInv, StoredInv
    <3>3. FirstOfItsCall(j) /\ FirstOfItsCall(k)
      BY <3>2 DEF IInv, StoredInv
    <3>4. ~ (k < j) /\ ~ (j < k)
      BY <2>1, <3>1, <3>2, <3>3 DEF FirstOfItsCall
    <3> QED BY <2>1, <3>2, <3>4
  <2>5. {j \in Diallable : SameCall(lines[i], lines[j])} = {k}
    BY <2>2, <2>3, <2>4
  <2> QED BY <2>5, FS_Singleton
<1> QED BY <1>1, Invariant, PTL

\* The rows stored are the calls the file asks for, for files of any length
\* (compute_import).
THEOREM RowsAreAlwaysCalls == ImportSpec => []RowsAreCalls
<1>1. RowsAreCalls <=> KeptAreFirsts /\ EveryoneOnce
  BY DEF RowsAreCalls
<1> QED BY <1>1, FirstsAreKept, EveryoneIsKeptOnce, PTL

-----------------------------------------------------------------------------
(* The header row and the mapping. Columns of one base count up, so that a *)
(* made key repeats no made key; each step of the suggestion gives a column*)
(* that is free a field that is free.                                      *)

AtMostOneColumn(map) ==
  \A t \in Targets \ {NoTarget} : \A c, d \in On(map, t) : c = d

\* What the suggestion was before the placed columns went over it.
IsSuggestion(map) == map \in [Columns -> Targets] /\ AtMostOneColumn(map)

MapInv ==
  /\ importing \in {"titles", "titled"} => titles \in [Columns -> Titles]
  /\ importing = "titled" =>
       names = [c \in Columns |->
                  IF Ordinal(c) <= 1 THEN Base(c) ELSE Base(c) \o <<"(", Ordinal(c)>>]
  /\ phoneLike \subseteq Columns
  /\ importing \in {"match", "suggested", "mapped"} => IsSuggestion(mapping)
  /\ importing = "suggested" => Pairs = {}
  /\ importing = "merged" =>
       /\ earlier \in [Columns -> Targets]
       /\ \E map : /\ IsSuggestion(map)
                   /\ mapping = [c \in Columns |-> IF earlier[c] # NoTarget THEN earlier[c]
                                                   ELSE map[c]]

LEMMA ColumnsNat == Columns \subseteq Nat /\ IsFiniteSet(Columns) /\ Fields \subseteq Nat
BY ImportAssumption

LEMMA TargetsApart ==
  /\ PhoneTarget # NoTarget
  /\ \A f \in Fields : FieldTarget(f) # NoTarget /\ FieldTarget(f) # PhoneTarget
  /\ \A f, g \in Fields : FieldTarget(f) = FieldTarget(g) => f = g
<1>1. Len(PhoneTarget) = 1 /\ Len(NoTarget) = 1 /\ PhoneTarget[1] # NoTarget[1]
  BY DEF PhoneTarget, NoTarget
<1>2. \A f \in Fields : Len(FieldTarget(f)) = 2 /\ FieldTarget(f)[2] = f
  BY DEF FieldTarget
<1>3. \A f \in Fields : FieldTarget(f) # NoTarget /\ FieldTarget(f) # PhoneTarget
  <2> SUFFICES ASSUME NEW f \in Fields
               PROVE  FieldTarget(f) # NoTarget /\ FieldTarget(f) # PhoneTarget
    OBVIOUS
  <2>1. Len(FieldTarget(f)) = 2
    BY <1>2
  <2> QED BY <1>1, <2>1
<1> QED BY <1>1, <1>2, <1>3

LEMMA MapStart == ImportInit => MapInv
<1> SUFFICES ASSUME ImportInit PROVE MapInv
  OBVIOUS
<1>1. /\ importing \in {"titles", "suggest", "rows"} /\ phoneLike \subseteq Columns
      /\ importing = "titles" => titles \in [Columns -> Titles]
  BY DEF ImportInit, TitlesInit, SuggestInit, RowsInit
<1> QED BY <1>1 DEF MapInv

LEMMA SuggestPhoneMaps == MapInv /\ SuggestPhone => MapInv'
<1> SUFFICES ASSUME MapInv, SuggestPhone PROVE MapInv'
  OBVIOUS
<1>1. /\ importing' = "match" /\ phoneLike' = phoneLike
      /\ mapping' = [c \in Columns |-> IF c \in FirstPhone THEN PhoneTarget ELSE NoTarget]
  BY DEF SuggestPhone
<1>2. PhoneTarget \in Targets /\ NoTarget \in Targets
  BY DEF Targets
<1>3. \A c, d \in FirstPhone : c = d
  BY DEF FirstPhone
<1>4. mapping' \in [Columns -> Targets]
  BY <1>1, <1>2
<1>5. AtMostOneColumn(mapping')
  BY <1>1, <1>3 DEF AtMostOneColumn, On
<1> QED BY <1>1, <1>4, <1>5 DEF MapInv, IsSuggestion

LEMMA MatchMaps == MapInv /\ Match => MapInv'
<1> SUFFICES ASSUME MapInv, Match PROVE MapInv'
  OBVIOUS
<1>1. PICK p \in Pairs : mapping' = [mapping EXCEPT ![p[1]] = FieldTarget(p[2])]
  BY DEF Match
<1>2. /\ importing = "match" /\ importing' = "match" /\ phoneLike' = phoneLike
      /\ mapping \in [Columns -> Targets] /\ AtMostOneColumn(mapping)
  BY DEF Match, MapInv, IsSuggestion
<1> DEFINE c == p[1]  t == FieldTarget(p[2])
<1>3. c \in Columns /\ t \in Targets /\ On(mapping, t) = {} /\ mapping[c] = NoTarget
  BY DEF Pairs, Targets
<1> HIDE DEF c, t
<1>4. mapping' = [mapping EXCEPT ![c] = t]
  BY <1>1 DEF c, t
<1>5. mapping' \in [Columns -> Targets]
  BY <1>2, <1>3, <1>4
<1>6. AtMostOneColumn(mapping')
  BY <1>2, <1>3, <1>4 DEF AtMostOneColumn, On
<1> QED BY <1>2, <1>5, <1>6 DEF MapInv, IsSuggestion

LEMMA FromFormMaps == MapInv /\ FromForm => MapInv'
<1> SUFFICES ASSUME MapInv, FromForm PROVE MapInv'
  OBVIOUS
<1>1. PICK form \in [Columns -> Targets] :
        mapping' = [c \in Columns |->
                      IF \E d \in Columns : d < c /\ form[d] = form[c]
                      THEN NoTarget ELSE form[c]]
  BY DEF FromForm
<1>2. importing' = "mapped" /\ phoneLike' = phoneLike
  BY DEF FromForm
<1>3. mapping' \in [Columns -> Targets]
  BY <1>1 DEF Targets
<1>4. ASSUME NEW t \in Targets \ {NoTarget}, NEW c \in On(mapping', t), NEW d \in On(mapping', t)
      PROVE  c = d
  <2>1. c \in Columns /\ d \in Columns /\ mapping'[c] = t /\ mapping'[d] = t
    BY DEF On
  <2>2. form[c] = t /\ form[d] = t
    BY <1>1, <2>1
  <2>3. ~ (c < d) /\ ~ (d < c)
    BY <1>1, <2>1, <2>2
  <2> QED BY <2>1, <2>3, ColumnsNat
<1> QED BY <1>2, <1>3, <1>4 DEF MapInv, IsSuggestion, AtMostOneColumn

LEMMA MapStep == MapInv /\ [ImportNext]_importVars => MapInv'
<1> SUFFICES ASSUME MapInv, [ImportNext]_importVars PROVE MapInv'
  OBVIOUS
<1>1. CASE UNCHANGED importVars \/ DropRow \/ KeepRow
  <2>1. /\ importing' = importing /\ titles' = titles /\ names' = names /\ score' = score
        /\ phoneLike' = phoneLike /\ earlier' = earlier /\ mapping' = mapping
    BY <1>1 DEF importVars, titleVars, mappingVars, DropRow, KeepRow
  <2>2. /\ \A c \in Columns : Base(c)' = Base(c) /\ Ordinal(c)' = Ordinal(c)
        /\ Pairs' = Pairs
    BY <2>1 DEF Base, Ordinal, Pairs, On
  <2> QED BY <2>1, <2>2 DEF MapInv
<1>2. CASE NameColumns
  <2>1. /\ importing = "titles" /\ importing' = "titled" /\ titles' = titles
        /\ phoneLike' = phoneLike
        /\ names' = [c \in Columns |->
                       IF Ordinal(c) <= 1 THEN Base(c) ELSE Base(c) \o <<"(", Ordinal(c)>>]
    BY <1>2 DEF NameColumns, mappingVars
  <2>2. \A c \in Columns : Base(c)' = Base(c) /\ Ordinal(c)' = Ordinal(c)
    BY <2>1 DEF Base, Ordinal
  <2> QED BY <2>1, <2>2 DEF MapInv
<1>3. CASE Matched
  <2>1. /\ importing = "match" /\ importing' = "suggested" /\ Pairs = {}
        /\ mapping' = mapping /\ score' = score /\ phoneLike' = phoneLike
    BY <1>3 DEF Matched, mappingVars
  <2>2. Pairs' = Pairs
    BY <2>1 DEF Pairs, On
  <2> QED BY <2>1, <2>2 DEF MapInv
<1>4. CASE KeepPlaced
  <2>1. /\ importing = "suggested" /\ importing' = "merged" /\ phoneLike' = phoneLike
        /\ earlier' \in [Columns -> Targets] /\ IsSuggestion(mapping)
        /\ mapping' = [c \in Columns |-> IF earlier'[c] # NoTarget THEN earlier'[c]
                                         ELSE mapping[c]]
    BY <1>4 DEF KeepPlaced, KeptTarget, MapInv
  <2> QED BY <2>1 DEF MapInv
<1>5. CASE RowsDone
  BY <1>5 DEF RowsDone, MapInv, mappingVars
<1> QED BY <1>1, <1>2, <1>3, <1>4, <1>5, SuggestPhoneMaps, MatchMaps, FromFormMaps
        DEF ImportNext

LEMMA MapInvariant == ImportSpec => []MapInv
BY MapStart, MapStep, PTL DEF ImportSpec

\* Two columns of one base have different ordinals, and the later one is not the first.
LEMMA OrdinalsGrow ==
  ASSUME NEW c \in Columns, NEW d \in Columns, c < d, Base(c) = Base(d)
  PROVE  /\ Ordinal(c) \in Nat /\ Ordinal(d) \in Nat
         /\ Ordinal(c) < Ordinal(d) /\ Ordinal(d) > 1
<1> DEFINE Upto(x) == {y \in Columns : y <= x /\ Base(y) = Base(x)}
<1>1. IsFiniteSet(Upto(c)) /\ IsFiniteSet(Upto(d))
  BY ColumnsNat, FS_Subset
<1>2. Upto(c) \subseteq Upto(d) /\ d \in Upto(d) /\ d \notin Upto(c) /\ c \in Upto(c)
  <2>1. c \in Nat /\ d \in Nat /\ \A y \in Columns : y \in Nat
    BY ColumnsNat
  <2>2. \A y \in Columns : y <= c => y <= d
    BY <2>1
  <2>3. ~ (d <= c) /\ c <= c /\ d <= d
    BY <2>1
  <2> QED BY <2>2, <2>3
<1>3. Ordinal(c) = Cardinality(Upto(c)) /\ Ordinal(d) = Cardinality(Upto(d))
  BY DEF Ordinal
<1> HIDE DEF Upto
<1>4. Cardinality(Upto(c)) <= Cardinality(Upto(d)) /\ Cardinality(Upto(c)) # Cardinality(Upto(d))
  BY <1>1, <1>2, FS_Subset
<1>5. Cardinality(Upto(c)) # 0
  BY <1>1, <1>2, FS_EmptySet
<1>6. Cardinality(Upto(c)) \in Nat /\ Cardinality(Upto(d)) \in Nat
  BY <1>1, FS_CardinalityType
<1> QED BY <1>3, <1>4, <1>5, <1>6

LEMMA SameBaseSameColumn ==
  ASSUME NEW c \in Columns, NEW d \in Columns, Base(c) = Base(d), c # d
  PROVE  Ordinal(c) # Ordinal(d) /\ (Ordinal(c) > 1 \/ Ordinal(d) > 1)
<1>1. c < d \/ d < c
  BY ColumnsNat
<1>2. CASE c < d
  BY <1>2, OrdinalsGrow
<1>3. CASE d < c
  <2>1. /\ Ordinal(d) \in Nat /\ Ordinal(c) \in Nat
        /\ Ordinal(d) < Ordinal(c) /\ Ordinal(c) > 1
    BY <1>3, OrdinalsGrow
  <2> QED BY <2>1
<1> QED BY <1>1, <1>2, <1>3

\* The words of titles and of the keys made of them.
WordsOf(t) == {t[i] : i \in 1..Len(t)}
TitleWords == UNION {WordsOf(t) : t \in Titles}
Words == TitleWords \cup {"Column", "("} \cup Nat

LEMMA WordsAre ==
  /\ "Column" \in Words /\ "(" \in Words /\ Nat \subseteq Words
  /\ \A t \in Titles : \A i \in 1..Len(t) : t[i] \in Words
<1>1. "Column" \in Words /\ "(" \in Words /\ Nat \subseteq Words
  BY DEF Words
<1>2. \A t \in Titles : \A i \in 1..Len(t) : t[i] \in Words
  <2>1. \A t \in Titles : \A i \in 1..Len(t) : t[i] \in TitleWords
    <3>1. \A t \in Titles : \A i \in 1..Len(t) : t[i] \in WordsOf(t)
      BY DEF WordsOf
    <3>2. \A t \in Titles : WordsOf(t) \subseteq TitleWords
      BY DEF TitleWords
    <3> QED BY <3>1, <3>2
  <2> QED BY <2>1 DEF Words
<1> QED BY <1>1, <1>2

\* A base is never empty; a made key is two words longer than its base.
LEMMA BaseIsWords ==
  ASSUME titles \in [Columns -> Titles], NEW c \in Columns
  PROVE  Base(c) \in Seq(Words) /\ Len(Base(c)) \in Nat \ {0}
<1>1. CASE titles[c] = <<>>
  <2>1. "Column" \in Words /\ c \in Words
    BY ColumnsNat, WordsAre
  <2> QED BY <1>1, <2>1 DEF Base
<1>2. CASE titles[c] # <<>>
  <2> DEFINE t == titles[c]
  <2>1. t \in Titles
    OBVIOUS
  <2>2. Len(t) \in Nat /\ t = [i \in 1..Len(t) |-> t[i]]
    BY <2>1, TitlesAssumption
  <2>3. \A i \in 1..Len(t) : t[i] \in Words
    BY <2>1, WordsAre
  <2>4. t \in [1..Len(t) -> Words]
    BY <2>2, <2>3
  <2>5. t \in Seq(Words)
    BY <2>2, <2>4, SeqDef
  <2>6. Len(t) # 0
    BY <1>2, <2>5, EmptySeq
  <2> QED BY <1>2, <2>2, <2>5, <2>6 DEF Base
<1> QED BY <1>1, <1>2

LEMMA MadeKey ==
  ASSUME titles \in [Columns -> Titles], NEW c \in Columns
  PROVE  LET k == Base(c) \o <<"(", Ordinal(c)>> IN
         /\ k \in Seq(Words) /\ Len(k) = Len(Base(c)) + 2
         /\ k[Len(k)] = Ordinal(c)
         /\ \A i \in 1..Len(Base(c)) : k[i] = Base(c)[i]
<1>1. Base(c) \in Seq(Words) /\ Len(Base(c)) \in Nat
  BY BaseIsWords
<1>2. Ordinal(c) \in Nat
  BY ColumnsNat, FS_Subset, FS_CardinalityType DEF Ordinal
<1>3. <<"(", Ordinal(c)>> \in Seq(Words) /\ Len(<<"(", Ordinal(c)>>) = 2
      /\ <<"(", Ordinal(c)>>[2] = Ordinal(c)
  BY <1>2, WordsAre
<1> QED BY <1>1, <1>3, ConcatProperties

\* Keys: made ones differ by base or ordinal, and one that equals an unnumbered key is
\* that column's own title.
LEMMA KeysAreDistinct == MapInv => KeysDistinctUnlessSpelled
<1> SUFFICES ASSUME MapInv, importing = "titled",
                    NEW c \in Columns, NEW d \in Columns, c # d, names[c] = names[d]
             PROVE  \E e \in {c, d} : titles[e] = names[e] /\ titles[c] # titles[d]
  BY DEF KeysDistinctUnlessSpelled
<1>1. /\ titles \in [Columns -> Titles]
      /\ \A x \in Columns : names[x] = IF Ordinal(x) <= 1 THEN Base(x)
                                       ELSE Base(x) \o <<"(", Ordinal(x)>>
  BY DEF MapInv
<1>2. \A x \in Columns : Ordinal(x) \in Nat
  BY ColumnsNat, FS_Subset, FS_CardinalityType DEF Ordinal
<1>3. ASSUME NEW x \in Columns, NEW y \in Columns, Ordinal(x) <= 1, Ordinal(y) > 1,
             names[x] = names[y]
      PROVE  titles[x] = names[x] /\ titles[x] # titles[y]
  <2>1. names[x] = Base(x) /\ Len(Base(x)) = Len(Base(y)) + 2
    <3>1. names[x] = Base(x)
      BY <1>1, <1>3
    <3>2. names[y] = Base(y) \o <<"(", Ordinal(y)>>
      <4>1. ~ (Ordinal(y) <= 1)
        BY <1>2, <1>3
      <4> QED BY <1>1, <4>1
    <3>3. Len(Base(y) \o <<"(", Ordinal(y)>>) = Len(Base(y)) + 2
      BY <1>1, MadeKey
    <3> QED BY <1>3, <3>1, <3>2, <3>3
  <2>2. Len(Base(x)) \in Nat \ {0} /\ Len(Base(y)) \in Nat \ {0}
    BY <1>1, BaseIsWords
  <2>3. titles[x] # <<>>
    BY <2>1, <2>2 DEF Base
  <2>4. titles[x] = Base(x)
    BY <2>3 DEF Base
  <2>5. titles[y] = titles[x] => Base(y) = Base(x)
    BY <2>3 DEF Base
  <2> QED BY <2>1, <2>2, <2>4, <2>5
<1>4. CASE Ordinal(c) <= 1 /\ Ordinal(d) <= 1
  <2>1. Base(c) = Base(d)
    BY <1>1, <1>4
  <2> QED BY <1>2, <1>4, <2>1, SameBaseSameColumn
<1>5. CASE Ordinal(c) <= 1 /\ Ordinal(d) > 1
  BY <1>3, <1>5
<1>6. CASE Ordinal(c) > 1 /\ Ordinal(d) <= 1
  BY <1>3, <1>6
<1>7. CASE Ordinal(c) > 1 /\ Ordinal(d) > 1
  <2> DEFINE k == Base(c) \o <<"(", Ordinal(c)>>  m == Base(d) \o <<"(", Ordinal(d)>>
  <2>1. names[c] = k /\ names[d] = m
    <3>1. ~ (Ordinal(c) <= 1) /\ ~ (Ordinal(d) <= 1)
      BY <1>2, <1>7
    <3> QED BY <1>1, <3>1
  <2>2. /\ Len(k) = Len(Base(c)) + 2 /\ k[Len(k)] = Ordinal(c)
        /\ \A i \in 1..Len(Base(c)) : k[i] = Base(c)[i]
        /\ Len(m) = Len(Base(d)) + 2 /\ m[Len(m)] = Ordinal(d)
        /\ \A i \in 1..Len(Base(d)) : m[i] = Base(d)[i]
    BY <1>1, MadeKey
  <2> HIDE DEF k, m
  <2>3. /\ Base(c) \in Seq(Words) /\ Base(d) \in Seq(Words)
        /\ Len(Base(c)) \in Nat /\ Len(Base(d)) \in Nat
    BY <1>1, BaseIsWords
  <2>4. Ordinal(c) = Ordinal(d) /\ Len(Base(c)) = Len(Base(d))
    <3>1. k = m
      BY <2>1
    <3>2. k[Len(k)] = m[Len(m)] /\ Len(k) = Len(m)
      BY <3>1
    <3>3. Len(Base(c)) + 2 = Len(Base(d)) + 2
      BY <2>2, <3>2
    <3> QED BY <2>2, <2>3, <3>2, <3>3
  <2>5. \A i \in 1..Len(Base(c)) : Base(c)[i] = Base(d)[i]
    BY <2>1, <2>2, <2>4
  <2>6. Base(c) = Base(d)
    BY <2>3, <2>4, <2>5, SeqEqual
  <2> QED BY <2>4, <2>6, SameBaseSameColumn
<1> QED BY <1>2, <1>4, <1>5, <1>6, <1>7

\* The suggestion and the form.
LEMMA ColumnsServeOne == MapInv => ColumnServesOne
<1> SUFFICES ASSUME MapInv PROVE ColumnServesOne
  OBVIOUS
<1>1. ASSUME importing \in {"match", "suggested", "mapped"}, NEW t \in Targets \ {NoTarget}
      PROVE  Cardinality(On(mapping, t)) <= 1
  BY <1>1, AtMostOne DEF MapInv, IsSuggestion, AtMostOneColumn
<1>2. ASSUME importing = "suggested", NEW p \in Columns \X Fields, score[p] >= Enough
      PROVE  mapping[p[1]] # NoTarget \/ On(mapping, FieldTarget(p[2])) # {}
  BY <1>2 DEF MapInv, Pairs
<1> QED BY <1>1, <1>2 DEF ColumnServesOne

\* A file in another's place.
LEMMA PlacedStay == MapInv => TwoColumnsOnlyIfPlaced
<1> SUFFICES ASSUME MapInv, importing = "merged", NEW t \in Targets \ {NoTarget}
             PROVE  /\ On(earlier, t) \subseteq On(mapping, t)
                    /\ Cardinality(On(mapping, t) \ On(earlier, t)) <= 1
  BY DEF TwoColumnsOnlyIfPlaced
<1>1. PICK map :
        /\ IsSuggestion(map)
        /\ mapping = [c \in Columns |-> IF earlier[c] # NoTarget THEN earlier[c] ELSE map[c]]
  BY DEF MapInv
<1>2. On(earlier, t) \subseteq On(mapping, t)
  BY <1>1 DEF On
<1>3. On(mapping, t) \ On(earlier, t) \subseteq On(map, t)
  BY <1>1 DEF On
<1>4. \A c, d \in On(mapping, t) \ On(earlier, t) : c = d
  BY <1>1, <1>3 DEF IsSuggestion, AtMostOneColumn
<1> QED BY <1>2, <1>4, AtMostOne

\* Mapping keys, suggestions and forms are one to one, for any header row and any
\* similarities (_finish, suggest_mapping, _mapping_from_form, replace_file), but for a
\* title that spells out a made key and a column kept from the file before.
THEOREM MappingIsAlwaysClear == ImportSpec => []MappingIsClear
<1>1. MapInv => MappingIsClear
  BY KeysAreDistinct, ColumnsServeOne, PlacedStay DEF MappingIsClear
<1> QED BY <1>1, MapInvariant, PTL
-----------------------------------------------------------------------------
(* Lists. Entries are of files there are, a request that has read a list   *)
(* finds it there still, a launch has read a mapped list, and the rows in  *)
(* the queue are their list's.                                             *)

Entries == {NoList} \cup [file : Files, mapping : Mappings,
                          rows : [file : Files, mapping : Mappings, contract : Contracts]]
Requests == [op : {"none", "map", "optional", "upload", "replace", "launch"},
             list : Lists \cup {"none"}, upload : Files \cup {"none"},
             entry : Entries, contract : Contracts]

ListsTypes ==
  /\ list \in [Lists -> Entries] /\ contract \in Contracts
  /\ task \in [Tasks -> Requests]
  /\ step \in [Tasks -> {"idle", "half", "ready", "over"}]

TaskInv(t) ==
  /\ task[t].op # "none" => task[t].list \in Lists
  /\ task[t].op \in {"upload", "replace"} => task[t].upload \in Files
  /\ task[t].op \in {"map", "optional", "replace"} =>
       task[t].entry # NoList /\ list[task[t].list] # NoList
  /\ task[t].op = "launch" /\ step[t] = "ready" =>
       /\ list[task[t].list] # NoList
       /\ ~ Unmapped(task[t].entry.mapping, task[t].contract)

TasksInv == \A t \in Tasks : TaskInv(t)

QueueInv ==
  queued # NoQueue =>
    /\ queued.list \in Lists /\ list[queued.list] # NoList
    /\ list[queued.list].rows = queued.rows

ListsInv ==
  ListsTypes /\ TasksInv /\ QueueInv /\ RowsStaleOnlyIfLapsed /\ LaunchedUnmappedOnlyIfChanged

LEMMA EntriesMade ==
  ASSUME NEW f \in Files, NEW m \in Mappings, NEW k \in Contracts
  PROVE  Entry(f, m, k) \in Entries \ {NoList}
BY ListsAssumption DEF Entry, Entries, NoList, Computed

LEMMA EntriesSaved ==
  ASSUME NEW e \in Entries \ {NoList}, NEW f \in Files, NEW m \in Mappings,
         NEW k \in Contracts
  PROVE  Saved(e, f, m, k) \in Entries \ {NoList}
BY ListsAssumption DEF Saved, Entry, Entries, NoList, Computed

LEMMA ListsInit0 == ListsInit => ListsInv
<1> SUFFICES ASSUME ListsInit PROVE ListsInv
  OBVIOUS
<1>1. ListsTypes
  <2>1. list \in [Lists -> Entries]
    BY EntriesMade DEF ListsInit, Entries
  <2> QED BY <2>1 DEF ListsInit, ListsTypes, NoTask, Requests, Contracts, Entries
<1>2. TasksInv /\ QueueInv /\ LaunchedUnmappedOnlyIfChanged
  BY DEF ListsInit, TasksInv, TaskInv, NoTask, QueueInv, LaunchedUnmappedOnlyIfChanged
<1>3. RowsStaleOnlyIfLapsed
  BY DEF ListsInit, RowsStaleOnlyIfLapsed, NoList, Entry, Computed
<1> QED BY <1>1, <1>2, <1>3 DEF ListsInv

\* A step that reads: only the request's own record and its place change.
LEMMA ReadingKeeps ==
  ASSUME ListsInv, NEW t \in Tasks, UNCHANGED <<list, contract, queued, lapsed>>,
         NEW q \in Requests, task' = [task EXCEPT ![t] = q],
         NEW p \in {"idle", "half", "ready", "over"}, step' = [step EXCEPT ![t] = p],
         TaskInv(t)'
  PROVE  ListsInv'
<1>1. ListsTypes'
  BY DEF ListsInv, ListsTypes
<1>2. TasksInv'
  <2> SUFFICES ASSUME NEW u \in Tasks PROVE TaskInv(u)'
    BY DEF TasksInv
  <2>1. CASE u = t
    BY <2>1
  <2>2. CASE u # t
    <3>1. task'[u] = task[u] /\ step'[u] = step[u]
      BY <2>2 DEF ListsInv, ListsTypes
    <3> QED BY <3>1 DEF ListsInv, TasksInv, TaskInv, Unmapped
  <2> QED BY <2>1, <2>2
<1>3. QueueInv' /\ RowsStaleOnlyIfLapsed' /\ LaunchedUnmappedOnlyIfChanged'
  BY DEF ListsInv, QueueInv, RowsStaleOnlyIfLapsed, LaunchedUnmappedOnlyIfChanged
<1> QED BY <1>1, <1>2, <1>3 DEF ListsInv

LEMMA ReadListInvariant ==
  ASSUME ListsInv, NEW t \in Tasks, NEW l \in Lists,
         \/ \E op \in {"map", "optional"} : ReadList(t, op, l, "none")
         \/ \E op \in {"upload", "replace"}, f \in Files : ReadList(t, op, l, f)
  PROVE  ListsInv'
<1>1. PICK op \in {"map", "optional", "upload", "replace"}, f \in Files \cup {"none"} :
        ReadList(t, op, l, f) /\ (op \in {"upload", "replace"} => f \in Files)
  OBVIOUS
<1> DEFINE q == [NoTask EXCEPT !.op = op, !.list = l, !.upload = f, !.entry = list[l]]
<1>2. list[l] \in Entries
  BY DEF ListsInv, ListsTypes
<1>3. q \in Requests /\ q.op = op /\ q.list = l /\ q.upload = f /\ q.entry = list[l]
  BY <1>2 DEF NoTask, Requests, Contracts
<1>4. /\ task' = [task EXCEPT ![t] = q] /\ step' = [step EXCEPT ![t] = "half"]
      /\ UNCHANGED <<list, contract, queued, lapsed>>
      /\ op # "upload" => list[l] # NoList
  BY <1>1 DEF ReadList, Proceed
<1>5. task'[t] = q /\ step'[t] = "half"
  BY <1>4 DEF ListsInv, ListsTypes
<1>6. TaskInv(t)'
  BY <1>1, <1>3, <1>4, <1>5 DEF TaskInv
<1> HIDE DEF q
<1> QED BY <1>3, <1>4, <1>6, ReadingKeeps

LEMMA ReadAgentInvariant ==
  ASSUME ListsInv, NEW t \in Tasks, ReadAgent(t)
  PROVE  ListsInv'
<1> DEFINE q == [task[t] EXCEPT !.contract = contract]
<1>1. task[t] \in Requests /\ contract \in Contracts
  BY DEF ListsInv, ListsTypes
<1>2. /\ q \in Requests /\ q.op = task[t].op /\ q.list = task[t].list
      /\ q.upload = task[t].upload /\ q.entry = task[t].entry
  BY <1>1 DEF Requests
<1>3. /\ task' = [task EXCEPT ![t] = q] /\ step' = [step EXCEPT ![t] = "ready"]
      /\ UNCHANGED <<list, contract, queued, lapsed>> /\ task[t].op # "launch"
  BY DEF ReadAgent, Proceed
<1>4. task'[t] = q
  BY <1>3 DEF ListsInv, ListsTypes
<1>5. TaskInv(t)'
  BY <1>2, <1>3, <1>4 DEF ListsInv, TasksInv, TaskInv
<1> HIDE DEF q
<1> QED BY <1>2, <1>3, <1>5, ReadingKeeps

LEMMA BeginLaunchInvariant ==
  ASSUME ListsInv, NEW t \in Tasks, NEW l \in Lists, BeginLaunch(t, l)
  PROVE  ListsInv'
<1> DEFINE q == [NoTask EXCEPT !.op = "launch", !.list = l, !.contract = contract]
<1>1. q \in Requests /\ q.op = "launch" /\ q.list = l
  BY DEF ListsInv, ListsTypes, NoTask, Requests, Entries
<1>2. /\ task' = [task EXCEPT ![t] = q] /\ step' = [step EXCEPT ![t] = "half"]
      /\ UNCHANGED <<list, contract, queued, lapsed>>
  BY DEF BeginLaunch, Proceed
<1>3. task'[t] = q /\ step'[t] = "half"
  BY <1>2 DEF ListsInv, ListsTypes
<1>4. TaskInv(t)'
  BY <1>1, <1>3 DEF TaskInv
<1> HIDE DEF q
<1> QED BY <1>1, <1>2, <1>4, ReadingKeeps

LEMMA PreFlightInvariant ==
  ASSUME ListsInv, NEW t \in Tasks, PreFlight(t)
  PROVE  ListsInv'
<1> DEFINE q == [task[t] EXCEPT !.entry = list[task[t].list]]
<1>1. task[t] \in Requests /\ task[t].list \in Lists /\ task[t].op = "launch"
  BY DEF ListsInv, ListsTypes, TasksInv, TaskInv, PreFlight
<1>2. list[task[t].list] \in Entries
  BY <1>1 DEF ListsInv, ListsTypes
<1>3. /\ q \in Requests /\ q.op = "launch" /\ q.list = task[t].list
      /\ q.contract = task[t].contract /\ q.entry = list[task[t].list]
  BY <1>1, <1>2 DEF Requests
<1>4. /\ task' = [task EXCEPT ![t] = q] /\ step' = [step EXCEPT ![t] = "ready"]
      /\ UNCHANGED <<list, contract, queued, lapsed>>
      /\ list[task[t].list] # NoList
      /\ ~ Unmapped(list[task[t].list].mapping, task[t].contract)
  BY DEF PreFlight, Proceed, MappedOk
<1>5. task'[t] = q
  BY <1>4 DEF ListsInv, ListsTypes
<1>6. TaskInv(t)'
  BY <1>1, <1>3, <1>4, <1>5 DEF TaskInv, Unmapped
<1> HIDE DEF q
<1> QED BY <1>3, <1>4, <1>6, ReadingKeeps

LEMMA AbandonInvariant ==
  ASSUME ListsInv, NEW t \in Tasks, Abandon(t)
  PROVE  ListsInv'
<1>1. NoTask \in Requests /\ NoTask.op = "none"
  BY DEF NoTask, Requests, Contracts, Entries
<1>2. /\ task' = [task EXCEPT ![t] = NoTask] /\ step' = [step EXCEPT ![t] = "over"]
      /\ UNCHANGED <<list, contract, queued, lapsed>>
  BY DEF Abandon
<1>3. task'[t] = NoTask
  BY <1>2 DEF ListsInv, ListsTypes
<1>4. TaskInv(t)'
  BY <1>1, <1>3 DEF TaskInv
<1> QED BY <1>1, <1>2, <1>4, ReadingKeeps

\* A step that ends a request and leaves every list there, and the one launched as it is.
LEMMA WritingKeeps ==
  ASSUME ListsInv, NEW t \in Tasks, NEW l \in Lists, NEW e \in Entries \ {NoList},
         list' = [list EXCEPT ![l] = e], queued' = queued, contract' \in Contracts,
         task' = [task EXCEPT ![t] = NoTask], step' = [step EXCEPT ![t] = "over"],
         queued = NoQueue \/ queued.list # l,
         \A k \in Lists : <<k, "launch">> \in lapsed => <<k, "launch">> \in lapsed'
  PROVE  ListsTypes' /\ TasksInv' /\ QueueInv' /\ LaunchedUnmappedOnlyIfChanged'
<1>1. NoTask \in Requests /\ NoTask.op = "none"
  BY DEF NoTask, Requests, Contracts, Entries
<1>2. ListsTypes'
  BY <1>1 DEF ListsInv, ListsTypes
<1>3. list'[l] = e /\ \A k \in Lists \ {l} : list'[k] = list[k]
  BY DEF ListsInv, ListsTypes
<1>4. TasksInv'
  <2> SUFFICES ASSUME NEW u \in Tasks PROVE TaskInv(u)'
    BY DEF TasksInv
  <2>1. CASE u = t
    <3>1. task'[u] = NoTask
      BY <2>1 DEF ListsInv, ListsTypes
    <3> QED BY <1>1, <3>1 DEF TaskInv
  <2>2. CASE u # t
    <3>1. task'[u] = task[u] /\ step'[u] = step[u]
      BY <2>2 DEF ListsInv, ListsTypes
    <3>2. task[u].op # "none" => task[u].list \in Lists
      BY DEF ListsInv, TasksInv, TaskInv
    <3>3. TaskInv(u)
      BY DEF ListsInv, TasksInv
    <3> QED BY <1>3, <3>1, <3>2, <3>3 DEF TaskInv, Unmapped
  <2> QED BY <2>1, <2>2
<1>5. QueueInv'
  BY <1>3 DEF ListsInv, QueueInv
<1>6. LaunchedUnmappedOnlyIfChanged'
  BY DEF ListsInv, QueueInv, LaunchedUnmappedOnlyIfChanged
<1> QED BY <1>2, <1>4, <1>5, <1>6

\* What Overtaken records is enough for a list whose rows were computed from f and k.
LEMMA OvertakenTells ==
  ASSUME ListsInv, NEW l \in Lists, NEW e \in Entries \ {NoList}, NEW base, NEW k,
         list' = [list EXCEPT ![l] = e],
         e.rows.mapping = e.mapping, e.rows.contract = k,
         base = list[l].file => e.rows.file = e.file,
         Overtaken(l, base, k) \subseteq lapsed', contract' = contract
  PROVE  RowsStaleOnlyIfLapsed'
<1>1. list'[l] = e /\ \A i \in Lists \ {l} : list'[i] = list[i]
  BY DEF ListsInv, ListsTypes
<1>2. \A i \in Lists \ {l} :
        /\ <<i, "file">> \in lapsed => <<i, "file">> \in lapsed'
        /\ <<i, "contract">> \in lapsed => <<i, "contract">> \in lapsed'
  BY DEF Overtaken
<1>3. /\ base = list[l].file \/ <<l, "file">> \in lapsed'
      /\ k = contract \/ <<l, "contract">> \in lapsed'
  BY DEF Overtaken
<1> QED BY <1>1, <1>2, <1>3 DEF ListsInv, RowsStaleOnlyIfLapsed

LEMMA UploadInvariant ==
  ASSUME ListsInv, NEW t \in Tasks, Upload(t), step' = [step EXCEPT ![t] = "over"],
         task' = [task EXCEPT ![t] = NoTask]
  PROVE  ListsInv'
<1> DEFINE l == task[t].list  f == task[t].upload  k == task[t].contract
<1>1. l \in Lists /\ f \in Files /\ k \in Contracts
  BY DEF Upload, ListsInv, ListsTypes, TasksInv, TaskInv, Requests
<1>2. PICK m \in Mappings : list' = [list EXCEPT ![l] = Entry(f, m, k)]
  BY DEF Upload
<1> DEFINE e == Entry(f, m, k)
<1>3. e \in Entries \ {NoList}
  BY <1>1, EntriesMade
<1>4. /\ list[l] = NoList /\ lapsed' = Overtaken(l, "none", k)
      /\ contract' = contract /\ queued' = queued /\ contract \in Contracts
  BY DEF Upload, ListsInv, ListsTypes
<1>5. queued = NoQueue \/ queued.list # l
  BY <1>4 DEF ListsInv, QueueInv
<1>6. e.rows.mapping = e.mapping /\ e.rows.contract = k /\ e.rows.file = e.file
  BY DEF Entry, Computed
<1>7. \A i \in Lists : <<i, "launch">> \in lapsed => <<i, "launch">> \in lapsed'
  BY <1>4 DEF Overtaken
<1> HIDE DEF l, k, f, e
<1>8. ListsTypes' /\ TasksInv' /\ QueueInv' /\ LaunchedUnmappedOnlyIfChanged'
  BY <1>1, <1>2, <1>3, <1>4, <1>5, <1>7, WritingKeeps DEF e
<1>9. RowsStaleOnlyIfLapsed'
  BY <1>1, <1>2, <1>3, <1>4, <1>6, OvertakenTells DEF e
<1> QED BY <1>8, <1>9 DEF ListsInv

LEMMA SaveMappingInvariant ==
  ASSUME ListsInv, NEW t \in Tasks, SaveMapping(t), step' = [step EXCEPT ![t] = "over"],
         task' = [task EXCEPT ![t] = NoTask]
  PROVE  ListsInv'
<1> DEFINE l == task[t].list  f == task[t].entry.file  k == task[t].contract
<1>1. /\ l \in Lists /\ k \in Contracts /\ list[l] \in Entries \ {NoList}
      /\ task[t].entry \in Entries \ {NoList}
  BY DEF SaveMapping, ListsInv, ListsTypes, TasksInv, TaskInv, Requests
<1>2. f \in Files
  BY <1>1 DEF Entries
<1>3. PICK m \in Mappings :
        list' = [list EXCEPT ![l] = Saved(list[l], f, m, k)]
  BY DEF SaveMapping
<1> DEFINE e == Saved(list[l], f, m, k)
<1>4. e \in Entries \ {NoList} /\ list' = [list EXCEPT ![l] = e]
  BY <1>1, <1>2, <1>3, EntriesSaved DEF ListsInv, ListsTypes
<1>5. /\ lapsed' = Overtaken(l, f, k) /\ queued.list # l
      /\ contract' = contract /\ queued' = queued /\ contract \in Contracts
  BY DEF SaveMapping, Deletable, ListsInv, ListsTypes
<1>6. /\ e.rows.mapping = e.mapping /\ e.rows.contract = k
      /\ f = list[l].file => e.rows.file = e.file
  BY DEF Computed, Saved
<1>7. \A i \in Lists : <<i, "launch">> \in lapsed => <<i, "launch">> \in lapsed'
  BY <1>5 DEF Overtaken
<1> HIDE DEF l, k, f, e
<1>8. ListsTypes' /\ TasksInv' /\ QueueInv' /\ LaunchedUnmappedOnlyIfChanged'
  BY <1>1, <1>4, <1>5, <1>7, WritingKeeps
<1>9. RowsStaleOnlyIfLapsed'
  BY <1>1, <1>4, <1>5, <1>6, OvertakenTells
<1> QED BY <1>8, <1>9 DEF ListsInv

LEMMA ReplaceFileInvariant ==
  ASSUME ListsInv, NEW t \in Tasks, ReplaceFile(t), step' = [step EXCEPT ![t] = "over"],
         task' = [task EXCEPT ![t] = NoTask]
  PROVE  ListsInv'
<1> DEFINE l == task[t].list  f == task[t].upload  k == task[t].contract
<1>1. l \in Lists /\ f \in Files /\ k \in Contracts
  BY DEF ReplaceFile, ListsInv, ListsTypes, TasksInv, TaskInv, Requests
<1>2. PICK m \in Mappings : list' = [list EXCEPT ![l] = Entry(f, m, k)]
  BY DEF ReplaceFile
<1> DEFINE e == Entry(f, m, k)
<1>3. e \in Entries \ {NoList}
  BY <1>1, EntriesMade
<1>4. /\ lapsed' = Overtaken(l, list[l].file, k) /\ queued.list # l
      /\ contract' = contract /\ queued' = queued /\ contract \in Contracts
  BY DEF ReplaceFile, Deletable, ListsInv, ListsTypes
<1>5. e.rows.mapping = e.mapping /\ e.rows.contract = k /\ e.rows.file = e.file
  BY DEF Entry, Computed
<1>6. \A i \in Lists : <<i, "launch">> \in lapsed => <<i, "launch">> \in lapsed'
  BY <1>4 DEF Overtaken
<1> HIDE DEF l, k, f, e
<1>7. ListsTypes' /\ TasksInv' /\ QueueInv' /\ LaunchedUnmappedOnlyIfChanged'
  BY <1>1, <1>2, <1>3, <1>4, <1>6, WritingKeeps DEF e
<1>8. RowsStaleOnlyIfLapsed'
  BY <1>1, <1>2, <1>3, <1>4, <1>5, OvertakenTells DEF e
<1> QED BY <1>7, <1>8 DEF ListsInv

LEMMA MakeOptionalInvariant ==
  ASSUME ListsInv, NEW t \in Tasks, MakeOptional(t), step' = [step EXCEPT ![t] = "over"],
         task' = [task EXCEPT ![t] = NoTask]
  PROVE  ListsInv'
<1> DEFINE l == task[t].list  entry == task[t].entry
           e == Saved(list[l], entry.file, entry.mapping, "optional")
<1>1. l \in Lists /\ list[l] \in Entries \ {NoList} /\ entry \in Entries \ {NoList}
  BY DEF MakeOptional, ListsInv, ListsTypes, TasksInv, TaskInv, Requests
<1>2. entry.file \in Files /\ entry.mapping \in Mappings /\ "optional" \in Contracts
  BY <1>1 DEF Entries, Contracts
<1>3. list' = [list EXCEPT ![l] = Saved(list[l], entry.file, entry.mapping, "optional")]
  BY DEF MakeOptional, Relaxed
<1>4. e \in Entries \ {NoList} /\ list' = [list EXCEPT ![l] = e]
  BY <1>1, <1>2, <1>3, EntriesSaved DEF ListsInv, ListsTypes
<1>5. /\ lapsed' = Overtaken(l, entry.file, contract) \cup ((Lists \ {l}) \X {"contract"})
      /\ queued' = queued /\ queued = NoQueue /\ contract' = "optional"
  BY DEF MakeOptional
<1>6. \A i \in Lists : <<i, "launch">> \in lapsed => <<i, "launch">> \in lapsed'
  BY <1>5 DEF Overtaken
<1>7. ListsTypes' /\ TasksInv' /\ QueueInv' /\ LaunchedUnmappedOnlyIfChanged'
  <2> HIDE DEF l, entry, e
  <2> QED BY <1>1, <1>2, <1>4, <1>5, <1>6, WritingKeeps
<1>8. list'[l] = e /\ \A i \in Lists \ {l} : list'[i] = list[i]
  BY <1>1, <1>4 DEF ListsInv, ListsTypes
<1>9. \A i \in Lists \ {l} :
        /\ <<i, "file">> \in lapsed => <<i, "file">> \in lapsed'
        /\ <<i, "contract">> \in lapsed'
  BY <1>5 DEF Overtaken
<1>10. entry.file = list[l].file \/ <<l, "file">> \in lapsed'
  BY <1>5 DEF Overtaken
<1>11. /\ e.file = list[l].file /\ e.mapping = entry.mapping /\ e.rows.file = entry.file
       /\ e.rows.mapping = entry.mapping /\ e.rows.contract = contract'
  BY <1>5 DEF Computed, Saved
<1>12. RowsStaleOnlyIfLapsed'
  <2> HIDE DEF l, entry, e
  <2> QED BY <1>8, <1>9, <1>10, <1>11 DEF ListsInv, RowsStaleOnlyIfLapsed
<1> QED BY <1>7, <1>12 DEF ListsInv

LEMMA CopyInvariant ==
  ASSUME ListsInv, NEW t \in Tasks, Copy(t), step[t] = "ready",
         step' = [step EXCEPT ![t] = "over"], task' = [task EXCEPT ![t] = NoTask]
  PROVE  ListsInv'
<1> DEFINE l == task[t].list
<1>1. /\ l \in Lists /\ list[l] # NoList
      /\ ~ Unmapped(task[t].entry.mapping, task[t].contract)
  BY DEF Copy, ListsInv, TasksInv, TaskInv
<1>2. /\ queued' = [list |-> l, rows |-> list[l].rows, contract |-> task[t].contract]
      /\ lapsed' = lapsed \cup (IF list[l] = task[t].entry THEN {} ELSE {<<l, "launch">>})
      /\ list' = list /\ contract' = contract
  BY DEF Copy
<1>3. NoTask \in Requests /\ NoTask.op = "none"
  BY DEF NoTask, Requests, Contracts, Entries
<1>4. ListsTypes'
  BY <1>2, <1>3 DEF ListsInv, ListsTypes
<1>5. TasksInv'
  <2> SUFFICES ASSUME NEW u \in Tasks PROVE TaskInv(u)'
    BY DEF TasksInv
  <2>1. CASE u = t
    <3>1. task'[u] = NoTask
      BY <2>1 DEF ListsInv, ListsTypes
    <3> QED BY <1>3, <3>1 DEF TaskInv
  <2>2. CASE u # t
    <3>1. task'[u] = task[u] /\ step'[u] = step[u]
      BY <2>2 DEF ListsInv, ListsTypes
    <3> QED BY <1>2, <3>1 DEF ListsInv, TasksInv, TaskInv, Unmapped
  <2> QED BY <2>1, <2>2
<1>6. QueueInv'
  BY <1>1, <1>2 DEF QueueInv
<1>7. LaunchedUnmappedOnlyIfChanged'
  <2>1. list[l] = task[t].entry => list[l].rows.mapping = task[t].entry.mapping
    BY <1>1 DEF ListsInv, RowsStaleOnlyIfLapsed
  <2> QED BY <1>1, <1>2, <2>1 DEF LaunchedUnmappedOnlyIfChanged, Unmapped
<1>8. RowsStaleOnlyIfLapsed'
  BY <1>2 DEF ListsInv, RowsStaleOnlyIfLapsed
<1> QED BY <1>4, <1>5, <1>6, <1>7, <1>8 DEF ListsInv

LEMMA SaveVersionInvariant ==
  ASSUME ListsInv, NEW t \in Tasks, SaveVersion(t)
  PROVE  ListsInv'
<1>1. /\ list' = list /\ queued' = queued /\ task' = task /\ contract' \in Contracts
      /\ step' = [step EXCEPT ![t] = "over"] /\ step[t] = "idle"
      /\ lapsed' = lapsed \cup (IF contract' = contract THEN {} ELSE Lists \X {"contract"})
  BY DEF SaveVersion, Proceed
<1>2. ListsTypes'
  BY <1>1 DEF ListsInv, ListsTypes
<1>3. TasksInv'
  <2> SUFFICES ASSUME NEW u \in Tasks PROVE TaskInv(u)'
    BY DEF TasksInv
  <2>1. step'[u] = "ready" => step[u] = "ready"
    BY <1>1 DEF ListsInv, ListsTypes
  <2> QED BY <1>1, <2>1 DEF ListsInv, TasksInv, TaskInv, Unmapped
<1>4. QueueInv' /\ LaunchedUnmappedOnlyIfChanged'
  BY <1>1 DEF ListsInv, QueueInv, LaunchedUnmappedOnlyIfChanged
<1>5. RowsStaleOnlyIfLapsed'
  BY <1>1 DEF ListsInv, RowsStaleOnlyIfLapsed
<1> QED BY <1>2, <1>3, <1>4, <1>5 DEF ListsInv

LEMMA ListsNextInvariant == ListsInv /\ [ListsNext]_listsVars => ListsInv'
<1> SUFFICES ASSUME ListsInv, [ListsNext]_listsVars PROVE ListsInv'
  OBVIOUS
<1>1. CASE UNCHANGED listsVars
  BY <1>1 DEF listsVars, ListsInv, ListsTypes, TasksInv, TaskInv, Unmapped, QueueInv,
              RowsStaleOnlyIfLapsed, LaunchedUnmappedOnlyIfChanged
<1>2. CASE ListsNext
  <2>1. PICK t \in Tasks :
          \/ \E op \in {"map", "optional"}, l \in Lists : ReadList(t, op, l, "none")
          \/ \E op \in {"upload", "replace"}, l \in Lists, f \in Files : ReadList(t, op, l, f)
          \/ \E l \in Lists : BeginLaunch(t, l)
          \/ ReadAgent(t) \/ PreFlight(t) \/ Write(t) \/ SaveVersion(t) \/ Abandon(t)
    BY <1>2 DEF ListsNext
  <2>2. CASE Write(t)
    <3>1. /\ step[t] = "ready" /\ step' = [step EXCEPT ![t] = "over"]
          /\ task' = [task EXCEPT ![t] = NoTask]
          /\ Upload(t) \/ SaveMapping(t) \/ ReplaceFile(t) \/ MakeOptional(t) \/ Copy(t)
      BY <2>2 DEF Write, Proceed
    <3> QED BY <3>1, UploadInvariant, SaveMappingInvariant, ReplaceFileInvariant,
               MakeOptionalInvariant, CopyInvariant
  <2> QED BY <2>1, <2>2, ReadListInvariant, BeginLaunchInvariant, ReadAgentInvariant,
             PreFlightInvariant, SaveVersionInvariant, AbandonInvariant
<1> QED BY <1>1, <1>2

LEMMA ListsInvariant == ListsSpec => []ListsInv
BY ListsInit0, ListsNextInvariant, PTL DEF ListsSpec

\* Stored rows come from their mapping, and from their list's file and the agent's
\* contract unless a request had been overtaken or a version was saved elsewhere
\* ("every mapping change recomputes", contacts.py).
THEOREM StaleRowsAreExplained == ListsSpec => []RowsStaleOnlyIfLapsed
<1>1. ListsInv => RowsStaleOnlyIfLapsed
  BY DEF ListsInv
<1> QED BY <1>1, ListsInvariant, PTL

\* A run dials without a required value only if its list was changed between the
\* launch's pre-flight and its copy of the rows (preflight, launch_agent step 7).
THEOREM LaunchesAreMapped == ListsSpec => []LaunchedUnmappedOnlyIfChanged
<1>1. ListsInv => LaunchedUnmappedOnlyIfChanged
  BY DEF ListsInv
<1> QED BY <1>1, ListsInvariant, PTL

\* What a run dials stays as it was launched: requests that read the list before the
\* launch and write after it fail on the queue's foreign key.
THEOREM LaunchedRowsStay == ListsSpec => [][QueuedRowsStay]_listsVars
<1>1. ListsInv /\ [ListsNext]_listsVars => [QueuedRowsStay]_listsVars
  <2> SUFFICES ASSUME ListsInv, ListsNext, queued # NoQueue
               PROVE  queued' = queued /\ list'[queued.list].rows = queued.rows
    BY DEF QueuedRowsStay
  <2>1. queued.list \in Lists /\ list[queued.list] # NoList
        /\ list[queued.list].rows = queued.rows
    BY DEF ListsInv, QueueInv
  <2>2. ListsInv'
    BY ListsNextInvariant
  <2>3. queued' = queued
    BY DEF ListsNext, ReadList, ReadAgent, BeginLaunch, PreFlight, Write, Upload,
           SaveMapping, ReplaceFile, MakeOptional, Copy, SaveVersion, Abandon
  <2> QED BY <2>1, <2>2, <2>3 DEF ListsInv, QueueInv
<1> QED BY <1>1, ListsInvariant, PTL DEF ListsSpec

\* From upload to run, for any lists and requests (save_mapping, replace_file,
\* make_optional, launch).
THEOREM RowsAlwaysFollow == ListsSpec => RowsFollow
<1>1. /\ RowsStaleOnlyIfLapsed' /\ LaunchedUnmappedOnlyIfChanged'
      /\ [QueuedRowsStay]_listsVars
      => [/\ RowsStaleOnlyIfLapsed' /\ LaunchedUnmappedOnlyIfChanged'
          /\ QueuedRowsStay]_listsVars
  OBVIOUS
<1> QED BY <1>1, StaleRowsAreExplained, LaunchesAreMapped, LaunchedRowsStay, PTL DEF RowsFollow
=============================================================================

------------------------------- MODULE Import -------------------------------
(***************************************************************************)
(* Contact import: the header row, the suggested mapping, the submitted    *)
(* one, the one that survives a new file, and the row pipeline             *)
(* (becca/services/contacts.py, becca/domain/dedupe.py;                    *)
(* becca/web/client_plane/contacts.py).                                    *)
(*                                                                         *)
(* A title is a sequence of words. A phone cell has a number or none, and  *)
(* several cells may have the same one. What a row says in its mapped      *)
(* columns is one value, "" when a cell is blank; the hash of number and   *)
(* values is taken to be the pair.                                         *)
(***************************************************************************)
EXTENDS Integers, Sequences, FiniteSets, FiniteSetsExt

CONSTANTS
  Titles,     \* what a header cell may say; <<>> is blank
  Columns,    \* columns of the file, 1..n in file order
  Fields,     \* the contract's input fields, 1..m in contract order
  PhoneCells, \* what a phone cell may say
  NumberOf,   \* PhoneCells -> number, or "none" for an unreadable cell
  Says,       \* values of a row's mapped columns
  MaxRows     \* bound: rows of a file

ASSUME ImportAssumption ==
  /\ Columns \subseteq Nat /\ Fields \subseteq Nat /\ MaxRows \in Nat
  /\ IsFiniteSet(Columns) /\ IsFiniteSet(Fields)

\* A number reads as itself: no cell that cannot be read says one.
ASSUME NumbersAssumption ==
  /\ "none" \notin PhoneCells
  /\ \A c, d \in PhoneCells : NumberOf[c] = "none" => NumberOf[d] # c

\* A title is a sequence.
ASSUME TitlesAssumption ==
  \A t \in Titles : Len(t) \in Nat /\ t = [i \in 1..Len(t) |-> t[i]]

VARIABLES
  importing, \* "titles", "titled"; "suggest", "match", "suggested", "mapped",
             \* "merged"; "rows", "done"
  titles, names,           \* the header row, and the mapping keys made of it
  score, phoneLike,        \* similarity of a column to a field; columns named like a phone
  earlier, mapping,        \* column -> target: of the list's previous file, and now
  lines, required,         \* the data rows; whether a mapped field is required
  cursor, seen, kept, duplicates  \* the loop: next row, keys, rows stored, rows dropped

titleVars == <<titles, names>>
mappingVars == <<score, phoneLike, earlier, mapping>>
rowVars == <<lines, required, cursor, seen, kept, duplicates>>
importVars == <<importing, titleVars, mappingVars, rowVars>>

Enough == 1   \* a similarity of 0.5
PhoneTarget == <<"phone">>
NoTarget == <<"unused">>
FieldTarget(f) == <<"field", f>>
Targets == {FieldTarget(f) : f \in Fields} \cup {PhoneTarget, NoTarget}
On(map, t) == {c \in Columns : map[c] = t}

TitlesInit ==
  /\ importing = "titles"
  /\ titles \in [Columns -> Titles]
  /\ score = [p \in Columns \X Fields |-> 0] /\ phoneLike = {}
  /\ lines = <<>> /\ required = "no"

SuggestInit ==
  /\ importing = "suggest"
  /\ titles = [c \in Columns |-> <<>>]
  /\ score \in [Columns \X Fields -> 0..2]
  /\ phoneLike \in SUBSET Columns
  /\ lines = <<>> /\ required = "no"

RowsInit ==
  /\ importing = "rows"
  /\ titles = [c \in Columns |-> <<>>]
  /\ score = [p \in Columns \X Fields |-> 0] /\ phoneLike = {}
  /\ \E n \in 1..MaxRows : lines \in [1..n -> [phone : PhoneCells, value : Says]]
  /\ required \in {"yes", "no"}

ImportInit ==
  /\ TitlesInit \/ SuggestInit \/ RowsInit
  /\ names = titles
  /\ mapping = [c \in Columns |-> NoTarget] /\ earlier = mapping
  /\ cursor = 1 /\ seen = {} /\ kept = {} /\ duplicates = 0

-----------------------------------------------------------------------------
(* _finish: a blank title becomes "Column i", a repeated one "x (2)".      *)

Base(c) == IF titles[c] = <<>> THEN <<"Column", c>> ELSE titles[c]

\* Mutant: a repeated title is counted from the ones before it only.
OrdinalBefore(c) == Cardinality({d \in Columns : d < c /\ Base(d) = Base(c)})
Ordinal(c) == Cardinality({d \in Columns : d <= c /\ Base(d) = Base(c)})

NameColumns ==
  /\ importing = "titles" /\ importing' = "titled"
  /\ names' = [c \in Columns |->
                 IF Ordinal(c) <= 1 THEN Base(c) ELSE Base(c) \o <<"(", Ordinal(c)>>]
  /\ UNCHANGED <<titles, mappingVars, rowVars>>

-----------------------------------------------------------------------------
(* suggest_mapping: the first phone-like column, then the best pair whose  *)
(* column and field are both free; ties in contract order, then file order.*)

FirstPhone == IF phoneLike = {} THEN {} ELSE {Min(phoneLike)}

SuggestPhone ==
  /\ importing = "suggest" /\ importing' = "match"
  /\ mapping' = [c \in Columns |-> IF c \in FirstPhone THEN PhoneTarget ELSE NoTarget]
  /\ UNCHANGED <<titleVars, score, phoneLike, earlier, rowVars>>

\* Mutant: a field may be suggested for two columns.
PairsTwice == {p \in Columns \X Fields : score[p] >= Enough /\ mapping[p[1]] = NoTarget}
Pairs ==
  {p \in Columns \X Fields :
     /\ score[p] >= Enough
     /\ mapping[p[1]] = NoTarget /\ On(mapping, FieldTarget(p[2])) = {}}

Precedes(p, q) ==
  \/ score[p] > score[q]
  \/ score[p] = score[q] /\ p[2] < q[2]
  \/ score[p] = score[q] /\ p[2] = q[2] /\ p[1] < q[1]

Match ==
  /\ importing = "match" /\ UNCHANGED importing
  /\ \E p \in Pairs :
       /\ \A q \in Pairs \ {p} : Precedes(p, q)
       /\ mapping' = [mapping EXCEPT ![p[1]] = FieldTarget(p[2])]
  /\ UNCHANGED <<titleVars, score, phoneLike, earlier, rowVars>>

Matched ==
  /\ importing = "match" /\ Pairs = {} /\ importing' = "suggested"
  /\ UNCHANGED <<titleVars, mappingVars, rowVars>>

\* Mutant: only a column the suggestion left free keeps its target.
KeptTargetIfFree(c) ==
  IF mapping[c] = NoTarget /\ earlier'[c] # NoTarget THEN earlier'[c] ELSE mapping[c]
KeptTarget(c) == IF earlier'[c] # NoTarget THEN earlier'[c] ELSE mapping[c]

\* replace_file: a column the user placed keeps its target in the new file.
KeepPlaced ==
  /\ importing = "suggested" /\ importing' = "merged"
  /\ earlier' \in [Columns -> Targets]
  /\ mapping' = [c \in Columns |-> KeptTarget(c)]
  /\ UNCHANGED <<titleVars, score, phoneLike, rowVars>>

\* _mapping_from_form: of two columns submitted with one target the first stays.
FromForm ==
  /\ importing = "suggested" /\ importing' = "mapped"
  /\ \E form \in [Columns -> Targets] :
       mapping' = [c \in Columns |->
                     IF \E d \in Columns : d < c /\ form[d] = form[c]
                     THEN NoTarget ELSE form[c]]
  /\ UNCHANGED <<titleVars, score, phoneLike, earlier, rowVars>>

-----------------------------------------------------------------------------
(* compute_import: normalise, key, drop or keep, one row after the other.  *)

NormalisePhone(r) == NumberOf[r.phone]

\* Mutant: the key is taken before the number is normalised.
RawKey(r) == <<r.phone, r.value>>
DedupeKey(r) ==
  <<IF NormalisePhone(r) = "none" THEN r.phone ELSE NormalisePhone(r), r.value>>

DropRow ==
  /\ importing = "rows" /\ cursor <= Len(lines)
  /\ DedupeKey(lines[cursor]) \in seen
  /\ duplicates' = duplicates + 1 /\ cursor' = cursor + 1
  /\ UNCHANGED <<importing, titleVars, mappingVars, lines, required, seen, kept>>

KeepRow ==
  /\ importing = "rows" /\ cursor <= Len(lines)
  /\ DedupeKey(lines[cursor]) \notin seen
  /\ seen' = seen \cup {DedupeKey(lines[cursor])}
  /\ kept' = kept \cup {cursor} /\ cursor' = cursor + 1
  /\ UNCHANGED <<importing, titleVars, mappingVars, lines, required, duplicates>>

RowsDone ==
  /\ importing = "rows" /\ cursor > Len(lines) /\ importing' = "done"
  /\ UNCHANGED <<titleVars, mappingVars, rowVars>>

ExclusionReason(r) ==
  IF NormalisePhone(r) = "none" THEN "unparseable_number"
  ELSE IF required = "yes" /\ r.value = "" THEN "missing_required_value" ELSE "ok"

Diallable == {i \in kept : ExclusionReason(lines[i]) = "ok"}

ImportNext ==
  \/ NameColumns
  \/ SuggestPhone \/ Match \/ Matched \/ KeepPlaced \/ FromForm
  \/ DropRow \/ KeepRow \/ RowsDone

ImportSpec == ImportInit /\ [][ImportNext]_importVars

-----------------------------------------------------------------------------
(* Properties.                                                             *)

\* "Unnamed or repeated headers still need distinct mapping keys" (_finish): two
\* columns share a key only when the file spells out a title _finish also makes.
KeysDistinctUnlessSpelled ==
  importing = "titled" =>
    \A c, d \in Columns : c # d /\ names[c] = names[d] =>
      \E e \in {c, d} : titles[e] = names[e] /\ titles[c] # titles[d]

\* "A column serves one target": a suggestion and a submitted form name each target
\* at most once, and a suggestion leaves no good pair with both ends free.
ColumnServesOne ==
  /\ importing \in {"match", "suggested", "mapped"} =>
       \A t \in Targets \ {NoTarget} : Cardinality(On(mapping, t)) <= 1
  /\ importing = "suggested" =>
       \A p \in Columns \X Fields : score[p] >= Enough =>
         mapping[p[1]] # NoTarget \/ On(mapping, FieldTarget(p[2])) # {}

\* A file put in another's place: no placed column loses its target, and a target
\* gets a second column only when the suggestion found one besides the placed.
TwoColumnsOnlyIfPlaced ==
  importing = "merged" =>
    \A t \in Targets \ {NoTarget} :
      /\ On(earlier, t) \subseteq On(mapping, t)
      /\ Cardinality(On(mapping, t) \ On(earlier, t)) <= 1

\* Two rows are the same call to the same person when numbers and values are equal;
\* unreadable numbers are told apart by their text.
SameCall(r, s) ==
  /\ r.value = s.value
  /\ NumberOf[r.phone] = NumberOf[s.phone]
  /\ NumberOf[r.phone] = "none" => r.phone = s.phone

\* "First occurrence wins": at every point of the loop the rows stored are those no
\* earlier row equals, and every other row is counted as a duplicate.
KeptAreFirsts ==
  /\ kept = {i \in 1..(cursor - 1) : \A j \in 1..(i - 1) : ~ SameCall(lines[i], lines[j])}
  /\ duplicates + Cardinality(kept) = cursor - 1

\* Nobody is lost to a duplicate: a call the file asks for and some row could be
\* dialled for is dialled for exactly one stored row.
EveryoneOnce ==
  importing = "done" =>
    \A i \in 1..Len(lines) : ExclusionReason(lines[i]) = "ok" =>
      Cardinality({j \in Diallable : SameCall(lines[i], lines[j])}) = 1

\* The rows stored are the calls the file asks for: each once, the first of its kind,
\* and every one that can be dialled.
RowsAreCalls == KeptAreFirsts /\ EveryoneOnce

\* Keys, suggestions and forms are one to one, but for a spelled-out key and a
\* column kept from the file before.
MappingIsClear == KeysDistinctUnlessSpelled /\ ColumnServesOne /\ TwoColumnsOnlyIfPlaced
=============================================================================

------------------------------- MODULE MCDesk -------------------------------
(***************************************************************************)
(* The desks of the owners and the staff for TLC. In each behaviour one    *)
(* part moves and the others stand still in one initial state: they share  *)
(* no variable, so the run explores the sum of their state spaces and not  *)
(* their product. The still states enable no action that a fairness        *)
(* condition names.                                                        *)
(***************************************************************************)
EXTENDS Console, Members, Results, Monitor, Import, Lists, Notify, Books

CONSTANTS a1, a2, n1, n2, e1, e2, e3, e4, c1, c2, l1, f1

VARIABLE part

deskVars == <<part, consoleVars, membersVars, resultsVars, monitorVars, importVars,
              listsVars, notifyVars, booksVars>>

MCNumberOf ==
  [c \in PhoneCells |-> CASE c \in {"0803", "+234803"} -> "Musa" [] c = "0805" -> "Ada"
                          [] OTHER -> "none"]
MCTitles == {<<>>, <<"Name">>, <<"Name", "(", 2>>, <<"Column", 1>>}
MCAudienceOf == [r \in Readers |-> IF r = "clerk" THEN "staff" ELSE "p1"]

-----------------------------------------------------------------------------
(* Initial states: up to a renaming, and one of each part that stands still*)

\* An account that one request or two can complete, and one that holds channels
\* and may be launched as soon as it is given a number.
ConsoleStart ==
  /\ ConsoleInit
  /\ holder[n1] = "none" /\ holder[n2] = a1
  /\ allocation[a1] = 0 /\ a2 \in acknowledged
  /\ part # "console" => allocation[a2] = 0 /\ a1 \in acknowledged

MembersStart ==
  /\ MembersInit
  /\ person[1].email = e1 /\ person[2].email = e2 /\ person[3].email = e3 /\ c1 \in clients

\* Two workers that overlap, and nobody reads; or one worker, and the pages are used.
Overlapped == \A w \in Pollers : poll[w].at # "off"
ResultsStart ==
  /\ ResultsInit
  /\ poll["w1"].at # "off"
  /\ part = "pages" <=> ~ Overlapped

ImportStart ==
  /\ ImportInit
  /\ part # "import" =>
       importing = "rows" /\ required = "no" /\ Len(lines) = 1 /\ lines[1].value = ""
         /\ lines[1].phone = "bad"

ListsStart ==
  /\ ListsInit
  /\ \A l \in Lists : list[l].file = (IF l = l1 THEN f1 ELSE "none")
  /\ part # "lists" => contract = "optional" /\ list[l1].mapping = "bare"

BooksStart == BooksInit /\ (part = "books" \/ invoice = "paid")

DeskInit ==
  /\ part \in {"console", "members", "results", "pages", "monitor", "import", "lists",
               "notify", "books"}
  /\ ConsoleStart /\ MembersStart /\ ResultsStart /\ MonitorInit
  /\ ImportStart /\ ListsStart /\ NotifyInit /\ BooksStart

-----------------------------------------------------------------------------
ConsoleDesk ==
  /\ part = "console" /\ ConsoleNext
  /\ UNCHANGED <<part, membersVars, resultsVars, monitorVars, importVars, listsVars,
                 notifyVars, booksVars>>
MembersDesk ==
  /\ part = "members" /\ MembersNext
  /\ UNCHANGED <<part, consoleVars, resultsVars, monitorVars, importVars, listsVars,
                 notifyVars, booksVars>>
ResultsDesk ==
  /\ part \in {"results", "pages"} /\ ResultsNext
  /\ part = "results" => UNCHANGED <<corrected, reader>>
  /\ UNCHANGED <<part, consoleVars, membersVars, monitorVars, importVars, listsVars,
                 notifyVars, booksVars>>
MonitorDesk ==
  /\ part = "monitor" /\ MonitorNext
  /\ UNCHANGED <<part, consoleVars, membersVars, resultsVars, importVars, listsVars,
                 notifyVars, booksVars>>
ImportDesk ==
  /\ part = "import" /\ ImportNext
  /\ UNCHANGED <<part, consoleVars, membersVars, resultsVars, monitorVars, listsVars,
                 notifyVars, booksVars>>
ListsDesk ==
  /\ part = "lists" /\ ListsNext
  /\ UNCHANGED <<part, consoleVars, membersVars, resultsVars, monitorVars, importVars,
                 notifyVars, booksVars>>
NotifyDesk ==
  /\ part = "notify" /\ NotifyNext
  /\ UNCHANGED <<part, consoleVars, membersVars, resultsVars, monitorVars, importVars,
                 listsVars, booksVars>>
BooksDesk ==
  /\ part = "books" /\ BooksNext
  /\ UNCHANGED <<part, consoleVars, membersVars, resultsVars, monitorVars, importVars,
                 listsVars, notifyVars>>

DeskNext ==
  \/ ConsoleDesk \/ MembersDesk \/ ResultsDesk \/ MonitorDesk
  \/ ImportDesk \/ ListsDesk \/ NotifyDesk \/ BooksDesk

DeskSpec == DeskInit /\ [][DeskNext]_deskVars /\ ResultsFairness /\ MonitorFairness
=============================================================================

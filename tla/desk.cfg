CONSTANTS
  a1 = a1  a2 = a2  n1 = n1  n2 = n2
  e1 = e1  e2 = e2  e3 = e3  e4 = e4
  c1 = c1  c2 = c2
  l1 = "l1"  f1 = "f1"
  \* Console
  Accounts = {a1, a2}
  Numbers = {n1, n2}
  Edits = {1, 2}
  Ceiling = 3
  Sizes = {2}
  \* Members
  Emails = {e1, e2, e3, e4}
  Seeded = {e4}
  Clients = {c1, c2}
  Desks = {1, 2}
  MaxRequests = 3
  \* Results, Monitor
  Calls = {1, 2}
  Batch = 1
  Page = 1
  Pollers = {"w1", "w2"}
  MaxEvents = 3
  \* Import
  Titles <- MCTitles
  Columns = {1, 2}
  Fields = {1, 2}
  PhoneCells = {"0803", "+234803", "0805", "bad"}
  NumberOf <- MCNumberOf
  Says = {"", "v"}
  MaxRows = 3
  \* Lists
  Lists = {"l1", "l2"}
  Files = {"f1", "f2"}
  Tasks = {1, 2}
  \* Notify
  Payers = {"p1", "p2"}
  Settlers = {1, 2}
  Readers = {"owner", "visitor"}
  AudienceOf <- MCAudienceOf
  MaxNotes = 4
  \* Books
  Renders = {"x1", "x2"}
  Sessions = {"s1"}
  RecordTypes = {"t1", "t2"}
  MaxHours = 1
SPECIFICATION DeskSpec
INVARIANTS
  ConsoleTypeOK MembersTypeOK
  RowsAreCalls 
PROPERTIES
  NumberStaysUnderRun SetUpUnlessMissed
  RemovalsUnlessMissed
  MirrorIsFaithful PageMatchesFilter EveryCallMirrored
  MonitorCatchesUp
  
  ToldOnce
  
CHECK_DEADLOCK FALSE

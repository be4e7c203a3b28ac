CONSTANTS
  a1 = a1
  a2 = a2
  i1 = i1
  None = None
  Agents = {a1}
  Items = {i1}
  AgentOf <- OneRun
  Workers = {w1}
  Handlers = {h1}
  Copies = {1}
  Allocation = 1
  RetryAttempts = 2
  Hold = 2
  Charges = {2}
  SpendCap = 100
  OpeningBalance = 6
  TopUps = {}
  MaxCredit = 6
  MaxCrashes = 1
  Events = {"refuse","forbid","error","crash","ambiguous","earlycallback","lostcallback","pause","stop"}
SPECIFICATION Spec
INVARIANTS TypeOK OneLinePerContact RungCallKeepsRow ItemMirrorsCall NextKeyFree RecordedTalkIsLast
PROPERTIES ClosedStaysClosed RefundOnlyUnrung 

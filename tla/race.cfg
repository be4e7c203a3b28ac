CONSTANTS
  a1 = a1
  a2 = a2
  i1 = i1
  None = None
  Agents = {a1}
  Items = {i1}
  AgentOf <- OneRun
  Workers = {w1, w2}
  Handlers = {h1, h2}
  Copies = {1, 2}
  Allocation = 2
  RetryAttempts = 2
  Hold = 2
  Charges = {1}
  SpendCap = 100
  OpeningBalance = 4
  TopUps = {}
  MaxCredit = 4
  MaxCrashes = 0
  Events = {"forbid"}
SPECIFICATION Spec
INVARIANT LedgerIsTrue
SYMMETRY Symmetry

CONSTANTS
  a1 = a1
  a2 = a2
  i1 = i1
  None = None
  Agents = {a1}
  Items = {i1, i2}
  AgentOf <- OneRun
  Workers = {w1}
  Handlers = {h1, h2}
  Copies = {1}
  Allocation = 1
  RetryAttempts = 0
  Hold = 2
  Charges = {2}
  SpendCap = 100
  OpeningBalance = 4
  TopUps = {}
  MaxCredit = 4
  MaxCrashes = 1
  Events = {"error", "crash", "ambiguous", "lostcallback", "earlycallback", "sweeprace"}
SPECIFICATION FairSpec
PROPERTIES HoldsReleased 

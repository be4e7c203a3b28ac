CONSTANTS
  None = None
  Tests = {t1, t2}
  Pollers = {p1}
  Rates = {10, 30}
  Durations = {1, 65}
  WalletFloor = 30
  OpeningBalance = 60
  Events = {"crash", "error", "ambiguous", "earlycallback"}
SPECIFICATION Spec
SYMMETRY Symmetry
INVARIANTS TypeOK TestsBilledExactly CacheIsLedger CompleteWasTalked
PROPERTIES CompleteIsFinal 

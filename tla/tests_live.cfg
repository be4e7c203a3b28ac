CONSTANTS
  None = None
  Tests = {t1, t2}
  Pollers = {p1}
  Rates = {10, 30}
  Durations = {65}
  WalletFloor = 30
  OpeningBalance = 60
  Events = {"crash"}
SPECIFICATION FairSpec
PROPERTIES TestHoldsReleased

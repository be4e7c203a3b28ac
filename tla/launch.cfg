CONSTANTS
  None = None
  Launches = {l1, l2, l3}
  Saves = {s1, s2, s3}
  Deletes = {d1}
  Events = {"crash", "error", "ambiguous"}
SPECIFICATION Spec
SYMMETRY Symmetry
INVARIANTS TypeOK CurrentIsNewest RunAssistantLives
PROPERTY LaunchedOrDeletedOnce
CHECK_DEADLOCK FALSE

CONSTANTS
  None = None
  Launches = {l1}
  Saves = {s1}
  Deletes = {}
  Events = {}
SPECIFICATION Spec
INVARIANT SchemaIsFrozen
CHECK_DEADLOCK FALSE

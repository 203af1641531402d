SPECIFICATION Spec
CONSTANTS
  Students = {s1, s2}
  None = None
  Chosen = TRUE
  MaxLogins = 2
  MaxWire = 3
INVARIANTS StoredIsOwn
CHECK_DEADLOCK FALSE

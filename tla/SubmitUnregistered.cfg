SPECIFICATION Spec
CONSTANTS
  Students = {s1}
  Texts = {a}
  NoText = none
  Requests = {q1}
  Maxbox = TRUE
  MaxRev = 3
INVARIANTS SavedRevisionHasRun
CHECK_DEADLOCK FALSE

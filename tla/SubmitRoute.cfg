SPECIFICATION Spec
CONSTANTS
  Students = {s1}
  Texts = {a, b}
  NoText = none
  Requests = {q1, q2, q3}
  Maxbox = TRUE
  MaxRev = 6
INVARIANTS TypeOK HistoryComplete AcknowledgedIsGraded
PROPERTIES FirstTextFrozen
CHECK_DEADLOCK FALSE

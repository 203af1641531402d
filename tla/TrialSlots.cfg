SPECIFICATION Spec
CONSTANTS
  SlotCount = 2
  Workers = {w1, w2, w3}
  Research = {w3}
  Tokens = {1, 2, 3, 4, 5}
  NoToken = 0
  Nobody = nobody
  LEASE = 4
  MARGIN = 2
  CALL_TIMEOUT = 2
  RESEARCH_LIMIT = 2
  MaxTime = 6
INVARIANTS TypeOK NoCallOutlivesLease OneCallPerSlot
PROPERTIES OnlyHolderEndsLease ImplementsLimiter
CHECK_DEADLOCK FALSE

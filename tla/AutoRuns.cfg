SPECIFICATION Spec
CONSTANTS
  Submissions = {s1}
  MaxRev = 1
  AUTO_TRIALS = 2
  SlotCount = 2
  Workers = {w1, w2}
  Tokens = {1, 2, 3, 4, 5, 6, 7, 8}
  NoToken = 0
  MAX_WAVES = 2
  MaxCalls = 1
  MaxEpoch = 2
  MaxFaults = 1
INVARIANTS TypeOK NoDoublePay CompletedIffAllDone
PROPERTIES StoppedStaysStopped
CHECK_DEADLOCK FALSE

SPECIFICATION Spec
CONSTANTS
  Jobs = {1, 2}
  Submissions = {1, 2}
  Unexecutable = {2}
  TRIALS = 2
  AUTO_TRIALS = 2
  SlotCount = 2
  Requests = {r1, r2}
  MaxFaults = 1
INVARIANTS TypeOK OneExecutor ReusedAll JobSaysWhatItDid FullBarMeansDone
PROPERTIES SavedTrialsKept
CHECK_DEADLOCK FALSE

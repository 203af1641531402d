SPECIFICATION Spec
CONSTANTS
  Areas = {"attempts", "roster", "course", "rounds", "review", "rights", "feedback"}
  Unused = Unused
  None = None
  Nobody = Nobody
  Writers = {0, 10}
  Tabs = {1, 2}
  MaxVersions = 1
  MaxOps = 4
  Schools = {A, B}
  Numbers = {1}
  Names = {N, M}
  Editors = {q1, q2}
  MaxRows = 3
  MaxEdits = 6
  Default = {s1, s2}
  FirstRequests = {f1, f2, f3}
  FixedCode = FALSE
  MayDie = TRUE
  Rounds = {1, 2}
  Boards = {1}
  Voters = {p1, p2}
  VoteTypes = {"clear"}
  TeacherRequests = {q1, q2}
  Clicks = {c1}
  Authors = {s1, s2, s3}
  MaxId = 4
  MaxSteps = 1
  MaxRev = 1
  Assigners = {a1, a2}
  LastId = 3
  LastStep = 2
  LastRev = 2
  RightsAssigners = {a1}
  Askers = {r1, r2}
  Lease = 6
  Deadline = 4
  CallTime = 1
  SlotLease = 7
  MaxLost = 1
  MaxBusy = 1
INVARIANTS TypeOK AttemptsAreKept HistoryHasItsOwner CourseIsWhole OneOpenRound ReviewsAreFair
PROPERTIES SettledStays RightToRevise
CHECK_DEADLOCK FALSE

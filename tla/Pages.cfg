SPECIFICATION Spec
CONSTANTS
  Areas = {"tab", "execute", "chooser", "explore", "panel", "rounds", "job", "results", "auto"}
  Unused = Unused
  None = None
  Sharers = {s1, s2}
  TabRounds = {1}
  Drafts = {1}
  TabLogins = 2
  TabWire = 2
  student = student
  ExecuteLogins = 2
  ExecuteWire = 3
  Choosers = {s1, s2}
  ChooserLogins = 3
  ChooserWire = 3
  Ideas = {e1, e2}
  idea = e1
  BoardWire = 2
  BoardFaults = 0
  PanelRev = 2
  Reviewers = 1
  Polls = 1
  Asks = 1
  Remarks = 1
  PanelWire = 2
  PanelFaults = 0
  TabledRounds = {r1, r2}
  Slots = {1, 2}
  Clicks = {3, 4}
  MaxActions = 2
  MaxFailed = 1
  JobWaves = 2
  MaxJobs = 3
  JobActs = 5
  JobFaults = 2
  Items = {1, 2}
  Trials = 1
  MaxRefresh = 1
  ResultFaults = 0
  Graded = {student}
  RunWaves = 2
  AutoActs = 2
  AutoFaults = 1
INVARIANTS TypeOK WorkIsKept ShownIsOwn OneAtATime
PROPERTIES NothingGoesBack
CHECK_DEADLOCK FALSE

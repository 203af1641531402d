SPECIFICATION FairSpec
CONSTANTS
  Areas = {"tab", "execute", "explore", "panel", "rounds", "job", "results", "auto"}
  Unused = Unused
  None = None
  Sharers = {student}
  TabRounds = {1}
  Drafts = {1}
  TabLogins = 1
  TabWire = 2
  student = student
  ExecuteLogins = 2
  ExecuteWire = 2
  Choosers = {s1, s2}
  ChooserLogins = 3
  ChooserWire = 3
  Ideas = {e1}
  idea = e1
  BoardWire = 3
  BoardFaults = 1
  PanelRev = 1
  Reviewers = 0
  Polls = 1
  Asks = 1
  Remarks = 0
  PanelWire = 2
  PanelFaults = 1
  TabledRounds = {r1}
  Slots = {1, 2}
  Clicks = {3, 4}
  MaxActions = 3
  MaxFailed = 1
  JobWaves = 2
  MaxJobs = 3
  JobActs = 3
  JobFaults = 1
  Items = {1}
  Trials = 2
  MaxRefresh = 0
  ResultFaults = 1
  Graded = {student}
  RunWaves = 2
  AutoActs = 1
  AutoFaults = 1
PROPERTIES WaitsEnd PagesConverge
CHECK_DEADLOCK FALSE

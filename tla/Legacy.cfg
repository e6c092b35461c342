SPECIFICATION OpportunitiesSpec
CHECK_DEADLOCK FALSE
CONSTANTS
  task = task
  shell = shell
  s1 = s1
  s2 = s2
  None = None
  Login = Login
  Processes = {task, shell}
  Sources = {s1, s2}
  Items = {1}
  Options <- MCOptions
  Dates = {1, 2}
  Lookback = 45
  MaxRuns = 2
  MaxFaults = 2
INVARIANTS
  RunningIsLive
  CompletedHonestly
  LatestSnapshotShown
  OpportunityIsCurrent

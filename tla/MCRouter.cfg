CONSTANTS
  u1 = u1
  u2 = u2
  w1 = w1
  w2 = w2
  Users = {u1, u2}
  Workers <- TwoWorkers
  Reports = {}
  ReportId <- OneReports
  Unreliable = {}
  Whitelist = {}
  Blacklist = {}
  MaxGlobalQps = 2
  MaxUserQps = 1
  TokenQuota = 4
  LoadThreshold = 900000
  Cooldown = 2
  Tokens = {2}
  MaxTime = 2
  MaxCalls = 3
SPECIFICATION mcSpec
CHECK_DEADLOCK FALSE
INVARIANTS
  ChosenAreFit
  LimitsKept
PROPERTIES
  StickyKept
  HealthFollows

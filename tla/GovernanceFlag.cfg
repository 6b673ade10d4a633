SPECIFICATION ApplicationSpec
CONSTANTS
  Parts = {"governance"}
  r1 = r1
  r2 = r2
  t1 = t1
  none = none
  p1 = p1
  p2 = p2
  hold1 = hold1
  hold2 = hold2
  Requests <- MCRequests
  Tenants <- MCTenants
  KnownActors <- MCKnownActors
  Inputs <- DatedInputs
  NoInput <- MCNone
  SerialTransactions = FALSE
  MaxDamage = 2
  Limits = {1, 2, 3, 4, 5}
  Calls = {p1, p2}
  Threshold = 2
  LockTicks = 1
  LastStep = 2
  MaxSignIns = 3
  Handlers = {p1, p2}
  Grants <- MCGrants
  DefaultRoles = {"end_user"}
  Pauses = {10}
  LastWeek = 10
  MaxInvitations = 2
  Places = {"here", "elsewhere"}
  Here = "here"
  Bearers = {p1, p2}
  Ttl = 1
  Latency = 1
  LastSessionTick = 4
  Instances = {p1, p2}
  Limit = 2
  Window = 2
  LastTickRL = 2
  MaxChecks = 4
  Checks = {p1, p2}
  Passes = {cron}
  Machines = {"m1", "m2"}
  Tolerance = 1
  GraceDays = 1
  Term = 1
  LastTick = 3
  MaxTurns = 1
  Officers <- MCOfficers
  Holds = {hold1, hold2}
  NoHold <- MCNone
  SerialReleases = TRUE
  MaxDispositions = 2
  Writers = {p1, p2, p3}
  Texts = {"a", "b"}
  FirstText = "a"
  MaxVersions = 3
  Visitors = {p1, p2, p3}
  ViewLimits = {0, 1, 2}
  MaxTries = 3
  MaxVisits = 3
  Clerks = {p1, p2}
  MaxEdits = 1
  Askers = {p1, p2}
  Tables <- MCTables
  Situations <- MCSituations
  RulesTtl = 1
  JudgeLatency = 1
  LastPolicyTick = 3
  MaxChanges = 1
  Width = 4
  DayLength = 6
  Editors = {p1, p2}
  Staff = {"ann", "bob"}
  MayDowngrade = {"ann"}
  Admins = {"bob"}
  Nobody = "nobody"
  MaxLevel = 2
  MaxEditOps = 4
  Folders = {f1, f2, f3}
  Root = root
  Movers = {p1, p2}
  MaxFolderDepth = 2
  MaxTreeOps = 3
INVARIANT HeldIsFlagged
CHECK_DEADLOCK FALSE

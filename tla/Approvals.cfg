SPECIFICATION ApprovalsSpec
CONSTANTS
  Parts = {"signatures", "workflows", "processes", "cron", "desktop"}
  a = a
  b = b
  alice = alice
  bob = bob
  carol = carol
  s1 = s1
  s2 = s2
  s3 = s3
  Requests = {r1, r2}
  Emails <- MCEmails
  RecipientLists <- MCLists
  Providers = {"internal", "docusign"}
  Workflows = {w1}
  Users <- MCUsers
  Sessions <- MCSessions
  UserOf <- TwoOfAlice
  Plans <- BothModes
  SerialTransactions = FALSE
  MaxRows = 4
  Start = "start"
  Tasks = {"t1", "t2"}
  Gates = {"g"}
  Ends = {"e1", "e2"}
  Unknown = {"x"}
  Diagrams <- MCDiagrams
  Callers = {c1, c2, c3}
  MaxSteps = 6
  Runs = {c1, c2}
  Instances = {i1}
  Documents = {d1, d2}
  NoDocument = none
  Take = 1
  GuardTtl = 1
  LastTick = 2
  MaxCronFaults = 1
  Beats = {h1}
  Grace = 1
  Terms = {0, 1}
  MaxKeys = 2
  LastDay = 1
  MaxDesktopFaults = 1
INVARIANTS SignatureInv WorkflowInv CronInv
PROPERTIES SignatureSteps ExpiryHappens WorkflowSteps TransactionsEnd
           BpmnIsSound ListedIsRequested RevocationArrives
CHECK_DEADLOCK FALSE

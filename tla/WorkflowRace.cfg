SPECIFICATION ApprovalsSpec
CONSTANTS
  Parts = {"workflows"}
  a = a
  b = b
  alice = alice
  bob = bob
  carol = carol
  s1 = s1
  s2 = s2
  s3 = s3
  Requests = {r1, r2}
  Emails <- MCEmails
  RecipientLists <- MCLists
  Providers = {"internal", "docusign"}
  Workflows = {w1}
  Users <- MCUsers
  Sessions <- MCSessions
  UserOf <- TwoOfAlice
  Plans <- AllPlans
  SerialTransactions = FALSE
  MaxRows = 3
  Start = "start"
  Tasks = {"t1", "t2"}
  Gates = {"g"}
  Ends = {"e1", "e2"}
  Unknown = {"x"}
  Diagrams <- MCDiagrams
  Callers = {c1, c2, c3}
  MaxSteps = 6
  Runs = {c1, c2}
  Instances = {i1}
  Documents = {d1, d2}
  NoDocument = none
  Take = 2
  GuardTtl = 1
  LastTick = 2
  MaxCronFaults = 1
  Beats = {h1}
  Grace = 2
  Terms = {0, 2}
  MaxKeys = 2
  LastDay = 2
  MaxDesktopFaults = 1
INVARIANT UnanimityCompletes
CHECK_DEADLOCK FALSE

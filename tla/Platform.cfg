SPECIFICATION PlatformSpec
CONSTANTS
  Parts = {"chain", "subscription", "queue"}
  r1 = r1
  r2 = r2
  r3 = r3
  t1 = t1
  t2 = t2
  none = none
  Requests <- MCRequests
  Tenants <- MCTenants
  KnownActors <- MCKnownActors
  Inputs <- MixedInputs
  NoInput <- MCNone
  SerialTransactions = FALSE
  Gates = {g1}
  Passes = {p1}
  Grace = 1
  SuspendAfter = 2
  LockAfter = 3
  Edits = {"active", "past_due"}
  Period = 1
  LastDay = 9
  MaxOrders = 1
  Jobs = {j1}
  Workers = {w1, w2}
  Attempts = 2
  MaxStalls = 1
  MaxRetries = 1
INVARIANTS ChainInv SuccessIsAudited SubInv JobInv
PROPERTIES ImplementsLog EveryRequestEnds LapseIsNoticed JobsEnd
CHECK_DEADLOCK FALSE

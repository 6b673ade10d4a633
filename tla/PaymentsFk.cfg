SPECIFICATION PaymentSpec
CONSTANTS
  cron = cron
  none = none
  Keys = {k1}
  Invocations = {i1, i2}
  Cron <- MCCron
  NoKey <- MCNoKey
  Reported = {"confirming", "underpaid", "confirmed"}
  MaxInvocations = 3
  PseudoActorsHaveRows = FALSE
INVARIANT ConfirmedIsActivated
CHECK_DEADLOCK FALSE

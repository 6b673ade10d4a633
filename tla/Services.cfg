SPECIFICATION ServicesSpec
CONSTANTS
  Parts = {"search", "passkeys", "desktop", "webhooks", "keys"}
  p1 = p1
  p2 = p2
  i1 = i1
  i2 = i2
  d1 = d1
  d2 = d2
  Tasks = {p1, p2}
  Setups = {TRUE, FALSE}
  Attempts = 2
  MaxContents = 2
  MaxFaults = 1
  MaxReindexes = 1
  Instances = {i1, i2}
  Verifiers = {p1, p2}
  MaxChallenges = 2
  Ttl = 0
  LastMinute = 1
  MaxTroubles = 1
  Beats = {p1, p2}
  Grace = 2
  Terms = {0, 2}
  MaxKeys = 2
  LastDay = 2
  MaxDesktopFaults = 1
  Hooks = {h1, h2}
  Firings = {p1, p2}
  HookAttempts = 2
  Tries = 2
  LastMs = 1
  MaxDeliveries = 2
  MaxHookFaults = 1
  MaxHookEdits = 1
  Processes = {i1, i2}
  Documents = {d1, d2}
  Requests = {p1, p2}
  Users = {ann}
  Anyone = anyone
  Text = text
  NoBytes = none
  NoUrl = nourl
  Drivers = {"local", "s3"}
  MaxKek = 2
SYMMETRY Interchangeable
INVARIANTS SearchInv PasskeyInv DesktopInv WebhookInv
PROPERTY KeysAreSound
CHECK_DEADLOCK FALSE

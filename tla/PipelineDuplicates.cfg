\* Two overlapping requests, one runner in inline mode, no faults.
SPECIFICATION Spec
CONSTANTS
  n1 = n1
  n2 = n2
  n3 = n3
  s1 = s1
  s2 = s2
  NoObj = NoObj
  NoItem = NoItem
  Ids = {n1, n2, n3}
  Items <- PaidAndCapture
  Receivers = {r1, r2}
  Runners = {cron}
  Consumers = {}
  Admins = {}
  Slots = {}
  QueueMode = FALSE
  Punctual = TRUE
  Faults = {}
  MinAge = 1
  DelayAge = 1
  MaxAge = 1
  Retention = 9
  AgeCap = 2
  MaxErrors = 1
SYMMETRY Symmetric
INVARIANTS
  AcceptedStored
  AppliedOncePerItem

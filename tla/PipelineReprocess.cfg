\* An administrator reprocesses rows while the runner works.
SPECIFICATION Spec
CONSTANTS
  n1 = n1
  n2 = n2
  n3 = n3
  s1 = s1
  s2 = s2
  NoObj = NoObj
  NoItem = NoItem
  Ids = {n1}
  Items <- PaidAndAnonymous
  Receivers = {r1}
  Runners = {cron}
  Consumers = {}
  Admins = {admin}
  Slots = {}
  QueueMode = FALSE
  Punctual = FALSE
  Faults = {"unhandled"}
  MinAge = 1
  DelayAge = 2
  MaxAge = 2
  Retention = 2
  AgeCap = 3
  MaxErrors = 3
SYMMETRY Symmetric
INVARIANTS
  DoneExplained

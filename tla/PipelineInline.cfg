\* One runner in inline mode; crashes and unhandled order states.
SPECIFICATION Spec
CONSTANTS
  n1 = n1
  n2 = n2
  n3 = n3
  s1 = s1
  s2 = s2
  NoObj = NoObj
  NoItem = NoItem
  Ids = {n1, n2}
  Items <- PaidAndAnonymous
  Receivers = {r1}
  Runners = {cron}
  Consumers = {}
  Admins = {}
  Slots = {}
  QueueMode = FALSE
  Punctual = FALSE
  Faults = {"crash", "unhandled"}
  MinAge = 1
  DelayAge = 2
  MaxAge = 2
  Retention = 2
  AgeCap = 3
  MaxErrors = 2
SYMMETRY Symmetric
INVARIANTS
  TypeOK
  ErrorBudget
  AppliedOnce
PROPERTIES
  ImplementsStatus

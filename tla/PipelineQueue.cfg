\* Queue mode: one runner, two consumers; crashes that lose the message.
SPECIFICATION Spec
CONSTANTS
  n1 = n1
  n2 = n2
  n3 = n3
  s1 = s1
  s2 = s2
  NoObj = NoObj
  NoItem = NoItem
  Ids = {n1}
  Items <- PaidAndCapture
  Receivers = {r1}
  Runners = {cron}
  Consumers = {c1, c2}
  Admins = {}
  Slots = {s1, s2}
  QueueMode = TRUE
  Punctual = FALSE
  Faults = {"crash", "unhandled"}
  MinAge = 1
  DelayAge = 2
  MaxAge = 2
  Retention = 2
  AgeCap = 3
  MaxErrors = 2
SYMMETRY Symmetric
INVARIANTS
  AppliedOnce

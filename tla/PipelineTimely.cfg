\* The schedule of etc/crontab.xml kept: liveness and the deadline behind it.
SPECIFICATION FairSpec
CONSTANTS
  n1 = n1
  n2 = n2
  n3 = n3
  s1 = s1
  s2 = s2
  NoObj = NoObj
  NoItem = NoItem
  Ids = {n1, n2}
  Items <- PaidAndRefused
  Receivers = {r1}
  Runners = {cron}
  Consumers = {}
  Admins = {}
  Slots = {}
  QueueMode = FALSE
  Punctual = TRUE
  Faults = {}
  MinAge = 1
  DelayAge = 2
  MaxAge = 5
  Retention = 5
  AgeCap = 6
  MaxErrors = 2
INVARIANTS
  SettledInTime
PROPERTIES
  EventuallySettled

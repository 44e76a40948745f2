SPECIFICATION FairSpec
CONSTANTS
  card = card
  token1 = token1
  token2 = token2
  method = method
  wallet = wallet
  cashapp = cashapp
  paypal = paypal
  amazon = amazon
  pos = pos
  None = None
  Renderers <- AllRenderers
  Kind <- KindOf
  Pages <- Pairs
  Latecomers = {token1, method}
  MaxAttempts = 2
  MaxBuilds <- Builds
  MaxChallenges = 1
  PosOrder = TRUE
  Faults = {"lost", "status", "mount", "pending", "busy"}
INVARIANTS
  TypeOK
  SuccessEarned
  SingleAttempt
  PaidOnce
  DetailsOfOwnOrder
  CoverExplained
  ButtonRestored
PROPERTIES
  CoverLifts
CHECK_DEADLOCK FALSE

\* A full payment, a refused attempt, a cancellation and an accepted review, and every
\* step of a handler that throws but the transaction's: liveness.
SPECIFICATION FairSpec
CONSTANTS
  Notes <- Troubled
  Deliveries <- TroubledDeliveries
  Total = 2
  CanCancelOrders = TRUE
  CancelState = "canceled"
  AuthorizedState = "adyen_authorized"
  PaidState = "processing"
  ReviewStatus = TRUE
  Reprocessing = TRUE
  Faults = {"invoice", "cancel", "order"}
  MaxErrors = 2
  NoNote = NoNote
INVARIANTS
  InvoicedOnce
PROPERTIES
  CancelIsFinal
  PaidIsProcessed
\* All notifications are delivered and worked off in the end.
CHECK_DEADLOCK FALSE

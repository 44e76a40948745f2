\* An authorisation, then the refused attempt before it; manual capture.
SPECIFICATION Spec
CONSTANTS
  Notes <- FullAndRefused
  Deliveries <- FullAndRefusedDeliveries
  Total = 2
  CanCancelOrders = TRUE
  CancelState = "canceled"
  AuthorizedState = "adyen_authorized"
  PaidState = "processing"
  ReviewStatus = TRUE
  Reprocessing = FALSE
  Faults = {}
  MaxErrors = 2
  NoNote = NoNote
INVARIANTS
  PaidNotCancelled
\* All notifications are delivered and worked off in the end.
CHECK_DEADLOCK FALSE

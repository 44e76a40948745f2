\* Partial payments, one of them captured by hand; processes killed anywhere, with
\* reprocessing, and failing transactions; cancelled orders are put on hold.
SPECIFICATION Spec
CONSTANTS
  Notes <- Partial
  Deliveries <- PartialDeliveries
  Total = 2
  CanCancelOrders = TRUE
  CancelState = "holded"
  AuthorizedState = ""
  PaidState = "processing"
  ReviewStatus = TRUE
  Reprocessing = TRUE
  Faults = {"crash", "payment", "transaction"}
  MaxErrors = 2
  NoNote = NoNote
INVARIANTS
  PaidInFull
  PaidIsInvoiced
  PaidNotCancelled
PROPERTIES
  ImplementsLife
\* All notifications are delivered and worked off in the end.
CHECK_DEADLOCK FALSE

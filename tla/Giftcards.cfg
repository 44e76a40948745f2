\* Two cards, a total that changes, all faults.
SPECIFICATION FairSpec
CONSTANTS
  small = small
  large = large
  None = None
  Cards = {small, large}
  Balance <- BalanceOf
  Limit <- LimitOf
  Totals = {7, 10}
  Stored <- StoredRows
  MaxCalls = 6
  Faults = {"lost", "library", "icon"}
INVARIANTS
  TypeOK
  OfferBacked
  SummaryMatches
  CanGoOn
PROPERTIES
  LoaderReleased
\* The shopper rests after MaxCalls calls.
CHECK_DEADLOCK FALSE

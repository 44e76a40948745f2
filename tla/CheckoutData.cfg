CONSTANTS
  None = None
  mc = mc
  vi = vi
  Brands = {mc, vi}
  Streets <- MCStreets
  Currencies = {"EUR", "JPY", "BHD", "IQD", "MRO", "BYR"}
  Totals = {4125, 9000}
  Terms <- MCTerms
  HouseNumberLines = {0, 1, 2}
  StreetLines = {1, 2}

SPECIFICATION Spec

INVARIANTS
  StreetKept
  AmountRestored
  OffersAccepted



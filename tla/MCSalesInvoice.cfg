SPECIFICATION Spec
CONSTANTS
  d1 = d1
  d2 = d2
  d3 = d3
  d4 = d4
  c1 = c1
  c2 = c2
  None = None
  Docs = {d1, d2, d3, d4}
  Clients = {c1, c2}
  MaxQty = 2
  Overlap = FALSE
  CancelSettled = FALSE
SYMMETRY Symmetry
INVARIANTS TypeOK CreditsWithinSale AccountsAgree RefundedUnitsWerePaid
CHECK_DEADLOCK FALSE

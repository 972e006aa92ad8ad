SPECIFICATION MCSpec
CONSTANTS
  b1 = b1
  b2 = b2
  c1 = c1
  c2 = c2
  t1 = t1
  t2 = t2
  None = None
  Buyers = {b1, b2}
  Tabs = {t1, t2}
  Calls = {c1, c2}
  TabOf <- MCTabOf
  Stock = 2
  MaxQty = 2
  MaxPut = 2
  Overlap = FALSE
INVARIANTS TypeOK StockAccounted CartAccounted ShownIsCart
PROPERTY ChargedAsShown
CHECK_DEADLOCK FALSE

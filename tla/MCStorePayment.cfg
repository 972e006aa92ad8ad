SPECIFICATION PaymentSpec
CONSTANTS
  o1 = o1
  w1 = w1
  w2 = w2
  p1 = p1
  p2 = p2
  Nothing = Nothing
  Orders = {o1}
  Webhooks = {w1, w2}
  Polls = {p1, p2}
  EarlyFailures = FALSE
  MaxFaults = 2
INVARIANTS PaymentTypeOK OrderFollowsInvoice PageTellsTruth
PROPERTIES ImplementsLife PaymentShown
CHECK_DEADLOCK FALSE

SPECIFICATION RefundFairSpec
CONSTANTS
  Refunds = {r1, r2, r3}
  Paid = 2
  Amounts = {1, 2}
  MaxResolved = 1
INVARIANT RefundWithinCapture
INVARIANT BooksMatchBank
INVARIANT DoubtIsVisible
CHECK_DEADLOCK FALSE
PROPERTY RefundSettles

SPECIFICATION Spec
INVARIANTS OrdersWithinLimits ChargedOnce MoneyHasItsOrder
PROPERTIES UsesFollowOrders ShortOnlyIfCardSpent FirstRefundIsExact
CONSTANTS
  k1 = k1
  k2 = k2
  c1 = c1
  c2 = c2
  ann = ann
  Checkouts = {k1, k2}
  CustomerOf <- MCCustomerOf
  Price = 2
  Balances = {0, 3}
  Stocks = {1, 2}
  UsageLimits = {3}
  Sessions = {c1, c2}
  MaxPayments = 2
  MaxCharges = 2
  MaxRefunds = 1
  MaxCrashes = 1
SYMMETRY MCSymmetry
CHECK_DEADLOCK FALSE

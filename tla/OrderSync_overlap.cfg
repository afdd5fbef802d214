CONSTANTS
  NumStocks = 1
  NumLines = 1
  MaxQuantity = 9
  NumRunners = 2
  Ordered <- MCOrdered
  InitialQuantity <- MCInitialQuantity
  Counts = {2}
  MaxEdits = 1
  MaxCrashes = 1
  MaxFailures = 1
  MaxSales = 1
SPECIFICATION Spec
INVARIANTS OvershippedNeeds FollowsShopKeep
PROPERTIES MarkedNeverAgain
CHECK_DEADLOCK FALSE

CONSTANTS
  NumStocks = 1
  NumLines = 2
  MaxQuantity = 9
  NumRunners = 1
  Ordered <- MCOrdered
  InitialQuantity <- MCInitialQuantity
  Counts = {2}
  MaxEdits = 1
  MaxCrashes = 1
  MaxFailures = 1
  MaxSales = 0
SPECIFICATION FairSpec
PROPERTIES EventuallyMarked
CHECK_DEADLOCK FALSE

CONSTANTS
  NumStocks = 2
  NumLines = 2
  MaxQuantity = 9
  Sessions = {c1, c2}
  Ordered <- MCOrdered
  Tracked <- MCTracked
  InitialQuantity <- MCInitialSplit
  Requests <- MCRequests
  MaxFulfillments = 2
SPECIFICATION Spec
SYMMETRY MCSessionSymmetry
INVARIANTS BooksAgree StatusFollows Covered
PROPERTIES DriftNeedsOverlap
CHECK_DEADLOCK FALSE

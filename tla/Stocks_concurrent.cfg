CONSTANTS
  NumStocks = 2
  NumLines = 2
  MaxQuantity = 2
  Sessions = {c1, c2}
  Orders <- MCOrders
  Quantities = {1, 2}
  StaffQuantities = {}
  StaffDeletes = FALSE
  InitialStocks <- MCInitialStocks
SYMMETRY MCSessionSymmetry
SPECIFICATION Spec
INVARIANTS TypeOK
PROPERTIES OversellNeedsOverlap AllocatesExactly

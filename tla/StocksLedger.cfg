CONSTANTS
  NumStocks = 2
  NumLines = 2
  MaxQuantity = 3
  Sessions = {c1}
  Orders <- MCOrders
  Quantities = {1, 2}
  StaffQuantities = {0, 3}
  StaffDeletes = TRUE
  InitialStocks <- MCInitialStocks
SPECIFICATION Spec
INVARIANT Integrity
PROPERTIES NoOversell ShipsExactly KeepsLedger

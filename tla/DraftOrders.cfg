CONSTANTS
  NumStocks = 2
  NumLines = 4
  MaxQuantity = 9
  mug = mug
  pin = pin
  Sessions = {c1, c2}
  Variants <- MCVariants
  TrackedVariants <- MCVariants
  VariantOf <- MCVariantOf
  FirstLines <- MCFirstLines
  InitialQuantity <- MCInitialQuantity
  Quantities = {1, 2}
  MaxMutations = 4
SPECIFICATION Spec
SYMMETRY MCSymmetry
INVARIANTS SerialBooks NothingForTheGone ValidatedCanBeReserved
PROPERTIES PlacedStaysPlaced OverReservedNeeds
CHECK_DEADLOCK FALSE

SPECIFICATION FairSpec
CONSTANTS
  Skus = {"1", "2"}
  mug = mug
  pin = pin
  glass = glass
  pipes = pipes
  beads = beads
  None = None
  Slugs = {mug, pin}
  Categories = {glass, pipes, beads}
  Values = {"red"}
  Collections = {"new"}
  Images = {"front"}
  Listings <- MCListings
  PerPage = 1
  MaxIncidents = 2
PROPERTIES EventuallyMirrored
INVARIANTS TakenOverStays NothingToBuyNeedsStop TreeFollowsParents OutdatedNeedsRace

CONSTANTS
  orders = orders
  pricing = pricing
  mistyped = mistyped
  Runners = {r1, r2}
  Commands <- MCCommands
  Known <- MCKnown
  MaxJobs = 3
  MaxCrashes = 1
SPECIFICATION FairQueueSpec
INVARIANTS QueueTypeOK RunsOncePerProcess CompletedMeansRan AbandonedOnlyByCrash
PROPERTIES EventuallySettled
CHECK_DEADLOCK FALSE

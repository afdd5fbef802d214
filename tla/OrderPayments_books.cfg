SPECIFICATION Spec
INVARIANTS MoneyWithinReach
PROPERTIES DriftNeeds InactiveIsFrozen RepeatsChangeNothing
CONSTANTS
  s1 = s1
  Sessions = {s1}
  Total = 2
  MaxRequests = 2
  MaxFailures = 1
  MaxRepeats = 1
CHECK_DEADLOCK FALSE

CONSTANTS
  Loops <- LatencyLoops
  Interval <- LatencyInterval
  MaxCheck <- LatencyMaxCheck
  Stale <- LatencyStale
SPECIFICATION FairSpec
INVARIANTS NeverFalselyStale DrainBounded SessionOwned
PROPERTIES StopTerminates KeepsProbing SessionHeals

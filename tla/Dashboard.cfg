CONSTANTS
  Values = {v1, v2, v3}
  Unknown = Unknown
  Retention = 2
  Horizon = 6
  Limit = 2
SPECIFICATION SpecAll
INVARIANTS RunsDisjoint NeighboursDiffer ListContinuesStatus
PROPERTIES HistoryIsKept ImplementsTimeline

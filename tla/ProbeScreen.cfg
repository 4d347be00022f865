CONSTANTS
  Checks = {warm, vpn}
  MaxRuns = 3
SPECIFICATION Spec
INVARIANTS PaintIsCurrent OnlyLatestRuns
PROPERTIES ImplementsLatestWins RunsEnd
CHECK_DEADLOCK FALSE

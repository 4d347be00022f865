CONSTANTS
  Probeds = {1, 2}
  Trays = {3}
  Terminals = {0}
SPECIFICATION Spec
INVARIANTS OneEachUnlessCrossed RunningIsReachable StoppedMeansSilent QuitLeavesNoProbed
PROPERTIES QuitSucceeds
CHECK_DEADLOCK FALSE

CONSTANTS
  Probeds = {1, 2, 3}
  Trays = {}
  Terminals = {0, 5}
SPECIFICATION Spec
INVARIANTS AtMostOneEach
CHECK_DEADLOCK FALSE

CONSTANTS
  Urls = {u1, u2, u3, u4}
  Answers = {ok, junk}
  Valid = {ok}
SPECIFICATION Spec
INVARIANTS NoneLeftRunning
PROPERTIES ImplementsFirstAnswer Terminates
CHECK_DEADLOCK FALSE

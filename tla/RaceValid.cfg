CONSTANTS
  Urls = {u1, u2}
  Answers = {ok, junk}
  Valid = {ok}
SPECIFICATION Spec
INVARIANTS ValidResponseWins
CHECK_DEADLOCK FALSE

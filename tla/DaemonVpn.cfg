CONSTANTS
  Loops <- VpnLoops
  Interval <- VpnInterval
  MaxCheck <- VpnMaxCheck
  Stale <- NoStale
SPECIFICATION Spec
INVARIANTS PromptIpCheck VpnFollowed StoredFollows StoredFollowsPromptly

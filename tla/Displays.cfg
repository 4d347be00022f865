CONSTANTS
  Latencies <- SmallLatencies
  Ok <- SmallOk
  Slow <- SmallSlow
  Stale <- SmallStale
  TrayPoll = 2
  TuiPoll = 1
  Retention = 5
SPECIFICATION Spec
INVARIANTS StaleIsNoticed LatencyItemsAgree

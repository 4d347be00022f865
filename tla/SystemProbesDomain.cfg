CONSTANTS
  Tunnels <- TwoTunnels
  Providers = {acme}
  None = None
  Reports <- SmallReports
  NoReply = {"timeout"}
  Rcodes = {"servfail"}
SPECIFICATION ProbesSpec
INVARIANTS DomainScopedUnmeasured

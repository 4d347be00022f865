CONSTANTS
  Ips = {i1, i2}
  Countries = {c1, c2}
  None = None
  Junk = Junk
  Retention = 2
  Horizon = 5
SPECIFICATION SpecAll
INVARIANTS CountryBelongsToIp OneCountryPerIp NoRedundantLookup CacheAgrees CountryIsKept
PROPERTIES ImplementsStateTable
CHECK_DEADLOCK FALSE

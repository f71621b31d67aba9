SPECIFICATION FreshnessSpec
CONSTANTS
  CdnNodes = {n1, n2}
  JwtDuration = 6
  CacheMaxAge = 3
  MinimumValidity = 3
  MaxDelay = 1
INVARIANTS
  ExpiryIsAnnounced

SPECIFICATION CalendarSpec
CONSTANTS
  Fetchers = {f1, f2}
  DaysAhead = {1, 2}
  MaxGrants = 2
  MaxEntries = 1
SYMMETRY FetcherSymmetry
INVARIANTS CalendarTypeOK CacheCleared RevokedForCause OnlyConsentConnects CacheBounded
PROPERTY DisconnectSticks

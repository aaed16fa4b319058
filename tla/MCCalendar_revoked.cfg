SPECIFICATION CalendarSpec
CONSTANTS
  Fetchers = {f1}
  DaysAhead = {1}
  MaxGrants = 1
  MaxEntries = 1
INVARIANT NothingServed

SPECIFICATION Spec
CONSTANTS
  Keys = {k1, k2, k3}
  NoKey = NoKey
  Items = {i1, i2}
  NoItem = NoItem
  Requests = {r1, r2, r3}
  Concurrent = 2
  Ops = {"create", "update", "retry", "delete"}
  Photos = {"none", "plain", "generate"}
  Jobs = {j1}
  NoJob = NoJob
  Calls = {c1, c2}
  QuietUpdates = FALSE
  Faults = {"wardrobeCrash", "storage", "publish"}
  MaxFaults = 1
INVARIANTS RowsConsistent PrefixesKept NoSharedObject
PROPERTIES ReadyLeftAlone
CHECK_DEADLOCK FALSE

SPECIFICATION Spec
CONSTANTS
  Keys = {k1, k2, k3}
  NoKey = NoKey
  Items = {i1}
  NoItem = NoItem
  Requests = {r1, r2}
  Concurrent = 1
  Ops = {"create", "update"}
  Photos = {"none", "generate"}
  Jobs = {j1, j2}
  NoJob = NoJob
  Calls = {c1, c2}
  QuietUpdates = FALSE
  Faults = {}
  MaxFaults = 1
INVARIANT OriginalRetained
CHECK_DEADLOCK FALSE

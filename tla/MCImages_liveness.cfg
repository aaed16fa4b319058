SPECIFICATION FairSpec
CONSTANTS
  Keys = {k1, k2, k3}
  NoKey = NoKey
  Items = {i1}
  NoItem = NoItem
  Requests = {r1, r2}
  Concurrent = 1
  Ops = {"create", "update", "retry", "delete"}
  Photos = {"generate"}
  Jobs = {j1, j2}
  NoJob = NoJob
  Calls = {c1, c2, c3, c4}
  QuietUpdates = FALSE
  Faults = {"publish", "timeout", "consumerCrash"}
  MaxFaults = 2
PROPERTIES PendingResolves JobsDrain
CHECK_DEADLOCK FALSE

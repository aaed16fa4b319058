SPECIFICATION Spec
CONSTANTS
  Keys = {k1, k2, k3}
  NoKey = NoKey
  Items = {i1}
  NoItem = NoItem
  Requests = {r1, r2, r3}
  Concurrent = 2
  Ops = {"create", "retry"}
  Photos = {"generate"}
  Jobs = {j1, j2}
  NoJob = NoJob
  Calls = {c1, c2}
  QuietUpdates = FALSE
  Faults = {}
  MaxFaults = 1
PROPERTY NoSecondJob
CHECK_DEADLOCK FALSE

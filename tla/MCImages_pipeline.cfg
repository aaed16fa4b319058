SPECIFICATION Spec
CONSTANTS
  Keys = {k1, k2, k3, k4}
  NoKey = NoKey
  Items = {i1}
  NoItem = NoItem
  Requests = {r1, r2, r3}
  Concurrent = 1
  Ops = {"create", "update", "retry", "delete"}
  Photos = {"none", "plain", "generate"}
  Jobs = {j1, j2}
  NoJob = NoJob
  Calls = {c1, c2}
  QuietUpdates = TRUE
  Faults = {"storage", "publish", "timeout", "redeliver", "consumerCrash", "expiry"}
  MaxFaults = 1
INVARIANTS TypeOK OriginalRetained ImageStored OriginalsAccounted
PROPERTIES ImagesAccounted LifecycleSpec
CHECK_DEADLOCK FALSE

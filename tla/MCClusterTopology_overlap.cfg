CONSTANTS
  vm1 = vm1  vm2 = vm2  explorer = explorer  grafana = grafana  None = None
  Node = {vm1, vm2}
  Request = {explorer, grafana}
  CACHE_TTL = 2
  MaxLatency = 2
  MaxClock = 5
  MaxHeartbeat = 1
SPECIFICATION Spec
SYMMETRY Symmetry
INVARIANTS AnswersAreRecent StableLeaderIsReported
CHECK_DEADLOCK FALSE

CONSTANTS
  vm1 = vm1  vm2 = vm2  explorer = explorer  grafana = grafana  None = None
  Node = {vm1, vm2}
  Request = {explorer, grafana}
  CACHE_TTL = 2
  MaxLatency = 1
  MaxClock = 2
  MaxHeartbeat = 2
SPECIFICATION Spec
INVARIANTS SnapshotIsOneInstant
CHECK_DEADLOCK FALSE

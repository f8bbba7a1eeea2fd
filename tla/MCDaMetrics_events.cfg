CONSTANTS
  b1 = b1  b2 = b2  b3 = b3  reorg = reorg
  None = None
  Blob = {b1, b2, b3}
  Reason = {reorg}
  ReceiptOf <- Receipts
  CHANNEL_CAP = 2
  INFLIGHT_CAP = 2
  INFLIGHT_TTL = 2
  SWEEP_INTERVAL = 2
  DA_BLOB_TIA_ESTIMATE_NANO = 3
  MaxSent = 4
SPECIFICATION FairSpec
INVARIANTS UndercountIsReported InFlightIsBounded EntriesExpire
PROPERTIES LatencyIsReal TaskDrains
CHECK_DEADLOCK FALSE

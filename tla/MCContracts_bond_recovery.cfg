SPECIFICATION Spec
CONSTANTS
  poster = poster
  arbiter = arbiter
  w1 = w1
  w2 = w2
  Address = {poster, arbiter, w1, w2}
  Posters = {poster}
  Workers = {w1, w2}
  Arbiters = {arbiter}
  ContractModule = ContractModule
  None = None
  Criteria = {doc}
  doc = doc
  AttestationId = {att}
  att = att
  Pools = {3, 4}
  Bonds = {1, 2}
  Expiries = {3, 4}
  Windows = {0, 1}
  FeeBps = {0, 5000, 9000}
  AMOUNT_MAX = 1000000
  InitialBalance = 3
  GenesisDaHeight = 1
  MaxNonce = 0
  MaxHeight = 5
INVARIANT DeliveredBondIsRecovered
CHECK_DEADLOCK FALSE

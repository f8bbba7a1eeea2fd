SPECIFICATION FairSpec
CONSTANTS
  poster = poster
  arbiter = arbiter
  w1 = w1
  w2 = w2
  Address = {w1, w2}
  Posters = {w1, w2}
  Workers = {w1, w2}
  Arbiters = {w1, w2}
  ContractModule = ContractModule
  None = None
  Criteria = {doc}
  doc = doc
  AttestationId = {att}
  att = att
  Pools = {3}
  Bonds = {1}
  Expiries = {3, 4}
  Windows = {0, 1}
  FeeBps = {5000, 9000}
  AMOUNT_MAX = 1000000
  InitialBalance = 4
  GenesisDaHeight = 1
  MaxNonce = 0
  MaxHeight = 5
INVARIANTS
  LockedFundsBacked
  DeliveryIsBonded
  NeverStuck
PROPERTIES
  BondLeavesOnlyBySettlement
  AcceptedWorkerIsPaid
  DeliveryIsDecided
  MoneyMovesWithinOneContract
  ImplementsEscrow
CHECK_DEADLOCK FALSE

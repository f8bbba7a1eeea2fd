SPECIFICATION FairSpec
CONSTANTS
  poster = poster
  operator = operator
  alice = alice
  bob = bob
  Address = {poster, operator, alice, bob}
  BountyModule = BountyModule
  None = None
  board = board
  other_board = other_board
  h1 = h1
  h2 = h2
  set1 = set1
  SchemaId = {board}
  PayloadHash = {h1}
  AttestorSetId = {set1}
  SchemaOwner <- OperatorOwns
  Posters = {poster}
  Submitters = {alice}
  Disputers = {bob}
  Pools = {2}
  Payouts = {1}
  Acceptances <- AcceptAny
  Expiries = {4}
  Windows = {0, 1}
  MAX_CLAIMS_PER_CALL = 2
  MAX_OPEN_BOUNTIES_PER_SCHEMA = 1
  InitialBalance = 3
  GenesisDaHeight = 1
  MaxNonce = 0
  MaxHeight = 6
PROPERTY UpheldDisputesClawBack
CHECK_DEADLOCK FALSE

SPECIFICATION Spec
CONSTANTS
  poster = poster
  operator = operator
  alice = alice
  bob = bob
  Address = {poster, operator, alice}
  BountyModule = BountyModule
  None = None
  board = board
  other_board = other_board
  h1 = h1
  h2 = h2
  set1 = set1
  SchemaId = {board, other_board}
  PayloadHash = {h1, h2}
  AttestorSetId = {set1}
  SchemaOwner <- OperatorOwns
  Posters = {poster}
  Submitters = {alice}
  Disputers = {poster}
  Pools = {2}
  Payouts = {1}
  Acceptances <- AcceptEachRule
  Expiries = {3}
  Windows = {0}
  MAX_CLAIMS_PER_CALL = 1
  MAX_OPEN_BOUNTIES_PER_SCHEMA = 1
  InitialBalance = 5
  GenesisDaHeight = 1
  MaxNonce = 1
  MaxHeight = 3
INVARIANTS
  ClaimsAreAcceptable
  IndexListsUnsettled
PROPERTIES
  MoneyMovesWithinOneBounty
  ImplementsEscrow
CHECK_DEADLOCK FALSE

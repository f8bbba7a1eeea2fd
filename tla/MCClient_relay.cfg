CONSTANTS
  alice = alice  bob = bob  fund = fund  k1 = k1  k2 = k2  audits = audits  h1 = h1  h2 = h2
  None = None
  Address = {alice, bob, fund}
  PubKey = {k1, k2}
  Signers = {k1, k2}
  SchemaName = {audits}
  PayloadHash = {h1}
  treasury = fund
  attestation_fee = 4
  schema_registration_fee = 3
  attestor_set_fee = 2
  max_builder_bps = 3333
  GenesisSets <- MCGenesisSets
  GenesisSchemas <- MCGenesisSchemas
  Registrants = {alice}
  Submitters = {alice, bob}
  FeeBps = {3333, 3334}
  SampleFees = {0, 1, 3, 9999, 10000, 10001, 20003}
  MAX_ATTESTOR_SET_MEMBERS = 1
  MAX_ATTESTATION_SIGNATURES = 2
  InitialBalance = 7
  Timestamps = {0, 7}
  MaxInFlight = 1
SPECIFICATION ClientSpec
INVARIANTS QuorumSigned FeesAreBooked SplitIsExact
PROPERTIES FlatFee BuiltStaysGood
CHECK_DEADLOCK FALSE

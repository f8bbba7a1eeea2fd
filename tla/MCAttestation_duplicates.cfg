CONSTANTS
  alice = alice  bob = bob  fund = fund  k1 = k1  k2 = k2  audits = audits  h1 = h1  h2 = h2
  None = None
  Address = {alice, bob, fund}
  PubKey = {k1, k2}
  Signers = {k1, k2}
  SchemaName = {audits}
  PayloadHash = {h1}
  treasury = fund
  attestation_fee = 3
  schema_registration_fee = 3
  attestor_set_fee = 2
  max_builder_bps = 5000
  GenesisSets <- MCGenesisSets
  GenesisSchemas <- MCGenesisSchemas
  Registrants = {alice}
  Submitters = {alice}
  FeeBps = {0}
  SampleFees = {}
  MAX_ATTESTOR_SET_MEMBERS = 2
  MAX_ATTESTATION_SIGNATURES = 2
  InitialBalance = 8
SPECIFICATION Spec
INVARIANT QuorumIsReachable
CHECK_DEADLOCK FALSE

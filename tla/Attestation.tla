----------------------------- MODULE Attestation ----------------------------
(***************************************************************************)
(* The attestation module: attestor sets, schemas bound to them, and       *)
(* write-once attestations carrying a quorum of signatures.  As in the     *)
(* other ledger modules an action is one successful call of one handler.   *)
(* The timestamp of a record is the constant 0 and is left out, and so are *)
(* payload_shape_hash, which is stored and never read, events and metrics. *)
(***************************************************************************)
EXTENDS Bank, FiniteSets, Functions, Sequences

CONSTANTS
  Address,           \* user addresses, the treasury among them
  None,              \* an absent entry of a StateMap, or an absent address
  PubKey,            \* keys of attestors
  Signers,           \* those of them somebody can sign with
  SchemaName,        \* stands for a (name, version) pair
  PayloadHash,
  treasury, attestation_fee, schema_registration_fee, attestor_set_fee,
  max_builder_bps,   \* genesis parameters, never written again
  GenesisSets, GenesisSchemas,       \* what the genesis file registers
  Registrants, Submitters, FeeBps,   \* senders, and the routings they ask for
  SampleFees,        \* amounts SplitIsExact is evaluated on
  MAX_ATTESTOR_SET_MEMBERS, MAX_ATTESTATION_SIGNATURES,    \* 64 in the code
  InitialBalance     \* AVOW each user holds at genesis

Amount == Nat
U16 == 0 .. 65535

\* Ids are hashes that are injective on what they hash: an attestor set's is its
\* threshold and the multiset of its members, kept here as a count per key.
AttestorSetId == [members: [PubKey -> Nat], threshold: Nat]
SchemaId == Address \X SchemaName
AttestationId == SchemaId \X PayloadHash

Schema == [attestor_set: AttestorSetId, fee_routing_bps: U16,
           fee_routing_addr: Address \cup {None}]
Attestation == [submitter: Address, signatures: Seq(PubKey)]

\* What an attestor signs: the payload of this submitter and no other.
SignedPayload == SchemaId \X PayloadHash \X Address

ASSUME SendersAssumption ==
  /\ Registrants \subseteq Address /\ Submitters \subseteq Address
  /\ Signers \subseteq PubKey /\ IsFiniteSet(PubKey)
\* An address is 28 bytes: there are finitely many.
ASSUME FinitenessAssumption == IsFiniteSet(Address)
ASSUME ParametersAssumption ==
  /\ treasury \in Address /\ max_builder_bps \in U16 /\ FeeBps \subseteq U16
  /\ attestation_fee \in Amount /\ schema_registration_fee \in Amount
  /\ attestor_set_fee \in Amount /\ InitialBalance \in Amount
  /\ SampleFees \subseteq Amount
  /\ MAX_ATTESTOR_SET_MEMBERS \in Nat /\ MAX_ATTESTATION_SIGNATURES \in Nat
ASSUME NoneAssumption == None \notin Schema /\ None \notin Attestation /\ None \notin Address

VARIABLES
  attestor_sets,    \* ids stored; an id determines the set stored under it
  schemas,          \* SchemaId -> Schema
  attestations,     \* AttestationId -> Attestation
  total_treasury_collected,
  builder_fees_collected,   \* Address -> Amount
  balance,          \* sov-bank
  signed            \* <<key, payload>> pairs the attestors have signed off chain

registry == <<attestor_sets, schemas, attestations>>
fees == <<total_treasury_collected, builder_fees_collected, balance>>
vars == <<registry, fees, signed>>

-----------------------------------------------------------------------------
(* Rules the handlers and the genesis seeding share                        *)

SizeOf(id) == SumFunction(id.members)

\* Members in any order, repeated members included, make the same id.
DeriveSetId(members, threshold) ==
  [members |-> [p \in PubKey |-> Cardinality({i \in DOMAIN members : members[i] = p})],
   threshold |-> threshold]

RoutingIsSound(bps, addr) ==
  /\ bps <= max_builder_bps
  /\ bps > 0 <=> addr # None

\* seed_from_config fails, and the chain does not start, on anything else.
ASSUME GenesisAssumption ==
  /\ GenesisSets \subseteq AttestorSetId /\ IsFiniteSet(GenesisSets)
  /\ \A id \in GenesisSets : id.threshold \in 1 .. SizeOf(id)
  /\ GenesisSchemas \in [SchemaId -> Schema \cup {None}]
  /\ \A s \in SchemaId : GenesisSchemas[s] # None =>
       /\ GenesisSchemas[s].attestor_set \in GenesisSets
       /\ RoutingIsSound(GenesisSchemas[s].fee_routing_bps, GenesisSchemas[s].fee_routing_addr)

Init ==
  /\ attestor_sets = GenesisSets
  /\ schemas = GenesisSchemas
  /\ attestations = [a \in AttestationId |-> None]
  /\ total_treasury_collected = 0
  /\ builder_fees_collected = [a \in Address |-> 0]
  /\ balance = [a \in Address |-> InitialBalance]
  /\ signed = {}

\* Written to stay clear of overflow; SplitIsExact says what it computes.
MutRoundsUp(total, bps) ==
  (total \div 10000) * bps + ((total % 10000) * bps + 9999) \div 10000
BuilderShare(total, bps) ==
  (total \div 10000) * bps + ((total % 10000) * bps) \div 10000
MutTreasuryTakesAll(total, bps) == total
TreasuryShare(total, bps) ==
  IF total >= BuilderShare(total, bps) THEN total - BuilderShare(total, bps) ELSE 0

MutAnySubmitter(signatures, set, payload) ==
  /\ IsInjective(signatures)
  /\ \A i \in DOMAIN signatures :
       /\ set.members[signatures[i]] > 0
       /\ \E a \in Address : <<signatures[i], <<payload[1], payload[2], a>>>> \in signed
  /\ Len(signatures) >= set.threshold
\* A submission carries the keys it claims signatures of: each only once, each a
\* member, each with a signature that verifies, and a threshold of them.
ValidSignatures(signatures, set, payload) ==
  /\ IsInjective(signatures)
  /\ \A i \in DOMAIN signatures :
       /\ set.members[signatures[i]] > 0
       /\ <<signatures[i], payload>> \in signed
  /\ Len(signatures) >= set.threshold

ChargeToTreasury(sender, amount) ==
  /\ CanPay(balance, sender, amount)
  /\ balance' = Transfer(balance, sender, treasury, amount)
  /\ total_treasury_collected' = total_treasury_collected + amount
  /\ UNCHANGED builder_fees_collected

\* The treasury is paid first, then the builder the schema names, if any.
MutBuilderUncounted(sender, builder, toTreasury, toBuilder) ==
  LET afterTreasury == Transfer(balance, sender, treasury, toTreasury)
  IN  /\ CanPay(balance, sender, toTreasury) /\ CanPay(afterTreasury, sender, toBuilder)
      /\ balance' = Transfer(afterTreasury, sender, builder, toBuilder)
      /\ total_treasury_collected' = total_treasury_collected + toTreasury
      /\ UNCHANGED builder_fees_collected
ChargeBoth(sender, builder, toTreasury, toBuilder) ==
  LET afterTreasury == Transfer(balance, sender, treasury, toTreasury)
  IN  /\ CanPay(balance, sender, toTreasury) /\ CanPay(afterTreasury, sender, toBuilder)
      /\ balance' = Transfer(afterTreasury, sender, builder, toBuilder)
      /\ total_treasury_collected' = total_treasury_collected + toTreasury
      /\ builder_fees_collected' = [builder_fees_collected EXCEPT ![builder] = @ + toBuilder]

-----------------------------------------------------------------------------
(* The three call messages                                                 *)

RegisterAttestorSet(sender, members, threshold) ==
  LET id == DeriveSetId(members, threshold)
  IN  /\ threshold \in 1 .. Len(members)
      /\ id \notin attestor_sets
      /\ ChargeToTreasury(sender, attestor_set_fee)
      /\ attestor_sets' = attestor_sets \cup {id}
      /\ UNCHANGED <<schemas, attestations, signed>>

MutOverwritesSchema(sender, name, attestor_set, bps, addr) ==
  LET s == <<sender, name>>
  IN  /\ RoutingIsSound(bps, addr)
      /\ attestor_set \in attestor_sets
      /\ ChargeToTreasury(sender, schema_registration_fee)
      /\ schemas' = [schemas EXCEPT ![s] =
           [attestor_set |-> attestor_set, fee_routing_bps |-> bps, fee_routing_addr |-> addr]]
      /\ UNCHANGED <<attestor_sets, attestations, signed>>
RegisterSchema(sender, name, attestor_set, bps, addr) ==
  LET s == <<sender, name>>
  IN  /\ RoutingIsSound(bps, addr)
      /\ attestor_set \in attestor_sets
      /\ schemas[s] = None
      /\ ChargeToTreasury(sender, schema_registration_fee)
      /\ schemas' = [schemas EXCEPT ![s] =
           [attestor_set |-> attestor_set, fee_routing_bps |-> bps, fee_routing_addr |-> addr]]
      /\ UNCHANGED <<attestor_sets, attestations, signed>>

SubmitAttestation(sender, s, hash, signatures) ==
  LET schema == schemas[s]
      toBuilder == BuilderShare(attestation_fee, schema.fee_routing_bps)
      toTreasury == TreasuryShare(attestation_fee, schema.fee_routing_bps)
  IN  /\ schemas[s] # None
      /\ attestations[<<s, hash>>] = None
      /\ schema.attestor_set \in attestor_sets
      /\ ValidSignatures(signatures, schema.attestor_set, <<s, hash, sender>>)
      /\ \/ /\ schema.fee_routing_addr = None
            /\ ChargeToTreasury(sender, toTreasury)
         \/ /\ schema.fee_routing_addr # None
            /\ ChargeBoth(sender, schema.fee_routing_addr, toTreasury, toBuilder)
      /\ attestations' = [attestations EXCEPT ![<<s, hash>>] =
           [submitter |-> sender, signatures |-> signatures]]
      /\ UNCHANGED <<attestor_sets, schemas, signed>>

\* An attestor signs a payload off chain, for the submitter who asked; a
\* signature, once given, can be used by anyone who sees it.  Nobody signs for a
\* schema before it exists: the signature is of no use until then, and can be
\* given then.
Sign(key, payload) ==
  /\ schemas[payload[1]] # None
  /\ <<key, payload>> \notin signed
  /\ signed' = signed \cup {<<key, payload>>}
  /\ UNCHANGED <<registry, fees>>

ListsUpTo(n) == UNION {[1 .. k -> PubKey] : k \in 0 .. n}

Next ==
  \/ \E sender \in Registrants, members \in ListsUpTo(MAX_ATTESTOR_SET_MEMBERS),
        threshold \in 0 .. MAX_ATTESTOR_SET_MEMBERS :
       RegisterAttestorSet(sender, members, threshold)
  \/ \E sender \in Registrants, name \in SchemaName, set \in attestor_sets, bps \in FeeBps,
        addr \in Address \cup {None} :
       RegisterSchema(sender, name, set, bps, addr)
  \/ \E sender \in Submitters, s \in SchemaId, hash \in PayloadHash,
        signatures \in ListsUpTo(MAX_ATTESTATION_SIGNATURES) :
       SubmitAttestation(sender, s, hash, signatures)
  \/ \E key \in Signers, s \in SchemaId, hash \in PayloadHash, submitter \in Submitters :
       Sign(key, <<s, hash, submitter>>)

Spec == Init /\ [][Next]_vars

-----------------------------------------------------------------------------
(* Properties                                                              *)

Stored(a) == attestations[a] # None
Fields(a) == schemas[a[1]]
Quorum(a) == Fields(a).attestor_set

TypeOK ==
  /\ attestor_sets \subseteq AttestorSetId
  /\ schemas \in [SchemaId -> Schema \cup {None}]
  /\ attestations \in [AttestationId -> Attestation \cup {None}]
  /\ total_treasury_collected \in Amount
  /\ builder_fees_collected \in [Address -> Amount]
  /\ balance \in [Address -> Amount]
  /\ signed \subseteq Signers \X SignedPayload

\* Whatever is referred to exists: a schema's attestor set, an attestation's
\* schema; and a schema's fee share has a taker exactly when there is one.
ReferencesResolve ==
  /\ \A s \in SchemaId : schemas[s] # None =>
       /\ schemas[s].attestor_set \in attestor_sets
       /\ schemas[s].fee_routing_bps <= max_builder_bps
       /\ schemas[s].fee_routing_bps > 0 <=> schemas[s].fee_routing_addr # None
  /\ \A a \in AttestationId : Stored(a) => schemas[a[1]] # None

\* Behind every stored attestation there are at least threshold different members
\* of its schema's set who signed this payload for this very submitter.
QuorumSigned ==
  \A a \in AttestationId : Stored(a) =>
    LET signers == Range(attestations[a].signatures)
    IN  /\ Cardinality(signers) >= Quorum(a).threshold
        /\ \A p \in signers :
             /\ Quorum(a).members[p] > 0
             /\ <<p, <<a[1], a[2], attestations[a].submitter>>>> \in signed

IndInv == TypeOK /\ ReferencesResolve /\ QuorumSigned

\* The two running counters together hold exactly the fees of everything that
\* was registered or attested since genesis: no fee is lost, booked twice or
\* booked to nobody, however it is split.
Registered == Cardinality(attestor_sets) - Cardinality(GenesisSets)
SchemasSince == Cardinality({s \in SchemaId : schemas[s] # GenesisSchemas[s]})
Attested == Cardinality({a \in AttestationId : Stored(a)})
FeesAreBooked ==
  total_treasury_collected + SumFunction(builder_fees_collected) =
    attestor_set_fee * Registered + schema_registration_fee * SchemasSince
      + attestation_fee * Attested

\* What is stored stays as it is: ids are write-once, so an attestation can
\* neither be replaced nor lose the schema and the quorum it was accepted under.
StoredStep ==
  /\ attestor_sets \subseteq attestor_sets'
  /\ \A s \in SchemaId : schemas[s] # None => schemas'[s] = schemas[s]
  /\ \A a \in AttestationId : Stored(a) => attestations'[a] = attestations[a]
StoredForEver == [][StoredStep]_vars

\* An attestation costs its submitter the flat fee, to the last nano, whatever
\* share of it the schema routes, unless he is one of those who receive it.
FlatFeeStep ==
  \A a \in AttestationId : ~Stored(a) /\ Stored(a)' =>
    LET submitter == attestations'[a].submitter
    IN  submitter \notin {treasury, Fields(a).fee_routing_addr} =>
          balance'[submitter] = balance[submitter] - attestation_fee
FlatFee == [][FlatFeeStep]_vars

\* Whatever fee would be split under a schema's routing, the overflow-safe form
\* computes the plain floor of total * bps / 10000, and the two shares add up to
\* the fee as long as the routing is at most the whole.
SplitIsExact ==
  \A s \in SchemaId, total \in SampleFees : schemas[s] # None =>
    LET bps == schemas[s].fee_routing_bps
    IN  /\ BuilderShare(total, bps) = (total * bps) \div 10000
        /\ bps <= 10000 => BuilderShare(total, bps) + TreasuryShare(total, bps) = total

-----------------------------------------------------------------------------
(* What the other parts of the system rely on                              *)

\* The ceremony: sets and schemas are stored once, a schema under a stored set.
Known == {s \in SchemaId : schemas[s] # None}
Bound == {<<s, schemas[s].attestor_set>> : s \in Known}
Chain == INSTANCE Registry WITH SetId <- AttestorSetId, sets <- attestor_sets, bound <- Bound
ImplementsRegistry == Chain!Spec

\* The marketplaces: an attestation is stored once, under a registered schema.
Submitted == {<<a, attestations[a].submitter>> : a \in {x \in AttestationId : Stored(x)}}
Ledger == INSTANCE Records WITH schemas <- Known, records <- Submitted
ImplementsRecords == Ledger!Spec

-----------------------------------------------------------------------------
(* What the comments say and the code does not do                          *)

\* AttestorSet::derive_id: the state transition rejects sets with duplicates, so
\* the threshold of a set never exceeds the number of its different members.
QuorumIsReachable ==
  \A id \in attestor_sets : Cardinality({p \in PubKey : id.members[p] > 0}) >= id.threshold

=============================================================================

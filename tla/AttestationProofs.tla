-------------------------- MODULE AttestationProofs -------------------------
(***************************************************************************)
(* What holds of the attestation module, alone and with the relayers who   *)
(* submit to it, for every set of attestors, schemas, fees and timestamps, *)
(* and for every bound.                                                    *)
(***************************************************************************)
EXTENDS Client, Sums

-----------------------------------------------------------------------------
(* The split of a fee                                                      *)

LEMMA ProductIsNat == \A m \in Nat, n \in Nat : m * n \in Nat
OBVIOUS

LEMMA DivisionTheorem ==
  \A n \in Nat : /\ n \div 10000 \in Nat /\ n % 10000 \in Nat
                  /\ n = 10000 * (n \div 10000) + (n % 10000)
OBVIOUS

LEMMA FloorIsNat == \A n \in Nat : n \div 10000 \in Nat
OBVIOUS

LEMMA FloorIsMonotone ==
  \A m \in Nat, n \in Nat : n <= 10000 * m => n \div 10000 <= m
OBVIOUS

LEMMA DivisionOfSum ==
  \A m \in Nat, n \in Nat : (10000 * m + n) \div 10000 = m + n \div 10000
OBVIOUS

LEMMA DistributeBps ==
  ASSUME NEW q \in Nat, NEW r \in Nat, NEW bps \in Nat
  PROVE  (10000 * q + r) * bps = 10000 * (q * bps) + r * bps
OBVIOUS

LEMMA ProductIsMonotone ==
  \A m \in Nat, bps \in Nat : bps <= 10000 => m * bps <= 10000 * m
OBVIOUS

LEMMA ShareType ==
  ASSUME NEW total \in Nat, NEW bps \in Nat
  PROVE  BuilderShare(total, bps) \in Nat /\ TreasuryShare(total, bps) \in Nat
<1> DEFINE q == total \div 10000
           r == total % 10000
<1>1. q \in Nat /\ r \in Nat
  BY DivisionTheorem
<1>2. q * bps \in Nat /\ r * bps \in Nat
  BY <1>1, ProductIsNat
<1>3. (r * bps) \div 10000 \in Nat
  BY <1>2, FloorIsNat
<1>4. BuilderShare(total, bps) \in Nat
  BY <1>2, <1>3 DEF BuilderShare
<1>5. QED
  BY <1>4 DEF TreasuryShare

\* The form that stays clear of overflow is the plain floor.
LEMMA ShareIsFloor ==
  ASSUME NEW total \in Nat, NEW bps \in Nat
  PROVE  BuilderShare(total, bps) = (total * bps) \div 10000
<1> DEFINE q == total \div 10000
           r == total % 10000
<1>1. q \in Nat /\ r \in Nat /\ total = 10000 * q + r
  BY DivisionTheorem
<1>2. total * bps = 10000 * (q * bps) + r * bps
  BY <1>1, DistributeBps
<1>3. q * bps \in Nat /\ r * bps \in Nat
  BY <1>1, ProductIsNat
<1>4. (10000 * (q * bps) + r * bps) \div 10000 = q * bps + (r * bps) \div 10000
  BY <1>3, DivisionOfSum
<1>5. QED
  BY <1>2, <1>4 DEF BuilderShare

\* A share of at most the whole leaves a rest, and the two make up the whole.
LEMMA SharesAddUp ==
  ASSUME NEW total \in Nat, NEW bps \in Nat, bps <= 10000
  PROVE  BuilderShare(total, bps) + TreasuryShare(total, bps) = total
<1> DEFINE product == total * bps
<1>1. product \in Nat /\ product <= 10000 * total
  <2>1. product \in Nat
    BY ProductIsNat
  <2>2. product <= 10000 * total
    BY ProductIsMonotone
  <2>3. QED
    BY <2>1, <2>2
<1>2. product \div 10000 <= total
  <2> HIDE DEF product
  <2>1. QED
    BY <1>1, FloorIsMonotone
<1>3. BuilderShare(total, bps) \in Nat /\ BuilderShare(total, bps) <= total
  BY <1>2, ShareIsFloor, ShareType
<1>4. QED
  BY <1>3 DEF TreasuryShare

-----------------------------------------------------------------------------
(* Lists of keys, and charges                                              *)

LEMMA ListLength ==
  ASSUME NEW m \in Nat, NEW list \in ListsUpTo(m)
  PROVE  \E k \in Nat : list \in [1 .. k -> PubKey] /\ Len(list) = k /\ list \in Seq(PubKey)
BY DEF ListsUpTo

LEMMA SetIdType ==
  ASSUME NEW m \in Nat, NEW list \in ListsUpTo(m), NEW threshold \in Nat
  PROVE  DeriveSetId(list, threshold) \in AttestorSetId
<1>1. PICK k \in Nat : list \in [1 .. k -> PubKey]
  BY ListLength
<1>2. IsFiniteSet(1 .. k)
  BY FS_Interval
<1>3. ASSUME NEW p \in PubKey
      PROVE  Cardinality({i \in DOMAIN list : list[i] = p}) \in Nat
  <2>1. {i \in DOMAIN list : list[i] = p} \in SUBSET (1 .. k)
    BY <1>1
  <2>2. QED
    BY <1>2, <2>1, FS_Subset, FS_CardinalityType
<1>4. QED
  BY <1>3 DEF DeriveSetId, AttestorSetId

\* A list of keys without repetition names as many signers as it is long.
LEMMA DistinctSigners ==
  ASSUME NEW k \in Nat, NEW list \in [1 .. k -> PubKey], IsInjective(list)
  PROVE  Cardinality(Range(list)) = k
<1>1. list \in Bijection(1 .. k, Range(list))
  BY DEF Bijection, Injection, Surjection, Range
<1>2. IsFiniteSet(1 .. k) /\ Cardinality(1 .. k) = k
  BY FS_Interval
<1>3. QED
  BY <1>1, <1>2, FS_Bijection DEF ExistsBijection

\* A transfer that the sender can fund leaves every balance a natural number.
LEMMA TransferType ==
  ASSUME NEW bal \in [Address -> Nat], NEW from \in Address, NEW to \in Address,
         NEW amount \in Nat, CanPay(bal, from, amount)
  PROVE  Transfer(bal, from, to, amount) \in [Address -> Nat]
BY DEF Transfer, CanPay

FeesTypeOK ==
  /\ total_treasury_collected \in Amount
  /\ builder_fees_collected \in [Address -> Amount]
  /\ balance \in [Address -> Amount]

LEMMA ChargeType ==
  ASSUME TypeOK, NEW sender \in Address, NEW amount \in Nat,
         ChargeToTreasury(sender, amount)
  PROVE  FeesTypeOK'
BY ParametersAssumption, TransferType DEF ChargeToTreasury, TypeOK, FeesTypeOK, Amount

LEMMA ChargeBothType ==
  ASSUME TypeOK, NEW sender \in Address, NEW builder \in Address,
         NEW toTreasury \in Nat, NEW toBuilder \in Nat,
         ChargeBoth(sender, builder, toTreasury, toBuilder)
  PROVE  FeesTypeOK'
<1> DEFINE afterTreasury == Transfer(balance, sender, treasury, toTreasury)
<1>1. afterTreasury \in [Address -> Nat]
  BY ParametersAssumption, TransferType DEF ChargeBoth, TypeOK, Amount
<1>2. balance' \in [Address -> Nat]
  BY <1>1, TransferType DEF ChargeBoth
<1>3. /\ total_treasury_collected' \in Nat
      /\ builder_fees_collected' \in [Address -> Nat]
  BY DEF ChargeBoth, TypeOK, Amount
<1>4. QED
  BY <1>2, <1>3 DEF FeesTypeOK, Amount

LEMMA U16IsNat == U16 \subseteq Nat
BY DEF U16

LEMMA SchemaFields ==
  ASSUME NEW schema \in Schema
  PROVE  /\ schema.attestor_set \in AttestorSetId
         /\ schema.fee_routing_bps \in Nat
         /\ schema.fee_routing_addr \in Address \cup {None}
<1>1. schema.attestor_set \in AttestorSetId
  BY DEF Schema
<1>2. schema.fee_routing_bps \in U16
  BY DEF Schema
<1>3. schema.fee_routing_addr \in Address \cup {None}
  BY DEF Schema
<1>4. QED
  BY <1>1, <1>2, <1>3, U16IsNat

\* The fee of a submission is charged either way, and to known parties.
LEMMA SubmissionFeeType ==
  ASSUME TypeOK, NEW sender \in Address, NEW s \in SchemaId, NEW hash \in PayloadHash,
         NEW signatures, SubmitAttestation(sender, s, hash, signatures)
  PROVE  FeesTypeOK' /\ schemas[s] \in Schema
<1>1. schemas[s] \in Schema
  BY DEF SubmitAttestation, TypeOK
<1>2. schemas[s].fee_routing_bps \in Nat
  BY <1>1, SchemaFields
<1>3. /\ BuilderShare(attestation_fee, schemas[s].fee_routing_bps) \in Nat
      /\ TreasuryShare(attestation_fee, schemas[s].fee_routing_bps) \in Nat
  BY <1>2, ShareType, ParametersAssumption DEF Amount
<1>4. CASE schemas[s].fee_routing_addr = None
  BY <1>1, <1>3, <1>4, ChargeType DEF SubmitAttestation
<1>5. CASE schemas[s].fee_routing_addr # None
  <2>1. schemas[s].fee_routing_addr \in Address
    BY <1>1, <1>5 DEF Schema
  <2>2. QED
    BY <1>1, <1>3, <1>5, <2>1, ChargeBothType DEF SubmitAttestation
<1>6. QED
  BY <1>4, <1>5

-----------------------------------------------------------------------------
(* Type correctness                                                        *)

LEMMA InitTypeOK == Init => TypeOK
BY GenesisAssumption, ParametersAssumption DEF Init, TypeOK, Amount

LEMMA NextTypeOK == TypeOK /\ [Next]_vars => TypeOK'
<1> SUFFICES ASSUME TypeOK, [Next]_vars PROVE TypeOK'
  OBVIOUS
<1>1. ASSUME NEW sender \in Registrants, NEW members \in ListsUpTo(MAX_ATTESTOR_SET_MEMBERS),
             NEW threshold \in 0 .. MAX_ATTESTOR_SET_MEMBERS,
             RegisterAttestorSet(sender, members, threshold)
      PROVE  TypeOK'
  <2>1. sender \in Address /\ attestor_set_fee \in Nat /\ threshold \in Nat
    BY SendersAssumption, ParametersAssumption DEF Amount
  <2>2. DeriveSetId(members, threshold) \in AttestorSetId
    BY <2>1, SetIdType, ParametersAssumption
  <2>3. FeesTypeOK'
    BY <1>1, <2>1, ChargeType DEF RegisterAttestorSet
  <2>4. QED
    BY <1>1, <2>2, <2>3 DEF RegisterAttestorSet, TypeOK, FeesTypeOK
<1>2. ASSUME NEW sender \in Registrants, NEW name \in SchemaName, NEW set \in attestor_sets,
             NEW bps \in FeeBps, NEW addr \in Address \cup {None},
             RegisterSchema(sender, name, set, bps, addr)
      PROVE  TypeOK'
  <2>1. /\ sender \in Address /\ schema_registration_fee \in Nat
        /\ bps \in U16 /\ set \in AttestorSetId
    BY SendersAssumption, ParametersAssumption DEF TypeOK, Amount
  <2>2. [attestor_set |-> set, fee_routing_bps |-> bps, fee_routing_addr |-> addr] \in Schema
    BY <2>1 DEF Schema
  <2>3. FeesTypeOK'
    BY <1>2, <2>1, ChargeType DEF RegisterSchema
  <2>4. schemas' \in [SchemaId -> Schema \cup {None}]
    BY <1>2, <2>2 DEF RegisterSchema, TypeOK
  <2>5. QED
    BY <1>2, <2>3, <2>4 DEF RegisterSchema, TypeOK, FeesTypeOK
<1>3. ASSUME NEW sender \in Submitters, NEW s \in SchemaId, NEW hash \in PayloadHash,
             NEW signatures \in ListsUpTo(MAX_ATTESTATION_SIGNATURES),
             SubmitAttestation(sender, s, hash, signatures)
      PROVE  TypeOK'
  <2>1. sender \in Address /\ signatures \in Seq(PubKey)
    BY SendersAssumption, ParametersAssumption, ListLength
  <2>2. FeesTypeOK'
    BY <1>3, <2>1, SubmissionFeeType
  <2>3. [submitter |-> sender, signatures |-> signatures] \in Attestation
    BY <2>1 DEF Attestation
  <2>4. attestations' \in [AttestationId -> Attestation \cup {None}]
    BY <1>3, <2>3 DEF SubmitAttestation, TypeOK
  <2>5. QED
    BY <1>3, <2>2, <2>4 DEF SubmitAttestation, TypeOK, FeesTypeOK
<1>4. ASSUME NEW key \in Signers, NEW s \in SchemaId, NEW hash \in PayloadHash,
             NEW submitter \in Submitters, Sign(key, <<s, hash, submitter>>)
      PROVE  TypeOK'
  <2>1. <<s, hash, submitter>> \in SignedPayload
    BY SendersAssumption DEF SignedPayload
  <2>2. QED
    BY <1>4, <2>1 DEF Sign, TypeOK, registry, fees
<1>5. CASE UNCHANGED vars
  BY <1>5 DEF TypeOK, vars, registry, fees
<1>6. QED
  BY <1>1, <1>2, <1>3, <1>4, <1>5 DEF Next

-----------------------------------------------------------------------------
(* What is stored stays, and is backed by a quorum                         *)

\* No step takes back a set, a schema, an attestation or a signature.
LEMMA NothingIsTakenBack ==
  ASSUME TypeOK, [Next]_vars
  PROVE  StoredStep /\ signed \subseteq signed'
<1>1. ASSUME NEW sender, NEW members, NEW threshold,
             RegisterAttestorSet(sender, members, threshold)
      PROVE  StoredStep /\ signed \subseteq signed'
  BY <1>1 DEF RegisterAttestorSet, StoredStep, Stored
<1>2. ASSUME NEW sender, NEW name, NEW set, NEW bps, NEW addr,
             RegisterSchema(sender, name, set, bps, addr)
      PROVE  StoredStep /\ signed \subseteq signed'
  BY <1>2 DEF RegisterSchema, TypeOK, StoredStep, Stored
<1>3. ASSUME NEW sender, NEW s, NEW hash, NEW signatures,
             SubmitAttestation(sender, s, hash, signatures)
      PROVE  StoredStep /\ signed \subseteq signed'
  BY <1>3 DEF SubmitAttestation, TypeOK, StoredStep, Stored
<1>4. ASSUME NEW key, NEW payload, Sign(key, payload)
      PROVE  StoredStep /\ signed \subseteq signed'
  BY <1>4 DEF Sign, StoredStep, Stored, registry
<1>5. CASE UNCHANGED vars
  BY <1>5 DEF StoredStep, Stored, vars, registry
<1>6. QED
  BY <1>1, <1>2, <1>3, <1>4, <1>5 DEF Next

\* Only a submission stores an attestation, and one only.
LEMMA NewAttestation ==
  ASSUME TypeOK, [Next]_vars, NEW a \in AttestationId, ~Stored(a), Stored(a)'
  PROVE  \E sender \in Submitters, s \in SchemaId, hash \in PayloadHash,
            signatures \in ListsUpTo(MAX_ATTESTATION_SIGNATURES) :
           /\ SubmitAttestation(sender, s, hash, signatures)
           /\ a = <<s, hash>>
<1>1. ASSUME UNCHANGED attestations PROVE FALSE
  BY <1>1 DEF Stored
<1>2. ASSUME NEW sender, NEW members, NEW threshold,
             RegisterAttestorSet(sender, members, threshold)
      PROVE  FALSE
  BY <1>1, <1>2 DEF RegisterAttestorSet
<1>3. ASSUME NEW sender, NEW name, NEW set, NEW bps, NEW addr,
             RegisterSchema(sender, name, set, bps, addr)
      PROVE  FALSE
  BY <1>1, <1>3 DEF RegisterSchema
<1>4. ASSUME NEW key, NEW payload, Sign(key, payload) PROVE FALSE
  BY <1>1, <1>4 DEF Sign, registry
<1>5. CASE UNCHANGED vars
  BY <1>1, <1>5 DEF vars, registry
<1>6. ASSUME NEW sender, NEW s, NEW hash, NEW signatures,
             SubmitAttestation(sender, s, hash, signatures)
      PROVE  a = <<s, hash>>
  BY <1>6 DEF SubmitAttestation, Stored, TypeOK
<1>7. QED
  BY <1>2, <1>3, <1>4, <1>5, <1>6 DEF Next

LEMMA NextReferences ==
  ASSUME TypeOK, ReferencesResolve, [Next]_vars
  PROVE  ReferencesResolve'
<1>1. StoredStep
  BY NothingIsTakenBack
<1>2. ASSUME NEW s \in SchemaId, schemas'[s] # None
      PROVE  /\ schemas'[s].attestor_set \in attestor_sets'
             /\ schemas'[s].fee_routing_bps <= max_builder_bps
             /\ schemas'[s].fee_routing_bps > 0 <=> schemas'[s].fee_routing_addr # None
  <2>1. CASE schemas[s] # None
    BY <1>1, <2>1 DEF StoredStep, ReferencesResolve
  <2>2. CASE schemas[s] = None
    <3>1. PICK sender \in Registrants, name \in SchemaName, set \in attestor_sets,
               bps \in FeeBps, addr \in Address \cup {None} :
            RegisterSchema(sender, name, set, bps, addr)
      BY <1>2, <2>2
      DEF Next, RegisterAttestorSet, SubmitAttestation, Sign, vars, registry
    <3>2. schemas'[s] =
            [attestor_set |-> set, fee_routing_bps |-> bps, fee_routing_addr |-> addr]
      BY <1>2, <2>2, <3>1 DEF RegisterSchema, TypeOK
    <3>3. QED
      BY <1>1, <3>1, <3>2 DEF RegisterSchema, RoutingIsSound, StoredStep
  <2>3. QED
    BY <2>1, <2>2
<1>3. ASSUME NEW a \in AttestationId, Stored(a)'
      PROVE  schemas'[a[1]] # None
  <2>0. a[1] \in SchemaId
    BY DEF AttestationId
  <2>1. CASE Stored(a)
    BY <1>1, <2>0, <2>1 DEF StoredStep, ReferencesResolve
  <2>2. CASE ~Stored(a)
    <3>1. PICK sender \in Submitters, s \in SchemaId, hash \in PayloadHash,
               signatures \in ListsUpTo(MAX_ATTESTATION_SIGNATURES) :
            SubmitAttestation(sender, s, hash, signatures) /\ a = <<s, hash>>
      BY <1>3, <2>2, NewAttestation
    <3>2. QED
      BY <1>1, <2>0, <3>1 DEF SubmitAttestation, StoredStep
  <2>3. QED
    BY <2>1, <2>2
<1>4. QED
  BY <1>2, <1>3 DEF ReferencesResolve

\* The signatures of a record and the schema it was accepted under never change,
\* so what has to be seen is the record a submission adds.
LEMMA NextQuorum ==
  ASSUME IndInv, [Next]_vars
  PROVE  QuorumSigned'
<1>0. /\ TypeOK /\ StoredStep /\ signed \subseteq signed'
      /\ \A a \in AttestationId : a[1] \in SchemaId
  BY NothingIsTakenBack DEF IndInv, AttestationId
<1>1. ASSUME NEW a \in AttestationId, Stored(a)
      PROVE  attestations'[a] = attestations[a] /\ Quorum(a)' = Quorum(a)
  <2>1. schemas[a[1]] # None /\ a[1] \in SchemaId
    BY <1>0, <1>1 DEF IndInv, ReferencesResolve
  <2>2. QED
    BY <1>0, <1>1, <2>1 DEF StoredStep, Quorum, Fields
<1>2. ASSUME NEW a \in AttestationId, ~Stored(a), Stored(a)'
      PROVE  LET signers == Range(attestations'[a].signatures)
             IN  /\ Cardinality(signers) >= Quorum(a)'.threshold
                 /\ \A p \in signers :
                      /\ Quorum(a)'.members[p] > 0
                      /\ <<p, <<a[1], a[2], attestations'[a].submitter>>>> \in signed'
  <2>1. PICK sender \in Submitters, s \in SchemaId, hash \in PayloadHash,
             signatures \in ListsUpTo(MAX_ATTESTATION_SIGNATURES) :
          SubmitAttestation(sender, s, hash, signatures) /\ a = <<s, hash>>
    BY <1>0, <1>2, NewAttestation
  <2>2. /\ attestations'[a] = [submitter |-> sender, signatures |-> signatures]
        /\ a[1] = s /\ a[2] = hash /\ schemas' = schemas /\ signed' = signed
    BY <1>0, <2>1 DEF SubmitAttestation, TypeOK
  <2>3. PICK k \in Nat : signatures \in [1 .. k -> PubKey] /\ Len(signatures) = k
    BY ListLength, ParametersAssumption
  <2>4. /\ IsInjective(signatures)
        /\ k >= schemas[s].attestor_set.threshold
        /\ \A i \in 1 .. k : /\ schemas[s].attestor_set.members[signatures[i]] > 0
                             /\ <<signatures[i], <<s, hash, sender>>>> \in signed
    BY <2>1, <2>3 DEF SubmitAttestation, ValidSignatures
  <2>5. Cardinality(Range(signatures)) = k
    BY <2>3, <2>4, DistinctSigners
  <2>6. \A p \in Range(signatures) : \E i \in 1 .. k : p = signatures[i]
    BY <2>3 DEF Range
  <2>7. QED
    BY <2>2, <2>4, <2>5, <2>6 DEF Quorum, Fields
<1>3. QED
  BY <1>0, <1>1, <1>2 DEF IndInv, QuorumSigned, Stored

LEMMA InitIndInv == Init => IndInv
<1> SUFFICES ASSUME Init PROVE IndInv
  OBVIOUS
<1>1. \A a \in AttestationId : ~Stored(a)
  BY DEF Init, Stored
<1>2. QED
  BY <1>1, InitTypeOK, GenesisAssumption
  DEF Init, IndInv, ReferencesResolve, QuorumSigned, RoutingIsSound

LEMMA IndInvHolds == Spec => []IndInv
<1>1. IndInv /\ [Next]_vars => IndInv'
  BY NextTypeOK, NextReferences, NextQuorum DEF IndInv
<1>2. QED
  BY <1>1, InitIndInv, PTL DEF Spec

-----------------------------------------------------------------------------
(* The results                                                             *)

\* Every entry keeps its type; in particular no fee makes a balance negative.
THEOREM TypeCorrect == Spec => []TypeOK
<1>1. IndInv => TypeOK
  BY DEF IndInv
<1>2. QED
  BY <1>1, IndInvHolds, PTL

\* No reference from an attestation to its schema, or from a schema to its
\* attestor set, ever dangles, and every routed share has a taker.
THEOREM ReferencesAlwaysResolve == Spec => []ReferencesResolve
<1>1. IndInv => ReferencesResolve
  BY DEF IndInv
<1>2. QED
  BY <1>1, IndInvHolds, PTL

\* Behind every stored attestation stand at least threshold different members
\* of its schema's set, who all signed for the submitter on record.
THEOREM AttestationsAreSigned == Spec => []QuorumSigned
<1>1. IndInv => QuorumSigned
  BY DEF IndInv
<1>2. QED
  BY <1>1, IndInvHolds, PTL

\* Sets, schemas and attestations are write-once.
THEOREM RecordsAreWriteOnce == Spec => StoredForEver
<1>1. IndInv /\ [Next]_vars => StoredStep
  BY NothingIsTakenBack DEF IndInv
<1>2. QED
  BY <1>1, IndInvHolds, PTL DEF Spec, StoredForEver

\* The split of any fee under any registered routing is exact.
THEOREM SplitsAreExact == Spec => []SplitIsExact
<1>1. ASSUME TypeOK, NEW s \in SchemaId, NEW total \in SampleFees, schemas[s] # None
      PROVE  LET bps == schemas[s].fee_routing_bps
             IN  /\ BuilderShare(total, bps) = (total * bps) \div 10000
                 /\ bps <= 10000 =>
                      BuilderShare(total, bps) + TreasuryShare(total, bps) = total
  <2>1. total \in Nat
    BY ParametersAssumption DEF Amount
  <2>2. schemas[s] \in Schema
    BY <1>1 DEF TypeOK
  <2>3. PICK bps \in Nat : bps = schemas[s].fee_routing_bps
    BY <2>2, SchemaFields
  <2>4. BuilderShare(total, bps) = (total * bps) \div 10000
    BY <2>1, ShareIsFloor
  <2>5. bps <= 10000 => BuilderShare(total, bps) + TreasuryShare(total, bps) = total
    BY <2>1, SharesAddUp
  <2>6. QED
    BY <2>3, <2>4, <2>5
<1>2. TypeOK => SplitIsExact
  BY <1>1 DEF SplitIsExact
<1>3. QED
  BY <1>2, TypeCorrect, PTL

\* As long as genesis caps routings at the whole fee, the shares of a submission's fee are
\* natural numbers that make up the fee, and with nobody to route to all is the treasury's.
LEMMA SubmissionShares ==
  ASSUME max_builder_bps <= 10000, IndInv,
         NEW sender \in Address, NEW s \in SchemaId, NEW hash \in PayloadHash,
         NEW signatures, SubmitAttestation(sender, s, hash, signatures)
  PROVE  \E toBuilder, toTreasury \in Nat :
           /\ toBuilder + toTreasury = attestation_fee
           /\ \/ /\ schemas[s].fee_routing_addr = None /\ toBuilder = 0
                 /\ ChargeToTreasury(sender, toTreasury)
              \/ /\ schemas[s].fee_routing_addr \in Address
                 /\ ChargeBoth(sender, schemas[s].fee_routing_addr, toTreasury, toBuilder)
<1>1. schemas[s] \in Schema /\ schemas[s] # None
  BY DEF SubmitAttestation, IndInv, TypeOK
<1>2. PICK bps \in Nat : bps = schemas[s].fee_routing_bps
  BY <1>1, SchemaFields
<1>3. /\ bps <= 10000
      /\ bps > 0 <=> schemas[s].fee_routing_addr # None
  <2>1. max_builder_bps \in Nat
    BY ParametersAssumption, U16IsNat
  <2>2. /\ bps <= max_builder_bps
        /\ bps > 0 <=> schemas[s].fee_routing_addr # None
    BY <1>1, <1>2 DEF IndInv, ReferencesResolve
  <2>3. QED
    BY <2>1, <2>2
<1>4. PICK toBuilder \in Nat, toTreasury \in Nat :
        /\ toBuilder = BuilderShare(attestation_fee, bps)
        /\ toTreasury = TreasuryShare(attestation_fee, bps)
        /\ toBuilder + toTreasury = attestation_fee
  <2>1. attestation_fee \in Nat
    BY ParametersAssumption DEF Amount
  <2>2. BuilderShare(attestation_fee, bps) + TreasuryShare(attestation_fee, bps)
          = attestation_fee
    BY <1>3, <2>1, SharesAddUp
  <2>3. /\ BuilderShare(attestation_fee, bps) \in Nat
        /\ TreasuryShare(attestation_fee, bps) \in Nat
    BY ONLY <2>1, bps \in Nat, ShareType
  <2>4. QED
    BY <2>2, <2>3
<1>5. CASE schemas[s].fee_routing_addr = None
  <2>1. toBuilder = 0
    <3>1. attestation_fee \in Nat /\ bps = 0
      BY <1>3, <1>5, ParametersAssumption DEF Amount
    <3>2. attestation_fee * bps = 0 /\ 0 \div 10000 = 0
      BY <3>1
    <3>3. QED
      BY <1>4, <3>1, <3>2, ShareIsFloor
  <2>2. ChargeToTreasury(sender, toTreasury)
    BY <1>2, <1>4, <1>5 DEF SubmitAttestation
  <2>3. QED
    BY <1>4, <1>5, <2>1, <2>2
<1>6. CASE schemas[s].fee_routing_addr # None
  <2>1. schemas[s].fee_routing_addr \in Address
    BY <1>1, <1>6, SchemaFields
  <2>2. ChargeBoth(sender, schemas[s].fee_routing_addr, toTreasury, toBuilder)
    BY <1>2, <1>4, <1>6 DEF SubmitAttestation
  <2>3. QED
    BY <1>4, <2>1, <2>2
<1>7. QED
  BY <1>5, <1>6

\* Whoever receives a share, the submitter pays the flat fee.
LEMMA SubmissionCost ==
  ASSUME max_builder_bps <= 10000, IndInv,
         NEW sender \in Address, NEW s \in SchemaId, NEW hash \in PayloadHash,
         NEW signatures, SubmitAttestation(sender, s, hash, signatures),
         sender \notin {treasury, schemas[s].fee_routing_addr}
  PROVE  balance'[sender] = balance[sender] - attestation_fee
<1>1. PICK toBuilder, toTreasury \in Nat :
        /\ toBuilder + toTreasury = attestation_fee
        /\ \/ /\ schemas[s].fee_routing_addr = None /\ toBuilder = 0
              /\ ChargeToTreasury(sender, toTreasury)
           \/ /\ schemas[s].fee_routing_addr \in Address
              /\ ChargeBoth(sender, schemas[s].fee_routing_addr, toTreasury, toBuilder)
  BY SubmissionShares
<1>2. balance \in [Address -> Nat] /\ treasury \in Address
  BY ParametersAssumption DEF IndInv, TypeOK, Amount
<1>3. CASE toBuilder = 0 /\ ChargeToTreasury(sender, toTreasury)
  BY <1>1, <1>2, <1>3 DEF ChargeToTreasury, Transfer
<1>4. ASSUME NEW builder \in Address, builder = schemas[s].fee_routing_addr,
             ChargeBoth(sender, builder, toTreasury, toBuilder)
      PROVE  balance'[sender] = balance[sender] - attestation_fee
  <2>1. balance' = Transfer(Transfer(balance, sender, treasury, toTreasury),
                            sender, builder, toBuilder)
    BY <1>4 DEF ChargeBoth
  <2>2. QED
    BY <1>1, <1>2, <1>4, <2>1 DEF Transfer
<1>5. QED
  BY <1>1, <1>3, <1>4

LEMMA FlatFees ==
  ASSUME max_builder_bps <= 10000, IndInv, [Next]_vars
  PROVE  FlatFeeStep
<1> SUFFICES ASSUME NEW a \in AttestationId, ~Stored(a), Stored(a)',
                    attestations'[a].submitter \notin {treasury, Fields(a).fee_routing_addr}
             PROVE  balance'[attestations'[a].submitter]
                      = balance[attestations'[a].submitter] - attestation_fee
  BY DEF FlatFeeStep
<1>1. TypeOK
  BY DEF IndInv
<1>2. PICK sender \in Submitters, s \in SchemaId, hash \in PayloadHash,
           signatures \in ListsUpTo(MAX_ATTESTATION_SIGNATURES) :
        SubmitAttestation(sender, s, hash, signatures) /\ a = <<s, hash>>
  BY <1>1, NewAttestation
<1>3. attestations'[a].submitter = sender /\ a[1] = s /\ sender \in Address
  BY <1>1, <1>2, SendersAssumption DEF SubmitAttestation, TypeOK
<1>4. QED
  BY <1>2, <1>3, SubmissionCost DEF Fields

\* An attestation costs its submitter the flat fee whatever the schema routes,
\* provided the cap of routings is at most the whole, which genesis does not check.
THEOREM FeesAreFlat ==
  ASSUME max_builder_bps <= 10000
  PROVE  Spec => FlatFee
<1>1. IndInv /\ [Next]_vars => FlatFeeStep
  BY FlatFees
<1>2. QED
  BY <1>1, IndInvHolds, PTL DEF Spec, FlatFee

-----------------------------------------------------------------------------
(* The books                                                               *)

Booked == total_treasury_collected + SumFunction(builder_fees_collected)
NewSchemas == {s \in SchemaId : schemas[s] # GenesisSchemas[s]}
StoredIds == {a \in AttestationId : Stored(a)}

\* What is counted can be counted: only finitely much has been added to the genesis, and
\* nothing of the genesis is ever missing.
Countable ==
  /\ IsFiniteSet(attestor_sets) /\ IsFiniteSet(NewSchemas) /\ IsFiniteSet(StoredIds)
  /\ \A s \in SchemaId : schemas[s] = None => GenesisSchemas[s] = None

LEMMA BookedType == ASSUME TypeOK PROVE SumFunction(builder_fees_collected) \in Nat
BY FinitenessAssumption, SumOfNats DEF TypeOK, Amount

LEMMA ChargeBooks ==
  ASSUME TypeOK, NEW sender, NEW amount \in Nat, ChargeToTreasury(sender, amount)
  PROVE  Booked' = Booked + amount
BY BookedType DEF ChargeToTreasury, Booked, TypeOK, Amount

LEMMA ChargeBothBooks ==
  ASSUME TypeOK, NEW sender, NEW builder \in Address, NEW toTreasury \in Nat,
         NEW toBuilder \in Nat, ChargeBoth(sender, builder, toTreasury, toBuilder)
  PROVE  Booked' = Booked + toTreasury + toBuilder
<1>1. /\ builder_fees_collected \in [Address -> Int] /\ total_treasury_collected \in Nat
      /\ builder_fees_collected[builder] \in Nat
  BY DEF TypeOK, Amount
<1>2. /\ builder_fees_collected' \in [Address -> Int]
      /\ builder_fees_collected'[builder] = builder_fees_collected[builder] + toBuilder
      /\ \A a \in Address \ {builder} : builder_fees_collected'[a] = builder_fees_collected[a]
  BY <1>1 DEF ChargeBoth
<1>3. SumFunction(builder_fees_collected') =
        SumFunction(builder_fees_collected) + builder_fees_collected'[builder]
          - builder_fees_collected[builder]
  BY <1>1, <1>2, FinitenessAssumption, SumUpdate
<1>4. total_treasury_collected' = total_treasury_collected + toTreasury
  BY DEF ChargeBoth
<1>5. QED
  BY <1>1, <1>2, <1>3, <1>4, BookedType DEF Booked

LEMMA OneMore ==
  \A fee \in Nat, n \in Int : fee * (n + 1) = fee * n + fee
OBVIOUS

\* Steps that touch neither the registry nor the fees leave the books alone.
LEMMA SameBooks ==
  ASSUME Countable, FeesAreBooked, UNCHANGED <<registry, fees>>
  PROVE  Countable' /\ FeesAreBooked'
<1>1. UNCHANGED <<attestor_sets, schemas, attestations>> /\ Booked' = Booked
  BY DEF registry, fees, Booked
<1>2. NewSchemas' = NewSchemas /\ StoredIds' = StoredIds
  BY <1>1 DEF NewSchemas, StoredIds, Stored
<1>3. Countable'
  BY <1>1, <1>2 DEF Countable
<1>4. Registered' = Registered /\ SchemasSince' = SchemasSince /\ Attested' = Attested
  BY <1>1, <1>2 DEF Registered, SchemasSince, Attested, NewSchemas, StoredIds
<1>5. QED
  BY <1>1, <1>3, <1>4 DEF FeesAreBooked, Booked

\* Each call books one fee and counts one thing more.
LEMMA NextBooks ==
  ASSUME max_builder_bps <= 10000, IndInv, Countable, FeesAreBooked, [Next]_vars
  PROVE  Countable' /\ FeesAreBooked'
<1>0. /\ TypeOK /\ Booked \in Nat /\ attestation_fee \in Nat
      /\ attestor_set_fee \in Nat /\ schema_registration_fee \in Nat
      /\ Registered \in Int /\ SchemasSince \in Nat /\ Attested \in Nat
      /\ Booked = attestor_set_fee * Registered + schema_registration_fee * SchemasSince
                    + attestation_fee * Attested
  <2>1. /\ TypeOK /\ attestation_fee \in Nat
        /\ attestor_set_fee \in Nat /\ schema_registration_fee \in Nat
    BY ParametersAssumption DEF IndInv, Amount
  <2>2. Booked \in Nat
    BY <2>1, BookedType DEF Booked, TypeOK, Amount
  <2>3. Cardinality(attestor_sets) \in Nat /\ Cardinality(GenesisSets) \in Nat
    BY GenesisAssumption, FS_CardinalityType DEF Countable
  <2>4. SchemasSince \in Nat /\ Attested \in Nat
    BY FS_CardinalityType DEF Countable, SchemasSince, Attested, NewSchemas, StoredIds
  <2>5. QED
    BY <2>1, <2>2, <2>3, <2>4 DEF Registered, FeesAreBooked, Booked
<1>1. ASSUME NEW sender \in Registrants, NEW members \in ListsUpTo(MAX_ATTESTOR_SET_MEMBERS),
             NEW threshold \in 0 .. MAX_ATTESTOR_SET_MEMBERS,
             RegisterAttestorSet(sender, members, threshold)
      PROVE  Countable' /\ FeesAreBooked'
  <2>1. Booked' = Booked + attestor_set_fee
    BY <1>0, <1>1, ChargeBooks DEF RegisterAttestorSet
  <2>2. PICK id : id \notin attestor_sets /\ attestor_sets' = attestor_sets \cup {id}
    BY <1>1 DEF RegisterAttestorSet
  <2>3. /\ IsFiniteSet(attestor_sets')
        /\ Cardinality(attestor_sets') = Cardinality(attestor_sets) + 1
    BY <2>2, FS_AddElement DEF Countable
  <2>4. NewSchemas' = NewSchemas /\ StoredIds' = StoredIds
    BY <1>1 DEF RegisterAttestorSet, NewSchemas, StoredIds, Stored
  <2>5. Countable'
    BY <1>1, <2>3, <2>4 DEF Countable, RegisterAttestorSet
  <2>6. Registered' = Registered + 1 /\ SchemasSince' = SchemasSince /\ Attested' = Attested
    <3>1. Cardinality(attestor_sets) \in Nat /\ Cardinality(GenesisSets) \in Nat
      BY GenesisAssumption, FS_CardinalityType DEF Countable
    <3>2. Registered' = Registered + 1
      BY <2>3, <3>1 DEF Registered
    <3>3. SchemasSince' = SchemasSince /\ Attested' = Attested
      BY <2>4 DEF SchemasSince, Attested, NewSchemas, StoredIds
    <3>4. QED
      BY <3>2, <3>3
  <2>7. attestor_set_fee * (Registered + 1) = attestor_set_fee * Registered + attestor_set_fee
    BY <1>0, OneMore
  <2>8. FeesAreBooked'
    BY <1>0, <2>1, <2>6, <2>7 DEF FeesAreBooked, Booked
  <2>9. QED
    BY <2>5, <2>8
<1>2. ASSUME NEW sender \in Registrants, NEW name \in SchemaName, NEW set \in attestor_sets,
             NEW bps \in FeeBps, NEW addr \in Address \cup {None},
             RegisterSchema(sender, name, set, bps, addr)
      PROVE  Countable' /\ FeesAreBooked'
  <2>1. Booked' = Booked + schema_registration_fee
    BY <1>0, <1>2, ChargeBooks DEF RegisterSchema
  <2>2. PICK s \in SchemaId : s = <<sender, name>>
    <3>1. sender \in Address
      BY SendersAssumption
    <3>2. <<sender, name>> \in SchemaId
      BY <3>1 DEF SchemaId
    <3>3. QED
      BY <3>2
  <2>3. /\ schemas[s] = None /\ schemas'[s] # None
        /\ \A t \in SchemaId \ {s} : schemas'[t] = schemas[t]
    <3>1. bps \in U16 /\ set \in AttestorSetId
      BY <1>0, ParametersAssumption DEF TypeOK
    <3>2. [attestor_set |-> set, fee_routing_bps |-> bps, fee_routing_addr |-> addr] \in Schema
      BY <3>1 DEF Schema
    <3>3. QED
      BY <1>0, <1>2, <2>2, <3>2, NoneAssumption DEF RegisterSchema, TypeOK
  <2>4. s \notin NewSchemas /\ NewSchemas' = NewSchemas \cup {s}
    BY <2>3 DEF NewSchemas, Countable
  <2>5. IsFiniteSet(NewSchemas') /\ Cardinality(NewSchemas') = Cardinality(NewSchemas) + 1
    BY <2>4, FS_AddElement DEF Countable
  <2>6. UNCHANGED attestor_sets /\ StoredIds' = StoredIds
    BY <1>2 DEF RegisterSchema, StoredIds, Stored
  <2>7. Countable'
    BY <2>3, <2>5, <2>6 DEF Countable
  <2>8. Registered' = Registered /\ SchemasSince' = SchemasSince + 1 /\ Attested' = Attested
    BY <2>5, <2>6 DEF Registered, SchemasSince, Attested, NewSchemas, StoredIds
  <2>9. schema_registration_fee * (SchemasSince + 1) =
          schema_registration_fee * SchemasSince + schema_registration_fee
    BY <1>0, OneMore
  <2>10. FeesAreBooked'
    BY <1>0, <2>1, <2>8, <2>9 DEF FeesAreBooked, Booked
  <2>11. QED
    BY <2>7, <2>10
<1>3. ASSUME NEW sender \in Submitters, NEW s \in SchemaId, NEW hash \in PayloadHash,
             NEW signatures \in ListsUpTo(MAX_ATTESTATION_SIGNATURES),
             SubmitAttestation(sender, s, hash, signatures)
      PROVE  Countable' /\ FeesAreBooked'
  <2>1. PICK toBuilder, toTreasury \in Nat :
          /\ toBuilder + toTreasury = attestation_fee
          /\ \/ /\ schemas[s].fee_routing_addr = None /\ toBuilder = 0
                /\ ChargeToTreasury(sender, toTreasury)
             \/ /\ schemas[s].fee_routing_addr \in Address
                /\ ChargeBoth(sender, schemas[s].fee_routing_addr, toTreasury, toBuilder)
    BY <1>3, SendersAssumption, SubmissionShares
  <2>2. Booked' = Booked + attestation_fee
    BY <1>0, <2>1, ChargeBooks, ChargeBothBooks
  <2>3. PICK a \in AttestationId : a = <<s, hash>>
    <3>1. <<s, hash>> \in AttestationId
      BY DEF AttestationId
    <3>2. QED
      BY <3>1
  <2>4. /\ ~Stored(a) /\ Stored(a)'
        /\ \A b \in AttestationId \ {a} : attestations'[b] = attestations[b]
    <3>1. signatures \in Seq(PubKey) /\ sender \in Address
      BY SendersAssumption, ParametersAssumption, ListLength
    <3>2. [submitter |-> sender, signatures |-> signatures] \in Attestation
      BY <3>1 DEF Attestation
    <3>3. QED
      BY <1>0, <1>3, <2>3, <3>2, NoneAssumption DEF SubmitAttestation, TypeOK, Stored
  <2>5. a \notin StoredIds /\ StoredIds' = StoredIds \cup {a}
    BY <2>4 DEF StoredIds, Stored
  <2>6. IsFiniteSet(StoredIds') /\ Cardinality(StoredIds') = Cardinality(StoredIds) + 1
    BY <2>5, FS_AddElement DEF Countable
  <2>7. UNCHANGED <<attestor_sets, schemas>> /\ NewSchemas' = NewSchemas
    BY <1>3 DEF SubmitAttestation, NewSchemas
  <2>8. Countable'
    BY <2>6, <2>7 DEF Countable
  <2>9. Registered' = Registered /\ SchemasSince' = SchemasSince /\ Attested' = Attested + 1
    BY <2>6, <2>7 DEF Registered, SchemasSince, Attested, NewSchemas, StoredIds
  <2>10. attestation_fee * (Attested + 1) = attestation_fee * Attested + attestation_fee
    BY <1>0, OneMore
  <2>11. FeesAreBooked'
    BY <1>0, <2>2, <2>9, <2>10 DEF FeesAreBooked, Booked
  <2>12. QED
    BY <2>8, <2>11
<1>4. ASSUME UNCHANGED <<registry, fees>>
      PROVE  Countable' /\ FeesAreBooked'
  BY <1>4, SameBooks
<1>5. ASSUME NEW key \in Signers, NEW payload, Sign(key, payload)
      PROVE  Countable' /\ FeesAreBooked'
  BY <1>4, <1>5 DEF Sign
<1>6. CASE UNCHANGED vars
  BY <1>4, <1>6 DEF vars
<1>7. CASE \E sender \in Registrants, members \in ListsUpTo(MAX_ATTESTOR_SET_MEMBERS),
            threshold \in 0 .. MAX_ATTESTOR_SET_MEMBERS :
              RegisterAttestorSet(sender, members, threshold)
  BY <1>1, <1>7
<1>8. CASE \E sender \in Registrants, name \in SchemaName, set \in attestor_sets,
            bps \in FeeBps, addr \in Address \cup {None} :
              RegisterSchema(sender, name, set, bps, addr)
  BY <1>2, <1>8
<1>9. CASE \E sender \in Submitters, s \in SchemaId, hash \in PayloadHash,
            signatures \in ListsUpTo(MAX_ATTESTATION_SIGNATURES) :
              SubmitAttestation(sender, s, hash, signatures)
  BY <1>3, <1>9
<1>10. CASE \E key \in Signers, s \in SchemaId, hash \in PayloadHash, submitter \in Submitters :
              Sign(key, <<s, hash, submitter>>)
  BY <1>5, <1>10
<1>11. QED
  BY <1>6, <1>7, <1>8, <1>9, <1>10 DEF Next

LEMMA InitBooks ==
  ASSUME Init
  PROVE  Countable /\ FeesAreBooked
<1>1. NewSchemas = {} /\ StoredIds = {} /\ attestor_sets = GenesisSets
  BY DEF Init, NewSchemas, StoredIds, Stored
<1>2. Countable
  BY <1>1, GenesisAssumption, FS_EmptySet DEF Countable, Init
<1>3. Registered = 0 /\ SchemasSince = 0 /\ Attested = 0
  <2>1. Cardinality(GenesisSets) \in Nat
    BY GenesisAssumption, FS_CardinalityType
  <2>2. QED
    BY <1>1, <2>1, FS_EmptySet DEF Registered, SchemasSince, Attested, NewSchemas, StoredIds
<1>4. SumFunction(builder_fees_collected) = 0
  BY FinitenessAssumption, SumZero DEF Init
<1>5. /\ attestation_fee \in Nat /\ attestor_set_fee \in Nat
      /\ schema_registration_fee \in Nat /\ total_treasury_collected = 0
  BY ParametersAssumption DEF Amount, Init
<1>6. FeesAreBooked
  BY <1>3, <1>4, <1>5 DEF FeesAreBooked
<1>7. QED
  BY <1>2, <1>6

\* As long as genesis caps routings at the whole fee, the counters hold exactly the fees
\* of all that was registered and attested: none is lost, booked twice or to nobody.
THEOREM BooksAreExact ==
  ASSUME max_builder_bps <= 10000
  PROVE  Spec => []FeesAreBooked
<1>1. Init => Countable /\ FeesAreBooked
  BY InitBooks
<1>2. IndInv /\ Countable /\ FeesAreBooked /\ [Next]_vars => Countable' /\ FeesAreBooked'
  BY NextBooks
<1>3. QED
  BY <1>1, <1>2, IndInvHolds, PTL DEF Spec

-----------------------------------------------------------------------------
(* Relayers: the signatures of a message stay good until somebody has      *)
(* stored its attestation, however many messages are under way, and        *)
(* whatever is stored has its quorum, clients or not.                      *)

Digest ==
  [schema_id: SchemaId, payload_hash: PayloadHash, submitter: Submitters, timestamp: Timestamps]
Message == [digest: Digest, signatures: ListsUpTo(MAX_ATTESTATION_SIGNATURES)]

\* Built messages carry whole digests and lists of keys.
MessagesTypeOK == in_flight \subseteq Message

ClientInv == IndInv /\ MessagesTypeOK

LEMMA DigestFields ==
  ASSUME NEW m \in Message
  PROVE  /\ Id(m) \in AttestationId /\ Id(m)[1] = m.digest.schema_id
         /\ m.digest.schema_id \in SchemaId /\ m.digest.payload_hash \in PayloadHash
         /\ m.digest.submitter \in Submitters
<1>1. m.digest \in Digest
  BY DEF Message
<1>2. m.digest.schema_id \in SchemaId
  BY <1>1 DEF Digest
<1>3. m.digest.payload_hash \in PayloadHash
  BY <1>1 DEF Digest
<1>4. m.digest.submitter \in Submitters
  BY <1>1 DEF Digest
<1>5. QED
  BY <1>2, <1>3, <1>4 DEF Id, AttestationId

-----------------------------------------------------------------------------
(* Building a message                                                      *)

\* What the attestors of a message sign are payloads of its submitter.
LEMMA NewSignatures ==
  ASSUME NEW key \in Signers, NEW s \in SchemaId, NEW hash \in PayloadHash,
         NEW submitter \in Submitters, NEW timestamp
  PROVE  SignAttestation(key, SignedAttestationPayload(s, hash, submitter, timestamp))
           \subseteq Signers \X SignedPayload
<1> DEFINE digest == SignedAttestationPayload(s, hash, submitter, timestamp)
<1>1. digest.schema_id = s /\ digest.payload_hash = hash /\ digest.submitter = submitter
  BY DEF SignedAttestationPayload
<1>2. submitter \in Address
  BY SendersAssumption
<1>3. <<s, hash, submitter>> \in SignedPayload
  BY <1>2 DEF SignedPayload
<1>4. SignAttestation(key, digest) \subseteq {<<key, <<s, hash, submitter>>>>}
  <2> HIDE DEF digest
  <2>1. QED
    BY <1>1 DEF SignAttestation
<1>5. QED
  BY <1>3, <1>4

LEMMA BuildKeepsInv ==
  ASSUME ClientInv,
         NEW k \in 0 .. MAX_ATTESTATION_SIGNATURES, NEW keys \in [1 .. k -> Signers],
         NEW s \in SchemaId, NEW hash \in PayloadHash, NEW submitter \in Submitters,
         NEW timestamp \in Timestamps,
         BuildSignedSubmit(keys, s, hash, submitter, timestamp)
  PROVE  ClientInv' /\ StoredStep /\ signed \subseteq signed'
<1> DEFINE digest == SignedAttestationPayload(s, hash, submitter, timestamp)
<1>1. UNCHANGED <<registry, fees>>
  BY DEF BuildSignedSubmit
<1>2. signed' = signed \cup UNION {SignAttestation(keys[i], digest) : i \in DOMAIN keys}
  BY DEF BuildSignedSubmit
<1>3. in_flight' = in_flight \cup {[digest |-> digest, signatures |-> keys]}
  BY DEF BuildSignedSubmit
<1>4. \A i \in DOMAIN keys : SignAttestation(keys[i], digest) \subseteq Signers \X SignedPayload
  BY NewSignatures
<1>5. TypeOK'
  <2> HIDE DEF digest
  <2>1. QED
    BY <1>1, <1>2, <1>4 DEF ClientInv, IndInv, TypeOK, registry, fees
<1>6. signed \subseteq signed'
  BY <1>2
<1>7. ReferencesResolve' /\ QuorumSigned'
  BY <1>1, <1>6
  DEF ClientInv, IndInv, ReferencesResolve, QuorumSigned, Stored, Quorum, Fields, registry
<1>8. digest \in Digest
  BY DEF SignedAttestationPayload, Digest
<1>9. keys \in ListsUpTo(MAX_ATTESTATION_SIGNATURES)
  BY SendersAssumption DEF ListsUpTo
<1>10. MessagesTypeOK'
  <2> HIDE DEF digest
  <2>1. QED
    BY <1>3, <1>8, <1>9 DEF ClientInv, MessagesTypeOK, Message
<1>11. StoredStep
  BY <1>1 DEF StoredStep, registry
<1>12. QED
  BY <1>5, <1>6, <1>7, <1>10, <1>11 DEF ClientInv, IndInv

-----------------------------------------------------------------------------
(* Every step                                                              *)

LEMMA LedgerStepKeepsInv ==
  ASSUME IndInv, [Next]_vars
  PROVE  IndInv' /\ StoredStep /\ signed \subseteq signed'
BY NextTypeOK, NextReferences, NextQuorum, NothingIsTakenBack DEF IndInv

\* The signatures of a message are submitted as a list of keys like any other.
LEMMA SubmitIsANextStep ==
  ASSUME ClientInv, NEW m \in in_flight, SubmitRawTx(m)
  PROVE  Next
<1>1. m \in Message
  BY DEF ClientInv, MessagesTypeOK
<1>2. SubmitAttestation(m.digest.submitter, m.digest.schema_id, m.digest.payload_hash, m.signatures)
  BY DEF SubmitRawTx
<1>3. /\ m.digest.submitter \in Submitters /\ m.digest.schema_id \in SchemaId
      /\ m.digest.payload_hash \in PayloadHash
  BY <1>1, DigestFields
<1>4. m.signatures \in ListsUpTo(MAX_ATTESTATION_SIGNATURES)
  BY <1>1 DEF Message
<1>5. QED
  BY <1>2, <1>3, <1>4 DEF Next

LEMMA ClientStep ==
  ASSUME ClientInv, [ClientNext]_clientVars
  PROVE  ClientInv' /\ StoredStep /\ signed \subseteq signed'
<1>0. IndInv /\ MessagesTypeOK
  BY DEF ClientInv
<1>1. ASSUME NEW k \in 0 .. MAX_ATTESTATION_SIGNATURES, NEW keys \in [1 .. k -> Signers],
             NEW s \in {x \in SchemaId : schemas[x] # None}, NEW hash \in PayloadHash,
             NEW submitter \in Submitters, NEW timestamp \in Timestamps,
             BuildSignedSubmit(keys, s, hash, submitter, timestamp)
      PROVE  ClientInv' /\ StoredStep /\ signed \subseteq signed'
  BY <1>1, BuildKeepsInv
<1>2. ASSUME [Next]_vars, in_flight' \subseteq in_flight
      PROVE  ClientInv' /\ StoredStep /\ signed \subseteq signed'
  BY <1>0, <1>2, LedgerStepKeepsInv DEF ClientInv, MessagesTypeOK
<1>3. ASSUME NEW m \in in_flight, SubmitRawTx(m)
      PROVE  ClientInv' /\ StoredStep /\ signed \subseteq signed'
  BY <1>2, <1>3, SubmitIsANextStep DEF SubmitRawTx
<1>4. ASSUME NEW m \in in_flight, GiveUp(m)
      PROVE  ClientInv' /\ StoredStep /\ signed \subseteq signed'
  BY <1>2, <1>4 DEF GiveUp
<1>5. CASE AnybodyElse
  BY <1>2, <1>5 DEF AnybodyElse
<1>6. CASE UNCHANGED clientVars
  BY <1>2, <1>6 DEF clientVars
<1>7. QED
  BY <1>1, <1>3, <1>4, <1>5, <1>6 DEF ClientNext

LEMMA ClientInvHolds == ClientSpec => []ClientInv
<1>1. ClientInit => ClientInv
  BY InitIndInv DEF ClientInit, ClientInv, MessagesTypeOK
<1>2. ClientInv /\ [ClientNext]_clientVars => ClientInv'
  BY ClientStep
<1>3. QED
  BY <1>1, <1>2, PTL DEF ClientSpec

-----------------------------------------------------------------------------
(* The results                                                             *)

\* With relayers, lost, repeated and overtaken messages included, whatever is stored has
\* at least threshold different members of its set who signed it for its submitter.
THEOREM RelayedAttestationsAreSigned == ClientSpec => []QuorumSigned
BY ClientInvHolds, PTL DEF ClientInv, IndInv

\* A relayer's step is one the ledger takes without him, or leaves the ledger alone.
LEMMA LedgerOrNothing ==
  ASSUME ClientInv, [ClientNext]_clientVars
  PROVE  [Next]_vars \/ UNCHANGED <<registry, fees>>
<1>1. CASE \E keys \in UNION {[1 .. k -> Signers] : k \in 0 .. MAX_ATTESTATION_SIGNATURES},
              s \in {x \in SchemaId : schemas[x] # None}, hash \in PayloadHash,
              submitter \in Submitters, timestamp \in Timestamps :
                BuildSignedSubmit(keys, s, hash, submitter, timestamp)
  BY <1>1 DEF BuildSignedSubmit
<1>2. ASSUME NEW m \in in_flight, SubmitRawTx(m)
      PROVE  [Next]_vars
  BY <1>2, SubmitIsANextStep
<1>3. ASSUME NEW m \in in_flight, GiveUp(m)
      PROVE  [Next]_vars
  BY <1>3 DEF GiveUp
<1>4. CASE AnybodyElse
  BY <1>4 DEF AnybodyElse
<1>5. CASE UNCHANGED clientVars
  BY <1>5 DEF clientVars
<1>6. QED
  BY <1>1, <1>2, <1>3, <1>4, <1>5 DEF ClientNext

\* Relayers keep the books exact too: a message that comes twice pays once.
THEOREM RelayedFeesAreBooked ==
  ASSUME max_builder_bps <= 10000
  PROVE  ClientSpec => []FeesAreBooked
<1>1. ClientInit => Countable /\ FeesAreBooked
  BY InitBooks DEF ClientInit
<1>2. ASSUME ClientInv, Countable, FeesAreBooked, [ClientNext]_clientVars
      PROVE  Countable' /\ FeesAreBooked'
  <2>1. [Next]_vars \/ UNCHANGED <<registry, fees>>
    BY <1>2, LedgerOrNothing
  <2>2. CASE [Next]_vars
    BY <1>2, <2>2, NextBooks DEF ClientInv
  <2>3. CASE UNCHANGED <<registry, fees>>
    BY <1>2, <2>3, SameBooks
  <2>4. QED
    BY <2>1, <2>2, <2>3
<1>3. QED
  BY <1>1, <1>2, ClientInvHolds, PTL DEF ClientSpec

\* Whoever relays, and however often: a submitter pays the flat fee when his attestation
\* is stored, whatever share of it the schema routes, unless he is one who receives it.
THEOREM RelayedFeesAreFlat ==
  ASSUME max_builder_bps <= 10000
  PROVE  ClientSpec => FlatFee
<1>1. ASSUME ClientInv, [ClientNext]_clientVars
      PROVE  [FlatFeeStep]_vars
  <2>1. [Next]_vars \/ UNCHANGED <<registry, fees>>
    BY <1>1, LedgerOrNothing
  <2>2. CASE [Next]_vars
    BY <1>1, <2>2, FlatFees DEF ClientInv
  <2>3. CASE UNCHANGED <<registry, fees>>
    BY <2>3 DEF FlatFeeStep, Stored, registry
  <2>4. QED
    BY <2>1, <2>2, <2>3
<1>2. QED
  BY <1>1, ClientInvHolds, PTL DEF ClientSpec, FlatFee

\* A message that could be submitted when it was built can be submitted whenever it
\* arrives, under the same quorum and routing, unless its attestation is stored by then.
THEOREM SignaturesStayGood == ClientSpec => BuiltStaysGood
<1>1. ASSUME ClientInv, [ClientNext]_clientVars
      PROVE  StaysGoodStep
  <2>1. StoredStep /\ signed \subseteq signed'
    BY <1>1, ClientStep
  <2>2. SUFFICES ASSUME NEW m \in in_flight \cap in_flight', Acceptable(m), ~Stored(Id(m))'
                 PROVE  Acceptable(m)' /\ Fields(Id(m))' = Fields(Id(m))
    BY DEF StaysGoodStep
  <2>3. m \in Message
    BY <1>1 DEF ClientInv, MessagesTypeOK
  <2>4. m.digest.schema_id \in SchemaId /\ Id(m)[1] = m.digest.schema_id
    BY <2>3, DigestFields
  <2>5. schemas'[m.digest.schema_id] = schemas[m.digest.schema_id]
    BY <2>1, <2>2, <2>4 DEF Acceptable, StoredStep
  <2>6. Fields(Id(m))' = Fields(Id(m)) /\ Quorum(Id(m))' = Quorum(Id(m))
    BY <2>4, <2>5 DEF Fields, Quorum
  <2>7. ValidSignatures(m.signatures, Quorum(Id(m)), Payload(m))'
    BY <2>1, <2>2, <2>6 DEF Acceptable, ValidSignatures, Payload
  <2>8. Quorum(Id(m))' \in attestor_sets'
    BY <2>1, <2>2, <2>6 DEF Acceptable, StoredStep
  <2>9. QED
    BY <2>2, <2>5, <2>6, <2>7, <2>8 DEF Acceptable
<1>2. QED
  BY <1>1, ClientInvHolds, PTL DEF ClientSpec, BuiltStaysGood

-----------------------------------------------------------------------------
(* AVOW is neither made nor lost                                           *)

Supply == SumFunction(balance)
SupplyKept == Supply' = Supply

LEMMA TransferKeepsSum ==
  ASSUME NEW bal \in [Address -> Int], NEW from \in Address, NEW to \in Address,
         NEW amount \in Int
  PROVE  /\ Transfer(bal, from, to, amount) \in [Address -> Int]
         /\ SumFunction(Transfer(bal, from, to, amount)) = SumFunction(bal)
<1>1. Transfer(bal, from, to, amount) = Moved(bal, from, to, amount)
  BY DEF Transfer, Moved
<1>2. QED
  BY <1>1, FinitenessAssumption, SumMove

LEMMA ChargeKeepsSupply ==
  ASSUME TypeOK, NEW sender \in Address, NEW amount \in Nat, ChargeToTreasury(sender, amount)
  PROVE  SupplyKept
<1>1. balance \in [Address -> Int] /\ amount \in Int /\ treasury \in Address
  BY ParametersAssumption DEF TypeOK, Amount
<1>2. balance' = Transfer(balance, sender, treasury, amount)
  BY DEF ChargeToTreasury
<1>3. QED
  BY <1>1, <1>2, TransferKeepsSum DEF SupplyKept, Supply

LEMMA ChargeBothKeepsSupply ==
  ASSUME TypeOK, NEW sender \in Address, NEW builder \in Address,
         NEW toTreasury \in Nat, NEW toBuilder \in Nat,
         ChargeBoth(sender, builder, toTreasury, toBuilder)
  PROVE  SupplyKept
<1> DEFINE afterTreasury == Transfer(balance, sender, treasury, toTreasury)
<1>1. /\ balance \in [Address -> Int] /\ treasury \in Address
      /\ toTreasury \in Int /\ toBuilder \in Int
  BY ParametersAssumption DEF TypeOK, Amount
<1>2. afterTreasury \in [Address -> Int] /\ SumFunction(afterTreasury) = SumFunction(balance)
  BY <1>1, TransferKeepsSum
<1>3. balance' = Transfer(afterTreasury, sender, builder, toBuilder)
  BY DEF ChargeBoth
<1> HIDE DEF afterTreasury
<1>4. SumFunction(balance') = SumFunction(afterTreasury)
  BY <1>1, <1>2, <1>3, TransferKeepsSum
<1>5. QED
  BY <1>2, <1>4 DEF SupplyKept, Supply

LEMMA NextSupply == ASSUME TypeOK, [Next]_vars PROVE SupplyKept
<1>1. ASSUME NEW sender \in Registrants, NEW members, NEW threshold,
             RegisterAttestorSet(sender, members, threshold)
      PROVE  SupplyKept
  BY <1>1, ChargeKeepsSupply, SendersAssumption, ParametersAssumption
  DEF RegisterAttestorSet, Amount
<1>2. ASSUME NEW sender \in Registrants, NEW name, NEW set, NEW bps, NEW addr,
             RegisterSchema(sender, name, set, bps, addr)
      PROVE  SupplyKept
  BY <1>2, ChargeKeepsSupply, SendersAssumption, ParametersAssumption
  DEF RegisterSchema, Amount
<1>3. ASSUME NEW sender \in Submitters, NEW s \in SchemaId, NEW hash \in PayloadHash,
             NEW signatures, SubmitAttestation(sender, s, hash, signatures)
      PROVE  SupplyKept
  <2>1. schemas[s] \in Schema /\ sender \in Address
    BY <1>3, SendersAssumption DEF SubmitAttestation, TypeOK
  <2>2. schemas[s].fee_routing_bps \in Nat
    BY <2>1, SchemaFields
  <2>3. /\ BuilderShare(attestation_fee, schemas[s].fee_routing_bps) \in Nat
        /\ TreasuryShare(attestation_fee, schemas[s].fee_routing_bps) \in Nat
    BY <2>2, ShareType, ParametersAssumption DEF Amount
  <2>4. CASE schemas[s].fee_routing_addr = None
    BY <1>3, <2>1, <2>3, <2>4, ChargeKeepsSupply DEF SubmitAttestation
  <2>5. CASE schemas[s].fee_routing_addr # None
    <3>1. schemas[s].fee_routing_addr \in Address
      BY <2>1, <2>5, SchemaFields
    <3>2. QED
      BY <1>3, <2>1, <2>3, <2>5, <3>1, ChargeBothKeepsSupply DEF SubmitAttestation
  <2>6. QED
    BY <2>4, <2>5
<1>4. ASSUME NEW key, NEW payload, Sign(key, payload) PROVE SupplyKept
  BY <1>4 DEF Sign, fees, SupplyKept, Supply
<1>5. CASE UNCHANGED vars
  BY <1>5 DEF vars, fees, SupplyKept, Supply
<1>6. QED
  BY <1>1, <1>2, <1>3, <1>4, <1>5 DEF Next

\* Every fee ends up with somebody: however it is split, whoever of the sender, the
\* treasury and the builder are the same, and with relayers too, the balances together
\* stay what they were.
THEOREM FeesKeepTheSupply ==
  (Spec => [][SupplyKept]_vars) /\ (ClientSpec => [][SupplyKept]_vars)
<1>1. IndInv /\ [Next]_vars => SupplyKept
  BY NextSupply DEF IndInv
<1>2. ASSUME ClientInv, [ClientNext]_clientVars
      PROVE  [SupplyKept]_vars
  <2>1. [Next]_vars \/ UNCHANGED <<registry, fees>>
    BY <1>2, LedgerOrNothing
  <2>2. CASE [Next]_vars
    BY <1>1, <1>2, <2>2 DEF ClientInv
  <2>3. CASE UNCHANGED <<registry, fees>>
    BY <2>3 DEF fees, SupplyKept, Supply
  <2>4. QED
    BY <2>1, <2>2, <2>3
<1>3. Spec => [][SupplyKept]_vars
  BY <1>1, IndInvHolds, PTL DEF Spec
<1>4. ClientSpec => [][SupplyKept]_vars
  BY <1>2, ClientInvHolds, PTL DEF ClientSpec
<1>5. QED
  BY <1>3, <1>4

-----------------------------------------------------------------------------
(* The module implements what the ceremony and the marketplaces rely on    *)

LEMMA InitPromises == Init => Chain!Init /\ Ledger!Init
<1> SUFFICES ASSUME Init PROVE Chain!Init /\ Ledger!Init
  OBVIOUS
<1>1. attestor_sets \subseteq AttestorSetId
  BY GenesisAssumption DEF Init
<1>2. Bound \subseteq SchemaId \X attestor_sets
  BY GenesisAssumption DEF Init, Bound, Known
<1>3. \A p, q \in Bound : p[1] = q[1] => p = q
  BY DEF Bound
<1>4. Known \subseteq SchemaId /\ Submitted = {}
  BY DEF Init, Known, Submitted, Stored
<1>5. QED
  BY <1>1, <1>2, <1>3, <1>4 DEF Chain!Init, Ledger!Init

LEMMA BindsOne ==
  ASSUME TypeOK, NEW s \in SchemaId, schemas[s] = None, NEW r \in Schema,
         schemas' = [schemas EXCEPT ![s] = r]
  PROVE  /\ Known' = Known \cup {s} /\ s \notin Known
         /\ Bound' = Bound \cup {<<s, r.attestor_set>>}
         /\ \A p \in Bound : p[1] # s
<1>1. /\ schemas'[s] = r /\ r # None /\ \A x \in SchemaId \ {s} : schemas'[x] = schemas[x]
  BY NoneAssumption DEF TypeOK
<1>2. Known' = Known \cup {s} /\ s \notin Known
  BY <1>1 DEF Known
<1>3. \A p \in Bound : p[1] # s
  BY DEF Bound, Known
<1>4. ASSUME NEW x \in Known PROVE <<x, schemas'[x].attestor_set>> = <<x, schemas[x].attestor_set>>
  BY <1>1, <1>2 DEF Known
<1>5. Bound' = {<<x, schemas'[x].attestor_set>> : x \in Known \cup {s}}
  BY <1>2 DEF Bound
<1>6. QED
  BY <1>1, <1>2, <1>3, <1>4, <1>5 DEF Bound

LEMMA StoresOne ==
  ASSUME TypeOK, NEW a \in AttestationId, ~Stored(a), NEW r \in Attestation,
         attestations' = [attestations EXCEPT ![a] = r]
  PROVE  /\ Submitted' = Submitted \cup {<<a, r.submitter>>}
         /\ \A x \in Submitted : x[1] # a
<1> DEFINE There == {x \in AttestationId : Stored(x)}
<1>1. /\ attestations'[a] = r /\ r # None
      /\ \A x \in AttestationId \ {a} : attestations'[x] = attestations[x]
  BY NoneAssumption DEF TypeOK
<1>2. {x \in AttestationId : Stored(x)'} = There \cup {a} /\ a \notin There
  BY <1>1 DEF Stored
<1>3. \A x \in Submitted : x[1] # a
  BY DEF Submitted
<1>4. ASSUME NEW x \in There
      PROVE  <<x, attestations'[x].submitter>> = <<x, attestations[x].submitter>>
  BY <1>1, <1>2
<1>5. Submitted' = {<<x, attestations'[x].submitter>> : x \in There \cup {a}}
  BY <1>2 DEF Submitted
<1>6. QED
  BY <1>1, <1>2, <1>3, <1>4, <1>5 DEF Submitted

LEMMA SamePromises ==
  ASSUME UNCHANGED registry
  PROVE  UNCHANGED <<attestor_sets, Known, Bound, Submitted>>
BY DEF registry, Known, Bound, Submitted, Stored

LEMMA NextPromises ==
  ASSUME TypeOK, [Next]_vars
  PROVE  [Chain!Next]_<<attestor_sets, Bound>> /\ [Ledger!Next]_<<Known, Submitted>>
<1> DEFINE Goal == [Chain!Next]_<<attestor_sets, Bound>> /\ [Ledger!Next]_<<Known, Submitted>>
<1>1. ASSUME NEW sender \in Registrants, NEW members \in ListsUpTo(MAX_ATTESTOR_SET_MEMBERS),
             NEW threshold \in 0 .. MAX_ATTESTOR_SET_MEMBERS,
             RegisterAttestorSet(sender, members, threshold)
      PROVE  Goal
  <2>1. PICK id \in AttestorSetId : id = DeriveSetId(members, threshold)
    BY SetIdType, ParametersAssumption
  <2>2. UNCHANGED <<Known, Bound, Submitted>>
    BY <1>1 DEF RegisterAttestorSet, Known, Bound, Submitted, Stored
  <2>3. Chain!StoreSet(id)
    BY <1>1, <2>1, <2>2 DEF RegisterAttestorSet, Chain!StoreSet
  <2>4. QED
    BY <2>2, <2>3 DEF Chain!Next
<1>2. ASSUME NEW sender \in Registrants, NEW name \in SchemaName, NEW set \in attestor_sets,
             NEW bps \in FeeBps, NEW addr \in Address \cup {None},
             RegisterSchema(sender, name, set, bps, addr)
      PROVE  Goal
  <2> DEFINE s == <<sender, name>>
             r == [attestor_set |-> set, fee_routing_bps |-> bps, fee_routing_addr |-> addr]
  <2>1. s \in SchemaId /\ r \in Schema /\ set \in AttestorSetId /\ r.attestor_set = set
    BY SendersAssumption, ParametersAssumption DEF SchemaId, Schema, TypeOK
  <2>2. schemas[s] = None /\ schemas' = [schemas EXCEPT ![s] = r] /\ UNCHANGED attestor_sets
    BY <1>2 DEF RegisterSchema
  <2>3. UNCHANGED Submitted
    BY <1>2 DEF RegisterSchema, Submitted, Stored
  <2> HIDE DEF s, r
  <2>4. /\ Known' = Known \cup {s} /\ s \notin Known
        /\ Bound' = Bound \cup {<<s, set>>} /\ \A p \in Bound : p[1] # s
    BY <2>1, <2>2, BindsOne
  <2>5. Chain!Bind(s, set)
    BY <2>2, <2>4 DEF Chain!Bind
  <2>6. Ledger!Register(s)
    BY <2>3, <2>4 DEF Ledger!Register
  <2>7. QED
    BY <2>1, <2>5, <2>6 DEF Chain!Next, Ledger!Next
<1>3. ASSUME NEW sender \in Submitters, NEW s \in SchemaId, NEW hash \in PayloadHash,
             NEW signatures \in ListsUpTo(MAX_ATTESTATION_SIGNATURES),
             SubmitAttestation(sender, s, hash, signatures)
      PROVE  Goal
  <2> DEFINE a == <<s, hash>>
             r == [submitter |-> sender, signatures |-> signatures]
  <2>1. sender \in Address /\ signatures \in Seq(PubKey)
    BY SendersAssumption, ParametersAssumption, ListLength
  <2>2. a \in AttestationId /\ a \in SchemaId \X PayloadHash /\ r \in Attestation
        /\ r.submitter = sender /\ a[1] \in Known
    BY <1>3, <2>1 DEF AttestationId, Attestation, SubmitAttestation, Known
  <2>3. ~Stored(a) /\ attestations' = [attestations EXCEPT ![a] = r]
    BY <1>3 DEF SubmitAttestation, Stored
  <2>4. UNCHANGED <<attestor_sets, Known, Bound>>
    BY <1>3 DEF SubmitAttestation, Known, Bound
  <2> HIDE DEF a, r
  <2>5. Submitted' = Submitted \cup {<<a, sender>>} /\ \A x \in Submitted : x[1] # a
    BY <2>2, <2>3, StoresOne
  <2>6. Ledger!Store(a, sender)
    BY <2>2, <2>4, <2>5 DEF Ledger!Store
  <2>7. QED
    BY <2>1, <2>2, <2>4, <2>6 DEF Ledger!Next
<1>4. ASSUME NEW key, NEW payload, Sign(key, payload) PROVE Goal
  BY <1>4, SamePromises DEF Sign
<1>5. CASE UNCHANGED vars
  BY <1>5, SamePromises DEF vars
<1>6. QED
  BY <1>1, <1>2, <1>3, <1>4, <1>5 DEF Next

\* What the ceremony and the marketplaces rely on is what the module does, alone and
\* with relayers: sets, schemas and attestations are stored once, in the order in which
\* they refer to each other, and an attestation for ever under the same submitter.
THEOREM PromisesAreKept ==
  /\ Spec => ImplementsRegistry /\ ImplementsRecords
  /\ ClientSpec => ImplementsRegistry /\ ImplementsRecords
<1>1. IndInv /\ [Next]_vars
        => [Chain!Next]_<<attestor_sets, Bound>> /\ [Ledger!Next]_<<Known, Submitted>>
  BY NextPromises DEF IndInv
<1>2. ASSUME ClientInv, [ClientNext]_clientVars
      PROVE  [Chain!Next]_<<attestor_sets, Bound>> /\ [Ledger!Next]_<<Known, Submitted>>
  <2>1. [Next]_vars \/ UNCHANGED <<registry, fees>>
    BY <1>2, LedgerOrNothing
  <2>2. CASE [Next]_vars
    BY <1>1, <1>2, <2>2 DEF ClientInv
  <2>3. CASE UNCHANGED registry
    BY <2>3, SamePromises
  <2>4. QED
    BY <2>1, <2>2, <2>3
<1>3. Spec => ImplementsRegistry /\ ImplementsRecords
  BY <1>1, InitPromises, IndInvHolds, PTL
  DEF Spec, ImplementsRegistry, ImplementsRecords, Chain!Spec, Ledger!Spec
<1>4. ClientInit => Chain!Init /\ Ledger!Init
  BY InitPromises DEF ClientInit
<1>5. ClientSpec => ImplementsRegistry /\ ImplementsRecords
  BY <1>2, <1>4, ClientInvHolds, PTL
  DEF ClientSpec, ImplementsRegistry, ImplementsRecords, Chain!Spec, Ledger!Spec
<1>6. QED
  BY <1>3, <1>5

=============================================================================

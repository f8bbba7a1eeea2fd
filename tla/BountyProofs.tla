---------------------------- MODULE BountyProofs ----------------------------
(***************************************************************************)
(* What holds of the bounty module for every set of addresses, boards and  *)
(* attestations, every choice of arguments and every bound.                *)
(***************************************************************************)
EXTENDS Bounty, Sums

-----------------------------------------------------------------------------
(* Ids, records and lists                                                  *)

LEMMA IdParts ==
  ASSUME NEW b \in BountyId
  PROVE  b[1] \in Address /\ b[2] \in SchemaId /\ b[3] \in 0 .. MaxNonce
BY ArgumentsAssumption DEF BountyId

LEMMA KeyOf ==
  ASSUME NEW b \in BountyId, NEW a \in AttestationId
  PROVE  <<b, a>> \in DisputeKey
BY DEF DisputeKey

LEMMA RecordFields ==
  ASSUME NEW r \in BountyState
  PROVE  /\ r # None
         /\ r.poster \in Address /\ r.board_schema_id \in SchemaId
         /\ r.pool \in Nat /\ r.per_attestation \in Nat
         /\ r.expiry \in Nat /\ r.window \in Nat /\ r.status \in BountyStatus
BY NoneAssumption DEF BountyState, Amount

LEMMA DisputeFields ==
  ASSUME NEW d \in DisputeState
  PROVE  d # None /\ d.disputer \in Address /\ d.bond \in Nat
BY NoneAssumption DEF DisputeState, Amount

LEMMA PostedRecord ==
  ASSUME TypeOK, NEW b \in BountyId, Posted(b)
  PROVE  bounties[b] \in BountyState
BY DEF TypeOK, Posted

\* All of a bounty's record but its status.
SameTerms(b) ==
  /\ bounties'[b].poster = bounties[b].poster
  /\ bounties'[b].board_schema_id = bounties[b].board_schema_id
  /\ bounties'[b].pool = bounties[b].pool
  /\ bounties'[b].per_attestation = bounties[b].per_attestation
  /\ bounties'[b].acceptance = bounties[b].acceptance
  /\ bounties'[b].expiry = bounties[b].expiry
  /\ bounties'[b].window = bounties[b].window

\* The record of one bounty moves to a status, and the others stay.
MovesTo(b, st) ==
  /\ bounties' \in [BountyId -> BountyState \cup {None}]
  /\ \A c \in BountyId \ {b} : bounties'[c] = bounties[c]
  /\ Posted(b) /\ bounties'[b] # None /\ bounties'[b].status = st
  /\ SameTerms(b)

LEMMA StatusUpdate ==
  ASSUME TypeOK, NEW b \in BountyId, Posted(b), NEW st \in BountyStatus,
         bounties' = WithStatus(b, st)
  PROVE  MovesTo(b, st)
<1> DEFINE r == [bounties[b] EXCEPT !.status = st]
<1>1. bounties[b] \in BountyState
  BY PostedRecord
<1>2. r \in BountyState
  BY <1>1 DEF BountyState
<1>3. bounties' = [bounties EXCEPT ![b] = r] /\ bounties'[b] = r
  BY DEF WithStatus, TypeOK
<1>4. /\ bounties' \in [BountyId -> BountyState \cup {None}]
      /\ \A c \in BountyId \ {b} : bounties'[c] = bounties[c]
  BY <1>2, <1>3 DEF TypeOK
<1>5. r.status = st /\ SameTerms(b)
  BY <1>1, <1>3 DEF SameTerms, BountyState
<1>6. r # None
  BY <1>2, RecordFields
<1>7. QED
  BY <1>3, <1>4, <1>5, <1>6 DEF MovesTo

LEMMA BatchList ==
  ASSUME NEW batch \in Batch
  PROVE  \E n \in Nat \ {0} : batch \in [1 .. n -> AttestationId] /\ Len(batch) = n
BY BoundsAssumption DEF Batch

LEMMA ClaimsOfType ==
  ASSUME NEW batch \in Batch, NEW address
  PROVE  ClaimsOf(batch, address) \in Nat
<1>1. PICK n \in Nat : batch \in [1 .. n -> AttestationId]
  BY BatchList
<1>2. {i \in DOMAIN batch : attestations[batch[i]] = address} \in SUBSET (1 .. n)
  BY <1>1
<1>3. IsFiniteSet(1 .. n)
  BY FS_Interval
<1>4. Cardinality({i \in DOMAIN batch : attestations[batch[i]] = address}) \in Nat
  BY <1>2, <1>3, FS_Subset, FS_CardinalityType
<1>5. QED
  BY <1>4 DEF ClaimsOf

LEMMA ProductIsNat == \A m \in Nat, n \in Nat : m * n \in Nat
OBVIOUS

LEMMA ProductIsPositive ==
  \A m \in Nat \ {0}, n \in Nat \ {0} : m * n \in Nat /\ m * n >= m
OBVIOUS

\* A transfer that the sender can fund leaves every balance a natural number.
LEMMA TransferType ==
  ASSUME NEW bal \in [Account -> Nat], NEW from \in Account, NEW to \in Account,
         NEW amount \in Nat, CanPay(bal, from, amount)
  PROVE  Transfer(bal, from, to, amount) \in [Account -> Nat]
BY DEF Transfer, CanPay

-----------------------------------------------------------------------------
(* The six kinds of steps                                                  *)

\* PostBounty, in terms of the id and the record it creates.
Opens(b, r) ==
  /\ ~Posted(b) /\ bounties' = [bounties EXCEPT ![b] = r]
  /\ r.status = "Open" /\ r.poster = b[1] /\ r.board_schema_id = b[2]
  /\ r.per_attestation \in 1 .. r.pool
  /\ b[2] \in schemas
  /\ b[3] = next_poster_nonce[b[1]]
  /\ next_poster_nonce' = [next_poster_nonce EXCEPT ![b[1]] = @ + 1]
  /\ CanPay(balance, b[1], r.pool)
  /\ balance' = Transfer(balance, b[1], BountyModule, r.pool)
  /\ escrow' = [escrow EXCEPT ![b] = r.pool]
  /\ HasRoom(b[2])
  /\ open_by_schema' = [open_by_schema EXCEPT ![b[2]] = @ \cup {b}]
  /\ UNCHANGED <<claims, disputing, surroundings>>

\* CancelBounty and FinaliseBounty: the status they set, and why they may.
Closes(b, st) ==
  /\ StatusIs(b, BountyStatus \ {"Cancelled", "Finalised"})
  /\ st \in {"Expired", "Cancelled", "Finalised"}
  /\ st = "Cancelled" => NoClaims(b)
  /\ st = "Finalised" => open_dispute_count[b] = 0 /\ WindowsClosed(b)
  /\ Refund(b)
  /\ bounties' = WithStatus(b, st)
  /\ DropFromIndex(b)
  /\ UNCHANGED <<next_poster_nonce, claims, disputing, surroundings>>

\* A step of the surroundings, which only ever adds to what the module sees.
Outside ==
  /\ UNCHANGED <<record, escrow, claims, disputing, balance>>
  /\ schemas \subseteq schemas' /\ schemas' \subseteq SchemaId
  /\ attestations' \in [AttestationId -> Address \cup {None}]
  /\ \A a \in AttestationId : attestations[a] # None => attestations'[a] = attestations[a]
  /\ rollup_height' \in 1 .. MaxHeight /\ rollup_height' >= rollup_height

LEMMA PostOpens ==
  ASSUME TypeOK, Post
  PROVE  \E b \in BountyId, r \in BountyState : Opens(b, r)
<1>1. PICK poster \in Posters, schema \in SchemaId, pool \in Pools, per \in Payouts,
           acceptance \in Acceptances, expiry \in Expiries, window \in Windows :
        PostBounty(poster, schema, pool, per, acceptance, expiry, window)
  BY DEF Post
<1> DEFINE r == [poster |-> poster, board_schema_id |-> schema, pool |-> pool,
                 per_attestation |-> per, acceptance |-> acceptance,
                 expiry |-> expiry, window |-> window, status |-> "Open"]
<1>2. /\ poster \in Address /\ pool \in Nat /\ per \in Nat
      /\ acceptance \in AcceptancePredicate /\ expiry \in Nat /\ window \in Nat
  BY ArgumentsAssumption
<1>3. r \in BountyState
  BY <1>2 DEF BountyState, BountyStatus, Amount
<1>4. next_poster_nonce[poster] \in 0 .. MaxNonce
  BY <1>1, <1>2, BoundsAssumption DEF PostBounty, TypeOK
<1>5. PICK b \in BountyId : b = <<poster, schema, next_poster_nonce[poster]>>
  BY <1>1, <1>4 DEF BountyId
<1>6. b[1] = poster /\ b[2] = schema /\ b[3] = next_poster_nonce[poster]
  BY <1>5
<1>7. per \in 1 .. pool
  BY <1>1, <1>2 DEF PostBounty
<1>8. Opens(b, r)
  BY <1>1, <1>5, <1>6, <1>7 DEF PostBounty, BumpPosterNonce, Opens
<1>9. QED
  BY <1>3, <1>8

LEMMA CancelCloses ==
  ASSUME NEW b \in BountyId, NEW sender, CancelBounty(b, sender)
  PROVE  \E st \in BountyStatus : Closes(b, st)
BY DEF CancelBounty, Closes, BountyStatus

LEMMA FinaliseCloses ==
  ASSUME NEW b \in BountyId, FinaliseBounty(b)
  PROVE  Closes(b, "Finalised")
BY DEF FinaliseBounty, Finalisable, Closes

LEMMA OutsideSteps ==
  ASSUME TypeOK,
         \/ \E s \in SchemaId : SchemaRegistered(s)
         \/ \E a \in AttestationId, submitter \in Submitters : AttestationStored(a, submitter)
         \/ AdvanceBlock
         \/ UNCHANGED vars
  PROVE  Outside
<1>1. ASSUME NEW s \in SchemaId, SchemaRegistered(s) PROVE Outside
  BY <1>1, BoundsAssumption DEF SchemaRegistered, Outside, TypeOK
<1>2. ASSUME NEW a \in AttestationId, NEW submitter \in Submitters,
             AttestationStored(a, submitter)
      PROVE  Outside
  BY <1>2, ArgumentsAssumption, BoundsAssumption DEF AttestationStored, Outside, TypeOK
<1>3. CASE AdvanceBlock
  BY <1>3, BoundsAssumption DEF AdvanceBlock, Outside, TypeOK
<1>4. CASE UNCHANGED vars
  BY <1>4, BoundsAssumption DEF vars, surroundings, Outside, TypeOK
<1>5. QED
  BY <1>1, <1>2, <1>3, <1>4

LEMMA StepKinds ==
  ASSUME TypeOK, [Next]_vars
  PROVE  \/ \E b \in BountyId, r \in BountyState : Opens(b, r)
         \/ \E b \in BountyId, batch \in Batch : ClaimBounty(b, batch)
         \/ \E b \in BountyId, a \in AttestationId, disputer \in Disputers :
              DisputeAttestation(b, a, disputer)
         \/ \E b \in BountyId, a \in AttestationId, sender \in Address,
               decision \in {"Accept", "Reject"} : ResolveDispute(b, a, sender, decision)
         \/ \E b \in BountyId, st \in BountyStatus : Closes(b, st)
         \/ Outside
<1>1. "Finalised" \in BountyStatus
  BY DEF BountyStatus
<1>2. QED
  BY <1>1, PostOpens, CancelCloses, FinaliseCloses, OutsideSteps DEF Next

-----------------------------------------------------------------------------
(* Claims                                                                  *)

\* What a claim does to everything but the claim heights.
Pays(b, paid, st) ==
  /\ paid <= escrow[b] /\ paid <= balance[BountyModule]
  /\ StatusIs(b, {"Open"}) /\ MovesTo(b, st)
  /\ st = "Open" <=> escrow[b] - paid >= bounties[b].per_attestation
  /\ escrow' = [escrow EXCEPT ![b] = @ - paid]
  /\ balance'[BountyModule] = balance[BountyModule] - paid
  /\ balance' \in [Account -> Nat]
  /\ latest_claim_height' = [latest_claim_height EXCEPT ![b] = LatestClaim(b)]
  /\ UNCHANGED <<open_by_schema, next_poster_nonce, disputing, surroundings>>

LEMMA ClaimEffect ==
  ASSUME TypeOK, EscrowFollowsStatus, RecordsMatchIds,
         NEW b \in BountyId, NEW batch \in Batch, ClaimBounty(b, batch)
  PROVE  \E paid \in Nat \ {0}, st \in {"Open", "Exhausted"} : Pays(b, paid, st)
<1>1. PICK n \in Nat \ {0} : batch \in [1 .. n -> AttestationId] /\ Len(batch) = n
  BY BatchList
<1>2. StatusIs(b, {"Open"}) /\ bounties[b] \in BountyState /\ Posted(b)
  BY PostedRecord DEF ClaimBounty, StatusIs
<1>3. PICK per \in Nat \ {0} : per = bounties[b].per_attestation
  BY <1>2, RecordFields DEF RecordsMatchIds
<1>4. PICK paid \in Nat \ {0} : paid = per * n
  BY ProductIsPositive
<1>5. escrow[b] \in Nat /\ balance[BountyModule] \in Nat /\ balance \in [Account -> Nat]
  BY DEF TypeOK, Account, Amount
<1>6. paid <= escrow[b] /\ paid <= balance[BountyModule]
  BY <1>1, <1>3, <1>4 DEF ClaimBounty, CanPay
<1>7. balance' = [a \in Account |->
                    IF a = BountyModule THEN balance[a] - paid
                                        ELSE balance[a] + per * ClaimsOf(batch, a)]
  BY <1>1, <1>3, <1>4 DEF ClaimBounty
<1>8. balance' \in [Account -> Nat]
  <2>1. ASSUME NEW a \in Account PROVE balance[a] + per * ClaimsOf(batch, a) \in Nat
    BY <1>5, ClaimsOfType, ProductIsNat
  <2>2. balance[BountyModule] - paid \in Nat
    BY <1>5, <1>6
  <2>3. QED
    BY <1>7, <2>1, <2>2
<1>9. escrow' = [escrow EXCEPT ![b] = @ - paid] /\ bounties' = AfterClaim(b, escrow[b] - paid)
  BY <1>1, <1>3, <1>4 DEF ClaimBounty
<1>10. balance'[BountyModule] = balance[BountyModule] - paid
  BY <1>7 DEF Account
<1>11. /\ latest_claim_height' = [latest_claim_height EXCEPT ![b] = LatestClaim(b)]
       /\ UNCHANGED <<open_by_schema, next_poster_nonce, disputing, surroundings>>
  BY DEF ClaimBounty
<1>12. CASE escrow[b] - paid < per
  <2>1. MovesTo(b, "Exhausted")
    BY <1>2, <1>3, <1>9, <1>12, StatusUpdate DEF AfterClaim, BountyStatus
  <2>2. ~(escrow[b] - paid >= bounties[b].per_attestation)
    BY <1>3, <1>5, <1>12
  <2>3. Pays(b, paid, "Exhausted")
    BY <1>2, <1>6, <1>8, <1>9, <1>10, <1>11, <2>1, <2>2 DEF Pays
  <2>4. QED
    BY <2>3
<1>13. CASE ~(escrow[b] - paid < per)
  <2>1. bounties' = bounties
    BY <1>3, <1>9, <1>13 DEF AfterClaim
  <2>2. MovesTo(b, "Open")
    BY <1>2, <2>1 DEF MovesTo, SameTerms, StatusIs, TypeOK, Posted
  <2>3. escrow[b] - paid >= bounties[b].per_attestation
    BY <1>3, <1>5, <1>13
  <2>4. Pays(b, paid, "Open")
    BY <1>2, <1>6, <1>8, <1>9, <1>10, <1>11, <2>2, <2>3 DEF Pays
  <2>5. QED
    BY <2>4
<1>14. QED
  BY <1>12, <1>13

\* The claims of the batch are settled at this height, the others stay.
LEMMA ClaimHeights ==
  ASSUME NEW b \in BountyId, NEW batch \in Batch, ClaimBounty(b, batch),
         NEW c \in BountyId, NEW a \in AttestationId
  PROVE  claim_height'[<<c, a>>] =
           IF c = b /\ a \in Range(batch) THEN rollup_height ELSE claim_height[<<c, a>>]
BY KeyOf DEF ClaimBounty

LEMMA BatchRange ==
  ASSUME NEW batch \in Batch
  PROVE  /\ Range(batch) \subseteq AttestationId /\ Range(batch) # {}
         /\ \A a \in Range(batch) : \E i \in DOMAIN batch : a = batch[i]
<1>1. PICK n \in Nat \ {0} : batch \in [1 .. n -> AttestationId]
  BY BatchList
<1>2. 1 \in DOMAIN batch
  BY <1>1
<1>3. QED
  BY <1>1, <1>2 DEF Range

-----------------------------------------------------------------------------
(* Type correctness                                                        *)

LEMMA InitTypeOK == Init => TypeOK
BY BoundsAssumption DEF Init, TypeOK, Amount, Account

LEMMA OpensType ==
  ASSUME TypeOK, NEW b \in BountyId, NEW r \in BountyState, Opens(b, r)
  PROVE  TypeOK'
<1>1. b[1] \in Address /\ b[2] \in SchemaId /\ r.pool \in Nat
  BY IdParts, RecordFields
<1>2. balance' \in [Account -> Nat]
  BY <1>1, TransferType DEF Opens, TypeOK, Account, Amount
<1>3. next_poster_nonce' \in [Address -> 0 .. MaxNonce + 1]
  BY <1>1, IdParts, BoundsAssumption DEF Opens, TypeOK
<1>4. QED
  BY <1>1, <1>2, <1>3 DEF Opens, TypeOK, claims, disputing, surroundings, Amount

LEMMA ClaimType ==
  ASSUME TypeOK, EscrowFollowsStatus, RecordsMatchIds,
         NEW b \in BountyId, NEW batch \in Batch, ClaimBounty(b, batch)
  PROVE  TypeOK'
<1>1. PICK paid \in Nat \ {0}, st \in {"Open", "Exhausted"} : Pays(b, paid, st)
  BY ClaimEffect
<1>2. rollup_height \in Nat /\ LatestClaim(b) \in Nat
  BY BoundsAssumption DEF TypeOK, LatestClaim
<1>3. claim_height' \in [DisputeKey -> Nat \cup {None}]
  BY <1>2 DEF ClaimBounty, TypeOK
<1>4. escrow' \in [BountyId -> Nat]
  BY <1>1 DEF Pays, TypeOK, Amount
<1>5. QED
  BY <1>1, <1>2, <1>3, <1>4 DEF Pays, TypeOK, MovesTo, disputing, surroundings, Amount

LEMMA DisputeType ==
  ASSUME TypeOK, NEW b \in BountyId, NEW a \in AttestationId, NEW disputer \in Disputers,
         DisputeAttestation(b, a, disputer)
  PROVE  TypeOK'
<1>1. bounties[b].per_attestation \in Nat /\ disputer \in Address
  BY PostedRecord, RecordFields, ArgumentsAssumption DEF DisputeAttestation
<1>2. balance' \in [Account -> Nat]
  BY <1>1, TransferType DEF DisputeAttestation, TypeOK, Account, Amount
<1>3. [disputer |-> disputer, bond |-> bounties[b].per_attestation] \in DisputeState
  BY <1>1 DEF DisputeState, Amount
<1>4. disputes' \in [DisputeKey -> DisputeState \cup {None}]
  BY <1>3 DEF DisputeAttestation, TypeOK
<1>5. open_dispute_count' \in [BountyId -> Nat]
  BY DEF DisputeAttestation, TypeOK
<1>6. QED
  BY <1>2, <1>4, <1>5 DEF DisputeAttestation, TypeOK, record, claims, surroundings, Amount

LEMMA ResolveType ==
  ASSUME TypeOK, NEW b \in BountyId, NEW a \in AttestationId, NEW sender, NEW decision,
         ResolveDispute(b, a, sender, decision)
  PROVE  TypeOK'
<1>1. disputes[<<b, a>>] \in DisputeState
  BY KeyOf DEF ResolveDispute, TypeOK
<1>2. /\ disputes[<<b, a>>].disputer \in Address /\ disputes[<<b, a>>].bond \in Nat
      /\ bounties[b].poster \in Address
  BY <1>1, DisputeFields, PostedRecord, RecordFields DEF ResolveDispute
<1>3. balance' \in [Account -> Nat]
  BY <1>2, TransferType DEF ResolveDispute, TypeOK, Account, Amount
<1>4. open_dispute_count' \in [BountyId -> Nat]
  BY DEF ResolveDispute, CountDisputeClosed, TypeOK
<1>5. QED
  BY <1>3, <1>4 DEF ResolveDispute, TypeOK, record, claims, surroundings, Amount

LEMMA ClosesType ==
  ASSUME TypeOK, NEW b \in BountyId, NEW st \in BountyStatus, Closes(b, st)
  PROVE  TypeOK' /\ MovesTo(b, st) /\ bounties[b] \in BountyState
<1>1. Posted(b) /\ bounties[b] \in BountyState /\ MovesTo(b, st)
  BY PostedRecord, StatusUpdate DEF Closes, StatusIs
<1>2. bounties[b].poster \in Address /\ bounties[b].board_schema_id \in SchemaId
  BY <1>1, RecordFields
<1>3. balance' \in [Account -> Nat]
  BY <1>2, TransferType DEF Closes, Refund, TypeOK, Account, Amount
<1>4. open_by_schema' \in [SchemaId -> SUBSET BountyId] /\ escrow' \in [BountyId -> Nat]
  BY <1>2 DEF Closes, DropFromIndex, Refund, TypeOK, Amount
<1>5. QED
  BY <1>1, <1>3, <1>4 DEF Closes, MovesTo, TypeOK, claims, disputing, surroundings, Amount

LEMMA OutsideType == TypeOK /\ Outside => TypeOK'
BY DEF Outside, TypeOK, record, claims, disputing

-----------------------------------------------------------------------------
(* The inductive invariant                                                 *)

\* Without a claim there is no dispute, and the count of a bounty says so.
LEMMA NoClaimNoDispute ==
  ASSUME IndInv, NEW b \in BountyId, latest_claim_height[b] = 0
  PROVE  /\ \A a \in AttestationId : claim_height[<<b, a>>] = None
         /\ OpenDisputes(b) = {} /\ open_dispute_count[b] = 0
<1>1. \A a \in AttestationId : claim_height[<<b, a>>] = None
  BY DEF IndInv, LatestClaimCoversAll
<1>2. OpenDisputes(b) = {}
  BY <1>1 DEF IndInv, DisputesAreCounted, OpenDisputes
<1>3. open_dispute_count[b] = 0
  BY <1>2, FS_EmptySet DEF IndInv, DisputesAreCounted
<1>4. QED
  BY <1>1, <1>2, <1>3

LEMMA FiniteParts ==
  /\ \A T : T \subseteq BountyId => IsFiniteSet(T) /\ Cardinality(T) \in Nat
  /\ \A b \in BountyId : IsFiniteSet(OpenDisputes(b)) /\ Cardinality(OpenDisputes(b)) \in Nat
<1>1. IsFiniteSet(BountyId) /\ IsFiniteSet(AttestationId)
  BY BoardsAssumption
<1>2. \A b \in BountyId : OpenDisputes(b) \in SUBSET AttestationId
  BY DEF OpenDisputes
<1>3. QED
  BY <1>1, <1>2, FS_Subset, FS_CardinalityType

LEMMA InitIndInv == Init => IndInv
<1> SUFFICES ASSUME Init PROVE IndInv
  OBVIOUS
<1>1. TypeOK
  BY InitTypeOK
<1>2. /\ \A b \in BountyId : ~Posted(b)
      /\ \A b \in BountyId, a \in AttestationId :
           claim_height[<<b, a>>] = None /\ disputes[<<b, a>>] = None
  BY KeyOf DEF Init, Posted
<1>3. \A b \in BountyId : escrow[b] = 0 /\ latest_claim_height[b] = 0
                          /\ open_dispute_count[b] = 0
  BY DEF Init
<1>4. EscrowFollowsStatus /\ ClaimsAreAcceptable /\ RecordsMatchIds /\ ClaimedIsNotCancelled
  BY <1>2, <1>3
  DEF EscrowFollowsStatus, StatusIs, ClaimsAreAcceptable, RecordsMatchIds, ClaimedIsNotCancelled
<1>5. LatestClaimCoversAll
  BY <1>2, <1>3 DEF LatestClaimCoversAll, Init
<1>6. DisputesAreCounted
  <2>1. \A b \in BountyId : OpenDisputes(b) = {}
    BY <1>2 DEF OpenDisputes
  <2>2. QED
    BY <1>3, <2>1, FS_EmptySet DEF DisputesAreCounted
<1>7. ClosedIsQuiet
  BY <1>2 DEF ClosedIsQuiet, Closed, StatusIs
<1>8. IndexListsUnsettled
  <2>1. \A s \in SchemaId : open_by_schema[s] = {}
    BY DEF Init
  <2>2. Cardinality({}) = 0
    BY FS_EmptySet
  <2>3. QED
    BY <1>2, <2>1, <2>2, BoundsAssumption DEF IndexListsUnsettled, StatusIs
<1>9. QED
  BY <1>1, <1>4, <1>5, <1>6, <1>7, <1>8 DEF IndInv

LEMMA OpensIndInv ==
  ASSUME IndInv, NEW b \in BountyId, NEW r \in BountyState, Opens(b, r)
  PROVE  IndInv'
<1>0. TypeOK /\ TypeOK' /\ r # None /\ r.pool \in Nat
  BY OpensType, RecordFields DEF IndInv
<1>1. /\ bounties'[b] = r /\ bounties[b] = None
      /\ \A c \in BountyId \ {b} : bounties'[c] = bounties[c]
      /\ escrow'[b] = r.pool
      /\ \A c \in BountyId \ {b} : escrow'[c] = escrow[c]
      /\ UNCHANGED <<claims, disputing, surroundings>>
  BY <1>0 DEF Opens, TypeOK, Posted
<1>2. /\ r.status = "Open" /\ r.poster = b[1] /\ r.board_schema_id = b[2]
      /\ r.per_attestation \in 1 .. r.pool /\ b[2] \in schemas
  BY DEF Opens
<1>3. latest_claim_height[b] = 0
  BY <1>0, <1>1 DEF IndInv, ClaimedIsNotCancelled, TypeOK, Posted
<1>4. EscrowFollowsStatus'
  BY <1>0, <1>1, <1>2 DEF IndInv, EscrowFollowsStatus, StatusIs, Posted
<1>5. ClaimsAreAcceptable'
  BY <1>1, <1>3, NoClaimNoDispute DEF IndInv, ClaimsAreAcceptable, Posted, claims, surroundings
<1>6. LatestClaimCoversAll'
  BY <1>1 DEF IndInv, LatestClaimCoversAll, claims, surroundings
<1>7. DisputesAreCounted'
  <2>1. \A c \in BountyId : OpenDisputes(c)' = OpenDisputes(c)
    BY <1>1 DEF OpenDisputes, disputing
  <2>2. QED
    BY <1>1, <1>3, <2>1, NoClaimNoDispute DEF IndInv, DisputesAreCounted, disputing, claims
<1>8. ClosedIsQuiet'
  BY <1>1, <1>2
  DEF IndInv, ClosedIsQuiet, Closed, StatusIs, Posted, WindowsClosed, disputing, claims,
      surroundings
<1>9. ClaimedIsNotCancelled'
  BY <1>1, <1>3 DEF IndInv, ClaimedIsNotCancelled, StatusIs, Posted, claims
<1>10. IndexListsUnsettled'
  <2>1. ASSUME NEW s \in SchemaId, s # b[2]
        PROVE  /\ open_by_schema'[s] =
                    {c \in BountyId : StatusIs(c, {"Open", "Exhausted"}) /\ c[2] = s}'
               /\ Cardinality(open_by_schema'[s]) <= MAX_OPEN_BOUNTIES_PER_SCHEMA
    <3>1. open_by_schema'[s] = open_by_schema[s]
      BY <1>0, <2>1 DEF Opens, TypeOK
    <3>2. QED
      BY <1>1, <2>1, <3>1 DEF IndInv, IndexListsUnsettled, StatusIs, Posted
  <2>2. b[2] \in SchemaId
    BY IdParts
  <2>3. open_by_schema'[b[2]] = open_by_schema[b[2]] \cup {b}
    BY <1>0, <2>2 DEF Opens, TypeOK
  <2>4. open_by_schema'[b[2]] =
          {c \in BountyId : StatusIs(c, {"Open", "Exhausted"}) /\ c[2] = b[2]}'
    BY <1>0, <1>1, <1>2, <2>2, <2>3 DEF IndInv, IndexListsUnsettled, StatusIs, Posted
  <2>5. Cardinality(open_by_schema'[b[2]]) <= MAX_OPEN_BOUNTIES_PER_SCHEMA
    <3>1. /\ IsFiniteSet(open_by_schema[b[2]])
          /\ Cardinality(open_by_schema[b[2]]) \in Nat
      BY <1>0, <2>2, FiniteParts DEF TypeOK
    <3>2. Cardinality(open_by_schema'[b[2]]) \in
            {Cardinality(open_by_schema[b[2]]), Cardinality(open_by_schema[b[2]]) + 1}
      <4>1. Cardinality(open_by_schema[b[2]] \cup {b}) \in
              {Cardinality(open_by_schema[b[2]]), Cardinality(open_by_schema[b[2]]) + 1}
        BY <3>1, FS_AddElement, Zenon
      <4>2. QED
        BY <2>3, <4>1
    <3>3. Cardinality(open_by_schema'[b[2]]) \in Nat
      BY <1>0, <2>2, FiniteParts DEF TypeOK
    <3>4. Cardinality(open_by_schema[b[2]]) < MAX_OPEN_BOUNTIES_PER_SCHEMA
      BY DEF Opens, HasRoom
    <3>5. QED
      BY <3>1, <3>2, <3>3, <3>4, BoundsAssumption
  <2>6. QED
    BY <2>1, <2>4, <2>5 DEF IndexListsUnsettled
<1>11. RecordsMatchIds'
  <2>1. \A c \in BountyId :
          c[1] \in Address /\ next_poster_nonce[c[1]] \in Nat
    BY <1>0, IdParts, BoundsAssumption DEF TypeOK
  <2>2. \A c \in BountyId : next_poster_nonce'[c[1]] >= next_poster_nonce[c[1]]
    BY <1>0, <2>1, IdParts DEF Opens, TypeOK
  <2>3. b[3] < next_poster_nonce'[b[1]]
    BY <1>0, <2>1 DEF Opens, TypeOK
  <2>4. ASSUME NEW c \in BountyId \ {b}, Posted(c) PROVE c[3] < next_poster_nonce'[c[1]]
    <3>1. c[3] < next_poster_nonce[c[1]] /\ c[3] \in Nat
      BY <2>4, IdParts, BoundsAssumption DEF IndInv, RecordsMatchIds
    <3>2. next_poster_nonce'[c[1]] \in Nat
      BY <1>0, IdParts, BoundsAssumption DEF TypeOK
    <3>3. QED
      BY <2>1, <2>2, <3>1, <3>2
  <2>5. QED
    BY <1>1, <1>2, <2>3, <2>4 DEF IndInv, RecordsMatchIds, Posted, surroundings
<1>12. QED
  BY <1>0, <1>4, <1>5, <1>6, <1>7, <1>8, <1>9, <1>10, <1>11 DEF IndInv

LEMMA ClaimIndInv ==
  ASSUME IndInv, NEW b \in BountyId, NEW batch \in Batch, ClaimBounty(b, batch)
  PROVE  IndInv'
<1>0. TypeOK /\ TypeOK' /\ bounties[b] \in BountyState
  BY ClaimType, PostedRecord DEF IndInv, ClaimBounty, StatusIs
<1>1. PICK paid \in Nat \ {0}, st \in {"Open", "Exhausted"} : Pays(b, paid, st)
  BY ClaimEffect DEF IndInv
<1>2. /\ \A c \in BountyId \ {b} : bounties'[c] = bounties[c]
      /\ Posted(b) /\ bounties[b].status = "Open"
      /\ bounties'[b] # None /\ bounties'[b].status = st /\ SameTerms(b)
      /\ escrow'[b] = escrow[b] - paid /\ paid <= escrow[b]
      /\ \A c \in BountyId \ {b} : escrow'[c] = escrow[c]
      /\ UNCHANGED <<open_by_schema, next_poster_nonce, disputing, surroundings>>
  BY <1>0, <1>1 DEF Pays, MovesTo, StatusIs, TypeOK
<1>3. /\ bounties[b].per_attestation \in Nat \ {0} /\ bounties[b].pool \in Nat
      /\ escrow[b] \in bounties[b].per_attestation .. bounties[b].pool
  BY <1>0, <1>2, RecordFields
  DEF IndInv, EscrowFollowsStatus, StatusIs, RecordsMatchIds
<1>4. /\ rollup_height \in Nat \ {0}
      /\ \A c \in BountyId : /\ latest_claim_height[c] \in Nat
                             /\ latest_claim_height[c] <= rollup_height
  BY <1>0, BoundsAssumption DEF IndInv, TypeOK, LatestClaimCoversAll
<1>5. /\ latest_claim_height'[b] = rollup_height
      /\ \A c \in BountyId \ {b} : latest_claim_height'[c] = latest_claim_height[c]
  BY <1>0, <1>1, <1>4 DEF Pays, LatestClaim, TypeOK
<1>6. /\ \A c \in BountyId, a \in AttestationId :
           claim_height'[<<c, a>>] =
             IF c = b /\ a \in Range(batch) THEN rollup_height ELSE claim_height[<<c, a>>]
      /\ rollup_height # None
  BY <1>4, ClaimHeights, NoneAssumption
<1>7. EscrowFollowsStatus'
  <2>1. st = "Open" <=> escrow'[b] >= bounties[b].per_attestation
    BY <1>1, <1>2 DEF Pays
  <2>2. escrow'[b] \in Nat /\ escrow'[b] <= bounties[b].pool
    BY <1>2, <1>3
  <2>3. QED
    BY <1>2, <1>3, <2>1, <2>2 DEF IndInv, EscrowFollowsStatus, StatusIs, Posted, SameTerms
<1>8. ClaimsAreAcceptable'
  <2>1. ASSUME NEW a \in Range(batch)
        PROVE  /\ attestations[a] # None
               /\ a[1] = bounties[b].board_schema_id
               /\ bounties[b].acceptance.kind = "PayloadHashes" =>
                    a[2] \in bounties[b].acceptance.hashes
               /\ bounties[b].acceptance.kind = "PeerCount" =>
                    bounties[b].acceptance.min_attestors <= 1
    <3>1. PICK i \in DOMAIN batch : a = batch[i]
      BY BatchRange
    <3>2. attestations[batch[i]] # None /\ Acceptable(b, batch[i])
      BY DEF ClaimBounty
    <3>3. bounties[b].acceptance.kind = "PeerCount" =>
            1 >= bounties[b].acceptance.min_attestors
      BY <3>2 DEF Acceptable, MatchesAcceptance
    <3>4. QED
      BY <3>1, <3>2, <3>3 DEF Acceptable, MatchesAcceptance
  <2>2. QED
    BY <1>2, <1>6, <2>1 DEF IndInv, ClaimsAreAcceptable, Posted, SameTerms, surroundings
<1>9. LatestClaimCoversAll'
  <2>1. rollup_height' = rollup_height
    BY <1>2 DEF surroundings
  <2>2. ASSUME NEW c \in BountyId, NEW a \in AttestationId, claim_height'[<<c, a>>] # None
        PROVE  claim_height'[<<c, a>>] \in 1 .. latest_claim_height'[c]
    <3>1. CASE c = b /\ a \in Range(batch)
      BY <1>4, <1>5, <1>6, <3>1
    <3>2. CASE ~(c = b /\ a \in Range(batch))
      <4>1. claim_height'[<<c, a>>] = claim_height[<<c, a>>]
        BY <1>6, <3>2
      <4>2. claim_height[<<c, a>>] \in 1 .. latest_claim_height[c]
        BY <2>2, <4>1 DEF IndInv, LatestClaimCoversAll
      <4>3. latest_claim_height'[c] \in Nat /\ latest_claim_height'[c] >= latest_claim_height[c]
        BY <1>4, <1>5
      <4>4. QED
        BY <1>4, <4>1, <4>2, <4>3
    <3>3. QED
      BY <3>1, <3>2
  <2>3. ASSUME NEW c \in BountyId, latest_claim_height'[c] > 0
        PROVE  \E a \in AttestationId : claim_height'[<<c, a>>] = latest_claim_height'[c]
    <3>1. CASE c = b
      <4>1. PICK a \in AttestationId : a \in Range(batch)
        BY BatchRange
      <4>2. QED
        BY <1>5, <1>6, <3>1, <4>1
    <3>2. CASE c # b
      BY <1>5, <1>6, <2>3, <3>2 DEF IndInv, LatestClaimCoversAll
    <3>3. QED
      BY <3>1, <3>2
  <2>4. \A c \in BountyId : latest_claim_height'[c] <= rollup_height
    BY <1>4, <1>5
  <2>5. QED
    BY <2>1, <2>2, <2>3, <2>4 DEF LatestClaimCoversAll
<1>10. DisputesAreCounted'
  <2>1. \A c \in BountyId : OpenDisputes(c)' = OpenDisputes(c)
    BY <1>2 DEF OpenDisputes, disputing
  <2>2. \A c \in BountyId : bounties'[c].per_attestation = bounties[c].per_attestation
    BY <1>2 DEF SameTerms
  <2>3. QED
    BY <1>2, <1>6, <2>1, <2>2 DEF IndInv, DisputesAreCounted, OpenDisputes, disputing
<1>11. ClosedIsQuiet'
  BY <1>2, <1>5
  DEF IndInv, ClosedIsQuiet, Closed, StatusIs, Posted, WindowsClosed, disputing, surroundings
<1>12. ClaimedIsNotCancelled'
  <2>1. escrow'[b] < bounties'[b].pool
    BY <1>2, <1>3 DEF SameTerms
  <2>2. QED
    BY <1>2, <1>5, <2>1 DEF IndInv, ClaimedIsNotCancelled, StatusIs, Posted
<1>13. IndexListsUnsettled'
  BY <1>2 DEF IndInv, IndexListsUnsettled, StatusIs, Posted
<1>14. RecordsMatchIds'
  BY <1>2 DEF IndInv, RecordsMatchIds, Posted, SameTerms, surroundings
<1>15. QED
  BY <1>0, <1>7, <1>8, <1>9, <1>10, <1>11, <1>12, <1>13, <1>14 DEF IndInv

\* Opening and resolving a dispute leave these conjuncts alone.
LEMMA DisputesTouchNothingElse ==
  ASSUME IndInv, UNCHANGED <<record, escrow, claims, surroundings>>
  PROVE  /\ EscrowFollowsStatus' /\ ClaimsAreAcceptable' /\ LatestClaimCoversAll'
         /\ ClaimedIsNotCancelled' /\ IndexListsUnsettled' /\ RecordsMatchIds'
<1>1. EscrowFollowsStatus'
  BY DEF IndInv, record, EscrowFollowsStatus, StatusIs, Posted
<1>2. ClaimsAreAcceptable'
  BY DEF IndInv, record, claims, surroundings, ClaimsAreAcceptable, Posted
<1>3. LatestClaimCoversAll'
  BY DEF IndInv, claims, surroundings, LatestClaimCoversAll
<1>4. ClaimedIsNotCancelled'
  BY DEF IndInv, record, claims, ClaimedIsNotCancelled, StatusIs, Posted
<1>5. IndexListsUnsettled'
  BY DEF IndInv, record, IndexListsUnsettled, StatusIs, Posted
<1>6. RecordsMatchIds'
  BY DEF IndInv, record, surroundings, RecordsMatchIds, Posted
<1>7. QED
  BY <1>1, <1>2, <1>3, <1>4, <1>5, <1>6

\* A dispute needs a window that is still open, and a closed bounty has none.
LEMMA DisputedIsNotClosed ==
  ASSUME IndInv, NEW b \in BountyId, NEW a \in AttestationId, NEW disputer,
         DisputeAttestation(b, a, disputer)
  PROVE  ~Closed(b)
<1>1. /\ claim_height[<<b, a>>] \in 1 .. latest_claim_height[b]
      /\ latest_claim_height[b] \in Nat /\ rollup_height \in Nat
      /\ bounties[b].window \in Nat
  BY PostedRecord, RecordFields, BoundsAssumption
  DEF DisputeAttestation, IndInv, LatestClaimCoversAll, TypeOK
<1>2. rollup_height <= claim_height[<<b, a>>] + bounties[b].window
  BY DEF DisputeAttestation
<1>3. ~WindowsClosed(b)
  BY <1>1, <1>2 DEF WindowsClosed
<1>4. QED
  BY <1>3 DEF IndInv, ClosedIsQuiet

LEMMA DisputeIndInv ==
  ASSUME IndInv, NEW b \in BountyId, NEW a \in AttestationId, NEW disputer \in Disputers,
         DisputeAttestation(b, a, disputer)
  PROVE  IndInv'
<1>0. TypeOK /\ TypeOK' /\ UNCHANGED <<record, escrow, claims, surroundings>>
  BY DisputeType DEF IndInv, DisputeAttestation
<1>1. [disputer |-> disputer, bond |-> bounties[b].per_attestation] # None
  <2>1. bounties[b].per_attestation \in Nat /\ disputer \in Address
    BY <1>0, PostedRecord, RecordFields, ArgumentsAssumption DEF DisputeAttestation
  <2>2. [disputer |-> disputer, bond |-> bounties[b].per_attestation] \in DisputeState
    BY <2>1 DEF DisputeState, Amount
  <2>3. QED
    BY <2>2, DisputeFields
<1>2. /\ disputes[<<b, a>>] = None /\ claim_height[<<b, a>>] # None
      /\ disputes'[<<b, a>>] =
           [disputer |-> disputer, bond |-> bounties[b].per_attestation]
      /\ open_dispute_count'[b] = open_dispute_count[b] + 1
  BY <1>0, KeyOf DEF DisputeAttestation, TypeOK
<1>3. /\ \A c \in BountyId, d \in AttestationId : <<c, d>> # <<b, a>> =>
           disputes'[<<c, d>>] = disputes[<<c, d>>]
      /\ \A c \in BountyId \ {b} : open_dispute_count'[c] = open_dispute_count[c]
  BY <1>0, KeyOf DEF DisputeAttestation, TypeOK
<1>4. DisputesAreCounted'
  <2>1. OpenDisputes(b)' = OpenDisputes(b) \cup {a} /\ a \notin OpenDisputes(b)
    BY <1>1, <1>2, <1>3 DEF OpenDisputes
  <2>2. \A c \in BountyId \ {b} : OpenDisputes(c)' = OpenDisputes(c)
    BY <1>3 DEF OpenDisputes
  <2>3. Cardinality(OpenDisputes(b) \cup {a}) = Cardinality(OpenDisputes(b)) + 1
    BY <2>1, FiniteParts, FS_AddElement
  <2>4. \A c \in BountyId : open_dispute_count'[c] = Cardinality(OpenDisputes(c)')
    <3>1. open_dispute_count[b] = Cardinality(OpenDisputes(b))
      BY DEF IndInv, DisputesAreCounted
    <3>2. open_dispute_count'[b] = Cardinality(OpenDisputes(b)')
      BY <1>2, <2>1, <2>3, <3>1
    <3>3. \A c \in BountyId \ {b} : open_dispute_count'[c] = Cardinality(OpenDisputes(c)')
      BY <1>3, <2>2 DEF IndInv, DisputesAreCounted
    <3>4. QED
      BY <3>2, <3>3
  <2>5. ASSUME NEW c \in BountyId, NEW d \in AttestationId, disputes'[<<c, d>>] # None
        PROVE  /\ claim_height'[<<c, d>>] # None
               /\ disputes'[<<c, d>>].bond = bounties'[c].per_attestation
    <3>1. CASE <<c, d>> = <<b, a>>
      BY <1>0, <1>2, <3>1 DEF record, claims
    <3>2. CASE <<c, d>> # <<b, a>>
      <4>1. disputes[<<c, d>>] # None /\ disputes'[<<c, d>>] = disputes[<<c, d>>]
        BY <1>3, <2>5, <3>2
      <4>2. d \in OpenDisputes(c)
        BY <4>1 DEF OpenDisputes
      <4>3. claim_height[<<c, d>>] # None /\ disputes[<<c, d>>].bond = bounties[c].per_attestation
        BY <4>2, Zenon DEF IndInv, DisputesAreCounted
      <4>4. QED
        BY <1>0, <4>1, <4>3 DEF record, claims
    <3>3. QED
      BY <3>1, <3>2
  <2>6. QED
    BY <2>4, <2>5 DEF DisputesAreCounted, OpenDisputes
<1>5. ClosedIsQuiet'
  <2>1. ~Closed(b)
    BY DisputedIsNotClosed
  <2>2. \A c \in BountyId : /\ Closed(c)' <=> Closed(c)
                            /\ WindowsClosed(c)' <=> WindowsClosed(c)
    BY <1>0 DEF Closed, StatusIs, Posted, WindowsClosed, record, claims, surroundings
  <2>3. QED
    BY <1>3, <2>1, <2>2 DEF IndInv, ClosedIsQuiet
<1>6. QED
  BY <1>0, <1>4, <1>5, DisputesTouchNothingElse DEF IndInv

LEMMA ResolveIndInv ==
  ASSUME IndInv, NEW b \in BountyId, NEW a \in AttestationId, NEW sender, NEW decision,
         ResolveDispute(b, a, sender, decision)
  PROVE  IndInv'
<1>0. TypeOK /\ TypeOK' /\ UNCHANGED <<record, escrow, claims, surroundings>>
  BY ResolveType DEF IndInv, ResolveDispute
<1>1. a \in OpenDisputes(b) /\ disputes'[<<b, a>>] = None
  BY <1>0, KeyOf DEF ResolveDispute, TypeOK, OpenDisputes
<1>2. /\ \A c \in BountyId, d \in AttestationId : <<c, d>> # <<b, a>> =>
           disputes'[<<c, d>>] = disputes[<<c, d>>]
      /\ \A c \in BountyId \ {b} : open_dispute_count'[c] = open_dispute_count[c]
  BY <1>0, KeyOf DEF ResolveDispute, CountDisputeClosed, TypeOK
<1>3. Cardinality(OpenDisputes(b) \ {a}) = Cardinality(OpenDisputes(b)) - 1
  BY <1>1, FiniteParts, FS_RemoveElement
<1>4. Cardinality(OpenDisputes(b) \ {a}) \in Nat /\ Cardinality(OpenDisputes(b)) \in Nat
  BY FiniteParts, FS_RemoveElement, FS_CardinalityType
<1>5. open_dispute_count'[b] = Cardinality(OpenDisputes(b) \ {a})
  <2>1. open_dispute_count[b] = Cardinality(OpenDisputes(b))
    BY DEF IndInv, DisputesAreCounted
  <2>2. open_dispute_count[b] > 0
    BY <1>3, <1>4, <2>1
  <2>3. open_dispute_count'[b] = open_dispute_count[b] - 1
    BY <1>0, <2>2 DEF ResolveDispute, CountDisputeClosed, TypeOK
  <2>4. QED
    BY <1>3, <2>1, <2>3
<1>6. DisputesAreCounted'
  <2>1. OpenDisputes(b)' = OpenDisputes(b) \ {a}
    BY <1>1, <1>2 DEF OpenDisputes
  <2>2. \A c \in BountyId \ {b} : OpenDisputes(c)' = OpenDisputes(c)
    BY <1>2 DEF OpenDisputes
  <2>3. \A c \in BountyId : open_dispute_count'[c] = Cardinality(OpenDisputes(c)')
    BY <1>2, <1>5, <2>1, <2>2 DEF IndInv, DisputesAreCounted
  <2>4. ASSUME NEW c \in BountyId, NEW d \in AttestationId, disputes'[<<c, d>>] # None
        PROVE  /\ claim_height'[<<c, d>>] # None
               /\ disputes'[<<c, d>>].bond = bounties'[c].per_attestation
    <3>1. <<c, d>> # <<b, a>>
      BY <1>1, <2>4
    <3>2. disputes[<<c, d>>] # None /\ disputes'[<<c, d>>] = disputes[<<c, d>>]
      BY <1>2, <2>4, <3>1
    <3>3. d \in OpenDisputes(c)
      BY <3>2 DEF OpenDisputes
    <3>4. claim_height[<<c, d>>] # None /\ disputes[<<c, d>>].bond = bounties[c].per_attestation
      BY <3>3, Zenon DEF IndInv, DisputesAreCounted
    <3>5. QED
      BY <1>0, <3>2, <3>4 DEF record, claims
  <2>5. QED
    BY <2>3, <2>4 DEF DisputesAreCounted, OpenDisputes
<1>7. ClosedIsQuiet'
  <2>1. open_dispute_count[b] # 0
    BY <1>3, <1>4 DEF IndInv, DisputesAreCounted
  <2>2. \A c \in BountyId : /\ Closed(c)' <=> Closed(c)
                            /\ WindowsClosed(c)' <=> WindowsClosed(c)
    BY <1>0 DEF Closed, StatusIs, Posted, WindowsClosed, record, claims, surroundings
  <2>3. QED
    BY <1>2, <2>1, <2>2 DEF IndInv, ClosedIsQuiet
<1>8. QED
  BY <1>0, <1>6, <1>7, DisputesTouchNothingElse DEF IndInv

\* Only a bounty without claims is cancelled outright.
LEMMA CancelledIsUnclaimed ==
  ASSUME IndInv, NEW b \in BountyId, Closes(b, "Cancelled")
  PROVE  latest_claim_height[b] = 0
<1>1. Posted(b) /\ bounties[b] \in BountyState
  BY PostedRecord DEF IndInv, Closes, StatusIs
<1>2. escrow[b] = bounties[b].pool /\ bounties[b].pool \in Nat
  BY <1>1, RecordFields DEF Closes, NoClaims
<1>3. latest_claim_height[b] \in Nat
  BY DEF IndInv, TypeOK
<1>4. QED
  BY <1>2, <1>3 DEF IndInv, ClaimedIsNotCancelled

LEMMA ClosesIndInv ==
  ASSUME IndInv, NEW b \in BountyId, NEW st \in BountyStatus, Closes(b, st)
  PROVE  IndInv'
<1>0. TypeOK /\ TypeOK' /\ MovesTo(b, st) /\ bounties[b] \in BountyState
  BY ClosesType DEF IndInv
<1>1. /\ \A c \in BountyId \ {b} : bounties'[c] = bounties[c]
      /\ Posted(b) /\ bounties'[b] # None /\ bounties'[b].status = st /\ SameTerms(b)
      /\ st \in {"Expired", "Cancelled", "Finalised"}
      /\ UNCHANGED <<next_poster_nonce, claims, disputing, surroundings>>
  BY <1>0 DEF MovesTo, Closes
<1>2. /\ escrow'[b] = 0
      /\ \A c \in BountyId \ {b} : escrow'[c] = escrow[c]
  BY <1>0 DEF Closes, Refund, TypeOK
<1>3. st = "Cancelled" => latest_claim_height[b] = 0
  BY CancelledIsUnclaimed
<1>4. EscrowFollowsStatus'
  BY <1>1, <1>2 DEF IndInv, EscrowFollowsStatus, StatusIs, Posted
<1>5. ClaimsAreAcceptable'
  BY <1>1 DEF IndInv, ClaimsAreAcceptable, Posted, SameTerms, claims, surroundings
<1>6. LatestClaimCoversAll'
  BY <1>1 DEF IndInv, LatestClaimCoversAll, claims, surroundings
<1>7. DisputesAreCounted'
  <2>1. \A c \in BountyId : OpenDisputes(c)' = OpenDisputes(c)
    BY <1>1 DEF OpenDisputes, disputing
  <2>2. \A c \in BountyId : bounties'[c].per_attestation = bounties[c].per_attestation
    BY <1>1 DEF SameTerms
  <2>3. QED
    BY <1>1, <2>1, <2>2 DEF IndInv, DisputesAreCounted, disputing, claims
<1>8. ClosedIsQuiet'
  <2>1. ASSUME Closed(b)' PROVE open_dispute_count'[b] = 0 /\ WindowsClosed(b)'
    <3>1. CASE st = "Cancelled"
      BY <1>1, <1>3, <3>1, NoClaimNoDispute DEF WindowsClosed, claims, disputing
    <3>2. CASE st = "Finalised"
      BY <1>1, <3>2 DEF Closes, WindowsClosed, SameTerms, claims, disputing, surroundings
    <3>3. QED
      BY <1>1, <2>1, <3>1, <3>2 DEF Closed, StatusIs
  <2>2. ASSUME NEW c \in BountyId \ {b}, Closed(c)'
        PROVE  open_dispute_count'[c] = 0 /\ WindowsClosed(c)'
    BY <1>1, <2>2
    DEF IndInv, ClosedIsQuiet, Closed, StatusIs, Posted, WindowsClosed, claims, disputing,
        surroundings
  <2>3. QED
    BY <2>1, <2>2 DEF ClosedIsQuiet
<1>9. ClaimedIsNotCancelled'
  <2>1. 0 < bounties[b].pool
    BY <1>0, <1>1, RecordFields DEF IndInv, RecordsMatchIds
  <2>2. ASSUME NEW c \in BountyId, latest_claim_height'[c] > 0
        PROVE  /\ Posted(c)' /\ ~StatusIs(c, {"Cancelled"})'
               /\ escrow'[c] < bounties'[c].pool
    <3>1. latest_claim_height[c] > 0
      BY <1>1, <2>2 DEF claims
    <3>2. CASE c = b
      BY <1>1, <1>2, <1>3, <2>1, <3>1, <3>2 DEF Posted, StatusIs, SameTerms
    <3>3. CASE c # b
      BY <1>1, <1>2, <3>1, <3>3 DEF IndInv, ClaimedIsNotCancelled, Posted, StatusIs
    <3>4. QED
      BY <3>2, <3>3
  <2>3. QED
    BY <2>2 DEF ClaimedIsNotCancelled
<1>10. IndexListsUnsettled'
  <2>0. b[2] \in SchemaId /\ bounties[b].board_schema_id = b[2]
    BY <1>1, IdParts DEF IndInv, RecordsMatchIds
  <2>1. \A s \in SchemaId :
          open_by_schema'[s] = IF s = b[2] THEN open_by_schema[s] \ {b} ELSE open_by_schema[s]
    BY <1>0, <2>0 DEF Closes, DropFromIndex, TypeOK
  <2>2. ASSUME NEW s \in SchemaId
        PROVE  open_by_schema'[s] =
                 {c \in BountyId : StatusIs(c, {"Open", "Exhausted"}) /\ c[2] = s}'
    <3>1. ~StatusIs(b, {"Open", "Exhausted"})'
      BY <1>1 DEF StatusIs
    <3>2. \A c \in BountyId \ {b} :
            StatusIs(c, {"Open", "Exhausted"})' <=> StatusIs(c, {"Open", "Exhausted"})
      BY <1>1 DEF StatusIs, Posted
    <3>3. open_by_schema[s] =
            {c \in BountyId : StatusIs(c, {"Open", "Exhausted"}) /\ c[2] = s}
      BY DEF IndInv, IndexListsUnsettled
    <3>4. CASE s = b[2]
      BY <2>1, <3>1, <3>2, <3>3, <3>4
    <3>5. CASE s # b[2]
      BY <2>1, <3>1, <3>2, <3>3, <3>5
    <3>6. QED
      BY <3>4, <3>5
  <2>3. ASSUME NEW s \in SchemaId
        PROVE  Cardinality(open_by_schema'[s]) <= MAX_OPEN_BOUNTIES_PER_SCHEMA
    <3>1. /\ open_by_schema'[s] \in SUBSET open_by_schema[s]
          /\ open_by_schema[s] \subseteq BountyId /\ open_by_schema'[s] \subseteq BountyId
      BY <1>0, <2>1 DEF TypeOK
    <3>2. /\ IsFiniteSet(open_by_schema[s]) /\ Cardinality(open_by_schema[s]) \in Nat
          /\ Cardinality(open_by_schema'[s]) \in Nat
      BY <3>1, FiniteParts
    <3>3. Cardinality(open_by_schema'[s]) <= Cardinality(open_by_schema[s])
      BY <3>1, <3>2, FS_Subset
    <3>4. QED
      BY <3>2, <3>3, BoundsAssumption DEF IndInv, IndexListsUnsettled
  <2>4. QED
    BY <2>2, <2>3 DEF IndexListsUnsettled
<1>11. RecordsMatchIds'
  BY <1>1 DEF IndInv, RecordsMatchIds, Posted, SameTerms, surroundings
<1>12. QED
  BY <1>0, <1>4, <1>5, <1>6, <1>7, <1>8, <1>9, <1>10, <1>11 DEF IndInv

LEMMA OutsideIndInv ==
  ASSUME IndInv, Outside
  PROVE  IndInv'
<1>0. TypeOK /\ TypeOK' /\ UNCHANGED <<record, escrow, claims, disputing>>
  BY OutsideType DEF IndInv, Outside
<1>1. EscrowFollowsStatus' /\ ClaimedIsNotCancelled' /\ IndexListsUnsettled'
  BY <1>0
  DEF IndInv, EscrowFollowsStatus, ClaimedIsNotCancelled, IndexListsUnsettled, StatusIs,
      Posted, record, claims
<1>2. ClaimsAreAcceptable' /\ RecordsMatchIds'
  BY <1>0
  DEF IndInv, Outside, ClaimsAreAcceptable, RecordsMatchIds, Posted, record, claims
<1>3. /\ rollup_height \in Nat /\ rollup_height' \in Nat /\ rollup_height' >= rollup_height
      /\ \A c \in BountyId : latest_claim_height[c] \in Nat
  BY <1>0, BoundsAssumption DEF TypeOK, Outside
<1>4. LatestClaimCoversAll'
  BY <1>0, <1>3 DEF IndInv, LatestClaimCoversAll, claims
<1>5. DisputesAreCounted'
  <2>1. \A c \in BountyId : OpenDisputes(c)' = OpenDisputes(c)
    BY <1>0 DEF OpenDisputes, disputing
  <2>2. QED
    BY <1>0, <2>1 DEF IndInv, DisputesAreCounted, record, claims, disputing
<1>6. ClosedIsQuiet'
  <2>1. ASSUME NEW c \in BountyId, Closed(c)
        PROVE  WindowsClosed(c)'
    <3>1. bounties[c].window \in Nat
      BY <1>0, <2>1, PostedRecord, RecordFields DEF Closed, StatusIs
    <3>2. WindowsClosed(c)
      BY <2>1 DEF IndInv, ClosedIsQuiet
    <3>3. QED
      BY <1>0, <1>3, <3>1, <3>2 DEF WindowsClosed, record, claims
  <2>2. \A c \in BountyId : Closed(c)' <=> Closed(c)
    BY <1>0 DEF Closed, StatusIs, Posted, record
  <2>3. QED
    BY <1>0, <2>1, <2>2 DEF IndInv, ClosedIsQuiet, disputing
<1>7. QED
  BY <1>0, <1>1, <1>2, <1>4, <1>5, <1>6 DEF IndInv

LEMMA NextIndInv == ASSUME IndInv, [Next]_vars PROVE IndInv'
<1>1. TypeOK
  BY DEF IndInv
<1>2. QED
  BY <1>1, StepKinds, OpensIndInv, ClaimIndInv, DisputeIndInv, ResolveIndInv, ClosesIndInv,
     OutsideIndInv

LEMMA IndInvHolds == Spec => []IndInv
<1>1. IndInv /\ [Next]_vars => IndInv'
  BY NextIndInv
<1>2. QED
  BY <1>1, InitIndInv, PTL DEF Spec

-----------------------------------------------------------------------------
(* Action properties                                                       *)

LEMMA NextCloseStep == ASSUME IndInv, [Next]_vars PROVE CloseStep
<1> SUFFICES ASSUME NEW b \in BountyId, ~Closed(b), Closed(b)',
                    NEW a \in AttestationId, claim_height[<<b, a>>] # None
             PROVE  /\ disputes[<<b, a>>] = None
                    /\ rollup_height > claim_height[<<b, a>>] + bounties[b].window
  BY DEF CloseStep
<1>0. TypeOK
  BY DEF IndInv
<1>1. ASSUME bounties'[b] = bounties[b] PROVE FALSE
  BY <1>1 DEF Closed, StatusIs, Posted
<1>2. ASSUME NEW c \in BountyId, NEW r \in BountyState, Opens(c, r) PROVE FALSE
  BY <1>0, <1>1, <1>2 DEF Opens, TypeOK, Closed, StatusIs, Posted
<1>3. ASSUME NEW c \in BountyId, NEW batch \in Batch, ClaimBounty(c, batch) PROVE FALSE
  <2>1. PICK paid \in Nat \ {0}, st \in {"Open", "Exhausted"} : Pays(c, paid, st)
    BY <1>3, ClaimEffect DEF IndInv
  <2>2. QED
    BY <1>1, <2>1 DEF Pays, MovesTo, Closed, StatusIs
<1>4. ASSUME UNCHANGED record PROVE FALSE
  BY <1>1, <1>4 DEF record
<1>5. ASSUME NEW c \in BountyId, NEW st \in BountyStatus, Closes(c, st)
      PROVE  /\ disputes[<<b, a>>] = None
             /\ rollup_height > claim_height[<<b, a>>] + bounties[b].window
  <2>1. MovesTo(c, st) /\ bounties[c] \in BountyState
    BY <1>0, <1>5, ClosesType
  <2>2. c = b
    BY <1>1, <2>1 DEF MovesTo
  <2>3. st \in {"Cancelled", "Finalised"}
    BY <2>1, <2>2 DEF MovesTo, Closed, StatusIs
  <2>4. st # "Cancelled"
    BY <1>5, <2>2, CancelledIsUnclaimed, NoClaimNoDispute
  <2>5. open_dispute_count[b] = 0 /\ WindowsClosed(b)
    BY <1>5, <2>2, <2>3, <2>4 DEF Closes
  <2>6. OpenDisputes(b) = {}
    BY <2>5, FiniteParts, FS_EmptySet DEF IndInv, DisputesAreCounted
  <2>7. /\ claim_height[<<b, a>>] \in 1 .. latest_claim_height[b]
        /\ latest_claim_height[b] \in Nat /\ rollup_height \in Nat
        /\ bounties[b].window \in Nat
    BY <2>1, <2>2, RecordFields, BoundsAssumption DEF IndInv, LatestClaimCoversAll, TypeOK
  <2>8. QED
    BY <2>5, <2>6, <2>7 DEF OpenDisputes, WindowsClosed
<1>6. QED
  BY <1>0, <1>2, <1>3, <1>4, <1>5, StepKinds DEF DisputeAttestation, ResolveDispute, Outside

LEMMA NextClosedStep == ASSUME IndInv, [Next]_vars PROVE ClosedStep
<1> SUFFICES ASSUME NEW b \in BountyId, Closed(b)
             PROVE  /\ bounties'[b] = bounties[b] /\ escrow'[b] = escrow[b]
                    /\ open_dispute_count'[b] = open_dispute_count[b]
                    /\ \A a \in AttestationId :
                         /\ claim_height'[<<b, a>>] = claim_height[<<b, a>>]
                         /\ disputes'[<<b, a>>] = disputes[<<b, a>>]
                    /\ \A s \in SchemaId : b \notin open_by_schema'[s]
  BY DEF ClosedStep
<1>0. /\ TypeOK /\ Posted(b)
      /\ bounties[b].status \in {"Cancelled", "Finalised"}
  BY DEF IndInv, Closed, StatusIs
<1>1. \A s \in SchemaId : b \notin open_by_schema[s]
  BY <1>0 DEF IndInv, IndexListsUnsettled, StatusIs
<1> DEFINE Kept == /\ bounties'[b] = bounties[b] /\ escrow'[b] = escrow[b]
                   /\ open_dispute_count'[b] = open_dispute_count[b]
                   /\ \A a \in AttestationId :
                        /\ claim_height'[<<b, a>>] = claim_height[<<b, a>>]
                        /\ disputes'[<<b, a>>] = disputes[<<b, a>>]
                   /\ \A s \in SchemaId : b \notin open_by_schema'[s]
<1>2. ASSUME NEW c \in BountyId, NEW r \in BountyState, Opens(c, r) PROVE Kept
  <2>1. c # b
    BY <1>0, <1>2 DEF Opens
  <2>2. \A s \in SchemaId : open_by_schema'[s] \subseteq open_by_schema[s] \cup {c}
    BY <1>0, <1>2, IdParts DEF Opens, TypeOK
  <2>3. QED
    BY <1>0, <1>1, <1>2, <2>1, <2>2 DEF Opens, TypeOK, claims, disputing
<1>3. ASSUME NEW c \in BountyId, NEW batch \in Batch, ClaimBounty(c, batch) PROVE Kept
  <2>1. PICK paid \in Nat \ {0}, st \in {"Open", "Exhausted"} : Pays(c, paid, st)
    BY <1>3, ClaimEffect DEF IndInv
  <2>2. c # b
    BY <1>0, <2>1 DEF Pays, StatusIs
  <2>3. \A a \in AttestationId : claim_height'[<<b, a>>] = claim_height[<<b, a>>]
    BY <1>3, <2>2, ClaimHeights
  <2>4. QED
    BY <1>0, <1>1, <2>1, <2>2, <2>3 DEF Pays, MovesTo, TypeOK, disputing
<1>4. ASSUME NEW c \in BountyId, NEW a \in AttestationId, NEW disputer \in Disputers,
             DisputeAttestation(c, a, disputer)
      PROVE  Kept
  <2>1. c # b
    BY <1>4, DisputedIsNotClosed
  <2>2. \A d \in AttestationId : disputes'[<<b, d>>] = disputes[<<b, d>>]
    BY <1>0, <1>4, <2>1, KeyOf DEF DisputeAttestation, TypeOK
  <2>3. QED
    BY <1>0, <1>1, <1>4, <2>1, <2>2 DEF DisputeAttestation, record, claims, TypeOK
<1>5. ASSUME NEW c \in BountyId, NEW a \in AttestationId, NEW sender \in Address,
             NEW decision \in {"Accept", "Reject"}, ResolveDispute(c, a, sender, decision)
      PROVE  Kept
  <2>1. a \in OpenDisputes(c)
    BY <1>5 DEF ResolveDispute, OpenDisputes
  <2>2. OpenDisputes(b) = {}
    BY FiniteParts, FS_EmptySet DEF IndInv, DisputesAreCounted, ClosedIsQuiet
  <2>3. c # b
    BY <2>1, <2>2
  <2>4. \A d \in AttestationId : disputes'[<<b, d>>] = disputes[<<b, d>>]
    BY <1>0, <1>5, <2>3, KeyOf DEF ResolveDispute, TypeOK
  <2>5. QED
    BY <1>0, <1>1, <1>5, <2>3, <2>4
    DEF ResolveDispute, CountDisputeClosed, record, claims, TypeOK
<1>6. ASSUME NEW c \in BountyId, NEW st \in BountyStatus, Closes(c, st) PROVE Kept
  <2>1. c # b
    BY <1>0, <1>6 DEF Closes, StatusIs
  <2>2. MovesTo(c, st) /\ bounties[c].board_schema_id \in SchemaId
    BY <1>0, <1>6, ClosesType, RecordFields
  <2>3. \A s \in SchemaId : open_by_schema'[s] \subseteq open_by_schema[s]
    BY <1>0, <1>6, <2>2 DEF Closes, DropFromIndex, TypeOK
  <2>4. QED
    BY <1>0, <1>1, <1>6, <2>1, <2>2, <2>3
    DEF Closes, Refund, MovesTo, TypeOK, claims, disputing
<1>7. CASE Outside
  BY <1>1, <1>7 DEF Outside, record, claims, disputing
<1>8. QED
  BY <1>0, <1>2, <1>3, <1>4, <1>5, <1>6, <1>7, StepKinds

LEMMA TransfersOfModule ==
  ASSUME NEW bal \in [Account -> Nat], NEW user \in Address, NEW amount \in Nat
  PROVE  /\ Transfer(bal, user, BountyModule, amount)[BountyModule] =
              bal[BountyModule] + amount
         /\ Transfer(bal, BountyModule, user, amount)[BountyModule] =
              bal[BountyModule] - amount
BY ModuleAccountAssumption DEF Transfer, Account

\* A step either moves money or leaves the account and every entry as they were.
LEMMA NextMoneyStep ==
  ASSUME IndInv, [Next]_vars
  PROVE  MoneyStep \/ UNCHANGED <<balance, escrow, disputes>>
<1>0. /\ TypeOK /\ balance \in [Account -> Nat] /\ BountyModule \in Account
      /\ balance[BountyModule] \in Nat
      /\ \A c \in BountyId : escrow[c] \in Nat
  BY DEF IndInv, TypeOK, Account, Amount
<1> DEFINE Moves(b, a) ==
             /\ \A d \in BountyId \ {b} : escrow'[d] = escrow[d]
             /\ \A k \in DisputeKey \ {<<b, a>>} : disputes'[k] = disputes[k]
             /\ balance'[BountyModule] - balance[BountyModule] =
                  (escrow'[b] - escrow[b]) + (BondOf(<<b, a>>)' - BondOf(<<b, a>>))
<1>1. ASSUME NEW b \in BountyId, UNCHANGED disputes,
             \A d \in BountyId \ {b} : escrow'[d] = escrow[d],
             escrow'[b] \in Nat, balance'[BountyModule] \in Nat,
             balance'[BountyModule] - balance[BountyModule] = escrow'[b] - escrow[b]
      PROVE  MoneyStep
  <2>1. PICK a \in AttestationId : TRUE
    BY BoardsAssumption
  <2>2. BondOf(<<b, a>>) \in Nat /\ BondOf(<<b, a>>)' = BondOf(<<b, a>>)
    BY <1>0, <1>1, KeyOf, DisputeFields DEF BondOf, TypeOK
  <2>3. Moves(b, a)
    BY <1>0, <1>1, <2>2
  <2>4. QED
    BY <2>3 DEF MoneyStep
<1>2. ASSUME NEW b \in BountyId, NEW r \in BountyState, Opens(b, r) PROVE MoneyStep
  <2>1. b[1] \in Address /\ r.pool \in Nat
    BY IdParts, RecordFields
  <2>2. balance'[BountyModule] = balance[BountyModule] + r.pool
    BY <1>0, <1>2, <2>1, TransfersOfModule DEF Opens
  <2>3. escrow[b] = 0
    BY <1>2 DEF Opens, IndInv, EscrowFollowsStatus, StatusIs
  <2>4. /\ escrow'[b] = r.pool /\ \A d \in BountyId \ {b} : escrow'[d] = escrow[d]
        /\ UNCHANGED disputes
    BY <1>0, <1>2 DEF Opens, TypeOK, disputing
  <2>5. QED
    BY <1>0, <1>1, <2>1, <2>2, <2>3, <2>4
<1>3. ASSUME NEW b \in BountyId, NEW batch \in Batch, ClaimBounty(b, batch) PROVE MoneyStep
  <2>1. PICK paid \in Nat \ {0}, st \in {"Open", "Exhausted"} : Pays(b, paid, st)
    BY <1>3, ClaimEffect DEF IndInv
  <2>2. /\ escrow'[b] = escrow[b] - paid /\ paid <= escrow[b]
        /\ balance'[BountyModule] = balance[BountyModule] - paid
        /\ paid <= balance[BountyModule]
        /\ \A d \in BountyId \ {b} : escrow'[d] = escrow[d]
        /\ UNCHANGED disputes
    BY <1>0, <2>1 DEF Pays, TypeOK, disputing
  <2>3. QED
    BY <1>0, <1>1, <2>2
<1>4. ASSUME NEW b \in BountyId, NEW a \in AttestationId, NEW disputer \in Disputers,
             DisputeAttestation(b, a, disputer)
      PROVE  MoneyStep
  <2>1. PICK bond \in Nat : bond = bounties[b].per_attestation
    BY <1>0, <1>4, PostedRecord, RecordFields DEF DisputeAttestation
  <2>2. disputer \in Address
    BY ArgumentsAssumption
  <2>3. balance'[BountyModule] = balance[BountyModule] + bond
    BY <1>0, <1>4, <2>1, <2>2, TransfersOfModule DEF DisputeAttestation
  <2>4. /\ disputes[<<b, a>>] = None
        /\ disputes'[<<b, a>>] = [disputer |-> disputer, bond |-> bond]
        /\ \A k \in DisputeKey \ {<<b, a>>} : disputes'[k] = disputes[k]
        /\ UNCHANGED escrow
    BY <1>0, <1>4, <2>1, KeyOf DEF DisputeAttestation, TypeOK
  <2>5. [disputer |-> disputer, bond |-> bond] # None
    BY <2>2, DisputeFields DEF DisputeState, Amount
  <2>6. BondOf(<<b, a>>) = 0 /\ BondOf(<<b, a>>)' = bond
    BY <2>4, <2>5 DEF BondOf
  <2>7. Moves(b, a)
    BY <1>0, <2>3, <2>4, <2>6
  <2>8. QED
    BY <2>7 DEF MoneyStep
<1>5. ASSUME NEW b \in BountyId, NEW a \in AttestationId, NEW sender \in Address,
             NEW decision \in {"Accept", "Reject"}, ResolveDispute(b, a, sender, decision)
      PROVE  MoneyStep
  <2>1. disputes[<<b, a>>] \in DisputeState
    BY <1>0, <1>5, KeyOf DEF ResolveDispute, TypeOK
  <2>2. PICK bond \in Nat : bond = disputes[<<b, a>>].bond
    BY <2>1, DisputeFields
  <2>3. disputes[<<b, a>>].disputer \in Address /\ bounties[b].poster \in Address
    BY <1>0, <1>5, <2>1, DisputeFields, PostedRecord, RecordFields DEF ResolveDispute
  <2>4. balance'[BountyModule] = balance[BountyModule] - bond
    BY <1>0, <1>5, <2>2, <2>3, TransfersOfModule DEF ResolveDispute
  <2>5. /\ disputes[<<b, a>>] # None /\ disputes'[<<b, a>>] = None
        /\ \A k \in DisputeKey \ {<<b, a>>} : disputes'[k] = disputes[k]
        /\ UNCHANGED escrow
    BY <1>0, <1>5, KeyOf DEF ResolveDispute, TypeOK
  <2>6. BondOf(<<b, a>>) = bond /\ BondOf(<<b, a>>)' = 0
    BY <2>2, <2>5 DEF BondOf
  <2>7. Moves(b, a)
    BY <1>0, <2>4, <2>5, <2>6
  <2>8. QED
    BY <2>7 DEF MoneyStep
<1>6. ASSUME NEW b \in BountyId, NEW st \in BountyStatus, Closes(b, st) PROVE MoneyStep
  <2>1. bounties[b].poster \in Address
    BY <1>0, <1>6, ClosesType, RecordFields
  <2>2. /\ balance'[BountyModule] = balance[BountyModule] - escrow[b]
        /\ escrow[b] <= balance[BountyModule]
    BY <1>0, <1>6, <2>1, TransfersOfModule DEF Closes, Refund, CanPay
  <2>3. /\ escrow'[b] = 0 /\ \A d \in BountyId \ {b} : escrow'[d] = escrow[d]
        /\ UNCHANGED disputes
    BY <1>0, <1>6 DEF Closes, Refund, TypeOK, disputing
  <2>4. QED
    BY <1>0, <1>1, <2>2, <2>3
<1>7. CASE Outside
  BY <1>7 DEF Outside, disputing
<1>8. QED
  BY <1>0, <1>2, <1>3, <1>4, <1>5, <1>6, <1>7, StepKinds

-----------------------------------------------------------------------------
(* All the money at once                                                   *)

BondsLocked == [k \in DisputeKey |-> BondOf(k)]

LEMMA KeysAreFinite == IsFiniteSet(BountyId) /\ IsFiniteSet(DisputeKey)
BY BoardsAssumption, FS_Product DEF DisputeKey

LEMMA MoneyType ==
  ASSUME TypeOK
  PROVE  /\ BondsLocked \in [DisputeKey -> Nat] /\ escrow \in [BountyId -> Nat]
         /\ balance[BountyModule] \in Nat
<1>1. \A k \in DisputeKey : BondOf(k) \in Nat
  BY DisputeFields DEF TypeOK, BondOf
<1>2. QED
  BY <1>1 DEF TypeOK, BondsLocked, Amount, Account

LEMMA InitLocked == Init => LockedFundsBacked
<1> SUFFICES ASSUME Init PROVE LockedFundsBacked
  OBVIOUS
<1>1. BondsLocked \in [DisputeKey -> Int] /\ escrow \in [BountyId -> Int]
  BY InitTypeOK, MoneyType
<1>2. \A b \in BountyId : escrow[b] = 0
  BY DEF Init
<1>3. \A k \in DisputeKey : BondsLocked[k] = 0
  BY DEF Init, BondsLocked, BondOf
<1>4. SumFunction(escrow) = 0
  BY <1>1, <1>2, KeysAreFinite, SumZero
<1>5. SumFunction(BondsLocked) = 0
  <2> HIDE DEF BondsLocked
  <2>1. QED
    BY <1>1, <1>3, KeysAreFinite, SumZero
<1>6. balance[BountyModule] = 0
  BY DEF Init, Account
<1>7. QED
  BY <1>4, <1>5, <1>6 DEF LockedFundsBacked, BondsLocked

\* What moves the account moves one escrow and one bond by as much in all.
LEMMA NextLocked ==
  ASSUME IndInv, IndInv', LockedFundsBacked, [Next]_vars
  PROVE  LockedFundsBacked'
<1>1. /\ BondsLocked \in [DisputeKey -> Nat] /\ escrow \in [BountyId -> Nat]
      /\ BondsLocked' \in [DisputeKey -> Nat] /\ escrow' \in [BountyId -> Nat]
      /\ balance[BountyModule] \in Nat /\ balance'[BountyModule] \in Nat
  <2>1. TypeOK /\ TypeOK'
    BY DEF IndInv
  <2>2. \A k \in DisputeKey : BondOf(k)' \in Nat
    BY <2>1, DisputeFields DEF TypeOK, BondOf
  <2>3. BondsLocked' \in [DisputeKey -> Nat]
    BY <2>2 DEF BondsLocked
  <2>4. escrow' \in [BountyId -> Nat] /\ balance'[BountyModule] \in Nat
    BY <2>1 DEF TypeOK, Account, Amount
  <2>5. QED
    BY <2>1, <2>3, <2>4, MoneyType
<1>2. CASE MoneyStep
  <2>1. PICK b \in BountyId, a \in AttestationId :
          /\ \A d \in BountyId \ {b} : escrow'[d] = escrow[d]
          /\ \A k \in DisputeKey \ {<<b, a>>} : disputes'[k] = disputes[k]
          /\ balance'[BountyModule] - balance[BountyModule] =
               (escrow'[b] - escrow[b]) + (BondOf(<<b, a>>)' - BondOf(<<b, a>>))
    BY <1>2 DEF MoneyStep
  <2>2. PICK key \in DisputeKey : key = <<b, a>>
    BY KeyOf
  <2>3. \A k \in DisputeKey \ {key} : BondsLocked'[k] = BondsLocked[k]
    BY <2>1, <2>2 DEF BondsLocked, BondOf
  <2>4. BondsLocked'[key] = BondOf(<<b, a>>)' /\ BondsLocked[key] = BondOf(<<b, a>>)
    BY <2>2 DEF BondsLocked
  <2>5. SumFunction(escrow') = SumFunction(escrow) + escrow'[b] - escrow[b]
    BY <1>1, <2>1, KeysAreFinite, SumUpdate
  <2>6. SumFunction(BondsLocked') =
          SumFunction(BondsLocked) + BondsLocked'[key] - BondsLocked[key]
    <3> HIDE DEF BondsLocked
    <3>1. QED
      BY <1>1, <2>3, KeysAreFinite, SumUpdate
  <2>7. SumFunction(escrow) \in Nat /\ SumFunction(BondsLocked) \in Nat
    BY <1>1, KeysAreFinite, SumOfNats
  <2>8. balance[BountyModule] = SumFunction(escrow) + SumFunction(BondsLocked)
    BY DEF LockedFundsBacked, BondsLocked
  <2>9. /\ escrow[b] \in Nat /\ escrow'[b] \in Nat
        /\ BondsLocked[key] \in Nat /\ BondsLocked'[key] \in Nat
    BY <1>1
  <2>10. balance'[BountyModule] = SumFunction(escrow') + SumFunction(BondsLocked')
    BY <1>1, <2>1, <2>4, <2>5, <2>6, <2>7, <2>8, <2>9
  <2>11. QED
    BY <2>10 DEF LockedFundsBacked, BondsLocked
<1>3. CASE UNCHANGED <<balance, escrow, disputes>>
  BY <1>3 DEF LockedFundsBacked, BondOf
<1>4. QED
  BY <1>2, <1>3, NextMoneyStep

LEMMA LockedInvHolds == Spec => [](IndInv /\ LockedFundsBacked)
<1>1. IndInv /\ LockedFundsBacked /\ [Next]_vars => IndInv' /\ LockedFundsBacked'
  BY NextIndInv, NextLocked
<1>2. QED
  BY <1>1, InitIndInv, InitLocked, PTL DEF Spec

\* What NeverStuck asks of the two actions that pay out, without ENABLED: the guards
\* that are not already in its hypotheses.
PayingGuards ==
  \A b \in BountyId :
    /\ \A a \in OpenDisputes(b) :
         /\ Posted(b) /\ bounties[b].board_schema_id \in schemas
         /\ CanPay(balance, BountyModule, disputes[<<b, a>>].bond)
    /\ OpenDisputes(b) = {} => open_dispute_count[b] = 0
    /\ CanPay(balance, BountyModule, escrow[b])

-----------------------------------------------------------------------------
(* AVOW is neither made nor lost                                           *)

Supply == SumFunction(balance)
SupplyKept == Supply' = Supply

LEMMA AccountsAreFinite == IsFiniteSet(Account)
BY FinitenessAssumption, FS_AddElement DEF Account

LEMMA TransferKeepsSupply ==
  ASSUME TypeOK, NEW from \in Account, NEW to \in Account, NEW amount \in Nat,
         balance' = Transfer(balance, from, to, amount)
  PROVE  SupplyKept
<1>1. balance \in [Account -> Int] /\ amount \in Int
  BY DEF TypeOK, Amount
<1>2. balance' = Moved(balance, from, to, amount)
  BY DEF Transfer, Moved
<1>3. QED
  BY <1>1, <1>2, AccountsAreFinite, SumMove DEF SupplyKept, Supply

\* A batch pays per claim, and its claims counted submitter by submitter are as
\* many as the batch is long, whatever the repetitions in it.
LEMMA ClaimKeepsSupply ==
  ASSUME TypeOK, NEW b \in BountyId, NEW batch \in Batch, ClaimBounty(b, batch)
  PROVE  SupplyKept
<1>1. PICK n \in Nat \ {0} : batch \in [1 .. n -> AttestationId] /\ Len(batch) = n
  BY BatchList
<1>2. PICK per \in Int : per = bounties[b].per_attestation
  BY PostedRecord, RecordFields DEF ClaimBounty, StatusIs
<1> DEFINE list == [i \in 1 .. n |-> attestations[batch[i]]]
           counts == PlaceCounts(Account, list, 1 .. n)
           credits == [a \in Account |-> IF a = BountyModule THEN -n ELSE ClaimsOf(batch, a)]
<1>3. list \in [1 .. n -> Address] /\ list \in [1 .. n -> Account]
  BY <1>1 DEF ClaimBounty, TypeOK, Account
<1>4. BountyModule \in Account /\ balance \in [Account -> Int]
  BY DEF TypeOK, Account, Amount
<1>5. \A a \in Account : counts[a] = ClaimsOf(batch, a)
  <2>1. \A a \in Account :
          Places(list, 1 .. n, a) = {i \in DOMAIN batch : attestations[batch[i]] = a}
    BY <1>1 DEF Places
  <2>2. QED
    BY <2>1 DEF PlaceCounts, ClaimsOf
<1>6. counts \in [Account -> Int]
  BY <1>5, ClaimsOfType DEF PlaceCounts
<1>7. credits \in [Account -> Int]
  BY ClaimsOfType
<1>8. counts[BountyModule] = 0
  <2>1. Places(list, 1 .. n, BountyModule) = {}
    BY <1>3, ModuleAccountAssumption DEF Places
  <2>2. QED
    BY <1>4, <2>1, FS_EmptySet DEF PlaceCounts
<1>9. IsFiniteSet(1 .. n) /\ Cardinality(1 .. n) = n
  BY Positions
<1>10. /\ credits[BountyModule] = -n
       /\ \A a \in Account \ {BountyModule} : credits[a] = counts[a]
  BY <1>4, <1>5
<1>11. /\ balance'[BountyModule] = balance[BountyModule] - per * n
       /\ \A a \in Account \ {BountyModule} : balance'[a] = balance[a] + per * counts[a]
       /\ balance' = [a \in Account |-> balance'[a]]
  BY <1>1, <1>2, <1>4, <1>5 DEF ClaimBounty
<1> HIDE DEF list, counts, credits
<1>12. SumFunction(counts) = n
  <2>1. SumFunction(PlaceCounts(Account, list, 1 .. n)) = Cardinality(1 .. n)
    BY <1>3, <1>9, AccountsAreFinite, SumOfPlaces
  <2>2. QED
    BY <1>9, <2>1 DEF counts
<1>13. SumFunction(credits) = 0
  <2>1. SumFunction(credits) = SumFunction(counts) + credits[BountyModule] - counts[BountyModule]
    BY <1>4, <1>6, <1>7, <1>10, AccountsAreFinite, SumUpdate
  <2>2. QED
    BY <1>8, <1>10, <1>12, <2>1
<1>14. balance' \in [Account -> Int] /\ \A a \in Account : balance'[a] = balance[a] + per * credits[a]
  <2>1. \A p, m \in Int : p * m \in Int /\ p * (-m) = -(p * m)
    OBVIOUS
  <2>2. per * n \in Int /\ per * (-n) = -(per * n)
    BY <2>1
  <2>3. \A a \in Account : per * credits[a] \in Int /\ credits[a] \in Int /\ balance[a] \in Int
    BY <1>4, <1>7, <2>1
  <2>4. balance'[BountyModule] = balance[BountyModule] + per * credits[BountyModule]
    BY <1>4, <1>10, <1>11, <2>2
  <2>5. \A a \in Account : balance'[a] = balance[a] + per * credits[a]
    BY <1>10, <1>11, <2>4
  <2>6. QED
    BY <1>11, <2>3, <2>5
<1>15. SumFunction(balance') = SumFunction(balance) + per * SumFunction(credits)
  BY <1>4, <1>7, <1>14, AccountsAreFinite, SumLinear
<1>16. SumFunction(balance) \in Int
  BY <1>4, AccountsAreFinite, SumType
<1>17. QED
  BY <1>13, <1>15, <1>16 DEF SupplyKept, Supply

LEMMA NextSupply == ASSUME IndInv, [Next]_vars PROVE SupplyKept
<1>0. /\ TypeOK /\ BountyModule \in Account /\ Address \subseteq Account
      /\ RecordsMatchIds
  BY DEF IndInv, Account
<1>1. ASSUME NEW b \in BountyId, NEW r \in BountyState, Opens(b, r)
      PROVE  SupplyKept
  <2>1. b[1] \in Account /\ r.pool \in Nat
    BY <1>0, IdParts, RecordFields
  <2>2. QED
    BY <1>0, <1>1, <2>1, TransferKeepsSupply DEF Opens
<1>2. ASSUME NEW b \in BountyId, NEW a \in AttestationId, NEW disputer \in Disputers,
             DisputeAttestation(b, a, disputer)
      PROVE  SupplyKept
  <2>1. disputer \in Account /\ bounties[b].per_attestation \in Nat
    BY <1>0, <1>2, ArgumentsAssumption, PostedRecord, RecordFields DEF DisputeAttestation
  <2>2. QED
    BY <1>0, <1>2, <2>1, TransferKeepsSupply DEF DisputeAttestation
<1>3. ASSUME NEW b \in BountyId, NEW a \in AttestationId, NEW sender \in Address,
             NEW decision \in {"Accept", "Reject"}, ResolveDispute(b, a, sender, decision)
      PROVE  SupplyKept
  <2> DEFINE k == <<b, a>>
             winner == IF decision = "Accept" THEN disputes[k].disputer ELSE bounties[b].poster
  <2>1. k \in DisputeKey /\ disputes[k] \in DisputeState
    BY <1>0, <1>3, KeyOf DEF ResolveDispute, TypeOK
  <2>2. disputes[k].bond \in Nat /\ disputes[k].disputer \in Address
    BY <2>1, DisputeFields
  <2>3. bounties[b].poster \in Address
    BY <1>0, <1>3, PostedRecord, RecordFields DEF ResolveDispute
  <2>4. winner \in Account /\ balance' = Transfer(balance, BountyModule, winner, disputes[k].bond)
    BY <1>0, <1>3, <2>2, <2>3 DEF ResolveDispute
  <2> HIDE DEF winner
  <2>5. QED
    BY <1>0, <2>2, <2>4, TransferKeepsSupply
<1>4. ASSUME NEW b \in BountyId, NEW st \in BountyStatus, Closes(b, st)
      PROVE  SupplyKept
  <2>1. bounties[b].poster \in Account /\ escrow[b] \in Nat
    BY <1>0, <1>4, PostedRecord, RecordFields DEF Closes, StatusIs, TypeOK, Amount
  <2>2. QED
    BY <1>0, <1>4, <2>1, TransferKeepsSupply DEF Closes, Refund
<1>5. CASE Outside
  BY <1>5 DEF Outside, SupplyKept, Supply
<1>6. QED
  BY <1>0, <1>1, <1>2, <1>3, <1>4, <1>5, ClaimKeepsSupply, StepKinds

-----------------------------------------------------------------------------
(* The module and the attestation records it pays by                       *)

LEMMA InitRecords == Init => Ledger!Init
BY DEF Init, Ledger!Init, Submitted

\* Only the surroundings touch the records, and they as the promise says.
LEMMA NextRecords ==
  ASSUME TypeOK, [Next]_vars
  PROVE  [Ledger!Next]_<<schemas, Submitted>>
<1>1. ASSUME UNCHANGED <<schemas, attestations>> PROVE UNCHANGED <<schemas, Submitted>>
  BY <1>1 DEF Submitted
<1>2. ASSUME NEW s \in SchemaId, SchemaRegistered(s) PROVE Ledger!Next
  <2>1. UNCHANGED Submitted
    BY <1>2 DEF SchemaRegistered, Submitted
  <2>2. Ledger!Register(s)
    BY <1>2, <2>1 DEF SchemaRegistered, Ledger!Register
  <2>3. QED
    BY <2>2 DEF Ledger!Next
<1>3. ASSUME NEW a \in AttestationId, NEW submitter \in Submitters,
             AttestationStored(a, submitter)
      PROVE  Ledger!Next
  <2>1. submitter \in Address /\ submitter # None /\ a \in SchemaId \X PayloadHash
    BY ArgumentsAssumption, NoneAssumption DEF AttestationId
  <2>2. /\ attestations'[a] = submitter /\ attestations[a] = None
        /\ \A x \in AttestationId \ {a} : attestations'[x] = attestations[x]
    BY <1>3 DEF AttestationStored, TypeOK
  <2>3. Submitted' = Submitted \cup {<<a, submitter>>} /\ \A r \in Submitted : r[1] # a
    BY <2>1, <2>2 DEF Submitted
  <2>4. Ledger!Store(a, submitter)
    BY <1>3, <2>3 DEF AttestationStored, Ledger!Store
  <2>5. QED
    BY <2>1, <2>4 DEF Ledger!Next
<1>4. ASSUME NEW b \in BountyId,
             \/ \E batch \in Batch : ClaimBounty(b, batch)
             \/ \E a \in AttestationId, disputer \in Disputers : DisputeAttestation(b, a, disputer)
             \/ \E a \in AttestationId, sender \in Address, decision \in {"Accept", "Reject"} :
                  ResolveDispute(b, a, sender, decision)
             \/ \E sender \in Address : CancelBounty(b, sender)
             \/ FinaliseBounty(b)
      PROVE  UNCHANGED <<schemas, attestations>>
  BY <1>4 DEF ClaimBounty, DisputeAttestation, ResolveDispute, CancelBounty, FinaliseBounty,
              surroundings
<1>5. CASE Post
  <2>1. PICK poster, schema, pool, per, acceptance, expiry, window :
               PostBounty(poster, schema, pool, per, acceptance, expiry, window)
    BY <1>5 DEF Post
  <2>2. UNCHANGED surroundings
    BY <2>1 DEF PostBounty
  <2>3. QED
    BY <1>1, <2>2 DEF surroundings
<1>6. AdvanceBlock \/ UNCHANGED vars => UNCHANGED <<schemas, attestations>>
  BY DEF AdvanceBlock, vars, surroundings
<1>7. QED
  BY <1>1, <1>2, <1>3, <1>4, <1>5, <1>6 DEF Next

\* A step the attestation module may take while the bounty module takes none: the
\* records grow as promised, in the name of somebody who submits.
RecordsStep ==
  /\ Ledger!Next
  /\ attestations' \in [AttestationId -> Address \cup {None}]
  /\ \A r \in Submitted' \ Submitted : r[2] \in Submitters
  /\ UNCHANGED <<record, escrow, claims, disputing, balance, rollup_height>>

-----------------------------------------------------------------------------
(* The module implements the abstract escrow                               *)

LEMMA InitDeals == Init => Deals!Init
<1> SUFFICES ASSUME Init PROVE Deals!Init
  OBVIOUS
<1>1. \A b \in BountyId : ~Posted(b)
  BY DEF Init, Posted
<1>2. Phase = [b \in BountyId |-> "unposted"]
  BY <1>1 DEF Phase
<1>3. QED
  BY <1>2 DEF Init, Deals!Init

\* The phase of one bounty follows its record and changes alone.
LEMMA PhaseOfOthers ==
  ASSUME NEW b \in BountyId, \A c \in BountyId \ {b} : bounties'[c] = bounties[c]
  PROVE  Phase' = [Phase EXCEPT ![b] = Phase'[b]]
<1>1. \A c \in BountyId \ {b} : Phase'[c] = Phase[c]
  BY DEF Phase, Posted, StatusIs
<1>2. QED
  BY <1>1 DEF Phase

LEMMA PhaseOf ==
  ASSUME NEW b \in BountyId
  PROVE  /\ ~Posted(b) => Phase[b] = "unposted"
         /\ StatusIs(b, {"Open", "Exhausted"}) => Phase[b] = "live"
         /\ Posted(b) /\ ~StatusIs(b, {"Open", "Exhausted"}) => Phase[b] = "closed"
BY DEF Phase, StatusIs

LEMMA PhaseOfNext ==
  ASSUME NEW b \in BountyId, bounties'[b] # None
  PROVE  /\ bounties'[b].status \in {"Open", "Exhausted"} => Phase'[b] = "live"
         /\ bounties'[b].status \notin {"Open", "Exhausted"} => Phase'[b] = "closed"
BY DEF Phase, StatusIs, Posted

LEMMA NextDeals == IndInv /\ [Next]_vars => [Deals!Next]_<<Phase, escrow>>
<1> SUFFICES ASSUME IndInv, [Next]_vars PROVE [Deals!Next]_<<Phase, escrow>>
  OBVIOUS
<1>0. TypeOK /\ \A b \in BountyId : escrow[b] \in Nat
  BY DEF IndInv, TypeOK, Amount
<1>1. ASSUME NEW b \in BountyId, NEW r \in BountyState, Opens(b, r) PROVE Deals!Fund(b)
  <2>1. /\ bounties'[b] = r /\ r # None /\ r.status = "Open" /\ ~Posted(b)
        /\ \A c \in BountyId \ {b} : bounties'[c] = bounties[c]
        /\ escrow'[b] = r.pool /\ \A c \in BountyId \ {b} : escrow'[c] = escrow[c]
    BY <1>0, <1>1, RecordFields DEF Opens, TypeOK
  <2>2. r.pool > 0
    BY <1>1, RecordFields DEF Opens
  <2>3. Phase[b] = "unposted" /\ Phase' = [Phase EXCEPT ![b] = "live"]
    BY <2>1, PhaseOf, PhaseOfNext, PhaseOfOthers
  <2>4. QED
    BY <2>1, <2>2, <2>3 DEF Deals!Fund, Deals!OnlyHeldOf
<1>2. ASSUME NEW b \in BountyId, NEW batch \in Batch, ClaimBounty(b, batch)
      PROVE  Deals!PayOut(b)
  <2>1. PICK paid \in Nat \ {0}, st \in {"Open", "Exhausted"} : Pays(b, paid, st)
    BY <1>2, ClaimEffect DEF IndInv
  <2>2. /\ \A c \in BountyId \ {b} : bounties'[c] = bounties[c] /\ escrow'[c] = escrow[c]
        /\ bounties'[b] # None /\ bounties'[b].status = st
        /\ StatusIs(b, {"Open", "Exhausted"})
        /\ escrow'[b] = escrow[b] - paid /\ paid <= escrow[b]
    BY <1>0, <2>1 DEF Pays, MovesTo, StatusIs, TypeOK
  <2>3. Phase[b] = "live" /\ Phase'[b] = "live"
    BY <2>2, PhaseOf, PhaseOfNext
  <2>4. UNCHANGED Phase
    <3>1. \A c \in BountyId \ {b} : Phase'[c] = Phase[c]
      BY <2>2 DEF Phase, Posted, StatusIs
    <3>2. QED
      BY <2>3, <3>1 DEF Phase
  <2>5. escrow'[b] \in 0 .. escrow[b] - 1
    BY <1>0, <2>2
  <2>6. QED
    BY <2>2, <2>3, <2>4, <2>5 DEF Deals!PayOut, Deals!OnlyHeldOf
<1>3. ASSUME NEW b \in BountyId, NEW st \in BountyStatus, Closes(b, st)
      PROVE  Deals!Close(b) \/ UNCHANGED <<Phase, escrow>>
  <2>1. /\ MovesTo(b, st) /\ st \in {"Expired", "Cancelled", "Finalised"}
        /\ escrow'[b] = 0 /\ \A c \in BountyId \ {b} : escrow'[c] = escrow[c]
    BY <1>0, <1>3, ClosesType DEF Closes, Refund, TypeOK
  <2>2. /\ Phase'[b] = "closed"
        /\ \A c \in BountyId \ {b} : bounties'[c] = bounties[c] /\ Phase'[c] = Phase[c]
    BY <2>1, PhaseOfNext DEF MovesTo, Phase, Posted, StatusIs
  <2>3. CASE StatusIs(b, {"Open", "Exhausted"})
    <3>1. Phase[b] = "live" /\ Phase' = [Phase EXCEPT ![b] = "closed"]
      BY <2>2, <2>3, PhaseOf, PhaseOfOthers
    <3>2. QED
      BY <2>1, <3>1 DEF Deals!Close, Deals!OnlyHeldOf
  <2>4. CASE ~StatusIs(b, {"Open", "Exhausted"})
    <3>1. Phase[b] = "closed" /\ escrow[b] = 0
      BY <2>1, <2>4, PhaseOf DEF MovesTo, IndInv, EscrowFollowsStatus
    <3>2. UNCHANGED escrow
      BY <1>0, <1>3, <2>1, <3>1 DEF Closes, Refund, TypeOK
    <3>3. UNCHANGED Phase
      BY <2>2, <3>1 DEF Phase
    <3>4. QED
      BY <3>2, <3>3
  <2>5. QED
    BY <2>3, <2>4
<1>4. ASSUME UNCHANGED <<bounties, escrow>> PROVE UNCHANGED <<Phase, escrow>>
  BY <1>4 DEF Phase, Posted, StatusIs
<1>5. QED
  BY <1>0, <1>1, <1>2, <1>3, <1>4, StepKinds
  DEF Deals!Next, DisputeAttestation, ResolveDispute, Outside, record

-----------------------------------------------------------------------------
(* The results                                                             *)

\* Every entry keeps its type; in particular no balance and no escrow goes below
\* zero, although claims, sweeps and bonds are all paid out of one account.
THEOREM TypeCorrect == Spec => []TypeOK
<1>1. IndInv => TypeOK
  BY DEF IndInv
<1>2. QED
  BY <1>1, IndInvHolds, PTL

\* What a bounty's escrow entry may hold follows from its status.
THEOREM EscrowTracksStatus == Spec => []EscrowFollowsStatus
<1>1. IndInv => EscrowFollowsStatus
  BY DEF IndInv
<1>2. QED
  BY <1>1, IndInvHolds, PTL

\* Nothing is ever paid for an attestation the acceptance rule keeps out.
THEOREM PaidClaimsAreAcceptable == Spec => []ClaimsAreAcceptable
<1>1. IndInv => ClaimsAreAcceptable
  BY DEF IndInv
<1>2. QED
  BY <1>1, IndInvHolds, PTL

\* One height stands in for all claim heights of a bounty.
THEOREM LatestClaimIsTheLast == Spec => []LatestClaimCoversAll
<1>1. IndInv => LatestClaimCoversAll
  BY DEF IndInv
<1>2. QED
  BY <1>1, IndInvHolds, PTL

\* The dispute counter is exact however often claims are disputed.
THEOREM DisputeCountIsExact == Spec => []DisputesAreCounted
<1>1. IndInv => DisputesAreCounted
  BY DEF IndInv
<1>2. QED
  BY <1>1, IndInvHolds, PTL

\* A closed bounty has no dispute and no open window.
THEOREM ClosedBountiesAreQuiet == Spec => []ClosedIsQuiet
<1>1. IndInv => ClosedIsQuiet
  BY DEF IndInv
<1>2. QED
  BY <1>1, IndInvHolds, PTL

\* A claimed bounty is never cancelled outright.
THEOREM ClaimsPreventCancelling == Spec => []ClaimedIsNotCancelled
<1>1. IndInv => ClaimedIsNotCancelled
  BY DEF IndInv
<1>2. QED
  BY <1>1, IndInvHolds, PTL

\* The reverse index is exact and within its capacity.
THEOREM IndexIsExact == Spec => []IndexListsUnsettled
<1>1. IndInv => IndexListsUnsettled
  BY DEF IndInv
<1>2. QED
  BY <1>1, IndInvHolds, PTL

\* Records agree with their ids, and the nonce keeps new ids free.
THEOREM RecordsAgreeWithIds == Spec => []RecordsMatchIds
<1>1. IndInv => RecordsMatchIds
  BY DEF IndInv
<1>2. QED
  BY <1>1, IndInvHolds, PTL

\* Nothing about a bounty changes once it is cancelled or finalised.
THEOREM ClosedForEver == Spec => ClosedIsFinal
<1>1. IndInv /\ [Next]_vars => ClosedStep
  BY NextClosedStep
<1>2. QED
  BY <1>1, IndInvHolds, PTL DEF Spec, ClosedIsFinal

\* The sweep overtakes no open window and no open dispute.
THEOREM SweepsWait == Spec => SweepWaitsForDisputes
<1>1. IndInv /\ [Next]_vars => CloseStep
  BY NextCloseStep
<1>2. QED
  BY <1>1, IndInvHolds, PTL DEF Spec, SweepWaitsForDisputes

\* Each step changes the module account by what one bounty's entries change: the
\* step from which the account is, at any time, the sum of escrows and bonds.
THEOREM MoneyStaysWithinBounties == Spec => MoneyMovesWithinOneBounty
<1> DEFINE Step == balance' # balance => MoneyStep
<1>1. IndInv /\ [Next]_vars => Step
  BY NextMoneyStep
<1> HIDE DEF Step
<1>2. Spec => [][Step]_vars
  BY <1>1, IndInvHolds, PTL DEF Spec
<1>3. QED
  BY <1>2 DEF MoneyMovesWithinOneBounty, Step

\* Over all bounties together the account holds exactly what the escrows and the
\* dispute bonds say, through every batch of claims, resolution and refund.
THEOREM LockedFundsAreBacked == Spec => []LockedFundsBacked
BY LockedInvHolds, PTL

\* No resolution and no refund ever fails for want of funds, of the board's schema or of
\* an exact count: the bond of any dispute and what is left of any pool can be paid.
THEOREM PayoutsAreFunded == Spec => []PayingGuards
<1>1. ASSUME IndInv, LockedFundsBacked, NEW b \in BountyId
      PROVE  /\ \A a \in OpenDisputes(b) :
                  /\ Posted(b) /\ bounties[b].board_schema_id \in schemas
                  /\ CanPay(balance, BountyModule, disputes[<<b, a>>].bond)
             /\ OpenDisputes(b) = {} => open_dispute_count[b] = 0
             /\ CanPay(balance, BountyModule, escrow[b])
  <2>1. /\ BondsLocked \in [DisputeKey -> Nat] /\ escrow \in [BountyId -> Nat]
        /\ balance[BountyModule] \in Nat
    BY <1>1, MoneyType DEF IndInv
  <2>2. SumFunction(escrow) \in Nat /\ escrow[b] <= SumFunction(escrow) /\ escrow[b] \in Nat
    BY <2>1, KeysAreFinite, SumOfNats
  <2>3. /\ SumFunction(BondsLocked) \in Nat
        /\ \A k \in DisputeKey : BondsLocked[k] <= SumFunction(BondsLocked)
                                /\ BondsLocked[k] \in Nat
    <3> HIDE DEF BondsLocked
    <3>1. QED
      BY <2>1, KeysAreFinite, SumOfNats
  <2>4. balance[BountyModule] = SumFunction(escrow) + SumFunction(BondsLocked)
    BY <1>1 DEF LockedFundsBacked, BondsLocked
  <2>5. CanPay(balance, BountyModule, escrow[b])
    BY <2>1, <2>2, <2>3, <2>4 DEF CanPay
  <2>6. ASSUME NEW a \in OpenDisputes(b)
        PROVE  /\ Posted(b) /\ bounties[b].board_schema_id \in schemas
               /\ CanPay(balance, BountyModule, disputes[<<b, a>>].bond)
    <3>1. a \in AttestationId /\ <<b, a>> \in DisputeKey /\ disputes[<<b, a>>] # None
      BY KeyOf DEF OpenDisputes
    <3>2. Posted(b) /\ bounties[b].board_schema_id \in schemas
      BY <1>1, <2>6, <3>1
      DEF IndInv, DisputesAreCounted, ClaimsAreAcceptable, RecordsMatchIds
    <3>3. BondsLocked[<<b, a>>] = disputes[<<b, a>>].bond
      BY <3>1 DEF BondsLocked, BondOf
    <3>4. QED
      BY <2>1, <2>2, <2>3, <2>4, <3>1, <3>2, <3>3 DEF CanPay
  <2>7. OpenDisputes(b) = {} => open_dispute_count[b] = 0
    BY <1>1, FS_EmptySet DEF IndInv, DisputesAreCounted
  <2>8. QED
    BY <2>5, <2>6, <2>7
<1>2. IndInv /\ LockedFundsBacked => PayingGuards
  BY <1>1 DEF PayingGuards
<1>3. QED
  BY <1>2, LockedInvHolds, PTL

\* No handler makes or loses AVOW: what a batch of claims takes from the module's
\* account is what it pays to the submitters it names, all balances together.
THEOREM BountiesKeepTheSupply == Spec => [][SupplyKept]_vars
BY IndInvHolds, NextSupply, PTL DEF Spec

\* The pool of every bounty is an escrowed deal: funded once, paid down by claims,
\* empty for ever after it is closed.
THEOREM RefinesEscrow == Spec => ImplementsEscrow
BY IndInvHolds, InitDeals, NextDeals, PTL DEF Spec, ImplementsEscrow, Deals!Spec

\* Claims, refunds and resolutions leave the attestation module's records alone: all
\* that happens to them is what that module promises.
THEOREM RecordsAreKept == Spec => KeepsRecords
BY IndInvHolds, InitRecords, NextRecords, PTL DEF Spec, IndInv, KeepsRecords, Ledger!Spec

\* And the bounty module is checked and proved against all that may happen to them: any
\* step within the promise is one of the steps its surroundings take here.
THEOREM EveryRecordIsAllowedFor ==
  ASSUME TypeOK, RecordsStep
  PROVE  Next
<1>1. CASE \E s \in SchemaId : Ledger!Register(s)
  <2>1. PICK s \in SchemaId : Ledger!Register(s)
    BY <1>1
  <2>2. Submitted' = Submitted
    BY <2>1 DEF Ledger!Register
  <2>3. ASSUME NEW a \in AttestationId PROVE attestations'[a] = attestations[a]
    <3>1. attestations[a] # None <=> <<a, attestations[a]>> \in Submitted
      BY DEF Submitted
    <3>2. attestations'[a] # None <=> <<a, attestations'[a]>> \in Submitted'
      BY DEF Submitted
    <3>3. \A x : <<a, x>> \in Submitted => x = attestations[a]
      BY DEF Submitted
    <3>4. \A x : <<a, x>> \in Submitted' => x = attestations'[a]
      BY DEF Submitted
    <3>5. QED
      BY <2>2, <3>1, <3>2, <3>3, <3>4
  <2>4. attestations' = attestations
    BY <2>3 DEF RecordsStep, TypeOK
  <2>5. SchemaRegistered(s)
    BY <2>1, <2>4 DEF Ledger!Register, RecordsStep, SchemaRegistered
  <2>6. QED
    BY <2>5 DEF Next
<1>2. CASE \E a \in SchemaId \X PayloadHash, submitter \in Address : Ledger!Store(a, submitter)
  <2>1. PICK a \in AttestationId, submitter \in Address : Ledger!Store(a, submitter)
    BY <1>2 DEF AttestationId
  <2>2. /\ Submitted' = Submitted \cup {<<a, submitter>>} /\ \A r \in Submitted : r[1] # a
        /\ a[1] \in schemas /\ UNCHANGED schemas
    BY <2>1 DEF Ledger!Store
  <2>3. submitter \in Submitters
    <3>1. <<a, submitter>> \in Submitted' \ Submitted
      BY <2>2
    <3>2. QED
      BY <3>1 DEF RecordsStep
  <2>4. attestations[a] = None
    <3>1. attestations[a] # None => <<a, attestations[a]>> \in Submitted
      BY DEF Submitted
    <3>2. <<a, attestations[a]>>[1] = a
      OBVIOUS
    <3>3. QED
      BY <2>2, <3>1, <3>2
  <2>5. ASSUME NEW x \in AttestationId
        PROVE  attestations'[x] = IF x = a THEN submitter ELSE attestations[x]
    <3>1. attestations[x] # None <=> <<x, attestations[x]>> \in Submitted
      BY DEF Submitted
    <3>2. attestations'[x] # None <=> <<x, attestations'[x]>> \in Submitted'
      BY DEF Submitted
    <3>3. \A y : <<x, y>> \in Submitted => y = attestations[x]
      BY DEF Submitted
    <3>4. \A y : <<x, y>> \in Submitted' => y = attestations'[x]
      BY DEF Submitted
    <3>5. \A y : <<x, y>> \in Submitted' <=>
                   <<x, y>> \in Submitted \/ (x = a /\ y = submitter)
      BY <2>2
    <3>6. QED
      BY <2>4, <3>1, <3>2, <3>3, <3>4, <3>5
  <2>6. attestations' = [attestations EXCEPT ![a] = submitter]
    BY <2>5 DEF RecordsStep, TypeOK
  <2>7. AttestationStored(a, submitter)
    BY <2>2, <2>4, <2>6 DEF RecordsStep, AttestationStored
  <2>8. QED
    BY <2>3, <2>7 DEF Next
<1>3. QED
  BY <1>1, <1>2 DEF RecordsStep, Ledger!Next

-----------------------------------------------------------------------------
(* A bounty does not stay open for ever                                    *)

\* Expired, with the dispute window of its last claim closed.
Late(b) == Posted(b) /\ HasExpired(b) /\ WindowsClosed(b)

Undisputed(b, a) == disputes[<<b, a>>] = None

Resolve(b, a) ==
  \E sender \in Address, decision \in {"Accept", "Reject"} : ResolveDispute(b, a, sender, decision)

\* The guards of the two actions, which are what ENABLED comes to for them.
CanResolve(b, a) ==
  /\ Posted(b) /\ bounties[b].board_schema_id \in schemas /\ disputes[<<b, a>>] # None
  /\ CanPay(balance, BountyModule, disputes[<<b, a>>].bond)
CanFinalise(b) ==
  /\ Finalisable(b) /\ open_dispute_count[b] = 0 /\ WindowsClosed(b)
  /\ CanPay(balance, BountyModule, escrow[b])

\* Once late, always late, and nothing can be disputed any more.
LEMMA LateStep ==
  ASSUME IndInv, [Next]_vars, NEW b \in BountyId, Late(b)
  PROVE  /\ Late(b)'
         /\ \A a \in AttestationId : disputes[<<b, a>>] = None => disputes'[<<b, a>>] = None
<1> DEFINE Kept ==
      /\ bounties'[b] # None
      /\ bounties'[b].expiry = bounties[b].expiry /\ bounties'[b].window = bounties[b].window
      /\ latest_claim_height'[b] = latest_claim_height[b]
      /\ rollup_height' \in Nat /\ rollup_height' >= rollup_height
      /\ \A a \in AttestationId : disputes[<<b, a>>] = None => disputes'[<<b, a>>] = None
<1>0. /\ TypeOK /\ bounties[b] # None /\ bounties[b] \in BountyState
      /\ rollup_height \in Nat /\ latest_claim_height[b] \in Nat
      /\ bounties[b].window \in Nat /\ bounties[b].expiry \in Nat
  BY PostedRecord, RecordFields, BoundsAssumption DEF IndInv, Late, Posted, TypeOK
<1>1. ASSUME NEW c \in BountyId, NEW r \in BountyState, Opens(c, r) PROVE Kept
  <2>1. c # b
    BY <1>0, <1>1 DEF Opens, Posted
  <2>2. QED
    BY <1>0, <1>1, <2>1 DEF Opens, TypeOK, claims, disputing, surroundings
<1>2. ASSUME NEW c \in BountyId, NEW batch \in Batch, ClaimBounty(c, batch) PROVE Kept
  <2>1. c # b
    BY <1>2 DEF ClaimBounty, Late
  <2>2. PICK paid \in Nat \ {0}, st \in {"Open", "Exhausted"} : Pays(c, paid, st)
    BY <1>2, ClaimEffect DEF IndInv
  <2>3. QED
    BY <1>0, <2>1, <2>2 DEF Pays, MovesTo, TypeOK, disputing, surroundings
<1>3. ASSUME NEW c \in BountyId, NEW a \in AttestationId, NEW disputer \in Disputers,
             DisputeAttestation(c, a, disputer)
      PROVE  Kept
  <2>1. c # b
    <3>1. SUFFICES ASSUME c = b PROVE FALSE
      OBVIOUS
    <3>2. claim_height[<<b, a>>] \in 1 .. latest_claim_height[b]
      BY <1>3, <3>1 DEF DisputeAttestation, IndInv, LatestClaimCoversAll
    <3>3. rollup_height <= claim_height[<<b, a>>] + bounties[b].window
      BY <1>3, <3>1 DEF DisputeAttestation
    <3>4. QED
      BY <1>0, <3>2, <3>3 DEF Late, WindowsClosed
  <2>2. \A d \in AttestationId : disputes'[<<b, d>>] = disputes[<<b, d>>]
    BY <1>0, <1>3, <2>1, KeyOf DEF DisputeAttestation, TypeOK
  <2>3. QED
    BY <1>0, <1>3, <2>2 DEF DisputeAttestation, record, claims, surroundings
<1>4. ASSUME NEW c \in BountyId, NEW a \in AttestationId, Resolve(c, a) PROVE Kept
  <2>1. \A d \in AttestationId : disputes[<<b, d>>] = None => disputes'[<<b, d>>] = None
    BY <1>0, <1>4, KeyOf DEF Resolve, ResolveDispute, TypeOK
  <2>2. QED
    BY <1>0, <1>4, <2>1 DEF Resolve, ResolveDispute, record, claims, surroundings
<1>5. ASSUME NEW c \in BountyId, NEW st \in BountyStatus, Closes(c, st) PROVE Kept
  <2>1. MovesTo(c, st)
    BY <1>0, <1>5, ClosesType
  <2>2. UNCHANGED <<claims, disputing, surroundings>>
    BY <1>5 DEF Closes
  <2>3. QED
    BY <1>0, <2>1, <2>2 DEF MovesTo, SameTerms, claims, disputing, surroundings
<1>6. ASSUME Outside PROVE Kept
  BY <1>0, <1>6, BoundsAssumption DEF Outside, record, claims, disputing
<1>7. Kept
  BY <1>0, <1>1, <1>2, <1>3, <1>4, <1>5, <1>6, StepKinds DEF Resolve
<1>8. QED
  BY <1>0, <1>7, BoundsAssumption
  DEF Late, Posted, HasExpired, CurrentDaHeight, WindowsClosed

\* A bounty that is late can be reopened by nothing, and each dispute it still has can be
\* resolved: if the operator answers it at all, it is gone for good.  The fairness is that
\* of FairSpec, with the guards in the place of ENABLED.
THEOREM DisputesDieOut ==
  ASSUME NEW b \in BountyId, NEW a \in AttestationId
  PROVE  /\ Spec
         /\ []<>~CanResolve(b, a) \/ []<><<Resolve(b, a)>>_vars
         => (Late(b) ~> []Undisputed(b, a))
<1>1. IndInv /\ [Next]_vars /\ Late(b) => Late(b)'
  BY LateStep
<1>2. IndInv /\ [Next]_vars /\ Late(b) /\ Undisputed(b, a) => Undisputed(b, a)'
  BY LateStep DEF Undisputed
<1>3. PayingGuards /\ Late(b) /\ ~Undisputed(b, a) => CanResolve(b, a)
  BY DEF PayingGuards, OpenDisputes, CanResolve, Late, Undisputed
<1>4. IndInv /\ <<Resolve(b, a)>>_vars => Undisputed(b, a)'
  BY KeyOf DEF IndInv, TypeOK, Resolve, ResolveDispute, Undisputed
<1>5. QED
  BY <1>1, <1>2, <1>3, <1>4, IndInvHolds, PayoutsAreFunded, PTL DEF Spec

\* And with no dispute left it is closed if anybody at all keeps sending FinaliseBounty
\* while its guards hold: they hold from then on, an unclaimed, exhausted or expired
\* bounty alike, and one its poster has cancelled late.
THEOREM BountiesGetClosed ==
  ASSUME NEW b \in BountyId
  PROVE  /\ Spec
         /\ []<>~CanFinalise(b) \/ []<><<FinaliseBounty(b)>>_vars
         => (Late(b) /\ OpenDisputes(b) = {} ~> Closed(b))
<1> DEFINE Quiet == Late(b) /\ OpenDisputes(b) = {}
<1>1. IndInv /\ [Next]_vars /\ Quiet => Quiet'
  BY LateStep DEF OpenDisputes
<1>2. IndInv /\ PayingGuards /\ Quiet /\ ~Closed(b) => CanFinalise(b)
  <2> SUFFICES ASSUME IndInv, PayingGuards, Quiet, ~Closed(b) PROVE CanFinalise(b)
    OBVIOUS
  <2>1. bounties[b].status \in BountyStatus /\ Posted(b)
    BY PostedRecord, RecordFields DEF IndInv, Late
  <2>2. Finalisable(b)
    BY <2>1 DEF Finalisable, Late, Closed, StatusIs
  <2>3. QED
    BY <2>2 DEF PayingGuards, CanFinalise, Late
<1>3. IndInv /\ <<FinaliseBounty(b)>>_vars => Closed(b)'
  <2> SUFFICES ASSUME IndInv, FinaliseBounty(b) PROVE Closed(b)'
    OBVIOUS
  <2>1. MovesTo(b, "Finalised")
    BY FinaliseCloses, ClosesType DEF IndInv, BountyStatus
  <2>2. QED
    BY <2>1 DEF MovesTo, Closed, StatusIs, Posted
<1> HIDE DEF Quiet
<1>4. /\ Spec
      /\ []<>~CanFinalise(b) \/ []<><<FinaliseBounty(b)>>_vars
      => (Quiet ~> Closed(b))
  BY <1>1, <1>2, <1>3, IndInvHolds, PayoutsAreFunded, PTL DEF Spec
<1>5. QED
  BY <1>4 DEF Quiet

=============================================================================

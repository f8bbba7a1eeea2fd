-------------------------------- MODULE Bounty ------------------------------
(***************************************************************************)
(* The bounty marketplace module: a pool of AVOW locked behind a board     *)
(* schema, paid out per attestation, with a dispute window after each      *)
(* claim.  As in Contracts, an action is one successful call of one        *)
(* handler: a failed call unwinds all it wrote.  Dispute grounds and       *)
(* events are left out.                                                    *)
(***************************************************************************)
EXTENDS Bank, FiniteSets, Functions, Sequences

CONSTANTS
  Address,          \* user addresses
  BountyModule,     \* the bank account the module controls
  None,             \* an absent entry of a StateMap
  SchemaId, PayloadHash, AttestorSetId,
  SchemaOwner,      \* SchemaId -> Address, the board operator
  Posters, Submitters, Disputers,   \* who posts, attests, disputes
  Pools, Payouts, Acceptances, Expiries, Windows,   \* arguments of PostBounty
  MAX_CLAIMS_PER_CALL,              \* 64 in the code
  MAX_OPEN_BOUNTIES_PER_SCHEMA,     \* 1024 in the code
  InitialBalance,   \* AVOW each user holds at genesis
  GenesisDaHeight,
  MaxNonce,         \* bound: bounties with nonce 0 .. MaxNonce only
  MaxHeight         \* bound: the last rollup height reached

Amount == Nat
Account == Address \cup {BountyModule}

\* An attestation's id is the hash of its schema and payload hash, a bounty's
\* that of its poster, board and nonce: both are injective on what they hash.
AttestationId == SchemaId \X PayloadHash
BountyId == Posters \X SchemaId \X (0 .. MaxNonce)
DisputeKey == BountyId \X AttestationId

AcceptancePredicate ==
       [kind: {"Any"}]
  \cup [kind: {"AttestorSet"}, attestor_set: AttestorSetId]
  \cup [kind: {"PayloadHashes"}, hashes: SUBSET PayloadHash]
  \cup [kind: {"PeerCount"}, min_attestors: 0 .. 255]

ASSUME ArgumentsAssumption ==
  /\ Posters \subseteq Address /\ Submitters \subseteq Address /\ Disputers \subseteq Address
  /\ Pools \subseteq Nat /\ Payouts \subseteq Nat /\ Acceptances \subseteq AcceptancePredicate
  /\ Expiries \subseteq Nat /\ Windows \subseteq Nat
ASSUME BoardsAssumption ==
  /\ SchemaOwner \in [SchemaId -> Address]
  /\ AttestationId # {} /\ IsFiniteSet(AttestationId) /\ IsFiniteSet(BountyId)
\* An address is 28 bytes.
ASSUME FinitenessAssumption == IsFiniteSet(Address)
ASSUME BoundsAssumption ==
  /\ InitialBalance \in Nat /\ GenesisDaHeight \in Nat
  /\ MaxNonce \in Nat /\ MaxHeight \in Nat \ {0}
  /\ MAX_CLAIMS_PER_CALL \in Nat /\ MAX_OPEN_BOUNTIES_PER_SCHEMA \in Nat
\* A module's account is a TokenHolder of its own kind, never a user address.
ASSUME ModuleAccountAssumption == BountyModule \notin Address

VARIABLES
  bounties,             \* BountyId -> BountyState
  open_by_schema,       \* SchemaId -> the ids listed for the matching service
  escrow,               \* BountyId -> Amount, an absent entry reads as zero
  disputes,             \* DisputeKey -> DisputeState
  claim_height,         \* DisputeKey -> the height the claim settled at
  latest_claim_height,  \* BountyId -> Nat, zero when nothing was claimed
  open_dispute_count,   \* BountyId -> Nat
  next_poster_nonce,
  balance,              \* sov-bank
  schemas,              \* ids of the schemas registered so far
  attestations,         \* AttestationId -> submitter
  rollup_height         \* sov-chain-state

record == <<bounties, open_by_schema, next_poster_nonce>>
claims == <<claim_height, latest_claim_height>>
disputing == <<disputes, open_dispute_count>>
surroundings == <<schemas, attestations, rollup_height>>
vars == <<record, escrow, claims, disputing, balance, surroundings>>

-----------------------------------------------------------------------------
(* Records and reads the handlers share                                    *)

BountyStatus == {"Open", "Exhausted", "Expired", "Cancelled", "Finalised"}
BountyState ==
  [poster: Address, board_schema_id: SchemaId, pool: Amount, per_attestation: Amount,
   acceptance: AcceptancePredicate, expiry: Nat, window: Nat, status: BountyStatus]
DisputeState == [disputer: Address, bond: Amount]

ASSUME NoneAssumption ==
  /\ None \notin BountyState /\ None \notin DisputeState
  /\ None \notin Address /\ None \notin Nat

Init ==
  /\ bounties = [b \in BountyId |-> None]
  /\ open_by_schema = [s \in SchemaId |-> {}]
  /\ escrow = [b \in BountyId |-> 0]
  /\ disputes = [k \in DisputeKey |-> None]
  /\ claim_height = [k \in DisputeKey |-> None]
  /\ latest_claim_height = [b \in BountyId |-> 0]
  /\ open_dispute_count = [b \in BountyId |-> 0]
  /\ next_poster_nonce = [a \in Address |-> 0]
  /\ balance = [a \in Account |-> IF a = BountyModule THEN 0 ELSE InitialBalance]
  /\ schemas = {}
  /\ attestations = [a \in AttestationId |-> None]
  /\ rollup_height = 1

CurrentDaHeight == GenesisDaHeight + rollup_height

Posted(b) == bounties[b] # None
StatusIs(b, statuses) == Posted(b) /\ bounties[b].status \in statuses
HasExpired(b) == CurrentDaHeight >= bounties[b].expiry
WithStatus(b, status) == [bounties EXCEPT ![b].status = status]
NoClaims(b) == escrow[b] = bounties[b].pool

MutIgnoresSchema(attestation, schema, predicate, peer_count) ==
  /\ predicate.kind = "PayloadHashes" => attestation[2] \in predicate.hashes
  /\ predicate.kind = "PeerCount" => peer_count >= predicate.min_attestors
MatchesAcceptance(attestation, schema, predicate, peer_count) ==
  /\ attestation[1] = schema
  /\ predicate.kind = "PayloadHashes" => attestation[2] \in predicate.hashes
  /\ predicate.kind = "PeerCount" => peer_count >= predicate.min_attestors

\* The handler knows no peers and passes a count of one.
Acceptable(b, attestation) ==
  MatchesAcceptance(attestation, bounties[b].board_schema_id, bounties[b].acceptance, 1)

MutWindowClosesEarly(b) ==
  latest_claim_height[b] > 0 =>
    rollup_height >= latest_claim_height[b] + bounties[b].window
MutWindowNeverCloses(b) ==
  latest_claim_height[b] > 0 => rollup_height > rollup_height + bounties[b].window
WindowsClosed(b) ==
  latest_claim_height[b] > 0 =>
    rollup_height > latest_claim_height[b] + bounties[b].window

MutHasRoomForOneMore(schema) ==
  Cardinality(open_by_schema[schema]) <= MAX_OPEN_BOUNTIES_PER_SCHEMA
\* An index is full for its own board only.
HasRoom(schema) == Cardinality(open_by_schema[schema]) < MAX_OPEN_BOUNTIES_PER_SCHEMA

MutOnlyExhausted(b) == StatusIs(b, {"Exhausted"})
Finalisable(b) ==
  /\ StatusIs(b, BountyStatus \ {"Cancelled", "Finalised"})
  /\ HasExpired(b) \/ StatusIs(b, {"Exhausted"})

-----------------------------------------------------------------------------
(* Writes the handlers share                                               *)

DropFromIndex(b) ==
  open_by_schema' = [open_by_schema EXCEPT ![bounties[b].board_schema_id] = @ \ {b}]

\* What is left in the escrow goes back to the poster.
MutRefundKeepsEscrow(b) ==
  /\ CanPay(balance, BountyModule, escrow[b])
  /\ balance' = Transfer(balance, BountyModule, bounties[b].poster, escrow[b])
  /\ escrow' = escrow
MutRefundsTheAccount(b) ==
  /\ balance' = Transfer(balance, BountyModule, bounties[b].poster, balance[BountyModule])
  /\ escrow' = [escrow EXCEPT ![b] = 0]
Refund(b) ==
  /\ CanPay(balance, BountyModule, escrow[b])
  /\ balance' = Transfer(balance, BountyModule, bounties[b].poster, escrow[b])
  /\ escrow' = [escrow EXCEPT ![b] = 0]

AfterClaim(b, left) ==
  IF left < bounties[b].per_attestation THEN WithStatus(b, "Exhausted") ELSE bounties

MutFirstClaimHeight(b) ==
  IF latest_claim_height[b] = 0 THEN rollup_height ELSE latest_claim_height[b]
LatestClaim(b) ==
  IF rollup_height > latest_claim_height[b] THEN rollup_height ELSE latest_claim_height[b]

MutCountKept(b) == open_dispute_count' = open_dispute_count
CountDisputeClosed(b) ==
  open_dispute_count' = [open_dispute_count EXCEPT ![b] = IF @ > 0 THEN @ - 1 ELSE 0]

BumpPosterNonce(poster) ==
  next_poster_nonce' = [next_poster_nonce EXCEPT ![poster] = @ + 1]

\* How many of the batch's claims are on attestations this address submitted.
ClaimsOf(batch, address) ==
  Cardinality({i \in DOMAIN batch : attestations[batch[i]] = address})

-----------------------------------------------------------------------------
(* The six call messages                                                   *)

PostBounty(poster, schema, pool, per_attestation, acceptance, expiry, window) ==
  LET b == <<poster, schema, next_poster_nonce[poster]>>
  IN  /\ pool # 0 /\ per_attestation # 0 /\ per_attestation <= pool
      /\ expiry # 0 /\ expiry > CurrentDaHeight
      /\ schema \in schemas
      /\ next_poster_nonce[poster] <= MaxNonce          \* bound
      /\ ~Posted(b)
      /\ CanPay(balance, poster, pool)
      /\ HasRoom(schema)
      /\ BumpPosterNonce(poster)
      /\ balance' = Transfer(balance, poster, BountyModule, pool)
      /\ bounties' = [bounties EXCEPT ![b] =
           [poster |-> poster, board_schema_id |-> schema, pool |-> pool,
            per_attestation |-> per_attestation, acceptance |-> acceptance,
            expiry |-> expiry, window |-> window, status |-> "Open"]]
      /\ escrow' = [escrow EXCEPT ![b] = pool]
      /\ open_by_schema' = [open_by_schema EXCEPT ![schema] = @ \cup {b}]
      /\ UNCHANGED <<claims, disputing, surroundings>>

\* Anyone may claim, for any submitters; a batch may name an attestation twice.
ClaimBounty(b, batch) ==
  LET per == bounties[b].per_attestation
      paid == per * Len(batch)
  IN  /\ StatusIs(b, {"Open"})
      /\ ~HasExpired(b)
      /\ \A i \in DOMAIN batch : attestations[batch[i]] # None /\ Acceptable(b, batch[i])
      /\ paid <= escrow[b]
      /\ CanPay(balance, BountyModule, paid)
      /\ balance' = [a \in Account |->
           IF a = BountyModule THEN balance[a] - paid
                               ELSE balance[a] + per * ClaimsOf(batch, a)]
      /\ claim_height' = [k \in DisputeKey |->
           IF k[1] = b /\ k[2] \in Range(batch) THEN rollup_height ELSE claim_height[k]]
      /\ latest_claim_height' = [latest_claim_height EXCEPT ![b] = LatestClaim(b)]
      /\ escrow' = [escrow EXCEPT ![b] = @ - paid]
      /\ bounties' = AfterClaim(b, escrow[b] - paid)
      /\ UNCHANGED <<open_by_schema, next_poster_nonce, disputing, surroundings>>

\* The handler looks at the claim's window only, not at the bounty's status.
DisputeAttestation(b, attestation, disputer) ==
  LET k == <<b, attestation>>
      bond == bounties[b].per_attestation
  IN  /\ Posted(b)
      /\ disputes[k] = None
      /\ claim_height[k] # None
      /\ rollup_height <= claim_height[k] + bounties[b].window
      /\ CanPay(balance, disputer, bond)
      /\ balance' = Transfer(balance, disputer, BountyModule, bond)
      /\ disputes' = [disputes EXCEPT ![k] = [disputer |-> disputer, bond |-> bond]]
      /\ open_dispute_count' = [open_dispute_count EXCEPT ![b] = @ + 1]
      /\ UNCHANGED <<record, escrow, claims, surroundings>>

\* Accept upholds the dispute; the claim's payout stays paid either way.
ResolveDispute(b, attestation, sender, decision) ==
  LET k == <<b, attestation>>
      winner == IF decision = "Accept" THEN disputes[k].disputer ELSE bounties[b].poster
  IN  /\ Posted(b) /\ bounties[b].board_schema_id \in schemas
      /\ sender = SchemaOwner[bounties[b].board_schema_id]
      /\ disputes[k] # None
      /\ CanPay(balance, BountyModule, disputes[k].bond)
      /\ balance' = Transfer(balance, BountyModule, winner, disputes[k].bond)
      /\ disputes' = [disputes EXCEPT ![k] = None]
      /\ CountDisputeClosed(b)
      /\ UNCHANGED <<record, escrow, claims, surroundings>>

CancelBounty(b, sender) ==
  /\ Posted(b) /\ sender = bounties[b].poster
  /\ StatusIs(b, BountyStatus \ {"Cancelled", "Finalised"})
  /\ NoClaims(b) \/ HasExpired(b)
  /\ Refund(b)
  /\ bounties' = WithStatus(b, IF HasExpired(b) THEN "Expired" ELSE "Cancelled")
  /\ DropFromIndex(b)
  /\ UNCHANGED <<next_poster_nonce, claims, disputing, surroundings>>

\* Anyone may send it: the handler never looks at the sender.
FinaliseBounty(b) ==
  /\ Finalisable(b)
  /\ open_dispute_count[b] = 0
  /\ WindowsClosed(b)
  /\ Refund(b)
  /\ bounties' = WithStatus(b, "Finalised")
  /\ DropFromIndex(b)
  /\ UNCHANGED <<next_poster_nonce, claims, disputing, surroundings>>

-----------------------------------------------------------------------------
(* What the module sees of its surroundings                                *)

\* The attestation module registers a schema, and never removes one.
SchemaRegistered(s) ==
  /\ s \notin schemas
  /\ schemas' = schemas \cup {s}
  /\ UNCHANGED <<record, escrow, claims, disputing, balance, attestations, rollup_height>>

\* The attestation module stores an attestation: write-once.
AttestationStored(a, submitter) ==
  /\ a[1] \in schemas
  /\ attestations[a] = None
  /\ attestations' = [attestations EXCEPT ![a] = submitter]
  /\ UNCHANGED <<record, escrow, claims, disputing, balance, schemas, rollup_height>>

\* One rollup block per DA slot.
AdvanceBlock ==
  /\ rollup_height < MaxHeight                          \* bound
  /\ rollup_height' = rollup_height + 1
  /\ UNCHANGED <<record, escrow, claims, disputing, balance, schemas, attestations>>

Post ==
  \E poster \in Posters, schema \in SchemaId, pool \in Pools, per \in Payouts,
     acceptance \in Acceptances, expiry \in Expiries, window \in Windows :
    PostBounty(poster, schema, pool, per, acceptance, expiry, window)

Batch == UNION {[1 .. n -> AttestationId] : n \in 1 .. MAX_CLAIMS_PER_CALL}

Next ==
  \/ Post
  \/ \E b \in BountyId :
       \/ \E batch \in Batch : ClaimBounty(b, batch)
       \/ \E a \in AttestationId, disputer \in Disputers : DisputeAttestation(b, a, disputer)
       \/ \E a \in AttestationId, sender \in Address, decision \in {"Accept", "Reject"} :
            ResolveDispute(b, a, sender, decision)
       \/ \E sender \in Address : CancelBounty(b, sender)
       \/ FinaliseBounty(b)
  \/ \E s \in SchemaId : SchemaRegistered(s)
  \/ \E a \in AttestationId, submitter \in Submitters : AttestationStored(a, submitter)
  \/ AdvanceBlock

Spec == Init /\ [][Next]_vars

\* Blocks keep coming; finalising is open to anyone; and the board operator
\* answers every dispute one way or the other, which the code only makes possible.
FairSpec ==
  /\ Spec
  /\ WF_vars(AdvanceBlock)
  /\ \A b \in BountyId :
       /\ WF_vars(FinaliseBounty(b))
       /\ \A a \in AttestationId :
            WF_vars(\E sender \in Address, decision \in {"Accept", "Reject"} :
                      ResolveDispute(b, a, sender, decision))

-----------------------------------------------------------------------------
(* Properties                                                              *)

Closed(b) == StatusIs(b, {"Cancelled", "Finalised"})
BondOf(k) == IF disputes[k] = None THEN 0 ELSE disputes[k].bond
OpenDisputes(b) == {a \in AttestationId : disputes[<<b, a>>] # None}

TypeOK ==
  /\ bounties \in [BountyId -> BountyState \cup {None}]
  /\ open_by_schema \in [SchemaId -> SUBSET BountyId]
  /\ escrow \in [BountyId -> Amount]
  /\ disputes \in [DisputeKey -> DisputeState \cup {None}]
  /\ claim_height \in [DisputeKey -> Nat \cup {None}]
  /\ latest_claim_height \in [BountyId -> Nat]
  /\ open_dispute_count \in [BountyId -> Nat]
  /\ next_poster_nonce \in [Address -> 0 .. MaxNonce + 1]
  /\ balance \in [Account -> Amount]
  /\ schemas \in SUBSET SchemaId
  /\ attestations \in [AttestationId -> Address \cup {None}]
  /\ rollup_height \in 1 .. MaxHeight

\* An open bounty can always pay one more claim, an exhausted one never can,
\* and nothing is left in the escrow once the poster has been refunded.
EscrowFollowsStatus ==
  \A b \in BountyId :
    /\ StatusIs(b, {"Open"}) => escrow[b] \in bounties[b].per_attestation .. bounties[b].pool
    /\ StatusIs(b, {"Exhausted"}) => escrow[b] < bounties[b].per_attestation
    /\ ~StatusIs(b, {"Open", "Exhausted"}) => escrow[b] = 0

\* The module account holds exactly the escrows and the dispute bonds, over all
\* bounties together: no payout, refund or bond is paid with another's money.
LockedFundsBacked ==
  balance[BountyModule] =
    SumFunction(escrow) + SumFunction([k \in DisputeKey |-> BondOf(k)])

\* Every settled claim names a stored attestation of the bounty's own board whose
\* payload is one of those asked for, and none was paid when two peers are asked.
ClaimsAreAcceptable ==
  \A b \in BountyId, a \in AttestationId :
    claim_height[<<b, a>>] # None =>
      /\ Posted(b) /\ attestations[a] # None
      /\ a[1] = bounties[b].board_schema_id
      /\ bounties[b].acceptance.kind = "PayloadHashes" => a[2] \in bounties[b].acceptance.hashes
      /\ bounties[b].acceptance.kind = "PeerCount" => bounties[b].acceptance.min_attestors <= 1

\* The one height the sweep looks at is the last of the bounty's claim heights,
\* and it is zero, the value that means no claim, only when there was none.
LatestClaimCoversAll ==
  \A b \in BountyId :
    /\ \A a \in AttestationId : claim_height[<<b, a>>] # None =>
         claim_height[<<b, a>>] \in 1 .. latest_claim_height[b]
    /\ latest_claim_height[b] <= rollup_height
    /\ latest_claim_height[b] > 0 =>
         \E a \in AttestationId : claim_height[<<b, a>>] = latest_claim_height[b]

\* The counter the sweep trusts instead of enumerating the disputes is exact,
\* and every open dispute contests a settled claim for that claim's payout.
DisputesAreCounted ==
  \A b \in BountyId :
    /\ open_dispute_count[b] = Cardinality(OpenDisputes(b))
    /\ \A a \in OpenDisputes(b) :
         /\ claim_height[<<b, a>>] # None
         /\ disputes[<<b, a>>].bond = bounties[b].per_attestation

\* A finalised or cancelled bounty has no open dispute and no dispute window
\* that is still open, although opening a dispute never looks at the status.
ClosedIsQuiet ==
  \A b \in BountyId : Closed(b) => open_dispute_count[b] = 0 /\ WindowsClosed(b)

\* A claimed bounty is never cancelled outright: its claims' windows protect it.
ClaimedIsNotCancelled ==
  \A b \in BountyId :
    latest_claim_height[b] > 0 =>
      Posted(b) /\ ~StatusIs(b, {"Cancelled"}) /\ escrow[b] < bounties[b].pool

\* The index lists exactly the bounties whose escrow is still with the module,
\* under their own board, and stays within the capacity of its SafeVec.
IndexListsUnsettled ==
  \A s \in SchemaId :
    /\ open_by_schema[s] = {b \in BountyId : StatusIs(b, {"Open", "Exhausted"}) /\ b[2] = s}
    /\ Cardinality(open_by_schema[s]) <= MAX_OPEN_BOUNTIES_PER_SCHEMA

\* A bounty's record agrees with the id it is stored under, its terms are sound
\* and the nonce of its poster is past it, so that the next id is free.
RecordsMatchIds ==
  \A b \in BountyId : Posted(b) =>
    /\ bounties[b].poster = b[1] /\ bounties[b].board_schema_id = b[2] /\ b[2] \in schemas
    /\ bounties[b].per_attestation \in 1 .. bounties[b].pool
    /\ b[3] < next_poster_nonce[b[1]]

\* The inductive invariant.
IndInv ==
  /\ TypeOK /\ EscrowFollowsStatus /\ ClaimsAreAcceptable /\ LatestClaimCoversAll
  /\ DisputesAreCounted /\ ClosedIsQuiet /\ ClaimedIsNotCancelled /\ IndexListsUnsettled
  /\ RecordsMatchIds

\* No bounty is ever stuck: the operator can resolve a dispute either way, an
\* expired or exhausted bounty with no dispute and no open window can be swept,
\* and none of these fails for want of funds in the module account.
NeverStuck ==
  \A b \in BountyId :
    /\ \A a \in OpenDisputes(b), decision \in {"Accept", "Reject"} :
         ENABLED ResolveDispute(b, a, SchemaOwner[bounties[b].board_schema_id], decision)
    /\ Posted(b) /\ (StatusIs(b, {"Exhausted"}) \/ HasExpired(b)) /\ ~Closed(b)
       /\ OpenDisputes(b) = {} /\ WindowsClosed(b) => ENABLED FinaliseBounty(b)

\* Nothing about a bounty changes any more once it is cancelled or finalised:
\* no claim, no late dispute, no second refund, no return to the index.
ClosedStep ==
  \A b \in BountyId : Closed(b) =>
    /\ bounties'[b] = bounties[b] /\ escrow'[b] = escrow[b]
    /\ open_dispute_count'[b] = open_dispute_count[b]
    /\ \A a \in AttestationId :
         /\ claim_height'[<<b, a>>] = claim_height[<<b, a>>]
         /\ disputes'[<<b, a>>] = disputes[<<b, a>>]
    /\ \A s \in SchemaId : b \notin open_by_schema'[s]
ClosedIsFinal == [][ClosedStep]_vars

\* Every step moves the module's account by exactly what it adds to, or takes
\* from, the escrow and one dispute bond of one bounty.
MoneyStep ==
  \E b \in BountyId, a \in AttestationId :
    /\ \A d \in BountyId \ {b} : escrow'[d] = escrow[d]
    /\ \A k \in DisputeKey \ {<<b, a>>} : disputes'[k] = disputes[k]
    /\ balance'[BountyModule] - balance[BountyModule] =
         (escrow'[b] - escrow[b]) + (BondOf(<<b, a>>)' - BondOf(<<b, a>>))
MoneyMovesWithinOneBounty == [][balance' # balance => MoneyStep]_vars

\* While the window of a claim, or a dispute of it, is open the bounty is not
\* closed: the sweep cannot overtake the dispute.
CloseStep ==
  \A b \in BountyId : ~Closed(b) /\ Closed(b)' =>
    \A a \in AttestationId : claim_height[<<b, a>>] # None =>
      /\ disputes[<<b, a>>] = None
      /\ rollup_height > claim_height[<<b, a>>] + bounties[b].window
SweepWaitsForDisputes == [][CloseStep]_vars

\* The pool of a bounty is a deal of the Escrow specification: claims pay out of
\* it, and it closes with the refund of what they left.
Phase == [b \in BountyId |->
           IF ~Posted(b) THEN "unposted"
           ELSE IF StatusIs(b, {"Open", "Exhausted"}) THEN "live" ELSE "closed"]
Deals == INSTANCE Escrow WITH Deal <- BountyId, held <- escrow, phase <- Phase
ImplementsEscrow == Deals!Spec

\* The module never writes what it reads of the attestation module: a payout goes
\* by a record that was stored once, by its submitter, and is still as it was.
Submitted == {<<a, attestations[a]>> : a \in {x \in AttestationId : attestations[x] # None}}
Ledger == INSTANCE Records WITH records <- Submitted
KeepsRecords == Ledger!Spec

\* Every bounty is closed in the end, however often its claims are disputed.
BountyIsClosed == \A b \in BountyId : Posted(b) ~> Closed(b)

-----------------------------------------------------------------------------
(* What the comments say and the code does not do                          *)

\* CallMessage::ClaimBounty in the design: disputes within the window can claw
\* back.  A dispute decided for a disputer other than the poster returns the
\* payout of the claim to the escrow or to the poster.
Recoverable(b) == escrow[b] + balance[b[1]]
ClawBackStep ==
  \A b \in BountyId, a \in AttestationId :
    LET dispute == disputes[<<b, a>>]
    IN  /\ dispute # None /\ disputes'[<<b, a>>] = None
        /\ dispute.disputer # b[1]
        /\ balance'[dispute.disputer] > balance[dispute.disputer]
        => Recoverable(b)' >= Recoverable(b) + dispute.bond
UpheldDisputesClawBack == [][ClawBackStep]_vars

=============================================================================

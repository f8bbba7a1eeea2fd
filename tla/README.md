# TLA+ models of Ligate Chain

This directory models the parts of Ligate Chain whose correctness depends on
the order in which things happen: the three state modules that hold AVOW in
escrow and write once-and-for-all records (`crates/modules/contract`,
`crates/modules/bounty`, `crates/modules/attestation`), the client library that
builds their messages (`crates/client-rs`), the way from a template to a seeded
chain (`crates/genesis-tool`, `crates/stf/src/genesis_config.rs`), the operator's
registration ceremony (`crates/bootstrap-cli`), and two tasks of the node: the
cluster endpoint and the DA metrics (`crates/rollup/src/cluster.rs`, `metrics.rs`).
TLC checks small instances; TLAPS proves the main results for every value of the
constants.

| module | what it is |
|---|---|
| `Bank` | what the modules use of `sov-bank`: the funds check and the effect of a transfer |
| `Escrow` | abstract specification: a deal is funded once, paid down, and empty when it is closed |
| `Contracts` | the contract module: eight call messages, escrow, bonds, disputes, the clock |
| `Registry` | abstract specification: an attestor set is stored once, a schema is bound once, to a stored set |
| `Records` | abstract specification: schemas are only added, an attestation is stored once, for ever under one submitter |
| `ContractsProofs` | its invariants, action properties and the refinement of `Escrow`, proved; that it keeps the supply, and that a delivery gets decided |
| `Bounty` | the bounty module: six call messages, claims, windows, disputes, the reverse index |
| `BountyProofs` | its invariants, action properties and the refinements of `Escrow` and `Records`, proved; that it keeps the supply, and that a bounty gets closed |
| `Attestation` | the attestation module: attestor sets, schemas, quorum-signed attestations, fees |
| `AttestationProofs` | the invariants and action properties of `Attestation` and `Client`, proved: quorums, fees, books, the refinements of `Registry` and `Records`, and that collected signatures stay good |
| `Client` | the client library over `Attestation`: messages signed off chain that arrive later, twice or never |
| `Genesis` | genesis-tool, the pre-flight validation and the attestation module's seeding, from a template to a running chain |
| `GenesisProofs` | that what is vouched for is whole and boots, that what boots is seeded to the end, and that what runs is sound, proved |
| `Ceremony` | the register-canonical-schemas program: checks, nonces, polling, time-outs, re-runs |
| `CeremonyProofs` | that re-running lands nothing twice, reports the truth and leaves nothing out, on a chain that is a `Registry`, proved |
| `ClusterTopology` | the cluster endpoint: overlapping requests around one cache slot |
| `ClusterTopologyProofs` | how old its answers can be, proved |
| `DaMetrics` | the task that turns the blob sender's status events into metrics, and the channel it reads |
| `DaMetricsProofs` | that its map is bounded and expires, that the latencies it observes are real, that nothing is lost in silence, and that a shutdown is finite, proved |
| `Sums` | lemmas about sums over a finite set, on which the proofs about accounts and counters rest |
| `MC*` and `*.cfg` | small instances for TLC |

## 1. Inventory of the system

Ligate Chain is a Sovereign SDK rollup on Celestia. A block is a list of
transactions; each calls one handler of one module. The SDK runs a handler over
a working copy of the state (`TxState`) and throws the copy away when the
handler returns an error, so a handler happens as a whole or not at all. The
interesting interleavings are therefore those of calls by different senders, and
of calls with the passing of blocks.

| component | state | operations | interacts with | what makes it correct |
|---|---|---|---|---|
| attestation module | attestor sets, schemas, attestations, fee counters, genesis parameters | `RegisterAttestorSet`, `RegisterSchema`, `SubmitAttestation` | bank (fees); read by bounty and contract | records are write-once; a quorum signed what is stored; fees are flat and booked |
| bounty module | bounties, escrow, claims' heights, disputes and their count, open index, nonces | `PostBounty`, `ClaimBounty`, `DisputeAttestation`, `ResolveDispute`, `CancelBounty`, `FinaliseBounty` | bank (escrow, bonds), attestation (schemas, attestations, owners), chain state (heights) | locked money is backed; the sweep waits for windows and disputes; the index is exact |
| contract module | contracts, commits (bonds), deliveries, disputes, escrow, nonces | `PostContract`, `CommitToContract`, `DeliverContract`, `AcceptDelivery`, `RejectDelivery`, `ResolveContractDispute`, `CancelContract`, `FinalizeDelivery` | bank, attestation, chain state | locked money is backed; one settlement per contract; bonds go only to their owners or by a decision |
| runtime (`crates/stf`) | composition of the above with the SDK's modules | dispatch, authentication, gas | everything | a call is atomic; modules share one bank |
| genesis configuration (`stf/src/genesis_config.rs`) | none | `create_genesis_config`, `validate_config` | bundle files, modules' genesis | what it accepts, genesis accepts to the last entry |
| genesis-tool | eight files in a directory | `generate`, `verify`, `keys generate` | template, `keys.toml`, genesis configuration | a bundle is the work of one run; what it says OK to boots |
| register ceremony (`bootstrap-cli`) | local nonce, outcomes | exists-check, submit, poll for inclusion | node REST API, attestation module | re-running finishes exactly what is missing |
| client library (`client-rs`) | local nonce | digests, signing, builders, submission | node REST API, attestation module | what is signed off chain verifies on chain, also later |
| cluster endpoint (`rollup/src/cluster.rs`) | one-slot cache with a time stamp | `GET /v1/cluster/nodes` | Postgres tables of the sequencer election | answers are at most a second old |
| DA metrics, samplers (`rollup/src/metrics.rs`) | in-flight map, previous role, gauges | status events, sweeps, polls | blob sender's broadcast channel, local HTTP | counters agree with events; the map is bounded; latencies are real |
| health, info (`rollup/src`) | none | reads | sync status channel | readiness follows the channel |
| node binaries, configuration, provers, ops, docs | none at run time | wiring | SDK | out of scope |

### Behaviours that are hard to test

* **Orders of calls**: two workers commit to one contract; a poster cancels
  after expiry while a delivery or a dispute is pending; an attestation is
  claimed twice; a claim is disputed, resolved and disputed again; two
  submitters race for one payload.
* **Boundaries of heights**: expiry is compared with `>=`, windows with `>`; the
  contract and bounty modules mix DA heights (expiry) with rollup heights
  (windows).
* **One account for everything**: each escrow module keeps all pools and all
  bonds in one bank account. A settlement that pays twice succeeds, with the
  money of another contract.
* **Trusted summaries**: the bounty sweep trusts a dispute counter and one
  latest height instead of enumerating, the index trusts its removals, the
  cancel rule takes an intact escrow as proof that nothing was claimed.
* **Rounding**: the arbiter's cut and the builder's share are floors of a share.
* **Off chain**: concurrent fills of the topology cache; status events lost by a
  slow reader while blobs fail and are published again; the ceremony's timeout
  with a transaction still pending; signatures collected long before they are
  submitted; a generator of files that stops half way and is run again.
* **The same rule twice**: the pre-flight checks of a genesis file restate what the
  module's genesis will check, on other data.

`PROJECT.json` lists these as hazards at the line where each bites, with the
properties that would catch it going wrong.

## 2. Plan

The order is by what a mistake costs: money in escrow first, then the records
the money depends on, then the node's own concurrency.

1. `Contracts` with `Escrow` and `Bank`; proofs in `ContractsProofs`. *Done.*
2. `Bounty`, also against `Escrow`; proofs in `BountyProofs`. *Done.*
3. `Attestation`; proofs in `AttestationProofs`. *Done.*
4. `Ceremony` (`bootstrap-cli/src/register.rs`); proofs in `CeremonyProofs`. *Done.*
5. `ClusterTopology` (`rollup/src/cluster.rs`); proofs in
   `ClusterTopologyProofs`. *Done.*
6. `DaMetrics` (`rollup/src/metrics.rs`); proofs in `DaMetricsProofs`. *Done.*
7. `Genesis`: from template and `keys.toml` through validation to seeding; proofs in
   `GenesisProofs`. *Done.*
8. `Client`, which composes the client library with `Attestation`; proofs in
   `AttestationProofs`. *Done.*
9. `Sums`, and with it that the accounts of the two escrow modules are backed, that the
   attestation fees are booked, that lost events are reported, and that a running
   chain's sets have as many different members as their thresholds, unless a list names a
   key twice. *Done.*
10. `Registry` and `Records`, the interfaces between the attestation module and the
    parts that rely on it; that no module makes or loses AVOW; and the safety half of the
    liveness properties. *Done.*

What could come next: the attestation module and the bounty module over one bank, so
that register, attest, claim and dispute draw on the same balances (their records are
joined by `Records`, their accounts by nothing but that each keeps the supply); in the
ceremony, an attestation module that refuses a registration for good.

## 3. How the models correspond to the code

**Actions.** One action is one *successful* call of one handler; its guard is the
conjunction of the handler's early returns, and the funds checks of the bank
transfers it makes (`CanPay`). A call that fails leaves the state as it was, so
it is a stuttering step and has no action of its own. The parameters of an
action are the fields of the call message and the sender; a handler that never
looks at its sender has no sender parameter.

**State.** A `StateMap` is a function; an absent entry is `None`, and a map whose
absent entries are read as zero is a function to numbers. Ids are hashes: the
models use what is hashed, a tuple, in place of the hash, which assumes that no
two inputs collide. `sov-bank` is a function from accounts to AVOW, and a
module's own account is `ContractModule` or `BountyModule`, which is no user's
address.

**The clock.** `rollup_height` grows by `AdvanceBlock`, one rollup block per DA
slot; `CurrentDaHeight` is `GenesisDaHeight + rollup_height`, as in
`current_da_height`. Expiries are DA heights and windows are rollup heights, as
in the code.

**Left out.** Events, query routes, Prometheus counters, dispute grounds, SLA
hashes, payload shapes, the attestation timestamp (the constant 0) and gas. The
counters of the attestation module and the heights saturate at the width of
their type in the code; total supply and chain age keep them far from it, and
the models use plain naturals. The one product of a pool and a fee saturates in the
model as it does in the code (`SaturatingMul`).

### Contracts

`contracts`, `commits`, `deliveries`, `disputes`, `escrow` and
`next_poster_nonce` are the fields of `struct Contracts`. `Settle` is what
accept, finalise and resolve share: pay, return or forfeit one bond, clear the
escrow. The attestations a delivery must name come from `AttestationStored`,
which stands for the attestation module.

### Bounty

`bounties`, `open_by_schema`, `escrow`, `disputes`, `claim_height`,
`latest_claim_height`, `open_dispute_count` and `next_poster_nonce` are the
fields of `struct Bounty`. A claim batch is a sequence of attestation ids and may
repeat one. `MatchesAcceptance` takes the count of peers as a parameter and
`Acceptable` passes one, as the handler does. `SchemaRegistered` and
`AttestationStored` stand for the attestation module, which never removes or
rewrites either.

### Attestation

An attestor set's id determines its members and threshold, so `attestor_sets` is
the set of ids stored, and an id counts each member's occurrences: the code sorts
members and keeps duplicates. A submission is the sequence of keys it claims to
have signatures of; `signed` is the set of signatures that exist, each bound to
schema, payload and submitter as `SignedAttestationPayload` is. `Sign` is an
attestor's own act, off chain. `Signers` may leave out keys of `PubKey` to which
nobody can sign, such as bytes that are no curve point. `ChargeToTreasury` and
`ChargeBoth` are the one and two transfers of `charge_to_treasury` and
`charge_to_builder` with their counters. A charge of zero changes nothing, so
the code's early return for it needs no case.

### Client

`Client` extends `Attestation`: its steps are those of the ledger, by anybody
(`AnybodyElse`), and those of relayers. `BuildSignedSubmit` is `build_signed_submit`:
it computes the digest, signs it with every key the caller holds and checks nothing
but the number of keys, so that keys may be of no member, too few or the same one
twice. The message then is in `in_flight` and may be submitted (`SubmitRawTx`) at any
later time, again after it has been executed, or never (`GiveUp`). The handler verifies
over the time 0 (`HandlerTimestamp`), the caller signs over whatever it passes, so that
a signature over another time adds nothing to `signed`. The transaction's own nonce and
encoding are the SDK's.

### Genesis

A bundle is a record of four of the eight files, in the order in which they are
written; the four left out hold addresses the way `operator_incentives` does and
nothing that is validated. `SubstituteAddresses` is the rewriting of `keys.toml`:
whole strings, each once, and balances by the address after it. The code rewrites any
string value that equals a key of `keys.toml`, wherever it stands; the keys are taken to
be addresses, which no schema name, token id or public key equals, so that the model
rewrites the fields that hold addresses. `generate` is a run
with a place (`Truncate`, `WriteFile`, `FinishGenerate`), since `std::fs::write`
empties a file before it fills it, and it can stop at any place; nothing tells the next
run. `vouched` is what the tool has printed OK for since the last run was started;
`verify` knows the directory alone. `CreateGenesisConfig` is reading, parsing and
validating, and is one operator because the tool and the node call the same function:
with the DA layer's address type as parameter. The operator deploys a bundle the tool
has said OK to, or one written by hand (`Deploy`), once; he does not deploy while the
tool is writing. `Boot` is what the node does with it before
`seed_from_config`, which then goes entry by entry. A schema's version is part of its
name here.

### DaMetrics

`channel` is the broadcast channel: a full one overwrites its oldest event and the
reader learns how many it lost (`missed`). The task's `select!` is the disjunction
`Task`: whichever branch is ready. A `HashMap`'s first key is any key (`Evictions`).
Age stands for `Instant`: `Tick` lets a unit pass when everything ready has been
served, so the units are long compared with the task; a tokio interval ticks at once
and then every `SWEEP_INTERVAL`, and the sweep's deadline may be served before or after
the events waiting. `blobs` is the sender's view of each blob, with the age of its last
publication, and `sent` what a reader who loses nothing would have counted: both are
history, which the task does not see. `took` in a Finalized event and `blob` in a Failed
one are history too. Receipts are fixed per blob; an adapter may leave the fee and the
gas out. The label of a failure is the discriminant of its error.

### Ceremony

`run` is the program: its place, its local `nonce` and the `outcomes` it would
return. It reads the nonce once (`Start`) and then, for every id of the
configuration, looks the id up (`CheckExists`), sends a transaction (`Submit`) and
polls for it (`Included`, `Timeout`). An error or a signal ends it (`Stop`) with
nothing kept, and it can be started again. `Steps` is the order in which
`register_one` goes through the ids: two entries of one schema name and version are
taken to agree on its attestor set.

The chain is external and modelled as the code depends on it. It executes a
signer's transactions in the order of their nonces and refuses a nonce that is used
up. A transaction's hash covers its call and its nonce, so that what is signed again
is the same transaction (with the same `--max-fee-nano`), and one operator key is
used by one run at a time. `GET /ledger/txs/{hash}` finds every transaction that was
executed, reverted ones included: a registration reverts if its id is taken, if the
schema's attestor set is missing, or if the fee cannot be paid. Others may register
an attestor set first, since its id names no owner.

### ClusterTopology

A request that misses the cache goes through the stages of
`handle_cluster_nodes`: `SELECT NOW()`, the join over the two tables, the write to the
slot. Each is an action, so that heartbeats, elections and other requests come
between them. `cache` is the slot with its stamp; `answer` is what the last step
answered with, so that the properties speak of the moment of the answer. The tables
belong to the SDK's sequencers; a node has its row in `nodes` before it takes the
lock. A node without Postgres answers 503 and has no state.

### Escrow

What both escrow modules promise about a pool: `Fund` once, with a positive
amount, `Pay` out of it while it is live, `Close` it empty and for ever.
`ImplementsEscrow` maps the escrow map to `held` and the status to `phase`.

### Registry and Records

What the attestation module promises, as far as another part relies on it. `Attestation`,
with and without relayers, implements both (`ImplementsRegistry`, `ImplementsRecords`).
The chain as `Ceremony` models it stays within `Registry` (`StaysWithinRegistry`), and
what `SchemaRegistered` and `AttestationStored` do in `Bounty` is a `Records`
(`KeepsRecords`).

## 4. Runs

A run with `CHECK_DEADLOCK FALSE` says so because the system may really stop there:
when everything on the ledger is settled nobody has to send another transaction, and
the height bound ends the clock; a chain that runs or has been refused ends `Genesis`;
a task that has drained its channel and stopped ends `DaMetrics`.

| run | what it asks |
|---|---|
| `contracts_lifecycle` | two addresses, each poster, worker and arbiter of the other's contract and of its own, over two contracts, every path and every boundary height: escrow backed, deliveries bonded, no contract stuck, no contract settled with another's money, an accepted worker is paid, a delivery is decided although the poster never answers; `Escrow` is implemented |
| `contracts_bond_recovery` | a comment of the contract module that the code does not keep (section 7) |
| `bounty_claims` | one bounty, two attestations, batches with repetitions, disputes before, at and after the window and the expiry; every bounty is closed in the end |
| `bounty_boards` | two bounties funded together on two boards, or one after the other on one whose index holds one entry, with every acceptance rule: neither is paid or refunded from the other's money, the index is exact; `Escrow` is implemented |
| `bounty_claw_back` | a document the bounty module does not keep (section 7) |
| `client_relay` | two relayers with rival submitters, messages that arrive late, twice or never, over any list of keys and the wrong time, among registrations of every routing: behind every stored attestation stand the signatures its quorum asks for, the fee is flat and booked in full, and nothing registered meanwhile spoils a message |
| `attestation_duplicates` | a comment the attestation module does not keep (section 7) |
| `ceremony_reruns` | three entries, two on one attestor set, interruptions, losses, slow inclusion and unpaid fees anywhere: nothing is executed again after it has landed, the report is true, and re-running registers everything |
| `cluster_overlap` | two overlapping requests, two nodes that take the lock from each other: the age of an answer, and how long it can name a former leader |
| `cluster_snapshot` | a comment the cluster endpoint does not keep (section 7) |
| `genesis_ceremony` | bundles written by hand and generated, sound and wrong in one way each; `keys.toml` files that merge, chain and mistype; runs of the tool that stop and are repeated over the same directory; both DA layers: what the tool vouches for is one run's work and boots, roles stay together with their balances, and seeding never fails half way |
| `da_metrics_events` | three blobs, room for two in the channel and in the map, retries and a reorg, lag, eviction, expiry and shutdown: nothing is lost in silence, the map is bounded and expires, latencies are real, and the task drains the channel and stops |

### Bounds, and why they are enough

* `MaxHeight` (5 or 6) leaves at least one block before the expiry, one at it, and
  blocks after it for a window of 0 and of 1 to be open, at its boundary and
  closed, whether it opened before or at the last block of the bounty or
  contract; in `bounty_boards`, which asks nothing of windows, 3 is the expiry.
* `MaxNonce` 0 or 1 gives one or two contracts (bounties) per poster. Properties
  about one contract need a second one only to see whether money moves between
  them.
* A pool of 3 with a fee of 5000 basis points makes the arbiter's cut rounded, and 9000
  lies above the cap; pools of 2 and 3 with payouts of 1 and 2 make a bounty end
  with and without dust, after one, two and three claims.
* `MAX_CLAIMS_PER_CALL` 2 is the least batch that can repeat an attestation;
  `MAX_OPEN_BOUNTIES_PER_SCHEMA` 1 makes the index full at once.
* `AMOUNT_MAX` stands for the largest `u128` and lies far above every product in the
  contract runs, as the real one lies above every supply times 10000; in the theorems it
  is any number.
* `client_relay`: genesis registers a set of both keys with threshold two and a schema
  on it; sets of one member are registered by transactions. Two keys are the least in
  which a threshold differs from one; two signatures the least in which a key is
  repeated. Fees of 2, 3 and 4 with `InitialBalance` 7 let the registrant register a
  set and a schema, or attest, and run out of funds. One message in flight at a time
  suffices: messages do not depend on each other, and the rival's attestation is stored
  through `AnybodyElse`.
* A fee of 4 with shares of 3333 and 3334 basis points against a cap of 3333 is a share
  that rounds down and one over the cap; the schema of genesis pays no share.
* `SplitIsExact` is evaluated on the amounts in `SampleFees`, which lie at and
  around multiples of 10000, for the routing of every schema registered, and
  proved for every set of amounts.
* `genesis_ceremony` takes each of the ways to get the two lists wrong at least once
  (the same set in two orders, a threshold above the members, an empty set, a routing
  without an address or above the cap, two schemas that one key makes equal), and a
  wrong token and DA address; one list with a repeated member, which passes all
  checks. `TwoKeys` gives the first role the address that had been
  the second's, the least in which replacing twice differs from replacing once.
* `da_metrics_events`: with `INFLIGHT_TTL` and `SWEEP_INTERVAL` 2 an entry is swept
  at its lifetime and one sweep later; three blobs overfill a map of two; `MaxSent` 4
  overfills the channel twice, or lets one blob be published, fail, be published
  again and finalize.
* `bounty_boards`: with `InitialBalance` 5 and pools of 2 the poster funds two bounties
  at the same time and has one left for a bond; two on one board do not fit its index of
  one entry, so the second waits for the first to leave it. The poster may choose each
  of the four acceptance rules, with a hash list that holds one payload and not the
  other, and with a peer count that can be met and one that cannot.
* `MaxFaults` 3 lets one registration be lost, its second attempt time out and its
  third revert, or three registrations go wrong once each. Three entries on two
  attestor sets have a set that is registered by the run itself, found registered,
  and registered by others.
* `MaxLatency` 2 against a `CACHE_TTL` of 2 lets a query outlive the entry it was
  sent to replace and overwrite a newer one; `MaxClock` 5 leaves time for a leader
  that has been stable for longer than both. `MaxHeartbeat` ends the heartbeats
  early in `cluster_overlap`, whose properties do not depend on them. The
  code bounds the wait for a connection, not the statements, so that `MaxLatency` is
  a hypothesis about Postgres, in the theorems too.
* A schema is signed for only once it exists: an earlier signature would be of no
  use before and can be given then, so nothing is lost but states.

### Fairness

`contracts_lifecycle`, `bounty_claims`, `ceremony_reruns` and `da_metrics_events` assume
fairness; only their liveness properties need it. Blocks keep coming (`WF` of
`AdvanceBlock`): a rollup block is produced for every DA slot whether or not it carries a
transaction. `FinalizeDelivery` and `FinaliseBounty` are open to any sender, so that weak
fairness says no more than that somebody wants the sweep; the code's comments count on
indexers for it. That the board operator answers every dispute (`WF` of `ResolveDispute`)
is an assumption about a person, not about the code: without it a disputed bounty stays
open for ever, since a dispute has no timeout.

In `ceremony_reruns` the operator goes on with the program and runs it again after
it has stopped, as its documentation tells him to, and the chain executes what it
can. The surroundings let him down at most `MaxFaults` times: a program that is
interrupted for ever registers nothing.

In `da_metrics_events` the task runs when a branch of its `select!` is ready (`WF` of
`Task`): it is a task of the node's tokio runtime and never blocks. Nothing is assumed of
the sender, nor that time passes.

## 5. What is proved

The theorem modules extend the component they are about; their assumptions are
its named `ASSUME`s on constants, which TLC evaluates on every run. Among them,
`FinitenessAssumption` says that addresses and criteria, keys, or failure reasons are
finitely many: in the code they are bytes of a fixed width and the variants of an enum,
and a sum over all of them needs it. Nothing is assumed of how many there are.

`Transfer` is written as two steps, first the debit, then the credit. The provers read
the `@` of a second clause of one `EXCEPT` as the value before the first, TLC as the
value after it, and the two differ where payer and payee are the same address.

**Sums.** An account is compared with a sum over a whole map, and a list's length with a
sum over all keys. The sum is the community modules' fold, which takes its elements in an
order of its own choosing (`CHOOSE`). `SubsetInduction` is the induction all lemmas use: a
family of subsets of a finite set that contains every set whose proper subsets it contains
is the family of all subsets. It is proved from the well-foundedness of the strict subset
order, and names the family as a set, so that no operator is passed. `AddsRemove` shows
with it that any element may be taken first. From that follow `SumUpdate` (one value
changes, the sum changes by as much), `SumOfNats` (a sum of naturals bounds each of its
terms), `SumMove` (what one entry loses and another gains, or the same entry, leaves the
sum alone), `SumLinear` (of `f + k * g`), `SumZero`, and `SumOfPlaces`: how often each
value occurs in a list, summed over all values, is the length of the list.

**Contracts.** `IndInv` is type correctness, `EscrowFollowsStatus`,
`DeliveryIsBonded`, `IdsAreFresh` and `CutWithinPool`. None is inductive alone:
that the escrow entry is the pool while the contract is live is what makes cancel
(which pays the entry) and the settlements (which pay the pool) agree; that a
balance stays in `Nat` needs the bond of a settled delivery to be on record and
the cut to fit the pool. From `IndInv` follow the three action properties, the
fee bound and the refinement of `Escrow`.

`LockedFundsAreBacked` (the account is exactly the sum of all escrows and all bonds) is
inductive with `IndInv`: `MoneyMovesWithinOneContract` says that a step moves the account by
what it moves in one escrow and one bond, and two uses of `SumUpdate` that the sums
move by as much. With the account backed,
`EndingsAreFunded` says what `NeverStuck` says without `ENABLED`: whatever state a
contract is in, the records that its ending reads are there and the account covers what
it pays, for either decision of a dispute. A settlement never fails because
another contract has used up the money.

`ContractsKeepTheSupply` says of every step that all balances together stay what they were
(`SumMove` for every transfer, a transfer to the payer itself included).
`BountiesKeepTheSupply` and `FeesKeepTheSupply` say so of the other two modules, so that
over the one bank of the runtime the supply is kept by all of them.

**Bounty.** `IndInv` is type correctness with `EscrowFollowsStatus`,
`ClaimsAreAcceptable`, `LatestClaimCoversAll`, `DisputesAreCounted`,
`ClosedIsQuiet`, `ClaimedIsNotCancelled`, `IndexListsUnsettled` and
`RecordsMatchIds`. The argument of `ClosedIsFinal` runs through all of them: a
dispute does not look at the status, so that a closed bounty takes no dispute
follows from its windows being closed, which is the latest claim height covering
all claims and, for a cancelled bounty, there being no claims, which is the
escrow of a claimed bounty never being whole again.
Every step of `Next` is first shown to be one of six kinds (`StepKinds`): it opens
a bounty, claims from one, disputes a claim, resolves a dispute, closes one
bounty (by cancelling or by sweeping), or touches nothing of the module
(`Outside`). Each conjunct of `IndInv`, each action property and the refinement is
then argued once per kind. `BoardsAssumption` asks for finitely many ids, so that
a set of disputes has a size for the counter to agree with, and for at least one
attestation id, since the action property names the attestation whose bond moved.

`LockedFundsAreBacked` follows from `MoneyMovesWithinOneBounty` as for the contracts.
`PayoutsAreFunded` gives the guards of `NeverStuck`: the account covers the
bond of every open dispute and the rest of every pool, the schema whose owner resolves the
dispute is registered, and a bounty without open disputes has none counted, so
that the sweep is not held up by a counter.

**Interfaces.** `PromisesAreKept` shows, step by step, that the attestation module
implements `Registry` and `Records`. On the other side `RecordsAreKept` says that what
happens to the records in `Bounty` is within `Records`, and `EveryRecordIsAllowedFor` that
every step of `Records` is one `Bounty` has an action for: it assumes no more and no less
of the records it pays by than the attestation module promises. `TheChainIsARegistry` is
the first half for the ceremony: however its transactions are lost, repeated, delayed or
unpaid, the chain it runs against does nothing that the attestation module does not.

**Attestation.** `IndInv` is type correctness, `ReferencesResolve` and
`QuorumSigned`. `FeesAreFlat` is proved under the hypothesis
`max_builder_bps <= 10000`, which the code does not check when it stores the cap.
`SplitIsExact` follows, for every amount, from the division theorem alone.
`BooksAreExact` needs the same hypothesis: above it the builder's share would exceed the fee
and the treasury's share stop at zero, and the counters would show more than the
fee. It is inductive with `Countable`: at any time only finitely many sets, schemas and
attestations have been added, and none of genesis' has gone, so that each
registration adds one to what the fees are counted by.

**Client.** `ClientInv` is the `IndInv` of `Attestation` and the shape of the messages.
`SignaturesStayGood` is the property a relayer depends on: a message that could be
submitted can be submitted in every later state until its attestation is stored, because
schemas and sets are write-once and signatures are never withdrawn. It does not say
that the fee can be paid. The ledger steps of `Client` are steps of `Attestation` or leave
its records and books alone (`LedgerOrNothing`), so that the books and the flat fee
carry over (`RelayedFeesAreBooked`, `RelayedFeesAreFlat`): a message that
arrives twice is paid for once.

**Genesis.** `ToolInv` says, while a run of the tool is writing, that the files before
its place hold the substitution of this run and nothing is vouched for, and of
`vouched` and `deployed` that they are the substitution of the `keys.toml` they name
and have passed (`Founded`). `GeneratedIsWhole` follows, and `RolesArePreserved` with a
lemma about substitution at every place of a bundle. `SeedInv` says that seeding runs
only under a validated configuration, and that the sets written are exactly the ids of
the entries before its place and the schemas exactly a prefix of the file's: hence a
duplicate met while seeding would be one in the file, and `SeedingNeverFails` holds.
`RunningChainsAreSeeded` states the outcome: the configuration's sets and schemas and
nothing else.

`RunningChainsAreSound` needs two things more. The files' own types hold of
what was parsed (`ParsedInv`), whatever was edited before; and a list that names no key
twice has as many different members as entries (`MembersAreDistinct`), which is what the
validation compared with the threshold. A list that does name one twice is the exception
the theorem states and not one it proves harmless: of `<<p, p>>` with the threshold 2 no
quorum can sign, as in the finding `attestation_duplicates` (section 7). That every
balance is the template's or the one `keys.toml` gives for the *new* address is the last
conjunct of `RolesArePreserved` (`RowsAreGiven`).
`GenesisIsFitForAttestation` links two models: the state in which a
chain runs has everything that `GenesisAssumption` asks where `Attestation` begins.

**DaMetrics.** The bound and the expiry are inductive with type correctness and the
sweep's clock. `LatencyIsReal` needs `LatencyInv`: as long as no event was lost, each
Finalized event in the channel, and the one that would be sent next, fits either the
entry its blob has in the map or a Published event before it in the channel (`Fits`);
two general lemmas say what appending and reading an event do to it, and
one that forgetting an entry never hurts.

`LossesAreReported` counts. For publications, and for failures of each reason, `LossInv`
compares what was sent with what was counted plus what is still in the channel; the
difference, summed over the reasons, is at most the drops reported or about to
be. An event pushed out of a full channel raises at most one of the differences, by one, and
`missed` by one (`OneMoreLost`); an event read changes none, because what leaves
the channel enters its own counter.

**Ceremony.** `IndInv` is type correctness and an order of nonces: the local nonce is
never ahead of the chain's (`NonceIsBehind`), everything in the ledger is behind it
(`LedgerIsPast`). A run that has found an id missing then sends a nonce no higher
than that of anything pending for the same id, so that once one of them has landed
the others can only be refused (`NothingFollows`); `LandsOnce` follows. That a report
is true needs the steps in order: when a schema is executed while the run waits for
it, its attestor set was dealt with one step before (`SetComesFirst`).

**ClusterTopology.** `IndInv` says of each topology in play (in a request, in the slot,
in the answer) that it is timely and that, if it does not name the lock's holder, it
was read before the lock changed (`Truthful`). `NoAnswerIsOld` adds the two ages;
`FailoverIsSeen` combines them with `Truthful`.

**What is proved of liveness.** `ENABLED` is out of the prover's reach, so is an induction
over heights or over the disputes of a bounty, and so the liveness properties stay with
TLC. What the code contributes to them is proved:

* `DeliveriesGetDecided`: if the chain gets past the end of a delivery's window and
  `FinalizeDelivery` is executed again and again unless its guards fail again and again,
  the contract leaves `Delivered`. The second hypothesis is the weak fairness of `FairSpec`
  with the guards (`CanFinalize`) in the place of `ENABLED`. The proof rests on
  `WindowStands` (the end of the window does not move) and on `EndingsAreFunded` (the
  guards, once true, stay true). To `DeliveryIsDecided` it lacks that blocks which keep
  coming get past every height.
* `DisputesDieOut` and `BountiesGetClosed`: once a bounty is expired and its last window
  closed, it remains so and takes no dispute (`LateStep`); a dispute whose resolution is
  sent whenever its guards hold is gone for good; and with none left `FinaliseBounty` can be
  executed until the bounty is closed. To `BountyIsClosed` they lack the induction that
  finitely many disputes, each gone for good, are gone together, and the same about heights.
* `AStoppedTaskIsDone` and `ShutdownIsFinite`: the metrics task stops only when every event
  is accounted for, and once the sender is gone every step takes it nearer to that, of at
  most `CHANNEL_CAP + 3`, with a branch ready at every place. `TaskDrains` adds that
  the task is given its turns.
* `TheEndIsComplete`: a run of the ceremony that reaches the end of its list, with no fee
  unpaid, leaves every id on it registered. `EverythingIsRegistered` adds that
  some run gets there.

Some theorems have no run of their own, since the proof covers every instance: those of
the last paragraph, the supply, the interfaces (checked by TLC on the instances of the runs
before they were proved), type correctness of each module, and in the escrow and
attestation modules `EscrowFollowsStatus`, `IdsAreFresh`, `TerminalIsFinal`,
`ClaimedIsNotCancelled`, `RecordsMatchIds`, `ReferencesResolve` and `StoredForEver`.

## 6. What is only model-checked, and what is not modelled

Model-checked only: the liveness properties `DeliveryIsDecided`, `BountyIsClosed`,
`EverythingIsRegistered` and `TaskDrains`, and `NeverStuck` of the two escrow modules as it
is stated with `ENABLED`; what it asks of funds and records is proved
(`EndingsAreFunded`, `PayoutsAreFunded`), and so is the part of the liveness properties
that section 5 names. `QuorumIsReachable`,
`DeliveredBondIsRecovered`, `UpheldDisputesClawBack` and `SnapshotIsOneInstant` are
refuted (section 7).

Not modelled:

* of the metrics, the samplers (state size, block height, mempool, role, economy): each
  copies a value it has just read on a timer, and overwrites the last; the scrape
  endpoint only reads;
* `keys generate` of the genesis-tool, which writes one key and its address per role and
  overwrites what is there;
* health and info endpoints and the query routes: they read one value and keep none;
* the node's binaries and configuration: wiring. The shutdown watchdog in
  `rollup/src/main.rs` exits the process 35 s after a signal whatever is still running;
  what it cuts short are the SDK's tasks, whose state is not in this repository;
* of the ceremony, parsing the configuration and hashing the schema documents, and
  registrations the chain refuses for good;
* the SDK (sequencer, consensus on DA, storage, gas, authentication), prover guests,
  generated configuration, tests and fuzz targets.

## 7. Where code and text disagree

Four disagreements are shown by a run that ends in a counterexample;
`PROJECT.json` quotes the lines.

* `contracts_bond_recovery`: a contract can be cancelled after its expiry while a
  delivery or a dispute is pending. The worker's bond then has no way out although
  the comment on bonds names three.
* `bounty_claw_back`: an upheld dispute returns the disputer's bond and leaves the
  contested payout with the attester, although the protocol document says that
  disputes can claw back.
* `attestation_duplicates`: an attestor set may repeat a member, against the
  comment on its id, and then may have a threshold that no quorum can reach.
* `cluster_snapshot`: the clock and the rows of a topology are read by two statements,
  although the comment on its time speaks of one instant for every field.

Others were met while translating the code and are part of the models, without a
run of their own: the bounty account holds dispute bonds on top of the sum of the
escrows that the comment on `struct Bounty` equates with its balance; the comment on
the cache says that it keeps the instant the result was taken, and it keeps the
instant it was stored; the comment on `attestor_members` in the ceremony's
configuration says that their order is part of the set's id, and the id sorts them;
the bonds of contracts that expire are not refunded, although
the comment on the `commits` field says so; the record of a contract's dispute
outlives the dispute; `AttestorSet` acceptance lets every attestation of the schema through, although the
enum says that it filters (the model follows the code, so that `ClaimsAreAcceptable`
says nothing of it); the
index of open bounties lists exhausted ones until they are swept; a claim can be
disputed again once its dispute is decided; the comment
on the metrics task says that a failure drops the blob's entry, and the event carries no
hash to drop by; the comment on its cap says that the oldest entry goes, and any entry
may, also when the published blob has one already; the help of
`ligate_da_blobs_published_total` says once per blob, and a blob published again counts
again; the comment on `attestation_digest` names the block timestamp, and the handler
verifies over 0; the comment on `InitialSchema` bounds the routing by the default cap,
and the code by the configured one; the module comments of the genesis-tool derive an
address from a hash of the public key, and the code from the key itself. A set with a
repeated member passes the pre-flight checks as it passes the handler.

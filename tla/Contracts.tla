------------------------------ MODULE Contracts -----------------------------
(***************************************************************************)
(* The work-for-hire contract module.  A transaction is atomic: when its   *)
(* handler fails every write is unwound, so an action is one successful    *)
(* call of one handler and the handler's error checks are its guard.       *)
(* Events and the texts of documents are left out.                         *)
(***************************************************************************)
EXTENDS Bank, FiniteSets, Functions

CONSTANTS
  Address,          \* user addresses
  ContractModule,   \* the bank account the module controls
  None,             \* an absent entry of a StateMap
  Criteria,         \* hashes of criteria documents
  AttestationId,
  Posters, Workers, Arbiters,       \* who posts, commits, may be named arbiter
  Pools, Bonds, Expiries, Windows, FeeBps,    \* arguments the calls choose from
  AMOUNT_MAX,       \* u128::MAX, the greatest Amount
  InitialBalance,   \* AVOW each user holds at genesis
  GenesisDaHeight,
  MaxNonce,         \* bound: contracts with nonce 0 .. MaxNonce only
  MaxHeight         \* bound: the last rollup height reached

Amount == Nat
Account == Address \cup {ContractModule}

ASSUME RolesAssumption ==
  Posters \subseteq Address /\ Workers \subseteq Address /\ Arbiters \subseteq Address
ASSUME ArgumentsAssumption ==
  /\ Pools \subseteq Nat /\ Bonds \subseteq Nat /\ Expiries \subseteq Nat
  /\ Windows \subseteq Nat /\ FeeBps \subseteq Nat
ASSUME BoundsAssumption ==
  /\ InitialBalance \in Nat /\ GenesisDaHeight \in Nat
  /\ MaxNonce \in Nat /\ MaxHeight \in Nat \ {0} /\ AMOUNT_MAX \in Nat
\* An address is 28 bytes and a hash 32: there are finitely many of either.
ASSUME FinitenessAssumption == IsFiniteSet(Address) /\ IsFiniteSet(Criteria)
\* A module's account is a TokenHolder of its own kind, never a user address.
ASSUME ModuleAccountAssumption == ContractModule \notin Address

VARIABLES
  contracts,        \* ContractId -> ContractState
  commits,          \* (ContractId, worker) -> bond
  deliveries,       \* ContractId -> DeliveryRecord
  disputes,         \* ContractId -> disputed worker
  escrow,           \* ContractId -> Amount, an absent entry reads as zero
  next_poster_nonce,
  balance,          \* sov-bank
  attestations,     \* ids stored by the attestation module
  rollup_height     \* sov-chain-state

ledger == <<contracts, commits, deliveries, disputes, escrow, next_poster_nonce, balance>>
vars == <<ledger, attestations, rollup_height>>

-----------------------------------------------------------------------------
(* Identifiers, records and constants                                      *)

\* The hash is injective on its inputs: an id is its preimage.
ContractId == Address \X Criteria \X (0 .. MaxNonce)
CommitKey == ContractId \X Address

ContractStatus == {"Open", "Committed", "Delivered", "Accepted", "Rejected",
                   "Disputed", "Cancelled", "Expired"}
Terminal == {"Accepted", "Rejected", "Cancelled", "Expired"}

ContractState ==
  [poster: Address, arbiter: Address, pool: Amount, expiry: Nat, window: Nat,
   arbiter_fee_bps: Nat, status: ContractStatus]
DeliveryRecord == [worker: Address, attestation: AttestationId, delivered_at: Nat]

ASSUME NoneAssumption ==
  /\ None \notin ContractState /\ None \notin DeliveryRecord
  /\ None \notin Address /\ None \notin Amount

MutUncappedFee == 9000
MAX_ARBITER_FEE_BPS == 5000

Init ==
  /\ contracts = [c \in ContractId |-> None]
  /\ commits = [k \in CommitKey |-> None]
  /\ deliveries = [c \in ContractId |-> None]
  /\ disputes = [c \in ContractId |-> None]
  /\ escrow = [c \in ContractId |-> 0]
  /\ next_poster_nonce = [a \in Address |-> 0]
  /\ balance = [a \in Account |-> IF a = ContractModule THEN 0 ELSE InitialBalance]
  /\ attestations = {}
  /\ rollup_height = 1

-----------------------------------------------------------------------------
(* Reads the handlers share                                                *)

CurrentDaHeight == GenesisDaHeight + rollup_height

Posted(c) == contracts[c] # None
StatusIs(c, statuses) == Posted(c) /\ contracts[c].status \in statuses
HasExpired(c) == CurrentDaHeight >= contracts[c].expiry
WithStatus(c, status) == [contracts EXCEPT ![c].status = status]

BondOf(c, worker) ==
  IF commits[<<c, worker>>] = None THEN 0 ELSE commits[<<c, worker>>]

BumpPosterNonce(poster) ==
  next_poster_nonce' = [next_poster_nonce EXCEPT ![poster] = @ + 1]

SaturatingSub(m, n) == IF m >= n THEN m - n ELSE 0

SaturatingMul(m, n) == IF m * n <= AMOUNT_MAX THEN m * n ELSE AMOUNT_MAX

\* Of a pool so large that the product does not fit, the arbiter gets less than his share.
ArbiterCut(c) == SaturatingMul(contracts[c].pool, contracts[c].arbiter_fee_bps) \div 10000

MutWindowSlides(c) == rollup_height + contracts[c].window
WindowClose(c) == deliveries[c].delivered_at + contracts[c].window

\* The module pays the arbiter his cut and the winner the rest of the pool and
\* the worker's bond; the escrow is emptied and the commit consumed.
Payout(c, worker, winner, cut) ==
  LET paid == SaturatingSub(contracts[c].pool, cut) + BondOf(c, worker)
      afterCut == Transfer(balance, ContractModule, contracts[c].arbiter, cut)
  IN  /\ CanPay(balance, ContractModule, cut + paid)
      /\ balance' = Transfer(afterCut, ContractModule, winner, paid)

MutKeepsEscrow(c, worker, winner, cut) ==
  /\ Payout(c, worker, winner, cut)
  /\ escrow' = escrow
  /\ commits' = [commits EXCEPT ![<<c, worker>>] = None]
MutKeepsCommit(c, worker, winner, cut) ==
  /\ Payout(c, worker, winner, cut)
  /\ escrow' = [escrow EXCEPT ![c] = 0]
  /\ commits' = commits
MutSweepsEveryCommit(c, worker, winner, cut) ==
  /\ Payout(c, worker, winner, cut)
  /\ escrow' = [escrow EXCEPT ![c] = 0]
  /\ commits' = [k \in CommitKey |-> IF k[1] = c THEN None ELSE commits[k]]
Settle(c, worker, winner, cut) ==
  /\ Payout(c, worker, winner, cut)
  /\ escrow' = [escrow EXCEPT ![c] = 0]
  /\ commits' = [commits EXCEPT ![<<c, worker>>] = None]

MutDisputeBlocksCancel(c) ==
  /\ StatusIs(c, ContractStatus \ (Terminal \cup {"Disputed"}))
  /\ StatusIs(c, {"Open"}) \/ HasExpired(c)
Cancellable(c) ==
  /\ StatusIs(c, ContractStatus \ Terminal)
  /\ StatusIs(c, {"Open"}) \/ HasExpired(c)

-----------------------------------------------------------------------------
(* The eight call messages                                                 *)

PostContract(poster, arbiter, criteria, pool, expiry, window, bps) ==
  LET c == <<poster, criteria, next_poster_nonce[poster]>>
  IN  /\ pool # 0
      /\ expiry # 0 /\ expiry > CurrentDaHeight
      /\ bps <= MAX_ARBITER_FEE_BPS
      /\ next_poster_nonce[poster] <= MaxNonce          \* bound
      /\ ~Posted(c)
      /\ CanPay(balance, poster, pool)
      /\ BumpPosterNonce(poster)
      /\ balance' = Transfer(balance, poster, ContractModule, pool)
      /\ contracts' = [contracts EXCEPT ![c] =
           [poster |-> poster, arbiter |-> arbiter, pool |-> pool, expiry |-> expiry,
            window |-> window, arbiter_fee_bps |-> bps, status |-> "Open"]]
      /\ escrow' = [escrow EXCEPT ![c] = pool]
      /\ UNCHANGED <<commits, deliveries, disputes, attestations, rollup_height>>

CommitToContract(c, worker, bond) ==
  /\ bond # 0
  /\ StatusIs(c, {"Open", "Committed"})
  /\ commits[<<c, worker>>] = None
  /\ CanPay(balance, worker, bond)
  /\ balance' = Transfer(balance, worker, ContractModule, bond)
  /\ commits' = [commits EXCEPT ![<<c, worker>>] = bond]
  /\ contracts' = WithStatus(c, "Committed")
  /\ UNCHANGED <<deliveries, disputes, escrow, next_poster_nonce, attestations, rollup_height>>

MutDeliversUncommitted(c, worker, attestation) ==
  /\ StatusIs(c, {"Committed"})
  /\ ~HasExpired(c)
  /\ deliveries[c] = None
  /\ attestation \in attestations
  /\ deliveries' = [deliveries EXCEPT ![c] =
       [worker |-> worker, attestation |-> attestation, delivered_at |-> rollup_height]]
  /\ contracts' = WithStatus(c, "Delivered")
  /\ UNCHANGED <<commits, disputes, escrow, next_poster_nonce, balance, attestations,
                 rollup_height>>
DeliverContract(c, worker, attestation) ==
  /\ StatusIs(c, {"Committed"})
  /\ ~HasExpired(c)
  /\ deliveries[c] = None
  /\ commits[<<c, worker>>] # None
  /\ attestation \in attestations
  /\ deliveries' = [deliveries EXCEPT ![c] =
       [worker |-> worker, attestation |-> attestation, delivered_at |-> rollup_height]]
  /\ contracts' = WithStatus(c, "Delivered")
  /\ UNCHANGED <<commits, disputes, escrow, next_poster_nonce, balance, attestations,
                 rollup_height>>

AcceptDelivery(c, sender) ==
  /\ Posted(c) /\ sender = contracts[c].poster
  /\ StatusIs(c, {"Delivered"})
  /\ deliveries[c] # None
  /\ Settle(c, deliveries[c].worker, deliveries[c].worker, 0)
  /\ contracts' = WithStatus(c, "Accepted")
  /\ UNCHANGED <<deliveries, disputes, next_poster_nonce, attestations, rollup_height>>

RejectDelivery(c, sender) ==
  /\ Posted(c) /\ sender = contracts[c].poster
  /\ StatusIs(c, {"Delivered"})
  /\ deliveries[c] # None
  /\ disputes' = [disputes EXCEPT ![c] = deliveries[c].worker]
  /\ contracts' = WithStatus(c, "Disputed")
  /\ UNCHANGED <<commits, deliveries, escrow, next_poster_nonce, balance, attestations,
                 rollup_height>>

ResolveContractDispute(c, sender, decision) ==
  /\ Posted(c) /\ sender = contracts[c].arbiter
  /\ StatusIs(c, {"Disputed"})
  /\ disputes[c] # None
  /\ \/ /\ decision = "AcceptDelivery"
        /\ Settle(c, disputes[c], disputes[c], ArbiterCut(c))
        /\ contracts' = WithStatus(c, "Accepted")
     \/ /\ decision = "RejectDelivery"
        /\ Settle(c, disputes[c], contracts[c].poster, ArbiterCut(c))
        /\ contracts' = WithStatus(c, "Rejected")
  /\ disputes' = [disputes EXCEPT ![c] = None]
  /\ UNCHANGED <<deliveries, next_poster_nonce, attestations, rollup_height>>

CancelContract(c, sender) ==
  /\ Posted(c) /\ sender = contracts[c].poster
  /\ Cancellable(c)
  /\ CanPay(balance, ContractModule, escrow[c])
  /\ balance' = Transfer(balance, ContractModule, contracts[c].poster, escrow[c])
  /\ escrow' = [escrow EXCEPT ![c] = 0]
  /\ contracts' = WithStatus(c, IF HasExpired(c) THEN "Expired" ELSE "Cancelled")
  /\ UNCHANGED <<commits, deliveries, disputes, next_poster_nonce, attestations,
                 rollup_height>>

\* Anyone may send it: the handler never looks at the sender.
FinalizeDelivery(c) ==
  /\ StatusIs(c, {"Delivered"})
  /\ deliveries[c] # None
  /\ rollup_height > WindowClose(c)
  /\ Settle(c, deliveries[c].worker, deliveries[c].worker, 0)
  /\ contracts' = WithStatus(c, "Accepted")
  /\ UNCHANGED <<deliveries, disputes, next_poster_nonce, attestations, rollup_height>>

-----------------------------------------------------------------------------
(* What the module sees of its surroundings                                *)

\* The attestation module stores an attestation; it never removes one.
AttestationStored(a) ==
  /\ a \notin attestations
  /\ attestations' = attestations \cup {a}
  /\ UNCHANGED <<ledger, rollup_height>>

\* One rollup block per DA slot.
AdvanceBlock ==
  /\ rollup_height < MaxHeight                          \* bound
  /\ rollup_height' = rollup_height + 1
  /\ UNCHANGED <<ledger, attestations>>

Post ==
  \E poster \in Posters, arbiter \in Arbiters, criteria \in Criteria, pool \in Pools,
     expiry \in Expiries, window \in Windows, bps \in FeeBps :
    PostContract(poster, arbiter, criteria, pool, expiry, window, bps)

Next ==
  \/ Post
  \/ \E c \in ContractId :
       \/ \E worker \in Workers, bond \in Bonds : CommitToContract(c, worker, bond)
       \/ \E worker \in Workers, a \in AttestationId : DeliverContract(c, worker, a)
       \/ \E sender \in Address :
            \/ AcceptDelivery(c, sender)
            \/ RejectDelivery(c, sender)
            \/ \E decision \in {"AcceptDelivery", "RejectDelivery"} :
                 ResolveContractDispute(c, sender, decision)
            \/ CancelContract(c, sender)
       \/ FinalizeDelivery(c)
  \/ \E a \in AttestationId : AttestationStored(a)
  \/ AdvanceBlock

Spec == Init /\ [][Next]_vars

\* Blocks keep coming, and FinalizeDelivery needs no particular sender: the
\* worker it pays, or any watcher, keeps submitting it while it would succeed.
FairSpec ==
  /\ Spec
  /\ WF_vars(AdvanceBlock)
  /\ \A c \in ContractId : WF_vars(FinalizeDelivery(c))

-----------------------------------------------------------------------------
(* Properties                                                              *)

Live(c) == StatusIs(c, ContractStatus \ Terminal)

TypeOK ==
  /\ contracts \in [ContractId -> ContractState \cup {None}]
  /\ commits \in [CommitKey -> Amount \cup {None}]
  /\ deliveries \in [ContractId -> DeliveryRecord \cup {None}]
  /\ disputes \in [ContractId -> Address \cup {None}]
  /\ escrow \in [ContractId -> Amount]
  /\ next_poster_nonce \in [Address -> 0 .. MaxNonce + 1]
  /\ balance \in [Account -> Amount]
  /\ attestations \in SUBSET AttestationId
  /\ rollup_height \in 1 .. MaxHeight

\* The escrow entry is the whole pool until the contract reaches a terminal
\* status and nothing from then on: accept, finalise and resolve pay
\* `contract.pool`, cancel pays the escrow entry, and they must agree.
EscrowFollowsStatus ==
  \A c \in ContractId : escrow[c] = IF Live(c) THEN contracts[c].pool ELSE 0

\* The module account holds exactly the escrows and the bonds on record, over
\* all contracts together: no settlement spends another contract's money.
LockedFundsBacked ==
  balance[ContractModule] =
    SumFunction(escrow) + SumFunction([k \in CommitKey |-> BondOf(k[1], k[2])])

\* While a delivery waits for a decision its worker's bond is still locked, and
\* a dispute names the worker who delivered, whoever else has committed.
DeliveryIsBonded ==
  \A c \in ContractId :
    /\ StatusIs(c, {"Delivered", "Disputed"}) =>
         deliveries[c] # None /\ commits[<<c, deliveries[c].worker>>] # None
    /\ StatusIs(c, {"Disputed"}) => disputes[c] = deliveries[c].worker

\* The nonce of a poster is past that of every contract he has posted, so the
\* id of the next one is free: DuplicateContract is never the answer.
IdsAreFresh ==
  \A c \in ContractId : Posted(c) => c[3] < next_poster_nonce[c[1]]

\* The arbiter's cut never exceeds the pool it is taken from.
CutWithinPool == \A c \in ContractId : Posted(c) => 2 * ArbiterCut(c) <= contracts[c].pool

\* The inductive invariant: with the type and the escrow, a settlement must
\* know that the bond it returns is on record and that the cut fits the pool.
IndInv == TypeOK /\ EscrowFollowsStatus /\ DeliveryIsBonded /\ IdsAreFresh /\ CutWithinPool

\* No contract is ever stuck: a dispute can be resolved either way, a delivery
\* whose window has closed can be finalised, an expired contract can be
\* cancelled, and none of these fails for want of funds in the module account.
NeverStuck ==
  \A c \in ContractId :
    /\ StatusIs(c, {"Disputed"}) =>
         \A decision \in {"AcceptDelivery", "RejectDelivery"} :
           ENABLED ResolveContractDispute(c, contracts[c].arbiter, decision)
    /\ StatusIs(c, {"Delivered"}) /\ rollup_height > WindowClose(c) =>
         ENABLED FinalizeDelivery(c)
    /\ Live(c) /\ HasExpired(c) => ENABLED CancelContract(c, contracts[c].poster)

\* Nothing about a contract changes any more once its status is terminal, the
\* bonds it still holds included: no second settlement, no late commit.
TerminalStep ==
  \A c \in ContractId : StatusIs(c, Terminal) =>
    /\ contracts'[c] = contracts[c] /\ escrow'[c] = escrow[c]
    /\ deliveries'[c] = deliveries[c] /\ disputes'[c] = disputes[c]
    /\ \A w \in Address : commits'[<<c, w>>] = commits[<<c, w>>]
TerminalIsFinal == [][TerminalStep]_vars

\* A bond leaves the module only when its worker's own delivery is settled: the
\* bonds of the workers who lost the race are nobody's prize.
BondStep ==
  \A c \in ContractId, w \in Address :
    commits[<<c, w>>] # None /\ commits'[<<c, w>>] # commits[<<c, w>>] =>
      /\ commits'[<<c, w>>] = None
      /\ StatusIs(c, {"Delivered", "Disputed"}) /\ deliveries[c].worker = w
      /\ contracts'[c].status \in {"Accepted", "Rejected"}
BondLeavesOnlyBySettlement == [][BondStep]_vars

\* Every step moves the module's account by exactly what it adds to, or takes
\* from, the escrow and one bond of one contract, and only that contract's
\* poster, arbiter and worker may come out richer.
MoneyStep ==
  \E c \in ContractId, w \in Address :
    /\ \A d \in ContractId \ {c} : escrow'[d] = escrow[d]
    /\ \A k \in CommitKey \ {<<c, w>>} : commits'[k] = commits[k]
    /\ balance'[ContractModule] - balance[ContractModule] =
         (escrow'[c] - escrow[c]) + (BondOf(c, w)' - BondOf(c, w))
    /\ \A a \in Address : balance'[a] > balance[a] =>
         a \in {contracts[c].poster, contracts[c].arbiter, w}
MoneyMovesWithinOneContract == [][balance' # balance => MoneyStep]_vars

\* Whoever decides, a worker whose delivery is accepted leaves with the bond
\* and at least half of the pool: the cap checked when the contract is posted
\* bounds the cut taken when its dispute is resolved.
AcceptanceStep ==
  \A c \in ContractId : Live(c) /\ contracts'[c].status = "Accepted" =>
    LET w == deliveries[c].worker
    IN  2 * (balance'[w] - balance[w]) >= contracts[c].pool + 2 * BondOf(c, w)
AcceptedWorkerIsPaid == [][AcceptanceStep]_vars

\* The pool of a contract is a deal of the Escrow specification: funded once by
\* PostContract, paid out in full by whichever handler closes it, never topped up.
Phase == [c \in ContractId |->
           IF ~Posted(c) THEN "unposted" ELSE IF Live(c) THEN "live" ELSE "closed"]
Deals == INSTANCE Escrow WITH Deal <- ContractId, held <- escrow, phase <- Phase
ImplementsEscrow == Deals!Spec

\* A delivery does not wait for ever on a poster who never answers.
DeliveryIsDecided ==
  \A c \in ContractId :
    StatusIs(c, {"Delivered"}) ~> ~StatusIs(c, {"Delivered"})

-----------------------------------------------------------------------------
(* What a comment says and the code does not do                            *)

\* The comment in handle_cancel_contract: a delivered worker recovers the bond
\* via AcceptDelivery, FinalizeDelivery or dispute resolution.  All three are
\* closed once the contract is Expired, so no bond may be left behind there.
DeliveredBondIsRecovered ==
  \A c \in ContractId :
    StatusIs(c, {"Expired"}) /\ deliveries[c] # None =>
      commits[<<c, deliveries[c].worker>>] = None

=============================================================================

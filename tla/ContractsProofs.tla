--------------------------- MODULE ContractsProofs --------------------------
(***************************************************************************)
(* What holds of the contract module for every set of addresses, every     *)
(* choice of arguments and every bound.                                    *)
(***************************************************************************)
EXTENDS Contracts, Sums

LEMMA IdComponents ==
  ASSUME NEW c \in ContractId, NEW w \in Address
  PROVE  <<c, w>> \in CommitKey
BY DEF CommitKey

LEMMA InitTypeOK == Init => TypeOK
BY BoundsAssumption DEF Init, TypeOK, Amount, Account

\* A transfer that the sender can fund leaves every balance a natural number.
LEMMA TransferType ==
  ASSUME NEW bal \in [Account -> Amount], NEW from \in Account, NEW to \in Account,
         NEW amount \in Amount, CanPay(bal, from, amount)
  PROVE  Transfer(bal, from, to, amount) \in [Account -> Amount]
BY DEF Transfer, CanPay, Amount

LEMMA StatusUpdateType ==
  ASSUME TypeOK, NEW c \in ContractId, Posted(c), NEW st \in ContractStatus
  PROVE  /\ WithStatus(c, st) \in [ContractId -> ContractState \cup {None}]
         /\ contracts[c] \in ContractState
BY DEF TypeOK, Posted, WithStatus, ContractState

LEMMA BondType ==
  ASSUME TypeOK, NEW c \in ContractId, NEW w \in Address
  PROVE  BondOf(c, w) \in Amount
BY IdComponents DEF TypeOK, BondOf, Amount

LEMMA SettleType ==
  ASSUME TypeOK, NEW c \in ContractId, Posted(c),
         NEW worker \in Address, NEW winner \in Address, NEW cut \in Amount,
         Settle(c, worker, winner, cut)
  PROVE  /\ balance' \in [Account -> Amount]
         /\ escrow' \in [ContractId -> Amount]
         /\ commits' \in [CommitKey -> Amount \cup {None}]
<1> DEFINE paid == SaturatingSub(contracts[c].pool, cut) + BondOf(c, worker)
           afterCut == Transfer(balance, ContractModule, contracts[c].arbiter, cut)
<1>1. contracts[c] \in ContractState
  BY DEF TypeOK, Posted
<1>2. /\ contracts[c].arbiter \in Account /\ contracts[c].arbiter # ContractModule
      /\ winner \in Account /\ ContractModule \in Account
  BY <1>1, ModuleAccountAssumption DEF ContractState, Account
<1>3. paid \in Nat /\ cut \in Nat
  BY <1>1, BondType DEF SaturatingSub, ContractState, Amount
<1>4. balance[ContractModule] >= cut + paid /\ balance \in [Account -> Nat]
  BY DEF Settle, Payout, CanPay, TypeOK, Amount
<1>5. CanPay(balance, ContractModule, cut)
  BY <1>2, <1>3, <1>4 DEF CanPay
<1>6. afterCut \in [Account -> Nat] /\ afterCut[ContractModule] = balance[ContractModule] - cut
  BY <1>2, <1>3, <1>4, <1>5, TransferType DEF Amount, Transfer
<1>7. CanPay(afterCut, ContractModule, paid)
  BY <1>2, <1>3, <1>4, <1>6 DEF CanPay
<1>8. balance' \in [Account -> Amount]
  BY <1>2, <1>3, <1>6, <1>7, TransferType DEF Settle, Payout, Amount
<1>9. QED
  BY <1>8, IdComponents DEF Settle, TypeOK, Amount

LEMMA ProductIsNat == ASSUME NEW m \in Nat, NEW n \in Nat PROVE m * n \in Nat
OBVIOUS

\* Saturating makes a product smaller, never greater.
LEMMA SaturatedIsNat ==
  ASSUME NEW m \in Nat, NEW n \in Nat
  PROVE  SaturatingMul(m, n) \in Nat /\ SaturatingMul(m, n) <= m * n
BY ProductIsNat, BoundsAssumption DEF SaturatingMul

LEMMA CutType ==
  ASSUME TypeOK, NEW c \in ContractId, Posted(c)
  PROVE  ArbiterCut(c) \in Amount
<1>1. contracts[c].pool \in Nat /\ contracts[c].arbiter_fee_bps \in Nat
  BY DEF TypeOK, Posted, ContractState, Amount
<1>2. \A n \in Nat : n \div 10000 \in Nat
  OBVIOUS
<1>3. QED
  BY <1>1, <1>2, SaturatedIsNat DEF ArbiterCut, Amount

LEMMA NextTypeOK == TypeOK /\ [Next]_vars => TypeOK'
<1> SUFFICES ASSUME TypeOK, [Next]_vars PROVE TypeOK'
  OBVIOUS
<1> USE DEF Amount
<1>1. ASSUME NEW poster \in Posters, NEW arbiter \in Arbiters, NEW criteria \in Criteria,
             NEW pool \in Pools, NEW expiry \in Expiries, NEW window \in Windows,
             NEW bps \in FeeBps,
             PostContract(poster, arbiter, criteria, pool, expiry, window, bps)
      PROVE  TypeOK'
  <2> DEFINE c == <<poster, criteria, next_poster_nonce[poster]>>
  <2>1. poster \in Address /\ arbiter \in Address /\ pool \in Nat /\ c \in ContractId
    BY <1>1, RolesAssumption, ArgumentsAssumption, BoundsAssumption
    DEF PostContract, TypeOK, ContractId
  <2>2. [poster |-> poster, arbiter |-> arbiter, pool |-> pool, expiry |-> expiry,
         window |-> window, arbiter_fee_bps |-> bps, status |-> "Open"] \in ContractState
    BY <2>1, ArgumentsAssumption DEF ContractState, ContractStatus
  <2>3. balance' \in [Account -> Nat]
    BY <1>1, <2>1, TransferType DEF PostContract, TypeOK, Account
  <2>4. next_poster_nonce' \in [Address -> 0 .. MaxNonce + 1]
    BY <1>1, <2>1, BoundsAssumption DEF PostContract, BumpPosterNonce, TypeOK
  <2>5. QED
    BY <1>1, <2>1, <2>2, <2>3, <2>4 DEF PostContract, TypeOK
<1>2. ASSUME NEW c \in ContractId, NEW worker \in Workers, NEW bond \in Bonds,
             CommitToContract(c, worker, bond)
      PROVE  TypeOK'
  <2>1. worker \in Address /\ bond \in Nat /\ <<c, worker>> \in CommitKey
    BY RolesAssumption, ArgumentsAssumption, IdComponents
  <2>2. contracts' \in [ContractId -> ContractState \cup {None}]
    BY <1>2, StatusUpdateType DEF CommitToContract, StatusIs, ContractStatus
  <2>3. balance' \in [Account -> Nat]
    BY <1>2, <2>1, TransferType DEF CommitToContract, TypeOK, Account
  <2>4. QED
    BY <1>2, <2>1, <2>2, <2>3 DEF CommitToContract, TypeOK
<1>3. ASSUME NEW c \in ContractId, NEW worker \in Workers, NEW a \in AttestationId,
             DeliverContract(c, worker, a)
      PROVE  TypeOK'
  <2>1. contracts' \in [ContractId -> ContractState \cup {None}]
    BY <1>3, StatusUpdateType DEF DeliverContract, StatusIs, ContractStatus
  <2>2. [worker |-> worker, attestation |-> a, delivered_at |-> rollup_height]
          \in DeliveryRecord
    BY RolesAssumption, BoundsAssumption DEF TypeOK, DeliveryRecord
  <2>3. QED
    BY <1>3, <2>1, <2>2 DEF DeliverContract, TypeOK
<1>4. ASSUME NEW c \in ContractId, NEW sender \in Address, AcceptDelivery(c, sender)
      PROVE  TypeOK'
  <2>1. deliveries[c].worker \in Address
    BY <1>4 DEF AcceptDelivery, TypeOK, DeliveryRecord
  <2>2. contracts' \in [ContractId -> ContractState \cup {None}]
    BY <1>4, StatusUpdateType DEF AcceptDelivery, ContractStatus
  <2>3. QED
    BY <1>4, <2>1, <2>2, SettleType DEF AcceptDelivery, TypeOK
<1>5. ASSUME NEW c \in ContractId, NEW sender \in Address, RejectDelivery(c, sender)
      PROVE  TypeOK'
  <2>1. deliveries[c].worker \in Address
    BY <1>5 DEF RejectDelivery, TypeOK, DeliveryRecord
  <2>2. contracts' \in [ContractId -> ContractState \cup {None}]
    BY <1>5, StatusUpdateType DEF RejectDelivery, ContractStatus
  <2>3. QED
    BY <1>5, <2>1, <2>2 DEF RejectDelivery, TypeOK
<1>6. ASSUME NEW c \in ContractId, NEW sender \in Address, NEW decision,
             ResolveContractDispute(c, sender, decision)
      PROVE  TypeOK'
  <2>1. disputes[c] \in Address /\ contracts[c].poster \in Address
    BY <1>6 DEF ResolveContractDispute, TypeOK, Posted, ContractState
  <2>2. ArbiterCut(c) \in Nat
    BY <1>6, CutType DEF ResolveContractDispute
  <2>3. contracts' \in [ContractId -> ContractState \cup {None}]
    BY <1>6, StatusUpdateType DEF ResolveContractDispute, ContractStatus
  <2>4. /\ balance' \in [Account -> Nat] /\ escrow' \in [ContractId -> Nat]
        /\ commits' \in [CommitKey -> Nat \cup {None}]
    BY <1>6, <2>1, <2>2, SettleType DEF ResolveContractDispute
  <2>5. QED
    BY <1>6, <2>3, <2>4 DEF ResolveContractDispute, TypeOK
<1>7. ASSUME NEW c \in ContractId, NEW sender \in Address, CancelContract(c, sender)
      PROVE  TypeOK'
  <2>1. contracts[c].poster \in Account /\ ContractModule \in Account /\ escrow[c] \in Nat
    BY <1>7 DEF CancelContract, TypeOK, Posted, ContractState, Account
  <2>2. contracts' \in [ContractId -> ContractState \cup {None}]
    BY <1>7, StatusUpdateType DEF CancelContract, ContractStatus
  <2>3. balance' \in [Account -> Nat]
    BY <1>7, <2>1, TransferType DEF CancelContract, TypeOK
  <2>4. QED
    BY <1>7, <2>2, <2>3 DEF CancelContract, TypeOK
<1>8. ASSUME NEW c \in ContractId, FinalizeDelivery(c)
      PROVE  TypeOK'
  <2>1. deliveries[c].worker \in Address
    BY <1>8 DEF FinalizeDelivery, TypeOK, DeliveryRecord
  <2>2. Posted(c) /\ contracts' \in [ContractId -> ContractState \cup {None}]
    BY <1>8, StatusUpdateType DEF FinalizeDelivery, StatusIs, ContractStatus
  <2>3. QED
    BY <1>8, <2>1, <2>2, SettleType DEF FinalizeDelivery, TypeOK
<1>9. ASSUME NEW a \in AttestationId, AttestationStored(a)
      PROVE  TypeOK'
  BY <1>9 DEF AttestationStored, TypeOK, ledger
<1>10. CASE AdvanceBlock
  BY <1>10, BoundsAssumption DEF AdvanceBlock, TypeOK, ledger
<1>11. CASE UNCHANGED vars
  BY <1>11 DEF vars, ledger, TypeOK
<1>12. QED
  BY <1>1, <1>2, <1>3, <1>4, <1>5, <1>6, <1>7, <1>8, <1>9, <1>10, <1>11 DEF Next, Post

\* The state of the contract module stays well typed: in particular no balance,
\* the module account's included, and no escrow ever goes below zero.
THEOREM TypeCorrect == Spec => []TypeOK
BY InitTypeOK, NextTypeOK, PTL DEF Spec

-----------------------------------------------------------------------------
(* The inductive invariant                                                 *)

LEMMA InitIndInv == Init => IndInv
<1> SUFFICES ASSUME Init PROVE IndInv
  OBVIOUS
<1>1. \A c \in ContractId : ~Posted(c)
  BY DEF Init, Posted
<1>2. QED
  BY <1>1, InitTypeOK
  DEF Init, IndInv, EscrowFollowsStatus, DeliveryIsBonded, IdsAreFresh, CutWithinPool,
      Live, StatusIs

\* What a change of status does to the record: everything else stays.
LEMMA StatusUpdate ==
  ASSUME TypeOK, NEW c \in ContractId, Posted(c), NEW st \in ContractStatus,
         contracts' = WithStatus(c, st)
  PROVE  /\ Posted(c)' /\ contracts'[c].status = st
         /\ contracts'[c].pool = contracts[c].pool
         /\ contracts'[c].arbiter_fee_bps = contracts[c].arbiter_fee_bps
         /\ \A d \in ContractId \ {c} : contracts'[d] = contracts[d]
<1>1. contracts[c] \in ContractState /\ contracts \in [ContractId -> ContractState \cup {None}]
  BY DEF TypeOK, Posted
<1>2. contracts'[c] = [contracts[c] EXCEPT !.status = st]
  BY <1>1 DEF WithStatus
<1>3. contracts'[c] \in ContractState /\ contracts'[c].status = st
  BY <1>1, <1>2 DEF ContractState
<1>4. QED
  BY <1>1, <1>2, <1>3, NoneAssumption DEF WithStatus, Posted, ContractState

\* Contracts keep their ids and terms, so freshness of ids and the bound on the
\* cut only depend on PostContract.
LEMMA TermsKept ==
  ASSUME IndInv, NEW c \in ContractId, Posted(c), NEW st \in ContractStatus,
         contracts' = WithStatus(c, st), UNCHANGED next_poster_nonce
  PROVE  IdsAreFresh' /\ CutWithinPool'
<1>1. TypeOK
  BY DEF IndInv
<1>2. \A d \in ContractId : Posted(d)' => Posted(d)
  BY <1>1, StatusUpdate DEF Posted
<1>3. IdsAreFresh'
  BY <1>2 DEF IndInv, IdsAreFresh
<1>4. \A d \in ContractId : /\ contracts'[d].pool = contracts[d].pool
                            /\ contracts'[d].arbiter_fee_bps = contracts[d].arbiter_fee_bps
  BY <1>1, StatusUpdate
<1>5. QED
  BY <1>2, <1>3, <1>4 DEF IndInv, CutWithinPool, ArbiterCut

\* A settlement, whoever wins it, ends the contract it settles and no other.
LEMMA SettlementIndInv ==
  ASSUME IndInv, NEW c \in ContractId, Posted(c), StatusIs(c, {"Delivered", "Disputed"}),
         NEW winner, NEW cut,
         NEW st \in {"Accepted", "Rejected"},
         Settle(c, deliveries[c].worker, winner, cut), contracts' = WithStatus(c, st),
         UNCHANGED <<deliveries, next_poster_nonce>>,
         \A d \in ContractId \ {c} : disputes'[d] = disputes[d]
  PROVE  EscrowFollowsStatus' /\ DeliveryIsBonded' /\ IdsAreFresh' /\ CutWithinPool'
<1>1. TypeOK /\ st \in ContractStatus /\ st \in Terminal
  BY DEF IndInv, ContractStatus, Terminal
<1>2. EscrowFollowsStatus'
  BY <1>1, StatusUpdate
  DEF IndInv, EscrowFollowsStatus, Settle, Live, StatusIs, TypeOK, Posted
<1>3. \A d \in ContractId \ {c}, w \in Address : commits'[<<d, w>>] = commits[<<d, w>>]
  BY <1>1, IdComponents DEF Settle, TypeOK
<1>4. DeliveryIsBonded'
  BY <1>1, <1>3, StatusUpdate
  DEF IndInv, DeliveryIsBonded, StatusIs, Posted, Terminal, TypeOK, DeliveryRecord
<1>5. QED
  BY <1>1, <1>2, <1>4, TermsKept

LEMMA PostIndInv ==
  ASSUME IndInv,
         NEW poster \in Posters, NEW arbiter \in Arbiters, NEW criteria \in Criteria,
         NEW pool \in Pools, NEW expiry \in Expiries, NEW window \in Windows,
         NEW bps \in FeeBps,
         PostContract(poster, arbiter, criteria, pool, expiry, window, bps)
  PROVE  EscrowFollowsStatus' /\ DeliveryIsBonded' /\ IdsAreFresh' /\ CutWithinPool'
<1> DEFINE rec == [poster |-> poster, arbiter |-> arbiter, pool |-> pool,
                   expiry |-> expiry, window |-> window, arbiter_fee_bps |-> bps,
                   status |-> "Open"]
<1>0. /\ poster \in Address /\ TypeOK
      /\ pool \in Nat /\ bps \in Nat /\ bps <= 5000
      /\ <<poster, criteria, next_poster_nonce[poster]>> \in ContractId
  BY RolesAssumption, ArgumentsAssumption, BoundsAssumption
  DEF PostContract, IndInv, TypeOK, ContractId, MAX_ARBITER_FEE_BPS
<1>1. PICK c \in ContractId : c = <<poster, criteria, next_poster_nonce[poster]>>
  BY <1>0
<1>2. rec \in ContractState
  BY <1>0, RolesAssumption, ArgumentsAssumption DEF ContractState, ContractStatus, Amount
<1>3. /\ contracts'[c] = rec /\ Posted(c)' /\ ~Posted(c)
      /\ \A d \in ContractId \ {c} : contracts'[d] = contracts[d]
  <2>1. ~Posted(c) /\ contracts' = [contracts EXCEPT ![c] = rec]
    BY <1>0, <1>1 DEF PostContract
  <2>2. contracts'[c] = rec /\ \A d \in ContractId \ {c} : contracts'[d] = contracts[d]
    BY <1>0, <1>1, <2>1 DEF TypeOK
  <2>3. QED
    BY <1>2, <2>1, <2>2, NoneAssumption DEF Posted
<1>4. EscrowFollowsStatus'
  <2>1. escrow' = [escrow EXCEPT ![c] = pool]
    BY <1>0, <1>1 DEF PostContract
  <2>2. Live(c)' /\ contracts'[c].pool = pool
    BY <1>3 DEF Live, StatusIs, Posted, Terminal, ContractStatus
  <2>3. \A d \in ContractId \ {c} : Live(d)' <=> Live(d)
    BY <1>3 DEF Live, StatusIs, Posted
  <2>4. QED
    BY <1>0, <1>1, <1>3, <2>1, <2>2, <2>3 DEF IndInv, EscrowFollowsStatus, TypeOK
<1>5. DeliveryIsBonded'
  BY <1>0, <1>1, <1>3 DEF IndInv, DeliveryIsBonded, PostContract, StatusIs, Posted
<1>6. IdsAreFresh'
  BY <1>0, <1>1, <1>3, BoundsAssumption
  DEF IndInv, IdsAreFresh, PostContract, BumpPosterNonce, TypeOK, Posted, ContractId
<1>7. 2 * (SaturatingMul(pool, bps) \div 10000) <= pool
  <2> DEFINE product == pool * bps
             saturated == SaturatingMul(pool, bps)
  <2>1. product <= pool * 5000
    BY <1>0, <1>1
  <2>2. product \in Nat /\ saturated \in Nat /\ saturated <= product
    BY <1>0, <1>1, ProductIsNat, SaturatedIsNat
  <2>3. \A n \in Nat : n <= pool * 5000 => 2 * (n \div 10000) <= pool
    BY <1>0, <1>1
  <2> HIDE DEF product, saturated
  <2>4. saturated <= pool * 5000
    BY <1>0, <2>1, <2>2
  <2>5. QED
    BY <2>2, <2>3, <2>4 DEF saturated
<1>8. CutWithinPool'
  BY <1>0, <1>1, <1>3, <1>7 DEF IndInv, CutWithinPool, ArbiterCut, Posted
<1>9. QED
  BY <1>4, <1>5, <1>6, <1>8

LEMMA NextIndInv == IndInv /\ [Next]_vars => IndInv'
<1> SUFFICES ASSUME IndInv, [Next]_vars PROVE IndInv'
  OBVIOUS
<1> DEFINE Rest == EscrowFollowsStatus /\ DeliveryIsBonded /\ IdsAreFresh /\ CutWithinPool
<1>0. TypeOK /\ TypeOK'
  BY NextTypeOK DEF IndInv
<1> SUFFICES Rest'
  BY <1>0 DEF IndInv
<1>1. ASSUME NEW poster \in Posters, NEW arbiter \in Arbiters, NEW criteria \in Criteria,
             NEW pool \in Pools, NEW expiry \in Expiries, NEW window \in Windows,
             NEW bps \in FeeBps,
             PostContract(poster, arbiter, criteria, pool, expiry, window, bps)
      PROVE  Rest'
  BY <1>1, PostIndInv
<1>2. ASSUME NEW c \in ContractId, NEW worker \in Workers, NEW bond \in Bonds,
             CommitToContract(c, worker, bond)
      PROVE  Rest'
  <2>1. /\ Posted(c) /\ "Committed" \in ContractStatus /\ contracts' = WithStatus(c, "Committed")
        /\ bond \in Nat /\ <<c, worker>> \in CommitKey /\ bond # None
    BY <1>2, RolesAssumption, ArgumentsAssumption, NoneAssumption, IdComponents
    DEF CommitToContract, StatusIs, ContractStatus, Amount
  <2>2. EscrowFollowsStatus'
    BY <1>0, <1>2, <2>1, StatusUpdate
    DEF IndInv, EscrowFollowsStatus, CommitToContract, Live, StatusIs, Posted, Terminal,
        ContractStatus
  <2>3. DeliveryIsBonded'
    BY <1>0, <1>2, <2>1, StatusUpdate
    DEF IndInv, DeliveryIsBonded, CommitToContract, StatusIs, Posted, TypeOK
  <2>4. QED
    BY <1>2, <2>1, <2>2, <2>3, TermsKept DEF CommitToContract
<1>3. ASSUME NEW c \in ContractId, NEW worker \in Workers, NEW a \in AttestationId,
             DeliverContract(c, worker, a)
      PROVE  Rest'
  <2>1. /\ Posted(c) /\ "Delivered" \in ContractStatus /\ contracts' = WithStatus(c, "Delivered")
        /\ deliveries'[c].worker = worker /\ deliveries'[c] # None
        /\ \A d \in ContractId \ {c} : deliveries'[d] = deliveries[d]
    <3>1. [worker |-> worker, attestation |-> a, delivered_at |-> rollup_height]
            \in DeliveryRecord
      BY <1>0, RolesAssumption, BoundsAssumption DEF TypeOK, DeliveryRecord
    <3>2. QED
      BY <1>0, <1>3, <3>1, NoneAssumption DEF DeliverContract, StatusIs, ContractStatus, TypeOK
  <2>2. EscrowFollowsStatus'
    BY <1>0, <1>3, <2>1, StatusUpdate
    DEF IndInv, EscrowFollowsStatus, DeliverContract, Live, StatusIs, Posted, Terminal,
        ContractStatus
  <2>3. DeliveryIsBonded'
    BY <1>0, <1>3, <2>1, StatusUpdate
    DEF IndInv, DeliveryIsBonded, DeliverContract, StatusIs, Posted
  <2>4. QED
    BY <1>3, <2>1, <2>2, <2>3, TermsKept DEF DeliverContract
<1>4. ASSUME NEW c \in ContractId, NEW sender \in Address, AcceptDelivery(c, sender)
      PROVE  Rest'
  BY <1>4, SettlementIndInv DEF AcceptDelivery, StatusIs
<1>5. ASSUME NEW c \in ContractId, NEW sender \in Address, RejectDelivery(c, sender)
      PROVE  Rest'
  <2>1. /\ Posted(c) /\ "Disputed" \in ContractStatus /\ contracts' = WithStatus(c, "Disputed")
    BY <1>5 DEF RejectDelivery, ContractStatus
  <2>2. EscrowFollowsStatus'
    BY <1>0, <1>5, <2>1, StatusUpdate
    DEF IndInv, EscrowFollowsStatus, RejectDelivery, Live, StatusIs, Posted, Terminal,
        ContractStatus
  <2>3. DeliveryIsBonded'
    BY <1>0, <1>5, <2>1, StatusUpdate
    DEF IndInv, DeliveryIsBonded, RejectDelivery, StatusIs, Posted, TypeOK
  <2>4. QED
    BY <1>5, <2>1, <2>2, <2>3, TermsKept DEF RejectDelivery
<1>6. ASSUME NEW c \in ContractId, NEW sender \in Address, NEW decision,
             ResolveContractDispute(c, sender, decision)
      PROVE  Rest'
  <2>1. disputes[c] = deliveries[c].worker /\ StatusIs(c, {"Delivered", "Disputed"})
    BY <1>6 DEF ResolveContractDispute, IndInv, DeliveryIsBonded, StatusIs
  <2>2. \A d \in ContractId \ {c} : disputes'[d] = disputes[d]
    BY <1>0, <1>6 DEF ResolveContractDispute, TypeOK
  <2>3. QED
    BY <1>6, <2>1, <2>2, SettlementIndInv DEF ResolveContractDispute
<1>7. ASSUME NEW c \in ContractId, NEW sender \in Address, CancelContract(c, sender)
      PROVE  Rest'
  <2> DEFINE st == IF HasExpired(c) THEN "Expired" ELSE "Cancelled"
  <2>1. Posted(c) /\ st \in ContractStatus /\ st \in Terminal /\ contracts' = WithStatus(c, st)
    BY <1>7 DEF CancelContract, ContractStatus, Terminal
  <2>2. EscrowFollowsStatus'
    BY <1>0, <1>7, <2>1, StatusUpdate
    DEF IndInv, EscrowFollowsStatus, CancelContract, Live, StatusIs, Posted, TypeOK
  <2>3. DeliveryIsBonded'
    BY <1>0, <1>7, <2>1, StatusUpdate
    DEF IndInv, DeliveryIsBonded, CancelContract, StatusIs, Posted, Terminal
  <2>4. QED
    BY <1>7, <2>1, <2>2, <2>3, TermsKept DEF CancelContract
<1>8. ASSUME NEW c \in ContractId, FinalizeDelivery(c)
      PROVE  Rest'
  BY <1>8, SettlementIndInv DEF FinalizeDelivery, StatusIs
<1>9. ASSUME NEW a \in AttestationId, AttestationStored(a)
      PROVE  Rest'
  BY <1>9 DEF AttestationStored, ledger, IndInv, EscrowFollowsStatus, DeliveryIsBonded,
              IdsAreFresh, CutWithinPool, ArbiterCut, Live, StatusIs, Posted
<1>10. CASE AdvanceBlock
  BY <1>10 DEF AdvanceBlock, ledger, IndInv, EscrowFollowsStatus, DeliveryIsBonded,
               IdsAreFresh, CutWithinPool, ArbiterCut, Live, StatusIs, Posted
<1>11. CASE UNCHANGED vars
  BY <1>11 DEF vars, ledger, IndInv, EscrowFollowsStatus, DeliveryIsBonded,
               IdsAreFresh, CutWithinPool, ArbiterCut, Live, StatusIs, Posted
<1>12. QED
  BY <1>1, <1>2, <1>3, <1>4, <1>5, <1>6, <1>7, <1>8, <1>9, <1>10, <1>11 DEF Next, Post

LEMMA IndInvHolds == Spec => []IndInv
BY InitIndInv, NextIndInv, PTL DEF Spec

\* The escrow entry is the whole pool while the contract is live and nothing
\* afterwards, whichever of the four endings it meets.
THEOREM EscrowTracksStatus == Spec => []EscrowFollowsStatus
BY IndInvHolds, PTL DEF IndInv

\* The bond of a worker whose delivery is undecided is still locked, and the
\* dispute over it names that worker.
THEOREM DeliveriesAreBonded == Spec => []DeliveryIsBonded
BY IndInvHolds, PTL DEF IndInv

\* PostContract never meets an id already in use.
THEOREM IdsStayFresh == Spec => []IdsAreFresh
BY IndInvHolds, PTL DEF IndInv

-----------------------------------------------------------------------------
(* What a step may do                                                      *)

\* What a settlement pays to address a.
CreditTo(a, c, w, winner, cut) ==
  (IF a = contracts[c].arbiter THEN cut ELSE 0)
    + (IF a = winner THEN contracts[c].pool - cut + BondOf(c, w) ELSE 0)

\* The effect of a settlement on the entries of the module.
LEMMA SettlementEntries ==
  ASSUME TypeOK, NEW c \in ContractId, NEW w \in Address, NEW winner, NEW cut,
         Settle(c, w, winner, cut)
  PROVE  /\ escrow'[c] = 0 /\ \A d \in ContractId \ {c} : escrow'[d] = escrow[d]
         /\ commits'[<<c, w>>] = None
         /\ \A k \in CommitKey \ {<<c, w>>} : commits'[k] = commits[k]
BY IdComponents DEF Settle, TypeOK

\* The effect of a settlement on every account.
LEMMA SettlementBalances ==
  ASSUME IndInv, NEW c \in ContractId, Posted(c), NEW w \in Address, NEW winner \in Address,
         NEW cut \in Nat, 2 * cut <= contracts[c].pool, Settle(c, w, winner, cut)
  PROVE  /\ balance'[ContractModule] =
              balance[ContractModule] - contracts[c].pool - BondOf(c, w)
         /\ \A a \in Address : balance'[a] = balance[a] + CreditTo(a, c, w, winner, cut)
<1> DEFINE paid == SaturatingSub(contracts[c].pool, cut) + BondOf(c, w)
           arbiter == contracts[c].arbiter
           afterCut == Transfer(balance, ContractModule, arbiter, cut)
<1>1. TypeOK /\ contracts[c].pool \in Nat /\ arbiter \in Address /\ BondOf(c, w) \in Nat
  BY BondType DEF IndInv, TypeOK, Posted, ContractState, Amount
<1>2. paid = contracts[c].pool - cut + BondOf(c, w) /\ paid \in Nat
  BY <1>1, BondType DEF SaturatingSub, Amount
<1>3. balance \in [Account -> Nat]
  BY <1>1 DEF TypeOK, Amount
<1>4. balance' = Transfer(afterCut, ContractModule, winner, paid)
  BY DEF Settle, Payout
<1>5. /\ afterCut \in [Account -> Int]
      /\ afterCut[ContractModule] = balance[ContractModule] - cut
      /\ \A a \in Address : afterCut[a] = balance[a] + (IF a = arbiter THEN cut ELSE 0)
  BY <1>1, <1>3, ModuleAccountAssumption DEF Transfer, Account
<1>6. /\ balance'[ContractModule] = afterCut[ContractModule] - paid
      /\ \A a \in Address : balance'[a] = afterCut[a] + (IF a = winner THEN paid ELSE 0)
  <2> HIDE DEF paid, afterCut
  <2>1. balance'[ContractModule] = afterCut[ContractModule] - paid
    BY <1>2, <1>4, <1>5, ModuleAccountAssumption DEF Transfer, Account
  <2>2. \A a \in Address : balance'[a] = afterCut[a] + (IF a = winner THEN paid ELSE 0)
    BY <1>2, <1>4, <1>5, ModuleAccountAssumption DEF Transfer, Account
  <2>3. QED
    BY <2>1, <2>2
<1>7. /\ balance'[ContractModule] = balance[ContractModule] - contracts[c].pool - BondOf(c, w)
      /\ \A a \in Address : balance'[a] =
           balance[a] + (IF a = arbiter THEN cut ELSE 0) + (IF a = winner THEN paid ELSE 0)
  BY <1>1, <1>2, <1>3, <1>5, <1>6, ModuleAccountAssumption DEF Account
<1>8. \A a \in Address : balance'[a] = balance[a] + CreditTo(a, c, w, winner, cut)
  BY <1>1, <1>2, <1>3, <1>7 DEF CreditTo, Account
<1>9. QED
  BY <1>7, <1>8

\* The three handlers that settle a delivery, seen as one: the worker is the one
\* who delivered, and the cut is at most half of the pool.
Settlement(c, w, winner, cut, status) ==
  /\ StatusIs(c, {"Delivered", "Disputed"})
  /\ w = deliveries[c].worker /\ w \in Address
  /\ winner \in {w, contracts[c].poster} /\ winner \in Address
  /\ cut \in Nat /\ 2 * cut <= contracts[c].pool
  /\ Settle(c, w, winner, cut)
  /\ status \in {"Accepted", "Rejected"} /\ (status = "Accepted" => winner = w)
  /\ contracts' = WithStatus(c, status)
  /\ UNCHANGED deliveries
  /\ \A d \in ContractId \ {c} : disputes'[d] = disputes[d]

LEMMA SettlingActions ==
  ASSUME IndInv, NEW c \in ContractId,
         \/ \E sender \in Address : AcceptDelivery(c, sender)
         \/ \E sender \in Address, decision \in {"AcceptDelivery", "RejectDelivery"} :
              ResolveContractDispute(c, sender, decision)
         \/ FinalizeDelivery(c)
  PROVE  \E w, winner \in Address, cut \in Nat, status \in ContractStatus :
           Settlement(c, w, winner, cut, status)
<1> DEFINE w == deliveries[c].worker
<1>1. StatusIs(c, {"Delivered", "Disputed"}) /\ Posted(c) /\ TypeOK
  BY DEF IndInv, AcceptDelivery, ResolveContractDispute, FinalizeDelivery, StatusIs
<1>2. w \in Address /\ contracts[c].poster \in Address /\ contracts[c].pool \in Nat
  BY <1>1 DEF IndInv, DeliveryIsBonded, TypeOK, DeliveryRecord, Posted, ContractState, Amount
<1>3. ArbiterCut(c) \in Nat /\ 2 * ArbiterCut(c) <= contracts[c].pool /\ 2 * 0 <= contracts[c].pool
  BY <1>1, <1>2, CutType DEF IndInv, CutWithinPool, Amount
<1>4. ASSUME NEW sender \in Address, AcceptDelivery(c, sender)
      PROVE  Settlement(c, w, w, 0, "Accepted")
  BY <1>1, <1>2, <1>3, <1>4 DEF AcceptDelivery, Settlement
<1>5. ASSUME NEW sender \in Address, NEW decision \in {"AcceptDelivery", "RejectDelivery"},
             ResolveContractDispute(c, sender, decision)
      PROVE  \/ Settlement(c, w, w, ArbiterCut(c), "Accepted")
             \/ Settlement(c, w, contracts[c].poster, ArbiterCut(c), "Rejected")
  <2>1. disputes[c] = w
    BY <1>5 DEF ResolveContractDispute, IndInv, DeliveryIsBonded
  <2>2. UNCHANGED deliveries /\ \A d \in ContractId \ {c} : disputes'[d] = disputes[d]
    BY <1>1, <1>5 DEF ResolveContractDispute, TypeOK
  <2>3. QED
    BY <1>1, <1>2, <1>3, <1>5, <2>1, <2>2 DEF ResolveContractDispute, Settlement
<1>6. ASSUME FinalizeDelivery(c)
      PROVE  Settlement(c, w, w, 0, "Accepted")
  BY <1>1, <1>2, <1>3, <1>6 DEF FinalizeDelivery, Settlement
<1>7. "Accepted" \in ContractStatus /\ "Rejected" \in ContractStatus
  BY DEF ContractStatus
<1>8. QED
  BY <1>2, <1>3, <1>4, <1>5, <1>6, <1>7

LEMMA NextTerminal == IndInv /\ [Next]_vars => TerminalStep
<1> SUFFICES ASSUME IndInv, [Next]_vars, NEW c \in ContractId, StatusIs(c, Terminal)
             PROVE  /\ contracts'[c] = contracts[c] /\ escrow'[c] = escrow[c]
                    /\ deliveries'[c] = deliveries[c] /\ disputes'[c] = disputes[c]
                    /\ \A w \in Address : commits'[<<c, w>>] = commits[<<c, w>>]
  BY DEF TerminalStep
<1> DEFINE Goal == /\ contracts'[c] = contracts[c] /\ escrow'[c] = escrow[c]
                   /\ deliveries'[c] = deliveries[c] /\ disputes'[c] = disputes[c]
                   /\ \A w \in Address : commits'[<<c, w>>] = commits[<<c, w>>]
<1>0. TypeOK /\ Posted(c) /\ \A w \in Address : <<c, w>> \in CommitKey
  BY IdComponents DEF IndInv, StatusIs
<1>1. CASE Post
  <2>1. PICK poster \in Posters, arbiter \in Arbiters, criteria \in Criteria, pool \in Pools,
             expiry \in Expiries, window \in Windows, bps \in FeeBps :
               PostContract(poster, arbiter, criteria, pool, expiry, window, bps)
    BY <1>1 DEF Post
  <2>2. c # <<poster, criteria, next_poster_nonce[poster]>>
    BY <1>0, <2>1 DEF PostContract
  <2>3. QED
    BY <1>0, <2>1, <2>2 DEF PostContract, TypeOK
<1>2. ASSUME NEW d \in ContractId, NEW worker \in Workers, NEW bond \in Bonds,
             CommitToContract(d, worker, bond)
      PROVE  Goal
  <2>1. d # c
    BY <1>2 DEF CommitToContract, StatusIs, Terminal
  <2>2. QED
    BY <1>0, <1>2, <2>1 DEF CommitToContract, WithStatus, TypeOK
<1>3. ASSUME NEW d \in ContractId, NEW worker \in Workers, NEW a \in AttestationId,
             DeliverContract(d, worker, a)
      PROVE  Goal
  <2>1. d # c
    BY <1>3 DEF DeliverContract, StatusIs, Terminal
  <2>2. QED
    BY <1>0, <1>3, <2>1 DEF DeliverContract, WithStatus, TypeOK
<1>4. ASSUME NEW d \in ContractId, NEW sender \in Address, RejectDelivery(d, sender)
      PROVE  Goal
  <2>1. d # c
    BY <1>4 DEF RejectDelivery, StatusIs, Terminal
  <2>2. QED
    BY <1>0, <1>4, <2>1 DEF RejectDelivery, WithStatus, TypeOK
<1>5. ASSUME NEW d \in ContractId, NEW w \in Address, NEW winner \in Address,
             NEW cut \in Nat, NEW status \in ContractStatus,
             Settlement(d, w, winner, cut, status)
      PROVE  Goal
  <2>1. d # c
    BY <1>5 DEF Settlement, StatusIs, Terminal
  <2>2. QED
    BY <1>0, <1>5, <2>1 DEF Settlement, Settle, WithStatus, TypeOK
<1>6. ASSUME NEW d \in ContractId, NEW sender \in Address, CancelContract(d, sender)
      PROVE  Goal
  <2>1. d # c
    BY <1>6 DEF CancelContract, Cancellable, StatusIs
  <2>2. QED
    BY <1>0, <1>6, <2>1 DEF CancelContract, WithStatus, TypeOK
<1>7. ASSUME NEW a \in AttestationId, AttestationStored(a)
      PROVE  Goal
  BY <1>7 DEF AttestationStored, ledger
<1>8. CASE AdvanceBlock
  BY <1>8 DEF AdvanceBlock, ledger
<1>9. CASE UNCHANGED vars
  BY <1>9 DEF vars, ledger
<1>10. QED
  BY <1>1, <1>2, <1>3, <1>4, <1>5, <1>6, <1>7, <1>8, <1>9, SettlingActions DEF Next

\* A contract that has ended stays exactly as it ended: no second settlement,
\* no status change, no commit accepted or released.
THEOREM TerminalForEver == Spec => TerminalIsFinal
BY IndInvHolds, NextTerminal, PTL DEF Spec, TerminalIsFinal

LEMMA NextBond == IndInv /\ [Next]_vars => BondStep
<1> SUFFICES ASSUME IndInv, [Next]_vars, NEW c \in ContractId, NEW w \in Address,
                    commits[<<c, w>>] # None, commits'[<<c, w>>] # commits[<<c, w>>]
             PROVE  /\ commits'[<<c, w>>] = None
                    /\ StatusIs(c, {"Delivered", "Disputed"}) /\ deliveries[c].worker = w
                    /\ contracts'[c].status \in {"Accepted", "Rejected"}
  BY DEF BondStep
<1>0. TypeOK /\ <<c, w>> \in CommitKey
  BY IdComponents DEF IndInv
<1>1. ~ \E d \in ContractId, worker \in Workers, bond \in Bonds :
          CommitToContract(d, worker, bond)
  BY <1>0, RolesAssumption DEF CommitToContract, TypeOK
<1>2. \E d \in ContractId, worker, winner \in Address, cut \in Nat, status \in ContractStatus :
        Settlement(d, worker, winner, cut, status)
  <2>1. ~ Post
    <3>1. ASSUME NEW poster, NEW arbiter, NEW criteria, NEW pool, NEW expiry, NEW window,
                 NEW bps, PostContract(poster, arbiter, criteria, pool, expiry, window, bps)
          PROVE  FALSE
      BY <3>1 DEF PostContract
    <3>2. QED
      BY <3>1 DEF Post
  <2>2. ~ \E d \in ContractId, worker \in Workers, a \in AttestationId :
            DeliverContract(d, worker, a)
    BY DEF DeliverContract
  <2>3. ~ \E d \in ContractId, sender \in Address :
            RejectDelivery(d, sender) \/ CancelContract(d, sender)
    BY DEF RejectDelivery, CancelContract
  <2>4. ~ (\E a \in AttestationId : AttestationStored(a)) /\ ~AdvanceBlock /\ ~UNCHANGED vars
    BY DEF AttestationStored, AdvanceBlock, vars, ledger
  <2>5. QED
    BY <1>1, <2>1, <2>2, <2>3, <2>4, SettlingActions DEF Next
<1>3. PICK d \in ContractId, worker \in Address, winner \in Address, cut \in Nat,
           status \in ContractStatus : Settlement(d, worker, winner, cut, status)
  BY <1>2
<1>4. <<d, worker>> = <<c, w>> /\ commits'[<<c, w>>] = None
  BY <1>0, <1>3 DEF Settlement, Settle, TypeOK
<1>5. QED
  BY <1>0, <1>3, <1>4, StatusUpdate DEF Settlement, StatusIs

\* A bond on record is released by the settlement of its own worker's delivery
\* and by nothing else.
THEOREM BondsAreNobodysPrize == Spec => BondLeavesOnlyBySettlement
BY IndInvHolds, NextBond, PTL DEF Spec, BondLeavesOnlyBySettlement

\* A step either moves money or leaves the account and every entry as they were.
LEMMA NextMoney ==
  ASSUME IndInv, [Next]_vars
  PROVE  MoneyStep \/ UNCHANGED <<balance, escrow, commits>>
<1> SUFFICES ASSUME Next PROVE MoneyStep \/ UNCHANGED <<balance, escrow, commits>>
  BY DEF vars, ledger
<1>0. /\ TypeOK /\ balance \in [Account -> Nat] /\ ContractModule \in Account
      /\ balance' \in [Account -> Nat]
      /\ \A a \in Address : a \in Account /\ a # ContractModule
      /\ \A c \in ContractId, w \in Address : BondOf(c, w) \in Nat
  BY BondType, NextTypeOK, ModuleAccountAssumption DEF IndInv, TypeOK, Amount, Account
<1>1. ASSUME NEW poster \in Posters, NEW arbiter \in Arbiters, NEW criteria \in Criteria,
             NEW pool \in Pools, NEW expiry \in Expiries, NEW window \in Windows,
             NEW bps \in FeeBps,
             PostContract(poster, arbiter, criteria, pool, expiry, window, bps)
      PROVE  MoneyStep
  <2>0. /\ poster \in Address /\ pool \in Nat
        /\ <<poster, criteria, next_poster_nonce[poster]>> \in ContractId
    BY <1>0, <1>1, RolesAssumption, ArgumentsAssumption, BoundsAssumption
    DEF PostContract, TypeOK, ContractId
  <2>1. PICK c \in ContractId : c = <<poster, criteria, next_poster_nonce[poster]>>
    BY <2>0
  <2>2. ~Posted(c) /\ escrow' = [escrow EXCEPT ![c] = pool] /\ UNCHANGED commits
    BY <1>1, <2>1 DEF PostContract
  <2>3. escrow[c] = 0 /\ escrow'[c] = pool /\ \A d \in ContractId \ {c} : escrow'[d] = escrow[d]
    BY <1>0, <2>2 DEF IndInv, EscrowFollowsStatus, Live, StatusIs, TypeOK
  <2>4. /\ balance'[ContractModule] = balance[ContractModule] + pool
        /\ \A a \in Address : balance'[a] <= balance[a]
    BY <1>0, <1>1, <2>0 DEF PostContract, Transfer
  <2>5. BondOf(c, poster)' = BondOf(c, poster)
    BY <2>2 DEF BondOf
  <2>6. QED
    BY <1>0, <2>0, <2>2, <2>3, <2>4, <2>5 DEF MoneyStep
<1>2. ASSUME NEW c \in ContractId, NEW worker \in Workers, NEW bond \in Bonds,
             CommitToContract(c, worker, bond)
      PROVE  MoneyStep
  <2>0. worker \in Address /\ bond \in Nat /\ <<c, worker>> \in CommitKey
    BY RolesAssumption, ArgumentsAssumption, IdComponents
  <2>1. UNCHANGED escrow /\ \A k \in CommitKey \ {<<c, worker>>} : commits'[k] = commits[k]
    BY <1>0, <1>2, <2>0 DEF CommitToContract, TypeOK
  <2>2. BondOf(c, worker) = 0 /\ BondOf(c, worker)' = bond
    BY <1>0, <1>2, <2>0, NoneAssumption DEF CommitToContract, BondOf, TypeOK, Amount
  <2>3. /\ balance'[ContractModule] = balance[ContractModule] + bond
        /\ \A a \in Address : balance'[a] <= balance[a]
    BY <1>0, <1>2, <2>0 DEF CommitToContract, Transfer
  <2>4. escrow[c] \in Nat
    BY <1>0 DEF TypeOK, Amount
  <2>5. QED
    BY <1>0, <2>0, <2>1, <2>2, <2>3, <2>4 DEF MoneyStep
<1>3. ASSUME NEW c \in ContractId, NEW w \in Address, NEW winner \in Address,
             NEW cut \in Nat, NEW status \in ContractStatus,
             Settlement(c, w, winner, cut, status)
      PROVE  MoneyStep
  <2>1. Posted(c) /\ contracts[c].pool \in Nat /\ escrow[c] = contracts[c].pool
    BY <1>0, <1>3 DEF Settlement, StatusIs, IndInv, EscrowFollowsStatus, Live, TypeOK, Posted,
                      ContractState, ContractStatus, Terminal, Amount
  <2>2. BondOf(c, w)' = 0
    BY <1>0, <1>3, SettlementEntries DEF Settlement, BondOf
  <2>3. \A a \in Address : balance'[a] > balance[a] => a \in {contracts[c].poster, contracts[c].arbiter, w}
    <3> SUFFICES ASSUME NEW a \in Address, a \notin {contracts[c].poster, contracts[c].arbiter, w}
                 PROVE  ~(balance'[a] > balance[a])
      OBVIOUS
    <3>1. balance'[a] = balance[a] + CreditTo(a, c, w, winner, cut)
      BY <1>3, <2>1, SettlementBalances DEF Settlement
    <3>2. a # contracts[c].arbiter /\ a # winner
      BY <1>3 DEF Settlement
    <3>3. QED
      BY <1>0, <3>1, <3>2 DEF CreditTo
  <2>4. balance'[ContractModule] = balance[ContractModule] - contracts[c].pool - BondOf(c, w)
    BY <1>3, <2>1, SettlementBalances DEF Settlement
  <2>5. /\ escrow'[c] = 0 /\ \A d \in ContractId \ {c} : escrow'[d] = escrow[d]
        /\ \A k \in CommitKey \ {<<c, w>>} : commits'[k] = commits[k]
    BY <1>0, <1>3, SettlementEntries DEF Settlement
  <2>6. balance'[ContractModule] - balance[ContractModule] =
          (escrow'[c] - escrow[c]) + (BondOf(c, w)' - BondOf(c, w))
    BY <1>0, <2>1, <2>2, <2>4, <2>5
  <2>7. QED
    BY <2>3, <2>5, <2>6 DEF MoneyStep
<1>4. ASSUME NEW c \in ContractId, NEW sender \in Address, CancelContract(c, sender)
      PROVE  MoneyStep
  <2>0. contracts[c].poster \in Address /\ escrow[c] \in Nat
    BY <1>0, <1>4 DEF CancelContract, TypeOK, Posted, ContractState, Amount
  <2>1. /\ UNCHANGED commits /\ escrow'[c] = 0
        /\ \A d \in ContractId \ {c} : escrow'[d] = escrow[d]
    BY <1>0, <1>4 DEF CancelContract, TypeOK
  <2>2. /\ balance'[ContractModule] = balance[ContractModule] - escrow[c]
        /\ \A a \in Address \ {contracts[c].poster} : balance'[a] = balance[a]
    BY <1>0, <1>4, <2>0 DEF CancelContract, Transfer
  <2>3. \A a \in Address : balance'[a] > balance[a] => a = contracts[c].poster
    BY <1>0, <2>2
  <2>4. BondOf(c, sender)' = BondOf(c, sender)
    BY <2>1 DEF BondOf
  <2>5. QED
    BY <1>0, <2>0, <2>1, <2>2, <2>3, <2>4 DEF MoneyStep
<1>5. ASSUME NEW c \in ContractId, NEW worker \in Workers, NEW a \in AttestationId,
             DeliverContract(c, worker, a)
      PROVE  UNCHANGED <<balance, escrow, commits>>
  BY <1>5 DEF DeliverContract
<1>6. ASSUME NEW c \in ContractId, NEW sender \in Address, RejectDelivery(c, sender)
      PROVE  UNCHANGED <<balance, escrow, commits>>
  BY <1>6 DEF RejectDelivery
<1>7. ASSUME (\E a \in AttestationId : AttestationStored(a)) \/ AdvanceBlock
      PROVE  UNCHANGED <<balance, escrow, commits>>
  BY <1>7 DEF AttestationStored, AdvanceBlock, ledger
<1>8. QED
  BY <1>1, <1>2, <1>3, <1>4, <1>5, <1>6, <1>7, SettlingActions DEF Next, Post

\* Whatever the roles of an address, a step moves the module's money within one
\* contract: the account changes by what that contract's entries change.
THEOREM MoneyStaysWithinContracts == Spec => MoneyMovesWithinOneContract
<1>1. IndInv /\ [Next]_vars => (balance' # balance => MoneyStep)
  BY NextMoney
<1>2. QED
  BY <1>1, IndInvHolds, PTL DEF Spec, MoneyMovesWithinOneContract

-----------------------------------------------------------------------------
(* All the money at once                                                   *)

BondsLocked == [k \in CommitKey |-> BondOf(k[1], k[2])]

LEMMA IdsAreFinite == IsFiniteSet(ContractId) /\ IsFiniteSet(CommitKey)
<1>1. IsFiniteSet(0 .. MaxNonce)
  BY BoundsAssumption, FS_Interval
<1>2. IsFiniteSet(Address \X Criteria)
  BY FinitenessAssumption, FS_Product
<1>3. IsFiniteSet(ContractId)
  <2> DEFINE Pairs == (Address \X Criteria) \X (0 .. MaxNonce)
             f == [c \in ContractId |-> <<<<c[1], c[2]>>, c[3]>>]
  <2>1. IsFiniteSet(Pairs)
    BY <1>1, <1>2, FS_Product
  <2>2. f \in [ContractId -> Pairs]
    BY DEF ContractId
  <2>3. \A c, d \in ContractId : f[c] = f[d] => c = d
    BY DEF ContractId
  <2>4. f \in Injection(ContractId, Pairs)
    BY <2>2, <2>3 DEF Injection, IsInjective
  <2> HIDE DEF Pairs, f
  <2>5. QED
    BY <2>1, <2>4, FS_Injection
<1>4. IsFiniteSet(CommitKey)
  BY <1>3, FinitenessAssumption, FS_Product DEF CommitKey
<1>5. QED
  BY <1>3, <1>4

LEMMA MoneyType ==
  ASSUME TypeOK
  PROVE  /\ BondsLocked \in [CommitKey -> Nat] /\ escrow \in [ContractId -> Nat]
         /\ balance[ContractModule] \in Nat
<1>1. \A k \in CommitKey : BondOf(k[1], k[2]) \in Nat
  BY BondType DEF CommitKey, Amount
<1>2. QED
  BY <1>1 DEF TypeOK, BondsLocked, Amount, Account

LEMMA InitLocked == Init => LockedFundsBacked
<1> SUFFICES ASSUME Init PROVE LockedFundsBacked
  OBVIOUS
<1>1. BondsLocked \in [CommitKey -> Int] /\ escrow \in [ContractId -> Int]
  BY InitTypeOK, MoneyType
<1>2. \A c \in ContractId : escrow[c] = 0
  BY DEF Init
<1>3. \A k \in CommitKey : BondsLocked[k] = 0
  BY DEF Init, BondsLocked, BondOf, CommitKey
<1>4. SumFunction(escrow) = 0
  BY <1>1, <1>2, IdsAreFinite, SumZero
<1>5. SumFunction(BondsLocked) = 0
  <2> HIDE DEF BondsLocked
  <2>1. QED
    BY <1>1, <1>3, IdsAreFinite, SumZero
<1>6. balance[ContractModule] = 0
  BY DEF Init, Account
<1>7. QED
  BY <1>4, <1>5, <1>6 DEF LockedFundsBacked, BondsLocked

\* What moves the account moves one escrow and one bond by as much in all.
LEMMA NextLocked ==
  ASSUME IndInv, IndInv', LockedFundsBacked, [Next]_vars
  PROVE  LockedFundsBacked'
<1>1. /\ BondsLocked \in [CommitKey -> Nat] /\ escrow \in [ContractId -> Nat]
      /\ BondsLocked' \in [CommitKey -> Nat] /\ escrow' \in [ContractId -> Nat]
      /\ balance[ContractModule] \in Nat /\ balance'[ContractModule] \in Nat
  <2>1. TypeOK /\ TypeOK'
    BY DEF IndInv
  <2>2. BondsLocked' \in [CommitKey -> Nat] /\ escrow' \in [ContractId -> Nat]
    BY <2>1 DEF TypeOK, BondsLocked, BondOf, CommitKey, Amount
  <2>3. balance'[ContractModule] \in Nat
    BY <2>1 DEF TypeOK, Account, Amount
  <2>4. QED
    BY <2>1, <2>2, <2>3, MoneyType
<1>2. CASE MoneyStep
  <2>1. PICK c \in ContractId, w \in Address :
          /\ \A d \in ContractId \ {c} : escrow'[d] = escrow[d]
          /\ \A k \in CommitKey \ {<<c, w>>} : commits'[k] = commits[k]
          /\ balance'[ContractModule] - balance[ContractModule] =
               (escrow'[c] - escrow[c]) + (BondOf(c, w)' - BondOf(c, w))
    BY <1>2 DEF MoneyStep
  <2>2. <<c, w>> \in CommitKey /\ IsFiniteSet(ContractId) /\ IsFiniteSet(CommitKey)
    BY IdComponents, IdsAreFinite
  <2>3. \A k \in CommitKey \ {<<c, w>>} : BondsLocked'[k] = BondsLocked[k]
    BY <2>1 DEF BondsLocked, BondOf, CommitKey
  <2>4. BondsLocked'[<<c, w>>] = BondOf(c, w)' /\ BondsLocked[<<c, w>>] = BondOf(c, w)
    BY <2>2 DEF BondsLocked
  <2>5. SumFunction(escrow') = SumFunction(escrow) + escrow'[c] - escrow[c]
    BY <1>1, <2>1, <2>2, SumUpdate
  <2>6. SumFunction(BondsLocked') =
          SumFunction(BondsLocked) + BondsLocked'[<<c, w>>] - BondsLocked[<<c, w>>]
    <3> HIDE DEF BondsLocked
    <3>1. QED
      BY <1>1, <2>2, <2>3, SumUpdate
  <2>7. SumFunction(escrow) \in Nat /\ SumFunction(BondsLocked) \in Nat
    BY <1>1, <2>2, SumOfNats
  <2>8. balance[ContractModule] = SumFunction(escrow) + SumFunction(BondsLocked)
    BY DEF LockedFundsBacked, BondsLocked
  <2>9. /\ escrow[c] \in Nat /\ escrow'[c] \in Nat
        /\ BondOf(c, w) \in Nat /\ BondOf(c, w)' \in Nat
    BY <1>1, <2>2, <2>4
  <2>10. balance'[ContractModule] = SumFunction(escrow') + SumFunction(BondsLocked')
    BY <1>1, <2>1, <2>4, <2>5, <2>6, <2>7, <2>8, <2>9
  <2>11. QED
    BY <2>10 DEF LockedFundsBacked, BondsLocked
<1>3. CASE UNCHANGED <<balance, escrow, commits>>
  BY <1>3 DEF LockedFundsBacked, BondOf
<1>4. QED
  BY <1>2, <1>3, NextMoney

LEMMA LockedInvHolds == Spec => [](IndInv /\ LockedFundsBacked)
<1>1. IndInv /\ LockedFundsBacked /\ [Next]_vars => IndInv' /\ LockedFundsBacked'
  BY NextIndInv, NextLocked
<1>2. QED
  BY <1>1, InitIndInv, InitLocked, PTL DEF Spec

\* Over all contracts together the account holds exactly what the escrows and the
\* bonds say, through every settlement, cancellation and lost race.
THEOREM LockedFundsAreBacked == Spec => []LockedFundsBacked
BY LockedInvHolds, PTL

\* What NeverStuck asks of the three actions that end a contract, without ENABLED: the
\* guards that are not already in its hypotheses.
CanSettle(c, worker, cut) ==
  CanPay(balance, ContractModule,
         cut + (SaturatingSub(contracts[c].pool, cut) + BondOf(c, worker)))
EndingGuards ==
  \A c \in ContractId :
    /\ StatusIs(c, {"Disputed"}) => disputes[c] # None /\ CanSettle(c, disputes[c], ArbiterCut(c))
    /\ StatusIs(c, {"Delivered"}) => deliveries[c] # None /\ CanSettle(c, deliveries[c].worker, 0)
    /\ Live(c) => CanPay(balance, ContractModule, escrow[c])

\* The account covers the pool and any one bond of a contract that is live.
LEMMA LiveIsFunded ==
  ASSUME IndInv, LockedFundsBacked, NEW c \in ContractId, Live(c), NEW w \in Address
  PROVE  /\ balance[ContractModule] >= contracts[c].pool + BondOf(c, w)
         /\ contracts[c].pool \in Nat /\ escrow[c] = contracts[c].pool
         /\ BondOf(c, w) \in Nat /\ balance[ContractModule] \in Nat
<1>1. /\ BondsLocked \in [CommitKey -> Nat] /\ escrow \in [ContractId -> Nat]
      /\ balance[ContractModule] \in Nat /\ TypeOK
  BY MoneyType DEF IndInv
<1>2. /\ SumFunction(escrow) \in Nat /\ escrow[c] <= SumFunction(escrow)
  BY <1>1, IdsAreFinite, SumOfNats
<1>3. /\ SumFunction(BondsLocked) \in Nat
      /\ \A k \in CommitKey : BondsLocked[k] <= SumFunction(BondsLocked)
  <2> HIDE DEF BondsLocked
  <2>1. QED
    BY <1>1, IdsAreFinite, SumOfNats
<1>4. BondsLocked[<<c, w>>] = BondOf(c, w) /\ <<c, w>> \in CommitKey
  BY IdComponents DEF BondsLocked
<1>5. escrow[c] = contracts[c].pool /\ escrow[c] \in Nat /\ BondOf(c, w) \in Nat
  BY <1>1, <1>4 DEF IndInv, EscrowFollowsStatus
<1>6. balance[ContractModule] = SumFunction(escrow) + SumFunction(BondsLocked)
  BY DEF LockedFundsBacked, BondsLocked
<1>7. BondOf(c, w) <= SumFunction(BondsLocked)
  BY <1>3, <1>4
<1>8. balance[ContractModule] >= contracts[c].pool + BondOf(c, w)
  BY <1>2, <1>3, <1>5, <1>6, <1>7
<1>9. QED
  BY <1>1, <1>5, <1>8

\* No ending of a contract ever fails for want of funds or of a record: a dispute can be
\* resolved either way, a delivery finalised, a live contract cancelled.
THEOREM EndingsAreFunded == Spec => []EndingGuards
<1>1. ASSUME IndInv, LockedFundsBacked, NEW c \in ContractId, Live(c)
      PROVE  CanPay(balance, ContractModule, escrow[c])
  <2>1. PICK w \in Address : w = c[1]
    BY DEF ContractId
  <2>2. QED
    BY <1>1, <2>1, LiveIsFunded DEF CanPay
<1>2. ASSUME IndInv, LockedFundsBacked, NEW c \in ContractId, NEW w \in Address, Live(c),
             NEW cut \in Nat, 2 * cut <= contracts[c].pool
      PROVE  CanSettle(c, w, cut)
  BY <1>2, LiveIsFunded DEF CanSettle, CanPay, SaturatingSub
<1>3. ASSUME IndInv, NEW c \in ContractId, StatusIs(c, {"Delivered", "Disputed"})
      PROVE  /\ Live(c) /\ Posted(c) /\ deliveries[c] # None /\ deliveries[c].worker \in Address
             /\ contracts[c].pool \in Nat
  BY <1>3 DEF IndInv, DeliveryIsBonded, Live, StatusIs, Terminal, ContractStatus, TypeOK,
              DeliveryRecord, Posted, ContractState, Amount
<1>4. ASSUME IndInv, LockedFundsBacked, NEW c \in ContractId, StatusIs(c, {"Disputed"})
      PROVE  disputes[c] # None /\ CanSettle(c, disputes[c], ArbiterCut(c))
  <2>1. StatusIs(c, {"Delivered", "Disputed"}) /\ disputes[c] = deliveries[c].worker /\ TypeOK
    BY <1>4 DEF StatusIs, IndInv, DeliveryIsBonded
  <2>2. Posted(c) /\ ArbiterCut(c) \in Nat /\ 2 * ArbiterCut(c) <= contracts[c].pool
    BY <1>3, <1>4, <2>1, CutType DEF IndInv, CutWithinPool, Amount
  <2>3. QED
    BY <1>2, <1>3, <1>4, <2>1, <2>2, NoneAssumption
<1>5. ASSUME IndInv, LockedFundsBacked, NEW c \in ContractId, StatusIs(c, {"Delivered"})
      PROVE  deliveries[c] # None /\ CanSettle(c, deliveries[c].worker, 0)
  <2>1. StatusIs(c, {"Delivered", "Disputed"})
    BY <1>5 DEF StatusIs
  <2>2. contracts[c].pool \in Nat /\ 2 * 0 <= contracts[c].pool
    BY <1>3, <1>5, <2>1
  <2>3. QED
    BY <1>2, <1>3, <1>5, <2>1, <2>2
<1>6. IndInv /\ LockedFundsBacked => EndingGuards
  BY <1>1, <1>4, <1>5 DEF EndingGuards
<1>7. QED
  BY <1>6, LockedInvHolds, PTL

LEMMA NextAcceptance == IndInv /\ [Next]_vars => AcceptanceStep
<1> SUFFICES ASSUME IndInv, [Next]_vars, NEW c \in ContractId, Live(c),
                    contracts'[c].status = "Accepted"
             PROVE  2 * (balance'[deliveries[c].worker] - balance[deliveries[c].worker])
                      >= contracts[c].pool + 2 * BondOf(c, deliveries[c].worker)
  BY DEF AcceptanceStep
<1>0. TypeOK /\ Posted(c) /\ contracts[c].status # "Accepted" /\ contracts[c].pool \in Nat
  BY DEF IndInv, Live, StatusIs, Terminal, TypeOK, Posted, ContractState, Amount
<1>1. PICK w \in Address, winner \in Address, cut \in Nat, status \in ContractStatus :
        Settlement(c, w, winner, cut, status)
  <2>1. ~ Post
    <3>1. ASSUME NEW poster, NEW arbiter, NEW criteria, NEW pool, NEW expiry, NEW window,
                 NEW bps, PostContract(poster, arbiter, criteria, pool, expiry, window, bps)
          PROVE  FALSE
      <4>1. c # <<poster, criteria, next_poster_nonce[poster]>>
        BY <1>0, <3>1 DEF PostContract
      <4>2. contracts'[c] = contracts[c]
        BY <1>0, <3>1, <4>1 DEF PostContract, TypeOK
      <4>3. QED
        BY <1>0, <4>2
    <3>2. QED
      BY <3>1 DEF Post
  <2>2. ASSUME NEW d \in ContractId, NEW st \in ContractStatus, Posted(d),
               contracts' = WithStatus(d, st)
        PROVE  d = c /\ st = "Accepted"
    BY <1>0, <2>2, StatusUpdate
  <2>3. ~ \E d \in ContractId, worker \in Workers, bond \in Bonds :
            CommitToContract(d, worker, bond)
    BY <2>2 DEF CommitToContract, StatusIs, ContractStatus
  <2>4. ~ \E d \in ContractId, worker \in Workers, a \in AttestationId :
            DeliverContract(d, worker, a)
    BY <2>2 DEF DeliverContract, StatusIs, ContractStatus
  <2>5. ~ \E d \in ContractId, sender \in Address :
            RejectDelivery(d, sender) \/ CancelContract(d, sender)
    BY <2>2 DEF RejectDelivery, CancelContract, ContractStatus
  <2>6. ~ (\E a \in AttestationId : AttestationStored(a)) /\ ~AdvanceBlock /\ ~UNCHANGED vars
    BY <1>0 DEF AttestationStored, AdvanceBlock, vars, ledger
  <2>7. PICK d \in ContractId : \E w, winner \in Address, cut \in Nat, status \in ContractStatus :
          Settlement(d, w, winner, cut, status)
    BY <2>1, <2>3, <2>4, <2>5, <2>6, SettlingActions DEF Next
  <2>8. d = c
    BY <2>2, <2>7 DEF Settlement, StatusIs
  <2>9. QED
    BY <2>7, <2>8
<1>2. winner = w /\ w = deliveries[c].worker /\ 2 * cut <= contracts[c].pool
  BY <1>0, <1>1, StatusUpdate DEF Settlement
<1>3. BondOf(c, w) \in Nat /\ balance[w] \in Nat
  BY <1>0, BondType DEF TypeOK, Account, Amount
<1>4. balance'[w] = balance[w] + CreditTo(w, c, w, winner, cut)
  BY <1>0, <1>1, SettlementBalances DEF Settlement
<1>5. balance'[w] - balance[w] >= contracts[c].pool - cut + BondOf(c, w)
  BY <1>0, <1>2, <1>3, <1>4 DEF CreditTo
<1>6. 2 * (balance'[w] - balance[w]) >= contracts[c].pool + 2 * BondOf(c, w)
  <2>1. balance'[w] - balance[w] \in Int
    BY <1>0, <1>2, <1>3, <1>4 DEF CreditTo
  <2>2. QED
    BY <1>0, <1>2, <1>3, <1>5, <2>1
<1>7. QED
  BY <1>2, <1>6

\* The fee cap checked at posting time is enough: an accepted worker gets the
\* bond back and never less than half of the pool.
THEOREM AcceptedWorkersArePaid == Spec => AcceptedWorkerIsPaid
BY IndInvHolds, NextAcceptance, PTL DEF Spec, AcceptedWorkerIsPaid

-----------------------------------------------------------------------------
(* AVOW is neither made nor lost                                           *)

Supply == SumFunction(balance)
SupplyKept == Supply' = Supply

LEMMA AccountsAreFinite == IsFiniteSet(Account)
BY FinitenessAssumption, FS_AddElement DEF Account

LEMMA TransferKeepsSum ==
  ASSUME NEW bal \in [Account -> Int], NEW from \in Account, NEW to \in Account,
         NEW amount \in Int
  PROVE  /\ Transfer(bal, from, to, amount) \in [Account -> Int]
         /\ SumFunction(Transfer(bal, from, to, amount)) = SumFunction(bal)
<1>1. Transfer(bal, from, to, amount) = Moved(bal, from, to, amount)
  BY DEF Transfer, Moved
<1>2. QED
  BY <1>1, AccountsAreFinite, SumMove

LEMMA SettlementKeepsSupply ==
  ASSUME TypeOK, NEW c \in ContractId, Posted(c), NEW w \in Address, NEW winner \in Address,
         NEW cut \in Nat, Settle(c, w, winner, cut)
  PROVE  SupplyKept
<1> DEFINE paid == SaturatingSub(contracts[c].pool, cut) + BondOf(c, w)
           arbiter == contracts[c].arbiter
           afterCut == Transfer(balance, ContractModule, arbiter, cut)
<1>1. /\ contracts[c].pool \in Nat /\ arbiter \in Account /\ winner \in Account
      /\ ContractModule \in Account /\ balance \in [Account -> Int] /\ BondOf(c, w) \in Nat
  BY BondType DEF TypeOK, Posted, ContractState, Account, Amount
<1>2. paid \in Int
  BY <1>1 DEF SaturatingSub
<1>3. afterCut \in [Account -> Int] /\ SumFunction(afterCut) = SumFunction(balance)
  <2>1. cut \in Int
    OBVIOUS
  <2> HIDE DEF arbiter
  <2>2. QED
    BY <1>1, <2>1, TransferKeepsSum
<1>4. balance' = Transfer(afterCut, ContractModule, winner, paid)
  BY DEF Settle, Payout
<1> HIDE DEF paid, afterCut
<1>5. SumFunction(balance') = SumFunction(afterCut)
  BY <1>1, <1>2, <1>3, <1>4, TransferKeepsSum
<1>6. QED
  BY <1>3, <1>5 DEF SupplyKept, Supply

LEMMA NextSupply == IndInv /\ [Next]_vars => SupplyKept
<1> SUFFICES ASSUME IndInv, [Next]_vars PROVE SupplyKept
  OBVIOUS
<1>0. /\ TypeOK /\ balance \in [Account -> Int] /\ ContractModule \in Account
      /\ Address \subseteq Account
  BY DEF IndInv, TypeOK, Account, Amount
<1>1. ASSUME NEW from \in Account, NEW to \in Account, NEW amount \in Nat,
             balance' = Transfer(balance, from, to, amount)
      PROVE  SupplyKept
  BY <1>0, <1>1, TransferKeepsSum DEF SupplyKept, Supply
<1>2. ASSUME NEW poster \in Posters, NEW arbiter \in Arbiters, NEW criteria \in Criteria,
             NEW pool \in Pools, NEW expiry \in Expiries, NEW window \in Windows,
             NEW bps \in FeeBps,
             PostContract(poster, arbiter, criteria, pool, expiry, window, bps)
      PROVE  SupplyKept
  <2>1. poster \in Account /\ pool \in Nat
    BY <1>0, RolesAssumption, ArgumentsAssumption
  <2>2. balance' = Transfer(balance, poster, ContractModule, pool)
    BY <1>2 DEF PostContract
  <2>3. QED
    BY <1>0, <1>1, <2>1, <2>2
<1>3. ASSUME NEW c \in ContractId, NEW worker \in Workers, NEW bond \in Bonds,
             CommitToContract(c, worker, bond)
      PROVE  SupplyKept
  <2>1. worker \in Account /\ bond \in Nat
    BY <1>0, RolesAssumption, ArgumentsAssumption
  <2>2. QED
    BY <1>0, <1>1, <1>3, <2>1 DEF CommitToContract
<1>4. ASSUME NEW c \in ContractId, NEW sender \in Address, CancelContract(c, sender)
      PROVE  SupplyKept
  <2>1. contracts[c].poster \in Account /\ escrow[c] \in Nat
    BY <1>0, <1>4 DEF CancelContract, TypeOK, Posted, ContractState, Amount
  <2>2. QED
    BY <1>0, <1>1, <1>4, <2>1 DEF CancelContract
<1>5. ASSUME NEW c \in ContractId, NEW w \in Address, NEW winner \in Address,
             NEW cut \in Nat, NEW status \in ContractStatus,
             Settlement(c, w, winner, cut, status)
      PROVE  SupplyKept
  BY <1>0, <1>5, SettlementKeepsSupply DEF Settlement, StatusIs
<1>6. ASSUME NEW c \in ContractId,
             \/ \E worker \in Workers, a \in AttestationId : DeliverContract(c, worker, a)
             \/ \E sender \in Address : RejectDelivery(c, sender)
      PROVE  UNCHANGED balance
  BY <1>6 DEF DeliverContract, RejectDelivery
<1>7. (\E a \in AttestationId : AttestationStored(a)) \/ AdvanceBlock \/ UNCHANGED vars
        => UNCHANGED balance
  BY DEF AttestationStored, AdvanceBlock, vars, ledger
<1>8. UNCHANGED balance => SupplyKept
  BY DEF SupplyKept, Supply
<1>9. ASSUME NEW c \in ContractId,
             \/ \E sender \in Address : AcceptDelivery(c, sender)
             \/ \E sender \in Address, decision \in {"AcceptDelivery", "RejectDelivery"} :
                  ResolveContractDispute(c, sender, decision)
             \/ FinalizeDelivery(c)
      PROVE  SupplyKept
  BY <1>5, <1>9, SettlingActions
<1>10. CASE Post
  BY <1>2, <1>10 DEF Post
<1>11. QED
  BY <1>3, <1>4, <1>6, <1>7, <1>8, <1>9, <1>10 DEF Next

\* No handler makes or loses AVOW, whoever the parties are: a poster who is his
\* own arbiter or worker included, over all balances together.
THEOREM ContractsKeepTheSupply == Spec => [][SupplyKept]_vars
BY IndInvHolds, NextSupply, PTL DEF Spec

-----------------------------------------------------------------------------
(* The module implements the abstract escrow                               *)

LEMMA InitDeals == Init => Deals!Init
<1> SUFFICES ASSUME Init PROVE Deals!Init
  OBVIOUS
<1>1. \A c \in ContractId : ~Posted(c)
  BY DEF Init, Posted
<1>2. Phase = [c \in ContractId |-> "unposted"]
  BY <1>1 DEF Phase
<1>3. QED
  BY <1>2 DEF Init, Deals!Init

\* A step that changes the record of one contract changes one phase at most.
LEMMA PhaseOfOthers ==
  ASSUME NEW c \in ContractId, \A d \in ContractId \ {c} : contracts'[d] = contracts[d]
  PROVE  Phase' = [Phase EXCEPT ![c] = Phase'[c]]
<1>1. \A d \in ContractId \ {c} : Phase'[d] = Phase[d]
  BY DEF Phase, Posted, Live, StatusIs
<1>2. QED
  BY <1>1 DEF Phase

LEMMA LivePhase ==
  ASSUME NEW c \in ContractId
  PROVE  /\ Live(c) => Phase[c] = "live" /\ Posted(c)
         /\ Posted(c) /\ ~Live(c) => Phase[c] = "closed"
         /\ ~Posted(c) => Phase[c] = "unposted"
BY DEF Phase, Live, StatusIs

LEMMA NextDeals == IndInv /\ [Next]_vars => [Deals!Next]_<<Phase, escrow>>
<1> SUFFICES ASSUME IndInv, [Next]_vars PROVE [Deals!Next]_<<Phase, escrow>>
  OBVIOUS
<1>0. TypeOK /\ TypeOK' /\ IndInv'
  BY NextIndInv DEF IndInv
<1>1. ASSUME NEW c \in ContractId, Live(c), NEW st \in Terminal,
             contracts' = WithStatus(c, st), escrow' = [escrow EXCEPT ![c] = 0]
      PROVE  Deals!Close(c)
  <2>1. /\ \A d \in ContractId \ {c} : contracts'[d] = contracts[d]
        /\ contracts'[c].status = st /\ contracts'[c] # None
    BY <1>0, <1>1, StatusUpdate DEF Live, StatusIs, Terminal, ContractStatus, Posted
  <2>2. Phase' = [Phase EXCEPT ![c] = Phase'[c]]
    BY <2>1, PhaseOfOthers
  <2>3. Phase'[c] = "closed"
    BY <1>1, <2>1 DEF Phase, Live, StatusIs, Posted
  <2>4. Phase[c] = "live"
    BY <1>1, LivePhase
  <2>5. escrow'[c] = 0 /\ \A d \in ContractId \ {c} : escrow'[d] = escrow[d]
    BY <1>0, <1>1 DEF TypeOK
  <2>6. QED
    BY <2>2, <2>3, <2>4, <2>5 DEF Deals!Close, Deals!OnlyHeldOf
<1>2. ASSUME NEW c \in ContractId, Live(c), NEW st \in ContractStatus \ Terminal,
             contracts' = WithStatus(c, st), UNCHANGED escrow
      PROVE  UNCHANGED <<Phase, escrow>>
  <2>1. /\ \A d \in ContractId \ {c} : contracts'[d] = contracts[d]
        /\ contracts'[c].status = st /\ contracts'[c] # None
    BY <1>0, <1>2, StatusUpdate DEF Live, StatusIs, Posted
  <2>2. Phase'[c] = "live" /\ Phase[c] = "live"
    BY <1>2, <2>1, LivePhase DEF Phase, Live, StatusIs, Posted
  <2>3. \A d \in ContractId \ {c} : Phase'[d] = Phase[d]
    BY <2>1 DEF Phase, Posted, Live, StatusIs
  <2>4. QED
    BY <1>2, <2>2, <2>3 DEF Phase
<1>3. ASSUME NEW poster \in Posters, NEW arbiter \in Arbiters, NEW criteria \in Criteria,
             NEW pool \in Pools, NEW expiry \in Expiries, NEW window \in Windows,
             NEW bps \in FeeBps,
             PostContract(poster, arbiter, criteria, pool, expiry, window, bps)
      PROVE  Deals!Next
  <2>0. /\ pool \in Nat /\ <<poster, criteria, next_poster_nonce[poster]>> \in ContractId
    BY <1>0, <1>3, RolesAssumption, ArgumentsAssumption, BoundsAssumption
    DEF PostContract, TypeOK, ContractId
  <2>1. PICK c \in ContractId : c = <<poster, criteria, next_poster_nonce[poster]>>
    BY <2>0
  <2>2. /\ ~Posted(c) /\ escrow' = [escrow EXCEPT ![c] = pool] /\ pool # 0
        /\ contracts' = [contracts EXCEPT ![c] =
             [poster |-> poster, arbiter |-> arbiter, pool |-> pool, expiry |-> expiry,
              window |-> window, arbiter_fee_bps |-> bps, status |-> "Open"]]
    BY <1>3, <2>1 DEF PostContract
  <2>3. /\ escrow'[c] > 0 /\ \A d \in ContractId \ {c} : escrow'[d] = escrow[d]
        /\ \A d \in ContractId \ {c} : contracts'[d] = contracts[d]
        /\ contracts'[c].status = "Open"
    BY <1>0, <2>0, <2>2 DEF TypeOK
  <2>4. contracts'[c] # None
    BY <1>0, <2>3 DEF IndInv, EscrowFollowsStatus, Live, StatusIs, Posted
  <2>5. Phase'[c] = "live" /\ Phase[c] = "unposted"
    BY <2>2, <2>3, <2>4, LivePhase
    DEF Phase, Live, StatusIs, Posted, ContractStatus, Terminal
  <2>6. Deals!Fund(c)
    BY <2>3, <2>5, PhaseOfOthers DEF Deals!Fund, Deals!OnlyHeldOf
  <2>7. QED
    BY <2>6 DEF Deals!Next
<1>4. ASSUME NEW c \in ContractId, NEW worker \in Workers, NEW bond \in Bonds,
             CommitToContract(c, worker, bond)
      PROVE  UNCHANGED <<Phase, escrow>>
  BY <1>2, <1>4 DEF CommitToContract, Live, StatusIs, ContractStatus, Terminal
<1>5. ASSUME NEW c \in ContractId, NEW worker \in Workers, NEW a \in AttestationId,
             DeliverContract(c, worker, a)
      PROVE  UNCHANGED <<Phase, escrow>>
  BY <1>2, <1>5 DEF DeliverContract, Live, StatusIs, ContractStatus, Terminal
<1>6. ASSUME NEW c \in ContractId, NEW sender \in Address, RejectDelivery(c, sender)
      PROVE  UNCHANGED <<Phase, escrow>>
  BY <1>2, <1>6 DEF RejectDelivery, Live, StatusIs, ContractStatus, Terminal
<1>7. ASSUME NEW c \in ContractId, NEW w \in Address, NEW winner \in Address,
             NEW cut \in Nat, NEW status \in ContractStatus,
             Settlement(c, w, winner, cut, status)
      PROVE  Deals!Close(c)
  BY <1>1, <1>7 DEF Settlement, Settle, Live, StatusIs, ContractStatus, Terminal
<1>8. ASSUME NEW c \in ContractId, NEW sender \in Address, CancelContract(c, sender)
      PROVE  Deals!Close(c)
  BY <1>1, <1>8 DEF CancelContract, Cancellable, Live, StatusIs, Terminal
<1>9. ASSUME UNCHANGED <<contracts, escrow>>
      PROVE  UNCHANGED <<Phase, escrow>>
  BY <1>9 DEF Phase, Posted, Live, StatusIs
<1>10. (\E a \in AttestationId : AttestationStored(a)) \/ AdvanceBlock \/ UNCHANGED vars
         => UNCHANGED <<contracts, escrow>>
  BY DEF AttestationStored, AdvanceBlock, vars, ledger
<1>11. QED
  BY <1>3, <1>4, <1>5, <1>6, <1>7, <1>8, <1>9, <1>10, SettlingActions DEF Next, Post, Deals!Next

\* The pool of every contract is an escrowed deal: funded once, paid out once,
\* empty for ever after.
THEOREM RefinesEscrow == Spec => ImplementsEscrow
BY IndInvHolds, InitDeals, NextDeals, PTL DEF Spec, ImplementsEscrow, Deals!Spec

-----------------------------------------------------------------------------
(* A delivery does not wait for ever                                       *)

\* The window of a delivery closes at height h, and its guards say when it can be
\* finalised: what ENABLED FinalizeDelivery(c) comes to.
ClosesAt(c, h) == StatusIs(c, {"Delivered"}) /\ WindowClose(c) = h
CanFinalize(c) ==
  /\ StatusIs(c, {"Delivered"}) /\ deliveries[c] # None
  /\ rollup_height > WindowClose(c) /\ CanSettle(c, deliveries[c].worker, 0)

\* The end of the window does not move: it is neither delivered again nor reposted.
LEMMA WindowStands ==
  ASSUME IndInv, [Next]_vars, NEW c \in ContractId, NEW h, ClosesAt(c, h)
  PROVE  ClosesAt(c, h)' \/ ~StatusIs(c, {"Delivered"})'
<1> DEFINE Goal == ClosesAt(c, h)' \/ ~StatusIs(c, {"Delivered"})'
<1>0. TypeOK /\ Posted(c) /\ StatusIs(c, {"Delivered"}) /\ contracts[c].status = "Delivered"
  BY DEF IndInv, ClosesAt, StatusIs
<1>1. ASSUME contracts'[c] = contracts[c], deliveries'[c] = deliveries[c]
      PROVE  Goal
  BY <1>1 DEF ClosesAt, StatusIs, Posted, WindowClose
<1>2. CASE Post
  <2>1. PICK poster \in Posters, arbiter \in Arbiters, criteria \in Criteria, pool \in Pools,
             expiry \in Expiries, window \in Windows, bps \in FeeBps :
               PostContract(poster, arbiter, criteria, pool, expiry, window, bps)
    BY <1>2 DEF Post
  <2>2. c # <<poster, criteria, next_poster_nonce[poster]>>
    BY <1>0, <2>1 DEF PostContract
  <2>3. QED
    BY <1>0, <1>1, <2>1, <2>2 DEF PostContract, TypeOK
<1>3. ASSUME NEW d \in ContractId, NEW worker \in Workers, NEW bond \in Bonds,
             CommitToContract(d, worker, bond)
      PROVE  Goal
  <2>1. d # c
    BY <1>0, <1>3 DEF CommitToContract, StatusIs
  <2>2. QED
    BY <1>0, <1>1, <1>3, <2>1 DEF CommitToContract, WithStatus, TypeOK
<1>4. ASSUME NEW d \in ContractId, NEW worker \in Workers, NEW a \in AttestationId,
             DeliverContract(d, worker, a)
      PROVE  Goal
  <2>1. d # c
    BY <1>0, <1>4 DEF DeliverContract, StatusIs
  <2>2. QED
    BY <1>0, <1>1, <1>4, <2>1 DEF DeliverContract, WithStatus, TypeOK
<1>5. ASSUME NEW d \in ContractId, NEW st \in ContractStatus \ {"Delivered"},
             contracts' = WithStatus(d, st), UNCHANGED deliveries, Posted(d)
      PROVE  Goal
  <2>1. CASE d = c
    BY <1>0, <1>5, <2>1, StatusUpdate DEF StatusIs
  <2>2. CASE d # c
    BY <1>0, <1>1, <1>5, <2>2 DEF WithStatus, TypeOK
  <2>3. QED
    BY <2>1, <2>2
<1>6. ASSUME NEW d \in ContractId, NEW sender \in Address,
             RejectDelivery(d, sender) \/ CancelContract(d, sender)
      PROVE  Goal
  BY <1>5, <1>6 DEF RejectDelivery, CancelContract, ContractStatus
<1>7. ASSUME NEW d \in ContractId, NEW w \in Address, NEW winner \in Address,
             NEW cut \in Nat, NEW st \in ContractStatus, Settlement(d, w, winner, cut, st)
      PROVE  Goal
  BY <1>5, <1>7 DEF Settlement, StatusIs
<1>8. ASSUME NEW a \in AttestationId, AttestationStored(a)
      PROVE  Goal
  BY <1>1, <1>8 DEF AttestationStored, ledger
<1>9. CASE AdvanceBlock \/ UNCHANGED vars
  BY <1>1, <1>9 DEF AdvanceBlock, vars, ledger
<1>10. QED
  BY <1>2, <1>3, <1>4, <1>6, <1>7, <1>8, <1>9, SettlingActions DEF Next

\* Blocks are not taken back.
LEMMA HeightStands ==
  ASSUME TypeOK, [Next]_vars, NEW h \in Nat, rollup_height > h
  PROVE  rollup_height' > h
<1>1. rollup_height \in Nat
  BY BoundsAssumption DEF TypeOK
<1>2. CASE AdvanceBlock
  BY <1>1, <1>2 DEF AdvanceBlock
<1>3. CASE UNCHANGED rollup_height
  BY <1>3
<1>4. CASE Post
  BY <1>3, <1>4 DEF Post, PostContract
<1>5. ASSUME NEW c \in ContractId, NEW worker, NEW bond, NEW a, NEW sender, NEW decision,
             \/ CommitToContract(c, worker, bond) \/ DeliverContract(c, worker, a)
             \/ AcceptDelivery(c, sender) \/ RejectDelivery(c, sender)
             \/ ResolveContractDispute(c, sender, decision) \/ CancelContract(c, sender)
             \/ FinalizeDelivery(c)
      PROVE  rollup_height' > h
  BY <1>3, <1>5 DEF CommitToContract, DeliverContract, AcceptDelivery, RejectDelivery,
                    ResolveContractDispute, CancelContract, FinalizeDelivery
<1>6. ASSUME NEW a \in AttestationId, AttestationStored(a)
      PROVE  rollup_height' > h
  BY <1>3, <1>6 DEF AttestationStored
<1>7. CASE UNCHANGED vars
  BY <1>3, <1>7 DEF vars
<1>8. QED
  BY <1>2, <1>4, <1>5, <1>6, <1>7 DEF Next

\* FinalizeDelivery is the way out for a worker whose poster never answers, and it is
\* one: once the chain is past the end of the window, nothing can move that end or take
\* the money the settlement needs, so that whoever keeps sending it while its guards
\* hold gets the contract decided.  The fairness is that of FairSpec, with the guards in
\* the place of ENABLED.
THEOREM DeliveriesGetDecided ==
  ASSUME NEW c \in ContractId, NEW h \in Nat
  PROVE  /\ Spec
         /\ <>(rollup_height > h)
         /\ []<>~CanFinalize(c) \/ []<><<FinalizeDelivery(c)>>_vars
         => (ClosesAt(c, h) ~> ~StatusIs(c, {"Delivered"}))
<1>1. IndInv /\ [Next]_vars /\ ClosesAt(c, h)
        => ClosesAt(c, h)' \/ ~StatusIs(c, {"Delivered"})'
  BY WindowStands
<1>2. IndInv /\ [Next]_vars /\ rollup_height > h => (rollup_height > h)'
  BY HeightStands DEF IndInv
<1>3. EndingGuards /\ ClosesAt(c, h) /\ rollup_height > h => CanFinalize(c)
  BY DEF EndingGuards, ClosesAt, CanFinalize
<1>4. IndInv /\ <<FinalizeDelivery(c)>>_vars => ~StatusIs(c, {"Delivered"})'
  <2> SUFFICES ASSUME IndInv, FinalizeDelivery(c) PROVE ~StatusIs(c, {"Delivered"})'
    OBVIOUS
  <2>1. TypeOK /\ Posted(c) /\ contracts' = WithStatus(c, "Accepted") /\ "Accepted" \in ContractStatus
    BY DEF IndInv, FinalizeDelivery, StatusIs, ContractStatus
  <2>2. QED
    BY <2>1, StatusUpdate DEF StatusIs
<1>5. QED
  BY <1>1, <1>2, <1>3, <1>4, IndInvHolds, EndingsAreFunded, PTL DEF Spec

=============================================================================

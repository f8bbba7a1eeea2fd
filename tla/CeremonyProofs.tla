--------------------------- MODULE CeremonyProofs ---------------------------
(***************************************************************************)
(* Proofs about the ceremony: that re-running it lands nothing twice and   *)
(* that its report is true.  Both rest on the order of the nonces: the     *)
(* local nonce never runs ahead of the chain's, so what a run sends after  *)
(* it has found an id missing is executed before, or instead of, whatever  *)
(* else could register the id for this signer.                             *)
(***************************************************************************)
EXTENDS Ceremony, TLAPS

Landed == {"successful", "duplicate"}

NonceIsBehind == nonce <= chain_nonce

LedgerIsPast == \A r \in ledger : r.tx.nonce < chain_nonce

PendingIsDue == \A tx \in pending : tx.nonce <= chain_nonce

LandedIsRegistered ==
  \A r \in ledger : r.result \in Landed => r.tx.call \in registered

\* Once a registration has landed, no other transaction of it can be executed, and
\* a run about to send one is about to be refused.
NothingFollows ==
  \A r \in ledger : r.result \in Landed =>
    /\ \A tx \in pending : tx.call = r.tx.call => tx.nonce <= r.tx.nonce
    /\ pc = "submitting" /\ Steps[step] = r.tx.call => nonce <= r.tx.nonce

ReportFollowsSteps ==
  /\ Running => Len(outcomes) = step - 1
  /\ pc = "done" => Len(outcomes) = Len(Steps)
  /\ DOMAIN outcomes \subseteq DOMAIN Steps

NothingUnpaid == \A r \in ledger : r.result # "unpaid"

\* What is waited for and in the ledger has been executed after the steps before it.
WaitedIsRegistered ==
  pc = "waiting" /\ NothingUnpaid /\ InLedger(Current) => Steps[step] \in registered

IndInv ==
  /\ TypeOK
  /\ NonceIsBehind /\ LedgerIsPast /\ PendingIsDue
  /\ LandedIsRegistered /\ NothingFollows /\ LandsOnce
  /\ ReportFollowsSteps /\ WaitedIsRegistered /\ ReportsAreTrue

-----------------------------------------------------------------------------
(* The list of steps                                                       *)

\* The list holds ids only, two for each entry of the configuration.
LEMMA StepsAreIds ==
  /\ Steps \in Seq(SetId \cup SchemaId)
  /\ Len(Steps) = 2 * Len(Config) /\ Len(Steps) \in Nat /\ Len(Steps) >= 1
  /\ DOMAIN Steps = 1 .. Len(Steps)
  /\ \A k \in 1 .. Len(Steps) : Steps[k] \in SetId \cup SchemaId
<1> DEFINE n == 2 * Len(Config)
<1>1. Len(Config) \in Nat /\ Len(Config) >= 1
  BY ConfigAssumption
<1>2. \A k \in 1 .. n : (k + 1) \div 2 \in 1 .. Len(Config)
  BY <1>1
<1>3. \A k \in 1 .. n : Config[(k + 1) \div 2] \in SchemaId
  BY <1>2, ConfigAssumption
<1>4. \A k \in 1 .. n : Steps[k] \in SetId \cup SchemaId
  BY <1>3, ConfigAssumption DEF Steps
<1>5. DOMAIN Steps = 1 .. n /\ Steps = [k \in 1 .. n |-> Steps[k]]
  BY DEF Steps
<1>6. n \in Nat /\ n >= 1
  BY <1>1
<1> HIDE DEF n
<1>7. Steps \in [1 .. n -> SetId \cup SchemaId]
  BY <1>4, <1>5
<1>8. Steps \in Seq(SetId \cup SchemaId) /\ Len(Steps) = n
  BY <1>6, <1>7
<1> QED BY <1>4, <1>5, <1>6, <1>8 DEF n

\* A schema comes right after its attestor set.
LEMMA SetComesFirst ==
  ASSUME NEW k \in 1 .. Len(Steps), Steps[k] \in SchemaId
  PROVE  k - 1 \in 1 .. Len(Steps) /\ Steps[k - 1] = AttestorSetOf[Steps[k]]
<1>1. Len(Config) \in Nat /\ k \in 1 .. 2 * Len(Config)
  BY StepsAreIds, ConfigAssumption
<1>2. (k + 1) \div 2 \in 1 .. Len(Config)
  BY <1>1
<1>3. Config[(k + 1) \div 2] \in SchemaId
  BY <1>2, ConfigAssumption
<1>4. k % 2 # 1
  <2>1. SUFFICES ASSUME k % 2 = 1 PROVE FALSE
    OBVIOUS
  <2>2. Steps[k] = AttestorSetOf[Config[(k + 1) \div 2]]
    BY <1>1, <2>1 DEF Steps
  <2>3. Steps[k] \in SetId
    BY <1>3, <2>2, ConfigAssumption
  <2> QED BY <2>3, ConfigAssumption
<1>5. k - 1 \in 1 .. 2 * Len(Config) /\ (k - 1) % 2 = 1 /\ ((k - 1) + 1) \div 2 = (k + 1) \div 2
  BY <1>1, <1>4
<1>6. Steps[k] = Config[(k + 1) \div 2]
  BY <1>1, <1>4 DEF Steps
<1>7. Steps[k - 1] = AttestorSetOf[Config[(k + 1) \div 2]]
  BY <1>5 DEF Steps
<1> QED BY <1>1, <1>5, <1>6, <1>7, StepsAreIds

-----------------------------------------------------------------------------
(* Every step keeps the invariant                                          *)

LEMMA InitHolds == Init => IndInv
<1> SUFFICES ASSUME Init PROVE IndInv
  OBVIOUS
<1>1. Len(outcomes) = 0 /\ DOMAIN outcomes = {} /\ outcomes \in Seq(TxOutcome)
  BY DEF Init
<1>2. TypeOK
  BY <1>1, StepsAreIds DEF Init, TypeOK
<1>3. NonceIsBehind /\ LedgerIsPast /\ PendingIsDue /\ LandedIsRegistered /\ NothingFollows
  BY DEF Init, NonceIsBehind, LedgerIsPast, PendingIsDue, LandedIsRegistered, NothingFollows
<1>4. LandsOnce /\ ReportFollowsSteps /\ WaitedIsRegistered /\ ReportsAreTrue
  BY <1>1 DEF Init, LandsOnce, ReportFollowsSteps, Running, WaitedIsRegistered, ReportsAreTrue
<1> QED BY <1>2, <1>3, <1>4 DEF IndInv

\* A run that begins, or ends without a report, knows nothing that could be wrong.
LEMMA FreshRun ==
  ASSUME IndInv, UNCHANGED chain, pc' \in {"stopped", "checking"},
         step' = 1, outcomes' = <<>>, nonce' \in {0, chain_nonce}
  PROVE  IndInv'
<1> USE DEF chain
<1>1. TypeOK /\ Len(outcomes') = 0 /\ DOMAIN outcomes' = {} /\ outcomes' \in Seq(TxOutcome)
  BY DEF IndInv
<1>2. TypeOK'
  BY <1>1, StepsAreIds DEF TypeOK
<1>3. NonceIsBehind'
  BY <1>1 DEF TypeOK, NonceIsBehind
<1>4. LedgerIsPast' /\ PendingIsDue' /\ LandedIsRegistered' /\ LandsOnce'
  BY DEF IndInv, LedgerIsPast, PendingIsDue, LandedIsRegistered, LandsOnce
<1>5. NothingFollows'
  BY DEF IndInv, NothingFollows
<1>6. ReportFollowsSteps' /\ WaitedIsRegistered' /\ ReportsAreTrue'
  BY <1>1 DEF ReportFollowsSteps, Running, WaitedIsRegistered, ReportsAreTrue
<1> QED BY <1>2, <1>3, <1>4, <1>5, <1>6 DEF IndInv

\* A report adds the step that is done with, which has to be registered, and the run
\* goes on after it.
LEMMA ReportKeeps ==
  ASSUME IndInv, Running, UNCHANGED chain, NEW outcome \in TxOutcome, Report(outcome),
         nonce' \in Nat, nonce' <= chain_nonce,
         NothingUnpaid => Steps[step] \in registered
  PROVE  IndInv'
<1> USE DEF chain
<1>1. TypeOK /\ ReportFollowsSteps
  BY DEF IndInv
<1>2. step \in 1 .. Len(Steps) /\ Len(outcomes) = step - 1 /\ outcomes \in Seq(TxOutcome)
  BY <1>1 DEF TypeOK, ReportFollowsSteps
<1>3. outcomes' = Append(outcomes, outcome)
  BY DEF Report
<1>4. outcomes' \in Seq(TxOutcome) /\ Len(outcomes') = step /\ DOMAIN outcomes' = 1 .. step
  BY <1>2, <1>3, StepsAreIds
<1>5. \/ pc' = "done" /\ step' = step
      \/ pc' = "checking" /\ step' = step + 1 /\ step + 1 \in 1 .. Len(Steps)
  BY <1>2, StepsAreIds DEF Report
<1>6. TypeOK'
  BY <1>1, <1>4, <1>5 DEF TypeOK
<1>7. NonceIsBehind'
  BY DEF NonceIsBehind
<1>8. LedgerIsPast' /\ PendingIsDue' /\ LandedIsRegistered' /\ LandsOnce'
  BY DEF IndInv, LedgerIsPast, PendingIsDue, LandedIsRegistered, LandsOnce
<1>9. NothingFollows'
  BY <1>5 DEF IndInv, NothingFollows
<1>10. ReportFollowsSteps'
  <2>1. DOMAIN outcomes' \subseteq DOMAIN Steps
    BY <1>2, <1>4, StepsAreIds
  <2>2. Running' => Len(outcomes') = step' - 1
    BY <1>2, <1>4, <1>5, StepsAreIds DEF Running
  <2>3. pc' = "done" => Len(outcomes') = Len(Steps)
    BY <1>2, <1>4, StepsAreIds DEF Report
  <2> QED BY <2>1, <2>2, <2>3 DEF ReportFollowsSteps, Steps
<1>11. WaitedIsRegistered'
  BY <1>5 DEF WaitedIsRegistered
<1>12. ReportsAreTrue'
  <2>1. SUFFICES ASSUME NothingUnpaid, NEW k \in 1 .. step
                 PROVE  Steps[k] \in registered
    BY <1>4 DEF ReportsAreTrue, NothingUnpaid, Steps
  <2>2. CASE k = step
    BY <2>1, <2>2
  <2>3. CASE k # step
    <3>1. k \in DOMAIN outcomes
      BY <1>2, <2>3, StepsAreIds
    <3> QED BY <2>1, <3>1 DEF IndInv, ReportsAreTrue, NothingUnpaid
  <2> QED BY <2>2, <2>3
<1> QED BY <1>6, <1>7, <1>8, <1>9, <1>10, <1>11, <1>12 DEF IndInv

LEMMA CheckExistsKeeps == IndInv /\ CheckExists => IndInv'
<1> SUFFICES ASSUME IndInv, CheckExists PROVE IndInv'
  OBVIOUS
<1>1. UNCHANGED chain /\ pc = "checking" /\ Running
  BY DEF CheckExists, Running
<1>2. TypeOK /\ NonceIsBehind /\ nonce \in Nat
  BY DEF IndInv, TypeOK
<1>3. CASE Steps[step] \in registered
  <2>1. Report("AlreadyRegistered") /\ nonce' = nonce
    BY <1>3 DEF CheckExists
  <2> QED BY <1>1, <1>2, <1>3, <2>1, ReportKeeps DEF TxOutcome, NonceIsBehind
<1>4. CASE Steps[step] \notin registered
  <2>1. pc' = "submitting" /\ UNCHANGED <<step, nonce, outcomes>>
    BY <1>4 DEF CheckExists
  <2>2. TypeOK'
    BY <1>1, <1>2, <2>1 DEF TypeOK, chain
  <2>3. NonceIsBehind' /\ LedgerIsPast' /\ PendingIsDue' /\ LandedIsRegistered' /\ LandsOnce'
    BY <1>1, <2>1 DEF IndInv, chain, NonceIsBehind, LedgerIsPast, PendingIsDue,
                      LandedIsRegistered, LandsOnce
  <2>4. NothingFollows'
    \* What has landed is registered, and this id is not.
    <3>1. \A r \in ledger : r.result \in Landed => r.tx.call # Steps[step]
      BY <1>4 DEF IndInv, LandedIsRegistered
    <3> QED BY <1>1, <2>1, <3>1 DEF IndInv, NothingFollows, chain, Steps
  <2>5. ReportFollowsSteps'
    BY <1>1, <2>1 DEF IndInv, ReportFollowsSteps, Running, Steps
  <2>6. WaitedIsRegistered' /\ ReportsAreTrue'
    BY <1>1, <2>1 DEF IndInv, WaitedIsRegistered, ReportsAreTrue, chain, Steps
  <2> QED BY <2>2, <2>3, <2>4, <2>5, <2>6 DEF IndInv
<1> QED BY <1>3, <1>4

LEMMA SubmitKeeps == IndInv /\ Submit => IndInv'
<1> SUFFICES ASSUME IndInv, Submit PROVE IndInv'
  OBVIOUS
<1> DEFINE sent == [call |-> Steps[step], nonce |-> nonce]
<1>1. /\ pc = "submitting" /\ nonce >= chain_nonce /\ nonce' = nonce /\ pc' = "waiting"
      /\ pending' = pending \cup {sent}
      /\ UNCHANGED <<step, outcomes, registered, chain_nonce, ledger, faults>>
  BY DEF Submit, SubmitNonce
<1>2. TypeOK /\ nonce \in Nat /\ step \in 1 .. Len(Steps) /\ sent \in Tx
  BY StepsAreIds DEF IndInv, TypeOK, Tx
<1>3. TypeOK'
  BY <1>1, <1>2 DEF TypeOK
<1>4. NonceIsBehind' /\ LedgerIsPast' /\ LandedIsRegistered' /\ LandsOnce'
  BY <1>1 DEF IndInv, NonceIsBehind, LedgerIsPast, LandedIsRegistered, LandsOnce
<1>5. PendingIsDue'
  BY <1>1 DEF IndInv, NonceIsBehind, PendingIsDue
<1>6. NothingFollows'
  BY <1>1 DEF IndInv, NothingFollows, Steps
<1>7. ReportFollowsSteps'
  BY <1>1 DEF IndInv, ReportFollowsSteps, Running, Steps
<1>8. WaitedIsRegistered'
  \* A nonce that is not used up is in no transaction of the ledger.
  <2>1. \A r \in ledger : r.tx.nonce # nonce
    BY <1>1, <1>2 DEF IndInv, TypeOK, LedgerIsPast, Tx
  <2> QED BY <1>1, <2>1 DEF WaitedIsRegistered, InLedger, Current, Steps
<1>9. ReportsAreTrue'
  BY <1>1 DEF IndInv, ReportsAreTrue, Steps
<1> QED BY <1>3, <1>4, <1>5, <1>6, <1>7, <1>8, <1>9 DEF IndInv

LEMMA IncludedKeeps == IndInv /\ Included => IndInv'
<1> SUFFICES ASSUME IndInv, Included PROVE IndInv'
  OBVIOUS
<1>1. /\ pc = "waiting" /\ Running /\ InLedger(Current) /\ nonce' = nonce + 1
      /\ Report("Submitted") /\ UNCHANGED chain
  BY DEF Included, Running
<1>2. nonce \in Nat /\ chain_nonce \in Nat
  BY DEF IndInv, TypeOK
<1>3. nonce < chain_nonce
  BY <1>1 DEF IndInv, LedgerIsPast, InLedger, Current
<1>4. nonce' \in Nat /\ nonce' <= chain_nonce
  BY <1>1, <1>2, <1>3
<1>5. NothingUnpaid => Steps[step] \in registered
  BY <1>1 DEF IndInv, WaitedIsRegistered
<1> QED BY <1>1, <1>4, <1>5, ReportKeeps DEF TxOutcome

\* What is executed has the highest nonce so far, so that nothing in the ledger is of
\* the same call and has landed.
LEMMA ExecuteKeeps ==
  ASSUME IndInv, NEW tx \in pending, Execute(tx)
  PROVE  IndInv'
<1> DEFINE n == chain_nonce
           c == tx.call
<1>1. /\ tx \in Tx /\ c \in SetId \cup SchemaId /\ n \in Nat /\ tx.nonce = n
      /\ TypeOK /\ nonce \in Nat /\ nonce <= n
  BY DEF IndInv, TypeOK, Tx, Execute, NonceIsBehind
<1>2. /\ chain_nonce' = n + 1 /\ pending' = pending \ {tx}
      /\ UNCHANGED <<pc, step, nonce, outcomes>>
  BY DEF Execute, run
<1>3. PICK result \in Result :
        /\ ledger' = ledger \cup {[tx |-> tx, result |-> result]}
        /\ registered' = IF result = "successful" THEN registered \cup {c} ELSE registered
        /\ result = Outcome(c) \/ result = "unpaid"
  <2>1. CASE /\ ledger' = ledger \cup {[tx |-> tx, result |-> Outcome(c)]}
             /\ registered' = IF Outcome(c) = "successful" THEN registered \cup {c}
                                                          ELSE registered
    <3>1. Outcome(c) \in Result
      BY DEF Outcome, Result
    <3> QED BY <2>1, <3>1
  <2>2. CASE /\ ledger' = ledger \cup {[tx |-> tx, result |-> "unpaid"]}
             /\ UNCHANGED registered
    BY <2>2 DEF Result
  <2> QED BY <2>1, <2>2 DEF Execute
<1> DEFINE new == [tx |-> tx, result |-> result]
<1>4. registered \subseteq registered' /\ registered' \subseteq SetId \cup SchemaId
  BY <1>1, <1>3 DEF TypeOK
<1>5. /\ new.tx = tx /\ new.result = result /\ new \in [tx: Tx, result: Result]
      /\ ledger' = ledger \cup {new}
  BY <1>1, <1>3
<1>6. \A r \in ledger : r \in [tx: Tx, result: Result] /\ r.tx \in Tx /\ r.tx.nonce \in Nat /\ r.tx.nonce < n
  BY <1>1 DEF IndInv, TypeOK, LedgerIsPast, Tx
<1>7. result \in Landed => c \in registered'
  BY <1>3 DEF Outcome, Landed
<1>8. \A r \in ledger : r.result \in Landed => r.tx.call # c
  BY <1>1, <1>6 DEF IndInv, NothingFollows
<1>9. TypeOK'
  <2>1. pending' \subseteq Tx /\ chain_nonce' \in Nat
    BY <1>1, <1>2 DEF TypeOK
  <2>2. ledger' \subseteq [tx: Tx, result: Result]
    BY <1>1, <1>5 DEF TypeOK
  <2> QED BY <1>1, <1>2, <1>4, <2>1, <2>2 DEF TypeOK, Steps
<1>10. NonceIsBehind' /\ LedgerIsPast' /\ PendingIsDue'
  <2>1. nonce' <= chain_nonce'
    BY <1>1, <1>2
  <2>2. \A r \in ledger' : r.tx.nonce < chain_nonce'
    BY <1>1, <1>2, <1>5, <1>6
  <2>3. \A t \in pending : t.nonce \in Nat /\ t.nonce <= n
    BY <1>1 DEF IndInv, PendingIsDue, TypeOK, Tx
  <2>4. \A t \in pending' : t.nonce <= chain_nonce'
    BY <1>1, <1>2, <2>3
  <2> QED BY <2>1, <2>2, <2>4 DEF NonceIsBehind, LedgerIsPast, PendingIsDue
<1>11. LandedIsRegistered'
  BY <1>4, <1>5, <1>7 DEF IndInv, LandedIsRegistered
<1>12. NothingFollows'
  <2>1. SUFFICES ASSUME NEW r \in ledger', r.result \in Landed
        PROVE  /\ \A t \in pending' : t.call = r.tx.call => t.nonce <= r.tx.nonce
               /\ pc' = "submitting" /\ Steps[step'] = r.tx.call => nonce' <= r.tx.nonce
    BY DEF NothingFollows, Steps
  <2>2. CASE r \in ledger
    BY <1>2, <2>1, <2>2 DEF IndInv, NothingFollows
  <2>3. CASE r = new
    \* Nothing is pending with a later nonce, and the run has none either.
    <3>1. \A t \in pending' : t.nonce <= r.tx.nonce
      BY <1>1, <1>2, <1>5, <2>3 DEF IndInv, PendingIsDue
    <3>2. nonce' <= r.tx.nonce
      BY <1>1, <1>2, <1>5, <2>3
    <3> QED BY <3>1, <3>2
  <2> QED BY <1>5, <2>2, <2>3
<1>13. LandsOnce'
  <2>1. SUFFICES ASSUME NEW r1 \in ledger', NEW r2 \in ledger',
                        r1.tx.call = r2.tx.call, r1.tx.nonce < r2.tx.nonce
                 PROVE  r1.result \in {"orphan", "unpaid"}
    BY DEF LandsOnce
  <2>2. r1.tx.nonce <= n /\ r2.tx.nonce <= n /\ r1.tx.nonce \in Nat /\ r2.tx.nonce \in Nat
    BY <1>1, <1>5, <1>6
  <2>3. r1 \in ledger
    BY <1>1, <1>5, <2>1, <2>2
  <2>4. CASE r2 \in ledger
    BY <2>1, <2>3, <2>4 DEF IndInv, LandsOnce
  <2>5. CASE r2 = new
    <3>1. r1.result \notin Landed
      BY <1>5, <1>8, <2>1, <2>3, <2>5
    <3> QED BY <1>6, <2>3, <3>1 DEF Landed, Result
  <2> QED BY <1>5, <2>4, <2>5
<1>14. ReportFollowsSteps'
  BY <1>2 DEF IndInv, ReportFollowsSteps, Running, Steps
<1>15. NothingUnpaid' => NothingUnpaid /\ result # "unpaid"
  BY <1>5 DEF NothingUnpaid
<1>16. WaitedIsRegistered'
  <2>1. SUFFICES ASSUME pc = "waiting", NothingUnpaid, result # "unpaid", InLedger(Current)'
                 PROVE  Steps[step] \in registered'
    BY <1>2, <1>15 DEF WaitedIsRegistered, Steps
  <2>2. CASE InLedger(Current)
    BY <1>4, <2>1, <2>2 DEF IndInv, WaitedIsRegistered
  <2>3. CASE ~InLedger(Current)
    <3>1. Current = tx
      BY <1>2, <1>5, <2>1, <2>3 DEF InLedger, Current, Steps
    <3>2. c = Steps[step] /\ result = Outcome(c)
      BY <1>3, <2>1, <3>1 DEF Current
    <3>3. CASE result \in Landed
      BY <1>7, <3>2, <3>3
    <3>4. CASE result \notin Landed
      \* An orphan's attestor set was dealt with one step before.
      <4>1. c \in SchemaId /\ AttestorSetOf[c] \notin registered
        BY <3>2, <3>4 DEF Outcome, Landed
      <4>2. step \in 1 .. Len(Steps) /\ Len(outcomes) = step - 1 /\ outcomes \in Seq(TxOutcome)
        BY <1>1, <2>1 DEF IndInv, TypeOK, ReportFollowsSteps, Running
      <4>3. step - 1 \in 1 .. Len(Steps) /\ Steps[step - 1] = AttestorSetOf[Steps[step]]
        BY <3>2, <4>1, <4>2, SetComesFirst
      <4>4. step - 1 \in DOMAIN outcomes
        BY <4>2, <4>3, StepsAreIds
      <4>5. Steps[step - 1] \in registered
        BY <2>1, <4>4 DEF IndInv, ReportsAreTrue, NothingUnpaid
      <4> QED BY <3>2, <4>1, <4>3, <4>5
    <3> QED BY <3>3, <3>4
  <2> QED BY <2>2, <2>3
<1>17. ReportsAreTrue'
  BY <1>2, <1>4, <1>15 DEF IndInv, ReportsAreTrue, NothingUnpaid, Steps
<1> QED BY <1>9, <1>10, <1>11, <1>12, <1>13, <1>14, <1>16, <1>17 DEF IndInv

\* A step that leaves the run and the ledger alone leaves what is waited for alone.
LEMMA WaitingKeeps ==
  ASSUME WaitedIsRegistered, UNCHANGED <<pc, step, nonce, ledger>>, registered \subseteq registered'
  PROVE  WaitedIsRegistered'
<1>1. Current' = Current
  BY DEF Current, Steps
<1>2. InLedger(Current)' <=> InLedger(Current)
  BY <1>1 DEF InLedger
<1>3. NothingUnpaid' <=> NothingUnpaid
  BY DEF NothingUnpaid
<1>4. (Steps[step])' = Steps[step]
  BY DEF Steps
<1> QED BY <1>2, <1>3, <1>4 DEF WaitedIsRegistered

LEMMA LoseKeeps ==
  ASSUME IndInv, NEW tx \in pending, Lose(tx)
  PROVE  IndInv'
<1>1. /\ UNCHANGED <<pc, step, nonce, outcomes, registered, chain_nonce, ledger>>
      /\ pending' \subseteq pending
  BY DEF Lose, run
<1>2. TypeOK'
  BY <1>1 DEF IndInv, TypeOK, Steps
<1>3. NonceIsBehind' /\ LedgerIsPast' /\ PendingIsDue' /\ LandedIsRegistered' /\ LandsOnce'
  BY <1>1 DEF IndInv, NonceIsBehind, LedgerIsPast, PendingIsDue, LandedIsRegistered, LandsOnce
<1>4. NothingFollows'
  BY <1>1 DEF IndInv, NothingFollows, Steps
<1>5. ReportFollowsSteps' /\ ReportsAreTrue'
  BY <1>1 DEF IndInv, ReportFollowsSteps, Running, ReportsAreTrue, Steps
<1>6. WaitedIsRegistered'
  BY <1>1, WaitingKeeps DEF IndInv
<1> QED BY <1>2, <1>3, <1>4, <1>5, <1>6 DEF IndInv

LEMMA OthersKeep ==
  ASSUME IndInv, NEW id \in SetId, RegisteredByOthers(id)
  PROVE  IndInv'
<1>1. /\ UNCHANGED <<pc, step, nonce, outcomes, chain_nonce, pending, ledger, faults>>
      /\ registered' = registered \cup {id}
  BY DEF RegisteredByOthers, run
<1>2. TypeOK'
  BY <1>1 DEF IndInv, TypeOK, Steps
<1>3. NonceIsBehind' /\ LedgerIsPast' /\ PendingIsDue' /\ LandedIsRegistered' /\ LandsOnce'
  BY <1>1 DEF IndInv, NonceIsBehind, LedgerIsPast, PendingIsDue, LandedIsRegistered, LandsOnce
<1>4. NothingFollows'
  BY <1>1 DEF IndInv, NothingFollows, Steps
<1>5. ReportFollowsSteps' /\ ReportsAreTrue'
  BY <1>1 DEF IndInv, ReportFollowsSteps, Running, ReportsAreTrue, Steps
<1>6. WaitedIsRegistered'
  BY <1>1, WaitingKeeps DEF IndInv
<1> QED BY <1>2, <1>3, <1>4, <1>5, <1>6 DEF IndInv

LEMMA NextKeeps == IndInv /\ [Next]_vars => IndInv'
<1> SUFFICES ASSUME IndInv, [Next]_vars PROVE IndInv'
  OBVIOUS
<1>1. CASE Start
  BY <1>1, FreshRun DEF Start, FirstNonce
<1>2. CASE CheckExists
  BY <1>2, CheckExistsKeeps
<1>3. CASE Submit
  BY <1>3, SubmitKeeps
<1>4. CASE StaleNonce
  BY <1>4, FreshRun DEF StaleNonce, Stop
<1>5. CASE Included
  BY <1>5, IncludedKeeps
<1>6. CASE Timeout
  BY <1>6, FreshRun DEF Timeout, OnTimeout, Stop
<1>7. CASE Interrupted
  BY <1>7, FreshRun DEF Interrupted, Stop
<1>8. ASSUME NEW tx \in pending, Execute(tx) PROVE IndInv'
  BY <1>8, ExecuteKeeps
<1>9. ASSUME NEW tx \in pending, Lose(tx) PROVE IndInv'
  BY <1>9, LoseKeeps
<1>10. ASSUME NEW id \in SetId, RegisteredByOthers(id) PROVE IndInv'
  BY <1>10, OthersKeep
<1>11. CASE UNCHANGED vars
  <2>1. UNCHANGED <<pc, step, nonce, outcomes, registered, chain_nonce, pending, ledger>>
    BY <1>11 DEF vars, run, chain
  <2>2. (TypeOK /\ NonceIsBehind /\ LedgerIsPast /\ PendingIsDue /\ LandedIsRegistered)'
    BY <2>1 DEF IndInv, TypeOK, NonceIsBehind, LedgerIsPast, PendingIsDue,
                LandedIsRegistered, Steps
  <2>3. (NothingFollows /\ LandsOnce /\ ReportFollowsSteps /\ ReportsAreTrue)'
    BY <2>1 DEF IndInv, NothingFollows, LandsOnce, ReportFollowsSteps, Running,
                ReportsAreTrue, Steps
  <2>4. WaitedIsRegistered'
    BY <2>1, WaitingKeeps DEF IndInv
  <2> QED BY <2>2, <2>3, <2>4 DEF IndInv
<1> QED BY <1>1, <1>2, <1>3, <1>4, <1>5, <1>6, <1>7, <1>8, <1>9, <1>10, <1>11
        DEF Next, Operator

LEMMA Invariance == Spec => []IndInv
<1>1. Init => IndInv
  BY InitHolds
<1>2. IndInv /\ [Next]_vars => IndInv'
  BY NextKeeps
<1> QED BY <1>1, <1>2, PTL DEF Spec

-----------------------------------------------------------------------------
(* The results                                                             *)

\* The run stays within its list, for every configuration of at least one entry.
THEOREM TypeCorrect == Spec => []TypeOK
<1>1. IndInv => TypeOK
  BY DEF IndInv
<1> QED BY <1>1, Invariance, PTL

\* Running the ceremony again after any number of losses, delays and interruptions
\* executes no registration again that has succeeded or met its id taken.
THEOREM NothingLandsTwice == Spec => []LandsOnce
<1>1. IndInv => LandsOnce
  BY DEF IndInv
<1> QED BY <1>1, Invariance, PTL

\* Unless a fee could not be paid, every id a run reports on is registered.
THEOREM TheReportIsTrue == Spec => []ReportsAreTrue
<1>1. IndInv => ReportsAreTrue
  BY DEF IndInv
<1> QED BY <1>1, Invariance, PTL

-----------------------------------------------------------------------------
(* The ceremony and the attestation module                                 *)

\* What Chain!Spec speaks of.
ChainVars == <<registered \cap SetId, {<<s, AttestorSetOf[s]>> : s \in registered \cap SchemaId}>>

\* An id comes with a step: a set, or a schema whose set is stored by then.
LEMMA AddsSet ==
  ASSUME NEW id \in SetId, id \notin registered, registered' = registered \cup {id}
  PROVE  Chain!Next
<1>1. /\ registered' \cap SetId = (registered \cap SetId) \cup {id}
      /\ registered' \cap SchemaId = registered \cap SchemaId
  BY ConfigAssumption
<1>2. Chain!StoreSet(id)
  BY <1>1 DEF Chain!StoreSet
<1> QED BY <1>2 DEF Chain!Next

LEMMA AddsSchema ==
  ASSUME NEW s \in SchemaId, s \notin registered, AttestorSetOf[s] \in registered,
         registered' = registered \cup {s}
  PROVE  Chain!Next
<1>1. AttestorSetOf[s] \in SetId
  BY ConfigAssumption
<1>2. /\ registered' \cap SetId = registered \cap SetId
      /\ registered' \cap SchemaId = (registered \cap SchemaId) \cup {s}
  BY ConfigAssumption
<1>3. Chain!Bind(s, AttestorSetOf[s])
  <2>1. AttestorSetOf[s] \in registered \cap SetId
    BY <1>1
  <2>2. \A p \in {<<x, AttestorSetOf[x]>> : x \in registered \cap SchemaId} : p[1] # s
    OBVIOUS
  <2>3. {<<x, AttestorSetOf[x]>> : x \in registered' \cap SchemaId}
          = {<<x, AttestorSetOf[x]>> : x \in registered \cap SchemaId} \cup {<<s, AttestorSetOf[s]>>}
    BY <1>2
  <2> QED BY <1>2, <2>1, <2>2, <2>3 DEF Chain!Bind
<1> QED BY <1>1, <1>3 DEF Chain!Next

LEMMA NextStaysWithin == TypeOK /\ [Next]_vars => [Chain!Next]_ChainVars
<1> SUFFICES ASSUME TypeOK, [Next]_vars PROVE [Chain!Next]_ChainVars
  OBVIOUS
<1>1. CASE registered' = registered
  BY <1>1 DEF ChainVars
<1>2. ASSUME NEW tx \in pending, Execute(tx), registered' # registered
      PROVE  Chain!Next
  <2>1. Outcome(tx.call) = "successful" /\ registered' = registered \cup {tx.call}
    BY <1>2 DEF Execute
  <2>2. tx.call \in SetId \cup SchemaId
    BY DEF TypeOK, Tx
  <2>3. tx.call \notin registered
    BY <2>1 DEF Outcome
  <2>4. CASE tx.call \in SetId
    BY <2>1, <2>3, <2>4, AddsSet
  <2>5. CASE tx.call \in SchemaId
    \* An orphan is not registered.
    <3>1. AttestorSetOf[tx.call] \in registered
      BY <2>1, <2>3, <2>5 DEF Outcome
    <3> QED BY <2>1, <2>3, <2>5, <3>1, AddsSchema
  <2> QED BY <2>2, <2>4, <2>5
<1>3. ASSUME NEW id \in SetId, RegisteredByOthers(id) PROVE Chain!Next
  BY <1>3, AddsSet DEF RegisteredByOthers
<1>4. ASSUME NEW tx \in pending, Lose(tx) PROVE registered' = registered
  BY <1>4 DEF Lose
<1>5. CASE Operator \/ Interrupted \/ UNCHANGED vars
  <2>1. registered' = registered
    BY <1>5 DEF Operator, Start, CheckExists, Submit, StaleNonce, Included, Timeout,
                Interrupted, chain, vars
  <2> QED BY <1>1, <2>1
<1> QED BY <1>1, <1>2, <1>3, <1>4, <1>5 DEF Next

\* The chain that the ceremony takes for granted is one the attestation module
\* promises: no behaviour of the ceremony, with any number of losses, re-executions
\* and unpaid fees, has a schema bound before its attestor set or bound twice.
THEOREM TheChainIsARegistry == Spec => StaysWithinRegistry
<1>1. Init => Chain!Init
  BY DEF Init, Chain!Init
<1>2. IndInv => TypeOK
  BY DEF IndInv
<1>3. TypeOK /\ [Next]_vars
        => [Chain!Next]_<<registered \cap SetId,
                          {<<s, AttestorSetOf[s]>> : s \in registered \cap SchemaId}>>
  BY NextStaysWithin DEF ChainVars
<1> QED BY <1>1, <1>2, <1>3, Invariance, PTL DEF Spec, StaysWithinRegistry, Chain!Spec

\* Unless a fee could not be paid, a run that comes to its end leaves nothing
\* unregistered: what remains for the fairness is that some run comes to its end.
EndIsComplete == pc = "done" /\ NothingUnpaid => \A k \in DOMAIN Steps : Steps[k] \in registered

\* Whatever happened to earlier runs, one that reaches the end of its list has seen
\* to every id on it.
THEOREM TheEndIsComplete == Spec => []EndIsComplete
<1>1. IndInv => EndIsComplete
  <2> SUFFICES ASSUME IndInv, pc = "done", NothingUnpaid, NEW k \in DOMAIN Steps
               PROVE  Steps[k] \in registered
    BY DEF EndIsComplete
  <2>1. outcomes \in Seq(TxOutcome) /\ Len(outcomes) = Len(Steps)
    BY DEF IndInv, TypeOK, ReportFollowsSteps
  <2>2. k \in DOMAIN outcomes
    BY <2>1, StepsAreIds
  <2> QED BY <2>2 DEF IndInv, ReportsAreTrue, NothingUnpaid
<1> QED BY <1>1, Invariance, PTL

=============================================================================

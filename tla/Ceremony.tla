------------------------------ MODULE Ceremony ------------------------------
(***************************************************************************)
(* The register-canonical-schemas ceremony: an operator's program that     *)
(* registers, for every entry of its configuration, the attestor set and   *)
(* then the schema, one transaction at a time under a nonce it counts      *)
(* itself.  It may stop anywhere and is run again until everything is      *)
(* registered.  The chain is external: it executes a signer's transactions *)
(* in the order of their nonces and may lose one it has accepted.          *)
(***************************************************************************)
EXTENDS Naturals, Sequences

CONSTANTS
  SetId, SchemaId,
  AttestorSetOf,    \* SchemaId -> SetId, what the configuration says of a schema
  Config,           \* the [[schemas]] entries, in order
  MaxFaults         \* bound: how often the surroundings let the operator down

ASSUME ConfigAssumption ==
  /\ AttestorSetOf \in [SchemaId -> SetId] /\ SetId \cap SchemaId = {}
  /\ Config \in Seq(SchemaId) /\ Config # <<>>
ASSUME BoundsAssumption == MaxFaults \in Nat

\* What register_one registers for each entry: its attestor set, then the schema.
Steps == [k \in 1 .. 2 * Len(Config) |->
            LET schema == Config[(k + 1) \div 2]
            IN  IF k % 2 = 1 THEN AttestorSetOf[schema] ELSE schema]

\* A transaction's hash covers its call and its nonce: what is signed again is the same.
Tx == [call: SetId \cup SchemaId, nonce: Nat]
Result == {"successful", "duplicate", "orphan", "unpaid"}
TxOutcome == {"Submitted", "AlreadyRegistered"}

VARIABLES
  pc, step, nonce, outcomes,    \* the run: where it is, its local nonce, its report
  registered,     \* ids the chain knows
  chain_nonce,    \* the signer's next nonce
  pending,        \* accepted and not executed
  ledger,         \* executed, as GET /ledger/txs/{hash} finds them
  faults

run == <<pc, step, nonce, outcomes>>
chain == <<registered, chain_nonce, pending, ledger>>
vars == <<run, chain, faults>>

Init ==
  /\ pc = "stopped" /\ step = 1 /\ nonce = 0 /\ outcomes = <<>>
  /\ registered = {} /\ chain_nonce = 0 /\ pending = {} /\ ledger = {}
  /\ faults = 0

Running == pc \in {"checking", "submitting", "waiting"}
Current == [call |-> Steps[step], nonce |-> nonce]
InLedger(tx) == \E r \in ledger : r.tx = tx

\* What can no longer be executed under its nonce.
Hopeless(tx) == tx \notin pending \/ tx.nonce # chain_nonce

\* An error or a signal ends the run, and what it knew is gone.
Stop == pc' = "stopped" /\ step' = 1 /\ nonce' = 0 /\ outcomes' = <<>>

Fault == faults < MaxFaults /\ faults' = faults + 1


\* A step is done with: on to the next one, or to the end.
Report(outcome) ==
  /\ outcomes' = Append(outcomes, outcome)
  /\ IF step = Len(Steps) THEN pc' = "done" /\ UNCHANGED step
                          ELSE pc' = "checking" /\ step' = step + 1

-----------------------------------------------------------------------------
(* The run                                                                 *)

MutNonceNotFetched == 0
FirstNonce == chain_nonce

\* The nonce is read once, before anything is checked.
Start ==
  /\ pc \in {"stopped", "done"}
  /\ pc' = "checking" /\ step' = 1 /\ nonce' = FirstNonce /\ outcomes' = <<>>
  /\ UNCHANGED <<chain, faults>>

\* A GET decides whether the id is registered; the transaction is sent later.
CheckExists ==
  /\ pc = "checking"
  /\ IF Steps[step] \in registered
     THEN Report("AlreadyRegistered") /\ UNCHANGED nonce
     ELSE pc' = "submitting" /\ UNCHANGED <<step, nonce, outcomes>>
  /\ UNCHANGED <<chain, faults>>

MutFreshNonce == chain_nonce
SubmitNonce == nonce

Submit ==
  /\ pc = "submitting" /\ SubmitNonce >= chain_nonce
  /\ nonce' = SubmitNonce
  /\ pending' = pending \cup {[call |-> Steps[step], nonce |-> SubmitNonce]}
  /\ pc' = "waiting"
  /\ UNCHANGED <<step, outcomes, registered, chain_nonce, ledger, faults>>

\* The sequencer refuses a nonce that is used up.
StaleNonce ==
  /\ pc = "submitting" /\ SubmitNonce < chain_nonce
  /\ Stop /\ UNCHANGED <<chain, faults>>

Included ==
  /\ pc = "waiting" /\ InLedger(Current)
  /\ nonce' = nonce + 1
  /\ Report("Submitted")
  /\ UNCHANGED <<chain, faults>>

MutTimeoutIsInclusion == Report("Submitted") /\ nonce' = nonce + 1
OnTimeout == Stop

\* MAX_WAIT has passed.  A transaction that could still be executed has been slow.
Timeout ==
  /\ pc = "waiting" /\ ~InLedger(Current)
  /\ IF Hopeless(Current) THEN UNCHANGED faults ELSE Fault
  /\ OnTimeout /\ UNCHANGED chain

\* A signal, a failed request or an unexpected status.
Interrupted == Running /\ Fault /\ Stop /\ UNCHANGED chain

-----------------------------------------------------------------------------
(* The chain                                                               *)

Outcome(call) ==
  IF call \in registered THEN "duplicate"
  ELSE IF call \in SchemaId /\ AttestorSetOf[call] \notin registered THEN "orphan"
  ELSE "successful"

\* The nonce is used up and the transaction is in the ledger whatever its result; a
\* signer who is out of funds is one of the faults.
Execute(tx) ==
  /\ tx \in pending /\ tx.nonce = chain_nonce
  /\ \/ /\ ledger' = ledger \cup {[tx |-> tx, result |-> Outcome(tx.call)]}
        /\ registered' = IF Outcome(tx.call) = "successful" THEN registered \cup {tx.call}
                                                            ELSE registered
        /\ UNCHANGED faults
     \/ /\ Fault /\ Outcome(tx.call) = "successful"
        /\ ledger' = ledger \cup {[tx |-> tx, result |-> "unpaid"]}
        /\ UNCHANGED registered
  /\ chain_nonce' = chain_nonce + 1 /\ pending' = pending \ {tx}
  /\ UNCHANGED run

Lose(tx) ==
  /\ tx \in pending /\ Fault /\ pending' = pending \ {tx}
  /\ UNCHANGED <<run, registered, chain_nonce, ledger>>

\* Anybody may register an attestor set; a schema's id names its owner.
RegisteredByOthers(id) ==
  /\ id \in SetId \ registered /\ registered' = registered \cup {id}
  /\ UNCHANGED <<run, chain_nonce, pending, ledger, faults>>

Operator == Start \/ CheckExists \/ Submit \/ StaleNonce \/ Included \/ Timeout

Next ==
  \/ Operator \/ Interrupted
  \/ \E tx \in pending : Execute(tx) \/ Lose(tx)
  \/ \E id \in SetId : RegisteredByOthers(id)

Spec == Init /\ [][Next]_vars

\* The operator goes on, and runs the program again after it has stopped; the chain
\* executes what it can.
FairSpec ==
  /\ Spec /\ WF_vars(Operator) /\ WF_vars(\E tx \in pending : Execute(tx))

-----------------------------------------------------------------------------
(* Properties                                                              *)

\* The run stays within its list of steps, and every transaction, wherever it is, is
\* one of a registration.
TypeOK ==
  /\ pc \in {"stopped", "checking", "submitting", "waiting", "done"}
  /\ step \in 1 .. Len(Steps) /\ nonce \in Nat /\ chain_nonce \in Nat
  /\ outcomes \in Seq(TxOutcome)
  /\ registered \subseteq SetId \cup SchemaId
  /\ pending \subseteq Tx
  /\ ledger \subseteq [tx: Tx, result: Result]

\* Running it again is safe: whatever was lost, late or interrupted before, no
\* registration is executed again after one that succeeded or met its id taken.
LandsOnce ==
  \A r1, r2 \in ledger :
    r1.tx.call = r2.tx.call /\ r1.tx.nonce < r2.tx.nonce =>
      r1.result \in {"orphan", "unpaid"}

\* What a run reports is so: unless a fee could not be paid, every id it has dealt
\* with is registered, whether it found it there or sent it.
ReportsAreTrue ==
  (\A r \in ledger : r.result # "unpaid") =>
    \A k \in DOMAIN outcomes : Steps[k] \in registered

\* The chain stays within what the attestation module promises: whatever is lost,
\* executed twice or out of funds, no schema is bound before its attestor set is
\* stored, or bound twice.
Chain == INSTANCE Registry WITH
           sets <- registered \cap SetId,
           bound <- {<<s, AttestorSetOf[s]>> : s \in registered \cap SchemaId}
StaysWithinRegistry == Chain!Spec

\* Running it again and again gets everything registered.
EverythingIsRegistered == <>(\A k \in DOMAIN Steps : Steps[k] \in registered)

=============================================================================

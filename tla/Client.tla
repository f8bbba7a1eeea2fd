------------------------------- MODULE Client ------------------------------
(***************************************************************************)
(* The client library next to the attestation module: a relayer builds a   *)
(* submission, signed off chain by the attestors whose keys it holds, and  *)
(* the message then travels.  It may be lost, sent again, or arrive after  *)
(* anything else has been executed, other relayers' submissions included.  *)
(***************************************************************************)
EXTENDS Attestation

CONSTANTS
  Timestamps,     \* what callers sign over
  MaxInFlight     \* bound: messages built and not given up

ASSUME ClientAssumption == 0 \in Timestamps /\ MaxInFlight \in Nat

VARIABLE in_flight    \* messages built and not given up

clientVars == <<vars, in_flight>>

ClientInit == Init /\ in_flight = {}

\* The digest binds the signature to all of this.
SignedAttestationPayload(s, hash, submitter, timestamp) ==
  [schema_id |-> s, payload_hash |-> hash, submitter |-> submitter, timestamp |-> timestamp]

\* The handler recomputes the digest with the constant 0: nothing signed over another
\* time verifies.
HandlerTimestamp == 0
SignAttestation(key, digest) ==
  IF digest.timestamp = HandlerTimestamp
  THEN {<<key, <<digest.schema_id, digest.payload_hash, digest.submitter>>>>} ELSE {}

\* The library checks the size and nothing else: the keys may be of no member, too few,
\* or twice the same.
BuildSignedSubmit(keys, s, hash, submitter, timestamp) ==
  LET digest == SignedAttestationPayload(s, hash, submitter, timestamp)
  IN  /\ Len(keys) <= MAX_ATTESTATION_SIGNATURES
      /\ Cardinality(in_flight) < MaxInFlight
      /\ in_flight' = in_flight \cup {[digest |-> digest, signatures |-> keys]}
      /\ signed' = signed \cup UNION {SignAttestation(keys[i], digest) : i \in DOMAIN keys}
      /\ UNCHANGED <<registry, fees>>

\* A message that is rejected changes nothing, and one that is accepted may come again.
SubmitRawTx(m) ==
  /\ m.digest.timestamp = HandlerTimestamp
  /\ SubmitAttestation(m.digest.submitter, m.digest.schema_id, m.digest.payload_hash, m.signatures)
  /\ UNCHANGED in_flight

GiveUp(m) == in_flight' = in_flight \ {m} /\ UNCHANGED vars

AnybodyElse == Next /\ UNCHANGED in_flight

ClientNext ==
  \/ \E keys \in UNION {[1 .. k -> Signers] : k \in 0 .. MAX_ATTESTATION_SIGNATURES},
        s \in {x \in SchemaId : schemas[x] # None}, hash \in PayloadHash, submitter \in Submitters, timestamp \in Timestamps :
       BuildSignedSubmit(keys, s, hash, submitter, timestamp)
  \/ \E m \in in_flight : SubmitRawTx(m) \/ GiveUp(m)
  \/ AnybodyElse

ClientSpec == ClientInit /\ [][ClientNext]_clientVars

-----------------------------------------------------------------------------
(* Properties                                                              *)

Payload(m) == <<m.digest.schema_id, m.digest.payload_hash, m.digest.submitter>>
Id(m) == <<m.digest.schema_id, m.digest.payload_hash>>

\* The module would take the message now, fee apart.
Acceptable(m) ==
  /\ m.digest.timestamp = HandlerTimestamp
  /\ schemas[m.digest.schema_id] # None /\ ~Stored(Id(m))
  /\ Quorum(Id(m)) \in attestor_sets
  /\ ValidSignatures(m.signatures, Quorum(Id(m)), Payload(m))

\* A message that could be submitted when it was built can be submitted whenever it
\* arrives, under the same quorum and the same routing of the fee, unless somebody has
\* stored the attestation in between: nothing that is registered meanwhile spoils the
\* signatures collected off chain.
StaysGoodStep ==
  \A m \in in_flight \cap in_flight' :
    Acceptable(m) => \/ Stored(Id(m))'
                     \/ Acceptable(m)' /\ Fields(Id(m))' = Fields(Id(m))
BuiltStaysGood == [][StaysGoodStep]_clientVars

=============================================================================

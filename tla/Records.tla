------------------------------- MODULE Records ------------------------------
(***************************************************************************)
(* What the attestation module promises to the modules that read it, and   *)
(* nothing else: schemas are only ever added, and an attestation is stored *)
(* once, under a schema registered by then, and for ever in the name of    *)
(* the same submitter.  The attestation module implements it, with and     *)
(* without relayers; the bounty module, which pays by these records, adds  *)
(* nothing to them and takes them as they come.                            *)
(***************************************************************************)

CONSTANTS SchemaId, PayloadHash, Address

VARIABLES
  schemas,    \* the schemas registered
  records     \* <<attestation, its submitter>>, for the attestations stored

\* The genesis file registers schemas but no attestation.
Init ==
  /\ schemas \subseteq SchemaId
  /\ records = {}

Register(s) ==
  /\ s \notin schemas
  /\ schemas' = schemas \cup {s}
  /\ UNCHANGED records

Store(a, submitter) ==
  /\ a[1] \in schemas
  /\ \A r \in records : r[1] # a
  /\ records' = records \cup {<<a, submitter>>}
  /\ UNCHANGED schemas

Next ==
  \/ \E s \in SchemaId : Register(s)
  \/ \E a \in SchemaId \X PayloadHash, submitter \in Address : Store(a, submitter)

Spec == Init /\ [][Next]_<<schemas, records>>

=============================================================================

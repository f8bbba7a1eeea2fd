------------------------------ MODULE Registry ------------------------------
(***************************************************************************)
(* What the attestation module promises of attestor sets and schemas, and  *)
(* nothing else: a set is stored once, a schema is bound once, to a set    *)
(* that is stored by then, and neither is ever replaced or removed.  The   *)
(* attestation module implements it; the register-canonical-schemas        *)
(* ceremony relies on it, and what it takes the chain to do is within it.  *)
(***************************************************************************)

CONSTANTS SetId, SchemaId

VARIABLES
  sets,     \* the attestor sets stored
  bound     \* <<schema, its attestor set>>, for the schemas registered

\* The genesis file may register some of either.
Init ==
  /\ sets \subseteq SetId
  /\ bound \subseteq SchemaId \X sets
  /\ \A p, q \in bound : p[1] = q[1] => p = q

StoreSet(id) ==
  /\ id \notin sets
  /\ sets' = sets \cup {id}
  /\ UNCHANGED bound

Bind(s, id) ==
  /\ id \in sets
  /\ \A p \in bound : p[1] # s
  /\ bound' = bound \cup {<<s, id>>}
  /\ UNCHANGED sets

Next ==
  \/ \E id \in SetId : StoreSet(id)
  \/ \E s \in SchemaId, id \in SetId : Bind(s, id)

Spec == Init /\ [][Next]_<<sets, bound>>

=============================================================================

--------------------------- MODULE MCAttestation ---------------------------
(* Small instances of Attestation. *)
EXTENDS Attestation

CONSTANTS alice, bob, fund, k1, k2, audits, h1, h2    \* model values

\* What the genesis file registers: a set of every attestor there is, all of whom
\* must sign, and the treasury's schema on it, which pays no builder.
allOf == [members |-> [p \in PubKey |-> 1], threshold |-> Cardinality(PubKey)]
MCGenesisSets == {allOf}
MCGenesisSchemas ==
  [s \in SchemaId |-> IF s = <<fund, audits>>
                      THEN [attestor_set |-> allOf, fee_routing_bps |-> 0, fee_routing_addr |-> None]
                      ELSE None]

=============================================================================

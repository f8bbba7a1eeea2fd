------------------------------ MODULE MCClient -----------------------------
(* A small instance of the client next to the attestation module. *)
EXTENDS MCAttestation, Client
=============================================================================

----------------------------- MODULE MCContracts ----------------------------
(***************************************************************************)
(* Instances of the contract module for TLC.  The values of the constants  *)
(* are in the .cfg files; the roles are sets of model values.              *)
(***************************************************************************)
EXTENDS Contracts

CONSTANTS poster, arbiter, w1, w2, doc, att    \* model values

=============================================================================

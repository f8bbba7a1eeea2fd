------------------------------ MODULE MCBounty ------------------------------
(***************************************************************************)
(* Instances of the bounty module for TLC.  The values of the constants    *)
(* are in the .cfg files; the acceptance rules a poster may choose are the *)
(* sets below.                                                             *)
(***************************************************************************)
EXTENDS Bounty, TLC

CONSTANTS poster, operator, alice, bob,     \* addresses
          board, other_board, h1, h2, set1    \* model values

\* Every board belongs to the operator.
OperatorOwns == [s \in SchemaId |-> operator]

AcceptAny == {[kind |-> "Any"]}
AcceptEachRule ==
  {[kind |-> "Any"], [kind |-> "AttestorSet", attestor_set |-> set1],
   [kind |-> "PayloadHashes", hashes |-> {h1}],
   [kind |-> "PeerCount", min_attestors |-> 1], [kind |-> "PeerCount", min_attestors |-> 2]}

=============================================================================

-------------------------------- MODULE Bank --------------------------------
(***************************************************************************)
(* The part of sov-bank the ledger modules rely on: one token (AVOW), a    *)
(* balance per token holder, and Bank::transfer_from.  sov-bank is a       *)
(* dependency of the repository, so it is modelled from its call sites in  *)
(* the attestation, bounty and contract modules: a transfer the sender     *)
(* cannot fund is an error, and an error unwinds the whole transaction.    *)
(* Holders are user addresses and module accounts; the two never coincide. *)
(***************************************************************************)
EXTENDS Integers

CanPay(bal, from, amount) == bal[from] >= amount

\* Debit first, then credit: a transfer to oneself leaves the balance as it was.
Transfer(bal, from, to, amount) ==
  LET debited == [bal EXCEPT ![from] = @ - amount]
  IN  [debited EXCEPT ![to] = @ + amount]

=============================================================================

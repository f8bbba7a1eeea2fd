---------------------------- MODULE MCDaMetrics ----------------------------
(* A small instance of DaMetrics. *)
EXTENDS DaMetrics

CONSTANTS b1, b2, b3, reorg    \* model values

\* One adapter tells the fee and the gas, the other does not.
Receipts ==
  [b \in Blob |-> IF b = b1 THEN [fee_paid |-> 2, gas_used |-> 1, size_in_bytes |-> 2]
                            ELSE [fee_paid |-> None, gas_used |-> None, size_in_bytes |-> 1]]

=============================================================================

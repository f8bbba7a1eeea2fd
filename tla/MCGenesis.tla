------------------------------ MODULE MCGenesis -----------------------------
(* A committed template with placeholders, the lists its attestation file may *)
(* hold, and three ways of filling in keys.toml.                              *)
EXTENDS Genesis, TLC

CONSTANTS placeholder, demo, key1, key2, typo, celestia_hole, celestia1, hex, avow, other,
          p, q, prompt, review    \* model values

Da == [d \in {"celestia", "mock"} |-> IF d = "celestia" THEN {celestia_hole, celestia1} ELSE {hex}]

Set(members, threshold) == [members |-> members, threshold |-> threshold]
Schema(owner, name, set, bps, addr) ==
  [owner |-> owner, name |-> name, attestor_set |-> set,
   fee_routing_bps |-> bps, fee_routing_addr |-> addr]
IdOfPQ == DeriveSetId(Set(<<p, q>>, 2))

\* Lists of attestor sets: sound ones, one for each way to get them wrong, and one that
\* passes although a key is named twice and nobody can meet the threshold.
SetLists ==
  {<<>>, <<Set(<<q, p>>, 2)>>, <<Set(<<p, q>>, 2), Set(<<p, q>>, 1)>>,
   <<Set(<<p, q>>, 2), Set(<<q, p>>, 2)>>,      \* the same set in two orders
   <<Set(<<q, p>>, 2), Set(<<p, p>>, 2)>>,
   <<Set(<<p, q>>, 2), Set(<<>>, 0)>>, <<Set(<<p, q>>, 2), Set(<<p>>, 2)>>}
\* Lists of schemas: the last holds a duplicate if keys.toml gives both owners one key.
SchemaLists ==
  {<<>>,
   <<Schema(placeholder, prompt, IdOfPQ, 60, demo), Schema(placeholder, review, IdOfPQ, 0, None)>>,
   <<Schema(placeholder, prompt, IdOfPQ, 0, demo)>>, <<Schema(placeholder, prompt, IdOfPQ, 70, demo)>>,
   <<Schema(placeholder, prompt, IdOfPQ, 0, None), Schema(demo, prompt, IdOfPQ, 0, None)>>}

Written(token, sets, schemas) ==
  [bank |-> [gas_token |-> TRUE,
             address_and_balances |-> <<[address |-> placeholder, balance |-> 9],
                                        [address |-> demo, balance |-> 1]>>],
   sequencer_registry |-> [seq_rollup_address |-> placeholder, seq_da_address |-> celestia_hole],
   operator_incentives |-> [reward_address |-> placeholder],
   attestation |-> [treasury |-> placeholder, avow_token_id |-> token, max_builder_bps |-> 60,
                    initial_attestor_sets |-> sets, initial_schemas |-> schemas]]
BareBundle == Written(avow, <<>>, <<>>)
Bundles ==
  {Written(avow, sets, schemas) : sets \in SetLists, schemas \in SchemaLists}
    \cup {Written(other, <<>>, <<>>), [BareBundle EXCEPT !.bank.gas_token = FALSE],
          [BareBundle EXCEPT !.sequencer_registry.seq_da_address = hex]}

\* One key for everything; two keys, where the first takes the address that had been
\* demo's; and a name left to be filled in.
OneKey == [addresses |-> placeholder :> key1 @@ demo :> key1 @@ celestia_hole :> celestia1,
           balances |-> key1 :> 5]
TwoKeys == [addresses |-> placeholder :> demo @@ demo :> key2, balances |-> <<>>]
Unfilled == [addresses |-> placeholder :> typo, balances |-> <<>>]
KeysToml == {OneKey, TwoKeys, Unfilled}

=============================================================================

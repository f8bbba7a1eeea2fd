------------------------------- MODULE Genesis ------------------------------
(***************************************************************************)
(* From a template to a running chain: genesis-tool substitutes addresses  *)
(* and writes the bundle file by file, verify runs the node's own checks   *)
(* on a directory, and a node reads the bundle it was given, validates it  *)
(* and seeds the attestation module from it, set by set and schema by      *)
(* schema.  A run of the tool can stop anywhere.  Four of the eight files  *)
(* are here; the others carry addresses the way operator_incentives does.  *)
(***************************************************************************)
EXTENDS Integers, Sequences, FiniteSets, Functions

CONSTANTS
  Address, None, Torn,     \* Torn: a file cut off in the middle
  Name,                    \* strings that may stand where an address is expected
  PubKey, SchemaName,
  DaFlavor,                \* celestia, mock
  DaAddress,               \* what reads as an address of a DA layer
  TokenId, avow_token_id,  \* config_gas_token_id()
  Templates,               \* bundles somebody has written by hand
  SubstitutionMaps         \* keys.toml as the operator may fill it in

\* In the order in which the tool writes them.
GENESIS_FILES == <<"bank", "sequencer_registry", "operator_incentives", "attestation">>
File == {"bank", "sequencer_registry", "operator_incentives", "attestation"}

BalanceEntry == [address: Name, balance: Nat]
AttestorSetId == [members: [PubKey -> Nat], threshold: Nat]
AttestorSetEntry == [members: Seq(PubKey), threshold: Nat]
SchemaEntry == [owner: Name, name: SchemaName, attestor_set: AttestorSetId,
                fee_routing_bps: Nat, fee_routing_addr: Name \cup {None}]
Content == [bank |-> [gas_token: BOOLEAN, address_and_balances: Seq(BalanceEntry)],
            sequencer_registry |-> [seq_rollup_address: Name, seq_da_address: Name],
            operator_incentives |-> [reward_address: Name],
            attestation |-> [treasury: Name, avow_token_id: TokenId, max_builder_bps: Nat,
                             initial_attestor_sets: Seq(AttestorSetEntry),
                             initial_schemas: Seq(SchemaEntry)]]
Bundle == [bank: Content.bank, sequencer_registry: Content.sequencer_registry,
           operator_incentives: Content.operator_incentives, attestation: Content.attestation]

ASSUME MarksAssumption ==
  /\ None # Torn /\ Address \subseteq Name /\ None \notin Name /\ None \notin SubstitutionMaps
  /\ \A f \in File : None \notin Content[f] /\ Torn \notin Content[f]
ASSUME FinitenessAssumption == IsFiniteSet(PubKey)
ASSUME TemplatesAssumption == Templates \subseteq Bundle
ASSUME KeysAssumption ==
  \A subs \in SubstitutionMaps :
    /\ DOMAIN subs.addresses \subseteq Name /\ Range(subs.addresses) \subseteq Name
    /\ Range(subs.balances) \subseteq Nat

VARIABLES
  template,    \* the committed bundle
  output,      \* the directory generate writes: content per file
  generate,    \* the run of the tool that is going on
  vouched,     \* what the tool has said OK to, None if it has not since the last write
  deployed,    \* the bundle the node is started with, and what the tool said of it
  node,
  chain        \* the attestation module's state

tool == <<output, generate, vouched>>
vars == <<template, tool, deployed, node, chain>>

Idle == [phase |-> "idle"]
NoFiles == [f \in File |-> None]
NoState == [attestor_sets |-> {}, schemas |-> <<>>]

Init ==
  /\ template \in Templates
  /\ output = NoFiles /\ generate = Idle /\ vouched = None
  /\ deployed = None /\ node = Idle /\ chain = NoState

-----------------------------------------------------------------------------
(* The tool's rewriting                                                    *)

MutOneByOne(addresses, a) ==
  LET once == IF a \in DOMAIN addresses THEN addresses[a] ELSE a
  IN  IF once \in DOMAIN addresses THEN addresses[once] ELSE once
\* Only whole strings are replaced, and each string once.
Substitute(addresses, a) == IF a \in DOMAIN addresses THEN addresses[a] ELSE a

ApplyBalanceOverride(balances, row) ==
  IF row.address \in DOMAIN balances THEN [row EXCEPT !.balance = balances[row.address]] ELSE row

MutOverridesFirst(subs, row) ==
  LET r == ApplyBalanceOverride(subs.balances, row)
  IN  [r EXCEPT !.address = Substitute(subs.addresses, @)]
\* The overrides go by the address after substitution.
BankRow(subs, row) ==
  ApplyBalanceOverride(subs.balances, [row EXCEPT !.address = Substitute(subs.addresses, @)])
InitialSchema(subs, schema) ==
  [schema EXCEPT !.owner = Substitute(subs.addresses, @),
                 !.fee_routing_addr = Substitute(subs.addresses, @)]

SubstituteAddresses(subs, bundle) ==
  [bank |-> [bundle.bank EXCEPT
     !.address_and_balances = [i \in DOMAIN @ |-> BankRow(subs, @[i])]],
   sequencer_registry |-> [bundle.sequencer_registry EXCEPT
     !.seq_rollup_address = Substitute(subs.addresses, @),
     !.seq_da_address = Substitute(subs.addresses, @)],
   operator_incentives |-> [reward_address |->
     Substitute(subs.addresses, bundle.operator_incentives.reward_address)],
   attestation |-> [bundle.attestation EXCEPT
     !.treasury = Substitute(subs.addresses, @),
     !.initial_schemas = [i \in DOMAIN @ |-> InitialSchema(subs, @[i])]]]

-----------------------------------------------------------------------------
(* The validation the tool and the node share                              *)

\* Members in any order, repeated members included, make the same id.
DeriveSetId(set) ==
  [members |-> [p \in PubKey |-> Cardinality({i \in DOMAIN set.members : set.members[i] = p})],
   threshold |-> set.threshold]
DeriveSchemaId(schema) == <<schema.owner, schema.name>>

Unique(list, Id(_)) == \A i, j \in DOMAIN list : Id(list[i]) = Id(list[j]) => i = j

MutAnyThreshold(set) == set.threshold > 0 /\ Len(set.members) > 0
SetIsSound(set) == set.threshold \in 1 .. Len(set.members)
RoutingIsSound(schema, cap) ==
  /\ schema.fee_routing_bps <= cap
  /\ schema.fee_routing_bps > 0 <=> schema.fee_routing_addr # None

MutUnsortedDuplicates(cfg) ==
  LET sets == cfg.initial_attestor_sets
      schemas == cfg.initial_schemas
  IN  /\ \A i \in DOMAIN sets : SetIsSound(sets[i])
      /\ \A i, j \in DOMAIN sets : sets[i] = sets[j] => i = j
      /\ \A i \in DOMAIN schemas :
           /\ RoutingIsSound(schemas[i], cfg.max_builder_bps)
           /\ \E j \in DOMAIN sets : schemas[i].attestor_set = DeriveSetId(sets[j])
      /\ Unique(schemas, DeriveSchemaId)
ValidateAttestationConfig(cfg) ==
  LET sets == cfg.initial_attestor_sets
      schemas == cfg.initial_schemas
  IN  /\ \A i \in DOMAIN sets : SetIsSound(sets[i])
      /\ Unique(sets, DeriveSetId)
      /\ \A i \in DOMAIN schemas :
           /\ RoutingIsSound(schemas[i], cfg.max_builder_bps)
           /\ \E j \in DOMAIN sets : schemas[i].attestor_set = DeriveSetId(sets[j])
      /\ Unique(schemas, DeriveSchemaId)

ValidateConfig(bundle) ==
  /\ bundle.bank.gas_token
  /\ bundle.attestation.avow_token_id = avow_token_id
  /\ ValidateAttestationConfig(bundle.attestation)

\* Every place of a bundle that holds an address of the chain.
Holders(bundle) ==
  LET rows == bundle.bank.address_and_balances
      schemas == bundle.attestation.initial_schemas
  IN  <<bundle.sequencer_registry.seq_rollup_address,
        bundle.operator_incentives.reward_address, bundle.attestation.treasury>>
      \o [i \in DOMAIN rows |-> rows[i].address]
      \o [i \in DOMAIN schemas |-> schemas[i].owner]
      \o [i \in DOMAIN schemas |-> schemas[i].fee_routing_addr]

\* Every file is there and parses: an address field takes nothing but an address, and the
\* sequencer's DA address has the shape of one DA layer.
ReadJson(bundle, da) ==
  /\ \A f \in File : bundle[f] # None /\ bundle[f] # Torn
  /\ Range(Holders(bundle)) \subseteq Address \cup {None}
  /\ bundle.sequencer_registry.seq_da_address \in DaAddress[da]

CreateGenesisConfig(bundle, da) == ReadJson(bundle, da) /\ ValidateConfig(bundle)

-----------------------------------------------------------------------------
(* genesis-tool                                                            *)

\* The operator deploys once, and has done with the tool by then.
StartGenerate(subs, da) ==
  /\ generate = Idle /\ deployed = None
  /\ generate' = [phase |-> "writing", subs |-> subs, da |-> da, next |-> 1]
  /\ vouched' = None
  /\ UNCHANGED <<template, output, deployed, node, chain>>

Writing == generate.phase = "writing" /\ generate.next <= Len(GENESIS_FILES)
Current == GENESIS_FILES[generate.next]

MutSkipsExisting ==
  /\ Writing /\ output[Current] # Torn
  /\ \/ /\ output[Current] = None
        /\ output' = [output EXCEPT ![Current] = Torn] /\ UNCHANGED generate
     \/ /\ output[Current] # None
        /\ generate' = [generate EXCEPT !.next = @ + 1] /\ UNCHANGED output
  /\ UNCHANGED <<template, vouched, deployed, node, chain>>
\* A file is emptied before it is written.
Truncate ==
  /\ Writing /\ output[Current] # Torn
  /\ output' = [output EXCEPT ![Current] = Torn]
  /\ UNCHANGED <<template, generate, vouched, deployed, node, chain>>

WriteFile ==
  /\ Writing /\ output[Current] = Torn
  /\ output' = [output EXCEPT ![Current] = SubstituteAddresses(generate.subs, template)[Current]]
  /\ generate' = [generate EXCEPT !.next = @ + 1]
  /\ UNCHANGED <<template, vouched, deployed, node, chain>>

MutSkipsVerify ==
  /\ generate.phase = "writing" /\ generate.next > Len(GENESIS_FILES)
  /\ vouched' = [subs |-> generate.subs, da |-> generate.da]
  /\ generate' = Idle
  /\ UNCHANGED <<template, output, deployed, node, chain>>
\* The run ends with verify on what it has written.
FinishGenerate ==
  /\ generate.phase = "writing" /\ generate.next > Len(GENESIS_FILES)
  /\ vouched' = IF CreateGenesisConfig(output, generate.da)
                THEN [subs |-> generate.subs, da |-> generate.da] ELSE None
  /\ generate' = Idle
  /\ UNCHANGED <<template, output, deployed, node, chain>>

\* Killed, out of disk, or a template file that cannot be read.
StopGenerate ==
  /\ generate # Idle /\ generate' = Idle
  /\ UNCHANGED <<template, output, vouched, deployed, node, chain>>

\* verify knows the directory and nothing of how it came about.
Verify(da) ==
  /\ generate = Idle /\ deployed = None
  /\ CreateGenesisConfig(output, da)
  /\ vouched' = [subs |-> IF vouched = None THEN None ELSE vouched.subs, da |-> da]
  /\ UNCHANGED <<template, output, generate, deployed, node, chain>>

-----------------------------------------------------------------------------
(* The node                                                                *)

\* The ceremony: a bundle generate has said OK to, or one written by hand.
Deploy ==
  /\ generate = Idle /\ deployed = None
  /\ \/ /\ vouched # None
        /\ deployed' = [bundle |-> output, vouched |-> vouched]
     \/ deployed' = [bundle |-> template, vouched |-> None]
  /\ UNCHANGED <<template, tool, node, chain>>

Config == deployed.bundle.attestation

\* The seeding starts with a configuration that has passed, or not at all.
Boot(da) ==
  /\ deployed # None /\ node = Idle
  /\ node' = IF CreateGenesisConfig(deployed.bundle, da)
             THEN [phase |-> "sets", next |-> 1] ELSE [phase |-> "refused", da |-> da]
  /\ UNCHANGED <<template, tool, deployed, chain>>

Fails == node' = [phase |-> "failed"] /\ UNCHANGED chain

SeedAttestorSet ==
  LET set == Config.initial_attestor_sets[node.next]
      id == DeriveSetId(set)
  IN  /\ node.phase = "sets" /\ node.next \in DOMAIN Config.initial_attestor_sets
      /\ \/ /\ SetIsSound(set) /\ id \notin chain.attestor_sets
            /\ chain' = [chain EXCEPT !.attestor_sets = @ \cup {id}]
            /\ node' = [node EXCEPT !.next = @ + 1]
         \/ (~SetIsSound(set) \/ id \in chain.attestor_sets) /\ Fails
      /\ UNCHANGED <<template, tool, deployed>>

SetsAreSeeded ==
  /\ node.phase = "sets" /\ node.next \notin DOMAIN Config.initial_attestor_sets
  /\ node' = [phase |-> "schemas", next |-> 1]
  /\ UNCHANGED <<template, tool, deployed, chain>>

SchemaTaken(schema) ==
  \E i \in DOMAIN chain.schemas : DeriveSchemaId(chain.schemas[i]) = DeriveSchemaId(schema)
MutForgetsTheBuilder ==
  LET schema == Config.initial_schemas[node.next]
  IN  /\ node.phase = "schemas" /\ node.next \in DOMAIN Config.initial_schemas
      /\ chain' = [chain EXCEPT !.schemas = Append(@, [schema EXCEPT !.fee_routing_addr = None])]
      /\ node' = [node EXCEPT !.next = @ + 1]
      /\ UNCHANGED <<template, tool, deployed>>
SeedSchema ==
  LET schema == Config.initial_schemas[node.next]
      accepted == /\ RoutingIsSound(schema, Config.max_builder_bps)
                  /\ schema.attestor_set \in chain.attestor_sets
                  /\ ~SchemaTaken(schema)
  IN  /\ node.phase = "schemas" /\ node.next \in DOMAIN Config.initial_schemas
      /\ \/ /\ accepted
            /\ chain' = [chain EXCEPT !.schemas = Append(@, schema)]
            /\ node' = [node EXCEPT !.next = @ + 1]
         \/ ~accepted /\ Fails
      /\ UNCHANGED <<template, tool, deployed>>

StartChain ==
  /\ node.phase = "schemas" /\ node.next \notin DOMAIN Config.initial_schemas
  /\ node' = [phase |-> "running"]
  /\ UNCHANGED <<template, tool, deployed, chain>>

Next ==
  \/ \E subs \in SubstitutionMaps, da \in DaFlavor : StartGenerate(subs, da)
  \/ Truncate \/ WriteFile \/ FinishGenerate \/ StopGenerate
  \/ \E da \in DaFlavor : Verify(da) \/ Boot(da)
  \/ Deploy
  \/ SeedAttestorSet \/ SetsAreSeeded \/ SeedSchema \/ StartChain

Spec == Init /\ [][Next]_vars

-----------------------------------------------------------------------------
(* Properties                                                              *)

\* Seeding never fails half way: what validate_attestation_config lets through, genesis
\* accepts to the last schema.  Here the two sets of checks must agree in what they
\* compare with: the file's entries on one side, the state written so far on the other.
SeedingNeverFails == node.phase # "failed"

NamesAKeyTwice(id) == \E p \in PubKey : id.members[p] > 1
DistinctMembers(id) == {p \in PubKey : id.members[p] > 0}

\* A chain that runs has every set and every schema of its configuration, each once; a set
\* has as many different members as its threshold asks for, unless its list names a key
\* twice, which nothing checks; each schema's set is there and its fee goes to somebody
\* exactly when there is one to route.
SeededIsSound ==
  node.phase = "running" =>
    /\ Unique(chain.schemas, DeriveSchemaId)
    /\ Len(chain.schemas) = Len(Config.initial_schemas)
    /\ Cardinality(chain.attestor_sets) = Len(Config.initial_attestor_sets)
    /\ \A id \in chain.attestor_sets :
         /\ id.threshold > 0
         /\ NamesAKeyTwice(id) \/ id.threshold <= Cardinality(DistinctMembers(id))
    /\ \A s \in Range(chain.schemas) :
         /\ s.attestor_set \in chain.attestor_sets
         /\ s.fee_routing_bps > 0 <=> s.fee_routing_addr \in Address

Vouched == deployed # None /\ deployed.vouched # None
Generated == Vouched /\ deployed.vouched.subs # None

\* What generate has said OK to comes from one run of it: every file has the
\* substitutions of one keys.toml, whatever stopped runs have left in the directory.
GeneratedIsWhole ==
  Generated => deployed.bundle = SubstituteAddresses(deployed.vouched.subs, template)

\* Whoever held several places of the template still holds them together, across files;
\* two holders stay two, unless keys.toml gives both the same key; and each address of the
\* bank file starts with the balance keys.toml gives it, or else with the template's.
RolesArePreserved ==
  Generated =>
    LET was == Holders(template)
        now == Holders(deployed.bundle)
        keys == deployed.vouched.subs.addresses
        apart == /\ IsInjective(keys)
                 /\ Range(keys) \cap Range(was) \subseteq DOMAIN keys
        given == deployed.vouched.subs.balances
        rows == deployed.bundle.bank.address_and_balances
    IN  /\ \A i, j \in DOMAIN was : /\ was[i] = was[j] => now[i] = now[j]
                                    /\ apart /\ now[i] = now[j] => was[i] = was[j]
        /\ \A i \in DOMAIN rows :
             rows[i].balance = IF rows[i].address \in DOMAIN given THEN given[rows[i].address]
                               ELSE template.bank.address_and_balances[i].balance

\* A node does not refuse a bundle the tool has said OK to for its DA layer: typos and
\* placeholders left in keys.toml come out before the ceremony.
VouchedBundlesBoot ==
  Vouched => node # [phase |-> "refused", da |-> deployed.vouched.da]

=============================================================================

---------------------------- MODULE GenesisProofs ---------------------------
(***************************************************************************)
(* From a template to a running chain, for every template, every keys.toml *)
(* and every length of the lists: what the tool says OK to is one run's    *)
(* work and boots, and what boots is seeded to the last schema.            *)
(***************************************************************************)
EXTENDS Genesis, Sums

-----------------------------------------------------------------------------
(* Substitution keeps every file in shape                                  *)

LEMMA SubstituteType ==
  ASSUME NEW subs \in SubstitutionMaps
  PROVE  /\ \A a \in Name : Substitute(subs.addresses, a) \in Name
         /\ \A a \in Name \cup {None} : Substitute(subs.addresses, a) \in Name \cup {None}
         /\ Substitute(subs.addresses, None) = None
<1> DEFINE addresses == subs.addresses
<1>1. DOMAIN addresses \subseteq Name /\ Range(addresses) \subseteq Name
  BY KeysAssumption
<1> HIDE DEF addresses
<1>2. \A a \in DOMAIN addresses : addresses[a] \in Name
  BY <1>1 DEF Range
<1>3. None \notin DOMAIN addresses
  BY <1>1, MarksAssumption
<1>4. /\ \A a \in Name : Substitute(addresses, a) \in Name
      /\ \A a \in Name \cup {None} : Substitute(addresses, a) \in Name \cup {None}
      /\ Substitute(addresses, None) = None
  BY <1>2, <1>3 DEF Substitute
<1>5. QED
  BY <1>4 DEF addresses

LEMMA BankRowType ==
  ASSUME NEW subs \in SubstitutionMaps, NEW row \in BalanceEntry
  PROVE  /\ BankRow(subs, row) \in BalanceEntry
         /\ BankRow(subs, row).address = Substitute(subs.addresses, row.address)
<1> DEFINE there == [row EXCEPT !.address = Substitute(subs.addresses, @)]
<1>1. there \in BalanceEntry /\ there.address = Substitute(subs.addresses, row.address)
  BY SubstituteType DEF BalanceEntry
<1>2. \A a \in DOMAIN subs.balances : subs.balances[a] \in Nat
  BY KeysAssumption DEF Range
<1>3. BankRow(subs, row) = ApplyBalanceOverride(subs.balances, there)
  BY DEF BankRow
<1> HIDE DEF there
<1>4. QED
  BY <1>1, <1>2, <1>3 DEF ApplyBalanceOverride, BalanceEntry

LEMMA InitialSchemaType ==
  ASSUME NEW subs \in SubstitutionMaps, NEW schema \in SchemaEntry
  PROVE  /\ InitialSchema(subs, schema) \in SchemaEntry
         /\ InitialSchema(subs, schema).owner = Substitute(subs.addresses, schema.owner)
         /\ InitialSchema(subs, schema).fee_routing_addr
              = Substitute(subs.addresses, schema.fee_routing_addr)
<1>1. schema.owner \in Name
  BY DEF SchemaEntry
<1>2. schema.fee_routing_addr \in Name \cup {None}
  BY DEF SchemaEntry
<1>3. /\ Substitute(subs.addresses, schema.owner) \in Name
      /\ Substitute(subs.addresses, schema.fee_routing_addr) \in Name \cup {None}
  BY <1>1, <1>2, SubstituteType
<1>4. QED
  BY <1>3 DEF InitialSchema, SchemaEntry

\* Both lists are rewritten entry by entry and stay as long as they are.
BankList(subs, rows) == [i \in DOMAIN rows |-> BankRow(subs, rows[i])]
SchemaList(subs, schemas) == [i \in DOMAIN schemas |-> InitialSchema(subs, schemas[i])]

LEMMA BankListType ==
  ASSUME NEW subs \in SubstitutionMaps, NEW rows \in Seq(BalanceEntry)
  PROVE  /\ BankList(subs, rows) \in Seq(BalanceEntry) /\ Len(BankList(subs, rows)) = Len(rows)
         /\ \A i \in 1 .. Len(rows) :
              BankList(subs, rows)[i].address = Substitute(subs.addresses, rows[i].address)
<1>1. DOMAIN rows = 1 .. Len(rows) /\ Len(rows) \in Nat
  OBVIOUS
<1>2. \A i \in 1 .. Len(rows) :
        /\ BankRow(subs, rows[i]) \in BalanceEntry
        /\ BankRow(subs, rows[i]).address = Substitute(subs.addresses, rows[i].address)
  BY <1>1, BankRowType
<1>3. BankList(subs, rows) \in [1 .. Len(rows) -> BalanceEntry]
  BY <1>1, <1>2 DEF BankList
<1>4. \A i \in 1 .. Len(rows) : BankList(subs, rows)[i] = BankRow(subs, rows[i])
  BY <1>1 DEF BankList
<1>5. QED
  BY <1>1, <1>2, <1>3, <1>4

LEMMA SchemaListType ==
  ASSUME NEW subs \in SubstitutionMaps, NEW schemas \in Seq(SchemaEntry)
  PROVE  /\ SchemaList(subs, schemas) \in Seq(SchemaEntry)
         /\ Len(SchemaList(subs, schemas)) = Len(schemas)
         /\ \A i \in 1 .. Len(schemas) :
              LET schema == SchemaList(subs, schemas)[i]
              IN  /\ schema.owner = Substitute(subs.addresses, schemas[i].owner)
                  /\ schema.fee_routing_addr = Substitute(subs.addresses, schemas[i].fee_routing_addr)
<1>1. DOMAIN schemas = 1 .. Len(schemas) /\ Len(schemas) \in Nat
  OBVIOUS
<1>2. \A i \in 1 .. Len(schemas) :
        /\ InitialSchema(subs, schemas[i]) \in SchemaEntry
        /\ InitialSchema(subs, schemas[i]).owner = Substitute(subs.addresses, schemas[i].owner)
        /\ InitialSchema(subs, schemas[i]).fee_routing_addr
             = Substitute(subs.addresses, schemas[i].fee_routing_addr)
  BY <1>1, InitialSchemaType
<1>3. SchemaList(subs, schemas) \in [1 .. Len(schemas) -> SchemaEntry]
  BY <1>1, <1>2 DEF SchemaList
<1>4. \A i \in 1 .. Len(schemas) : SchemaList(subs, schemas)[i] = InitialSchema(subs, schemas[i])
  BY <1>1 DEF SchemaList
<1>5. QED
  BY <1>1, <1>2, <1>3, <1>4

\* The whole bundle, file by file.
LEMMA SubstitutedBundle ==
  ASSUME NEW subs \in SubstitutionMaps, NEW t \in Bundle
  PROVE  /\ SubstituteAddresses(subs, t) \in Bundle
         /\ SubstituteAddresses(subs, t).bank.address_and_balances
              = BankList(subs, t.bank.address_and_balances)
         /\ SubstituteAddresses(subs, t).sequencer_registry.seq_rollup_address
              = Substitute(subs.addresses, t.sequencer_registry.seq_rollup_address)
         /\ SubstituteAddresses(subs, t).operator_incentives.reward_address
              = Substitute(subs.addresses, t.operator_incentives.reward_address)
         /\ SubstituteAddresses(subs, t).attestation.treasury
              = Substitute(subs.addresses, t.attestation.treasury)
         /\ SubstituteAddresses(subs, t).attestation.initial_attestor_sets
              = t.attestation.initial_attestor_sets
         /\ SubstituteAddresses(subs, t).attestation.initial_schemas
              = SchemaList(subs, t.attestation.initial_schemas)
<1> DEFINE now == SubstituteAddresses(subs, t)
<1>1. /\ t.bank \in Content.bank /\ t.sequencer_registry \in Content.sequencer_registry
      /\ t.operator_incentives \in Content.operator_incentives
      /\ t.attestation \in Content.attestation
  BY DEF Bundle
<1>2. now.bank = [t.bank EXCEPT !.address_and_balances = BankList(subs, t.bank.address_and_balances)]
  BY DEF SubstituteAddresses, BankList
<1>3. now.sequencer_registry =
        [t.sequencer_registry EXCEPT !.seq_rollup_address = Substitute(subs.addresses, t.sequencer_registry.seq_rollup_address),
                                     !.seq_da_address = Substitute(subs.addresses, t.sequencer_registry.seq_da_address)]
  BY DEF SubstituteAddresses
<1>4. now.operator_incentives =
        [reward_address |-> Substitute(subs.addresses, t.operator_incentives.reward_address)]
  BY DEF SubstituteAddresses
<1>5. now.attestation =
        [t.attestation EXCEPT !.treasury = Substitute(subs.addresses, t.attestation.treasury),
                              !.initial_schemas = SchemaList(subs, t.attestation.initial_schemas)]
  BY DEF SubstituteAddresses, SchemaList
<1>6. now = [bank |-> now.bank, sequencer_registry |-> now.sequencer_registry,
             operator_incentives |-> now.operator_incentives, attestation |-> now.attestation]
  BY DEF SubstituteAddresses
<1> HIDE DEF now
<1>7. now.bank \in Content.bank
      /\ now.bank.address_and_balances = BankList(subs, t.bank.address_and_balances)
  <2>1. t.bank.address_and_balances \in Seq(BalanceEntry)
    BY <1>1 DEF Content
  <2>2. BankList(subs, t.bank.address_and_balances) \in Seq(BalanceEntry)
    BY <2>1, BankListType
  <2>3. QED
    BY <1>1, <1>2, <2>2 DEF Content
<1>8. now.sequencer_registry \in Content.sequencer_registry
      /\ now.sequencer_registry.seq_rollup_address
           = Substitute(subs.addresses, t.sequencer_registry.seq_rollup_address)
  <2>1. t.sequencer_registry \in [seq_rollup_address: Name, seq_da_address: Name]
    BY <1>1 DEF Content
  <2>2. /\ Substitute(subs.addresses, t.sequencer_registry.seq_rollup_address) \in Name
        /\ Substitute(subs.addresses, t.sequencer_registry.seq_da_address) \in Name
    BY <2>1, SubstituteType
  <2>3. QED
    BY <1>3, <2>1, <2>2 DEF Content
<1>9. now.operator_incentives \in Content.operator_incentives
      /\ now.operator_incentives.reward_address
           = Substitute(subs.addresses, t.operator_incentives.reward_address)
  <2>1. t.operator_incentives.reward_address \in Name
    BY <1>1 DEF Content
  <2>2. Substitute(subs.addresses, t.operator_incentives.reward_address) \in Name
    BY <2>1, SubstituteType
  <2>3. QED
    BY <1>4, <2>2 DEF Content
<1>10. t.attestation.treasury \in Name /\ t.attestation.initial_schemas \in Seq(SchemaEntry)
  BY <1>1 DEF Content
<1>11. Substitute(subs.addresses, t.attestation.treasury) \in Name
  BY <1>10, SubstituteType
<1>12. SchemaList(subs, t.attestation.initial_schemas) \in Seq(SchemaEntry)
  BY <1>10, SchemaListType
<1>13. now.attestation \in Content.attestation
  BY <1>1, <1>5, <1>11, <1>12 DEF Content
<1>14. /\ now.attestation.treasury = Substitute(subs.addresses, t.attestation.treasury)
       /\ now.attestation.initial_attestor_sets = t.attestation.initial_attestor_sets
       /\ now.attestation.initial_schemas = SchemaList(subs, t.attestation.initial_schemas)
  BY <1>1, <1>5 DEF Content
<1>15. now \in Bundle
  BY <1>6, <1>7, <1>8, <1>9, <1>13 DEF Bundle
<1>16. QED
  BY <1>7, <1>8, <1>9, <1>14, <1>15 DEF now

-----------------------------------------------------------------------------
(* What the tool has vouched for                                           *)

Applied(subs) == SubstituteAddresses(subs, template)

\* Whatever runs have left in the directory: a file that is there has its type.
Shaped(bundle) == \A f \in File : bundle[f] \in {None, Torn} \/ bundle[f] \in Content[f]

\* A run goes through the files in order, and what it has behind it is its own work.
Written(g) == \A i \in 1 .. Len(GENESIS_FILES) :
  i < g.next => output[GENESIS_FILES[i]] = Applied(g.subs)[GENESIS_FILES[i]]

GenerateInv ==
  generate = Idle \/ /\ generate = [phase |-> "writing", subs |-> generate.subs,
                                    da |-> generate.da, next |-> generate.next]
                     /\ generate.subs \in SubstitutionMaps
                     /\ generate.next \in 1 .. Len(GENESIS_FILES) + 1
                     /\ Written(generate) /\ vouched = None

\* Behind a verdict stand the checks of the node and, if it is generate's, one keys.toml.
Founded(verdict, bundle) ==
  verdict # None =>
    /\ CreateGenesisConfig(bundle, verdict.da)
    /\ verdict.subs # None => verdict.subs \in SubstitutionMaps /\ bundle = Applied(verdict.subs)

ToolInv ==
  /\ template \in Templates
  /\ output = [f \in File |-> output[f]] /\ Shaped(output)
  /\ GenerateInv
  /\ Founded(vouched, output)
  /\ deployed # None =>
       Shaped(deployed.bundle) /\ Founded(deployed.vouched, deployed.bundle)

LEMMA Files ==
  /\ Len(GENESIS_FILES) = 4
  /\ \A i \in 1 .. 4 : GENESIS_FILES[i] \in File
  /\ \A f \in File : \E i \in 1 .. 4 : f = GENESIS_FILES[i]
  /\ \A i, j \in 1 .. 4 : GENESIS_FILES[i] = GENESIS_FILES[j] => i = j
BY DEF GENESIS_FILES, File

LEMMA BundleIsShaped ==
  ASSUME NEW bundle \in Bundle
  PROVE  /\ Shaped(bundle) /\ bundle = [f \in File |-> bundle[f]]
         /\ \A f \in File : bundle[f] \in Content[f]
<1>1. \A f \in File : bundle[f] \in Content[f]
  BY DEF Bundle, File
<1>2. bundle = [f \in File |-> bundle[f]]
  BY DEF Bundle, File
<1>3. QED
  BY <1>1, <1>2 DEF Shaped

LEMMA AppliedIsBundle ==
  ASSUME template \in Templates, NEW subs \in SubstitutionMaps
  PROVE  Applied(subs) \in Bundle
BY TemplatesAssumption, SubstitutedBundle DEF Applied

LEMMA InitToolInv == Init => ToolInv
<1> SUFFICES ASSUME Init PROVE ToolInv
  OBVIOUS
<1>1. output = NoFiles /\ generate = Idle /\ vouched = None /\ deployed = None
  BY DEF Init
<1>2. output = [f \in File |-> output[f]] /\ Shaped(output)
  BY <1>1 DEF NoFiles, Shaped
<1>3. QED
  BY <1>1, <1>2 DEF Init, ToolInv, GenerateInv, Founded

\* A step of the tool that leaves nothing vouched for.
LEMMA DirectoryStep ==
  ASSUME ToolInv, UNCHANGED <<template, deployed>>,
         output' = [f \in File |-> output'[f]], Shaped(output)', GenerateInv', vouched' = None
  PROVE  ToolInv'
BY DEF ToolInv, Founded, Applied, Shaped

LEMMA TruncateStep == ToolInv /\ Truncate => ToolInv'
<1> SUFFICES ASSUME ToolInv, Truncate PROVE ToolInv'
  OBVIOUS
<1> DEFINE n == generate.next
<1>1. /\ generate.phase = "writing" /\ n <= 4 /\ generate' = generate
      /\ output' = [output EXCEPT ![GENESIS_FILES[n]] = Torn]
      /\ UNCHANGED <<template, deployed, vouched>>
  BY Files DEF Truncate, Writing, Current
<1>2. /\ n \in 1 .. 4 /\ Written(generate) /\ vouched = None
      /\ generate.subs \in SubstitutionMaps
  BY <1>1, Files DEF ToolInv, GenerateInv, Idle
<1>3. GENESIS_FILES[n] \in File /\ DOMAIN output = File
  BY <1>2, Files DEF ToolInv
<1>4. Shaped(output)' /\ output' = [f \in File |-> output'[f]]
  BY <1>1, <1>3 DEF ToolInv, Shaped
<1>5. Written(generate)'
  BY <1>1, <1>2, <1>3, Files DEF Written, Applied
<1>6. GenerateInv'
  <2>1. generate = [phase |-> "writing", subs |-> generate.subs,
                    da |-> generate.da, next |-> generate.next]
    BY <1>1 DEF ToolInv, GenerateInv, Idle
  <2>2. QED
    BY <1>1, <1>2, <1>5, <2>1, Files DEF GenerateInv
<1>7. QED
  BY <1>1, <1>2, <1>4, <1>6, DirectoryStep

LEMMA WriteFileStep == ToolInv /\ WriteFile => ToolInv'
<1> SUFFICES ASSUME ToolInv, WriteFile PROVE ToolInv'
  OBVIOUS
<1> DEFINE n == generate.next
           whole == Applied(generate.subs)
<1>1. /\ generate.phase = "writing" /\ n <= 4
      /\ output' = [output EXCEPT ![GENESIS_FILES[n]] = whole[GENESIS_FILES[n]]]
      /\ generate' = [generate EXCEPT !.next = n + 1]
      /\ UNCHANGED <<template, deployed, vouched>>
  BY Files DEF WriteFile, Writing, Current, Applied
<1>2. /\ n \in 1 .. 4 /\ Written(generate) /\ vouched = None
      /\ generate.subs \in SubstitutionMaps
  BY <1>1, Files DEF ToolInv, GenerateInv, Idle
<1>3. GENESIS_FILES[n] \in File /\ DOMAIN output = File
  BY <1>2, Files DEF ToolInv
<1>4. \A f \in File : whole[f] \in Content[f]
  BY <1>2, AppliedIsBundle, BundleIsShaped DEF ToolInv
<1> HIDE DEF whole
<1>5. Shaped(output)' /\ output' = [f \in File |-> output'[f]]
  BY <1>1, <1>3, <1>4 DEF ToolInv, Shaped
<1>6. /\ generate'.subs = generate.subs /\ generate'.next = n + 1
      /\ generate' = [phase |-> "writing", subs |-> generate'.subs,
                      da |-> generate'.da, next |-> generate'.next]
  BY <1>1, <1>2 DEF ToolInv, GenerateInv, Idle
<1>7. Written(generate)'
  <2>1. Applied(generate.subs)' = whole
    BY <1>1 DEF Applied, whole
  <2>2. SUFFICES ASSUME NEW i \in 1 .. 4, i < n + 1
                 PROVE  output'[GENESIS_FILES[i]] = whole[GENESIS_FILES[i]]
    BY <1>6, <2>1, Files DEF Written, Applied
  <2>3. CASE i = n
    BY <1>1, <1>3, <2>3
  <2>4. CASE i # n
    <3>1. i < n /\ GENESIS_FILES[i] # GENESIS_FILES[n] /\ GENESIS_FILES[i] \in File
      BY <1>2, <2>2, <2>4, Files
    <3>2. output[GENESIS_FILES[i]] = whole[GENESIS_FILES[i]]
      BY <1>2, <3>1, Files DEF Written, whole
    <3>3. QED
      BY <1>1, <1>3, <3>1, <3>2
  <2>5. QED
    BY <2>3, <2>4
<1>8. GenerateInv'
  BY <1>1, <1>2, <1>6, <1>7, Files DEF GenerateInv
<1>9. QED
  BY <1>1, <1>2, <1>5, <1>8, DirectoryStep

\* The last file is written, and the files are there as one run made them.
LEMMA FinishedIsWhole ==
  ASSUME ToolInv, FinishGenerate
  PROVE  generate.subs \in SubstitutionMaps /\ output = Applied(generate.subs)
<1>1. generate.phase = "writing" /\ generate.next > 4
  BY Files DEF FinishGenerate
<1>2. generate.subs \in SubstitutionMaps /\ generate.next \in Nat /\ Written(generate)
  BY <1>1, Files DEF ToolInv, GenerateInv, Idle
<1>3. \A f \in File : output[f] = Applied(generate.subs)[f]
  BY <1>1, <1>2, Files DEF Written
<1>4. Applied(generate.subs) = [f \in File |-> Applied(generate.subs)[f]]
  BY <1>2, AppliedIsBundle, BundleIsShaped DEF ToolInv
<1>5. output = [f \in File |-> output[f]]
  BY DEF ToolInv
<1>6. QED
  BY <1>2, <1>3, <1>4, <1>5

LEMMA FinishStep == ToolInv /\ FinishGenerate => ToolInv'
<1> SUFFICES ASSUME ToolInv, FinishGenerate PROVE ToolInv'
  OBVIOUS
<1>1. UNCHANGED <<template, output, deployed>> /\ generate' = Idle
  BY DEF FinishGenerate
<1>2. generate.subs \in SubstitutionMaps /\ output = Applied(generate.subs)
  BY FinishedIsWhole
<1>3. Founded(vouched, output)'
  <2>1. CASE CreateGenesisConfig(output, generate.da)
    <3>1. vouched'.da = generate.da /\ vouched'.subs = generate.subs
      BY <2>1 DEF FinishGenerate
    <3>2. QED
      BY <1>1, <1>2, <2>1, <3>1 DEF Founded, Applied
  <2>2. CASE ~CreateGenesisConfig(output, generate.da)
    BY <2>2 DEF FinishGenerate, Founded
  <2>3. QED
    BY <2>1, <2>2
<1>4. QED
  BY <1>1, <1>3 DEF ToolInv, GenerateInv, Founded, Applied, Shaped

LEMMA VerifyStep == ASSUME NEW da, ToolInv, Verify(da) PROVE ToolInv'
<1>1. /\ UNCHANGED <<template, output, generate, deployed>> /\ generate = Idle
      /\ CreateGenesisConfig(output, da)
      /\ vouched'.subs = (IF vouched = None THEN None ELSE vouched.subs) /\ vouched'.da = da
  BY DEF Verify
<1>2. Founded(vouched, output)'
  <2>1. CASE vouched = None
    BY <1>1, <2>1 DEF Founded
  <2>2. CASE vouched # None
    BY <1>1, <2>2 DEF ToolInv, Founded, Applied
  <2>3. QED
    BY <2>1, <2>2
<1>3. QED
  BY <1>1, <1>2 DEF ToolInv, GenerateInv, Founded, Applied, Shaped

LEMMA DeployStep == ToolInv /\ Deploy => ToolInv'
<1> SUFFICES ASSUME ToolInv, Deploy PROVE ToolInv'
  OBVIOUS
<1>1. UNCHANGED <<template, output, generate, vouched>> /\ generate = Idle
  BY DEF Deploy, tool
<1>2. template \in Bundle
  BY TemplatesAssumption DEF ToolInv
<1>3. Shaped(deployed.bundle)' /\ Founded(deployed.vouched, deployed.bundle)'
  <2>1. CASE deployed' = [bundle |-> output, vouched |-> vouched]
    BY <1>1, <2>1 DEF ToolInv, Founded, Applied, Shaped
  <2>2. CASE deployed' = [bundle |-> template, vouched |-> None]
    BY <1>2, <2>2, BundleIsShaped DEF Founded, Shaped
  <2>3. QED
    BY <2>1, <2>2 DEF Deploy
<1>4. QED
  BY <1>1, <1>3 DEF ToolInv, GenerateInv, Founded, Applied, Shaped

\* The node only reads the bundle.
NodeStep ==
  \/ \E da \in DaFlavor : Boot(da)
  \/ SeedAttestorSet \/ SetsAreSeeded \/ SeedSchema \/ StartChain

LEMMA NodeStepOfTool == NodeStep => UNCHANGED <<template, tool, deployed>>
BY DEF NodeStep, Boot, SeedAttestorSet, SetsAreSeeded, SeedSchema, StartChain

LEMMA NextToolInv == ToolInv /\ [Next]_vars => ToolInv'
<1> SUFFICES ASSUME ToolInv, [Next]_vars PROVE ToolInv'
  OBVIOUS
<1>1. ASSUME NEW subs \in SubstitutionMaps, NEW da \in DaFlavor, StartGenerate(subs, da)
      PROVE  ToolInv'
  <2>1. /\ generate' = [phase |-> "writing", subs |-> subs, da |-> da, next |-> 1]
        /\ vouched' = None /\ UNCHANGED <<template, output, deployed>>
    BY <1>1 DEF StartGenerate
  <2>2. GenerateInv'
    BY <2>1, Files DEF GenerateInv, Written
  <2>3. QED
    BY <2>1, <2>2, DirectoryStep DEF ToolInv, Shaped
<1>2. CASE StopGenerate
  BY <1>2 DEF StopGenerate, ToolInv, GenerateInv, Founded, Applied, Shaped
<1>3. ASSUME UNCHANGED <<template, tool, deployed>>
      PROVE  ToolInv'
  BY <1>3 DEF tool, ToolInv, GenerateInv, Written, Founded, Applied, Shaped
<1>4. CASE NodeStep
  BY <1>3, <1>4, NodeStepOfTool
<1>5. CASE UNCHANGED vars
  BY <1>3, <1>5 DEF vars
<1>6. QED
  BY <1>1, <1>2, <1>4, <1>5, TruncateStep, WriteFileStep, FinishStep, VerifyStep, DeployStep
  DEF Next, NodeStep

LEMMA ToolInvHolds == Spec => []ToolInv
BY InitToolInv, NextToolInv, PTL DEF Spec

\* What generate has said OK to comes from one run of it: every file has the
\* substitutions of one keys.toml, whatever stopped runs have left in the directory.
THEOREM GeneratedBundlesAreWhole == Spec => []GeneratedIsWhole
<1>1. ToolInv => GeneratedIsWhole
  BY DEF ToolInv, Founded, GeneratedIsWhole, Generated, Vouched, Applied
<1>2. QED
  BY <1>1, ToolInvHolds, PTL

-----------------------------------------------------------------------------
(* Whoever held several places holds them still                            *)

Holder == Name \cup {None}

\* The second list is the first one with the substitutions made.
Mapped(addresses, was, now) ==
  /\ was \in Seq(Holder) /\ now \in Seq(Holder) /\ Len(now) = Len(was)
  /\ \A i \in 1 .. Len(was) : now[i] = Substitute(addresses, was[i])

LEMMA MappedConcat ==
  ASSUME NEW addresses, NEW was1, NEW now1, NEW was2, NEW now2,
         Mapped(addresses, was1, now1), Mapped(addresses, was2, now2)
  PROVE  Mapped(addresses, was1 \o was2, now1 \o now2)
<1>1. /\ was1 \in Seq(Holder) /\ now1 \in Seq(Holder) /\ Len(now1) = Len(was1)
      /\ was2 \in Seq(Holder) /\ now2 \in Seq(Holder) /\ Len(now2) = Len(was2)
  BY DEF Mapped
<1>2. /\ was1 \o was2 \in Seq(Holder) /\ now1 \o now2 \in Seq(Holder)
      /\ Len(was1 \o was2) = Len(was1) + Len(was2) /\ Len(now1 \o now2) = Len(was1 \o was2)
  BY <1>1
<1>3. ASSUME NEW i \in 1 .. Len(was1 \o was2)
      PROVE  (now1 \o now2)[i] = Substitute(addresses, (was1 \o was2)[i])
  <2>1. CASE i <= Len(was1)
    <3>1. (now1 \o now2)[i] = now1[i] /\ (was1 \o was2)[i] = was1[i] /\ i \in 1 .. Len(was1)
      BY <1>1, <2>1
    <3>2. QED
      BY <3>1 DEF Mapped
  <2>2. CASE i > Len(was1)
    <3>1. /\ (now1 \o now2)[i] = now2[i - Len(was1)]
          /\ (was1 \o was2)[i] = was2[i - Len(was1)]
          /\ i - Len(was1) \in 1 .. Len(was2)
      BY <1>1, <1>2, <2>2
    <3>2. QED
      BY <3>1 DEF Mapped
  <2>3. QED
    BY <1>1, <2>1, <2>2
<1>4. QED
  BY <1>2, <1>3 DEF Mapped

LEMMA HoldersAreMapped ==
  ASSUME NEW subs \in SubstitutionMaps, NEW t \in Bundle
  PROVE  Mapped(subs.addresses, Holders(t), Holders(SubstituteAddresses(subs, t)))
<1> DEFINE now == SubstituteAddresses(subs, t)
           addresses == subs.addresses
           singles(bundle) == <<bundle.sequencer_registry.seq_rollup_address,
                                bundle.operator_incentives.reward_address, bundle.attestation.treasury>>
           rows(bundle) == LET list == bundle.bank.address_and_balances
                           IN  [i \in DOMAIN list |-> list[i].address]
           owners(bundle) == LET list == bundle.attestation.initial_schemas
                             IN  [i \in DOMAIN list |-> list[i].owner]
           builders(bundle) == LET list == bundle.attestation.initial_schemas
                               IN  [i \in DOMAIN list |-> list[i].fee_routing_addr]
<1>1. /\ t.sequencer_registry.seq_rollup_address \in Name
      /\ t.operator_incentives.reward_address \in Name /\ t.attestation.treasury \in Name
      /\ t.bank.address_and_balances \in Seq(BalanceEntry)
      /\ t.attestation.initial_schemas \in Seq(SchemaEntry)
  <2>1. /\ t.bank \in Content.bank /\ t.sequencer_registry \in Content.sequencer_registry
        /\ t.operator_incentives \in Content.operator_incentives
        /\ t.attestation \in Content.attestation
    BY DEF Bundle
  <2>2. QED
    BY <2>1 DEF Content
<1>2. Mapped(addresses, singles(t), singles(now))
  <2>1. /\ singles(now)[1] = Substitute(addresses, singles(t)[1])
        /\ singles(now)[2] = Substitute(addresses, singles(t)[2])
        /\ singles(now)[3] = Substitute(addresses, singles(t)[3])
    BY SubstitutedBundle
  <2>2. \A i \in 1 .. 3 : singles(t)[i] \in Holder
    BY <1>1 DEF Holder
  <2>3. \A i \in 1 .. 3 : singles(now)[i] \in Holder
    BY <2>1, <2>2, SubstituteType DEF Holder
  <2>4. QED
    BY <2>1, <2>2, <2>3 DEF Mapped
<1>3. Mapped(addresses, rows(t), rows(now))
  <2> DEFINE list == t.bank.address_and_balances
  <2>1. now.bank.address_and_balances = BankList(subs, list)
    BY SubstitutedBundle
  <2>2. /\ DOMAIN list = 1 .. Len(list) /\ Len(list) \in Nat
        /\ \A i \in 1 .. Len(list) : list[i].address \in Holder
    <3>1. DOMAIN list = 1 .. Len(list) /\ Len(list) \in Nat
      BY <1>1
    <3>2. \A i \in 1 .. Len(list) : list[i] \in BalanceEntry
      BY <1>1, <3>1
    <3>3. QED
      BY <3>1, <3>2 DEF BalanceEntry, Holder
  <2>3. /\ DOMAIN BankList(subs, list) = 1 .. Len(list)
        /\ \A i \in 1 .. Len(list) : BankList(subs, list)[i].address = Substitute(addresses, list[i].address)
    BY <1>1, <2>2, BankListType DEF BankList
  <2>4. \A i \in 1 .. Len(list) : Substitute(addresses, list[i].address) \in Holder
    BY <2>2, SubstituteType DEF Holder
  <2>5. rows(t) = [i \in 1 .. Len(list) |-> list[i].address]
    BY <2>2
  <2>6. rows(now) = [i \in 1 .. Len(list) |-> Substitute(addresses, list[i].address)]
    BY <2>1, <2>3
  <2> HIDE DEF list, rows
  <2>7. rows(t) \in [1 .. Len(list) -> Holder] /\ rows(now) \in [1 .. Len(list) -> Holder]
    BY <2>2, <2>4, <2>5, <2>6
  <2>8. QED
    BY <2>2, <2>5, <2>6, <2>7 DEF Mapped
<1>4. Mapped(addresses, owners(t), owners(now)) /\ Mapped(addresses, builders(t), builders(now))
  <2> DEFINE list == t.attestation.initial_schemas
             new == SchemaList(subs, list)
  <2>1. now.attestation.initial_schemas = new
    BY SubstitutedBundle
  <2>2. DOMAIN list = 1 .. Len(list) /\ Len(list) \in Nat
    BY <1>1
  <2>3. \A i \in 1 .. Len(list) : list[i] \in SchemaEntry
    BY <1>1, <2>2
  <2>4. \A i \in 1 .. Len(list) : list[i].owner \in Holder /\ list[i].fee_routing_addr \in Holder
    BY <2>3 DEF SchemaEntry, Holder
  <2>5. /\ DOMAIN new = 1 .. Len(list)
        /\ \A i \in 1 .. Len(list) :
             /\ new[i].owner = Substitute(addresses, list[i].owner)
             /\ new[i].fee_routing_addr = Substitute(addresses, list[i].fee_routing_addr)
    BY <1>1, <2>2, SchemaListType DEF SchemaList
  <2>6. \A x \in Holder : Substitute(addresses, x) \in Holder
    BY SubstituteType DEF Holder
  <2>7. /\ owners(t) = [i \in 1 .. Len(list) |-> list[i].owner]
        /\ builders(t) = [i \in 1 .. Len(list) |-> list[i].fee_routing_addr]
    BY <2>2
  <2> HIDE DEF new
  <2>8. /\ owners(now) = [i \in 1 .. Len(list) |-> Substitute(addresses, list[i].owner)]
        /\ builders(now) = [i \in 1 .. Len(list) |-> Substitute(addresses, list[i].fee_routing_addr)]
    BY <2>1, <2>5
  <2> HIDE DEF list, owners, builders
  <2>9. /\ owners(t) \in [1 .. Len(list) -> Holder] /\ owners(now) \in [1 .. Len(list) -> Holder]
        /\ builders(t) \in [1 .. Len(list) -> Holder] /\ builders(now) \in [1 .. Len(list) -> Holder]
    BY <2>4, <2>6, <2>7, <2>8
  <2>10. Mapped(addresses, owners(t), owners(now))
    <3>1. \A i \in 1 .. Len(list) : owners(now)[i] = Substitute(addresses, owners(t)[i])
      BY <2>7, <2>8
    <3>2. /\ owners(t) \in Seq(Holder) /\ Len(owners(t)) = Len(list)
          /\ owners(now) \in Seq(Holder) /\ Len(owners(now)) = Len(list)
      BY <2>2, <2>9
    <3>3. QED
      BY <3>1, <3>2 DEF Mapped
  <2>11. Mapped(addresses, builders(t), builders(now))
    <3>1. \A i \in 1 .. Len(list) : builders(now)[i] = Substitute(addresses, builders(t)[i])
      BY <2>7, <2>8
    <3>2. /\ builders(t) \in Seq(Holder) /\ Len(builders(t)) = Len(list)
          /\ builders(now) \in Seq(Holder) /\ Len(builders(now)) = Len(list)
      BY <2>2, <2>9
    <3>3. QED
      BY <3>1, <3>2 DEF Mapped
  <2>12. QED
    BY <2>10, <2>11
<1>5. /\ Holders(t) = singles(t) \o rows(t) \o owners(t) \o builders(t)
      /\ Holders(now) = singles(now) \o rows(now) \o owners(now) \o builders(now)
  BY DEF Holders
<1> HIDE DEF singles, rows, owners, builders
<1>6. QED
  BY <1>2, <1>3, <1>4, <1>5, MappedConcat

\* Each row of the bank file starts with the balance keys.toml gives its address, the one
\* it has after the substitution, or else with the template's.
LEMMA RowsAreGiven ==
  ASSUME NEW subs \in SubstitutionMaps, NEW t \in Bundle
  PROVE  LET rows == SubstituteAddresses(subs, t).bank.address_and_balances
             was == t.bank.address_and_balances
         IN  \A i \in DOMAIN rows :
               rows[i].balance = IF rows[i].address \in DOMAIN subs.balances
                                 THEN subs.balances[rows[i].address] ELSE was[i].balance
<1> DEFINE was == t.bank.address_and_balances
<1>1. was \in Seq(BalanceEntry)
  <2>1. t.bank \in Content.bank
    BY DEF Bundle
  <2>2. QED
    BY <2>1 DEF Content
<1>2. SubstituteAddresses(subs, t).bank.address_and_balances = BankList(subs, was)
  BY SubstitutedBundle
<1> HIDE DEF was
<1>3. DOMAIN BankList(subs, was) = DOMAIN was
      /\ \A i \in DOMAIN was : was[i] \in BalanceEntry /\ BankList(subs, was)[i] = BankRow(subs, was[i])
  BY <1>1 DEF BankList
<1>4. ASSUME NEW row \in BalanceEntry
      PROVE  LET now == BankRow(subs, row)
             IN  now.balance = IF now.address \in DOMAIN subs.balances
                               THEN subs.balances[now.address] ELSE row.balance
  <2> DEFINE there == [row EXCEPT !.address = Substitute(subs.addresses, @)]
  <2>1. there \in BalanceEntry /\ there.balance = row.balance
    BY SubstituteType DEF BalanceEntry
  <2>2. BankRow(subs, row) = ApplyBalanceOverride(subs.balances, there)
    BY DEF BankRow
  <2> HIDE DEF there
  <2>3. QED
    BY <2>1, <2>2 DEF ApplyBalanceOverride, BalanceEntry
<1>5. QED
  BY <1>2, <1>3, <1>4 DEF was

\* Whoever held several places of the template still holds them together, across files;
\* two holders stay two, unless keys.toml gives both the same key; and each address of the
\* bank file starts with the balance keys.toml gives it, or else with the template's.
THEOREM RolesStayTogether == Spec => []RolesArePreserved
<1>0. ASSUME ToolInv, Generated
      PROVE  LET given == deployed.vouched.subs.balances
                 rows == deployed.bundle.bank.address_and_balances
             IN  \A i \in DOMAIN rows :
                   rows[i].balance = IF rows[i].address \in DOMAIN given
                                     THEN given[rows[i].address]
                                     ELSE template.bank.address_and_balances[i].balance
  BY <1>0, TemplatesAssumption, RowsAreGiven
  DEF ToolInv, Founded, Generated, Vouched, Applied
<1>1. ASSUME ToolInv, Generated
      PROVE  LET was == Holders(template)
                 now == Holders(deployed.bundle)
                 keys == deployed.vouched.subs.addresses
                 apart == IsInjective(keys) /\ Range(keys) \cap Range(was) \subseteq DOMAIN keys
             IN  \A i, j \in DOMAIN was : /\ was[i] = was[j] => now[i] = now[j]
                                          /\ apart /\ now[i] = now[j] => was[i] = was[j]
  <2> DEFINE was == Holders(template)
             now == Holders(deployed.bundle)
             keys == deployed.vouched.subs.addresses
  <2>1. Mapped(keys, was, now)
    BY <1>1, TemplatesAssumption, HoldersAreMapped
    DEF ToolInv, Founded, Generated, Vouched, Applied
  <2> HIDE DEF was, now, keys
  <2>2. DOMAIN was = 1 .. Len(was) /\ \A i \in DOMAIN was : now[i] = Substitute(keys, was[i])
    BY <2>1 DEF Mapped
  <2>3. ASSUME NEW i \in DOMAIN was, NEW j \in DOMAIN was, IsInjective(keys),
               Range(keys) \cap Range(was) \subseteq DOMAIN keys, now[i] = now[j]
        PROVE  was[i] = was[j]
    <3>1. Substitute(keys, was[i]) = Substitute(keys, was[j])
      BY <2>2, <2>3
    <3>2. \A k \in DOMAIN was : was[k] \in Range(keys) => was[k] \in DOMAIN keys
      BY <2>3 DEF Range
    <3>3. \A a \in DOMAIN keys : keys[a] \in Range(keys)
      BY DEF Range
    <3>4. QED
      BY <2>3, <3>1, <3>2, <3>3 DEF Substitute, IsInjective
  <2>4. \A i, j \in DOMAIN was : was[i] = was[j] => now[i] = now[j]
    BY <2>2
  <2>5. QED
    BY <2>3, <2>4 DEF was, now, keys
<1>2. ToolInv => RolesArePreserved
  BY <1>0, <1>1 DEF RolesArePreserved
<1>3. QED
  BY <1>2, ToolInvHolds, PTL

-----------------------------------------------------------------------------
(* Seeding                                                                 *)

Sets == Config.initial_attestor_sets
Schemas == Config.initial_schemas
SetIds(n) == {DeriveSetId(Sets[i]) : i \in {j \in DOMAIN Sets : j <= n}}

\* The entries written so far are the first entries of the file's list.
Prefix(n) ==
  /\ chain.schemas \in Seq(SchemaEntry) /\ Len(chain.schemas) = n /\ n <= Len(Schemas)
  /\ \A i \in 1 .. n : chain.schemas[i] = Schemas[i]

SeedInv ==
  \/ node = Idle /\ chain = NoState
  \/ /\ node.phase = "refused" /\ chain = NoState
     /\ deployed # None /\ node = [phase |-> "refused", da |-> node.da]
     /\ ~CreateGenesisConfig(deployed.bundle, node.da)
  \/ /\ deployed # None /\ Config \in Content.attestation /\ ValidateAttestationConfig(Config)
     /\ chain = [attestor_sets |-> chain.attestor_sets, schemas |-> chain.schemas]
     /\ \/ /\ node = [phase |-> "sets", next |-> node.next] /\ node.next \in Nat \ {0}
           /\ node.next <= Len(Sets) + 1
           /\ chain.attestor_sets = SetIds(node.next - 1) /\ chain.schemas = <<>>
        \/ /\ node = [phase |-> "schemas", next |-> node.next] /\ node.next \in Nat \ {0}
           /\ chain.attestor_sets = SetIds(Len(Sets)) /\ Prefix(node.next - 1)
        \/ /\ node = [phase |-> "running"]
           /\ chain.attestor_sets = SetIds(Len(Sets)) /\ Prefix(Len(Schemas))

LEMMA ConfigLists ==
  ASSUME Config \in Content.attestation
  PROVE  /\ Sets \in Seq(AttestorSetEntry) /\ DOMAIN Sets = 1 .. Len(Sets) /\ Len(Sets) \in Nat
         /\ Schemas \in Seq(SchemaEntry) /\ DOMAIN Schemas = 1 .. Len(Schemas)
         /\ Len(Schemas) \in Nat
<1>1. Sets \in Seq(AttestorSetEntry) /\ Schemas \in Seq(SchemaEntry)
  BY DEF Sets, Schemas, Content
<1>2. QED
  BY <1>1

\* The checks of the file, in the words of the steps that seed.
LEMMA Validated ==
  ASSUME ValidateAttestationConfig(Config)
  PROVE  /\ \A i \in DOMAIN Sets : SetIsSound(Sets[i])
         /\ \A i, j \in DOMAIN Sets : DeriveSetId(Sets[i]) = DeriveSetId(Sets[j]) => i = j
         /\ \A i \in DOMAIN Schemas : RoutingIsSound(Schemas[i], Config.max_builder_bps)
         /\ \A i \in DOMAIN Schemas : \E j \in DOMAIN Sets :
              Schemas[i].attestor_set = DeriveSetId(Sets[j])
         /\ \A i, j \in DOMAIN Schemas :
              DeriveSchemaId(Schemas[i]) = DeriveSchemaId(Schemas[j]) => i = j
BY DEF ValidateAttestationConfig, Unique, Sets, Schemas

LEMMA BootStep ==
  ASSUME ToolInv, SeedInv, NEW da, Boot(da)
  PROVE  SeedInv'
<1>1. /\ deployed # None /\ node = Idle /\ chain = NoState /\ chain' = chain /\ deployed' = deployed
      /\ node' = IF CreateGenesisConfig(deployed.bundle, da)
                 THEN [phase |-> "sets", next |-> 1] ELSE [phase |-> "refused", da |-> da]
  BY DEF Boot, SeedInv, Idle
<1>2. CASE ~CreateGenesisConfig(deployed.bundle, da)
  BY <1>1, <1>2 DEF SeedInv
<1>3. CASE CreateGenesisConfig(deployed.bundle, da)
  <2>1. Config \in Content.attestation /\ ValidateAttestationConfig(Config)
    <3>1. "attestation" \in File /\ Config = deployed.bundle["attestation"]
      BY DEF File, Config
    <3>2. Config # None /\ Config # Torn
      BY <1>3, <3>1 DEF CreateGenesisConfig, ReadJson
    <3>3. Config \in Content["attestation"]
      BY <1>1, <3>1, <3>2 DEF ToolInv, Shaped
    <3>4. ValidateAttestationConfig(Config)
      BY <1>3 DEF CreateGenesisConfig, ValidateConfig, Config
    <3>5. QED
      BY <3>3, <3>4
  <2>2. Config' = Config /\ Sets' = Sets
    BY <1>1 DEF Config, Sets
  <2>3. SetIds(0) = {}
    BY <2>1, ConfigLists DEF SetIds
  <2>4. node' = [phase |-> "sets", next |-> 1] /\ chain' = [attestor_sets |-> {}, schemas |-> <<>>]
    BY <1>1, <1>3 DEF NoState
  <2>5. SetIds(0)' = SetIds(0)
    BY <2>2 DEF SetIds
  <2>6. Len(Sets) \in Nat
    BY <2>1, ConfigLists
  <2>7. deployed' # None /\ Config' \in Content.attestation /\ ValidateAttestationConfig(Config)'
    <3>1. ValidateAttestationConfig(Config)'
      BY <2>1, <2>2 DEF ValidateAttestationConfig
    <3>2. QED
      BY <1>1, <2>1, <2>2, <3>1
  <2>8. node'.next = 1 /\ chain'.attestor_sets = SetIds(1 - 1)' /\ chain'.schemas = <<>>
    BY <2>3, <2>4, <2>5
  <2>9. QED
    BY <2>2, <2>4, <2>6, <2>7, <2>8 DEF SeedInv
<1>4. QED
  BY <1>2, <1>3

\* While the node seeds, its configuration stays and stays valid.
Seeding == deployed # None /\ Config \in Content.attestation /\ ValidateAttestationConfig(Config)

LEMMA SameConfig ==
  ASSUME Seeding, deployed' = deployed
  PROVE  /\ Seeding' /\ Sets' = Sets /\ Schemas' = Schemas /\ Config' = Config
         /\ \A n \in Nat : SetIds(n)' = SetIds(n)
<1>1. Config' = Config /\ Sets' = Sets /\ Schemas' = Schemas
  BY DEF Config, Sets, Schemas
<1>2. \A n \in Nat : SetIds(n)' = SetIds(n)
  BY <1>1 DEF SetIds
<1>3. ValidateAttestationConfig(Config)'
  BY <1>1 DEF Seeding, ValidateAttestationConfig
<1>4. Seeding'
  BY <1>1, <1>3 DEF Seeding
<1>5. QED
  BY <1>1, <1>2, <1>4

LEMMA SeedAttestorSetStep ==
  ASSUME SeedInv, SeedAttestorSet
  PROVE  SeedInv'
<1> DEFINE n == node.next
           id == DeriveSetId(Sets[n])
<1>1. /\ Seeding /\ deployed' = deployed /\ n \in DOMAIN Sets /\ node.phase = "sets"
      /\ node = [phase |-> "sets", next |-> n] /\ n \in Nat \ {0} /\ n <= Len(Sets) + 1
      /\ chain = [attestor_sets |-> chain.attestor_sets, schemas |-> chain.schemas]
      /\ chain.attestor_sets = SetIds(n - 1) /\ chain.schemas = <<>>
  BY DEF SeedAttestorSet, SeedInv, Idle, Sets, Seeding
<1>2. DOMAIN Sets = 1 .. Len(Sets) /\ Len(Sets) \in Nat
  BY <1>1, ConfigLists DEF Seeding
<1>3. SetIsSound(Sets[n]) /\ id \notin SetIds(n - 1)
  BY <1>1, <1>2, Validated DEF Seeding, SetIds
<1>4. /\ chain' = [chain EXCEPT !.attestor_sets = @ \cup {id}]
      /\ node' = [node EXCEPT !.next = @ + 1]
  BY <1>1, <1>3 DEF SeedAttestorSet, Sets
<1>5. SetIds(n) = SetIds(n - 1) \cup {id}
  BY <1>1, <1>2 DEF SetIds
<1> HIDE DEF n, id
<1>6. /\ node' = [phase |-> "sets", next |-> n + 1]
      /\ chain' = [attestor_sets |-> SetIds(n), schemas |-> <<>>]
  BY <1>1, <1>4, <1>5 DEF n
<1>7. Sets' = Sets /\ Seeding'
  BY <1>1, SameConfig
<1>8. n + 1 \in Nat \ {0} /\ n + 1 <= Len(Sets) + 1 /\ (n + 1) - 1 = n
  BY <1>1, <1>2
<1>9. SetIds(node.next - 1)' = SetIds(n)
  <2>1. node'.next - 1 = n
    BY <1>6, <1>8
  <2>2. QED
    BY <1>7, <2>1 DEF SetIds
<1>10. QED
  BY <1>6, <1>7, <1>8, <1>9 DEF SeedInv, Seeding

LEMMA SetsAreSeededStep ==
  ASSUME SeedInv, SetsAreSeeded
  PROVE  SeedInv'
<1>1. /\ Seeding /\ deployed' = deployed /\ node.next \notin DOMAIN Sets /\ chain' = chain
      /\ node' = [phase |-> "schemas", next |-> 1]
      /\ node.next \in Nat \ {0} /\ node.next <= Len(Sets) + 1
      /\ chain = [attestor_sets |-> chain.attestor_sets, schemas |-> chain.schemas]
      /\ chain.attestor_sets = SetIds(node.next - 1) /\ chain.schemas = <<>>
  BY DEF SetsAreSeeded, SeedInv, Idle, Sets, Seeding
<1>2. /\ DOMAIN Sets = 1 .. Len(Sets) /\ Len(Sets) \in Nat /\ Len(Schemas) \in Nat
      /\ Seeding' /\ Sets' = Sets /\ Schemas' = Schemas
      /\ SetIds(Len(Sets))' = SetIds(Len(Sets))
  BY <1>1, ConfigLists, SameConfig DEF Seeding
<1>3. node.next - 1 = Len(Sets)
  BY <1>1, <1>2
<1>4. chain'.attestor_sets = SetIds(Len(Sets))'
  BY <1>1, <1>2, <1>3
<1>5. node'.next = 1
  BY <1>1
<1>6. Prefix(node.next - 1)'
  BY <1>1, <1>2, <1>5 DEF Prefix
<1>7. QED
  BY <1>1, <1>2, <1>4, <1>5, <1>6 DEF SeedInv, Seeding

LEMMA SeedSchemaStep ==
  ASSUME SeedInv, SeedSchema
  PROVE  SeedInv'
<1> DEFINE n == node.next
           schema == Schemas[n]
<1>1. /\ Seeding /\ deployed' = deployed /\ n \in DOMAIN Schemas /\ node.phase = "schemas"
      /\ node = [phase |-> "schemas", next |-> n] /\ n \in Nat \ {0}
      /\ chain = [attestor_sets |-> chain.attestor_sets, schemas |-> chain.schemas]
      /\ chain.attestor_sets = SetIds(Len(Sets)) /\ Prefix(n - 1)
  BY DEF SeedSchema, SeedInv, Idle, Schemas, Seeding
<1>2. /\ DOMAIN Sets = 1 .. Len(Sets) /\ Len(Sets) \in Nat
      /\ DOMAIN Schemas = 1 .. Len(Schemas) /\ Len(Schemas) \in Nat /\ Schemas \in Seq(SchemaEntry)
  BY <1>1, ConfigLists DEF Seeding
<1>3. RoutingIsSound(schema, Config.max_builder_bps)
  BY <1>1, Validated DEF Seeding
<1>4. schema.attestor_set \in chain.attestor_sets
  BY <1>1, <1>2, Validated DEF Seeding, SetIds
<1>5. ~SchemaTaken(schema)
  <2>1. \A i \in DOMAIN chain.schemas : i \in 1 .. n - 1 /\ chain.schemas[i] = Schemas[i]
    BY <1>1 DEF Prefix
  <2>2. \A i \in 1 .. n - 1 : DeriveSchemaId(Schemas[i]) # DeriveSchemaId(schema)
    BY <1>1, <1>2, Validated DEF Seeding
  <2>3. QED
    BY <2>1, <2>2 DEF SchemaTaken
<1>6. /\ chain' = [chain EXCEPT !.schemas = Append(@, schema)]
      /\ node' = [node EXCEPT !.next = @ + 1]
  BY <1>1, <1>3, <1>4, <1>5 DEF SeedSchema, Schemas
<1>7. schema \in SchemaEntry
  BY <1>1, <1>2
<1> HIDE DEF n, schema
<1>8. /\ node' = [phase |-> "schemas", next |-> n + 1]
      /\ chain' = [attestor_sets |-> chain.attestor_sets, schemas |-> Append(chain.schemas, schema)]
  BY <1>1, <1>6 DEF n
<1>9. /\ Sets' = Sets /\ Schemas' = Schemas /\ Seeding'
      /\ SetIds(Len(Sets))' = SetIds(Len(Sets))
  BY <1>1, <1>2, SameConfig
<1>10. /\ Append(chain.schemas, schema) \in Seq(SchemaEntry)
       /\ Len(Append(chain.schemas, schema)) = n
       /\ \A i \in 1 .. n : Append(chain.schemas, schema)[i] = Schemas[i]
  BY <1>1, <1>2, <1>7 DEF Prefix, schema
<1>11. n <= Len(Schemas) /\ node'.next = n + 1 /\ (n + 1) - 1 = n /\ n + 1 \in Nat \ {0}
  BY <1>1, <1>2, <1>8
<1>12. Prefix(node.next - 1)'
  BY <1>8, <1>9, <1>10, <1>11 DEF Prefix
<1>13. chain'.attestor_sets = SetIds(Len(Sets))'
  BY <1>1, <1>8, <1>9
<1>14. QED
  BY <1>8, <1>9, <1>11, <1>12, <1>13 DEF SeedInv, Seeding

LEMMA StartChainStep ==
  ASSUME SeedInv, StartChain
  PROVE  SeedInv'
<1>1. /\ Seeding /\ deployed' = deployed /\ node.next \notin DOMAIN Schemas /\ chain' = chain
      /\ node' = [phase |-> "running"] /\ node.next \in Nat \ {0}
      /\ chain = [attestor_sets |-> chain.attestor_sets, schemas |-> chain.schemas]
      /\ chain.attestor_sets = SetIds(Len(Sets)) /\ Prefix(node.next - 1)
  BY DEF StartChain, SeedInv, Idle, Schemas, Seeding
<1>2. /\ DOMAIN Schemas = 1 .. Len(Schemas) /\ Len(Schemas) \in Nat /\ Len(Sets) \in Nat
      /\ Seeding' /\ Sets' = Sets /\ Schemas' = Schemas
      /\ SetIds(Len(Sets))' = SetIds(Len(Sets))
  BY <1>1, ConfigLists, SameConfig DEF Seeding
<1>3. node.next - 1 = Len(Schemas)
  BY <1>1, <1>2 DEF Prefix
<1>4. Prefix(Len(Schemas))'
  BY <1>1, <1>2, <1>3 DEF Prefix
<1>5. QED
  BY <1>1, <1>2, <1>4 DEF SeedInv, Seeding

LEMMA NextSeedInv ==
  ASSUME ToolInv, SeedInv, [Next]_vars
  PROVE  SeedInv'
<1>1. ASSUME UNCHANGED <<node, chain>>, deployed # None => deployed' = deployed
      PROVE  SeedInv'
  <2>1. CASE node = Idle /\ chain = NoState
    BY <1>1, <2>1 DEF SeedInv
  <2>2. CASE /\ node.phase = "refused" /\ chain = NoState
             /\ deployed # None /\ node = [phase |-> "refused", da |-> node.da]
             /\ ~CreateGenesisConfig(deployed.bundle, node.da)
    BY <1>1, <2>2 DEF SeedInv
  <2>3. CASE Seeding
    <3>1. /\ deployed' = deployed /\ Seeding' /\ Sets' = Sets /\ Schemas' = Schemas
          /\ SetIds(node.next - 1)' = SetIds(node.next - 1)
          /\ SetIds(Len(Sets))' = SetIds(Len(Sets))
      BY <1>1, <2>3, SameConfig DEF Seeding, SetIds
    <3>2. /\ Prefix(node.next - 1)' = Prefix(node.next - 1)
          /\ Prefix(Len(Schemas))' = Prefix(Len(Schemas))
      BY <1>1, <3>1 DEF Prefix
    <3>3. QED
      BY <1>1, <2>3, <3>1, <3>2 DEF SeedInv, Seeding
  <2>4. QED
    BY <2>1, <2>2, <2>3 DEF SeedInv, Seeding
<1>2. ASSUME NEW da, Boot(da) PROVE SeedInv'
  BY <1>2, BootStep
<1>3. CASE Deploy
  BY <1>1, <1>3 DEF Deploy
<1>4. CASE Truncate \/ WriteFile \/ FinishGenerate \/ StopGenerate
  BY <1>1, <1>4 DEF Truncate, WriteFile, FinishGenerate, StopGenerate
<1>5. ASSUME NEW subs, NEW da, StartGenerate(subs, da) \/ Verify(da) PROVE SeedInv'
  BY <1>1, <1>5 DEF StartGenerate, Verify
<1>6. CASE UNCHANGED vars
  BY <1>1, <1>6 DEF vars
<1>7. QED
  BY <1>2, <1>3, <1>4, <1>5, <1>6,
     SeedAttestorSetStep, SetsAreSeededStep, SeedSchemaStep, StartChainStep DEF Next

LEMMA SeedInvHolds == Spec => [](ToolInv /\ SeedInv)
<1>1. Init => SeedInv
  BY DEF Init, SeedInv
<1>2. ToolInv /\ SeedInv /\ [Next]_vars => SeedInv'
  BY NextSeedInv
<1>3. QED
  BY <1>1, <1>2, ToolInvHolds, PTL DEF Spec

\* What validate_attestation_config lets through, genesis accepts to the last schema.
THEOREM SeedingSucceeds == Spec => []SeedingNeverFails
<1>1. SeedInv => SeedingNeverFails
  BY DEF SeedInv, SeedingNeverFails, Idle
<1>2. QED
  BY <1>1, SeedInvHolds, PTL

\* A node does not refuse a bundle the tool has said OK to for its DA layer.
THEOREM VouchedBundlesAreAccepted == Spec => []VouchedBundlesBoot
<1>1. ASSUME ToolInv, SeedInv, Vouched, node = [phase |-> "refused", da |-> deployed.vouched.da]
      PROVE  FALSE
  <2>1. ~CreateGenesisConfig(deployed.bundle, deployed.vouched.da)
    BY <1>1 DEF SeedInv, Idle
  <2>2. CreateGenesisConfig(deployed.bundle, deployed.vouched.da)
    BY <1>1 DEF ToolInv, Founded, Vouched
  <2>3. QED
    BY <2>1, <2>2
<1>2. ToolInv /\ SeedInv => VouchedBundlesBoot
  BY <1>1 DEF VouchedBundlesBoot
<1>3. QED
  BY <1>2, SeedInvHolds, PTL

\* The state of a chain that runs is its configuration: the ids of all its sets and
\* nothing else, and its schemas one by one, under the checks of the file.
THEOREM RunningChainsAreSeeded ==
  Spec => [](node.phase = "running" =>
               /\ ValidateAttestationConfig(Config)
               /\ chain.attestor_sets = SetIds(Len(Sets)) /\ chain.schemas = Schemas)
<1>1. ASSUME SeedInv, node.phase = "running"
      PROVE  /\ ValidateAttestationConfig(Config)
             /\ chain.attestor_sets = SetIds(Len(Sets)) /\ chain.schemas = Schemas
  <2>1. /\ Seeding /\ chain.attestor_sets = SetIds(Len(Sets)) /\ Prefix(Len(Schemas))
    BY <1>1 DEF SeedInv, Seeding, Idle
  <2>2. Schemas \in Seq(SchemaEntry) /\ Len(Schemas) \in Nat
    BY <2>1, ConfigLists DEF Seeding
  <2>3. chain.schemas = Schemas
    BY <2>1, <2>2 DEF Prefix
  <2>4. QED
    BY <2>1, <2>3 DEF Seeding
<1>2. QED
  BY <1>1, SeedInvHolds, PTL

-----------------------------------------------------------------------------
(* What a running chain has                                                *)

LEMMA BackOfConcat ==
  ASSUME NEW S, NEW front \in Seq(S), NEW back \in Seq(S), NEW i \in DOMAIN back
  PROVE  back[i] \in Range(front \o back)
<1>1. /\ front \o back \in Seq(S) /\ Len(front \o back) = Len(front) + Len(back)
      /\ Len(front) \in Nat /\ Len(back) \in Nat /\ i \in 1 .. Len(back)
  OBVIOUS
<1>2. Len(front) + i \in 1 .. Len(front \o back)
  BY <1>1
<1>3. (front \o back)[Len(front) + i] = back[i]
  BY <1>1, <1>2
<1>4. DOMAIN (front \o back) = 1 .. Len(front \o back)
  BY <1>1
<1>5. QED
  BY <1>2, <1>3, <1>4 DEF Range

LEMMA MiddleOfConcat ==
  ASSUME NEW S, NEW front \in Seq(S), NEW middle \in Seq(S), NEW back \in Seq(S),
         NEW i \in DOMAIN middle
  PROVE  middle[i] \in Range(front \o middle \o back)
<1>1. /\ front \o middle \in Seq(S) /\ Len(front \o middle) = Len(front) + Len(middle)
      /\ Len(front) \in Nat /\ Len(middle) \in Nat /\ i \in 1 .. Len(middle)
  OBVIOUS
<1>2. Len(front) + i \in 1 .. Len(front \o middle)
  BY <1>1
<1>3. (front \o middle)[Len(front) + i] = middle[i]
  BY <1>1, <1>2
<1> DEFINE both == front \o middle
           j == Len(front) + i
<1> HIDE DEF both, j
<1>4. both \in Seq(S) /\ j \in 1 .. Len(both) /\ both[j] = middle[i] /\ Len(both) \in Nat
  <2>1. both \in Seq(S) /\ j \in 1 .. Len(both) /\ both[j] = middle[i]
    BY <1>1, <1>2, <1>3 DEF both, j
  <2>2. QED
    BY <2>1
<1>5. (both \o back)[j] = both[j] /\ j \in DOMAIN (both \o back)
  BY <1>4
<1>6. QED
  BY <1>4, <1>5 DEF Range, both

\* Where every place that may hold an address does, owners and builders are addresses.
LEMMA BuildersAreAddresses ==
  ASSUME NEW bundle, \A f \in File : bundle[f] \in Content[f],
         Range(Holders(bundle)) \subseteq Address \cup {None},
         NEW i \in DOMAIN bundle.attestation.initial_schemas
  PROVE  /\ bundle.attestation.initial_schemas[i].owner \in Address \cup {None}
         /\ bundle.attestation.initial_schemas[i].fee_routing_addr \in Address \cup {None}
<1> DEFINE singles == <<bundle.sequencer_registry.seq_rollup_address,
                        bundle.operator_incentives.reward_address, bundle.attestation.treasury>>
           rows == bundle.bank.address_and_balances
           schemas == bundle.attestation.initial_schemas
           addresses == [j \in DOMAIN rows |-> rows[j].address]
           owners == [j \in DOMAIN schemas |-> schemas[j].owner]
           builders == [j \in DOMAIN schemas |-> schemas[j].fee_routing_addr]
           head == singles \o addresses
           front == head \o owners
<1>1. /\ bundle.bank \in Content.bank /\ bundle.attestation \in Content.attestation
      /\ bundle.sequencer_registry \in Content.sequencer_registry
      /\ bundle.operator_incentives \in Content.operator_incentives
  BY DEF File
<1>2. singles \in Seq(Holder)
  <2>1. /\ bundle.sequencer_registry.seq_rollup_address \in Holder
        /\ bundle.operator_incentives.reward_address \in Holder
        /\ bundle.attestation.treasury \in Holder
    BY <1>1 DEF Content, Holder
  <2>2. QED
    BY <2>1
<1>3. rows \in Seq(BalanceEntry) /\ schemas \in Seq(SchemaEntry)
  BY <1>1 DEF Content
<1> HIDE DEF rows, schemas
<1>4. addresses \in Seq(Holder)
  <2>1. DOMAIN rows = 1 .. Len(rows) /\ Len(rows) \in Nat
    BY <1>3
  <2>2. \A j \in 1 .. Len(rows) : rows[j] \in BalanceEntry
    BY <1>3, <2>1
  <2>3. \A j \in 1 .. Len(rows) : rows[j].address \in Holder
    BY <2>2 DEF BalanceEntry, Holder
  <2>4. addresses \in [1 .. Len(rows) -> Holder]
    BY <2>1, <2>3
  <2>5. QED
    BY <2>1, <2>4
<1>5. owners \in Seq(Holder) /\ builders \in Seq(Holder)
  <2>1. DOMAIN schemas = 1 .. Len(schemas) /\ Len(schemas) \in Nat
    BY <1>3
  <2>2. \A j \in 1 .. Len(schemas) : schemas[j] \in SchemaEntry
    BY <1>3, <2>1
  <2>3. \A j \in 1 .. Len(schemas) :
          schemas[j].owner \in Holder /\ schemas[j].fee_routing_addr \in Holder
    BY <2>2 DEF SchemaEntry, Holder
  <2>4. /\ owners \in [1 .. Len(schemas) -> Holder]
        /\ builders \in [1 .. Len(schemas) -> Holder]
    BY <2>1, <2>3
  <2>5. QED
    BY <2>1, <2>4
<1>6. Holders(bundle) = front \o builders
  BY DEF Holders, rows, schemas
<1>7. /\ i \in DOMAIN builders /\ builders[i] = schemas[i].fee_routing_addr
      /\ i \in DOMAIN owners /\ owners[i] = schemas[i].owner
  BY DEF schemas
<1> HIDE DEF singles, addresses, owners, builders
<1>8. head \in Seq(Holder)
  BY <1>2, <1>4
<1> HIDE DEF head
<1>9. front \in Seq(Holder)
  BY <1>5, <1>8
<1>10. owners[i] \in Range(front \o builders)
  BY <1>5, <1>7, <1>8, MiddleOfConcat
<1> HIDE DEF front
<1>11. builders[i] \in Range(front \o builders)
  BY <1>5, <1>7, <1>9, BackOfConcat
<1>12. QED
  BY <1>6, <1>7, <1>10, <1>11 DEF schemas

\* A node that seeds has parsed its bundle.
ParsedInv ==
  node.phase \in {"sets", "schemas", "running"} =>
    /\ deployed # None /\ \A f \in File : deployed.bundle[f] \in Content[f]
    /\ Range(Holders(deployed.bundle)) \subseteq Address \cup {None}

LEMMA NextParsed ==
  ASSUME ToolInv, ParsedInv, [Next]_vars
  PROVE  ParsedInv'
<1>1. ASSUME NEW da, Boot(da)
      PROVE  ParsedInv'
  <2>1. deployed # None /\ deployed' = deployed
    BY <1>1 DEF Boot
  <2>2. CASE CreateGenesisConfig(deployed.bundle, da)
    <3>1. /\ \A f \in File : deployed.bundle[f] # None /\ deployed.bundle[f] # Torn
          /\ Range(Holders(deployed.bundle)) \subseteq Address \cup {None}
      BY <2>2 DEF CreateGenesisConfig, ReadJson
    <3>2. \A f \in File : deployed.bundle[f] \in Content[f]
      BY <2>1, <3>1 DEF ToolInv, Shaped
    <3>3. QED
      BY <2>1, <3>1, <3>2 DEF ParsedInv
  <2>3. CASE ~CreateGenesisConfig(deployed.bundle, da)
    <3>1. node'.phase = "refused"
      BY <1>1, <2>3 DEF Boot
    <3>2. QED
      BY <3>1 DEF ParsedInv
  <2>4. QED
    BY <2>2, <2>3
<1>2. ASSUME deployed' = deployed,
             node'.phase \in {"sets", "schemas", "running"} =>
               node.phase \in {"sets", "schemas", "running"}
      PROVE  ParsedInv'
  BY <1>2 DEF ParsedInv
<1>3. CASE Deploy
  <2>1. node' = node /\ deployed = None
    BY <1>3 DEF Deploy
  <2>2. node'.phase \notin {"sets", "schemas", "running"}
    BY <2>1 DEF ParsedInv
  <2>3. QED
    BY <2>2 DEF ParsedInv
<1>4. CASE SeedAttestorSet \/ SetsAreSeeded \/ SeedSchema \/ StartChain
  <2>1. deployed' = deployed /\ node.phase \in {"sets", "schemas"}
    BY <1>4 DEF SeedAttestorSet, SetsAreSeeded, SeedSchema, StartChain
  <2>2. QED
    BY <1>2, <2>1
<1>5. CASE Truncate \/ WriteFile \/ FinishGenerate \/ StopGenerate
  BY <1>2, <1>5 DEF Truncate, WriteFile, FinishGenerate, StopGenerate
<1>6. ASSUME NEW subs, NEW da, StartGenerate(subs, da) \/ Verify(da) PROVE ParsedInv'
  BY <1>2, <1>6 DEF StartGenerate, Verify
<1>7. CASE UNCHANGED vars
  BY <1>2, <1>7 DEF vars
<1>8. QED
  BY <1>1, <1>3, <1>4, <1>5, <1>6, <1>7 DEF Next

LEMMA ParsedInvHolds == Spec => [](SeedInv /\ ParsedInv)
<1>1. Init => ParsedInv
  BY DEF Init, ParsedInv, Idle
<1>2. ToolInv /\ ParsedInv /\ [Next]_vars => ParsedInv'
  BY NextParsed
<1>3. QED
  BY <1>1, <1>2, SeedInvHolds, PTL DEF Spec

\* Different entries of the file have different ids, so as many sets as entries.
LEMMA SetsAreCounted ==
  ASSUME Seeding
  PROVE  IsFiniteSet(SetIds(Len(Sets))) /\ Cardinality(SetIds(Len(Sets))) = Len(Sets)
<1> DEFINE n == Len(Sets)
           f == [i \in 1 .. n |-> DeriveSetId(Sets[i])]
<1>1. DOMAIN Sets = 1 .. n /\ n \in Nat
  BY ConfigLists DEF Seeding
<1>2. \A i, j \in DOMAIN Sets : DeriveSetId(Sets[i]) = DeriveSetId(Sets[j]) => i = j
  BY Validated DEF Seeding
<1>3. f \in Bijection(1 .. n, SetIds(n))
  <2>1. SetIds(n) = {DeriveSetId(Sets[i]) : i \in 1 .. n}
    BY <1>1 DEF SetIds
  <2> HIDE DEF n
  <2>2. f \in [1 .. n -> SetIds(n)]
    BY <2>1
  <2>3. \A i, j \in 1 .. n : f[i] = f[j] => i = j
    BY <1>1, <1>2
  <2>4. \A id \in SetIds(n) : \E i \in 1 .. n : f[i] = id
    BY <2>1
  <2> HIDE DEF f
  <2>5. QED
    BY <2>2, <2>3, <2>4 DEF Bijection, Injection, Surjection, IsInjective
<1>4. IsFiniteSet(1 .. n) /\ Cardinality(1 .. n) = n
  BY <1>1, Positions
<1> HIDE DEF f, n
<1>5. IsFiniteSet(SetIds(n)) /\ Cardinality(SetIds(n)) = Cardinality(1 .. n)
  BY <1>3, <1>4, FS_Bijection DEF ExistsBijection
<1>6. QED
  BY <1>4, <1>5 DEF n

\* The weights of a set's id add up to the length of the list it came from.
LEMMA PlacesAddUp ==
  ASSUME NEW set \in AttestorSetEntry
  PROVE  LET counts == PlaceCounts(PubKey, set.members, DOMAIN set.members)
         IN  counts \in [PubKey -> Nat] /\ SumFunction(counts) = Len(set.members)
<1> DEFINE list == set.members
           D == 1 .. Len(list)
           counts == PlaceCounts(PubKey, list, D)
<1>1. list \in Seq(PubKey)
  BY DEF AttestorSetEntry
<1>2. DOMAIN list = D /\ list \in [D -> PubKey] /\ Len(list) \in Nat
  BY <1>1
<1>3. IsFiniteSet(D) /\ Cardinality(D) = Len(list)
  BY <1>2, Positions
<1> HIDE DEF list, D
<1>4. SumFunction(counts) = Cardinality(D)
  BY <1>2, <1>3, FinitenessAssumption, SumOfPlaces
<1>5. \A p \in PubKey : Cardinality(Places(list, D, p)) \in Nat
  <2>1. \A p : Places(list, D, p) \subseteq D
    BY DEF Places
  <2>2. QED
    BY <1>3, <2>1, FS_Subset, FS_CardinalityType
<1>6. counts \in [PubKey -> Nat]
  BY <1>5 DEF PlaceCounts
<1>7. QED
  BY <1>2, <1>3, <1>4, <1>6 DEF list

\* A list that names no key twice has as many different members as entries.
LEMMA MembersAreDistinct ==
  ASSUME NEW set \in AttestorSetEntry, ~NamesAKeyTwice(DeriveSetId(set))
  PROVE  Cardinality(DistinctMembers(DeriveSetId(set))) = Len(set.members)
<1> DEFINE list == set.members
           D == 1 .. Len(list)
           members == DistinctMembers(DeriveSetId(set))
<1>1. list \in Seq(PubKey)
  BY DEF AttestorSetEntry
<1>2. DOMAIN list = D /\ list \in [D -> PubKey] /\ Len(list) \in Nat
  BY <1>1
<1>3. IsFiniteSet(D) /\ Cardinality(D) = Len(list)
  BY <1>2, Positions
<1>4. /\ \A p \in PubKey : ~(Cardinality(Places(list, D, p)) > 1)
      /\ members = {p \in PubKey : Cardinality(Places(list, D, p)) > 0}
  BY <1>2 DEF NamesAKeyTwice, DistinctMembers, DeriveSetId, Places
<1> HIDE DEF list, D, members
<1>5. \A p \in PubKey : /\ IsFiniteSet(Places(list, D, p))
                        /\ Cardinality(Places(list, D, p)) \in Nat
                        /\ Cardinality(Places(list, D, p)) = 0 <=> Places(list, D, p) = {}
                        /\ Cardinality(Places(list, D, p)) = 1
                             <=> \E i : Places(list, D, p) = {i}
  <2>1. \A p : Places(list, D, p) \subseteq D
    BY DEF Places
  <2>2. \A p : IsFiniteSet(Places(list, D, p))
    BY <1>3, <2>1, FS_Subset
  <2>3. QED
    BY <2>2, FS_CardinalityType, FS_EmptySet, FS_Singleton
<1>6. ASSUME NEW i \in D, NEW j \in D, list[i] = list[j]
      PROVE  i = j
  <2>1. list[i] \in PubKey /\ {i, j} \subseteq Places(list, D, list[i])
    BY <1>2, <1>6 DEF Places
  <2>2. Cardinality(Places(list, D, list[i])) = 1
    BY <1>4, <1>5, <2>1
  <2>3. PICK k : Places(list, D, list[i]) = {k}
    BY <1>5, <2>1, <2>2
  <2>4. QED
    BY <2>1, <2>3
<1>7. \A p \in PubKey : p \in members <=> \E i \in D : list[i] = p
  <2>1. \A p \in PubKey : p \in members <=> Places(list, D, p) # {}
    BY <1>4, <1>5
  <2>2. \A p : Places(list, D, p) # {} <=> \E i \in D : list[i] = p
    BY DEF Places
  <2>3. QED
    BY <2>1, <2>2
<1>8. list \in Bijection(D, members)
  <2>1. members \subseteq PubKey
    BY <1>4
  <2>2. list \in [D -> members] /\ \A p \in members : \E i \in D : list[i] = p
    BY <1>2, <1>7, <2>1
  <2>3. QED
    BY <1>6, <2>2 DEF Bijection, Injection, Surjection, IsInjective
<1>9. Cardinality(members) = Cardinality(D)
  BY <1>3, <1>8, FS_Bijection DEF ExistsBijection
<1>10. QED
  BY <1>3, <1>9 DEF members, list

\* A chain that runs has every set and every schema of its configuration, each once; a set
\* has as many different members as its threshold asks for, unless its list names a key
\* twice, which nothing checks; each schema's set is there and its fee goes to somebody
\* exactly when there is one to route.
THEOREM RunningChainsAreSound == Spec => []SeededIsSound
<1>1. ASSUME SeedInv, ParsedInv, node.phase = "running"
      PROVE  SeededIsSound
  <2>1. Seeding /\ chain.attestor_sets = SetIds(Len(Sets)) /\ Prefix(Len(Schemas))
    BY <1>1 DEF SeedInv, Seeding, Idle
  <2>2. /\ Sets \in Seq(AttestorSetEntry) /\ DOMAIN Sets = 1 .. Len(Sets) /\ Len(Sets) \in Nat
        /\ Schemas \in Seq(SchemaEntry) /\ DOMAIN Schemas = 1 .. Len(Schemas)
        /\ Len(Schemas) \in Nat
    BY <2>1, ConfigLists DEF Seeding
  <2>3. chain.schemas = Schemas
    BY <2>1, <2>2 DEF Prefix
  <2>4. Unique(chain.schemas, DeriveSchemaId)
    BY <2>1, <2>3, Validated DEF Seeding, Unique
  <2>5. Len(chain.schemas) = Len(Config.initial_schemas)
    BY <2>3 DEF Schemas
  <2>6. Cardinality(chain.attestor_sets) = Len(Config.initial_attestor_sets)
    BY <2>1, SetsAreCounted DEF Sets
  <2>7. ASSUME NEW id \in chain.attestor_sets
        PROVE  /\ id.threshold > 0
               /\ NamesAKeyTwice(id) \/ id.threshold <= Cardinality(DistinctMembers(id))
    <3>1. PICK i \in DOMAIN Sets : id = DeriveSetId(Sets[i])
      BY <2>1, <2>7 DEF SetIds
    <3>2. Sets[i] \in AttestorSetEntry /\ SetIsSound(Sets[i])
      BY <2>1, <2>2, Validated DEF Seeding
    <3>3. id.threshold \in 1 .. Len(Sets[i].members)
      BY <3>1, <3>2 DEF SetIsSound, DeriveSetId
    <3>4. NamesAKeyTwice(id) \/ Cardinality(DistinctMembers(id)) = Len(Sets[i].members)
      BY <3>1, <3>2, MembersAreDistinct
    <3>5. QED
      BY <3>3, <3>4
  <2>8. ASSUME NEW s \in Range(chain.schemas)
        PROVE  /\ s.attestor_set \in chain.attestor_sets
               /\ s.fee_routing_bps > 0 <=> s.fee_routing_addr \in Address
    <3>1. PICK i \in DOMAIN Schemas : s = Schemas[i]
      BY <2>3, <2>8 DEF Range
    <3>2. /\ RoutingIsSound(s, Config.max_builder_bps)
          /\ \E j \in DOMAIN Sets : s.attestor_set = DeriveSetId(Sets[j])
      BY <2>1, <3>1, Validated DEF Seeding
    <3>3. s.attestor_set \in chain.attestor_sets
      BY <2>1, <2>2, <3>2 DEF SetIds
    <3>4. s.fee_routing_addr \in Address \cup {None}
      <4>1. /\ \A f \in File : deployed.bundle[f] \in Content[f]
            /\ Range(Holders(deployed.bundle)) \subseteq Address \cup {None}
        BY <1>1 DEF ParsedInv
      <4>2. Schemas = deployed.bundle.attestation.initial_schemas
        BY DEF Schemas, Config
      <4>3. QED
        BY <3>1, <4>1, <4>2, BuildersAreAddresses
    <3>5. None \notin Address
      BY MarksAssumption
    <3>6. QED
      BY <3>2, <3>3, <3>4, <3>5 DEF RoutingIsSound
  <2>9. QED
    BY <2>4, <2>5, <2>6, <2>7, <2>8 DEF SeededIsSound
<1>2. SeedInv /\ ParsedInv => SeededIsSound
  BY <1>1 DEF SeededIsSound
<1>3. QED
  BY <1>2, ParsedInvHolds, PTL

\* What the attestation module's model assumes of its genesis (GenesisAssumption of
\* Attestation): the sets stored are finitely many, with thresholds within the length of
\* their lists, where a key may stand twice; a schema has an owner with an address, a set
\* that is stored, and a routing within the cap to an address that is there exactly when
\* there is something to route; ids are not shared.
FitForAttestation ==
  /\ chain.attestor_sets \subseteq AttestorSetId /\ IsFiniteSet(chain.attestor_sets)
  /\ \A id \in chain.attestor_sets : id.threshold \in 1 .. SumFunction(id.members)
  /\ \A i \in DOMAIN chain.schemas :
       /\ DeriveSchemaId(chain.schemas[i]) \in Address \X SchemaName
       /\ chain.schemas[i].attestor_set \in chain.attestor_sets
       /\ chain.schemas[i].fee_routing_bps \in 0 .. Config.max_builder_bps
       /\ chain.schemas[i].fee_routing_addr \in Address \cup {None}
       /\ chain.schemas[i].fee_routing_bps > 0 <=> chain.schemas[i].fee_routing_addr # None
  /\ \A i, j \in DOMAIN chain.schemas :
       DeriveSchemaId(chain.schemas[i]) = DeriveSchemaId(chain.schemas[j]) => i = j

\* Whatever bundle a chain has been started from, the attestation module starts in a state
\* its model begins with.
THEOREM GenesisIsFitForAttestation == Spec => [](node.phase = "running" => FitForAttestation)
<1>1. ASSUME SeedInv, ParsedInv, node.phase = "running"
      PROVE  FitForAttestation
  <2>1. Seeding /\ chain.attestor_sets = SetIds(Len(Sets)) /\ Prefix(Len(Schemas))
    BY <1>1 DEF SeedInv, Seeding, Idle
  <2>2. /\ Sets \in Seq(AttestorSetEntry) /\ DOMAIN Sets = 1 .. Len(Sets) /\ Len(Sets) \in Nat
        /\ Schemas \in Seq(SchemaEntry) /\ DOMAIN Schemas = 1 .. Len(Schemas)
        /\ Len(Schemas) \in Nat
    BY <2>1, ConfigLists DEF Seeding
  <2>3. chain.schemas = Schemas
    BY <2>1, <2>2 DEF Prefix
  <2>4. ASSUME NEW id \in chain.attestor_sets
        PROVE  id \in AttestorSetId /\ id.threshold \in 1 .. SumFunction(id.members)
    <3>1. PICK i \in DOMAIN Sets : id = DeriveSetId(Sets[i])
      BY <2>1, <2>4 DEF SetIds
    <3>2. Sets[i] \in AttestorSetEntry /\ SetIsSound(Sets[i])
      BY <2>1, <2>2, Validated DEF Seeding
    <3>3. id.threshold \in 1 .. Len(Sets[i].members) /\ id.threshold \in Nat
      BY <3>1, <3>2 DEF SetIsSound, DeriveSetId, AttestorSetEntry
    <3>4. id.members = PlaceCounts(PubKey, Sets[i].members, DOMAIN Sets[i].members)
      BY <3>1 DEF DeriveSetId, PlaceCounts, Places
    <3>5. /\ id.members \in [PubKey -> Nat]
          /\ SumFunction(id.members) = Len(Sets[i].members)
      BY <3>2, <3>4, PlacesAddUp
    <3>6. id = [members |-> id.members, threshold |-> id.threshold]
      BY <3>1 DEF DeriveSetId
    <3>7. QED
      BY <3>3, <3>5, <3>6 DEF AttestorSetId
  <2>5. IsFiniteSet(chain.attestor_sets)
    BY <2>1, SetsAreCounted
  <2>6. ASSUME NEW i \in DOMAIN chain.schemas
        PROVE  /\ DeriveSchemaId(chain.schemas[i]) \in Address \X SchemaName
               /\ chain.schemas[i].attestor_set \in chain.attestor_sets
               /\ chain.schemas[i].fee_routing_bps \in 0 .. Config.max_builder_bps
               /\ chain.schemas[i].fee_routing_addr \in Address \cup {None}
               /\ chain.schemas[i].fee_routing_bps > 0 <=> chain.schemas[i].fee_routing_addr # None
    <3> DEFINE s == chain.schemas[i]
    <3>1. i \in DOMAIN Schemas /\ s = Schemas[i] /\ s \in SchemaEntry
      BY <2>2, <2>3
    <3>2. /\ RoutingIsSound(s, Config.max_builder_bps)
          /\ \E j \in DOMAIN Sets : s.attestor_set = DeriveSetId(Sets[j])
      BY <2>1, <3>1, Validated DEF Seeding
    <3>3. s.attestor_set \in chain.attestor_sets
      BY <2>1, <2>2, <3>2 DEF SetIds
    <3>4. s.owner \in Address \cup {None} /\ s.fee_routing_addr \in Address \cup {None}
      <4>1. /\ \A f \in File : deployed.bundle[f] \in Content[f]
            /\ Range(Holders(deployed.bundle)) \subseteq Address \cup {None}
        BY <1>1 DEF ParsedInv
      <4>2. Schemas = deployed.bundle.attestation.initial_schemas
        BY DEF Schemas, Config
      <4>3. QED
        BY <3>1, <4>1, <4>2, BuildersAreAddresses
    <3> HIDE DEF s
    <3>5. s.owner \in Name /\ s.name \in SchemaName /\ s.fee_routing_bps \in Nat
      BY <3>1 DEF SchemaEntry
    <3>6. s.owner \in Address
      BY <3>4, <3>5, MarksAssumption
    <3>7. DeriveSchemaId(s) \in Address \X SchemaName
      BY <3>5, <3>6 DEF DeriveSchemaId
    <3>8. Config.max_builder_bps \in Nat
      BY <2>1 DEF Seeding, Content
    <3>9. /\ s.fee_routing_bps \in 0 .. Config.max_builder_bps
          /\ s.fee_routing_bps > 0 <=> s.fee_routing_addr # None
      BY <3>2, <3>5, <3>8 DEF RoutingIsSound
    <3>10. QED
      BY <3>3, <3>4, <3>7, <3>9 DEF s
  <2>7. \A i, j \in DOMAIN chain.schemas :
          DeriveSchemaId(chain.schemas[i]) = DeriveSchemaId(chain.schemas[j]) => i = j
    BY <2>1, <2>3, Validated DEF Seeding
  <2>8. QED
    BY <2>4, <2>5, <2>6, <2>7 DEF FitForAttestation
<1>2. QED
  BY <1>1, ParsedInvHolds, PTL

=============================================================================

CONSTANTS
  s1 = s1  s2 = s2  prompt = prompt  review = review  audit = audit
  SetId = {s1, s2}
  SchemaId = {prompt, review, audit}
  AttestorSetOf <- SharedSets
  Config <- ThreeEntries
  MaxFaults = 3
SPECIFICATION FairSpec
INVARIANTS LandsOnce ReportsAreTrue
PROPERTIES EverythingIsRegistered

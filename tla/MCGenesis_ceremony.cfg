CONSTANTS
  placeholder = placeholder  demo = demo  key1 = key1  key2 = key2  typo = typo
  celestia_hole = celestia_hole  celestia1 = celestia1  hex = hex
  avow = avow  other = other  p = p  q = q  prompt = prompt  review = review
  None = None  Torn = Torn
  Address = {placeholder, demo, key1, key2}
  Name = {placeholder, demo, key1, key2, typo, celestia_hole, celestia1, hex}
  PubKey = {p, q}
  SchemaName = {prompt, review}
  TokenId = {avow, other}
  DaFlavor = {"celestia", "mock"}
  DaAddress <- Da
  avow_token_id = avow
  Templates <- Bundles
  SubstitutionMaps <- KeysToml
CHECK_DEADLOCK FALSE
SPECIFICATION Spec
INVARIANTS SeedingNeverFails SeededIsSound GeneratedIsWhole RolesArePreserved VouchedBundlesBoot

\* One request of a project whose template names a file that it has not.
CONSTANTS
  Requests = {j1}
  NoRow = NoRow
  Lifetime = 1
  TokenLife = 1
  MaxTime = 1
  MaxEdits = 2
  MaxTokens = 1
  MaxFaults = 0
SPECIFICATION Spec
INVARIANTS
  AssetsFallBack
CHECK_DEADLOCK FALSE

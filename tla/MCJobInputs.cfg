\* Two requests, up to two edits, two tokens after the first and one fault.
CONSTANTS
  Requests = {j1, j2}
  NoRow = NoRow
  Lifetime = 1
  TokenLife = 2
  MaxTime = 2
  MaxEdits = 2
  MaxTokens = 3
  MaxFaults = 1
SPECIFICATION Spec
SYMMETRY JobSymmetry
INVARIANTS
  CarriesWhatWasThere
  FetchesWhatItNames
  RefusedOnlyWhenSpent
CHECK_DEADLOCK FALSE

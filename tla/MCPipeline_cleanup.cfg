\* One failed distribution.
CONSTANTS
  Jobs = {j1}
  NoJob = NoJob
  Destinations = {d1}
  Unsupported = {}
  Renderers = {r1}
  Distributors = {v1}
  MaxRender = 1
  MaxDist = 1
  MaxFaults = 0
  MaxStops = 0
  MaxLostReplies = 0
  MaxReplays = 0
SPECIFICATION FairSpec
PROPERTIES
  CleanedOnlyAfterSuccess
CHECK_DEADLOCK FALSE

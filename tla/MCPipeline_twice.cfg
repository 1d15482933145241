\* Lost replies and replays: a job is rendered and distributed more than once.
CONSTANTS
  Jobs = {j1}
  NoJob = NoJob
  Destinations = {d1, d2, other}
  Unsupported = {other}
  Renderers = {r1}
  Distributors = {v1, v2}
  MaxRender = 3
  MaxDist = 3
  MaxFaults = 1
  MaxStops = 0
  MaxLostReplies = 1
  MaxReplays = 1
SPECIFICATION FairSpec
INVARIANTS
  CompleteMeansDelivered
PROPERTIES
  AcceptedIsDecided
CHECK_DEADLOCK FALSE

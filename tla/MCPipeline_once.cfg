\* Crashes, shutdowns and failed writes; every XADD is carried out once.
CONSTANTS
  Jobs = {j1, j2}
  NoJob = NoJob
  Destinations = {d1, other}
  Unsupported = {other}
  Renderers = {r1, r2}
  Distributors = {v1, v2}
  MaxRender = 2
  MaxDist = 2
  MaxFaults = 2
  MaxStops = 1
  MaxLostReplies = 0
  MaxReplays = 0
SPECIFICATION Spec
SYMMETRY PipelineSymmetry
INVARIANTS
  TypeOK
  VideoIsThere
  OneUndecidedPerFault
  OneLeakPerFault
PROPERTIES
  EndedStaysEnded
CHECK_DEADLOCK FALSE

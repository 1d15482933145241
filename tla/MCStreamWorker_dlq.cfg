\* The comment on MessageHandler, as an invariant.
CONSTANTS
  Msgs = {m1}
  Malformed = {}
  NoMsg = NoMsg
  Workers = {w1}
  Operators = {}
  Nobody = Nobody
  Reclaimer = Reclaimer
  MaxReclaimBatch = 1
  ReplayLimit = 1
  MaxEntries = 1
  MaxDead = 2
  MaxFaults = 1
  MaxStops = 0
SPECIFICATION Spec
INVARIANTS
  FailedReachesDLQ
CHECK_DEADLOCK FALSE

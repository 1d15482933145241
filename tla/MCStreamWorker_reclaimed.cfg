\* The log line of reclaimStuckMessages, as a leads-to property.
CONSTANTS
  Msgs = {m1}
  Malformed = {}
  NoMsg = NoMsg
  Workers = {w1, w2}
  Operators = {}
  Nobody = Nobody
  Reclaimer = Reclaimer
  MaxReclaimBatch = 1
  ReplayLimit = 1
  MaxEntries = 1
  MaxDead = 2
  MaxFaults = 1
  MaxStops = 0
SPECIFICATION FairSpec
PROPERTIES
  ReclaimedIsProcessed
CHECK_DEADLOCK FALSE

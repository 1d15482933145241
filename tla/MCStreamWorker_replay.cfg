\* Two operators replay the dead letters of one worker at the same time.
CONSTANTS
  Msgs = {m1}
  Malformed = {}
  NoMsg = NoMsg
  Workers = {w1}
  Operators = {o1, o2}
  Nobody = Nobody
  Reclaimer = Reclaimer
  MaxReclaimBatch = 1
  ReplayLimit = 2
  MaxEntries = 4
  MaxDead = 3
  MaxFaults = 1
  MaxStops = 0
SPECIFICATION Spec
SYMMETRY OperatorSymmetry
INVARIANTS
  ReplayLosesNothing
  ReplayedOncePerOperator
CHECK_DEADLOCK FALSE

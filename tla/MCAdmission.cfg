\* Requests of both routes around two midnights, one failure, and a pool that
\* may starve; requests late by up to two units, in steps of two, around two
\* windows.
CONSTANTS
  Requests = {r1, r2, r3}
  NoRequest = NoRequest
  ByKey = {r1}
  Limit = 1
  Conns = 2
  MaxDay = 3
  MaxFaults = 1
  Calls = {c1, c2, c3, c4}
  PerSecond = 1
  Window = 6
  Step = 2
  MaxDelay = 2
  MaxTime = 14
  MaxLost = 1
SPECIFICATION MCSpec
INVARIANTS
  CountIsExact
  WithinLimit
  RefusedOnlyWhenFull
  OneFreePassPerFault
  WindowHolds
  RefusedOnlyWhenBusy
PROPERTIES
  OneResetPerDay
  AnsweredOrStarved
CHECK_DEADLOCK FALSE

\* Two workers that crash, stop, reclaim and race; nobody replays.
CONSTANTS
  Msgs = {m1, bad}
  Malformed = {bad}
  NoMsg = NoMsg
  Workers = {w1, w2}
  Operators = {}
  Nobody = Nobody
  Reclaimer = Reclaimer
  MaxReclaimBatch = 1
  ReplayLimit = 1
  MaxEntries = 2
  MaxDead = 3
  MaxFaults = 2
  MaxStops = 1
SPECIFICATION FairSpec
INVARIANTS
  TypeOK
  HandledAtMostOnce
  SettledIsAccounted
  OneLossPerFault
PROPERTIES
  ImplementsQueue
  EveryEntryDelivered
  HeldIsSettled
CHECK_DEADLOCK FALSE

SPECIFICATION FairSpec
CONSTANTS
  u1 = u1
  u2 = u2
  u3 = u3
  u4 = u4
  api = api
  recovery = recovery
  Units = {u1, u2, u3, u4}
  Loops = {api, recovery}
  KindOf <- MCKindOf
  ItemsOf <- MCItemsOf
  LoopOf <- MCLoopOf
  Workers = {w1, w2}
  BatchSize = 2
  MaxFailures = 1
  Nobody = Nobody
CHECK_DEADLOCK FALSE
INVARIANTS
  ChainValid
  RecoveryWritesBoth
PROPERTIES
  UnitsEnd
  EveryEventDispatched

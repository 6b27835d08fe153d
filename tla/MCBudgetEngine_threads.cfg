SPECIFICATION Spec
CONSTANTS
  m1 = m1
  m2 = m2
  i1 = i1
  i2 = i2
  i3 = i3
  SuppliedIds = {s1}
  Threads = {t1, t2}
  Mandates = {m1, m2}
  ResIds = {i1, i2, i3, s1}
  IdsOf <- OwnIds
  Amounts = {1, 2}
  Limits = {2, 3}
  Resettable = {m2}
  Nobody = Nobody
CHECK_DEADLOCK FALSE
INVARIANTS
  WithinLimit
PROPERTIES
  SettledOnce
  ImplementsLedger

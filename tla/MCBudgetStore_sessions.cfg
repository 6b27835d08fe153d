SPECIFICATION StoreSpec
CONSTANTS
  Sessions = {s1, s2}
  Mandates = {m1, m2}
  ResIds = {i1, i2}
  Amounts = {1, 2}
  Limits = {2}
  Nobody = Nobody
SYMMETRY Symmetry
INVARIANTS
  MemoryAgreesOnSettled
PROPERTIES
  StoreImplementsLedger

SPECIFICATION Spec
CONSTANTS
  MaxItems = 1
  MaxQuantity = 1
  MaxPrice = 9
  MaxTotal = 9
  Txs = {1, 2}
  Clients = {c1, c2}
  Admins = {a1}
  Keys = {k1}
  Seeded = {"seed"}
  SeededRows = {}
  Created = {"new"}
  Merchants = {"m1"}
  Prices = {6}
  DefaultPrice = 1
  DefaultLimit = 5
  Limits = {5}
  MaxRestarts = 1
  MaxEvents = 2
  MaxReceipts = 1
SYMMETRY ClientSymmetry
INVARIANTS
  ReplayIsSafeUntilRestart
  RevocationSticks
  ReportTruthful
  ReceiptVerdict
CHECK_DEADLOCK FALSE

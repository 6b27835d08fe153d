SPECIFICATION FairSpec
CONSTANTS
  Txs = {1, 2}
  r1 = r1
  r2 = r2
  r3 = r3
  p1 = p1
  p2 = p2
  Requests = {r1, r2}
  Keys = {k1}
  Payloads = {f1}
  Procs = {p1, p2}
  ProcOf <- MCProcOf
  Gates = {"pass"}
  Recoverers = {w1}
  Reconcilers = {c1}
  Deliveries = {}
  Nobody = Nobody
INVARIANTS
  CommittedIsReported
PROPERTIES
  FailureIsProven
  StuckIsAskedForEver

SPECIFICATION Spec
CONSTANTS
  Txs = {1}
  r1 = r1
  r2 = r2
  r3 = r3
  p1 = p1
  p2 = p2
  Requests = {r1, r2, r3}
  Keys = {k1, k2}
  Payloads = {f1}
  Procs = {p1, p2}
  ProcOf <- MCProcOf
  Gates = {"pass", "denied", "not_executable"}
  Recoverers = {w1}
  Reconcilers = {}
  Deliveries = {}
  Nobody = Nobody
SYMMETRY Alike
INVARIANTS
  OneDispatcher
  DurableClaimBarsCalls
  OneAttemptPerKey

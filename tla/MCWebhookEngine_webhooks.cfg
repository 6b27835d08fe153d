SPECIFICATION HookSpec
CONSTANTS
  Txs = {1}
  r1 = r1
  r2 = r2
  p1 = p1
  p2 = p2
  Requests = {r1}
  Keys = {k1}
  Payloads = {f1}
  Procs = {p1}
  ProcOf <- MCProcOf
  Gates = {"pass"}
  Recoverers = {w1}
  Reconcilers = {}
  Deliveries = {d1, d2, d3}
  Nobody = Nobody
  authorized = authorized
  captured = captured
  failed = failed
  other = other
  EventIds = {authorized, captured, failed, other}
  EventOf <- MCEventOf
SYMMETRY DeliverySymmetry
INVARIANTS
  AcknowledgedIsDurable
  CommittedOnProvidersWord
PROPERTIES
  EffectWithRecord

SPECIFICATION Spec
CONSTANTS
  u1 = u1
  u2 = u2
  u3 = u3
  p1 = p1
  p2 = p2
  Units = {u1, u2, u3}
  Procs = {p1, p2}
  ProcOf <- MCProcOf
  Nonces = {n1}
  Challenges = {c1}
  Mandates = {m1}
  Contexts = {x1, x2}
  Ttl = 1
  MaxTime = 1
  MaxCalls = 3
  Nobody = Nobody
SYMMETRY Symmetry
CHECK_DEADLOCK FALSE
INVARIANTS
  SingleUse
  ApprovedInTime
  VerdictRemembered
PROPERTIES
  VerdictsFinal

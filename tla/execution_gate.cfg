SPECIFICATION Spec
CONSTANTS
  d1 = d1
  p1 = p1
  Decisions = {d1, d2}
  Payloads = {p1}
  Verdicts = {"allow", "deny"}
  Request <- MCRequest
  Tokens = {j1, j2}
  Threads = {t1, t2}
  Ttl = 1
  MaxLatency = 1
  MaxTime = 2
  MaxReceipts = 4
  None = None
SYMMETRY Symmetry
INVARIANT TypeOK
INVARIANT SingleUse
INVARIANT RememberedWhileValid
INVARIANT PurchaseTrail
CHECK_DEADLOCK FALSE

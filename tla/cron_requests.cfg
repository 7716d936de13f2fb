SPECIFICATION PartsSpec
CONSTANTS
  j1 = j1
  j2 = j2
  j3 = j3
  l1 = l1
  l2 = l2
  l3 = l3
  nightly = nightly
  None = None
  User = {u1}
  Key = {k1}
  Req = {q1}
  Run = {r1, r2}
  Fault = {"store"}
  Concurrency = 1
  Budget = 2
  MaxOps = 1
  Simulation = FALSE
SYMMETRY Symmetry
INVARIANTS CountNeverOverstates ChunksAccounted
PROPERTIES ClaimOncePerDay RevocationGate
CHECK_DEADLOCK FALSE

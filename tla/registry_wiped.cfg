SPECIFICATION RegSpec
CONSTANTS
  None = None
  User = {u1, u2}
  Key = {k1, k2, k3}
  Req = {q1, q2}
  Fault = {"store", "sql"}
SYMMETRY Symmetry
INVARIANT WipedKeysBlacklisted

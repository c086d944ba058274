CONSTANTS
  Call = {c1, c2}
  Conn = {k1, k2}
  Attempt = {a1}
  Tunnel = {t1}
  Run = {r1, r2, r3}
  None = None
  MaxAsks = 3
  MaxPages = 1
  MaxLosses = 1
SPECIFICATION Spec
INVARIANTS RunningIsServed
CHECK_DEADLOCK FALSE

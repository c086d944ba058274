CONSTANTS
  first = first
  second = second
  p = p
  q = q
  Space = {first, second}
  First = first
  Host = {p}
  Keyed = {p}
  None = None
  MaxGen = 3
  MaxOps = 1
  MaxCrashes = 0
  MaxErrors = 1
SPECIFICATION Spec
INVARIANTS RemovalIsLocal
CHECK_DEADLOCK FALSE

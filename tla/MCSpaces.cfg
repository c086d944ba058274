CONSTANTS
  first = first
  second = second
  p = p
  q = q
  Space = {first, second}
  First = first
  Host = {p, q}
  Keyed = {p, q}
  None = None
  MaxGen = 3
  MaxOps = 2
  MaxCrashes = 1
  MaxErrors = 1
SPECIFICATION Spec
INVARIANTS TypeOK ListedOnce HostIsWhole OnDiskSomewhere NothingLeftBehind HeldWhileLeaving OnePassword PersonalIsKept FilesMatch
CHECK_DEADLOCK FALSE

CONSTANTS
  r1 = r1
  r2 = r2
  Device = {1, 2}
  Record = {r1}
  Fixed = {}
  Reader = {}
  Reading = {0, 1}
  MaxCounter = 1
  MaxDrift = 4
  ClocksWithinDrift = TRUE
  BatchLimit = 1
  PageLimit = 1
  MaxRounds = 3
  MaxWrites = 3
  MaxFaults = 1
SPECIFICATION Spec
INVARIANTS TypeOK SettledDevicesAgree
PROPERTIES NoEditIsLost IsLwwMap

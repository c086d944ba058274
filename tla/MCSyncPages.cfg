CONSTANTS
  r1 = r1
  r2 = r2
  Device = {1, 2}
  Record = {r1, r2}
  Fixed = {r2}
  Reader = {}
  Reading = {1}
  MaxCounter = 1
  MaxDrift = 4
  ClocksWithinDrift = TRUE
  BatchLimit = 2
  PageLimit = 1
  MaxRounds = 3
  MaxWrites = 2
  MaxFaults = 2
SPECIFICATION FairSpec
INVARIANTS SettledDevicesAgree
PROPERTY EventuallySettled

CONSTANTS
  k1 = k1
  k2 = k2
  k3 = k3
  Device = {1, 2, 3}
  Id = {k1, k2, k3}
  NoId = NoId
  Reading = {1}
  MaxCounter = 2
  MaxDrift = 4
  ClocksWithinDrift = TRUE
  MaxWrites = 4
SPECIFICATION Spec
SYMMETRY IdSymmetry
INVARIANTS AgreeOnTheNewest
PROPERTIES NewestDecisionStays
CHECK_DEADLOCK FALSE

CONSTANTS
  olive = olive
  adam = adam
  ben = ben
  r1 = r1
  Device = {olive, adam, ben}
  Manager = {olive, adam}
  Writer = {olive, adam}
  Record = {r1}
  MaxEarlier = 2
  MaxTries = 2
  MaxEdits = 1
  MaxKeys = 3
  MaxEvents = 2
SPECIFICATION Spec
INVARIANTS TypeOK OneKey NothingIsLost KeyIsOwed
CHECK_DEADLOCK FALSE

CONSTANTS
  c1 = c1
  c2 = c2
  c3 = c3
  CRs = {c1, c2}
  at <- TwoPlaces
  UUIDs = {1, 2}
  NoName = NoName
  NoCR = NoCR
  Absent = Absent
  PreExisting = {}
  MaxFaults = 0
SPECIFICATION Spec
CHECK_DEADLOCK FALSE
PROPERTIES
  MachinesStay

CONSTANTS
  c1 = c1
  c2 = c2
  c3 = c3
  CRs = {c1, c2, c3}
  at <- ThreePlaces
  UUIDs = {1, 2}
  NoName = NoName
  NoCR = NoCR
  Absent = Absent
  PreExisting = {"a"}
  MaxFaults = 1
SPECIFICATION FairSpec
CHECK_DEADLOCK FALSE
INVARIANTS
  TypeOK
  OnlyOwnerHasMachines
PROPERTIES
  NoForeignTeardown
  UnsharedMachinesStay
  TenureImplemented
  HandOver
  Served

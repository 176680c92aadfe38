CONSTANTS
  UUIDs = {1,2,3}
  CP = CP
  w1 = w1
  Workers = {w1}
  NoSet = NoSet
  Specs <- ScaleSpecs
  OutOfBand = {1}
  CacheLag = FALSE
  LabelLag = FALSE
  MaxEdits = 1
  MaxFaults = 1
  MaxFlips = 1
SPECIFICATION Spec
CHECK_DEADLOCK FALSE
INVARIANTS
  OneControlPlaneRemoval
  SetOutlivesMachines
PROPERTIES
  RemovalsOneByOne
  NoOverRemoval
  NoOverAllocation
  NothingLeftBehind

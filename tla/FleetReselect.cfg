CONSTANTS
  UUIDs = {1, 2, 3}
  CP = CP
  w1 = w1
  Workers = {w1}
  NoSet = NoSet
  Specs <- GrowSpecs
  OutOfBand = {}
  CacheLag = FALSE
  LabelLag = FALSE
  MaxEdits = 1
  MaxFaults = 0
  MaxFlips = 0
SPECIFICATION Spec
CHECK_DEADLOCK FALSE
INVARIANT AllocatedOnce

CONSTANTS
  UUIDs = {1, 2}
  CP = CP
  w1 = w1
  w2 = w2
  Workers = {w1, w2}
  NoSet = NoSet
  Specs <- RenameSpecs
  OutOfBand = {}
  CacheLag = FALSE
  LabelLag = FALSE
  MaxEdits = 1
  MaxFaults = 0
  MaxFlips = 0
SPECIFICATION FairSpec
CHECK_DEADLOCK FALSE
PROPERTY Convergence

CONSTANTS
  UUIDs = {1,2}
  CP = CP
  w1 = w1
  Workers = {w1}
  NoSet = NoSet
  Specs <- RemoveSpecs
  OutOfBand = {}
  CacheLag = TRUE
  LabelLag = TRUE
  MaxEdits = 1
  MaxFaults = 1
  MaxFlips = 0
SPECIFICATION FairSpec
CHECK_DEADLOCK FALSE
INVARIANTS
  TypeOK
  NoLeakedBinding
  NoLeakedCustomisation
PROPERTIES
  
  NoOverAllocation
  SetsOutliveListed
  LeftoversAreOwned
  Convergence
  DeletionCompletes

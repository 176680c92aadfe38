CONSTANTS
  Machines = {m1, m2}
  NoMachine = NoMachine
  m1 = m1
  m2 = m2
  Cooldown = 1
  CacheLag = TRUE
  OmniLag = {m1}
  MaxTime = 1
  MaxEdits = 0
  MaxFaults = 1
SPECIFICATION FairSpec
CHECK_DEADLOCK FALSE
PROPERTIES
  OwedIsServed
  FirstDriftIsServed

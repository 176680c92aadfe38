CONSTANTS
  Machines = {m1, m2}
  NoMachine = NoMachine
  m1 = m1
  m2 = m2
  Cooldown = 1
  CacheLag = FALSE
  OmniLag = {}
  MaxTime = 1
  MaxEdits = 0
  MaxFaults = 0
SPECIFICATION Spec
CHECK_DEADLOCK FALSE
INVARIANT AtMostOneDown

CONSTANTS
  Machines = {m1, m2}
  NoMachine = NoMachine
  m1 = m1
  m2 = m2
  Cooldown = 1
  CacheLag = TRUE
  OmniLag = {}
  MaxTime = 2
  MaxEdits = 1
  MaxFaults = 1
SPECIFICATION Spec
SYMMETRY Symmetry
CHECK_DEADLOCK FALSE
INVARIANTS
  TypeOK
  HandshakeInv
PROPERTIES
  RequestRespectsCooldown
  OwedEndsByAttempt
  RequestsUnseen
  RebootsAreOwed

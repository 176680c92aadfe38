CONSTANTS
  Flags <- FormatChanges
  Phases = {"ScalingUp", "Running"}
  NoPhase = NoPhase
  NoFail = NoFail
  Messages = {"error"}
  Orders = {"listed"}
  Drifts = {"none"}
  NoDetail = NoDetail
  Interval = 1
  TTL = 3
  MaxChanges = 2
SPECIFICATION FairSpec
CHECK_DEADLOCK FALSE
INVARIANTS
  TypeOK
  GoneLeavesNothing
  ReadyMeansUsable
PROPERTIES
  StatusSettles
  FailureShown
  WritesEnd

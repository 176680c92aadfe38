CONSTANTS
  Flags <- FormatMoves
  Phases = {"ScalingUp", "Running"}
  NoPhase = NoPhase
  NoFail = NoFail
  Messages = {"error"}
  Orders = {"listed"}
  Drifts = {"none"}
  NoDetail = NoDetail
  Interval = 1
  TTL = 3
  MaxChanges = 1
SPECIFICATION Spec
CHECK_DEADLOCK FALSE
INVARIANT GoneLeavesNothing

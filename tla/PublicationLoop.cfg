CONSTANTS
  Flags <- OneFormat
  Phases = {"Running"}
  NoPhase = NoPhase
  NoFail = NoFail
  Messages = {"error"}
  Orders = {"listed"}
  Drifts = {"none"}
  NoDetail = NoDetail
  Interval = 1
  TTL = 3
  MaxChanges = 1
SPECIFICATION FairSpec
CHECK_DEADLOCK FALSE
PROPERTY StatusQuiesces

SPECIFICATION PartsFairSpec
CONSTANTS
  UseAuth = TRUE
  AnnounceIp = TRUE
  Size = 2
  MaxPings = 1
  n1 = n1
  n2 = n2
  None = None
INVARIANTS
  HandlesMatchState
PROPERTIES
  NoPhaseForever
  CatchesUp
  ClaimsSettle
  WritesSettle
CHECK_DEADLOCK FALSE

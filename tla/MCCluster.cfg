SPECIFICATION PartsSpec
CONSTANTS
  n1 = n1
  n2 = n2
  n3 = n3
  Nodes = {n1, n2, n3}
  Joined = {n1, n2, n3}
  MeetPairs = {}
  Forgets = {n3}
  FullCoverage = FALSE
  Silent = {n2}
  None = None
  node1 = node1
  node2 = node2
  node3 = node3
  key1 = key1
  key2 = key2
INVARIANTS
  FailNeedsMajority
  ForgottenStaysOut
  OkMeansMajority
  OneWinner
  ServesLastWrite
  
PROPERTIES
  SlotsMoveForward
CHECK_DEADLOCK FALSE

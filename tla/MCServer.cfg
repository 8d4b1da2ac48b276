SPECIFICATION PartsSpec
CONSTANTS
  s1 = s1
  s2 = s2
  s3 = s3
  Sentinels = {s1, s2}
  Instances = {i1, i2, i3}
  FirstMaster = i1
  Quorum = 2
  ParallelSyncs = 1
  Promotable = {i1, i2, i3}
  MaxEpoch = 1
  Forced = FALSE
  Crashing = {s1, s2}
  Watching = {s1, s2}
  Heals = FALSE
  Tilts = TRUE
  Lossy = TRUE
  Retries = TRUE
  None = None
  peer1 = peer1
  peer2 = peer2
  n1 = n1
  n2 = n2
  n3 = n3
INVARIANTS
  OneLeaderPerEpoch
  PromotedWhileNeeded
  ReplicaConsistent
  TransactionsIsolated
  RepliesInOrder
  NobodyForgotten
  AofReplays
  WritesSurvive
PROPERTIES
  MasterMovesForward
CHECK_DEADLOCK FALSE

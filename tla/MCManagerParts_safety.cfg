SPECIFICATION PartsSpec
CONSTANTS
  Parts = {"creators", "restarts", "autoscale"}
  Limit = 2
  Forms <- Tripling
  Main = main
  Thread = {t1, t2}
  Slot = {s1, s2}
  Symmetric = TRUE
  FirstSlot = s1
  None = None
  Instance = {i1, i2, i3, i4}
  CpuAverages <- AnyLoad
  Handlers = {}
  MaxStarts = 1
  MaxFaults = 0
  Faults = {}
SYMMETRY PartsSymmetry
INVARIANTS PickedLeavesElb LimitKept LastWorkerKept ScalesWhenSettled
CHECK_DEADLOCK FALSE

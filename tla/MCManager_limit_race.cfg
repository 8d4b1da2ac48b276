SPECIFICATION Spec
CONSTANTS
  Instance = {i1, i2, i3}
  Main = main
  Thread = {t1, t2}
  Slot = {s1}
  None = None
  Limit = 2
  Forms <- Doubling
  CpuAverages <- AnyLoad
  Handlers = {"create_worker"}
  MaxStarts = 1
  MaxFaults = 0
  Faults = {}
INVARIANT
  WithinLimit
CHECK_DEADLOCK FALSE

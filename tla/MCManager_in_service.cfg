SPECIFICATION Spec
CONSTANTS
  Instance = {i1, i2, i3}
  Main = main
  Thread = {t1}
  Slot = {s1}
  None = None
  Limit = 3
  Forms <- Doubling
  CpuAverages <- AnyLoad
  Handlers = {"apply", "create_worker"}
  MaxStarts = 1
  MaxFaults = 0
  Faults = {}
INVARIANT
  SettledBeforeScaling
CHECK_DEADLOCK FALSE

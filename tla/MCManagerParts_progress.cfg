SPECIFICATION PartsFairSpec
CONSTANTS
  Parts = {"grow", "shrink", "register"}
  Limit = 3
  Forms <- Shrinking
  Main = main
  Thread = {t1}
  Slot = {s1, s2}
  Symmetric = FALSE
  FirstSlot = s1
  None = None
  Instance = {i1, i2, i3, i4}
  CpuAverages <- AnyLoad
  Handlers = {}
  MaxStarts = 1
  MaxFaults = 0
  Faults = {}
PROPERTIES HighLoadGrows LowLoadShrinks AllRegistered

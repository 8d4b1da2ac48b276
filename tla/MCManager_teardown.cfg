SPECIFICATION Spec
CONSTANTS
  Instance = {i1, i2}
  Main = main
  Thread = {t1}
  Slot = {s1}
  None = None
  Limit = 1
  Forms <- Tripling
  CpuAverages <- AnyLoad
  Handlers = {"create_worker", "delete", "delete_all", "stop_manager", "apply"}
  MaxStarts = 2
  MaxFaults = 1
  Faults = {"exception", "celery restart", "health check"}
SYMMETRY Symmetry
INVARIANTS
  TypeOK
  LimitUnlessOverlap
  NoOrphan
CHECK_DEADLOCK FALSE

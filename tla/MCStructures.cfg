SPECIFICATION PartsSpec
CONSTANTS
  elem1 = elem1
  elem2 = elem2
  elem3 = elem3
  elem4 = elem4
  longElem = longElem
  Inf = Inf
  None = None
INVARIANTS
  LayoutRight
  HoldsContents
  ReadsRight
  IterationRight
  ReplicaSame
CHECK_DEADLOCK FALSE

SPECIFICATION Spec
CONSTANTS
  f1 = f1
  f2 = f2
  f3 = f3
  Files <- ThreeFiles
  MaxActive = 2
  None = None
  MaxLines = 4
  Scenarios <- OnlyCodex
INVARIANTS PriorTurnsStored
CHECK_DEADLOCK FALSE

SPECIFICATION ManagerSpec
CONSTANTS
  Ids = {1, 2}
  ProjectIds = {p1, p2}
  NoMemory = NoMemory
  NotCached = NotCached
  Threshold = 2
  Never = Never
  MaxCount = 3
  MaxTime = 2
SYMMETRY Symmetric
INVARIANTS ListingCurrent InferenceConfirmed

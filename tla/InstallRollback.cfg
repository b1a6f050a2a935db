SPECIFICATION Spec
CONSTANTS
  config = config
  skill = skill
  Procs = {p1, p2}
  Order <- MCOrder
  Whole <- MCWhole
  Config = config
  Absent = Absent
  MaxRuns = 2
  MaxEdits = 2
  MaxFails = 1
  MaxCrashes = 1
SYMMETRY Symmetric
INVARIANTS FailureRestores ReadyMeansInstalled SavedTextKept
CHECK_DEADLOCK FALSE

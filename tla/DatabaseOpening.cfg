SPECIFICATION Spec
CONSTANTS
  Procs = {p1, p2}
  Programs <- MCPrograms
  Off = Off
  NoFile = NoFile
  Torn = Torn
  MaxTime = 1
  MaxRows = 1
  MaxFails = 1
  MaxCrashes = 1
SYMMETRY Symmetric
INVARIANTS SchemaInOrder ServingIsCurrent BackupHolds ReadOnlyHasCause
PROPERTIES BackupsKept

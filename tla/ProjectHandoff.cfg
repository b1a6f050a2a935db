SPECIFICATION Spec
CONSTANTS
  hash = hash
  path = path
  s1 = s1
  s2 = s2
  MemoryIds = {m1}
  Projects = {hash, path}
  Editors = {e1, e2}
  NoRow = NoRow
  Idle = Idle
  MaxEdits = 2
  Identities <- MCIdentities
  Sessions = {s1, s2}
  Turns <- MCTurns
  Hooks = {h1}
  MaxSaves = 2
  MaxDeletes = 1
  MaxFails = 1
SYMMETRY Symmetric
INVARIANTS StateAsAsked CapsuleIsCurrent FailureHasCause AnswerHasReceipt
PROPERTIES DeletedIsFinal
CHECK_DEADLOCK FALSE

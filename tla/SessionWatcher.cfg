SPECIFICATION FairSpec
CONSTANTS
  f1 = f1
  f2 = f2
  f3 = f3
  Files <- ThreeFiles
  MaxActive = 2
  None = None
  MaxLines = 4
  Scenarios <- PausedRefusedOrOutOfReach
INVARIANTS NoticedPauseNotBackfilled SettledTurnStored
PROPERTIES SavesStopAtPause EventuallyStored
CHECK_DEADLOCK FALSE

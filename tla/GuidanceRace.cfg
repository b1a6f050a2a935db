SPECIFICATION Spec
CONSTANTS
  FailureRun = 2
  InspectionRun = 4
  Hooks = {h1, h2}
  Idle = Idle
  Calls <- MCCalls
  Tests = tests
  MaxCalls = 3
  MaxLevels = 1
  MaxFails = 1
INVARIANTS OwnDecision UntestedStopBlocked
PROPERTIES ExpiredStaysExpired
CHECK_DEADLOCK FALSE

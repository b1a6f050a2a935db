SPECIFICATION SessionSpec
CONSTANTS
  FailureRun = 3
  InspectionRun = 4
  Inputs = {i1, i2}
  Results = {r1, r2}
  MaxSignals = 5
INVARIANTS DecisionAsPromised
PROPERTIES VerifyLiftedByValidatedCompletion
CHECK_DEADLOCK FALSE

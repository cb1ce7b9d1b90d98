SPECIFICATION Spec
CONSTANTS
  StepId = {s1, s2}
  MaxPlanSteps = 3
  MaxSteps = 2
  MaxToolCalls = 4
  MaxToolCallsPerStep = 3
  MaxFailures = 3
  MaxAttempts = 2
  RetryToolErrors = TRUE
  RetryInvalidArguments = TRUE
  StoreMayFail = TRUE
  None = None
SYMMETRY StepSymmetry
INVARIANTS
  VerdictMatchesHistory
  FinalEventClosesTrajectory
  StoredHistoryIsSettled
  StoreIsCurrentAtRest
  OpenStepsAreContainedErrors
PROPERTIES
  ImplementsLifecycle

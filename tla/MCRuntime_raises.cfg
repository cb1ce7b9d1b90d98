SPECIFICATION Spec
CONSTANTS
  StepId = {s1, s2}
  MaxPlanSteps = 2
  MaxSteps = 2
  MaxToolCalls = 2
  MaxToolCallsPerStep = 2
  MaxFailures = 2
  MaxAttempts = 2
  RetryToolErrors = TRUE
  RetryInvalidArguments = FALSE
  StoreMayFail = TRUE
  None = None
SYMMETRY StepSymmetry
INVARIANTS
  NeverRaises

SPECIFICATION AgentSpec
CONSTANTS
  s1 = s1
  s2 = s2
  s3 = s3
  StepId = {s1, s2, s3}
  Skeletons <- OneRun
  MaxPlanSteps = 2
  MaxSteps = 2
  MaxToolCalls = 4
  MaxToolCallsPerStep = 3
  MaxFailures = 2
  MaxAttempts = 2
  RetryToolErrors = TRUE
  RetryInvalidArguments = FALSE
  StoreMayFail = FALSE
  MaxRequests = 4
  MaxRepairs = 1
  ClientMayCrash = FALSE
  None = None
INVARIANTS
  DecisionNamesItsCall

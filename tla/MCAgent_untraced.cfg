SPECIFICATION AgentSpec
CONSTANTS
  s1 = s1
  s2 = s2
  s3 = s3
  StepId = {s1, s2, s3}
  Skeletons <- OneRun
  MaxPlanSteps = 2
  MaxSteps = 2
  MaxToolCalls = 3
  MaxToolCallsPerStep = 2
  MaxFailures = 2
  MaxAttempts = 2
  RetryToolErrors = TRUE
  RetryInvalidArguments = FALSE
  StoreMayFail = FALSE
  MaxRequests = 4
  MaxRepairs = 1
  ClientMayCrash = TRUE
  None = None
INVARIANTS
  EveryRequestIsTraced

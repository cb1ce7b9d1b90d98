SPECIFICATION FairAgentSpec
CONSTANTS
  s1 = s1
  s2 = s2
  s3 = s3
  StepId = {s1, s2, s3}
  Skeletons <- TwoRuns
  MaxPlanSteps = 2
  MaxSteps = 2
  MaxToolCalls = 3
  MaxToolCallsPerStep = 2
  MaxFailures = 2
  MaxAttempts = 2
  RetryToolErrors = TRUE
  RetryInvalidArguments = FALSE
  StoreMayFail = FALSE
  MaxRequests = 4
  MaxRepairs = 1
  ClientMayCrash = FALSE
  None = None
INVARIANTS
  PlannerFailureExplained
  EveryRequestIsTraced
PROPERTIES
  RunsAreAnswered

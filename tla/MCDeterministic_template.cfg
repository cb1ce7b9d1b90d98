SPECIFICATION LoopSpec
CONSTANTS
  s1 = s1
  s2 = s2
  s3 = s3
  StepId = {s1, s2, s3}
  FixedPlan <- ThreeSteps
  TemplateSizes <- Sizes
  MaxPlanSteps = 3
  MaxSteps = 3
  MaxToolCalls = 7
  MaxToolCallsPerStep = 4
  MaxFailures = 4
  MaxAttempts = 3
  RetryToolErrors = TRUE
  RetryInvalidArguments = TRUE
  StoreMayFail = TRUE
  None = None
INVARIANTS
  CallsFollowTemplate
  ShortfallHasACause

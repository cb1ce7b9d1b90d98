SPECIFICATION FairLoopSpec
CONSTANTS
  StepId = {1, 2, 3, 4, 5}
  MaxPlanSteps = 5
  MaxSteps = 5
  MaxToolCalls = 9
  MaxToolCallsPerStep = 4
  MaxFailures = 2
  MaxAttempts = 2
  RetryToolErrors = TRUE
  RetryInvalidArguments = FALSE
  StoreMayFail = FALSE
  None = None
  Data <- TinyCase
  Folded <- NoFold
  Limit = 2
  MaxRecords = 2
  MaxIndicators = 3
  FixedLength = 10
  Alerts <- CaseAlerts
  Builders <- CaseBuilders
INVARIANTS
  StepLimitHolds
  LookupsFollowObservation
  ShownResultsHaveTheirCalls
  QueryOutcomesAreTrue
PROPERTIES
  ScriptedRunIsAnswered

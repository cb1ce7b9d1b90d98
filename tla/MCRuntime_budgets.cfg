SPECIFICATION FairSpec
CONSTANTS
  StepId = {s1, s2}
  MaxPlanSteps = 3
  MaxSteps = 3
  MaxToolCalls = 5
  MaxToolCallsPerStep = 4
  MaxFailures = 4
  MaxAttempts = 3
  RetryToolErrors = TRUE
  RetryInvalidArguments = FALSE
  StoreMayFail = FALSE
  None = None
INVARIANTS
  TypeOK
  CountersMatchHistory
  BudgetsRespected
  ResultsTraceToCalls
  CompletedStepsEndOnSuccess
  CallsHaveOneStory
  DispatchesAreJustified
PROPERTIES
  SettledNeverReopens
  RunIsAnswered

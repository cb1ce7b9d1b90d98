SPECIFICATION CaseSpec
CONSTANTS
  Data <- SmallCase
  Folded <- Spellings
  Limit = 3
  Requests <- CaseRequests
  AnswerTo <- CaseAnswers
  AlertValues = {"WS1", "amy"}
  MaxCalls = 3
  MaxUnanswered = 1
  ScriptInterpreters = {"powershell.exe"}
  DocumentProcesses = {"winword.exe"}
  TempPaths = {"tmp/drop.exe"}
  InternalAddresses = {"lan"}
INVARIANTS
  ReferencesTrace
  TagsTellLinks
  SearchesAreComplete
  ObservationsPartitionEvidence
  NoCallIsSilent
  FindingsAreGrounded
  MaliciousIsObserved
  BenignIsEarned
  PartialRunsStayCautious
PROPERTIES
  EvidenceOnlyGrows
  ImplementsGathering

------------------------------ MODULE AgentLoop ------------------------------
(***************************************************************************)
(* The closed loop of runtime and language-model planner: one LLMPlanner   *)
(* drives InvestigationRuntime through one run after the other.  Every     *)
(* decision the runtime waits for is one or more model requests of the     *)
(* planner; everything else is the runtime's own doing.                    *)
(***************************************************************************)
EXTENDS InvestigationRuntime

CONSTANTS
  Skeletons,       \* the fixed plan of each run: step ids are fresh per run
  MaxRequests, MaxRepairs, ClientMayCrash

ASSUME SkeletonAssumption ==
  /\ Skeletons \in Seq(Plan)
  /\ Len(Skeletons) > 0

\* The planner numbers its steps from one counter for all its runs (ids.py).
ASSUME FreshStepsAssumption ==
  \A r, q \in 1..Len(Skeletons) :
    r # q => \A i \in 1..Len(Skeletons[r]), j \in 1..Len(Skeletons[q]) :
               Skeletons[r][i] # Skeletons[q][j]

\* llm_budget.py: max_llm_requests_per_run has ge=1, the repair limit ge=0.
ASSUME BudgetAssumption ==
  /\ MaxRequests \in Nat \ {0}
  /\ MaxRepairs \in Nat
  /\ ClientMayCrash \in BOOLEAN

VARIABLES
  run,             \* number of the run in progress
  used, repairs, trace, lastFailure

LLM == INSTANCE LLMPlanner

\* Python's None is no failure kind.
ASSUME RejectionAssumption == None \notin LLM!Rejections

plannerVars == <<used, repairs, trace, lastFailure>>
agentVars == <<vars, run, plannerVars>>

AgentInit == Init /\ run = 1 /\ LLM!PlannerInit

-----------------------------------------------------------------------------
(* What the planner is told                                                *)

AtLeastZero(n) == IF n < 0 THEN 0 ELSE n
RemainingToolBudget == AtLeastZero(MaxToolCalls - state.totalToolCalls)
RemainingStepBudget == AtLeastZero(MaxToolCallsPerStep - CallsInStep)

\* Mutants of a definition stand before it as Bug_<what goes wrong>.
Bug_StepBudgetIgnored ==
  /\ pc = "deciding"
  /\ RemainingToolBudget > 0

\* Every step of the skeleton has a tool on its allow-list, so only the budgets
\* keep the planner from asking the model.
MayAsk ==
  /\ pc = "deciding"
  /\ LLM!ToolsRemain(RemainingToolBudget, RemainingStepBudget)

-----------------------------------------------------------------------------
(* Decisions                                                               *)

StepFallsBack ==
  /\ pc = "deciding"
  /\ ~MayAsk
  /\ LLM!FallBack(state.currentStep)
  /\ PlannerCompletesStep

ModelDecides(reply) ==
  /\ MayAsk
  /\ LLM!ReplyAccepted(state.currentStep, reply)
  /\ CASE reply.action = "call_tool" -> PlannerCallsTool
       [] reply.action = "complete_step" -> PlannerCompletesStep
       [] reply.action = "fail_step" -> PlannerFailsStep

ModelIsAskedAgain(reply) ==
  /\ MayAsk
  /\ LLM!ReplyRejected(state.currentStep, reply)
  /\ UNCHANGED vars

Bug_GivenUpCompletes(reply) ==
  /\ MayAsk
  /\ LLM!ReplyGivenUp(state.currentStep, reply)
  /\ PlannerCompletesStep

PlannerGivesUp(reply) ==
  /\ MayAsk
  /\ LLM!ReplyGivenUp(state.currentStep, reply)
  /\ PlannerRaises

\* A failed request is sent again, and nobody counts how often.
Bug_RefusalRetried ==
  /\ MayAsk
  /\ LLM!RequestRefused \/ LLM!RequestFails(state.currentStep) \/ LLM!RequestCrashes
  /\ UNCHANGED vars

RequestRaises ==
  /\ MayAsk
  /\ LLM!RequestRefused \/ LLM!RequestFails(state.currentStep) \/ LLM!RequestCrashes
  /\ PlannerRaises

-----------------------------------------------------------------------------
(* The loop                                                                *)

AgentDecides ==
  /\ \/ StepFallsBack
     \/ RequestRaises
     \/ \E reply \in LLM!Reply :
          ModelDecides(reply) \/ ModelIsAskedAgain(reply) \/ PlannerGivesUp(reply)
  /\ UNCHANGED run

RuntimeActs ==
  /\ \/ StartRun
     \/ PlannerCreatesPlan(Skeletons[run])
     \/ StartStep \/ StepBudgetSpent \/ PlanFinished
     \/ FinishStep \/ StopRun
     \/ DispatchCall \/ DispatchBlocked
     \/ ExecutorSucceeds \/ ExecutorRaises
     \/ \E kind \in FailureKind : ExecutorFails(kind)
     \/ ContainError
  /\ UNCHANGED <<run, plannerVars>>

\* The same planner serves the next alert; the runtime starts from scratch.
NextRun ==
  /\ pc = "returned"
  /\ run < Len(Skeletons)
  /\ run' = run + 1
  /\ pc' = "starting"
  /\ state' = InitialState
  /\ stepsStarted' = 0 /\ failedSteps' = 0 /\ attempts' = 0
  /\ outcome' = Completed
  /\ trajectory' = <<>>
  /\ stored' = None
  /\ UNCHANGED plannerVars

LoopEnds ==
  /\ pc \in {"returned", "leaked"}
  /\ pc = "leaked" \/ run = Len(Skeletons)
  /\ UNCHANGED agentVars

AgentNext == AgentDecides \/ RuntimeActs \/ NextRun \/ LoopEnds

AgentSpec == AgentInit /\ [][AgentNext]_agentVars

\* Requests return: the client passes a timeout to every one of them.
FairAgentSpec == AgentSpec /\ WF_agentVars(AgentNext)
=============================================================================

------------------------ MODULE InvestigationRuntime ------------------------
(***************************************************************************)
(* The orchestration runtime of app/runtime: one call of                   *)
(* InvestigationRuntime.run drives one alert through planning, steps, tool *)
(* calls, retries and budgets, records a trajectory and saves its state.   *)
(*                                                                         *)
(* The planner, the tool executor and the runtime store are injected       *)
(* collaborators.  Whatever they may answer is an alternative here: a      *)
(* planner returns any decision or raises, the executor succeeds, reports  *)
(* any failure kind or raises, and save_state raises when StoreMayFail.    *)
(*                                                                         *)
(* The runtime is sequential.  pc is the point in its code where it waits  *)
(* for a collaborator; an action runs from there to the next such point,   *)
(* and an action that saves the state ends with that save.                 *)
(***************************************************************************)
EXTENDS Integers, Sequences, FiniteSets

CONSTANTS
  StepId,                 \* ids a planner may give to plan steps
  MaxPlanSteps,           \* longest plan considered
  MaxSteps,               \* InvestigationBudget.max_steps
  MaxToolCalls,           \* InvestigationBudget.max_tool_calls
  MaxToolCallsPerStep,    \* InvestigationBudget.max_tool_calls_per_step
  MaxFailures,            \* InvestigationBudget.max_failures
  MaxAttempts,            \* RetryPolicy.max_attempts_per_step
  RetryToolErrors,        \* RetryPolicy.retry_tool_errors
  RetryInvalidArguments,  \* RetryPolicy.retry_invalid_arguments
  StoreMayFail,           \* may the injected store raise in save_state?
  None                    \* Python's None

ASSUME StepAssumption ==
  /\ StepId # {}
  /\ None \notin StepId
  /\ MaxPlanSteps \in Nat \ {0}

\* budget.py and retry.py declare every limit with ge=1.
ASSUME LimitAssumption ==
  /\ MaxSteps \in Nat \ {0}
  /\ MaxToolCalls \in Nat \ {0}
  /\ MaxToolCallsPerStep \in Nat \ {0}
  /\ MaxFailures \in Nat \ {0}
  /\ MaxAttempts \in Nat \ {0}

ASSUME PolicyAssumption ==
  /\ RetryToolErrors \in BOOLEAN
  /\ RetryInvalidArguments \in BOOLEAN
  /\ StoreMayFail \in BOOLEAN

VARIABLES
  pc,            \* where the runtime waits (see Location)
  state,         \* the InvestigationRuntimeState of the incident
  stepsStarted,  \* local of _drive; also the position of the current step
  failedSteps,   \* local of _drive
  attempts,      \* local of _execute_planned_tool_call
  outcome,       \* the _StepOutcome _run_step hands back to _drive
  trajectory,    \* events of the TrajectoryRecorder
  stored         \* what the store holds for the incident, or None

vars == <<pc, state, stepsStarted, failedSteps, attempts, outcome, trajectory, stored>>
locals == <<stepsStarted, failedSteps, attempts, outcome>>

-----------------------------------------------------------------------------
(* Vocabulary                                                              *)

TerminalStatus == {"completed", "failed", "budget_exhausted"}
RuntimeStatus == {"initialized", "planning", "running"} \cup TerminalStatus
StepStatus == {"pending", "running", "completed", "failed"}
CallStatus == {"running", "succeeded", "failed"}
FailureKind == {"invalid_arguments", "unknown_tool", "execution_error"}

BUDGET_STOP_REASONS ==
  {"max_steps_exceeded", "max_tool_calls_exceeded",
   "max_tool_calls_per_step_exceeded", "tool_failure_limit"}
StopReason ==
  BUDGET_STOP_REASONS \cup
  {"completed", "planner_failed", "unrecoverable_tool_error", "step_failed",
   "runtime_error"}

\* Python's None is no member of the StopReason enumeration.
ASSUME NoneAssumption == None \notin StopReason

FinalEvent == {"budget_exhausted", "investigation_completed", "investigation_failed"}
EventType ==
  FinalEvent \cup
  {"investigation_started", "plan_created", "step_started", "planner_decision",
   "tool_call_created", "tool_started", "tool_succeeded", "tool_failed",
   "retry_scheduled", "step_completed", "step_failed"}

Location ==
  {"starting", "planning", "iterating", "deciding", "dispatching", "executing",
   "finishing", "stopping", "containing", "returned", "leaked"}

\* Steps of a plan are named by the planner; nothing in InvestigationPlan keeps
\* it from using one id for two steps.
Plan == UNION {[1..n -> StepId] : n \in 1..MaxPlanSteps}

\* A ToolCall, and a ToolResult with the position of the call it answers.
Call == [step : StepId, status : CallStatus]
Result == [call : Nat \ {0}, success : BOOLEAN]
Outcome == [status : {"completed", "failed"}, stopReason : StopReason \cup {None}]
Completed == [status |-> "completed", stopReason |-> None]
FailedWith(stopReason) == [status |-> "failed", stopReason |-> stopReason]

\* plan = <<>> stands for plan None: a plan has at least one step.
RuntimeState ==
  [status : RuntimeStatus, stopReason : StopReason \cup {None},
   plan : Plan \cup {<<>>}, stepStatus : Seq(StepStatus),
   currentStep : StepId \cup {None},
   toolCalls : Seq(Call), toolResults : Seq(Result),
   stepAttempts : [StepId -> Nat],
   totalToolCalls : Nat, totalToolFailures : Nat]

\* An event references its step, tool call and tool result; 0 is "no reference".
Event == [type : EventType, step : StepId \cup {None}, call : Nat, result : Nat]

-----------------------------------------------------------------------------
(* Budget and retry policy                                                 *)

CallsOfStep(s, id) == {i \in 1..Len(s.toolCalls) : s.toolCalls[i].step = id}
CallsInStep == Cardinality(CallsOfStep(state, state.currentStep))

\* Mutants of a definition stand before it as Bug_<what goes wrong>; no other
\* definition uses them.
Bug_StepBudgetOffByOne ==
  IF state.totalToolCalls >= MaxToolCalls THEN "max_tool_calls_exceeded"
  ELSE IF CallsInStep > MaxToolCallsPerStep THEN "max_tool_calls_per_step_exceeded"
  ELSE IF state.totalToolFailures >= MaxFailures THEN "tool_failure_limit"
  ELSE None

Bug_StatusAsReason ==
  IF state.totalToolCalls >= MaxToolCalls THEN "budget_exhausted"
  ELSE IF CallsInStep >= MaxToolCallsPerStep THEN "budget_exhausted"
  ELSE IF state.totalToolFailures >= MaxFailures THEN "budget_exhausted"
  ELSE None

\* The reason that blocks one more dispatch, in the order the code looks.
BlockReason ==
  IF state.totalToolCalls >= MaxToolCalls THEN "max_tool_calls_exceeded"
  ELSE IF CallsInStep >= MaxToolCallsPerStep THEN "max_tool_calls_per_step_exceeded"
  ELSE IF state.totalToolFailures >= MaxFailures THEN "tool_failure_limit"
  ELSE None

Bug_OneRetryTooMany(kind, used) ==
  /\ used <= MaxAttempts
  /\ \/ kind = "invalid_arguments" /\ RetryInvalidArguments
     \/ kind = "execution_error" /\ RetryToolErrors

ShouldRetry(kind, used) ==
  /\ used < MaxAttempts
  /\ \/ kind = "invalid_arguments" /\ RetryInvalidArguments
     \/ kind = "execution_error" /\ RetryToolErrors

\* An execution error that is not retried fails the step only; the other kinds
\* stop the run.
StopForFailure(kind) ==
  IF kind = "execution_error" THEN None ELSE "unrecoverable_tool_error"

RecordAttempt(used) ==
  [state.stepAttempts EXCEPT ![state.currentStep] = IF used > @ THEN used ELSE @]

-----------------------------------------------------------------------------
(* Trajectory and store                                                    *)

EventOf(type, step, call, result) ==
  [type |-> type, step |-> step, call |-> call, result |-> result]
RunEvent(type) == EventOf(type, None, 0, 0)
StepEvent(type) == EventOf(type, state'.currentStep, 0, 0)
CallEvent(type, call, result) == EventOf(type, state'.currentStep, call, result)

Record(events) == trajectory' = trajectory \o events

\* save_state stores a deep copy, or raises and unwinds to onError.
SaveState(then, onError) ==
  \/ stored' = state' /\ pc' = then
  \/ StoreMayFail /\ pc' = onError /\ UNCHANGED stored

-----------------------------------------------------------------------------
(* The run                                                                 *)

InitialState ==
  [status |-> "initialized", stopReason |-> None, plan |-> <<>>, stepStatus |-> <<>>,
   currentStep |-> None, toolCalls |-> <<>>, toolResults |-> <<>>,
   stepAttempts |-> [s \in StepId |-> 0], totalToolCalls |-> 0, totalToolFailures |-> 0]

Init ==
  /\ pc = "starting"
  /\ state = InitialState
  /\ stepsStarted = 0 /\ failedSteps = 0 /\ attempts = 0
  /\ outcome = Completed
  /\ trajectory = <<>>
  /\ stored = None

\* The first save happens outside the try block of run().
StartRun ==
  /\ pc = "starting"
  /\ \/ /\ stored' = state
        /\ state' = [state EXCEPT !.status = "planning"]
        /\ Record(<<RunEvent("investigation_started")>>)
        /\ pc' = "planning"
     \/ /\ StoreMayFail
        /\ pc' = "leaked"
        /\ UNCHANGED <<state, trajectory, stored>>
  /\ UNCHANGED locals

Bug_RecordBeforeSave(status, stopReason, event, onError) ==
  /\ state' = [state EXCEPT !.status = status, !.stopReason = stopReason]
  /\ SaveState("returned", onError)
  /\ Record(<<RunEvent(event)>>)
  /\ UNCHANGED locals

Bug_FinalStateNotSaved(status, stopReason, event, onError) ==
  /\ state' = [state EXCEPT !.status = status, !.stopReason = stopReason]
  /\ pc' = "returned"
  /\ Record(<<RunEvent(event)>>)
  /\ UNCHANGED <<locals, stored>>

\* _terminate saves before it records, so a failed save leaves the terminal
\* status in the state but no final event in the trajectory.
Terminate(status, stopReason, event, onError) ==
  /\ state' = [state EXCEPT !.status = status, !.stopReason = stopReason]
  /\ SaveState("returned", onError)
  /\ IF pc' = "returned" THEN Record(<<RunEvent(event)>>) ELSE UNCHANGED trajectory
  /\ UNCHANGED locals

PlannerCreatesPlan(plan) ==
  /\ pc = "planning"
  /\ state' = [state EXCEPT !.plan = plan, !.status = "running",
                            !.stepStatus = [i \in 1..Len(plan) |-> "pending"]]
  /\ Record(<<RunEvent("plan_created")>>)
  /\ SaveState("iterating", "containing")
  /\ UNCHANGED locals

PlannerFailsToPlan ==
  /\ pc = "planning"
  /\ Terminate("failed", "planner_failed", "investigation_failed", "containing")

-----------------------------------------------------------------------------
(* Steps                                                                   *)

StepsRemain == stepsStarted < Len(state.plan)

Bug_StepLimitOffByOne ==
  /\ pc = "iterating"
  /\ StepsRemain
  /\ stepsStarted <= MaxSteps
  /\ stepsStarted' = stepsStarted + 1
  /\ state' = [state EXCEPT !.currentStep = state.plan[stepsStarted + 1],
                            !.stepStatus[stepsStarted + 1] = "running"]
  /\ Record(<<StepEvent("step_started")>>)
  /\ SaveState("deciding", "containing")
  /\ UNCHANGED <<failedSteps, attempts, outcome>>

StartStep ==
  /\ pc = "iterating"
  /\ StepsRemain
  /\ stepsStarted < MaxSteps
  /\ stepsStarted' = stepsStarted + 1
  /\ state' = [state EXCEPT !.currentStep = state.plan[stepsStarted + 1],
                            !.stepStatus[stepsStarted + 1] = "running"]
  /\ Record(<<StepEvent("step_started")>>)
  /\ SaveState("deciding", "containing")
  /\ UNCHANGED <<failedSteps, attempts, outcome>>

StepBudgetSpent ==
  /\ pc = "iterating"
  /\ StepsRemain
  /\ stepsStarted >= MaxSteps
  /\ Terminate("budget_exhausted", "max_steps_exceeded", "budget_exhausted", "containing")

PlanFinished ==
  /\ pc = "iterating"
  /\ ~StepsRemain
  /\ IF failedSteps > 0
     THEN Terminate("failed", "step_failed", "investigation_failed", "containing")
     ELSE Terminate("completed", "completed", "investigation_completed", "containing")

\* _run_step returns to _drive.
StepEndsWith(result) == outcome' = result /\ pc' = "finishing"

RecordDecision == Record(<<EventOf("planner_decision", state.currentStep, 0, 0)>>)

PlannerCompletesStep ==
  /\ pc = "deciding"
  /\ StepEndsWith(Completed)
  /\ RecordDecision
  /\ UNCHANGED <<state, stepsStarted, failedSteps, attempts, stored>>

PlannerFailsStep ==
  /\ pc = "deciding"
  /\ StepEndsWith(FailedWith(None))
  /\ RecordDecision
  /\ UNCHANGED <<state, stepsStarted, failedSteps, attempts, stored>>

Bug_StepLeftOpen ==
  /\ pc = "deciding"
  /\ outcome' = FailedWith("planner_failed")
  /\ pc' = "stopping"
  /\ UNCHANGED <<state, stepsStarted, failedSteps, attempts, trajectory, stored>>

PlannerRaises ==
  /\ pc = "deciding"
  /\ StepEndsWith(FailedWith("planner_failed"))
  /\ UNCHANGED <<state, stepsStarted, failedSteps, attempts, trajectory, stored>>

PlannerCallsTool ==
  /\ pc = "deciding"
  /\ attempts' = 0
  /\ pc' = "dispatching"
  /\ RecordDecision
  /\ UNCHANGED <<state, stepsStarted, failedSteps, outcome, stored>>

Bug_FailedStepNotCounted ==
  /\ pc = "finishing"
  /\ state' = [state EXCEPT !.stepStatus[stepsStarted] = outcome.status]
  /\ Record(<<StepEvent(IF outcome.status = "completed"
                        THEN "step_completed" ELSE "step_failed")>>)
  /\ SaveState(IF outcome.stopReason = None THEN "iterating" ELSE "stopping", "containing")
  /\ UNCHANGED <<stepsStarted, failedSteps, attempts, outcome>>

FinishStep ==
  /\ pc = "finishing"
  /\ state' = [state EXCEPT !.stepStatus[stepsStarted] = outcome.status]
  /\ failedSteps' = IF outcome = FailedWith(None) THEN failedSteps + 1 ELSE failedSteps
  /\ Record(<<StepEvent(IF outcome.status = "completed"
                        THEN "step_completed" ELSE "step_failed")>>)
  /\ SaveState(IF outcome.stopReason = None THEN "iterating" ELSE "stopping", "containing")
  /\ UNCHANGED <<stepsStarted, attempts, outcome>>

\* _terminate_for_stop_reason.
StopRun ==
  /\ pc = "stopping"
  /\ IF outcome.stopReason \in BUDGET_STOP_REASONS
     THEN Terminate("budget_exhausted", outcome.stopReason, "budget_exhausted", "containing")
     ELSE Terminate("failed", outcome.stopReason, "investigation_failed", "containing")

-----------------------------------------------------------------------------
(* Tool calls                                                              *)

LastCall == Len(state.toolCalls)

\* A retry re-executes the failed call instead of creating a new one.
Bug_RetryReusesCall ==
  /\ pc = "dispatching"
  /\ BlockReason = None
  /\ state' = [state EXCEPT !.toolCalls =
                 IF attempts > 0 THEN [@ EXCEPT ![LastCall].status = "running"]
                 ELSE Append(@, [step |-> state.currentStep, status |-> "running"])]
  /\ Record(<<CallEvent("tool_started", Len(state'.toolCalls), 0)>>)
  /\ pc' = "executing"
  /\ UNCHANGED <<locals, stored>>

Bug_SaveInFlight ==
  /\ pc = "dispatching"
  /\ BlockReason = None
  /\ state' = [state EXCEPT !.toolCalls =
                 Append(@, [step |-> state.currentStep, status |-> "running"])]
  /\ Record(<<CallEvent("tool_call_created", LastCall + 1, 0),
              CallEvent("tool_started", LastCall + 1, 0)>>)
  /\ SaveState("executing", "containing")
  /\ UNCHANGED locals

DispatchCall ==
  /\ pc = "dispatching"
  /\ BlockReason = None
  /\ state' = [state EXCEPT !.toolCalls =
                 Append(@, [step |-> state.currentStep, status |-> "running"])]
  /\ Record(<<CallEvent("tool_call_created", LastCall + 1, 0),
              CallEvent("tool_started", LastCall + 1, 0)>>)
  /\ pc' = "executing"
  /\ UNCHANGED <<locals, stored>>

DispatchBlocked ==
  /\ pc = "dispatching"
  /\ BlockReason # None
  /\ StepEndsWith(FailedWith(BlockReason))
  /\ UNCHANGED <<state, stepsStarted, failedSteps, attempts, trajectory, stored>>

Bug_RaisedAttemptNotCounted(status, results) ==
  /\ attempts' = attempts + 1
  /\ state' = [state EXCEPT !.toolCalls[LastCall].status = status,
                            !.toolResults = @ \o results,
                            !.totalToolCalls = @ + 1,
                            !.totalToolFailures =
                              IF status = "failed" /\ results # <<>> THEN @ + 1 ELSE @,
                            !.stepAttempts = RecordAttempt(attempts + 1)]

\* The attempt ends: the call gets its status, the counters move, and a returned
\* ToolResult is kept.
AnswerCall(status, results) ==
  /\ attempts' = attempts + 1
  /\ state' = [state EXCEPT !.toolCalls[LastCall].status = status,
                            !.toolResults = @ \o results,
                            !.totalToolCalls = @ + 1,
                            !.totalToolFailures = IF status = "failed" THEN @ + 1 ELSE @,
                            !.stepAttempts = RecordAttempt(attempts + 1)]

ResultOf(success) == <<[call |-> LastCall, success |-> success]>>

ExecutorSucceeds ==
  /\ pc = "executing"
  /\ AnswerCall("succeeded", ResultOf(TRUE))
  /\ Record(<<CallEvent("tool_succeeded", LastCall, Len(state'.toolResults))>>)
  /\ SaveState("deciding", "containing")
  /\ UNCHANGED <<stepsStarted, failedSteps, outcome>>

\* The planner is asked again after a failure it never recovers from.
Bug_FailureForgotten(kind) ==
  /\ pc = "executing"
  /\ AnswerCall("failed", ResultOf(FALSE))
  /\ Record(<<CallEvent("tool_failed", LastCall, Len(state'.toolResults))>>)
  /\ SaveState("deciding", "containing")
  /\ UNCHANGED <<stepsStarted, failedSteps, outcome>>

\* A scheduled retry is not saved before the next attempt.
Bug_RetryNotSaved(kind) ==
  /\ pc = "executing"
  /\ AnswerCall("failed", ResultOf(FALSE))
  /\ LET failed == CallEvent("tool_failed", LastCall, Len(state'.toolResults)) IN
     IF ShouldRetry(kind, attempts + 1)
     THEN /\ Record(<<failed, CallEvent("retry_scheduled", LastCall, 0)>>)
          /\ pc' = "dispatching"
          /\ UNCHANGED <<outcome, stored>>
     ELSE /\ Record(<<failed>>)
          /\ outcome' = FailedWith(StopForFailure(kind))
          /\ SaveState("finishing", "containing")
  /\ UNCHANGED <<stepsStarted, failedSteps>>

\* The executor returned a failed ToolResult that classify_tool_failure files
\* under kind.
ExecutorFails(kind) ==
  /\ pc = "executing"
  /\ AnswerCall("failed", ResultOf(FALSE))
  /\ LET failed == CallEvent("tool_failed", LastCall, Len(state'.toolResults)) IN
     IF ShouldRetry(kind, attempts + 1)
     THEN /\ Record(<<failed, CallEvent("retry_scheduled", LastCall, 0)>>)
          /\ SaveState("dispatching", "containing")
          /\ UNCHANGED outcome
     ELSE /\ Record(<<failed>>)
          /\ outcome' = FailedWith(StopForFailure(kind))
          /\ SaveState("finishing", "containing")
  /\ UNCHANGED <<stepsStarted, failedSteps>>

\* The raised call is not referenced by any answer event.
Bug_RaiseNotRecorded ==
  /\ pc = "executing"
  /\ AnswerCall("failed", <<>>)
  /\ outcome' = FailedWith("unrecoverable_tool_error")
  /\ SaveState("finishing", "containing")
  /\ UNCHANGED <<stepsStarted, failedSteps, trajectory>>

\* A raising executor fails the step but lets the run go on.
Bug_RaiseDoesNotStop ==
  /\ pc = "executing"
  /\ AnswerCall("failed", <<>>)
  /\ Record(<<CallEvent("tool_failed", LastCall, 0)>>)
  /\ outcome' = FailedWith(None)
  /\ SaveState("finishing", "containing")
  /\ UNCHANGED <<stepsStarted, failedSteps>>

\* No ToolResult exists; the attempt still counts against both budgets.
ExecutorRaises ==
  /\ pc = "executing"
  /\ AnswerCall("failed", <<>>)
  /\ Record(<<CallEvent("tool_failed", LastCall, 0)>>)
  /\ outcome' = FailedWith("unrecoverable_tool_error")
  /\ SaveState("finishing", "containing")
  /\ UNCHANGED <<stepsStarted, failedSteps>>

-----------------------------------------------------------------------------
(* The except clause of run(): an exception inside _drive ends the run as  *)
(* failed; an exception of _terminate itself reaches the caller.           *)

ContainError ==
  /\ pc = "containing"
  /\ Terminate("failed", "runtime_error", "investigation_failed", "leaked")

Finished == pc \in {"returned", "leaked"} /\ UNCHANGED vars

Next ==
  \/ StartRun
  \/ \E plan \in Plan : PlannerCreatesPlan(plan)
  \/ PlannerFailsToPlan
  \/ StartStep \/ StepBudgetSpent \/ PlanFinished
  \/ PlannerCompletesStep \/ PlannerFailsStep \/ PlannerRaises \/ PlannerCallsTool
  \/ FinishStep \/ StopRun
  \/ DispatchCall \/ DispatchBlocked
  \/ ExecutorSucceeds \/ ExecutorRaises
  \/ \E kind \in FailureKind : ExecutorFails(kind)
  \/ ContainError
  \/ Finished

Spec == Init /\ [][Next]_vars

\* run() is a loop of one thread that never waits: planner and executor calls
\* return (the model client has a timeout, tools read local files).
FairSpec == Spec /\ WF_vars(Next)
=============================================================================

-------------------------- MODULE DeterministicLoop --------------------------
(***************************************************************************)
(* The closed loop of runtime and DeterministicPlanner: one run whose plan *)
(* and calls follow from the alert.  The planner keeps no position of its  *)
(* own; it finds the next call by counting the successful results of the   *)
(* step, so retries, failures and repeated questions all go through that   *)
(* count.                                                                  *)
(***************************************************************************)
EXTENDS InvestigationRuntime

CONSTANTS
  FixedPlan,       \* the step skeleton; every step has an id of its own
  TemplateSizes    \* how many calls the template of a step may hold

ASSUME TemplateAssumption ==
  /\ FixedPlan \in Plan
  /\ \A i, j \in DOMAIN FixedPlan : FixedPlan[i] = FixedPlan[j] => i = j
  /\ TemplateSizes \in [StepId -> SUBSET Nat]

VARIABLES
  planned,   \* number of calls in _planned_calls, by step id
  next,      \* the planned call of the last decision, counted from 1
  asked      \* for each ToolCall, the planned call it carries out

loopVars == <<vars, planned, next, asked>>

LoopInit ==
  /\ Init
  /\ planned = [s \in StepId |-> 0]
  /\ next = 0
  /\ asked = <<>>

-----------------------------------------------------------------------------
(* The planner                                                             *)

\* The alert's fields decide how many calls each template holds.
CreatePlan ==
  /\ planned' \in {p \in [StepId -> UNION {TemplateSizes[s] : s \in StepId}] :
                     \A s \in StepId : p[s] \in TemplateSizes[s]}
  /\ PlannerCreatesPlan(FixedPlan)
  /\ UNCHANGED <<next, asked>>

Bug_StepIgnored ==
  Cardinality({r \in 1..Len(state.toolResults) : state.toolResults[r].success})

\* _completed_call_count.
CompletedCalls ==
  Cardinality({r \in 1..Len(state.toolResults) :
    /\ state.toolResults[r].success
    /\ state.toolCalls[state.toolResults[r].call].step = state.currentStep})

AllCallsFinished == CompletedCalls >= planned[state.currentStep]

\* A step whose template is empty fails.
Bug_EmptyStepFails ==
  /\ AllCallsFinished
  /\ IF planned[state.currentStep] = 0 THEN PlannerFailsStep ELSE PlannerCompletesStep
  /\ UNCHANGED <<planned, next, asked>>

DecideStepDone ==
  /\ AllCallsFinished
  /\ PlannerCompletesStep
  /\ UNCHANGED <<planned, next, asked>>

DecideNextCall ==
  /\ ~AllCallsFinished
  /\ next' = CompletedCalls + 1
  /\ PlannerCallsTool
  /\ UNCHANGED <<planned, asked>>

-----------------------------------------------------------------------------
(* The loop                                                                *)

\* A retry carries out the decision the runtime already has.
Dispatch ==
  /\ DispatchCall
  /\ asked' = Append(asked, next)
  /\ UNCHANGED <<planned, next>>

LoopActs ==
  /\ \/ StartRun
     \/ StartStep \/ StepBudgetSpent \/ PlanFinished
     \/ FinishStep \/ StopRun
     \/ DispatchBlocked
     \/ ExecutorSucceeds \/ ExecutorRaises
     \/ \E kind \in FailureKind : ExecutorFails(kind)
     \/ ContainError
     \/ Finished
  /\ UNCHANGED <<planned, next, asked>>

LoopNext ==
  \/ CreatePlan
  \/ pc = "deciding" /\ (DecideStepDone \/ DecideNextCall)
  \/ Dispatch
  \/ LoopActs

LoopSpec == LoopInit /\ [][LoopNext]_loopVars

-----------------------------------------------------------------------------
(* Correctness                                                             *)

Succeeded(step) ==
  {c \in CallsOfStep(state, step) : state.toolCalls[c].status = "succeeded"}

\* decide_next_action works its template off in order whatever fails in between:
\* each call of a step carries out the planned call after those that succeeded,
\* and a step never makes more than its template holds. A completed step has
\* carried out its whole template.
CallsFollowTemplate ==
  /\ \A s \in StepId : \A c \in CallsOfStep(state, s) :
       /\ asked[c] = Cardinality({b \in Succeeded(s) : b < c}) + 1
       /\ asked[c] <= planned[s]
  /\ \A i \in 1..Len(state.stepStatus) : state.stepStatus[i] = "completed" =>
       Cardinality(Succeeded(state.plan[i])) = planned[state.plan[i]]

\* With this planner a run falls short of completion only for a cause outside it:
\* a call failed, a budget ran out, or the store raised.
ShortfallHasACause ==
  pc = "returned" /\ state.status # "completed" =>
    \/ \E c \in 1..Len(state.toolCalls) : state.toolCalls[c].status = "failed"
    \/ state.stopReason \in BUDGET_STOP_REASONS
    \/ state.stopReason = "runtime_error"
=============================================================================

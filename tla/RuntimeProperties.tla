-------------------------- MODULE RuntimeProperties --------------------------
(***************************************************************************)
(* Correctness of InvestigationRuntime: what callers, the evidence layer   *)
(* and readers of the store or of the trajectory rely on.                  *)
(***************************************************************************)
EXTENDS InvestigationRuntime

CallIndex == 1..Len(state.toolCalls)
StepIndex == 1..Len(state.stepStatus)
EventIndex == 1..Len(trajectory)
CallsWith(status) == {i \in CallIndex : state.toolCalls[i].status = status}

\* Types of all variables: the runtime's record, its locals, its trajectory and
\* the stored copy (contracts.py).
TypeOK ==
  /\ pc \in Location
  /\ state \in RuntimeState
  /\ stepsStarted \in Nat /\ failedSteps \in Nat /\ attempts \in Nat
  /\ outcome \in Outcome
  /\ trajectory \in Seq(Event)
  /\ stored \in RuntimeState \cup {None}

\* The counting semantics of the module docstring of runtime.py: the totals the
\* budget is checked against are exactly the settled and the failed calls of the
\* history, on every path (retry, returned failure, executor exception).
CountersMatchHistory ==
  /\ Len(state.toolCalls) =
       state.totalToolCalls + (IF pc = "executing" THEN 1 ELSE 0)
  /\ CallsWith("running") = IF pc = "executing" THEN {LastCall} ELSE {}
  /\ state.totalToolFailures = Cardinality(CallsWith("failed"))

\* No limit of InvestigationBudget or RetryPolicy is ever overrun, retries
\* included, even when a plan uses one step id twice.
BudgetsRespected ==
  /\ stepsStarted <= MaxSteps
  /\ Len(state.toolCalls) <= MaxToolCalls
  /\ state.totalToolFailures <= MaxFailures
  /\ \A id \in StepId :
       /\ Cardinality(CallsOfStep(state, id)) <= MaxToolCallsPerStep
       /\ state.stepAttempts[id] <= MaxAttempts

\* The hand-off to the evidence layer: results refer to calls in call order and
\* agree with their status; a settled call without a result is the last one and
\* failed in the executor.
ResultsTraceToCalls ==
  LET results == state.toolResults
      answered == {results[r].call : r \in 1..Len(results)} IN
  /\ \A q, r \in 1..Len(results) : q < r => results[q].call < results[r].call
  /\ \A r \in 1..Len(results) :
       /\ results[r].call \in CallIndex
       /\ state.toolCalls[results[r].call].status =
            IF results[r].success THEN "succeeded" ELSE "failed"
  /\ \A c \in CallIndex \ answered :
       /\ c = LastCall
       /\ state.toolCalls[c].status # "succeeded"
       /\ pc \notin {"iterating", "deciding", "dispatching"}

\* The status and stop reason handed to the caller are accounted for by the
\* steps, the calls and the limits of the run (_drive, _terminate_for_stop_reason).
VerdictMatchesHistory ==
  pc = "returned" =>
    LET reason == state.stopReason
        settledUpTo(n) == \A i \in StepIndex :
          state.stepStatus[i] \in (IF i <= n THEN {"completed", "failed"} ELSE {"pending"})
        cutShort == settledUpTo(stepsStarted) /\ state.stepStatus[stepsStarted] = "failed"
    IN
    /\ state.status =
         CASE reason = "completed" -> "completed"
           [] reason \in BUDGET_STOP_REASONS -> "budget_exhausted"
           [] OTHER -> "failed"
    /\ CASE reason = "completed" ->
              state.plan # <<>> /\ \A i \in StepIndex : state.stepStatus[i] = "completed"
         [] reason = "step_failed" ->
              settledUpTo(Len(state.plan)) /\ \E i \in StepIndex : state.stepStatus[i] = "failed"
         [] reason = "planner_failed" -> state.plan = <<>> \/ cutShort
         [] reason = "unrecoverable_tool_error" ->
              /\ cutShort
              /\ state.toolCalls[LastCall] = [step |-> state.currentStep, status |-> "failed"]
         [] reason = "max_steps_exceeded" ->
              settledUpTo(MaxSteps) /\ Len(state.plan) > MaxSteps
         [] reason = "max_tool_calls_exceeded" ->
              cutShort /\ Len(state.toolCalls) = MaxToolCalls
         [] reason = "max_tool_calls_per_step_exceeded" ->
              cutShort /\ CallsInStep = MaxToolCallsPerStep
         [] reason = "tool_failure_limit" ->
              cutShort /\ Cardinality(CallsWith("failed")) = MaxFailures
         [] reason = "runtime_error" -> StoreMayFail

\* A step is never reported completed on top of a failed last call: a failed call
\* is retried to success or takes its step down with it.
CompletedStepsEndOnSuccess ==
  \A id \in StepId :
    LET calls == CallsOfStep(state, id) IN
    (/\ calls # {}
     /\ \A i \in StepIndex : state.plan[i] = id => state.stepStatus[i] = "completed")
      => \E c \in calls : /\ \A d \in calls : d <= c
                          /\ state.toolCalls[c].status = "succeeded"

\* Exactly one final event closes the trajectory of a returned run, and it is the
\* one of the reported status, also when a save failed on the way out.
FinalEventClosesTrajectory ==
  /\ \A i \in EventIndex :
       trajectory[i].type \in FinalEvent => i = Len(trajectory) /\ pc = "returned"
  /\ pc = "returned" =>
       trajectory[Len(trajectory)].type =
         CASE state.status = "completed" -> "investigation_completed"
           [] state.status = "failed" -> "investigation_failed"
           [] state.status = "budget_exhausted" -> "budget_exhausted"

\* The events from first to last tell the life of call c: created, started, and one
\* answer that agrees with its status and result.
TellStory(c, first, last) ==
  LET call == state.toolCalls[c]
      answer == trajectory[first + 2] IN
  /\ \A i \in first..last : trajectory[i].step = call.step
  /\ first < last
  /\ trajectory[first].type = "tool_call_created"
  /\ trajectory[first + 1].type = "tool_started"
  /\ CASE call.status = "running" -> last = first + 1
       [] call.status = "succeeded" -> last = first + 2 /\ answer.type = "tool_succeeded"
       [] call.status = "failed" ->
            /\ last \in {first + 2, first + 3} /\ answer.type = "tool_failed"
            /\ last = first + 3 => trajectory[last].type = "retry_scheduled"
  /\ call.status # "running" =>
       \/ answer.result = 0 /\ \A r \in 1..Len(state.toolResults) : state.toolResults[r].call # c
       \/ /\ answer.result \in 1..Len(state.toolResults)
          /\ state.toolResults[answer.result].call = c

\* The events that reference a call follow each other and tell its life: created,
\* started, one answer that agrees with its status and result, and at most one
\* retry of a failure.
CallsHaveOneStory ==
  \A c \in CallIndex :
    LET story == {i \in EventIndex : trajectory[i].call = c} IN
    \E first, last \in story : story = first..last /\ TellStory(c, first, last)

\* A call is dispatched because the planner asked for it or because a retry was
\* scheduled, never otherwise; a scheduled retry becomes a new call of the same
\* step, unless a budget stops the run first; one decision causes at most
\* max_attempts_per_step calls.
DispatchesAreJustified ==
  /\ \A i \in EventIndex :
       trajectory[i].type = "tool_call_created" =>
         /\ trajectory[i - 1].type \in {"planner_decision", "retry_scheduled"}
         /\ trajectory[i - 1].step = trajectory[i].step
  /\ \A i \in 1..(Len(trajectory) - 1) :
       trajectory[i].type = "retry_scheduled" =>
         \/ /\ trajectory[i + 1].type = "tool_call_created"
            /\ trajectory[i + 1].call = trajectory[i].call + 1
         \/ /\ trajectory[i + 1].type = "step_failed"
            /\ outcome.stopReason \in BUDGET_STOP_REASONS
         \/ trajectory[i + 1].type = "investigation_failed" /\ StoreMayFail
  /\ \A i, j \in EventIndex :
       (/\ i < j
        /\ \A k \in i..j : trajectory[k].type # "planner_decision")
         => Cardinality({k \in i..j : trajectory[k].type = "tool_call_created"}) <= MaxAttempts

\* Whoever loads the state of an incident never sees a call without its outcome,
\* nor totals that disagree with the calls.
StoredHistoryIsSettled ==
  stored # None =>
    /\ \A i \in 1..Len(stored.toolCalls) : stored.toolCalls[i].status # "running"
    /\ stored.totalToolCalls = Len(stored.toolCalls)
    /\ stored.totalToolFailures =
         Cardinality({i \in 1..Len(stored.toolCalls) : stored.toolCalls[i].status = "failed"})

\* Outside planning and an executing call the store is up to date; in particular
\* a returned run is the stored one.
StoreIsCurrentAtRest ==
  pc \in {"iterating", "deciding", "dispatching", "finishing", "stopping", "returned"}
    => stored = state

\* Settled steps and calls never change again and results are only added: a retry
\* is a new call (README, "no terminal regression"; retry.py).
SettledNeverReopens ==
  [][/\ \A i \in StepIndex : state.stepStatus[i] \in {"completed", "failed"} =>
          state'.stepStatus[i] = state.stepStatus[i]
     /\ \A c \in CallIndex : state.toolCalls[c].status # "running" =>
          state'.toolCalls[c] = state.toolCalls[c]
     /\ Len(state.toolResults) <= Len(state'.toolResults)
     /\ \A r \in 1..Len(state.toolResults) : state'.toolResults[r] = state.toolResults[r]
    ]_state

-----------------------------------------------------------------------------
(* Liveness and refinement                                                 *)

\* Whatever the planner decides, the budgets make every run end, and the final
\* state stays in the store.
RunIsAnswered == <>[](pc = "returned" /\ stored = state /\ state.status \in TerminalStatus)

\* The run as its caller sees it: a terminal status counts only once run() has
\* returned it, since a failed save may still turn it into a contained error.
Lifecycle == INSTANCE RunLifecycle WITH
  StepLimit <- MaxSteps,
  CallLimit <- MaxToolCalls,
  phase <- IF pc \in {"containing", "leaked"}
           THEN (IF pc = "leaked" /\ trajectory = <<>> THEN "initialized"
                 ELSE IF state.plan = <<>> THEN "planning" ELSE "running")
           ELSE state.status,
  steps <- state.stepStatus,
  spent <- Len(state.toolCalls)

\* The runtime implements the lifecycle its caller is promised.
ImplementsLifecycle == Lifecycle!Spec

\* runtime.py:10, "every step completes or fails": the one exception is a runtime
\* error, whose handler ends the run without finishing the step it came from. It
\* leaves one step open, and only while that step is the one being worked on.
OpenStepsAreContainedErrors ==
  pc = "returned" =>
    LET open == {i \in StepIndex : state.stepStatus[i] = "running"} IN
    /\ open # {} => state.stopReason = "runtime_error" /\ Cardinality(open) = 1
    /\ \A i \in open, j \in StepIndex :
         j < i => state.stepStatus[j] \in {"completed", "failed"}

-----------------------------------------------------------------------------
(* What the comments of runtime.py say                                     *)

\* runtime.py:130 and :153, "never raises", "must never leak an exception".
NeverRaises == pc # "leaked"

=============================================================================

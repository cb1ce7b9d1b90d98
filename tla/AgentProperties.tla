-------------------------- MODULE AgentProperties --------------------------
(***************************************************************************)
(* Correctness of AgentLoop: how the planner's trace, its request budget   *)
(* and its failure reason relate to what the runtime did.                  *)
(***************************************************************************)
EXTENDS AgentLoop, Correlation

RunSteps == {Skeletons[run][i] : i \in 1..Len(Skeletons[run])}
\* The trace entries of requests, and those of decisions returned in this run.
Requests == {d \in 1..Len(trace) : trace[d].request # 0}
Decisions == {d \in 1..Len(trace) : trace[d].step \in RunSteps /\ trace[d].status # "rejected"}
DecisionEvents == {i \in 1..Len(trajectory) : trajectory[i].type = "planner_decision"}

\* How many of the positions in S come before x.
Before(S, x) == Cardinality({y \in S : y < x})

\* The events that may follow a decision.
OutcomesOf(action) ==
  CASE action = "complete_step" -> {"step_completed"}
    [] action = "fail_step" -> {"step_failed"}
    [] action = "call_tool" -> {"tool_call_created", "step_failed"}

\* One repair chain per decision (llm_planner.py, "One repair request per decision
\* is allowed and counts against the model request budget"): a repair follows the
\* rejection it repairs directly, for the same step, within the limit, and only a
\* repair is traced as repaired.
RepairsFollowRejections ==
  \A i \in 1..Len(trace) :
    LET e == trace[i] IN
    /\ e.repair <= MaxRepairs
    /\ e.repair > 0 =>
         /\ i > 1
         /\ trace[i - 1].status = "rejected"
         /\ trace[i - 1].step = e.step
         /\ trace[i - 1].repair = e.repair - 1
         /\ trace[i - 1].request = e.request - 1
    /\ e.status = "repaired_accepted" => e.repair > 0
    /\ e.status = "accepted" => e.repair = 0

\* The trajectory and the trace tell one story: the decisions the runtime recorded
\* are, in order and step by step, those the planner returned, and what follows
\* each of them is what it asked for.
DecisionsMatchTrajectory ==
  /\ Cardinality(Decisions) = Cardinality(DecisionEvents)
  /\ \A d \in Decisions, i \in DecisionEvents :
       Before(Decisions, d) = Before(DecisionEvents, i) =>
         /\ trajectory[i].step = trace[d].step
         /\ i < Len(trajectory) => trajectory[i + 1].type \in OutcomesOf(trace[d].action)

\* The planner closes a step before its call budget is overdrawn, so only a retry,
\* which it is not asked about, can end a run on a call budget.
CallBudgetStopsOnlyRetries ==
  /\ pc = "returned"
  /\ state.stopReason \in {"max_tool_calls_exceeded", "max_tool_calls_per_step_exceeded"}
  => trajectory[Len(trajectory) - 2].type = "retry_scheduled"

\* Trace entry d holds the decision the i-th event of the trajectory follows from.
DecidedBy(i, d) ==
  d \in Decisions /\ Before(Decisions, d) + 1 = Before(DecisionEvents, i)

\* As long as nothing is retried, the correlated trace names for every call the
\* decision that asked for it (correlate_trace_with_run).
CallsNamedWithoutRetries ==
  (\A i \in 1..Len(trajectory) : trajectory[i].type # "retry_scheduled") =>
    LET named == Correlate(trace, state.toolCalls) IN
    \A i \in 1..Len(trajectory) : trajectory[i].type = "tool_call_created" =>
      \A d \in 1..Len(trace) : named[d] = trajectory[i].call <=> DecidedBy(i, d)

\* A run that ends on a planner failure leaves its reason in last_failure_reason:
\* the last traced failure, or the exhausted request budget.
PlannerFailureExplained ==
  pc = "returned" /\ state.stopReason = "planner_failed" =>
    \/ lastFailure = "llm_budget_exhausted" /\ used = MaxRequests
    \/ /\ trace # <<>>
       /\ trace[Len(trace)].status = "rejected"
       /\ trace[Len(trace)].failure = lastFailure
       /\ trace[Len(trace)].step = state.currentStep

\* decision_trace.py:3, "Every model request produces one immutable trace entry":
\* the traced requests are exactly the counted ones, in order.
EveryRequestIsTraced ==
  /\ Cardinality(Requests) = used
  /\ \A d \in Requests : trace[d].request = Before(Requests, d) + 1

\* Every run of the loop is answered, however the model replies.
RunsAreAnswered ==
  \A n \in 1..Len(Skeletons) :
    (run = n /\ pc = "starting") ~> (run = n /\ pc = "returned")

-----------------------------------------------------------------------------
(* What comments of the agent code say                                     *)

\* decision_trace.py:4, correlation yields "the resulting tool_call_id" of a
\* decision: the call it names was created because of that decision.
DecisionNamesItsCall ==
  LET named == Correlate(trace, state.toolCalls) IN
  \A i \in 1..Len(trajectory) : trajectory[i].type = "tool_call_created" =>
    \A d \in 1..Len(trace) : named[d] = trajectory[i].call => DecidedBy(i, d)
=============================================================================

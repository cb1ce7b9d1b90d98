----------------------------- MODULE LLMPlanner -----------------------------
(***************************************************************************)
(* The model-driven planner of app/agents: decide_next_action asks a       *)
(* language model for the next decision of a step, validates the answer,   *)
(* asks once more to repair a rejected one, counts every request against   *)
(* LLMBudget and traces what happened.                                     *)
(*                                                                         *)
(* The model's answer is arbitrary: any Reply, a client error, or another  *)
(* exception when ClientMayCrash.  The planner is a component of AgentLoop *)
(* which supplies the step, the remaining tool budgets and what the runtime*)
(* does with the outcome; it has no next-state relation of its own.        *)
(***************************************************************************)
EXTENDS Integers, Sequences

CONSTANTS
  StepId,          \* ids of plan steps
  MaxRequests,     \* LLMBudget.max_llm_requests_per_run
  MaxRepairs,      \* LLMBudget.max_repair_attempts_per_decision
  ClientMayCrash,  \* may complete() raise something else than LLMClientError?
  None

VARIABLES
  used,         \* LLMBudgetTracker._used
  repairs,      \* local repair_attempt of decide_next_action
  trace,        \* entries of the AgentDecisionTraceRecorder
  lastFailure   \* LLMPlanner.last_failure_reason, or None

plannerVars == <<used, repairs, trace, lastFailure>>

-----------------------------------------------------------------------------
(* Replies and their validation                                            *)

Action == {"call_tool", "complete_step", "fail_step"}

\* What _validate tells apart in an answer.  The step's allow-list has one tool;
\* a supplied case id is ignored when it is the trusted one.
Reply ==
  [action : {"not_json", "no_decision", "complete_step", "fail_step"}]
  \cup [action : {"call_tool"}, toolAllowed : BOOLEAN,
        caseId : {"absent", "trusted", "foreign"},
        arguments : {"valid", "unknown", "invalid"}]

Rejections ==
  {"invalid_json", "invalid_decision", "illegal_tool", "case_id_mismatch",
   "illegal_arguments"}

\* The failure_kind of _validate, or None for a valid decision.  Its
\* budget_exceeded branch is dead: decide_next_action has checked both budgets.
Rejection(reply) ==
  IF reply.action = "not_json" THEN "invalid_json"
  ELSE IF reply.action = "no_decision" THEN "invalid_decision"
  ELSE IF reply.action # "call_tool" THEN None
  ELSE IF ~reply.toolAllowed THEN "illegal_tool"
  ELSE IF reply.caseId = "foreign" THEN "case_id_mismatch"
  ELSE IF reply.arguments # "valid" THEN "illegal_arguments"
  ELSE None

-----------------------------------------------------------------------------
(* Requests, trace and failure reason                                      *)

Status == {"accepted", "repaired_accepted", "rejected", "fallback"}
Entry ==
  [step : StepId, action : Action, status : Status, selected : BOOLEAN,
   request : Nat, repair : Nat, failure : Rejections \cup {"client_error", None}]

PlannerInit == used = 0 /\ repairs = 0 /\ trace = <<>> /\ lastFailure = None

Trace(step, action, status, failure) ==
  trace' = Append(trace,
    [step |-> step, action |-> action, status |-> status,
     selected |-> action = "call_tool" /\ status # "rejected",
     request |-> IF status = "fallback" THEN 0 ELSE used',
     repair |-> repairs, failure |-> failure])

ToolsRemain(toolBudget, stepBudget) == toolBudget > 0 /\ stepBudget > 0

\* LLMBudgetTracker.consume counts a request before it is sent.
Consume == used < MaxRequests /\ used' = used + 1

\* The repair count outlives the decision.
Bug_RepairCountKept == UNCHANGED repairs

\* decide_next_action starts the next decision with repair_attempt = 0.
DecisionEnds == repairs' = 0

\* The budget is exhausted: complete_step without asking the model.
FallBack(step) ==
  /\ Trace(step, "complete_step", "fallback", None)
  /\ UNCHANGED <<used, repairs, lastFailure>>

Bug_RefusalNotExplained ==
  /\ used >= MaxRequests
  /\ DecisionEnds
  /\ UNCHANGED <<used, trace, lastFailure>>

\* consume raises LLMBudgetExhausted: nothing is traced.
RequestRefused ==
  /\ used >= MaxRequests
  /\ lastFailure' = "llm_budget_exhausted"
  /\ DecisionEnds
  /\ UNCHANGED <<used, trace>>

ReplyAccepted(step, reply) ==
  /\ Consume
  /\ Rejection(reply) = None
  /\ Trace(step, reply.action, IF repairs = 0 THEN "accepted" ELSE "repaired_accepted", None)
  /\ DecisionEnds
  /\ UNCHANGED lastFailure

\* The answer is rejected and the model is asked to repair it.
ReplyRejected(step, reply) ==
  /\ Consume
  /\ Rejection(reply) # None
  /\ repairs < MaxRepairs
  /\ Trace(step, "call_tool", "rejected", Rejection(reply))
  /\ lastFailure' = Rejection(reply)
  /\ repairs' = repairs + 1

\* The last repair is rejected as well: PlannerError.
ReplyGivenUp(step, reply) ==
  /\ Consume
  /\ Rejection(reply) # None
  /\ repairs >= MaxRepairs
  /\ Trace(step, "call_tool", "rejected", Rejection(reply))
  /\ lastFailure' = Rejection(reply)
  /\ DecisionEnds

Bug_ErrorNotTraced(step) ==
  /\ Consume
  /\ lastFailure' = "client_error"
  /\ DecisionEnds
  /\ UNCHANGED trace

\* An LLMClientError (timeout, HTTP status, malformed body) is not retried.
RequestFails(step) ==
  /\ Consume
  /\ Trace(step, "call_tool", "rejected", "client_error")
  /\ lastFailure' = "client_error"
  /\ DecisionEnds

\* Any other exception of the client passes through: neither traced nor kept.
RequestCrashes ==
  /\ ClientMayCrash
  /\ Consume
  /\ DecisionEnds
  /\ UNCHANGED <<trace, lastFailure>>
=============================================================================

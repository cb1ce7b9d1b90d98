---------------------------- MODULE ScriptedLoop ----------------------------
(***************************************************************************)
(* The loop of app/demo/llm_investigation.py: runtime, context builder,    *)
(* rule-based client and the tools over one case.  The planner's decision  *)
(* takes several steps here: the context is built, reduced entry by entry  *)
(* and handed to the client, whose valid answer becomes the decision       *)
(* (AgentLoop has the requests that fail).  The tools answer what the case *)
(* holds, and any call may fail or raise instead.                          *)
(***************************************************************************)
EXTENDS InvestigationRuntime

CONSTANTS
  Data, Folded, Limit,                      \* see CaseTools
  MaxRecords, MaxIndicators, FixedLength,   \* see PlannerContext
  Alerts,       \* the alerts a run may start from
  Builders      \* the limits a context builder may be made with

Client == INSTANCE ScriptedClient

\* The id of a step of the skeleton is its order.
Skeleton == <<1, 2, 3, 4, 5>>

ASSUME SkeletonAssumption == Skeleton \in Plan

ASSUME CaseAssumption == Client!WellFormed

ASSUME BuilderAssumption == Builders \subseteq [history : Nat, length : Nat]

ASSUME ViewAssumption == MaxRecords \in Nat

VARIABLES
  alert,      \* the alert under investigation
  builder,    \* max_history_results and max_characters of the context builder
  context,    \* the context being built, or None
  decided,    \* the request of the last decision
  asked,      \* the step and request of each ToolCall
  answered,   \* the call and payload of each ToolResult
  decisions   \* history: each decision, with the context it was made from

scriptVars == <<alert, builder, context, decided, asked, answered, decisions>>
loopVars == <<vars, scriptVars>>

LoopInit ==
  /\ Init
  /\ alert \in Alerts /\ builder \in Builders
  /\ context = None /\ decided = None
  /\ asked = <<>> /\ answered = <<>> /\ decisions = <<>>

-----------------------------------------------------------------------------
(* The planner                                                             *)

CallsRemain ==
  state.totalToolCalls < MaxToolCalls /\ CallsInStep < MaxToolCallsPerStep

FallBack ==
  /\ pc = "deciding" /\ ~CallsRemain
  /\ PlannerCompletesStep
  /\ UNCHANGED scriptVars

BuildContext ==
  /\ pc = "deciding" /\ CallsRemain /\ context = None
  /\ context' = Client!Built(asked, answered, builder.history)
  /\ UNCHANGED <<vars, alert, builder, decided, asked, answered, decisions>>

TooLong == Client!Length(context) > builder.length

\* _enforce_character_limit goes round once more.
ReduceContext ==
  /\ pc = "deciding" /\ context # None
  /\ TooLong /\ Client!Reducible(context)
  /\ context' = [Client!Reduced(context) EXCEPT !.truncated = TRUE]
  /\ UNCHANGED <<vars, alert, builder, decided, asked, answered, decisions>>

\* A context that cannot be reduced any further is sent although it is too long.
\* What is shown and decided are bound by \E so that TLC evaluates each once.
ClientDecides ==
  /\ pc = "deciding" /\ context # None
  /\ TooLong => ~Client!Reducible(context)
  /\ \E shown \in {[context EXCEPT !.truncated = @ \/ TooLong]} :
       \E decision \in {Client!Decide(alert, state.currentStep, shown)} :
         /\ IF decision.action = "call_tool" THEN PlannerCallsTool ELSE PlannerCompletesStep
         /\ decided' = decision.request
         /\ decisions' = Append(decisions,
              [step |-> state.currentStep, action |-> decision.action,
               request |-> decision.request, context |-> shown,
               calls |-> Len(asked), results |-> Len(answered)])
  /\ context' = None
  /\ UNCHANGED <<alert, builder, asked, answered>>

-----------------------------------------------------------------------------
(* The tools                                                               *)

\* A retry carries out the same decision.
Dispatch ==
  /\ DispatchCall
  /\ asked' = Append(asked, [step |-> state.currentStep, request |-> decided])
  /\ UNCHANGED <<alert, builder, context, decided, answered, decisions>>

Answers(answer) == answered' = Append(answered, [call |-> Len(asked), answer |-> answer])

ToolAnswers ==
  /\ pc = "executing"
  /\ LET answer == Client!Answer(asked[Len(asked)].request) IN
     /\ IF answer.success THEN ExecutorSucceeds ELSE ExecutorFails("invalid_arguments")
     /\ Answers(answer)
  /\ UNCHANGED <<alert, builder, context, decided, asked, decisions>>

\* A tool raised; the executor reports it.
ToolFails ==
  /\ ExecutorFails("execution_error")
  /\ Answers(Client!Failed)
  /\ UNCHANGED <<alert, builder, context, decided, asked, decisions>>

RuntimeActs ==
  /\ \/ StartRun
     \/ PlannerCreatesPlan(Skeleton)
     \/ StartStep \/ StepBudgetSpent \/ PlanFinished
     \/ FinishStep \/ StopRun
     \/ DispatchBlocked \/ ExecutorRaises
     \/ ContainError
     \/ Finished
  /\ UNCHANGED scriptVars

LoopNext ==
  \/ FallBack \/ BuildContext \/ ReduceContext \/ ClientDecides
  \/ Dispatch \/ ToolAnswers \/ ToolFails
  \/ RuntimeActs

LoopSpec == LoopInit /\ [][LoopNext]_loopVars

\* One thread, whose calls return.
FairLoopSpec == LoopSpec /\ WF_loopVars(LoopNext)
=============================================================================

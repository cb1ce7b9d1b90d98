------------------------------ MODULE AgentProofs ------------------------------
(***************************************************************************)
(* Machine-checked proofs about AgentLoop: what holds of the runtime holds *)
(* of every run a model drives, and how the planner's trace, its failure   *)
(* reason and the call budgets relate to what the runtime did.             *)
(***************************************************************************)
EXTENDS AgentProperties, DispatchProofs

-----------------------------------------------------------------------------
(* The loop and the runtime                                                *)

\* An accepted reply asks for one of the three actions.
LEMMA ReplyActions ==
  ASSUME NEW reply \in LLM!Reply, LLM!Rejection(reply) = None
  PROVE  reply.action \in LLM!Action
  BY RejectionAssumption DEF LLM!Reply, LLM!Rejection, LLM!Rejections, LLM!Action

\* A step of the loop is a step of the runtime, or it begins the next run.
LEMMA AgentSteps ==
  ASSUME run \in 1..Len(Skeletons), [AgentNext]_agentVars
  PROVE  /\ [Next]_vars \/ (pc = "returned" /\ Init')
         /\ run' \in 1..Len(Skeletons)
<1>1. CASE AgentDecides
  <2>1. CASE StepFallsBack \/ RequestRaises
    BY <1>1, <2>1 DEF AgentDecides, StepFallsBack, RequestRaises, Next
  <2>2. ASSUME NEW reply \in LLM!Reply,
               ModelDecides(reply) \/ ModelIsAskedAgain(reply) \/ PlannerGivesUp(reply)
        PROVE  [Next]_vars
    <3>1. CASE ModelDecides(reply)
      <4>1. PlannerCallsTool \/ PlannerCompletesStep \/ PlannerFailsStep
        BY <3>1, ReplyActions DEF ModelDecides, LLM!ReplyAccepted, LLM!Action
      <4>. QED
        BY <4>1 DEF Next
    <3>2. CASE ModelIsAskedAgain(reply) \/ PlannerGivesUp(reply)
      BY <3>2 DEF ModelIsAskedAgain, PlannerGivesUp, Next
    <3>. QED
      BY <2>2, <3>1, <3>2
  <2>. QED
    BY <1>1, <2>1, <2>2 DEF AgentDecides
<1>2. CASE RuntimeActs
  <2>1. Skeletons[run] \in Plan
    BY SkeletonAssumption, ElementOfSeq
  <2>. QED
    BY <1>2, <2>1 DEF RuntimeActs, Next
<1>3. CASE NextRun
  BY <1>3, SkeletonAssumption, LenProperties DEF NextRun, Init
<1>4. CASE LoopEnds \/ UNCHANGED agentVars
  BY <1>4 DEF LoopEnds, agentVars
<1>. QED
  BY <1>1, <1>2, <1>3, <1>4 DEF AgentNext

\* What every run of the loop inherits from the runtime.
RunsInv ==
  /\ run \in 1..Len(Skeletons)
  /\ TypeInv /\ CountersMatchHistory /\ BudgetInv

\* The next run starts afresh, and no step of a run breaks what holds of it.
LEMMA RunsStep == RunsInv /\ [AgentNext]_agentVars => RunsInv'
<1>1. Init' => TypeInv' /\ CountersMatchHistory' /\ BudgetInv'
  BY InitTypeInv, InitCounters, InitBudget, PTL
<1>. QED
  BY <1>1, AgentSteps, TypeInvStep, CountersStep, BudgetStep DEF RunsInv

\* The same holds of the first run, hence of all.
LEMMA RunsCorrect == AgentSpec => []RunsInv
<1>1. AgentInit => RunsInv
  BY InitTypeInv, InitCounters, InitBudget, SkeletonAssumption, LenProperties DEF RunsInv, AgentInit
<1>. QED
  BY <1>1, RunsStep, PTL DEF AgentSpec

\* No limit is overrun in any run of a planner that serves several, whatever the
\* model replies.
THEOREM LimitsHoldInEveryRun == AgentSpec => []BudgetsRespected
<1>1. RunsInv => BudgetsRespected
  BY DEF RunsInv, BudgetInv
<1>. QED
  BY <1>1, RunsCorrect, PTL

-----------------------------------------------------------------------------
(* Every run                                                               *)

\* What steps, calls and the verdict of a run account for, and what the run leaves
\* behind: each part is inductive for the runtime.
AccountsInv ==
  /\ StepsInv /\ WorkInv /\ PhaseInv /\ OpenInv /\ ReasonInv /\ VerdictInv
  /\ HandoffInv /\ CallsInv

RecordsInv ==
  /\ StoreIsCurrentAtRest /\ StoredHistoryIsSettled /\ FinalEventClosesTrajectory
  /\ AskedInv /\ RetryInv /\ AttemptInv /\ StoryInv

EveryRunInv == RunsInv /\ AccountsInv /\ RecordsInv

\* A fresh run accounts for everything.
LEMMA InitRun == Init => TypeInv /\ CountersMatchHistory /\ BudgetInv /\ AccountsInv /\ RecordsInv
  BY InitTypeInv, InitCounters, InitBudget, InitWork, InitOpen, InitVerdict, InitCalls, InitStore,
     InitFinalEvent, InitDispatch, InitStory
  DEF AccountsInv, RecordsInv

\* Whatever the model replies, a step of a run keeps the accounts, and the next run
\* starts with none: nothing of an earlier run is left in them.
LEMMA EveryRunStep == EveryRunInv /\ [AgentNext]_agentVars => EveryRunInv'
<1>. SUFFICES ASSUME EveryRunInv, [AgentNext]_agentVars PROVE EveryRunInv'
  OBVIOUS
<1>1. RunsInv /\ AccountsInv /\ RecordsInv /\ RunsInv' /\ run \in 1..Len(Skeletons)
  BY RunsStep DEF EveryRunInv, RunsInv
<1>2. CASE [Next]_vars
  <2>1. AccountsInv'
    BY <1>1, <1>2, StepsStep, WorkStep, PhaseStep, OpenStep, ReasonStep, VerdictStep, HandoffStep,
       CallsStep
    DEF RunsInv, AccountsInv
  <2>2. ResultsTraceToCalls
    BY <1>1 DEF AccountsInv, HandoffInv
  <2>3. RecordsInv'
    BY <1>1, <1>2, <2>2, StoreKeptCurrent, StoredKeptSettled, FinalEventStep, AskedStep, RetryStep,
       AttemptStep, StoryKeeps
    DEF RunsInv, RecordsInv
  <2>. QED
    BY <1>1, <2>1, <2>3 DEF EveryRunInv
<1>3. CASE Init'
  <2>1. Init' => AccountsInv' /\ RecordsInv'
    BY InitRun, PTL
  <2>. QED
    BY <1>1, <1>3, <2>1 DEF EveryRunInv
<1>. QED
  BY <1>1, <1>2, <1>3, AgentSteps

LEMMA EveryRunCorrect == AgentSpec => []EveryRunInv
<1>1. AgentInit => EveryRunInv
  <2>1. AgentInit => Init /\ run \in 1..Len(Skeletons)
    BY SkeletonAssumption, LenProperties DEF AgentInit
  <2>. QED
    BY <2>1, InitRun DEF EveryRunInv, RunsInv
<1>. QED
  BY <1>1, EveryRunStep, PTL DEF AgentSpec

\* Every run that a model drives, the first and the later ones of the same planner,
\* keeps what the runtime promises about its results, its steps, its calls, its
\* trajectory, its store and its verdict (_drive, _run_step, _terminate).
THEOREM EveryRunIsSound ==
  AgentSpec => [](/\ ResultsTraceToCalls /\ OpenStepsAreContainedErrors
                  /\ VerdictMatchesHistory /\ CompletedStepsEndOnSuccess
                  /\ StoreIsCurrentAtRest /\ StoredHistoryIsSettled
                  /\ FinalEventClosesTrajectory
                  /\ DispatchesAreJustified /\ CallsHaveOneStory)
<1>1. EveryRunInv => /\ ResultsTraceToCalls /\ OpenStepsAreContainedErrors
                     /\ VerdictMatchesHistory /\ CompletedStepsEndOnSuccess
  BY OpenIsCurrent, VerdictTold, CompletedSucceed DEF EveryRunInv, RunsInv, AccountsInv, HandoffInv
<1>2. EveryRunInv => /\ StoreIsCurrentAtRest /\ StoredHistoryIsSettled
                     /\ FinalEventClosesTrajectory
                     /\ DispatchesAreJustified /\ CallsHaveOneStory
  BY DispatchesExplained, StoryIsOne DEF EveryRunInv, RecordsInv
<1>. QED
  BY <1>1, <1>2, EveryRunCorrect, PTL

\* The runs of a planner, seen as their caller sees them: each goes through the
\* lifecycle, and the next begins when one has ended.
StartsAfresh == Phase \in TerminalStatus /\ Lifecycle!Init'

RunAfterRun ==
  /\ Lifecycle!Init
  /\ [][Lifecycle!Next \/ StartsAfresh]_(Lifecycle!lifecycleVars)

\* One planner serves run after run, and each run keeps the promises of RunLifecycle:
\* the trace and the step counter that the planner carries over change nothing of it.
THEOREM LoopImplementsLifecycle == AgentSpec => RunAfterRun
<1>1. AgentInit => Lifecycle!Init
  BY InitLifecycle DEF AgentInit
<1>2. EveryRunInv /\ EveryRunInv' /\ [AgentNext]_agentVars
      => [Lifecycle!Next \/ StartsAfresh]_(Lifecycle!lifecycleVars)
  <2>. SUFFICES ASSUME EveryRunInv, EveryRunInv', [AgentNext]_agentVars
                PROVE  [Lifecycle!Next \/ StartsAfresh]_(Lifecycle!lifecycleVars)
    OBVIOUS
  <2>1. RunsInv /\ AccountsInv /\ RunsInv' /\ AccountsInv' /\ run \in 1..Len(Skeletons)
    BY DEF EveryRunInv, RunsInv
  <2>2. CASE [Next]_vars
    <3>1. [Lifecycle!Next]_(Lifecycle!lifecycleVars)
      BY <2>1, <2>2, LifecycleStep DEF RunsInv, AccountsInv
    <3>. QED
      BY <3>1
  <2>3. CASE pc = "returned" /\ Init'
    <3>1. Lifecycle!Init'
      <4>1. Init' => Lifecycle!Init'
        BY InitLifecycle, PTL
      <4>. QED
        BY <2>3, <4>1
    <3>2. state.status \in TerminalStatus
      BY <2>1, <2>3 DEF AccountsInv, VerdictInv, Accounts, TerminalStatus
    <3>3. StartsAfresh
      BY <2>3, <3>1, <3>2 DEF StartsAfresh, Phase
    <3>. QED
      BY <3>3
  <2>. QED
    BY <2>1, <2>2, <2>3, AgentSteps
<1>. QED
  BY <1>1, <1>2, EveryRunCorrect, PTL DEF AgentSpec, RunAfterRun

-----------------------------------------------------------------------------
(* Repairs                                                                 *)

Answers == LLM!Action \cup {"not_json", "no_decision"}
Traced ==
  [step : StepId, action : Answers, status : LLM!Status, selected : BOOLEAN,
   request : Nat, repair : Nat, failure : LLM!Rejections \cup {"client_error", None}]

\* A repair that is due belongs to the decision being made: the model may still be
\* asked, and the entry traced last is the rejection to be repaired.
RepairInv ==
  /\ used \in 0..MaxRequests /\ repairs \in 0..MaxRepairs /\ trace \in Seq(Traced)
  /\ repairs > 0 =>
       /\ MayAsk
       /\ Len(trace) > 0
       /\ trace[Len(trace)].status = "rejected"
       /\ trace[Len(trace)].step = state.currentStep
       /\ trace[Len(trace)].repair = repairs - 1
       /\ trace[Len(trace)].request = used
  /\ RepairsFollowRejections

\* What a decision adds to the trace.
LEMMA TraceEffect ==
  ASSUME RunsInv, RepairInv, pc = "deciding", used' \in Nat,
         NEW action \in Answers, NEW status \in LLM!Status,
         NEW failure \in LLM!Rejections \cup {"client_error", None},
         LLM!Trace(state.currentStep, action, status, failure)
  PROVE  /\ trace' \in Seq(Traced) /\ Len(trace) \in Nat /\ Len(trace') = Len(trace) + 1
         /\ \A i \in 1..Len(trace) : trace'[i] = trace[i]
         /\ LET e == trace'[Len(trace')] IN
            /\ e.step = state.currentStep /\ e.status = status /\ e.failure = failure
            /\ e.repair = repairs
            /\ e.request = IF status = "fallback" THEN 0 ELSE used'
<1>. DEFINE e == [step |-> state.currentStep, action |-> action, status |-> status,
                  selected |-> action = "call_tool" /\ status # "rejected",
                  request |-> IF status = "fallback" THEN 0 ELSE used',
                  repair |-> repairs, failure |-> failure]
<1>1. state.currentStep \in StepId
  BY DEF RunsInv, TypeInv, Control, InStep
<1>2. repairs \in Nat /\ trace \in Seq(Traced)
  BY BudgetAssumption DEF RepairInv
<1>3. (action = "call_tool" /\ status # "rejected") \in BOOLEAN
  OBVIOUS
<1>4. e \in Traced
  BY <1>1, <1>2, <1>3 DEF Traced
<1>5. trace' = Append(trace, e)
  BY DEF LLM!Trace
<1>6. /\ e.step = state.currentStep /\ e.status = status /\ e.failure = failure
      /\ e.repair = repairs /\ e.request = IF status = "fallback" THEN 0 ELSE used'
  OBVIOUS
<1>. HIDE DEF e
<1>. QED
  BY <1>2, <1>4, <1>5, <1>6, AppendProperties, LenProperties

\* An entry that repairs the rejection before it, if it repairs one, keeps the story.
LEMMA NextInLine ==
  ASSUME RunsInv, RepairInv, pc = "deciding", used' \in Nat,
         NEW action \in Answers, NEW status \in LLM!Status,
         NEW failure \in LLM!Rejections \cup {"client_error", None},
         LLM!Trace(state.currentStep, action, status, failure),
         repairs > 0 => status # "fallback" /\ used' = used + 1,
         status = "accepted" => repairs = 0,
         status = "repaired_accepted" => repairs > 0
  PROVE  RepairsFollowRejections'
<1>1. /\ trace' \in Seq(Traced) /\ Len(trace) \in Nat /\ Len(trace') = Len(trace) + 1
      /\ \A i \in 1..Len(trace) : trace'[i] = trace[i]
      /\ LET e == trace'[Len(trace')] IN
         /\ e.step = state.currentStep /\ e.status = status
         /\ e.repair = repairs
         /\ e.request = IF status = "fallback" THEN 0 ELSE used'
  BY TraceEffect
<1>2. repairs \in Nat /\ repairs <= MaxRepairs /\ used \in Nat
  BY BudgetAssumption DEF RepairInv
<1>. DEFINE n == Len(trace)
            Follows(t, i) ==
              /\ t[i].repair <= MaxRepairs
              /\ t[i].repair > 0 =>
                   /\ i > 1
                   /\ t[i - 1].status = "rejected"
                   /\ t[i - 1].step = t[i].step
                   /\ t[i - 1].repair = t[i].repair - 1
                   /\ t[i - 1].request = t[i].request - 1
              /\ t[i].status = "repaired_accepted" => t[i].repair > 0
              /\ t[i].status = "accepted" => t[i].repair = 0
<1>3. ASSUME NEW i \in 1..n
      PROVE  Follows(trace', i)
  <2>1. Follows(trace, i)
    BY DEF RepairInv, RepairsFollowRejections
  <2>2. trace'[i] = trace[i] /\ (i > 1 => i - 1 \in 1..n)
    BY <1>1
  <2>. QED
    BY <1>1, <2>1, <2>2
<1>4. Follows(trace', n + 1)
  <2>1. CASE repairs = 0
    BY <1>1, <1>2, <2>1
  <2>2. CASE repairs > 0
    <3>1. /\ n > 0 /\ trace[n].status = "rejected" /\ trace[n].step = state.currentStep
          /\ trace[n].repair = repairs - 1 /\ trace[n].request = used
      BY <2>2 DEF RepairInv
    <3>2. (n + 1) - 1 = n /\ trace'[n] = trace[n] /\ n + 1 > 1
      BY <1>1, <3>1
    <3>. QED
      BY <1>1, <1>2, <2>2, <3>1, <3>2
  <2>. QED
    BY <1>2, <2>1, <2>2
<1>5. \A i \in 1..Len(trace') : Follows(trace', i)
  BY <1>1, <1>3, <1>4
<1>. QED
  BY <1>5 DEF RepairsFollowRejections

\* A decision ends, or the model is asked to repair it; each keeps the story.
LEMMA DecisionKeepsRepairs ==
  ASSUME RunsInv, RepairInv, AgentDecides
  PROVE  RepairInv'
<1>0. /\ pc = "deciding" /\ used \in Nat /\ repairs \in Nat /\ MaxRepairs \in Nat
      /\ trace \in Seq(Traced) /\ used <= MaxRequests /\ MaxRequests \in Nat /\ repairs <= MaxRepairs
  <2>1. pc = "deciding"
    BY DEF AgentDecides, StepFallsBack, RequestRaises, ModelDecides, ModelIsAskedAgain,
           PlannerGivesUp, MayAsk
  <2>. QED
    BY <2>1, BudgetAssumption DEF RepairInv
<1>1. CASE StepFallsBack
  <2>1. repairs = 0
    BY <1>0, <1>1 DEF StepFallsBack, RepairInv
  <2>2. /\ LLM!Trace(state.currentStep, "complete_step", "fallback", None)
        /\ UNCHANGED <<used, repairs>>
    BY <1>1 DEF StepFallsBack, LLM!FallBack
  <2>3. trace' \in Seq(Traced) /\ RepairsFollowRejections'
    BY <1>0, <2>1, <2>2, TraceEffect, NextInLine DEF Answers, LLM!Action, LLM!Status
  <2>. QED
    BY <1>0, <2>1, <2>2, <2>3 DEF RepairInv
<1>2. CASE RequestRaises
  <2>1. repairs' = 0 /\ used' \in 0..MaxRequests
    BY <1>0, <1>2 DEF RequestRaises, LLM!RequestRefused, LLM!RequestFails, LLM!RequestCrashes,
                      LLM!DecisionEnds, LLM!Consume
  <2>2. trace' \in Seq(Traced) /\ RepairsFollowRejections'
    <3>1. CASE UNCHANGED trace
      BY <3>1 DEF RepairInv, RepairsFollowRejections
    <3>2. CASE LLM!RequestFails(state.currentStep)
      <4>1. /\ LLM!Trace(state.currentStep, "call_tool", "rejected", "client_error")
            /\ used' = used + 1
        BY <3>2 DEF LLM!RequestFails, LLM!Consume
      <4>. QED
        BY <1>0, <4>1, TraceEffect, NextInLine DEF Answers, LLM!Action, LLM!Status
    <3>. QED
      BY <1>2, <3>1, <3>2 DEF RequestRaises, LLM!RequestRefused, LLM!RequestCrashes
  <2>. QED
    BY <1>0, <2>1, <2>2 DEF RepairInv
<1>3. ASSUME NEW reply \in LLM!Reply, ModelDecides(reply) PROVE RepairInv'
  <2>. DEFINE status == IF repairs = 0 THEN "accepted" ELSE "repaired_accepted"
  <2>1. /\ LLM!Trace(state.currentStep, reply.action, status, None)
        /\ used < MaxRequests /\ used' = used + 1 /\ repairs' = 0
        /\ reply.action \in Answers
    BY <1>3, ReplyActions
    DEF ModelDecides, LLM!ReplyAccepted, LLM!Consume, LLM!DecisionEnds, Answers
  <2>2. trace' \in Seq(Traced) /\ RepairsFollowRejections'
    BY <1>0, <2>1, TraceEffect, NextInLine DEF LLM!Status
  <2>. QED
    BY <1>0, <2>1, <2>2 DEF RepairInv
<1>4. ASSUME NEW reply \in LLM!Reply, ModelIsAskedAgain(reply) \/ PlannerGivesUp(reply)
      PROVE RepairInv'
  <2>1. /\ LLM!Trace(state.currentStep, "call_tool", "rejected", LLM!Rejection(reply))
        /\ used < MaxRequests /\ used' = used + 1
        /\ LLM!Rejection(reply) \in LLM!Rejections
    BY <1>4
    DEF ModelIsAskedAgain, PlannerGivesUp, LLM!ReplyRejected, LLM!ReplyGivenUp, LLM!Consume,
        LLM!Rejection, LLM!Rejections
  <2>2. trace' \in Seq(Traced) /\ RepairsFollowRejections'
    BY <1>0, <2>1, TraceEffect, NextInLine DEF Answers, LLM!Action, LLM!Status
  <2>3. CASE PlannerGivesUp(reply)
    BY <1>0, <2>1, <2>2, <2>3 DEF RepairInv, PlannerGivesUp, LLM!ReplyGivenUp, LLM!DecisionEnds
  <2>4. CASE ModelIsAskedAgain(reply)
    <3>1. MayAsk /\ UNCHANGED vars /\ repairs < MaxRepairs /\ repairs' = repairs + 1
      BY <2>4 DEF ModelIsAskedAgain, LLM!ReplyRejected
    <3>2. MayAsk' /\ UNCHANGED state
      BY <3>1 DEF vars, MayAsk, RemainingToolBudget, RemainingStepBudget, CallsInStep, CallsOfStep
    <3>3. LET e == trace'[Len(trace')] IN
          /\ e.status = "rejected" /\ e.step = state.currentStep
          /\ e.repair = repairs /\ e.request = used + 1
          /\ Len(trace') > 0
      BY <1>0, <2>1, TraceEffect DEF Answers, LLM!Action, LLM!Status
    <3>. QED
      BY <1>0, <2>1, <2>2, <3>1, <3>2, <3>3 DEF RepairInv
  <2>. QED
    BY <1>4, <2>3, <2>4
<1>. QED
  BY <1>1, <1>2, <1>3, <1>4 DEF AgentDecides

\* Before the first request nothing is to be repaired.
LEMMA InitRepair == AgentInit => RepairInv
<1>. SUFFICES ASSUME AgentInit PROVE RepairInv
  OBVIOUS
<1>1. used = 0 /\ repairs = 0 /\ trace = <<>>
  BY DEF AgentInit, LLM!PlannerInit
<1>. QED
  BY <1>1, BudgetAssumption DEF RepairInv, RepairsFollowRejections

\* Outside of decisions there is no repair, and nothing is traced.
LEMMA RepairStep == RunsInv /\ RepairInv /\ [AgentNext]_agentVars => RepairInv'
<1>. SUFFICES ASSUME RunsInv, RepairInv, [AgentNext]_agentVars PROVE RepairInv'
  OBVIOUS
<1>1. CASE RuntimeActs \/ NextRun
  <2>1. pc # "deciding" /\ UNCHANGED plannerVars
    BY <1>1 DEF RuntimeActs, NextRun, StartRun, PlannerCreatesPlan, StartStep, StepBudgetSpent,
                PlanFinished, FinishStep, StopRun, DispatchCall, DispatchBlocked,
                ExecutorSucceeds, ExecutorRaises, ExecutorFails, ContainError
  <2>. QED
    BY <2>1, BudgetAssumption DEF RepairInv, MayAsk, plannerVars, RepairsFollowRejections
<1>2. CASE LoopEnds \/ UNCHANGED agentVars
  BY <1>2
  DEF LoopEnds, agentVars, plannerVars, vars, RepairInv, MayAsk, RemainingToolBudget,
      RemainingStepBudget, CallsInStep, CallsOfStep, RepairsFollowRejections
<1>. QED
  BY <1>1, <1>2, DecisionKeepsRepairs DEF AgentNext

\* One repair chain per decision: a repair follows the rejection it repairs
\* directly, for the same step, within the limit.
THEOREM RepairsFollow == AgentSpec => []RepairsFollowRejections
<1>1. RepairInv => RepairsFollowRejections
  BY DEF RepairInv
<1>. QED
  BY <1>1, InitRepair, RepairStep, RunsCorrect, PTL DEF AgentSpec

-----------------------------------------------------------------------------
(* The length of the runs                                                  *)

\* Each run of a planner is over after a bounded number of steps, however the model
\* keeps answering: a step begins the next of the given runs, brings the run in
\* progress nearer to its end, or sends one of the MaxRepairs repair requests of a
\* decision (decide_next_action).
RunsEnd ==
  /\ [](run \in 1..Len(Skeletons) /\ Effort \in 0..EffortLimit /\ repairs \in 0..MaxRepairs)
  /\ [][\/ run' = run + 1
        \/ run' = run /\ Effort' < Effort
        \/ run' = run /\ Effort' = Effort /\ repairs' = repairs + 1]_agentVars

\* A step that changes nothing of the run is a repair request.
LEMMA RunOnly ==
  ASSUME RunsInv, [AgentNext]_agentVars
  PROVE  \/ run' = run + 1 /\ Init'
         \/ run' = run /\ Effort' < Effort
         \/ run' = run /\ UNCHANGED vars /\ repairs' = repairs + 1
         \/ UNCHANGED agentVars
<1>0. TypeInv /\ run \in 1..Len(Skeletons)
  BY DEF RunsInv
<1>N. [Next]_vars => Effort' < Effort \/ UNCHANGED vars
  BY <1>0, EffortStep
<1>1. CASE AgentDecides
  <2>0. run' = run
    BY <1>1 DEF AgentDecides
  <2>1. CASE \E reply \in LLM!Reply : ModelIsAskedAgain(reply)
    BY <2>0, <2>1 DEF ModelIsAskedAgain, LLM!ReplyRejected
  <2>2. CASE PlannerCallsTool \/ PlannerCompletesStep \/ PlannerFailsStep \/ PlannerRaises
    <3>1. [Next]_vars
      BY <2>2 DEF Next
    <3>2. pc' # pc
      BY <2>2
      DEF PlannerCallsTool, PlannerCompletesStep, PlannerFailsStep, PlannerRaises, StepEndsWith
    <3>. QED
      BY <1>N, <2>0, <3>1, <3>2 DEF vars
  <2>3. ASSUME NEW reply \in LLM!Reply, ModelDecides(reply)
        PROVE  PlannerCallsTool \/ PlannerCompletesStep \/ PlannerFailsStep
    BY <2>3, ReplyActions DEF ModelDecides, LLM!ReplyAccepted, LLM!Action
  <2>. QED
    BY <1>1, <2>1, <2>2, <2>3
    DEF AgentDecides, StepFallsBack, RequestRaises, PlannerGivesUp
<1>2. CASE RuntimeActs
  <2>1. Skeletons[run] \in Plan
    BY <1>0, SkeletonAssumption, ElementOfSeq
  <2>2. [Next]_vars /\ UNCHANGED <<run, plannerVars>>
    BY <1>2, <2>1 DEF RuntimeActs, Next
  <2>. QED
    BY <1>N, <2>2 DEF agentVars
<1>3. CASE NextRun
  BY <1>3 DEF NextRun, Init
<1>4. CASE LoopEnds \/ UNCHANGED agentVars
  BY <1>4 DEF LoopEnds
<1>. QED
  BY <1>1, <1>2, <1>3, <1>4 DEF AgentNext

\* The runs of a planner end, as long as the program goes on.
THEOREM AllRunsEnd == AgentSpec => RunsEnd
<1> DEFINE Left == Effort \in Nat
           Below == Effort <= EffortLimit
<1>1. RunsInv => Left
  BY EffortIsLeft DEF RunsInv
<1>2. EffortLimit \in Nat
  BY LimitAssumption DEF EffortLimit
<1>3. Init => Below
  BY InitEffort, <1>2
<1>4. AgentInit => Below
  BY <1>3 DEF AgentInit
<1>5. RunsInv /\ Left /\ Left' /\ Below /\ [AgentNext]_agentVars => Below'
  <2>1. ASSUME Left, Left', Below, Effort' < Effort PROVE Below'
    BY <2>1, <1>2 DEF EffortLimit
  <2>2. ASSUME Below, UNCHANGED vars PROVE Below'
    BY <2>2 DEF vars, Effort, Distance, EffortLimit
  <2>3. Init' => Below'
    BY <1>3, PTL
  <2>. QED
    BY <2>1, <2>2, <2>3, RunOnly DEF agentVars
<1>6. RunsInv /\ [AgentNext]_agentVars
      => [\/ run' = run + 1
          \/ run' = run /\ Effort' < Effort
          \/ run' = run /\ Effort' = Effort /\ repairs' = repairs + 1]_agentVars
  <2>1. UNCHANGED vars => Effort' = Effort
    BY DEF vars, Effort, Distance
  <2>. QED
    BY <2>1, RunOnly
<1>7. RunsInv /\ RepairInv /\ Left /\ Below
      => run \in 1..Len(Skeletons) /\ Effort \in 0..EffortLimit /\ repairs \in 0..MaxRepairs
  BY <1>2 DEF RunsInv, RepairInv
<1>8. AgentSpec => []RepairInv
  BY RunsCorrect, InitRepair, RepairStep, PTL DEF AgentSpec
<1>. QED
  BY <1>1, <1>4, <1>5, <1>6, <1>7, <1>8, RunsCorrect, PTL DEF AgentSpec, RunsEnd

-----------------------------------------------------------------------------
(* Call budgets                                                            *)

CallBudget == {"max_tool_calls_exceeded", "max_tool_calls_per_step_exceeded"}

\* The event before the last k events of the trajectory is a scheduled retry.
RetriedBefore(k) ==
  Len(trajectory) > k /\ trajectory[Len(trajectory) - k].type = "retry_scheduled"

\* Where a call may be blocked by its budget, a retry was scheduled; the reason of
\* the stop then travels to the end, and one event is added at each of its stations.
BlockInv ==
  /\ pc = "dispatching" /\ BlockReason \in CallBudget => RetriedBefore(0)
  /\ pc = "finishing" /\ outcome.stopReason \in CallBudget => RetriedBefore(0)
  /\ pc = "stopping" /\ outcome.stopReason \in CallBudget => RetriedBefore(1)
  /\ pc = "returned" /\ state.stopReason \in CallBudget => RetriedBefore(2)

\* None and the other reasons are no call budget.
LEMMA OtherReasons ==
  /\ None \notin CallBudget
  /\ "planner_failed" \notin CallBudget /\ "unrecoverable_tool_error" \notin CallBudget
  BY NoneAssumption DEF CallBudget, StopReason, BUDGET_STOP_REASONS

\* One recorded event pushes the retry one place back.
LEMMA PushedBack ==
  ASSUME TypeInv, NEW e \in Event, Record(<<e>>), NEW k \in Nat, RetriedBefore(k)
  PROVE  RetriedBefore(k + 1)'
<1>1. trajectory \in Seq(Event) /\ Len(trajectory) \in Nat /\ trajectory' = Append(trajectory, e)
  <2>1. trajectory \in Seq(Event) /\ trajectory' = trajectory \o <<e>>
    BY DEF TypeInv, TypeOK, Record
  <2>. QED
    BY <2>1
<1>2. /\ Len(trajectory') = Len(trajectory) + 1
      /\ \A i \in 1..Len(trajectory) : trajectory'[i] = trajectory[i]
  BY <1>1, AppendProperties
<1>3. Len(trajectory) - k \in 1..Len(trajectory) /\ Len(trajectory') - (k + 1) = Len(trajectory) - k
  BY <1>1, <1>2 DEF RetriedBefore
<1>. QED
  BY <1>1, <1>2, <1>3 DEF RetriedBefore

\* A run that terminates for a reason of its own keeps the account.
LEMMA TerminateKeepsBlock ==
  ASSUME TypeInv, NEW status, NEW reason, NEW event, NEW onError \in {"containing", "leaked"},
         Terminate(status, reason, event, onError), reason \notin CallBudget
  PROVE  BlockInv'
  BY DEF Terminate, SaveState, BlockInv, TypeInv, TypeOK, RuntimeState

\* A planner that is asked only while calls remain is blocked only on a retry.
LEMMA DecisionKeepsBlock ==
  ASSUME RunsInv, BlockInv, AgentDecides
  PROVE  BlockInv'
<1>1. CASE PlannerCallsTool /\ MayAsk
  <2>1. state.totalToolCalls \in Nat /\ CallsInStep \in Nat /\ MaxToolCalls \in Nat
        /\ MaxToolCallsPerStep \in Nat
    BY LimitAssumption, CallsOfStepFinite DEF RunsInv, TypeInv, TypeOK, RuntimeState, CallsInStep
  <2>2. state.totalToolCalls < MaxToolCalls /\ CallsInStep < MaxToolCallsPerStep
    BY <1>1, <2>1
    DEF MayAsk, LLM!ToolsRemain, RemainingToolBudget, RemainingStepBudget, AtLeastZero
  <2>3. BlockReason \notin CallBudget
    BY <2>1, <2>2, OtherReasons DEF BlockReason, CallBudget
  <2>4. BlockReason' = BlockReason /\ pc' = "dispatching"
    BY <1>1 DEF PlannerCallsTool, BlockReason, CallsInStep, CallsOfStep
  <2>. QED
    BY <2>3, <2>4 DEF BlockInv
<1>2. CASE PlannerCompletesStep \/ PlannerFailsStep \/ PlannerRaises
  <2>1. pc' = "finishing" /\ outcome'.stopReason \in {None, "planner_failed"}
    BY <1>2 DEF PlannerCompletesStep, PlannerFailsStep, PlannerRaises, StepEndsWith, Completed,
                FailedWith
  <2>. QED
    BY <2>1, OtherReasons DEF BlockInv
<1>3. CASE UNCHANGED vars
  BY <1>3 DEF vars, BlockInv, BlockReason, CallsInStep, CallsOfStep, RetriedBefore
<1>4. ASSUME NEW reply \in LLM!Reply, ModelDecides(reply)
      PROVE  (PlannerCallsTool /\ MayAsk) \/ PlannerCompletesStep \/ PlannerFailsStep
  BY <1>4, ReplyActions DEF ModelDecides, LLM!ReplyAccepted, LLM!Action
<1>. QED
  BY <1>1, <1>2, <1>3, <1>4
  DEF AgentDecides, StepFallsBack, RequestRaises, ModelIsAskedAgain, PlannerGivesUp

\* Every step of the runtime keeps the account.
LEMMA RuntimeKeepsBlock ==
  ASSUME RunsInv, BlockInv, RuntimeActs
  PROVE  BlockInv'
<1>. USE DEF RunsInv
<1>0. trajectory \in Seq(Event) /\ Len(trajectory) \in Nat /\ state \in RuntimeState
  BY DEF TypeInv, TypeOK
<1>1. CASE StartRun \/ StartStep \/ ExecutorSucceeds \/ DispatchCall
           \/ \E plan \in Plan : PlannerCreatesPlan(plan)
  BY <1>1 DEF StartRun, PlannerCreatesPlan, StartStep, ExecutorSucceeds, DispatchCall, SaveState,
              BlockInv
<1>2. CASE StepBudgetSpent \/ PlanFinished \/ ContainError
  BY <1>2, TerminateKeepsBlock DEF StepBudgetSpent, PlanFinished, ContainError, CallBudget
<1>3. CASE FinishStep
  <2>1. pc = "finishing" /\ pc' \in {"iterating", "stopping", "containing"} /\ outcome' = outcome
    BY <1>3 DEF FinishStep, SaveState
  <2>2. outcome.stopReason \in CallBudget => RetriedBefore(1)'
    <3>1. PICK e \in Event : Record(<<e>>)
      <4>1. state'.currentStep = state.currentStep /\ state.currentStep \in StepId \cup {None}
        BY <1>0, <1>3 DEF FinishStep, RuntimeState
      <4>2. EventOf("step_completed", state.currentStep, 0, 0) \in Event
            /\ EventOf("step_failed", state.currentStep, 0, 0) \in Event
        BY <4>1 DEF EventOf, Event, EventType
      <4>. QED
        BY <1>3, <4>1, <4>2 DEF FinishStep, StepEvent
    <3>2. outcome.stopReason \in CallBudget => RetriedBefore(0)
      BY <2>1 DEF BlockInv
    <3>. QED
      BY <3>1, <3>2, PushedBack
  <2>. QED
    BY <2>1, <2>2 DEF BlockInv
<1>4. CASE StopRun
  <2>1. CASE outcome.stopReason \notin CallBudget
    BY <1>4, <2>1, TerminateKeepsBlock DEF StopRun
  <2>2. CASE outcome.stopReason \in CallBudget
    <3>1. /\ Terminate("budget_exhausted", outcome.stopReason, "budget_exhausted", "containing")
          /\ RetriedBefore(1)
      BY <1>4, <2>2 DEF StopRun, BlockInv, CallBudget, BUDGET_STOP_REASONS
    <3>2. RunEvent("budget_exhausted") \in Event
      BY DEF RunEvent, EventOf, Event, EventType, FinalEvent
    <3>3. CASE pc' = "returned"
      <4>1. Record(<<RunEvent("budget_exhausted")>>)
        BY <3>1, <3>3 DEF Terminate
      <4>2. RetriedBefore(2)'
        BY <3>1, <3>2, <4>1, PushedBack
      <4>. QED
        BY <3>3, <4>2 DEF BlockInv
    <3>4. CASE pc' = "containing"
      BY <3>4 DEF BlockInv
    <3>. QED
      BY <3>1, <3>3, <3>4 DEF Terminate, SaveState
  <2>. QED
    BY <2>1, <2>2
<1>5. CASE DispatchBlocked
  <2>1. pc = "dispatching" /\ pc' = "finishing" /\ outcome'.stopReason = BlockReason
        /\ UNCHANGED trajectory
    BY <1>5 DEF DispatchBlocked, StepEndsWith, FailedWith
  <2>. QED
    BY <2>1 DEF BlockInv, RetriedBefore
<1>6. ASSUME NEW kind \in FailureKind, ExecutorFails(kind) PROVE BlockInv'
  <2>1. CASE ShouldRetry(kind, attempts + 1)
    <3>. DEFINE failed == CallEvent("tool_failed", LastCall, Len(state'.toolResults))
                retry == CallEvent("retry_scheduled", LastCall, 0)
    <3>1. trajectory' = trajectory \o <<failed, retry>> /\ pc' \in {"dispatching", "containing"}
      BY <1>6, <2>1 DEF ExecutorFails, Record, SaveState
    <3>2. retry.type = "retry_scheduled"
      BY DEF CallEvent, EventOf
    <3>. HIDE DEF failed, retry
    <3>3. Len(trajectory') = Len(trajectory) + 2 /\ trajectory'[Len(trajectory) + 2] = retry
      BY <1>0, <3>1
    <3>4. RetriedBefore(0)'
      BY <1>0, <3>2, <3>3 DEF RetriedBefore
    <3>. QED
      BY <3>1, <3>4 DEF BlockInv
  <2>2. CASE ~ShouldRetry(kind, attempts + 1)
    <3>1. /\ pc' \in {"finishing", "containing"}
          /\ outcome'.stopReason \in {None, "unrecoverable_tool_error"}
      BY <1>6, <2>2 DEF ExecutorFails, SaveState, FailedWith, StopForFailure
    <3>. QED
      BY <3>1, OtherReasons DEF BlockInv
  <2>. QED
    BY <2>1, <2>2
<1>7. CASE ExecutorRaises
  BY <1>7, OtherReasons DEF ExecutorRaises, SaveState, FailedWith, BlockInv
<1>8. Skeletons[run] \in Plan
  BY SkeletonAssumption, ElementOfSeq
<1>. QED
  BY <1>1, <1>2, <1>3, <1>4, <1>5, <1>6, <1>7, <1>8 DEF RuntimeActs

\* The planner closes a step before its call budget is overdrawn: only a retry,
\* which it is not asked about, ends a run on a call budget.
THEOREM CallBudgetsStopRetries == AgentSpec => []CallBudgetStopsOnlyRetries
<1>1. AgentInit => BlockInv
  BY DEF AgentInit, Init, BlockInv
<1>2. RunsInv /\ BlockInv /\ [AgentNext]_agentVars => BlockInv'
  <2>. SUFFICES ASSUME RunsInv, BlockInv, [AgentNext]_agentVars PROVE BlockInv'
    OBVIOUS
  <2>1. CASE NextRun
    BY <2>1 DEF NextRun, BlockInv
  <2>2. CASE LoopEnds \/ UNCHANGED agentVars
    BY <2>2 DEF LoopEnds, agentVars, vars, BlockInv, BlockReason, CallsInStep, CallsOfStep,
                RetriedBefore
  <2>. QED
    BY <2>1, <2>2, DecisionKeepsBlock, RuntimeKeepsBlock DEF AgentNext
<1>3. BlockInv => CallBudgetStopsOnlyRetries
  BY DEF BlockInv, CallBudgetStopsOnlyRetries, RetriedBefore, CallBudget
<1>. QED
  BY <1>1, <1>2, <1>3, RunsCorrect, PTL DEF AgentSpec

-----------------------------------------------------------------------------
(* The reason of a planner failure                                         *)

Explained ==
  \/ lastFailure = "llm_budget_exhausted" /\ used = MaxRequests
  \/ /\ trace # <<>>
     /\ trace[Len(trace)].status = "rejected"
     /\ trace[Len(trace)].failure = lastFailure
     /\ trace[Len(trace)].step = state.currentStep

\* From the exception of the planner to the end of the run its reason is at hand.
FailureInv ==
  /\ pc \in {"finishing", "stopping"} /\ outcome.stopReason = "planner_failed" => Explained
  /\ pc = "returned" /\ state.stopReason = "planner_failed" => Explained

\* A planner that raises has said why, unless its client crashed.
LEMMA RaisingExplains ==
  ASSUME RunsInv, RepairInv, AgentDecides, ~ClientMayCrash
  PROVE  FailureInv'
<1>0. /\ used \in 0..MaxRequests /\ MaxRequests \in Nat /\ None # "planner_failed"
  BY NoneAssumption, BudgetAssumption DEF RepairInv, StopReason
<1>1. CASE PlannerCallsTool \/ PlannerCompletesStep \/ PlannerFailsStep
  BY <1>0, <1>1 DEF PlannerCallsTool, PlannerCompletesStep, PlannerFailsStep, StepEndsWith,
                    Completed, FailedWith, FailureInv
<1>2. CASE RequestRaises
  <2>1. UNCHANGED state /\ pc = "deciding" /\ pc' = "finishing"
    BY <1>2 DEF RequestRaises, PlannerRaises, StepEndsWith
  <2>2. CASE LLM!RequestRefused
    BY <1>0, <2>1, <2>2 DEF LLM!RequestRefused, FailureInv, Explained
  <2>3. CASE LLM!RequestFails(state.currentStep)
    <3>1. /\ LLM!Trace(state.currentStep, "call_tool", "rejected", "client_error")
          /\ used' = used + 1 /\ lastFailure' = "client_error"
      BY <2>3 DEF LLM!RequestFails, LLM!Consume
    <3>2. LET e == trace'[Len(trace')] IN
          /\ e.step = state.currentStep /\ e.status = "rejected" /\ e.failure = "client_error"
          /\ Len(trace') = Len(trace) + 1 /\ Len(trace) \in Nat
      BY <1>0, <2>1, <3>1, TraceEffect DEF Answers, LLM!Action, LLM!Status
    <3>. QED
      BY <2>1, <3>1, <3>2 DEF FailureInv, Explained
  <2>. QED
    BY <1>2, <2>2, <2>3 DEF RequestRaises, LLM!RequestCrashes
<1>3. ASSUME NEW reply \in LLM!Reply, PlannerGivesUp(reply)
      PROVE  FailureInv'
  <2>1. UNCHANGED state /\ pc = "deciding" /\ pc' = "finishing"
    BY <1>3 DEF PlannerGivesUp, PlannerRaises, StepEndsWith
  <2>2. /\ LLM!Trace(state.currentStep, "call_tool", "rejected", LLM!Rejection(reply))
        /\ used' = used + 1 /\ lastFailure' = LLM!Rejection(reply)
        /\ LLM!Rejection(reply) \in LLM!Rejections
    BY <1>3 DEF PlannerGivesUp, LLM!ReplyGivenUp, LLM!Consume, LLM!Rejection, LLM!Rejections
  <2>3. LET e == trace'[Len(trace')] IN
        /\ e.step = state.currentStep /\ e.status = "rejected" /\ e.failure = lastFailure'
        /\ Len(trace') = Len(trace) + 1 /\ Len(trace) \in Nat
    BY <1>0, <2>1, <2>2, TraceEffect DEF Answers, LLM!Action, LLM!Status
  <2>. QED
    BY <2>1, <2>3 DEF FailureInv, Explained
<1>4. ASSUME NEW reply \in LLM!Reply, ModelIsAskedAgain(reply)
      PROVE  FailureInv'
  BY <1>4 DEF ModelIsAskedAgain, MayAsk, vars, FailureInv
<1>5. ASSUME NEW reply \in LLM!Reply, ModelDecides(reply)
      PROVE  PlannerCallsTool \/ PlannerCompletesStep \/ PlannerFailsStep
  BY <1>5, ReplyActions DEF ModelDecides, LLM!ReplyAccepted, LLM!Action
<1>. QED
  BY <1>1, <1>2, <1>3, <1>4, <1>5 DEF AgentDecides, StepFallsBack

\* On its way to the caller the reason stays what it is, and no other stop claims it.
LEMMA RuntimeKeepsFailure ==
  ASSUME RunsInv, FailureInv, RuntimeActs
  PROVE  FailureInv'
<1>. USE DEF RunsInv
<1>0. state \in RuntimeState /\ None # "planner_failed" /\ UNCHANGED plannerVars
  BY NoneAssumption DEF TypeInv, TypeOK, StopReason, RuntimeActs
<1>1. ASSUME state'.currentStep = state.currentStep
      PROVE  Explained' <=> Explained
  BY <1>0, <1>1 DEF Explained, plannerVars
<1>2. CASE StartRun \/ StartStep \/ ExecutorSucceeds \/ DispatchCall
           \/ \E plan \in Plan : PlannerCreatesPlan(plan)
  BY <1>2 DEF StartRun, PlannerCreatesPlan, StartStep, ExecutorSucceeds, DispatchCall, SaveState,
              FailureInv
<1>3. ASSUME NEW status, NEW reason, NEW event, NEW onError \in {"containing", "leaked"},
             Terminate(status, reason, event, onError), reason = "planner_failed" => Explained
      PROVE  FailureInv'
  <2>1. state'.currentStep = state.currentStep /\ state'.stopReason = reason
        /\ pc' \in {"returned", "containing", "leaked"}
    BY <1>0, <1>3 DEF Terminate, SaveState, RuntimeState
  <2>. QED
    BY <1>1, <1>3, <2>1 DEF FailureInv
<1>4. CASE StepBudgetSpent \/ PlanFinished \/ ContainError
  BY <1>3, <1>4 DEF StepBudgetSpent, PlanFinished, ContainError
<1>5. CASE FinishStep
  <2>1. /\ state'.currentStep = state.currentStep /\ outcome' = outcome
        /\ pc = "finishing" /\ pc' \in {"iterating", "stopping", "containing"}
    BY <1>0, <1>5 DEF FinishStep, SaveState, RuntimeState
  <2>. QED
    BY <1>1, <2>1 DEF FailureInv
<1>6. CASE StopRun
  BY <1>3, <1>6 DEF StopRun, FailureInv
<1>7. CASE DispatchBlocked
  <2>1. BlockReason # "planner_failed"
    BY <1>0 DEF BlockReason
  <2>. QED
    BY <1>7, <2>1 DEF DispatchBlocked, StepEndsWith, FailedWith, FailureInv
<1>8. CASE ExecutorRaises
  BY <1>0, <1>8 DEF ExecutorRaises, SaveState, FailedWith, FailureInv
<1>9. ASSUME NEW kind \in FailureKind, ExecutorFails(kind) PROVE FailureInv'
  <2>1. CASE ShouldRetry(kind, attempts + 1)
    BY <1>9, <2>1 DEF ExecutorFails, SaveState, FailureInv
  <2>2. CASE ~ShouldRetry(kind, attempts + 1)
    <3>1. /\ pc' \in {"finishing", "containing"}
          /\ outcome'.stopReason \in {None, "unrecoverable_tool_error"}
      BY <1>9, <2>2 DEF ExecutorFails, SaveState, FailedWith, StopForFailure
    <3>. QED
      BY <1>0, <3>1 DEF FailureInv
  <2>. QED
    BY <2>1, <2>2
<1>10. Skeletons[run] \in Plan
  BY SkeletonAssumption, ElementOfSeq
<1>. QED
  BY <1>2, <1>4, <1>5, <1>6, <1>7, <1>8, <1>9, <1>10 DEF RuntimeActs

\* A run that ends on a planner failure leaves its reason in last_failure_reason,
\* as long as the client raises nothing but LLMClientError.
THEOREM FailuresAreExplained == ~ClientMayCrash => (AgentSpec => []PlannerFailureExplained)
<1>. SUFFICES ASSUME ~ClientMayCrash PROVE AgentSpec => []PlannerFailureExplained
  OBVIOUS
<1>1. AgentInit => RepairInv /\ FailureInv
  <2>1. AgentInit => FailureInv
    BY DEF AgentInit, Init, FailureInv
  <2>. QED
    BY <2>1, InitRepair
<1>2. RunsInv /\ RepairInv /\ FailureInv /\ [AgentNext]_agentVars => FailureInv'
  <2>. SUFFICES ASSUME RunsInv, RepairInv, FailureInv, [AgentNext]_agentVars PROVE FailureInv'
    OBVIOUS
  <2>1. CASE NextRun
    BY <2>1 DEF NextRun, FailureInv
  <2>2. CASE LoopEnds \/ UNCHANGED agentVars
    BY <2>2 DEF LoopEnds, agentVars, vars, plannerVars, FailureInv, Explained
  <2>. QED
    BY <2>1, <2>2, RaisingExplains, RuntimeKeepsFailure DEF AgentNext
<1>3. FailureInv => PlannerFailureExplained
  BY DEF FailureInv, Explained, PlannerFailureExplained
<1>. QED
  BY <1>1, <1>2, <1>3, RepairStep, RunsCorrect, PTL DEF AgentSpec

-----------------------------------------------------------------------------
(* Positions in order                                                      *)

\* Later positions do not change how many come before an earlier one.
LEMMA BeforeStays ==
  ASSUME NEW n \in Nat, NEW S, NEW T, S \subseteq 1..n,
         \A y \in T : y \in S \/ (y \in Nat /\ y > n), S \subseteq T,
         NEW x \in 1..(n + 1)
  PROVE  Before(T, x) = Before(S, x)
<1>1. \A y \in T : y \in S \/ ~(y < x)
  OBVIOUS
<1>2. {y \in T : y < x} = {y \in S : y < x}
  BY <1>1
<1>. QED
  BY <1>2 DEF Before

\* Everything comes before a new last position; before a member comes less than that.
LEMMA BeforeBounds ==
  ASSUME NEW n \in Nat, NEW S, S \subseteq 1..n
  PROVE  /\ IsFiniteSet(S) /\ Cardinality(S) \in Nat
         /\ Before(S, n + 1) = Cardinality(S)
         /\ \A x \in S : Before(S, x) \in Nat /\ Before(S, x) < Cardinality(S)
         /\ Cardinality(S \cup {n + 1}) = Cardinality(S) + 1
<1>1. IsFiniteSet(S) /\ Cardinality(S) \in Nat
  <2>1. IsFiniteSet(1..n) /\ S \in SUBSET (1..n)
    BY FS_Interval
  <2>. QED
    BY <2>1, FS_Subset, FS_CardinalityType
<1>2. {y \in S : y < n + 1} = S
  <2>1. \A y \in S : y \in 1..n /\ y < n + 1
    OBVIOUS
  <2>. QED
    BY <2>1
<1>3. ASSUME NEW x \in S PROVE Before(S, x) \in Nat /\ Before(S, x) < Cardinality(S)
  <2>. DEFINE L == {y \in S : y < x}
  <2>1. L \in SUBSET S /\ x \notin L /\ L # S
    <3>1. x \in 1..n /\ ~(x < x)
      OBVIOUS
    <3>. QED
      BY <3>1
  <2>2. IsFiniteSet(L) /\ Cardinality(L) \in Nat /\ Cardinality(L) < Cardinality(S)
    BY <1>1, <2>1, FS_Subset, FS_CardinalityType
  <2>. QED
    BY <2>2 DEF Before
<1>4. n + 1 \notin S
  OBVIOUS
<1>5. Cardinality(S \cup {n + 1}) = Cardinality(S) + 1
  BY <1>1, <1>4, FS_AddElement
<1>. QED
  BY <1>1, <1>2, <1>3, <1>5 DEF Before

\* Two members of a set have different numbers of members before them.
LEMMA BeforeTells ==
  ASSUME NEW n \in Nat, NEW S, S \subseteq 1..n, NEW x \in S, NEW z \in S,
         Before(S, x) = Before(S, z)
  PROVE  x = z
<1>1. ASSUME NEW a \in S, NEW b \in S, a < b PROVE Before(S, a) # Before(S, b)
  <2>. DEFINE A == {y \in S : y < a}
              B == {y \in S : y < b}
  <2>1. a \in 1..n /\ b \in 1..n /\ ~(a < a)
    OBVIOUS
  <2>2. \A y \in S : y < a => y < b
    <3>1. \A y \in S : y \in 1..n
      OBVIOUS
    <3>. QED
      BY <1>1, <2>1, <3>1
  <2>3. A \in SUBSET B /\ A # B
    BY <1>1, <2>1, <2>2
  <2>4. B \in SUBSET S /\ IsFiniteSet(S)
    BY BeforeBounds
  <2>5. IsFiniteSet(B)
    BY <2>4, FS_Subset
  <2>6. Cardinality(A) # Cardinality(B)
    <3>1. Cardinality(A) < Cardinality(B) /\ Cardinality(A) \in Nat
      BY <2>3, <2>5, FS_Subset, FS_CardinalityType
    <3>. QED
      BY <3>1
  <2>. QED
    BY <2>6 DEF Before
<1>2. x \in 1..n /\ z \in 1..n
  OBVIOUS
<1>. QED
  BY <1>1, <1>2

-----------------------------------------------------------------------------
(* What a step of the loop traces                                          *)

\* The trace gets an entry about the current step.
Entered(e) ==
  /\ Len(trace') = Len(trace) + 1
  /\ \A d \in 1..Len(trace) : trace'[d] = trace[d]
  /\ trace'[Len(trace) + 1] = e
  /\ e.step = state.currentStep

\* A decision is returned to the runtime: the model's, or the fallback.
Returns(e) ==
  /\ pc = "deciding" /\ Entered(e) /\ run' = run
  /\ e.status # "rejected" /\ (e.selected <=> e.action = "call_tool")
  /\ \/ e.action = "call_tool" /\ PlannerCallsTool
     \/ e.action = "complete_step" /\ PlannerCompletesStep
     \/ e.action = "fail_step" /\ PlannerFailsStep
  /\ \/ e.request = 0 /\ used' = used
     \/ e.request = used + 1 /\ used' = used + 1

\* An answer is rejected, or the request fails; the runtime waits or is told so.
Rejects(e) ==
  /\ pc = "deciding" /\ Entered(e) /\ run' = run
  /\ e.status = "rejected" /\ ~e.selected
  /\ UNCHANGED vars \/ PlannerRaises
  /\ e.request = used + 1 /\ used' = used + 1

\* Nothing is traced, and a request is counted only when the client crashes.
TracesNothing ==
  /\ trace' = trace
  /\ used' # used => ClientMayCrash
  /\ \/ pc = "deciding" /\ run' = run /\ PlannerRaises
     \/ pc # "deciding" /\ RuntimeActs
     \/ NextRun
     \/ UNCHANGED agentVars

\* Every step of the loop does one of the three.
LEMMA TraceStep ==
  ASSUME RunsInv, RepairInv, [AgentNext]_agentVars
  PROVE  (\E e : Returns(e)) \/ (\E e : Rejects(e)) \/ TracesNothing
<1>0. used \in Nat /\ trace \in Seq(Traced)
  BY BudgetAssumption DEF RepairInv
<1>A. ASSUME NEW action \in Answers, NEW status, NEW failure,
             LLM!Trace(state.currentStep, action, status, failure)
      PROVE  LET e == [step |-> state.currentStep, action |-> action, status |-> status,
                       selected |-> action = "call_tool" /\ status # "rejected",
                       request |-> IF status = "fallback" THEN 0 ELSE used',
                       repair |-> repairs, failure |-> failure] IN
             Entered(e)
  <2>. DEFINE e == [step |-> state.currentStep, action |-> action, status |-> status,
                    selected |-> action = "call_tool" /\ status # "rejected",
                    request |-> IF status = "fallback" THEN 0 ELSE used',
                    repair |-> repairs, failure |-> failure]
  <2>1. trace' = Append(trace, e)
    BY <1>A DEF LLM!Trace
  <2>2. e.step = state.currentStep
    OBVIOUS
  <2>. SUFFICES Entered(e)
    OBVIOUS
  <2>3. trace \in Seq(Traced \cup {e}) /\ e \in Traced \cup {e}
    BY <1>0
  <2>. HIDE DEF e
  <2>4. /\ Len(trace') = Len(trace) + 1 /\ trace'[Len(trace) + 1] = e
        /\ \A d \in 1..Len(trace) : trace'[d] = trace[d]
    BY <2>1, <2>3, AppendProperties
  <2>. QED
    BY <2>2, <2>4 DEF Entered
<1>1. CASE StepFallsBack /\ UNCHANGED run
  <2>. DEFINE e == [step |-> state.currentStep, action |-> "complete_step", status |-> "fallback",
                    selected |-> "complete_step" = "call_tool" /\ "fallback" # "rejected",
                    request |-> IF "fallback" = "fallback" THEN 0 ELSE used',
                    repair |-> repairs, failure |-> None]
  <2>1. /\ LLM!Trace(state.currentStep, "complete_step", "fallback", None) /\ used' = used
        /\ pc = "deciding" /\ PlannerCompletesStep /\ run' = run
    BY <1>1 DEF StepFallsBack, LLM!FallBack
  <2>2. Entered(e)
    BY <1>A, <2>1 DEF Answers, LLM!Action
  <2>3. /\ e.status = "fallback" /\ ~e.selected /\ e.action = "complete_step" /\ e.request = 0
    OBVIOUS
  <2>. HIDE DEF e
  <2>4. Returns(e)
    BY <2>1, <2>2, <2>3 DEF Returns
  <2>. QED
    BY <2>4
<1>2. ASSUME NEW reply \in LLM!Reply, ModelDecides(reply), UNCHANGED run
      PROVE  \E e : Returns(e)
  <2>. DEFINE status == IF repairs = 0 THEN "accepted" ELSE "repaired_accepted"
              e == [step |-> state.currentStep, action |-> reply.action, status |-> status,
                    selected |-> reply.action = "call_tool" /\ status # "rejected",
                    request |-> IF status = "fallback" THEN 0 ELSE used',
                    repair |-> repairs, failure |-> None]
  <2>1. /\ LLM!Trace(state.currentStep, reply.action, status, None) /\ used' = used + 1
        /\ pc = "deciding" /\ run' = run /\ reply.action \in LLM!Action
    BY <1>2, ReplyActions DEF ModelDecides, LLM!ReplyAccepted, LLM!Consume, MayAsk
  <2>2. \/ reply.action = "call_tool" /\ PlannerCallsTool
        \/ reply.action = "complete_step" /\ PlannerCompletesStep
        \/ reply.action = "fail_step" /\ PlannerFailsStep
    BY <1>2, <2>1 DEF ModelDecides, LLM!Action
  <2>3. Entered(e)
    BY <1>A, <2>1 DEF Answers
  <2>4. status \in {"accepted", "repaired_accepted"}
    OBVIOUS
  <2>. HIDE DEF status
  <2>5. /\ e.status # "rejected" /\ (e.selected <=> e.action = "call_tool")
        /\ e.action = reply.action /\ e.request = used'
    BY <2>4
  <2>. HIDE DEF e
  <2>6. Returns(e)
    BY <2>1, <2>2, <2>3, <2>5 DEF Returns
  <2>. QED
    BY <2>6
<1>3. ASSUME NEW failure, LLM!Trace(state.currentStep, "call_tool", "rejected", failure),
             used' = used + 1, pc = "deciding", run' = run, UNCHANGED vars \/ PlannerRaises
      PROVE  \E e : Rejects(e)
  <2>. DEFINE e == [step |-> state.currentStep, action |-> "call_tool", status |-> "rejected",
                    selected |-> "call_tool" = "call_tool" /\ "rejected" # "rejected",
                    request |-> IF "rejected" = "fallback" THEN 0 ELSE used',
                    repair |-> repairs, failure |-> failure]
  <2>1. Entered(e)
    BY <1>A, <1>3 DEF Answers, LLM!Action
  <2>2. e.status = "rejected" /\ ~e.selected /\ e.request = used'
    OBVIOUS
  <2>. HIDE DEF e
  <2>3. Rejects(e)
    BY <1>3, <2>1, <2>2 DEF Rejects
  <2>. QED
    BY <2>3
<1>4. ASSUME NEW reply \in LLM!Reply, ModelIsAskedAgain(reply) \/ PlannerGivesUp(reply), UNCHANGED run
      PROVE  \E e : Rejects(e)
  <2>1. /\ LLM!Trace(state.currentStep, "call_tool", "rejected", LLM!Rejection(reply))
        /\ used' = used + 1 /\ pc = "deciding"
        /\ UNCHANGED vars \/ PlannerRaises
    BY <1>4
    DEF ModelIsAskedAgain, PlannerGivesUp, LLM!ReplyRejected, LLM!ReplyGivenUp, LLM!Consume, MayAsk
  <2>. QED
    BY <1>3, <1>4, <2>1
<1>5. CASE RequestRaises /\ UNCHANGED run
  <2>1. pc = "deciding" /\ PlannerRaises /\ run' = run
    BY <1>5 DEF RequestRaises, MayAsk
  <2>2. CASE LLM!RequestFails(state.currentStep)
    BY <1>3, <2>1, <2>2 DEF LLM!RequestFails, LLM!Consume
  <2>3. CASE LLM!RequestRefused \/ LLM!RequestCrashes
    BY <2>1, <2>3 DEF LLM!RequestRefused, LLM!RequestCrashes, TracesNothing
  <2>. QED
    BY <1>5, <2>2, <2>3 DEF RequestRaises
<1>6. CASE RuntimeActs
  <2>1. pc # "deciding" /\ UNCHANGED plannerVars
    BY <1>6 DEF RuntimeActs, StartRun, PlannerCreatesPlan, StartStep, StepBudgetSpent,
                PlanFinished, FinishStep, StopRun, DispatchCall, DispatchBlocked,
                ExecutorSucceeds, ExecutorRaises, ExecutorFails, ContainError
  <2>. QED
    BY <1>6, <2>1 DEF TracesNothing, plannerVars
<1>7. CASE NextRun \/ LoopEnds \/ UNCHANGED agentVars
  BY <1>7 DEF NextRun, LoopEnds, TracesNothing, agentVars, plannerVars
<1>. QED
  BY <1>1, <1>2, <1>4, <1>5, <1>6, <1>7 DEF AgentNext, AgentDecides

-----------------------------------------------------------------------------
(* Requests                                                                *)

\* A traced request adds to the count and carries its number.
LEMMA RequestTraced ==
  ASSUME RunsInv, RepairInv, EveryRequestIsTraced, NEW e, Returns(e) \/ Rejects(e)
  PROVE  EveryRequestIsTraced'
<1>0. used \in Nat /\ Len(trace) \in Nat
  BY BudgetAssumption DEF RepairInv
<1>1. PICK n \in Nat : n = Len(trace)
  BY <1>0
<1>2. /\ Len(trace') = n + 1 /\ trace'[n + 1] = e
      /\ \A d \in 1..n : trace'[d] = trace[d]
  BY <1>1 DEF Returns, Rejects, Entered
<1>3. \/ e.request = 0 /\ used' = used
      \/ e.request = used + 1 /\ used' = used + 1
  BY DEF Returns, Rejects
<1>4. PICK S : S = Requests
  OBVIOUS
<1>5. /\ S \subseteq 1..n /\ Cardinality(S) = used
      /\ \A d \in S : trace[d].request = Before(S, d) + 1
      /\ \A d \in 1..n : d \in S <=> trace[d].request # 0
  BY <1>1, <1>4 DEF EveryRequestIsTraced, Requests
<1>6. CASE e.request = 0 /\ used' = used
  <2>1. \A d \in 1..(n + 1) : trace'[d].request # 0 <=> d \in S
    BY <1>2, <1>5, <1>6
  <2>2. Requests' = S
    <3>1. Requests' = {d \in 1..(n + 1) : trace'[d].request # 0} /\ S \subseteq 1..(n + 1)
      BY <1>2, <1>5 DEF Requests
    <3>. QED
      BY <2>1, <3>1
  <2>. QED
    BY <1>2, <1>5, <1>6, <2>2 DEF EveryRequestIsTraced
<1>7. CASE e.request = used + 1 /\ used' = used + 1
  <2>. DEFINE T == S \cup {n + 1}
  <2>0. \A d \in 1..(n + 1) : trace'[d].request # 0 <=> d \in T
    <3>1. \A d \in 1..n : trace'[d].request # 0 <=> d \in T
      BY <1>2, <1>5
    <3>2. trace'[n + 1].request # 0
      BY <1>0, <1>2, <1>7
    <3>. QED
      BY <3>1, <3>2
  <2>1. Requests' = T
    <3>1. Requests' = {d \in 1..(n + 1) : trace'[d].request # 0} /\ T \subseteq 1..(n + 1)
      BY <1>2, <1>5 DEF Requests
    <3>. QED
      BY <2>0, <3>1
  <2>2. Cardinality(T) = used'
    BY <1>5, <1>7, BeforeBounds
  <2>3. \A d \in 1..(n + 1) : Before(T, d) = Before(S, d)
    <3>1. S \subseteq T /\ \A y \in T : y \in S \/ (y \in Nat /\ y > n)
      OBVIOUS
    <3>. QED
      BY <1>5, <3>1, BeforeStays
  <2>4. trace'[n + 1].request = Before(S, n + 1) + 1
    BY <1>2, <1>5, <1>7, BeforeBounds
  <2>5. \A d \in T : trace'[d].request = Before(T, d) + 1
    <3>1. \A d \in S : trace'[d].request = Before(T, d) + 1
      <4>1. \A d \in S : d \in 1..n /\ d \in 1..(n + 1)
        BY <1>5
      <4>. QED
        BY <1>2, <1>5, <2>3, <4>1
    <3>2. trace'[n + 1].request = Before(T, n + 1) + 1
      <4>1. n + 1 \in 1..(n + 1)
        OBVIOUS
      <4>. QED
        BY <2>3, <2>4, <4>1
    <3>. QED
      BY <3>1, <3>2
  <2>. QED
    BY <2>1, <2>2, <2>5 DEF EveryRequestIsTraced
<1>. QED
  BY <1>3, <1>6, <1>7

\* As long as the client raises nothing but LLMClientError, the traced requests are
\* exactly the counted ones, in order (decision_trace.py:3).
THEOREM RequestsTraced == ~ClientMayCrash => (AgentSpec => []EveryRequestIsTraced)
<1>. SUFFICES ASSUME ~ClientMayCrash PROVE AgentSpec => []EveryRequestIsTraced
  OBVIOUS
<1>1. AgentInit => EveryRequestIsTraced
  <2>. SUFFICES ASSUME AgentInit PROVE EveryRequestIsTraced
    OBVIOUS
  <2>1. used = 0 /\ trace = <<>>
    BY DEF AgentInit, LLM!PlannerInit
  <2>2. Requests = {}
    BY <2>1 DEF Requests
  <2>. QED
    BY <2>1, <2>2, FS_EmptySet DEF EveryRequestIsTraced
<1>2. RunsInv /\ RepairInv /\ EveryRequestIsTraced /\ [AgentNext]_agentVars => EveryRequestIsTraced'
  <2>. SUFFICES ASSUME RunsInv, RepairInv, EveryRequestIsTraced, [AgentNext]_agentVars
                PROVE  EveryRequestIsTraced'
    OBVIOUS
  <2>1. CASE TracesNothing
    BY <2>1 DEF TracesNothing, EveryRequestIsTraced, Requests
  <2>. QED
    BY <2>1, TraceStep, RequestTraced
<1>. QED
  BY <1>1, <1>2, InitRepair, RepairStep, RunsCorrect, PTL DEF AgentSpec

-----------------------------------------------------------------------------
(* The plan of the run                                                     *)

StepsOf(r) == {Skeletons[r][i] : i \in 1..Len(Skeletons[r])}

\* A run works on its own skeleton; the trace holds the steps of this run and of
\* earlier ones.
PlanInv ==
  /\ StepsInv /\ HandoffInv /\ CallsInv
  /\ state.plan \in {<<>>, Skeletons[run]}
  /\ \A c \in CallIndex : state.toolCalls[c].step \in RunSteps
  /\ \A d \in 1..Len(trace) : \E r \in 1..run : trace[d].step \in StepsOf(r)

\* The steps of a run are the runtime's plan, one of them the current one.
LEMMA CurrentStepPlanned ==
  ASSUME RunsInv, CallsInv, state.plan \in {<<>>, Skeletons[run]}, InStep
  PROVE  state.currentStep \in RunSteps
<1>1. stepsStarted \in 1..Len(state.plan) /\ state.plan[stepsStarted] = state.currentStep
  BY DEF RunsInv, TypeInv, TypeOK, Control, RuntimeState, CallsInv
<1>2. state.plan # <<>>
  BY <1>1
<1>. QED
  BY <1>1, <1>2 DEF RunSteps

\* The steps of another run are not those of this one.
LEMMA OtherRunsSteps ==
  ASSUME NEW r \in 1..Len(Skeletons), NEW q \in 1..Len(Skeletons), r # q
  PROVE  StepsOf(r) \cap StepsOf(q) = {}
  BY FreshStepsAssumption DEF StepsOf

\* A step of the runtime keeps the plan, or creates it from the skeleton.
LEMMA RuntimeKeepsPlan ==
  ASSUME RunsInv, PlanInv, [Next]_vars, run' = run,
         pc = "planning" => RuntimeActs \/ UNCHANGED vars
  PROVE  /\ state'.plan \in {<<>>, Skeletons[run]}
         /\ \A c \in CallIndex' : state'.toolCalls[c].step \in RunSteps
<1>0. /\ TypeInv /\ state \in RuntimeState /\ Len(state.toolCalls) \in Nat
      /\ LastCall = Len(state.toolCalls) /\ state.toolCalls \in Seq(Call)
  BY DEF RunsInv, TypeInv, TypeOK, RuntimeState, LastCall
<1>1. state'.plan \in {<<>>, Skeletons[run]}
  <2>1. CASE pc # "planning"
    BY <1>0, <2>1, PlanSetOnce DEF PlanInv
  <2>2. CASE pc = "planning" /\ RuntimeActs
    BY <1>0, <2>2
    DEF RuntimeActs, StartRun, PlannerCreatesPlan, StartStep, StepBudgetSpent, PlanFinished,
        FinishStep, StopRun, DispatchCall, DispatchBlocked, ExecutorSucceeds, ExecutorRaises,
        ExecutorFails, ContainError, RuntimeState
  <2>3. CASE UNCHANGED vars
    BY <2>3 DEF vars, PlanInv
  <2>. QED
    BY <2>1, <2>2, <2>3
<1>2. \A c \in CallIndex' : state'.toolCalls[c].step \in RunSteps
  <2>1. CASE Untold
    BY <2>1 DEF Untold, PlanInv, CallIndex
  <2>2. CASE Opened
    <3>. DEFINE opened == [step |-> state.currentStep, status |-> "running"]
    <3>1. opened \in Call /\ state'.toolCalls = Append(state.toolCalls, opened)
      BY <2>2 DEF Opened, Call, CallStatus
    <3>2. opened.step \in RunSteps
      <4>1. CASE InStep
        BY <4>1, CurrentStepPlanned DEF PlanInv
      <4>2. CASE ~InStep
        BY <1>0, <2>2, <4>2
        DEF Opened, InStep, Next, vars, StartRun, PlannerCreatesPlan, PlannerFailsToPlan,
            StartStep, StepBudgetSpent, PlanFinished, PlannerCompletesStep, PlannerFailsStep,
            PlannerRaises, PlannerCallsTool, FinishStep, StopRun, DispatchCall, DispatchBlocked,
            ExecutorSucceeds, ExecutorRaises, ExecutorFails, ContainError, Finished,
            Terminate, SaveState
      <4>. QED
        BY <4>1, <4>2
    <3>. HIDE DEF opened
    <3>3. /\ Len(state'.toolCalls) = LastCall + 1 /\ state'.toolCalls[LastCall + 1] = opened
          /\ \A c \in 1..LastCall : state'.toolCalls[c] = state.toolCalls[c]
      BY <1>0, <3>1, AppendProperties
    <3>4. \A c \in CallIndex' : c \in CallIndex \/ c = LastCall + 1
      BY <1>0, <3>3 DEF CallIndex
    <3>. QED
      BY <1>0, <3>2, <3>3, <3>4 DEF PlanInv, CallIndex
  <2>3. ASSUME NEW st \in {"succeeded", "failed"}, NEW m \in {1, 2}, NEW rs, Told(st, rs, m)
        PROVE  \A c \in CallIndex' : state'.toolCalls[c].step \in RunSteps
    <3>1. /\ Len(state'.toolCalls) = Len(state.toolCalls)
          /\ \A c \in 1..Len(state.toolCalls) :
               state'.toolCalls[c] = IF c = LastCall THEN [step |-> state.toolCalls[c].step, status |-> st]
                                     ELSE state.toolCalls[c]
      BY <1>0, <2>3, ToldEffect
    <3>2. \A c \in 1..Len(state.toolCalls) : state'.toolCalls[c].step = state.toolCalls[c].step
      <4>. SUFFICES ASSUME NEW c \in 1..Len(state.toolCalls)
                    PROVE  state'.toolCalls[c].step = state.toolCalls[c].step
        OBVIOUS
      <4>1. [step |-> state.toolCalls[c].step, status |-> st].step = state.toolCalls[c].step
        OBVIOUS
      <4>. QED
        BY <3>1, <4>1
    <3>. QED
      BY <3>1, <3>2 DEF PlanInv, CallIndex
  <2>. QED
    BY <1>0, <2>1, <2>2, <2>3, StoryStep
<1>. QED
  BY <1>1, <1>2

LEMMA PlanStep == RunsInv /\ RepairInv /\ PlanInv /\ [AgentNext]_agentVars => PlanInv'
<1>. SUFFICES ASSUME RunsInv, RepairInv, PlanInv, [AgentNext]_agentVars PROVE PlanInv'
  OBVIOUS
<1>0. /\ TypeInv /\ CountersMatchHistory /\ run \in 1..Len(Skeletons) /\ Len(trace) \in Nat
      /\ run' \in 1..Len(Skeletons) /\ ([Next]_vars \/ Init')
  BY AgentSteps DEF RunsInv, RepairInv
<1>1. (StepsInv /\ HandoffInv /\ CallsInv)'
  <2>1. CASE [Next]_vars
    BY <1>0, <2>1, StepsStep, HandoffStep, CallsStep DEF PlanInv
  <2>2. CASE Init'
    BY <2>2, InitCalls, PTL
  <2>. QED
    BY <1>0, <2>1, <2>2
<1>2. ASSUME NEW e, Returns(e) \/ Rejects(e) PROVE PlanInv'
  <2>1. pc = "deciding" /\ run' = run /\ Entered(e)
    BY <1>2 DEF Returns, Rejects
  <2>2. state' = state
    BY <1>2 DEF Returns, Rejects, PlannerCallsTool, PlannerCompletesStep, PlannerFailsStep,
                PlannerRaises, vars
  <2>3. e.step \in StepsOf(run)
    BY <2>1, CurrentStepPlanned DEF PlanInv, Entered, InStep, StepsOf, RunSteps
  <2>4. \A d \in 1..Len(trace') : d \in 1..Len(trace) \/ d = Len(trace) + 1
    BY <1>0, <2>1 DEF Entered
  <2>5. \A d \in 1..Len(trace') : \E r \in 1..run : trace'[d].step \in StepsOf(r)
    <3>1. \A d \in 1..Len(trace) : \E r \in 1..run : trace'[d].step \in StepsOf(r)
      BY <2>1 DEF Entered, PlanInv
    <3>2. trace'[Len(trace) + 1].step \in StepsOf(run) /\ run \in 1..run
      BY <1>0, <2>1, <2>3 DEF Entered
    <3>. QED
      BY <2>4, <3>1, <3>2
  <2>. QED
    BY <1>1, <2>1, <2>2, <2>5 DEF PlanInv, CallIndex, RunSteps
<1>3. CASE TracesNothing
  <2>1. CASE NextRun
    <3>1. /\ run' = run + 1 /\ trace' = trace /\ state'.plan = <<>> /\ state'.toolCalls = <<>>
      BY <2>1 DEF NextRun, plannerVars, InitialState
    <3>2. \A r \in 1..run : r \in 1..(run + 1)
      BY <1>0
    <3>3. \A d \in 1..Len(trace) : \E r \in 1..(run + 1) : trace[d].step \in StepsOf(r)
      BY <3>2 DEF PlanInv
    <3>. QED
      BY <1>1, <3>1, <3>3 DEF PlanInv, CallIndex
  <2>2. CASE ~NextRun
    <3>1. run' = run /\ [Next]_vars /\ (pc = "planning" => RuntimeActs \/ UNCHANGED vars) /\ trace' = trace
      <4>1. CASE pc = "deciding" /\ run' = run /\ PlannerRaises
        BY <1>3, <4>1 DEF TracesNothing, Next
      <4>2. CASE RuntimeActs
        <5>1. Skeletons[run] \in Plan
          BY <1>0, SkeletonAssumption, ElementOfSeq
        <5>. QED
          BY <1>3, <4>2, <5>1 DEF TracesNothing, RuntimeActs, Next
      <4>3. CASE UNCHANGED agentVars
        BY <1>3, <4>3 DEF TracesNothing, agentVars
      <4>. QED
        BY <1>3, <2>2, <4>1, <4>2, <4>3 DEF TracesNothing
    <3>2. /\ state'.plan \in {<<>>, Skeletons[run]}
          /\ \A c \in CallIndex' : state'.toolCalls[c].step \in RunSteps
      BY <3>1, RuntimeKeepsPlan
    <3>. QED
      BY <1>1, <3>1, <3>2 DEF PlanInv, RunSteps
  <2>. QED
    BY <2>1, <2>2
<1>. QED
  BY <1>2, <1>3, TraceStep

\* Before the first step there is nothing in the plan or the trace.
LEMMA InitPlan == AgentInit => PlanInv
<1>. SUFFICES ASSUME AgentInit PROVE PlanInv
  OBVIOUS
<1>1. state.plan = <<>> /\ state.toolCalls = <<>> /\ trace = <<>> /\ Init
  BY DEF AgentInit, Init, InitialState, LLM!PlannerInit
<1>2. StepsInv /\ HandoffInv /\ CallsInv
  BY <1>1, InitCalls
<1>. QED
  BY <1>1, <1>2 DEF PlanInv, CallIndex

-----------------------------------------------------------------------------
(* Decisions and events                                                    *)

\* A decision that no event follows yet is still being carried out.
Awaited(action) ==
  \/ pc = "dispatching" /\ action = "call_tool"
  \/ pc = "finishing" /\ outcome.status = (IF action = "complete_step" THEN "completed" ELSE "failed")

MatchInv ==
  /\ Cardinality(Decisions) = Cardinality(DecisionEvents)
  /\ \A d \in Decisions : trace[d].action \in LLM!Action
  /\ \A d \in Decisions, i \in DecisionEvents :
       Before(Decisions, d) = Before(DecisionEvents, i) =>
         /\ trajectory[i].step = trace[d].step
         /\ i < Len(trajectory) => trajectory[i + 1].type \in OutcomesOf(trace[d].action)
         /\ i = Len(trajectory) => Awaited(trace[d].action)

\* What an action of the runtime does for a decision that is awaited.
Pursues(k) ==
  \A action \in LLM!Action : Awaited(action) =>
    IF k = 0 THEN Awaited(action)' ELSE trajectory'[Len(trajectory) + 1].type \in OutcomesOf(action)

\* A decision is recorded only by an event of that type.
LEMMA EventsKept ==
  ASSUME NEW k \in Nat, Len(trajectory) \in Nat, Extended(k),
         \A i \in (Len(trajectory) + 1)..(Len(trajectory) + k) :
           trajectory'[i].type # "planner_decision"
  PROVE  DecisionEvents' = DecisionEvents
<1>. PICK n \in Nat : n = Len(trajectory)
  OBVIOUS
<1>1. Len(trajectory') = n + k /\ \A i \in 1..n : trajectory'[i] = trajectory[i]
  BY DEF Extended
<1>2. \A i \in 1..(n + k) : i \in 1..n \/ i \in (n + 1)..(n + k)
  OBVIOUS
<1>3. \A i \in 1..(n + k) : trajectory'[i].type = "planner_decision" <=> i \in DecisionEvents
  BY <1>1, <1>2 DEF DecisionEvents
<1>4. DecisionEvents \subseteq 1..(n + k)
  BY DEF DecisionEvents
<1>5. DecisionEvents' = {i \in 1..(n + k) : trajectory'[i].type = "planner_decision"}
  BY <1>1 DEF DecisionEvents
<1>. QED
  BY <1>3, <1>4, <1>5

\* Nothing is decided, and the decision that is awaited is carried out.
LEMMA MatchKept ==
  ASSUME MatchInv, NEW k \in Nat, Len(trajectory) \in Nat, Extended(k),
         \A i \in (Len(trajectory) + 1)..(Len(trajectory) + k) :
           trajectory'[i].type # "planner_decision",
         Decisions' = Decisions, \A d \in Decisions : trace'[d] = trace[d],
         Pursues(k)
  PROVE  MatchInv' /\ DecisionEvents' = DecisionEvents
<1>1. PICK n \in Nat : n = Len(trajectory)
  OBVIOUS
<1>2. Len(trajectory') = n + k /\ \A i \in 1..n : trajectory'[i] = trajectory[i]
  BY <1>1 DEF Extended
<1>3. DecisionEvents' = DecisionEvents
  BY EventsKept
<1>4. ASSUME NEW d \in Decisions, NEW i \in DecisionEvents, Before(Decisions, d) = Before(DecisionEvents, i)
      PROVE  /\ trajectory'[i].step = trace'[d].step
             /\ i < n + k => trajectory'[i + 1].type \in OutcomesOf(trace'[d].action)
             /\ i = n + k => \E action : action = trace'[d].action /\ Awaited(action)'
  <2>1. i \in 1..n /\ trace'[d] = trace[d] /\ trajectory'[i] = trajectory[i]
        /\ trace[d].action \in LLM!Action
    BY <1>1, <1>2 DEF DecisionEvents, MatchInv
  <2>2. /\ trajectory[i].step = trace[d].step
        /\ i < n => trajectory[i + 1].type \in OutcomesOf(trace[d].action)
        /\ i = n => Awaited(trace[d].action)
    BY <1>1, <1>4 DEF MatchInv
  <2>3. CASE i < n
    <3>1. i + 1 \in 1..n
      BY <2>1, <2>3
    <3>. QED
      BY <1>2, <2>1, <2>2, <2>3, <3>1
  <2>4. CASE i = n
    <3>1. PICK action : action = trace[d].action
      OBVIOUS
    <3>2. action \in LLM!Action /\ Awaited(action) /\ trace'[d].action = action
      BY <2>1, <2>2, <2>4, <3>1
    <3>3. IF k = 0 THEN Awaited(action)' ELSE trajectory'[n + 1].type \in OutcomesOf(action)
      BY <1>1, <3>2 DEF Pursues
    <3>4. n < n + k => k # 0
      OBVIOUS
    <3>5. n = n + k => k = 0
      OBVIOUS
    <3>. QED
      BY <2>1, <2>2, <2>4, <3>2, <3>3, <3>4, <3>5
  <2>. QED
    BY <2>1, <2>3, <2>4
<1>5. \A d \in Decisions : trace'[d].action \in LLM!Action
  BY DEF MatchInv
<1>6. MatchInv'
  <2>1. \A d \in Decisions, i \in DecisionEvents :
          Before(Decisions, d) = Before(DecisionEvents, i) =>
            /\ trajectory'[i].step = trace'[d].step
            /\ i < n + k => trajectory'[i + 1].type \in OutcomesOf(trace'[d].action)
            /\ i = n + k => \E action : action = trace'[d].action /\ Awaited(action)'
    BY <1>4
  <2>2. Cardinality(Decisions) = Cardinality(DecisionEvents)
    BY DEF MatchInv
  <2>. QED
    BY <1>2, <1>3, <1>5, <2>1, <2>2 DEF MatchInv, Awaited
<1>. QED
  BY <1>3, <1>6

\* A returned decision is the next of both.
LEMMA MatchGrows ==
  ASSUME RunsInv, RepairInv, PlanInv, MatchInv, NEW e, Returns(e)
  PROVE  /\ MatchInv'
         /\ Decisions' = Decisions \cup {Len(trace) + 1}
         /\ DecisionEvents' = DecisionEvents \cup {Len(trajectory) + 1}
<1>0. /\ trajectory \in Seq(Event) /\ Len(trajectory) \in Nat /\ Len(trace) \in Nat
      /\ pc = "deciding" /\ e.step = state.currentStep /\ state.currentStep \in RunSteps
  BY CurrentStepPlanned DEF RunsInv, TypeInv, TypeOK, RepairInv, Returns, Entered, PlanInv, InStep
<1>1. PICK n \in Nat, m \in Nat : n = Len(trace) /\ m = Len(trajectory)
  BY <1>0
<1>2. PICK D, E : D = Decisions /\ E = DecisionEvents
  OBVIOUS
<1>3. /\ D \subseteq 1..n /\ E \subseteq 1..m /\ Cardinality(D) = Cardinality(E)
      /\ \A d \in D : trace[d].action \in LLM!Action
      /\ \A d \in 1..n : d \in D <=> (trace[d].step \in RunSteps /\ trace[d].status # "rejected")
      /\ \A i \in 1..m : i \in E <=> trajectory[i].type = "planner_decision"
  BY <1>1, <1>2 DEF Decisions, DecisionEvents, MatchInv
<1>4. /\ Len(trace') = n + 1 /\ trace'[n + 1] = e /\ \A d \in 1..n : trace'[d] = trace[d]
      /\ run' = run /\ e.status # "rejected"
  BY <1>1 DEF Returns, Entered
<1>5. /\ Len(trajectory') = m + 1 /\ \A i \in 1..m : trajectory'[i] = trajectory[i]
      /\ trajectory'[m + 1].type = "planner_decision" /\ trajectory'[m + 1].step = state.currentStep
  <2>1. Record(<<EventOf("planner_decision", state.currentStep, 0, 0)>>)
    BY DEF Returns, PlannerCallsTool, PlannerCompletesStep, PlannerFailsStep, RecordDecision
  <2>2. /\ Extended(1)
        /\ trajectory'[m + 1] = EventOf("planner_decision", state.currentStep, 0, 0)
    BY <1>0, <1>1, <2>1, RecordOneEffect
  <2>. QED
    BY <1>1, <2>2 DEF Extended, EventOf
<1>6. Awaited(e.action)' /\ e.action \in LLM!Action
  BY DEF Returns, PlannerCallsTool, PlannerCompletesStep, PlannerFailsStep, StepEndsWith,
         Completed, FailedWith, Awaited, LLM!Action
<1>7. Decisions' = D \cup {n + 1}
  <2>1. Decisions' = {d \in 1..(n + 1) : trace'[d].step \in RunSteps /\ trace'[d].status # "rejected"}
    BY <1>4 DEF Decisions, RunSteps
  <2>2. \A d \in 1..(n + 1) :
          d \in D \cup {n + 1} <=> (trace'[d].step \in RunSteps /\ trace'[d].status # "rejected")
    <3>1. \A d \in 1..n : d \in D \cup {n + 1} <=> (trace'[d].step \in RunSteps /\ trace'[d].status # "rejected")
      BY <1>3, <1>4
    <3>2. trace'[n + 1].step \in RunSteps /\ trace'[n + 1].status # "rejected"
      BY <1>0, <1>4
    <3>. QED
      BY <3>1, <3>2
  <2>3. D \cup {n + 1} \subseteq 1..(n + 1)
    BY <1>3
  <2>. QED
    BY <2>1, <2>2, <2>3
<1>8. DecisionEvents' = E \cup {m + 1}
  <2>1. DecisionEvents' = {i \in 1..(m + 1) : trajectory'[i].type = "planner_decision"}
    BY <1>5 DEF DecisionEvents
  <2>2. \A i \in 1..(m + 1) : i \in E \cup {m + 1} <=> trajectory'[i].type = "planner_decision"
    BY <1>3, <1>5
  <2>3. E \cup {m + 1} \subseteq 1..(m + 1)
    BY <1>3
  <2>. QED
    BY <2>1, <2>2, <2>3
<1>. DEFINE D1 == D \cup {n + 1}
            E1 == E \cup {m + 1}
<1>9. Cardinality(D1) = Cardinality(E1)
  BY <1>3, BeforeBounds
<1>10. /\ \A d \in 1..(n + 1) : Before(D1, d) = Before(D, d)
       /\ \A i \in 1..(m + 1) : Before(E1, i) = Before(E, i)
  <2>1. D \subseteq D1 /\ \A y \in D1 : y \in D \/ (y \in Nat /\ y > n)
    OBVIOUS
  <2>2. E \subseteq E1 /\ \A y \in E1 : y \in E \/ (y \in Nat /\ y > m)
    OBVIOUS
  <2>3. \A d \in 1..(n + 1) : Before(D1, d) = Before(D, d)
    <3>. HIDE DEF D1, E1
    <3>1. n \in Nat /\ D \subseteq 1..n
      BY <1>3
    <3>. QED
      BY <2>1, <3>1, BeforeStays
  <2>4. \A i \in 1..(m + 1) : Before(E1, i) = Before(E, i)
    <3>. HIDE DEF E1
    <3>. QED
      BY <1>3, <2>2, BeforeStays
  <2>. QED
    BY <2>3, <2>4
<1>11. ASSUME NEW d \in D1, NEW i \in E1, Before(D1, d) = Before(E1, i)
       PROVE  /\ trajectory'[i].step = trace'[d].step
              /\ i < m + 1 => trajectory'[i + 1].type \in OutcomesOf(trace'[d].action)
              /\ i = m + 1 => \E action : action = trace'[d].action /\ Awaited(action)'
  <2>0. d \in 1..(n + 1) /\ i \in 1..(m + 1)
    BY <1>3
  <2>1. Before(D, d) = Before(E, i) /\ d \in 1..(n + 1) /\ i \in 1..(m + 1)
    BY <1>10, <1>11, <2>0
  <2>2. CASE d \in D /\ i \in E
    <3>1. /\ trajectory[i].step = trace[d].step
          /\ i < m => trajectory[i + 1].type \in OutcomesOf(trace[d].action)
          /\ i = m => Awaited(trace[d].action)
      BY <1>1, <1>2, <2>1, <2>2 DEF MatchInv
    <3>2. i # m
      BY <1>0, <3>1 DEF Awaited
    <3>3. d \in 1..n /\ i \in 1..m
      BY <1>3, <2>2
    <3>4. i + 1 \in 1..m /\ i < m /\ i # m + 1
      BY <3>2, <3>3
    <3>. QED
      BY <1>4, <1>5, <3>1, <3>3, <3>4
  <2>3. CASE d \in D /\ i = m + 1
    <3>1. Before(D, d) < Cardinality(D) /\ Before(E, i) = Cardinality(E) /\ Cardinality(E) \in Nat
          /\ Before(D, d) \in Nat
      BY <1>3, <2>3, BeforeBounds
    <3>. QED
      BY <1>3, <2>1, <3>1
  <2>4. CASE d = n + 1 /\ i \in E
    <3>1. Before(E, i) < Cardinality(E) /\ Before(D, d) = Cardinality(D) /\ Cardinality(E) \in Nat
          /\ Before(E, i) \in Nat
      BY <1>3, <2>4, BeforeBounds
    <3>. QED
      BY <1>3, <2>1, <3>1
  <2>5. CASE d = n + 1 /\ i = m + 1
    <3>1. trace'[d].action = e.action /\ trajectory'[i].step = trace'[d].step
      BY <1>0, <1>4, <1>5, <2>5
    <3>. QED
      BY <1>6, <2>5, <3>1
  <2>. QED
    BY <2>2, <2>3, <2>4, <2>5
<1>12. \A d \in D1 : trace'[d].action \in LLM!Action
  <2>1. \A d \in D : trace'[d] = trace[d]
    BY <1>3, <1>4
  <2>. QED
    BY <1>3, <1>4, <1>6, <2>1
<1>13. MatchInv'
  <2>1. \A d \in D1, i \in E1 :
          Before(D1, d) = Before(E1, i) =>
            /\ trajectory'[i].step = trace'[d].step
            /\ i < m + 1 => trajectory'[i + 1].type \in OutcomesOf(trace'[d].action)
            /\ i = m + 1 => \E action : action = trace'[d].action /\ Awaited(action)'
    BY <1>11
  <2>. HIDE DEF D1, E1
  <2>2. Decisions' = D1 /\ DecisionEvents' = E1
    BY <1>7, <1>8 DEF D1, E1
  <2>. QED
    BY <1>5, <1>9, <1>12, <2>1, <2>2 DEF MatchInv, Awaited
<1>. QED
  BY <1>1, <1>2, <1>7, <1>8, <1>13

\* Every action of the runtime carries an awaited decision out, or lets it wait.
LEMMA RuntimePursues ==
  ASSUME RunsInv, [Next]_vars, pc # "deciding" \/ PlannerRaises \/ UNCHANGED vars
  PROVE  \E k \in Nat :
           /\ Extended(k)
           /\ \A i \in (Len(trajectory) + 1)..(Len(trajectory) + k) :
                trajectory'[i].type # "planner_decision"
           /\ Pursues(k)
<1>0. TypeInv /\ trajectory \in Seq(Event) /\ Len(trajectory) \in Nat /\ outcome \in Outcome
  BY DEF RunsInv, TypeInv, TypeOK
<1>1. ASSUME trajectory' = trajectory, Pursues(0)
      PROVE  /\ Extended(0) /\ 0 \in Nat /\ Pursues(0)
             /\ \A i \in (Len(trajectory) + 1)..(Len(trajectory) + 0) :
                  trajectory'[i].type # "planner_decision"
  BY <1>0, <1>1 DEF Extended
<1>2. ASSUME NEW e, Record(<<e>>), e.type # "planner_decision",
             \A action \in LLM!Action : Awaited(action) => e.type \in OutcomesOf(action)
      PROVE  /\ Extended(1) /\ 1 \in Nat /\ Pursues(1)
             /\ \A i \in (Len(trajectory) + 1)..(Len(trajectory) + 1) :
                  trajectory'[i].type # "planner_decision"
  <2>1. Extended(1) /\ trajectory'[Len(trajectory) + 1] = e
    BY <1>0, <1>2, RecordOneEffect
  <2>. QED
    BY <1>0, <1>2, <2>1 DEF Pursues
<1>3. ASSUME NEW e, NEW f, Record(<<e, f>>), e.type # "planner_decision", f.type # "planner_decision",
             \A action \in LLM!Action : Awaited(action) => e.type \in OutcomesOf(action)
      PROVE  /\ Extended(2) /\ 2 \in Nat /\ Pursues(2)
             /\ \A i \in (Len(trajectory) + 1)..(Len(trajectory) + 2) :
                  trajectory'[i].type # "planner_decision"
  <2>1. /\ Extended(2) /\ trajectory'[Len(trajectory) + 1] = e
        /\ trajectory'[Len(trajectory) + 2] = f
    BY <1>0, <1>3, RecordTwoEffect
  <2>2. \A i \in (Len(trajectory) + 1)..(Len(trajectory) + 2) :
          i = Len(trajectory) + 1 \/ i = Len(trajectory) + 2
    BY <1>0
  <2>. QED
    BY <1>0, <1>3, <2>1, <2>2 DEF Pursues
<1>4. CASE UNCHANGED vars
  <2>1. trajectory' = trajectory /\ Pursues(0)
    BY <1>4 DEF vars, Pursues, Awaited
  <2>. QED
    BY <1>1, <2>1
<1>5. CASE PlannerRaises
  <2>1. trajectory' = trajectory /\ Pursues(0)
    BY <1>5 DEF PlannerRaises, Pursues, Awaited
  <2>. QED
    BY <1>1, <2>1
<1>6. CASE pc \notin {"dispatching", "finishing", "deciding"}
  <2>1. \A action \in LLM!Action : ~Awaited(action)
    BY <1>6 DEF Awaited
  <2>2. CASE Silent
    BY <1>1, <2>1, <2>2 DEF Silent, Pursues
  <2>3. CASE Retried
    BY <1>3, <2>1, <2>3 DEF Retried
  <2>4. CASE Other
    BY <1>2, <2>1, <2>4 DEF Other
  <2>. QED
    BY <1>0, <1>6, <2>2, <2>3, <2>4, EventStep DEF Decided, Dispatched
<1>7. CASE pc = "dispatching" /\ ~UNCHANGED vars
  <2>1. DispatchCall \/ DispatchBlocked
    BY <1>7
    DEF Next, StartRun, PlannerCreatesPlan, PlannerFailsToPlan, StartStep, StepBudgetSpent,
        PlanFinished, PlannerCompletesStep, PlannerFailsStep, PlannerRaises, PlannerCallsTool,
        FinishStep, StopRun, ExecutorSucceeds, ExecutorRaises, ExecutorFails, ContainError, Finished
  <2>2. \A action \in LLM!Action : Awaited(action) => action = "call_tool"
    BY <1>7 DEF Awaited
  <2>3. CASE DispatchBlocked
    <3>1. trajectory' = trajectory /\ pc' = "finishing" /\ outcome'.status = "failed"
      BY <2>3 DEF DispatchBlocked, StepEndsWith, FailedWith
    <3>2. Pursues(0)
      BY <2>2, <3>1 DEF Pursues, Awaited
    <3>. QED
      BY <1>1, <3>1, <3>2
  <2>4. CASE DispatchCall
    <3>. DEFINE created == CallEvent("tool_call_created", LastCall + 1, 0)
                started == CallEvent("tool_started", LastCall + 1, 0)
    <3>1. Record(<<created, started>>)
      BY <2>4 DEF DispatchCall
    <3>2. created.type = "tool_call_created" /\ started.type = "tool_started"
      BY DEF CallEvent, EventOf
    <3>. HIDE DEF created, started
    <3>3. \A action \in LLM!Action : Awaited(action) => created.type \in OutcomesOf(action)
      BY <2>2, <3>2 DEF OutcomesOf
    <3>. QED
      BY <1>3, <3>1, <3>2, <3>3
  <2>. QED
    BY <2>1, <2>3, <2>4
<1>8. CASE pc = "finishing" /\ ~UNCHANGED vars
  <2>1. FinishStep
    BY <1>8
    DEF Next, StartRun, PlannerCreatesPlan, PlannerFailsToPlan, StartStep, StepBudgetSpent,
        PlanFinished, PlannerCompletesStep, PlannerFailsStep, PlannerRaises, PlannerCallsTool,
        DispatchCall, DispatchBlocked, StopRun, ExecutorSucceeds, ExecutorRaises, ExecutorFails,
        ContainError, Finished
  <2>. DEFINE done == StepEvent(IF outcome.status = "completed" THEN "step_completed" ELSE "step_failed")
  <2>2. Record(<<done>>)
    BY <2>1 DEF FinishStep
  <2>3. done.type = IF outcome.status = "completed" THEN "step_completed" ELSE "step_failed"
    BY DEF StepEvent, EventOf
  <2>. HIDE DEF done
  <2>4. \A action \in LLM!Action : Awaited(action) => done.type \in OutcomesOf(action)
    BY <1>8, <2>3 DEF Awaited, OutcomesOf, LLM!Action
  <2>. QED
    BY <1>2, <2>2, <2>3, <2>4
<1>. QED
  BY <1>4, <1>5, <1>6, <1>7, <1>8

\* What the trace and the runtime do for the decisions of the run in a step of the loop.
LEMMA DecisionsStep ==
  ASSUME RunsInv, RepairInv, PlanInv, [AgentNext]_agentVars, NEW e, Returns(e) \/ Rejects(e) \/ TracesNothing
  PROVE  \/ Returns(e)
         \/ NextRun /\ Decisions' = {} /\ DecisionEvents' = {}
         \/ /\ Decisions' = Decisions /\ \A d \in Decisions : trace'[d] = trace[d]
            /\ run' = run /\ [Next]_vars /\ (pc # "deciding" \/ PlannerRaises \/ UNCHANGED vars)
<1>0. Len(trace) \in Nat /\ run \in 1..Len(Skeletons)
  BY DEF RepairInv, RunsInv
<1>1. CASE Rejects(e)
  <2>1. PICK n \in Nat : n = Len(trace)
    BY <1>0
  <2>2. /\ Len(trace') = n + 1 /\ trace'[n + 1] = e /\ \A d \in 1..n : trace'[d] = trace[d]
        /\ run' = run /\ e.status = "rejected" /\ (UNCHANGED vars \/ PlannerRaises)
    BY <1>1, <2>1 DEF Rejects, Entered
  <2>3. Decisions' = Decisions
    <3>1. Decisions' = {d \in 1..(n + 1) : trace'[d].step \in RunSteps /\ trace'[d].status # "rejected"}
      BY <2>2 DEF Decisions, RunSteps
    <3>2. \A d \in 1..(n + 1) :
            d \in Decisions <=> (trace'[d].step \in RunSteps /\ trace'[d].status # "rejected")
      BY <2>1, <2>2 DEF Decisions
    <3>3. Decisions \subseteq 1..(n + 1)
      BY <2>1 DEF Decisions
    <3>. QED
      BY <3>1, <3>2, <3>3
  <2>. QED
    BY <2>1, <2>2, <2>3 DEF Decisions, Next
<1>2. CASE TracesNothing /\ NextRun
  <2>1. /\ run' = run + 1 /\ run < Len(Skeletons) /\ trace' = trace /\ trajectory' = <<>>
    BY <1>2 DEF NextRun, plannerVars
  <2>2. \A d \in 1..Len(trace) : trace[d].step \notin StepsOf(run + 1)
    <3>. SUFFICES ASSUME NEW d \in 1..Len(trace) PROVE trace[d].step \notin StepsOf(run + 1)
      OBVIOUS
    <3>1. PICK r \in 1..run : trace[d].step \in StepsOf(r)
      BY DEF PlanInv
    <3>2. r \in 1..Len(Skeletons) /\ run + 1 \in 1..Len(Skeletons) /\ r # run + 1
      BY <1>0, <2>1, SkeletonAssumption
    <3>. QED
      BY <3>1, <3>2, OtherRunsSteps
  <2>3. Decisions' = {}
    BY <2>1, <2>2 DEF Decisions, RunSteps, StepsOf
  <2>4. DecisionEvents' = {}
    BY <2>1 DEF DecisionEvents
  <2>. QED
    BY <1>2, <2>3, <2>4
<1>3. CASE TracesNothing /\ ~NextRun
  <2>1. run' = run /\ trace' = trace /\ (pc # "deciding" \/ PlannerRaises \/ UNCHANGED vars)
    BY <1>3 DEF TracesNothing, RuntimeActs, agentVars
  <2>2. [Next]_vars
    <3>1. CASE RuntimeActs
      <4>1. Skeletons[run] \in Plan
        BY <1>0, SkeletonAssumption, ElementOfSeq
      <4>. QED
        BY <3>1, <4>1 DEF RuntimeActs, Next
    <3>. QED
      BY <1>3, <3>1 DEF TracesNothing, agentVars, Next
  <2>. QED
    BY <2>1, <2>2 DEF Decisions, RunSteps
<1>. QED
  BY <1>1, <1>2, <1>3

\* The decisions the runtime recorded are, in order and step by step, those the planner
\* returned, and what follows each of them is what it asked for.
LEMMA MatchStep == RunsInv /\ RepairInv /\ PlanInv /\ MatchInv /\ [AgentNext]_agentVars => MatchInv'
<1>. SUFFICES ASSUME RunsInv, RepairInv, PlanInv, MatchInv, [AgentNext]_agentVars PROVE MatchInv'
  OBVIOUS
<1>0. Len(trajectory) \in Nat
  BY DEF RunsInv, TypeInv, TypeOK
<1>1. PICK e : Returns(e) \/ Rejects(e) \/ TracesNothing
  BY TraceStep
<1>2. CASE Returns(e)
  BY <1>2, MatchGrows
<1>3. CASE Decisions' = {} /\ DecisionEvents' = {}
  BY <1>3 DEF MatchInv
<1>4. CASE /\ Decisions' = Decisions /\ \A d \in Decisions : trace'[d] = trace[d]
           /\ [Next]_vars /\ (pc # "deciding" \/ PlannerRaises \/ UNCHANGED vars)
  <2>1. PICK k \in Nat :
          /\ Extended(k)
          /\ \A i \in (Len(trajectory) + 1)..(Len(trajectory) + k) :
               trajectory'[i].type # "planner_decision"
          /\ Pursues(k)
    BY <1>4, RuntimePursues
  <2>. QED
    BY <1>0, <1>4, <2>1, MatchKept
<1>. QED
  BY <1>1, <1>2, <1>3, <1>4, DecisionsStep

\* Before the first request nothing is decided.
LEMMA InitMatch == AgentInit => MatchInv
<1>. SUFFICES ASSUME AgentInit PROVE MatchInv
  OBVIOUS
<1>1. Decisions = {} /\ DecisionEvents = {}
  BY DEF AgentInit, Init, LLM!PlannerInit, Decisions, DecisionEvents
<1>. QED
  BY <1>1 DEF MatchInv

\* Trajectory and trace tell one story of the decisions of a run, also when the planner
\* has served other runs before.
THEOREM DecisionsMatch == AgentSpec => []DecisionsMatchTrajectory
<1>1. MatchInv => DecisionsMatchTrajectory
  BY DEF MatchInv, DecisionsMatchTrajectory
<1>. QED
  BY <1>1, InitRepair, RepairStep, RunsCorrect, InitPlan, PlanStep, InitMatch, MatchStep, PTL DEF AgentSpec

-----------------------------------------------------------------------------
(* The calls of decisions                                                  *)

NoRetry == \A i \in 1..Len(trajectory) : trajectory[i].type # "retry_scheduled"

\* The entries up to d that ask for a call of a step, and the calls up to c it made.
ChosenUpTo(entries, d, step) == {e \in 1..d : entries[e].selected /\ entries[e].step = step}
CalledUpTo(calls, c, step) == {b \in 1..c : calls[b].step = step}

Chosen(step) == Cardinality(ChosenUpTo(trace, Len(trace), step))
Made(step) == Cardinality(CalledUpTo(state.toolCalls, LastCall, step))

\* Event i creates call c.
Creates(i, c) == trajectory[i].type = "tool_call_created" /\ trajectory[i].call = c

\* Call c was made because of decision d, and both have the same number in their step.
Asks(d, c) ==
  /\ trace[d].selected /\ state.toolCalls[c].step = trace[d].step
  /\ Cardinality(ChosenUpTo(trace, d, trace[d].step)) =
       Cardinality(CalledUpTo(state.toolCalls, c, trace[d].step))
  /\ \A i \in EventIndex :
       Creates(i, c) => Before(Decisions, d) + 1 = Before(DecisionEvents, i)

Asked(d) == \E c \in CallIndex : Asks(d, c)

\* No decision waits for its call; or one does; or the run goes on to its end.
Even ==
  \/ pc \in {"starting", "planning", "iterating", "deciding", "executing"}
  \/ pc = "finishing" /\ outcome.stopReason = None
Pending == pc = "dispatching"
Over == ~Even /\ ~Pending

\* Every decision for a call has its call and every step as many of both; but the entry
\* traced last still waits for its call while the runtime dispatches; and a decision
\* without a call is the last of a step that makes no more.
AllAsked ==
  /\ \A d \in Decisions : trace[d].selected => Asked(d)
  /\ \A step \in RunSteps : Chosen(step) = Made(step)
LastWaits ==
  /\ Len(trace) \in Decisions /\ trace[Len(trace)].selected
  /\ trace[Len(trace)].step = state.currentStep
  /\ Before(Decisions, Len(trace)) + 1 = Cardinality(DecisionEvents)
  /\ \A d \in Decisions : trace[d].selected /\ d # Len(trace) => Asked(d)
  /\ \A step \in RunSteps :
       Chosen(step) = Made(step) + (IF step = state.currentStep THEN 1 ELSE 0)
RestUnasked ==
  \A d \in Decisions :
    trace[d].selected =>
      Asked(d) \/ Cardinality(ChosenUpTo(trace, d, trace[d].step)) > Made(trace[d].step)

NamesBody ==
  /\ \A c \in CallIndex : \E d \in Decisions : Asks(d, c)
  /\ Even => AllAsked
  /\ Pending => LastWaits
  /\ Over => RestUnasked

NamesInv ==
  /\ \A d \in 1..Len(trace) : trace[d].selected => trace[d].status # "rejected"
  /\ \A i \in EventIndex :
       trajectory[i].type = "tool_call_created" => trajectory[i].call \in CallIndex
  /\ NoRetry => NamesBody

\* The counts are of finitely many, depend on the steps and selections alone, and grow
\* by what is new.
LEMMA CountsFinite ==
  ASSUME NEW n \in Nat, NEW t, NEW step
  PROVE  /\ ChosenUpTo(t, n, step) \subseteq 1..n /\ Cardinality(ChosenUpTo(t, n, step)) \in Nat
         /\ CalledUpTo(t, n, step) \subseteq 1..n /\ Cardinality(CalledUpTo(t, n, step)) \in Nat
<1>1. IsFiniteSet(1..n) /\ ChosenUpTo(t, n, step) \in SUBSET (1..n)
      /\ CalledUpTo(t, n, step) \in SUBSET (1..n)
  BY FS_Interval DEF ChosenUpTo, CalledUpTo
<1>. QED
  BY <1>1, FS_Subset, FS_CardinalityType

LEMMA CountsStay ==
  ASSUME NEW n, NEW t, NEW u, NEW step
  PROVE  /\ (\A e \in 1..n : (u[e].selected <=> t[e].selected) /\ u[e].step = t[e].step) =>
              ChosenUpTo(u, n, step) = ChosenUpTo(t, n, step)
         /\ (\A b \in 1..n : u[b].step = t[b].step) =>
              CalledUpTo(u, n, step) = CalledUpTo(t, n, step)
  BY DEF ChosenUpTo, CalledUpTo

LEMMA CountsGrow ==
  ASSUME NEW n \in Nat, NEW t, NEW step
  PROVE  /\ Cardinality(ChosenUpTo(t, n + 1, step)) =
              Cardinality(ChosenUpTo(t, n, step)) +
                (IF t[n + 1].selected /\ t[n + 1].step = step THEN 1 ELSE 0)
         /\ Cardinality(CalledUpTo(t, n + 1, step)) =
              Cardinality(CalledUpTo(t, n, step)) + (IF t[n + 1].step = step THEN 1 ELSE 0)
<1>1. \A i : i \in 1..(n + 1) <=> i \in 1..n \/ i = n + 1
  OBVIOUS
<1>2. ChosenUpTo(t, n + 1, step) =
        ChosenUpTo(t, n, step) \cup (IF t[n + 1].selected /\ t[n + 1].step = step THEN {n + 1} ELSE {})
  BY <1>1 DEF ChosenUpTo
<1>3. CalledUpTo(t, n + 1, step) =
        CalledUpTo(t, n, step) \cup (IF t[n + 1].step = step THEN {n + 1} ELSE {})
  BY <1>1 DEF CalledUpTo
<1>4. Cardinality(ChosenUpTo(t, n + 1, step)) =
        Cardinality(ChosenUpTo(t, n, step)) +
          (IF t[n + 1].selected /\ t[n + 1].step = step THEN 1 ELSE 0)
  <2>1. CASE t[n + 1].selected /\ t[n + 1].step = step
    <3>. PICK S : S = ChosenUpTo(t, n, step)
      OBVIOUS
    <3>1. ChosenUpTo(t, n + 1, step) = S \cup {n + 1} /\ S \subseteq 1..n
      BY <1>2, <2>1, CountsFinite
    <3>2. Cardinality(S \cup {n + 1}) = Cardinality(S) + 1
      BY <3>1, BeforeBounds
    <3>. QED
      BY <2>1, <3>1, <3>2
  <2>2. CASE ~(t[n + 1].selected /\ t[n + 1].step = step)
    <3>1. ChosenUpTo(t, n + 1, step) = ChosenUpTo(t, n, step)
      BY <1>2, <2>2
    <3>. QED
      BY <2>2, <3>1, CountsFinite
  <2>. QED
    BY <2>1, <2>2
<1>5. Cardinality(CalledUpTo(t, n + 1, step)) =
        Cardinality(CalledUpTo(t, n, step)) + (IF t[n + 1].step = step THEN 1 ELSE 0)
  <2>1. CASE t[n + 1].step = step
    <3>. PICK S : S = CalledUpTo(t, n, step)
      OBVIOUS
    <3>1. CalledUpTo(t, n + 1, step) = S \cup {n + 1} /\ S \subseteq 1..n
      BY <1>3, <2>1, CountsFinite
    <3>2. Cardinality(S \cup {n + 1}) = Cardinality(S) + 1
      BY <3>1, BeforeBounds
    <3>. QED
      BY <2>1, <3>1, <3>2
  <2>2. CASE t[n + 1].step # step
    <3>1. CalledUpTo(t, n + 1, step) = CalledUpTo(t, n, step)
      BY <1>3, <2>2
    <3>. QED
      BY <2>2, <3>1, CountsFinite
  <2>. QED
    BY <2>1, <2>2
<1>. QED
  BY <1>4, <1>5

\* The pairing finds the call of a step by its number.
LEMMA NthCallFound ==
  ASSUME NEW calls, Len(calls) \in Nat, NEW c \in 1..Len(calls), NEW step, calls[c].step = step,
         NEW n, n = Cardinality(CalledUpTo(calls, c, step))
  PROVE  NthCall(calls, step, n) = c
<1>. DEFINE ofStep == {b \in 1..Len(calls) : calls[b].step = step}
            UpTo(x) == {b \in ofStep : b <= x}
            hit == {x \in ofStep : Cardinality(UpTo(x)) = n}
<1>1. IsFiniteSet(ofStep) /\ c \in ofStep
  <2>1. IsFiniteSet(1..Len(calls)) /\ ofStep \in SUBSET (1..Len(calls))
    BY FS_Interval
  <2>. QED
    BY <2>1, FS_Subset
<1>2. UpTo(c) = CalledUpTo(calls, c, step)
  BY DEF CalledUpTo
<1>3. c \in hit
  BY <1>1, <1>2
<1>4. ASSUME NEW x \in ofStep, NEW y \in ofStep, x < y
      PROVE  Cardinality(UpTo(x)) # Cardinality(UpTo(y))
  <2>1. UpTo(y) \in SUBSET ofStep /\ UpTo(x) \in SUBSET UpTo(y) /\ UpTo(x) # UpTo(y)
    <3>1. UpTo(y) \in SUBSET ofStep
      OBVIOUS
    <3>2. \A b \in ofStep : b <= x => b <= y
      BY <1>4
    <3>3. y \in UpTo(y) /\ y \notin UpTo(x)
      BY <1>4
    <3>. QED
      BY <3>1, <3>2, <3>3
  <2>2. IsFiniteSet(UpTo(y))
    BY <1>1, <2>1, FS_Subset
  <2>. HIDE DEF UpTo
  <2>3. Cardinality(UpTo(x)) = Cardinality(UpTo(y)) => UpTo(x) = UpTo(y)
    BY <2>1, <2>2, FS_Subset
  <2>. QED
    BY <2>1, <2>3
<1>5. \A x \in hit : x = c
  <2>. SUFFICES ASSUME NEW x \in hit PROVE x = c
    OBVIOUS
  <2>1. x \in ofStep /\ Cardinality(UpTo(x)) = Cardinality(UpTo(c))
    BY <1>3
  <2>2. x \in Nat /\ c \in Nat
    OBVIOUS
  <2>. HIDE DEF UpTo, hit
  <2>3. ~(x < c) /\ ~(c < x)
    BY <1>1, <1>4, <2>1
  <2>. QED
    BY <2>2, <2>3
<1>6. NthCall(calls, step, n) = IF hit = {} THEN 0 ELSE CHOOSE x \in hit : TRUE
  BY DEF NthCall
<1>. HIDE DEF hit
<1>. QED
  BY <1>3, <1>5, <1>6

\* It finds none when the step made fewer.
LEMMA NthCallMissing ==
  ASSUME NEW calls, Len(calls) \in Nat, NEW step, NEW n,
         \/ CalledUpTo(calls, Len(calls), step) = {}
         \/ n \in Nat /\ n > Cardinality(CalledUpTo(calls, Len(calls), step))
  PROVE  NthCall(calls, step, n) = 0
<1>. DEFINE ofStep == {b \in 1..Len(calls) : calls[b].step = step}
            UpTo(x) == {b \in ofStep : b <= x}
            hit == {x \in ofStep : Cardinality(UpTo(x)) = n}
<1>0. CalledUpTo(calls, Len(calls), step) = ofStep
  BY DEF CalledUpTo
<1>1. IsFiniteSet(ofStep)
  <2>1. IsFiniteSet(1..Len(calls)) /\ ofStep \in SUBSET (1..Len(calls))
    BY FS_Interval
  <2>. QED
    BY <2>1, FS_Subset
<1>2. \A x \in ofStep : Cardinality(UpTo(x)) <= Cardinality(ofStep) /\ Cardinality(UpTo(x)) \in Nat
  <2>. SUFFICES ASSUME NEW x \in ofStep
                PROVE  Cardinality(UpTo(x)) <= Cardinality(ofStep) /\ Cardinality(UpTo(x)) \in Nat
    OBVIOUS
  <2>1. UpTo(x) \in SUBSET ofStep
    OBVIOUS
  <2>2. IsFiniteSet(UpTo(x)) /\ Cardinality(UpTo(x)) <= Cardinality(ofStep)
    BY <1>1, <2>1, FS_Subset
  <2>. QED
    BY <2>2, FS_CardinalityType
<1>3. Cardinality(ofStep) \in Nat
  BY <1>1, FS_CardinalityType
<1>4. hit = {}
  <2>1. CASE ofStep = {}
    BY <2>1
  <2>2. CASE n \in Nat /\ n > Cardinality(ofStep)
    <3>1. \A x \in ofStep : Cardinality(UpTo(x)) # n
      <4>. HIDE DEF UpTo, ofStep
      <4>. QED
        BY <1>2, <1>3, <2>2
    <3>. QED
      BY <3>1
  <2>. QED
    BY <1>0, <2>1, <2>2
<1>5. NthCall(calls, step, n) = IF hit = {} THEN 0 ELSE CHOOSE x \in hit : TRUE
  BY DEF NthCall
<1>. HIDE DEF hit
<1>. QED
  BY <1>4, <1>5

\* What the pairs say of the correlated trace.
LEMMA NamesHold ==
  ASSUME RunsInv, RepairInv, PlanInv, NamesInv
  PROVE  CallsNamedWithoutRetries
<1>0. /\ Len(state.toolCalls) \in Nat /\ Len(trace) \in Nat
  BY DEF RunsInv, TypeInv, TypeOK, RuntimeState, RepairInv
<1>. DEFINE named == Correlate(trace, state.toolCalls)
<1>. SUFFICES ASSUME NoRetry, NEW i \in 1..Len(trajectory), trajectory[i].type = "tool_call_created",
                     NEW d \in 1..Len(trace)
              PROVE  named[d] = trajectory[i].call <=> DecidedBy(i, d)
  BY DEF CallsNamedWithoutRetries, NoRetry
<1>1. PICK c : c = trajectory[i].call
  OBVIOUS
<1>2. c \in CallIndex /\ c # 0 /\ NamesBody
  BY <1>0, <1>1 DEF NamesInv, EventIndex, CallIndex
<1>3. named[d] = IF trace[d].selected THEN NthCall(state.toolCalls, trace[d].step, Rank(trace, d)) ELSE 0
  BY DEF Correlate
<1>4. ASSUME NEW b \in CallIndex, Asks(d, b) PROVE named[d] = b
  <2>1. /\ state.toolCalls[b].step = trace[d].step /\ trace[d].selected
        /\ Rank(trace, d) = Cardinality(CalledUpTo(state.toolCalls, b, trace[d].step))
    BY <1>4 DEF Asks, Rank, ChosenUpTo
  <2>2. NthCall(state.toolCalls, trace[d].step, Rank(trace, d)) = b
    <3>1. b \in 1..Len(state.toolCalls)
      BY DEF CallIndex
    <3>. QED
      BY <1>0, <2>1, <3>1, NthCallFound
  <2>. QED
    BY <1>3, <2>1, <2>2
<1>. HIDE DEF named
<1>5. ASSUME named[d] = c PROVE DecidedBy(i, d)
  <2>1. trace[d].selected /\ NthCall(state.toolCalls, trace[d].step, Rank(trace, d)) = c
    BY <1>2, <1>3, <1>5
  <2>2. trace[d].step \in RunSteps
    <3>1. SUFFICES ASSUME trace[d].step \notin RunSteps PROVE FALSE
      OBVIOUS
    <3>2. CalledUpTo(state.toolCalls, Len(state.toolCalls), trace[d].step) = {}
      BY <3>1 DEF PlanInv, CallIndex, CalledUpTo
    <3>. QED
      BY <1>0, <1>2, <2>1, <3>2, NthCallMissing
  <2>3. d \in Decisions
    BY <2>1, <2>2 DEF NamesInv, Decisions
  <2>4. CASE Asked(d)
    <3>1. PICK b \in CallIndex : Asks(d, b)
      BY <2>4 DEF Asked
    <3>2. b = c
      BY <1>4, <1>5, <3>1
    <3>. QED
      BY <1>1, <2>3, <3>1, <3>2 DEF Asks, DecidedBy, EventIndex, Creates
  <2>5. CASE Rank(trace, d) > Made(trace[d].step)
    <3>1. Rank(trace, d) \in Nat
      <4>1. d \in Nat /\ Rank(trace, d) = Cardinality(ChosenUpTo(trace, d, trace[d].step))
        BY DEF Rank, ChosenUpTo
      <4>. QED
        BY <4>1, CountsFinite
    <3>2. Rank(trace, d) > Cardinality(CalledUpTo(state.toolCalls, Len(state.toolCalls), trace[d].step))
      BY <2>5 DEF Made, LastCall
    <3>3. NthCall(state.toolCalls, trace[d].step, Rank(trace, d)) = 0
      BY <1>0, <3>1, <3>2, NthCallMissing
    <3>. QED
      BY <1>2, <2>1, <3>3
  <2>6. Rank(trace, d) = Cardinality(ChosenUpTo(trace, d, trace[d].step))
    BY DEF Rank, ChosenUpTo
  <2>7. CASE Pending /\ d = Len(trace)
    <3>1. Made(state.currentStep) \in Nat /\ Chosen(state.currentStep) = Made(state.currentStep) + 1
          /\ trace[d].step = state.currentStep /\ state.currentStep \in RunSteps
      <4>1. Made(state.currentStep) \in Nat
        BY <1>0, CountsFinite DEF Made, LastCall
      <4>. QED
        BY <1>2, <2>2, <2>7, <4>1 DEF NamesBody, LastWaits
    <3>2. Rank(trace, d) > Made(trace[d].step)
      BY <2>6, <2>7, <3>1 DEF Chosen
    <3>. QED
      BY <2>5, <3>2
  <2>. QED
    BY <1>2, <2>1, <2>3, <2>4, <2>5, <2>6, <2>7 DEF NamesBody, AllAsked, LastWaits, RestUnasked, Over
<1>6. ASSUME DecidedBy(i, d) PROVE named[d] = c
  <2>1. d \in Decisions /\ Before(Decisions, d) + 1 = Before(DecisionEvents, i)
    BY <1>6 DEF DecidedBy
  <2>2. PICK a \in Decisions : Asks(a, c)
    BY <1>2 DEF NamesBody
  <2>3. Before(Decisions, a) + 1 = Before(DecisionEvents, i)
    BY <1>1, <2>2 DEF Asks, EventIndex, Creates
  <2>4. Decisions \subseteq 1..Len(trace)
    BY DEF Decisions
  <2>5. Before(Decisions, a) \in Nat /\ Before(Decisions, d) \in Nat
    BY <1>0, <2>1, <2>2, <2>4, BeforeBounds
  <2>6. Before(Decisions, a) = Before(Decisions, d)
    BY <2>1, <2>3, <2>5
  <2>7. a = d
    <3>. PICK n \in Nat : n = Len(trace)
      BY <1>0
    <3>1. Decisions \subseteq 1..n
      BY <2>4
    <3>. HIDE DEF Decisions
    <3>. QED
      BY <2>1, <2>2, <2>6, <3>1, BeforeTells
  <2>. QED
    BY <1>2, <1>4, <2>2, <2>7
<1>. QED
  BY <1>1, <1>5, <1>6 DEF named


\* A call keeps its decision while the trace, the calls and the trajectory grow.
LEMMA AsksStays ==
  ASSUME Len(trace) \in Nat, Len(trajectory) \in Nat, LastCall \in Nat,
         NEW k \in Nat, Extended(k),
         \A e \in 1..Len(trace) : trace'[e] = trace[e],
         \A b \in CallIndex : state'.toolCalls[b].step = state.toolCalls[b].step,
         NEW D, Decisions' = D, Decisions \subseteq D,
         \A x \in D : x \in Decisions \/ (x \in Nat /\ x > Len(trace)),
         NEW E, DecisionEvents' = E, DecisionEvents \subseteq E,
         \A x \in E : x \in DecisionEvents \/ (x \in Nat /\ x > Len(trajectory)),
         NEW d \in Decisions, NEW c \in CallIndex, Asks(d, c),
         \A i \in (Len(trajectory) + 1)..(Len(trajectory) + k) : ~Creates(i, c)'
  PROVE  Asks(d, c)'
<1>1. PICK n \in Nat, m \in Nat : n = Len(trace) /\ m = Len(trajectory)
  OBVIOUS
<1>2. /\ d \in 1..n /\ Decisions \subseteq 1..n /\ DecisionEvents \subseteq 1..m
      /\ trace'[d] = trace[d] /\ c \in 1..LastCall
  BY <1>1 DEF Decisions, DecisionEvents, CallIndex, LastCall
<1>3. ChosenUpTo(trace', d, trace[d].step) = ChosenUpTo(trace, d, trace[d].step)
  <2>1. \A e \in 1..d : e \in 1..n
    BY <1>2
  <2>2. \A e \in 1..d : (trace'[e].selected <=> trace[e].selected) /\ trace'[e].step = trace[e].step
    BY <1>1, <2>1
  <2>. QED
    BY <2>2 DEF ChosenUpTo
<1>4. CalledUpTo(state'.toolCalls, c, trace[d].step) = CalledUpTo(state.toolCalls, c, trace[d].step)
  <2>1. \A b \in 1..c : b \in CallIndex
    BY <1>2 DEF CallIndex, LastCall
  <2>. QED
    BY <2>1, CountsStay
<1>5. ASSUME NEW i \in 1..(m + k), Creates(i, c)'
      PROVE  Before(D, d) + 1 = Before(E, i)
  <2>1. i \in 1..m
    BY <1>1, <1>5
  <2>2. Creates(i, c)
    BY <1>1, <1>5, <2>1 DEF Creates, Extended
  <2>3. Before(Decisions, d) + 1 = Before(DecisionEvents, i)
    BY <1>1, <2>1, <2>2 DEF Asks, EventIndex
  <2>4. Before(D, d) = Before(Decisions, d)
    <3>. PICK S : S = Decisions
      OBVIOUS
    <3>1. /\ n \in Nat /\ d \in 1..(n + 1) /\ S \subseteq 1..n /\ S \subseteq D
          /\ \A y \in D : y \in S \/ (y \in Nat /\ y > n)
      BY <1>1, <1>2
    <3>2. \A y \in D : y \in S \/ ~(y < d)
      BY <3>1
    <3>3. {y \in D : y < d} = {y \in S : y < d}
      BY <3>1, <3>2
    <3>. QED
      BY <3>3 DEF Before
  <2>5. Before(E, i) = Before(DecisionEvents, i)
    <3>. PICK S : S = DecisionEvents
      OBVIOUS
    <3>1. /\ m \in Nat /\ i \in 1..(m + 1) /\ S \subseteq 1..m /\ S \subseteq E
          /\ \A y \in E : y \in S \/ (y \in Nat /\ y > m)
      BY <1>1, <1>2, <2>1
    <3>2. \A y \in E : y \in S \/ ~(y < i)
      BY <3>1
    <3>3. {y \in E : y < i} = {y \in S : y < i}
      BY <3>1, <3>2
    <3>. QED
      BY <3>3 DEF Before
  <2>. QED
    BY <2>3, <2>4, <2>5
<1>6. \A i \in EventIndex' : Creates(i, c)' => Before(D, d) + 1 = Before(E, i)
  <2>1. EventIndex' = 1..(m + k)
    BY <1>1 DEF Extended, EventIndex
  <2>. QED
    BY <1>5, <2>1
<1>. QED
  BY <1>2, <1>3, <1>4, <1>6 DEF Asks, CallIndex, LastCall

\* What a step does that returns no decision and makes no call: k events are recorded,
\* nothing is chosen, made or waited for that was not before.
AsksNothing(k) ==
  /\ Extended(k)
  /\ \A i \in (Len(trajectory) + 1)..(Len(trajectory) + k) :
       trajectory'[i].type \notin {"planner_decision", "tool_call_created"}
  /\ LastCall' = LastCall
  /\ \A c \in CallIndex : state'.toolCalls[c].step = state.toolCalls[c].step
  /\ run' = run /\ Decisions' = Decisions
  /\ \A d \in 1..Len(trace) : trace'[d] = trace[d]
  /\ \/ Len(trace') = Len(trace)
     \/ Len(trace') = Len(trace) + 1 /\ ~trace'[Len(trace) + 1].selected
  /\ NoRetry' /\ Even => ~Pending'
  /\ Pending =>
       \/ Over'
       \/ Pending' /\ Len(trace') = Len(trace) /\ state'.currentStep = state.currentStep
  /\ Over => Over'

LEMMA NamesKept ==
  ASSUME RunsInv, RepairInv, NamesInv, NEW k \in Nat, AsksNothing(k)
  PROVE  NamesInv'
<1>0. Len(trace) \in Nat /\ Len(trajectory) \in Nat /\ LastCall \in Nat
  BY DEF RunsInv, TypeInv, TypeOK, RuntimeState, RepairInv, LastCall
<1>1. PICK n \in Nat, m \in Nat, q \in Nat : n = Len(trace) /\ m = Len(trajectory) /\ q = LastCall
  BY <1>0
<1>2. /\ Len(trajectory') = m + k /\ \A i \in 1..m : trajectory'[i] = trajectory[i]
      /\ \A i \in (m + 1)..(m + k) : trajectory'[i].type \notin {"planner_decision", "tool_call_created"}
      /\ CallIndex = 1..q /\ CallIndex' = 1..q /\ EventIndex = 1..m /\ EventIndex' = 1..(m + k)
  BY <1>1 DEF AsksNothing, Extended, CallIndex, EventIndex, LastCall
<1>3. \A i \in 1..(m + k) : i \in 1..m \/ i \in (m + 1)..(m + k)
  OBVIOUS
<1>4. \A d \in 1..Len(trace') : trace'[d].selected => trace'[d].status # "rejected"
  <2>1. \A d \in 1..n : trace'[d].selected => trace'[d].status # "rejected"
    BY <1>1 DEF AsksNothing, NamesInv
  <2>2. \A d \in 1..Len(trace') : trace'[d].selected => d \in 1..n
    BY <1>1 DEF AsksNothing
  <2>. QED
    BY <2>1, <2>2
<1>5. \A i \in EventIndex' :
        trajectory'[i].type = "tool_call_created" => trajectory'[i].call \in CallIndex'
  BY <1>2, <1>3 DEF NamesInv
<1>6. ASSUME NoRetry' PROVE NamesBody'
  <2>1. NoRetry
    BY <1>1, <1>2, <1>6 DEF NoRetry
  <2>2. NamesBody
    BY <2>1 DEF NamesInv
  <2>3. PICK D, E : D = Decisions /\ E = DecisionEvents
    OBVIOUS
  <2>4. Decisions' = D /\ DecisionEvents' = E
    BY <1>0, <2>3, EventsKept DEF AsksNothing
  <2>5. ASSUME NEW d \in D, NEW c \in 1..q, Asks(d, c)
        PROVE  Asks(d, c)'
    <3>1. \A i \in (Len(trajectory) + 1)..(Len(trajectory) + k) : ~Creates(i, c)'
      BY DEF AsksNothing, Creates
    <3>2. d \in Decisions /\ c \in CallIndex
      BY <1>2, <2>3
    <3>. QED
      BY <1>0, <2>3, <2>4, <2>5, <3>1, <3>2, AsksStays DEF AsksNothing
  <2>6. \A d \in D : d \in 1..n /\ trace'[d] = trace[d]
    BY <1>1, <2>3 DEF Decisions, AsksNothing
  <2>7. \A d \in D : Asked(d) => Asked(d)'
    BY <1>2, <2>5 DEF Asked
  <2>8. \A c \in CallIndex' : \E d \in Decisions' : Asks(d, c)'
    BY <1>2, <2>2, <2>3, <2>4, <2>5 DEF NamesBody
  <2>9. \A step : Chosen(step)' = Chosen(step) /\ Made(step)' = Made(step)
    <3>. SUFFICES ASSUME NEW step PROVE Chosen(step)' = Chosen(step) /\ Made(step)' = Made(step)
      OBVIOUS
    <3>1. ChosenUpTo(trace', n, step) = ChosenUpTo(trace, n, step)
      BY <1>1 DEF AsksNothing, ChosenUpTo
    <3>2. Cardinality(ChosenUpTo(trace', Len(trace'), step)) = Cardinality(ChosenUpTo(trace, n, step))
      <4>1. CASE Len(trace') = n
        BY <3>1, <4>1
      <4>2. CASE Len(trace') = n + 1 /\ ~trace'[n + 1].selected
        <5>1. Cardinality(ChosenUpTo(trace', n + 1, step)) = Cardinality(ChosenUpTo(trace', n, step)) + 0
          BY <1>1, <4>2, CountsGrow
        <5>2. Cardinality(ChosenUpTo(trace, n, step)) \in Nat
          BY <1>1, CountsFinite
        <5>. QED
          BY <3>1, <4>2, <5>1, <5>2
      <4>. QED
        BY <1>1, <4>1, <4>2 DEF AsksNothing
    <3>3. CalledUpTo(state'.toolCalls, q, step) = CalledUpTo(state.toolCalls, q, step)
      BY <1>2, CountsStay DEF AsksNothing
    <3>. QED
      BY <1>1, <3>2, <3>3 DEF Chosen, Made, AsksNothing
  <2>10. RunSteps' = RunSteps
    BY DEF RunSteps, AsksNothing
  <2>11. ASSUME Even' PROVE AllAsked'
    <3>1. Even
      BY <2>11 DEF AsksNothing, Over, Pending, Even
    <3>2. AllAsked
      BY <2>2, <3>1 DEF NamesBody
    <3>. QED
      BY <2>3, <2>4, <2>6, <2>7, <2>9, <2>10, <3>2 DEF AllAsked
  <2>12. ASSUME Pending' PROVE LastWaits'
    <3>1. Pending /\ Len(trace') = Len(trace) /\ state'.currentStep = state.currentStep
      BY <1>6, <2>12 DEF AsksNothing, Over, Pending, Even
    <3>2. LastWaits
      BY <2>2, <3>1 DEF NamesBody
    <3>. QED
      BY <2>3, <2>4, <2>6, <2>7, <2>9, <2>10, <3>1, <3>2 DEF LastWaits
  <2>13. ASSUME Over' PROVE RestUnasked'
    <3>1. \A d \in D : trace[d].selected =>
            Asked(d) \/ Cardinality(ChosenUpTo(trace, d, trace[d].step)) > Made(trace[d].step)
      <4>1. CASE Even
        BY <2>2, <2>3, <4>1 DEF NamesBody, AllAsked
      <4>2. CASE Pending
        <5>1. LastWaits
          BY <2>2, <4>2 DEF NamesBody
        <5>2. trace[n].step = state.currentStep /\ state.currentStep \in RunSteps
          BY <1>1, <5>1 DEF LastWaits, Decisions
        <5>3. Cardinality(ChosenUpTo(trace, n, trace[n].step)) = Made(trace[n].step) + 1
          BY <1>1, <5>1, <5>2 DEF LastWaits, Chosen
        <5>4. Made(trace[n].step) \in Nat
          BY <1>1, CountsFinite DEF Made
        <5>5. Cardinality(ChosenUpTo(trace, n, trace[n].step)) > Made(trace[n].step)
          BY <5>3, <5>4
        <5>. QED
          BY <1>1, <2>3, <5>1, <5>5 DEF LastWaits
      <4>3. CASE Over
        BY <2>2, <2>3, <4>3 DEF NamesBody, RestUnasked
      <4>. QED
        BY <4>1, <4>2, <4>3 DEF Over
    <3>2. \A d \in D : ChosenUpTo(trace', d, trace[d].step) = ChosenUpTo(trace, d, trace[d].step)
      <4>. SUFFICES ASSUME NEW d \in D
                    PROVE  ChosenUpTo(trace', d, trace[d].step) = ChosenUpTo(trace, d, trace[d].step)
        OBVIOUS
      <4>1. \A e \in 1..d : e \in 1..n
        BY <2>6
      <4>. QED
        BY <1>1, <4>1 DEF AsksNothing, ChosenUpTo
    <3>. QED
      BY <2>4, <2>6, <2>7, <2>9, <3>1, <3>2 DEF RestUnasked
  <2>. QED
    BY <2>8, <2>11, <2>12, <2>13 DEF NamesBody
<1>. QED
  BY <1>4, <1>5, <1>6 DEF NamesInv

\* An action of the runtime that makes no call records nothing about decisions and new
\* calls, and does not make the run wait for one.
LEMMA RuntimeAsksNothing ==
  ASSUME RunsInv, [Next]_vars, pc # "deciding" \/ PlannerRaises \/ UNCHANGED vars, ~Opened
  PROVE  /\ \E k \in Nat :
              /\ Extended(k)
              /\ \A i \in (Len(trajectory) + 1)..(Len(trajectory) + k) :
                   trajectory'[i].type \notin {"planner_decision", "tool_call_created"}
         /\ LastCall' = LastCall
         /\ \A c \in CallIndex : state'.toolCalls[c].step = state.toolCalls[c].step
         /\ NoRetry' /\ Even => ~Pending'
         /\ Pending => Over' \/ (Pending' /\ state'.currentStep = state.currentStep)
         /\ Over => Over'
<1>0. /\ TypeInv /\ trajectory \in Seq(Event) /\ Len(trajectory) \in Nat /\ LastCall \in Nat
      /\ outcome \in Outcome /\ pc \in Location
  BY DEF RunsInv, TypeInv, TypeOK, RuntimeState, LastCall
<1>1. LastCall' = LastCall /\ \A c \in CallIndex : state'.toolCalls[c].step = state.toolCalls[c].step
  <2>1. CASE Untold
    BY <2>1 DEF Untold, LastCall
  <2>2. ASSUME NEW st \in {"succeeded", "failed"}, NEW m \in {1, 2}, NEW rs, Told(st, rs, m)
        PROVE  LastCall' = LastCall /\ \A c \in CallIndex : state'.toolCalls[c].step = state.toolCalls[c].step
    <3>1. /\ LastCall' = LastCall
          /\ \A c \in 1..Len(state.toolCalls) :
               state'.toolCalls[c] = IF c = LastCall THEN [step |-> state.toolCalls[c].step, status |-> st]
                                     ELSE state.toolCalls[c]
      BY <1>0, <2>2, ToldEffect
    <3>2. \A c \in 1..Len(state.toolCalls) : state'.toolCalls[c].step = state.toolCalls[c].step
      <4>. SUFFICES ASSUME NEW c \in 1..Len(state.toolCalls)
                    PROVE  state'.toolCalls[c].step = state.toolCalls[c].step
        OBVIOUS
      <4>1. [step |-> state.toolCalls[c].step, status |-> st].step = state.toolCalls[c].step
        OBVIOUS
      <4>. QED
        BY <3>1, <4>1
    <3>. QED
      BY <3>1, <3>2 DEF CallIndex
  <2>. QED
    BY <1>0, <2>1, <2>2, StoryStep
<1>2. ~Dispatched
  BY <1>0, <1>1 DEF Dispatched
<1>3. Silent \/ Retried \/ Other
  <2>1. CASE Decided
    <3>1. Extended(1) /\ pc = "deciding" /\ pc' \in {"finishing", "dispatching"}
      BY <1>0, <2>1, RecordOneEffect DEF Decided, RecordDecision
    <3>2. trajectory' = trajectory
      BY <3>1 DEF PlannerRaises, vars
    <3>. QED
      BY <1>0, <3>1, <3>2 DEF Extended
  <2>. QED
    BY <1>0, <1>2, <2>1, EventStep
<1>4. \E k \in Nat :
        /\ Extended(k)
        /\ \A i \in (Len(trajectory) + 1)..(Len(trajectory) + k) :
             trajectory'[i].type \notin {"planner_decision", "tool_call_created"}
  <2>1. CASE Silent
    <3>1. /\ Extended(0)
          /\ \A i \in (Len(trajectory) + 1)..(Len(trajectory) + 0) :
               trajectory'[i].type \notin {"planner_decision", "tool_call_created"}
      BY <1>0, <2>1 DEF Silent, Extended
    <3>. QED
      BY <3>1
  <2>2. CASE Other
    <3>1. PICK e : Record(<<e>>) /\ e.type \notin {"planner_decision", "tool_call_created"}
      BY <2>2 DEF Other
    <3>2. Extended(1) /\ trajectory'[Len(trajectory) + 1] = e
      BY <1>0, <3>1, RecordOneEffect
    <3>3. \A i \in (Len(trajectory) + 1)..(Len(trajectory) + 1) :
            trajectory'[i].type \notin {"planner_decision", "tool_call_created"}
      BY <1>0, <3>1, <3>2
    <3>. QED
      BY <3>2, <3>3
  <2>3. CASE Retried
    <3>1. PICK e, f : Record(<<e, f>>) /\ e.type = "tool_failed" /\ f.type = "retry_scheduled"
      BY <2>3 DEF Retried
    <3>2. /\ Extended(2) /\ trajectory'[Len(trajectory) + 1] = e
          /\ trajectory'[Len(trajectory) + 2] = f
      BY <1>0, <3>1, RecordTwoEffect
    <3>3. \A i \in (Len(trajectory) + 1)..(Len(trajectory) + 2) :
            trajectory'[i].type \notin {"planner_decision", "tool_call_created"}
      <4>1. \A i \in (Len(trajectory) + 1)..(Len(trajectory) + 2) :
              i = Len(trajectory) + 1 \/ i = Len(trajectory) + 2
        BY <1>0
      <4>. QED
        BY <3>1, <3>2, <4>1
    <3>. QED
      BY <3>2, <3>3
  <2>. QED
    BY <1>3, <2>1, <2>2, <2>3
<1>5. ASSUME NoRetry', Retried PROVE FALSE
  <2>1. PICK e, f : Record(<<e, f>>) /\ f.type = "retry_scheduled"
    BY <1>5 DEF Retried
  <2>2. Extended(2) /\ trajectory'[Len(trajectory) + 2] = f
    BY <1>0, <2>1, RecordTwoEffect
  <2>3. Len(trajectory) + 2 \in 1..Len(trajectory')
    BY <1>0, <2>2 DEF Extended
  <2>. QED
    BY <1>5, <2>1, <2>2, <2>3 DEF NoRetry
<1>6. NoRetry' /\ Even => ~Pending'
  BY <1>3, <1>5 DEF Silent, Other, Even, Pending
<1>7. None \notin BUDGET_STOP_REASONS
  BY NoneAssumption DEF StopReason
<1>8. Pending => Over' \/ (Pending' /\ state'.currentStep = state.currentStep)
  BY <1>3, <1>7 DEF Pending, Over, Even, Silent, Retried, Other
<1>9. Over => Over'
  <2>1. CASE pc = "finishing" /\ ~UNCHANGED vars /\ outcome.stopReason # None
    <3>1. FinishStep
      BY <2>1
      DEF Next, StartRun, PlannerCreatesPlan, PlannerFailsToPlan, StartStep, StepBudgetSpent,
          PlanFinished, PlannerCompletesStep, PlannerFailsStep, PlannerRaises, PlannerCallsTool,
          DispatchCall, DispatchBlocked, StopRun, ExecutorSucceeds, ExecutorRaises, ExecutorFails,
          ContainError, Finished
    <3>2. pc' \in {"stopping", "containing"}
      BY <2>1, <3>1 DEF FinishStep, SaveState
    <3>. QED
      BY <3>2 DEF Over, Even, Pending
  <2>2. CASE UNCHANGED vars
    BY <2>2 DEF vars, Over, Even, Pending
  <2>3. CASE pc \in Late
    <3>1. pc' \in Late \/ UNCHANGED <<pc, outcome>>
      BY <1>3, <2>3 DEF Silent, Retried, Other, Late
    <3>. QED
      BY <3>1 DEF Late, Over, Even, Pending
  <2>4. Over => pc \in Late \/ (pc = "finishing" /\ outcome.stopReason # None)
    BY <1>0 DEF Over, Even, Pending, Late, Location
  <2>. QED
    BY <2>1, <2>2, <2>3, <2>4
<1>. QED
  BY <1>1, <1>4, <1>6, <1>8, <1>9

\* A returned decision for a call is the one that waits.
LEMMA NamesDecided ==
  ASSUME RunsInv, RepairInv, PlanInv, MatchInv, NamesInv, NEW e, Returns(e)
  PROVE  NamesInv'
<1>0. /\ trajectory \in Seq(Event) /\ Len(trajectory) \in Nat /\ Len(trace) \in Nat /\ LastCall \in Nat
      /\ pc = "deciding" /\ e.step = state.currentStep /\ state.currentStep \in RunSteps
  BY CurrentStepPlanned
  DEF RunsInv, TypeInv, TypeOK, RuntimeState, RepairInv, Returns, Entered, PlanInv, InStep, LastCall
<1>1. PICK n \in Nat, m \in Nat, q \in Nat : n = Len(trace) /\ m = Len(trajectory) /\ q = LastCall
  BY <1>0
<1>2. PICK D, E : D = Decisions /\ E = DecisionEvents
  OBVIOUS
<1>3. /\ Len(trace') = n + 1 /\ trace'[n + 1] = e /\ \A d \in 1..n : trace'[d] = trace[d]
      /\ run' = run /\ e.status # "rejected"
      /\ e.selected <=> e.action = "call_tool"
      /\ state' = state
  BY <1>1 DEF Returns, Entered, PlannerCallsTool, PlannerCompletesStep, PlannerFailsStep
<1>4. /\ Extended(1) /\ trajectory'[m + 1].type = "planner_decision"
  <2>1. Record(<<EventOf("planner_decision", state.currentStep, 0, 0)>>)
    BY DEF Returns, PlannerCallsTool, PlannerCompletesStep, PlannerFailsStep, RecordDecision
  <2>2. /\ Extended(1)
        /\ trajectory'[m + 1] = EventOf("planner_decision", state.currentStep, 0, 0)
    BY <1>0, <1>1, <2>1, RecordOneEffect
  <2>. QED
    BY <2>2 DEF EventOf
<1>5. Decisions' = D \cup {n + 1} /\ DecisionEvents' = E \cup {m + 1}
  BY <1>1, <1>2, MatchGrows
<1>6. /\ D \subseteq 1..n /\ E \subseteq 1..m /\ Cardinality(D) = Cardinality(E)
      /\ CallIndex = 1..q /\ CallIndex' = 1..q /\ EventIndex = 1..m /\ EventIndex' = 1..(m + 1)
      /\ RunSteps' = RunSteps /\ \A i \in 1..m : trajectory'[i] = trajectory[i]
  BY <1>1, <1>2, <1>3, <1>4
  DEF Decisions, DecisionEvents, MatchInv, CallIndex, EventIndex, RunSteps, LastCall, Extended
<1>7. \/ Pending' /\ e.selected
      \/ Even' /\ ~Pending' /\ ~e.selected
  BY <1>3 DEF Returns, PlannerCallsTool, PlannerCompletesStep, PlannerFailsStep, StepEndsWith,
              Completed, FailedWith, Pending, Even
<1>8. \A d \in 1..Len(trace') : trace'[d].selected => trace'[d].status # "rejected"
  <2>1. \A d \in 1..n : trace'[d].selected => trace'[d].status # "rejected"
    BY <1>1, <1>3 DEF NamesInv
  <2>2. \A d \in 1..(n + 1) : d \in 1..n \/ d = n + 1
    OBVIOUS
  <2>. QED
    BY <1>3, <2>1, <2>2
<1>9. \A i \in EventIndex' :
        trajectory'[i].type = "tool_call_created" => trajectory'[i].call \in CallIndex'
  <2>1. \A i \in 1..(m + 1) : i \in 1..m \/ i = m + 1
    OBVIOUS
  <2>. QED
    BY <1>4, <1>6, <2>1 DEF NamesInv
<1>10. ASSUME NoRetry' PROVE NamesBody'
  <2>1. NoRetry
    <3>1. \A i \in 1..m : i \in EventIndex'
      BY <1>6
    <3>. QED
      BY <1>1, <1>6, <1>10, <3>1 DEF NoRetry, EventIndex
  <2>2. NamesBody /\ AllAsked
    BY <1>0, <2>1 DEF NamesInv, NamesBody, Even
  <2>3. ASSUME NEW d \in D, NEW c \in 1..q, Asks(d, c)
        PROVE  Asks(d, c)'
    <3>. DEFINE D1 == D \cup {n + 1}
                E1 == E \cup {m + 1}
    <3>1. \A i \in (Len(trajectory) + 1)..(Len(trajectory) + 1) : ~Creates(i, c)'
      BY <1>1, <1>4 DEF Creates
    <3>2. d \in Decisions /\ c \in CallIndex
      BY <1>2, <1>6
    <3>3. /\ Decisions \subseteq D1 /\ \A x \in D1 : x \in Decisions \/ (x \in Nat /\ x > Len(trace))
          /\ DecisionEvents \subseteq E1
          /\ \A x \in E1 : x \in DecisionEvents \/ (x \in Nat /\ x > Len(trajectory))
      BY <1>1, <1>2
    <3>4. Decisions' = D1 /\ DecisionEvents' = E1
      BY <1>5
    <3>5. \A x \in 1..Len(trace) : trace'[x] = trace[x]
      BY <1>1, <1>3
    <3>. HIDE DEF D1, E1
    <3>. QED
      BY <1>0, <1>3, <1>4, <2>3, <3>1, <3>2, <3>3, <3>4, <3>5, AsksStays
  <2>4. \A d \in D : Asked(d) => Asked(d)'
    BY <1>6, <2>3 DEF Asked
  <2>5. \A c \in CallIndex' : \E d \in Decisions' : Asks(d, c)'
    BY <1>2, <1>5, <1>6, <2>2, <2>3 DEF NamesBody
  <2>6. \A step : /\ Made(step)' = Made(step) /\ Made(step) \in Nat
                  /\ Chosen(step)' = Chosen(step) + (IF e.selected /\ e.step = step THEN 1 ELSE 0)
    <3>. SUFFICES ASSUME NEW step
                  PROVE  /\ Made(step)' = Made(step) /\ Made(step) \in Nat
                         /\ Chosen(step)' = Chosen(step) + (IF e.selected /\ e.step = step THEN 1 ELSE 0)
      OBVIOUS
    <3>1. ChosenUpTo(trace', n, step) = ChosenUpTo(trace, n, step)
      BY <1>3, CountsStay
    <3>2. Cardinality(ChosenUpTo(trace', n + 1, step)) =
            Cardinality(ChosenUpTo(trace, n, step)) + (IF e.selected /\ e.step = step THEN 1 ELSE 0)
      BY <1>3, <3>1, CountsGrow
    <3>3. Made(step)' = Made(step) /\ Made(step) \in Nat
      BY <1>1, <1>3, CountsFinite DEF Made, LastCall
    <3>. QED
      BY <1>1, <1>3, <3>2, <3>3 DEF Chosen
  <2>7. \A d \in D : d \in 1..n /\ trace'[d] = trace[d]
    BY <1>3, <1>6
  <2>8. \A d \in D : trace'[d].selected => Asked(d)'
    BY <1>2, <2>2, <2>4, <2>7 DEF AllAsked
  <2>9. \A step \in RunSteps : Chosen(step) = Made(step)
    BY <2>2 DEF AllAsked
  <2>10. CASE Pending' /\ e.selected
    <3>1. Before(D \cup {n + 1}, n + 1) + 1 = Cardinality(E \cup {m + 1})
      <4>1. Before(D \cup {n + 1}, n + 1) = Before(D, n + 1)
        <5>1. {y \in D \cup {n + 1} : y < n + 1} = {y \in D : y < n + 1}
          BY <1>6
        <5>. QED
          BY <5>1 DEF Before
      <4>2. Before(D, n + 1) = Cardinality(D) /\ Cardinality(E \cup {m + 1}) = Cardinality(E) + 1
        BY <1>6, BeforeBounds
      <4>. QED
        BY <1>6, <4>1, <4>2
    <3>2. LastWaits'
      <4>1. /\ Len(trace') \in Decisions' /\ trace'[Len(trace')].selected
            /\ trace'[Len(trace')].step = state'.currentStep
        BY <1>0, <1>3, <1>5, <2>10
      <4>2. \A d \in Decisions' : trace'[d].selected /\ d # Len(trace') => Asked(d)'
        BY <1>3, <1>5, <2>8
      <4>3. \A step \in RunSteps' :
              Chosen(step)' = Made(step)' + (IF step = state'.currentStep THEN 1 ELSE 0)
        BY <1>0, <1>3, <1>6, <2>6, <2>9, <2>10
      <4>4. Before(Decisions, Len(trace))' + 1 = Cardinality(DecisionEvents)'
        BY <1>3, <1>5, <3>1 DEF Before
      <4>. QED
        BY <4>1, <4>2, <4>3, <4>4 DEF LastWaits
    <3>. QED
      BY <2>5, <2>10, <3>2 DEF NamesBody, Pending, Even, Over
  <2>11. CASE Even' /\ ~Pending' /\ ~e.selected
    <3>1. AllAsked'
      <4>1. \A d \in Decisions' : trace'[d].selected => Asked(d)'
        BY <1>3, <1>5, <2>8, <2>11
      <4>2. \A step \in RunSteps' : Chosen(step)' = Made(step)'
        BY <1>6, <2>6, <2>9, <2>11
      <4>. QED
        BY <4>1, <4>2 DEF AllAsked
    <3>. QED
      BY <2>5, <2>11, <3>1 DEF NamesBody, Over
  <2>. QED
    BY <1>7, <2>10, <2>11
<1>. QED
  BY <1>8, <1>9, <1>10 DEF NamesInv

\* The call that is made is the one that was waited for.
LEMMA NamesOpened ==
  ASSUME RunsInv, RepairInv, PlanInv, NamesInv, Opened, pc = "dispatching", run' = run,
         trace' = trace, Decisions' = Decisions
  PROVE  NamesInv'
<1>0. /\ Len(trajectory) \in Nat /\ Len(trace) \in Nat /\ LastCall \in Nat /\ Len(state.toolCalls) = LastCall
      /\ state.toolCalls \in Seq(Call) /\ state.currentStep \in StepId
  BY DEF RunsInv, TypeInv, TypeOK, Control, InStep, RuntimeState, RepairInv, LastCall
<1>1. PICK n \in Nat, m \in Nat, q \in Nat : n = Len(trace) /\ m = Len(trajectory) /\ q = LastCall
  BY <1>0
<1>2. PICK D, E : D = Decisions /\ E = DecisionEvents
  OBVIOUS
<1>3. /\ LastCall' = q + 1 /\ state'.toolCalls[q + 1].step = state.currentStep
      /\ \A c \in 1..q : state'.toolCalls[c] = state.toolCalls[c]
      /\ state'.currentStep = state.currentStep /\ pc' = "executing"
  <2>. DEFINE opened == [step |-> state.currentStep, status |-> "running"]
  <2>1. opened \in Call /\ opened.step = state.currentStep
    BY <1>0 DEF Call, CallStatus
  <2>2. state'.toolCalls = Append(state.toolCalls, opened) /\ state'.currentStep = state.currentStep
        /\ pc' = "executing"
    BY DEF Opened
  <2>. HIDE DEF opened
  <2>3. /\ Len(state'.toolCalls) = q + 1 /\ state'.toolCalls[q + 1] = opened
        /\ \A c \in 1..q : state'.toolCalls[c] = state.toolCalls[c]
    BY <1>0, <1>1, <2>1, <2>2, AppendProperties
  <2>. QED
    BY <2>1, <2>2, <2>3 DEF LastCall
<1>4. /\ Extended(2) /\ Len(trajectory') = m + 2 /\ \A i \in 1..m : trajectory'[i] = trajectory[i]
      /\ trajectory'[m + 1].type = "tool_call_created" /\ trajectory'[m + 1].call = q + 1
      /\ trajectory'[m + 2].type = "tool_started"
  <2>1. /\ Extended(2)
        /\ \A i \in {1, 2} : trajectory'[m + i] =
             EventOf(IF i = 1 THEN "tool_call_created" ELSE "tool_started",
                     state.currentStep, q + 1, 0)
    BY <1>1 DEF Opened
  <2>2. /\ trajectory'[m + 1] = EventOf("tool_call_created", state.currentStep, q + 1, 0)
        /\ trajectory'[m + 2] = EventOf("tool_started", state.currentStep, q + 1, 0)
    BY <2>1
  <2>. QED
    BY <1>1, <2>1, <2>2 DEF EventOf, Extended
<1>5. /\ D \subseteq 1..n /\ E \subseteq 1..m /\ Cardinality(E) \in Nat
      /\ CallIndex = 1..q /\ CallIndex' = 1..(q + 1) /\ EventIndex = 1..m /\ EventIndex' = 1..(m + 2)
      /\ RunSteps' = RunSteps
  <2>1. E \subseteq 1..m
    BY <1>1, <1>2 DEF DecisionEvents
  <2>2. Cardinality(E) \in Nat
    BY <2>1, BeforeBounds
  <2>. QED
    BY <1>1, <1>2, <1>3, <1>4, <2>1, <2>2 DEF Decisions, CallIndex, EventIndex, RunSteps, LastCall
<1>6. \A i \in 1..(m + 2) : i \in 1..m \/ i = m + 1 \/ i = m + 2
  OBVIOUS
<1>7. DecisionEvents' = E
  <2>1. \A i \in (Len(trajectory) + 1)..(Len(trajectory) + 2) : trajectory'[i].type # "planner_decision"
    <3>1. \A i \in (m + 1)..(m + 2) : i = m + 1 \/ i = m + 2
      OBVIOUS
    <3>. QED
      BY <1>1, <1>4, <3>1
  <2>. QED
    BY <1>0, <1>2, <1>4, <2>1, EventsKept
<1>8. \A d \in 1..Len(trace') : trace'[d].selected => trace'[d].status # "rejected"
  BY DEF NamesInv
<1>9. \A i \in EventIndex' :
        trajectory'[i].type = "tool_call_created" => trajectory'[i].call \in CallIndex'
  <2>1. \A i \in 1..m : trajectory'[i].type = "tool_call_created" => trajectory'[i].call \in 1..(q + 1)
    BY <1>4, <1>5 DEF NamesInv
  <2>. QED
    BY <1>4, <1>5, <1>6, <2>1
<1>10. ASSUME NoRetry' PROVE NamesBody'
  <2>1. NoRetry
    <3>1. \A i \in 1..m : i \in EventIndex'
      BY <1>5
    <3>. QED
      BY <1>1, <1>4, <1>5, <1>10, <3>1 DEF NoRetry, EventIndex
  <2>2. NamesBody /\ LastWaits
    BY <2>1 DEF NamesInv, NamesBody, Pending
  <2>3. ASSUME NEW d \in D, NEW c \in 1..q, Asks(d, c)
        PROVE  Asks(d, c)'
    <3>1. \A i \in (Len(trajectory) + 1)..(Len(trajectory) + 2) : ~Creates(i, c)'
      <4>1. \A i \in (m + 1)..(m + 2) : i = m + 1 \/ i = m + 2
        OBVIOUS
      <4>. QED
        BY <1>1, <1>4, <4>1 DEF Creates
    <3>2. d \in Decisions /\ c \in CallIndex
      BY <1>2, <1>5
    <3>3. \A b \in CallIndex : state'.toolCalls[b].step = state.toolCalls[b].step
      BY <1>3, <1>5
    <3>4. /\ Decisions' = D /\ Decisions \subseteq D /\ DecisionEvents \subseteq E
          /\ \A y \in D : y \in Decisions
          /\ \A y \in E : y \in DecisionEvents
      BY <1>2
    <3>5. \A x \in 1..Len(trace) : trace'[x] = trace[x]
      OBVIOUS
    <3>. QED
      BY <1>0, <1>4, <1>7, <2>3, <3>1, <3>2, <3>3, <3>4, <3>5, AsksStays
  <2>4. \A d \in D : Asked(d) => Asked(d)'
    <3>1. \A c \in 1..q : c \in 1..(q + 1)
      OBVIOUS
    <3>. QED
      BY <1>5, <2>3, <3>1 DEF Asked
  <2>5. state.currentStep \in RunSteps /\ trace[n].step = state.currentStep /\ n \in D /\ trace[n].selected
    BY <1>1, <1>2, <2>2 DEF LastWaits, Decisions
  <2>6. \A step : /\ Chosen(step)' = Chosen(step) /\ Made(step) \in Nat
                  /\ Made(step)' = Made(step) + (IF step = state.currentStep THEN 1 ELSE 0)
    <3>. SUFFICES ASSUME NEW step
                  PROVE  /\ Chosen(step)' = Chosen(step) /\ Made(step) \in Nat
                         /\ Made(step)' = Made(step) + (IF step = state.currentStep THEN 1 ELSE 0)
      OBVIOUS
    <3>1. CalledUpTo(state'.toolCalls, q, step) = CalledUpTo(state.toolCalls, q, step)
      BY <1>3, CountsStay
    <3>2. Cardinality(CalledUpTo(state'.toolCalls, q + 1, step)) =
            Cardinality(CalledUpTo(state.toolCalls, q, step)) + (IF state.currentStep = step THEN 1 ELSE 0)
      BY <1>3, <3>1, CountsGrow
    <3>3. Made(step) \in Nat
      BY <1>1, CountsFinite DEF Made
    <3>. QED
      BY <1>1, <1>3, <3>2, <3>3 DEF Made, Chosen
  <2>7. Asks(n, q + 1)'
    <3>1. Cardinality(ChosenUpTo(trace, n, trace[n].step)) =
            Cardinality(CalledUpTo(state'.toolCalls, q + 1, trace[n].step))
      <4>1. Chosen(trace[n].step) = Made(trace[n].step) + 1
        BY <2>2, <2>5 DEF LastWaits
      <4>2. Chosen(trace[n].step) = Made(trace[n].step)'
        BY <2>5, <2>6, <4>1
      <4>. QED
        BY <1>1, <1>3, <4>2 DEF Chosen, Made
    <3>2. ASSUME NEW i \in 1..(m + 2), Creates(i, q + 1)'
          PROVE  Before(D, n) + 1 = Before(E, i)
      <4>1. i = m + 1
        <5>1. i # m + 2
          BY <1>4, <3>2 DEF Creates
        <5>2. i \notin 1..m
          <6>. SUFFICES ASSUME i \in 1..m PROVE FALSE
            OBVIOUS
          <6>1. trajectory[i].call = q + 1
            BY <1>4, <3>2 DEF Creates
          <6>2. trajectory[i].type = "tool_call_created" /\ i \in EventIndex
            BY <1>4, <1>5, <3>2 DEF Creates
          <6>3. trajectory[i].call \in 1..q
            BY <1>5, <6>2 DEF NamesInv
          <6>. QED
            BY <6>1, <6>3
        <5>. QED
          BY <1>6, <5>1, <5>2
      <4>2. Before(E, m + 1) = Cardinality(E)
        BY <1>5, BeforeBounds
      <4>3. Before(D, n) + 1 = Cardinality(E)
        BY <1>1, <1>2, <2>2 DEF LastWaits
      <4>. QED
        BY <4>1, <4>2, <4>3
    <3>3. \A i \in EventIndex' : Creates(i, q + 1)' => Before(D, n) + 1 = Before(E, i)
      BY <1>5, <3>2
    <3>4. trace'[n].selected /\ state'.toolCalls[q + 1].step = trace'[n].step
      BY <1>3, <2>5
    <3>. QED
      BY <1>2, <1>7, <3>1, <3>3, <3>4 DEF Asks
  <2>8. \A c \in CallIndex' : \E d \in Decisions' : Asks(d, c)'
    <3>1. \A c \in 1..(q + 1) : c \in 1..q \/ c = q + 1
      OBVIOUS
    <3>2. \A c \in 1..q : \E d \in D : Asks(d, c)'
      BY <1>2, <1>5, <2>2, <2>3 DEF NamesBody
    <3>3. Decisions' = D
      BY <1>2
    <3>. QED
      BY <1>5, <2>5, <2>7, <3>1, <3>2, <3>3
  <2>9. AllAsked'
    <3>1. Asked(n)'
      <4>1. q + 1 \in CallIndex'
        BY <1>5
      <4>. QED
        BY <2>7, <4>1 DEF Asked
    <3>2. \A d \in D : trace[d].selected => Asked(d)'
      BY <1>1, <1>2, <2>2, <2>4, <3>1 DEF LastWaits
    <3>3. \A step \in RunSteps : Chosen(step)' = Made(step)'
      BY <2>2, <2>6 DEF LastWaits
    <3>. QED
      BY <1>2, <1>5, <3>2, <3>3 DEF AllAsked
  <2>. QED
    BY <1>3, <2>8, <2>9 DEF NamesBody, Even, Pending, Over
<1>. QED
  BY <1>8, <1>9, <1>10 DEF NamesInv

\* Nothing is asked for and nothing made in a run that begins.
LEMMA NamesFresh ==
  ASSUME RunsInv, RepairInv, NamesInv, NextRun, Decisions' = {}
  PROVE  NamesInv'
<1>1. /\ trace' = trace /\ trajectory' = <<>> /\ state'.toolCalls = <<>> /\ pc' = "starting"
  BY DEF NextRun, plannerVars, InitialState
<1>2. CallIndex' = {} /\ EventIndex' = {} /\ LastCall' = 0
  BY <1>1 DEF CallIndex, EventIndex, LastCall
<1>3. ASSUME NEW step \in RunSteps' PROVE Chosen(step)' = Made(step)'
  <2>1. ChosenUpTo(trace', Len(trace'), step) = {}
    <3>. SUFFICES ASSUME NEW d \in 1..Len(trace), trace[d].selected, trace[d].step = step PROVE FALSE
      BY <1>1 DEF ChosenUpTo
    <3>1. trace[d].status # "rejected"
      BY DEF NamesInv
    <3>2. d \in Decisions'
      BY <1>1, <3>1 DEF Decisions
    <3>. QED
      BY <3>2
  <2>2. CalledUpTo(state'.toolCalls, LastCall', step) = {}
    BY <1>2 DEF CalledUpTo
  <2>. QED
    BY <2>1, <2>2 DEF Chosen, Made
<1>4. NamesBody'
  BY <1>1, <1>2, <1>3 DEF NamesBody, AllAsked, Even, Pending, Over
<1>. QED
  BY <1>1, <1>2, <1>4 DEF NamesInv

\* Without a retry every call keeps the decision it was made because of.
LEMMA NamesStep ==
  RunsInv /\ RepairInv /\ PlanInv /\ MatchInv /\ NamesInv /\ [AgentNext]_agentVars => NamesInv'
<1>. SUFFICES ASSUME RunsInv, RepairInv, PlanInv, MatchInv, NamesInv, [AgentNext]_agentVars
              PROVE  NamesInv'
  OBVIOUS
<1>0. TypeInv /\ Len(trace) \in Nat /\ Len(state.toolCalls) \in Nat /\ state.toolCalls \in Seq(Call)
  BY DEF RunsInv, TypeInv, TypeOK, RuntimeState, RepairInv
<1>1. PICK e : Returns(e) \/ Rejects(e) \/ TracesNothing
  BY TraceStep
<1>2. CASE Returns(e)
  BY <1>2, NamesDecided
<1>3. CASE NextRun /\ Decisions' = {}
  BY <1>3, NamesFresh
<1>4. CASE /\ Decisions' = Decisions /\ run' = run /\ [Next]_vars
           /\ pc # "deciding" \/ PlannerRaises \/ UNCHANGED vars
           /\ ~Returns(e) /\ ~NextRun
  <2>1. CASE Opened
    <3>1. pc' = "executing" /\ state' # state
      <4>1. Len(state'.toolCalls) = Len(state.toolCalls) + 1
        <5>1. [step |-> state.currentStep, status |-> "running"] \in Call
          BY <2>1 DEF Opened, Call, CallStatus
        <5>. QED
          BY <1>0, <2>1, <5>1, AppendProperties DEF Opened
      <4>. QED
        BY <1>0, <2>1, <4>1 DEF Opened
    <3>2. pc = "dispatching"
      BY <1>0, <1>4, <3>1, EventStep DEF Silent, Decided, Dispatched, Retried, Other
    <3>3. trace' = trace
      BY <1>1, <1>4, <3>2 DEF Rejects, TracesNothing
    <3>. QED
      BY <1>4, <2>1, <3>2, <3>3, NamesOpened
  <2>2. CASE ~Opened
    <3>1. /\ LastCall' = LastCall
          /\ \A c \in CallIndex : state'.toolCalls[c].step = state.toolCalls[c].step
          /\ NoRetry' /\ Even => ~Pending'
          /\ Pending => Over' \/ (Pending' /\ state'.currentStep = state.currentStep)
          /\ Over => Over'
      BY <1>4, <2>2, RuntimeAsksNothing
    <3>2. PICK k \in Nat :
            /\ Extended(k)
            /\ \A i \in (Len(trajectory) + 1)..(Len(trajectory) + k) :
                 trajectory'[i].type \notin {"planner_decision", "tool_call_created"}
      BY <1>4, <2>2, RuntimeAsksNothing
    <3>3. /\ \A d \in 1..Len(trace) : trace'[d] = trace[d]
          /\ \/ Len(trace') = Len(trace)
             \/ Len(trace') = Len(trace) + 1 /\ ~trace'[Len(trace) + 1].selected
          /\ Pending => Len(trace') = Len(trace)
      BY <1>1, <1>4 DEF Rejects, Entered, TracesNothing, Pending
    <3>4. AsksNothing(k)
      BY <1>4, <3>1, <3>2, <3>3 DEF AsksNothing
    <3>. QED
      BY <3>4, NamesKept
  <2>. QED
    BY <2>1, <2>2
<1>5. NextRun => run' # run
  BY DEF NextRun, RunsInv
<1>. QED
  BY <1>1, <1>2, <1>3, <1>4, <1>5, DecisionsStep

\* Before the first request nothing is asked for.
LEMMA InitNames == AgentInit => NamesInv
<1>. SUFFICES ASSUME AgentInit PROVE NamesInv
  OBVIOUS
<1>1. trace = <<>> /\ trajectory = <<>> /\ state.toolCalls = <<>> /\ pc = "starting"
  BY DEF AgentInit, Init, InitialState, LLM!PlannerInit
<1>2. CallIndex = {} /\ EventIndex = {} /\ LastCall = 0 /\ Decisions = {}
  BY <1>1 DEF CallIndex, EventIndex, LastCall, Decisions
<1>3. \A step : Chosen(step) = Made(step)
  BY <1>1, <1>2 DEF Chosen, Made, ChosenUpTo, CalledUpTo
<1>4. NamesBody
  BY <1>1, <1>2, <1>3 DEF NamesBody, AllAsked, Even, Pending, Over
<1>. QED
  BY <1>1, <1>2, <1>4 DEF NamesInv

\* As long as nothing is retried, the correlated trace names for every call the decision
\* that asked for it (correlate_trace_with_run), in every run of the planner.
THEOREM CallsNamed == AgentSpec => []CallsNamedWithoutRetries
<1>1. RunsInv /\ RepairInv /\ PlanInv /\ NamesInv => CallsNamedWithoutRetries
  BY NamesHold
<1>. QED
  BY <1>1, InitRepair, RepairStep, RunsCorrect, InitPlan, PlanStep, InitMatch, MatchStep,
     InitNames, NamesStep, PTL DEF AgentSpec

=============================================================================

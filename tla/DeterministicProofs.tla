-------------------------- MODULE DeterministicProofs --------------------------
(***************************************************************************)
(* Machine-checked proofs about DeterministicLoop: the planner that counts *)
(* its position works its templates off in order, and a run of it falls    *)
(* short only for a cause outside it.                                      *)
(***************************************************************************)
EXTENDS DeterministicLoop, LifecycleProofs

-----------------------------------------------------------------------------
(* The loop and the runtime                                                *)

\* A step of the loop is a step of the runtime.
LEMMA LoopSteps == [LoopNext]_loopVars => [Next]_vars
<1>. SUFFICES ASSUME LoopNext PROVE Next
  BY DEF loopVars
<1>1. CASE CreatePlan
  BY <1>1, TemplateAssumption DEF CreatePlan, Next
<1>2. CASE DecideStepDone \/ DecideNextCall
  BY <1>2 DEF DecideStepDone, DecideNextCall, Next
<1>3. CASE Dispatch
  BY <1>3 DEF Dispatch, Next
<1>4. CASE LoopActs
  BY <1>4 DEF LoopActs, Next
<1>. QED
  BY <1>1, <1>2, <1>3, <1>4 DEF LoopNext

\* The loop is the runtime with the deterministic planner as its planner (runtime.py:332): it adds
\* no behaviour, so whatever holds of every run of the runtime holds of these runs, and
\* they keep the promises of RunLifecycle.
THEOREM PlannedRunsAreRuns == LoopSpec => Spec /\ ImplementsLifecycle
<1>1. LoopInit => Init
  BY DEF LoopInit
<1>2. LoopSpec => Spec
  BY <1>1, LoopSteps, PTL DEF LoopSpec, Spec
<1>. QED
  BY <1>2, RuntimeImplementsLifecycle, PTL

\* What the run of the loop inherits from the runtime.
RunInv ==
  /\ TypeInv /\ CountersMatchHistory /\ StepsInv /\ HandoffInv
  /\ WorkInv /\ CallsInv

\* Each part holds of a fresh run and survives every step of the runtime.
LEMMA RunStays == LoopSpec => []RunInv
<1>1. Init => StepsInv /\ HandoffInv /\ WorkInv /\ CallsInv
  BY DEF Init, InitialState, StepsInv, StepIndex, InStep, HandoffInv, ResultsTraceToCalls,
         CallIndex, WorkInv, Done, CallsInv, Accounted, CallsOfStep
<1>2. LoopInit => RunInv
  BY <1>1, InitTypeInv, InitCounters DEF LoopInit, RunInv
<1>3. RunInv /\ [LoopNext]_loopVars => RunInv'
  BY LoopSteps, TypeInvStep, CountersStep, StepsStep, HandoffStep, WorkStep, CallsStep DEF RunInv
<1>. QED
  BY <1>2, <1>3, PTL DEF LoopSpec

-----------------------------------------------------------------------------
(* Shortfalls                                                              *)

FailedCall == \E c \in CallIndex : state.toolCalls[c].status = "failed"

\* Where a failure of the step or the run is on its way, its cause is there; the
\* count of failed steps has one too.
CauseInv ==
  /\ pc = "finishing" /\ outcome.status = "failed" =>
       FailedCall \/ outcome.stopReason \in BUDGET_STOP_REASONS
  /\ pc = "stopping" => FailedCall \/ outcome.stopReason \in BUDGET_STOP_REASONS
  /\ failedSteps > 0 => FailedCall
  /\ ShortfallHasACause

\* A failed call stays a failed call, and a failed answer makes one.
LEMMA FailuresStay ==
  ASSUME TypeInv, CountersMatchHistory, [Next]_vars
  PROVE  /\ FailedCall => FailedCall'
         /\ \A st, rs : CallAnswered(st, rs) /\ st = "failed" => FailedCall'
<1>0. /\ state.toolCalls \in Seq(Call) /\ Len(state.toolCalls) \in Nat
      /\ LastCall = Len(state.toolCalls)
  BY DEF TypeInv, TypeOK, RuntimeState, LastCall
<1>1. Len(state'.toolCalls) >= Len(state.toolCalls)
  <2>1. CASE HistoryKept
    BY <1>0, <2>1 DEF HistoryKept, HistoryUnchanged
  <2>2. CASE CallDispatched
    BY <1>0, <2>2, AppendProperties DEF CallDispatched, Call, CallStatus
  <2>3. ASSUME NEW st, NEW rs, CallAnswered(st, rs) PROVE Len(state'.toolCalls) >= Len(state.toolCalls)
    BY <1>0, <2>3, AnswerEffect DEF CallAnswered
  <2>. QED
    BY <2>1, <2>2, <2>3, HistoryStep
<1>2. FailedCall => FailedCall'
  <2>1. SettledHistoryKept
    BY SettledHistoryStep
  <2>2. ASSUME NEW c \in CallIndex, state.toolCalls[c].status = "failed"
        PROVE  c \in CallIndex' /\ state'.toolCalls[c].status = "failed"
    BY <1>0, <1>1, <2>1, <2>2 DEF SettledHistoryKept, CallIndex
  <2>. QED
    BY <2>2 DEF FailedCall
<1>3. ASSUME NEW st, NEW rs, CallAnswered(st, rs), st = "failed" PROVE FailedCall'
  <2>1. /\ Len(state'.toolCalls) = LastCall /\ LastCall \in 1..LastCall
        /\ state'.toolCalls[LastCall] = [step |-> state.toolCalls[LastCall].step, status |-> st]
    BY <1>0, <1>3, AnswerEffect DEF CallAnswered, TypeInv, Control
  <2>2. state'.toolCalls[LastCall].status = "failed" /\ LastCall \in CallIndex'
    BY <1>3, <2>1 DEF CallIndex
  <2>. QED
    BY <2>2 DEF FailedCall
<1>. QED
  BY <1>2, <1>3

\* No step loses the cause of a failure.
LEMMA CauseStep == RunInv /\ CauseInv /\ [LoopNext]_loopVars => CauseInv'
<1>. SUFFICES ASSUME RunInv, CauseInv, [LoopNext]_loopVars PROVE CauseInv'
  OBVIOUS
<1>0. /\ TypeInv /\ state \in RuntimeState /\ outcome \in Outcome /\ failedSteps \in Nat
      /\ FailedCall => FailedCall'
  BY LoopSteps, FailuresStay DEF RunInv, TypeInv, TypeOK
<1>F. ASSUME FailedCall', pc' # "returned" PROVE CauseInv'
  BY <1>F DEF CauseInv, ShortfallHasACause
<1>T. ASSUME NEW status, NEW reason, NEW event, NEW onError \in {"containing", "leaked"},
             Terminate(status, reason, event, onError),
             \/ status = "completed" \/ reason = "runtime_error"
             \/ FailedCall' \/ reason \in BUDGET_STOP_REASONS
      PROVE  CauseInv'
  <2>1. /\ pc' \in {"returned", "containing", "leaked"} /\ failedSteps' = failedSteps
        /\ state'.status = status /\ state'.stopReason = reason
    BY <1>0, <1>T DEF Terminate, SaveState, locals, RuntimeState
  <2>. QED
    BY <1>0, <1>T, <2>1 DEF CauseInv, ShortfallHasACause, FailedCall, CallIndex
<1>1. CASE StartRun \/ CreatePlan \/ StartStep
  BY <1>0, <1>1 DEF StartRun, CreatePlan, PlannerCreatesPlan, StartStep, SaveState, locals, CauseInv,
                    ShortfallHasACause
<1>2. CASE StepBudgetSpent
  BY <1>2, <1>T DEF StepBudgetSpent, BUDGET_STOP_REASONS
<1>3. CASE PlanFinished
  BY <1>0, <1>3, <1>T DEF PlanFinished, CauseInv
<1>4. CASE FinishStep
  <2>1. CASE FailedCall
    BY <1>0, <1>4, <1>F, <2>1 DEF FinishStep, SaveState
  <2>2. CASE ~FailedCall
    <3>1. outcome # FailedWith(None)
      BY <1>4, <2>2, NoneAssumption DEF FinishStep, CauseInv, FailedWith, StopReason
    <3>2. outcome.stopReason # None => outcome.stopReason \in BUDGET_STOP_REASONS
      BY <1>4, <2>2 DEF FinishStep, CauseInv, RunInv, WorkInv
    <3>3. failedSteps' = failedSteps /\ outcome' = outcome
      BY <1>4, <3>1 DEF FinishStep
    <3>. QED
      BY <1>0, <1>4, <2>2, <3>2, <3>3 DEF FinishStep, SaveState, CauseInv, ShortfallHasACause
  <2>. QED
    BY <2>1, <2>2
<1>5. CASE StopRun
  BY <1>0, <1>5, <1>T DEF StopRun, CauseInv
<1>6. CASE ContainError
  BY <1>6, <1>T DEF ContainError
<1>7. CASE DecideStepDone \/ DecideNextCall \/ Dispatch
  BY <1>0, <1>7
  DEF DecideStepDone, DecideNextCall, Dispatch, PlannerCompletesStep, PlannerCallsTool, StepEndsWith,
      Completed, DispatchCall, locals, CauseInv, ShortfallHasACause
<1>8. CASE DispatchBlocked
  <2>1. BlockReason \in BUDGET_STOP_REASONS
    BY <1>8 DEF DispatchBlocked, BlockReason, BUDGET_STOP_REASONS
  <2>. QED
    BY <1>0, <1>8, <2>1 DEF DispatchBlocked, StepEndsWith, FailedWith, CauseInv, ShortfallHasACause
<1>9. CASE ExecutorSucceeds
  BY <1>0, <1>9 DEF ExecutorSucceeds, AnswerCall, SaveState, CauseInv, ShortfallHasACause
<1>10. CASE ExecutorRaises \/ \E kind \in FailureKind : ExecutorFails(kind)
  <2>1. PICK rs \in {<<>>, ResultOf(FALSE)} : AnswerCall("failed", rs)
    BY <1>10 DEF ExecutorRaises, ExecutorFails
  <2>2. pc = "executing" /\ pc' \in {"dispatching", "finishing", "containing"}
    BY <1>10 DEF ExecutorRaises, ExecutorFails, SaveState
  <2>3. rs \in Seq(Result)
    <3>1. LastCall \in Nat \ {0}
      BY <1>0, <2>2 DEF LastCall, TypeInv, Control, RuntimeState
    <3>. DEFINE failed == [call |-> LastCall, success |-> FALSE]
    <3>2. failed \in Result /\ (rs = <<>> \/ rs = <<failed>>)
      BY <2>1, <3>1 DEF Result, ResultOf
    <3>3. <<>> \in Seq(Result) /\ <<failed>> \in Seq(Result)
      BY <3>2
    <3>. QED
      BY <3>2, <3>3
  <2>4. CallAnswered("failed", rs)
    BY <2>1, <2>2, <2>3 DEF CallAnswered
  <2>5. FailedCall'
    BY <2>4, LoopSteps, FailuresStay DEF RunInv
  <2>. QED
    BY <1>F, <2>2, <2>5
<1>11. CASE Finished \/ UNCHANGED loopVars
  BY <1>0, <1>11
  DEF Finished, loopVars, vars, CauseInv, ShortfallHasACause, FailedCall, CallIndex
<1>. QED
  BY <1>1, <1>2, <1>3, <1>4, <1>5, <1>6, <1>7, <1>8, <1>9, <1>10, <1>11 DEF LoopNext, LoopActs

\* With this planner a run falls short of completion only for a cause outside it: a
\* failed call, a budget, or an error of the store.
THEOREM ShortfallsExplained == LoopSpec => []ShortfallHasACause
<1>1. LoopInit => CauseInv
  BY DEF LoopInit, Init, CauseInv, ShortfallHasACause
<1>2. CauseInv => ShortfallHasACause
  BY DEF CauseInv
<1>. QED
  BY <1>1, <1>2, CauseStep, RunStays, PTL DEF LoopSpec

-----------------------------------------------------------------------------
(* The template                                                            *)

\* The successes of a step can be counted, and so can those before a call.
LEMMA SuccessesCount ==
  ASSUME TypeInv, NEW s, NEW c
  PROVE  /\ IsFiniteSet(Succeeded(s)) /\ Cardinality(Succeeded(s)) \in Nat
         /\ Cardinality({b \in Succeeded(s) : b < c}) \in Nat
<1>1. Len(state.toolCalls) \in Nat
  BY DEF TypeInv, TypeOK, RuntimeState
<1>2. IsFiniteSet(1..Len(state.toolCalls))
  BY <1>1, FS_Interval
<1>3. Succeeded(s) \subseteq 1..Len(state.toolCalls)
  BY DEF Succeeded, CallsOfStep
<1>4. {b \in Succeeded(s) : b < c} \subseteq 1..Len(state.toolCalls)
  BY <1>3
<1>. QED
  BY <1>2, <1>3, <1>4, FS_Subset, FS_CardinalityType

\* The count of successful results of the current step is the count of its successful
\* calls: while the planner decides, every call has its one result.
LEMMA CountIsPosition ==
  ASSUME TypeInv, HandoffInv, pc = "deciding"
  PROVE  CompletedCalls = Cardinality(Succeeded(state.currentStep))
<1>. DEFINE results == state.toolResults
            step == state.currentStep
            R == {r \in 1..Len(results) : /\ results[r].success
                                          /\ state.toolCalls[results[r].call].step = step}
            f == [r \in R |-> results[r].call]
<1>1. /\ results \in Seq(Result) /\ Len(results) \in Nat
      /\ \A r \in 1..Len(results) : results[r].call \in Nat /\ results[r].success \in BOOLEAN
  <2>1. results \in Seq(Result) /\ Len(results) \in Nat
    BY DEF TypeInv, TypeOK, RuntimeState
  <2>2. \A r \in 1..Len(results) : results[r] \in Result
    BY <2>1, ElementOfSeq
  <2>. QED
    BY <2>1, <2>2 DEF Result
<1>2. /\ \A q, r \in 1..Len(results) : q < r => results[q].call < results[r].call
      /\ \A r \in 1..Len(results) :
           /\ results[r].call \in CallIndex
           /\ state.toolCalls[results[r].call].status =
                IF results[r].success THEN "succeeded" ELSE "failed"
      /\ Unanswered = {}
  BY HandoffForm DEF HandoffInv
<1>3. f \in [R -> Succeeded(step)]
  BY <1>2 DEF Succeeded, CallsOfStep, CallIndex
<1>4. \A q, r \in R : q # r => f[q] # f[r]
  <2>1. SUFFICES ASSUME NEW q \in R, NEW r \in R, q # r PROVE f[q] # f[r]
    OBVIOUS
  <2>2. q < r \/ r < q
    BY <1>1, <2>1
  <2>. QED
    BY <1>1, <1>2, <2>2
<1>5. ASSUME NEW c \in Succeeded(step) PROVE \E r \in R : f[r] = c
  <2>1. c \in CallIndex /\ state.toolCalls[c].status = "succeeded" /\ state.toolCalls[c].step = step
    BY DEF Succeeded, CallsOfStep, CallIndex
  <2>2. PICK r \in 1..Len(results) : results[r].call = c
    BY <1>2, <2>1 DEF Unanswered
  <2>3. results[r].success
    BY <1>1, <1>2, <2>1, <2>2
  <2>. QED
    BY <2>1, <2>2, <2>3
<1>6. f \in Bijection(R, Succeeded(step))
  BY <1>3, <1>4, <1>5 DEF Bijection, Injection, Surjection, IsInjective
<1>7. IsFiniteSet(R)
  <2>1. IsFiniteSet(1..Len(results)) /\ R \in SUBSET (1..Len(results))
    BY <1>1, FS_Interval
  <2>. QED
    BY <2>1, FS_Subset
<1>8. Cardinality(R) = Cardinality(Succeeded(step))
  BY <1>6, <1>7, FS_Bijection DEF ExistsBijection
<1>. QED
  BY <1>8 DEF CompletedCalls

\* A dispatched call has not succeeded yet.
LEMMA DispatchCounts ==
  ASSUME TypeInv, CallDispatched, NEW s \in StepId
  PROVE  /\ Succeeded(s)' = Succeeded(s)
         /\ CallsOfStep(state, s)' =
              IF s = state.currentStep
              THEN CallsOfStep(state, s) \cup {LastCall + 1} ELSE CallsOfStep(state, s)
<1>1. /\ state.toolCalls \in Seq(Call) /\ Len(state.toolCalls) \in Nat
      /\ LastCall = Len(state.toolCalls)
  BY DEF TypeInv, TypeOK, RuntimeState, LastCall
<1>. DEFINE call == [step |-> state.currentStep, status |-> "running"]
<1>2. call \in Call /\ call.step = state.currentStep /\ call.status = "running"
  BY DEF CallDispatched, Call, CallStatus
<1>3. state'.toolCalls = Append(state.toolCalls, call)
  BY DEF CallDispatched
<1>. HIDE DEF call
<1>4. /\ Len(state'.toolCalls) = LastCall + 1
      /\ state'.toolCalls[LastCall + 1] = call
      /\ \A c \in 1..LastCall : state'.toolCalls[c] = state.toolCalls[c]
  BY <1>1, <1>2, <1>3, AppendProperties
<1>5. CallsOfStep(state, s)' =
        IF s = state.currentStep
        THEN CallsOfStep(state, s) \cup {LastCall + 1} ELSE CallsOfStep(state, s)
  BY <1>1, <1>2, <1>4 DEF CallsOfStep
<1>6. Succeeded(s)' = Succeeded(s)
  BY <1>1, <1>2, <1>4, <1>5 DEF Succeeded, CallsOfStep
<1>. QED
  BY <1>5, <1>6

\* An answered call counts as a success of its step, or as none.
LEMMA AnswerCounts ==
  ASSUME TypeInv, CountersMatchHistory, NEW st, NEW rs, CallAnswered(st, rs), NEW s \in StepId
  PROVE  /\ CallsOfStep(state, s)' = CallsOfStep(state, s)
         /\ Succeeded(s)' =
              IF st = "succeeded" /\ state.toolCalls[LastCall].step = s
              THEN Succeeded(s) \cup {LastCall} ELSE Succeeded(s)
         /\ LastCall \notin Succeeded(s)
         /\ LastCall \in Nat /\ \A c \in CallsOfStep(state, s) : c \in Nat /\ c <= LastCall
<1>1. /\ state.toolCalls \in Seq(Call) /\ Len(state.toolCalls) \in Nat
      /\ LastCall = Len(state.toolCalls) /\ LastCall \in 1..LastCall
      /\ state.toolCalls[LastCall].status = "running"
  BY DEF TypeInv, TypeOK, Control, RuntimeState, LastCall, CallAnswered, CountersMatchHistory, CallsWith
<1>2. /\ Len(state'.toolCalls) = LastCall
      /\ \A c \in 1..LastCall :
           state'.toolCalls[c] = IF c = LastCall THEN [step |-> state.toolCalls[c].step, status |-> st]
                                 ELSE state.toolCalls[c]
  BY <1>1, AnswerEffect DEF CallAnswered
<1>3. \A c \in 1..LastCall :
        /\ state'.toolCalls[c].step = state.toolCalls[c].step
        /\ state'.toolCalls[c].status = IF c = LastCall THEN st ELSE state.toolCalls[c].status
  <2>1. SUFFICES ASSUME NEW c \in 1..LastCall
                 PROVE  /\ state'.toolCalls[c].step = state.toolCalls[c].step
                        /\ state'.toolCalls[c].status =
                             IF c = LastCall THEN st ELSE state.toolCalls[c].status
    OBVIOUS
  <2>2. CASE c = LastCall
    <3>1. state'.toolCalls[c] = [step |-> state.toolCalls[c].step, status |-> st]
      BY <1>2, <2>2
    <3>. QED
      BY <2>2, <3>1
  <2>3. CASE c # LastCall
    <3>1. state'.toolCalls[c] = state.toolCalls[c]
      BY <1>2, <2>3
    <3>. QED
      BY <2>3, <3>1
  <2>. QED
    BY <2>2, <2>3
<1>4. CallsOfStep(state, s)' = CallsOfStep(state, s)
  BY <1>1, <1>2, <1>3 DEF CallsOfStep
<1>5. LastCall \notin Succeeded(s)
  BY <1>1 DEF Succeeded
<1>6. Succeeded(s)' =
        IF st = "succeeded" /\ state.toolCalls[LastCall].step = s
        THEN Succeeded(s) \cup {LastCall} ELSE Succeeded(s)
  BY <1>1, <1>3, <1>4 DEF Succeeded, CallsOfStep
<1>7. LastCall \in Nat /\ \A c \in CallsOfStep(state, s) : c \in Nat /\ c <= LastCall
  BY <1>1 DEF CallsOfStep
<1>. QED
  BY <1>4, <1>5, <1>6, <1>7

Count(s) == Cardinality(Succeeded(s))
Exhausted(i) == Count(state.plan[i]) = planned[state.plan[i]]

\* The decision being carried out is the planned call after the successful ones, a
\* step that is about to complete has no planned call left, and asked names a planned
\* call for each call.
TemplateInv ==
  /\ planned \in [StepId -> Nat] /\ next \in Nat
  /\ asked \in Seq(Nat) /\ Len(asked) = Len(state.toolCalls)
  /\ state.plan \in {<<>>, FixedPlan}
  /\ pc = "planning" => state.toolCalls = <<>>
  /\ \A s \in StepId : Count(s) <= planned[s]
  /\ pc \in {"dispatching", "executing"} =>
       next = Count(state.currentStep) + 1 /\ next <= planned[state.currentStep]
  /\ pc = "finishing" /\ outcome.status = "completed" =>
       Count(state.currentStep) = planned[state.currentStep]
  /\ CallsFollowTemplate

\* A step without a new or answered call keeps the template if it completes only an
\* exhausted step, and decides only on the next planned call.
LEMMA TemplateKept ==
  ASSUME TypeInv, TemplateInv, HistoryUnchanged, UNCHANGED <<planned, asked>>,
         state'.plan = state.plan, next' \in Nat,
         pc' = "planning" => state.toolCalls = <<>>,
         \A i \in 1..Len(state'.stepStatus) : state'.stepStatus[i] = "completed" => Exhausted(i),
         pc' \in {"dispatching", "executing"} =>
           /\ next' = Count(state'.currentStep) + 1
           /\ next' <= planned[state'.currentStep],
         pc' = "finishing" /\ outcome'.status = "completed" =>
           Count(state'.currentStep) = planned[state'.currentStep]
  PROVE  TemplateInv'
<1>1. state'.toolCalls = state.toolCalls /\ planned' = planned /\ asked' = asked
  BY DEF HistoryUnchanged
<1>2. \A s : /\ CallsOfStep(state, s)' = CallsOfStep(state, s)
             /\ Succeeded(s)' = Succeeded(s)
  BY <1>1 DEF CallsOfStep, Succeeded
<1>3. \A s : /\ CallsOfStep(state', s) = CallsOfStep(state, s)
             /\ Count(s)' = Count(s)
  BY <1>1, <1>2 DEF Count, CallsOfStep
<1>4. CallsFollowTemplate'
  <2>1. ASSUME NEW s \in StepId, NEW c \in CallsOfStep(state', s)
        PROVE  /\ asked'[c] = Cardinality({b \in Succeeded(s)' : b < c}) + 1
               /\ asked'[c] <= planned'[s]
    BY <1>1, <1>2, <1>3 DEF TemplateInv, CallsFollowTemplate
  <2>2. ASSUME NEW i \in 1..Len(state'.stepStatus), state'.stepStatus[i] = "completed"
        PROVE  Cardinality(Succeeded(state.plan[i])') = planned'[state.plan[i]]
    BY <1>1, <1>2, <2>2 DEF Exhausted, Count
  <2>. QED
    BY <2>1, <2>2 DEF CallsFollowTemplate
<1>. QED
  BY <1>1, <1>3, <1>4 DEF TemplateInv

\* The plan is adopted before any call, so no step has made one.
LEMMA PlanKeepsTemplate ==
  ASSUME TypeInv, TemplateInv, CreatePlan
  PROVE  TemplateInv'
<1>1. /\ pc = "planning" /\ state.toolCalls = <<>> /\ pc' \in {"iterating", "containing"}
      /\ next' = next /\ asked' = asked
  BY DEF CreatePlan, PlannerCreatesPlan, SaveState, TemplateInv
<1>2. /\ state'.toolCalls = <<>> /\ state'.plan = FixedPlan
      /\ state'.stepStatus = [i \in 1..Len(FixedPlan) |-> "pending"]
  BY <1>1 DEF CreatePlan, PlannerCreatesPlan, TypeInv, TypeOK, RuntimeState
<1>3. planned' \in [StepId -> Nat]
  <2>1. /\ planned' \in [StepId -> UNION {TemplateSizes[s] : s \in StepId}]
        /\ \A s \in StepId : TemplateSizes[s] \subseteq Nat
    BY TemplateAssumption DEF CreatePlan
  <2>. QED
    BY <2>1
<1>4. ASSUME NEW s
      PROVE  /\ CallsOfStep(state', s) = {} /\ Succeeded(s)' = {} /\ Count(s)' = 0
  <2>1. CallsOfStep(state', s) = {}
    BY <1>2 DEF CallsOfStep
  <2>2. Succeeded(s)' = {}
    BY <2>1 DEF Succeeded
  <2>. QED
    BY <2>1, <2>2, FS_EmptySet DEF Count
<1>5. \A i \in 1..Len(state'.stepStatus) : state'.stepStatus[i] = "pending"
  BY <1>2, PlanIsSeq, TemplateAssumption
<1>6. CallsFollowTemplate'
  BY <1>4, <1>5 DEF CallsFollowTemplate
<1>. QED
  BY <1>1, <1>2, <1>3, <1>4, <1>6 DEF TemplateInv

\* A dispatch carries out the decision, first or again.
LEMMA DispatchKeepsTemplate ==
  ASSUME TypeInv, TemplateInv, Dispatch, CallDispatched
  PROVE  TemplateInv'
<1>. DEFINE cur == state.currentStep
            n == LastCall
<1>1. /\ pc = "dispatching" /\ pc' = "executing" /\ asked' = Append(asked, next)
      /\ planned' = planned /\ next' = next
      /\ next \in Nat /\ asked \in Seq(Nat) /\ Len(asked) = n /\ n \in Nat
      /\ cur \in StepId /\ next = Count(cur) + 1 /\ next <= planned[cur]
  BY DEF Dispatch, DispatchCall, CallDispatched, TemplateInv, LastCall, TypeInv, TypeOK, RuntimeState
<1>2. /\ state'.currentStep = cur /\ state'.plan = state.plan /\ state'.stepStatus = state.stepStatus
      /\ Len(state'.toolCalls) = n + 1
  <2>1. state'.toolCalls = Append(state.toolCalls, [step |-> cur, status |-> "running"])
    BY DEF CallDispatched
  <2>. QED
    BY <2>1, AppendProperties DEF Dispatch, DispatchCall, TypeInv, TypeOK, RuntimeState, LastCall
<1>3. /\ Len(asked') = n + 1 /\ asked' \in Seq(Nat)
      /\ asked'[n + 1] = next /\ \A c \in 1..n : asked'[c] = asked[c]
  BY <1>1, AppendProperties
<1>4. \A s \in StepId :
        /\ Succeeded(s)' = Succeeded(s) /\ Count(s)' = Count(s)
        /\ CallsOfStep(state', s) =
             IF s = cur THEN CallsOfStep(state, s) \cup {n + 1} ELSE CallsOfStep(state, s)
  <2>1. \A s \in StepId :
          /\ Succeeded(s)' = Succeeded(s)
          /\ CallsOfStep(state, s)' =
               IF s = cur THEN CallsOfStep(state, s) \cup {n + 1} ELSE CallsOfStep(state, s)
    BY DispatchCounts
  <2>. QED
    BY <2>1 DEF Count, CallsOfStep
<1>5. ASSUME NEW s \in StepId, NEW c \in CallsOfStep(state', s)
      PROVE  /\ asked'[c] = Cardinality({b \in Succeeded(s)' : b < c}) + 1
             /\ asked'[c] <= planned'[s]
  <2>1. CASE c \in CallsOfStep(state, s)
    <3>1. c \in 1..n
      BY <2>1 DEF CallsOfStep, LastCall
    <3>. QED
      BY <1>1, <1>3, <1>4, <2>1, <3>1 DEF TemplateInv, CallsFollowTemplate
  <2>2. CASE s = cur /\ c = n + 1
    <3>1. \A b \in Succeeded(s) : b \in Nat /\ b < n + 1
      BY <1>1 DEF Succeeded, CallsOfStep, LastCall
    <3>2. {b \in Succeeded(s)' : b < c} = Succeeded(s)
      BY <1>4, <2>2, <3>1
    <3>. QED
      BY <1>1, <1>3, <2>2, <3>2 DEF Count
  <2>. QED
    BY <1>4, <2>1, <2>2
<1>6. ASSUME NEW i \in 1..Len(state'.stepStatus), state'.stepStatus[i] = "completed"
      PROVE  Exhausted(i)'
  <2>1. PICK s \in StepId : s = state.plan[i]
    BY <1>2, PlanIsSeq DEF TypeInv, TypeOK, Control, RuntimeState
  <2>2. Count(s) = planned[s] /\ Count(s)' = Count(s)
    BY <1>2, <1>4, <1>6, <2>1 DEF TemplateInv, CallsFollowTemplate, Count
  <2>. QED
    BY <1>1, <1>2, <2>1, <2>2 DEF Exhausted, Count, Succeeded, CallsOfStep
<1>7. CallsFollowTemplate'
  BY <1>5, <1>6 DEF CallsFollowTemplate, Exhausted, Count
<1>. QED
  BY <1>1, <1>2, <1>3, <1>4, <1>7 DEF TemplateInv

\* An answer moves the position by one if it is a success of the current step.
LEMMA AnswerKeepsTemplate ==
  ASSUME RunInv, TemplateInv, NEW st, NEW rs, CallAnswered(st, rs), UNCHANGED <<planned, next, asked>>,
         pc' = "dispatching" => st = "failed",
         pc' = "finishing" => outcome'.status = "failed",
         pc' \notin {"planning", "executing"}
  PROVE  TemplateInv'
<1>. DEFINE cur == state.currentStep
            n == LastCall
<1>0. TypeInv /\ CountersMatchHistory
  BY DEF RunInv
<1>1. /\ pc = "executing" /\ st \in {"succeeded", "failed"} /\ cur \in StepId
      /\ next = Count(cur) + 1 /\ next <= planned[cur] /\ planned \in [StepId -> Nat]
      /\ planned' = planned /\ next' = next /\ asked' = asked
      /\ state.toolCalls[n].step = cur
  BY <1>0 DEF CallAnswered, TemplateInv, RunInv, CallsInv, TypeInv, Control, InStep
<1>2. /\ state'.currentStep = cur /\ state'.plan = state.plan /\ state'.stepStatus = state.stepStatus
      /\ Len(state'.toolCalls) = Len(state.toolCalls)
  BY <1>0, AnswerEffect DEF CallAnswered
<1>3. \A s \in StepId :
        /\ CallsOfStep(state', s) = CallsOfStep(state, s)
        /\ Succeeded(s)' = IF st = "succeeded" /\ s = cur THEN Succeeded(s) \cup {n} ELSE Succeeded(s)
        /\ n \notin Succeeded(s)
        /\ n \in Nat /\ \A c \in CallsOfStep(state, s) : c \in Nat /\ c <= n
  <2>1. \A s \in StepId :
          /\ CallsOfStep(state, s)' = CallsOfStep(state, s)
          /\ Succeeded(s)' = IF st = "succeeded" /\ cur = s THEN Succeeded(s) \cup {n} ELSE Succeeded(s)
          /\ n \notin Succeeded(s)
          /\ n \in Nat /\ \A c \in CallsOfStep(state, s) : c \in Nat /\ c <= n
    BY <1>0, <1>1, AnswerCounts
  <2>. QED
    BY <2>1 DEF CallsOfStep
<1>4. ASSUME NEW s \in StepId
      PROVE  /\ Count(s) \in Nat
             /\ Count(s)' = IF st = "succeeded" /\ s = cur THEN Count(s) + 1 ELSE Count(s)
  <2>1. IsFiniteSet(Succeeded(s)) /\ Cardinality(Succeeded(s)) \in Nat
    BY <1>0, SuccessesCount
  <2>2. Cardinality(Succeeded(s) \cup {n}) = Cardinality(Succeeded(s)) + 1
    BY <1>3, <2>1, FS_AddElement
  <2>. QED
    BY <1>3, <2>1, <2>2 DEF Count
<1>5. ASSUME NEW s \in StepId, NEW c \in CallsOfStep(state', s)
      PROVE  /\ asked'[c] = Cardinality({b \in Succeeded(s)' : b < c}) + 1
             /\ asked'[c] <= planned'[s]
  <2>1. {b \in Succeeded(s)' : b < c} = {b \in Succeeded(s) : b < c}
    BY <1>3
  <2>2. /\ asked[c] = Cardinality({b \in Succeeded(s) : b < c}) + 1
        /\ asked[c] <= planned[s]
    BY <1>3 DEF TemplateInv, CallsFollowTemplate
  <2>. QED
    BY <1>1, <2>1, <2>2
<1>6. ASSUME NEW i \in 1..Len(state'.stepStatus), state'.stepStatus[i] = "completed"
      PROVE  Exhausted(i)'
  <2>1. i \in 1..Len(state.plan) /\ state.plan[i] \in StepId
    BY <1>0, <1>2, PlanIsSeq DEF TypeInv, TypeOK, Control, RuntimeState
  <2>2. PICK s \in StepId : s = state.plan[i]
    BY <2>1
  <2>3. s # cur
    <3>1. /\ state.stepStatus[stepsStarted] = "running" /\ state.plan[stepsStarted] = cur
          /\ stepsStarted \in 1..Len(state.plan)
      BY <1>0, <1>1 DEF RunInv, StepsInv, CallsInv, InStep, TypeInv, TypeOK, Control, RuntimeState
    <3>2. state.plan = FixedPlan
      BY <2>1 DEF TemplateInv
    <3>3. i \in DOMAIN FixedPlan /\ stepsStarted \in DOMAIN FixedPlan
      BY <2>1, <3>1, <3>2, PlanIsSeq, TemplateAssumption
    <3>. QED
      BY <1>2, <1>6, <2>2, <3>1, <3>2, <3>3, TemplateAssumption
  <2>4. Count(s) = planned[s] /\ Count(s)' = Count(s)
    BY <1>2, <1>4, <1>6, <2>2, <2>3 DEF TemplateInv, CallsFollowTemplate, Count
  <2>. QED
    BY <1>1, <1>2, <2>2, <2>4 DEF Exhausted, Count, Succeeded, CallsOfStep
<1>7. CallsFollowTemplate'
  BY <1>5, <1>6 DEF CallsFollowTemplate, Exhausted, Count
<1>8. \A s \in StepId : Count(s)' <= planned[s]
  BY <1>1, <1>4 DEF TemplateInv
<1>. QED
  BY <1>1, <1>2, <1>4, <1>7, <1>8 DEF TemplateInv

\* Every step of the loop keeps the template.
LEMMA TemplateStep == RunInv /\ TemplateInv /\ [LoopNext]_loopVars => TemplateInv'
<1>. SUFFICES ASSUME RunInv, TemplateInv, [LoopNext]_loopVars PROVE TemplateInv'
  OBVIOUS
<1>0. /\ TypeInv /\ CountersMatchHistory /\ state \in RuntimeState /\ outcome \in Outcome
      /\ next \in Nat /\ planned \in [StepId -> Nat] /\ Len(state.stepStatus) \in Nat
      /\ \A i \in 1..Len(state.stepStatus) : state.stepStatus[i] = "completed" => Exhausted(i)
  BY DEF RunInv, TypeInv, TypeOK, RuntimeState, TemplateInv, CallsFollowTemplate, Exhausted, Count
<1>T. ASSUME NEW status, NEW reason, NEW event, NEW onError \in {"containing", "leaked"},
             Terminate(status, reason, event, onError), UNCHANGED <<planned, next, asked>>
      PROVE  TemplateInv'
  <2>1. /\ pc' \in {"returned", "containing", "leaked"} /\ HistoryUnchanged /\ PlanUnchanged
    BY <1>0, <1>T DEF Terminate, SaveState, RuntimeState, HistoryUnchanged, PlanUnchanged
  <2>. QED
    BY <1>0, <1>T, <2>1, TemplateKept DEF PlanUnchanged
<1>1. CASE StartRun /\ UNCHANGED <<planned, next, asked>>
  <2>1. /\ pc' \in {"planning", "leaked"} /\ HistoryUnchanged /\ PlanUnchanged
        /\ state.toolCalls = <<>>
    BY <1>0, <1>1 DEF StartRun, RuntimeState, HistoryUnchanged, PlanUnchanged, RunInv, HandoffInv
  <2>. QED
    BY <1>0, <1>1, <2>1, TemplateKept DEF PlanUnchanged
<1>2. CASE CreatePlan
  BY <1>0, <1>2, PlanKeepsTemplate
<1>3. CASE StartStep /\ UNCHANGED <<planned, next, asked>>
  <2>1. /\ pc' \in {"deciding", "containing"} /\ HistoryUnchanged /\ state'.plan = state.plan
        /\ state'.stepStatus = [state.stepStatus EXCEPT ![stepsStarted + 1] = "running"]
    BY <1>0, <1>3 DEF StartStep, SaveState, RuntimeState, HistoryUnchanged
  <2>2. \A i \in 1..Len(state'.stepStatus) : state'.stepStatus[i] = "completed" => Exhausted(i)
    BY <1>0, <2>1 DEF RuntimeState
  <2>. QED
    BY <1>0, <1>3, <2>1, <2>2, TemplateKept
<1>4. CASE FinishStep /\ UNCHANGED <<planned, next, asked>>
  <2>1. /\ pc' \in {"iterating", "stopping", "containing"} /\ HistoryUnchanged
        /\ state'.plan = state.plan
        /\ state'.stepStatus = [state.stepStatus EXCEPT ![stepsStarted] = outcome.status]
    BY <1>0, <1>4 DEF FinishStep, SaveState, RuntimeState, HistoryUnchanged
  <2>2. outcome.status = "completed" => Exhausted(stepsStarted)
    BY <1>4 DEF FinishStep, TemplateInv, RunInv, CallsInv, InStep, Exhausted
  <2>3. \A i \in 1..Len(state'.stepStatus) : state'.stepStatus[i] = "completed" => Exhausted(i)
    BY <1>0, <2>1, <2>2 DEF RuntimeState
  <2>. QED
    BY <1>0, <1>4, <2>1, <2>3, TemplateKept
<1>5. CASE (StepBudgetSpent \/ PlanFinished \/ StopRun \/ ContainError)
           /\ UNCHANGED <<planned, next, asked>>
  BY <1>5, <1>T DEF StepBudgetSpent, PlanFinished, StopRun, ContainError
<1>6. CASE pc = "deciding" /\ (DecideStepDone \/ DecideNextCall)
  <2>1. /\ CompletedCalls = Count(state.currentStep) /\ Count(state.currentStep) \in Nat
        /\ state.currentStep \in StepId
        /\ Count(state.currentStep) <= planned[state.currentStep]
        /\ planned[state.currentStep] \in Nat
    <3>1. state.currentStep \in StepId
      BY <1>0, <1>6 DEF TypeInv, Control, InStep
    <3>2. CompletedCalls = Count(state.currentStep) /\ Count(state.currentStep) \in Nat
      BY <1>0, <1>6, CountIsPosition, SuccessesCount DEF RunInv, Count
    <3>. QED
      BY <1>0, <3>1, <3>2 DEF TemplateInv
  <2>2. CASE DecideStepDone
    <3>1. /\ Count(state.currentStep) = planned[state.currentStep]
          /\ UNCHANGED <<state, planned, next, asked>> /\ pc' = "finishing"
      BY <2>1, <2>2 DEF DecideStepDone, AllCallsFinished, PlannerCompletesStep, StepEndsWith
    <3>. QED
      BY <1>0, <3>1, TemplateKept DEF HistoryUnchanged
  <2>3. CASE DecideNextCall
    <3>1. /\ next' = Count(state.currentStep) + 1 /\ next' <= planned[state.currentStep]
          /\ UNCHANGED <<state, planned, asked>> /\ pc' = "dispatching"
      BY <2>1, <2>3 DEF DecideNextCall, AllCallsFinished, PlannerCallsTool
    <3>. QED
      BY <1>0, <2>1, <3>1, TemplateKept DEF HistoryUnchanged
  <2>. QED
    BY <1>6, <2>2, <2>3
<1>7. CASE Dispatch
  <2>1. CallDispatched
    <3>1. [Next]_vars /\ pc = "dispatching" /\ pc' = "executing"
      BY <1>7, LoopSteps DEF Dispatch, DispatchCall
    <3>. QED
      BY <1>0, <3>1, HistoryStep DEF HistoryKept, CallAnswered
  <2>. QED
    BY <1>0, <1>7, <2>1, DispatchKeepsTemplate
<1>8. CASE DispatchBlocked /\ UNCHANGED <<planned, next, asked>>
  <2>1. UNCHANGED state /\ pc' = "finishing" /\ outcome'.status = "failed"
    BY <1>8 DEF DispatchBlocked, StepEndsWith, FailedWith
  <2>. QED
    BY <1>0, <1>8, <2>1, TemplateKept DEF HistoryUnchanged
<1>9. CASE (ExecutorSucceeds \/ ExecutorRaises \/ \E kind \in FailureKind : ExecutorFails(kind))
           /\ UNCHANGED <<planned, next, asked>>
  <2>1. /\ pc = "executing" /\ pc' \in {"deciding", "dispatching", "finishing", "containing"}
        /\ pc' = "finishing" => outcome'.status = "failed"
    <3>1. CASE ExecutorSucceeds \/ ExecutorRaises
      <4>1. CASE ExecutorSucceeds
        BY <4>1 DEF ExecutorSucceeds, SaveState
      <4>2. CASE ExecutorRaises
        BY <4>2 DEF ExecutorRaises, SaveState, FailedWith
      <4>. QED
        BY <3>1, <4>1, <4>2
    <3>2. ASSUME NEW kind \in FailureKind, ExecutorFails(kind)
          PROVE  /\ pc = "executing" /\ pc' \in {"dispatching", "finishing", "containing"}
                 /\ pc' = "finishing" => outcome'.status = "failed"
      <4>1. CASE ShouldRetry(kind, attempts + 1)
        BY <3>2, <4>1 DEF ExecutorFails, SaveState
      <4>2. CASE ~ShouldRetry(kind, attempts + 1)
        BY <3>2, <4>2 DEF ExecutorFails, SaveState, FailedWith
      <4>. QED
        BY <4>1, <4>2
    <3>. QED
      BY <1>9, <3>1, <3>2
  <2>2. PICK st, rs : CallAnswered(st, rs)
    BY <1>0, <2>1, LoopSteps, HistoryStep DEF HistoryKept, CallDispatched, DispatchCall
  <2>3. pc' = "dispatching" => st = "failed"
    <3>1. ASSUME NEW kind \in FailureKind, ExecutorFails(kind) PROVE st = "failed"
      <4>1. LastCall \in DOMAIN state.toolCalls
        BY <1>0, <2>1 DEF TypeInv, Control, RuntimeState, LastCall
      <4>2. ASSUME NEW status, NEW results, AnswerCall(status, results)
            PROVE  state'.toolCalls[LastCall].status = status
        <5>1. state'.toolCalls = [state.toolCalls EXCEPT ![LastCall].status = status]
          BY <1>0, <4>2 DEF AnswerCall, RuntimeState
        <5>2. state.toolCalls[LastCall] \in Call
          BY <1>0, <4>1 DEF RuntimeState
        <5>. QED
          BY <4>1, <5>1, <5>2 DEF Call
      <4>. QED
        BY <2>2, <3>1, <4>2 DEF ExecutorFails, CallAnswered
    <3>2. pc' = "dispatching" => \E kind \in FailureKind : ExecutorFails(kind)
      BY <1>9 DEF ExecutorSucceeds, ExecutorRaises, SaveState
    <3>. QED
      BY <3>1, <3>2
  <2>. QED
    BY <1>9, <2>1, <2>2, <2>3, AnswerKeepsTemplate
<1>10. CASE (Finished /\ UNCHANGED <<planned, next, asked>>) \/ UNCHANGED loopVars
  <2>1. UNCHANGED <<pc, state, outcome, planned, next, asked>>
    BY <1>10 DEF Finished, loopVars, vars
  <2>. QED
    BY <1>0, <2>1, TemplateKept DEF HistoryUnchanged, TemplateInv
<1>. QED
  BY <1>1, <1>2, <1>3, <1>4, <1>5, <1>6, <1>7, <1>8, <1>9, <1>10 DEF LoopNext, LoopActs

\* The planner works its templates off in order whatever fails in between: each call
\* carries out the planned call after the successful ones, no step makes more calls
\* than planned, and a completed step has carried out its whole template.
THEOREM TemplatesFollowed == LoopSpec => []CallsFollowTemplate
<1>1. LoopInit => TemplateInv
  <2>. SUFFICES ASSUME LoopInit PROVE TemplateInv
    OBVIOUS
  <2>1. /\ pc = "starting" /\ state.toolCalls = <<>> /\ state.plan = <<>> /\ state.stepStatus = <<>>
        /\ planned = [s \in StepId |-> 0] /\ next = 0 /\ asked = <<>>
    BY DEF LoopInit, Init, InitialState
  <2>2. \A s : CallsOfStep(state, s) = {} /\ Succeeded(s) = {} /\ Count(s) = 0
    BY <2>1, FS_EmptySet DEF CallsOfStep, Succeeded, Count
  <2>3. CallsFollowTemplate
    BY <2>1, <2>2 DEF CallsFollowTemplate
  <2>. QED
    BY <2>1, <2>2, <2>3 DEF TemplateInv
<1>2. TemplateInv => CallsFollowTemplate
  BY DEF TemplateInv
<1>. QED
  BY <1>1, <1>2, TemplateStep, RunStays, PTL DEF LoopSpec
=============================================================================

---------------------------- MODULE DispatchProofs ----------------------------
(***************************************************************************)
(* Machine-checked proofs about the order of events in the trajectory:     *)
(* what a dispatch follows, what becomes of a scheduled retry, and how     *)
(* many calls one decision causes.                                         *)
(***************************************************************************)
EXTENDS LifecycleProofs

Late == {"stopping", "containing", "returned", "leaked"}
LastEvent == trajectory[Len(trajectory)]

-----------------------------------------------------------------------------
(* What the steps record                                                   *)

\* Nothing: a stutter, an exception of the planner or of a save, or a blocked call.
Silent ==
  /\ trajectory' = trajectory /\ LastCall' = LastCall
  /\ \/ UNCHANGED <<pc, state, outcome, attempts>>
     \/ /\ pc \in {"starting", "planning", "iterating", "deciding"}
        /\ pc' \in {"finishing", "containing", "leaked"}
     \/ /\ pc = "dispatching" /\ pc' = "finishing" /\ outcome'.status = "failed"
        /\ outcome'.stopReason \in BUDGET_STOP_REASONS
     \/ /\ pc \in {"stopping", "containing"} /\ pc' \in {"containing", "leaked"}
        /\ outcome' = outcome /\ StoreMayFail

\* The planner's decision.
Decided ==
  /\ pc = "deciding" /\ pc' \in {"finishing", "dispatching"} /\ state' = state
  /\ pc' = "dispatching" => attempts' = 0
  /\ RecordDecision

\* A call, created and started.
Dispatched ==
  /\ pc = "dispatching" /\ pc' = "executing" /\ attempts' = attempts
  /\ LastCall' = LastCall + 1
  /\ \E created, started :
       /\ created.type = "tool_call_created" /\ created.call = LastCall + 1
       /\ created.step = state.currentStep
       /\ started.type = "tool_started"
       /\ Record(<<created, started>>)

\* A failed call that is to be made again.
Retried ==
  /\ pc = "executing" /\ pc' \in {"dispatching", "containing"}
  /\ pc' = "containing" => StoreMayFail
  /\ attempts' = attempts + 1 /\ LastCall' = LastCall
  /\ state'.currentStep = state.currentStep
  /\ \E failed, retry :
       /\ failed.type = "tool_failed"
       /\ retry.type = "retry_scheduled" /\ retry.call = LastCall
       /\ retry.step = state.currentStep
       /\ Record(<<failed, retry>>)

\* One event of another kind.
Other ==
  /\ pc # "dispatching" /\ pc' \notin {"dispatching", "executing"}
  /\ pc \in Late => outcome' = outcome /\ pc' \in Late
  /\ pc # "leaked"
  /\ \E e :
       /\ e.type \notin {"planner_decision", "tool_call_created", "retry_scheduled"}
       /\ pc = "finishing" /\ outcome.status = "failed" =>
            /\ e.type = "step_failed" /\ outcome' = outcome
            /\ outcome.stopReason # None => pc' \in Late
       /\ pc = "containing" => e.type = "investigation_failed"
       /\ Record(<<e>>)

\* Every step does one of the five.
LEMMA EventStep ==
  ASSUME TypeInv, [Next]_vars
  PROVE  Silent \/ Decided \/ Dispatched \/ Retried \/ Other
<1>0. /\ state \in RuntimeState /\ outcome \in Outcome
      /\ state.toolCalls \in Seq(Call) /\ LastCall = Len(state.toolCalls) /\ LastCall \in Nat
  BY DEF TypeInv, TypeOK, RuntimeState, LastCall
<1>E. \A type, step, call, result :
        LET e == EventOf(type, step, call, result) IN
        e.type = type /\ e.step = step /\ e.call = call
  BY DEF EventOf
<1>T. ASSUME NEW status, NEW reason, NEW event \in FinalEvent, NEW onError \in {"containing", "leaked"},
             Terminate(status, reason, event, onError),
             pc \in {"planning", "iterating", "stopping", "containing"},
             pc = "containing" => event = "investigation_failed"
      PROVE  Silent \/ Other
  <2>1. outcome' = outcome /\ LastCall' = LastCall
    BY <1>0, <1>T DEF Terminate, locals, RuntimeState, LastCall
  <2>2. CASE pc' = "returned"
    <3>1. Record(<<RunEvent(event)>>) /\ RunEvent(event).type = event
      BY <1>E, <1>T, <2>2 DEF Terminate, RunEvent
    <3>2. event \notin {"planner_decision", "tool_call_created", "retry_scheduled"}
      BY DEF FinalEvent
    <3>. QED
      BY <1>T, <2>1, <2>2, <3>1, <3>2 DEF Other, Late
  <2>3. CASE pc' # "returned"
    <3>1. trajectory' = trajectory /\ pc' = onError /\ StoreMayFail
      BY <1>T, <2>3 DEF Terminate, SaveState
    <3>. QED
      BY <1>T, <2>1, <3>1 DEF Silent
  <2>. QED
    BY <2>2, <2>3
<1>1. CASE StartRun
  <2>1. CASE pc' = "leaked"
    BY <1>1, <2>1 DEF StartRun, Silent, LastCall
  <2>2. CASE pc' # "leaked"
    <3>1. /\ pc = "starting" /\ pc' = "planning" /\ Record(<<RunEvent("investigation_started")>>)
          /\ RunEvent("investigation_started").type = "investigation_started"
      BY <1>1, <1>E, <2>2 DEF StartRun, RunEvent
    <3>. QED
      BY <3>1 DEF Other, Late
  <2>. QED
    BY <2>1, <2>2
<1>2. ASSUME NEW plan \in Plan, PlannerCreatesPlan(plan) PROVE Other
  <2>1. /\ pc = "planning" /\ pc' \in {"iterating", "containing"} /\ Record(<<RunEvent("plan_created")>>)
        /\ RunEvent("plan_created").type = "plan_created"
    BY <1>2, <1>E DEF PlannerCreatesPlan, SaveState, RunEvent
  <2>. QED
    BY <2>1 DEF Other, Late
<1>3. CASE PlannerFailsToPlan
  BY <1>3, <1>T DEF PlannerFailsToPlan, FinalEvent
<1>4. CASE StepBudgetSpent \/ PlanFinished
  BY <1>4, <1>T DEF StepBudgetSpent, PlanFinished, FinalEvent
<1>5. CASE StopRun
  BY <1>5, <1>T DEF StopRun, FinalEvent
<1>6. CASE ContainError
  BY <1>6, <1>T DEF ContainError, FinalEvent
<1>7. CASE StartStep
  <2>1. /\ pc = "iterating" /\ pc' \in {"deciding", "containing"} /\ Record(<<StepEvent("step_started")>>)
        /\ StepEvent("step_started").type = "step_started"
    BY <1>7, <1>E DEF StartStep, SaveState, StepEvent
  <2>. QED
    BY <2>1 DEF Other, Late
<1>8. CASE FinishStep
  <2>. DEFINE type == IF outcome.status = "completed" THEN "step_completed" ELSE "step_failed"
  <2>1. /\ pc = "finishing" /\ Record(<<StepEvent(type)>>) /\ outcome' = outcome
        /\ pc' \in {"iterating", "stopping", "containing"}
        /\ outcome.stopReason # None => pc' \in {"stopping", "containing"}
        /\ StepEvent(type).type = type
    BY <1>8, <1>E DEF FinishStep, SaveState, StepEvent
  <2>2. type \notin {"planner_decision", "tool_call_created", "retry_scheduled"}
    OBVIOUS
  <2>3. outcome.status = "failed" => type = "step_failed"
    OBVIOUS
  <2>. HIDE DEF type
  <2>. QED
    BY <2>1, <2>2, <2>3 DEF Other, Late
<1>9. CASE PlannerCompletesStep \/ PlannerFailsStep \/ PlannerCallsTool
  BY <1>9 DEF PlannerCompletesStep, PlannerFailsStep, PlannerCallsTool, StepEndsWith, Decided
<1>10. CASE PlannerRaises
  BY <1>10 DEF PlannerRaises, StepEndsWith, Silent, LastCall
<1>11. CASE DispatchBlocked
  <2>1. BlockReason \in BUDGET_STOP_REASONS
    BY <1>11 DEF DispatchBlocked, BlockReason, BUDGET_STOP_REASONS
  <2>. QED
    BY <1>11, <2>1 DEF DispatchBlocked, StepEndsWith, FailedWith, Silent, LastCall
<1>12. CASE DispatchCall
  <2>1. /\ pc = "dispatching" /\ pc' = "executing" /\ attempts' = attempts
        /\ state'.toolCalls = Append(state.toolCalls, [step |-> state.currentStep, status |-> "running"])
        /\ state'.currentStep = state.currentStep
        /\ Record(<<CallEvent("tool_call_created", LastCall + 1, 0),
                    CallEvent("tool_started", LastCall + 1, 0)>>)
    BY <1>0, <1>12 DEF DispatchCall, locals, RuntimeState
  <2>2. LastCall' = LastCall + 1
    BY <1>0, <2>1 DEF LastCall
  <2>. DEFINE created == CallEvent("tool_call_created", LastCall + 1, 0)
              started == CallEvent("tool_started", LastCall + 1, 0)
  <2>3. /\ created.type = "tool_call_created" /\ created.call = LastCall + 1
        /\ created.step = state.currentStep /\ started.type = "tool_started"
        /\ Record(<<created, started>>)
    BY <1>E, <2>1 DEF CallEvent
  <2>. HIDE DEF created, started
  <2>. QED
    BY <2>1, <2>2, <2>3 DEF Dispatched
<1>13. CASE ExecutorSucceeds \/ ExecutorRaises
  <2>1. PICK e : Record(<<e>>) /\ e.type \in {"tool_succeeded", "tool_failed"}
    <3>. DEFINE good == CallEvent("tool_succeeded", LastCall, Len(state'.toolResults))
                bad == CallEvent("tool_failed", LastCall, 0)
    <3>1. good.type = "tool_succeeded" /\ bad.type = "tool_failed"
      BY <1>E DEF CallEvent
    <3>2. Record(<<good>>) \/ Record(<<bad>>)
      BY <1>13 DEF ExecutorSucceeds, ExecutorRaises
    <3>. HIDE DEF good, bad
    <3>. QED
      BY <3>1, <3>2
  <2>2. pc = "executing" /\ pc' \in {"deciding", "finishing", "containing"}
    BY <1>13 DEF ExecutorSucceeds, ExecutorRaises, SaveState
  <2>. QED
    BY <2>1, <2>2 DEF Other, Late
<1>14. ASSUME NEW kind \in FailureKind, ExecutorFails(kind) PROVE Retried \/ Other
  <2>. DEFINE failed == CallEvent("tool_failed", LastCall, Len(state'.toolResults))
              retry == CallEvent("retry_scheduled", LastCall, 0)
  <2>1. /\ pc = "executing" /\ attempts' = attempts + 1
        /\ state'.currentStep = state.currentStep /\ LastCall' = LastCall
    <3>1. state'.toolCalls = [state.toolCalls EXCEPT ![LastCall].status = "failed"]
      BY <1>0, <1>14 DEF ExecutorFails, AnswerCall, RuntimeState
    <3>2. Len(state'.toolCalls) = Len(state.toolCalls)
      BY <1>0, <3>1
    <3>. QED
      BY <1>0, <1>14, <3>2 DEF ExecutorFails, AnswerCall, RuntimeState, LastCall
  <2>2. CASE ShouldRetry(kind, attempts + 1)
    <3>1. /\ Record(<<failed, retry>>) /\ pc' \in {"dispatching", "containing"}
          /\ pc' = "containing" => StoreMayFail
      BY <1>14, <2>2 DEF ExecutorFails, SaveState
    <3>2. /\ failed.type = "tool_failed" /\ retry.type = "retry_scheduled"
          /\ retry.call = LastCall /\ retry.step = state.currentStep
      BY <1>E, <2>1 DEF CallEvent
    <3>. HIDE DEF failed, retry
    <3>. QED
      BY <2>1, <3>1, <3>2 DEF Retried
  <2>3. CASE ~ShouldRetry(kind, attempts + 1)
    <3>1. Record(<<failed>>) /\ pc' \in {"finishing", "containing"}
      BY <1>14, <2>3 DEF ExecutorFails, SaveState
    <3>2. failed.type = "tool_failed"
      BY <1>E DEF CallEvent
    <3>. HIDE DEF failed
    <3>. QED
      BY <2>1, <3>1, <3>2 DEF Other, Late
  <2>. QED
    BY <2>2, <2>3
<1>15. CASE Finished \/ UNCHANGED vars
  BY <1>15 DEF Finished, vars, Silent, LastCall
<1>. QED
  BY <1>1, <1>2, <1>3, <1>4, <1>5, <1>6, <1>7, <1>8, <1>9, <1>10, <1>11, <1>12, <1>13, <1>14, <1>15
  DEF Next

-----------------------------------------------------------------------------
(* What a dispatch follows                                                 *)

\* Whoever is about to dispatch has just recorded the decision or the retry it
\* carries out.
AskedInv ==
  /\ pc = "dispatching" =>
       /\ Len(trajectory) > 0
       /\ LastEvent.type \in {"planner_decision", "retry_scheduled"}
       /\ LastEvent.step = state.currentStep
       /\ LastEvent.type = "retry_scheduled" => LastEvent.call = LastCall
  /\ \A i \in EventIndex : trajectory[i].type = "tool_call_created" =>
       /\ i > 1
       /\ trajectory[i - 1].type \in {"planner_decision", "retry_scheduled"}
       /\ trajectory[i - 1].step = trajectory[i].step

\* Events that are no calls keep the rule for those that are.
LEMMA AskedKept ==
  ASSUME TypeInv, AskedInv, NEW m \in {0, 1, 2}, Extended(m),
         \A i \in (Len(trajectory) + 1)..(Len(trajectory) + m) :
           trajectory'[i].type # "tool_call_created",
         pc' = "dispatching" =>
           /\ Len(trajectory') > 0
           /\ LastEvent'.type \in {"planner_decision", "retry_scheduled"}
           /\ LastEvent'.step = state'.currentStep
           /\ LastEvent'.type = "retry_scheduled" => LastEvent'.call = LastCall'
  PROVE  AskedInv'
<1>1. Len(trajectory) \in Nat
  BY DEF TypeInv, TypeOK
<1>2. ASSUME NEW i \in EventIndex', trajectory'[i].type = "tool_call_created"
      PROVE  /\ i > 1
             /\ trajectory'[i - 1].type \in {"planner_decision", "retry_scheduled"}
             /\ trajectory'[i - 1].step = trajectory'[i].step
  <2>1. i \in EventIndex
    BY <1>1, <1>2 DEF Extended, EventIndex
  <2>2. /\ i > 1 /\ trajectory[i - 1].type \in {"planner_decision", "retry_scheduled"}
        /\ trajectory[i - 1].step = trajectory[i].step
    BY <1>2, <2>1 DEF AskedInv, Extended, EventIndex
  <2>. QED
    BY <1>1, <2>1, <2>2 DEF Extended, EventIndex
<1>. QED
  BY <1>2 DEF AskedInv

\* A call follows its decision or its retry, whatever the step does.
LEMMA AskedStep ==
  ASSUME TypeInv, AskedInv, [Next]_vars
  PROVE  AskedInv'
<1>. DEFINE n == Len(trajectory)
<1>0. trajectory \in Seq(Event) /\ n \in Nat
  BY DEF TypeInv, TypeOK
<1>1. CASE Silent
  <2>1. pc' = "dispatching" => pc = "dispatching" /\ state' = state
    BY <1>1 DEF Silent
  <2>2. Extended(0) /\ LastEvent' = LastEvent /\ LastCall' = LastCall /\ trajectory' = trajectory
    BY <1>0, <1>1 DEF Silent, Extended, LastEvent
  <2>. QED
    BY <1>0, <2>1, <2>2, AskedKept DEF AskedInv
<1>2. CASE Decided
  <2>1. /\ Extended(1) /\ state' = state
        /\ trajectory'[n + 1] = EventOf("planner_decision", state.currentStep, 0, 0)
    BY <1>0, <1>2, RecordOneEffect DEF Decided, RecordDecision
  <2>2. /\ LastEvent' = trajectory'[n + 1] /\ LastEvent'.type = "planner_decision"
        /\ LastEvent'.step = state.currentStep
    BY <1>0, <2>1 DEF LastEvent, Extended, EventOf
  <2>3. \A i \in (n + 1)..(n + 1) : trajectory'[i].type # "tool_call_created"
    BY <1>0, <2>2
  <2>. QED
    BY <1>0, <2>1, <2>2, <2>3, AskedKept DEF Extended
<1>3. CASE Dispatched
  <2>1. PICK created, started :
          /\ created.type = "tool_call_created" /\ created.step = state.currentStep
          /\ started.type = "tool_started"
          /\ Record(<<created, started>>)
    BY <1>3 DEF Dispatched
  <2>2. /\ Extended(2) /\ trajectory'[n + 1] = created /\ trajectory'[n + 2] = started
    BY <1>0, <2>1, RecordTwoEffect
  <2>3. /\ n > 0 /\ trajectory[n].type \in {"planner_decision", "retry_scheduled"}
        /\ trajectory[n].step = state.currentStep
    BY <1>3 DEF Dispatched, AskedInv, LastEvent
  <2>4. ASSUME NEW i \in EventIndex', trajectory'[i].type = "tool_call_created"
        PROVE  /\ i > 1
               /\ trajectory'[i - 1].type \in {"planner_decision", "retry_scheduled"}
               /\ trajectory'[i - 1].step = trajectory'[i].step
    <3>1. CASE i \in 1..n
      <4>1. /\ i > 1 /\ trajectory[i - 1].type \in {"planner_decision", "retry_scheduled"}
            /\ trajectory[i - 1].step = trajectory[i].step
        BY <2>2, <2>4, <3>1 DEF AskedInv, Extended, EventIndex
      <4>. QED
        BY <1>0, <2>2, <3>1, <4>1 DEF Extended
    <3>2. CASE i = n + 1
      BY <1>0, <2>1, <2>2, <2>3, <3>2 DEF Extended
    <3>. QED
      BY <1>0, <2>1, <2>2, <2>4, <3>1, <3>2 DEF Extended, EventIndex
  <2>. QED
    BY <1>3, <2>4 DEF Dispatched, AskedInv
<1>4. CASE Retried
  <2>1. PICK failed, retry :
          /\ failed.type = "tool_failed" /\ retry.type = "retry_scheduled" /\ retry.call = LastCall
          /\ retry.step = state.currentStep
          /\ Record(<<failed, retry>>)
    BY <1>4 DEF Retried
  <2>2. /\ Extended(2) /\ trajectory'[n + 1] = failed /\ trajectory'[n + 2] = retry
    BY <1>0, <2>1, RecordTwoEffect
  <2>3. LastEvent' = retry /\ LastCall' = LastCall /\ state'.currentStep = state.currentStep
    BY <1>0, <1>4, <2>2 DEF LastEvent, Extended, Retried
  <2>4. \A i \in (n + 1)..(n + 2) : trajectory'[i].type # "tool_call_created"
    <3>1. \A i \in (n + 1)..(n + 2) : i = n + 1 \/ i = n + 2
      BY <1>0
    <3>. QED
      BY <2>1, <2>2, <3>1
  <2>. QED
    BY <1>0, <2>1, <2>2, <2>3, <2>4, AskedKept DEF Extended
<1>5. CASE Other
  <2>1. PICK e : e.type # "tool_call_created" /\ Record(<<e>>)
    BY <1>5 DEF Other
  <2>2. Extended(1) /\ trajectory'[n + 1] = e
    BY <1>0, <2>1, RecordOneEffect
  <2>3. \A i \in (n + 1)..(n + 1) : trajectory'[i].type # "tool_call_created"
    BY <1>0, <2>1, <2>2
  <2>4. pc' # "dispatching"
    BY <1>5 DEF Other
  <2>. QED
    BY <2>2, <2>3, <2>4, AskedKept
<1>. QED
  BY <1>1, <1>2, <1>3, <1>4, <1>5, EventStep

-----------------------------------------------------------------------------
(* What becomes of a retry                                                 *)

\* What may follow the retry at i: its call, or the end of the run.
Pursuit(i) ==
  \/ trajectory[i + 1].type = "tool_call_created" /\ trajectory[i + 1].call = trajectory[i].call + 1
  \/ /\ trajectory[i + 1].type = "step_failed"
     /\ outcome.stopReason \in BUDGET_STOP_REASONS /\ pc \in Late
  \/ trajectory[i + 1].type = "investigation_failed" /\ StoreMayFail

\* A retry that nothing follows yet is about to be dispatched, was blocked by a
\* budget, or was lost to a failing save.
RetryInv ==
  /\ \A i \in 1..(Len(trajectory) - 1) : trajectory[i].type = "retry_scheduled" => Pursuit(i)
  /\ Len(trajectory) > 0 /\ LastEvent.type = "retry_scheduled" =>
       \/ pc = "dispatching" /\ LastEvent.call = LastCall
       \/ /\ pc = "finishing" /\ outcome.status = "failed"
          /\ outcome.stopReason \in BUDGET_STOP_REASONS
       \/ pc \in {"containing", "leaked"} /\ StoreMayFail

\* The reason that ended the step after a retry stays the reason of the run.
LEMMA PursuitStays ==
  ASSUME TypeInv, RetryInv, [Next]_vars, NEW m \in {0, 1, 2}, Extended(m)
  PROVE  \A i \in 1..(Len(trajectory) - 1) : trajectory'[i].type = "retry_scheduled" => Pursuit(i)'
<1>0. Len(trajectory) \in Nat
  BY DEF TypeInv, TypeOK
<1>1. pc \in Late => pc' \in Late /\ outcome' = outcome
  BY EventStep DEF Silent, Decided, Dispatched, Retried, Other, Late
<1>2. ASSUME NEW i \in 1..(Len(trajectory) - 1), trajectory'[i].type = "retry_scheduled"
      PROVE  Pursuit(i)'
  <2>1. trajectory'[i] = trajectory[i] /\ trajectory'[i + 1] = trajectory[i + 1]
    BY <1>0 DEF Extended
  <2>2. Pursuit(i)
    BY <1>2, <2>1 DEF RetryInv
  <2>. QED
    BY <1>1, <2>1, <2>2 DEF Pursuit, Late
<1>. QED
  BY <1>2

\* A retry is pursued, or the run ends on it.
LEMMA RetryStep ==
  ASSUME TypeInv, RetryInv, [Next]_vars
  PROVE  RetryInv'
<1>. DEFINE Loose == Len(trajectory) > 0 /\ LastEvent.type = "retry_scheduled"
<1>N. trajectory \in Seq(Event) /\ Len(trajectory) \in Nat
  BY DEF TypeInv, TypeOK
<1>0. PICK n \in Nat : n = Len(trajectory) /\ trajectory \in Seq(Event)
  BY <1>N
<1>A. ASSUME NEW m \in {1, 2}, Extended(m), Loose => Pursuit(n)',
             m = 2 => trajectory'[n + 1].type # "retry_scheduled",
             trajectory'[n + m].type = "retry_scheduled" =>
               \/ pc' = "dispatching" /\ trajectory'[n + m].call = LastCall'
               \/ pc' \in {"containing", "leaked"} /\ StoreMayFail
      PROVE  RetryInv'
  <2>1. LastEvent' = trajectory'[n + m] /\ Len(trajectory') = n + m
    BY <1>0, <1>A DEF LastEvent, Extended
  <2>2. ASSUME NEW i \in 1..(Len(trajectory') - 1), trajectory'[i].type = "retry_scheduled"
        PROVE  Pursuit(i)'
    <3>1. CASE i \in 1..(n - 1)
      BY <1>0, <1>A, <2>2, <3>1, PursuitStays
    <3>2. CASE i = n
      <4>1. n \in 1..n /\ trajectory'[n] = LastEvent
        BY <1>0, <1>A, <3>2 DEF LastEvent, Extended
      <4>. QED
        BY <1>0, <1>A, <2>2, <3>2, <4>1 DEF Pursuit
    <3>. QED
      BY <1>0, <1>A, <2>1, <2>2, <3>1, <3>2
  <2>. QED
    BY <1>0, <1>A, <2>1, <2>2 DEF RetryInv
<1>1. CASE Silent
  <2>1. trajectory' = trajectory /\ Extended(0) /\ LastEvent' = LastEvent /\ LastCall' = LastCall
    BY <1>0, <1>1 DEF Silent, Extended, LastEvent
  <2>2. Loose =>
          \/ pc' = "dispatching" /\ LastEvent.call = LastCall
          \/ /\ pc' = "finishing" /\ outcome'.status = "failed"
             /\ outcome'.stopReason \in BUDGET_STOP_REASONS
          \/ pc' \in {"containing", "leaked"} /\ StoreMayFail
    BY <1>1 DEF Silent, RetryInv
  <2>. QED
    BY <1>0, <2>1, <2>2, PursuitStays DEF RetryInv
<1>2. CASE Decided
  <2>1. Extended(1) /\ trajectory'[n + 1] = EventOf("planner_decision", state.currentStep, 0, 0)
    BY <1>0, <1>2, RecordOneEffect DEF Decided, RecordDecision
  <2>2. ~Loose /\ trajectory'[n + 1].type # "retry_scheduled"
    BY <1>2, <2>1 DEF Decided, RetryInv, EventOf
  <2>. QED
    BY <1>0, <1>A, <2>1, <2>2
<1>3. CASE Dispatched
  <2>1. PICK created, started :
          /\ created.type = "tool_call_created" /\ created.call = LastCall + 1
          /\ started.type = "tool_started"
          /\ Record(<<created, started>>)
    BY <1>3 DEF Dispatched
  <2>2. /\ Extended(2) /\ trajectory'[n + 1] = created /\ trajectory'[n + 2] = started
    BY <1>0, <2>1, RecordTwoEffect
  <2>3. Loose => Pursuit(n)'
    <3>1. Loose => LastEvent.call = LastCall /\ trajectory'[n] = LastEvent
      BY <1>0, <1>3, <2>2 DEF Dispatched, RetryInv, Extended, LastEvent
    <3>. QED
      BY <2>1, <2>2, <3>1 DEF Pursuit
  <2>. QED
    BY <1>0, <1>A, <2>1, <2>2, <2>3
<1>4. CASE Retried
  <2>1. PICK failed, retry :
          /\ failed.type = "tool_failed" /\ retry.type = "retry_scheduled" /\ retry.call = LastCall
          /\ Record(<<failed, retry>>)
    BY <1>4 DEF Retried
  <2>2. /\ Extended(2) /\ trajectory'[n + 1] = failed /\ trajectory'[n + 2] = retry
    BY <1>0, <2>1, RecordTwoEffect
  <2>3. ~Loose
    BY <1>4 DEF Retried, RetryInv
  <2>. QED
    BY <1>0, <1>4, <1>A, <2>1, <2>2, <2>3 DEF Retried
<1>5. CASE Other
  <2>1. PICK e :
          /\ e.type # "retry_scheduled"
          /\ pc = "finishing" /\ outcome.status = "failed" =>
               /\ e.type = "step_failed" /\ outcome' = outcome
               /\ outcome.stopReason # None => pc' \in Late
          /\ pc = "containing" => e.type = "investigation_failed"
          /\ Record(<<e>>)
    BY <1>5 DEF Other
  <2>2. Extended(1) /\ trajectory'[n + 1] = e
    BY <1>0, <2>1, RecordOneEffect
  <2>3. Loose => Pursuit(n)'
    <3>1. None \notin BUDGET_STOP_REASONS
      BY NoneAssumption DEF StopReason
    <3>. QED
      BY <1>0, <1>5, <2>1, <2>2, <3>1 DEF Other, RetryInv, Pursuit
  <2>. QED
    BY <1>0, <1>A, <2>1, <2>2, <2>3
<1>. QED
  BY <1>1, <1>2, <1>3, <1>4, <1>5, EventStep

-----------------------------------------------------------------------------
(* How many calls one decision causes                                      *)

Calls(t, i, j) == {k \in i..j : t[k].type = "tool_call_created"}
Undecided(t, i, j) == \A k \in i..j : t[k].type # "planner_decision"

\* The calls the current decision may have caused so far.
Allowance ==
  IF pc = "dispatching" THEN attempts
  ELSE IF pc = "executing" THEN attempts + 1
  ELSE MaxAttempts

AttemptInv ==
  /\ \A i, j \in EventIndex :
       Undecided(trajectory, i, j) => Cardinality(Calls(trajectory, i, j)) <= MaxAttempts
  /\ \A i \in EventIndex :
       Undecided(trajectory, i, Len(trajectory)) =>
         Cardinality(Calls(trajectory, i, Len(trajectory))) <= Allowance

LEMMA CallsFinite ==
  ASSUME NEW t, NEW i \in Nat, NEW j \in Nat
  PROVE  /\ IsFiniteSet(Calls(t, i, j)) /\ Cardinality(Calls(t, i, j)) \in Nat
         /\ i > j => Cardinality(Calls(t, i, j)) = 0
<1>1. IsFiniteSet(i..j)
  BY FS_Interval
<1>2. IsFiniteSet(Calls(t, i, j))
  BY <1>1, FS_Subset DEF Calls
<1>3. i > j => Calls(t, i, j) = {}
  BY DEF Calls
<1>. QED
  BY <1>2, <1>3, FS_CardinalityType, FS_EmptySet

\* No decision has used more calls than the limit allows.
LEMMA AllowanceBounded ==
  ASSUME TypeInv, BudgetInv
  PROVE  Allowance \in Nat /\ Allowance <= MaxAttempts
<1>1. attempts \in Nat /\ MaxAttempts \in Nat \ {0}
  BY LimitAssumption DEF TypeInv, TypeOK
<1>. QED
  BY <1>1 DEF Allowance, BudgetInv

\* A step that records c calls and raises the allowance by c keeps the bound.
LEMMA AttemptsGrow ==
  ASSUME TypeInv, BudgetInv, AttemptInv, NEW m \in {0, 1, 2}, Extended(m), NEW c \in {0, 1},
         \A k \in (Len(trajectory) + 1)..(Len(trajectory) + m) :
           trajectory'[k].type = "tool_call_created" => c = 1 /\ k = Len(trajectory) + 1,
         Allowance' \in Nat, Allowance' >= Allowance + c, Allowance' <= MaxAttempts
  PROVE  AttemptInv'
<1>N. Len(trajectory) \in Nat /\ Allowance \in Nat /\ MaxAttempts \in Nat
  BY AllowanceBounded, LimitAssumption DEF TypeInv, TypeOK
<1>0. PICK n \in Nat : n = Len(trajectory)
  BY <1>N
<1>1. Len(trajectory') = n + m /\ \A k \in 1..n : trajectory'[k] = trajectory[k]
  BY <1>0 DEF Extended
<1>2. ASSUME NEW i \in 1..(n + m), NEW j \in 1..(n + m), Undecided(trajectory', i, j),
             j > n \/ i > n
      PROVE  Cardinality(Calls(trajectory', i, j)) <= Allowance'
  <2>1. CASE i > j
    BY <1>N, <2>1, CallsFinite
  <2>2. CASE i <= j
    <3>. DEFINE L == Calls(trajectory, i, n)
                C == Calls(trajectory', i, j)
    <3>1. IsFiniteSet(L) /\ Cardinality(L) \in Nat /\ IsFiniteSet(C) /\ Cardinality(C) \in Nat
      BY CallsFinite
    <3>2. Cardinality(L) <= Allowance
      <4>1. CASE i > n
        BY <1>N, <4>1, CallsFinite
      <4>2. CASE i <= n
        <5>1. i \in EventIndex /\ Undecided(trajectory, i, n)
          BY <1>0, <1>1, <1>2, <2>2, <4>2 DEF EventIndex, Undecided
        <5>. QED
          BY <1>0, <5>1 DEF AttemptInv
      <4>. QED
        BY <4>1, <4>2
    <3>3. C \subseteq L \cup {n + 1}
      BY <1>0, <1>1 DEF Calls
    <3>4. c = 0 => C \subseteq L
      BY <1>0, <1>1 DEF Calls
    <3>5. IsFiniteSet(L \cup {n + 1}) /\ Cardinality(L \cup {n + 1}) <= Cardinality(L) + 1
      <4>1. n + 1 \notin L
        BY DEF Calls
      <4>. HIDE DEF L
      <4>2. /\ IsFiniteSet(L \cup {n + 1})
            /\ Cardinality(L \cup {n + 1}) = Cardinality(L) + 1
        BY <3>1, <4>1, FS_AddElement
      <4>. QED
        BY <3>1, <4>2
    <3>6. Cardinality(C) <= Cardinality(L) + c
      <4>1. c = 0 => Cardinality(C) <= Cardinality(L)
        BY <3>1, <3>4, FS_Subset
      <4>2. Cardinality(C) <= Cardinality(L \cup {n + 1}) /\ Cardinality(L \cup {n + 1}) \in Nat
        BY <3>3, <3>5, FS_Subset, FS_CardinalityType
      <4>. QED
        BY <3>1, <3>5, <4>1, <4>2
    <3>. QED
      BY <1>N, <3>1, <3>2, <3>6
  <2>. QED
    BY <2>1, <2>2
<1>3. ASSUME NEW i \in 1..n, NEW j \in 1..n, Undecided(trajectory', i, j)
      PROVE  /\ Undecided(trajectory, i, j)
             /\ Calls(trajectory', i, j) = Calls(trajectory, i, j)
  BY <1>1, <1>3 DEF Undecided, Calls
<1>4. ASSUME NEW i \in EventIndex', NEW j \in EventIndex', Undecided(trajectory', i, j)
      PROVE  Cardinality(Calls(trajectory', i, j)) <= MaxAttempts
  <2>1. i \in 1..(n + m) /\ j \in 1..(n + m)
    BY <1>1, <1>4 DEF EventIndex
  <2>2. CASE j > n \/ i > n
    BY <1>2, <1>4, <1>N, <2>1, <2>2, CallsFinite
  <2>3. CASE ~(j > n \/ i > n)
    <3>1. i \in 1..n /\ j \in 1..n
      BY <2>1, <2>3
    <3>. QED
      BY <1>0, <1>3, <1>4, <3>1 DEF AttemptInv, EventIndex
  <2>. QED
    BY <2>2, <2>3
<1>5. ASSUME NEW i \in EventIndex', Undecided(trajectory', i, n + m)
      PROVE  Cardinality(Calls(trajectory', i, n + m)) <= Allowance'
  <2>1. i \in 1..(n + m) /\ n + m \in 1..(n + m)
    BY <1>1, <1>5 DEF EventIndex
  <2>2. CASE n + m > n
    BY <1>2, <1>5, <2>1, <2>2
  <2>3. CASE n + m = n
    <3>1. /\ Undecided(trajectory, i, n) /\ Calls(trajectory', i, n) = Calls(trajectory, i, n)
          /\ i \in EventIndex
      BY <1>0, <1>3, <1>5, <2>1, <2>3 DEF EventIndex
    <3>2. Cardinality(Calls(trajectory', i, n)) <= Allowance
      BY <1>0, <3>1 DEF AttemptInv
    <3>. QED
      BY <1>N, <2>1, <2>3, <3>2, CallsFinite
  <2>. QED
    BY <2>2, <2>3
<1>. QED
  BY <1>1, <1>4, <1>5 DEF AttemptInv

\* One decision causes no more calls than the limit, whatever the step does.
LEMMA AttemptStep ==
  ASSUME TypeInv, BudgetInv, BudgetInv', TypeInv', AttemptInv, [Next]_vars
  PROVE  AttemptInv'
<1>N. trajectory \in Seq(Event) /\ Len(trajectory) \in Nat
  BY DEF TypeInv, TypeOK
<1>0. PICK n \in Nat : n = Len(trajectory)
  BY <1>N
<1>A. /\ Allowance \in Nat /\ Allowance <= MaxAttempts
      /\ Allowance' \in Nat /\ Allowance' <= MaxAttempts
      /\ attempts \in Nat /\ MaxAttempts \in Nat
  <2>1. Allowance' \in Nat /\ Allowance' <= MaxAttempts
    <3>1. attempts' \in Nat /\ MaxAttempts \in Nat
      BY LimitAssumption DEF TypeInv, TypeOK
    <3>2. pc' \in {"dispatching", "executing"} => attempts' < MaxAttempts
      BY DEF BudgetInv
    <3>3. PICK used \in Nat, limit \in Nat : used = attempts' /\ limit = MaxAttempts
      BY <3>1
    <3>4. \/ Allowance' = limit
          \/ Allowance' = used /\ used < limit
          \/ Allowance' = used + 1 /\ used < limit
      BY <3>2, <3>3 DEF Allowance
    <3>5. \A a \in Nat, b \in Nat : a < b => a + 1 \in Nat /\ a + 1 <= b /\ a <= b
      OBVIOUS
    <3>6. limit <= limit
      OBVIOUS
    <3>. QED
      BY <3>3, <3>4, <3>5, <3>6, Zenon
  <2>. QED
    BY <2>1, AllowanceBounded, LimitAssumption DEF TypeInv, TypeOK
<1>1. CASE Silent
  <2>1. trajectory' = trajectory /\ Extended(0)
    BY <1>0, <1>N, <1>1 DEF Silent, Extended
  <2>2. Allowance' >= Allowance + 0
    <3>1. Allowance' = Allowance \/ Allowance' = MaxAttempts
      BY <1>1 DEF Silent, Allowance
    <3>. QED
      BY <1>A, <3>1
  <2>3. \A k \in (n + 1)..(n + 0) : trajectory'[k].type = "tool_call_created" => 0 = 1 /\ k = n + 1
    BY <1>0
  <2>. QED
    BY <1>0, <1>A, <2>1, <2>2, <2>3, AttemptsGrow
<1>2. CASE Decided
  <2>1. Extended(1) /\ trajectory'[n + 1] = EventOf("planner_decision", state.currentStep, 0, 0)
    BY <1>0, <1>N, <1>2, RecordOneEffect DEF Decided, RecordDecision
  <2>2. /\ Len(trajectory') = n + 1 /\ \A k \in 1..n : trajectory'[k] = trajectory[k]
        /\ trajectory'[n + 1].type = "planner_decision"
    BY <1>0, <2>1 DEF Extended, EventOf
  <2>3. ASSUME NEW i \in 1..(n + 1), NEW j \in 1..(n + 1), Undecided(trajectory', i, j)
        PROVE  j <= n /\ (i <= n => i \in EventIndex /\ j \in EventIndex /\ Undecided(trajectory, i, j)
                                    /\ Calls(trajectory', i, j) = Calls(trajectory, i, j))
    <3>1. j # n + 1
      BY <2>2, <2>3 DEF Undecided
    <3>2. j \in 1..n
      BY <3>1
    <3>. QED
      BY <1>0, <2>2, <2>3, <3>2 DEF Undecided, Calls, EventIndex
  <2>4. ASSUME NEW i \in EventIndex', NEW j \in EventIndex', Undecided(trajectory', i, j)
        PROVE  Cardinality(Calls(trajectory', i, j)) <= MaxAttempts
    <3>1. i \in 1..(n + 1) /\ j \in 1..(n + 1)
      BY <2>2, <2>4 DEF EventIndex
    <3>2. CASE i <= n
      BY <2>3, <2>4, <3>1, <3>2 DEF AttemptInv
    <3>3. CASE i > n
      <4>1. i > j
        BY <2>3, <2>4, <3>1, <3>3
      <4>. QED
        BY <1>A, <3>1, <4>1, CallsFinite
    <3>. QED
      BY <3>1, <3>2, <3>3
  <2>5. \A i \in EventIndex' : ~Undecided(trajectory', i, n + 1)
    <3>1. EventIndex' = 1..(n + 1)
      BY <2>2 DEF EventIndex
    <3>. QED
      BY <2>2, <3>1 DEF Undecided
  <2>. QED
    BY <2>2, <2>4, <2>5 DEF AttemptInv
<1>3. CASE Dispatched
  <2>1. PICK created, started :
          /\ created.type = "tool_call_created" /\ started.type = "tool_started"
          /\ Record(<<created, started>>)
    BY <1>3 DEF Dispatched
  <2>2. /\ Extended(2) /\ trajectory'[n + 1] = created /\ trajectory'[n + 2] = started
    BY <1>0, <1>N, <2>1, RecordTwoEffect
  <2>3. Allowance' >= Allowance + 1
    <3>1. Allowance = attempts /\ Allowance' = attempts + 1
      BY <1>3 DEF Dispatched, Allowance
    <3>. QED
      BY <1>A, <3>1
  <2>4. \A k \in (n + 1)..(n + 2) : trajectory'[k].type = "tool_call_created" => 1 = 1 /\ k = n + 1
    <3>1. \A k \in (n + 1)..(n + 2) : k = n + 1 \/ k = n + 2
      OBVIOUS
    <3>. QED
      BY <2>1, <2>2, <3>1
  <2>. QED
    BY <1>0, <1>A, <2>2, <2>3, <2>4, AttemptsGrow
<1>4. CASE Retried
  <2>1. PICK failed, retry :
          /\ failed.type = "tool_failed" /\ retry.type = "retry_scheduled"
          /\ Record(<<failed, retry>>)
    BY <1>4 DEF Retried
  <2>2. /\ Extended(2) /\ trajectory'[n + 1] = failed /\ trajectory'[n + 2] = retry
    BY <1>0, <1>N, <2>1, RecordTwoEffect
  <2>3. Allowance' >= Allowance + 0
    <3>1. Allowance = attempts + 1 /\ (Allowance' = attempts + 1 \/ Allowance' = MaxAttempts)
      BY <1>4 DEF Retried, Allowance
    <3>. QED
      BY <1>A, <3>1
  <2>4. \A k \in (n + 1)..(n + 2) : trajectory'[k].type = "tool_call_created" => 0 = 1 /\ k = n + 1
    <3>1. \A k \in (n + 1)..(n + 2) : k = n + 1 \/ k = n + 2
      OBVIOUS
    <3>. QED
      BY <2>1, <2>2, <3>1
  <2>. QED
    BY <1>0, <1>A, <2>2, <2>3, <2>4, AttemptsGrow
<1>5. CASE Other
  <2>1. PICK e : e.type # "tool_call_created" /\ Record(<<e>>)
    BY <1>5 DEF Other
  <2>2. Extended(1) /\ trajectory'[n + 1] = e
    BY <1>0, <1>N, <2>1, RecordOneEffect
  <2>3. Allowance' >= Allowance + 0
    <3>1. Allowance' = MaxAttempts
      BY <1>5 DEF Other, Allowance
    <3>. QED
      BY <1>A, <3>1
  <2>4. \A k \in (n + 1)..(n + 1) : trajectory'[k].type = "tool_call_created" => 0 = 1 /\ k = n + 1
    BY <2>1, <2>2
  <2>. QED
    BY <1>0, <1>A, <2>2, <2>3, <2>4, AttemptsGrow
<1>. QED
  BY <1>1, <1>2, <1>3, <1>4, <1>5, EventStep

-----------------------------------------------------------------------------
(* Every dispatch has its reason                                           *)

\* A fresh run has recorded nothing.
LEMMA InitDispatch == Init => AskedInv /\ RetryInv /\ AttemptInv
<1>. SUFFICES ASSUME Init PROVE AskedInv /\ RetryInv /\ AttemptInv
  OBVIOUS
<1>1. Len(trajectory) = 0 /\ pc = "starting" /\ EventIndex = {}
  BY DEF Init, EventIndex
<1>2. 1..(Len(trajectory) - 1) = {}
  BY <1>1
<1>. QED
  BY <1>1, <1>2 DEF AskedInv, RetryInv, AttemptInv

LEMMA DispatchesExplained == AskedInv /\ RetryInv /\ AttemptInv => DispatchesAreJustified
<1>. SUFFICES ASSUME AskedInv, RetryInv, AttemptInv PROVE DispatchesAreJustified
  OBVIOUS
<1>1. ASSUME NEW i \in EventIndex, trajectory[i].type = "tool_call_created"
      PROVE  /\ trajectory[i - 1].type \in {"planner_decision", "retry_scheduled"}
             /\ trajectory[i - 1].step = trajectory[i].step
  BY <1>1 DEF AskedInv
<1>2. ASSUME NEW i \in 1..(Len(trajectory) - 1), trajectory[i].type = "retry_scheduled"
      PROVE  Pursuit(i)
  BY <1>2 DEF RetryInv
<1>3. ASSUME NEW i \in EventIndex, NEW j \in EventIndex,
             \A k \in i..j : trajectory[k].type # "planner_decision"
      PROVE  Cardinality({k \in i..j : trajectory[k].type = "tool_call_created"}) <= MaxAttempts
  BY <1>3 DEF AttemptInv, Undecided, Calls
<1>. QED
  BY <1>1, <1>2, <1>3 DEF DispatchesAreJustified, Pursuit

\* A call is dispatched because the planner decided it or a retry was scheduled,
\* a scheduled retry is made unless the run ends first, and one decision causes no
\* more than max_attempts_per_step calls, for any limits and collaborators.
THEOREM DispatchesFollow == Spec => []DispatchesAreJustified
<1>1. TypeInv /\ AskedInv /\ RetryInv /\ [Next]_vars => AskedInv' /\ RetryInv'
  BY AskedStep, RetryStep
<1>2. /\ TypeInv /\ CountersMatchHistory /\ BudgetInv /\ AttemptInv /\ [Next]_vars
      /\ TypeInv' /\ BudgetInv'
      => AttemptInv'
  BY AttemptStep
<1>. QED
  BY InitTypeInv, TypeInvStep, CountersCorrect, BudgetInvariant, InitDispatch, <1>1, <1>2,
     DispatchesExplained, PTL
  DEF Spec

-----------------------------------------------------------------------------
(* What the events tell of a call                                          *)

\* No event about a call is recorded, and no call changes.
Untold ==
  /\ state'.toolCalls = state.toolCalls /\ state'.toolResults = state.toolResults
  /\ pc' = "executing" => pc = "executing" /\ state' = state /\ trajectory' = trajectory
  /\ \E m \in {0, 1} :
       /\ Extended(m)
       /\ \A i \in (Len(trajectory) + 1)..(Len(trajectory) + m) : trajectory'[i].call = 0

\* A call is created and started.
Opened ==
  /\ pc' = "executing" /\ state.currentStep \in StepId /\ state'.currentStep = state.currentStep
  /\ state'.toolCalls =
       Append(state.toolCalls, [step |-> state.currentStep, status |-> "running"])
  /\ state'.toolResults = state.toolResults
  /\ Extended(2)
  /\ \A i \in {1, 2} : trajectory'[Len(trajectory) + i] =
       EventOf(IF i = 1 THEN "tool_call_created" ELSE "tool_started",
               state.currentStep, LastCall + 1, 0)

\* The last call gets status st and results rs, in m events.
Told(st, rs, m) ==
  /\ pc = "executing" /\ pc' # "executing"
  /\ rs = (IF st = "succeeded" THEN ResultOf(TRUE) ELSE ResultOf(FALSE)) \/ (rs = <<>> /\ st = "failed")
  /\ AnswerCall(st, rs)
  /\ Extended(m)
  /\ trajectory'[Len(trajectory) + 1] =
       EventOf(IF st = "succeeded" THEN "tool_succeeded" ELSE "tool_failed", state.currentStep,
               LastCall, IF rs = <<>> THEN 0 ELSE Len(state'.toolResults))
  /\ m = 2 =>
       /\ st = "failed"
       /\ trajectory'[Len(trajectory) + 2] =
            EventOf("retry_scheduled", state.currentStep, LastCall, 0)

\* One event about no call is told of none.
LEMMA UntoldEvent ==
  ASSUME trajectory \in Seq(Event), NEW type, NEW step, Record(<<EventOf(type, step, 0, 0)>>),
         HistoryUnchanged, pc' # "executing"
  PROVE  Untold
<1>1. Extended(1) /\ trajectory'[Len(trajectory) + 1] = EventOf(type, step, 0, 0)
  BY RecordOneEffect
<1>2. \A i \in (Len(trajectory) + 1)..(Len(trajectory) + 1) : trajectory'[i].call = 0
  BY <1>1 DEF EventOf
<1>. QED
  BY <1>1, <1>2 DEF Untold, HistoryUnchanged

\* Nothing recorded is told of none.
LEMMA UntoldNothing ==
  ASSUME trajectory \in Seq(Event), UNCHANGED trajectory, HistoryUnchanged,
         pc' = "executing" => UNCHANGED vars
  PROVE  Untold
<1>1. Extended(0) /\ \A i \in (Len(trajectory) + 1)..(Len(trajectory) + 0) : trajectory'[i].call = 0
  BY DEF Extended
<1>. QED
  BY <1>1 DEF Untold, HistoryUnchanged, vars

\* An answer told in one event.
LEMMA ToldOnce ==
  ASSUME NEW st \in {"succeeded", "failed"}, NEW rs, NEW m,
         pc = "executing", pc' # "executing",
         rs = (IF st = "succeeded" THEN ResultOf(TRUE) ELSE ResultOf(FALSE)) \/ (rs = <<>> /\ st = "failed"),
         AnswerCall(st, rs), Extended(m), m = 1,
         trajectory'[Len(trajectory) + 1] =
           EventOf(IF st = "succeeded" THEN "tool_succeeded" ELSE "tool_failed", state.currentStep,
                   LastCall, IF rs = <<>> THEN 0 ELSE Len(state'.toolResults))
  PROVE  Told(st, rs, m)
<1>1. m # 2
  OBVIOUS
<1>. QED
  BY <1>1, Zenon DEF Told

\* Every step tells nothing, opens a call or answers the last one.
LEMMA StoryStep ==
  ASSUME TypeInv, [Next]_vars
  PROVE  Untold \/ Opened \/ \E st \in {"succeeded", "failed"}, m \in {1, 2} : \E rs : Told(st, rs, m)
<1>0. /\ state \in RuntimeState /\ LastCall \in Nat /\ LastCall = Len(state.toolCalls)
      /\ state.toolCalls \in Seq(Call) /\ trajectory \in Seq(Event)
  BY DEF TypeInv, TypeOK, RuntimeState, LastCall
<1>T. ASSUME NEW status, NEW reason, NEW event, NEW onError \in {"containing", "leaked"},
             Terminate(status, reason, event, onError)
      PROVE  Untold
  <2>1. HistoryUnchanged /\ pc' # "executing"
    BY <1>0, <1>T DEF Terminate, SaveState, HistoryUnchanged, RuntimeState
  <2>2. UNCHANGED trajectory \/ Record(<<EventOf(event, None, 0, 0)>>)
    BY <1>T DEF Terminate, RunEvent
  <2>. QED
    BY <1>0, <2>1, <2>2, UntoldEvent, UntoldNothing
<1>1. CASE StartRun
  <2>1. HistoryUnchanged /\ pc' # "executing"
    BY <1>0, <1>1 DEF StartRun, HistoryUnchanged, RuntimeState
  <2>2. UNCHANGED trajectory \/ Record(<<EventOf("investigation_started", None, 0, 0)>>)
    BY <1>1 DEF StartRun, RunEvent
  <2>. QED
    BY <1>0, <2>1, <2>2, UntoldEvent, UntoldNothing
<1>2. ASSUME NEW plan \in Plan, PlannerCreatesPlan(plan) PROVE Untold
  <2>1. HistoryUnchanged /\ pc' # "executing"
    BY <1>0, <1>2 DEF PlannerCreatesPlan, SaveState, HistoryUnchanged, RuntimeState
  <2>2. Record(<<EventOf("plan_created", None, 0, 0)>>)
    BY <1>2 DEF PlannerCreatesPlan, RunEvent
  <2>. QED
    BY <1>0, <2>1, <2>2, UntoldEvent
<1>3. CASE PlannerFailsToPlan \/ StepBudgetSpent \/ PlanFinished \/ StopRun \/ ContainError
  BY <1>3, <1>T DEF PlannerFailsToPlan, StepBudgetSpent, PlanFinished, StopRun, ContainError
<1>4. CASE StartStep \/ FinishStep
  <2>1. HistoryUnchanged /\ pc' # "executing"
    BY <1>0, <1>4 DEF StartStep, FinishStep, SaveState, HistoryUnchanged, RuntimeState
  <2>2. \E type, step : Record(<<EventOf(type, step, 0, 0)>>)
    BY <1>4 DEF StartStep, FinishStep, StepEvent
  <2>. QED
    BY <1>0, <2>1, <2>2, UntoldEvent
<1>5. CASE PlannerCompletesStep \/ PlannerFailsStep \/ PlannerCallsTool
  <2>1. HistoryUnchanged /\ pc' # "executing"
    BY <1>5 DEF PlannerCompletesStep, PlannerFailsStep, PlannerCallsTool, StepEndsWith,
                HistoryUnchanged
  <2>2. Record(<<EventOf("planner_decision", state.currentStep, 0, 0)>>)
    BY <1>5 DEF PlannerCompletesStep, PlannerFailsStep, PlannerCallsTool, RecordDecision
  <2>. QED
    BY <1>0, <2>1, <2>2, UntoldEvent
<1>6. CASE PlannerRaises \/ DispatchBlocked
  <2>1. HistoryUnchanged /\ pc' # "executing" /\ UNCHANGED trajectory
    BY <1>6 DEF PlannerRaises, DispatchBlocked, StepEndsWith, HistoryUnchanged
  <2>. QED
    BY <1>0, <2>1, UntoldNothing
<1>7. CASE DispatchCall
  <2>1. /\ pc' = "executing" /\ state.currentStep \in StepId
        /\ state'.toolCalls = Append(state.toolCalls, [step |-> state.currentStep, status |-> "running"])
        /\ state'.toolResults = state.toolResults /\ state'.currentStep = state.currentStep
    BY <1>0, <1>7 DEF DispatchCall, TypeInv, Control, InStep, RuntimeState
  <2>2. Record(<<EventOf("tool_call_created", state.currentStep, LastCall + 1, 0),
                 EventOf("tool_started", state.currentStep, LastCall + 1, 0)>>)
    BY <1>7, <2>1 DEF DispatchCall, CallEvent
  <2>3. /\ Extended(2)
        /\ trajectory'[Len(trajectory) + 1] = EventOf("tool_call_created", state.currentStep, LastCall + 1, 0)
        /\ trajectory'[Len(trajectory) + 2] = EventOf("tool_started", state.currentStep, LastCall + 1, 0)
    BY <1>0, <2>2, RecordTwoEffect
  <2>. QED
    BY <2>1, <2>3 DEF Opened
<1>A. ASSUME NEW st \in {"succeeded", "failed"}, NEW rs, pc = "executing", AnswerCall(st, rs)
      PROVE  state'.currentStep = state.currentStep
  BY <1>0, <1>A DEF AnswerCall, RuntimeState
<1>8. CASE ExecutorSucceeds
  <2>1. /\ pc = "executing" /\ pc' # "executing" /\ AnswerCall("succeeded", ResultOf(TRUE))
        /\ ResultOf(TRUE) # <<>>
    BY <1>8 DEF ExecutorSucceeds, SaveState, ResultOf
  <2>2. Record(<<EventOf("tool_succeeded", state.currentStep, LastCall, Len(state'.toolResults))>>)
    BY <1>8, <1>A, <2>1 DEF ExecutorSucceeds, CallEvent
  <2>3. Told("succeeded", ResultOf(TRUE), 1)
    <3>1. /\ Extended(1)
          /\ trajectory'[Len(trajectory) + 1] =
               EventOf("tool_succeeded", state.currentStep, LastCall, Len(state'.toolResults))
      BY <1>0, <2>2, RecordOneEffect
    <3>. QED
      BY <2>1, <3>1, ToldOnce
  <2>. QED
    BY <2>3
<1>9. CASE ExecutorRaises
  <2>1. pc = "executing" /\ pc' # "executing" /\ AnswerCall("failed", <<>>)
    BY <1>9 DEF ExecutorRaises, SaveState
  <2>2. Record(<<EventOf("tool_failed", state.currentStep, LastCall, 0)>>)
    BY <1>9, <1>A, <2>1 DEF ExecutorRaises, CallEvent
  <2>3. Told("failed", <<>>, 1)
    BY <1>0, <2>1, <2>2, RecordOneEffect DEF Told
  <2>. QED
    BY <2>3
<1>10. ASSUME NEW kind \in FailureKind, ExecutorFails(kind)
       PROVE  \E st \in {"succeeded", "failed"}, m \in {1, 2} : \E rs : Told(st, rs, m)
  <2>. DEFINE failed == EventOf("tool_failed", state.currentStep, LastCall, Len(state'.toolResults))
              retry == EventOf("retry_scheduled", state.currentStep, LastCall, 0)
  <2>1. /\ pc = "executing" /\ pc' # "executing" /\ AnswerCall("failed", ResultOf(FALSE))
        /\ ResultOf(FALSE) # <<>>
    BY <1>10 DEF ExecutorFails, SaveState, ResultOf
  <2>2. Record(<<failed>>) \/ Record(<<failed, retry>>)
    BY <1>10, <1>A, <2>1 DEF ExecutorFails, CallEvent
  <2>3. CASE Record(<<failed>>)
    <3>1. Extended(1) /\ trajectory'[Len(trajectory) + 1] = failed
      BY <1>0, <2>3, RecordOneEffect
    <3>2. Told("failed", ResultOf(FALSE), 1)
      BY <2>1, <3>1, ToldOnce
    <3>. QED
      BY <3>2
  <2>4. CASE Record(<<failed, retry>>)
    <3>1. /\ Extended(2) /\ trajectory'[Len(trajectory) + 1] = failed
          /\ trajectory'[Len(trajectory) + 2] = retry
      BY <1>0, <2>4, RecordTwoEffect
    <3>2. Told("failed", ResultOf(FALSE), 2)
      BY <2>1, <3>1 DEF Told
    <3>. QED
      BY <3>2
  <2>. QED
    BY <2>2, <2>3, <2>4
<1>11. CASE Finished \/ UNCHANGED vars
  <2>1. HistoryUnchanged /\ UNCHANGED trajectory /\ UNCHANGED vars
    BY <1>11 DEF Finished, vars, HistoryUnchanged
  <2>. QED
    BY <1>0, <2>1, UntoldNothing
<1>. QED
  BY <1>1, <1>2, <1>3, <1>4, <1>5, <1>6, <1>7, <1>8, <1>9, <1>10, <1>11 DEF Next

\* What an answer leaves behind: the call settled, at most one result for it, and one
\* event that names the result, followed by the retry if there is one.
LEMMA ToldEffect ==
  ASSUME TypeInv, NEW st \in {"succeeded", "failed"}, NEW m \in {1, 2}, NEW rs, Told(st, rs, m)
  PROVE  \E k \in {0, 1} :
           /\ Len(state'.toolCalls) = Len(state.toolCalls) /\ LastCall' = LastCall
           /\ \A i \in 1..Len(state.toolCalls) :
                state'.toolCalls[i] = IF i = LastCall THEN [step |-> state.toolCalls[i].step, status |-> st]
                                      ELSE state.toolCalls[i]
           /\ Len(state'.toolResults) = Len(state.toolResults) + k
           /\ \A r \in 1..Len(state.toolResults) : state'.toolResults[r] = state.toolResults[r]
           /\ k = 1 => state'.toolResults[Len(state.toolResults) + 1].call = LastCall
           /\ trajectory'[Len(trajectory) + 1].type =
                (IF st = "succeeded" THEN "tool_succeeded" ELSE "tool_failed")
           /\ trajectory'[Len(trajectory) + 1].step = state.currentStep
           /\ trajectory'[Len(trajectory) + 1].call = LastCall
           /\ trajectory'[Len(trajectory) + 1].result = k * Len(state'.toolResults)
<1>0. /\ state \in RuntimeState /\ LastCall \in Nat \ {0} /\ LastCall = Len(state.toolCalls)
      /\ state.toolResults \in Seq(Result) /\ pc = "executing"
  BY DEF TypeInv, TypeOK, Control, RuntimeState, LastCall, Told
<1>1. /\ rs \in Seq(Result)
      /\ \/ rs = <<>> /\ Len(rs) = 0
         \/ rs # <<>> /\ Len(rs) = 1 /\ rs[1].call = LastCall
  <2>1. CASE rs = <<>>
    BY <2>1
  <2>2. ASSUME NEW success \in BOOLEAN, rs = ResultOf(success)
        PROVE  rs \in Seq(Result) /\ rs # <<>> /\ Len(rs) = 1 /\ rs[1].call = LastCall
    <3>. DEFINE result == [call |-> LastCall, success |-> success]
    <3>1. result \in Result /\ result.call = LastCall
      BY <1>0 DEF Result
    <3>2. rs = <<result>>
      BY <2>2 DEF ResultOf
    <3>. HIDE DEF result
    <3>. QED
      BY <3>1, <3>2
  <2>3. rs = <<>> \/ rs = ResultOf(TRUE) \/ rs = ResultOf(FALSE)
    BY DEF Told
  <2>. QED
    BY <2>1, <2>2, <2>3
<1>2. /\ state'.toolResults = state.toolResults \o rs
      /\ Len(state'.toolCalls) = Len(state.toolCalls) /\ LastCall' = LastCall
      /\ \A i \in 1..Len(state.toolCalls) :
           state'.toolCalls[i] = IF i = LastCall THEN [step |-> state.toolCalls[i].step, status |-> st]
                                 ELSE state.toolCalls[i]
  <2>1. AnswerCall(st, rs)
    BY DEF Told
  <2>. QED
    BY <1>0, <1>1, <2>1, AnswerEffect DEF LastCall
<1>3. /\ Len(state'.toolResults) = Len(state.toolResults) + Len(rs)
      /\ \A r \in 1..Len(state.toolResults) : state'.toolResults[r] = state.toolResults[r]
      /\ Len(rs) = 1 => state'.toolResults[Len(state.toolResults) + 1] = rs[1]
  BY <1>0, <1>1, <1>2, ConcatProperties
<1>4. trajectory'[Len(trajectory) + 1] =
        EventOf(IF st = "succeeded" THEN "tool_succeeded" ELSE "tool_failed", state.currentStep,
                LastCall, IF rs = <<>> THEN 0 ELSE Len(state'.toolResults))
  BY Zenon DEF Told
<1>5. LET e == trajectory'[Len(trajectory) + 1] IN
      /\ e.type = (IF st = "succeeded" THEN "tool_succeeded" ELSE "tool_failed")
      /\ e.step = state.currentStep /\ e.call = LastCall
      /\ e.result = IF rs = <<>> THEN 0 ELSE Len(state'.toolResults)
  BY <1>4 DEF EventOf
<1>6. CASE rs = <<>>
  <2>1. Len(rs) = 0
    BY <1>1, <1>6
  <2>. QED
    BY <1>0, <1>2, <1>3, <1>5, <1>6, <2>1
<1>7. CASE rs # <<>>
  <2>1. Len(rs) = 1 /\ rs[1].call = LastCall
    BY <1>1, <1>7
  <2>. QED
    BY <1>0, <1>2, <1>3, <1>5, <1>7, <2>1
<1>. QED
  BY <1>6, <1>7

\* The events about call c are those from first to last, and tell its life.
StoryAt(c, first, last) ==
  /\ first \in EventIndex /\ last \in EventIndex
  /\ \A i \in EventIndex : trajectory[i].call = c <=> i \in first..last
  /\ TellStory(c, first, last)

\* Every call has its story, no event names a call that is not there, and the story of
\* a running call is still open at the end of the trajectory.
StoryInv ==
  /\ \A c \in CallIndex : \E first, last \in EventIndex : StoryAt(c, first, last)
  /\ \A i \in EventIndex : trajectory[i].call <= LastCall
  /\ pc = "executing" =>
       /\ Len(trajectory) > 0
       /\ trajectory[Len(trajectory)].call = LastCall
       /\ state.toolCalls[LastCall].step = state.currentStep

\* A story stays as it is while other calls get events and results.
LEMMA StoryKept ==
  ASSUME TypeInv, NEW c \in CallIndex, NEW first, NEW last, StoryAt(c, first, last),
         NEW m \in Nat, Extended(m),
         \A i \in (Len(trajectory) + 1)..(Len(trajectory) + m) : trajectory'[i].call # c,
         state'.toolCalls[c] = state.toolCalls[c],
         NEW k \in Nat, Len(state'.toolResults) = Len(state.toolResults) + k,
         \A r \in 1..Len(state.toolResults) : state'.toolResults[r] = state.toolResults[r],
         \A r \in (Len(state.toolResults) + 1)..(Len(state.toolResults) + k) :
           state'.toolResults[r].call # c
  PROVE  StoryAt(c, first, last)'
<1>0. /\ state.toolCalls[c] \in Call /\ Len(trajectory) \in Nat /\ Len(state.toolResults) \in Nat
      /\ state.toolCalls[c].status \in {"running", "succeeded", "failed"}
  <2>1. state.toolCalls \in Seq(Call) /\ c \in 1..Len(state.toolCalls)
    BY DEF TypeInv, TypeOK, RuntimeState, CallIndex
  <2>2. state.toolCalls[c] \in Call
    BY <2>1, ElementOfSeq
  <2>. QED
    BY <2>2 DEF TypeInv, TypeOK, RuntimeState, Call, CallStatus
<1>1. /\ first \in 1..Len(trajectory) /\ last \in 1..Len(trajectory)
      /\ \A i \in 1..Len(trajectory) : trajectory[i].call = c <=> i \in first..last
      /\ TellStory(c, first, last)
  BY DEF StoryAt, EventIndex
<1>2. /\ first \in EventIndex' /\ last \in EventIndex'
      /\ \A i \in EventIndex' : trajectory'[i].call = c <=> i \in first..last
  <2>1. \A i \in 1..(Len(trajectory) + m) :
          i \in 1..Len(trajectory) \/ i \in (Len(trajectory) + 1)..(Len(trajectory) + m)
    BY <1>0
  <2>. QED
    BY <1>0, <1>1, <2>1 DEF EventIndex, Extended
<1>3. \A i \in first..last : trajectory'[i] = trajectory[i]
  BY <1>0, <1>1 DEF Extended
<1>4. state.toolCalls[c].status # "running" => first + 2 \in first..last
  <2>1. state.toolCalls[c].status = "succeeded" => last = first + 2
    BY <1>1 DEF TellStory
  <2>2. state.toolCalls[c].status = "failed" => last \in {first + 2, first + 3}
    BY <1>1 DEF TellStory
  <2>. QED
    BY <1>0, <1>1, <2>1, <2>2
<1>5. first < last /\ first \in first..last /\ first + 1 \in first..last /\ last \in first..last
  BY <1>1 DEF TellStory
<1>. DEFINE answer == trajectory[first + 2]
            call == state.toolCalls[c]
<1>6. call.status # "running" => trajectory'[first + 2] = answer
  BY <1>3, <1>4
<1>7. \A i \in first..last : trajectory'[i].step = call.step
  BY <1>1, <1>3 DEF TellStory
<1>8. trajectory'[first].type = "tool_call_created" /\ trajectory'[first + 1].type = "tool_started"
  BY <1>1, <1>3, <1>5 DEF TellStory
<1>9. CASE call.status = "running"
  <2>1. last = first + 1
    BY <1>1, <1>9 DEF TellStory
  <2>2. TellStory(c, first, last)'
    BY <1>5, <1>7, <1>8, <1>9, <2>1 DEF TellStory
  <2>. QED
    BY <1>2, <2>2 DEF StoryAt
<1>10. CASE call.status # "running"
  <2>1. \/ answer.result = 0 /\ \A r \in 1..Len(state.toolResults) : state.toolResults[r].call # c
        \/ /\ answer.result \in 1..Len(state.toolResults)
           /\ state.toolResults[answer.result].call = c
    BY <1>1, <1>10 DEF TellStory
  <2>2. \A r \in 1..Len(state'.toolResults) :
          r \in 1..Len(state.toolResults)
            \/ r \in (Len(state.toolResults) + 1)..(Len(state.toolResults) + k)
    BY <1>0
  <2>3. \/ answer.result = 0 /\ \A r \in 1..Len(state'.toolResults) : state'.toolResults[r].call # c
        \/ /\ answer.result \in 1..Len(state'.toolResults)
           /\ state'.toolResults[answer.result].call = c
    <3>1. CASE answer.result = 0 /\ \A r \in 1..Len(state.toolResults) : state.toolResults[r].call # c
      BY <2>2, <3>1
    <3>2. CASE answer.result \in 1..Len(state.toolResults) /\ state.toolResults[answer.result].call = c
      <4>1. state'.toolResults[answer.result] = state.toolResults[answer.result]
        BY <3>2
      <4>2. answer.result \in 1..Len(state'.toolResults)
        BY <1>0, <3>2
      <4>. QED
        BY <3>2, <4>1, <4>2
    <3>. QED
      BY <2>1, <3>1, <3>2
  <2>4. CASE call.status = "succeeded"
    <3>1. last = first + 2 /\ answer.type = "tool_succeeded"
      BY <1>1, <2>4 DEF TellStory
    <3>2. TellStory(c, first, last)'
      BY <1>5, <1>6, <1>7, <1>8, <2>3, <2>4, <3>1 DEF TellStory
    <3>. QED
      BY <1>2, <3>2 DEF StoryAt
  <2>5. CASE call.status = "failed"
    <3>1. /\ last \in {first + 2, first + 3} /\ answer.type = "tool_failed"
          /\ last = first + 3 => trajectory'[last].type = "retry_scheduled"
      BY <1>1, <1>3, <1>5, <2>5 DEF TellStory
    <3>2. TellStory(c, first, last)'
      BY <1>5, <1>6, <1>7, <1>8, <2>3, <2>5, <3>1 DEF TellStory
    <3>. QED
      BY <1>2, <3>2 DEF StoryAt
  <2>. QED
    BY <1>0, <1>10, <2>4, <2>5
<1>. QED
  BY <1>9, <1>10

LEMMA UntoldKeepsStories == TypeInv /\ StoryInv /\ Untold => StoryInv'
<1>. SUFFICES ASSUME TypeInv, StoryInv, Untold PROVE StoryInv'
  OBVIOUS
<1>0. /\ Len(state.toolCalls) \in Nat /\ Len(trajectory) \in Nat /\ Len(state.toolResults) \in Nat
      /\ LastCall = Len(state.toolCalls)
  BY DEF TypeInv, TypeOK, RuntimeState, LastCall
<1>1. /\ state'.toolCalls = state.toolCalls /\ state'.toolResults = state.toolResults
      /\ LastCall' = LastCall /\ CallIndex' = CallIndex
  BY DEF Untold, LastCall, CallIndex
<1>2. PICK m \in {0, 1} :
        /\ Extended(m)
        /\ \A i \in (Len(trajectory) + 1)..(Len(trajectory) + m) : trajectory'[i].call = 0
  BY DEF Untold
<1>3. ASSUME NEW c \in CallIndex PROVE \E first, last \in EventIndex' : StoryAt(c, first, last)'
  <2>1. PICK first \in EventIndex, last \in EventIndex : StoryAt(c, first, last)
    BY DEF StoryInv
  <2>2. \A i \in (Len(trajectory) + 1)..(Len(trajectory) + m) : trajectory'[i].call # c
    BY <1>0, <1>2 DEF CallIndex
  <2>3. /\ state'.toolCalls[c] = state.toolCalls[c]
        /\ Len(state'.toolResults) = Len(state.toolResults) + 0
        /\ \A r \in 1..Len(state.toolResults) : state'.toolResults[r] = state.toolResults[r]
        /\ \A r \in (Len(state.toolResults) + 1)..(Len(state.toolResults) + 0) :
             state'.toolResults[r].call # c
    BY <1>0, <1>1
  <2>4. StoryAt(c, first, last)'
    BY <1>2, <2>1, <2>2, <2>3, StoryKept
  <2>. QED
    BY <2>4 DEF StoryAt
<1>4. \A i \in EventIndex' : trajectory'[i].call <= LastCall
  <2>1. \A i \in EventIndex' : i \in EventIndex \/ i \in (Len(trajectory) + 1)..(Len(trajectory) + m)
    BY <1>0, <1>2 DEF EventIndex, Extended
  <2>2. \A i \in EventIndex : trajectory'[i] = trajectory[i] /\ trajectory[i].call <= LastCall
    BY <1>2 DEF EventIndex, Extended, StoryInv
  <2>3. 0 <= LastCall
    BY <1>0
  <2>. QED
    BY <1>2, <2>1, <2>2, <2>3
<1>5. pc' = "executing" =>
        /\ Len(trajectory') > 0 /\ trajectory'[Len(trajectory')].call = LastCall
        /\ state'.toolCalls[LastCall].step = state'.currentStep
  BY DEF Untold, StoryInv
<1>. QED
  BY <1>1, <1>3, <1>4, <1>5 DEF StoryInv

LEMMA OpenedStartsAStory == TypeInv /\ ResultsTraceToCalls /\ StoryInv /\ Opened => StoryInv'
<1>. SUFFICES ASSUME TypeInv, ResultsTraceToCalls, StoryInv, Opened PROVE StoryInv'
  OBVIOUS
<1>0. /\ state.toolCalls \in Seq(Call) /\ Len(state.toolCalls) \in Nat /\ Len(trajectory) \in Nat
      /\ Len(state.toolResults) \in Nat /\ LastCall = Len(state.toolCalls)
      /\ state.currentStep \in StepId
  BY DEF TypeInv, TypeOK, RuntimeState, LastCall, Opened
<1>. DEFINE opened == [step |-> state.currentStep, status |-> "running"]
<1>1. PICK n \in Nat, next \in Nat :
        n = Len(trajectory) /\ next = LastCall + 1
  BY <1>0
<1>2. /\ Len(state'.toolCalls) = next /\ LastCall' = next
      /\ \A c \in CallIndex : state'.toolCalls[c] = state.toolCalls[c]
      /\ state'.toolCalls[next] = opened
      /\ state'.toolResults = state.toolResults
  <2>1. opened \in Call /\ state'.toolCalls = Append(state.toolCalls, opened)
    BY <1>0 DEF Opened, Call, CallStatus
  <2>. HIDE DEF opened
  <2>2. Len(state'.toolCalls) = next /\ state'.toolCalls[next] = opened
        /\ \A c \in CallIndex : state'.toolCalls[c] = state.toolCalls[c]
    BY <1>0, <1>1, <2>1, AppendProperties DEF CallIndex
  <2>. QED
    BY <2>2 DEF Opened, LastCall
<1>3. /\ Extended(2) /\ Len(trajectory') = n + 2
      /\ trajectory'[n + 1].type = "tool_call_created" /\ trajectory'[n + 2].type = "tool_started"
      /\ \A i \in {n + 1, n + 2} :
           trajectory'[i].step = state.currentStep /\ trajectory'[i].call = next
  <2>1. Extended(2)
    BY DEF Opened
  <2>2. /\ trajectory'[n + 1] = EventOf("tool_call_created", state.currentStep, next, 0)
        /\ trajectory'[n + 2] = EventOf("tool_started", state.currentStep, next, 0)
    BY <1>1 DEF Opened
  <2>. QED
    BY <1>1, <2>1, <2>2 DEF Extended, EventOf
<1>4. ASSUME NEW c \in CallIndex PROVE \E first, last \in EventIndex' : StoryAt(c, first, last)'
  <2>1. PICK first \in EventIndex, last \in EventIndex : StoryAt(c, first, last)
    BY DEF StoryInv
  <2>2. \A i \in (Len(trajectory) + 1)..(Len(trajectory) + 2) : trajectory'[i].call # c
    <3>1. c # next
      BY <1>0, <1>1 DEF CallIndex
    <3>2. \A i \in (Len(trajectory) + 1)..(Len(trajectory) + 2) : i \in {n + 1, n + 2}
      BY <1>1
    <3>. QED
      BY <1>3, <3>1, <3>2
  <2>3. /\ Len(state'.toolResults) = Len(state.toolResults) + 0
        /\ \A r \in 1..Len(state.toolResults) : state'.toolResults[r] = state.toolResults[r]
        /\ \A r \in (Len(state.toolResults) + 1)..(Len(state.toolResults) + 0) :
             state'.toolResults[r].call # c
    BY <1>0, <1>2
  <2>4. StoryAt(c, first, last)'
    BY <1>2, <1>3, <2>1, <2>2, <2>3, StoryKept
  <2>. QED
    BY <2>4 DEF StoryAt
<1>5. \A i \in EventIndex : trajectory'[i] = trajectory[i] /\ trajectory[i].call <= LastCall
  BY <1>3 DEF Extended, EventIndex, StoryInv
<1>6. \A i \in EventIndex' : i \in EventIndex \/ i = n + 1 \/ i = n + 2
  BY <1>1, <1>3 DEF EventIndex
<1>7. \A i \in EventIndex : trajectory[i].call \in Nat
  <2>1. \A i \in EventIndex : trajectory[i] \in Event
    BY ElementOfSeq DEF EventIndex, TypeInv, TypeOK
  <2>. QED
    BY <2>1 DEF Event
<1>8. StoryAt(next, n + 1, n + 2)'
  <2>1. n + 1 \in EventIndex' /\ n + 2 \in EventIndex'
    BY <1>1, <1>3 DEF EventIndex
  <2>2. \A i \in EventIndex' : trajectory'[i].call = next <=> i \in (n + 1)..(n + 2)
    BY <1>0, <1>1, <1>3, <1>5, <1>6, <1>7 DEF EventIndex
  <2>3. \A i \in (n + 1)..(n + 2) : trajectory'[i].step = state'.toolCalls[next].step
    BY <1>2, <1>3
  <2>4. state'.toolCalls[next].status = "running"
    BY <1>2
  <2>5. TellStory(next, n + 1, n + 2)'
    BY <1>3, <2>3, <2>4 DEF TellStory
  <2>. QED
    BY <2>1, <2>2, <2>5 DEF StoryAt
<1>9. \A c \in CallIndex' : \E first, last \in EventIndex' : StoryAt(c, first, last)'
  <2>1. \A c \in CallIndex' : c \in CallIndex \/ c = next
    BY <1>0, <1>1, <1>2 DEF CallIndex
  <2>2. \E first, last \in EventIndex' : StoryAt(next, first, last)'
    BY <1>8 DEF StoryAt
  <2>. QED
    BY <1>4, <2>1, <2>2
<1>10. \A i \in EventIndex' : trajectory'[i].call <= LastCall'
  BY <1>0, <1>1, <1>2, <1>3, <1>5, <1>6, <1>7
<1>11. /\ Len(trajectory') > 0 /\ trajectory'[Len(trajectory')].call = LastCall'
       /\ state'.toolCalls[LastCall'].step = state'.currentStep
  BY <1>1, <1>2, <1>3 DEF Opened
<1>. QED
  BY <1>9, <1>10, <1>11 DEF StoryInv

LEMMA ToldEndsTheStory ==
  TypeInv /\ CountersMatchHistory /\ ResultsTraceToCalls /\ StoryInv
    /\ (\E st \in {"succeeded", "failed"}, m \in {1, 2} : \E rs : Told(st, rs, m))
    => StoryInv'
<1>. SUFFICES ASSUME TypeInv, CountersMatchHistory, ResultsTraceToCalls, StoryInv,
                     NEW st \in {"succeeded", "failed"}, NEW m \in {1, 2}, NEW rs, Told(st, rs, m)
              PROVE  StoryInv'
  OBVIOUS
<1>0. /\ state.toolCalls \in Seq(Call) /\ Len(state.toolCalls) \in Nat /\ Len(trajectory) \in Nat
      /\ Len(state.toolResults) \in Nat /\ LastCall = Len(state.toolCalls) /\ pc = "executing"
  BY DEF TypeInv, TypeOK, RuntimeState, LastCall, Told
<1>P. PICK n \in Nat, results \in Nat, this \in Nat :
        n = Len(trajectory) /\ results = Len(state.toolResults) /\ this = LastCall
  BY <1>0
<1>1. PICK k \in {0, 1} :
        /\ n = Len(trajectory) /\ results = Len(state.toolResults) /\ this = LastCall
        /\ Len(state'.toolCalls) = Len(state.toolCalls) /\ LastCall' = LastCall
        /\ \A i \in 1..Len(state.toolCalls) :
             state'.toolCalls[i] = IF i = LastCall THEN [step |-> state.toolCalls[i].step, status |-> st]
                                   ELSE state.toolCalls[i]
        /\ Len(state'.toolResults) = results + k
        /\ \A r \in 1..results : state'.toolResults[r] = state.toolResults[r]
        /\ k = 1 => state'.toolResults[results + 1].call = this
        /\ trajectory'[n + 1].type = (IF st = "succeeded" THEN "tool_succeeded" ELSE "tool_failed")
        /\ trajectory'[n + 1].step = state.currentStep
        /\ trajectory'[n + 1].call = this
        /\ trajectory'[n + 1].result = k * (results + k)
  <2>1. PICK k \in {0, 1} :
           /\ Len(state'.toolCalls) = Len(state.toolCalls) /\ LastCall' = LastCall
           /\ \A i \in 1..Len(state.toolCalls) :
                state'.toolCalls[i] = IF i = LastCall THEN [step |-> state.toolCalls[i].step, status |-> st]
                                      ELSE state.toolCalls[i]
           /\ Len(state'.toolResults) = Len(state.toolResults) + k
           /\ \A r \in 1..Len(state.toolResults) : state'.toolResults[r] = state.toolResults[r]
           /\ k = 1 => state'.toolResults[Len(state.toolResults) + 1].call = LastCall
           /\ trajectory'[Len(trajectory) + 1].type =
                (IF st = "succeeded" THEN "tool_succeeded" ELSE "tool_failed")
           /\ trajectory'[Len(trajectory) + 1].step = state.currentStep
           /\ trajectory'[Len(trajectory) + 1].call = LastCall
           /\ trajectory'[Len(trajectory) + 1].result = k * Len(state'.toolResults)
    BY ToldEffect, Zenon
  <2>. QED
    BY <1>P, <2>1
<1>2. /\ Extended(m) /\ Len(trajectory') = n + m /\ pc' # "executing"
      /\ m = 2 => /\ st = "failed" /\ trajectory'[n + 2].type = "retry_scheduled"
                  /\ trajectory'[n + 2].step = state.currentStep /\ trajectory'[n + 2].call = this
  <2>1. /\ Extended(m) /\ pc' # "executing"
        /\ m = 2 => st = "failed" /\ trajectory'[n + 2] = EventOf("retry_scheduled", state.currentStep, this, 0)
    BY <1>1 DEF Told
  <2>. QED
    BY <1>1, <2>1 DEF Extended, EventOf
<1>3. \A i \in (n + 1)..(n + m) :
        trajectory'[i].step = state.currentStep /\ trajectory'[i].call = this
  <2>1. \A i \in (n + 1)..(n + m) : i = n + 1 \/ (m = 2 /\ i = n + 2)
    BY <1>P
  <2>2. trajectory'[n + 1].step = state.currentStep /\ trajectory'[n + 1].call = this
    BY <1>1
  <2>. QED
    BY <1>2, <2>1, <2>2
<1>S. /\ \A c \in CallIndex : c # this => state'.toolCalls[c] = state.toolCalls[c]
      /\ this \in CallIndex =>
           state'.toolCalls[this] = [step |-> state.toolCalls[this].step, status |-> st]
  BY <1>1, Zenon DEF CallIndex
<1>4. this \in CallIndex /\ CallIndex' = CallIndex /\ state.toolCalls[this].status = "running"
  <2>1. LastCall \in CallsWith("running")
    BY <1>0 DEF CountersMatchHistory
  <2>. QED
    BY <1>1, <2>1 DEF CallsWith, CallIndex
<1>5. ASSUME NEW c \in CallIndex, c # this PROVE \E first, last \in EventIndex' : StoryAt(c, first, last)'
  <2>1. PICK first \in EventIndex, last \in EventIndex : StoryAt(c, first, last)
    BY DEF StoryInv
  <2>2. /\ state'.toolCalls[c] = state.toolCalls[c] /\ k \in Nat /\ m \in Nat
        /\ Len(state'.toolResults) = Len(state.toolResults) + k
        /\ \A r \in 1..Len(state.toolResults) : state'.toolResults[r] = state.toolResults[r]
    BY <1>1, <1>5, <1>S
  <2>3. \A r \in (Len(state.toolResults) + 1)..(Len(state.toolResults) + k) :
          state'.toolResults[r].call # c
    <3>1. \A r \in (results + 1)..(results + k) : k = 1 /\ r = results + 1
      OBVIOUS
    <3>. QED
      BY <1>1, <1>5, <3>1
  <2>4. \A i \in (Len(trajectory) + 1)..(Len(trajectory) + m) : trajectory'[i].call # c
    BY <1>1, <1>3, <1>5
  <2>5. StoryAt(c, first, last)'
    BY <1>2, <2>1, <2>2, <2>3, <2>4, StoryKept
  <2>. QED
    BY <2>5 DEF StoryAt
<1>6. \E first, last \in EventIndex' : StoryAt(this, first, last)'
  <2>1. PICK first \in EventIndex, last \in EventIndex : StoryAt(this, first, last)
    BY <1>4 DEF StoryInv
  <2>2. /\ first \in 1..n /\ last \in 1..n /\ last = first + 1
        /\ \A i \in 1..n : trajectory[i].call = this <=> i \in first..last
        /\ \A i \in first..last : trajectory[i].step = state.toolCalls[this].step
        /\ trajectory[first].type = "tool_call_created" /\ trajectory[first + 1].type = "tool_started"
    BY <1>1, <1>4, <2>1 DEF StoryAt, TellStory, EventIndex
  <2>3. last = n /\ state.toolCalls[this].step = state.currentStep
    <3>1. n > 0 /\ trajectory[n].call = this /\ state.toolCalls[this].step = state.currentStep
      BY <1>0, <1>1 DEF StoryInv
    <3>. QED
      BY <1>1, <2>2, <3>1
  <2>4. \A i \in 1..n : trajectory'[i] = trajectory[i]
    BY <1>1, <1>2 DEF Extended
  <2>5. /\ first \in EventIndex' /\ last + m \in EventIndex'
        /\ \A i \in EventIndex' : i \in 1..n \/ i \in (n + 1)..(n + m)
        /\ \A i \in first..(last + m) : i \in first..last \/ i \in (n + 1)..(n + m)
    BY <1>1, <1>2, <2>2, <2>3 DEF EventIndex
  <2>6. \A i \in EventIndex' : trajectory'[i].call = this <=> i \in first..(last + m)
    <3>1. \A i \in 1..n : i \in first..last <=> i \in first..(last + m)
      BY <2>2, <2>3
    <3>2. \A i \in (n + 1)..(n + m) : i \in first..(last + m)
      BY <2>2, <2>3
    <3>. QED
      BY <1>3, <2>2, <2>4, <2>5, <3>1, <3>2
  <2>7. state'.toolCalls[this].step = state.currentStep /\ state'.toolCalls[this].status = st
    BY <1>S, <1>4, <2>3
  <2>8. /\ \A i \in first..(last + m) : trajectory'[i].step = state'.toolCalls[this].step
        /\ trajectory'[first].type = "tool_call_created"
        /\ trajectory'[first + 1].type = "tool_started"
    BY <1>3, <2>2, <2>3, <2>4, <2>5, <2>7
  <2>9. first + 2 = n + 1 /\ first < last + m /\ last + m \in {first + 2, first + 3}
    BY <2>2, <2>3
  <2>10. st = "succeeded" => last + m = first + 2
    BY <1>2, <2>2
  <2>11. last + m = first + 3 => trajectory'[last + m].type = "retry_scheduled"
    BY <1>2, <2>2, <2>3
  <2>12. \/ /\ trajectory'[first + 2].result = 0
            /\ \A r \in 1..Len(state'.toolResults) : state'.toolResults[r].call # this
         \/ /\ trajectory'[first + 2].result \in 1..Len(state'.toolResults)
            /\ state'.toolResults[trajectory'[first + 2].result].call = this
    <3>1. CASE k = 0
      <4>1. \A r \in 1..results : state.toolResults[r].call # this
        BY <1>1, <1>4 DEF ResultsTraceToCalls
      <4>. QED
        BY <1>1, <2>9, <3>1, <4>1
    <3>2. CASE k = 1
      <4>1. trajectory'[first + 2].result = results + 1
        BY <1>1, <2>9, <3>2
      <4>. QED
        BY <1>1, <3>2, <4>1
    <3>. QED
      BY <3>1, <3>2
  <2>13. trajectory'[first + 2].type = (IF st = "succeeded" THEN "tool_succeeded" ELSE "tool_failed")
    BY <1>1, <2>9
  <2>14. TellStory(this, first, last + m)'
    <3>1. CASE st = "succeeded"
      BY <2>7, <2>8, <2>9, <2>10, <2>12, <2>13, <3>1 DEF TellStory
    <3>2. CASE st = "failed"
      BY <2>7, <2>8, <2>9, <2>11, <2>12, <2>13, <3>2 DEF TellStory
    <3>. QED
      BY <3>1, <3>2
  <2>. QED
    BY <2>5, <2>6, <2>14 DEF StoryAt
<1>7. \A i \in EventIndex' : trajectory'[i].call <= LastCall'
  <2>1. \A i \in 1..n : trajectory'[i] = trajectory[i] /\ trajectory[i].call <= LastCall
    BY <1>1, <1>2 DEF Extended, StoryInv, EventIndex
  <2>2. \A i \in EventIndex' : i \in 1..n \/ i \in (n + 1)..(n + m)
    BY <1>1, <1>2 DEF EventIndex
  <2>3. this <= LastCall
    BY <1>1
  <2>. QED
    BY <1>1, <1>3, <2>1, <2>2, <2>3
<1>. QED
  BY <1>2, <1>4, <1>5, <1>6, <1>7 DEF StoryInv

\* There is nothing to tell at the start, and every step keeps the stories.
LEMMA InitStory == Init => StoryInv
  BY DEF Init, InitialState, StoryInv, CallIndex, EventIndex

LEMMA StoryKeeps ==
  TypeInv /\ CountersMatchHistory /\ ResultsTraceToCalls /\ StoryInv /\ [Next]_vars => StoryInv'
  BY StoryStep, UntoldKeepsStories, OpenedStartsAStory, ToldEndsTheStory

LEMMA StoryIsOne == StoryInv => CallsHaveOneStory
<1>. SUFFICES ASSUME StoryInv, NEW c \in CallIndex
              PROVE  LET story == {i \in EventIndex : trajectory[i].call = c} IN
                     \E first, last \in story : story = first..last /\ TellStory(c, first, last)
  BY DEF CallsHaveOneStory
<1>. DEFINE story == {i \in EventIndex : trajectory[i].call = c}
<1>1. PICK first \in EventIndex, last \in EventIndex : StoryAt(c, first, last)
  BY DEF StoryInv
<1>2. TellStory(c, first, last) /\ first < last
  BY <1>1 DEF StoryAt, TellStory
<1>3. first..last \subseteq EventIndex /\ first \in first..last /\ last \in first..last
  BY <1>2 DEF EventIndex
<1>4. story = first..last
  BY <1>1, <1>3 DEF StoryAt
<1>. QED
  BY <1>2, <1>3, <1>4

\* The events that reference a call follow each other and
\* tell its life, in every run (_dispatch_with_retry, _record).
THEOREM StoriesTold == Spec => []CallsHaveOneStory
  BY InitTypeInv, TypeInvStep, CountersCorrect, ResultsTrace, InitStory, StoryKeeps, StoryIsOne, PTL
  DEF Spec
=============================================================================

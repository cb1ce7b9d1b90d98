---------------------------- MODULE RuntimeProofs ----------------------------
(***************************************************************************)
(* Machine-checked proofs about InvestigationRuntime, for every value of   *)
(* its constants.  The inductive invariant is built in layers: types and   *)
(* control, then the accounting of calls and failures, then the budgets;   *)
(* each layer is proved on top of the ones before it.                      *)
(***************************************************************************)
EXTENDS RuntimeProperties, SequenceTheorems, FiniteSetTheorems, TLAPS

-----------------------------------------------------------------------------
(* Sequences                                                               *)

\* A plan is a sequence of step ids, and so is the empty one that stands for None.
LEMMA PlanIsSeq ==
  ASSUME NEW p \in Plan \cup {<<>>}
  PROVE  p \in Seq(StepId) /\ Len(p) \in Nat /\ \A i \in 1..Len(p) : p[i] \in StepId
<1>1. CASE p = <<>>
  BY <1>1
<1>2. CASE p \in Plan
  <2>1. PICK n \in 1..MaxPlanSteps : p \in [1..n -> StepId]
    BY <1>2 DEF Plan
  <2>2. n \in Nat
    BY <2>1, StepAssumption
  <2>3. p \in Seq(StepId)
    BY <2>1, <2>2, SeqDef
  <2>. QED
    BY <2>3, LenProperties, ElementOfSeq
<1>. QED
  BY <1>1, <1>2

\* TrajectoryRecorder.record only appends: events stay a sequence of events.
LEMMA RecordKeepsType ==
  ASSUME NEW events \in Seq(Event), trajectory \in Seq(Event), Record(events)
  PROVE  trajectory' \in Seq(Event)
  BY DEF Record

\* The same for the single event most actions record.
LEMMA RecordOneKeepsType ==
  ASSUME NEW e \in Event, trajectory \in Seq(Event), Record(<<e>>)
  PROVE  trajectory' \in Seq(Event)
  BY DEF Record

\* The same for two events: a dispatch, or a failure with its retry.
LEMMA RecordTwoKeepsType ==
  ASSUME NEW e \in Event, NEW f \in Event, trajectory \in Seq(Event), Record(<<e, f>>)
  PROVE  trajectory' \in Seq(Event)
  BY DEF Record

-----------------------------------------------------------------------------
(* Types and control                                                       *)

InStep == pc \in {"deciding", "dispatching", "executing", "finishing"}

\* While a step runs, the locals point at it and the plan covers it.
Control ==
  /\ Len(state.stepStatus) = Len(state.plan)
  /\ stepsStarted <= Len(state.plan)
  /\ pc \in {"starting", "planning"} => stepsStarted = 0
  /\ InStep => stepsStarted >= 1 /\ state.currentStep \in StepId
  /\ pc = "executing" => Len(state.toolCalls) >= 1
  /\ pc = "stopping" => outcome.stopReason # None

TypeInv == TypeOK /\ Control

\* A fresh run is well typed and has started no step.
LEMMA InitTypeInv == Init => TypeInv
  BY StepAssumption
  DEF Init, InitialState, TypeInv, TypeOK, Control, InStep, RuntimeState, Location, RuntimeStatus,
      TerminalStatus, Outcome, Completed

\* What the attempt of a call changes, and what it keeps.
LEMMA AnswerEffect ==
  ASSUME TypeInv, pc = "executing",
         NEW st \in {"succeeded", "failed"}, NEW rs \in Seq(Result), AnswerCall(st, rs)
  PROVE  /\ state' \in RuntimeState
         /\ attempts' \in Nat
         /\ state'.stepStatus = state.stepStatus
         /\ state'.plan = state.plan
         /\ state'.currentStep = state.currentStep
         /\ state'.toolResults = state.toolResults \o rs
         /\ state'.totalToolCalls = state.totalToolCalls + 1
         /\ state'.totalToolFailures =
              IF st = "failed" THEN state.totalToolFailures + 1 ELSE state.totalToolFailures
         /\ Len(state'.toolCalls) = Len(state.toolCalls)
         /\ \A i \in 1..Len(state.toolCalls) :
              state'.toolCalls[i] = IF i = LastCall THEN [step |-> state.toolCalls[i].step, status |-> st]
                                    ELSE state.toolCalls[i]
<1>1. state \in RuntimeState /\ attempts \in Nat /\ LastCall \in 1..Len(state.toolCalls)
  BY DEF TypeInv, TypeOK, Control, RuntimeState, LastCall
<1>2. /\ state'.status = state.status
      /\ state'.stopReason = state.stopReason
      /\ state'.plan = state.plan
      /\ state'.stepStatus = state.stepStatus
      /\ state'.currentStep = state.currentStep
  BY <1>1 DEF RuntimeState, AnswerCall
<1> DEFINE settled == [step |-> state.toolCalls[LastCall].step, status |-> st]
<1>3. /\ state'.toolCalls \in Seq(Call)
      /\ Len(state'.toolCalls) = Len(state.toolCalls)
      /\ \A i \in 1..Len(state.toolCalls) :
           state'.toolCalls[i] = IF i = LastCall THEN settled ELSE state.toolCalls[i]
  <2>1. state'.toolCalls = [state.toolCalls EXCEPT ![LastCall].status = st]
    BY <1>1 DEF RuntimeState, AnswerCall
  <2>2. state.toolCalls \in Seq(Call)
    BY <1>1 DEF RuntimeState
  <2>3. state.toolCalls[LastCall] \in Call
    BY <1>1, <2>2, ElementOfSeq
  <2>4. settled \in Call /\ [state.toolCalls[LastCall] EXCEPT !.status = st] = settled
    BY <2>3 DEF Call, CallStatus
  <2>5. state'.toolCalls = [state.toolCalls EXCEPT ![LastCall] = settled]
    BY <2>1, <2>4
  <2> HIDE DEF settled
  <2>. QED
    BY <1>1, <2>2, <2>4, <2>5, ExceptSeq
<1>4. state'.toolResults \in Seq(Result) /\ state'.toolResults = state.toolResults \o rs
  <2>1. state'.toolResults = state.toolResults \o rs /\ state.toolResults \in Seq(Result)
    BY <1>1 DEF RuntimeState, AnswerCall
  <2>. QED
    BY <2>1, ConcatProperties
<1>5. RecordAttempt(attempts + 1) \in [StepId -> Nat]
  <2>1. state.stepAttempts \in [StepId -> Nat] /\ attempts + 1 \in Nat
    BY <1>1 DEF RuntimeState
  <2>. QED
    BY <2>1 DEF RecordAttempt
<1>6. /\ state'.stepAttempts \in [StepId -> Nat]
      /\ state'.totalToolCalls = state.totalToolCalls + 1
      /\ state'.totalToolFailures =
           IF st = "failed" THEN state.totalToolFailures + 1 ELSE state.totalToolFailures
      /\ state'.totalToolCalls \in Nat
      /\ state'.totalToolFailures \in Nat
  <2>1. /\ state'.stepAttempts = RecordAttempt(attempts + 1)
        /\ state'.totalToolCalls = state.totalToolCalls + 1
        /\ state'.totalToolFailures =
             IF st = "failed" THEN state.totalToolFailures + 1 ELSE state.totalToolFailures
    BY <1>1 DEF RuntimeState, AnswerCall
  <2>. QED
    BY <1>1, <1>5, <2>1 DEF RuntimeState
<1>7. state' = [status |-> state'.status, stopReason |-> state'.stopReason,
                plan |-> state'.plan, stepStatus |-> state'.stepStatus,
                currentStep |-> state'.currentStep,
                toolCalls |-> state'.toolCalls, toolResults |-> state'.toolResults,
                stepAttempts |-> state'.stepAttempts,
                totalToolCalls |-> state'.totalToolCalls,
                totalToolFailures |-> state'.totalToolFailures]
  BY <1>1 DEF RuntimeState, AnswerCall
<1>8. state' \in RuntimeState
  BY <1>1, <1>2, <1>3, <1>4, <1>6, <1>7 DEF RuntimeState
<1>9. attempts' \in Nat
  BY <1>1 DEF AnswerCall
<1>. QED
  BY <1>2, <1>3, <1>4, <1>6, <1>8, <1>9

\* What the tool history is, and that an action leaves it alone.
HistoryUnchanged ==
  /\ state'.toolCalls = state.toolCalls
  /\ state'.toolResults = state.toolResults
  /\ state'.stepAttempts = state.stepAttempts
  /\ state'.totalToolCalls = state.totalToolCalls
  /\ state'.totalToolFailures = state.totalToolFailures

PlanUnchanged ==
  /\ state'.plan = state.plan
  /\ state'.stepStatus = state.stepStatus
  /\ state'.currentStep = state.currentStep

\* save_state stores a well-typed copy or leaves the store, and control goes on or unwinds.
LEMMA SaveEffect ==
  ASSUME NEW then \in Location, NEW onError \in Location, SaveState(then, onError),
         stored \in RuntimeState \cup {None}, state' \in RuntimeState
  PROVE  /\ stored' \in RuntimeState \cup {None}
         /\ pc' \in {then, onError}
  BY DEF SaveState

\* An event that references nothing is an event.
LEMMA RunEventType ==
  ASSUME NEW type \in EventType
  PROVE  <<RunEvent(type)>> \in Seq(Event)
  BY DEF RunEvent, EventOf, Event

\* An event that references a step is an event.
LEMMA StepEventType ==
  ASSUME NEW type \in EventType, NEW step \in StepId \cup {None}
  PROVE  <<EventOf(type, step, 0, 0)>> \in Seq(Event)
  BY DEF EventOf, Event

\* _terminate keeps the types, the plan, the tool history and the locals.
LEMMA TerminateEffect ==
  ASSUME TypeInv,
         NEW status \in TerminalStatus, NEW reason \in StopReason,
         NEW event \in FinalEvent, NEW onError \in {"containing", "leaked"},
         Terminate(status, reason, event, onError)
  PROVE  /\ TypeOK'
         /\ HistoryUnchanged /\ PlanUnchanged
         /\ pc' \in {"returned", "containing", "leaked"}
         /\ UNCHANGED locals
<1>1. state \in RuntimeState /\ trajectory \in Seq(Event) /\ stored \in RuntimeState \cup {None}
  BY DEF TypeInv, TypeOK
<1>2. /\ state' = [state EXCEPT !.status = status, !.stopReason = reason]
      /\ SaveState("returned", onError)
      /\ UNCHANGED locals
  BY DEF Terminate
<1>3. state' \in RuntimeState /\ HistoryUnchanged /\ PlanUnchanged
  BY <1>1, <1>2 DEF RuntimeState, RuntimeStatus, HistoryUnchanged, PlanUnchanged
<1>4. stored' \in RuntimeState \cup {None} /\ pc' \in {"returned", "containing", "leaked"}
  BY <1>1, <1>2, <1>3, SaveEffect DEF Location
<1>5. trajectory' \in Seq(Event)
  <2>1. <<RunEvent(event)>> \in Seq(Event)
    BY RunEventType DEF EventType
  <2>. QED
    BY <1>1, <2>1, RecordKeepsType DEF Terminate
<1>. QED
  BY <1>2, <1>3, <1>4, <1>5 DEF TypeOK, TypeInv, Location, locals

\* Every action keeps the types and the control facts.
LEMMA TypeInvStep == TypeInv /\ [Next]_vars => TypeInv'
<1> SUFFICES ASSUME TypeInv, [Next]_vars PROVE TypeInv'
  OBVIOUS
<1>0. /\ state \in RuntimeState
      /\ trajectory \in Seq(Event)
      /\ stored \in RuntimeState \cup {None}
      /\ stepsStarted \in Nat /\ failedSteps \in Nat /\ attempts \in Nat
      /\ outcome \in Outcome
      /\ state.plan \in Seq(StepId) /\ Len(state.plan) \in Nat
      /\ state.stepStatus \in Seq(StepStatus)
      /\ Len(state.stepStatus) = Len(state.plan)
  BY PlanIsSeq DEF TypeInv, TypeOK, Control, RuntimeState
<1> DEFINE Stop(st, reason, event, onError) ==
      /\ st \in TerminalStatus /\ reason \in StopReason /\ event \in FinalEvent
      /\ onError \in {"containing", "leaked"}
      /\ Terminate(st, reason, event, onError)
<1>T. ASSUME NEW st, NEW reason, NEW event, NEW onError, Stop(st, reason, event, onError)
      PROVE  TypeInv'
  <2>1. /\ TypeOK' /\ PlanUnchanged /\ UNCHANGED locals
        /\ pc' \in {"returned", "containing", "leaked"}
    BY <1>T, TerminateEffect
  <2>. QED
    BY <1>0, <2>1 DEF TypeInv, Control, InStep, PlanUnchanged, locals
<1>1. CASE StartRun
  <2>1. CASE pc' = "planning" /\ state' = [state EXCEPT !.status = "planning"]
             /\ Record(<<RunEvent("investigation_started")>>) /\ stored' = state
    <3>1. state' \in RuntimeState /\ PlanUnchanged /\ HistoryUnchanged
      BY <1>0, <2>1 DEF RuntimeState, RuntimeStatus, PlanUnchanged, HistoryUnchanged
    <3>2. trajectory' \in Seq(Event)
      BY <1>0, <2>1, RunEventType, RecordKeepsType DEF EventType
    <3>. QED
      BY <1>0, <1>1, <2>1, <3>1, <3>2
      DEF StartRun, TypeInv, TypeOK, Control, InStep, PlanUnchanged, Location, locals
  <2>2. CASE pc' = "leaked" /\ UNCHANGED <<state, trajectory, stored>>
    BY <1>0, <1>1, <2>2 DEF StartRun, TypeInv, TypeOK, Control, InStep, Location, locals
  <2>. QED
    BY <1>1, <2>1, <2>2 DEF StartRun
<1>2. ASSUME NEW plan \in Plan, PlannerCreatesPlan(plan) PROVE TypeInv'
  <2>1. plan \in Seq(StepId) /\ Len(plan) \in Nat
    BY PlanIsSeq
  <2>2. [i \in 1..Len(plan) |-> "pending"] \in Seq(StepStatus)
    BY <2>1, IsASeq DEF StepStatus
  <2>3. /\ state' \in RuntimeState
        /\ state'.plan = plan /\ state'.stepStatus = [i \in 1..Len(plan) |-> "pending"]
    BY <1>0, <1>2, <2>2 DEF PlannerCreatesPlan, RuntimeState, RuntimeStatus
  <2>4. trajectory' \in Seq(Event)
    BY <1>0, <1>2, RunEventType, RecordKeepsType DEF PlannerCreatesPlan, EventType
  <2>5. stored' \in RuntimeState \cup {None} /\ pc' \in {"iterating", "containing"}
    BY <1>0, <1>2, <2>3, SaveEffect DEF PlannerCreatesPlan, Location
  <2>6. stepsStarted = 0
    BY <1>2 DEF PlannerCreatesPlan, TypeInv, Control
  <2>. QED
    BY <1>0, <1>2, <2>1, <2>3, <2>4, <2>5, <2>6
    DEF PlannerCreatesPlan, TypeInv, TypeOK, Control, InStep, Location, locals
<1>3. CASE PlannerFailsToPlan
  BY <1>3, <1>T DEF PlannerFailsToPlan, TerminalStatus, StopReason, FinalEvent
<1>4. CASE StartStep
  <2>1. stepsStarted + 1 \in 1..Len(state.plan)
    BY <1>0, <1>4 DEF StartStep, StepsRemain
  <2>2. state.plan[stepsStarted + 1] \in StepId
    BY <1>0, <2>1, ElementOfSeq
  <2>3. /\ [state.stepStatus EXCEPT ![stepsStarted + 1] = "running"] \in Seq(StepStatus)
        /\ Len([state.stepStatus EXCEPT ![stepsStarted + 1] = "running"]) = Len(state.plan)
    BY <1>0, <2>1, ExceptSeq DEF StepStatus
  <2>4. /\ state'.plan = state.plan
        /\ state'.toolCalls = state.toolCalls
        /\ state'.currentStep = state.plan[stepsStarted + 1]
        /\ state'.stepStatus = [state.stepStatus EXCEPT ![stepsStarted + 1] = "running"]
    BY <1>0, <1>4 DEF StartStep, RuntimeState
  <2>5. state' \in RuntimeState
    BY <1>0, <1>4, <2>2, <2>3 DEF StartStep, RuntimeState
  <2>6. trajectory' \in Seq(Event)
    BY <1>0, <1>4, <2>2, <2>4, StepEventType, RecordKeepsType DEF StartStep, StepEvent, EventType
  <2>7. stored' \in RuntimeState \cup {None} /\ pc' \in {"deciding", "containing"}
    BY <1>0, <1>4, <2>5, SaveEffect DEF StartStep, Location
  <2>. QED
    BY <1>0, <1>4, <2>1, <2>2, <2>3, <2>4, <2>5, <2>6, <2>7
    DEF StartStep, TypeInv, TypeOK, Control, InStep, Location
<1>5. CASE StepBudgetSpent
  BY <1>5, <1>T DEF StepBudgetSpent, TerminalStatus, StopReason, FinalEvent, BUDGET_STOP_REASONS
<1>6. CASE PlanFinished
  BY <1>6, <1>T DEF PlanFinished, TerminalStatus, StopReason, FinalEvent
<1>7. CASE PlannerCompletesStep \/ PlannerFailsStep \/ PlannerCallsTool
  <2>1. state.currentStep \in StepId
    BY <1>7 DEF PlannerCompletesStep, PlannerFailsStep, PlannerCallsTool, TypeInv, Control, InStep
  <2>2. trajectory' \in Seq(Event)
    BY <1>0, <1>7, <2>1, StepEventType, RecordKeepsType
    DEF PlannerCompletesStep, PlannerFailsStep, PlannerCallsTool, RecordDecision, EventType
  <2>. QED
    BY <1>0, <1>7, <2>1, <2>2
    DEF PlannerCompletesStep, PlannerFailsStep, PlannerCallsTool, StepEndsWith, Outcome,
        Completed, FailedWith, TypeInv, TypeOK, Control, InStep, Location
<1>8. CASE PlannerRaises
  BY <1>0, <1>8
  DEF PlannerRaises, StepEndsWith, Outcome, FailedWith, StopReason, TypeInv, TypeOK, Control,
      InStep, Location
<1>9. CASE FinishStep
  <2>1. stepsStarted \in 1..Len(state.plan) /\ state.currentStep \in StepId
    BY <1>0, <1>9 DEF FinishStep, TypeInv, Control, InStep
  <2>2. outcome.status \in {"completed", "failed"}
    BY <1>0 DEF Outcome
  <2>3. /\ [state.stepStatus EXCEPT ![stepsStarted] = outcome.status] \in Seq(StepStatus)
        /\ Len([state.stepStatus EXCEPT ![stepsStarted] = outcome.status]) = Len(state.plan)
    BY <1>0, <2>1, <2>2, ExceptSeq DEF StepStatus
  <2>4. /\ state'.plan = state.plan
        /\ state'.toolCalls = state.toolCalls
        /\ state'.currentStep = state.currentStep
        /\ state'.stepStatus = [state.stepStatus EXCEPT ![stepsStarted] = outcome.status]
    BY <1>0, <1>9 DEF FinishStep, RuntimeState
  <2>5. state' \in RuntimeState
    BY <1>0, <1>9, <2>3 DEF FinishStep, RuntimeState
  <2>6. trajectory' \in Seq(Event)
    <3> DEFINE type == IF outcome.status = "completed" THEN "step_completed" ELSE "step_failed"
    <3>1. <<EventOf(type, state.currentStep, 0, 0)>> \in Seq(Event)
      BY <2>1, StepEventType DEF EventType
    <3>2. Record(<<EventOf(type, state.currentStep, 0, 0)>>)
      BY <1>9, <2>4 DEF FinishStep, StepEvent
    <3>. QED
      BY <1>0, <3>1, <3>2, RecordKeepsType
  <2>7. /\ stored' \in RuntimeState \cup {None}
        /\ pc' \in {"iterating", "stopping", "containing"}
        /\ pc' = "stopping" => outcome.stopReason # None
    BY <1>0, <1>9, <2>5 DEF FinishStep, SaveState
  <2>8. failedSteps' \in Nat
    BY <1>0, <1>9 DEF FinishStep
  <2>. QED
    BY <1>0, <1>9, <2>1, <2>3, <2>4, <2>5, <2>6, <2>7, <2>8
    DEF FinishStep, TypeInv, TypeOK, Control, InStep, Location
<1>10. CASE StopRun
  <2>1. outcome.stopReason \in StopReason
    BY <1>0, <1>10 DEF StopRun, Outcome, TypeInv, Control
  <2>. QED
    BY <1>10, <1>T, <2>1 DEF StopRun, TerminalStatus, StopReason, FinalEvent
<1>11. CASE DispatchCall
  <2> DEFINE call == [step |-> state.currentStep, status |-> "running"]
  <2>1. call \in Call /\ state.currentStep \in StepId /\ state.toolCalls \in Seq(Call)
    BY <1>0, <1>11 DEF DispatchCall, TypeInv, Control, InStep, Call, CallStatus, RuntimeState
  <2>2. Append(state.toolCalls, call) \in Seq(Call) /\ Len(Append(state.toolCalls, call)) >= 1
    BY <2>1, AppendProperties
  <2>3. /\ state'.toolCalls = Append(state.toolCalls, call)
        /\ PlanUnchanged
        /\ state' \in RuntimeState
    BY <1>0, <1>11, <2>2 DEF DispatchCall, RuntimeState, PlanUnchanged
  <2>4. trajectory' \in Seq(Event)
    <3> DEFINE events == <<CallEvent("tool_call_created", LastCall + 1, 0),
                           CallEvent("tool_started", LastCall + 1, 0)>>
    <3>1. state'.currentStep \in StepId /\ LastCall + 1 \in Nat
      BY <2>1, <2>3 DEF PlanUnchanged, LastCall
    <3>2. events \in Seq(Event)
      BY <3>1 DEF CallEvent, EventOf, Event, EventType
    <3>. QED
      BY <1>0, <1>11, <3>2, RecordKeepsType DEF DispatchCall
  <2>. QED
    BY <1>0, <1>11, <2>1, <2>2, <2>3, <2>4
    DEF DispatchCall, PlanUnchanged, TypeInv, TypeOK, Control, InStep, Location, locals
<1>12. CASE DispatchBlocked
  <2>1. FailedWith(BlockReason) \in Outcome
    BY DEF FailedWith, BlockReason, Outcome, StopReason, BUDGET_STOP_REASONS
  <2>. QED
    BY <1>0, <1>12, <2>1
    DEF DispatchBlocked, StepEndsWith, TypeInv, TypeOK, Control, InStep, Location
<1> DEFINE Answered(st, rs) ==
      st \in {"succeeded", "failed"} /\ rs \in Seq(Result) /\ AnswerCall(st, rs)
<1>R. pc = "executing" => ResultOf(TRUE) \in Seq(Result) /\ ResultOf(FALSE) \in Seq(Result)
  BY <1>0 DEF ResultOf, Result, LastCall, TypeInv, Control, RuntimeState
<1>A. ASSUME pc = "executing", NEW st, NEW rs, Answered(st, rs),
             trajectory' \in Seq(Event), outcome' \in Outcome,
             UNCHANGED <<stepsStarted, failedSteps>>,
             NEW then \in {"deciding", "dispatching", "finishing"}, SaveState(then, "containing")
      PROVE  TypeInv'
  <2>1. /\ state' \in RuntimeState /\ attempts' \in Nat
        /\ PlanUnchanged
    BY <1>A, AnswerEffect DEF PlanUnchanged
  <2>2. stored' \in RuntimeState \cup {None} /\ pc' \in {then, "containing"}
    BY <1>0, <1>A, <2>1, SaveEffect DEF Location
  <2>3. stepsStarted >= 1 /\ state.currentStep \in StepId
    BY <1>A DEF TypeInv, Control, InStep
  <2>. QED
    BY <1>0, <1>A, <2>1, <2>2, <2>3
    DEF PlanUnchanged, TypeInv, TypeOK, Control, InStep, Location
<1>E. ASSUME pc = "executing", NEW st, NEW rs, Answered(st, rs),
             NEW type \in EventType, NEW result \in Nat
      PROVE  CallEvent(type, LastCall, result) \in Event /\ Len(state'.toolResults) \in Nat
  <2>1. state' \in RuntimeState /\ state'.currentStep = state.currentStep /\ state.currentStep \in StepId
    BY <1>E, AnswerEffect DEF TypeInv, Control, InStep
  <2>2. LastCall \in Nat
    BY <1>0 DEF LastCall, RuntimeState
  <2>. QED
    BY <2>1, <2>2 DEF CallEvent, EventOf, Event, RuntimeState
<1>13. CASE ExecutorSucceeds
  <2>1. pc = "executing" /\ Answered("succeeded", ResultOf(TRUE))
    BY <1>13, <1>R DEF ExecutorSucceeds
  <2>2. CallEvent("tool_succeeded", LastCall, Len(state'.toolResults)) \in Event
    BY <2>1, <1>E DEF EventType
  <2>3. trajectory' \in Seq(Event)
    BY <1>0, <1>13, <2>2, RecordOneKeepsType DEF ExecutorSucceeds
  <2>. QED
    BY <1>0, <1>13, <1>A, <2>1, <2>3 DEF ExecutorSucceeds
<1>14. ASSUME NEW kind \in FailureKind, ExecutorFails(kind) PROVE TypeInv'
  <2> DEFINE failed == CallEvent("tool_failed", LastCall, Len(state'.toolResults))
             retry == CallEvent("retry_scheduled", LastCall, 0)
  <2>1. pc = "executing" /\ Answered("failed", ResultOf(FALSE))
    BY <1>14, <1>R DEF ExecutorFails
  <2>2. failed \in Event /\ retry \in Event
    BY <2>1, <1>E DEF EventType
  <2>3. CASE ShouldRetry(kind, attempts + 1)
    <3>1. trajectory' \in Seq(Event)
      BY <1>0, <1>14, <2>2, <2>3, RecordTwoKeepsType DEF ExecutorFails
    <3>. QED
      BY <1>0, <1>14, <1>A, <2>1, <2>3, <3>1 DEF ExecutorFails
  <2>4. CASE ~ShouldRetry(kind, attempts + 1)
    <3>1. trajectory' \in Seq(Event)
      BY <1>0, <1>14, <2>2, <2>4, RecordOneKeepsType DEF ExecutorFails
    <3>2. outcome' \in Outcome
      BY <1>14, <2>4 DEF ExecutorFails, FailedWith, StopForFailure, Outcome, StopReason
    <3>. QED
      BY <1>0, <1>14, <1>A, <2>1, <2>4, <3>1, <3>2 DEF ExecutorFails
  <2>. QED
    BY <2>3, <2>4
<1>15. CASE ExecutorRaises
  <2>1. pc = "executing" /\ Answered("failed", <<>>)
    BY <1>15 DEF ExecutorRaises
  <2>2. CallEvent("tool_failed", LastCall, 0) \in Event
    BY <2>1, <1>E DEF EventType
  <2>3. trajectory' \in Seq(Event)
    BY <1>0, <1>15, <2>2, RecordOneKeepsType DEF ExecutorRaises
  <2>4. outcome' \in Outcome
    BY <1>15 DEF ExecutorRaises, FailedWith, Outcome, StopReason
  <2>. QED
    BY <1>0, <1>15, <1>A, <2>1, <2>3, <2>4 DEF ExecutorRaises
<1>16. CASE ContainError
  BY <1>16, <1>T DEF ContainError, TerminalStatus, StopReason, FinalEvent
<1>17. CASE Finished \/ UNCHANGED vars
  BY <1>17 DEF Finished, vars, TypeInv, TypeOK, Control, InStep
<1>. QED
  BY <1>1, <1>2, <1>3, <1>4, <1>5, <1>6, <1>7, <1>8, <1>9, <1>10, <1>11, <1>12, <1>13, <1>14,
     <1>15, <1>16, <1>17
  DEF Next

\* The runtime's record, its locals, its trajectory and the stored copy keep
\* their types (contracts.py), whatever the collaborators do.
THEOREM TypeCorrect == Spec => []TypeOK
<1>1. Spec => []TypeInv
  BY InitTypeInv, TypeInvStep, PTL DEF Spec
<1>2. TypeInv => TypeOK
  BY DEF TypeInv
<1>. QED
  BY <1>1, <1>2, PTL

-----------------------------------------------------------------------------
(* The accounting of calls and failures                                    *)

\* How a step may touch the tool history: not at all, by dispatching a call, or by
\* answering the one in flight.
HistoryKept ==
  /\ HistoryUnchanged
  /\ (pc' = "executing") <=> (pc = "executing")

CallAnswered(st, rs) ==
  /\ pc = "executing" /\ pc' # "executing"
  /\ st \in {"succeeded", "failed"} /\ rs \in Seq(Result)
  /\ AnswerCall(st, rs)

CallDispatched ==
  /\ pc' = "executing" /\ DispatchCall
  /\ state.currentStep \in StepId
  /\ state'.toolCalls = Append(state.toolCalls, [step |-> state.currentStep, status |-> "running"])
  /\ state'.toolResults = state.toolResults
  /\ state'.totalToolCalls = state.totalToolCalls
  /\ state'.totalToolFailures = state.totalToolFailures
  /\ state'.stepAttempts = state.stepAttempts

\* Every step does one of the three: the retry, failure and error paths included.
LEMMA HistoryStep ==
  ASSUME TypeInv, [Next]_vars
  PROVE  \/ HistoryKept
         \/ CallDispatched
         \/ \E st, rs : CallAnswered(st, rs)
<1>0. state \in RuntimeState /\ LastCall \in Nat
  BY DEF TypeInv, TypeOK, RuntimeState, LastCall
<1>T. ASSUME NEW status \in TerminalStatus, NEW reason \in StopReason, NEW event \in FinalEvent,
             NEW onError \in {"containing", "leaked"},
             Terminate(status, reason, event, onError), pc # "executing"
      PROVE  HistoryKept
  <2>1. HistoryUnchanged /\ pc' \in {"returned", "containing", "leaked"}
    BY <1>T, TerminateEffect
  <2>. QED
    BY <1>T, <2>1 DEF HistoryKept
<1>1. CASE StartRun
  BY <1>0, <1>1 DEF StartRun, HistoryKept, HistoryUnchanged, RuntimeState
<1>2. ASSUME NEW plan \in Plan, PlannerCreatesPlan(plan) PROVE HistoryKept
  BY <1>0, <1>2 DEF PlannerCreatesPlan, SaveState, HistoryKept, HistoryUnchanged, RuntimeState
<1>3. CASE PlannerFailsToPlan
  BY <1>3, <1>T DEF PlannerFailsToPlan, TerminalStatus, StopReason, FinalEvent
<1>4. CASE StartStep
  BY <1>0, <1>4 DEF StartStep, SaveState, HistoryKept, HistoryUnchanged, RuntimeState
<1>5. CASE StepBudgetSpent
  BY <1>5, <1>T DEF StepBudgetSpent, TerminalStatus, StopReason, FinalEvent, BUDGET_STOP_REASONS
<1>6. CASE PlanFinished
  BY <1>6, <1>T DEF PlanFinished, TerminalStatus, StopReason, FinalEvent
<1>7. CASE PlannerCompletesStep \/ PlannerFailsStep \/ PlannerRaises \/ PlannerCallsTool
           \/ DispatchBlocked
  BY <1>7
  DEF PlannerCompletesStep, PlannerFailsStep, PlannerRaises, PlannerCallsTool, DispatchBlocked,
      StepEndsWith, HistoryKept, HistoryUnchanged
<1>8. CASE FinishStep
  BY <1>0, <1>8 DEF FinishStep, SaveState, HistoryKept, HistoryUnchanged, RuntimeState
<1>9. CASE StopRun
  <2>1. outcome.stopReason \in StopReason
    BY <1>9 DEF StopRun, Outcome, TypeInv, TypeOK, Control
  <2>. QED
    BY <1>9, <1>T, <2>1 DEF StopRun, TerminalStatus, FinalEvent
<1>10. CASE DispatchCall
  <2>1. state.currentStep \in StepId
    BY <1>10 DEF DispatchCall, TypeInv, Control, InStep
  <2>. QED
    BY <1>0, <1>10, <2>1 DEF DispatchCall, CallDispatched, RuntimeState
<1>11. ASSUME pc = "executing", NEW success \in BOOLEAN
       PROVE  ResultOf(success) \in Seq(Result)
  BY <1>0, <1>11 DEF ResultOf, Result, TypeInv, Control, LastCall
<1>12. CASE ExecutorSucceeds
  BY <1>11, <1>12 DEF ExecutorSucceeds, SaveState, CallAnswered
<1>13. ASSUME NEW kind \in FailureKind, ExecutorFails(kind) PROVE \E st, rs : CallAnswered(st, rs)
  BY <1>11, <1>13 DEF ExecutorFails, SaveState, CallAnswered
<1>14. CASE ExecutorRaises
  <2>1. <<>> \in Seq(Result)
    OBVIOUS
  <2>. QED
    BY <1>14, <2>1 DEF ExecutorRaises, SaveState, CallAnswered
<1>15. CASE ContainError
  BY <1>15, <1>T DEF ContainError, TerminalStatus, StopReason, FinalEvent
<1>16. CASE Finished \/ UNCHANGED vars
  BY <1>16 DEF Finished, vars, HistoryKept, HistoryUnchanged
<1>. QED
  BY <1>1, <1>2, <1>3, <1>4, <1>5, <1>6, <1>7, <1>8, <1>9, <1>10, <1>12, <1>13, <1>14, <1>15,
     <1>16
  DEF Next

\* The calls with a given status are finitely many positions of the history.
LEMMA CallsWithFinite ==
  ASSUME TypeInv, NEW status
  PROVE  IsFiniteSet(CallsWith(status)) /\ Cardinality(CallsWith(status)) \in Nat
<1>1. Len(state.toolCalls) \in Nat
  BY DEF TypeInv, TypeOK, RuntimeState
<1>2. IsFiniteSet(CallIndex)
  BY <1>1, FS_Interval DEF CallIndex
<1>. QED
  BY <1>2, FS_Subset, FS_CardinalityType DEF CallsWith

\* The totals the budget is checked against follow the calls through every step.
LEMMA CountersStep ==
  ASSUME TypeInv, CountersMatchHistory, [Next]_vars
  PROVE  CountersMatchHistory'
<1>0. /\ state \in RuntimeState
      /\ state.toolCalls \in Seq(Call) /\ Len(state.toolCalls) \in Nat
      /\ LastCall = Len(state.toolCalls)
  BY DEF TypeInv, TypeOK, RuntimeState, LastCall
<1>1. CASE HistoryKept
  BY <1>1 DEF HistoryKept, HistoryUnchanged, CountersMatchHistory, CallsWith, CallIndex, LastCall
<1>2. CASE CallDispatched
  <2> DEFINE n == Len(state.toolCalls)
  <2>1. pc = "dispatching"
    BY <1>2 DEF CallDispatched, DispatchCall
  <2>2. /\ Len(state'.toolCalls) = n + 1
        /\ \A i \in 1..n : state'.toolCalls[i] = state.toolCalls[i]
        /\ state'.toolCalls[n + 1].status = "running"
    BY <1>0, <1>2, AppendProperties DEF CallDispatched, Call, CallStatus
  <2>3. CallsWith("running") = {} /\ n = state.totalToolCalls
    BY <1>0, <2>1 DEF CountersMatchHistory, RuntimeState
  <2>4. CallsWith("running")' = {n + 1}
    <3>1. \A i \in 1..n : state.toolCalls[i].status # "running"
      BY <2>3 DEF CallsWith, CallIndex
    <3>2. \A i \in 1..(n + 1) : state'.toolCalls[i].status = "running" <=> i = n + 1
      BY <1>0, <2>2, <3>1
    <3>. QED
      BY <1>0, <2>2, <3>2 DEF CallsWith, CallIndex
  <2>5. CallsWith("failed")' = CallsWith("failed")
    BY <1>0, <2>2 DEF CallsWith, CallIndex
  <2>. QED
    BY <1>0, <1>2, <2>2, <2>3, <2>4, <2>5 DEF CallDispatched, CountersMatchHistory, LastCall
<1>3. ASSUME NEW st, NEW rs, CallAnswered(st, rs) PROVE CountersMatchHistory'
  <2> DEFINE n == Len(state.toolCalls)
  <2>1. /\ Len(state'.toolCalls) = n
        /\ \A i \in 1..n : state'.toolCalls[i].status = IF i = n THEN st ELSE state.toolCalls[i].status
        /\ state'.totalToolCalls = state.totalToolCalls + 1
        /\ state'.totalToolFailures =
             IF st = "failed" THEN state.totalToolFailures + 1 ELSE state.totalToolFailures
    <3>1. /\ Len(state'.toolCalls) = n
          /\ \A i \in 1..n :
               state'.toolCalls[i] = IF i = n THEN [step |-> state.toolCalls[i].step, status |-> st]
                                     ELSE state.toolCalls[i]
          /\ state'.totalToolCalls = state.totalToolCalls + 1
          /\ state'.totalToolFailures =
               IF st = "failed" THEN state.totalToolFailures + 1 ELSE state.totalToolFailures
      BY <1>0, <1>3, AnswerEffect DEF CallAnswered
    <3>2. ASSUME NEW i \in 1..n
          PROVE  state'.toolCalls[i].status = IF i = n THEN st ELSE state.toolCalls[i].status
      <4>1. CASE i = n
        <5>1. state'.toolCalls[i] = [step |-> state.toolCalls[i].step, status |-> st]
          BY <3>1, <4>1
        <5>. QED
          BY <4>1, <5>1
      <4>2. CASE i # n
        <5>1. state'.toolCalls[i] = state.toolCalls[i]
          BY <3>1, <4>2
        <5>. QED
          BY <4>2, <5>1
      <4>. QED
        BY <4>1, <4>2
    <3>. QED
      BY <3>1, <3>2
  <2>2. /\ pc = "executing" /\ pc' # "executing" /\ st \in {"succeeded", "failed"}
        /\ CallsWith("running") = {n} /\ n = state.totalToolCalls + 1 /\ n \in 1..n
    BY <1>0, <1>3 DEF CallAnswered, CountersMatchHistory, TypeInv, Control
  <2>3. CallsWith("running")' = {}
    BY <1>0, <2>1, <2>2 DEF CallsWith, CallIndex
  <2>4. n \notin CallsWith("failed")
    BY <2>2 DEF CallsWith
  <2>5. CallsWith("failed")' = IF st = "failed" THEN CallsWith("failed") \cup {n} ELSE CallsWith("failed")
    BY <1>0, <2>1, <2>2, <2>4 DEF CallsWith, CallIndex
  <2>6. Cardinality(CallsWith("failed") \cup {n}) = Cardinality(CallsWith("failed")) + 1
    BY <2>4, CallsWithFinite, FS_AddElement
  <2>7. state'.totalToolFailures = Cardinality(CallsWith("failed")')
    BY <2>1, <2>2, <2>5, <2>6 DEF CountersMatchHistory
  <2>8. Len(state'.toolCalls) = state'.totalToolCalls
    BY <1>0, <2>1, <2>2 DEF RuntimeState
  <2>. QED
    BY <2>2, <2>3, <2>7, <2>8 DEF CountersMatchHistory
<1>. QED
  BY <1>1, <1>2, <1>3, HistoryStep

\* A fresh run has made no call and counted none.
LEMMA InitCounters == Init => CountersMatchHistory
  BY FS_EmptySet DEF Init, InitialState, CountersMatchHistory, CallsWith, CallIndex

\* The counting semantics of runtime.py: on every path, the totals are exactly the
\* settled and the failed calls of the history.
THEOREM CountersCorrect == Spec => []CountersMatchHistory
<1>1. TypeInv /\ CountersMatchHistory /\ [Next]_vars => CountersMatchHistory'
  BY CountersStep
<1>. QED
  BY InitTypeInv, TypeInvStep, InitCounters, <1>1, PTL DEF Spec

-----------------------------------------------------------------------------
(* The budgets                                                             *)

\* A call in flight was admitted below every limit, so its answer cannot overrun
\* one; the attempts of a planned call stay below the policy's limit until the
\* last of them is answered.
BudgetInv ==
  /\ BudgetsRespected
  /\ pc = "executing" => state.totalToolFailures < MaxFailures
  /\ pc \in {"dispatching", "executing"} => attempts < MaxAttempts

\* How a step may move the two local counters that are checked against limits.
LEMMA LocalsStep ==
  ASSUME TypeInv, [Next]_vars
  PROVE  /\ stepsStarted' = stepsStarted \/ (stepsStarted < MaxSteps /\ stepsStarted' = stepsStarted + 1)
         /\ pc' = "dispatching" =>
              \/ attempts' < MaxAttempts
              \/ pc = "dispatching" /\ attempts' = attempts
         /\ pc' = "executing" => pc \in {"dispatching", "executing"} /\ attempts' = attempts
<1>0. attempts \in Nat /\ stepsStarted \in Nat /\ MaxAttempts \in Nat \ {0}
  BY LimitAssumption DEF TypeInv, TypeOK
<1> DEFINE Goal ==
      /\ stepsStarted' = stepsStarted \/ (stepsStarted < MaxSteps /\ stepsStarted' = stepsStarted + 1)
      /\ pc' = "dispatching" =>
           \/ attempts' < MaxAttempts
           \/ pc = "dispatching" /\ attempts' = attempts
      /\ pc' = "executing" => pc \in {"dispatching", "executing"} /\ attempts' = attempts
<1>T. ASSUME NEW status, NEW reason, NEW event, NEW onError \in {"containing", "leaked"},
             Terminate(status, reason, event, onError)
      PROVE  Goal
  BY <1>0, <1>T DEF Terminate, SaveState, locals
<1>1. CASE StartRun \/ PlannerFailsToPlan \/ StepBudgetSpent \/ PlanFinished \/ StopRun \/ ContainError
  BY <1>0, <1>1, <1>T
  DEF StartRun, PlannerFailsToPlan, StepBudgetSpent, PlanFinished, StopRun, ContainError, locals
<1>2. ASSUME NEW plan \in Plan, PlannerCreatesPlan(plan) PROVE Goal
  BY <1>0, <1>2 DEF PlannerCreatesPlan, SaveState, locals
<1>3. CASE StartStep \/ FinishStep
  BY <1>0, <1>3 DEF StartStep, FinishStep, SaveState
<1>4. CASE PlannerCompletesStep \/ PlannerFailsStep \/ PlannerRaises \/ PlannerCallsTool
           \/ DispatchBlocked \/ DispatchCall
  BY <1>0, <1>4
  DEF PlannerCompletesStep, PlannerFailsStep, PlannerRaises, PlannerCallsTool, DispatchBlocked,
      DispatchCall, StepEndsWith, locals
<1>5. CASE ExecutorSucceeds \/ ExecutorRaises
  BY <1>0, <1>5 DEF ExecutorSucceeds, ExecutorRaises, SaveState
<1>6. ASSUME NEW kind \in FailureKind, ExecutorFails(kind) PROVE Goal
  <2>1. attempts' = attempts + 1 /\ stepsStarted' = stepsStarted
    BY <1>6 DEF ExecutorFails, AnswerCall
  <2>2. CASE ShouldRetry(kind, attempts + 1)
    BY <1>0, <1>6, <2>1, <2>2 DEF ExecutorFails, SaveState, ShouldRetry
  <2>3. CASE ~ShouldRetry(kind, attempts + 1)
    BY <1>0, <1>6, <2>1, <2>3 DEF ExecutorFails, SaveState
  <2>. QED
    BY <2>2, <2>3
<1>7. CASE Finished \/ UNCHANGED vars
  BY <1>7 DEF Finished, vars
<1>. QED
  BY <1>1, <1>2, <1>3, <1>4, <1>5, <1>6, <1>7 DEF Next

\* The calls of a step are finitely many.
LEMMA CallsOfStepFinite ==
  ASSUME TypeInv, NEW id
  PROVE  IsFiniteSet(CallsOfStep(state, id)) /\ Cardinality(CallsOfStep(state, id)) \in Nat
<1>1. Len(state.toolCalls) \in Nat
  BY DEF TypeInv, TypeOK, RuntimeState
<1>2. IsFiniteSet(1..Len(state.toolCalls))
  BY <1>1, FS_Interval
<1>. QED
  BY <1>2, FS_Subset, FS_CardinalityType DEF CallsOfStep

\* No step, dispatch or answer overruns a limit.
LEMMA BudgetStep ==
  ASSUME TypeInv, CountersMatchHistory, BudgetInv, [Next]_vars
  PROVE  BudgetInv'
<1>0. /\ state \in RuntimeState
      /\ state.toolCalls \in Seq(Call) /\ Len(state.toolCalls) \in Nat
      /\ state.totalToolFailures \in Nat /\ attempts \in Nat /\ stepsStarted \in Nat
      /\ state.stepAttempts \in [StepId -> Nat]
      /\ LastCall = Len(state.toolCalls)
  BY DEF TypeInv, TypeOK, RuntimeState, LastCall
<1>L. /\ MaxSteps \in Nat /\ MaxToolCalls \in Nat /\ MaxToolCallsPerStep \in Nat
      /\ MaxFailures \in Nat /\ MaxAttempts \in Nat \ {0}
  BY LimitAssumption
<1>S. stepsStarted' <= MaxSteps
  BY <1>0, <1>L, LocalsStep DEF BudgetInv, BudgetsRespected
<1>A. pc' \in {"dispatching", "executing"} => attempts' < MaxAttempts
  BY LocalsStep DEF BudgetInv
<1>1. CASE HistoryKept
  <2>1. state'.toolCalls = state.toolCalls /\ \A id \in StepId : CallsOfStep(state', id) = CallsOfStep(state, id)
    BY <1>1 DEF HistoryKept, HistoryUnchanged, CallsOfStep
  <2>. QED
    BY <1>1, <1>S, <1>A, <2>1 DEF HistoryKept, HistoryUnchanged, BudgetInv, BudgetsRespected
<1>2. CASE CallDispatched
  <2> DEFINE n == Len(state.toolCalls)
             cur == state.currentStep
  <2>1. /\ pc = "dispatching" /\ BlockReason = None /\ cur \in StepId
        /\ n = state.totalToolCalls
    BY <1>0, <1>2 DEF CallDispatched, DispatchCall, CountersMatchHistory, RuntimeState
  <2>2. /\ n < MaxToolCalls
        /\ Cardinality(CallsOfStep(state, cur)) < MaxToolCallsPerStep
        /\ state.totalToolFailures < MaxFailures
    <3>1. state.totalToolCalls \in Nat /\ Cardinality(CallsOfStep(state, cur)) \in Nat
      BY <1>0, CallsOfStepFinite DEF RuntimeState
    <3>2. None \notin {"max_tool_calls_exceeded", "max_tool_calls_per_step_exceeded", "tool_failure_limit"}
      BY NoneAssumption DEF StopReason, BUDGET_STOP_REASONS
    <3>3. /\ ~(state.totalToolCalls >= MaxToolCalls)
          /\ ~(CallsInStep >= MaxToolCallsPerStep)
          /\ ~(state.totalToolFailures >= MaxFailures)
      BY <2>1, <3>2 DEF BlockReason
    <3>. QED
      BY <1>0, <1>L, <2>1, <3>1, <3>3 DEF CallsInStep
  <2>3. /\ Len(state'.toolCalls) = n + 1
        /\ \A i \in 1..n : state'.toolCalls[i] = state.toolCalls[i]
        /\ state'.toolCalls[n + 1].step = cur
    BY <1>0, <1>2, AppendProperties DEF CallDispatched, Call, CallStatus
  <2>4. CallsOfStep(state', cur) = CallsOfStep(state, cur) \cup {n + 1}
    BY <1>0, <2>3 DEF CallsOfStep
  <2>5. n + 1 \notin CallsOfStep(state, cur)
    BY <1>0 DEF CallsOfStep
  <2>6. Cardinality(CallsOfStep(state', cur)) = Cardinality(CallsOfStep(state, cur)) + 1
    BY <2>4, <2>5, CallsOfStepFinite, FS_AddElement
  <2>7. ASSUME NEW id \in StepId, id # cur PROVE CallsOfStep(state', id) = CallsOfStep(state, id)
    BY <1>0, <2>3, <2>7 DEF CallsOfStep
  <2>8. ASSUME NEW id \in StepId PROVE Cardinality(CallsOfStep(state', id)) <= MaxToolCallsPerStep
    <3>1. CASE id = cur
      BY <1>L, <2>2, <2>6, <3>1, CallsOfStepFinite
    <3>2. CASE id # cur
      BY <2>7, <3>2 DEF BudgetInv, BudgetsRespected
    <3>. QED
      BY <3>1, <3>2
  <2>9. Len(state'.toolCalls) <= MaxToolCalls
    BY <1>0, <1>L, <2>2, <2>3
  <2>10. state'.totalToolFailures = state.totalToolFailures /\ state'.stepAttempts = state.stepAttempts
    BY <1>2 DEF CallDispatched
  <2>. QED
    BY <1>S, <1>A, <2>2, <2>8, <2>9, <2>10 DEF BudgetInv, BudgetsRespected
<1>3. ASSUME NEW st, NEW rs, CallAnswered(st, rs) PROVE BudgetInv'
  <2> DEFINE n == Len(state.toolCalls)
  <2>1. /\ pc = "executing" /\ pc' # "executing" /\ st \in {"succeeded", "failed"}
        /\ attempts < MaxAttempts /\ state.totalToolFailures < MaxFailures
    BY <1>3 DEF CallAnswered, BudgetInv
  <2>2. /\ Len(state'.toolCalls) = n
        /\ \A i \in 1..n :
             state'.toolCalls[i] = IF i = n THEN [step |-> state.toolCalls[i].step, status |-> st]
                                   ELSE state.toolCalls[i]
        /\ state'.totalToolFailures =
             IF st = "failed" THEN state.totalToolFailures + 1 ELSE state.totalToolFailures
    BY <1>0, <1>3, AnswerEffect DEF CallAnswered
  <2>3. ASSUME NEW i \in 1..n PROVE state'.toolCalls[i].step = state.toolCalls[i].step
    <3>1. CASE i = n
      <4>1. state'.toolCalls[i] = [step |-> state.toolCalls[i].step, status |-> st]
        BY <2>2, <3>1
      <4>. QED
        BY <4>1
    <3>2. CASE i # n
      BY <2>2, <3>2
    <3>. QED
      BY <3>1, <3>2
  <2>4. \A id \in StepId : CallsOfStep(state', id) = CallsOfStep(state, id)
    BY <2>2, <2>3 DEF CallsOfStep
  <2>5. state'.stepAttempts = RecordAttempt(attempts + 1)
    BY <1>0, <1>3 DEF CallAnswered, AnswerCall, RuntimeState
  <2>6. ASSUME NEW id \in StepId PROVE state'.stepAttempts[id] <= MaxAttempts
    BY <1>0, <1>L, <2>1, <2>5 DEF RecordAttempt, BudgetInv, BudgetsRespected
  <2>7. state'.totalToolFailures <= MaxFailures
    BY <1>0, <1>L, <2>1, <2>2
  <2>8. Len(state'.toolCalls) <= MaxToolCalls
    BY <2>2 DEF BudgetInv, BudgetsRespected
  <2>. QED
    BY <1>S, <1>A, <2>1, <2>4, <2>6, <2>7, <2>8 DEF BudgetInv, BudgetsRespected
<1>. QED
  BY <1>1, <1>2, <1>3, HistoryStep

\* A fresh run has used nothing of any limit.
LEMMA InitBudget == Init => BudgetInv
<1>. SUFFICES ASSUME Init PROVE BudgetInv
  OBVIOUS
<1>1. ASSUME NEW id \in StepId
      PROVE  Cardinality(CallsOfStep(state, id)) = 0 /\ state.stepAttempts[id] = 0
  BY FS_EmptySet DEF Init, InitialState, CallsOfStep
<1>2. Len(state.toolCalls) = 0 /\ state.totalToolFailures = 0 /\ stepsStarted = 0 /\ pc = "starting"
  BY DEF Init, InitialState
<1>. QED
  BY <1>1, <1>2, LimitAssumption DEF BudgetInv, BudgetsRespected

\* The strengthened form of the limits holds throughout a run.
LEMMA BudgetInvariant == Spec => []BudgetInv
<1>1. TypeInv /\ CountersMatchHistory /\ BudgetInv /\ [Next]_vars => BudgetInv'
  BY BudgetStep
<1>. QED
  BY InitTypeInv, TypeInvStep, CountersCorrect, InitBudget, <1>1, PTL DEF Spec

\* No limit of InvestigationBudget or RetryPolicy is ever overrun, for any limits,
\* plan and behaviour of planner, executor and store.
THEOREM BudgetsHold == Spec => []BudgetsRespected
<1>1. BudgetInv => BudgetsRespected
  BY DEF BudgetInv
<1>. QED
  BY BudgetInvariant, <1>1, PTL

-----------------------------------------------------------------------------
(* The length of a run                                                     *)

\* What is left of a run at each place of its code, short of a further step or call.
Distance ==
  CASE pc \in {"returned", "leaked"}       -> 0
    [] pc = "containing"                   -> 1
    [] pc \in {"iterating", "stopping"}    -> 2
    [] pc \in {"planning", "finishing"}    -> 3
    [] pc \in {"starting", "executing"}    -> 4
    [] pc = "dispatching"                  -> 5
    [] pc = "deciding"                     -> 6

\* What is left of a run: a step that may still be started costs five actions more
\* than its calls, and a call that may still be answered three.
Effort == 5 * (MaxSteps - stepsStarted) + 3 * (MaxToolCalls - state.totalToolCalls) + Distance
EffortLimit == 5 * MaxSteps + 3 * MaxToolCalls + 4

\* Neither budget is overdrawn, so what is left is never negative.
LEMMA EffortIsLeft ==
  ASSUME TypeInv, CountersMatchHistory, BudgetInv
  PROVE  Effort \in Nat
<1>1. /\ stepsStarted \in Nat /\ state.totalToolCalls \in Nat /\ Len(state.toolCalls) \in Nat
      /\ MaxSteps \in Nat /\ MaxToolCalls \in Nat
  BY LimitAssumption DEF TypeInv, TypeOK, RuntimeState
<1>2. stepsStarted <= MaxSteps /\ Len(state.toolCalls) <= MaxToolCalls
  BY DEF BudgetInv, BudgetsRespected
<1>3. state.totalToolCalls <= Len(state.toolCalls)
  BY <1>1 DEF CountersMatchHistory
<1>4. Distance \in 0..6
  BY DEF Distance, TypeInv, TypeOK, Location
<1>. QED
  BY <1>1, <1>2, <1>3, <1>4 DEF Effort

\* A step either starts a step of the plan, answers a call or does neither, and goes to
\* a place with less ahead of it in the last case.
LEMMA EffortStep ==
  ASSUME TypeInv, [Next]_vars
  PROVE  Effort' < Effort \/ UNCHANGED vars
<1>0. /\ stepsStarted \in Nat /\ state.totalToolCalls \in Nat /\ state \in RuntimeState
      /\ MaxSteps \in Nat /\ MaxToolCalls \in Nat
  BY LimitAssumption DEF TypeInv, TypeOK, RuntimeState
<1> DEFINE Less(started, answered) ==
      /\ stepsStarted' = stepsStarted + started
      /\ state'.totalToolCalls = state.totalToolCalls + answered
      /\ Distance' - 5 * started - 3 * answered < Distance
<1>L. ASSUME NEW started \in Nat, NEW answered \in Nat, Less(started, answered),
             Distance \in Int, Distance' \in Int
      PROVE  Effort' < Effort
  <2>1. ASSUME NEW s \in Int, NEW c \in Int, NEW before \in Int, NEW after \in Int,
               after - 5 * started - 3 * answered < before
        PROVE  5 * (s - started) + 3 * (c - answered) + after < 5 * s + 3 * c + before
    BY <2>1
  <2>2. /\ MaxSteps - stepsStarted' = (MaxSteps - stepsStarted) - started
        /\ MaxToolCalls - state'.totalToolCalls
             = (MaxToolCalls - state.totalToolCalls) - answered
    BY <1>0, <1>L
  <2>3. MaxSteps - stepsStarted \in Int /\ MaxToolCalls - state.totalToolCalls \in Int
    BY <1>0
  <2>4. Distance' - 5 * started - 3 * answered < Distance
    BY <1>L
  <2>5. 5 * ((MaxSteps - stepsStarted) - started)
          + 3 * ((MaxToolCalls - state.totalToolCalls) - answered) + Distance'
        < 5 * (MaxSteps - stepsStarted) + 3 * (MaxToolCalls - state.totalToolCalls) + Distance
    BY <1>L, <2>1, <2>3, <2>4
  <2>. QED
    BY <2>2, <2>5 DEF Effort
<1>R. /\ Distance \in Int
      /\ pc' \in Location => Distance' \in Int
  BY DEF Distance, TypeInv, TypeOK, Location
<1>T. ASSUME NEW status, NEW reason, NEW event, NEW onError \in {"containing", "leaked"},
             Terminate(status, reason, event, onError),
             pc \in {"planning", "iterating", "stopping", "containing"},
             pc = "containing" => onError = "leaked"
      PROVE  Effort' < Effort
  <2>1. Less(0, 0) /\ pc' \in Location
    BY <1>0, <1>T DEF Terminate, SaveState, locals, Distance, RuntimeState, Location
  <2>. QED
    BY <2>1, <1>L, <1>R
<1>1. CASE StartRun
  <2>1. Less(0, 0) /\ pc' \in Location
    BY <1>0, <1>1 DEF StartRun, locals, Distance, RuntimeState, Location
  <2>. QED
    BY <2>1, <1>L, <1>R
<1>2. ASSUME NEW plan \in Plan, PlannerCreatesPlan(plan) PROVE Effort' < Effort
  <2>1. Less(0, 0) /\ pc' \in Location
    BY <1>0, <1>2 DEF PlannerCreatesPlan, SaveState, locals, Distance, RuntimeState, Location
  <2>. QED
    BY <2>1, <1>L, <1>R
<1>3. CASE StartStep
  <2>1. Less(1, 0) /\ pc' \in Location
    BY <1>0, <1>3 DEF StartStep, SaveState, Distance, RuntimeState, Location
  <2>. QED
    BY <2>1, <1>L, <1>R
<1>4. CASE PlannerFailsToPlan \/ StepBudgetSpent \/ PlanFinished \/ StopRun \/ ContainError
  BY <1>4, <1>T
  DEF PlannerFailsToPlan, StepBudgetSpent, PlanFinished, StopRun, ContainError
<1>5. CASE PlannerCompletesStep \/ PlannerFailsStep \/ PlannerRaises \/ PlannerCallsTool
           \/ DispatchBlocked
  <2>1. Less(0, 0) /\ pc' \in Location
    BY <1>0, <1>5
    DEF PlannerCompletesStep, PlannerFailsStep, PlannerRaises, PlannerCallsTool, DispatchBlocked,
        StepEndsWith, Distance, RuntimeState, Location
  <2>. QED
    BY <2>1, <1>L, <1>R
<1>6. CASE FinishStep
  <2>1. Less(0, 0) /\ pc' \in Location
    BY <1>0, <1>6 DEF FinishStep, SaveState, Distance, RuntimeState, Location
  <2>. QED
    BY <2>1, <1>L, <1>R
<1>7. CASE DispatchCall
  <2>1. Less(0, 0) /\ pc' \in Location
    BY <1>0, <1>7 DEF DispatchCall, locals, Distance, RuntimeState, Location
  <2>. QED
    BY <2>1, <1>L, <1>R
<1>A. ASSUME NEW st, NEW rs, AnswerCall(st, rs), pc = "executing", stepsStarted' = stepsStarted,
             pc' \in {"deciding", "dispatching", "finishing", "containing"}
      PROVE  Effort' < Effort
  <2>1. Less(0, 1) /\ pc' \in Location
    BY <1>0, <1>A DEF AnswerCall, Distance, RuntimeState, Location
  <2>. QED
    BY <2>1, <1>L, <1>R
<1>8. CASE ExecutorSucceeds \/ ExecutorRaises
  BY <1>8, <1>A DEF ExecutorSucceeds, ExecutorRaises, SaveState
<1>9. ASSUME NEW kind \in FailureKind, ExecutorFails(kind) PROVE Effort' < Effort
  BY <1>9, <1>A DEF ExecutorFails, SaveState
<1>10. CASE Finished \/ UNCHANGED vars
  BY <1>10 DEF Finished
<1>. QED
  BY <1>1, <1>2, <1>3, <1>4, <1>5, <1>6, <1>7, <1>8, <1>9, <1>10 DEF Next

\* A fresh run has both budgets ahead of it.
LEMMA InitEffort == Init => Effort = EffortLimit
<1>1. ASSUME Init PROVE stepsStarted = 0 /\ state.totalToolCalls = 0 /\ Distance = 4
  BY <1>1 DEF Init, InitialState, Distance
<1>. QED
  BY <1>1, LimitAssumption DEF Effort, EffortLimit

\* Every step of a run brings it nearer to its end, so a run is over after at most
\* EffortLimit steps whatever planner, executor and store do: the limits of
\* InvestigationBudget alone keep _drive from running on.
RunIsBounded ==
  /\ [](Effort \in 0..EffortLimit)
  /\ [][Effort' < Effort]_vars

\* A run ends, whatever its planner, executor and store do, as long as it goes on.
THEOREM RunsAreBounded == Spec => RunIsBounded
<1> DEFINE Kept == TypeInv /\ CountersMatchHistory /\ BudgetInv
           Left == Effort \in Nat
           Below == Effort <= EffortLimit
<1>1. Spec => []Kept
  <2>1. Spec => []TypeInv
    BY InitTypeInv, TypeInvStep, PTL DEF Spec
  <2>. QED
    BY <2>1, CountersCorrect, BudgetInvariant, PTL
<1>2. Kept => Left
  BY EffortIsLeft
<1>3. EffortLimit \in Nat
  BY LimitAssumption DEF EffortLimit
<1>4. Init => Below
  BY InitEffort, <1>3
<1>5. Kept /\ [Next]_vars => [Effort' < Effort]_vars
  BY EffortStep
<1>6. Kept /\ Left /\ Left' /\ Below /\ [Next]_vars => Below'
  <2>1. ASSUME Left, Left', Below, Effort' < Effort PROVE Below'
    BY <2>1, <1>3 DEF EffortLimit
  <2>2. ASSUME Below, UNCHANGED vars PROVE Below'
    BY <2>2 DEF vars, Effort, Distance, EffortLimit
  <2>. QED
    BY <2>1, <2>2, EffortStep
<1>7. Kept /\ Below => Effort \in 0..EffortLimit
  BY <1>2, <1>3
<1>. QED
  BY <1>1, <1>2, <1>4, <1>5, <1>6, <1>7, PTL DEF Spec, RunIsBounded

-----------------------------------------------------------------------------
(* The store                                                               *)

AtRest == {"iterating", "deciding", "dispatching", "finishing", "stopping", "returned"}

\* A step leaves the store alone or replaces its content by the new state between
\* calls; the first save of a run stores the initial state.  Whoever arrives at
\* rest has saved, or changed nothing since the last save.
LEMMA StoreStep ==
  ASSUME TypeInv, [Next]_vars
  PROVE  /\ \/ stored' = stored
            \/ stored' = state' /\ pc' # "executing"
            \/ stored' = state /\ pc = "starting"
         /\ pc' \in AtRest =>
              \/ stored' = state'
              \/ pc \in AtRest /\ stored' = stored /\ state' = state
<1> DEFINE Goal ==
      /\ \/ stored' = stored
         \/ stored' = state' /\ pc' # "executing"
         \/ stored' = state /\ pc = "starting"
      /\ pc' \in AtRest =>
           \/ stored' = state'
           \/ pc \in AtRest /\ stored' = stored /\ state' = state
<1>S. ASSUME NEW then \in {"iterating", "deciding", "dispatching", "finishing", "stopping", "returned"},
             NEW onError \in {"containing", "leaked"}, SaveState(then, onError)
      PROVE  Goal
  BY <1>S DEF SaveState, AtRest
<1>1. CASE StartRun
  BY <1>1 DEF StartRun, AtRest
<1>2. ASSUME NEW plan \in Plan, PlannerCreatesPlan(plan) PROVE Goal
  BY <1>2, <1>S DEF PlannerCreatesPlan
<1>3. CASE PlannerFailsToPlan \/ StepBudgetSpent \/ PlanFinished \/ StopRun \/ ContainError
  BY <1>3, <1>S
  DEF PlannerFailsToPlan, StepBudgetSpent, PlanFinished, StopRun, ContainError, Terminate
<1>4. CASE StartStep \/ FinishStep \/ ExecutorSucceeds \/ ExecutorRaises
  BY <1>4, <1>S DEF StartStep, FinishStep, ExecutorSucceeds, ExecutorRaises
<1>5. ASSUME NEW kind \in FailureKind, ExecutorFails(kind) PROVE Goal
  BY <1>5, <1>S DEF ExecutorFails
<1>6. CASE PlannerCompletesStep \/ PlannerFailsStep \/ PlannerRaises \/ PlannerCallsTool
           \/ DispatchBlocked
  BY <1>6
  DEF PlannerCompletesStep, PlannerFailsStep, PlannerRaises, PlannerCallsTool, DispatchBlocked,
      StepEndsWith, AtRest
<1>7. CASE DispatchCall
  BY <1>7 DEF DispatchCall, AtRest
<1>8. CASE Finished \/ UNCHANGED vars
  BY <1>8 DEF Finished, vars, AtRest
<1>. QED
  BY <1>1, <1>2, <1>3, <1>4, <1>5, <1>6, <1>7, <1>8 DEF Next

\* The store of a fresh run is empty.
LEMMA InitStore == Init => StoreIsCurrentAtRest /\ StoredHistoryIsSettled
  BY DEF Init, InitialState, StoreIsCurrentAtRest, StoredHistoryIsSettled

LEMMA StoreKeptCurrent ==
  TypeInv /\ StoreIsCurrentAtRest /\ [Next]_vars => StoreIsCurrentAtRest'
  BY StoreStep DEF StoreIsCurrentAtRest, AtRest

\* Outside planning and an executing call the store is up to date; in particular
\* the run handed to the caller is the stored one.
THEOREM StoreCurrent == Spec => []StoreIsCurrentAtRest
  BY InitTypeInv, TypeInvStep, InitStore, StoreKeptCurrent, PTL DEF Spec

\* What StoredHistoryIsSettled says, of any state of the runtime.
SettledHistory(s) ==
  /\ \A i \in 1..Len(s.toolCalls) : s.toolCalls[i].status # "running"
  /\ s.totalToolCalls = Len(s.toolCalls)
  /\ s.totalToolFailures = Cardinality({i \in 1..Len(s.toolCalls) : s.toolCalls[i].status = "failed"})

\* Between two calls the history is settled.
LEMMA SettledBetweenCalls ==
  TypeInv /\ CountersMatchHistory => (pc # "executing" => SettledHistory(state))
<1> SUFFICES ASSUME TypeInv, CountersMatchHistory, pc # "executing" PROVE SettledHistory(state)
  OBVIOUS
<1>1. state.totalToolCalls \in Nat
  BY DEF TypeInv, TypeOK, RuntimeState
<1>2. /\ CallsWith("running") = {}
      /\ Len(state.toolCalls) = state.totalToolCalls
      /\ state.totalToolFailures = Cardinality(CallsWith("failed"))
  BY <1>1 DEF CountersMatchHistory
<1>. QED
  BY <1>2 DEF SettledHistory, CallsWith, CallIndex

\* What is saved is settled, and stays so.
LEMMA StoredKeptSettled ==
  /\ TypeInv /\ CountersMatchHistory /\ StoredHistoryIsSettled
  /\ TypeInv' /\ CountersMatchHistory' /\ [Next]_vars
  => StoredHistoryIsSettled'
<1> SUFFICES ASSUME TypeInv, CountersMatchHistory, StoredHistoryIsSettled,
                    TypeInv', CountersMatchHistory', [Next]_vars
             PROVE  StoredHistoryIsSettled'
  OBVIOUS
<1>1. CASE stored' = stored
  BY <1>1 DEF StoredHistoryIsSettled
<1>2. CASE stored' = state' /\ pc' # "executing"
  <2>1. (pc # "executing" => SettledHistory(state))'
    BY SettledBetweenCalls, PTL
  <2>. QED
    BY <1>2, <2>1 DEF StoredHistoryIsSettled, SettledHistory
<1>3. CASE stored' = state /\ pc = "starting"
  <2>1. SettledHistory(state)
    BY <1>3, SettledBetweenCalls
  <2>. QED
    BY <1>3, <2>1 DEF StoredHistoryIsSettled, SettledHistory
<1>. QED
  BY <1>1, <1>2, <1>3, StoreStep

\* Whoever loads the state of an incident never sees a call without its outcome,
\* nor totals that disagree with the calls: no save happens during a call.
THEOREM StoredSettled == Spec => []StoredHistoryIsSettled
  BY InitTypeInv, TypeInvStep, CountersCorrect, InitStore, StoredKeptSettled, PTL DEF Spec

-----------------------------------------------------------------------------
(* Settled work                                                            *)

\* Steps are opened in plan order: those after the current one are still pending,
\* and the current one is running for as long as the runtime works on it.
StepsInv ==
  /\ \A i \in StepIndex : i > stepsStarted => state.stepStatus[i] = "pending"
  /\ InStep => state.stepStatus[stepsStarted] = "running"
  /\ pc \in {"starting", "planning"} => Len(state.stepStatus) = 0

SettledStepsKept ==
  \A i \in StepIndex : state.stepStatus[i] \in {"completed", "failed"} =>
    state'.stepStatus[i] = state.stepStatus[i]

\* A step changes its status only when it is opened or finished.
LEMMA StepsStep ==
  ASSUME TypeInv, StepsInv, [Next]_vars
  PROVE  StepsInv' /\ SettledStepsKept
<1>0. /\ state \in RuntimeState
      /\ state.stepStatus \in Seq(StepStatus) /\ Len(state.stepStatus) \in Nat
      /\ stepsStarted \in Nat
      /\ Len(state.stepStatus) = Len(state.plan)
  BY DEF TypeInv, TypeOK, Control, RuntimeState
<1>K. ASSUME state'.stepStatus = state.stepStatus, stepsStarted' = stepsStarted,
             InStep' => InStep, pc' \in {"starting", "planning"} => pc \in {"starting", "planning"}
      PROVE  StepsInv' /\ SettledStepsKept
  BY <1>K DEF StepsInv, SettledStepsKept, StepIndex
<1>T. ASSUME NEW status \in TerminalStatus, NEW reason \in StopReason, NEW event \in FinalEvent,
             NEW onError \in {"containing", "leaked"},
             Terminate(status, reason, event, onError)
      PROVE  StepsInv' /\ SettledStepsKept
  <2>1. PlanUnchanged /\ pc' \in {"returned", "containing", "leaked"} /\ UNCHANGED locals
    BY <1>T, TerminateEffect
  <2>. QED
    BY <1>K, <2>1 DEF PlanUnchanged, locals, InStep
<1>1. CASE StartRun
  BY <1>0, <1>1, <1>K DEF StartRun, locals, InStep, RuntimeState
<1>2. ASSUME NEW plan \in Plan, PlannerCreatesPlan(plan) PROVE StepsInv' /\ SettledStepsKept
  <2>1. Len(state.stepStatus) = 0 /\ stepsStarted' = stepsStarted /\ stepsStarted = 0
    BY <1>2 DEF PlannerCreatesPlan, StepsInv, locals, TypeInv, Control
  <2>2. Len(plan) \in Nat
    BY PlanIsSeq
  <2>3. state'.stepStatus = [i \in 1..Len(plan) |-> "pending"]
    BY <1>0, <1>2 DEF PlannerCreatesPlan, RuntimeState
  <2>4. Len(state'.stepStatus) = Len(plan) /\ \A i \in 1..Len(plan) : state'.stepStatus[i] = "pending"
    BY <2>2, <2>3
  <2>5. pc' \in {"iterating", "containing"}
    BY <1>2 DEF PlannerCreatesPlan, SaveState
  <2>. QED
    BY <1>0, <2>1, <2>2, <2>4, <2>5 DEF StepsInv, SettledStepsKept, StepIndex, InStep
<1>3. CASE PlannerFailsToPlan
  BY <1>3, <1>T DEF PlannerFailsToPlan, TerminalStatus, StopReason, FinalEvent
<1>4. CASE StartStep
  <2> DEFINE n == stepsStarted + 1
  <2>1. n \in 1..Len(state.stepStatus)
    BY <1>0, <1>4 DEF StartStep, StepsRemain
  <2>2. state'.stepStatus = [state.stepStatus EXCEPT ![n] = "running"] /\ stepsStarted' = n
    BY <1>0, <1>4 DEF StartStep, RuntimeState
  <2>3. /\ Len(state'.stepStatus) = Len(state.stepStatus)
        /\ \A i \in 1..Len(state.stepStatus) :
             state'.stepStatus[i] = IF i = n THEN "running" ELSE state.stepStatus[i]
    BY <1>0, <2>1, <2>2, ExceptSeq DEF StepStatus
  <2>4. pc' \in {"deciding", "containing"} /\ pc = "iterating"
    BY <1>4 DEF StartStep, SaveState
  <2>5. state.stepStatus[n] = "pending"
    BY <1>0, <2>1 DEF StepsInv, StepIndex
  <2>. QED
    BY <1>0, <2>1, <2>2, <2>3, <2>4, <2>5 DEF StepsInv, SettledStepsKept, StepIndex, InStep
<1>5. CASE StepBudgetSpent
  BY <1>5, <1>T DEF StepBudgetSpent, TerminalStatus, StopReason, FinalEvent, BUDGET_STOP_REASONS
<1>6. CASE PlanFinished
  BY <1>6, <1>T DEF PlanFinished, TerminalStatus, StopReason, FinalEvent
<1>7. CASE PlannerCompletesStep \/ PlannerFailsStep \/ PlannerRaises \/ PlannerCallsTool
           \/ DispatchBlocked
  BY <1>7, <1>K
  DEF PlannerCompletesStep, PlannerFailsStep, PlannerRaises, PlannerCallsTool, DispatchBlocked,
      StepEndsWith, InStep
<1>8. CASE FinishStep
  <2> DEFINE n == stepsStarted
  <2>1. n \in 1..Len(state.stepStatus) /\ state.stepStatus[n] = "running"
    BY <1>0, <1>8 DEF FinishStep, StepsInv, InStep, TypeInv, Control
  <2>2. state'.stepStatus = [state.stepStatus EXCEPT ![n] = outcome.status] /\ stepsStarted' = n
    BY <1>0, <1>8 DEF FinishStep, RuntimeState
  <2>3. /\ Len(state'.stepStatus) = Len(state.stepStatus)
        /\ \A i \in 1..Len(state.stepStatus) : i # n => state'.stepStatus[i] = state.stepStatus[i]
    <3>1. outcome.status \in StepStatus
      BY DEF TypeInv, TypeOK, Outcome, StepStatus
    <3>. QED
      BY <1>0, <2>1, <2>2, <3>1, ExceptSeq
  <2>4. pc' \in {"iterating", "stopping", "containing"}
    BY <1>8 DEF FinishStep, SaveState
  <2>. QED
    BY <1>0, <2>1, <2>2, <2>3, <2>4 DEF StepsInv, SettledStepsKept, StepIndex, InStep
<1>9. CASE StopRun
  <2>1. outcome.stopReason \in StopReason
    BY <1>9 DEF StopRun, Outcome, TypeInv, TypeOK, Control
  <2>. QED
    BY <1>9, <1>T, <2>1 DEF StopRun, TerminalStatus, FinalEvent
<1>10. CASE DispatchCall
  BY <1>0, <1>10, <1>K DEF DispatchCall, locals, InStep, RuntimeState
<1>11. ASSUME NEW st, NEW rs, pc = "executing", st \in {"succeeded", "failed"}, rs \in Seq(Result),
              AnswerCall(st, rs), stepsStarted' = stepsStarted, pc' \notin {"starting", "planning"}
       PROVE  StepsInv' /\ SettledStepsKept
  BY <1>K, <1>11, AnswerEffect DEF InStep
<1>12. pc = "executing" => ResultOf(TRUE) \in Seq(Result) /\ ResultOf(FALSE) \in Seq(Result)
  BY <1>0 DEF ResultOf, Result, LastCall, TypeInv, Control, RuntimeState
<1>13. CASE ExecutorSucceeds
  BY <1>11, <1>12, <1>13 DEF ExecutorSucceeds, SaveState
<1>14. ASSUME NEW kind \in FailureKind, ExecutorFails(kind) PROVE StepsInv' /\ SettledStepsKept
  BY <1>11, <1>12, <1>14 DEF ExecutorFails, SaveState
<1>15. CASE ExecutorRaises
  <2>1. <<>> \in Seq(Result)
    OBVIOUS
  <2>. QED
    BY <1>11, <1>15, <2>1 DEF ExecutorRaises, SaveState
<1>16. CASE ContainError
  BY <1>16, <1>T DEF ContainError, TerminalStatus, StopReason, FinalEvent
<1>17. CASE Finished \/ UNCHANGED vars
  BY <1>17, <1>K DEF Finished, vars, InStep
<1>. QED
  BY <1>1, <1>2, <1>3, <1>4, <1>5, <1>6, <1>7, <1>8, <1>9, <1>10, <1>13, <1>14, <1>15, <1>16, <1>17
  DEF Next

SettledHistoryKept ==
  /\ \A c \in CallIndex : state.toolCalls[c].status # "running" =>
       state'.toolCalls[c] = state.toolCalls[c]
  /\ Len(state.toolResults) <= Len(state'.toolResults)
  /\ \A r \in 1..Len(state.toolResults) : state'.toolResults[r] = state.toolResults[r]

\* A settled call is never touched again and results are only added.
LEMMA SettledHistoryStep ==
  ASSUME TypeInv, CountersMatchHistory, [Next]_vars
  PROVE  SettledHistoryKept
<1>0. /\ state.toolCalls \in Seq(Call) /\ Len(state.toolCalls) \in Nat
      /\ state.toolResults \in Seq(Result) /\ Len(state.toolResults) \in Nat
      /\ LastCall = Len(state.toolCalls)
  BY DEF TypeInv, TypeOK, RuntimeState, LastCall
<1>1. CASE HistoryKept
  BY <1>0, <1>1 DEF HistoryKept, HistoryUnchanged, SettledHistoryKept
<1>2. CASE CallDispatched
  BY <1>0, <1>2, AppendProperties
  DEF CallDispatched, SettledHistoryKept, CallIndex, Call, CallStatus
<1>3. ASSUME NEW st, NEW rs, CallAnswered(st, rs) PROVE SettledHistoryKept
  <2>1. /\ \A i \in 1..Len(state.toolCalls) :
             state'.toolCalls[i] = IF i = LastCall THEN [step |-> state.toolCalls[i].step, status |-> st]
                                   ELSE state.toolCalls[i]
        /\ state'.toolResults = state.toolResults \o rs /\ rs \in Seq(Result)
    BY <1>3, AnswerEffect DEF CallAnswered
  <2>2. state.toolCalls[LastCall].status = "running"
    BY <1>3 DEF CallAnswered, CountersMatchHistory, CallsWith
  <2>3. /\ Len(state'.toolResults) = Len(state.toolResults) + Len(rs) /\ Len(rs) \in Nat
        /\ \A r \in 1..Len(state.toolResults) : state'.toolResults[r] = state.toolResults[r]
    BY <1>0, <2>1, ConcatProperties
  <2>4. \A c \in CallIndex : state.toolCalls[c].status # "running" =>
          state'.toolCalls[c] = state.toolCalls[c]
    BY <2>1, <2>2 DEF CallIndex
  <2>. QED
    BY <1>0, <2>3, <2>4 DEF SettledHistoryKept
<1>. QED
  BY <1>1, <1>2, <1>3, HistoryStep

\* Settled steps and calls never change again and results are only added: a retry
\* is a new call (README, "no terminal regression"; retry.py).
THEOREM SettledStaysSettled == Spec => SettledNeverReopens
<1> DEFINE Kept == SettledStepsKept /\ SettledHistoryKept
<1>1. Init => StepsInv
  BY DEF Init, InitialState, StepsInv, StepIndex, InStep
<1>2. TypeInv /\ StepsInv /\ [Next]_vars => StepsInv'
  BY StepsStep
<1>3. TypeInv /\ CountersMatchHistory /\ StepsInv /\ [Next]_vars => Kept
  BY StepsStep, SettledHistoryStep
<1>4. Kept => [/\ \A i \in StepIndex : state.stepStatus[i] \in {"completed", "failed"} =>
                    state'.stepStatus[i] = state.stepStatus[i]
               /\ \A c \in CallIndex : state.toolCalls[c].status # "running" =>
                    state'.toolCalls[c] = state.toolCalls[c]
               /\ Len(state.toolResults) <= Len(state'.toolResults)
               /\ \A r \in 1..Len(state.toolResults) : state'.toolResults[r] = state.toolResults[r]
              ]_state
  BY DEF SettledStepsKept, SettledHistoryKept
<1> HIDE DEF Kept
<1>. QED
  BY InitTypeInv, TypeInvStep, CountersCorrect, <1>1, <1>2, <1>3, <1>4, PTL
  DEF Spec, SettledNeverReopens
=============================================================================

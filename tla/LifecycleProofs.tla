---------------------------- MODULE LifecycleProofs ----------------------------
(***************************************************************************)
(* Machine-checked proofs about what a run leaves behind: the hand-off of  *)
(* results, the last event of the trajectory, steps left open, and that    *)
(* the runtime implements RunLifecycle.                                    *)
(***************************************************************************)
EXTENDS RuntimeProofs

-----------------------------------------------------------------------------
(* The hand-off of results                                                 *)

Unanswered == {c \in CallIndex : \A r \in 1..Len(state.toolResults) : state.toolResults[r].call # c}

\* There are no calls before there is a plan; and between the exception of an
\* executor and the end of the run, the outcome says that the run stops.
HandoffInv ==
  /\ ResultsTraceToCalls
  /\ pc \in {"starting", "planning"} => state.toolCalls = <<>>
  /\ pc = "finishing" /\ Unanswered # {} => outcome.stopReason # None

\* ResultsTraceToCalls, with the calls that have no answer named.
LEMMA HandoffForm ==
  ResultsTraceToCalls <=>
    LET results == state.toolResults IN
    /\ \A q, r \in 1..Len(results) : q < r => results[q].call < results[r].call
    /\ \A r \in 1..Len(results) :
         /\ results[r].call \in CallIndex
         /\ state.toolCalls[results[r].call].status =
              IF results[r].success THEN "succeeded" ELSE "failed"
    /\ \A c \in Unanswered : c = LastCall /\ state.toolCalls[c].status # "succeeded"
    /\ Unanswered # {} => pc \notin {"iterating", "deciding", "dispatching"}
  BY DEF ResultsTraceToCalls, Unanswered

\* Planning happens once, before everything else.
LEMMA NoWayBack ==
  ASSUME [Next]_vars, pc' \in {"starting", "planning"}
  PROVE  pc \in {"starting", "planning"}
<1>1. CASE UNCHANGED vars \/ StartRun \/ PlannerFailsToPlan
           \/ \E plan \in Plan : PlannerCreatesPlan(plan)
  BY <1>1 DEF vars, StartRun, PlannerFailsToPlan, PlannerCreatesPlan
<1>2. CASE StartStep \/ StepBudgetSpent \/ PlanFinished \/ FinishStep \/ StopRun \/ ContainError
  BY <1>2 DEF StartStep, StepBudgetSpent, PlanFinished, FinishStep, StopRun, ContainError,
              Terminate, SaveState
<1>3. CASE PlannerCompletesStep \/ PlannerFailsStep \/ PlannerRaises \/ PlannerCallsTool
           \/ DispatchCall \/ DispatchBlocked
  BY <1>3 DEF PlannerCompletesStep, PlannerFailsStep, PlannerRaises, PlannerCallsTool,
              StepEndsWith, DispatchCall, DispatchBlocked
<1>4. CASE ExecutorSucceeds \/ ExecutorRaises \/ \E kind \in FailureKind : ExecutorFails(kind)
  BY <1>4 DEF ExecutorSucceeds, ExecutorRaises, ExecutorFails, SaveState
<1>5. CASE Finished
  BY <1>5 DEF Finished, vars
<1>. QED
  BY <1>1, <1>2, <1>3, <1>4, <1>5 DEF Next

\* While a call is without an answer, no step that leaves the history alone lets the
\* run go on.
LEMMA UnansweredStep ==
  ASSUME TypeInv, HandoffInv, [Next]_vars, HistoryKept, Unanswered # {}
  PROVE  /\ pc' \notin {"iterating", "deciding", "dispatching", "starting", "planning"}
         /\ pc' = "finishing" => outcome'.stopReason # None
<1>. DEFINE Goal ==
       /\ pc' \notin {"iterating", "deciding", "dispatching", "starting", "planning"}
       /\ pc' = "finishing" => outcome'.stopReason # None
<1>1. pc \notin {"iterating", "deciding", "dispatching"}
  BY DEF HandoffInv, ResultsTraceToCalls, Unanswered
<1>2. pc \notin {"starting", "planning"}
  BY DEF HandoffInv, Unanswered, CallIndex
<1>3. CASE FinishStep
  BY <1>3 DEF FinishStep, SaveState, HandoffInv
<1>4. CASE StopRun \/ ContainError
  BY <1>4 DEF StopRun, ContainError, Terminate, SaveState
<1>5. CASE ExecutorSucceeds \/ ExecutorRaises \/ \E kind \in FailureKind : ExecutorFails(kind)
  BY <1>5 DEF ExecutorSucceeds, ExecutorRaises, ExecutorFails, SaveState, HistoryKept
<1>6. CASE Finished \/ UNCHANGED vars
  BY <1>1, <1>2, <1>6 DEF Finished, vars, HandoffInv
<1>7. CASE StartRun \/ (\E plan \in Plan : PlannerCreatesPlan(plan)) \/ PlannerFailsToPlan
           \/ StartStep \/ StepBudgetSpent \/ PlanFinished \/ PlannerCompletesStep
           \/ PlannerFailsStep \/ PlannerRaises \/ PlannerCallsTool \/ DispatchCall
           \/ DispatchBlocked
  BY <1>1, <1>2, <1>7
  DEF StartRun, PlannerCreatesPlan, PlannerFailsToPlan, StartStep, StepBudgetSpent, PlanFinished,
      PlannerCompletesStep, PlannerFailsStep, PlannerRaises, PlannerCallsTool, DispatchCall,
      DispatchBlocked
<1>. QED
  BY <1>3, <1>4, <1>5, <1>6, <1>7 DEF Next

\* The answer of a call, with or without a result, keeps the hand-off.
LEMMA AnswerKeepsHandoff ==
  ASSUME TypeInv, CountersMatchHistory, HandoffInv, pc = "executing",
         NEW st \in {"succeeded", "failed"}, NEW rs, AnswerCall(st, rs),
         pc' \notin {"starting", "planning", "executing"},
         \/ rs = ResultOf(st = "succeeded")
         \/ /\ rs = <<>> /\ st = "failed"
            /\ pc' \notin {"iterating", "deciding", "dispatching"}
            /\ pc' = "finishing" => outcome'.stopReason # None
  PROVE  HandoffInv'
<1>. DEFINE calls == state.toolCalls
            results == state.toolResults
            n == Len(results)
            result == [call |-> LastCall, success |-> (st = "succeeded")]
<1>0. /\ calls \in Seq(Call) /\ results \in Seq(Result) /\ n \in Nat
      /\ LastCall \in 1..Len(calls) /\ Len(calls) \in Nat /\ LastCall = Len(calls)
      /\ LastCall \in Nat \ {0}
  BY DEF TypeInv, TypeOK, Control, RuntimeState, LastCall
<1>1. result \in Result
  BY <1>0 DEF Result
<1>2. rs \in Seq(Result)
  <2>1. rs = <<>> \/ rs = <<result>>
    BY DEF ResultOf
  <2>2. <<>> \in Seq(Result) /\ <<result>> \in Seq(Result)
    BY <1>1
  <2>. QED
    BY <2>1, <2>2
<1>3. /\ Len(state'.toolCalls) = Len(calls)
      /\ state'.toolResults = results \o rs
      /\ \A i \in 1..Len(calls) :
           state'.toolCalls[i] = IF i = LastCall THEN [step |-> calls[i].step, status |-> st]
                                 ELSE calls[i]
  BY <1>2, AnswerEffect
<1>4. calls[LastCall].status = "running"
  BY DEF CountersMatchHistory, CallsWith
<1>5. /\ \A q, r \in 1..n : q < r => results[q].call < results[r].call
      /\ \A r \in 1..n :
           /\ results[r].call \in 1..Len(calls)
           /\ calls[results[r].call].status = IF results[r].success THEN "succeeded" ELSE "failed"
      /\ \A c \in Unanswered : c = LastCall
  BY HandoffForm DEF HandoffInv, CallIndex
<1>6. \A r \in 1..n : results[r].call < LastCall
  <2>1. ASSUME NEW r \in 1..n
        PROVE  results[r].call # LastCall
    BY <1>4, <1>5
  <2>. QED
    BY <1>0, <1>5, <2>1
<1>7. \A r \in 1..n : state'.toolCalls[results[r].call] = calls[results[r].call]
  <2>1. SUFFICES ASSUME NEW r \in 1..n
                 PROVE  state'.toolCalls[results[r].call] = calls[results[r].call]
    OBVIOUS
  <2>2. results[r].call \in 1..Len(calls) /\ results[r].call # LastCall
    BY <1>0, <1>5, <1>6
  <2>. QED
    BY <1>3, <2>2
<1>8. state'.toolCalls[LastCall].status = st
  <2>1. state'.toolCalls[LastCall] = [step |-> calls[LastCall].step, status |-> st]
    BY <1>0, <1>3
  <2>. QED
    BY <2>1
<1>9. LastCall' = LastCall /\ CallIndex' = 1..Len(calls)
  BY <1>0, <1>3 DEF LastCall, CallIndex
<1>10. CASE rs = ResultOf(st = "succeeded")
  <2>1. state'.toolResults = Append(results, result)
    BY <1>0, <1>1, <1>3, <1>10 DEF ResultOf
  <2>. DEFINE new == state'.toolResults
  <2>2. /\ Len(new) = n + 1 /\ new[n + 1] = result
        /\ \A r \in 1..n : new[r] = results[r]
    BY <1>0, <1>1, <2>1, AppendProperties
  <2>3. result.call = LastCall /\ result.success = (st = "succeeded")
    OBVIOUS
  <2>. HIDE DEF new, result, results, n, calls
  <2>4. \A q, r \in 1..(n + 1) : q < r => new[q].call < new[r].call
    <3>1. SUFFICES ASSUME NEW q \in 1..(n + 1), NEW r \in 1..(n + 1), q < r
                   PROVE  new[q].call < new[r].call
      OBVIOUS
    <3>2. q \in 1..n /\ new[q] = results[q]
      BY <1>0, <2>2, <3>1
    <3>3. CASE r = n + 1
      <4>1. new[r].call = LastCall
        BY <2>2, <2>3, <3>3
      <4>. QED
        BY <1>6, <3>2, <4>1
    <3>4. CASE r \in 1..n
      BY <1>5, <2>2, <3>1, <3>2, <3>4
    <3>. QED
      BY <1>0, <3>3, <3>4
  <2>5. \A r \in 1..(n + 1) :
          /\ new[r].call \in 1..Len(calls)
          /\ state'.toolCalls[new[r].call].status = IF new[r].success THEN "succeeded" ELSE "failed"
    <3>1. ASSUME NEW r \in 1..(n + 1), r \in 1..n
          PROVE  /\ new[r].call \in 1..Len(calls)
                 /\ state'.toolCalls[new[r].call].status =
                      IF new[r].success THEN "succeeded" ELSE "failed"
      BY <1>5, <1>7, <2>2, <3>1
    <3>2. /\ new[n + 1].call \in 1..Len(calls)
          /\ state'.toolCalls[new[n + 1].call].status =
               IF new[n + 1].success THEN "succeeded" ELSE "failed"
      BY <1>0, <1>8, <2>2, <2>3
    <3>. QED
      BY <1>0, <3>1, <3>2
  <2>6. \A c \in 1..Len(calls) : (\A r \in 1..(n + 1) : new[r].call # c) => FALSE
    <3>1. SUFFICES ASSUME NEW c \in 1..Len(calls), \A r \in 1..(n + 1) : new[r].call # c
                   PROVE  FALSE
      OBVIOUS
    <3>2. \A r \in 1..n : results[r].call # c
      BY <1>0, <2>2, <3>1
    <3>3. c = LastCall
      BY <1>5, <3>2 DEF Unanswered, CallIndex, n, results, calls
    <3>. QED
      BY <1>0, <2>2, <2>3, <3>1, <3>3
  <2>7. Unanswered' = {}
    BY <1>9, <2>2, <2>6 DEF Unanswered, new
  <2>8. ResultsTraceToCalls'
    <3>1. /\ \A q, r \in 1..Len(state'.toolResults) : q < r =>
               state'.toolResults[q].call < state'.toolResults[r].call
          /\ \A r \in 1..Len(state'.toolResults) :
               /\ state'.toolResults[r].call \in CallIndex'
               /\ state'.toolCalls[state'.toolResults[r].call].status =
                    IF state'.toolResults[r].success THEN "succeeded" ELSE "failed"
      BY <1>9, <2>2, <2>4, <2>5 DEF new
    <3>2. ResultsTraceToCalls' <=>
            /\ \A q, r \in 1..Len(state'.toolResults) : q < r =>
                 state'.toolResults[q].call < state'.toolResults[r].call
            /\ \A r \in 1..Len(state'.toolResults) :
                 /\ state'.toolResults[r].call \in CallIndex'
                 /\ state'.toolCalls[state'.toolResults[r].call].status =
                      IF state'.toolResults[r].success THEN "succeeded" ELSE "failed"
            /\ \A c \in Unanswered' : c = LastCall' /\ state'.toolCalls[c].status # "succeeded"
            /\ Unanswered' # {} => pc' \notin {"iterating", "deciding", "dispatching"}
      BY DEF ResultsTraceToCalls, Unanswered
    <3>. QED
      BY <2>7, <3>1, <3>2
  <2>. QED
    BY <2>7, <2>8 DEF HandoffInv
<1>11. CASE rs # ResultOf(st = "succeeded")
  <2>1. /\ rs = <<>> /\ st = "failed"
        /\ pc' \notin {"iterating", "deciding", "dispatching"}
        /\ pc' = "finishing" => outcome'.stopReason # None
    BY <1>11
  <2>2. state'.toolResults = results
    BY <1>0, <1>3, <2>1
  <2>3. Unanswered' = Unanswered
    BY <1>9, <2>2 DEF Unanswered, CallIndex
  <2>4. \A c \in Unanswered' : c = LastCall' /\ state'.toolCalls[c].status # "succeeded"
    <3>1. \A c \in Unanswered' : c = LastCall
      BY <1>5, <2>3
    <3>. QED
      BY <1>8, <1>9, <2>1, <3>1
  <2>5. \A r \in 1..n :
          /\ results[r].call \in CallIndex'
          /\ state'.toolCalls[results[r].call].status =
               IF results[r].success THEN "succeeded" ELSE "failed"
    BY <1>5, <1>7, <1>9
  <2>6. ResultsTraceToCalls'
    BY <1>5, <2>1, <2>2, <2>4, <2>5 DEF ResultsTraceToCalls, Unanswered
  <2>. QED
    BY <2>1, <2>6 DEF HandoffInv
<1>. QED
  BY <1>10, <1>11

\* Every step keeps the hand-off.
LEMMA HandoffStep == TypeInv /\ CountersMatchHistory /\ HandoffInv /\ [Next]_vars => HandoffInv'
<1>. SUFFICES ASSUME TypeInv, CountersMatchHistory, HandoffInv, [Next]_vars
              PROVE  HandoffInv'
  OBVIOUS
<1>0. /\ state.toolCalls \in Seq(Call) /\ Len(state.toolCalls) \in Nat
      /\ state.toolResults \in Seq(Result) /\ Len(state.toolResults) \in Nat
  BY DEF TypeInv, TypeOK, RuntimeState
<1>1. CASE HistoryKept
  <2>1. state'.toolCalls = state.toolCalls /\ state'.toolResults = state.toolResults
    BY <1>1 DEF HistoryKept, HistoryUnchanged
  <2>2. CallIndex' = CallIndex /\ Unanswered' = Unanswered /\ LastCall' = LastCall
    BY <2>1 DEF CallIndex, Unanswered, LastCall
  <2>3. Unanswered # {} => /\ pc' \notin {"iterating", "deciding", "dispatching"}
                           /\ pc' = "finishing" => outcome'.stopReason # None
    BY <1>1, UnansweredStep
  <2>4. ResultsTraceToCalls'
    <3>1. \A c \in Unanswered' : pc' \notin {"iterating", "deciding", "dispatching"}
      BY <2>2, <2>3
    <3>. QED
      BY <2>1, <2>2, <3>1 DEF HandoffInv, ResultsTraceToCalls, Unanswered
  <2>5. pc' \in {"starting", "planning"} => state'.toolCalls = <<>>
    <3>1. pc' \in {"starting", "planning"} => pc \in {"starting", "planning"}
      BY NoWayBack
    <3>. QED
      BY <2>1, <3>1 DEF HandoffInv
  <2>. QED
    BY <2>2, <2>3, <2>4, <2>5 DEF HandoffInv
<1>2. CASE CallDispatched
  <2>. DEFINE call == [step |-> state.currentStep, status |-> "running"]
              calls == state.toolCalls
              results == state.toolResults
  <2>1. /\ pc = "dispatching" /\ pc' = "executing"
        /\ state'.toolCalls = Append(calls, call) /\ call \in Call
        /\ state'.toolResults = results
    BY <1>2 DEF CallDispatched, DispatchCall, Call, CallStatus
  <2>2. /\ Len(state'.toolCalls) = Len(calls) + 1
        /\ \A c \in 1..Len(calls) : state'.toolCalls[c] = calls[c]
        /\ state'.toolCalls[Len(calls) + 1] = call
    BY <1>0, <2>1, AppendProperties
  <2>3. /\ \A q, r \in 1..Len(results) : q < r => results[q].call < results[r].call
        /\ \A r \in 1..Len(results) :
             /\ results[r].call \in 1..Len(calls)
             /\ calls[results[r].call].status =
                  IF results[r].success THEN "succeeded" ELSE "failed"
        /\ Unanswered = {}
    BY <2>1, HandoffForm DEF HandoffInv, CallIndex
  <2>4. LastCall' = Len(calls) + 1 /\ CallIndex' = 1..(Len(calls) + 1)
    BY <2>2 DEF LastCall, CallIndex
  <2>5. \A c \in Unanswered' : c = Len(calls) + 1
    <3>1. SUFFICES ASSUME NEW c \in 1..(Len(calls) + 1),
                          \A r \in 1..Len(results) : results[r].call # c
                   PROVE  c = Len(calls) + 1
      BY <2>1, <2>4 DEF Unanswered
    <3>2. c \notin 1..Len(calls)
      BY <2>3, <3>1 DEF Unanswered, CallIndex
    <3>. QED
      BY <1>0, <3>1, <3>2
  <2>6. ResultsTraceToCalls'
    <3>1. \A r \in 1..Len(results) :
            /\ results[r].call \in CallIndex'
            /\ state'.toolCalls[results[r].call] = calls[results[r].call]
      BY <1>0, <2>2, <2>3, <2>4
    <3>2. call.status = "running"
      OBVIOUS
    <3>. HIDE DEF call
    <3>3. \A c \in Unanswered' : c = LastCall' /\ state'.toolCalls[c].status # "succeeded"
      BY <2>2, <2>4, <2>5, <3>2
    <3>4. \A r \in 1..Len(results) :
            state'.toolCalls[results[r].call].status =
              IF results[r].success THEN "succeeded" ELSE "failed"
      BY <2>3, <3>1
    <3>5. pc' \notin {"iterating", "deciding", "dispatching"}
      BY <2>1
    <3>6. state'.toolResults = results
      BY <2>1
    <3>. HIDE DEF calls, results
    <3>. QED
      BY <2>3, <3>1, <3>3, <3>4, <3>5, <3>6 DEF ResultsTraceToCalls, Unanswered
  <2>. QED
    BY <2>1, <2>6 DEF HandoffInv
<1>3. CASE ExecutorSucceeds
  <2>1. AnswerCall("succeeded", ResultOf("succeeded" = "succeeded"))
    BY <1>3 DEF ExecutorSucceeds
  <2>2. pc = "executing" /\ pc' \notin {"starting", "planning", "executing"}
    BY <1>3 DEF ExecutorSucceeds, SaveState
  <2>. QED
    BY <2>1, <2>2, AnswerKeepsHandoff
<1>4. ASSUME NEW kind \in FailureKind, ExecutorFails(kind)
      PROVE  HandoffInv'
  <2>1. AnswerCall("failed", ResultOf("failed" = "succeeded"))
    BY <1>4 DEF ExecutorFails
  <2>2. pc = "executing" /\ pc' \notin {"starting", "planning", "executing"}
    BY <1>4 DEF ExecutorFails, SaveState
  <2>. QED
    BY <2>1, <2>2, AnswerKeepsHandoff
<1>5. CASE ExecutorRaises
  <2>1. AnswerCall("failed", <<>>) /\ outcome' = FailedWith("unrecoverable_tool_error")
    BY <1>5 DEF ExecutorRaises
  <2>2. outcome'.stopReason # None
    BY <2>1, NoneAssumption DEF FailedWith, StopReason
  <2>3. pc = "executing" /\ pc' \in {"finishing", "containing"}
    BY <1>5 DEF ExecutorRaises, SaveState
  <2>. QED
    BY <2>1, <2>2, <2>3, AnswerKeepsHandoff
<1>6. HistoryKept \/ CallDispatched \/ ExecutorSucceeds \/ ExecutorRaises
        \/ \E kind \in FailureKind : ExecutorFails(kind)
  <2>1. ASSUME NEW st, NEW rs, CallAnswered(st, rs)
        PROVE  ExecutorSucceeds \/ ExecutorRaises \/ \E kind \in FailureKind : ExecutorFails(kind)
    BY <2>1
    DEF CallAnswered, Next, StartRun, PlannerCreatesPlan, PlannerFailsToPlan, StartStep,
        StepBudgetSpent, PlanFinished, PlannerCompletesStep, PlannerFailsStep, PlannerRaises,
        PlannerCallsTool, FinishStep, StopRun, DispatchCall, DispatchBlocked, ContainError,
        Finished, vars
  <2>. QED
    BY <2>1, HistoryStep
<1>. QED
  BY <1>1, <1>2, <1>3, <1>4, <1>5, <1>6

\* The hand-off to the evidence layer: results come in call order and agree with
\* their call; a settled call without a result is the last one of a failed run.
THEOREM ResultsTrace == Spec => []ResultsTraceToCalls
<1>1. Init => HandoffInv
  BY DEF Init, InitialState, HandoffInv, ResultsTraceToCalls, CallIndex
<1>2. HandoffInv => ResultsTraceToCalls
  BY DEF HandoffInv
<1>. QED
  BY InitTypeInv, TypeInvStep, CountersCorrect, HandoffStep, <1>1, <1>2, PTL DEF Spec

-----------------------------------------------------------------------------
(* The trajectory                                                          *)

\* n events are added to the trajectory.
Extended(n) ==
  /\ Len(trajectory') = Len(trajectory) + n
  /\ \A i \in 1..Len(trajectory) : trajectory'[i] = trajectory[i]

\* Recording adds what it is given, at the end.
LEMMA RecordOneEffect ==
  ASSUME trajectory \in Seq(Event), NEW e, Record(<<e>>)
  PROVE  Extended(1) /\ trajectory'[Len(trajectory) + 1] = e
<1>. DEFINE S == Event \cup {e}
<1>1. trajectory \in Seq(S) /\ <<e>> \in Seq(S) /\ Len(<<e>>) = 1 /\ <<e>>[1] = e
  OBVIOUS
<1>2. trajectory' = trajectory \o <<e>> /\ Len(trajectory) \in Nat
  BY DEF Record
<1>. HIDE DEF S
<1>. QED
  BY <1>1, <1>2, ConcatProperties DEF Extended

\* The same for two events.
LEMMA RecordTwoEffect ==
  ASSUME trajectory \in Seq(Event), NEW e, NEW f, Record(<<e, f>>)
  PROVE  /\ Extended(2) /\ trajectory'[Len(trajectory) + 1] = e
         /\ trajectory'[Len(trajectory) + 2] = f
<1>. DEFINE S == Event \cup {e, f}
            ef == <<e, f>>
<1>1. trajectory \in Seq(S) /\ ef \in Seq(S) /\ Len(ef) = 2 /\ ef[1] = e /\ ef[2] = f
  OBVIOUS
<1>2. trajectory' = trajectory \o ef /\ Len(trajectory) \in Nat
  BY DEF Record
<1>. HIDE DEF S, ef
<1>3. Len(trajectory') = Len(trajectory) + 2
  <2>1. Len(trajectory \o ef) = Len(trajectory) + Len(ef)
    BY <1>1, ConcatProperties
  <2>. QED
    BY <2>1, <1>1, <1>2
<1>4. \A i \in 1..Len(trajectory) : trajectory'[i] = trajectory[i]
  BY <1>1, <1>2, ConcatProperties
<1>5. trajectory'[Len(trajectory) + 1] = ef[1]
  <2>1. Len(trajectory) + 1 \in 1..(Len(trajectory) + Len(ef)) /\ Len(trajectory) + 1 > Len(trajectory)
    BY <1>1, <1>2
  <2>. QED
    BY <2>1, <1>1, <1>2, ConcatProperties
<1>6. trajectory'[Len(trajectory) + 2] = ef[2]
  <2>1. Len(trajectory) + 2 \in 1..(Len(trajectory) + Len(ef)) /\ Len(trajectory) + 2 > Len(trajectory)
    BY <1>1, <1>2
  <2>. QED
    BY <2>1, <1>1, <1>2, ConcatProperties
<1>. QED
  BY <1>1, <1>3, <1>4, <1>5, <1>6 DEF Extended

\* The final event that goes with a terminal status.
FinalEventOf(status) ==
  CASE status = "completed" -> "investigation_completed"
    [] status = "failed" -> "investigation_failed"
    [] status = "budget_exhausted" -> "budget_exhausted"

Quiet == trajectory' = trajectory /\ (pc' = "returned" => pc = "returned" /\ state' = state)

Recorded ==
  /\ pc # "returned" /\ pc' # "returned"
  /\ \E n \in {1, 2} :
       /\ Extended(n)
       /\ \A i \in (Len(trajectory) + 1)..(Len(trajectory) + n) :
            trajectory'[i].type \notin FinalEvent

Closed ==
  /\ pc # "returned" /\ pc' = "returned"
  /\ Extended(1)
  /\ trajectory'[Len(trajectory) + 1].type = FinalEventOf(state'.status)

\* A step records nothing, or what happens during the run, or how it ended.
LEMMA TrajectoryStep ==
  ASSUME TypeInv, [Next]_vars
  PROVE  Quiet \/ Recorded \/ Closed
<1>0. trajectory \in Seq(Event) /\ Len(trajectory) \in Nat /\ state \in RuntimeState
  BY DEF TypeInv, TypeOK
<1>1. ASSUME NEW e, Record(<<e>>), e.type \notin FinalEvent, pc # "returned", pc' # "returned"
      PROVE  Recorded
  <2>1. Extended(1) /\ trajectory'[Len(trajectory) + 1] = e
    BY <1>0, <1>1, RecordOneEffect
  <2>. QED
    BY <1>0, <1>1, <2>1 DEF Recorded
<1>2. ASSUME NEW e, NEW f, Record(<<e, f>>), e.type \notin FinalEvent, f.type \notin FinalEvent,
             pc # "returned", pc' # "returned"
      PROVE  Recorded
  <2>1. /\ Extended(2) /\ trajectory'[Len(trajectory) + 1] = e
        /\ trajectory'[Len(trajectory) + 2] = f
    BY <1>0, <1>2, RecordTwoEffect
  <2>2. \A i \in (Len(trajectory) + 1)..(Len(trajectory) + 2) :
          i = Len(trajectory) + 1 \/ i = Len(trajectory) + 2
    BY <1>0
  <2>. QED
    BY <1>2, <2>1, <2>2 DEF Recorded
<1>T. ASSUME NEW status, NEW reason, NEW event, NEW onError \in {"containing", "leaked"},
             Terminate(status, reason, event, onError), pc # "returned",
             event = FinalEventOf(status)
      PROVE  Quiet \/ Closed
  <2>1. state'.status = status
    BY <1>0, <1>T DEF Terminate, RuntimeState
  <2>2. CASE pc' = "returned"
    <3>1. Record(<<RunEvent(event)>>)
      BY <1>T, <2>2 DEF Terminate
    <3>2. Extended(1) /\ trajectory'[Len(trajectory) + 1] = RunEvent(event)
      BY <1>0, <3>1, RecordOneEffect
    <3>3. RunEvent(event).type = event
      BY DEF RunEvent, EventOf
    <3>. QED
      BY <1>T, <2>1, <2>2, <3>2, <3>3 DEF Closed
  <2>3. CASE pc' # "returned"
    BY <1>T, <2>3 DEF Terminate, Quiet
  <2>. QED
    BY <2>2, <2>3
<1>E. \A type, step, call, result : EventOf(type, step, call, result).type = type
  BY DEF EventOf
<1>3. CASE StartRun
  BY <1>1, <1>3, <1>E DEF StartRun, RunEvent, FinalEvent, Quiet
<1>4. ASSUME NEW plan \in Plan, PlannerCreatesPlan(plan)
      PROVE  Recorded
  BY <1>1, <1>4, <1>E DEF PlannerCreatesPlan, RunEvent, FinalEvent, SaveState
<1>5. CASE PlannerFailsToPlan
  BY <1>5, <1>T DEF PlannerFailsToPlan, FinalEventOf
<1>6. CASE StepBudgetSpent
  BY <1>6, <1>T DEF StepBudgetSpent, FinalEventOf
<1>7. CASE PlanFinished
  BY <1>7, <1>T DEF PlanFinished, FinalEventOf
<1>8. CASE StopRun
  BY <1>8, <1>T DEF StopRun, FinalEventOf
<1>9. CASE ContainError
  BY <1>9, <1>T DEF ContainError, FinalEventOf
<1>10. CASE StartStep \/ FinishStep
  <2>1. PICK type \in {"step_started", "step_completed", "step_failed"} :
          Record(<<StepEvent(type)>>)
    BY <1>10 DEF StartStep, FinishStep
  <2>2. pc # "returned" /\ pc' # "returned"
    BY <1>10 DEF StartStep, FinishStep, SaveState
  <2>. QED
    BY <1>1, <1>E, <2>1, <2>2 DEF StepEvent, FinalEvent
<1>11. CASE PlannerCompletesStep \/ PlannerFailsStep \/ PlannerCallsTool
  <2>1. RecordDecision /\ pc # "returned" /\ pc' # "returned"
    BY <1>11 DEF PlannerCompletesStep, PlannerFailsStep, PlannerCallsTool, StepEndsWith
  <2>. QED
    BY <1>1, <1>E, <2>1 DEF RecordDecision, FinalEvent
<1>12. CASE PlannerRaises \/ DispatchBlocked
  BY <1>12 DEF PlannerRaises, DispatchBlocked, StepEndsWith, Quiet
<1>13. CASE DispatchCall
  <2>1. /\ Record(<<CallEvent("tool_call_created", LastCall + 1, 0),
                    CallEvent("tool_started", LastCall + 1, 0)>>)
        /\ pc # "returned" /\ pc' # "returned"
    BY <1>13 DEF DispatchCall
  <2>. QED
    BY <1>2, <1>E, <2>1 DEF CallEvent, FinalEvent
<1>14. CASE ExecutorSucceeds \/ ExecutorRaises
  <2>. DEFINE good == CallEvent("tool_succeeded", LastCall, Len(state'.toolResults))
              bad == CallEvent("tool_failed", LastCall, 0)
  <2>1. Record(<<good>>) \/ Record(<<bad>>)
    BY <1>14 DEF ExecutorSucceeds, ExecutorRaises
  <2>2. pc # "returned" /\ pc' # "returned"
    BY <1>14 DEF ExecutorSucceeds, ExecutorRaises, SaveState
  <2>3. good.type \notin FinalEvent /\ bad.type \notin FinalEvent
    BY <1>E DEF CallEvent, FinalEvent
  <2>. HIDE DEF good, bad
  <2>. QED
    BY <1>1, <2>1, <2>2, <2>3
<1>15. ASSUME NEW kind \in FailureKind, ExecutorFails(kind)
       PROVE  Recorded
  <2>. DEFINE failed == CallEvent("tool_failed", LastCall, Len(state'.toolResults))
              retry == CallEvent("retry_scheduled", LastCall, 0)
  <2>1. pc # "returned" /\ pc' # "returned"
    BY <1>15 DEF ExecutorFails, SaveState
  <2>2. failed.type \notin FinalEvent /\ retry.type \notin FinalEvent
    BY <1>E DEF CallEvent, FinalEvent
  <2>3. Record(<<failed>>) \/ Record(<<failed, retry>>)
    BY <1>15 DEF ExecutorFails
  <2>. HIDE DEF failed, retry
  <2>. QED
    BY <1>1, <1>2, <2>1, <2>2, <2>3
<1>16. CASE Finished \/ UNCHANGED vars
  BY <1>16 DEF Finished, vars, Quiet
<1>. QED
  BY <1>3, <1>4, <1>5, <1>6, <1>7, <1>8, <1>9, <1>10, <1>11, <1>12, <1>13, <1>14, <1>15, <1>16
  DEF Next

\* A returned run stays returned.
LEMMA ReturnIsFinal ==
  ASSUME [Next]_vars, pc = "returned"
  PROVE  pc' = "returned" /\ UNCHANGED vars
  BY DEF vars, Next, StartRun, PlannerCreatesPlan, PlannerFailsToPlan, StartStep, StepBudgetSpent,
         PlanFinished, PlannerCompletesStep, PlannerFailsStep, PlannerRaises, PlannerCallsTool,
         FinishStep, StopRun, DispatchCall, DispatchBlocked, ExecutorSucceeds, ExecutorRaises,
         ExecutorFails, ContainError, Finished

LEMMA InitFinalEvent == Init => FinalEventClosesTrajectory
  BY DEF Init, FinalEventClosesTrajectory, EventIndex

\* The final event comes with the return, and nothing after it.
LEMMA FinalEventStep ==
  TypeInv /\ FinalEventClosesTrajectory /\ [Next]_vars => FinalEventClosesTrajectory'
<1>. SUFFICES ASSUME TypeInv, FinalEventClosesTrajectory, [Next]_vars
              PROVE  FinalEventClosesTrajectory'
  OBVIOUS
<1>. DEFINE n == Len(trajectory)
<1>0. n \in Nat
  BY DEF TypeInv, TypeOK
<1>1. CASE Quiet
  <2>1. pc = "returned" => pc' = "returned"
    BY ReturnIsFinal
  <2>. QED
    BY <1>1, <2>1 DEF Quiet, FinalEventClosesTrajectory, EventIndex
<1>2. \A i \in 1..n : pc # "returned" => trajectory[i].type \notin FinalEvent
  BY DEF FinalEventClosesTrajectory, EventIndex
<1>3. CASE Recorded
  <2>1. PICK k \in {1, 2} :
          /\ Extended(k)
          /\ \A i \in (n + 1)..(n + k) : trajectory'[i].type \notin FinalEvent
    BY <1>3 DEF Recorded
  <2>2. \A i \in 1..Len(trajectory') : trajectory'[i].type \notin FinalEvent
    BY <1>0, <1>2, <1>3, <2>1 DEF Recorded, Extended
  <2>. QED
    BY <1>3, <2>2 DEF Recorded, FinalEventClosesTrajectory, EventIndex
<1>4. CASE Closed
  <2>1. /\ pc # "returned" /\ pc' = "returned" /\ Len(trajectory') = n + 1
        /\ \A i \in 1..n : trajectory'[i] = trajectory[i]
        /\ trajectory'[n + 1].type = FinalEventOf(state'.status)
    BY <1>4 DEF Closed, Extended
  <2>2. \A i \in 1..(n + 1) : trajectory'[i].type \in FinalEvent => i = n + 1
    BY <1>0, <1>2, <2>1
  <2>. QED
    BY <1>0, <2>1, <2>2 DEF FinalEventOf, FinalEventClosesTrajectory, EventIndex
<1>. QED
  BY <1>1, <1>3, <1>4, TrajectoryStep

\* Exactly one final event closes the trajectory of a returned run, and it is the one
\* of the reported status, also when a save failed on the way out.
THEOREM FinalEventCloses == Spec => []FinalEventClosesTrajectory
  BY InitTypeInv, TypeInvStep, InitFinalEvent, FinalEventStep, PTL DEF Spec

-----------------------------------------------------------------------------
(* The refinement                                                          *)

Done(i) == state.stepStatus[i] \in {"completed", "failed"}

\* Steps before the current one are settled, and where no step runs the current
\* one is too; failedSteps tells whether one failed; a run that stops has failed
\* the step it stops in.
WorkInv ==
  /\ \A i \in StepIndex : i < stepsStarted => Done(i)
  /\ pc \in {"iterating", "stopping"} /\ stepsStarted >= 1 => Done(stepsStarted)
  /\ pc = "stopping" => stepsStarted >= 1 /\ state.stepStatus[stepsStarted] = "failed"
  /\ failedSteps > 0 => \E i \in StepIndex : state.stepStatus[i] = "failed"
  /\ failedSteps = 0 /\ (InStep \/ pc = "iterating") =>
       \A i \in StepIndex : i < stepsStarted \/ (i = stepsStarted /\ pc = "iterating") =>
         state.stepStatus[i] = "completed"
  /\ pc = "finishing" /\ outcome.stopReason # None => outcome.status = "failed"
  /\ pc \in {"starting", "planning"} => failedSteps = 0

Progress == {"iterating", "deciding", "dispatching", "executing", "finishing", "stopping"}

\* The status of the state at each place of the code, and when there is a plan.
PhaseInv ==
  /\ pc = "starting" => state.status = "initialized" /\ trajectory = <<>>
  /\ pc \in {"starting", "planning"} => state.plan = <<>> /\ state.stepStatus = <<>>
  /\ pc = "planning" => state.status = "planning"
  /\ pc \in Progress => state.status = "running" /\ state.plan # <<>>
  /\ pc \notin {"starting", "leaked"} => trajectory # <<>>

\* What the run's actions that neither open nor finish a step do to WorkInv.
LEMMA WorkKept ==
  ASSUME TypeInv, WorkInv,
         state'.stepStatus = state.stepStatus,
         stepsStarted' = stepsStarted, failedSteps' = failedSteps,
         \/ pc' \notin {"iterating", "stopping", "starting", "planning"}
         \/ pc' = pc
         \/ pc = "starting" /\ pc' = "planning",
         InStep' => InStep,
         pc' = "finishing" =>
           \/ pc = "finishing" /\ outcome' = outcome
           \/ outcome'.stopReason # None => outcome'.status = "failed"
  PROVE  WorkInv'
  BY DEF WorkInv, Done, StepIndex, InStep

\* The steps' accounts survive every action.
LEMMA WorkStep ==
  ASSUME TypeInv, StepsInv, WorkInv, [Next]_vars
  PROVE  WorkInv'
<1>0. /\ state \in RuntimeState /\ outcome \in Outcome
      /\ state.stepStatus \in Seq(StepStatus) /\ Len(state.stepStatus) \in Nat
      /\ stepsStarted \in Nat /\ failedSteps \in Nat
      /\ Len(state.stepStatus) = Len(state.plan)
  BY DEF TypeInv, TypeOK, Control, RuntimeState
<1>T. ASSUME NEW status \in TerminalStatus, NEW reason \in StopReason, NEW event \in FinalEvent,
             NEW onError \in {"containing", "leaked"},
             Terminate(status, reason, event, onError)
      PROVE  WorkInv'
  <2>1. PlanUnchanged /\ pc' \in {"returned", "containing", "leaked"} /\ UNCHANGED locals
    BY <1>T, TerminateEffect
  <2>. QED
    BY <2>1, WorkKept DEF PlanUnchanged, locals, InStep
<1>1. CASE StartRun
  BY <1>0, <1>1, WorkKept DEF StartRun, locals, InStep, RuntimeState
<1>2. ASSUME NEW plan \in Plan, PlannerCreatesPlan(plan) PROVE WorkInv'
  <2>1. stepsStarted' = 0 /\ failedSteps' = 0 /\ pc' \in {"iterating", "containing"}
    BY <1>2 DEF PlannerCreatesPlan, locals, SaveState, TypeInv, Control, WorkInv
  <2>2. Len(plan) \in Nat /\ state'.stepStatus = [i \in 1..Len(plan) |-> "pending"]
    BY <1>0, <1>2, PlanIsSeq DEF PlannerCreatesPlan, RuntimeState
  <2>. QED
    BY <2>1, <2>2 DEF WorkInv, StepIndex, InStep
<1>3. CASE PlannerFailsToPlan
  BY <1>3, <1>T DEF PlannerFailsToPlan, TerminalStatus, StopReason, FinalEvent
<1>4. CASE StartStep
  <2> DEFINE n == stepsStarted + 1
  <2>1. n \in 1..Len(state.stepStatus)
    BY <1>0, <1>4 DEF StartStep, StepsRemain
  <2>2. /\ state'.stepStatus = [state.stepStatus EXCEPT ![n] = "running"] /\ stepsStarted' = n
        /\ failedSteps' = failedSteps /\ pc = "iterating" /\ pc' \in {"deciding", "containing"}
    BY <1>0, <1>4 DEF StartStep, RuntimeState, SaveState
  <2>3. /\ Len(state'.stepStatus) = Len(state.stepStatus)
        /\ \A i \in 1..Len(state.stepStatus) :
             state'.stepStatus[i] = IF i = n THEN "running" ELSE state.stepStatus[i]
    BY <1>0, <2>1, <2>2, ExceptSeq DEF StepStatus
  <2>4. state.stepStatus[n] = "pending"
    BY <1>0, <2>1 DEF StepsInv, StepIndex
  <2>5. \A i \in StepIndex' : i < stepsStarted' => Done(i)'
    BY <1>0, <2>1, <2>2, <2>3 DEF WorkInv, Done, StepIndex
  <2>6. failedSteps' > 0 => \E i \in StepIndex' : state'.stepStatus[i] = "failed"
    BY <1>0, <2>2, <2>3, <2>4 DEF WorkInv, StepIndex
  <2>7. failedSteps' = 0 =>
          \A i \in StepIndex' : i < stepsStarted' => state'.stepStatus[i] = "completed"
    BY <1>0, <2>1, <2>2, <2>3 DEF WorkInv, StepIndex
  <2>. QED
    BY <2>2, <2>5, <2>6, <2>7 DEF WorkInv
<1>5. CASE StepBudgetSpent
  BY <1>5, <1>T DEF StepBudgetSpent, TerminalStatus, StopReason, FinalEvent, BUDGET_STOP_REASONS
<1>6. CASE PlanFinished
  BY <1>6, <1>T DEF PlanFinished, TerminalStatus, StopReason, FinalEvent
<1>7. CASE PlannerCompletesStep \/ PlannerFailsStep \/ PlannerRaises \/ PlannerCallsTool
           \/ DispatchBlocked
  BY <1>7, WorkKept
  DEF PlannerCompletesStep, PlannerFailsStep, PlannerRaises, PlannerCallsTool, DispatchBlocked,
      StepEndsWith, InStep, Completed, FailedWith
<1>8. CASE FinishStep
  <2> DEFINE n == stepsStarted
  <2>1. n \in 1..Len(state.stepStatus) /\ state.stepStatus[n] = "running"
    BY <1>0, <1>8 DEF FinishStep, StepsInv, InStep, TypeInv, Control
  <2>2. /\ state'.stepStatus = [state.stepStatus EXCEPT ![n] = outcome.status] /\ stepsStarted' = n
        /\ failedSteps' = IF outcome = FailedWith(None) THEN failedSteps + 1 ELSE failedSteps
    BY <1>0, <1>8 DEF FinishStep, RuntimeState
  <2>3. /\ Len(state'.stepStatus) = Len(state.stepStatus)
        /\ \A i \in 1..Len(state.stepStatus) :
             state'.stepStatus[i] = IF i = n THEN outcome.status ELSE state.stepStatus[i]
    <3>1. outcome.status \in StepStatus
      BY <1>0 DEF Outcome, StepStatus
    <3>. QED
      BY <1>0, <2>1, <2>2, <3>1, ExceptSeq
  <2>4. /\ pc = "finishing" /\ pc' \in {"iterating", "stopping", "containing"}
        /\ pc' = "iterating" => outcome.stopReason = None
        /\ pc' = "stopping" => outcome.stopReason # None
    BY <1>8 DEF FinishStep, SaveState
  <2>5. outcome.status \in {"completed", "failed"} /\ (outcome.stopReason # None => outcome.status = "failed")
    BY <1>0, <2>4 DEF Outcome, WorkInv
  <2>6. outcome.stopReason = None /\ outcome.status = "failed" => outcome = FailedWith(None)
    BY <1>0 DEF Outcome, FailedWith
  <2>7. failedSteps' > 0 => \E i \in StepIndex' : state'.stepStatus[i] = "failed"
    <3>1. CASE outcome = FailedWith(None)
      BY <2>1, <2>3, <3>1 DEF StepIndex, FailedWith
    <3>2. CASE outcome # FailedWith(None) /\ failedSteps > 0
      <4>1. PICK i \in StepIndex : state.stepStatus[i] = "failed"
        BY <3>2 DEF WorkInv
      <4>. QED
        BY <4>1, <2>1, <2>3 DEF StepIndex
    <3>. QED
      BY <1>0, <2>2, <3>1, <3>2
  <2>8. \A i \in StepIndex' : i < stepsStarted' => Done(i)'
    BY <1>0, <2>1, <2>2, <2>3 DEF WorkInv, Done, StepIndex
  <2>9. failedSteps' = 0 => outcome # FailedWith(None) /\ failedSteps = 0
    BY <1>0, <2>2
  <2>10. failedSteps' = 0 /\ pc' = "iterating" =>
           \A i \in StepIndex' : i < stepsStarted' \/ i = stepsStarted' => state'.stepStatus[i] = "completed"
    BY <1>0, <2>1, <2>2, <2>3, <2>4, <2>5, <2>6, <2>9 DEF WorkInv, StepIndex, InStep
  <2>11. pc' \in {"iterating", "stopping"} => Done(stepsStarted)'
    BY <2>1, <2>2, <2>3, <2>5 DEF Done
  <2>12. pc' = "stopping" => stepsStarted' >= 1 /\ state'.stepStatus[stepsStarted'] = "failed"
    BY <2>1, <2>2, <2>3, <2>4, <2>5
  <2>. QED
    BY <2>4, <2>7, <2>8, <2>10, <2>11, <2>12 DEF WorkInv, InStep
<1>9. CASE StopRun
  <2>1. outcome.stopReason \in StopReason
    BY <1>9 DEF StopRun, Outcome, TypeInv, TypeOK, Control
  <2>. QED
    BY <1>9, <1>T, <2>1 DEF StopRun, TerminalStatus, FinalEvent
<1>10. CASE DispatchCall
  BY <1>0, <1>10, WorkKept DEF DispatchCall, locals, InStep, RuntimeState
<1>11. ASSUME NEW st, NEW rs, pc = "executing", st \in {"succeeded", "failed"}, rs \in Seq(Result),
              AnswerCall(st, rs), stepsStarted' = stepsStarted, failedSteps' = failedSteps,
              pc' \in {"deciding", "dispatching", "finishing", "containing"},
              pc' = "finishing" => outcome'.status = "failed"
       PROVE  WorkInv'
  <2>1. state'.stepStatus = state.stepStatus
    BY <1>11, AnswerEffect
  <2>. QED
    BY <1>11, <2>1, WorkKept DEF InStep
<1>12. pc = "executing" => ResultOf(TRUE) \in Seq(Result) /\ ResultOf(FALSE) \in Seq(Result)
  BY <1>0 DEF ResultOf, Result, LastCall, TypeInv, Control, RuntimeState
<1>13. CASE ExecutorSucceeds
  BY <1>11, <1>12, <1>13 DEF ExecutorSucceeds, SaveState
<1>14. ASSUME NEW kind \in FailureKind, ExecutorFails(kind) PROVE WorkInv'
  <2>1. /\ pc = "executing" /\ AnswerCall("failed", ResultOf(FALSE))
        /\ stepsStarted' = stepsStarted /\ failedSteps' = failedSteps
        /\ pc' \in {"dispatching", "finishing", "containing"}
        /\ pc' = "finishing" => outcome' = FailedWith(StopForFailure(kind))
    BY <1>14 DEF ExecutorFails, SaveState
  <2>2. FailedWith(StopForFailure(kind)).status = "failed"
    BY DEF FailedWith
  <2>. QED
    BY <1>11, <1>12, <2>1, <2>2
<1>15. CASE ExecutorRaises
  <2>1. <<>> \in Seq(Result)
    OBVIOUS
  <2>. QED
    BY <1>11, <1>15, <2>1 DEF ExecutorRaises, SaveState, FailedWith
<1>16. CASE ContainError
  BY <1>16, <1>T DEF ContainError, TerminalStatus, StopReason, FinalEvent
<1>17. CASE Finished \/ UNCHANGED vars
  BY <1>17 DEF Finished, vars, WorkInv, Done, StepIndex, InStep
<1>. QED
  BY <1>1, <1>2, <1>3, <1>4, <1>5, <1>6, <1>7, <1>8, <1>9, <1>10, <1>13, <1>14, <1>15, <1>16, <1>17
  DEF Next

\* No step of the run empties its trajectory, nor does one record nothing at the start
\* and go on.
LEMMA TrajectoryNonempty ==
  ASSUME TypeInv, PhaseInv, [Next]_vars, pc # "starting", pc # "leaked"
  PROVE  trajectory' # <<>>
<1>1. trajectory \in Seq(Event) /\ Len(trajectory) \in Nat /\ trajectory # <<>>
  BY DEF TypeInv, TypeOK, PhaseInv
<1>2. Len(trajectory) >= 1
  BY <1>1, EmptySeq
<1>3. Extended(1) \/ Extended(2) => Len(trajectory') >= 1
  BY <1>1, <1>2 DEF Extended
<1>4. Len(<<>>) = 0
  OBVIOUS
<1>. QED
  BY <1>1, <1>3, <1>4, TrajectoryStep DEF Quiet, Recorded, Closed

\* The phases survive every action.
LEMMA PhaseStep ==
  ASSUME TypeInv, StepsInv, PhaseInv, [Next]_vars
  PROVE  PhaseInv'
<1>0. /\ state \in RuntimeState /\ trajectory \in Seq(Event)
      /\ pc \in Location
  BY DEF TypeInv, TypeOK
<1>K. ASSUME state'.status = state.status, state'.plan = state.plan, pc \in Progress,
             pc' \in Progress \cup {"containing"}
      PROVE  PhaseInv'
  BY <1>K, TrajectoryNonempty DEF PhaseInv, Progress
<1>T. ASSUME NEW status \in TerminalStatus, NEW reason \in StopReason, NEW event \in FinalEvent,
             NEW onError \in {"containing", "leaked"}, pc \notin {"starting", "leaked"},
             Terminate(status, reason, event, onError)
      PROVE  PhaseInv'
  <2>1. pc' \in {"returned", "containing", "leaked"}
    BY <1>T, TerminateEffect
  <2>. QED
    BY <1>T, <2>1, TrajectoryNonempty DEF PhaseInv, Progress
<1>1. CASE StartRun
  <2>1. CASE pc' = "leaked"
    BY <2>1 DEF PhaseInv, Progress
  <2>2. CASE pc' = "planning" /\ state' = [state EXCEPT !.status = "planning"]
             /\ Record(<<RunEvent("investigation_started")>>)
    <3>1. Len(trajectory') = Len(trajectory) + 1 /\ Len(trajectory) \in Nat
      BY <1>0, <2>2, RecordOneEffect DEF Extended
    <3>2. trajectory' # <<>>
      <4>1. Len(<<>>) = 0
        OBVIOUS
      <4>. QED
        BY <3>1, <4>1
    <3>. QED
      BY <1>0, <1>1, <2>2, <3>2 DEF StartRun, PhaseInv, Progress, RuntimeState
  <2>. QED
    BY <1>1, <2>1, <2>2 DEF StartRun
<1>2. ASSUME NEW plan \in Plan, PlannerCreatesPlan(plan) PROVE PhaseInv'
  <2>1. pc = "planning" /\ pc' \in {"iterating", "containing"}
    BY <1>2 DEF PlannerCreatesPlan, SaveState
  <2>2. state'.status = "running" /\ state'.plan = plan
    BY <1>0, <1>2 DEF PlannerCreatesPlan, RuntimeState
  <2>3. plan # <<>>
    <3>1. PICK n \in 1..MaxPlanSteps : plan \in [1..n -> StepId]
      BY DEF Plan
    <3>2. DOMAIN plan = 1..n /\ n >= 1 /\ n \in Nat
      BY <3>1, StepAssumption
    <3>. QED
      BY <3>2
  <2>. QED
    BY <2>1, <2>2, <2>3, <1>2, TrajectoryNonempty DEF PhaseInv, Progress
<1>3. CASE PlannerFailsToPlan
  BY <1>3, <1>T DEF PlannerFailsToPlan, TerminalStatus, StopReason, FinalEvent
<1>4. CASE StepBudgetSpent
  BY <1>4, <1>T DEF StepBudgetSpent, TerminalStatus, StopReason, FinalEvent, BUDGET_STOP_REASONS
<1>5. CASE PlanFinished
  BY <1>5, <1>T DEF PlanFinished, TerminalStatus, StopReason, FinalEvent
<1>6. CASE StopRun
  <2>1. outcome.stopReason \in StopReason /\ pc = "stopping"
    BY <1>6 DEF StopRun, Outcome, TypeInv, TypeOK, Control
  <2>. QED
    BY <1>6, <1>T, <2>1 DEF StopRun, TerminalStatus, FinalEvent
<1>7. CASE ContainError
  BY <1>7, <1>T DEF ContainError, TerminalStatus, StopReason, FinalEvent
<1>8. CASE StartStep \/ FinishStep
  <2>1. state'.status = state.status /\ state'.plan = state.plan
    BY <1>0, <1>8 DEF StartStep, FinishStep, RuntimeState
  <2>2. pc \in Progress /\ pc' \in Progress \cup {"containing"}
    BY <1>8 DEF StartStep, FinishStep, SaveState, Progress
  <2>. QED
    BY <1>K, <2>1, <2>2
<1>9. CASE PlannerCompletesStep \/ PlannerFailsStep \/ PlannerRaises \/ PlannerCallsTool
           \/ DispatchBlocked
  BY <1>9, <1>K
  DEF PlannerCompletesStep, PlannerFailsStep, PlannerRaises, PlannerCallsTool, DispatchBlocked,
      StepEndsWith, Progress
<1>10. CASE DispatchCall
  BY <1>0, <1>10, <1>K DEF DispatchCall, Progress, RuntimeState
<1>11. CASE ExecutorSucceeds \/ ExecutorRaises \/ \E kind \in FailureKind : ExecutorFails(kind)
  <2>1. PICK st, rs : AnswerCall(st, rs)
    BY <1>11 DEF ExecutorSucceeds, ExecutorRaises, ExecutorFails
  <2>2. state'.status = state.status /\ state'.plan = state.plan
    BY <1>0, <2>1 DEF AnswerCall, RuntimeState
  <2>3. pc \in Progress /\ pc' \in Progress \cup {"containing"}
    BY <1>11 DEF ExecutorSucceeds, ExecutorRaises, ExecutorFails, SaveState, Progress
  <2>. QED
    BY <1>K, <2>2, <2>3
<1>12. CASE Finished \/ UNCHANGED vars
  BY <1>12 DEF Finished, vars, PhaseInv, Progress
<1>. QED
  BY <1>1, <1>2, <1>3, <1>4, <1>5, <1>6, <1>7, <1>8, <1>9, <1>10, <1>11, <1>12 DEF Next

\* The phase of the mapping, under a name of its own.
Phase ==
  IF pc \in {"containing", "leaked"}
  THEN (IF pc = "leaked" /\ trajectory = <<>> THEN "initialized"
        ELSE IF state.plan = <<>> THEN "planning" ELSE "running")
  ELSE state.status

\* What the run concludes with is accounted for by its steps.
LEMMA ConclusionMaps ==
  ASSUME TypeInv, TypeInv', StepsInv, WorkInv, PhaseInv,
         NEW status \in TerminalStatus, NEW reason \in StopReason, NEW event \in FinalEvent,
         Terminate(status, reason, event, "containing"),
         \/ pc = "stopping" /\ status \in {"failed", "budget_exhausted"}
         \/ pc = "iterating" /\ status = "completed" /\ ~StepsRemain /\ failedSteps = 0
         \/ pc = "iterating" /\ status = "failed" /\ ~StepsRemain /\ failedSteps > 0
         \/ pc = "iterating" /\ status = "budget_exhausted" /\ StepsRemain /\ stepsStarted >= MaxSteps
  PROVE  [Lifecycle!Next]_(Lifecycle!lifecycleVars)
<1>0. /\ state \in RuntimeState
      /\ state.stepStatus \in Seq(StepStatus) /\ Len(state.stepStatus) \in Nat
      /\ stepsStarted \in Nat /\ stepsStarted <= Len(state.stepStatus) /\ failedSteps \in Nat
      /\ Len(state.stepStatus) = Len(state.plan) /\ MaxSteps \in Nat
  BY LimitAssumption DEF TypeInv, TypeOK, Control, RuntimeState
<1>1. /\ HistoryUnchanged /\ PlanUnchanged
      /\ pc' \in {"returned", "containing"}
      /\ state'.status = status
  BY <1>0, TerminateEffect DEF Terminate, SaveState, RuntimeState
<1>2. Phase = "running" /\ state.plan # <<>> /\ pc \notin {"containing", "leaked"}
  BY DEF Phase, PhaseInv, Progress
<1>3. CASE pc' = "containing"
  BY <1>1, <1>2, <1>3 DEF Lifecycle!lifecycleVars, Phase, PlanUnchanged, HistoryUnchanged
<1>4. CASE pc' = "returned"
  <2>1. Phase' = status
    BY <1>1, <1>4 DEF Phase
  <2>2. \A i \in StepIndex : state.stepStatus[i] # "running"
    <3>1. \A i \in StepIndex : i > stepsStarted => state.stepStatus[i] = "pending"
      BY DEF StepsInv
    <3>2. \A i \in StepIndex : i <= stepsStarted => Done(i)
      BY <1>0 DEF WorkInv, StepIndex
    <3>. QED
      BY <1>0, <3>1, <3>2 DEF Done, StepIndex
  <2>3. CASE status = "completed"
    <3>1. stepsStarted = Len(state.stepStatus) /\ failedSteps = 0 /\ pc = "iterating"
      BY <1>0, <2>3 DEF StepsRemain
    <3>2. \A i \in StepIndex : state.stepStatus[i] = "completed"
      BY <1>0, <3>1 DEF WorkInv, StepIndex
    <3>. QED
      BY <1>1, <1>2, <2>1, <2>2, <2>3, <3>2
      DEF Lifecycle!Next, Lifecycle!Conclude, Lifecycle!NoneOpen, Lifecycle!AllCompleted, Phase,
          StepIndex, PlanUnchanged, HistoryUnchanged
  <2>4. CASE status = "failed"
    <3>1. \E i \in StepIndex : state.stepStatus[i] = "failed"
      BY <1>0, <2>4 DEF WorkInv, StepIndex
    <3>. QED
      BY <1>1, <1>2, <2>1, <2>2, <2>4, <3>1
      DEF Lifecycle!Next, Lifecycle!Conclude, Lifecycle!NoneOpen, Phase,
          StepIndex, PlanUnchanged, HistoryUnchanged
  <2>5. CASE status = "budget_exhausted"
    <3>1. \/ \E i \in StepIndex : state.stepStatus[i] = "failed"
          \/ \E i \in StepIndex : i > MaxSteps /\ state.stepStatus[i] = "pending"
      <4>1. CASE pc = "stopping"
        BY <1>0, <4>1 DEF WorkInv, StepIndex
      <4>2. CASE pc = "iterating"
        <5>1. stepsStarted + 1 \in StepIndex /\ stepsStarted + 1 > MaxSteps
          BY <1>0, <2>5, <4>2 DEF StepsRemain, StepIndex
        <5>. QED
          BY <1>0, <5>1 DEF StepsInv
      <4>. QED
        BY <4>1, <4>2
    <3>. QED
      BY <1>1, <1>2, <2>1, <2>2, <2>5, <3>1
      DEF Lifecycle!Next, Lifecycle!Conclude, Lifecycle!NoneOpen, Phase,
          StepIndex, PlanUnchanged, HistoryUnchanged
  <2>. QED
    BY <2>3, <2>4, <2>5 DEF TerminalStatus
<1>. QED
  BY <1>1, <1>3, <1>4

\* Every step of the runtime is a step of the lifecycle, or one it does not see.
LEMMA LifecycleStep ==
  ASSUME TypeInv, TypeInv', CountersMatchHistory, StepsInv, WorkInv, PhaseInv, PhaseInv', [Next]_vars
  PROVE  [Lifecycle!Next]_(Lifecycle!lifecycleVars)
<1>0. /\ state \in RuntimeState
      /\ state.stepStatus \in Seq(StepStatus) /\ Len(state.stepStatus) \in Nat
      /\ state.toolCalls \in Seq(Call) /\ Len(state.toolCalls) \in Nat
      /\ stepsStarted \in Nat /\ stepsStarted <= Len(state.stepStatus) /\ failedSteps \in Nat
      /\ Len(state.stepStatus) = Len(state.plan) /\ MaxSteps \in Nat
  BY LimitAssumption DEF TypeInv, TypeOK, Control, RuntimeState
<1>S. ASSUME Phase' = Phase, state'.stepStatus = state.stepStatus,
             Len(state'.toolCalls) = Len(state.toolCalls)
      PROVE  UNCHANGED Lifecycle!lifecycleVars
  BY <1>S DEF Lifecycle!lifecycleVars, Phase
\* From one place of the steps' loop to another, or into the except clause.
<1>P. ASSUME pc \in Progress, pc' \in Progress \cup {"containing"}, state'.plan = state.plan
      PROVE  Phase = "running" /\ Phase' = "running"
  BY <1>P DEF Phase, PhaseInv, Progress
<1>1. CASE StartRun
  <2>1. CASE pc' = "leaked"
    BY <1>1, <1>S, <2>1 DEF StartRun, Phase, PhaseInv
  <2>2. CASE pc' = "planning" /\ state' = [state EXCEPT !.status = "planning"]
    <3>1. Phase = "initialized" /\ Phase' = "planning"
      BY <1>0, <1>1, <2>2 DEF StartRun, Phase, PhaseInv, RuntimeState
    <3>2. state'.stepStatus = state.stepStatus /\ state'.toolCalls = state.toolCalls
      BY <1>0, <2>2 DEF RuntimeState
    <3>. QED
      BY <3>1, <3>2 DEF Lifecycle!Next, Lifecycle!BeginPlanning, Phase
  <2>. QED
    BY <1>1, <2>1, <2>2 DEF StartRun
<1>2. ASSUME NEW plan \in Plan, PlannerCreatesPlan(plan)
      PROVE  Lifecycle!Next
  <2>1. /\ Phase = "planning" /\ pc' \in {"iterating", "containing"}
        /\ pc \notin {"containing", "leaked"}
    BY <1>2 DEF PlannerCreatesPlan, SaveState, Phase, PhaseInv
  <2>2. PICK n \in 1..MaxPlanSteps : plan \in [1..n -> StepId]
    BY DEF Plan
  <2>3. n \in Nat /\ n >= 1 /\ Len(plan) = n /\ plan # <<>>
    BY <2>2, StepAssumption, PlanIsSeq
  <2>4. /\ state'.plan = plan /\ state'.status = "running"
        /\ state'.stepStatus = [i \in 1..Len(plan) |-> "pending"]
        /\ state'.toolCalls = state.toolCalls
    BY <1>0, <1>2 DEF PlannerCreatesPlan, RuntimeState
  <2>5. Len(state'.stepStatus) = Len(plan) /\ state'.stepStatus # <<>>
    BY <2>3, <2>4
  <2>6. Phase' = "running"
    BY <2>1, <2>3, <2>4 DEF Phase
  <2>. QED
    BY <2>1, <2>4, <2>5, <2>6 DEF Lifecycle!Next, Lifecycle!AdoptPlan, Phase
<1>3. CASE PlannerFailsToPlan
  <2>1. /\ HistoryUnchanged /\ PlanUnchanged
        /\ pc' \in {"returned", "containing"} /\ state'.status = "failed"
    BY <1>0, <1>3, TerminateEffect
    DEF PlannerFailsToPlan, Terminate, SaveState, RuntimeState, TerminalStatus, StopReason, FinalEvent
  <2>2. Phase = "planning" /\ pc = "planning" /\ state.plan = <<>>
    BY <1>3 DEF PlannerFailsToPlan, Phase, PhaseInv
  <2>3. CASE pc' = "containing"
    BY <1>S, <2>1, <2>2, <2>3 DEF Phase, PlanUnchanged, HistoryUnchanged
  <2>4. CASE pc' = "returned"
    BY <2>1, <2>2, <2>4 DEF Lifecycle!Next, Lifecycle!Abort, Phase, PlanUnchanged, HistoryUnchanged
  <2>. QED
    BY <2>1, <2>3, <2>4
<1>4. CASE StartStep
  <2> DEFINE n == stepsStarted + 1
  <2>1. n \in StepIndex /\ n <= MaxSteps
    BY <1>0, <1>4 DEF StartStep, StepsRemain, StepIndex
  <2>2. /\ pc = "iterating" /\ pc' \in {"deciding", "containing"}
        /\ state'.plan = state.plan /\ state'.toolCalls = state.toolCalls
        /\ state'.stepStatus = [state.stepStatus EXCEPT ![n] = "running"]
    BY <1>0, <1>4 DEF StartStep, SaveState, RuntimeState
  <2>3. Phase = "running" /\ Phase' = "running"
    BY <1>P, <2>2 DEF Progress
  <2>4. state.stepStatus[n] = "pending"
    BY <1>0, <2>1 DEF StepsInv
  <2>5. \A j \in 1..(n - 1) : Done(j)
    BY <1>0, <2>1, <2>2 DEF WorkInv, StepIndex
  <2>6. Lifecycle!OpenStep(n)
    BY <2>1, <2>2, <2>3, <2>4, <2>5
    DEF Lifecycle!OpenStep, Lifecycle!Settled, Done, Phase, StepIndex
  <2>. QED
    BY <2>1, <2>6 DEF Lifecycle!Next, StepIndex
<1>5. CASE StepBudgetSpent
  BY <1>5, ConclusionMaps DEF StepBudgetSpent, TerminalStatus, StopReason, FinalEvent, BUDGET_STOP_REASONS
<1>6. CASE PlanFinished
  BY <1>0, <1>6, ConclusionMaps DEF PlanFinished, TerminalStatus, StopReason, FinalEvent
<1>7. CASE PlannerCompletesStep \/ PlannerFailsStep \/ PlannerRaises \/ PlannerCallsTool
           \/ DispatchBlocked
  <2>1. /\ state' = state /\ pc \in Progress /\ pc' \in Progress
    BY <1>7
    DEF PlannerCompletesStep, PlannerFailsStep, PlannerRaises, PlannerCallsTool, DispatchBlocked,
        StepEndsWith, Progress
  <2>. QED
    BY <1>P, <1>S, <2>1
<1>8. CASE FinishStep
  <2> DEFINE n == stepsStarted
  <2>1. n \in StepIndex /\ state.stepStatus[n] = "running"
    BY <1>0, <1>8 DEF FinishStep, StepsInv, InStep, TypeInv, Control, StepIndex
  <2>2. /\ pc \in Progress /\ pc' \in Progress \cup {"containing"}
        /\ state'.plan = state.plan /\ state'.toolCalls = state.toolCalls
        /\ state'.stepStatus = [state.stepStatus EXCEPT ![n] = outcome.status]
    BY <1>0, <1>8 DEF FinishStep, SaveState, RuntimeState, Progress
  <2>3. outcome.status \in {"completed", "failed"}
    BY DEF TypeInv, TypeOK, Outcome
  <2>4. Phase = "running" /\ Phase' = "running"
    BY <1>P, <2>2
  <2>5. Lifecycle!SettleStep(n, outcome.status)
    BY <2>1, <2>2, <2>4 DEF Lifecycle!SettleStep, Phase
  <2>. QED
    BY <2>1, <2>3, <2>5 DEF Lifecycle!Next, StepIndex
<1>9. CASE StopRun
  <2>1. outcome.stopReason \in StopReason /\ pc = "stopping"
    BY <1>9 DEF StopRun, Outcome, TypeInv, TypeOK, Control
  <2>. QED
    BY <1>9, <2>1, ConclusionMaps DEF StopRun, TerminalStatus, FinalEvent
<1>10. CASE DispatchCall
  <2>1. /\ pc = "dispatching" /\ pc' = "executing"
        /\ state'.plan = state.plan /\ state'.stepStatus = state.stepStatus
        /\ state'.toolCalls = Append(state.toolCalls, [step |-> state.currentStep, status |-> "running"])
    BY <1>0, <1>10 DEF DispatchCall, RuntimeState
  <2>2. Phase = "running" /\ Phase' = "running"
    BY <1>P, <2>1 DEF Progress
  <2>3. Len(state'.toolCalls) = Len(state.toolCalls) + 1
    BY <1>0, <2>1
  <2>4. stepsStarted \in StepIndex /\ state.stepStatus[stepsStarted] = "running"
    BY <1>0, <2>1 DEF StepsInv, InStep, TypeInv, Control, StepIndex
  <2>5. Len(state.toolCalls) < MaxToolCalls
    <3>1. Len(state.toolCalls) = state.totalToolCalls /\ state.totalToolCalls \in Nat
      BY <1>0, <2>1 DEF CountersMatchHistory, RuntimeState
    <3>2. ~(state.totalToolCalls >= MaxToolCalls)
      BY <1>10, NoneAssumption DEF DispatchCall, BlockReason, StopReason, BUDGET_STOP_REASONS
    <3>. QED
      BY <3>1, <3>2, LimitAssumption
  <2>6. Lifecycle!DispatchCall(stepsStarted)
    BY <2>1, <2>2, <2>3, <2>4, <2>5 DEF Lifecycle!DispatchCall, Phase
  <2>. QED
    BY <2>4, <2>6 DEF Lifecycle!Next, StepIndex
<1>11. ASSUME NEW st, NEW rs, pc = "executing", st \in {"succeeded", "failed"}, rs \in Seq(Result),
              AnswerCall(st, rs), pc' \in Progress \cup {"containing"}
       PROVE  UNCHANGED Lifecycle!lifecycleVars
  <2>1. /\ state'.stepStatus = state.stepStatus /\ state'.plan = state.plan
        /\ Len(state'.toolCalls) = Len(state.toolCalls)
    BY <1>11, AnswerEffect
  <2>. QED
    BY <1>11, <1>P, <1>S, <2>1 DEF Progress
<1>12. pc = "executing" => ResultOf(TRUE) \in Seq(Result) /\ ResultOf(FALSE) \in Seq(Result)
  BY <1>0 DEF ResultOf, Result, LastCall, TypeInv, Control, RuntimeState
<1>13. CASE ExecutorSucceeds
  BY <1>11, <1>12, <1>13 DEF ExecutorSucceeds, SaveState, Progress
<1>14. ASSUME NEW kind \in FailureKind, ExecutorFails(kind)
       PROVE  UNCHANGED Lifecycle!lifecycleVars
  <2>1. /\ pc = "executing" /\ AnswerCall("failed", ResultOf(FALSE))
        /\ pc' \in {"dispatching", "finishing", "containing"}
    BY <1>14 DEF ExecutorFails, SaveState
  <2>. QED
    BY <1>11, <1>12, <2>1 DEF Progress
<1>15. CASE ExecutorRaises
  <2>1. <<>> \in Seq(Result)
    OBVIOUS
  <2>. QED
    BY <1>11, <1>15, <2>1 DEF ExecutorRaises, SaveState, Progress
<1>16. CASE ContainError
  <2>1. /\ HistoryUnchanged /\ PlanUnchanged
        /\ pc' \in {"returned", "leaked"} /\ state'.status = "failed"
        /\ pc' = "leaked" => trajectory' = trajectory
    BY <1>0, <1>16, TerminateEffect
    DEF ContainError, Terminate, SaveState, RuntimeState, TerminalStatus, StopReason, FinalEvent
  <2>2. Phase \in {"planning", "running"} /\ pc = "containing" /\ trajectory # <<>>
    BY <1>16 DEF ContainError, Phase, PhaseInv
  <2>3. CASE pc' = "leaked"
    BY <1>S, <2>1, <2>2, <2>3 DEF Phase, PlanUnchanged, HistoryUnchanged
  <2>4. CASE pc' = "returned"
    BY <2>1, <2>2, <2>4 DEF Lifecycle!Next, Lifecycle!Abort, Phase, PlanUnchanged, HistoryUnchanged
  <2>. QED
    BY <2>1, <2>3, <2>4
<1>17. CASE Finished \/ UNCHANGED vars
  BY <1>17, <1>S DEF Finished, vars, Phase
<1>. QED
  BY <1>1, <1>2, <1>3, <1>4, <1>5, <1>6, <1>7, <1>8, <1>9, <1>10, <1>13, <1>14, <1>15, <1>16, <1>17
  DEF Next

\* A fresh run has no work to account for.
LEMMA InitWork == Init => WorkInv /\ PhaseInv /\ StepsInv
  BY DEF Init, InitialState, WorkInv, PhaseInv, StepsInv, StepIndex, Done, InStep, Progress

LEMMA InitLifecycle == Init => Lifecycle!Init
  BY DEF Init, InitialState, Lifecycle!Init

\* The runtime implements the lifecycle its caller is promised: steps are worked off
\* in order, calls stay inside an open step and the budget, and what the run returns
\* is accounted for by its steps, whichever save fails.
THEOREM RuntimeImplementsLifecycle == Spec => ImplementsLifecycle
  BY InitTypeInv, TypeInvStep, CountersCorrect, StepsStep, WorkStep, PhaseStep, LifecycleStep,
     InitWork, InitLifecycle, PTL
  DEF Spec, ImplementsLifecycle, Lifecycle!Spec

-----------------------------------------------------------------------------
(* Open steps                                                              *)

\* A run that left a step open ended with a contained error.
OpenInv ==
  pc = "returned" =>
    \A i \in StepIndex : state.stepStatus[i] = "running" => state.stopReason = "runtime_error"

\* _terminate is only reached with no step open, except from the except clause.
LEMMA OpenStep ==
  ASSUME TypeInv, StepsInv, WorkInv, PhaseInv, OpenInv, [Next]_vars
  PROVE  OpenInv'
<1>0. /\ state \in RuntimeState /\ stepsStarted \in Nat /\ Len(state.stepStatus) \in Nat
      /\ stepsStarted <= Len(state.stepStatus)
  BY DEF TypeInv, TypeOK, Control, RuntimeState
<1>1. ASSUME NEW status \in TerminalStatus, NEW reason \in StopReason, NEW event \in FinalEvent,
             NEW onError \in {"containing", "leaked"},
             Terminate(status, reason, event, onError),
             reason = "runtime_error" \/ \A i \in StepIndex : state.stepStatus[i] # "running"
      PROVE  OpenInv'
  <2>1. PlanUnchanged /\ state'.stopReason = reason
    BY <1>0, <1>1, TerminateEffect DEF Terminate, RuntimeState
  <2>. QED
    BY <1>1, <2>1 DEF OpenInv, PlanUnchanged, StepIndex
<1>2. pc \in {"iterating", "stopping"} => \A i \in StepIndex : state.stepStatus[i] # "running"
  <2>1. \A i \in StepIndex : i > stepsStarted => state.stepStatus[i] = "pending"
    BY DEF StepsInv
  <2>2. pc \in {"iterating", "stopping"} => \A i \in StepIndex : i <= stepsStarted => Done(i)
    BY <1>0 DEF WorkInv, StepIndex
  <2>. QED
    BY <1>0, <2>1, <2>2 DEF Done, StepIndex
<1>3. CASE PlannerFailsToPlan
  BY <1>1, <1>3
  DEF PlannerFailsToPlan, TerminalStatus, StopReason, FinalEvent, StepsInv, StepIndex
<1>4. CASE StepBudgetSpent
  BY <1>1, <1>2, <1>4 DEF StepBudgetSpent, TerminalStatus, StopReason, FinalEvent, BUDGET_STOP_REASONS
<1>5. CASE PlanFinished
  BY <1>1, <1>2, <1>5 DEF PlanFinished, TerminalStatus, StopReason, FinalEvent
<1>6. CASE StopRun
  <2>1. outcome.stopReason \in StopReason
    BY <1>6 DEF StopRun, Outcome, TypeInv, TypeOK, Control
  <2>. QED
    BY <1>1, <1>2, <1>6, <2>1 DEF StopRun, TerminalStatus, FinalEvent
<1>7. CASE ContainError
  BY <1>1, <1>7 DEF ContainError, TerminalStatus, StopReason, FinalEvent
<1>8. CASE Finished \/ UNCHANGED vars
  BY <1>8 DEF Finished, vars, OpenInv, StepIndex
<1>9. CASE StartRun \/ (\E plan \in Plan : PlannerCreatesPlan(plan)) \/ StartStep \/ FinishStep
  BY <1>9 DEF StartRun, PlannerCreatesPlan, StartStep, FinishStep, SaveState, OpenInv
<1>10. CASE PlannerCompletesStep \/ PlannerFailsStep \/ PlannerRaises \/ PlannerCallsTool
            \/ DispatchCall \/ DispatchBlocked
  BY <1>10
  DEF PlannerCompletesStep, PlannerFailsStep, PlannerRaises, PlannerCallsTool, StepEndsWith,
      DispatchCall, DispatchBlocked, OpenInv
<1>11. CASE ExecutorSucceeds \/ ExecutorRaises \/ \E kind \in FailureKind : ExecutorFails(kind)
  BY <1>11 DEF ExecutorSucceeds, ExecutorRaises, ExecutorFails, SaveState, OpenInv
<1>. QED
  BY <1>3, <1>4, <1>5, <1>6, <1>7, <1>8, <1>9, <1>10, <1>11 DEF Next

LEMMA OpenIsCurrent ==
  TypeInv /\ StepsInv /\ WorkInv /\ OpenInv => OpenStepsAreContainedErrors
<1> SUFFICES ASSUME TypeInv, StepsInv, WorkInv, OpenInv, pc = "returned"
             PROVE  LET open == {i \in StepIndex : state.stepStatus[i] = "running"} IN
                    /\ open # {} => state.stopReason = "runtime_error" /\ Cardinality(open) = 1
                    /\ \A i \in open, j \in StepIndex :
                         j < i => state.stepStatus[j] \in {"completed", "failed"}
  BY DEF OpenStepsAreContainedErrors
<1> DEFINE open == {i \in StepIndex : state.stepStatus[i] = "running"}
<1>1. stepsStarted \in Nat /\ Len(state.stepStatus) \in Nat
  BY DEF TypeInv, TypeOK, Control, RuntimeState
<1>2. \A i \in open : i = stepsStarted
  <2>1. \A i \in StepIndex : i > stepsStarted => state.stepStatus[i] = "pending"
    BY DEF StepsInv
  <2>2. \A i \in StepIndex : i < stepsStarted => Done(i)
    BY DEF WorkInv
  <2>. QED
    BY <1>1, <2>1, <2>2 DEF Done, StepIndex
<1>3. ASSUME open # {} PROVE state.stopReason = "runtime_error" /\ Cardinality(open) = 1
  <2>1. open = {stepsStarted}
    BY <1>2, <1>3
  <2>2. Cardinality({stepsStarted}) = 1
    BY FS_Singleton
  <2>. QED
    BY <2>1, <2>2 DEF OpenInv
<1>4. \A i \in open, j \in StepIndex : j < i => state.stepStatus[j] \in {"completed", "failed"}
  BY <1>2 DEF WorkInv, Done
<1>. QED
  BY <1>3, <1>4

LEMMA InitOpen == Init => OpenInv
  BY DEF Init, OpenInv

\* runtime.py:10, "every step completes or fails": only a contained error leaves a step
\* open, and then only the step that was being worked on.
THEOREM OpenStepsContained == Spec => []OpenStepsAreContainedErrors
  BY InitTypeInv, TypeInvStep, StepsStep, WorkStep, PhaseStep, OpenStep, InitWork, InitOpen,
     OpenIsCurrent, PTL
  DEF Spec

-----------------------------------------------------------------------------
(* What the run returns                                                    *)

SettledUpTo(n) ==
  \A i \in StepIndex : state.stepStatus[i] \in (IF i <= n THEN {"completed", "failed"} ELSE {"pending"})

CutShort == SettledUpTo(stepsStarted) /\ state.stepStatus[stepsStarted] = "failed"

\* The reasons for which a step stops the run, and what the history says of each.
StepReason ==
  {"planner_failed", "unrecoverable_tool_error", "max_tool_calls_exceeded",
   "max_tool_calls_per_step_exceeded", "tool_failure_limit"}

ReasonHolds(reason) ==
  /\ reason = "unrecoverable_tool_error" =>
       state.toolCalls[LastCall] = [step |-> state.currentStep, status |-> "failed"]
  /\ reason = "max_tool_calls_exceeded" => Len(state.toolCalls) = MaxToolCalls
  /\ reason = "max_tool_calls_per_step_exceeded" => CallsInStep = MaxToolCallsPerStep
  /\ reason = "tool_failure_limit" => Cardinality(CallsWith("failed")) = MaxFailures

\* The outcome of a step has a true reason, and a contained error a cause.
ReasonInv ==
  /\ pc \in {"finishing", "stopping"} =>
       outcome.stopReason \in StepReason \cup {None} /\ ReasonHolds(outcome.stopReason)
  /\ pc = "executing" => state.toolCalls[LastCall].step = state.currentStep
  /\ pc = "containing" => StoreMayFail

\* A reason that no limit and no call has to vouch for.
LEMMA PlainReasonHolds ==
  /\ ReasonHolds(None) /\ ReasonHolds("planner_failed")
  /\ None \notin StepReason
  BY NoneAssumption DEF ReasonHolds, StepReason, StopReason, BUDGET_STOP_REASONS

\* Reasons stay true while history and current step are the same.
LEMMA ReasonStays ==
  ASSUME HistoryUnchanged, state'.currentStep = state.currentStep,
         NEW reason, ReasonHolds(reason)
  PROVE  ReasonHolds(reason)'
  BY DEF HistoryUnchanged, ReasonHolds, LastCall, CallsInStep, CallsOfStep, CallsWith, CallIndex

\* A limit that blocks a call has been reached exactly.
LEMMA BlockReasonHolds ==
  ASSUME TypeInv, CountersMatchHistory, BudgetInv, pc = "dispatching", BlockReason # None
  PROVE  BlockReason \in StepReason /\ ReasonHolds(BlockReason)
<1>1. /\ state.totalToolCalls \in Nat /\ state.totalToolFailures \in Nat
      /\ Len(state.toolCalls) = state.totalToolCalls
      /\ state.totalToolFailures = Cardinality(CallsWith("failed"))
      /\ state.currentStep \in StepId
  BY DEF CountersMatchHistory, TypeInv, TypeOK, Control, InStep, RuntimeState
<1>2. /\ Len(state.toolCalls) <= MaxToolCalls
      /\ state.totalToolFailures <= MaxFailures
      /\ CallsInStep <= MaxToolCallsPerStep
  BY <1>1 DEF BudgetInv, BudgetsRespected, CallsInStep
<1>3. MaxToolCalls \in Nat /\ MaxFailures \in Nat /\ MaxToolCallsPerStep \in Nat
  BY LimitAssumption
<1>4. CallsInStep \in Nat
  BY CallsOfStepFinite, FS_CardinalityType DEF CallsInStep
<1>. QED
  BY <1>1, <1>2, <1>3, <1>4 DEF BlockReason, StepReason, ReasonHolds

\* The answer that ends a step for good is that of the last call.
LEMMA FailedAnswerReason ==
  ASSUME TypeInv, ReasonInv, pc = "executing",
         NEW rs \in Seq(Result), AnswerCall("failed", rs)
  PROVE  ReasonHolds("unrecoverable_tool_error")'
<1>1. LastCall \in 1..Len(state.toolCalls) /\ LastCall = Len(state.toolCalls)
  BY DEF TypeInv, TypeOK, Control, RuntimeState, LastCall
<1>2. /\ state'.currentStep = state.currentStep
      /\ Len(state'.toolCalls) = Len(state.toolCalls)
      /\ state'.toolCalls[LastCall] = [step |-> state.toolCalls[LastCall].step, status |-> "failed"]
  BY <1>1, AnswerEffect
<1>3. state.toolCalls[LastCall].step = state.currentStep
  BY DEF ReasonInv
<1>. QED
  BY <1>1, <1>2, <1>3 DEF ReasonHolds, LastCall

\* Every action keeps the reasons true.
LEMMA ReasonStep ==
  ASSUME TypeInv, CountersMatchHistory, BudgetInv, ReasonInv, [Next]_vars
  PROVE  ReasonInv'
<1>0. state \in RuntimeState /\ state.toolCalls \in Seq(Call) /\ Len(state.toolCalls) \in Nat
  BY DEF TypeInv, TypeOK, RuntimeState
<1>T. ASSUME NEW status, NEW reason, NEW event, NEW onError \in {"containing", "leaked"},
             Terminate(status, reason, event, onError)
      PROVE  ReasonInv'
  BY <1>T DEF Terminate, SaveState, ReasonInv
<1>1. CASE StartRun \/ \E plan \in Plan : PlannerCreatesPlan(plan)
  BY <1>1 DEF StartRun, PlannerCreatesPlan, SaveState, ReasonInv
<1>2. CASE PlannerFailsToPlan \/ StepBudgetSpent \/ PlanFinished \/ StopRun \/ ContainError
  BY <1>2, <1>T DEF PlannerFailsToPlan, StepBudgetSpent, PlanFinished, StopRun, ContainError
<1>3. CASE StartStep \/ ExecutorSucceeds
  BY <1>3 DEF StartStep, ExecutorSucceeds, SaveState, ReasonInv
<1>4. CASE PlannerCallsTool
  BY <1>4 DEF PlannerCallsTool, ReasonInv
<1>5. CASE PlannerCompletesStep \/ PlannerFailsStep \/ PlannerRaises
  <2>1. state' = state /\ pc' = "finishing" /\ outcome'.stopReason \in {None, "planner_failed"}
    BY <1>5
    DEF PlannerCompletesStep, PlannerFailsStep, PlannerRaises, StepEndsWith, Completed, FailedWith
  <2>2. HistoryUnchanged /\ state'.currentStep = state.currentStep
    BY <2>1 DEF HistoryUnchanged
  <2>3. ReasonHolds(None)' /\ ReasonHolds("planner_failed")'
    BY <2>2, PlainReasonHolds, ReasonStays
  <2>. QED
    BY <2>1, <2>3 DEF ReasonInv, StepReason
<1>6. CASE DispatchBlocked
  <2>1. state' = state /\ pc = "dispatching" /\ pc' = "finishing" /\ outcome'.stopReason = BlockReason
    BY <1>6 DEF DispatchBlocked, StepEndsWith, FailedWith
  <2>2. BlockReason \in StepReason /\ ReasonHolds(BlockReason)
    BY <1>6, <2>1, BlockReasonHolds DEF DispatchBlocked
  <2>3. HistoryUnchanged /\ state'.currentStep = state.currentStep
    BY <2>1 DEF HistoryUnchanged
  <2>4. \A reason : ReasonHolds(reason) => ReasonHolds(reason)'
    BY <2>3, ReasonStays
  <2>. QED
    BY <2>1, <2>2, <2>4 DEF ReasonInv
<1>7. CASE FinishStep
  <2>1. /\ pc = "finishing" /\ outcome' = outcome
        /\ pc' \in {"iterating", "stopping"} \/ (pc' = "containing" /\ StoreMayFail)
    BY <1>7 DEF FinishStep, SaveState
  <2>2. HistoryUnchanged /\ state'.currentStep = state.currentStep
    BY <1>0, <1>7 DEF FinishStep, HistoryUnchanged, RuntimeState
  <2>3. ReasonHolds(outcome.stopReason)'
    <3>1. ReasonHolds(outcome.stopReason)
      BY <2>1 DEF ReasonInv
    <3>2. \A reason : ReasonHolds(reason) => ReasonHolds(reason)'
      BY <2>2, ReasonStays
    <3>. QED
      BY <2>1, <3>1, <3>2
  <2>. QED
    BY <2>1, <2>3 DEF ReasonInv
<1>8. CASE DispatchCall
  <2>1. /\ pc' = "executing" /\ state'.currentStep = state.currentStep
        /\ state'.toolCalls = Append(state.toolCalls, [step |-> state.currentStep, status |-> "running"])
    BY <1>0, <1>8 DEF DispatchCall, RuntimeState
  <2>2. Len(state'.toolCalls) = Len(state.toolCalls) + 1
    BY <1>0, <2>1
  <2>3. state'.toolCalls[Len(state.toolCalls) + 1] = [step |-> state.currentStep, status |-> "running"]
    BY <1>0, <2>1
  <2>. QED
    BY <2>1, <2>2, <2>3 DEF ReasonInv, LastCall
<1>9. ASSUME NEW rs \in Seq(Result), pc = "executing", AnswerCall("failed", rs),
             pc' \in {"dispatching", "finishing"} \/ (pc' = "containing" /\ StoreMayFail),
             pc' = "finishing" => outcome'.stopReason \in {None, "unrecoverable_tool_error"}
      PROVE  ReasonInv'
  <2>1. ReasonHolds("unrecoverable_tool_error")'
    BY <1>9, FailedAnswerReason
  <2>2. ReasonHolds(None)'
    BY NoneAssumption DEF ReasonHolds, StopReason, BUDGET_STOP_REASONS
  <2>. QED
    BY <1>9, <2>1, <2>2 DEF ReasonInv, StepReason
<1>10. pc = "executing" => ResultOf(FALSE) \in Seq(Result)
  BY <1>0 DEF ResultOf, Result, LastCall, TypeInv, Control, RuntimeState
<1>11. ASSUME NEW kind \in FailureKind, ExecutorFails(kind) PROVE ReasonInv'
  <2>1. /\ pc = "executing" /\ AnswerCall("failed", ResultOf(FALSE))
        /\ pc' \in {"dispatching", "finishing"} \/ (pc' = "containing" /\ StoreMayFail)
        /\ pc' = "finishing" => outcome' = FailedWith(StopForFailure(kind))
    BY <1>11 DEF ExecutorFails, SaveState
  <2>2. FailedWith(StopForFailure(kind)).stopReason \in {None, "unrecoverable_tool_error"}
    BY DEF FailedWith, StopForFailure
  <2>. QED
    BY <1>9, <1>10, <2>1, <2>2
<1>12. CASE ExecutorRaises
  <2>1. /\ pc = "executing" /\ AnswerCall("failed", <<>>)
        /\ pc' = "finishing" \/ (pc' = "containing" /\ StoreMayFail)
        /\ outcome'.stopReason = "unrecoverable_tool_error"
    BY <1>12 DEF ExecutorRaises, SaveState, FailedWith
  <2>2. <<>> \in Seq(Result)
    OBVIOUS
  <2>. QED
    BY <1>9, <2>1, <2>2
<1>13. CASE Finished \/ UNCHANGED vars
  <2>1. UNCHANGED vars
    BY <1>13 DEF Finished
  <2>. QED
    BY <2>1
    DEF vars, ReasonInv, ReasonHolds, LastCall, CallsInStep, CallsOfStep, CallsWith, CallIndex
<1>. QED
  BY <1>1, <1>2, <1>3, <1>4, <1>5, <1>6, <1>7, <1>8, <1>11, <1>12, <1>13 DEF Next

\* What the history owes to the status and the stop reason of a returned run.
Accounts(status, reason) ==
  /\ reason \in StopReason
  /\ status = IF reason = "completed" THEN "completed"
              ELSE IF reason \in BUDGET_STOP_REASONS THEN "budget_exhausted" ELSE "failed"
  /\ reason = "completed" => state.plan # <<>> /\ \A i \in StepIndex : state.stepStatus[i] = "completed"
  /\ reason = "step_failed" =>
       SettledUpTo(Len(state.plan)) /\ \E i \in StepIndex : state.stepStatus[i] = "failed"
  /\ reason = "max_steps_exceeded" => SettledUpTo(MaxSteps) /\ Len(state.plan) > MaxSteps
  /\ reason = "runtime_error" => StoreMayFail
  /\ reason \in StepReason =>
       \/ reason = "planner_failed" /\ state.plan = <<>>
       \/ CutShort /\ ReasonHolds(reason)

VerdictInv == pc = "returned" => Accounts(state.status, state.stopReason)

\* Accounts depends on nothing that _terminate changes.
LEMMA AccountsStay ==
  ASSUME HistoryUnchanged, PlanUnchanged, stepsStarted' = stepsStarted,
         NEW status, NEW reason, Accounts(status, reason)
  PROVE  Accounts(status, reason)'
<1>1. /\ state'.plan = state.plan /\ state'.stepStatus = state.stepStatus
      /\ state'.currentStep = state.currentStep
  BY DEF PlanUnchanged
<1>2. ReasonHolds(reason) => ReasonHolds(reason)'
  BY <1>1, ReasonStays
<1>3. \A n : SettledUpTo(n) => SettledUpTo(n)'
  BY <1>1 DEF SettledUpTo, StepIndex
<1>4. CutShort => CutShort'
  BY <1>1, <1>3 DEF CutShort, SettledUpTo, StepIndex
<1>. QED
  BY <1>1, <1>2, <1>3, <1>4 DEF Accounts, StepIndex

\* Between two steps, everything up to the current one is settled and nothing after it.
LEMMA SettledBetweenSteps ==
  ASSUME TypeInv, StepsInv, WorkInv, pc \in {"iterating", "stopping"}
  PROVE  SettledUpTo(stepsStarted)
<1>0. stepsStarted \in Nat /\ Len(state.stepStatus) \in Nat
  BY DEF TypeInv, TypeOK, RuntimeState
<1>1. \A i \in StepIndex : i > stepsStarted => state.stepStatus[i] = "pending"
  BY DEF StepsInv
<1>2. \A i \in StepIndex : i <= stepsStarted => Done(i)
  BY <1>0 DEF WorkInv, StepIndex
<1>. QED
  BY <1>0, <1>1, <1>2 DEF SettledUpTo, Done, StepIndex

\* Every place the run terminates from can account for what it reports.
LEMMA VerdictStep ==
  ASSUME TypeInv, BudgetInv, StepsInv, WorkInv, PhaseInv, ReasonInv, VerdictInv, [Next]_vars
  PROVE  VerdictInv'
<1>0. /\ state \in RuntimeState
      /\ stepsStarted \in Nat /\ failedSteps \in Nat /\ MaxSteps \in Nat
      /\ Len(state.plan) = Len(state.stepStatus) /\ Len(state.plan) \in Nat
      /\ stepsStarted <= Len(state.plan) /\ stepsStarted <= MaxSteps
  BY LimitAssumption DEF TypeInv, TypeOK, Control, RuntimeState, BudgetInv, BudgetsRespected
<1>T. ASSUME NEW status \in TerminalStatus, NEW reason \in StopReason, NEW event \in FinalEvent,
             NEW onError \in {"containing", "leaked"},
             Terminate(status, reason, event, onError), Accounts(status, reason)
      PROVE  VerdictInv'
  <2>1. HistoryUnchanged /\ PlanUnchanged /\ stepsStarted' = stepsStarted
    BY <1>T, TerminateEffect DEF locals
  <2>2. state'.status = status /\ state'.stopReason = reason
    BY <1>0, <1>T DEF Terminate, RuntimeState
  <2>3. Accounts(status, reason)'
    BY <1>T, <2>1, AccountsStay
  <2>4. Accounts(state.status, state.stopReason)'
    BY <2>2, <2>3 DEF Accounts, ReasonHolds, SettledUpTo
  <2>. QED
    BY <2>4 DEF VerdictInv
<1>1. CASE PlannerFailsToPlan
  <2>1. state.plan = <<>>
    BY <1>1 DEF PlannerFailsToPlan, PhaseInv
  <2>2. Accounts("failed", "planner_failed")
    BY <2>1 DEF Accounts, StopReason, BUDGET_STOP_REASONS
  <2>. QED
    BY <1>1, <1>T, <2>2 DEF PlannerFailsToPlan, TerminalStatus, StopReason, FinalEvent
<1>2. CASE StepBudgetSpent
  <2>1. stepsStarted = MaxSteps /\ Len(state.plan) > MaxSteps /\ SettledUpTo(stepsStarted)
    BY <1>0, <1>2, SettledBetweenSteps DEF StepBudgetSpent, StepsRemain
  <2>2. Accounts("budget_exhausted", "max_steps_exceeded")
    BY <2>1 DEF Accounts, StopReason, BUDGET_STOP_REASONS, StepReason
  <2>. QED
    BY <1>2, <1>T, <2>2
    DEF StepBudgetSpent, TerminalStatus, StopReason, BUDGET_STOP_REASONS, FinalEvent
<1>3. CASE PlanFinished
  <2>1. stepsStarted = Len(state.plan) /\ state.plan # <<>> /\ pc = "iterating"
        /\ SettledUpTo(stepsStarted)
    BY <1>0, <1>3, SettledBetweenSteps DEF PlanFinished, StepsRemain, PhaseInv, Progress
  <2>2. CASE failedSteps > 0
    <3>1. \E i \in StepIndex : state.stepStatus[i] = "failed"
      BY <2>2 DEF WorkInv
    <3>2. Accounts("failed", "step_failed")
      BY <2>1, <3>1 DEF Accounts, StopReason, BUDGET_STOP_REASONS, StepReason
    <3>. QED
      BY <1>3, <1>T, <2>2, <3>2 DEF PlanFinished, TerminalStatus, StopReason, FinalEvent
  <2>3. CASE ~(failedSteps > 0)
    <3>1. \A i \in StepIndex : i < stepsStarted \/ i = stepsStarted => state.stepStatus[i] = "completed"
      BY <1>0, <2>1, <2>3 DEF WorkInv
    <3>2. \A i \in StepIndex : state.stepStatus[i] = "completed"
      BY <1>0, <2>1, <3>1 DEF StepIndex
    <3>3. Accounts("completed", "completed")
      BY <2>1, <3>2 DEF Accounts, StopReason, BUDGET_STOP_REASONS, StepReason
    <3>. QED
      BY <1>3, <1>T, <2>3, <3>3 DEF PlanFinished, TerminalStatus, StopReason, FinalEvent
  <2>. QED
    BY <2>2, <2>3
<1>4. CASE StopRun
  <2>1. /\ pc = "stopping"
        /\ outcome.stopReason \in StepReason /\ ReasonHolds(outcome.stopReason)
    BY <1>4 DEF StopRun, ReasonInv, TypeInv, Control
  <2>2. CutShort
    BY <2>1, SettledBetweenSteps DEF CutShort, WorkInv
  <2>3. outcome.stopReason \in StopReason
    BY <2>1 DEF StepReason, StopReason, BUDGET_STOP_REASONS
  <2>4. ASSUME NEW status,
               status = IF outcome.stopReason \in BUDGET_STOP_REASONS
                        THEN "budget_exhausted" ELSE "failed"
        PROVE  Accounts(status, outcome.stopReason)
    BY <2>1, <2>2, <2>3, <2>4 DEF Accounts, StepReason, BUDGET_STOP_REASONS
  <2>5. CASE outcome.stopReason \in BUDGET_STOP_REASONS
    BY <1>4, <1>T, <2>3, <2>4, <2>5 DEF StopRun, TerminalStatus, FinalEvent
  <2>6. CASE outcome.stopReason \notin BUDGET_STOP_REASONS
    BY <1>4, <1>T, <2>3, <2>4, <2>6 DEF StopRun, TerminalStatus, FinalEvent
  <2>. QED
    BY <2>5, <2>6
<1>5. CASE ContainError
  <2>1. StoreMayFail
    BY <1>5 DEF ContainError, ReasonInv
  <2>2. Accounts("failed", "runtime_error")
    BY <2>1 DEF Accounts, StopReason, BUDGET_STOP_REASONS, StepReason
  <2>. QED
    BY <1>5, <1>T, <2>2 DEF ContainError, TerminalStatus, StopReason, FinalEvent
<1>6. CASE StartRun \/ (\E plan \in Plan : PlannerCreatesPlan(plan)) \/ StartStep \/ FinishStep
  BY <1>6 DEF StartRun, PlannerCreatesPlan, StartStep, FinishStep, SaveState, VerdictInv
<1>7. CASE PlannerCompletesStep \/ PlannerFailsStep \/ PlannerRaises \/ PlannerCallsTool
           \/ DispatchCall \/ DispatchBlocked
  BY <1>7
  DEF PlannerCompletesStep, PlannerFailsStep, PlannerRaises, PlannerCallsTool, StepEndsWith,
      DispatchCall, DispatchBlocked, VerdictInv
<1>8. CASE ExecutorSucceeds \/ ExecutorRaises \/ \E kind \in FailureKind : ExecutorFails(kind)
  BY <1>8 DEF ExecutorSucceeds, ExecutorRaises, ExecutorFails, SaveState, VerdictInv
<1>9. CASE Finished \/ UNCHANGED vars
  <2>1. UNCHANGED vars
    BY <1>9 DEF Finished
  <2>2. HistoryUnchanged /\ PlanUnchanged /\ stepsStarted' = stepsStarted /\ pc' = pc /\ state' = state
    BY <2>1 DEF vars, HistoryUnchanged, PlanUnchanged
  <2>3. ASSUME Accounts(state.status, state.stopReason)
        PROVE  Accounts(state.status, state.stopReason)'
    <3>1. ASSUME NEW status, NEW reason, status = state.status, reason = state.stopReason
          PROVE  Accounts(state.status, state.stopReason)'
      <4>1. Accounts(status, reason)'
        BY <2>2, <2>3, <3>1, AccountsStay DEF Accounts, ReasonHolds
      <4>. QED
        BY <2>2, <3>1, <4>1 DEF Accounts, ReasonHolds, SettledUpTo
    <3>. QED
      BY <3>1
  <2>. QED
    BY <2>2, <2>3 DEF VerdictInv
<1>. QED
  BY <1>1, <1>2, <1>3, <1>4, <1>5, <1>6, <1>7, <1>8, <1>9 DEF Next

LEMMA InitVerdict == Init => ReasonInv /\ VerdictInv
  BY DEF Init, ReasonInv, VerdictInv

LEMMA VerdictTold == VerdictInv => VerdictMatchesHistory
<1>1. SUFFICES ASSUME VerdictInv, pc = "returned" PROVE VerdictMatchesHistory
  BY DEF VerdictMatchesHistory
<1>2. Accounts(state.status, state.stopReason)
  BY <1>1 DEF VerdictInv
<1>. QED
  BY <1>2
  DEF Accounts, VerdictMatchesHistory, SettledUpTo, CutShort, StepReason, ReasonHolds, StopReason,
      BUDGET_STOP_REASONS

\* The status and the stop reason of a returned run are accounted for by its plan, its
\* steps, its calls and its limits (_drive, _terminate_for_stop_reason).
THEOREM VerdictAccounted == Spec => []VerdictMatchesHistory
  BY InitTypeInv, TypeInvStep, CountersCorrect, BudgetInvariant, StepsStep, WorkStep, PhaseStep,
     ReasonStep, VerdictStep, InitWork, InitVerdict, VerdictTold, PTL
  DEF Spec

-----------------------------------------------------------------------------
(* Completed steps                                                         *)

\* A failed call is being pursued: retried, or about to fail its step, or cut off by
\* an error.
Pursued ==
  \/ pc \in {"dispatching", "executing", "containing", "returned", "leaked"}
  \/ pc = "finishing" /\ outcome.status = "failed"

\* A step that keeps a failed call from passing for completed work.
Culprit(i) ==
  \/ state.stepStatus[i] = "failed"
  \/ i = stepsStarted /\ state.stepStatus[i] # "completed" /\ Pursued

LatestCall(id, c) ==
  c \in CallsOfStep(state, id) /\ \A d \in CallsOfStep(state, id) : d <= c

Blamed(id) == \E i \in StepIndex : state.plan[i] = id /\ Culprit(i)

Accounted(id) ==
  CallsOfStep(state, id) # {} =>
    \E c \in CallIndex :
      LatestCall(id, c) /\ (state.toolCalls[c].status = "succeeded" \/ Blamed(id))

CallsInv ==
  /\ \A id \in StepId : Accounted(id)
  /\ InStep => state.plan[stepsStarted] = state.currentStep
  /\ pc = "executing" => state.toolCalls[LastCall].step = state.currentStep

\* The plan is set once, by the action that creates it.
LEMMA PlanSetOnce ==
  ASSUME TypeInv, [Next]_vars, pc # "planning"
  PROVE  state'.plan = state.plan
<1>0. state \in RuntimeState
  BY DEF TypeInv, TypeOK
<1>1. CASE StartRun \/ StartStep \/ FinishStep \/ DispatchCall
  BY <1>0, <1>1 DEF StartRun, StartStep, FinishStep, DispatchCall, RuntimeState
<1>2. CASE StepBudgetSpent \/ PlanFinished \/ StopRun \/ ContainError
  BY <1>0, <1>2 DEF StepBudgetSpent, PlanFinished, StopRun, ContainError, Terminate, RuntimeState
<1>3. CASE PlannerCompletesStep \/ PlannerFailsStep \/ PlannerRaises \/ PlannerCallsTool
           \/ DispatchBlocked
  BY <1>3
  DEF PlannerCompletesStep, PlannerFailsStep, PlannerRaises, PlannerCallsTool, DispatchBlocked
<1>4. CASE ExecutorSucceeds \/ ExecutorRaises \/ \E kind \in FailureKind : ExecutorFails(kind)
  BY <1>0, <1>4 DEF ExecutorSucceeds, ExecutorRaises, ExecutorFails, AnswerCall, RuntimeState
<1>5. CASE Finished \/ UNCHANGED vars
  BY <1>5 DEF Finished, vars
<1>. QED
  BY <1>1, <1>2, <1>3, <1>4, <1>5 DEF Next, PlannerCreatesPlan, PlannerFailsToPlan

\* A step that is to blame stays so, until a later call of its succeeds.
LEMMA BlameStays ==
  ASSUME TypeInv, StepsInv, CallsInv, [Next]_vars, pc # "planning",
         NEW id, Blamed(id), id # state.currentStep \/ ~ExecutorSucceeds
  PROVE  Blamed(id)'
<1>0. /\ state \in RuntimeState /\ Len(state.stepStatus) \in Nat /\ stepsStarted \in Nat
      /\ Len(state.stepStatus) = Len(state.plan)
  BY DEF TypeInv, TypeOK, Control, RuntimeState
<1>1. PICK i \in StepIndex : state.plan[i] = id /\ Culprit(i)
  BY DEF Blamed
<1>. DEFINE Kept == state'.stepStatus = state.stepStatus /\ stepsStarted' = stepsStarted /\ Pursued'
            Failed == state'.stepStatus[i] = "failed"
<1>2. i \in StepIndex' /\ state'.plan[i] = id
  <2>1. state'.plan = state.plan
    BY PlanSetOnce
  <2>2. Len(state'.stepStatus) = Len(state'.plan)
    BY TypeInvStep DEF TypeInv, Control
  <2>. QED
    BY <1>0, <1>1, <2>1, <2>2 DEF StepIndex
<1>3. CASE state.stepStatus[i] = "failed"
  <2>1. Failed
    BY <1>1, <1>3, StepsStep DEF SettledStepsKept
  <2>. QED
    BY <1>2, <2>1 DEF Blamed, Culprit
<1>4. CASE state.stepStatus[i] # "failed"
  <2>0. i = stepsStarted /\ state.stepStatus[i] # "completed" /\ Pursued
    BY <1>1, <1>4 DEF Culprit
  <2>S. ~ExecutorSucceeds
    BY <1>1, <2>0 DEF ExecutorSucceeds, CallsInv, InStep
  <2> SUFFICES Kept \/ Failed
    BY <1>2, <2>0 DEF Blamed, Culprit
  <2>1. CASE DispatchCall \/ DispatchBlocked
    BY <1>0, <2>1
    DEF DispatchCall, DispatchBlocked, StepEndsWith, FailedWith, locals, Pursued, RuntimeState
  <2>2. CASE ExecutorRaises \/ \E kind \in FailureKind : ExecutorFails(kind)
    <3>1. state'.stepStatus = state.stepStatus /\ stepsStarted' = stepsStarted
      BY <1>0, <2>2 DEF ExecutorRaises, ExecutorFails, AnswerCall, RuntimeState
    <3>2. pc' \in {"dispatching", "containing"} \/ (pc' = "finishing" /\ outcome'.status = "failed")
      <4>1. \A reason : FailedWith(reason).status = "failed"
        BY DEF FailedWith
      <4>2. CASE ExecutorRaises
        BY <4>1, <4>2 DEF ExecutorRaises, SaveState
      <4>3. ASSUME NEW kind \in FailureKind, ExecutorFails(kind)
            PROVE  pc' \in {"dispatching", "containing"} \/ (pc' = "finishing" /\ outcome'.status = "failed")
        BY <4>1, <4>3 DEF ExecutorFails, SaveState
      <4>. QED
        BY <2>2, <4>2, <4>3
    <3>. QED
      BY <3>1, <3>2 DEF Pursued
  <2>3. CASE ContainError
    BY <1>0, <2>3 DEF ContainError, Terminate, SaveState, locals, Pursued, RuntimeState
  <2>4. CASE FinishStep
    <3>1. outcome.status = "failed"
      BY <2>0, <2>4 DEF FinishStep, Pursued
    <3>2. /\ state'.stepStatus = [state.stepStatus EXCEPT ![stepsStarted] = "failed"]
          /\ state.stepStatus \in Seq(StepStatus)
      BY <1>0, <2>4, <3>1 DEF FinishStep, RuntimeState
    <3>. QED
      BY <1>1, <2>0, <3>2 DEF StepIndex
  <2>5. CASE Finished \/ UNCHANGED vars
    BY <2>0, <2>5 DEF Finished, vars, Pursued
  <2>6. CASE StartRun \/ PlannerFailsToPlan \/ StartStep \/ StepBudgetSpent \/ PlanFinished
             \/ PlannerCompletesStep \/ PlannerFailsStep \/ PlannerRaises \/ PlannerCallsTool
             \/ StopRun \/ \E plan \in Plan : PlannerCreatesPlan(plan)
    BY <2>0, <2>6
    DEF Pursued, StartRun, PlannerFailsToPlan, StartStep, StepBudgetSpent, PlanFinished,
        PlannerCompletesStep, PlannerFailsStep, PlannerRaises, PlannerCallsTool, StopRun,
        PlannerCreatesPlan
  <2>. QED
    BY <2>S, <2>1, <2>2, <2>3, <2>4, <2>5, <2>6 DEF Next
<1>. QED
  BY <1>3, <1>4

\* While a call of it is pursued, the current step is the one to blame.
LEMMA CurrentStepBlamed ==
  ASSUME TypeInv, StepsInv, CallsInv, pc \in {"dispatching", "executing"}
  PROVE  Blamed(state.currentStep)
<1>1. stepsStarted \in StepIndex
  BY DEF TypeInv, TypeOK, Control, RuntimeState, InStep, StepIndex
<1>2. state.plan[stepsStarted] = state.currentStep /\ state.stepStatus[stepsStarted] = "running"
  BY DEF CallsInv, StepsInv, InStep
<1>. QED
  BY <1>1, <1>2 DEF Blamed, Culprit, Pursued

\* A step, and a call in flight, belong to the id the state names as current.
LEMMA CurrentCallStep ==
  ASSUME TypeInv, CallsInv, [Next]_vars
  PROVE  /\ InStep' => state'.plan[stepsStarted'] = state'.currentStep
         /\ pc' = "executing" => state'.toolCalls[Len(state'.toolCalls)].step = state'.currentStep
<1>0. /\ state \in RuntimeState /\ state.toolCalls \in Seq(Call) /\ Len(state.toolCalls) \in Nat
      /\ LastCall = Len(state.toolCalls)
  BY DEF TypeInv, TypeOK, RuntimeState, LastCall
<1>. DEFINE Goal ==
       /\ InStep' => state'.plan[stepsStarted'] = state'.currentStep
       /\ pc' = "executing" => state'.toolCalls[Len(state'.toolCalls)].step = state'.currentStep
<1>T. ASSUME NEW status, NEW reason, NEW event, NEW onError \in {"containing", "leaked"},
             Terminate(status, reason, event, onError)
      PROVE  Goal
  BY <1>T DEF Terminate, SaveState, InStep
<1>1. CASE StartRun \/ \E plan \in Plan : PlannerCreatesPlan(plan)
  BY <1>1 DEF StartRun, PlannerCreatesPlan, SaveState, InStep
<1>2. CASE PlannerFailsToPlan \/ StepBudgetSpent \/ PlanFinished \/ StopRun \/ ContainError
  BY <1>2, <1>T DEF PlannerFailsToPlan, StepBudgetSpent, PlanFinished, StopRun, ContainError
<1>3. CASE StartStep
  BY <1>0, <1>3 DEF StartStep, SaveState, InStep, RuntimeState
<1>4. CASE PlannerCompletesStep \/ PlannerFailsStep \/ PlannerRaises \/ PlannerCallsTool
           \/ DispatchBlocked
  BY <1>4
  DEF PlannerCompletesStep, PlannerFailsStep, PlannerRaises, PlannerCallsTool, DispatchBlocked,
      StepEndsWith, InStep, CallsInv
<1>5. CASE FinishStep
  BY <1>5 DEF FinishStep, SaveState, InStep
<1>6. CASE DispatchCall
  <2>1. /\ state'.plan = state.plan /\ state'.currentStep = state.currentStep
        /\ stepsStarted' = stepsStarted /\ InStep
        /\ state'.toolCalls = Append(state.toolCalls, [step |-> state.currentStep, status |-> "running"])
    BY <1>0, <1>6 DEF DispatchCall, locals, InStep, RuntimeState
  <2>2. state'.toolCalls[Len(state'.toolCalls)] = [step |-> state.currentStep, status |-> "running"]
    BY <1>0, <2>1
  <2>. QED
    BY <2>1, <2>2 DEF CallsInv
<1>7. CASE ExecutorSucceeds \/ ExecutorRaises \/ \E kind \in FailureKind : ExecutorFails(kind)
  <2>1. InStep /\ pc' # "executing"
    BY <1>7 DEF ExecutorSucceeds, ExecutorRaises, ExecutorFails, SaveState, InStep
  <2>2. /\ state'.plan = state.plan /\ state'.currentStep = state.currentStep
        /\ stepsStarted' = stepsStarted
    BY <1>0, <1>7 DEF ExecutorSucceeds, ExecutorRaises, ExecutorFails, AnswerCall, RuntimeState
  <2>. QED
    BY <2>1, <2>2 DEF CallsInv
<1>8. CASE Finished \/ UNCHANGED vars
  BY <1>0, <1>8 DEF Finished, vars, InStep, CallsInv
<1>. QED
  BY <1>1, <1>2, <1>3, <1>4, <1>5, <1>6, <1>7, <1>8 DEF Next

\* Every action leaves the last call of each step a success, or a step to blame.
LEMMA CallsStep ==
  ASSUME TypeInv, StepsInv, HandoffInv, CallsInv, [Next]_vars
  PROVE  CallsInv'
<1>0. /\ state.toolCalls \in Seq(Call) /\ Len(state.toolCalls) \in Nat
      /\ LastCall = Len(state.toolCalls)
  BY DEF TypeInv, TypeOK, RuntimeState, LastCall
<1> SUFFICES ASSUME NEW id \in StepId PROVE Accounted(id)'
  BY CurrentCallStep DEF CallsInv, LastCall
<1>1. CASE pc = "planning"
  <2>1. state.toolCalls = <<>>
    BY <1>1 DEF HandoffInv
  <2>2. HistoryKept
    BY <1>1, HistoryStep DEF CallDispatched, DispatchCall, CallAnswered
  <2>. QED
    BY <2>1, <2>2 DEF HistoryKept, HistoryUnchanged, CallsOfStep, Accounted
<1>2. CASE pc # "planning"
  <2>A. Accounted(id)
    BY DEF CallsInv
  <2>1. CASE HistoryKept
    <3>1. state'.toolCalls = state.toolCalls /\ ~ExecutorSucceeds
      BY <2>1 DEF HistoryKept, HistoryUnchanged, ExecutorSucceeds, SaveState
    <3>2. Blamed(id) => Blamed(id)'
      BY <1>2, <3>1, BlameStays
    <3>. QED
      BY <2>A, <3>1, <3>2 DEF Accounted, LatestCall, CallsOfStep, CallIndex
  <2>2. CASE CallDispatched
    <3>n. PICK new \in Nat : new = Len(state.toolCalls) + 1
      BY <1>0
    <3>0. pc = "dispatching" /\ ~ExecutorSucceeds
      BY <2>2 DEF CallDispatched, DispatchCall, ExecutorSucceeds
    <3>1. /\ Len(state'.toolCalls) = new
          /\ \A c \in 1..Len(state.toolCalls) : state'.toolCalls[c] = state.toolCalls[c]
          /\ state'.toolCalls[new] = [step |-> state.currentStep, status |-> "running"]
      BY <1>0, <2>2, <3>n DEF CallDispatched
    <3>2. Blamed(id) => Blamed(id)'
      BY <1>2, <3>0, BlameStays
    <3>3. CASE id = state.currentStep
      <4>1. /\ new \in CallIndex' /\ new \in CallsOfStep(state', id)
            /\ \A d \in CallsOfStep(state', id) : d <= new
        BY <1>0, <3>1, <3>3, <3>n DEF CallsOfStep, CallIndex
      <4>2. Blamed(id)'
        BY <3>0, <3>2, <3>3, CurrentStepBlamed
      <4>. QED
        BY <4>1, <4>2 DEF Accounted, LatestCall
    <3>4. CASE id # state.currentStep
      <4>1. CallsOfStep(state', id) = CallsOfStep(state, id)
        BY <1>0, <3>1, <3>4, <3>n DEF CallsOfStep
      <4>2. \A c \in CallIndex : c \in CallIndex' /\ state'.toolCalls[c] = state.toolCalls[c]
        BY <1>0, <3>1, <3>n DEF CallIndex
      <4>. QED
        BY <2>A, <3>2, <4>1, <4>2 DEF Accounted, LatestCall
    <3>. QED
      BY <3>3, <3>4
  <2>3. ASSUME NEW st \in {"succeeded", "failed"}, NEW rs \in Seq(Result), pc = "executing",
               AnswerCall(st, rs), st = "failed" => ~ExecutorSucceeds
        PROVE  Accounted(id)'
    <3>0. LastCall \in 1..Len(state.toolCalls)
      BY <1>0, <2>3 DEF TypeInv, Control
    <3>1. /\ Len(state'.toolCalls) = Len(state.toolCalls)
          /\ \A c \in 1..Len(state.toolCalls) :
               c # LastCall => state'.toolCalls[c] = state.toolCalls[c]
          /\ state'.toolCalls[LastCall] = [step |-> state.toolCalls[LastCall].step, status |-> st]
      BY <2>3, <3>0, AnswerEffect
    <3>2. CallsOfStep(state', id) = CallsOfStep(state, id)
      <4>1. \A c \in 1..Len(state.toolCalls) : state'.toolCalls[c].step = state.toolCalls[c].step
        BY <3>1
      <4>. QED
        BY <3>1, <4>1 DEF CallsOfStep
    <3>3. LastCall \in CallIndex /\ state.toolCalls[LastCall].step = state.currentStep
      BY <1>0, <2>3 DEF CallsInv, TypeInv, Control, CallIndex
    <3>4. CASE id = state.currentStep
      <4>1. st = "failed" => Blamed(id)'
        BY <1>2, <2>3, <3>4, BlameStays, CurrentStepBlamed
      <4>2. LastCall \in CallsOfStep(state, id) /\ \A d \in CallsOfStep(state, id) : d <= LastCall
        BY <1>0, <3>3, <3>4 DEF CallsOfStep, CallIndex
      <4>3. state'.toolCalls[LastCall].status = st
        BY <3>1, <3>3 DEF CallIndex
      <4>. QED
        <5>1. PICK last \in CallIndex : last = LastCall
          BY <3>3
        <5>2. /\ last \in CallIndex' /\ LatestCall(id, last)'
              /\ state'.toolCalls[last].status = st
          BY <3>1, <3>2, <4>2, <4>3, <5>1 DEF LatestCall, CallIndex
        <5>. QED
          BY <2>3, <4>1, <5>2 DEF Accounted
    <3>5. CASE id # state.currentStep
      <4>1. Blamed(id) => Blamed(id)'
        BY <1>2, <3>5, BlameStays
      <4>2. LastCall \notin CallsOfStep(state, id)
        BY <3>3, <3>5 DEF CallsOfStep
      <4>. QED
        BY <2>A, <3>1, <3>2, <4>1, <4>2 DEF Accounted, LatestCall, CallIndex
    <3>. QED
      BY <3>4, <3>5
  <2>4. ASSUME NEW st, NEW rs, CallAnswered(st, rs) PROVE Accounted(id)'
    <3>1. CASE st = "failed" => ~ExecutorSucceeds
      BY <2>3, <2>4, <3>1 DEF CallAnswered
    <3>2. CASE ExecutorSucceeds
      <4>1. ResultOf(TRUE) \in Seq(Result) /\ pc = "executing" /\ AnswerCall("succeeded", ResultOf(TRUE))
        BY <1>0, <3>2 DEF ExecutorSucceeds, ResultOf, Result, TypeInv, Control
      <4>. QED
        BY <2>3, <4>1
    <3>. QED
      BY <3>1, <3>2
  <2>. QED
    BY <2>1, <2>2, <2>4, HistoryStep
<1>. QED
  BY <1>1, <1>2

\* There is nothing to account for before the first step.
LEMMA InitCalls == Init => StepsInv /\ HandoffInv /\ CallsInv
  BY DEF Init, InitialState, StepsInv, HandoffInv, ResultsTraceToCalls, CallsInv, Accounted,
         CallsOfStep, StepIndex, CallIndex, Unanswered, InStep

LEMMA CompletedSucceed == CallsInv => CompletedStepsEndOnSuccess
<1> SUFFICES ASSUME CallsInv, NEW id \in StepId, CallsOfStep(state, id) # {},
                    \A i \in StepIndex : state.plan[i] = id => state.stepStatus[i] = "completed"
             PROVE  \E c \in CallsOfStep(state, id) :
                      /\ \A d \in CallsOfStep(state, id) : d <= c
                      /\ state.toolCalls[c].status = "succeeded"
  BY DEF CompletedStepsEndOnSuccess
<1>. QED
  BY DEF CallsInv, Accounted, LatestCall, Blamed, Culprit

\* A step is never reported completed on top of a failed last call: a failed call is
\* retried to success or takes its step down with it.
THEOREM CompletedStepsSucceed == Spec => []CompletedStepsEndOnSuccess
  BY InitTypeInv, TypeInvStep, CountersCorrect, StepsStep, HandoffStep, CallsStep, InitCalls,
     CompletedSucceed, PTL
  DEF Spec
=============================================================================

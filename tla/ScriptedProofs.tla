----------------------------- MODULE ScriptedProofs -----------------------------
(***************************************************************************)
(* Machine-checked proofs about ScriptedLoop: what the planner's context   *)
(* shows of the run's history, and how far the client that counts on it    *)
(* goes.                                                                   *)
(***************************************************************************)
EXTENDS ScriptedProperties, LifecycleProofs, OrderingProofs

-----------------------------------------------------------------------------
(* The loop and the runtime                                                *)

\* A step of the loop is a step of the runtime, or leaves the runtime alone.
LEMMA LoopSteps == [LoopNext]_loopVars => [Next]_vars
<1>. SUFFICES ASSUME LoopNext PROVE [Next]_vars
  BY DEF loopVars
<1>1. CASE FallBack
  BY <1>1 DEF FallBack, Next
<1>2. CASE BuildContext \/ ReduceContext
  BY <1>2 DEF BuildContext, ReduceContext
<1>3. CASE ClientDecides
  <2>1. PlannerCallsTool \/ PlannerCompletesStep
    BY <1>3 DEF ClientDecides
  <2>. QED
    BY <2>1 DEF Next
<1>4. CASE Dispatch
  BY <1>4 DEF Dispatch, Next
<1>5. CASE ToolAnswers \/ ToolFails
  <2>1. ExecutorSucceeds \/ ExecutorFails("invalid_arguments") \/ ExecutorFails("execution_error")
    BY <1>5 DEF ToolAnswers, ToolFails
  <2>. QED
    BY <2>1 DEF Next, FailureKind
<1>6. CASE RuntimeActs
  BY <1>6, SkeletonAssumption DEF RuntimeActs, Next
<1>. QED
  BY <1>1, <1>2, <1>3, <1>4, <1>5, <1>6 DEF LoopNext

\* The loop is the runtime with the rule-based client as its planner (runtime.py:332): it adds
\* no behaviour, so whatever holds of every run of the runtime holds of these runs, and
\* they keep the promises of RunLifecycle.
THEOREM ScriptedRunsAreRuns == LoopSpec => Spec /\ ImplementsLifecycle
<1>1. LoopInit => Init
  BY DEF LoopInit
<1>2. LoopSpec => Spec
  BY <1>1, LoopSteps, PTL DEF LoopSpec, Spec
<1>. QED
  BY <1>2, RuntimeImplementsLifecycle, PTL

\* What the run of the loop inherits from the runtime.
RunInv == TypeInv /\ CountersMatchHistory /\ HandoffInv

\* Each part holds of a fresh run and survives every step of the runtime.
LEMMA RunStays == LoopSpec => []RunInv
<1>1. Init => HandoffInv
  BY DEF Init, InitialState, HandoffInv, ResultsTraceToCalls, CallIndex
<1>2. LoopInit => RunInv
  BY <1>1, InitTypeInv, InitCounters DEF LoopInit, RunInv
<1>3. RunInv /\ [LoopNext]_loopVars => RunInv'
  BY LoopSteps, TypeInvStep, CountersStep, HandoffStep DEF RunInv
<1>. QED
  BY <1>2, <1>3, PTL DEF LoopSpec

-----------------------------------------------------------------------------
(* The history                                                             *)

IsSequence(s) == s \in Seq({s[i] : i \in 1..Len(s)})

\* Appending keeps what is there.
LEMMA Appended ==
  ASSUME NEW s, NEW e, IsSequence(s)
  PROVE  /\ Len(s) \in Nat /\ DOMAIN s = 1..Len(s)
         /\ IsSequence(Append(s, e)) /\ Len(Append(s, e)) = Len(s) + 1
         /\ DOMAIN Append(s, e) = 1..(Len(s) + 1)
         /\ \A i \in 1..Len(s) : Append(s, e)[i] = s[i]
         /\ Append(s, e)[Len(s) + 1] = e
<1>. DEFINE S == {s[i] : i \in 1..Len(s)}
            t == Append(s, e)
            T == {t[i] : i \in 1..Len(t)}
<1>1. s \in Seq(S)
  BY DEF IsSequence
<1>2. s \in Seq(S \cup {e}) /\ Len(s) \in Nat /\ DOMAIN s = 1..Len(s)
  <2>1. Len(s) \in Nat /\ DOMAIN s = 1..Len(s) /\ \A i \in 1..Len(s) : s[i] \in S
    BY <1>1
  <2>2. s \in [1..Len(s) -> S \cup {e}]
    BY <1>1, <2>1
  <2>. QED
    BY <2>1, <2>2, SeqDef
<1>3. /\ t \in Seq(S \cup {e}) /\ Len(t) = Len(s) + 1
      /\ \A i \in 1..Len(s) : t[i] = s[i]
      /\ t[Len(s) + 1] = e
  BY <1>2
<1>4. DOMAIN t = 1..Len(t) /\ t \in [1..Len(t) -> T]
  <2>. HIDE DEF t
  <2>1. t \in [1..Len(t) -> S \cup {e}] /\ DOMAIN t = 1..Len(t)
    BY <1>3, LenProperties
  <2>. QED
    BY <2>1
<1>5. t \in Seq(T)
  BY <1>2, <1>3, <1>4, SeqDef
<1>. QED
  BY <1>2, <1>3, <1>4, <1>5 DEF IsSequence

\* asked and answered tell the run's history; every result answers the call of its
\* position.
HistoryTold ==
  /\ IsSequence(asked) /\ IsSequence(answered)
  /\ Len(asked) = Len(state.toolCalls)
  /\ \A c \in 1..Len(asked) : asked[c].step = state.toolCalls[c].step
  /\ Len(answered) = Len(state.toolResults)
  /\ \A r \in 1..Len(answered) : answered[r].call = r /\ state.toolResults[r].call = r

\* All calls but one in flight have their result, and are as many.
LEMMA ResultsCount ==
  ASSUME RunInv, HistoryTold
  PROVE  /\ pc = "executing" => Len(asked) = Len(answered) + 1
         /\ pc \in {"deciding", "dispatching"} => Len(asked) = Len(answered)
         /\ Len(answered) <= Len(asked)
<1>. DEFINE results == state.toolResults
            n == Len(results)
<1>1. /\ state.toolCalls \in Seq(Call) /\ results \in Seq(Result)
      /\ n \in Nat /\ LastCall \in Nat /\ LastCall = Len(state.toolCalls)
  BY DEF RunInv, TypeInv, TypeOK, RuntimeState, LastCall
<1>2. \A r \in 1..n : results[r].call = r /\ r \in 1..LastCall
  BY <1>1 DEF HistoryTold, RunInv, HandoffInv, ResultsTraceToCalls, CallIndex
<1>3. \A c \in Unanswered : c = LastCall
  BY HandoffForm DEF RunInv, HandoffInv
<1>4. n <= LastCall /\ \A c \in 1..LastCall : c <= n \/ c = LastCall
  <2>1. ASSUME NEW c \in 1..LastCall, ~(c <= n)
        PROVE  c \in Unanswered
    BY <1>1, <1>2, <2>1 DEF Unanswered, CallIndex
  <2>2. n <= LastCall
    BY <1>1, <1>2
  <2>. QED
    BY <1>3, <2>1, <2>2
<1>5. CASE pc = "executing"
  <2>1. LastCall >= 1 /\ state.toolCalls[LastCall].status = "running"
    BY <1>1, <1>5 DEF RunInv, TypeInv, Control, CountersMatchHistory, CallsWith
  <2>2. \A r \in 1..n : state.toolCalls[r].status # "running"
    BY <1>2 DEF RunInv, HandoffInv, ResultsTraceToCalls
  <2>3. n # LastCall
    BY <1>1, <2>1, <2>2
  <2>4. LastCall - 1 <= n
    <3>1. ASSUME n + 1 < LastCall
          PROVE  FALSE
      <4>1. LastCall \in Nat /\ n \in Nat
        BY <1>1
      <4>. HIDE DEF n
      <4>2. n + 1 \in 1..LastCall
        BY <3>1, <4>1
      <4>. QED
        BY <1>4, <3>1, <4>1, <4>2
    <3>. QED
      BY <1>1, <3>1
  <2>. QED
    BY <1>1, <1>4, <1>5, <2>3, <2>4 DEF HistoryTold
<1>6. CASE pc \in {"deciding", "dispatching"}
  <2>1. Unanswered = {}
    BY <1>6, HandoffForm DEF RunInv, HandoffInv
  <2>2. \A c \in 1..LastCall : c <= n
    <3>1. SUFFICES ASSUME NEW c \in 1..LastCall PROVE c <= n
      OBVIOUS
    <3>2. PICK r \in 1..n : results[r].call = c
      BY <1>1, <2>1 DEF Unanswered, CallIndex
    <3>. QED
      BY <1>1, <1>2, <3>2
  <2>3. LastCall <= n
    BY <1>1, <2>2
  <2>. QED
    BY <1>1, <1>4, <1>6, <2>3 DEF HistoryTold
<1>7. Len(answered) <= Len(asked)
  BY <1>1, <1>4 DEF HistoryTold
<1>. QED
  BY <1>5, <1>6, <1>7

\* The loop touches asked and answered where the runtime touches its history.
LEMMA TellsHistory ==
  ASSUME RunInv, [LoopNext]_loopVars
  PROVE  \/ HistoryUnchanged /\ UNCHANGED <<asked, answered>>
         \/ Dispatch /\ CallDispatched
         \/ /\ pc = "executing" /\ UNCHANGED asked
            /\ \E st, success : /\ st \in {"succeeded", "failed"} /\ success \in BOOLEAN
                                /\ AnswerCall(st, ResultOf(success))
                                /\ \E answer : Answers(answer)
         \/ /\ pc = "executing" /\ UNCHANGED <<asked, answered>>
            /\ AnswerCall("failed", <<>>)
<1>1. CASE Dispatch
  <2>1. CallDispatched
    BY <1>1, HistoryStep, LoopSteps DEF Dispatch, DispatchCall, HistoryKept, CallAnswered, RunInv
  <2>. QED
    BY <1>1, <2>1
<1>2. CASE ToolAnswers \/ ToolFails
  <2>1. pc = "executing" /\ UNCHANGED asked /\ \E answer : Answers(answer)
    BY <1>2 DEF ToolAnswers, ToolFails, ExecutorFails
  <2>2. \/ AnswerCall("succeeded", ResultOf(TRUE))
        \/ AnswerCall("failed", ResultOf(FALSE))
    BY <1>2 DEF ToolAnswers, ToolFails, ExecutorFails, ExecutorSucceeds
  <2>. QED
    BY <2>1, <2>2
<1>3. CASE RuntimeActs /\ ExecutorRaises
  BY <1>3 DEF RuntimeActs, ExecutorRaises, scriptVars
<1>4. ASSUME pc # "executing" \/ UNCHANGED vars, ~CallDispatched, UNCHANGED <<asked, answered>>
      PROVE  HistoryUnchanged
  BY <1>4, HistoryStep, LoopSteps DEF HistoryKept, HistoryUnchanged, CallAnswered, RunInv, vars
<1>5. CASE FallBack \/ BuildContext \/ ReduceContext \/ ClientDecides
  <2>1. pc = "deciding" /\ UNCHANGED <<asked, answered>>
    BY <1>5 DEF FallBack, BuildContext, ReduceContext, ClientDecides, scriptVars
  <2>. QED
    BY <1>4, <2>1 DEF CallDispatched, DispatchCall
<1>6. CASE RuntimeActs /\ ~ExecutorRaises
  <2>1. UNCHANGED <<asked, answered>> /\ (pc # "executing" \/ UNCHANGED vars)
    BY <1>6
    DEF RuntimeActs, scriptVars, StartRun, PlannerCreatesPlan, StartStep, StepBudgetSpent, PlanFinished,
        FinishStep, StopRun, DispatchBlocked, ContainError, Finished
  <2>2. ~CallDispatched
    BY <1>6
    DEF RuntimeActs, CallDispatched, DispatchCall, StartRun, PlannerCreatesPlan, StartStep,
        StepBudgetSpent, PlanFinished, FinishStep, StopRun, DispatchBlocked, ContainError, Finished
  <2>. QED
    BY <1>4, <2>1, <2>2
<1>7. CASE UNCHANGED loopVars
  BY <1>7 DEF loopVars, scriptVars, vars, HistoryUnchanged
<1>. QED
  BY <1>1, <1>2, <1>3, <1>5, <1>6, <1>7 DEF LoopNext

\* What is answered stays answered.
LEMMA HistoryStays ==
  ASSUME RunInv, HistoryTold, [LoopNext]_loopVars
  PROVE  HistoryTold'
<1>0. /\ TypeInv /\ state.toolCalls \in Seq(Call) /\ Len(state.toolCalls) \in Nat
      /\ state.toolResults \in Seq(Result) /\ Len(state.toolResults) \in Nat
      /\ IsSequence(asked) /\ IsSequence(answered)
      /\ Len(asked) = Len(state.toolCalls) /\ Len(answered) = Len(state.toolResults)
      /\ LastCall = Len(state.toolCalls)
  BY DEF RunInv, TypeInv, TypeOK, RuntimeState, HistoryTold, LastCall
<1>1. CASE HistoryUnchanged /\ UNCHANGED <<asked, answered>>
  BY <1>1 DEF HistoryUnchanged, HistoryTold, IsSequence
<1>2. CASE Dispatch /\ CallDispatched
  <2>1. PICK request : /\ asked' = Append(asked, [step |-> state.currentStep, request |-> request])
                       /\ answered' = answered
    BY <1>2 DEF Dispatch
  <2>. DEFINE call == [step |-> state.currentStep, request |-> request]
  <2>2. /\ IsSequence(asked') /\ Len(asked') = Len(asked) + 1
        /\ \A c \in 1..Len(asked) : asked'[c] = asked[c]
        /\ asked'[Len(asked) + 1] = call
    BY <1>0, <2>1, Appended
  <2>. DEFINE made == [step |-> state.currentStep, status |-> "running"]
  <2>3. /\ state'.toolCalls = Append(state.toolCalls, made) /\ made \in Call
        /\ state'.toolResults = state.toolResults
    BY <1>2 DEF CallDispatched, Call, CallStatus
  <2>4. /\ Len(state'.toolCalls) = Len(state.toolCalls) + 1
        /\ \A c \in 1..Len(state.toolCalls) : state'.toolCalls[c] = state.toolCalls[c]
        /\ state'.toolCalls[Len(state.toolCalls) + 1] = made
    BY <1>0, <2>3
  <2>5. \A c \in 1..Len(asked)' : asked'[c].step = state'.toolCalls[c].step
    <3>1. SUFFICES ASSUME NEW c \in 1..Len(asked') PROVE asked'[c].step = state'.toolCalls[c].step
      OBVIOUS
    <3>2. CASE c = Len(asked) + 1
      BY <1>0, <2>2, <2>4, <3>2
    <3>3. CASE c # Len(asked) + 1
      <4>1. c \in 1..Len(asked)
        BY <1>0, <2>2, <3>3
      <4>2. asked'[c] = asked[c] /\ state'.toolCalls[c] = state.toolCalls[c]
        BY <1>0, <2>2, <2>4, <4>1
      <4>. QED
        BY <4>1, <4>2 DEF HistoryTold
    <3>. QED
      BY <3>2, <3>3
  <2>6. IsSequence(answered)' /\ IsSequence(asked)'
    BY <1>0, <2>1, <2>2 DEF IsSequence
  <2>. QED
    BY <1>0, <2>1, <2>2, <2>3, <2>4, <2>5, <2>6 DEF HistoryTold
<1>3. ASSUME pc = "executing", UNCHANGED asked,
             NEW st \in {"succeeded", "failed"}, NEW rs \in Seq(Result), AnswerCall(st, rs)
      PROVE  /\ IsSequence(asked)' /\ Len(asked') = Len(state'.toolCalls)
             /\ \A c \in 1..Len(asked') : asked'[c].step = state'.toolCalls[c].step
             /\ state'.toolResults = state.toolResults \o rs
  <2>1. /\ state'.toolResults = state.toolResults \o rs
        /\ Len(state'.toolCalls) = Len(state.toolCalls)
        /\ \A i \in 1..Len(state.toolCalls) :
             state'.toolCalls[i] = IF i = LastCall THEN [step |-> state.toolCalls[i].step, status |-> st]
                                   ELSE state.toolCalls[i]
    BY <1>0, <1>3, AnswerEffect
  <2>2. ASSUME NEW i \in 1..Len(state.toolCalls)
        PROVE  state'.toolCalls[i].step = state.toolCalls[i].step
    <3>1. CASE i = LastCall
      <4>1. state'.toolCalls[i] = [step |-> state.toolCalls[i].step, status |-> st]
        BY <2>1, <3>1
      <4>. QED
        BY <4>1
    <3>2. CASE i # LastCall
      BY <2>1, <3>2
    <3>. QED
      BY <3>1, <3>2
  <2>. QED
    BY <1>0, <1>3, <2>1, <2>2 DEF HistoryTold, IsSequence
<1>4. CASE /\ pc = "executing" /\ UNCHANGED <<asked, answered>>
           /\ AnswerCall("failed", <<>>)
  <2>1. <<>> \in Seq(Result)
    OBVIOUS
  <2>2. state'.toolResults = state.toolResults \o <<>>
    BY <1>3, <1>4, <2>1
  <2>3. state'.toolResults = state.toolResults
    BY <1>0, <2>2
  <2>. QED
    BY <1>0, <1>3, <1>4, <2>1, <2>3 DEF HistoryTold, IsSequence
<1>5. ASSUME pc = "executing", UNCHANGED asked,
             NEW st \in {"succeeded", "failed"}, NEW success \in BOOLEAN, NEW answer,
             AnswerCall(st, ResultOf(success)), Answers(answer)
      PROVE  HistoryTold'
  <2>. DEFINE result == [call |-> LastCall, success |-> success]
              told == [call |-> Len(asked), answer |-> answer]
  <2>1. LastCall >= 1 /\ result \in Result
    BY <1>0, <1>5 DEF TypeInv, Control, Result
  <2>2. ResultOf(success) \in Seq(Result)
    BY <2>1 DEF ResultOf
  <2>3. /\ state'.toolResults = Append(state.toolResults, result)
    <3>1. state'.toolResults = state.toolResults \o <<result>>
      BY <1>3, <1>5, <2>2 DEF ResultOf
    <3>. QED
      BY <1>0, <2>1, <3>1
  <2>4. /\ Len(state'.toolResults) = Len(state.toolResults) + 1
        /\ \A r \in 1..Len(state.toolResults) : state'.toolResults[r] = state.toolResults[r]
        /\ state'.toolResults[Len(state.toolResults) + 1] = result
    BY <1>0, <2>1, <2>3
  <2>5. /\ IsSequence(answered') /\ Len(answered') = Len(answered) + 1
        /\ \A r \in 1..Len(answered) : answered'[r] = answered[r]
        /\ answered'[Len(answered) + 1] = told
    BY <1>0, <1>5, Appended DEF Answers
  <2>6. Len(asked) = Len(answered) + 1
    BY <1>5, ResultsCount
  <2>7. \A r \in 1..Len(answered') : answered'[r].call = r /\ state'.toolResults[r].call = r
    <3>1. SUFFICES ASSUME NEW r \in 1..Len(answered')
                   PROVE  answered'[r].call = r /\ state'.toolResults[r].call = r
      OBVIOUS
    <3>2. CASE r = Len(answered) + 1
      BY <1>0, <2>4, <2>5, <2>6, <3>2
    <3>3. CASE r # Len(answered) + 1
      <4>1. r \in 1..Len(answered)
        BY <1>0, <2>5, <3>3
      <4>2. answered'[r] = answered[r] /\ state'.toolResults[r] = state.toolResults[r]
        BY <1>0, <2>4, <2>5, <4>1
      <4>. QED
        BY <4>1, <4>2 DEF HistoryTold
    <3>. QED
      BY <3>2, <3>3
  <2>. QED
    BY <1>0, <1>3, <1>5, <2>2, <2>4, <2>5, <2>7 DEF HistoryTold, IsSequence
<1>. QED
  BY <1>1, <1>2, <1>4, <1>5, TellsHistory

-----------------------------------------------------------------------------
(* What a context shows of the history                                     *)

\* A function on an interval from 1 on is a sequence.
LEMMA FunctionIsSequence ==
  ASSUME NEW n \in Nat, NEW f, f = [i \in 1..n |-> f[i]]
  PROVE  IsSequence(f) /\ Len(f) = n
<1>1. f \in [1..n -> {f[i] : i \in 1..n}]
  OBVIOUS
<1>2. f \in Seq({f[i] : i \in 1..n}) /\ Len(f) = n
  BY <1>1, SeqDef, LenProperties
<1>. QED
  BY <1>2 DEF IsSequence

\* A segment of a sequence is one.
LEMMA Segment ==
  ASSUME NEW s, IsSequence(s), NEW m \in 1..(Len(s) + 1)
  PROVE  LET t == SubSeq(s, m, Len(s)) IN
         /\ IsSequence(t) /\ Len(t) = Len(s) - m + 1
         /\ \A k \in 1..Len(t) : t[k] = s[m - 1 + k]
<1>. DEFINE t == SubSeq(s, m, Len(s))
            n == Len(s) - m + 1
<1>1. Len(s) \in Nat /\ s \in Seq({s[i] : i \in 1..Len(s)})
  BY DEF IsSequence
<1>2. m \in Nat /\ m >= 1 /\ m <= Len(s) + 1 /\ n \in Nat
  BY <1>1
<1>3. t = [k \in 1..n |-> s[k + m - 1]]
  BY <1>1, <1>2
<1>4. IsSequence(t) /\ Len(t) = n
  <2>1. t = [k \in 1..n |-> t[k]]
    BY <1>3
  <2>. QED
    BY <1>2, <2>1, FunctionIsSequence
<1>. QED
  BY <1>1, <1>2, <1>3, <1>4

\* The newest entries are the last ones, in order.
LEMMA NewestEntries ==
  ASSUME NEW s, IsSequence(s), NEW n \in Nat
  PROVE  LET t == Client!Newest(s, n) IN
         /\ IsSequence(t)
         /\ Len(t) = IF n > 0 /\ Len(s) > n THEN n ELSE Len(s)
         /\ \A k \in 1..Len(t) : t[k] = s[Len(s) - Len(t) + k]
<1>. DEFINE m == IF n > 0 /\ Len(s) > n THEN Len(s) - n + 1 ELSE 1
<1>1. Len(s) \in Nat
  BY DEF IsSequence
<1>2. m \in 1..(Len(s) + 1)
  BY <1>1
<1>3. Client!Newest(s, n) = SubSeq(s, m, Len(s))
  BY DEF Client!Newest
<1>. HIDE DEF m
<1>. DEFINE t == SubSeq(s, m, Len(s))
<1>4. IsSequence(t) /\ Len(t) = Len(s) - m + 1 /\ \A k \in 1..Len(t) : t[k] = s[m - 1 + k]
  BY <1>2, Segment
<1>. HIDE DEF t
<1>5. Len(t) = IF n > 0 /\ Len(s) > n THEN n ELSE Len(s)
  BY <1>1, <1>4 DEF m
<1>6. \A k \in 1..Len(t) : t[k] = s[Len(s) - Len(t) + k]
  <2>1. SUFFICES ASSUME NEW k \in 1..Len(t) PROVE t[k] = s[Len(s) - Len(t) + k]
    OBVIOUS
  <2>2. m - 1 + k = Len(s) - Len(t) + k
    BY <1>1, <1>2, <1>4
  <2>. QED
    BY <1>4, <2>2
<1>7. Client!Newest(s, n) = t
  BY <1>3 DEF t
<1>. QED
  BY <1>4, <1>5, <1>6, <1>7

\* Dropping the oldest entry keeps the others.
LEMMA OldestDropped ==
  ASSUME NEW s, IsSequence(s), s # <<>>
  PROVE  /\ IsSequence(Tail(s)) /\ Len(s) \in Nat \ {0} /\ Len(Tail(s)) = Len(s) - 1
         /\ \A k \in 1..Len(Tail(s)) : Tail(s)[k] = s[k + 1]
<1>1. s \in Seq({s[i] : i \in 1..Len(s)})
  BY DEF IsSequence
<1>2. Len(s) \in Nat \ {0} /\ Tail(s) = SubSeq(s, 2, Len(s))
  BY <1>1
<1>3. 2 \in 1..(Len(s) + 1)
  BY <1>2
<1>. DEFINE t == SubSeq(s, 2, Len(s))
<1>4. IsSequence(t) /\ Len(t) = Len(s) - 2 + 1 /\ \A k \in 1..Len(t) : t[k] = s[2 - 1 + k]
  BY <1>3, Segment
<1>. HIDE DEF t
<1>5. \A k \in 1..Len(t) : t[k] = s[k + 1]
  <2>1. SUFFICES ASSUME NEW k \in 1..Len(t) PROVE t[k] = s[k + 1]
    OBVIOUS
  <2>2. 2 - 1 + k = k + 1
    BY <1>2, <1>4
  <2>. QED
    BY <1>4, <2>2
<1>6. Len(t) = Len(s) - 1
  BY <1>2, <1>4
<1>7. Tail(s) = t
  BY <1>2 DEF t
<1>. QED
  BY <1>2, <1>4, <1>5, <1>6, <1>7, Zenon

IsContext(shown) ==
  DOMAIN shown =
    {"calls", "results", "queries", "indicators", "failures", "empties", "truncated"}

\* Of a history of n calls and as many results, the last calls and the last results
\* are shown, and no more results than calls.
Shows(history, shown, n) ==
  /\ IsContext(shown)
  /\ IsSequence(shown.calls) /\ Len(shown.calls) <= n
  /\ \A k \in 1..Len(shown.calls) :
       shown.calls[k] = Client!CallView(history, n - Len(shown.calls) + k)
  /\ IsSequence(shown.results) /\ Len(shown.results) <= n
  /\ \A k \in 1..Len(shown.results) : shown.results[k].call = n - Len(shown.results) + k
  /\ shown.results # <<>> => Len(shown.results) <= Len(shown.calls)

\* A new context shows the newest calls and results.
LEMMA BuiltShows ==
  ASSUME HistoryTold, Len(asked) = Len(answered), NEW n \in Nat
  PROVE  Shows(asked, Client!Built(asked, answered, n), Len(asked))
<1>. DEFINE built == Client!Built(asked, answered, n)
            callViews == [c \in DOMAIN asked |-> Client!CallView(asked, c)]
            resultViews == [r \in DOMAIN answered |-> Client!ResultView(asked, answered[r])]
<1>1. /\ Len(asked) \in Nat /\ DOMAIN asked = 1..Len(asked)
      /\ Len(answered) \in Nat /\ DOMAIN answered = 1..Len(answered)
  BY DEF HistoryTold, IsSequence
<1>2. IsSequence(callViews) /\ Len(callViews) = Len(asked)
  BY <1>1, FunctionIsSequence
<1>3. IsSequence(resultViews) /\ Len(resultViews) = Len(asked)
  BY <1>1, FunctionIsSequence
<1>4. \A c \in 1..Len(asked) : callViews[c] = Client!CallView(asked, c)
  BY <1>1
<1>5. \A r \in 1..Len(asked) : resultViews[r].call = r
  <2>1. SUFFICES ASSUME NEW r \in 1..Len(asked) PROVE resultViews[r].call = r
    OBVIOUS
  <2>2. resultViews[r].call = answered[r].call
    BY <1>1 DEF Client!ResultView
  <2>. QED
    BY <2>2 DEF HistoryTold
<1>6. /\ IsContext(built)
      /\ built.calls = Client!Newest(callViews, n)
      /\ built.results = Client!Newest(resultViews, n)
  BY DEF Client!Built, IsContext
<1>. HIDE DEF built, callViews, resultViews
<1>7. /\ IsSequence(built.calls)
      /\ Len(built.calls) = IF n > 0 /\ Len(asked) > n THEN n ELSE Len(asked)
      /\ \A k \in 1..Len(built.calls) : built.calls[k] = callViews[Len(asked) - Len(built.calls) + k]
  <2>. DEFINE t == Client!Newest(callViews, n)
  <2>1. /\ IsSequence(t)
        /\ Len(t) = IF n > 0 /\ Len(callViews) > n THEN n ELSE Len(callViews)
        /\ \A k \in 1..Len(t) : t[k] = callViews[Len(callViews) - Len(t) + k]
    BY <1>2, NewestEntries
  <2>2. built.calls = t
    BY <1>6
  <2>. HIDE DEF t
  <2>. QED
    BY <1>2, <2>1, <2>2
<1>8. /\ IsSequence(built.results)
      /\ Len(built.results) = IF n > 0 /\ Len(asked) > n THEN n ELSE Len(asked)
      /\ \A k \in 1..Len(built.results) :
           built.results[k] = resultViews[Len(asked) - Len(built.results) + k]
  <2>. DEFINE t == Client!Newest(resultViews, n)
  <2>1. /\ IsSequence(t)
        /\ Len(t) = IF n > 0 /\ Len(resultViews) > n THEN n ELSE Len(resultViews)
        /\ \A k \in 1..Len(t) : t[k] = resultViews[Len(resultViews) - Len(t) + k]
    BY <1>3, NewestEntries
  <2>2. built.results = t
    BY <1>6
  <2>. HIDE DEF t
  <2>. QED
    BY <1>3, <2>1, <2>2
<1>9. \A k \in 1..Len(built.calls) :
        built.calls[k] = Client!CallView(asked, Len(asked) - Len(built.calls) + k)
  <2>1. SUFFICES ASSUME NEW k \in 1..Len(built.calls)
                 PROVE  built.calls[k] = Client!CallView(asked, Len(asked) - Len(built.calls) + k)
    OBVIOUS
  <2>2. Len(asked) - Len(built.calls) + k \in 1..Len(asked)
    BY <1>1, <1>7
  <2>. QED
    BY <1>4, <1>7, <2>2
<1>10. \A k \in 1..Len(built.results) : built.results[k].call = Len(asked) - Len(built.results) + k
  <2>1. SUFFICES ASSUME NEW k \in 1..Len(built.results)
                 PROVE  built.results[k].call = Len(asked) - Len(built.results) + k
    OBVIOUS
  <2>2. Len(asked) - Len(built.results) + k \in 1..Len(asked)
    BY <1>1, <1>8
  <2>. QED
    BY <1>5, <1>8, <2>2
<1>11. /\ Len(built.calls) <= Len(asked) /\ Len(built.results) <= Len(asked)
       /\ Len(built.results) <= Len(built.calls)
  BY <1>1, <1>7, <1>8
<1>. QED
  BY <1>6, <1>7, <1>8, <1>9, <1>10, <1>11 DEF Shows, built

\* A reduction drops an oldest entry: a call only when no result is left.
LEMMA ReducedShows ==
  ASSUME NEW history, NEW shown, NEW n \in Nat, Shows(history, shown, n)
  PROVE  Shows(history, Client!Reduced(shown), n)
<1>. DEFINE reduced == Client!Reduced(shown)
            lists == {"calls", "results", "queries", "indicators", "failures", "empties", "truncated"}
<1>1. DOMAIN shown = lists
  BY DEF Shows, IsContext
<1>2. CASE shown.results # <<>>
  <2>1. reduced = [shown EXCEPT !.results = Tail(shown.results)]
    BY <1>2 DEF Client!Reduced
  <2>2. /\ DOMAIN reduced = lists
        /\ reduced.calls = shown.calls /\ reduced.results = Tail(shown.results)
    BY <1>1, <2>1
  <2>. HIDE DEF reduced
  <2>3. IsSequence(shown.results)
    BY DEF Shows
  <2>4. /\ IsSequence(reduced.results) /\ Len(shown.results) \in Nat \ {0}
        /\ Len(reduced.results) = Len(shown.results) - 1
        /\ \A k \in 1..Len(reduced.results) : reduced.results[k] = shown.results[k + 1]
    BY <1>2, <2>2, <2>3, OldestDropped
  <2>5. \A k \in 1..Len(reduced.results) : reduced.results[k].call = n - Len(reduced.results) + k
    <3>1. SUFFICES ASSUME NEW k \in 1..Len(reduced.results)
                   PROVE  reduced.results[k].call = n - Len(reduced.results) + k
      OBVIOUS
    <3>2. k + 1 \in 1..Len(shown.results) /\ n - Len(shown.results) + (k + 1) = n - Len(reduced.results) + k
      BY <2>4
    <3>3. shown.results[k + 1].call = n - Len(shown.results) + (k + 1)
      BY <3>2 DEF Shows
    <3>. QED
      BY <2>4, <3>2, <3>3
  <2>6. Len(reduced.results) <= n /\ Len(reduced.results) <= Len(reduced.calls)
    <3>1. Len(shown.calls) \in Nat /\ Len(shown.results) <= n /\ Len(shown.results) <= Len(shown.calls)
      BY <1>2 DEF Shows, IsSequence
    <3>. QED
      BY <2>2, <2>4, <3>1
  <2>9. Shows(history, reduced, n)
    BY <2>2, <2>4, <2>5, <2>6 DEF Shows, IsContext
  <2>. QED
    BY <2>9 DEF reduced
<1>3. CASE shown.results = <<>> /\ shown.calls # <<>>
  <2>1. reduced = [shown EXCEPT !.calls = Tail(shown.calls)]
    BY <1>3 DEF Client!Reduced
  <2>2. /\ DOMAIN reduced = lists
        /\ reduced.calls = Tail(shown.calls) /\ reduced.results = shown.results
    BY <1>1, <2>1
  <2>. HIDE DEF reduced
  <2>3. IsSequence(shown.calls)
    BY DEF Shows
  <2>4. /\ IsSequence(reduced.calls) /\ Len(shown.calls) \in Nat \ {0}
        /\ Len(reduced.calls) = Len(shown.calls) - 1
        /\ \A k \in 1..Len(reduced.calls) : reduced.calls[k] = shown.calls[k + 1]
    BY <1>3, <2>2, <2>3, OldestDropped
  <2>5. \A k \in 1..Len(reduced.calls) :
          reduced.calls[k] = Client!CallView(history, n - Len(reduced.calls) + k)
    <3>1. SUFFICES ASSUME NEW k \in 1..Len(reduced.calls)
                   PROVE  reduced.calls[k] = Client!CallView(history, n - Len(reduced.calls) + k)
      OBVIOUS
    <3>2. k + 1 \in 1..Len(shown.calls) /\ n - Len(shown.calls) + (k + 1) = n - Len(reduced.calls) + k
      BY <2>4
    <3>3. shown.calls[k + 1] = Client!CallView(history, n - Len(shown.calls) + (k + 1))
      BY <3>2 DEF Shows
    <3>. QED
      BY <2>4, <3>2, <3>3
  <2>6. Len(reduced.calls) <= n
    <3>1. Len(shown.calls) <= n
      BY DEF Shows
    <3>. QED
      BY <2>4, <3>1
  <2>7. reduced.results = <<>>
    BY <1>3, <2>2
  <2>9. Shows(history, reduced, n)
    BY <2>2, <2>4, <2>5, <2>6, <2>7 DEF Shows, IsContext
  <2>. QED
    BY <2>9 DEF reduced
<1>4. CASE shown.results = <<>> /\ shown.calls = <<>>
  <2>1. /\ DOMAIN reduced = lists
        /\ reduced.calls = shown.calls /\ reduced.results = shown.results
    BY <1>1, <1>4 DEF Client!Reduced
  <2>. HIDE DEF reduced
  <2>9. Shows(history, reduced, n)
    BY <2>1 DEF Shows, IsContext
  <2>. QED
    BY <2>9 DEF reduced
<1>. QED
  BY <1>2, <1>3, <1>4

\* Shows is about the calls and the results of a context only, and about the calls
\* made before it.
LEMMA ShowsStill ==
  ASSUME NEW history, NEW later, NEW shown, NEW also, NEW n \in Nat,
         Shows(history, shown, n), IsContext(also),
         also.calls = shown.calls, also.results = shown.results,
         \A c \in 1..n : later[c] = history[c]
  PROVE  Shows(later, also, n)
<1>1. \A k \in 1..Len(also.calls) :
        also.calls[k] = Client!CallView(later, n - Len(also.calls) + k)
  <2>1. SUFFICES ASSUME NEW k \in 1..Len(also.calls)
                 PROVE  also.calls[k] = Client!CallView(later, n - Len(also.calls) + k)
    OBVIOUS
  <2>. DEFINE c == n - Len(also.calls) + k
  <2>2. Len(shown.calls) \in Nat /\ Len(shown.calls) <= n
    BY DEF Shows, IsSequence
  <2>3. c \in 1..n
    BY <2>2
  <2>4. also.calls[k] = Client!CallView(history, c)
    BY DEF Shows
  <2>. QED
    BY <2>3, <2>4 DEF Client!CallView
<1>. QED
  BY <1>1 DEF Shows

-----------------------------------------------------------------------------
(* What decisions are made from                                            *)

\* The context at hand is of the history at hand.
ContextInv ==
  context # None =>
    pc = "deciding" /\ CallsRemain /\ Shows(asked, context, Len(asked))

\* Every decision was made from a context of the history that there was, and a call
\* with less than two calls of its step in sight.
DecidedWell(d) ==
  /\ decisions[d].calls \in 0..Len(asked)
  /\ decisions[d].results = decisions[d].calls /\ decisions[d].results <= Len(answered)
  /\ Shows(asked, decisions[d].context, decisions[d].calls)
  /\ Calls(d) =>
       ~Client!StepLimitReached(Cardinality(Client!CallsOf(decisions[d].context, decisions[d].step)))

DecisionsInv ==
  IsSequence(decisions) /\ \A d \in 1..Len(decisions) : DecidedWell(d)

\* asked and answered only grow, at their ends.
LEMMA HistoryGrows ==
  ASSUME HistoryTold, [LoopNext]_loopVars
  PROVE  /\ Len(asked) \in Nat /\ Len(asked') \in Nat /\ Len(asked) <= Len(asked')
         /\ \A c \in 1..Len(asked) : asked'[c] = asked[c]
         /\ Len(answered) \in Nat /\ Len(answered') \in Nat /\ Len(answered) <= Len(answered')
         /\ \A r \in 1..Len(answered) : answered'[r] = answered[r]
<1>1. /\ Len(asked) \in Nat /\ IsSequence(asked)
      /\ Len(answered) \in Nat /\ IsSequence(answered)
  BY DEF HistoryTold, IsSequence
<1>2. CASE Dispatch
  <2>1. (\E call : asked' = Append(asked, call)) /\ answered' = answered
    BY <1>2 DEF Dispatch
  <2>2. PICK call : asked' = Append(asked, call)
    BY <2>1
  <2>. QED
    BY <1>1, <2>1, <2>2, Appended
<1>3. CASE ToolAnswers \/ ToolFails
  <2>1. asked' = asked /\ \E answer : Answers(answer)
    BY <1>3 DEF ToolAnswers, ToolFails
  <2>2. PICK result : answered' = Append(answered, result)
    BY <2>1 DEF Answers
  <2>. QED
    BY <1>1, <2>1, <2>2, Appended
<1>4. CASE UNCHANGED <<asked, answered>>
  BY <1>1, <1>4
<1>5. CASE FallBack \/ BuildContext \/ ReduceContext \/ ClientDecides \/ RuntimeActs
           \/ UNCHANGED loopVars
  BY <1>4, <1>5
  DEF FallBack, BuildContext, ReduceContext, ClientDecides, RuntimeActs, loopVars, scriptVars
<1>. QED
  BY <1>2, <1>3, <1>5 DEF LoopNext

\* Where the builder comes from never changes.
BuilderInv == builder \in Builders

LEMMA BuilderStays == BuilderInv /\ [LoopNext]_loopVars => BuilderInv'
  BY DEF BuilderInv, LoopNext, FallBack, BuildContext, ReduceContext, ClientDecides, Dispatch,
         ToolAnswers, ToolFails, RuntimeActs, loopVars, scriptVars

\* The runtime's own steps begin elsewhere than at the planner's decision.
LEMMA ActsElsewhere ==
  ASSUME Dispatch \/ ToolAnswers \/ ToolFails \/ RuntimeActs
  PROVE  pc # "deciding" /\ UNCHANGED <<context, decisions>>
<1>1. CASE Dispatch \/ ToolAnswers \/ ToolFails
  BY <1>1 DEF Dispatch, DispatchCall, ToolAnswers, ToolFails, ExecutorFails
<1>2. CASE RuntimeActs
  BY <1>2
  DEF RuntimeActs, scriptVars, StartRun, PlannerCreatesPlan, StartStep, StepBudgetSpent,
      PlanFinished, FinishStep, StopRun, DispatchBlocked, ExecutorRaises, ContainError, Finished
<1>. QED
  BY <1>1, <1>2

\* The context is built, reduced and used up within one decision.
LEMMA ContextStep ==
  ASSUME RunInv, HistoryTold, BuilderInv, ContextInv, [LoopNext]_loopVars
  PROVE  ContextInv'
<1>1. CASE UNCHANGED loopVars
  BY <1>1 DEF loopVars, vars, scriptVars, ContextInv, CallsRemain, CallsInStep, CallsOfStep
<1>2. CASE FallBack
  BY <1>2 DEF FallBack, ContextInv, scriptVars
<1>3. CASE BuildContext
  <2>1. Len(asked) = Len(answered)
    BY <1>3, ResultsCount DEF BuildContext
  <2>2. builder.history \in Nat
    BY BuilderAssumption DEF BuilderInv
  <2>3. Shows(asked, context', Len(asked))
    BY <1>3, <2>1, <2>2, BuiltShows DEF BuildContext
  <2>4. pc' = "deciding" /\ CallsRemain' /\ asked' = asked
    BY <1>3 DEF BuildContext, CallsRemain, CallsInStep, CallsOfStep, vars
  <2>. QED
    BY <2>3, <2>4 DEF ContextInv
<1>4. CASE ReduceContext
  <2>. DEFINE reduced == Client!Reduced(context)
  <2>1. /\ context # None /\ context' = [reduced EXCEPT !.truncated = TRUE]
        /\ UNCHANGED <<vars, asked>>
    BY <1>4 DEF ReduceContext
  <2>2. Len(asked) \in Nat
    BY DEF HistoryTold, IsSequence
  <2>3. Shows(asked, reduced, Len(asked))
    BY <2>1, <2>2, ReducedShows DEF ContextInv
  <2>. HIDE DEF reduced
  <2>4. /\ IsContext(context')
        /\ context'.calls = reduced.calls /\ context'.results = reduced.results
    BY <2>1, <2>3 DEF Shows, IsContext
  <2>5. Shows(asked, context', Len(asked))
    BY <2>2, <2>3, <2>4, ShowsStill
  <2>6. pc' = "deciding" /\ CallsRemain' /\ asked' = asked
    BY <2>1 DEF ContextInv, CallsRemain, CallsInStep, CallsOfStep, vars
  <2>. QED
    BY <2>5, <2>6 DEF ContextInv
<1>5. CASE ClientDecides
  BY <1>5 DEF ClientDecides, ContextInv
<1>6. CASE Dispatch \/ ToolAnswers \/ ToolFails \/ RuntimeActs
  BY <1>6, ActsElsewhere DEF ContextInv
<1>. QED
  BY <1>1, <1>2, <1>3, <1>4, <1>5, <1>6 DEF LoopNext

\* The number of elements is the same on either side of the instantiation.
LEMMA ClientCounts ==
  ASSUME NEW S
  PROVE  Client!Cardinality(S) = Cardinality(S)
  BY DEF Client!Cardinality, Cardinality

\* A decision for a call saw less than two calls.
LEMMA CallSeesRoom ==
  ASSUME NEW step, NEW shown, Client!Decide(alert, step, shown).action = "call_tool"
  PROVE  ~Client!StepLimitReached(Cardinality(Client!CallsOf(shown, step)))
<1>1. SUFFICES ASSUME Client!StepLimitReached(Client!Cardinality(Client!CallsOf(shown, step)))
               PROVE  FALSE
  BY ClientCounts
<1>2. Client!Decide(alert, step, shown) = Client!CompleteStep
  BY <1>1, Zenon DEF Client!Decide
<1>. QED
  BY <1>2 DEF Client!CompleteStep

\* A decision stays what it was, and a new one is made well.
LEMMA DecisionsStep ==
  ASSUME RunInv, HistoryTold, ContextInv, DecisionsInv, [LoopNext]_loopVars
  PROVE  DecisionsInv'
<1>0. /\ Len(asked) \in Nat /\ Len(asked') \in Nat /\ Len(asked) <= Len(asked')
      /\ \A c \in 1..Len(asked) : asked'[c] = asked[c]
      /\ Len(answered) \in Nat /\ Len(answered') \in Nat /\ Len(answered) <= Len(answered')
  BY HistoryGrows
<1>1. ASSUME NEW d \in 1..Len(decisions), decisions'[d] = decisions[d]
      PROVE  DecidedWell(d)'
  <2>. DEFINE n == decisions[d].calls
  <2>1. DecidedWell(d)
    BY DEF DecisionsInv
  <2>2. n \in 0..Len(asked') /\ n <= Len(answered') /\ \A c \in 1..n : asked'[c] = asked[c]
    BY <1>0, <2>1 DEF DecidedWell
  <2>3. Shows(asked, decisions[d].context, n) /\ n \in Nat
    BY <1>0, <2>1 DEF DecidedWell
  <2>. DEFINE shown == decisions[d].context
  <2>5. IsContext(shown)
    BY <2>3 DEF Shows
  <2>. HIDE DEF n
  <2>4. Shows(asked', shown, n)
    BY <2>2, <2>3, <2>5, ShowsStill
  <2>. QED
    BY <1>1, <2>1, <2>2, <2>4 DEF DecidedWell, Calls, n
<1>2. CASE UNCHANGED decisions
  BY <1>1, <1>2 DEF DecisionsInv, IsSequence
<1>3. CASE ClientDecides
  <2>1. PICK shown \in {[context EXCEPT !.truncated = @ \/ TooLong]} :
        \E decision \in {Client!Decide(alert, state.currentStep, shown)} :
          decisions' = Append(decisions,
            [step |-> state.currentStep, action |-> decision.action,
             request |-> decision.request, context |-> shown,
             calls |-> Len(asked), results |-> Len(answered)])
    BY <1>3 DEF ClientDecides
  <2>. DEFINE decision == Client!Decide(alert, state.currentStep, shown)
              made == [step |-> state.currentStep, action |-> decision.action,
                       request |-> decision.request, context |-> shown,
                       calls |-> Len(asked), results |-> Len(answered)]
              d == Len(decisions) + 1
  <2>2. decisions' = Append(decisions, made)
    BY <2>1
  <2>3. /\ IsSequence(decisions') /\ Len(decisions') = Len(decisions) + 1 /\ Len(decisions) \in Nat
        /\ \A e \in 1..Len(decisions) : decisions'[e] = decisions[e]
        /\ decisions'[d] = made
    BY <2>2, Appended DEF DecisionsInv
  <2>4. context # None /\ pc = "deciding" /\ UNCHANGED <<asked, answered>>
    BY <1>3 DEF ClientDecides
  <2>5. Len(answered) = Len(asked)
    BY <2>4, ResultsCount
  <2>6. Shows(asked, shown, Len(asked))
    <3>1. Shows(asked, context, Len(asked))
      BY <2>4 DEF ContextInv
    <3>2. IsContext(shown) /\ shown.calls = context.calls /\ shown.results = context.results
      BY <2>1, <3>1 DEF Shows, IsContext
    <3>. QED
      BY <1>0, <3>1, <3>2, ShowsStill
  <2>7. decision.action = "call_tool" =>
          ~Client!StepLimitReached(Cardinality(Client!CallsOf(shown, state.currentStep)))
    BY CallSeesRoom
  <2>. HIDE DEF decision
  <2>8. ASSUME NEW e \in 1..Len(decisions'), e = d
        PROVE  DecidedWell(e)'
    <3>1. /\ decisions'[e].calls = Len(asked) /\ decisions'[e].results = Len(asked)
          /\ decisions'[e].context = shown /\ decisions'[e].step = state.currentStep
          /\ decisions'[e].action = decision.action
      BY <2>3, <2>5, <2>8
    <3>. QED
      BY <1>0, <2>4, <2>5, <2>6, <2>7, <3>1 DEF DecidedWell, Calls
  <2>9. \A e \in 1..Len(decisions') : e \in 1..Len(decisions) \/ e = d
    BY <2>3
  <2>10. \A e \in 1..Len(decisions') : DecidedWell(e)'
    BY <1>1, <2>3, <2>8, <2>9
  <2>. QED
    BY <2>3, <2>10 DEF DecisionsInv, IsSequence
<1>4. CASE FallBack \/ BuildContext \/ ReduceContext
  BY <1>2, <1>4 DEF FallBack, BuildContext, ReduceContext, scriptVars
<1>5. CASE Dispatch \/ ToolAnswers \/ ToolFails \/ RuntimeActs
  BY <1>2, <1>5, ActsElsewhere
<1>6. CASE UNCHANGED loopVars
  BY <1>2, <1>6 DEF loopVars, scriptVars
<1>. QED
  BY <1>3, <1>4, <1>5, <1>6 DEF LoopNext

-----------------------------------------------------------------------------
(* What the history of queries says                                        *)

\* The outcome of a query is that of the result it names.
TrueQuery(history, results, query, n) ==
  /\ query.call \in 1..n
  /\ query.outcome = Client!QueryOutcome(results[query.call], history[query.call].request.tool)

TellsTruth(history, results, shown, n) ==
  /\ IsSequence(shown.queries)
  /\ \A k \in 1..Len(shown.queries) : TrueQuery(history, results, shown.queries[k], n)

\* A tool answers its call, or it fails.
ToolsAnswer ==
  \A r \in 1..Len(answered) :
    answered[r].answer \in {Client!Answer(asked[r].request), Client!Failed}

QueriesInv ==
  /\ ToolsAnswer
  /\ context # None => TellsTruth(asked, answered, context, Len(asked))
  /\ \A d \in 1..Len(decisions) :
       TellsTruth(asked, answered, decisions[d].context, decisions[d].calls)

\* A new context tells the outcomes of all queries.
LEMMA BuiltTellsTruth ==
  ASSUME HistoryTold, Len(asked) = Len(answered), NEW n
  PROVE  TellsTruth(asked, answered, Client!Built(asked, answered, n), Len(asked))
<1>. DEFINE queries == [c \in DOMAIN asked |-> Client!QueryEntry(asked, answered, c)]
<1>1. /\ Len(asked) \in Nat /\ DOMAIN asked = 1..Len(asked)
      /\ DOMAIN answered = 1..Len(answered)
  BY DEF HistoryTold, IsSequence
<1>2. IsSequence(queries) /\ Len(queries) = Len(asked)
  BY <1>1, FunctionIsSequence
<1>3. ASSUME NEW c \in 1..Len(asked)
      PROVE  TrueQuery(asked, answered, Client!QueryEntry(asked, answered, c), Len(asked))
  <2>. DEFINE answers == {r \in DOMAIN answered : answered[r].call = c}
  <2>1. answers = {c}
    BY <1>1 DEF HistoryTold
  <2>2. answers # {} /\ (CHOOSE r \in answers : TRUE) = c
    BY <2>1
  <2>3. /\ Client!QueryEntry(asked, answered, c).call = c
        /\ Client!QueryEntry(asked, answered, c).outcome =
             Client!QueryOutcome(answered[c], asked[c].request.tool)
    BY <2>2 DEF Client!QueryEntry
  <2>. QED
    BY <2>3 DEF TrueQuery
<1>4. \A c \in 1..Len(asked) : queries[c] = Client!QueryEntry(asked, answered, c)
  BY <1>1
<1>5. Client!Built(asked, answered, n).queries = queries
  BY DEF Client!Built
<1>. HIDE DEF queries
<1>. QED
  BY <1>2, <1>3, <1>4, <1>5 DEF TellsTruth

\* A reduction drops at most the oldest query.
LEMMA ReducedTellsTruth ==
  ASSUME NEW shown, IsContext(shown), NEW n, TellsTruth(asked, answered, shown, n)
  PROVE  TellsTruth(asked, answered, Client!Reduced(shown), n)
<1>. DEFINE reduced == Client!Reduced(shown)
<1>1. CASE reduced.queries = shown.queries
  BY <1>1 DEF TellsTruth
<1>2. CASE shown.queries # <<>> /\ reduced.queries = Tail(shown.queries)
  <2>. DEFINE queries == shown.queries
              rest == Tail(queries)
  <2>1. IsSequence(queries)
    BY DEF TellsTruth
  <2>. HIDE DEF queries
  <2>2. /\ IsSequence(rest) /\ Len(queries) \in Nat \ {0} /\ Len(rest) = Len(queries) - 1
        /\ \A k \in 1..Len(rest) : rest[k] = queries[k + 1]
    BY <1>2, <2>1, OldestDropped DEF queries
  <2>. HIDE DEF rest
  <2>3. \A k \in 1..Len(rest) : k + 1 \in 1..Len(queries)
    BY <2>2
  <2>4. \A k \in 1..Len(rest) : TrueQuery(asked, answered, rest[k], n)
    BY <2>2, <2>3 DEF TellsTruth, queries
  <2>5. reduced.queries = rest
    BY <1>2 DEF rest, queries
  <2>. QED
    BY <2>2, <2>4, <2>5 DEF TellsTruth
<1>3. \/ reduced.queries = shown.queries
      \/ shown.queries # <<>> /\ reduced.queries = Tail(shown.queries)
  BY DEF IsContext, Client!Reduced
<1>. QED
  BY <1>1, <1>2, <1>3

\* What was told of a history is true of a longer one.
LEMMA TruthStays ==
  ASSUME NEW history, NEW results, NEW later, NEW more, NEW shown, NEW n,
         TellsTruth(history, results, shown, n),
         \A c \in 1..n : later[c] = history[c] /\ more[c] = results[c]
  PROVE  TellsTruth(later, more, shown, n)
  BY DEF TellsTruth, TrueQuery

LoopInv == RunInv /\ HistoryTold /\ BuilderInv /\ ContextInv /\ DecisionsInv

LEMMA LoopInvariant == LoopSpec => []LoopInv
<1>1. LoopInit => HistoryTold /\ BuilderInv /\ ContextInv /\ DecisionsInv
  <2>1. IsSequence(<<>>)
    BY DEF IsSequence
  <2>. QED
    BY <2>1
    DEF LoopInit, Init, InitialState, HistoryTold, BuilderInv, ContextInv, DecisionsInv
<1>2. RunInv /\ HistoryTold /\ BuilderInv /\ ContextInv /\ DecisionsInv /\ [LoopNext]_loopVars
        => HistoryTold' /\ BuilderInv' /\ ContextInv' /\ DecisionsInv'
  BY HistoryStays, BuilderStays, ContextStep, DecisionsStep
<1>. QED
  BY RunStays, <1>1, <1>2, PTL DEF LoopSpec, LoopInv

\* The answers are those of the tools, and no decision is told anything else.
LEMMA ToolsAnswerStep ==
  ASSUME RunInv, HistoryTold, ToolsAnswer, [LoopNext]_loopVars
  PROVE  ToolsAnswer'
<1>0. /\ Len(asked) \in Nat /\ Len(asked') \in Nat /\ Len(asked) <= Len(asked')
      /\ \A c \in 1..Len(asked) : asked'[c] = asked[c]
      /\ Len(answered) \in Nat /\ \A r \in 1..Len(answered) : answered'[r] = answered[r]
      /\ Len(answered) <= Len(asked) /\ IsSequence(answered)
  <2>1. LastCall \in Nat /\ \A r \in 1..Len(state.toolResults) : state.toolResults[r].call \in 1..LastCall
    BY DEF RunInv, TypeInv, TypeOK, RuntimeState, LastCall, HandoffInv, ResultsTraceToCalls, CallIndex
  <2>2. Len(answered) \in Nat /\ Len(asked) = LastCall
    BY DEF HistoryTold, IsSequence, LastCall
  <2>3. \A r \in 1..Len(answered) : r \in 1..Len(asked)
    BY <2>1, <2>2 DEF HistoryTold
  <2>4. Len(answered) <= Len(asked)
    BY <2>1, <2>2, <2>3
  <2>. QED
    BY <2>4, HistoryGrows DEF HistoryTold
<1>1. ASSUME NEW r \in 1..Len(answered)
      PROVE  answered'[r].answer \in {Client!Answer(asked'[r].request), Client!Failed}
  <2>1. r \in 1..Len(asked)
    BY <1>0
  <2>2. asked'[r] = asked[r] /\ answered'[r] = answered[r]
    BY <1>0, <2>1
  <2>. QED
    BY <2>2 DEF ToolsAnswer
<1>2. CASE UNCHANGED answered
  BY <1>1, <1>2 DEF ToolsAnswer
<1>3. CASE ToolAnswers \/ ToolFails
  <2>. DEFINE n == Len(answered) + 1
  <2>1. Len(asked) = n /\ UNCHANGED asked
    BY <1>3, ResultsCount DEF ToolAnswers, ToolFails, ExecutorFails
  <2>2. PICK answer \in {Client!Answer(asked[n].request), Client!Failed} : Answers(answer)
    BY <1>3, <2>1 DEF ToolAnswers, ToolFails
  <2>3. Len(answered') = n /\ answered'[n] = [call |-> Len(asked), answer |-> answer]
    BY <1>0, <2>2, Appended DEF Answers
  <2>4. answered'[n].answer \in {Client!Answer(asked'[n].request), Client!Failed}
    BY <2>1, <2>2, <2>3
  <2>5. ASSUME NEW r \in 1..Len(answered')
        PROVE  answered'[r].answer \in {Client!Answer(asked'[r].request), Client!Failed}
    <3>1. r \in 1..Len(answered) \/ r = n
      BY <1>0, <2>3
    <3>. QED
      BY <1>1, <2>4, <3>1
  <2>. QED
    BY <2>5 DEF ToolsAnswer
<1>4. CASE FallBack \/ BuildContext \/ ReduceContext \/ ClientDecides \/ Dispatch \/ RuntimeActs
           \/ UNCHANGED loopVars
  BY <1>2, <1>4 DEF FallBack, BuildContext, ReduceContext, ClientDecides, Dispatch, RuntimeActs,
                    loopVars, scriptVars
<1>. QED
  BY <1>3, <1>4 DEF LoopNext

LEMMA QueriesStep ==
  ASSUME LoopInv, QueriesInv, [LoopNext]_loopVars
  PROVE  QueriesInv'
<1>0. /\ Len(asked) \in Nat /\ Len(asked) <= Len(asked')
      /\ \A c \in 1..Len(asked) : asked'[c] = asked[c]
      /\ Len(answered) \in Nat /\ \A r \in 1..Len(answered) : answered'[r] = answered[r]
  BY HistoryGrows DEF LoopInv
<1>1. ToolsAnswer'
  BY ToolsAnswerStep DEF LoopInv, QueriesInv
<1>2. ASSUME NEW d \in 1..Len(decisions), decisions'[d] = decisions[d]
      PROVE  TellsTruth(asked', answered', decisions'[d].context, decisions'[d].calls)
  <2>. DEFINE n == decisions[d].calls
              shown == decisions[d].context
  <2>1. n \in 0..Len(asked) /\ n <= Len(answered)
    BY DEF LoopInv, DecisionsInv, DecidedWell
  <2>2. \A c \in 1..n : c \in 1..Len(asked) /\ c \in 1..Len(answered)
    BY <1>0, <2>1
  <2>3. \A c \in 1..n : asked'[c] = asked[c] /\ answered'[c] = answered[c]
    BY <1>0, <2>2
  <2>4. TellsTruth(asked, answered, shown, n)
    BY DEF QueriesInv
  <2>. HIDE DEF n, shown
  <2>5. TellsTruth(asked', answered', shown, n)
    BY <2>3, <2>4, TruthStays
  <2>. QED
    BY <1>2, <2>5 DEF n, shown
<1>3. UNCHANGED decisions => \A d \in 1..Len(decisions') :
        TellsTruth(asked', answered', decisions'[d].context, decisions'[d].calls)
  BY <1>2
<1>4. CASE UNCHANGED loopVars
  <2>1. (context # None => TellsTruth(asked, answered, context, Len(asked)))'
    BY <1>4 DEF loopVars, scriptVars, QueriesInv
  <2>. QED
    BY <1>1, <1>3, <1>4, <2>1 DEF loopVars, scriptVars, QueriesInv
<1>5. CASE FallBack
  <2>1. UNCHANGED <<asked, answered, context, decisions>>
    BY <1>5 DEF FallBack, scriptVars
  <2>. QED
    BY <1>1, <1>3, <2>1 DEF QueriesInv
<1>6. CASE BuildContext
  <2>1. Len(asked) = Len(answered)
    BY <1>6, ResultsCount DEF BuildContext, LoopInv
  <2>2. /\ context' = Client!Built(asked, answered, builder.history)
        /\ UNCHANGED <<asked, answered, decisions>>
    BY <1>6 DEF BuildContext
  <2>3. TellsTruth(asked, answered, context', Len(asked))
    BY <2>1, <2>2, BuiltTellsTruth DEF LoopInv
  <2>. QED
    BY <1>1, <1>3, <2>2, <2>3 DEF QueriesInv
<1>7. CASE ReduceContext
  <2>. DEFINE reduced == Client!Reduced(context)
  <2>1. /\ context # None /\ context' = [reduced EXCEPT !.truncated = TRUE]
        /\ UNCHANGED <<asked, answered, decisions>>
    BY <1>7 DEF ReduceContext
  <2>2. TellsTruth(asked, answered, reduced, Len(asked))
    BY <2>1, ReducedTellsTruth DEF LoopInv, ContextInv, QueriesInv, Shows
  <2>. HIDE DEF reduced
  <2>3. context'.queries = reduced.queries
    BY <2>1
  <2>4. TellsTruth(asked, answered, context', Len(asked))
    BY <2>2, <2>3 DEF TellsTruth
  <2>. QED
    BY <1>1, <1>3, <2>1, <2>4 DEF QueriesInv
<1>8. CASE ClientDecides
  <2>1. PICK shown \in {[context EXCEPT !.truncated = @ \/ TooLong]} :
          \E entry : /\ decisions' = Append(decisions, entry)
                     /\ entry.context = shown /\ entry.calls = Len(asked)
    BY <1>8 DEF ClientDecides
  <2>2. PICK entry : /\ decisions' = Append(decisions, entry)
                     /\ entry.context = shown /\ entry.calls = Len(asked)
    BY <2>1
  <2>3. context # None /\ context' = None /\ UNCHANGED <<asked, answered>>
    BY <1>8 DEF ClientDecides
  <2>4. TellsTruth(asked, answered, shown, Len(asked))
    <3>1. "queries" \in DOMAIN context
      BY <2>3 DEF LoopInv, ContextInv, Shows, IsContext
    <3>2. shown.queries = context.queries
      BY <2>1, <3>1
    <3>. QED
      BY <2>3, <3>2 DEF QueriesInv, TellsTruth
  <2>5. /\ Len(decisions') = Len(decisions) + 1 /\ Len(decisions) \in Nat
        /\ \A d \in 1..Len(decisions) : decisions'[d] = decisions[d]
        /\ decisions'[Len(decisions) + 1] = entry
    <3>1. IsSequence(decisions) /\ Len(decisions) \in Nat
      BY DEF LoopInv, DecisionsInv, IsSequence
    <3>. QED
      BY <2>2, <3>1, Appended
  <2>6. ASSUME NEW d \in 1..Len(decisions')
        PROVE  TellsTruth(asked', answered', decisions'[d].context, decisions'[d].calls)
    <3>1. CASE d = Len(decisions) + 1
      BY <2>2, <2>3, <2>4, <2>5, <3>1
    <3>2. CASE d \in 1..Len(decisions)
      BY <1>2, <2>5, <3>2
    <3>. QED
      BY <2>5, <3>1, <3>2
  <2>. QED
    BY <1>1, <2>3, <2>6 DEF QueriesInv
<1>9. CASE Dispatch \/ ToolAnswers \/ ToolFails \/ RuntimeActs
  <2>1. UNCHANGED <<context, decisions>> /\ context = None
    BY <1>9, ActsElsewhere DEF LoopInv, ContextInv
  <2>. QED
    BY <1>1, <1>3, <2>1 DEF QueriesInv
<1>. QED
  BY <1>4, <1>5, <1>6, <1>7, <1>8, <1>9 DEF LoopNext

\* The records of the telemetry and of the reputations: each names an indicator.
Indicative ==
  UNION {Data[list] : list \in {"items", "network_events", "dns_events", "files", "records"}}

LEMMA NamesIndicator ==
  ASSUME NEW r \in Indicative
  PROVE  \E key \in Client!IndicatorKeys(r) : Client!Get(r, key) # Client!Unset
<1>1. PICK list \in {"items", "network_events", "dns_events", "files", "records"} : r \in Data[list]
  BY DEF Indicative
<1>2. /\ r.class = Client!ClassIn[list]
      /\ \A field \in Client!Required(r.class) : Client!Get(r, field) # Client!Unset
  <2>1. list \in DOMAIN Data
    BY CaseAssumption DEF Client!WellFormed, Client!ClassIn
  <2>. QED
    BY <1>1, <2>1, CaseAssumption DEF Client!WellFormed
<1>3. PICK key : key \in Client!IndicatorKeys(r) \cap Client!Required(r.class)
  <2>1. CASE list = "items"
    BY <1>2, <2>1 DEF Client!ClassIn, Client!IndicatorKeys, Client!Required
  <2>2. CASE list = "network_events"
    BY <1>2, <2>2 DEF Client!ClassIn, Client!IndicatorKeys, Client!Required
  <2>3. CASE list = "dns_events"
    BY <1>2, <2>3 DEF Client!ClassIn, Client!IndicatorKeys, Client!Required
  <2>4. CASE list = "files"
    BY <1>2, <2>4 DEF Client!ClassIn, Client!IndicatorKeys, Client!Required
  <2>5. CASE list = "records"
    BY <1>2, <2>5 DEF Client!ClassIn, Client!IndicatorKeys, Client!Required
  <2>. QED
    BY <1>1, <2>1, <2>2, <2>3, <2>4, <2>5
<1>. QED
  BY <1>2, <1>3

\* What matches is of its collection, with a place of its own.
LEMMA HitsRanked ==
  ASSUME NEW list \in DOMAIN Data, NEW S \in SUBSET Data[list]
  PROVE  Ranked(S)
<1>1. Ranked(Data[list])
  BY CaseAssumption DEF Client!WellFormed, Client!IsFiniteSet, Ranked, IsFiniteSet
<1>2. IsFiniteSet(S)
  BY <1>1, FS_Subset DEF Ranked
<1>. QED
  BY <1>1, <1>2 DEF Ranked

\* What was put in order is of what there was.
LEMMA OrderedIsOf ==
  ASSUME NEW S, Ranked(S)
  PROVE  Client!Ordered(S) \in Seq(S)
<1>1. Client!Ordered(S) = InOrder(S)
  BY DEF Client!Ordered, InOrder, Below, Client!Cardinality, Cardinality
<1>. QED
  BY <1>1, AllInOrder

\* The collection that a list of an answer is taken from, and what an answer may hold.
Source(list) == IF list = "reputations" THEN "records" ELSE list
Holdable(request) == UNION {Data[Source(list)] : list \in Client!Lists(request)}

\* Every list of an answer is of the records of its collection.
LEMMA FoundOf ==
  ASSUME NEW request, request.tool \in Client!SupportedTools, NEW list \in Client!Lists(request)
  PROVE  Client!Answered(request, list).found \in Seq(Data[Source(list)])
<1>. DEFINE hits == IF Client!Excluded(request, list) THEN {}
                    ELSE IF list = "reputations"
                         THEN Client!HashReputations(Client!Matching("files", request))
                         ELSE Client!Matching(list, request)
            source == Source(list)
            all == Client!Ordered(hits)
<1>1. list \in DOMAIN Client!ClassIn
  BY DEF Client!Lists, Client!Layout, Client!SupportedTools, Client!Range, Client!ClassIn
<1>2. source \in DOMAIN Data
  BY <1>1, CaseAssumption DEF Client!WellFormed, Client!ClassIn, Source
<1>. DEFINE collection == Data[source]
<1>3. hits \in SUBSET collection
  BY DEF Client!HashReputations, Client!Matching, Source
<1>. HIDE DEF source
<1>. HIDE DEF hits
<1>5. all \in Seq(hits)
  BY <1>2, <1>3, HitsRanked, OrderedIsOf
<1>. HIDE DEF collection
<1>6. all \in Seq(collection)
  BY <1>3, <1>5
<1>7. Client!Answered(request, list).found = all
      \/ Client!Answered(request, list).found = Client!ApplyLimit(all, Limit).found
  BY DEF Client!Answered, hits
<1>. HIDE DEF all
<1>8. Client!ApplyLimit(all, Limit).found \in Seq(collection)
  <2>. DEFINE n == IF Len(all) < Limit THEN Len(all) ELSE Limit
  <2>1. Len(all) \in Nat /\ DOMAIN all = 1..Len(all) /\ Limit \in Nat
    BY <1>6, CaseAssumption DEF Client!WellFormed
  <2>2. n \in Nat /\ n <= Len(all)
    BY <2>1
  <2>3. Client!ApplyLimit(all, Limit).found = SubSeq(all, 1, n)
    BY DEF Client!ApplyLimit
  <2>. HIDE DEF n
  <2>4. SubSeq(all, 1, n) \in Seq(collection)
    BY <1>6, <2>1, <2>2
  <2>. QED
    BY <2>3, <2>4
<1>. QED
  BY <1>6, <1>7, <1>8 DEF source, collection

\* A successful answer holds records of the collections of its tool.
LEMMA AnswerHolds ==
  ASSUME NEW request, NEW answer, answer = Client!Answer(request), answer.success
  PROVE  /\ request.tool \in Client!SupportedTools
         /\ Client!RecordsOf(answer, request.tool) \in Seq(Holdable(request))
<1>. DEFINE lists == Client!Layout[request.tool]
            one == answer.lists[lists[1]]
            two == IF Len(lists) = 2 THEN answer.lists[lists[2]] ELSE <<>>
            records == Client!RecordsOf(answer, request.tool)
<1>1. /\ request.tool \in Client!SupportedTools
      /\ answer.lists = [c \in Client!Lists(request) |-> Client!Answered(request, c).found]
  BY DEF Client!Answer, Client!Failed
<1>2. /\ lists[1] \in Client!Lists(request)
      /\ Len(lists) = 2 => lists[2] \in Client!Lists(request)
  BY <1>1 DEF Client!SupportedTools, Client!Lists, Client!Layout, Client!Range
<1>3. ASSUME NEW list \in Client!Lists(request)
      PROVE  answer.lists[list] \in Seq(Holdable(request))
  <2>1. answer.lists[list] \in Seq(Data[Source(list)])
    BY <1>1, FoundOf
  <2>2. Data[Source(list)] \in SUBSET Holdable(request)
    BY DEF Holdable
  <2>. QED
    BY <2>1, <2>2
<1>4. one \in Seq(Holdable(request)) /\ two \in Seq(Holdable(request))
  BY <1>2, <1>3
<1>5. records = one \o two
  BY DEF Client!RecordsOf
<1>. HIDE DEF one, two, records
<1>6. records \in Seq(Holdable(request))
  BY <1>4, <1>5
<1>. QED
  BY <1>1, <1>6 DEF records

\* A result that brought records names an indicator, unless it is of threat
\* knowledge.
LEMMA RecordsIndicate ==
  ASSUME NEW request, NEW answer, answer = Client!Answer(request), answer.success,
         request.tool # "search_cti",
         Client!IndicatorsOf(Client!RecordsOf(answer, request.tool)) = {}
  PROVE  Client!RecordsOf(answer, request.tool) = <<>>
<1>. DEFINE records == Client!RecordsOf(answer, request.tool)
<1>1. request.tool \in Client!SupportedTools /\ records \in Seq(Holdable(request))
  BY AnswerHolds
<1>2. Holdable(request) \in SUBSET Indicative
  <2>1. \A list \in Client!Lists(request) :
          Source(list) \in {"items", "network_events", "dns_events", "files", "records"}
    BY <1>1 DEF Client!Lists, Client!Layout, Client!SupportedTools, Client!Range, Source
  <2>. QED
    BY <2>1 DEF Holdable, Indicative
<1>. HIDE DEF records
<1>3. ASSUME records # <<>>
      PROVE  FALSE
  <2>1. 1 \in DOMAIN records /\ records[1] \in Indicative
    BY <1>1, <1>2, <1>3
  <2>2. PICK key \in Client!IndicatorKeys(records[1]) :
          Client!Get(records[1], key) # Client!Unset
    BY <2>1, NamesIndicator
  <2>3. records[1] \in Client!Range(records)
    BY <2>1 DEF Client!Range
  <2>4. Client!Get(records[1], key) \in Client!IndicatorsOf(records)
    BY <2>2, <2>3 DEF Client!IndicatorsOf
  <2>. QED
    BY <2>4 DEF records
<1>. QED
  BY <1>3 DEF records

\* The model reads the truth about its earlier queries: a failed one is listed as
\* failed, and one that is listed as empty brought no record, unless it asked for
\* threat knowledge.
THEOREM QueriesTold == LoopSpec => []QueryOutcomesAreTrue
<1>1. LoopInit => QueriesInv
  BY DEF LoopInit, QueriesInv, ToolsAnswer
<1>2. LoopInv /\ QueriesInv => QueryOutcomesAreTrue
  <2>1. SUFFICES ASSUME LoopInv, QueriesInv, NEW d \in DOMAIN decisions,
                        NEW query \in Client!Range(decisions[d].context.queries),
                        NEW n \in DOMAIN answered, answered[n].call = query.call
                 PROVE  LET tool == asked[query.call].request.tool
                            records == Client!RecordsOf(answered[n].answer, tool) IN
                        /\ query.outcome = "failed" <=> ~answered[n].answer.success
                        /\ query.outcome = "records" => records # <<>>
                        /\ query.outcome = "empty" => tool = "search_cti" \/ records = <<>>
    BY DEF QueryOutcomesAreTrue
  <2>. DEFINE request == asked[n].request
              answer == answered[n].answer
              records == Client!RecordsOf(answer, request.tool)
              queries == decisions[d].context.queries
  <2>2. d \in 1..Len(decisions) /\ n \in 1..Len(answered) /\ query.call = n
    <3>1. DOMAIN decisions = 1..Len(decisions) /\ DOMAIN answered = 1..Len(answered)
      BY <2>1 DEF LoopInv, DecisionsInv, HistoryTold, IsSequence
    <3>2. \A r \in 1..Len(answered) : answered[r].call = r
      BY <2>1 DEF LoopInv, HistoryTold
    <3>. QED
      BY <2>1, <3>1, <3>2
  <2>3. query.outcome = Client!QueryOutcome(answered[n], request.tool)
    <3>1. TellsTruth(asked, answered, decisions[d].context, decisions[d].calls)
      BY <2>1, <2>2 DEF QueriesInv
    <3>2. PICK k \in 1..Len(queries) : queries[k] = query
      BY <2>1, <3>1 DEF Client!Range, TellsTruth, IsSequence
    <3>. QED
      BY <2>2, <3>1, <3>2 DEF TellsTruth, TrueQuery
  <2>4. answer \in {Client!Answer(request), Client!Failed}
    BY <2>1, <2>2 DEF QueriesInv, ToolsAnswer
  <2>. HIDE DEF request, answer
  <2>5. query.outcome = "failed" <=> ~answer.success
    BY <2>3 DEF Client!QueryOutcome, answer
  <2>6. query.outcome = "records" => records # <<>>
    <3>1. Client!IndicatorsOf(<<>>) = {}
      BY DEF Client!IndicatorsOf, Client!Range
    <3>. QED
      BY <2>3, <3>1 DEF Client!QueryOutcome, answer
  <2>7. ASSUME query.outcome = "empty", request.tool # "search_cti"
        PROVE  records = <<>>
    <3>1. answer.success /\ Client!IndicatorsOf(records) = {}
      BY <2>3, <2>7 DEF Client!QueryOutcome, answer
    <3>2. answer = Client!Answer(request)
      BY <2>4, <3>1 DEF Client!Failed
    <3>. QED
      BY <2>7, <3>1, <3>2, RecordsIndicate
  <2>. QED
    BY <2>2, <2>5, <2>6, <2>7 DEF request, answer
<1>. QED
  BY <1>1, <1>2, LoopInvariant, QueriesStep, PTL DEF LoopSpec

\* What is shown comes from the end of the history, so that the client finds the
\* records of its step: each result with its call, and no newer result left out.
THEOREM ShownHaveCalls == LoopSpec => []ShownResultsHaveTheirCalls
<1>1. ASSUME LoopInv
      PROVE  ShownResultsHaveTheirCalls
  <2>1. SUFFICES ASSUME NEW d \in DOMAIN decisions
                 PROVE  LET shown == decisions[d].context IN
                        /\ \A view \in Client!Range(shown.results) : view.call \in ShownCalls(d)
                        /\ \A n \in DOMAIN shown.results :
                             shown.results[n].call =
                               answered[decisions[d].results - Len(shown.results) + n].call
    BY DEF ShownResultsHaveTheirCalls
  <2>. DEFINE shown == decisions[d].context
              calls == shown.calls
              results == shown.results
              n == decisions[d].calls
  <2>2. d \in 1..Len(decisions)
    BY <1>1 DEF LoopInv, DecisionsInv, IsSequence
  <2>3. /\ n \in 0..Len(asked) /\ decisions[d].results = n /\ Shows(asked, shown, n)
        /\ Len(asked) \in Nat /\ n <= Len(answered)
    BY <1>1, <2>2 DEF LoopInv, DecisionsInv, DecidedWell, HistoryTold, IsSequence
  <2>. HIDE DEF n, shown
  <2>10. /\ IsSequence(calls) /\ Len(calls) <= n
         /\ \A k \in 1..Len(calls) : calls[k] = Client!CallView(asked, n - Len(calls) + k)
         /\ IsSequence(results) /\ Len(results) <= n
         /\ \A k \in 1..Len(results) : results[k].call = n - Len(results) + k
         /\ results # <<>> => Len(results) <= Len(calls)
    BY <2>3 DEF Shows
  <2>. HIDE DEF calls, results
  <2>4. /\ Len(calls) \in Nat /\ DOMAIN calls = 1..Len(calls) /\ Len(calls) <= n
        /\ \A k \in 1..Len(calls) : calls[k].call = n - Len(calls) + k
    <3>1. Len(calls) \in Nat /\ DOMAIN calls = 1..Len(calls)
      BY <2>10 DEF IsSequence
    <3>2. \A c : Client!CallView(asked, c).call = c
      BY DEF Client!CallView
    <3>. QED
      BY <2>10, <3>1, <3>2
  <2>5. /\ Len(results) \in Nat /\ DOMAIN results = 1..Len(results) /\ Len(results) <= n
        /\ \A k \in 1..Len(results) : results[k].call = n - Len(results) + k
        /\ results # <<>> => Len(results) <= Len(calls)
    BY <2>10 DEF IsSequence
  <2>6. Len(answered) \in Nat /\ \A r \in 1..Len(answered) : answered[r].call = r
    BY <1>1 DEF LoopInv, HistoryTold, IsSequence
  <2>7. ASSUME NEW k \in DOMAIN results
        PROVE  results[k].call \in ShownCalls(d)
    <3>. DEFINE c == n - Len(results) + k
                j == c - (n - Len(calls))
    <3>1. k \in 1..Len(results) /\ results # <<>> /\ results[k].call = c
      BY <2>5, <2>7
    <3>2. j \in 1..Len(calls) /\ n - Len(calls) + j = c
      BY <2>3, <2>4, <2>5, <3>1
    <3>3. calls[j].call = c
      BY <2>4, <3>2
    <3>4. calls[j] \in Client!Range(calls)
      BY <2>4, <3>2 DEF Client!Range
    <3>. QED
      BY <3>1, <3>3, <3>4 DEF ShownCalls, shown, calls
  <2>8. ASSUME NEW k \in DOMAIN results
        PROVE  results[k].call = answered[n - Len(results) + k].call
    <3>1. n - Len(results) + k \in 1..Len(answered)
      BY <2>3, <2>5, <2>6
    <3>. QED
      BY <2>5, <2>6, <3>1
  <2>. QED
    BY <2>3, <2>7, <2>8 DEF Client!Range, shown, results
<1>. QED
  BY LoopInvariant, <1>1, PTL

-----------------------------------------------------------------------------
(* The limit of a step                                                     *)

\* The run is on its way to its end: no decision follows.
Over ==
  \/ pc \in {"stopping", "containing", "returned", "leaked"}
  \/ pc = "finishing" /\ outcome.stopReason # None

MadeCall(d) ==
  decisions[d].calls < Len(asked) /\ asked[decisions[d].calls + 1].step = decisions[d].step

\* A decision for a call leads to a call of its step before the next decision.
ProgressInv ==
  \A d \in 1..Len(decisions) : Calls(d) =>
    /\ \/ MadeCall(d)
       \/ /\ pc = "dispatching" /\ decisions[d].calls = Len(asked)
          /\ decisions[d].step = state.currentStep
       \/ Over
    /\ \A e \in 1..Len(decisions) :
         d < e => MadeCall(d) /\ decisions[d].calls < decisions[e].calls

\* The end of a run cannot be turned back.
LEMMA OverStays ==
  ASSUME Over, [Next]_vars
  PROVE  Over'
<1>1. CASE FinishStep
  BY <1>1 DEF FinishStep, SaveState, Over
<1>2. CASE StopRun \/ ContainError
  BY <1>2 DEF StopRun, ContainError, Terminate, SaveState, Over
<1>3. CASE Finished \/ UNCHANGED vars
  BY <1>3 DEF Finished, vars, Over
<1>4. CASE StartRun \/ PlannerFailsToPlan \/ (\E plan \in Plan : PlannerCreatesPlan(plan))
           \/ StartStep \/ StepBudgetSpent \/ PlanFinished \/ PlannerCompletesStep
           \/ PlannerFailsStep \/ PlannerRaises \/ PlannerCallsTool \/ DispatchCall
           \/ DispatchBlocked \/ ExecutorSucceeds \/ ExecutorRaises
           \/ \E kind \in FailureKind : ExecutorFails(kind)
  BY <1>4
  DEF Over, StartRun, PlannerCreatesPlan, PlannerFailsToPlan, StartStep, StepBudgetSpent, PlanFinished,
      PlannerCompletesStep, PlannerFailsStep, PlannerRaises, PlannerCallsTool, DispatchCall,
      DispatchBlocked, ExecutorSucceeds, ExecutorRaises, ExecutorFails
<1>. QED
  BY <1>1, <1>2, <1>3, <1>4 DEF Next

\* From the dispatch a call is made, or the run is over.
LEMMA DispatchLeads ==
  ASSUME HistoryTold, pc = "dispatching", [LoopNext]_loopVars
  PROVE  \/ pc' = "dispatching" /\ UNCHANGED <<asked, state>>
         \/ /\ Len(asked') = Len(asked) + 1
            /\ asked'[Len(asked) + 1].step = state.currentStep
         \/ Over'
<1>1. CASE Dispatch
  <2>1. PICK request : asked' = Append(asked, [step |-> state.currentStep, request |-> request])
    BY <1>1 DEF Dispatch
  <2>2. IsSequence(asked)
    BY DEF HistoryTold
  <2>. QED
    BY <2>1, <2>2, Appended
<1>2. CASE RuntimeActs
  <2>1. DispatchBlocked
    BY <1>2
    DEF RuntimeActs, StartRun, PlannerCreatesPlan, StartStep, StepBudgetSpent, PlanFinished, FinishStep,
        StopRun, ExecutorRaises, ContainError, Finished
  <2>. QED
    BY <2>1 DEF DispatchBlocked, StepEndsWith, FailedWith, Over
<1>3. CASE FallBack \/ BuildContext \/ ReduceContext \/ ClientDecides \/ ToolAnswers \/ ToolFails
  BY <1>3 DEF FallBack, BuildContext, ReduceContext, ClientDecides, ToolAnswers, ToolFails, ExecutorFails
<1>4. CASE UNCHANGED loopVars
  BY <1>4 DEF loopVars, vars, scriptVars
<1>. QED
  BY <1>1, <1>2, <1>3, <1>4 DEF LoopNext

LEMMA ProgressStep ==
  ASSUME LoopInv, ProgressInv, [LoopNext]_loopVars
  PROVE  ProgressInv'
<1>0. /\ Len(asked) \in Nat /\ Len(asked') \in Nat /\ Len(asked) <= Len(asked')
      /\ \A c \in 1..Len(asked) : asked'[c] = asked[c]
      /\ Len(decisions) \in Nat /\ HistoryTold /\ [Next]_vars
  BY HistoryGrows, LoopSteps DEF LoopInv, DecisionsInv, IsSequence
<1>1. ASSUME NEW d \in 1..Len(decisions), decisions'[d] = decisions[d], MadeCall(d)
      PROVE  MadeCall(d)'
  <2>1. decisions[d].calls \in Nat /\ decisions[d].calls + 1 \in 1..Len(asked)
    BY <1>0, <1>1 DEF LoopInv, DecisionsInv, DecidedWell, MadeCall
  <2>2. asked'[decisions[d].calls + 1] = asked[decisions[d].calls + 1]
    BY <1>0, <2>1
  <2>3. decisions[d].calls < Len(asked')
    BY <1>0, <2>1
  <2>. QED
    BY <1>1, <2>2, <2>3 DEF MadeCall
<1>2. CASE UNCHANGED decisions
  <2>1. SUFFICES ASSUME NEW d \in 1..Len(decisions), Calls(d)
                 PROVE  /\ \/ MadeCall(d)'
                           \/ /\ pc' = "dispatching" /\ decisions[d].calls = Len(asked')
                              /\ decisions[d].step = state'.currentStep
                           \/ Over'
                        /\ \A e \in 1..Len(decisions) :
                             d < e => MadeCall(d)' /\ decisions[d].calls < decisions[e].calls
    BY <1>2 DEF ProgressInv, Calls
  <2>2. \A e \in 1..Len(decisions) :
          d < e => MadeCall(d)' /\ decisions[d].calls < decisions[e].calls
    BY <1>1, <1>2, <2>1 DEF ProgressInv
  <2>3. CASE MadeCall(d)
    BY <1>1, <1>2, <2>2, <2>3
  <2>4. CASE Over
    BY <1>0, <2>2, <2>4, OverStays
  <2>5. CASE /\ pc = "dispatching" /\ decisions[d].calls = Len(asked)
             /\ decisions[d].step = state.currentStep
    BY <1>0, <1>2, <2>2, <2>5, DispatchLeads DEF MadeCall
  <2>. QED
    BY <2>1, <2>3, <2>4, <2>5 DEF ProgressInv
<1>3. CASE ClientDecides
  <2>1. PICK shown \in {[context EXCEPT !.truncated = @ \/ TooLong]} :
        \E decision \in {Client!Decide(alert, state.currentStep, shown)} :
          /\ IF decision.action = "call_tool" THEN PlannerCallsTool ELSE PlannerCompletesStep
          /\ decisions' = Append(decisions,
               [step |-> state.currentStep, action |-> decision.action,
                request |-> decision.request, context |-> shown,
                calls |-> Len(asked), results |-> Len(answered)])
    BY <1>3 DEF ClientDecides
  <2>. DEFINE decision == Client!Decide(alert, state.currentStep, shown)
              made == [step |-> state.currentStep, action |-> decision.action,
                       request |-> decision.request, context |-> shown,
                       calls |-> Len(asked), results |-> Len(answered)]
              n == Len(decisions)
  <2>2. decisions' = Append(decisions, made)
    BY <2>1
  <2>3. /\ Len(decisions') = n + 1
        /\ \A e \in 1..n : decisions'[e] = decisions[e]
        /\ decisions'[n + 1] = made
    BY <2>2, Appended DEF LoopInv, DecisionsInv
  <2>4. pc = "deciding" /\ UNCHANGED asked
    BY <1>3 DEF ClientDecides
  <2>5. decision.action = "call_tool" => pc' = "dispatching" /\ UNCHANGED state
    BY <2>1 DEF PlannerCallsTool
  <2>. HIDE DEF decision
  <2>6. ASSUME NEW d \in 1..n, Calls(d)
        PROVE  MadeCall(d)
    BY <2>4, <2>6 DEF ProgressInv, Over
  <2>7. ASSUME NEW d \in 1..n, Calls(d)'
        PROVE  /\ MadeCall(d)'
               /\ \A e \in 1..Len(decisions') :
                    d < e => MadeCall(d)' /\ decisions'[d].calls < decisions'[e].calls
    <3>1. Calls(d) /\ decisions'[d] = decisions[d]
      BY <2>3, <2>7 DEF Calls
    <3>2. MadeCall(d) /\ MadeCall(d)'
      BY <1>1, <2>6, <3>1
    <3>3. ASSUME NEW e \in 1..n, d < e
          PROVE  decisions'[d].calls < decisions'[e].calls
      BY <2>3, <3>1, <3>3 DEF ProgressInv
    <3>4. decisions'[d].calls < decisions'[n + 1].calls
      BY <2>3, <3>1, <3>2 DEF MadeCall
    <3>. QED
      BY <1>0, <2>3, <3>2, <3>3, <3>4
  <2>8. ASSUME NEW d \in 1..Len(decisions'), d = n + 1, Calls(d)'
        PROVE  /\ pc' = "dispatching" /\ decisions'[d].calls = Len(asked')
               /\ decisions'[d].step = state'.currentStep
    BY <2>3, <2>4, <2>5, <2>8 DEF Calls
  <2>9. ASSUME NEW d \in 1..Len(decisions'), Calls(d)'
        PROVE  /\ \/ MadeCall(d)'
                  \/ /\ pc' = "dispatching" /\ decisions'[d].calls = Len(asked')
                     /\ decisions'[d].step = state'.currentStep
                  \/ Over'
               /\ \A e \in 1..Len(decisions') :
                    d < e => MadeCall(d)' /\ decisions'[d].calls < decisions'[e].calls
    <3>1. CASE d \in 1..n
      BY <2>7, <2>9, <3>1
    <3>2. CASE d = n + 1
      BY <1>0, <2>3, <2>8, <2>9, <3>2
    <3>. QED
      BY <1>0, <2>3, <3>1, <3>2
  <2>. QED
    BY <2>9 DEF ProgressInv
<1>4. CASE FallBack \/ BuildContext \/ ReduceContext
  BY <1>2, <1>4 DEF FallBack, BuildContext, ReduceContext, scriptVars
<1>5. CASE Dispatch \/ ToolAnswers \/ ToolFails \/ RuntimeActs
  BY <1>2, <1>5, ActsElsewhere
<1>6. CASE UNCHANGED loopVars
  BY <1>2, <1>6 DEF loopVars, scriptVars
<1>. QED
  BY <1>3, <1>4, <1>5, <1>6 DEF LoopNext

\* Of more than two numbers, two are less than a third.
LEMMA ThreeInOrder ==
  ASSUME NEW S \in SUBSET Nat, IsFiniteSet(S), Cardinality(S) > 2
  PROVE  \E a, b, c \in S : a # b /\ a < c /\ b < c
<1>1. Cardinality(S) \in Nat /\ S # {}
  BY FS_CardinalityType, FS_EmptySet
<1>2. PICK x \in S : TRUE
  BY <1>1
<1>. DEFINE T == S \ {x}
<1>3. IsFiniteSet(T) /\ Cardinality(T) = Cardinality(S) - 1
  BY <1>2, FS_RemoveElement
<1>4. T # {}
  BY <1>1, <1>3, FS_EmptySet
<1>5. PICK y \in T : TRUE
  BY <1>4
<1>. HIDE DEF T
<1>6. IsFiniteSet(T \ {y}) /\ Cardinality(T \ {y}) = Cardinality(T) - 1
  BY <1>3, <1>5, FS_RemoveElement
<1>7. T \ {y} # {}
  BY <1>1, <1>3, <1>6, FS_EmptySet
<1>8. PICK z \in T \ {y} : TRUE
  BY <1>7
<1>9. x \in Nat /\ y \in Nat /\ z \in Nat /\ x # y /\ x # z /\ y # z /\ y \in S /\ z \in S
  BY <1>2, <1>5, <1>8 DEF T
<1>10. \/ x < z /\ y < z
       \/ x < y /\ z < y
       \/ y < x /\ z < x
  BY <1>9
<1>. QED
  BY <1>9, <1>10

\* What the runtime has recorded of the script's decisions holds throughout.
LEMMA ProgressStays == LoopSpec => []ProgressInv
<1>1. LoopInit => ProgressInv
  BY DEF LoopInit, ProgressInv
<1>. QED
  BY LoopInvariant, ProgressStep, <1>1, PTL DEF LoopSpec

\* A step decides on more than two calls only where its context had lost some.
THEOREM StepLimit == LoopSpec => []StepLimitHolds
<1>1. ASSUME LoopInv, ProgressInv
      PROVE  StepLimitHolds
  <2>1. SUFFICES ASSUME NEW step \in StepId,
                        Cardinality(CallDecisions(step)) > Client!MAX_CALLS_PER_STEP,
                        \A d \in CallDecisions(step) : ShowsStep(d)
                 PROVE  FALSE
    BY DEF StepLimitHolds
  <2>2. /\ DOMAIN decisions = 1..Len(decisions) /\ Len(decisions) \in Nat
        /\ Len(asked) \in Nat
    BY <1>1 DEF LoopInv, DecisionsInv, HistoryTold, IsSequence
  <2>3. CallDecisions(step) \in SUBSET (1..Len(decisions))
    BY <2>2 DEF CallDecisions
  <2>4. IsFiniteSet(CallDecisions(step)) /\ CallDecisions(step) \in SUBSET Nat
    <3>1. IsFiniteSet(1..Len(decisions))
      BY <2>2, FS_Interval
    <3>. QED
      BY <2>2, <2>3, <3>1, FS_Subset
  <2>5. PICK a, b, c \in CallDecisions(step) : a # b /\ a < c /\ b < c
    BY <2>1, <2>4, ThreeInOrder DEF Client!MAX_CALLS_PER_STEP
  <2>6. ASSUME NEW d \in CallDecisions(step)
        PROVE  /\ d \in 1..Len(decisions) /\ Calls(d) /\ decisions[d].step = step
               /\ decisions[d].calls \in 0..Len(asked)
    BY <1>1, <2>2, <2>6 DEF CallDecisions, LoopInv, DecisionsInv, DecidedWell
  <2>. DEFINE n == decisions[c].calls
              x == decisions[a].calls + 1
              y == decisions[b].calls + 1
              shown == decisions[c].context
              seen == Client!CallsOf(shown, step)
  <2>7. n \in Nat /\ x \in 1..n /\ y \in 1..n /\ asked[x].step = step /\ asked[y].step = step
    <3>1. MadeCall(a) /\ decisions[a].calls < n
      BY <1>1, <2>5, <2>6 DEF ProgressInv
    <3>2. MadeCall(b) /\ decisions[b].calls < n
      BY <1>1, <2>5, <2>6 DEF ProgressInv
    <3>3. decisions[a].calls \in Nat /\ decisions[b].calls \in Nat /\ n \in Nat
      BY <2>2, <2>6
    <3>4. asked[x].step = step /\ asked[y].step = step
      BY <2>6, <3>1, <3>2 DEF MadeCall
    <3>. QED
      BY <3>1, <3>2, <3>3, <3>4
  <2>8. x # y
    BY <1>1, <2>2, <2>5, <2>6 DEF ProgressInv
  <2>9. Shows(asked, shown, n)
    BY <1>1, <2>6 DEF LoopInv, DecisionsInv, DecidedWell
  <2>16. /\ IsSequence(shown.calls) /\ Len(shown.calls) <= n
         /\ \A j \in 1..Len(shown.calls) :
              shown.calls[j] = Client!CallView(asked, n - Len(shown.calls) + j)
    BY <2>9 DEF Shows
  <2>17. Len(shown.calls) \in Nat /\ DOMAIN shown.calls = 1..Len(shown.calls)
    <3>. DEFINE calls == shown.calls
    <3>. HIDE DEF calls
    <3>1. IsSequence(calls)
      BY <2>16 DEF calls
    <3>2. Len(calls) \in Nat /\ DOMAIN calls = 1..Len(calls)
      BY <3>1 DEF IsSequence
    <3>. QED
      BY <3>2 DEF calls
  <2>10. ASSUME NEW k \in 1..n, asked[k].step = step
         PROVE  k \in seen
    <3>1. k \in ShownCalls(c)
      BY <2>1, <2>6, <2>10 DEF ShowsStep, StepCallsAt
    <3>2. PICK view \in Client!Range(shown.calls) : view.call = k
      BY <3>1 DEF ShownCalls
    <3>3. PICK j \in DOMAIN shown.calls : shown.calls[j] = view
      BY <3>2 DEF Client!Range
    <3>4. view = Client!CallView(asked, n - Len(shown.calls) + j)
      BY <2>16, <2>17, <3>3
    <3>5. view.step = step
      BY <2>10, <3>2, <3>4 DEF Client!CallView
    <3>. QED
      BY <3>2, <3>5 DEF Client!CallsOf
  <2>11. seen \in SUBSET (1..n)
    <3>1. SUFFICES ASSUME NEW view \in Client!Range(shown.calls) PROVE view.call \in 1..n
      BY DEF Client!CallsOf
    <3>2. PICK j \in DOMAIN shown.calls : shown.calls[j] = view
      BY DEF Client!Range
    <3>3. /\ Len(shown.calls) \in Nat /\ Len(shown.calls) <= n /\ j \in 1..Len(shown.calls)
          /\ view = Client!CallView(asked, n - Len(shown.calls) + j)
      BY <2>16, <2>17, <3>2
    <3>4. view.call = n - Len(shown.calls) + j
      BY <3>3 DEF Client!CallView
    <3>5. n \in Nat
      BY <2>7
    <3>. DEFINE length == Len(shown.calls)
    <3>6. length \in Nat /\ length <= n /\ j \in 1..length /\ view.call = n - length + j
      BY <3>3, <3>4
    <3>. HIDE DEF n, length
    <3>7. n - length + j \in 1..n
      BY <3>5, <3>6
    <3>. QED
      BY <3>6, <3>7
  <2>. HIDE DEF n, x, y, seen
  <2>12. IsFiniteSet(seen) /\ {x, y} \in SUBSET seen
    <3>1. IsFiniteSet(1..n)
      BY <2>7, FS_Interval
    <3>. QED
      BY <2>7, <2>10, <2>11, <3>1, FS_Subset
  <2>13. Cardinality({x, y}) = 2
    <3>1. IsFiniteSet({x}) /\ Cardinality({x}) = 1
      BY FS_Singleton
    <3>2. {x, y} = {x} \cup {y} /\ y \notin {x}
      BY <2>8
    <3>. QED
      BY <3>1, <3>2, FS_AddElement
  <2>14. Cardinality(seen) >= 2 /\ Cardinality(seen) \in Nat
    BY <2>12, <2>13, FS_Subset, FS_CardinalityType
  <2>15. ~Client!StepLimitReached(Cardinality(seen))
    BY <1>1, <2>6 DEF LoopInv, DecisionsInv, DecidedWell, seen
  <2>. QED
    BY <2>14, <2>15 DEF Client!StepLimitReached, Client!MAX_CALLS_PER_STEP
<1>. QED
  BY LoopInvariant, ProgressStays, <1>1, PTL

-----------------------------------------------------------------------------
(* The steps and their calls                                               *)

\* A run follows the skeleton, or has no plan yet; the rest is inherited.
PlanInv ==
  /\ TypeInv /\ StepsInv /\ HandoffInv /\ CallsInv
  /\ state.plan \in {<<>>, Skeleton}

LEMMA PlanStays == LoopSpec => []PlanInv
<1>1. LoopInit => PlanInv
  BY InitTypeInv, InitCalls DEF LoopInit, Init, InitialState, PlanInv
<1>2. ASSUME PlanInv, CountersMatchHistory, [LoopNext]_loopVars
      PROVE  PlanInv'
  <2>1. [Next]_vars /\ TypeInv' /\ StepsInv' /\ HandoffInv' /\ CallsInv'
    BY <1>2, LoopSteps, TypeInvStep, StepsStep, HandoffStep, CallsStep DEF PlanInv
  <2>2. CASE pc # "planning"
    BY <1>2, <2>1, <2>2, PlanSetOnce DEF PlanInv
  <2>3. CASE pc = "planning"
    <3>1. UNCHANGED vars \/ PlannerCreatesPlan(Skeleton)
      BY <1>2, <2>3
      DEF LoopNext, FallBack, PlannerCompletesStep, BuildContext, ReduceContext, ClientDecides, Dispatch, DispatchCall,
          ToolAnswers, ExecutorSucceeds, ToolFails, ExecutorFails, RuntimeActs, StartRun, StartStep,
          StepBudgetSpent, PlanFinished, FinishStep, StopRun, DispatchBlocked, ExecutorRaises,
          ContainError, Finished, loopVars
    <3>2. state \in RuntimeState
      BY <1>2 DEF PlanInv, TypeInv, TypeOK
    <3>3. state'.plan \in {state.plan, Skeleton}
      BY <3>1, <3>2 DEF PlannerCreatesPlan, vars, RuntimeState
    <3>. QED
      BY <1>2, <2>1, <3>3 DEF PlanInv
  <2>. QED
    BY <2>2, <2>3
<1>. QED
  BY <1>1, <1>2, ScriptedRunsAreRuns, CountersCorrect, PTL DEF LoopSpec

\* The id of the current step is its position, and no step follows the fifth.
LEMMA StepIsPosition ==
  ASSUME PlanInv
  PROVE  /\ stepsStarted \in 0..5
         /\ InStep => state.currentStep = stepsStarted /\ stepsStarted \in 1..5
<1>1. stepsStarted \in Nat /\ stepsStarted <= Len(state.plan) /\ state.plan \in {<<>>, Skeleton}
  BY DEF PlanInv, TypeInv, TypeOK, Control
<1>2. Len(<<>>) = 0 /\ Len(Skeleton) = 5 /\ \A n \in 1..5 : Skeleton[n] = n
  BY DEF Skeleton
<1>3. stepsStarted \in 0..5 /\ (stepsStarted >= 1 => state.plan = Skeleton)
  <2>1. CASE state.plan = <<>>
    BY <1>1, <1>2, <2>1
  <2>2. CASE state.plan = Skeleton
    <3>1. Len(state.plan) = 5
      BY <1>2, <2>2
    <3>. QED
      BY <1>1, <2>2, <3>1
  <2>. QED
    BY <1>1, <2>1, <2>2
<1>4. InStep => stepsStarted >= 1 /\ state.plan[stepsStarted] = state.currentStep
  BY DEF PlanInv, TypeInv, Control, CallsInv
<1>. QED
  BY <1>2, <1>3, <1>4

-----------------------------------------------------------------------------
(* What decisions lead to                                                  *)

AllSucceeded == \A r \in 1..Len(answered) : answered[r].answer.success

\* A decision is what the client makes of the context that it was given.
ClientMade(d) ==
  LET made == Client!Decide(alert, decisions[d].step, decisions[d].context) IN
  decisions[d].action = made.action /\ decisions[d].request = made.request

\* After a decision of a step no call of an earlier step is made.
StepsGoOn(d) ==
  /\ decisions[d].step \in 1..stepsStarted
  /\ \A c \in (decisions[d].calls + 1)..Len(asked) : asked[c].step >= decisions[d].step

\* A call was decided on when there were as many calls as it has before it.
CarriesOut(c) ==
  \E d \in 1..Len(decisions) :
    /\ Calls(d) /\ decisions[d].calls = c - 1
    /\ decisions[d].step = asked[c].step /\ decisions[d].request = asked[c].request

CallPending ==
  \E d \in 1..Len(decisions) :
    /\ Calls(d) /\ decisions[d].calls = Len(asked)
    /\ decisions[d].step = state.currentStep /\ decisions[d].request = decided

\* A retry carries out no decision of its own, but it follows a failure.
CarryInv ==
  /\ \A d \in 1..Len(decisions) : ClientMade(d) /\ StepsGoOn(d)
  /\ AllSucceeded => \A c \in 1..Len(asked) : CarriesOut(c)
  /\ AllSucceeded /\ pc = "dispatching" => CallPending

\* Apart from the dispatch and the client, nobody adds a call or a decision, or asks
\* for a call, unless one has failed.
LEMMA OthersKeep ==
  ASSUME HistoryTold, [LoopNext]_loopVars, ~Dispatch, ~ClientDecides
  PROVE  /\ UNCHANGED <<alert, asked, decided, decisions>>
         /\ pc' = "dispatching" /\ AllSucceeded' => pc = "dispatching" /\ UNCHANGED state
<1>1. CASE FallBack \/ BuildContext \/ ReduceContext
  BY <1>1
  DEF FallBack, PlannerCompletesStep, StepEndsWith, BuildContext, ReduceContext, scriptVars, vars
<1>2. CASE UNCHANGED loopVars
  BY <1>2 DEF loopVars, scriptVars, vars
<1>3. CASE RuntimeActs
  <2>1. pc' # "dispatching" \/ UNCHANGED vars
    BY <1>3
    DEF RuntimeActs, StartRun, PlannerCreatesPlan, StartStep, StepBudgetSpent, PlanFinished, FinishStep,
        StopRun, DispatchBlocked, StepEndsWith, ExecutorRaises, ContainError, Terminate, SaveState, Finished
  <2>. QED
    BY <1>3, <2>1 DEF RuntimeActs, scriptVars, vars
<1>4. CASE ToolAnswers \/ ToolFails
  <2>1. UNCHANGED <<alert, asked, decided, decisions>>
    BY <1>4 DEF ToolAnswers, ToolFails
  <2>2. PICK answer : /\ answered' = Append(answered, [call |-> Len(asked), answer |-> answer])
                      /\ answer.success => ExecutorSucceeds
    <3>1. CASE ToolFails
      <4>1. answered' = Append(answered, [call |-> Len(asked), answer |-> Client!Failed])
        BY <3>1 DEF ToolFails, Answers
      <4>2. ~Client!Failed.success
        BY DEF Client!Failed
      <4>. QED
        BY <4>1, <4>2
    <3>2. CASE ToolAnswers
      BY <3>2 DEF ToolAnswers, Answers
    <3>. QED
      BY <1>4, <3>1, <3>2
  <2>3. /\ Len(answered) + 1 \in 1..Len(answered')
        /\ answered'[Len(answered) + 1].answer = answer
    <3>1. IsSequence(answered)
      BY DEF HistoryTold
    <3>. QED
      BY <2>2, <3>1, Appended
  <2>4. AllSucceeded' => ExecutorSucceeds
    BY <2>2, <2>3 DEF AllSucceeded
  <2>5. ExecutorSucceeds => pc' # "dispatching"
    BY DEF ExecutorSucceeds, SaveState
  <2>. QED
    BY <2>1, <2>4, <2>5
<1>. QED
  BY <1>1, <1>2, <1>3, <1>4 DEF LoopNext

\* What was decided still leads where it led, while calls are added.
LEMMA CarryStep ==
  ASSUME LoopInv, PlanInv, CarryInv, [LoopNext]_loopVars
  PROVE  CarryInv'
<1>0. /\ Len(asked) \in Nat /\ Len(asked') \in Nat /\ Len(asked) <= Len(asked')
      /\ \A c \in 1..Len(asked) : asked'[c] = asked[c]
      /\ AllSucceeded' => AllSucceeded
  <2>1. /\ HistoryTold /\ Len(answered) \in Nat /\ Len(answered') \in Nat
        /\ Len(answered) <= Len(answered') /\ \A r \in 1..Len(answered) : answered'[r] = answered[r]
    BY HistoryGrows DEF LoopInv
  <2>2. AllSucceeded' => AllSucceeded
    BY <2>1 DEF AllSucceeded
  <2>. QED
    BY <2>2, HistoryGrows DEF LoopInv
<1>1. /\ stepsStarted \in 0..5 /\ stepsStarted' \in Nat /\ stepsStarted <= stepsStarted'
      /\ InStep => state.currentStep = stepsStarted
  <2>1. TypeInv /\ TypeInv' /\ [Next]_vars
    BY TypeInvStep, LoopSteps DEF LoopInv, RunInv
  <2>2. stepsStarted \in Nat /\ stepsStarted' \in Nat
    BY <2>1 DEF TypeInv, TypeOK
  <2>. QED
    BY <2>1, <2>2, LocalsStep, StepIsPosition
<1>2. /\ IsSequence(asked) /\ IsSequence(decisions) /\ Len(decisions) \in Nat
      /\ HistoryTold /\ RunInv
  BY DEF LoopInv, HistoryTold, DecisionsInv, IsSequence
<1>3. ASSUME NEW d \in 1..Len(decisions), decisions'[d] = decisions[d], alert' = alert,
             asked' = asked
      PROVE  (ClientMade(d) /\ StepsGoOn(d))'
  <2>1. ClientMade(d) /\ StepsGoOn(d)
    BY DEF CarryInv
  <2>2. decisions[d].step \in 1..stepsStarted'
    BY <1>1, <2>1 DEF StepsGoOn
  <2>. QED
    BY <1>3, <2>1, <2>2 DEF ClientMade, StepsGoOn
<1>4. CASE ~Dispatch /\ ~ClientDecides
  <2>1. /\ UNCHANGED <<alert, asked, decided, decisions>>
        /\ pc' = "dispatching" /\ AllSucceeded' => pc = "dispatching" /\ UNCHANGED state
    BY <1>2, <1>4, OthersKeep
  <2>2. \A d \in 1..Len(decisions') : (ClientMade(d) /\ StepsGoOn(d))'
    BY <1>3, <2>1
  <2>3. AllSucceeded' => \A c \in 1..Len(asked') : CarriesOut(c)'
    BY <1>0, <2>1 DEF CarryInv, CarriesOut, Calls
  <2>4. AllSucceeded' /\ pc' = "dispatching" => CallPending'
    BY <1>0, <2>1 DEF CarryInv, CallPending, Calls
  <2>. QED
    BY <2>2, <2>3, <2>4 DEF CarryInv
<1>5. CASE Dispatch
  <2>. DEFINE n == Len(asked) + 1
              call == [step |-> state.currentStep, request |-> decided]
  <2>1. /\ asked' = Append(asked, call) /\ pc = "dispatching" /\ pc' = "executing"
        /\ UNCHANGED <<alert, decisions>>
    BY <1>5, ActsElsewhere DEF Dispatch, DispatchCall
  <2>2. /\ Len(asked') = n /\ asked'[n] = call /\ \A c \in 1..Len(asked) : asked'[c] = asked[c]
    BY <1>2, <2>1, Appended
  <2>3. state.currentStep = stepsStarted
    BY <1>1, <2>1 DEF InStep
  <2>4. ASSUME NEW d \in 1..Len(decisions)
        PROVE  (ClientMade(d) /\ StepsGoOn(d))'
    <3>1. ClientMade(d) /\ StepsGoOn(d) /\ decisions[d].calls \in Nat
      BY DEF CarryInv, LoopInv, DecisionsInv, DecidedWell
    <3>2. decisions[d].step \in 1..stepsStarted /\ decisions[d].step \in 1..stepsStarted'
      BY <1>1, <3>1 DEF StepsGoOn
    <3>3. ASSUME NEW c \in (decisions[d].calls + 1)..Len(asked')
          PROVE  asked'[c].step >= decisions[d].step
      <4>1. CASE c = n
        BY <1>1, <2>2, <2>3, <3>2, <4>1
      <4>2. CASE c # n
        <5>1. c \in (decisions[d].calls + 1)..Len(asked) /\ c \in 1..Len(asked)
          BY <1>0, <2>2, <3>1, <4>2
        <5>2. asked[c].step >= decisions[d].step
          BY <3>1, <5>1 DEF StepsGoOn
        <5>. QED
          BY <2>2, <5>1, <5>2
      <4>. QED
        BY <4>1, <4>2
    <3>. QED
      BY <2>1, <3>1, <3>2, <3>3 DEF ClientMade, StepsGoOn
  <2>5. ASSUME AllSucceeded', NEW c \in 1..Len(asked')
        PROVE  CarriesOut(c)'
    <3>1. CASE c = n
      <4>1. CallPending
        BY <1>0, <2>1, <2>5 DEF CarryInv
      <4>2. c - 1 = Len(asked) /\ asked'[c].step = state.currentStep /\ asked'[c].request = decided
        BY <1>0, <2>2, <3>1
      <4>. QED
        BY <2>1, <4>1, <4>2 DEF CallPending, CarriesOut, Calls
    <3>2. CASE c # n
      <4>1. c \in 1..Len(asked)
        BY <1>0, <2>2, <3>2
      <4>2. CarriesOut(c) /\ asked'[c] = asked[c]
        BY <1>0, <2>2, <2>5, <4>1 DEF CarryInv
      <4>. QED
        BY <2>1, <4>2 DEF CarriesOut, Calls
    <3>. QED
      BY <3>1, <3>2
  <2>. QED
    BY <2>1, <2>4, <2>5 DEF CarryInv
<1>6. CASE ClientDecides
  <2>1. PICK shown \in {[context EXCEPT !.truncated = @ \/ TooLong]} :
        \E decision \in {Client!Decide(alert, state.currentStep, shown)} :
          /\ IF decision.action = "call_tool" THEN PlannerCallsTool ELSE PlannerCompletesStep
          /\ decided' = decision.request
          /\ decisions' = Append(decisions,
               [step |-> state.currentStep, action |-> decision.action,
                request |-> decision.request, context |-> shown,
                calls |-> Len(asked), results |-> Len(answered)])
    BY <1>6 DEF ClientDecides
  <2>. DEFINE decision == Client!Decide(alert, state.currentStep, shown)
              made == [step |-> state.currentStep, action |-> decision.action,
                       request |-> decision.request, context |-> shown,
                       calls |-> Len(asked), results |-> Len(answered)]
              n == Len(decisions) + 1
  <2>2. /\ IF decision.action = "call_tool" THEN PlannerCallsTool ELSE PlannerCompletesStep
        /\ decided' = decision.request /\ decisions' = Append(decisions, made)
    BY <2>1
  <2>3. /\ pc = "deciding" /\ UNCHANGED <<alert, asked, answered>>
    BY <1>6 DEF ClientDecides
  <2>4. /\ UNCHANGED <<state, stepsStarted>>
        /\ pc' = "dispatching" => decision.action = "call_tool"
    BY <2>2 DEF PlannerCallsTool, PlannerCompletesStep, StepEndsWith
  <2>5. /\ Len(decisions') = n /\ decisions'[n] = made
        /\ \A d \in 1..Len(decisions) : decisions'[d] = decisions[d]
    BY <1>2, <2>2, Appended
  <2>6. /\ decisions'[n].step = state.currentStep /\ decisions'[n].action = decision.action
        /\ decisions'[n].request = decision.request /\ decisions'[n].context = shown
        /\ decisions'[n].calls = Len(asked)
    BY <2>5
  <2>7. state.currentStep \in 1..stepsStarted
    BY <2>3, StepIsPosition DEF InStep
  <2>8. ASSUME NEW d, d = n
        PROVE  (ClientMade(d) /\ StepsGoOn(d))'
    <3>1. ClientMade(d)'
      BY <2>3, <2>6, <2>8 DEF ClientMade
    <3>2. (Len(asked) + 1)..Len(asked) = {}
      BY <1>0
    <3>. QED
      BY <2>3, <2>4, <2>6, <2>7, <2>8, <3>1, <3>2 DEF StepsGoOn
  <2>. HIDE DEF decision, made
  <2>9. ASSUME NEW d \in 1..Len(decisions')
        PROVE  (ClientMade(d) /\ StepsGoOn(d))'
    <3>1. d \in 1..Len(decisions) \/ d = n
      BY <1>2, <2>5
    <3>. QED
      BY <1>3, <2>3, <2>5, <2>8, <3>1
  <2>10. ASSUME AllSucceeded', NEW c \in 1..Len(asked')
         PROVE  CarriesOut(c)'
    <3>1. CarriesOut(c)
      BY <1>0, <2>3, <2>10 DEF CarryInv
    <3>2. PICK d \in 1..Len(decisions) :
            /\ Calls(d) /\ decisions[d].calls = c - 1
            /\ decisions[d].step = asked[c].step /\ decisions[d].request = asked[c].request
      BY <3>1 DEF CarriesOut
    <3>3. d \in 1..Len(decisions') /\ decisions'[d] = decisions[d]
      BY <1>2, <2>5
    <3>. QED
      BY <2>3, <3>2, <3>3 DEF CarriesOut, Calls
  <2>11. ASSUME pc' = "dispatching"
         PROVE  CallPending'
    <3>1. n \in 1..Len(decisions')
      BY <1>2, <2>5
    <3>2. decisions'[n].action = "call_tool"
      BY <2>4, <2>6, <2>11
    <3>. QED
      BY <2>2, <2>3, <2>4, <2>6, <3>1, <3>2 DEF CallPending, Calls
  <2>. QED
    BY <2>9, <2>10, <2>11 DEF CarryInv
<1>. QED
  BY <1>4, <1>5, <1>6

LEMMA CarryStays == LoopSpec => []CarryInv
<1>1. LoopInit => CarryInv
  <2>1. \A d : d \notin 1..0
    OBVIOUS
  <2>. QED
    BY <2>1 DEF LoopInit, Init, CarryInv
<1>. QED
  BY <1>1, LoopInvariant, PlanStays, CarryStep, PTL DEF LoopSpec

-----------------------------------------------------------------------------
(* What the results shown are                                              *)

\* Each result shown is the view of the result of its call.
ViewsTrue(history, results, shown, n) ==
  \A k \in 1..Len(shown.results) :
    /\ shown.results[k].call \in 1..n
    /\ shown.results[k] = Client!ResultView(history, results[shown.results[k].call])

ViewsInv ==
  /\ context # None => ViewsTrue(asked, answered, context, Len(asked))
  /\ \A d \in 1..Len(decisions) :
       ViewsTrue(asked, answered, decisions[d].context, decisions[d].calls)

\* A new context views the newest results.
LEMMA BuiltViews ==
  ASSUME HistoryTold, Len(asked) = Len(answered), NEW n \in Nat
  PROVE  ViewsTrue(asked, answered, Client!Built(asked, answered, n), Len(asked))
<1>. DEFINE views == [r \in DOMAIN answered |-> Client!ResultView(asked, answered[r])]
            newest == Client!Newest(views, n)
<1>1. Len(asked) \in Nat /\ DOMAIN answered = 1..Len(asked)
  BY DEF HistoryTold, IsSequence
<1>2. IsSequence(views) /\ Len(views) = Len(asked)
  BY <1>1, FunctionIsSequence
<1>3. \A r \in 1..Len(asked) : views[r] = Client!ResultView(asked, answered[r]) /\ views[r].call = r
  <2>1. SUFFICES ASSUME NEW r \in 1..Len(asked)
                 PROVE  views[r] = Client!ResultView(asked, answered[r]) /\ views[r].call = r
    OBVIOUS
  <2>2. Client!ResultView(asked, answered[r]).call = answered[r].call
    BY DEF Client!ResultView
  <2>. QED
    BY <1>1, <2>2 DEF HistoryTold
<1>4. Client!Built(asked, answered, n).results = newest
  BY DEF Client!Built
<1>. HIDE DEF views
<1>5. /\ Len(newest) = IF n > 0 /\ Len(views) > n THEN n ELSE Len(views)
      /\ \A k \in 1..Len(newest) : newest[k] = views[Len(views) - Len(newest) + k]
  BY <1>2, NewestEntries
<1>. HIDE DEF newest
<1>6. ASSUME NEW k \in 1..Len(newest)
      PROVE  /\ newest[k].call \in 1..Len(asked)
             /\ newest[k] = Client!ResultView(asked, answered[newest[k].call])
  <2>. DEFINE r == Len(asked) - Len(newest) + k
  <2>1. r \in 1..Len(asked)
    BY <1>1, <1>2, <1>5
  <2>2. newest[k] = views[r]
    BY <1>2, <1>5
  <2>. HIDE DEF r
  <2>. QED
    BY <1>3, <2>1, <2>2
<1>. QED
  BY <1>4, <1>6 DEF ViewsTrue

\* A reduction drops at most the oldest view.
LEMMA ReducedViews ==
  ASSUME NEW shown, IsContext(shown), IsSequence(shown.results), NEW n,
         ViewsTrue(asked, answered, shown, n)
  PROVE  ViewsTrue(asked, answered, Client!Reduced(shown), n)
<1>. DEFINE reduced == Client!Reduced(shown)
<1>1. CASE reduced.results = shown.results
  BY <1>1 DEF ViewsTrue
<1>2. CASE shown.results # <<>> /\ reduced.results = Tail(shown.results)
  <2>. DEFINE views == shown.results
              rest == Tail(views)
  <2>1. IsSequence(views)
    OBVIOUS
  <2>. HIDE DEF views
  <2>2. /\ Len(views) \in Nat \ {0} /\ Len(rest) = Len(views) - 1
        /\ \A k \in 1..Len(rest) : rest[k] = views[k + 1]
    BY <1>2, <2>1, OldestDropped DEF views
  <2>. HIDE DEF rest
  <2>3. \A k \in 1..Len(rest) : k + 1 \in 1..Len(views)
    BY <2>2
  <2>4. \A k \in 1..Len(rest) : /\ rest[k].call \in 1..n
                                /\ rest[k] = Client!ResultView(asked, answered[rest[k].call])
    BY <2>2, <2>3 DEF ViewsTrue, views
  <2>5. reduced.results = rest
    BY <1>2 DEF rest, views
  <2>. QED
    BY <2>4, <2>5 DEF ViewsTrue
<1>3. \/ reduced.results = shown.results
      \/ shown.results # <<>> /\ reduced.results = Tail(shown.results)
  BY DEF IsContext, Client!Reduced
<1>. QED
  BY <1>1, <1>2, <1>3

\* What was viewed of a history is a view of a longer one.
LEMMA ViewsStay ==
  ASSUME NEW history, NEW results, NEW later, NEW more, NEW shown, NEW n,
         ViewsTrue(history, results, shown, n),
         \A c \in 1..n : later[c] = history[c] /\ more[c] = results[c] /\ results[c].call = c
  PROVE  ViewsTrue(later, more, shown, n)
<1>1. ASSUME NEW c \in 1..n
      PROVE  Client!ResultView(later, more[c]) = Client!ResultView(history, results[c])
  BY DEF Client!ResultView
<1>. QED
  BY <1>1 DEF ViewsTrue

LEMMA ViewsStep ==
  ASSUME LoopInv, ViewsInv, [LoopNext]_loopVars
  PROVE  ViewsInv'
<1>0. /\ Len(asked) \in Nat /\ Len(asked) <= Len(asked')
      /\ \A c \in 1..Len(asked) : asked'[c] = asked[c]
      /\ Len(answered) \in Nat /\ \A r \in 1..Len(answered) : answered'[r] = answered[r]
      /\ \A r \in 1..Len(answered) : answered[r].call = r
  BY HistoryGrows DEF LoopInv, HistoryTold
<1>2. ASSUME NEW d \in 1..Len(decisions), decisions'[d] = decisions[d]
      PROVE  ViewsTrue(asked', answered', decisions'[d].context, decisions'[d].calls)
  <2>. DEFINE n == decisions[d].calls
              shown == decisions[d].context
  <2>1. n \in 0..Len(asked) /\ n <= Len(answered)
    BY DEF LoopInv, DecisionsInv, DecidedWell
  <2>2. \A c \in 1..n : c \in 1..Len(asked) /\ c \in 1..Len(answered)
    BY <1>0, <2>1
  <2>3. \A c \in 1..n : asked'[c] = asked[c] /\ answered'[c] = answered[c] /\ answered[c].call = c
    BY <1>0, <2>2
  <2>4. ViewsTrue(asked, answered, shown, n)
    BY DEF ViewsInv
  <2>. HIDE DEF n, shown
  <2>5. ViewsTrue(asked', answered', shown, n)
    BY <2>3, <2>4, ViewsStay
  <2>. QED
    BY <1>2, <2>5 DEF n, shown
<1>3. UNCHANGED decisions => \A d \in 1..Len(decisions') :
        ViewsTrue(asked', answered', decisions'[d].context, decisions'[d].calls)
  BY <1>2
<1>4. CASE FallBack \/ UNCHANGED loopVars
  <2>1. UNCHANGED <<asked, answered, context, decisions>>
    BY <1>4 DEF FallBack, loopVars, scriptVars
  <2>. QED
    BY <1>3, <2>1 DEF ViewsInv
<1>6. CASE BuildContext
  <2>1. Len(asked) = Len(answered)
    BY <1>6, ResultsCount DEF BuildContext, LoopInv
  <2>2. /\ context' = Client!Built(asked, answered, builder.history)
        /\ UNCHANGED <<asked, answered, decisions>>
    BY <1>6 DEF BuildContext
  <2>3. builder.history \in Nat
    BY BuilderAssumption DEF LoopInv, BuilderInv
  <2>4. ViewsTrue(asked, answered, context', Len(asked))
    BY <2>1, <2>2, <2>3, BuiltViews DEF LoopInv
  <2>. QED
    BY <1>3, <2>2, <2>4 DEF ViewsInv
<1>7. CASE ReduceContext
  <2>. DEFINE reduced == Client!Reduced(context)
  <2>1. /\ context # None /\ context' = [reduced EXCEPT !.truncated = TRUE]
        /\ UNCHANGED <<asked, answered, decisions>>
    BY <1>7 DEF ReduceContext
  <2>2. ViewsTrue(asked, answered, reduced, Len(asked))
    BY <2>1, ReducedViews DEF LoopInv, ContextInv, ViewsInv, Shows
  <2>. HIDE DEF reduced
  <2>3. context'.results = reduced.results
    BY <2>1
  <2>4. ViewsTrue(asked, answered, context', Len(asked))
    BY <2>2, <2>3 DEF ViewsTrue
  <2>. QED
    BY <1>3, <2>1, <2>4 DEF ViewsInv
<1>8. CASE ClientDecides
  <2>1. PICK shown \in {[context EXCEPT !.truncated = @ \/ TooLong]} :
          \E entry : /\ decisions' = Append(decisions, entry)
                     /\ entry.context = shown /\ entry.calls = Len(asked)
    BY <1>8 DEF ClientDecides
  <2>2. PICK entry : /\ decisions' = Append(decisions, entry)
                     /\ entry.context = shown /\ entry.calls = Len(asked)
    BY <2>1
  <2>3. context # None /\ context' = None /\ UNCHANGED <<asked, answered>>
    BY <1>8 DEF ClientDecides
  <2>4. ViewsTrue(asked, answered, shown, Len(asked))
    <3>1. "results" \in DOMAIN context
      BY <2>3 DEF LoopInv, ContextInv, Shows, IsContext
    <3>2. shown.results = context.results
      BY <2>1, <3>1
    <3>. QED
      BY <2>3, <3>2 DEF ViewsInv, ViewsTrue
  <2>5. /\ Len(decisions') = Len(decisions) + 1 /\ Len(decisions) \in Nat
        /\ \A d \in 1..Len(decisions) : decisions'[d] = decisions[d]
        /\ decisions'[Len(decisions) + 1] = entry
    <3>1. IsSequence(decisions) /\ Len(decisions) \in Nat
      BY DEF LoopInv, DecisionsInv, IsSequence
    <3>. QED
      BY <2>2, <3>1, Appended
  <2>6. ASSUME NEW d \in 1..Len(decisions')
        PROVE  ViewsTrue(asked', answered', decisions'[d].context, decisions'[d].calls)
    <3>1. CASE d = Len(decisions) + 1
      BY <2>2, <2>3, <2>4, <2>5, <3>1
    <3>2. CASE d \in 1..Len(decisions)
      BY <1>2, <2>5, <3>2
    <3>. QED
      BY <2>5, <3>1, <3>2
  <2>. QED
    BY <2>3, <2>6 DEF ViewsInv
<1>9. CASE Dispatch \/ ToolAnswers \/ ToolFails \/ RuntimeActs
  <2>1. UNCHANGED <<context, decisions>> /\ context = None
    BY <1>9, ActsElsewhere DEF LoopInv, ContextInv
  <2>. QED
    BY <1>3, <2>1 DEF ViewsInv
<1>. QED
  BY <1>4, <1>6, <1>7, <1>8, <1>9 DEF LoopNext

LEMMA ViewsAreTrue == LoopSpec => []ViewsInv
<1>1. LoopInit => ViewsInv
  BY DEF LoopInit, ViewsInv
<1>. QED
  BY <1>1, LoopInvariant, ViewsStep, PTL DEF LoopSpec

-----------------------------------------------------------------------------
(* The indicators observed                                                 *)

\* The oldest entries are the first ones.
LEMMA OldestEntries ==
  ASSUME NEW s, IsSequence(s), NEW n \in Nat
  PROVE  LET t == Client!Oldest(s, n) IN
         /\ DOMAIN t = 1..(IF Len(s) > n THEN n ELSE Len(s))
         /\ \A k \in DOMAIN t : t[k] = s[k]
<1>. DEFINE m == IF Len(s) > n THEN n ELSE Len(s)
<1>1. Len(s) \in Nat /\ s \in Seq({s[i] : i \in 1..Len(s)})
  BY DEF IsSequence
<1>2. m \in Nat /\ m <= Len(s)
  BY <1>1
<1>3. Client!Oldest(s, n) = SubSeq(s, 1, m)
  BY DEF Client!Oldest
<1>. HIDE DEF m
<1>4. SubSeq(s, 1, m) = [k \in 1..m |-> s[k]]
  BY <1>1, <1>2
<1>. QED
  BY <1>3, <1>4 DEF m

\* What a function takes from a finite set is finite.
LEMMA ImageFinite ==
  ASSUME NEW S, IsFiniteSet(S), NEW T, NEW f \in [S -> T], \A y \in T : \E x \in S : f[x] = y
  PROVE  IsFiniteSet(T)
<1>1. f \in Surjection(S, T)
  BY DEF Surjection
<1>. QED
  BY <1>1, FS_Surjection

\* Finitely many places in finitely many lists.
LEMMA FoundFinite ==
  ASSUME NEW lists, NEW n \in Nat, DOMAIN lists = 1..n,
         \A i \in 1..n : IsFiniteSet(DOMAIN lists[i]),
         NEW kind, NEW classes, NEW field
  PROVE  IsFiniteSet(Client!Found(lists, kind, classes, field))
<1>0. IsFiniteSet(1..n)
  <2>1. n \in Int
    OBVIOUS
  <2>. QED
    BY <2>1, FS_Interval
<1>. DEFINE at(i) == {m \in DOMAIN lists[i] : /\ lists[i][m].class \in classes
                                              /\ Client!Get(lists[i][m], field) # Client!Unset}
            place(i, m) == [kind |-> kind, list |-> i, record |-> m, value |-> lists[i][m][field]]
            places(i) == {place(i, m) : m \in at(i)}
<1>1. Client!Found(lists, kind, classes, field) = UNION {places(i) : i \in 1..n}
  BY DEF Client!Found
<1>2. ASSUME NEW i \in 1..n
      PROVE  IsFiniteSet(places(i))
  <2>1. IsFiniteSet(at(i))
    BY FS_Subset
  <2>. HIDE DEF at
  <2>. DEFINE f == [m \in at(i) |-> place(i, m)]
  <2>2. f \in [at(i) -> places(i)] /\ \A p \in places(i) : \E m \in at(i) : f[m] = p
    OBVIOUS
  <2>. HIDE DEF f, place, places
  <2>. QED
    BY <2>1, <2>2, ImageFinite
<1>. HIDE DEF places
<1>. DEFINE g == [i \in 1..n |-> places(i)]
            all == {places(i) : i \in 1..n}
<1>3. g \in [1..n -> all] /\ \A S \in all : \E i \in 1..n : g[i] = S
  OBVIOUS
<1>4. IsFiniteSet(all)
  <2>. HIDE DEF g, all
  <2>. QED
    BY <1>0, <1>3, ImageFinite
<1>5. \A S \in all : IsFiniteSet(S)
  BY <1>2
<1>. HIDE DEF all
<1>6. IsFiniteSet(UNION all)
  BY <1>4, <1>5, FS_UNION
<1>. QED
  BY <1>1, <1>6 DEF all

\* Lists of finitely many records have finitely many occurrences of indicators.
LEMMA OccurrencesFinite ==
  ASSUME NEW lists, NEW n \in Nat, DOMAIN lists = 1..n,
         \A i \in 1..n : IsFiniteSet(DOMAIN lists[i])
  PROVE  IsFiniteSet(Client!Occurrences(lists))
<1>1. /\ IsFiniteSet(Client!Found(lists, 1, {"network_event"}, "dst"))
      /\ IsFiniteSet(Client!Found(lists, 2, {"network_event", "dns_event"}, "src"))
  BY FoundFinite
<1>. QED
  BY <1>1, FS_Union DEF Client!Occurrences

\* The indicators observed in finitely many records are a sequence.
LEMMA ObservedIsSequence ==
  ASSUME NEW lists, NEW n \in Nat, DOMAIN lists = 1..n,
         \A i \in 1..n : IsFiniteSet(DOMAIN lists[i])
  PROVE  IsSequence(Client!ObservedIndicators(lists))
<1>. DEFINE all == Client!Occurrences(lists)
            first == {o \in all : \A p \in all : p.value = o.value => ~Client!Earlier(p, o)}
            observed == Client!ObservedIndicators(lists)
            size == Cardinality(first)
<1>1. IsFiniteSet(all)
  BY OccurrencesFinite
<1>. HIDE DEF all
<1>2. first \in SUBSET all
  OBVIOUS
<1>. HIDE DEF first
<1>3. size \in Nat
  BY <1>1, <1>2, FS_Subset, FS_CardinalityType
<1>4. Client!Cardinality(first) = size
  BY ClientCounts
<1>5. observed = [i \in 1..Client!Cardinality(first) |-> observed[i]]
  BY DEF Client!ObservedIndicators, first, all
<1>. HIDE DEF observed, size
<1>6. IsSequence(observed)
  BY <1>3, <1>4, <1>5, FunctionIsSequence
<1>. QED
  BY <1>6 DEF observed

\* Each place where an indicator is found is one of its own.
LEMMA PlacesApart ==
  ASSUME NEW lists, NEW n \in Nat, DOMAIN lists = 1..n,
         \A i \in 1..n : DOMAIN lists[i] \in SUBSET Nat
  PROVE  /\ \A o \in Client!Occurrences(lists) :
              o.kind \in Nat /\ o.list \in Nat /\ o.record \in Nat
         /\ \A p, o \in Client!Occurrences(lists) :
              p = o \/ Client!Earlier(p, o) \/ Client!Earlier(o, p)
<1>1. ASSUME NEW o \in Client!Occurrences(lists)
      PROVE  \E kind \in {1, 2}, list \in 1..n, record \in Nat :
               o = [kind |-> kind, list |-> list, record |-> record,
                    value |-> lists[list][record][IF kind = 1 THEN "dst" ELSE "src"]]
  BY DEF Client!Occurrences, Client!Found
<1>2. ASSUME NEW o \in Client!Occurrences(lists)
      PROVE  /\ o.kind \in Nat /\ o.list \in Nat /\ o.record \in Nat
             /\ o = [kind |-> o.kind, list |-> o.list, record |-> o.record,
                     value |-> lists[o.list][o.record][IF o.kind = 1 THEN "dst" ELSE "src"]]
  <2>1. PICK kind \in {1, 2}, list \in 1..n, record \in Nat :
          o = [kind |-> kind, list |-> list, record |-> record,
               value |-> lists[list][record][IF kind = 1 THEN "dst" ELSE "src"]]
    BY <1>1
  <2>2. o.kind = kind /\ o.list = list /\ o.record = record
    BY <2>1
  <2>3. kind \in Nat /\ list \in Nat
    OBVIOUS
  <2>. QED
    BY <2>1, <2>2, <2>3
<1>3. ASSUME NEW p \in Client!Occurrences(lists), NEW o \in Client!Occurrences(lists),
             ~Client!Earlier(p, o), ~Client!Earlier(o, p)
      PROVE  p = o
  <2>1. p.kind = o.kind /\ p.list = o.list /\ p.record = o.record
    BY <1>2, <1>3 DEF Client!Earlier
  <2>. QED
    BY <1>2, <2>1
<1>. QED
  BY <1>2, <1>3

\* An indicator is observed once, where it occurs first.
LEMMA ObservedOnce ==
  ASSUME NEW lists, NEW n \in Nat, DOMAIN lists = 1..n,
         \A i \in 1..n : IsFiniteSet(DOMAIN lists[i]) /\ DOMAIN lists[i] \in SUBSET Nat,
         NEW i \in 1..Len(Client!ObservedIndicators(lists)),
         NEW j \in 1..Len(Client!ObservedIndicators(lists)),
         Client!ObservedIndicators(lists)[i] = Client!ObservedIndicators(lists)[j]
  PROVE  i = j
<1>. DEFINE all == Client!Occurrences(lists)
            first == {o \in all : \A p \in all : p.value = o.value => ~Client!Earlier(p, o)}
            before(o) == {p \in first : Client!Earlier(p, o)}
            observed == Client!ObservedIndicators(lists)
            size == Cardinality(first)
            at(k) == CHOOSE o \in first : Client!Cardinality(before(o)) = k - 1
            R == {pair \in first \X first : Client!Earlier(pair[1], pair[2])}
<1>1. IsFiniteSet(first)
  <2>1. IsFiniteSet(all)
    BY OccurrencesFinite
  <2>. HIDE DEF all
  <2>2. first \in SUBSET all
    OBVIOUS
  <2>. QED
    BY <2>1, <2>2, FS_Subset
<1>2. observed = [k \in 1..size |-> at(k).value]
  <2>1. observed = [k \in 1..Client!Cardinality(first) |-> at(k).value]
    BY DEF Client!ObservedIndicators
  <2>2. Client!Cardinality(first) = size
    BY ClientCounts
  <2>. QED
    BY <2>1, <2>2
<1>3. /\ \A o \in first : o.kind \in Nat /\ o.list \in Nat /\ o.record \in Nat
      /\ \A p, o \in first : p = o \/ Client!Earlier(p, o) \/ Client!Earlier(o, p)
      /\ \A p, o \in first : p.value = o.value => ~Client!Earlier(p, o)
  BY PlacesApart
<1>. HIDE DEF observed, first
<1>4. \A p, o \in first : <<p, o>> \in R <=> Client!Earlier(p, o)
  OBVIOUS
<1>. HIDE DEF R
<1>5. Orders(R, first)
  <2>1. ASSUME NEW o \in first PROVE ~Client!Earlier(o, o)
    BY <1>3 DEF Client!Earlier
  <2>2. ASSUME NEW p \in first, NEW q \in first, NEW o \in first,
               Client!Earlier(p, q), Client!Earlier(q, o)
        PROVE  Client!Earlier(p, o)
    BY <1>3, <2>2 DEF Client!Earlier
  <2>. QED
    BY <1>1, <1>3, <1>4, <2>1, <2>2 DEF Orders
<1>6. ASSUME NEW k \in 1..size
      PROVE  at(k) \in first /\ Cardinality(before(at(k))) = k - 1
  <2>1. PICK o \in first : Cardinality(Preceding(R, first, o)) = k - 1
    BY <1>5, PlaceTaken
  <2>2. Preceding(R, first, o) = before(o)
    BY <1>4 DEF Preceding
  <2>. HIDE DEF before
  <2>3. \A q \in first : Client!Cardinality(before(q)) = Cardinality(before(q))
    BY ClientCounts
  <2>. QED
    BY <2>1, <2>2, <2>3
<1>7. size \in Nat
  BY <1>1, FS_CardinalityType
<1>. HIDE DEF size, at, before
<1>8. Len(observed) = size /\ i \in 1..size /\ j \in 1..size /\ observed[i] = observed[j]
  <2>1. Len(observed) = size
    BY <1>2, <1>7
  <2>. QED
    BY <2>1 DEF observed
<1>9. at(i).value = at(j).value
  BY <1>2, <1>8
<1>10. at(i) = at(j)
  BY <1>3, <1>6, <1>8, <1>9
<1>. QED
  BY <1>6, <1>8, <1>10

\* Lists without connections add no indicator.
LEMMA ObservedBefore ==
  ASSUME NEW short, NEW long, NEW n \in Nat, NEW m \in Nat, n <= m,
         DOMAIN short = 1..n, DOMAIN long = 1..m,
         \A i \in 1..n : short[i] = long[i],
         \A i \in (n + 1)..m : \A k \in DOMAIN long[i] :
           long[i][k].class \notin {"network_event", "dns_event"}
  PROVE  Client!ObservedIndicators(short) = Client!ObservedIndicators(long)
<1>1. ASSUME NEW kind, NEW field, NEW classes \in SUBSET {"network_event", "dns_event"}
      PROVE  Client!Found(short, kind, classes, field) = Client!Found(long, kind, classes, field)
  <2>. DEFINE at(lists, i) == {k \in DOMAIN lists[i] : /\ lists[i][k].class \in classes
                                              /\ Client!Get(lists[i][k], field) # Client!Unset}
              places(lists, i) ==
                {[kind |-> kind, list |-> i, record |-> k, value |-> lists[i][k][field]] : k \in at(lists, i)}
  <2>1. /\ Client!Found(short, kind, classes, field) = UNION {places(short, i) : i \in 1..n}
        /\ Client!Found(long, kind, classes, field) = UNION {places(long, i) : i \in 1..m}
    BY DEF Client!Found
  <2>2. \A i \in 1..n : places(short, i) = places(long, i)
    OBVIOUS
  <2>3. \A i \in (n + 1)..m : places(long, i) = {}
    <3>1. \A i \in (n + 1)..m : at(long, i) = {}
      OBVIOUS
    <3>. QED
      BY <3>1
  <2>4. \A i \in 1..m : i \in 1..n \/ i \in (n + 1)..m
    OBVIOUS
  <2>5. \A i \in 1..n : i \in 1..m
    OBVIOUS
  <2>. HIDE DEF places
  <2>. QED
    BY <2>1, <2>2, <2>3, <2>4, <2>5
<1>2. Client!Occurrences(short) = Client!Occurrences(long)
  BY <1>1 DEF Client!Occurrences
<1>. QED
  BY <1>2 DEF Client!ObservedIndicators

-----------------------------------------------------------------------------
(* The indicator step                                                      *)

\* What the later steps ask for are no connections.
LEMMA NoConnections ==
  ASSUME NEW request, request.tool \in {"lookup_ioc_reputation", "search_cti"},
         NEW r \in Holdable(request)
  PROVE  r.class \notin {"network_event", "dns_event"}
<1>1. PICK list \in Client!Lists(request) : r \in Data[Source(list)]
  BY DEF Holdable
<1>2. list \in {"records", "cti_records", "attack_techniques"} /\ Source(list) = list
  BY DEF Client!Lists, Client!Layout, Client!Range, Source
<1>3. list \in DOMAIN Data
  BY <1>2, CaseAssumption DEF Client!WellFormed, Client!ClassIn
<1>4. r.class = Client!ClassIn[list]
  BY <1>1, <1>2, <1>3, CaseAssumption DEF Client!WellFormed
<1>. QED
  BY <1>2, <1>4 DEF Client!ClassIn

\* A decision of the fourth step for a call looks up the indicator that its context
\* shows after as many as there were calls of the step, and none is left if it is not.
LEMMA FourthStep ==
  ASSUME NEW shown
  PROVE  LET made == Client!Decide(alert, 4, shown)
             n == Cardinality(Client!CallsOf(shown, 4))
             observed == Client!ObservedIndicators(Client!RecordLists(shown)) IN
         /\ made.action = "call_tool" =>
              /\ ~(n >= 2) /\ n < Len(observed)
              /\ made.request = [tool |-> "lookup_ioc_reputation", indicator |-> observed[n + 1]]
         /\ made.action # "call_tool" => n >= 2 \/ ~(n < Len(observed))
<1>. DEFINE n == Client!Cardinality(Client!CallsOf(shown, 4))
            observed == Client!ObservedIndicators(Client!RecordLists(shown))
            made == Client!Decide(alert, 4, shown)
<1>1. Client!Decide(alert, 4, shown) = IF n >= 2 \/ ~(n < Len(observed)) THEN Client!CompleteStep
              ELSE Client!CallTool([tool |-> "lookup_ioc_reputation", indicator |-> observed[n + 1]])
  BY DEF Client!Decide, Client!StepLimitReached, Client!MAX_CALLS_PER_STEP, Client!IndicatorDecision
<1>2. n = Cardinality(Client!CallsOf(shown, 4))
  BY ClientCounts
<1>. HIDE DEF n, observed, made
<1>3. CASE n >= 2 \/ ~(n < Len(observed))
  <2>1. made = Client!CompleteStep
    BY <1>1, <1>3 DEF made
  <2>2. made.action # "call_tool"
    BY <2>1 DEF Client!CompleteStep
  <2>. QED
    BY <1>2, <1>3, <2>2 DEF n, observed, made
<1>4. CASE ~(n >= 2) /\ n < Len(observed)
  <2>. DEFINE request == [tool |-> "lookup_ioc_reputation", indicator |-> observed[n + 1]]
  <2>1. made = Client!CallTool(request)
    BY <1>1, <1>4 DEF made
  <2>. HIDE DEF request
  <2>2. made.action = "call_tool" /\ made.request = request
    BY <2>1 DEF Client!CallTool
  <2>. QED
    BY <1>2, <1>4, <2>2 DEF n, observed, made, request
<1>. QED
  BY <1>3, <1>4

\* The decisions of the later steps for a call.
LEMMA LaterStep ==
  ASSUME NEW shown, NEW step \in {4, 5}, Client!Decide(alert, step, shown).action = "call_tool"
  PROVE  Client!Decide(alert, step, shown).request.tool \in {"lookup_ioc_reputation", "search_cti"}
<1>1. CASE step = 4
  <2>. DEFINE made == Client!Decide(alert, 4, shown)
              lookup(i) == [tool |-> "lookup_ioc_reputation", indicator |-> i]
  <2>1. made.action = "call_tool"
    BY <1>1
  <2>2. PICK i : made.request = lookup(i)
    BY <2>1, FourthStep
  <2>3. lookup(i).tool = "lookup_ioc_reputation"
    OBVIOUS
  <2>. QED
    BY <1>1, <2>2, <2>3
<1>2. CASE step = 5
  BY <1>2 DEF Client!Decide, Client!KnowledgeDecision, Client!CompleteStep, Client!CallTool
<1>. QED
  BY <1>1, <1>2

-----------------------------------------------------------------------------
(* Numbers in order                                                        *)

\* The i-th number of a set has i - 1 smaller ones.
LEMMA NumberTaken ==
  ASSUME NEW S \in SUBSET Nat, IsFiniteSet(S), NEW i \in 1..Cardinality(S)
  PROVE  \E c \in S : Cardinality({b \in S : b < c}) = i - 1
<1>. DEFINE R == {pair \in S \X S : pair[1] < pair[2]}
<1>1. \A b, c \in S : <<b, c>> \in R <=> b < c
  OBVIOUS
<1>. HIDE DEF R
<1>2. Orders(R, S)
  BY <1>1 DEF Orders
<1>3. \A c \in S : Preceding(R, S, c) = {b \in S : b < c}
  BY <1>1 DEF Preceding
<1>4. PICK c \in S : Cardinality(Preceding(R, S, c)) = i - 1
  BY <1>2, PlaceTaken
<1>5. Preceding(R, S, c) = {b \in S : b < c}
  BY <1>3
<1>. QED
  BY <1>4, <1>5

-----------------------------------------------------------------------------
(* What decisions see                                                      *)

\* Where no call of the step is missing, the client sees those and no other.
LEMMA SeenCalls ==
  ASSUME LoopInv, NEW d \in 1..Len(decisions), ShowsStep(d)
  PROVE  /\ Client!CallsOf(decisions[d].context, decisions[d].step) = StepCallsAt(d)
         /\ decisions[d].calls \in Nat
<1>. DEFINE n == decisions[d].calls
            step == decisions[d].step
            shown == decisions[d].context
            calls == shown.calls
            seen == Client!CallsOf(shown, step)
<1>1. n \in Nat /\ Shows(asked, shown, n)
  BY DEF LoopInv, DecisionsInv, DecidedWell
<1>2. /\ IsSequence(calls) /\ Len(calls) <= n
      /\ \A j \in 1..Len(calls) : calls[j] = Client!CallView(asked, n - Len(calls) + j)
  BY <1>1 DEF Shows
<1>3. seen = {view.call : view \in {v \in {calls[j] : j \in DOMAIN calls} : v.step = step}}
  BY DEF Client!CallsOf, Client!Range
<1>4. StepCallsAt(d) = {c \in 1..n : asked[c].step = step}
  BY DEF StepCallsAt
<1>5. StepCallsAt(d) \subseteq {view.call : view \in {calls[j] : j \in DOMAIN calls}}
  BY DEF ShowsStep, ShownCalls, Client!Range
<1>. HIDE DEF n, step, calls, seen
<1>6. Len(calls) \in Nat /\ DOMAIN calls = 1..Len(calls)
  BY <1>2 DEF IsSequence
<1>7. ASSUME NEW j \in DOMAIN calls
      PROVE  calls[j].call \in 1..n /\ calls[j].step = asked[calls[j].call].step
  <2>. DEFINE c == n - Len(calls) + j
  <2>1. c \in 1..n
    BY <1>1, <1>2, <1>6
  <2>2. calls[j] = Client!CallView(asked, c)
    BY <1>2, <1>6
  <2>. HIDE DEF c
  <2>3. calls[j].call = c /\ calls[j].step = asked[c].step
    BY <2>2 DEF Client!CallView
  <2>. QED
    BY <2>1, <2>3
<1>8. seen \subseteq StepCallsAt(d)
  BY <1>3, <1>4, <1>7
<1>9. StepCallsAt(d) \subseteq seen
  BY <1>3, <1>4, <1>5, <1>7
<1>. QED
  BY <1>1, <1>8, <1>9 DEF n, step, seen

\* The part of a result that every context shows of it.
AnswerView(n) ==
  Client!Oldest(Client!RecordsOf(answered[n].answer, asked[answered[n].call].request.tool), MaxRecords)

AllViews == [n \in DOMAIN answered |-> AnswerView(n)]

\* A successful result is viewed as finitely many records, of no connection if its
\* tool looks none up.
LEMMA AnswerViewed ==
  ASSUME LoopInv, QueriesInv, AllSucceeded, NEW c \in 1..Len(answered)
  PROVE  /\ IsFiniteSet(DOMAIN AnswerView(c)) /\ DOMAIN AnswerView(c) \in SUBSET Nat
         /\ asked[c].request.tool \in {"lookup_ioc_reputation", "search_cti"} =>
              \A k \in DOMAIN AnswerView(c) :
                AnswerView(c)[k].class \notin {"network_event", "dns_event"}
<1>. DEFINE request == asked[c].request
            answer == answered[c].answer
            records == Client!RecordsOf(answer, request.tool)
            view == Client!Oldest(records, MaxRecords)
<1>1. answer = Client!Answer(request) /\ answer.success
  <2>1. answer \in {Client!Answer(request), Client!Failed} /\ answer.success
    BY DEF QueriesInv, ToolsAnswer, AllSucceeded
  <2>2. ~Client!Failed.success
    BY DEF Client!Failed
  <2>. QED
    BY <2>1, <2>2
<1>2. AnswerView(c) = view
  BY DEF AnswerView, LoopInv, HistoryTold
<1>. HIDE DEF request, answer
<1>3. records \in Seq(Holdable(request))
  BY <1>1, AnswerHolds
<1>. HIDE DEF records
<1>. DEFINE hold == Holdable(request)
<1>4. IsSequence(records) /\ Len(records) \in Nat /\ \A k \in 1..Len(records) : records[k] \in hold
  <2>. HIDE DEF hold
  <2>1. records \in Seq(hold)
    BY <1>3 DEF hold
  <2>2. /\ Len(records) \in Nat /\ \A k \in 1..Len(records) : records[k] \in hold
        /\ records \in [1..Len(records) -> hold]
    BY <2>1
  <2>3. records \in [1..Len(records) -> {records[k] : k \in 1..Len(records)}]
    BY <2>2
  <2>. QED
    BY <2>2, <2>3, SeqDef DEF IsSequence
<1>5. /\ DOMAIN view = 1..(IF Len(records) > MaxRecords THEN MaxRecords ELSE Len(records))
      /\ \A k \in DOMAIN view : view[k] = records[k]
  BY <1>4, ViewAssumption, OldestEntries
<1>. HIDE DEF view, hold
<1>6. IsFiniteSet(DOMAIN view) /\ DOMAIN view \in SUBSET Nat
  <2>. DEFINE m == IF Len(records) > MaxRecords THEN MaxRecords ELSE Len(records)
  <2>1. m \in Int /\ DOMAIN view = 1..m
    BY <1>4, <1>5, ViewAssumption
  <2>. HIDE DEF m
  <2>. QED
    BY <2>1, FS_Interval
<1>7. \A k \in DOMAIN view : view[k] \in hold
  BY <1>4, <1>5, ViewAssumption
<1>. QED
  BY <1>2, <1>6, <1>7, NoConnections DEF hold, request

\* Where no result is missing, the records seen are those of all results till then.
LEMMA SeenRecords ==
  ASSUME LoopInv, ViewsInv, NEW d \in 1..Len(decisions), ShowsResults(d)
  PROVE  LET lists == Client!RecordLists(decisions[d].context)
             n == decisions[d].calls IN
         /\ n \in Nat /\ n <= Len(answered) /\ DOMAIN lists = 1..n
         /\ \A k \in 1..n : lists[k] = AnswerView(k)
<1>. DEFINE n == decisions[d].calls
            shown == decisions[d].context
            results == shown.results
            lists == Client!RecordLists(shown)
<1>1. /\ n \in Nat /\ n <= Len(answered) /\ decisions[d].results = n
      /\ Shows(asked, shown, n) /\ ViewsTrue(asked, answered, shown, n)
  BY DEF LoopInv, DecisionsInv, DecidedWell, ViewsInv
<1>2. Len(results) = n
  BY <1>1 DEF ShowsResults
<1>3. /\ IsSequence(results)
      /\ \A k \in 1..Len(results) : results[k].call = n - Len(results) + k
      /\ \A k \in 1..Len(results) :
           results[k] = Client!ResultView(asked, answered[results[k].call])
  BY <1>1 DEF Shows, ViewsTrue
<1>4. lists = [k \in DOMAIN results |-> results[k].records]
  BY DEF Client!RecordLists
<1>. HIDE DEF n, results, lists
<1>5. DOMAIN results = 1..n
  BY <1>2, <1>3 DEF IsSequence
<1>6. ASSUME NEW k \in 1..n
      PROVE  lists[k] = AnswerView(k)
  <2>1. results[k].call = k
    BY <1>1, <1>2, <1>3
  <2>2. results[k] = Client!ResultView(asked, answered[k])
    BY <1>2, <1>3, <2>1
  <2>3. results[k].records = AnswerView(k)
    BY <2>2 DEF Client!ResultView, AnswerView
  <2>. QED
    BY <1>4, <1>5, <2>3
<1>. QED
  BY <1>1, <1>4, <1>5, <1>6 DEF n, lists

\* After a decision of the indicator step no connection is looked up.
LEMMA LaterCalls ==
  ASSUME LoopInv, PlanInv, CarryInv, AllSucceeded,
         NEW d \in 1..Len(decisions), decisions[d].step = 4,
         NEW c \in (decisions[d].calls + 1)..Len(asked)
  PROVE  asked[c].request.tool \in {"lookup_ioc_reputation", "search_cti"}
<1>1. Len(asked) \in Nat /\ decisions[d].calls \in Nat /\ c \in 1..Len(asked)
  BY DEF LoopInv, HistoryTold, IsSequence, DecisionsInv, DecidedWell
<1>2. PICK e \in 1..Len(decisions) :
        /\ Calls(e) /\ decisions[e].calls = c - 1
        /\ decisions[e].step = asked[c].step /\ decisions[e].request = asked[c].request
  BY <1>1 DEF CarryInv, CarriesOut
<1>3. decisions[e].step \in {4, 5}
  <2>1. asked[c].step >= 4 /\ decisions[e].step \in 1..stepsStarted
    BY DEF CarryInv, StepsGoOn
  <2>2. stepsStarted \in 0..5
    BY StepIsPosition
  <2>. QED
    BY <1>2, <2>1, <2>2
<1>. DEFINE made == Client!Decide(alert, decisions[e].step, decisions[e].context)
<1>4. made.action = "call_tool" /\ made.request = decisions[e].request
  BY <1>2 DEF CarryInv, ClientMade, Calls
<1>5. made.request.tool \in {"lookup_ioc_reputation", "search_cti"}
  BY <1>3, <1>4, LaterStep
<1>. QED
  BY <1>2, <1>4, <1>5

\* What a decision of the indicator step sees observed is what is ever observed.
LEMMA ObservedStays ==
  ASSUME LoopInv, PlanInv, CarryInv, ViewsInv, QueriesInv, AllSucceeded,
         NEW d \in 1..Len(decisions), decisions[d].step = 4, ShowsResults(d)
  PROVE  Client!ObservedIndicators(Client!RecordLists(decisions[d].context))
           = Client!ObservedIndicators(AllViews)
<1>. DEFINE n == decisions[d].calls
            m == Len(answered)
            short == Client!RecordLists(decisions[d].context)
            long == AllViews
<1>1. /\ n \in Nat /\ n <= m /\ DOMAIN short = 1..n
      /\ \A k \in 1..n : short[k] = AnswerView(k)
  BY SeenRecords
<1>2. m \in Nat /\ DOMAIN answered = 1..m /\ Len(asked) \in Nat /\ m <= Len(asked)
  <2>1. m \in Nat /\ DOMAIN answered = 1..m /\ Len(asked) \in Nat
    BY DEF LoopInv, HistoryTold, IsSequence
  <2>. QED
    BY <2>1, ResultsCount DEF LoopInv
<1>3. DOMAIN long = 1..m /\ \A k \in 1..m : long[k] = AnswerView(k)
  BY <1>2 DEF AllViews
<1>4. ASSUME NEW c \in (n + 1)..m
      PROVE  \A k \in DOMAIN long[c] : long[c][k].class \notin {"network_event", "dns_event"}
  <2>1. c \in 1..m /\ c \in (n + 1)..Len(asked)
    BY <1>1, <1>2
  <2>2. asked[c].request.tool \in {"lookup_ioc_reputation", "search_cti"}
    BY <2>1, LaterCalls
  <2>. QED
    BY <1>3, <2>1, <2>2, AnswerViewed
<1>. HIDE DEF n, m, short, long
<1>5. \A k \in 1..n : short[k] = long[k]
  BY <1>1, <1>2, <1>3
<1>6. Client!ObservedIndicators(short) = Client!ObservedIndicators(long)
  BY <1>1, <1>2, <1>3, <1>4, <1>5, ObservedBefore
<1>. QED
  BY <1>6 DEF short, long

\* What is observed is a list, of each indicator once.
LEMMA ObservedListed ==
  ASSUME LoopInv, QueriesInv, AllSucceeded
  PROVE  LET observed == Client!ObservedIndicators(AllViews) IN
         /\ IsSequence(observed)
         /\ \A i, j \in 1..Len(observed) : observed[i] = observed[j] => i = j
<1>1. Len(answered) \in Nat /\ DOMAIN answered = 1..Len(answered)
  BY DEF LoopInv, HistoryTold, IsSequence
<1>2. DOMAIN AllViews = 1..Len(answered) /\ \A n \in 1..Len(answered) : AllViews[n] = AnswerView(n)
  BY <1>1 DEF AllViews
<1>3. \A n \in 1..Len(answered) :
        IsFiniteSet(DOMAIN AllViews[n]) /\ DOMAIN AllViews[n] \in SUBSET Nat
  BY <1>2, AnswerViewed
<1>4. IsSequence(Client!ObservedIndicators(AllViews))
  BY <1>1, <1>2, <1>3, ObservedIsSequence
<1>5. \A i, j \in 1..Len(Client!ObservedIndicators(AllViews)) :
        Client!ObservedIndicators(AllViews)[i] = Client!ObservedIndicators(AllViews)[j] => i = j
  BY <1>1, <1>2, <1>3, ObservedOnce
<1>. QED
  BY <1>4, <1>5

\* A decision of the indicator step that misses nothing looks up the next of all
\* indicators observed, and there is none if it does not, or two were looked up.
LEMMA NextIndicator ==
  ASSUME LoopInv, PlanInv, CarryInv, ViewsInv, QueriesInv, AllSucceeded,
         NEW d \in 1..Len(decisions), decisions[d].step = 4, ShowsStep(d), ShowsResults(d)
  PROVE  LET n == Cardinality(StepCallsAt(d))
             observed == Client!ObservedIndicators(AllViews) IN
         /\ n \in Nat
         /\ Calls(d) => n < 2 /\ n < Len(observed) /\ decisions[d].request.indicator = observed[n + 1]
         /\ ~Calls(d) => n >= 2 \/ ~(n < Len(observed))
<1>. DEFINE n == Cardinality(StepCallsAt(d))
            observed == Client!ObservedIndicators(AllViews)
            shown == decisions[d].context
            made == Client!Decide(alert, 4, shown)
            lookup(i) == [tool |-> "lookup_ioc_reputation", indicator |-> i]
<1>1. Client!CallsOf(shown, 4) = StepCallsAt(d) /\ decisions[d].calls \in Nat
  BY SeenCalls
<1>2. n \in Nat
  <2>. DEFINE m == decisions[d].calls
  <2>2. StepCallsAt(d) \in SUBSET (1..m) /\ m \in Int
    BY <1>1 DEF StepCallsAt
  <2>. HIDE DEF m
  <2>1. IsFiniteSet(1..m)
    BY <2>2, FS_Interval
  <2>. QED
    BY <2>1, <2>2, FS_Subset, FS_CardinalityType
<1>3. Client!ObservedIndicators(Client!RecordLists(shown)) = observed
  BY ObservedStays
<1>4. decisions[d].action = made.action /\ decisions[d].request = made.request
  BY DEF CarryInv, ClientMade
<1>5. /\ made.action = "call_tool" =>
           ~(n >= 2) /\ n < Len(observed) /\ made.request = lookup(observed[n + 1])
      /\ made.action # "call_tool" => n >= 2 \/ ~(n < Len(observed))
  BY <1>1, <1>3, FourthStep
<1>6. \A i : lookup(i).indicator = i
  OBVIOUS
<1>. HIDE DEF n, observed, made, lookup
<1>7. /\ n \in Nat
      /\ Calls(d) => n < 2 /\ n < Len(observed) /\ decisions[d].request.indicator = observed[n + 1]
      /\ ~Calls(d) => n >= 2 \/ ~(n < Len(observed))
  BY <1>2, <1>4, <1>5, <1>6 DEF Calls
<1>. QED
  BY <1>7 DEF n, observed

\* The calls of the indicator step that a decision for its own call came after.
LEMMA CallsBefore ==
  ASSUME LoopInv, NEW d \in 1..Len(decisions), decisions[d].step = 4,
         NEW e \in 1..Len(decisions), decisions[e].step = 4,
         NEW c \in StepCallsAt(d), decisions[e].calls = c - 1
  PROVE  StepCallsAt(e) = {b \in StepCallsAt(d) : b < c}
<1>. DEFINE n == decisions[d].calls
<1>1. n \in Nat
  BY DEF LoopInv, DecisionsInv, DecidedWell
<1>2. StepCallsAt(d) = {b \in 1..n : asked[b].step = 4}
  BY DEF StepCallsAt
<1>3. StepCallsAt(e) = {b \in 1..(c - 1) : asked[b].step = 4}
  BY DEF StepCallsAt
<1>. HIDE DEF n
<1>. QED
  BY <1>1, <1>2, <1>3

\* A decision made later counts more calls of its step.
LEMMA LaterSeesMore ==
  ASSUME LoopInv, ProgressInv,
         NEW d \in 1..Len(decisions), NEW e \in 1..Len(decisions), d < e, Calls(d),
         decisions[d].step = decisions[e].step
  PROVE  Cardinality(StepCallsAt(d)) < Cardinality(StepCallsAt(e))
<1>. DEFINE fewer == StepCallsAt(d)
            more == StepCallsAt(e)
            c == decisions[d].calls + 1
<1>1. decisions[d].calls \in Nat /\ decisions[e].calls \in Nat
  BY DEF LoopInv, DecisionsInv, DecidedWell
<1>2. decisions[d].calls < decisions[e].calls /\ asked[c].step = decisions[d].step
  BY DEF ProgressInv, MadeCall
<1>3. c \notin fewer /\ fewer \cup {c} \in SUBSET more
  BY <1>1, <1>2 DEF StepCallsAt
<1>4. IsFiniteSet(more)
  <2>1. IsFiniteSet(1..decisions[e].calls)
    <3>1. \A n \in Nat : IsFiniteSet(1..n)
      BY FS_Interval
    <3>. QED
      BY <1>1, <3>1
  <2>2. more \in SUBSET (1..decisions[e].calls)
    BY DEF StepCallsAt
  <2>. QED
    BY <2>1, <2>2, FS_Subset
<1>. HIDE DEF fewer, more, c
<1>5. IsFiniteSet(fewer) /\ IsFiniteSet(fewer \cup {c})
  BY <1>3, <1>4, FS_Subset
<1>6. Cardinality(fewer \cup {c}) = Cardinality(fewer) + 1
  BY <1>3, <1>5, FS_AddElement
<1>7. Cardinality(fewer \cup {c}) <= Cardinality(more)
  BY <1>3, <1>4, FS_Subset
<1>8. Cardinality(fewer) \in Nat /\ Cardinality(more) \in Nat
  BY <1>4, <1>5, FS_CardinalityType
<1>9. Cardinality(fewer) < Cardinality(more)
  BY <1>6, <1>7, <1>8
<1>. QED
  BY <1>9 DEF fewer, more

\* The indicator step looks up the first two indicators observed, each once, unless a
\* call failed or a context lacked a result or a call.
THEOREM LookupsFollow == LoopSpec => []LookupsFollowObservation
<1>1. ASSUME LoopInv, ProgressInv, PlanInv, CarryInv, ViewsInv, QueriesInv
      PROVE  LookupsFollowObservation
  <2>. DEFINE observed == Client!ObservedIndicators(AllViews)
              lookups == CallDecisions(4)
              first == Client!Oldest(observed, 2)
  <2>1. SUFFICES ASSUME NEW d \in DOMAIN decisions, decisions[d].step = 4, ~Calls(d),
                        \A e \in lookups \cup {d} : ShowsStep(e) /\ ShowsResults(e),
                        \A n \in DOMAIN answered : answered[n].answer.success
                 PROVE  /\ {decisions[e].request.indicator : e \in lookups} = Client!Range(first)
                        /\ \A e, f \in lookups :
                             decisions[e].request.indicator = decisions[f].request.indicator
                               => e = f
    BY DEF LookupsFollowObservation, AllViews, AnswerView
  <2>2. /\ DOMAIN decisions = 1..Len(decisions) /\ DOMAIN answered = 1..Len(answered)
        /\ Len(asked) \in Nat
    BY <1>1 DEF LoopInv, DecisionsInv, HistoryTold, IsSequence
  <2>3. AllSucceeded
    BY <2>1, <2>2 DEF AllSucceeded
  <2>4. IsSequence(observed) /\ \A i, j \in 1..Len(observed) : observed[i] = observed[j] => i = j
    BY <1>1, <2>3, ObservedListed
  <2>5. ASSUME NEW e \in lookups \cup {d}
        PROVE  /\ e \in 1..Len(decisions) /\ decisions[e].step = 4
               /\ Cardinality(StepCallsAt(e)) \in Nat
               /\ Calls(e) =>
                    /\ Cardinality(StepCallsAt(e)) < 2 /\ Cardinality(StepCallsAt(e)) < Len(observed)
                    /\ decisions[e].request.indicator = observed[Cardinality(StepCallsAt(e)) + 1]
               /\ ~Calls(e) =>
                    Cardinality(StepCallsAt(e)) >= 2 \/ ~(Cardinality(StepCallsAt(e)) < Len(observed))
    <3>1. e \in 1..Len(decisions) /\ decisions[e].step = 4
      BY <2>1, <2>2 DEF CallDecisions
    <3>2. ShowsStep(e) /\ ShowsResults(e)
      BY <2>1
    <3>. HIDE DEF observed
    <3>. QED
      BY <1>1, <2>3, <3>1, <3>2, NextIndicator DEF observed
  <2>. HIDE DEF observed
  <2>6. /\ DOMAIN first = 1..(IF Len(observed) > 2 THEN 2 ELSE Len(observed))
        /\ \A i \in DOMAIN first : first[i] = observed[i]
        /\ Len(observed) \in Nat
    BY <2>4, OldestEntries DEF IsSequence
  <2>. HIDE DEF first
  <2>7. ASSUME NEW e \in lookups
        PROVE  \E i \in DOMAIN first : first[i] = decisions[e].request.indicator
    <3>. DEFINE n == Cardinality(StepCallsAt(e))
    <3>1. Calls(e)
      BY DEF CallDecisions
    <3>2. n \in Nat /\ n < 2 /\ n < Len(observed) /\ decisions[e].request.indicator = observed[n + 1]
      BY <2>5, <3>1
    <3>. HIDE DEF n
    <3>3. n + 1 \in DOMAIN first
      BY <2>6, <3>2
    <3>. QED
      BY <2>6, <3>2, <3>3
  <2>8. ASSUME NEW i \in DOMAIN first
        PROVE  \E e \in lookups : decisions[e].request.indicator = first[i]
    <3>. DEFINE calls == StepCallsAt(d)
                n == Cardinality(calls)
    <3>1. n \in Nat /\ (n >= 2 \/ ~(n < Len(observed)))
      BY <2>1, <2>5
    <3>2. calls \in SUBSET Nat /\ IsFiniteSet(calls) /\ calls \in SUBSET (1..Len(asked))
      <4>. DEFINE m == decisions[d].calls
      <4>1. m \in 0..Len(asked)
        BY <1>1, <2>2 DEF LoopInv, DecisionsInv, DecidedWell
      <4>2. calls \in SUBSET (1..m)
        BY DEF StepCallsAt
      <4>. HIDE DEF m, calls
      <4>3. IsFiniteSet(1..m)
        BY <2>2, <4>1, FS_Interval
      <4>4. IsFiniteSet(calls)
        BY <4>2, <4>3, FS_Subset
      <4>. QED
        BY <2>2, <4>1, <4>2, <4>4
    <3>3. i \in 1..n
      <4>. HIDE DEF n
      <4>. QED
        BY <2>6, <3>1
    <3>. HIDE DEF calls
    <3>4. PICK c \in calls : Cardinality({b \in calls : b < c}) = i - 1
      BY <3>2, <3>3, NumberTaken
    <3>5. asked[c].step = 4 /\ c \in 1..Len(asked)
      BY <2>1, <3>2 DEF calls, StepCallsAt
    <3>6. PICK e \in 1..Len(decisions) :
            Calls(e) /\ decisions[e].calls = c - 1 /\ decisions[e].step = asked[c].step
      BY <1>1, <2>3, <3>5 DEF CarryInv, CarriesOut
    <3>7. e \in lookups
      BY <2>2, <3>5, <3>6 DEF CallDecisions
    <3>8. StepCallsAt(e) = {b \in calls : b < c}
      BY <1>1, <2>1, <2>2, <3>5, <3>6, CallsBefore DEF calls
    <3>9. /\ Cardinality(StepCallsAt(e)) = i - 1 /\ i \in Nat
          /\ decisions[e].request.indicator = observed[i]
      <4>1. Cardinality(StepCallsAt(e)) = i - 1
        BY <3>4, <3>8
      <4>2. decisions[e].request.indicator = observed[Cardinality(StepCallsAt(e)) + 1]
        BY <2>5, <3>6, <3>7
      <4>3. i \in Nat /\ (i - 1) + 1 = i
        BY <2>6
      <4>. QED
        BY <4>1, <4>2, <4>3
    <3>. QED
      BY <2>6, <3>7, <3>9
  <2>9. ASSUME NEW e \in lookups, NEW f \in lookups,
               decisions[e].request.indicator = decisions[f].request.indicator
        PROVE  e = f
    <3>. DEFINE n(x) == Cardinality(StepCallsAt(x))
    <3>1. ASSUME NEW x \in lookups
          PROVE  /\ Calls(x) /\ decisions[x].step = 4 /\ x \in 1..Len(decisions)
                 /\ n(x) \in Nat /\ n(x) + 1 \in 1..Len(observed)
                 /\ decisions[x].request.indicator = observed[n(x) + 1]
      <4>1. Calls(x) /\ decisions[x].step = 4 /\ x \in 1..Len(decisions)
        BY <2>2 DEF CallDecisions
      <4>2. n(x) \in Nat /\ n(x) < Len(observed) /\ decisions[x].request.indicator = observed[n(x) + 1]
        BY <2>5, <4>1
      <4>. HIDE DEF n
      <4>. QED
        BY <2>6, <4>1, <4>2
    <3>2. ASSUME NEW x \in lookups, NEW y \in lookups, x < y
          PROVE  n(x) < n(y)
      BY <1>1, <3>1, <3>2, LaterSeesMore
    <3>. HIDE DEF n
    <3>3. n(e) = n(f)
      BY <2>4, <2>9, <3>1
    <3>4. e < f \/ f < e \/ e = f
      BY <3>1
    <3>. QED
      BY <3>1, <3>2, <3>3, <3>4
  <2>10. {decisions[e].request.indicator : e \in lookups} = Client!Range(first)
    BY <2>7, <2>8 DEF Client!Range
  <2>. QED
    BY <2>9, <2>10
<1>2. LoopInit => QueriesInv
  BY DEF LoopInit, QueriesInv, ToolsAnswer
<1>. QED
  BY <1>1, <1>2, LoopInvariant, ProgressStays, PlanStays, CarryStays, ViewsAreTrue, QueriesStep, PTL
  DEF LoopSpec

=============================================================================

---------------------------- MODULE RunLifecycle ----------------------------
(***************************************************************************)
(* What one investigation run promises its caller, whatever planner, tools *)
(* and store it is given: steps are worked off one at a time in plan       *)
(* order, each is settled once, tool calls happen only inside an open step *)
(* and within the budget, and the run concludes once with a status its     *)
(* steps account for.  InvestigationRuntime implements this specification. *)
(***************************************************************************)
EXTENDS Integers, Sequences

CONSTANTS
  StepLimit,   \* how many steps a run may open
  CallLimit    \* how many tool calls a run may dispatch

VARIABLES
  phase,       \* lifecycle status of the run
  steps,       \* status of every planned step; <<>> before there is a plan
  spent        \* tool calls dispatched so far

lifecycleVars == <<phase, steps, spent>>

Settled(i) == steps[i] \in {"completed", "failed"}
NoneOpen == \A i \in 1..Len(steps) : steps[i] # "running"
AllCompleted == \A i \in 1..Len(steps) : steps[i] = "completed"

Init == phase = "initialized" /\ steps = <<>> /\ spent = 0

BeginPlanning ==
  /\ phase = "initialized"
  /\ phase' = "planning"
  /\ UNCHANGED <<steps, spent>>

AdoptPlan ==
  /\ phase = "planning"
  /\ phase' = "running"
  /\ steps' # <<>>
  /\ steps' = [i \in 1..Len(steps') |-> "pending"]
  /\ UNCHANGED spent

OpenStep(i) ==
  /\ phase = "running"
  /\ i <= StepLimit
  /\ \A j \in 1..(i - 1) : Settled(j)
  /\ steps[i] = "pending"
  /\ steps' = [steps EXCEPT ![i] = "running"]
  /\ UNCHANGED <<phase, spent>>

DispatchCall(i) ==
  /\ phase = "running"
  /\ steps[i] = "running"
  /\ spent < CallLimit
  /\ spent' = spent + 1
  /\ UNCHANGED <<phase, steps>>

SettleStep(i, result) ==
  /\ phase = "running"
  /\ steps[i] = "running"
  /\ steps' = [steps EXCEPT ![i] = result]
  /\ UNCHANGED <<phase, spent>>

\* Every step was completed, or the run stopped early or with failed steps.  The
\* budget may end a run between steps, or with the step it cut short.
Conclude(verdict) ==
  /\ phase = "running"
  /\ NoneOpen
  /\ CASE verdict = "completed" -> AllCompleted
       [] verdict = "failed" -> \E i \in 1..Len(steps) : steps[i] = "failed"
       [] verdict = "budget_exhausted" ->
            \/ \E i \in 1..Len(steps) : steps[i] = "failed"
            \/ \E i \in 1..Len(steps) : i > StepLimit /\ steps[i] = "pending"
  /\ phase' = verdict
  /\ UNCHANGED <<steps, spent>>

\* Planning failed, or an internal error was contained wherever it occurred.
Abort ==
  /\ phase \in {"planning", "running"}
  /\ phase' = "failed"
  /\ UNCHANGED <<steps, spent>>

Next ==
  \/ BeginPlanning
  \/ AdoptPlan
  \/ \E i \in 1..Len(steps) :
       \/ OpenStep(i)
       \/ DispatchCall(i)
       \/ \E result \in {"completed", "failed"} : SettleStep(i, result)
  \/ \E verdict \in {"completed", "failed", "budget_exhausted"} : Conclude(verdict)
  \/ Abort

Spec == Init /\ [][Next]_lifecycleVars
=============================================================================

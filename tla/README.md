# TLA+ models and proofs for ThreatHunter Agent

ThreatHunter Agent takes a security alert, lets a planner choose read-only investigation
tools step by step, runs them through an orchestration runtime with budgets and retries,
extracts evidence from what they return, and derives findings, a verdict and a report.
This directory holds TLA+ modules of that program, the TLC configurations that check them,
and TLAPS proofs. File and line references are to `src/app/` unless they say otherwise.

## 1. The system

The program is a library with command-line demos. One thread runs one investigation from
its alert to its report; nothing is asynchronous, and the only store keeps its states in
memory, so there is no crash recovery to model. What makes it hard is elsewhere: three
injected collaborators (planner, tool executor, store) may answer anything or raise at any
call; five limits and a retry policy interact; four records of the same events (state,
stored state, trajectory, decision trace) have to agree; a planner sees the run only through
a context that is cut to a length; and everything after the run depends on the order in
which results came, on which of them failed, and on joins between observation and knowledge.

```
 alert ─> InvestigationRuntime ──create_plan / decide_next_action──> planner (deterministic | LLM)
              │   │   └──save_state──> runtime store                   │  └─> context ─> LLM client
              │   └──execute──> ToolExecutor ─> security tools ─> dataset  └─> decision trace
              v
       InvestigationRun ─> evidence ─> summary ─> findings ─> verdict ─> report
```

| Component | State it keeps | Operations | What makes it correct | Here |
| --- | --- | --- | --- | --- |
| Investigation runtime `runtime/` | `InvestigationRuntimeState`, locals of `_drive` and `_execute_planned_tool_call`, trajectory, stored copy | `run`: plan, steps, calls, retries, stops, error containment | limits never overrun on any path; counters equal the history; settled records never reopen; status and stop reason accounted for; store and trajectory agree with the state; every run ends | modelled, except ids and event details; 15 theorems |
| Deterministic planner `agents/deterministic.py` | planned calls by step id | `create_plan`, `decide_next_action` | planned calls made in order, once each, in spite of retries | modelled; 3 theorems |
| LLM planner `agents/llm_planner.py`, `llm_budget.py`, `errors.py` | request counter, failure reason | `decide_next_action`: fall back, ask, validate, repair | requests bounded and traced; rejected answers never act; budgets agree with the runtime's; each of its runs is as good as the first | modelled; 7 theorems |
| Decision trace `agents/decision_trace.py` | entries | `record`, `correlate_trace_with_run` | one story with the trajectory; right call named | modelled; 3 theorems |
| LLM context `agents/context.py` | none | build the views and reduce them to the length limit | what is kept is coherent and true; reduction ends and is flagged | modelled; 2 theorems |
| LLM client `agents/llm_client.py` | none | one HTTP request | every failure is an `LLMClientError` | its outcomes are inputs of the planner |
| Tool executor, tools `tools/` | none | validate, filter, sort, limit | every error is a failed result; a search says when it is cut | modelled; 1 theorem |
| Evidence `evidence/` | accumulator of one extraction | collect indicators, read records, merge, link, warn | one item per identity, nothing lost, true provenance, tags that tell the links | modelled; 5 theorems |
| Run summary `reporting/` | none | observations, information gaps | each item in one observation or gap; no call silent | modelled; 2 theorems |
| Findings `findings/` | index of evidence | six rules | a finding rests on observed telemetry | modelled; 1 theorem |
| Verdict `verdict/` | none | rules in order, confidence | malicious only on observation, benign only when earned, partial runs cautious | modelled; 3 theorems |
| Reports `reports/` | none | put the parts together, evidence index | the report says what the evidence says | partly: Markdown and reloading are not |
| Demos `demo/` | the rule-based client keeps none | scripted decisions, assembly of loop and analysis | decisions follow the run and not what truncation left of it | partly: files and console text are not; 3 theorems |
| Schemas `schemas/` | none | record types | status and record shapes | partly: types of the models; format validators are not |
| Benchmark loader `benchmark/` | none | load, validate | consistency checks | not modelled |
| Service `main.py`, `core/` | none | `GET /health`, settings | | not modelled: no state |
| `db/ graph/ mcp/ rag/`, docker compose | | | | placeholders without code |

`PROJECT.json` lists the components, the source lines every definition stands for, the
hazards at their lines, the runs, mutants, findings and theorems.

## 2. Modules

| Module | Models | Kind |
| --- | --- | --- |
| `InvestigationRuntime` | `InvestigationRuntime.run` with an arbitrary planner, executor and store | state machine |
| `RuntimeProperties` | its invariants, action property, liveness and refinement mapping | properties |
| `RunLifecycle` | what a run promises its caller | abstract specification |
| `DeterministicLoop` | runtime + `DeterministicPlanner` | composition, with its properties |
| `LLMPlanner`, `Correlation` | one decision of `LLMPlanner`: requests, validation, repair, budget, trace; `correlate_trace_with_run` | components |
| `AgentLoop`, `AgentProperties` | runtime + `LLMPlanner`, one planner over several runs | composition |
| `CaseTools` | executor, request validators and the five tools over a case | operators |
| `PlannerContext`, `ScriptedClient` | the context builder; the rule-based client of the demo | operators |
| `ScriptedLoop`, `ScriptedProperties` | runtime + context + rule-based client + tools | composition |
| `Evidence` | the extraction, record by record, from the results of a run | state machine |
| `Gathering` | what the extraction promises, result by result | abstract specification |
| `Summary`, `Findings` | observations and gaps; the finding rules | operators on the evidence |
| `CaseAnalysis`, `CaseProperties` | extraction, summary, findings, verdict and report of one run | composition |
| `RuntimeProofs`, `LifecycleProofs`, `DispatchProofs` | theorems about `InvestigationRuntime` | TLAPS |
| `AgentProofs` | theorems about `AgentLoop` | TLAPS |
| `DeterministicProofs` | theorems about `DeterministicLoop` | TLAPS |
| `OrderingProofs` | places in an order: facts about counting that the two modules below use | TLAPS |
| `CaseProofs` | theorems about `CaseAnalysis` | TLAPS |
| `ScriptedProofs` | theorems about `ScriptedLoop` | TLAPS |
| `MCRuntime`, `MCDeterministic`, `MCAgent`, `MCScripted`, `MCAnalysis` | instances for TLC | |

Definitions named `Bug_...` stand directly before the definition they mutate; no
specification uses them. They document which programming mistake each property excludes.

### The runtime

`pc` is where `run` waits for a collaborator, and an action goes from one such point to
the next, ending with the save the code makes there. So `ExecutorFails(kind)` is the
status and counter updates, the appended result, the `tool_failed` event, the retry
decision, and the following `save_state`, all in the order of `runtime.py:490-555`.

| `pc` | Waiting for | Actions |
| --- | --- | --- |
| `starting` | first save, outside `try` (`:140`) | `StartRun` |
| `planning` | `create_plan` (`:171`) | `PlannerCreatesPlan`, `PlannerFailsToPlan` |
| `iterating` | top of the step loop (`:198`) | `StartStep`, `StepBudgetSpent`, `PlanFinished` |
| `deciding` | `decide_next_action` (`:332`) | `PlannerCompletesStep`, `PlannerFailsStep`, `PlannerRaises`, `PlannerCallsTool` |
| `dispatching` | budget check of an attempt (`:411`) | `DispatchCall`, `DispatchBlocked` |
| `executing` | `execute` (`:457`) | `ExecutorSucceeds`, `ExecutorFails`, `ExecutorRaises` |
| `finishing` | end of the step (`:298`) | `FinishStep` |
| `stopping` | `_terminate_for_stop_reason` (`:598`) | `StopRun` |
| `containing` | the `except` clause of `run` (`:151`) | `ContainError` |
| `returned`, `leaked` | nothing: result handed back, or the exception reached the caller | `Finished` |

Abstractions: ids are positions in the history (`TC-` and `TR-` ids are handed out in that
order); timestamps, arguments, payloads and event details are left out; a call keeps its
step and status, a result its call and success; a failed result is one of the three kinds
`classify_tool_failure` tells apart. A plan is any non-empty sequence of step ids, with an
id twice if the planner likes, as `InvestigationPlan` allows. When `StoreMayFail`, every
`save_state` may raise and unwinds to the handler the code has at that place. Planner
decisions that do not concern the current step cannot be expressed, as in the code.

### The planners

`DeterministicLoop` fixes plan and decisions: the planner counts the successful results of
the step and asks for the planned call after them. The alert decides how many calls a
template holds (`TemplateSizes`); `asked` records which planned call a tool call carries
out, which the code stores as tool name and arguments. One run is modelled.

`LLMPlanner` gives each request its outcome: an answer of any form `_validate` tells apart,
an `LLMClientError`, another exception (`ClientMayCrash`), or the refusal of an exhausted
`LLMBudget`. Its `budget_exceeded` rejection cannot happen, since both budgets were checked
before the request, and is left out. In the skeleton each step has exactly one allowed tool
(`ALLOWED_TOOLS_BY_STEP_ORDER`), so the branch for steps without tools is left out and the
step alone is the pairing key of `Correlation`. `AgentLoop` lets the planner serve one run
after another with the same tracker and recorder, which the public interface allows; the
demos build a new planner per run. `last_failure_reason` is reduced to its class; `Trace`
keeps the fields the properties tell apart.

`ScriptedLoop` is the other half: requests always succeed, and what is shown to the client
and decided by it is modelled. `BuildContext` is `AgentContextBuilder.build` up to the length
check, `ReduceContext` one round of `_enforce_character_limit`, `ClientDecides` the answer of
the rule-based client (`demo/llm_investigation.py`). A length counts entries, records and
values instead of characters, so `builder.length` says how many of them fit; of the
indicators and the values of a query only the number is kept. The indicators observed are put
in order by position, as matches are below: the n-th is the value with n - 1 values whose first
occurrence is earlier. `decisions` is a history of what was shown when what was decided. The tools answer from the case (`ToolAnswers`), or
raise inside the executor (`ToolFails`), or the executor itself raises (`ExecutorRaises`).

### Tools and evidence

A record of the dataset is a TLA+ record with its class, id, rank in its collection's sort
order, and the fields that are set; texts are tokens, and `Folded` maps spellings that
`casefold` makes equal. A filter is a set of fields compared (`Passes`), a text search is
membership of its needle in the record's `texts`. `Ordered` puts the matches in order by position: the
n-th record is the one with n - 1 records below it. Ranks are distinct: telemetry ids are unique, and
Python's sort leaves equal knowledge keys in the order of the file. `Answer` is `ToolExecutor.execute`: unknown
tools, rejected requests and tool errors all give the same failed result.

`Evidence` reads the results of a finished run in order, one action per result opened or
skipped and one per record: `RejectRecord` is the validation error of a single record,
`TakeRecord` the deduplication with its tags, links and reference. A run is an environment
here: calls are made in any order, each with its answer, with a failed result or, if the
executor raised, with none. That covers what the runtime can hand over
(`ResultsTraceToCalls`, proved) and more: there, only the last call can lack its result. The
executor's answers are `AnswerTo`, so they may also be ones the shipped executor does not
give, such as a payload that is no object or a record that does not validate. Evidence
types and ids are computed, not stored: an id is the position, and `sort_references` leaves
the order alone, which `ReferencesTrace` shows.

`CaseAnalysis` continues in the order of `demo/final_report.py`: the run ends with an
outcome, the extraction runs to its end, then `Summarise`, then `BuildReport`. Findings are
a set, since rule order only numbers them; a finding is its type, severity, support, cited
evidence and named indicators. The wording of titles, descriptions, rationales and
limitations is left out.

## 3. What is checked

Deadlock is checked in every run; a returned run stays where it is (`Finished`, `LoopEnds`,
`Reported`). Every property of a passing run has a mutant in `PROJECT.json` by which TLC
finds it violated.

| Run | Configuration | States | Shows |
| --- | --- | --- | --- |
| `budgets` | `MCRuntime_budgets` | 135,541 | types, counters, limits, result hand-off, call stories, justified dispatches, no step completed on a failure, nothing settled reopens, every run returns stored |
| `store` | `MCRuntime_store` | 19,234 | with any save failing: verdict, final event, stored history, store current at rest, open steps only from contained errors, refinement of `RunLifecycle` |
| `decisions` | `MCAgent_decisions` | 258,952 | two runs: planner trace, repairs, runtime decisions and calls agree in each; call budgets end a run only in a retry |
| `requests` | `MCAgent_requests` | 68,048 | two runs: requests traced, failures explained, each run returns |
| `template` | `MCDeterministic_template` | 11,385 | planned calls made in order and completely; no shortfall without a cause |
| `context` | `MCScripted_context` | 8,185 | two queries a step and observed indicators looked up once, unless the context shows less; kept results have their calls; query outcomes are true; every run returns |
| `case` | `MCAnalysis_case` | 346,210 | evidence complete, once each, with true references and tags, refinement of `Gathering`; summary and gaps cover evidence and calls; findings grounded; verdicts earned |
| `raises`, `retrynames`, `untraced`, `cap`, `unflagged` | | | violated on purpose, see section 6 |

**Bounds.** The runtime has no parameter beyond its limits, so an instance is a choice of
limits, plan length and step ids. In `budgets` a plan has up to three steps from two ids,
so one id occurs twice and two steps share one per-step allowance; five calls, four per
step, four failures and three attempts let each call and failure limit bind first, allow two
retries of one decision, and allow the fourth attempt that an off-by-one would make. `store`
has fewer calls and `MaxSteps = 2` under three planned steps, so the step limit stops runs;
both retry switches are on. `decisions` puts the per-step limit below the total, so each can
bind; a run of two steps is followed by one of a third step, so that the trace the second
is matched with starts with entries of the first, and four requests include a repair in each
step and an exhausted request budget. `requests` needs a second run to exhaust the request budget where the first left it.
`template` uses three of the five steps, with templates of no, one and two calls, and limits
that bind in some behaviours and not in others. `context` has all five steps, two alerts, and
six builders: limits that never bind, a history of two, a history of zero (a slice from `-0` on,
which cuts nothing), two lengths that force reduction and one below the part that cannot be
reduced. `case` takes any three calls of fifteen
(`MaxCalls`), at most one of them raising (`MaxUnanswered`), over a case of two suspicious
hosts and one quiet one; three calls suffice for each rule, each merge of two results, a
technique read before and after the report that links it, and each branch of the verdict;
one search matches one record more than the search limit of three, the others fewer. Step
ids are symmetric in `store` and `raises` (ids are only compared); runs with a liveness
property use no symmetry. Behaviours end by themselves under the limits, no state
constraint is used.

**Fairness.** `FairSpec`, `FairAgentSpec` and `FairLoopSpec` assume weak fairness of the
whole next-state relation: the one thread keeps running. It says that planner, executor and
store return or raise; model requests carry a timeout (`llm_planner.py:236-240`) and tools
read local files. No particular answer is assumed to come: planner and model may ask for
tools and give invalid answers for ever, and only budgets end the run. In `context` it says
too that the reduction loop comes to its end, although the limit may be out of reach.
`RunIsAnswered`, `RunsAreAnswered` and `ScriptedRunIsAnswered` are checked with a store that
works, because of the finding `raises`.

**Worth knowing when reading the properties.** `TagsTellLinks` states what the tags tell in
any order of calls, occurrence by occurrence: an item has a tag exactly if one of the records that
were merged into it earned that tag when it was read, so a technique read before the report that
links it keeps *both* tags. Such
an item is hidden from the observations and reported as unlinked knowledge, which
`ObservationsPartitionEvidence` pins down. A behaviour finding with a script interpreter
is linked to any malicious address, whoever made the connection (`verdict/engine.py:288`);
`MaliciousIsObserved` says what remains of the cross-source bar. The query history lists
every search of threat knowledge as empty, since its records carry no key that counts as an
indicator (`QueryOutcomesAreTrue` has it as an exception).

## 4. What is proved

For every value of the constants that satisfies the named assumptions. About the runtime
(`StepAssumption`, `LimitAssumption`, `PolicyAssumption`, `NoneAssumption`: limits are
positive naturals as `budget.py` and `retry.py` demand, step ids are not empty and differ
from `None`, `None` is no stop reason):

| Theorem | States | From |
| --- | --- | --- |
| `TypeCorrect` | `Spec => []TypeOK` | `TypeInv` |
| `CountersCorrect` | `Spec => []CountersMatchHistory` | `TypeInv`, `HistoryStep` |
| `BudgetsHold` | `Spec => []BudgetsRespected` | `CountersCorrect`, `BudgetInv` |
| `StoreCurrent` | `Spec => []StoreIsCurrentAtRest` | `TypeInv`, `StoreStep` |
| `StoredSettled` | `Spec => []StoredHistoryIsSettled` | `CountersCorrect`, `StoreStep` |
| `SettledStaysSettled` | `Spec => SettledNeverReopens` | `TypeInv`, `StepsInv`, `CountersCorrect` |
| `ResultsTrace` | `Spec => []ResultsTraceToCalls` | `CountersCorrect`, `HandoffInv` |
| `FinalEventCloses` | `Spec => []FinalEventClosesTrajectory` | `TypeInv`, `TrajectoryStep` |
| `RunsAreBounded` | `Spec => RunIsBounded` | `TypeInv`, `CountersCorrect`, `BudgetInv`, `EffortStep` |
| `RuntimeImplementsLifecycle` | `Spec => ImplementsLifecycle` | `CountersCorrect`, `StepsInv`, `WorkInv`, `PhaseInv` |
| `OpenStepsContained` | `Spec => []OpenStepsAreContainedErrors` | `StepsInv`, `WorkInv`, `OpenInv` |
| `VerdictAccounted` | `Spec => []VerdictMatchesHistory` | `BudgetInv`, `WorkInv`, `PhaseInv`, `ReasonInv` |
| `CompletedStepsSucceed` | `Spec => []CompletedStepsEndOnSuccess` | `StepsInv`, `HandoffInv`, `CallsInv` |
| `DispatchesFollow` | `Spec => []DispatchesAreJustified` | `BudgetInv`, `AskedInv`, `RetryInv`, `AttemptInv` |
| `StoriesTold` | `Spec => []CallsHaveOneStory` | `CountersCorrect`, `HandoffInv`, `StoryInv` |

The argument is layered. `TypeOK` alone is not inductive: indexing the plan, the step
statuses and the last call needs `Control`, which ties `stepsStarted` to the plan and `pc`
to the existence of a current step and of a call in flight; `TypeInv` is both. `HistoryStep`
then reduces all actions to three effects on the tool history: none, a call
dispatched, the call in flight answered. `CountersMatchHistory` is inductive over those
effects. The budgets need more: between two checks the code relies on what the last check
established, so `BudgetInv` adds that the attempts of the current decision stay below the
retry limit wherever another attempt may start, and that failures stay below their limit while a
call is in flight. The store theorems use `StoreStep`: a step leaves the store alone, copies
the new state into it with no call in flight, or makes the very first save. `StepsInv` says
steps open in plan order, hence a step that is opened or finished was pending or running.

That a run ends is liveness, but all of it except "the thread keeps running" is a safety
property, and it is proved: `Effort` counts the steps and calls that the budgets leave, weighted with
the actions they can cost, and adds the distance from the place in the code to the end of the step or of
the run (`Distance`). Every action lowers it (`EffortStep`), the two budgets keep it from becoming
negative (`EffortIsLeft`), and it begins at `5 * MaxSteps + 3 * MaxToolCalls + 4`, so a run is over
after at most so many actions, whatever planner, executor and store do (`RunIsBounded`).
Failures and retries do not enter: each of them is a call. TLC checks `RunIsAnswered` itself.

`ResultsTraceToCalls` is inductive only with the reason why a call without a result is the
last one: `HandoffInv` adds that, once an executor has raised, the step's outcome carries a
stop reason, so that no further call is made. `TrajectoryStep` reduces all
actions to three effects on the trajectory: nothing recorded, events of the run recorded,
the final event recorded on the way to `returned`. The refinement needs what the lifecycle
takes for granted: `WorkInv` says that every step before the current one is settled, that
`failedSteps` counts some failed step, and that a run which stops has just failed a step;
`PhaseInv` says which status the state has at which place of the code. `LifecycleStep` then
maps each action to `BeginPlanning`, `AdoptPlan`, `OpenStep`, `DispatchCall`, `SettleStep`,
`Conclude`, `Abort` or a stutter. `OpenInv` carries the one thing that outlives the run:
a step that is still running when the run has returned was left by a runtime error.

What a run returns is decided places away from what justifies it: the reason of a stop is
made in the call handling, travels in the outcome of the step, and becomes the status of
the run only after the step is settled. `ReasonInv` says that an outcome on its way carries
a reason which the history bears out, and `VerdictInv` that the status and stop reason do.
`CallsInv` follows the latest call of each step id: it succeeded, or some step of that id is
to blame for it, because it failed or is still being worked on. A completed step cannot be
that one, which gives `CompletedStepsEndOnSuccess`.

What leads to a call is scattered over the trajectory. `EventStep` reduces the actions of the
runtime to five effects on it: nothing, a decision, a call, a failure with its retry, one other
event. `AskedInv` then says that whoever is about to dispatch has just recorded the decision or
the retry it carries out; `RetryInv` that a retry which is the last event is about to be made,
was blocked by a budget or was lost to a failing save; and `AttemptInv` counts the calls since
the last decision against `attempts`, which `BudgetInv` keeps below the limit. `StoryInv`
says of each call where its events stand: in one block of the trajectory, which for a running
call is still open at the end, so that the next event about it (`ToldOnce`) lengthens this
block and no other.

About the two planner loops, for every skeleton and template (besides the above
`SkeletonAssumption`, `BudgetAssumption`, `RejectionAssumption`: the skeletons are plans, the
request limit is a positive natural and the repair limit a natural, `None` is no rejection;
`FreshStepsAssumption`: no step belongs to the plans of two runs, as one id counter numbers
all steps of a planner (`ids.py`), needed because its trace is kept over all its runs;
`TemplateAssumption`: the steps of the plan are distinct and their templates have sizes):

| Theorem | States | From |
| --- | --- | --- |
| `LimitsHoldInEveryRun` | `AgentSpec => []BudgetsRespected` | `RunsInv` |
| `EveryRunIsSound` | `AgentSpec => []` of nine properties of the runtime | `EveryRunInv` |
| `LoopImplementsLifecycle` | `AgentSpec => RunAfterRun` | `EveryRunInv`, `LifecycleStep` |
| `AllRunsEnd` | `AgentSpec => RunsEnd` | `RunsInv`, `RepairInv`, `EffortStep` |
| `RepairsFollow` | `AgentSpec => []RepairsFollowRejections` | `RunsInv`, `RepairInv` |
| `CallBudgetsStopRetries` | `AgentSpec => []CallBudgetStopsOnlyRetries` | `RunsInv`, `BlockInv` |
| `FailuresAreExplained` | `~ClientMayCrash => (AgentSpec => []PlannerFailureExplained)` | `RunsInv`, `FailureInv` |
| `RequestsTraced` | `~ClientMayCrash => (AgentSpec => []EveryRequestIsTraced)` | `RepairInv`, `TraceStep` |
| `DecisionsMatch` | `AgentSpec => []DecisionsMatchTrajectory` | `RunsInv`, `RepairInv`, `PlanInv`, `MatchInv` |
| `CallsNamed` | `AgentSpec => []CallsNamedWithoutRetries` | `MatchInv`, `NamesInv` |
| `ShortfallsExplained` | `LoopSpec => []ShortfallHasACause` | `RunInv`, `CauseInv` |
| `TemplatesFollowed` | `LoopSpec => []CallsFollowTemplate` | `RunInv`, `TemplateInv` |
| `PlannedRunsAreRuns` | `LoopSpec => Spec /\ ImplementsLifecycle` | `LoopSteps`, `RuntimeImplementsLifecycle` |

A step of either loop is a step of the runtime, or begins the next run (`AgentSteps`,
`LoopSteps`), so what is inductive for the runtime is inductive for the loop (`RunsInv`,
`RunInv`). `EveryRunInv` uses this for the invariants of the first table: all of them hold in
each of the runs that one planner serves, the later ones beginning with the request counter and
the trace of the earlier ones. `RunAfterRun` says what a caller sees of it: run
after run goes through `RunLifecycle`, and the next begins only when the one before has ended
with a terminal status, and with nothing left of it. `AllRunsEnd` carries the bound over: a
step of the loop begins the next run, lowers the effort of the run in progress, or leaves the
runtime alone and is a repair request, of which a decision has at most `MaxRepairs`. Without the last
case the statement is false, as TLC shows. `RepairInv` says that a repair which is due belongs to the decision being made,
that the model may still be asked for it, and that the entry traced last is the rejection;
without it a fallback could come between a rejection and its repair. `BlockInv` follows the
reason of a blocked call to the end of the run: wherever the budget may block, the last event
is the scheduled retry, and each station on the way adds one event. It rests on the planner
looking at both call budgets before it asks, so only a retry can meet them. `FailureInv` keeps
the planner's reason from its exception to the return of the run; it needs a client that
raises nothing but `LLMClientError`, as the finding `untraced` shows.

Four lists of the same events have to agree here: requests, trace, decisions in the
trajectory, calls. They are compared by rank: an element of a list belongs to the one of another
list that has as many before it (`Before`, `ChosenUpTo`, `CalledUpTo`), and the counting lemmas
(`BeforeStays`, `BeforeTells`, `CountsGrow`, ...) say how a rank changes when a list grows at its end.
`TraceStep` reduces all actions of the loop to three effects on the trace: the decision
returned (asked for or fallen back to), a rejected answer, nothing. `PlanInv` says that the current run works on its own
skeleton and that the trace holds steps of this run and of earlier ones only, so the entries
of earlier runs have no step in common with this one. `MatchInv` pairs the k-th decision
with the k-th decision event and adds what the runtime still owes: if nothing follows the
last decision event yet, the runtime is on its way to what was decided (`Awaited`).
`NamesInv` pairs, while nothing is retried, each call with the decision of the same rank in
its step that asked for it. It holds in three forms: usually each decision for a call has one
(`AllAsked`); while the runtime dispatches, the entry traced last waits for its call
(`LastWaits`); and once a run is about to stop without having made the call, the decisions left over
come after all that have theirs (`RestUnasked`).

`TemplateInv` ties the
position that the deterministic planner counts from the results to the calls that succeeded:
`CountIsPosition` shows the two equal, since while the planner decides each call has its one
result (`HandoffInv`, from the runtime). A later step leaves a completed one alone because no
two steps share an id, which is where `TemplateAssumption` is needed.

About the loop of the rule-based client (besides the above `CaseAssumption`, that is
`CaseTools!WellFormed`: the dataset is what the loader accepts, a finite set of records in each
collection, of its class, with the fields its schema requires and a place of its own in the
order; `BuilderAssumption`: the limits of a context builder are naturals; `ViewAssumption`: so is the number
of records that a view holds; `SkeletonAssumption`), for
every case, alert and builder:

| Theorem | States | From |
| --- | --- | --- |
| `ShownHaveCalls` | `LoopSpec => []ShownResultsHaveTheirCalls` | `LoopInv`, `ReducedShows` |
| `StepLimit` | `LoopSpec => []StepLimitHolds` | `LoopInv`, `ProgressInv`, `ThreeInOrder` |
| `QueriesTold` | `LoopSpec => []QueryOutcomesAreTrue` | `LoopInv`, `QueriesInv`, `OrderedIsOf` |
| `LookupsFollow` | `LoopSpec => []LookupsFollowObservation` | `ProgressInv`, `PlanInv`, `CarryInv`, `ViewsInv`, `QueriesInv`, `PlaceTaken` |
| `ScriptedRunsAreRuns` | `LoopSpec => Spec /\ ImplementsLifecycle` | `LoopSteps`, `RuntimeImplementsLifecycle` |

Here too a step of the loop is one of the runtime or leaves the runtime alone (`LoopSteps`), so
`RunInv` is inherited. It says of the runtime's own history what the planner's lists have to be
measured against (`HistoryTold`): while the planner decides, every call has its one result and the
k-th result answers the k-th call. A context then shows (`Shows`) the last calls and the last
results of the history up to some point, and never more results than calls. `BuiltShows` is
the cut of `build`, which takes equally many of both, and `ReducedShows` one round of the reduction,
which drops a result before it drops a call; if the order were the other way round, this is the
lemma that would fail. `DecisionsInv` keeps for each decision the context it was made from, while
the history grows on. For the limit of a step, three decisions for calls of one step are put in
order (`ThreeInOrder`); `ProgressInv` says that each but the last has made its call before the next
was made, so two calls lie before the third, and a context that shows them stops the client
(`ClientCounts`). `QueriesInv` says that each entry of the query history has the outcome of the
result it names; what an outcome says of the records needs that a record found has
an indicator (`FoundOf`, `RecordsIndicate`), which is where `CaseAssumption` is used.

`LookupsFollow` is about a list that the client makes anew for each decision and indexes with a
count of its calls: the run and the list go on between two decisions, so it is not evident that the second
lookup takes another indicator than the first. It needs the most of what is known about this
loop. `CarryInv` says that calls and decisions correspond while nothing has failed: each call
carries out a decision of its step, made when exactly the calls before it were made, and what is
about to be dispatched was the last decision. It says too that once a step has decided, no earlier step
makes a call, since the steps of the plan are taken in order (`PlanInv`). So the later results
are of lookups and knowledge searches, and those hold no connection in which an indicator is observed
(`NoConnections`, `ObservedBefore`). `ViewsInv` says that each result shown in a context,
however often reduced, is the view of the result of its call. Hence all decisions of the step
that show all results index the same list (`ObservedListed`, `NextIndicator`). A step that has ended has called, for each index up to the number of its calls, at
that index: `NumberTaken` finds the call with so many before it, and
`LaterSeesMore` tells two decisions apart by the number of calls before them, hence by their
indicator, since no indicator is listed twice (`ObservedOnce`).

About the analysis (`FoldAssumption`: folding is idempotent and leaves no text empty;
`DataAssumption`: `WellFormed`, as above; `ValidAssumption`: the extraction validates with the
schemas that the dataset was loaded with (`extractor.py:32`); `AnswersAssumption`: the lists of a
readable payload are sequences of records, each of the class that its list is read as, and a
reputation has an indicator), for every case, every set of requests with any answers, and every
order of calls:

| Theorem | States | From |
| --- | --- | --- |
| `ReferencesTrue` | `CaseSpec => []ReferencesTrace` | `EvidenceInv` |
| `NothingLost` | `CaseSpec => []NothingIsLost` | `EvidenceInv` |
| `EvidenceGrows` | `CaseSpec => EvidenceOnlyGrows` | `EvidenceInv`, `AccumulateEffect` |
| `FindingsGrounded` | `CaseSpec => []FindingsAreGrounded` | `CaseInv`, one lemma per rule |
| `PartialRunsAreCautious` | `CaseSpec => []PartialRunsStayCautious` | `CaseInv`, `VerdictCases` |
| `MaliciousObserved` | `CaseSpec => []MaliciousIsObserved` | `CaseInv`, `IndicatorShown` |
| `BenignEarned` | `CaseSpec => []BenignIsEarned` | `CaseInv`, `NoGapsNoFailures` |
| `ObservationsPartition` | `CaseSpec => []ObservationsPartitionEvidence` | `CaseInv`, `SummaryTrue`, `OneSection` |
| `NothingPassesInSilence` | `CaseSpec => []NoCallIsSilent` | `CaseInv`, `WarnedInv` |
| `TagsTrue` | `CaseSpec => []TagsTellLinks` | `EvidenceInv`, `TagsInv` |
| `SearchesComplete` | `CaseSpec => []SearchesAreComplete` | `EvidenceInv`, `OrderedHasAll` |
| `EvidenceImplementsGathering` | `CaseSpec => ImplementsGathering` | `GatherInv`, `Booked`, `GatheringStep` |

`EvidenceInv` is types, `Control` (nothing is extracted while the run goes on; what is
pending comes from the result opened last), `AllDistinct` (two items are two identities),
`ReferencesTrace`, and `NothingDropped`: `NothingIsLost` speaks of the end only, so the
invariant says of each result opened so far that its valid records are pending or kept. The
central lemma is `AccumulateEffect`: deduplication adds one item, or one reference to one
item. `CaseInv` adds that telemetry is tagged as such and that summary and report say what
the finished evidence says (`ReportTrue`); with it, the theorems about findings and verdict
are facts about the rules applied to evidence that no longer changes. For the summary,
`OneSection` says that each item is of the kind of one section of the builder and of no two;
and `WarnedInv` keeps the books on what is skipped: of each result opened so far, an
unreadable payload, a missing list and an invalid record that is no longer pending has a
warning. A call without evidence, warning or failure then has only empty lists, and the
rules for gaps name it.

The tags depend on the order of calls through `linkedTechniques`, which the extraction fills as it
reads. `TagsInv` says what it holds at any point: exactly the techniques of the tied reports that
have been read (`TechniquesKnown`). This is enough when a technique is read because the
reports of a payload come before its techniques (`TechniquesLast`, from `ClassesInOrder`), so no report
of the result at hand is still pending then; with the two lists the other way round, the tags
would depend on where in a payload the report stands. `LinksTold` keeps the books on the tags of
the items, in both directions, for the occurrences read so far. `LinkedIsTied` connects what
the extractor asks of one record with what the property says.

That a search which does not report a cut has brought everything rests on its order being
complete: no match is left out and none comes twice when matches are sorted. `OrderingProofs` shows it
by counting, for any relation that orders a finite set: fewer elements precede an element than there
are (`PrecedingCounts`), more precede a later one (`LaterHasMore`), so each position is taken
(`PlaceTaken`). For records and their ranks it follows that all are in the sequence
(`AllInOrder`); for the numbers of calls and the occurrences of indicators, the same facts serve
`LookupsFollow`. This is why `Ordered` and `ObservedIndicators` are defined by position and not by a sort.

The refinement of `Gathering` needs the two books at once: what is known and what is doubtful.
`WarnedInv` says that what is skipped has a warning; `GatherInv` adds the converse, that there
is a warning only about a result which was opened and is flawed (`WarningsTrue`), and that a
result answers a call that was made (`AnswersCalls`), so later calls change nothing about it
(`EarlierStay`). `Booked` draws the conclusion for the results read in full: the items and
references say exactly what those results show, the warnings exactly which of them are
flawed. Then a step of the extraction either leaves the number of results read in full
alone, and with it all that `Gathering` shows, or raises it by one and is `ReadResult`
(`ReadingGathers`).

TLC checks these formulas on the same definitions first; a theorem covers all plan lengths,
limits, policies, cases and orders at once.

Every safety invariant and every action property that a run checks is a theorem. **Only
model-checked** is liveness under fairness (`RunIsAnswered`, `RunsAreAnswered`,
`ScriptedRunIsAnswered`), which is out of the prover's reach; of the first two, `RunsAreBounded` and
`AllRunsEnd` prove the part that is safety. For `ScriptedRunIsAnswered` this
would need that the reduction of a context runs out of things to drop, and with that what filtering and
flattening of sequences and the lengths of `PlannerContext` compute. They are defined by
recursion, and reasoning about that takes induction over data, which the provers cannot do either.
The proofs about `ScriptedLoop` hold for any such lengths.

## 5. Refinement

`RunLifecycle` has three variables: the phase of the run, the status of its steps, the
calls spent. Steps are opened in order, settled once, calls are made inside an open step
within the limit, and a conclusion is accounted for by the steps. The mapping
(`RuntimeProperties!Lifecycle`) takes them from the runtime's state, with one point that is
easy to get wrong: `_terminate` sets the terminal status before it saves, so while an error
is being contained the status in the state is not yet what the caller gets. The mapping
shows a phase only once `run` has returned it. TLC checks the refinement with every save
failing, and `RuntimeImplementsLifecycle` proves it. The loops of the two planners that use
the runtime's actions unchanged are runs of it (`PlannedRunsAreRuns`, `ScriptedRunsAreRuns`),
so they keep the same promises. `AgentLoop` has several runs, so its mapping starts anew with
each: `RunAfterRun` is `RunLifecycle` with one more step, from the end of a run to the initial state of
the next, and `LoopImplementsLifecycle` proves it.

`Gathering` has five variables: the facts each result holds and whether it is flawed, whether
the run is over, how many results are read, the facts known, the results with a warning. A
result is read in one step. In `Evidence` that takes one step per record, merges records into
items that other results showed already, and leaves warnings one by one; so the mapping
(`CaseProperties!Extraction`) counts a result once nothing of it is pending, takes as known the
identities of the items with the results that their references name, and looks at
references and warnings of these results only. It follows that a malformed record costs nothing
but itself and that reading order and deduplication are not seen from outside. TLC checks
it in `case`, where a payload has an invalid record before a valid one, and
`EvidenceImplementsGathering` proves it. `NothingIsLost` is what the refinement and
`EvidenceOnlyGrows` come to when the extraction has ended; it is proved (`NothingLost`) and has
no run of its own.

## 6. Where code and comments disagree

| Run | Comment | Code |
| --- | --- | --- |
| `raises` | `runtime.py:130` "(never raises)" | a store that raises in the first save (`:140`), or again while the error handler terminates the run (`:646`), makes `run` raise |
| `retrynames` | `decision_trace.py:4` "the resulting `tool_call_id`" | after a retry, the step's next decision is given the retry's call, since pairing is by rank and no decision asked for the retry. Without retries the pairing is right (`CallsNamedWithoutRetries`) |
| `untraced` | `decision_trace.py:3` "Every model request produces one immutable trace entry" | an exception of the client other than `LLMClientError` (a response body cut short, a connection reset while reading it) leaves a counted request without entry. Without such exceptions every request is traced (`requests`) |
| `cap` | `verdict/engine.py:19-20` "its confidence is capped at medium" | a run that stopped early and holds a correlated finding of medium or higher severity is suspicious with high confidence: the escalated branch (`:132-158`) does not look at whether the run completed. What the other branches keep is `PartialRunsStayCautious` |
| `unflagged` | `context.py:14-15` "always flagged with `truncated=True`" | calls and results beyond `max_history_results` are cut before the length is looked at (`:240-244`), and nothing flags that cut |

Also met while modelling, without a property of its own: the exception of `untraced` leaves
`last_failure_reason` unset or stale; `LLMBudgetTracker.reset`, meant for a tracker that
"serves several runs", has no caller, so a reused planner counts requests over its lifetime
(both are behaviours of the model); `runtime.py:10` says "every step completes or fails",
and `OpenStepsAreContainedErrors` is what holds of it.

## 7. Not modelled

- **LLM client** and the HTTP boundary: no state; its outcomes are inputs of `LLMPlanner`.
- **Benchmark loader** and dataset schemas: reading and validating JSON once, in no order
  that matters; the records they return are `Data` of `CaseTools`.
- **Ids and event details**: `SequentialIdGenerator` counts up and is read as positions;
  `sanitize_details` and `sanitize_text` shape text. Two runtimes with default generators on
  one store would use the same incident id, but nothing in the repository shares a store.
- **Markdown, console output and files** of reports and demos; reloading a saved report,
  which is schema validation.
- **Wording**: titles, summaries, rationales, limitations; `candidate_count` of the extraction
  and the list of skipped indicators, which only the console shows or nobody reads.
- **Format validators** of the schemas, the health endpoint, the empty packages.

## 8. Plan

All safety properties and all refinements are proved. Left to prove: a bound on the scripted
loop like the ones in `RunsAreBounded` and `AllRunsEnd`, should the provers learn to reason about
recursive definitions. Left to model: a planner of `DeterministicLoop` that serves several runs, and
the reloading of saved reports, should it come to do more than validation.

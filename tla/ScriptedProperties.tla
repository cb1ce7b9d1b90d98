------------------------- MODULE ScriptedProperties -------------------------
(* What the loop of the rule-based client must be true to. *)
EXTENDS ScriptedLoop

Calls(d) == decisions[d].action = "call_tool"
CallDecisions(step) == {d \in DOMAIN decisions : decisions[d].step = step /\ Calls(d)}
ShownCalls(d) == {view.call : view \in Client!Range(decisions[d].context.calls)}
StepCallsAt(d) == {c \in 1..decisions[d].calls : asked[c].step = decisions[d].step}

\* What a decision's context shows of the history: all calls of its step, or all
\* results of the run.
ShowsStep(d) == StepCallsAt(d) \subseteq ShownCalls(d)
ShowsResults(d) == Len(decisions[d].context.results) = decisions[d].results

\* "Up to two" queries a step (llm_investigation.py:66-78): a step decides on more
\* only where the context had lost calls of the step, which the client counts.
StepLimitHolds ==
  \A step \in StepId : Cardinality(CallDecisions(step)) > Client!MAX_CALLS_PER_STEP =>
    \E d \in CallDecisions(step) : ~ShowsStep(d)

\* The indicator step looks up the first two indicators that the run has observed,
\* each once, if no call failed and no decision of it lacked a result: the client
\* indexes a list that it makes anew for each decision.
LookupsFollowObservation ==
  \A d \in DOMAIN decisions :
    LET lookups == CallDecisions(4)
        observed == Client!ObservedIndicators(
          [n \in DOMAIN answered |->
            Client!Oldest(Client!RecordsOf(answered[n].answer, asked[answered[n].call].request.tool),
                          MaxRecords)]) IN
    /\ decisions[d].step = 4 /\ ~Calls(d)
    /\ \A e \in lookups \cup {d} : ShowsStep(e) /\ ShowsResults(e)
    /\ \A n \in DOMAIN answered : answered[n].answer.success
    => /\ {decisions[e].request.indicator : e \in lookups} = Client!Range(Client!Oldest(observed, 2))
       /\ \A e, f \in lookups :
            decisions[e].request.indicator = decisions[f].request.indicator => e = f

\* Reduction keeps the newest results, and the call of every result it keeps: the
\* client finds the records of its step through the calls.
ShownResultsHaveTheirCalls ==
  \A d \in DOMAIN decisions :
    LET shown == decisions[d].context IN
    /\ \A view \in Client!Range(shown.results) : view.call \in ShownCalls(d)
    /\ \A n \in DOMAIN shown.results :
         shown.results[n].call =
           answered[decisions[d].results - Len(shown.results) + n].call

\* The query history tells what the results were: failed and unknown are never
\* taken for empty, and an empty query brought no record, except searches of
\* threat knowledge, whose records name no indicator and are always listed empty.
QueryOutcomesAreTrue ==
  \A d \in DOMAIN decisions : \A query \in Client!Range(decisions[d].context.queries) :
    \A n \in {n \in DOMAIN answered : answered[n].call = query.call} :
      LET tool == asked[query.call].request.tool
          records == Client!RecordsOf(answered[n].answer, tool) IN
      /\ query.outcome = "failed" <=> ~answered[n].answer.success
      /\ query.outcome = "records" => records # <<>>
      /\ query.outcome = "empty" => tool = "search_cti" \/ records = <<>>

\* The client's counting and the builder's reduction come to an end: every run
\* that starts is answered, whatever fails and however little the context shows.
ScriptedRunIsAnswered == pc = "starting" ~> pc = "returned"

\* context.py:14 of truncation: "always flagged with truncated=True". Calls and
\* results beyond max_history_results are dropped without the flag.
TruncationIsFlagged ==
  \A d \in DOMAIN decisions :
    ~ShowsResults(d) => decisions[d].context.truncated
=============================================================================

--------------------------- MODULE PlannerContext ---------------------------
(***************************************************************************)
(* What the model-driven planner is shown of a run (app/agents/context.py):*)
(* views of the last calls and results, the queries made so far, and the   *)
(* indicators, failures and empty results of the views, reduced until the  *)
(* whole fits.  One entry, record or value is one unit of length; of the   *)
(* indicators and the values of a query only the number is kept.           *)
(*                                                                         *)
(* asked is the sequence of the run's calls, each with its step and its    *)
(* request; answered that of its results, each with its call and answer.   *)
(***************************************************************************)
EXTENDS CaseTools

CONSTANTS
  MaxRecords,      \* MAX_RECORDS_PER_RESULT, also the builder's limit for a view
  MaxIndicators,   \* MAX_KNOWN_INDICATORS
  FixedLength      \* length of what is never reduced: alert, step, tool constraints

\* A slice from -n on; from -0 on is all there is.
Newest(seq, n) == SubSeq(seq, IF n > 0 /\ Len(seq) > n THEN Len(seq) - n + 1 ELSE 1, Len(seq))
Oldest(seq, n) == SubSeq(seq, 1, IF Len(seq) > n THEN n ELSE Len(seq))

AtMost(n, limit) == IF n > limit THEN limit ELSE n

-----------------------------------------------------------------------------
(* Views                                                                   *)

CallView(asked, c) == [call |-> c, step |-> asked[c].step]

RecordsOf(answer, tool) ==
  LET lists == Layout[tool] IN
  IF ~answer.success THEN <<>>
  ELSE answer.lists[lists[1]] \o (IF Len(lists) = 2 THEN answer.lists[lists[2]] ELSE <<>>)

\* zero_result of the summarizers: files are counted without their reputations.
ZeroResult(answer, tool) ==
  IF tool = "lookup_file_reputation" THEN answer.lists.files = <<>>
  ELSE RecordsOf(answer, tool) = <<>>

\* Only the endpoint summarizer passes on that the search itself was truncated.
ResultView(asked, result) ==
  LET tool == asked[result.call].request.tool
      records == RecordsOf(result.answer, tool) IN
  [call |-> result.call, success |-> result.answer.success,
   zero |-> result.answer.success /\ ZeroResult(result.answer, tool),
   records |-> Oldest(records, MaxRecords),
   truncated |-> \/ Len(records) > MaxRecords
                 \/ /\ tool = "search_endpoint_events" /\ result.answer.success
                    /\ result.answer.more # {}]

\* The INDICATOR_KEYS that a record of a class has.
IndicatorKeys(record) ==
  CASE record.class = "endpoint_event" -> {"host", "user", "process", "hash"}
    [] record.class = "network_event" -> {"src", "dst", "process"}
    [] record.class = "dns_event" -> {"host", "src", "query", "response", "process"}
    [] record.class = "file_record" -> {"host", "name", "hash"}
    [] record.class = "ioc_reputation" -> {"indicator"}
    [] OTHER -> {}

IndicatorsOf(records) ==
  (UNION {{Get(r, key) : key \in IndicatorKeys(r)} : r \in Range(records)}) \ {Unset}

\* Mutants of a definition stand before it as Bug_<what goes wrong>.
Bug_FailureIsEmpty(result, tool) ==
  LET records == RecordsOf(result.answer, tool) IN
  IF tool = "lookup_ioc_reputation" /\ records = <<>> THEN "not_found"
  ELSE IF IndicatorsOf(records) = {} THEN "empty" ELSE "records"

\* The outcome that a query is listed with.
QueryOutcome(result, tool) ==
  LET records == RecordsOf(result.answer, tool) IN
  IF ~result.answer.success THEN "failed"
  ELSE IF tool = "lookup_ioc_reputation" /\ records = <<>> THEN "not_found"
  ELSE IF IndicatorsOf(records) = {} THEN "empty" ELSE "records"

QueryEntry(asked, answered, c) ==
  LET answers == {n \in DOMAIN answered : answered[n].call = c}
      result == answered[CHOOSE n \in answers : TRUE]
      tool == asked[c].request.tool IN
  [call |-> c,
   outcome |-> IF answers = {} THEN "no_result_yet" ELSE QueryOutcome(result, tool),
   values |-> IF answers = {} THEN 0
              ELSE AtMost(Cardinality(IndicatorsOf(RecordsOf(result.answer, tool))), MaxRecords)]

-----------------------------------------------------------------------------
(* The context                                                             *)

Failures(views) == SelectSeq(views, LAMBDA view : ~view.success)
Empties(views) == SelectSeq(views, LAMBDA view : view.zero)

\* AgentContextBuilder.build before the length is looked at.
Built(asked, answered, maxHistory) ==
  LET views == Newest([n \in DOMAIN answered |-> ResultView(asked, answered[n])], maxHistory) IN
  [calls |-> Newest([c \in DOMAIN asked |-> CallView(asked, c)], maxHistory),
   results |-> views,
   queries |-> [c \in DOMAIN asked |-> QueryEntry(asked, answered, c)],
   indicators |->
     AtMost(Cardinality(UNION {IndicatorsOf(view.records) : view \in Range(views)}), MaxIndicators),
   failures |-> Failures(views),
   empties |-> Empties(views),
   truncated |-> FALSE]

Total(lengths) ==
  LET sum[n \in 0..Len(lengths)] == IF n = 0 THEN 0 ELSE sum[n - 1] + lengths[n] IN
  sum[Len(lengths)]

Length(context) ==
  FixedLength + Len(context.calls)
    + Total([n \in DOMAIN context.results |-> 1 + Len(context.results[n].records)])
    + Total([n \in DOMAIN context.queries |-> 1 + context.queries[n].values])
    + context.indicators + Len(context.failures) + Len(context.empties)

Bug_ReducesNothing(context) == context

Bug_CallsBeforeResults(context) ==
  IF context.calls # <<>> THEN [context EXCEPT !.calls = Tail(@)]
  ELSE IF context.results # <<>> THEN [context EXCEPT !.results = Tail(@)]
  ELSE IF context.queries # <<>> THEN [context EXCEPT !.queries = Tail(@)]
  ELSE IF context.indicators > 0 THEN [context EXCEPT !.indicators = @ - 1]
  ELSE IF context.failures # <<>> THEN [context EXCEPT !.failures = Tail(@)]
  ELSE [context EXCEPT !.empties = Tail(@)]

\* _reduce: one entry of the first list that still has any.
Reduced(context) ==
  IF context.results # <<>> THEN [context EXCEPT !.results = Tail(@)]
  ELSE IF context.calls # <<>> THEN [context EXCEPT !.calls = Tail(@)]
  ELSE IF context.queries # <<>> THEN [context EXCEPT !.queries = Tail(@)]
  ELSE IF context.indicators > 0 THEN [context EXCEPT !.indicators = @ - 1]
  ELSE IF context.failures # <<>> THEN [context EXCEPT !.failures = Tail(@)]
  ELSE [context EXCEPT !.empties = Tail(@)]

Reducible(context) ==
  \/ context.indicators > 0
  \/ \E list \in {"results", "calls", "queries", "failures", "empties"} : context[list] # <<>>
=============================================================================

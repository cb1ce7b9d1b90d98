--------------------------- MODULE ScriptedClient ---------------------------
(***************************************************************************)
(* The rule-based client of app/demo/llm_investigation.py, which stands in *)
(* for a model: a decision follows from the context alone.  It finds its   *)
(* place in a step by counting the calls of the step that the context      *)
(* shows.                                                                  *)
(***************************************************************************)
EXTENDS PlannerContext

MAX_CALLS_PER_STEP == 2

CompleteStep == [action |-> "complete_step", request |-> [tool |-> Unset]]
CallTool(request) == [action |-> "call_tool", request |-> request]

CallsOf(context, step) == {view.call : view \in {v \in Range(context.calls) : v.step = step}}

RecordLists(context) == [n \in DOMAIN context.results |-> context.results[n].records]

StepRecords(context, step) ==
  LET ofStep == SelectSeq(context.results, LAMBDA view : view.call \in CallsOf(context, step)) IN
  FlattenSeq([n \in DOMAIN ofStep |-> ofStep[n].records])

\* The values of a field, of the records of some classes that have it.
Values(records, classes, field) ==
  LET having == SelectSeq(records, LAMBDA r : r.class \in classes /\ Get(r, field) # Unset) IN
  [n \in DOMAIN having |-> having[n][field]]

\* Where a field is set, in lists of records: destinations have kind 1, sources 2.
Found(lists, kind, classes, field) ==
  UNION {{[kind |-> kind, list |-> n, record |-> m, value |-> lists[n][m][field]] :
            m \in {m \in DOMAIN lists[n] :
                     lists[n][m].class \in classes /\ Get(lists[n][m], field) # Unset}} :
          n \in DOMAIN lists}

Occurrences(lists) ==
  Found(lists, 1, {"network_event"}, "dst")
    \cup Found(lists, 2, {"network_event", "dns_event"}, "src")

Earlier(p, q) ==
  \/ p.kind < q.kind
  \/ p.kind = q.kind /\ p.list < q.list
  \/ p.kind = q.kind /\ p.list = q.list /\ p.record < q.record

\* _observed_indicators, of the records of several results: destinations before
\* sources, each value where it occurs first.
ObservedIndicators(lists) ==
  LET all == Occurrences(lists)
      first == {o \in all : \A p \in all : p.value = o.value => ~Earlier(p, o)}
      before(o) == {p \in first : Earlier(p, o)} IN
  [n \in 1..Cardinality(first) |->
     (CHOOSE o \in first : Cardinality(before(o)) = n - 1).value]

-----------------------------------------------------------------------------
(* The rules of the five steps; n is the number of calls seen of the step. *)

EndpointDecision(alert, n, stepRecords) ==
  IF n > 0 /\ stepRecords # <<>>
  THEN CallTool([tool |-> "search_endpoint_events", kinds |-> {alert.kind}])
  ELSE IF n = 0 /\ alert.process # Unset
  THEN CallTool([tool |-> "search_endpoint_events", process |-> alert.process])
  ELSE IF n = 0 /\ alert.host # Unset
  THEN CallTool([tool |-> "search_endpoint_events", host |-> alert.host])
  ELSE CompleteStep

FileDecision(alert, n) ==
  IF alert.file # Unset /\ n = 0
  THEN CallTool([tool |-> "lookup_file_reputation", name |-> alert.file])
  ELSE CompleteStep

NetworkDecision(alert, n, stepRecords) ==
  LET processes == Values(stepRecords, {"network_event"}, "process") IN
  IF n = 0 /\ alert.dst # Unset
  THEN CallTool([tool |-> "search_network_activity", dst |-> alert.dst])
  ELSE IF n = 0 /\ alert.src # Unset
  THEN CallTool([tool |-> "search_network_activity", src |-> alert.src])
  ELSE IF n > 0 /\ processes # <<>>
  THEN CallTool([tool |-> "search_network_activity", process |-> Head(processes)])
  ELSE CompleteStep

Bug_FirstIndicatorAgain(n, lists) ==
  LET observed == ObservedIndicators(lists) IN
  IF n < Len(observed)
  THEN CallTool([tool |-> "lookup_ioc_reputation", indicator |-> observed[1]])
  ELSE CompleteStep

\* The n-th indicator of those the context shows now.
IndicatorDecision(n, lists) ==
  LET observed == ObservedIndicators(lists) IN
  IF n < Len(observed)
  THEN CallTool([tool |-> "lookup_ioc_reputation", indicator |-> observed[n + 1]])
  ELSE CompleteStep

KnowledgeDecision(n, records) ==
  LET known == Values(records, {"ioc_reputation"}, "indicator")
      campaigns == FlattenSeq(Values(records, {"cti_record"}, "campaigns")) IN
  IF n = 0 /\ known # <<>> THEN CallTool([tool |-> "search_cti", indicator |-> Head(known)])
  ELSE IF n > 0 /\ campaigns # <<>> THEN CallTool([tool |-> "search_cti", query |-> Head(campaigns)])
  ELSE CompleteStep

Bug_OneCallTooMany(n) == n > MAX_CALLS_PER_STEP

StepLimitReached(n) == n >= MAX_CALLS_PER_STEP

\* _decide: the id of a step of the skeleton is its order here.
Decide(alert, step, context) ==
  LET n == Cardinality(CallsOf(context, step))
      history == RecordLists(context)
      ofStep == StepRecords(context, step) IN
  IF StepLimitReached(n) THEN CompleteStep
  ELSE CASE step = 1 -> EndpointDecision(alert, n, ofStep)
         [] step = 2 -> FileDecision(alert, n)
         [] step = 3 -> NetworkDecision(alert, n, ofStep)
         [] step = 4 -> IndicatorDecision(n, history)
         [] step = 5 -> KnowledgeDecision(n, FlattenSeq(history))
=============================================================================

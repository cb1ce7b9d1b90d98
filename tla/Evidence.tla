------------------------------ MODULE Evidence ------------------------------
(***************************************************************************)
(* The evidence of one run (app/evidence): the results of its tool calls   *)
(* are read one after the other, record by record; a record that was seen  *)
(* before adds a reference and its tags to the item it already is.         *)
(*                                                                         *)
(* The run itself is an environment here (InvestigationRuntime models it): *)
(* calls are made, and each may bring a result, in any order.  The number  *)
(* of records taken over, which only the console shows, is left out.       *)
(***************************************************************************)
EXTENDS CaseTools

CONSTANTS
  Requests,        \* the tool calls a run may make
  AnswerTo,        \* what executing each of them returns
  AlertValues,     \* the addresses, names and users the alert names
  MaxCalls,        \* bound: the calls of one run
  MaxUnanswered    \* bound: the calls of one run that bring no result

\* The classes of what was observed and of what is known.
Telemetry == {"endpoint_event", "network_event", "dns_event", "file_record"}
Knowledge == {"ioc_reputation", "cti_record", "attack_technique"}

\* The lists of a payload are sequences of records, each of the class that its list is
\* read as, and a reputation has an indicator.
ASSUME AnswersAssumption ==
  \A request \in Requests : AnswerTo[request].success /\ AnswerTo[request].object =>
    LET lists == AnswerTo[request].lists IN
    \A list \in DOMAIN lists :
      /\ list \in DOMAIN ClassIn /\ lists[list] \in Seq(Range(lists[list]))
      /\ \A raw \in Range(lists[list]) :
           /\ raw.class = ClassIn[list]
           /\ raw.class = "ioc_reputation" => Get(raw, "indicator") # Unset

\* The extraction validates with the schemas that the dataset was loaded with.
ASSUME ValidAssumption == \A list \in DOMAIN Data : \A raw \in Data[list] : raw.valid

VARIABLES
  calls,     \* the requests of the calls made
  results,   \* the results, each with the call it answers
  running,   \* the run is still going on
  cursor,    \* the results opened so far
  pending,   \* the records of the opened result that are still to be read
  items,     \* the evidence: record, tags and references
  linkedTechniques,  \* techniques named by a case-linked CTI record so far
  warnings           \* what was skipped, and in which result

runVars == <<calls, results, running>>
extractVars == <<cursor, pending, items, linkedTechniques, warnings>>
evidenceVars == <<runVars, extractVars>>

----------------------------------------------------------------------------
(* The run. *)

Call(request) ==
  /\ running /\ Len(calls) < MaxCalls
  /\ calls' = Append(calls, request)
  /\ UNCHANGED <<running, extractVars>>

\* A call that the executor answers, with success or with a failed result.
CallAnswered(request) ==
  /\ Call(request)
  /\ results' = Append(results, [call |-> Len(calls) + 1, answer |-> AnswerTo[request]])

\* A call during which the executor raised: it leaves no result.
CallRaised(request) ==
  /\ Len(calls) - Len(results) < MaxUnanswered
  /\ Call(request)
  /\ UNCHANGED results

RunEnds ==
  /\ running
  /\ running' = FALSE
  /\ UNCHANGED <<calls, results, extractVars>>

----------------------------------------------------------------------------
(* Which records a payload holds, and what ties one to the case. *)

ToolOf(result) == calls[result.call].tool
Readable(result) == result.answer.success /\ ToolOf(result) \in DOMAIN Layout /\ result.answer.object

Listed(result, list) == list \in DOMAIN result.answer.lists
RecordsIn(result, list) == IF Listed(result, list) THEN result.answer.lists[list] ELSE <<>>

\* All records of a readable result, in the order they are read: a payload has one
\* list or two.
Occurrences(result) ==
  LET lists == Layout[ToolOf(result)] IN
  RecordsIn(result, lists[1]) \o (IF Len(lists) = 2 THEN RecordsIn(result, lists[2]) ELSE <<>>)

\* The fields of a collection whose values belong to the case; none of knowledge.
CaseFields(list) ==
  CASE list = "items" -> {"host", "user", "process", "parent", "path", "hash"}
    [] list = "network_events" -> {"src", "dst", "host", "process"}
    [] list = "dns_events" -> {"query", "host", "src", "response", "process"}
    [] list = "files" -> {"name", "path", "hash", "host"}
    [] OTHER -> {}

\* The indicators of the case: of the alert and of all telemetry of the run,
\* also of records that do not validate.
CaseIndicators ==
  LET readable == {r \in Range(results) : Readable(r)}
      values(r, list) == {Fold(Get(raw, f)) : raw \in Range(RecordsIn(r, list)),
                                             f \in CaseFields(list)} IN
  ({Fold(v) : v \in AlertValues}
    \cup UNION {UNION {values(r, list) : list \in Range(Layout[ToolOf(r)])} : r \in readable})
  \ {Unset}

\* Whether a knowledge record is linked to the case where it is read: by the tool
\* or the request that asked for it, by an indicator, or by an earlier report.
LinkedReputation(raw, request) ==
  \/ request.tool = "lookup_file_reputation"
  \/ Fold(raw.indicator) \in CaseIndicators
  \/ Fold(Get(request, "indicator")) = Fold(raw.indicator)

LinkedReport(raw) == \E i \in raw.indicators : Fold(i) \in CaseIndicators

LinkedTechnique(raw) == raw.id \in linkedTechniques

Linked(raw, request) ==
  CASE raw.class = "ioc_reputation" -> LinkedReputation(raw, request)
    [] raw.class = "cti_record" -> LinkedReport(raw)
    [] raw.class = "attack_technique" -> LinkedTechnique(raw)

Tags(raw, request) ==
  IF raw.class \in Telemetry THEN {"telemetry"}
  ELSE {"knowledge", IF Linked(raw, request) THEN "case-linked" ELSE "unlinked-knowledge"}

\* Reputations have no id: what they assert identifies them.
Identity(raw) ==
  IF raw.class = "ioc_reputation"
  THEN <<raw.class, raw.kind, Fold(raw.indicator), Fold(raw.source), raw.reputation,
         raw.confidence>>
  ELSE <<raw.class, raw.id>>

----------------------------------------------------------------------------
(* The accumulator and the extraction. *)

Known(evidence, raw) == \E e \in DOMAIN evidence : Identity(evidence[e].record) = Identity(raw)

NewItem(raw, tags, reference) ==
  [record |-> raw, tags |-> tags, references |-> <<reference>>]

Bug_ForgetsRepeats(evidence, raw, tags, reference) ==
  IF Known(evidence, raw) THEN evidence ELSE Append(evidence, NewItem(raw, tags, reference))

Bug_LaterReplaces(evidence, raw, tags, reference) ==
  IF Known(evidence, raw)
  THEN [e \in DOMAIN evidence |->
          IF Identity(evidence[e].record) # Identity(raw) THEN evidence[e]
          ELSE NewItem(raw, tags, reference)]
  ELSE Append(evidence, NewItem(raw, tags, reference))

\* The first occurrence gives the content; later ones add reference and tags.
Accumulate(evidence, raw, tags, reference) ==
  IF Known(evidence, raw)
  THEN [e \in DOMAIN evidence |->
          IF Identity(evidence[e].record) # Identity(raw) THEN evidence[e]
          ELSE [evidence[e] EXCEPT !.tags = @ \cup tags, !.references = Append(@, reference)]]
  ELSE Append(evidence, NewItem(raw, tags, reference))

Bug_ReferenceByPosition == [result |-> cursor, call |-> cursor]

\* Where the record at hand comes from.
Reference == [result |-> cursor, call |-> results[cursor].call]

Bug_EveryReportLinks(raw, request) ==
  IF raw.class = "cti_record" THEN raw.techniques ELSE {}

\* The techniques that a record ties to the case: those of a linked report.
TechniquesOf(raw, request) ==
  IF raw.class = "cti_record" /\ LinkedReport(raw) THEN raw.techniques ELSE {}

Warned(result, reason) == [result |-> result, reason |-> reason]

\* A warning for each list that a payload lacks.
MissingLists(result) ==
  LET lists == Layout[ToolOf(result)]
      missing(list) == IF Listed(result, list) THEN <<>> ELSE <<Warned(cursor + 1, list)>> IN
  missing(lists[1]) \o (IF Len(lists) = 2 THEN missing(lists[2]) ELSE <<>>)

MayOpen == ~running /\ pending = <<>> /\ cursor < Len(results)

\* A failed result holds no facts and is no cause for a warning.
SkipFailed ==
  /\ MayOpen /\ ~results[cursor + 1].answer.success
  /\ cursor' = cursor + 1
  /\ UNCHANGED <<runVars, pending, items, linkedTechniques, warnings>>

\* A tool without a mapping, or a payload that is no JSON object.
SkipUnreadable ==
  /\ MayOpen /\ results[cursor + 1].answer.success /\ ~Readable(results[cursor + 1])
  /\ cursor' = cursor + 1
  /\ warnings' = Append(warnings, Warned(cursor + 1, "unreadable"))
  /\ UNCHANGED <<runVars, pending, items, linkedTechniques>>

OpenResult ==
  /\ MayOpen /\ Readable(results[cursor + 1])
  /\ cursor' = cursor + 1
  /\ pending' = Occurrences(results[cursor + 1])
  /\ warnings' = warnings \o MissingLists(results[cursor + 1])
  /\ UNCHANGED <<runVars, items, linkedTechniques>>

\* One malformed record is skipped, and nothing else.
\* What a plausible bug would do: give up the rest of a payload at a malformed record.
Bug_RestDiscarded ==
  /\ pending # <<>> /\ ~Head(pending).valid
  /\ pending' = <<>>
  /\ warnings' = Append(warnings, Warned(cursor, "invalid"))
  /\ UNCHANGED <<runVars, cursor, items, linkedTechniques>>

RejectRecord ==
  /\ pending # <<>> /\ ~Head(pending).valid
  /\ pending' = Tail(pending)
  /\ warnings' = Append(warnings, Warned(cursor, "invalid"))
  /\ UNCHANGED <<runVars, cursor, items, linkedTechniques>>

TakeRecord ==
  /\ pending # <<>> /\ Head(pending).valid
  /\ pending' = Tail(pending)
  /\ LET raw == Head(pending)
         request == calls[results[cursor].call] IN
     /\ items' = Accumulate(items, raw, Tags(raw, request), Reference)
     /\ linkedTechniques' = linkedTechniques \cup TechniquesOf(raw, request)
  /\ UNCHANGED <<runVars, cursor, warnings>>

Extracted == ~running /\ cursor = Len(results) /\ pending = <<>>

EvidenceInit ==
  /\ calls = <<>> /\ results = <<>> /\ running = TRUE
  /\ cursor = 0 /\ pending = <<>> /\ items = <<>>
  /\ linkedTechniques = {} /\ warnings = <<>>

RunStep ==
  \/ \E request \in Requests : CallAnswered(request) \/ CallRaised(request)
  \/ RunEnds

ExtractStep == SkipFailed \/ SkipUnreadable \/ OpenResult \/ RejectRecord \/ TakeRecord

EvidenceNext == RunStep \/ ExtractStep
EvidenceSpec == EvidenceInit /\ [][EvidenceNext]_evidenceVars
=============================================================================

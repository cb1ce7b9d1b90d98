------------------------------- MODULE Summary -------------------------------
(***************************************************************************)
(* The summary of a run (app/reporting/summary.py): the evidence grouped   *)
(* into observations, and a gap for everything the run could not find out. *)
(* An evidence id is the position of its item; a text is the kind of       *)
(* statement it makes and what it is about.                                *)
(***************************************************************************)
EXTENDS Evidence

EndpointTypes ==
  [process_creation |-> "process_execution", process_termination |-> "process_execution",
   process_access |-> "process_execution", file_creation |-> "file_activity",
   file_modification |-> "file_activity", file_deletion |-> "file_activity",
   authentication_failed |-> "authentication", authentication_success |-> "authentication"]

\* The evidence type of a record.
TypeOf(raw) ==
  CASE raw.class = "endpoint_event" ->
         IF raw.kind \in DOMAIN EndpointTypes THEN EndpointTypes[raw.kind] ELSE "other"
    [] raw.class = "network_event" -> "network_connection"
    [] raw.class = "dns_event" -> "dns_query"
    [] raw.class = "file_record" -> "file_activity"
    [] raw.class = "ioc_reputation" -> "ioc_reputation"
    [] raw.class = "cti_record" -> "threat_intelligence"
    [] raw.class = "attack_technique" -> "attack_knowledge"

OfType(type) == {e \in DOMAIN items : TypeOf(items[e].record) = type}

----------------------------------------------------------------------------
(* Observations. *)

Section(type, classes, key) == [type |-> type, classes |-> classes, key |-> key]

\* What the builder walks through: evidence of a type, from records of some
\* classes, grouped by some of the record's fields.
EndpointSections ==
  {Section("process_execution", {"endpoint_event"}, <<"host", "process", "parent">>),
   Section("other", {"endpoint_event"}, <<"host", "kind">>)}

FlowSections ==
  {Section("network_connection", {"network_event"}, <<"dst", "port", "protocol", "direction">>)}

DnsSections == {Section("dns_query", {"dns_event"}, <<"query", "type">>)}

FileSections ==
  {Section("file_activity", {"file_record"}, <<"host", "name">>),
   Section("file_activity", {"endpoint_event"}, <<"host", "kind", "path">>)}

LogonSections == {Section("authentication", {"endpoint_event"}, <<"host", "user", "kind">>)}

ReputationSections ==
  {Section("ioc_reputation", {"ioc_reputation"}, <<"indicator", "reputation", "source">>)}

CtiSections == {Section("threat_intelligence", {"cti_record"}, <<"id">>)}

AttackSections == {Section("attack_knowledge", {"attack_technique"}, <<"id">>)}

Sections ==
  EndpointSections \cup FlowSections \cup DnsSections \cup FileSections \cup LogonSections
    \cup ReputationSections \cup CtiSections \cup AttackSections

Unlinked == {e \in DOMAIN items : "unlinked-knowledge" \in items[e].tags}

\* Mutants stand before a definition as Bug_<what goes wrong>.
Bug_UnlinkedToo(section) ==
  LET members == {e \in OfType(section.type) : items[e].record.class \in section.classes}
      keyOf(e) == [n \in DOMAIN section.key |-> Get(items[e].record, section.key[n])] IN
  {{f \in members : keyOf(f) = keyOf(e)} : e \in members}

GroupsOf(section) ==
  LET members == {e \in OfType(section.type) \ Unlinked : items[e].record.class \in section.classes}
      keyOf(e) == [n \in DOMAIN section.key |-> Get(items[e].record, section.key[n])] IN
  {{f \in members : keyOf(f) = keyOf(e)} : e \in members}

\* One observation for each group, about the evidence of the group.
Observations == UNION {GroupsOf(section) : section \in Sections}

----------------------------------------------------------------------------
(* Information gaps. *)

Gap(kind, about) == [kind |-> kind, about |-> about]

\* What a successful result of a tool came back without.
EmptyAnswers(result) ==
  LET empty(list) == Listed(result, list) /\ result.answer.lists[list] = <<>>
      tool == ToolOf(result)
      unknown == {r \in Range(RecordsIn(result, "records")) : r.reputation = "unknown"} IN
  CASE tool \in {"search_endpoint_events", "search_network_activity", "search_cti"} ->
         {list \in Range(Layout[tool]) : empty(list)}
    [] tool = "lookup_file_reputation" ->
         IF empty("files") THEN {"files"}
         ELSE IF RecordsIn(result, "reputations") = <<>> THEN {"reputations"} ELSE {}
    [] tool = "lookup_ioc_reputation" ->
         IF empty("records") THEN {"records"} ELSE IF unknown # {} THEN {"unknown"} ELSE {}
    [] OTHER -> {}

ResultGaps(n) ==
  IF ~results[n].answer.success THEN {Gap("failed", {results[n].call})}
  ELSE IF ~results[n].answer.object THEN {}
  ELSE {Gap(empty, {results[n].call}) : empty \in EmptyAnswers(results[n])}

Bug_ResultsOnly == {}

\* Calls that brought no result: the executor raised.
CallGaps ==
  {Gap("no_result", {c}) : c \in {c \in DOMAIN calls : \A n \in DOMAIN results : results[n].call # c}}

\* The gaps of a run that ended with the given outcome.
InformationGaps(outcome) ==
  (UNION {ResultGaps(n) : n \in DOMAIN results})
    \cup CallGaps
    \cup (IF outcome = "unplanned" THEN {Gap("no_plan", {})} ELSE {})
    \cup (IF outcome = "step_failed" THEN {Gap("step_failed", {})} ELSE {})
    \cup (IF Unlinked # {} THEN {Gap("unlinked", Unlinked)} ELSE {})
    \cup (IF outcome # "completed" THEN {Gap("stopped", {})} ELSE {})
    \cup (IF items = <<>> THEN {Gap("no_evidence", {})} ELSE {})
=============================================================================

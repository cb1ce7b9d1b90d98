------------------------------ MODULE Findings ------------------------------
(***************************************************************************)
(* The finding rules (app/findings). A finding is the record of its type,  *)
(* severity, support, the evidence it rests on and the indicators it       *)
(* names; the rules read structured fields of the evidence only. Findings  *)
(* differ in their evidence, so the set of them stands for the list.       *)
(***************************************************************************)
EXTENDS Summary

CONSTANTS
  ScriptInterpreters, DocumentProcesses,  \* process names
  TempPaths,           \* paths in temporary or download folders
  InternalAddresses    \* addresses of the internal networks

LOW == 0
MEDIUM == 1
HIGH == 2
CRITICAL == 3

Field(e, field) == Get(items[e].record, field)
Class(e) == items[e].record.class
Is(e, field, names) == Fold(Field(e, field)) \in names

ObservedOf(type) ==
  {e \in OfType(type) : "telemetry" \in items[e].tags /\ Class(e) \in Telemetry}

ObservedItems ==
  {e \in DOMAIN items : "telemetry" \in items[e].tags /\ Class(e) \in Telemetry}

\* The telemetry that observes an indicator in one of its structured fields.
ObservedOccurrences(indicator) ==
  IF indicator = Unset THEN {}
  ELSE {e \in ObservedItems :
          \E field \in {"src", "dst", "response", "query", "hash"} :
             Field(e, field) # Unset /\ Fold(Field(e, field)) = Fold(indicator)}

Reputations(indicator, reputation) ==
  {e \in OfType("ioc_reputation") :
     indicator # Unset /\ Fold(Field(e, "indicator")) = Fold(indicator)
       /\ Field(e, "reputation") = reputation}

Finding(type, severity, support, evidence, indicators) ==
  [type |-> type, severity |-> severity, support |-> support,
   evidence |-> evidence, indicators |-> indicators \ {Unset}]

----------------------------------------------------------------------------
(* RULE-PROC-001: script interpreters, one finding per host, process, parent. *)

ProcessFinding(host, process, parent) ==
  LET group == {e \in ObservedOf("process_execution") :
                  Field(e, "host") = host /\ Field(e, "process") = process
                    /\ Field(e, "parent") = parent}
      paths == {Field(e, "path") : e \in group}
      encoded == \E e \in group : "encoded" \in items[e].record.texts
      hidden == \E e \in group : "hidden" \in items[e].record.texts
      document == Fold(parent) \in DocumentProcesses
      severity == IF document \/ encoded THEN HIGH
                  ELSE IF hidden \/ {Fold(p) : p \in paths} \cap TempPaths # {} THEN MEDIUM ELSE LOW
      support == IF document /\ encoded THEN "strong"
                 ELSE IF severity # LOW THEN "moderate" ELSE "weak" IN
  Finding("process", severity, support, group, {process, parent} \cup paths)

ProcessFindings ==
  {ProcessFinding(Field(e, "host"), Field(e, "process"), Field(e, "parent")) :
     e \in {e \in ObservedOf("process_execution") : Is(e, "process", ScriptInterpreters)}}

----------------------------------------------------------------------------
(* RULE-FILE-001: a file whose hash, folder or missing signature is suspicious. *)

FileRecords == {e \in ObservedOf("file_activity") : Class(e) = "file_record"}

FileEventsAt(path) ==
  {e \in DOMAIN items : Class(e) = "endpoint_event" /\ path # Unset
                          /\ Fold(Field(e, "path")) = Fold(path)}

BadReputation(e) ==
  Reputations(Field(e, "hash"), "malicious") \cup Reputations(Field(e, "hash"), "suspicious")

FileFinding(e) ==
  LET malicious == Reputations(Field(e, "hash"), "malicious")
      events == FileEventsAt(Field(e, "path"))
      support == IF malicious # {} /\ events # {} THEN "strong"
                 ELSE IF BadReputation(e) # {} THEN "moderate" ELSE "weak" IN
  Finding("file", IF malicious # {} THEN HIGH ELSE MEDIUM, support,
          {e} \cup BadReputation(e) \cup events,
          {Field(e, "name"), Field(e, "path"), Field(e, "hash")})

FileFindings ==
  {FileFinding(e) : e \in {e \in FileRecords :
     \/ BadReputation(e) # {}
     \/ Fold(Field(e, "path")) \in TempPaths
     \/ Field(e, "signature") = "unsigned"}}

----------------------------------------------------------------------------
(* RULE-NET-001: flows to an external destination, by destination, port, direction. *)

ExternalFlows ==
  {e \in ObservedOf("network_connection") :
     Field(e, "dst") \notin InternalAddresses \cup {Unset}}

NetworkFinding(flow) ==
  LET group == {e \in ExternalFlows : \A field \in {"dst", "port", "direction"} :
                                        Field(e, field) = Field(flow, field)}
      scripted == \E e \in group : Is(e, "process", ScriptInterpreters)
      answers == {e \in ObservedOf("dns_query") : Fold(Field(e, "response")) = Fold(Field(flow, "dst"))} IN
  Finding("network", IF scripted THEN MEDIUM ELSE LOW,
          IF scripted \/ answers # {} THEN "moderate" ELSE "weak",
          group \cup answers, {Field(flow, "dst")})

NetworkFindings == {NetworkFinding(flow) : flow \in ExternalFlows}

----------------------------------------------------------------------------
(* RULE-IOC-001: a malicious indicator that the telemetry observes. *)

MaliciousIndicators ==
  {Fold(Field(e, "indicator")) :
     e \in {e \in OfType("ioc_reputation") : Field(e, "reputation") = "malicious"}}

IndicatorFinding(indicator) ==
  LET observed == ObservedOccurrences(indicator)
      seen(field) == \E e \in observed : Fold(Field(e, field)) = indicator
      severity == IF seen("dst") THEN CRITICAL
                  ELSE IF seen("hash") \/ seen("response") THEN HIGH ELSE MEDIUM IN
  Finding("indicator", severity, "strong",
          Reputations(indicator, "malicious") \cup observed, {indicator})

Bug_KnowledgeIsEnough == {IndicatorFinding(i) : i \in MaliciousIndicators}

IndicatorFindings ==
  {IndicatorFinding(i) : i \in {i \in MaliciousIndicators : ObservedOccurrences(i) # {}}}

----------------------------------------------------------------------------
(* RULE-CORR-001: a DNS answer with a flow to it, a script's write with its file. *)

Correlated(parties, indicator, names) ==
  LET malicious == Reputations(indicator, "malicious") IN
  Finding("correlated", IF malicious # {} THEN HIGH ELSE MEDIUM, "strong",
          parties \cup malicious, names)

FlowsAfter(dns) ==
  {e \in ObservedOf("network_connection") :
     /\ Fold(Field(e, "dst")) = Fold(Field(dns, "response"))
     /\ \E field \in {"host", "process"} :
          Field(dns, field) # Unset /\ Field(e, field) = Field(dns, field)}

DnsToFlow ==
  {Correlated({dns} \cup FlowsAfter(dns), Field(dns, "response"),
              {Field(dns, "query"), Field(dns, "response")}) :
     dns \in {e \in ObservedOf("dns_query") :
                /\ Field(e, "response") \notin InternalAddresses \cup {Unset}
                /\ FlowsAfter(e) # {}}}

WritesOf(file) ==
  {e \in ObservedOf("file_activity") :
     /\ Class(e) = "endpoint_event"
     /\ Fold(Field(e, "path")) = Fold(Field(file, "path"))
     /\ Is(e, "process", ScriptInterpreters)}

\* The writer that the finding names as well is read by nothing.
FileWrites ==
  {Correlated({file} \cup WritesOf(file), Field(file, "hash"),
              {Field(file, "path"), Field(file, "hash")}) :
     file \in {e \in FileRecords : Fold(Field(e, "path")) \in TempPaths /\ WritesOf(e) # {}}}

AllFindings ==
  ProcessFindings \cup FileFindings \cup NetworkFindings \cup IndicatorFindings
    \cup DnsToFlow \cup FileWrites
=============================================================================

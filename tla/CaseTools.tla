------------------------------ MODULE CaseTools ------------------------------
(***************************************************************************)
(* The five tools of app/tools and the executor that runs them: filters on *)
(* the case telemetry and the shared knowledge, sorted and limited.        *)
(*                                                                         *)
(* A record is a TLA+ record: class, id, valid (its schema accepts it),    *)
(* rank (its place in the sort order of its collection) and those of its   *)
(* other fields that are set. Texts are tokens; Fold maps the spellings of *)
(* one text to one token, as strip() and casefold() do.                    *)
(***************************************************************************)
EXTENDS Integers, Sequences, FiniteSets, SequencesExt

CONSTANTS
  Data,    \* the dataset: a set of records for each collection
  Folded,  \* the texts that casefold() changes, with what it makes of them
  Limit    \* the largest number of records a search returns per collection

Unset == ""

\* casefold() of what it returned changes nothing more, and leaves no text empty.
ASSUME FoldAssumption ==
  \A text \in DOMAIN Folded : Folded[text] \notin DOMAIN Folded \cup {Unset}

\* A field of a record or of a request; what is not there is Unset.
Get(record, field) == IF field \in DOMAIN record THEN record[field] ELSE Unset

\* The class of the records in each list of a payload.
ClassIn ==
  [items |-> "endpoint_event", network_events |-> "network_event", dns_events |-> "dns_event",
   files |-> "file_record", records |-> "ioc_reputation", reputations |-> "ioc_reputation",
   cti_records |-> "cti_record", attack_techniques |-> "attack_technique"]

\* The fields with an indicator that the schema of a class requires.
Required(class) ==
  CASE class = "endpoint_event" -> {"host"}
    [] class = "network_event" -> {"src", "dst"}
    [] class = "dns_event" -> {"host", "src", "query"}
    [] class = "file_record" -> {"host", "name"}
    [] class = "ioc_reputation" -> {"indicator"}
    [] OTHER -> {}

\* The dataset as the loader accepts it: each record is of the class of its
\* collection, has what its schema requires, and has a place of its own.
WellFormed ==
  /\ DOMAIN Data = DOMAIN ClassIn \ {"reputations"}
  /\ Limit \in Nat
  /\ \A list \in DOMAIN Data :
       /\ IsFiniteSet(Data[list])
       /\ \A r \in Data[list] :
            /\ r.rank \in Int /\ r.class = ClassIn[list]
            /\ \A field \in Required(r.class) : Get(r, field) # Unset
       /\ \A q, r \in Data[list] : q.rank = r.rank => q = r

ASSUME DataAssumption == WellFormed

Fold(text) == IF text \in DOMAIN Folded THEN Folded[text] ELSE text

TextExact(candidate, expected) ==
  expected = Unset \/ (candidate # Unset /\ Fold(candidate) = Fold(expected))

\* Every filter of the request that applies to the record's collection (AND).
Passes(record, request, fields) ==
  \A field \in fields : TextExact(Get(record, field), Get(request, field))

\* A free-text filter: the record's own texts contain the needle.
Mentions(record, request, filter) ==
  Get(request, filter) # Unset => request[filter] \in record.texts

\* event_types (OR) and the inclusive time window; an empty list filters nothing.
InScope(record, request) ==
  /\ "kinds" \in DOMAIN request => request.kinds = {} \/ record.kind \in request.kinds
  /\ "window" \in DOMAIN request => record.rank \in request.window[1]..request.window[2]

EndpointFilters == {"host", "user", "process", "parent", "path", "hash"}
NetworkFilters == {"host", "src", "dst", "process"}
DnsFilters == {"host", "src", "query", "process"}
FileFilters == {"hash", "path", "name", "host"}

MatchesCti(record, request) ==
  /\ Get(request, "indicator") # Unset =>
       \E indicator \in record.indicators : Fold(indicator) = Fold(request.indicator)
  /\ Get(request, "technique") # Unset => request.technique \in record.techniques
  /\ Mentions(record, request, "query")

\* The indicator filter does not apply to techniques: it never removes one.
MatchesTechnique(record, request) ==
  /\ Get(request, "technique") # Unset => record.id = request.technique
  /\ Mentions(record, request, "query")

Matching(collection, request) ==
  {r \in Data[collection] :
     CASE collection = "items" -> /\ Passes(r, request, EndpointFilters) /\ InScope(r, request)
                                   /\ Mentions(r, request, "command")
       [] collection = "network_events" -> Passes(r, request, NetworkFilters) /\ InScope(r, request)
       [] collection = "dns_events" -> /\ Passes(r, request, DnsFilters) /\ InScope(r, request)
                                        /\ Mentions(r, request, "fragment")
       [] collection = "files" -> Passes(r, request, FileFilters)
       [] collection = "records" -> Passes(r, request, {"indicator", "kind"})
       [] collection = "cti_records" -> MatchesCti(r, request)
       [] collection = "attack_techniques" -> MatchesTechnique(r, request)}

\* sort_telemetry and the sort keys of knowledge records, then apply_limit: a record
\* comes after those of lower rank.
Ordered(records) ==
  LET below(r) == {q \in records : q.rank < r.rank} IN
  [n \in 1..Cardinality(records) |-> CHOOSE r \in records : Cardinality(below(r)) = n - 1]

Bug_LimitReachedSilently(records, limit) ==
  [found |-> SubSeq(records, 1, IF Len(records) < limit THEN Len(records) ELSE limit),
   truncated |-> Len(records) > limit + 1]

ApplyLimit(records, limit) ==
  [found |-> SubSeq(records, 1, IF Len(records) < limit THEN Len(records) ELSE limit),
   truncated |-> Len(records) > limit]

\* The reputations of the hashes of the files that matched.
HashReputations(files) ==
  {r \in Data.records : r.kind = "sha256" /\ \E file \in files : Get(file, "hash") = r.indicator}

\* The collections a tool's payload holds, in the order they are read.
Layout ==
  [search_endpoint_events |-> <<"items">>,
   search_network_activity |-> <<"network_events", "dns_events">>,
   lookup_file_reputation |-> <<"files", "reputations">>,
   lookup_ioc_reputation |-> <<"records">>,
   search_cti |-> <<"cti_records", "attack_techniques">>]

Lists(request) == Range(Layout[request.tool])

Excluded(request, collection) ==
  "exclude" \in DOMAIN request /\ collection \in request.exclude

Answered(request, collection) ==
  LET hits == IF Excluded(request, collection) THEN {}
              ELSE IF collection = "reputations" THEN HashReputations(Matching("files", request))
              ELSE Matching(collection, request) IN
  IF collection \in {"files", "reputations", "records"}
  THEN [found |-> Ordered(hits), truncated |-> FALSE]
  ELSE ApplyLimit(Ordered(hits), Limit)

SupportedTools == DOMAIN Layout

\* The validators of the request models (app/tools/contracts.py).
Accepted(request) ==
  /\ "window" \in DOMAIN request => request.window[1] <= request.window[2]
  /\ \E collection \in Lists(request) : ~Excluded(request, collection)
  /\ request.tool = "lookup_file_reputation" =>
       \E field \in {"hash", "path", "name"} : Get(request, field) # Unset
  /\ request.tool = "lookup_ioc_reputation" => Get(request, "indicator") # Unset
  /\ request.tool = "search_cti" =>
       \E field \in {"query", "indicator", "technique"} : Get(request, field) # Unset

Failed == [success |-> FALSE, object |-> FALSE]

\* ToolExecutor.execute: whatever goes wrong inside becomes a failed result.
Answer(request) ==
  IF request.tool \notin SupportedTools \/ ~Accepted(request) THEN Failed
  ELSE [success |-> TRUE, object |-> TRUE,
        lists |-> [c \in Lists(request) |-> Answered(request, c).found],
        more |-> {c \in Lists(request) : Answered(request, c).truncated}]
=============================================================================

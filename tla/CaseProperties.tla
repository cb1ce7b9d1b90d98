--------------------------- MODULE CaseProperties ---------------------------
(* What the evidence, the summary, the findings and the verdict must be true to. *)
EXTENDS CaseAnalysis

Raws(n) == {raw \in Range(Occurrences(results[n])) : raw.valid}
Observes(e, indicator) == e \in ObservedOccurrences(indicator)

\* No provenance is lost (dedup.py): each valid record of each readable result
\* is exactly one item, which refers to that result. What ImplementsGathering and
\* EvidenceOnlyGrows say of the steps comes to this at the end.
NothingIsLost ==
  Extracted =>
    \A n \in {n \in DOMAIN results : Readable(results[n])} : \A raw \in Raws(n) :
      \E e \in DOMAIN items :
        /\ \E r \in Range(items[e].references) : r.result = n
        /\ {f \in DOMAIN items : Identity(items[f].record) = Identity(raw)} = {e}

\* Provenance is true (provenance.py): a reference names a readable result, the
\* call it answers, and a record the result holds. References come in result order,
\* so that the first one is the primary one (sort_references changes nothing).
ReferencesTrace ==
  \A e \in DOMAIN items : \A n \in DOMAIN items[e].references :
    LET r == items[e].references[n] IN
    /\ r.result \in 1..cursor /\ Readable(results[r.result])
    /\ r.call = results[r.result].call
    /\ \E raw \in Raws(r.result) : Identity(raw) = Identity(items[e].record)
    /\ \A m \in DOMAIN items[e].references : m < n => items[e].references[m].result <= r.result

\* The occurrence of knowledge record raw in result n is tied to the case: a file
\* of the case or the question asked for it, the case shows its indicator, or a
\* report that shares an indicator with the case was read before it.
TiedToCase(raw, n) ==
  CASE raw.class = "ioc_reputation" ->
         \/ calls[results[n].call].tool = "lookup_file_reputation"
         \/ Fold(Get(calls[results[n].call], "indicator")) = Fold(raw.indicator)
         \/ Fold(raw.indicator) \in CaseIndicators
    [] raw.class = "cti_record" -> {Fold(i) : i \in raw.indicators} \cap CaseIndicators # {}
    [] raw.class = "attack_technique" ->
         \E m \in 1..n : Readable(results[m]) /\ \E report_ \in Raws(m) :
           /\ report_.class = "cti_record" /\ raw.id \in report_.techniques
           /\ {Fold(i) : i \in report_.indicators} \cap CaseIndicators # {}

\* The tags say what ties a knowledge item to the case (extractor.py:13): an item
\* is case-linked exactly if one of its occurrences was tied to the case when it
\* was read, and unlinked exactly if one was not. A technique that comes before
\* the report that links it keeps both tags: order of the calls decides.
TagsTellLinks ==
  Extracted =>
    \A e \in {e \in DOMAIN items : items[e].record.class \notin Telemetry} :
      LET read == {n \in DOMAIN results : Readable(results[n])}
          Occurring(n) == {raw \in Raws(n) : Identity(raw) = Identity(items[e].record)} IN
      /\ "case-linked" \in items[e].tags <=>
           \E n \in read : \E raw \in Occurring(n) : TiedToCase(raw, n)
      /\ "unlinked-knowledge" \in items[e].tags <=>
           \E n \in read : \E raw \in Occurring(n) : ~TiedToCase(raw, n)

\* Evidence ids are positions, so evidence never changes place: an item keeps its
\* record, tags and references, and only gains tags and references; an item that is
\* added is of an identity that no other item has.
EvidenceOnlyGrows ==
  [][/\ Len(items) <= Len(items')
     /\ \A e \in DOMAIN items' \ DOMAIN items : \A f \in DOMAIN items' \ {e} :
          Identity(items'[e].record) # Identity(items'[f].record)
     /\ \A e \in DOMAIN items :
          /\ items'[e].record = items[e].record /\ items[e].tags \subseteq items'[e].tags
          /\ IsPrefix(items[e].references, items'[e].references)]_caseVars

\* Some of result n cannot be used: no payload to read, a list that is missing or a
\* record that does not validate. A failed result is no cause for a warning.
Flawed(n) ==
  /\ results[n].answer.success
  /\ Readable(results[n]) =>
       \/ \E list \in Range(Layout[ToolOf(results[n])]) : ~Listed(results[n], list)
       \/ \E raw \in Range(Occurrences(results[n])) : ~raw.valid

FactsIn(n) == IF Readable(results[n]) THEN {Identity(raw) : raw \in Raws(n)} ELSE {}

RefersTo(e, n) == \E r \in Range(items[e].references) : r.result = n

\* The results that no record is pending of.
ReadInFull == IF pending = <<>> THEN cursor ELSE cursor - 1

Held == [n \in DOMAIN results |-> [facts |-> FactsIn(n), flawed |-> Flawed(n)]]

KnownFacts ==
  UNION {{<<Identity(items[e].record), n>> : n \in {n \in 1..ReadInFull : RefersTo(e, n)}} :
           e \in DOMAIN items}

DoubtfulResults == {n \in 1..ReadInFull : \E w \in DOMAIN warnings : warnings[w].result = n}

\* Evidence seen as Gathering: the facts are the identities of the items, the results
\* that show one are those it refers to, and a result counts once it is read in full.
Extraction == INSTANCE Gathering WITH
  held <- Held, complete <- ~running, read <- ReadInFull,
  known <- KnownFacts, doubtful <- DoubtfulResults

\* One malformed record discards nothing else (extractor.py:22): the extraction reads
\* each result once, takes all of it that is usable, and warns about a result exactly
\* if some of it is not.
ImplementsGathering == Extraction!Spec

\* A search either says that it was truncated or its matches are all evidence.
SearchesAreComplete ==
  Extracted =>
    \A n \in DOMAIN results : \A list \in DOMAIN Data :
      Readable(results[n]) /\ Listed(results[n], list) /\ list \notin results[n].answer.more
        /\ results[n].answer = Answer(calls[results[n].call])
        /\ ~Excluded(calls[results[n].call], list) =>
        \A raw \in Matching(list, calls[results[n].call]) :
          \E e \in DOMAIN items : Identity(items[e].record) = Identity(raw)

\* Nothing observed is left out of the summary or told twice: each telemetry item
\* belongs to one observation, as does each knowledge item that is only linked;
\* an unlinked item belongs to none and is reported as a gap.
ObservationsPartitionEvidence ==
  stage # "evidence" =>
    \A e \in DOMAIN items :
      LET told == {o \in summary.observations : e \in o} IN
      IF e \in Unlinked
      THEN told = {} /\ \E gap \in summary.gaps : gap.kind = "unlinked" /\ e \in gap.about
      ELSE Cardinality(told) = 1

\* No call vanishes: what it brought is evidence, or a gap says what it did not
\* bring, or an extraction warning says why its result could not be read.
NoCallIsSilent ==
  stage # "evidence" =>
    \A c \in DOMAIN calls :
      \/ \E gap \in summary.gaps : gap.kind # "unlinked" /\ c \in gap.about
      \/ \E e \in DOMAIN items : \E r \in Range(items[e].references) : r.call = c
      \/ \E n \in DOMAIN warnings : results[warnings[n].result].call = c

\* The guarantees of findings/engine.py:12-20: a finding rests on observed
\* telemetry, a correlation on two observed records of different sources and on no
\* report or technique, and a reputation joins a finding only by the value of a
\* field that a telemetry item of that finding has.
FindingsAreGrounded ==
  \A f \in report.findings :
    LET observed == f.evidence \cap ObservedItems
        knowledge == f.evidence \ observed IN
    /\ observed # {}
    /\ f.type = "correlated" => \E d, e \in observed : Class(d) # Class(e)
    /\ \A e \in knowledge :
         /\ Class(e) = "ioc_reputation"
         /\ \E o \in observed : Observes(o, Field(e, "indicator"))

\* A knowledge hit alone never makes a run malicious (verdict/engine.py:9): some
\* indicator with a malicious reputation was a destination, an answer or a hash of
\* the telemetry, and behaviour of script or network was found beside it.
MaliciousIsObserved ==
  report.verdict.disposition = "malicious" =>
    \E e \in OfType("ioc_reputation"), o \in ObservedItems :
      /\ Field(e, "reputation") = "malicious"
      /\ \E field \in {"dst", "response", "hash"} : Fold(Field(o, field)) = Fold(Field(e, "indicator"))
      /\ \E f, g \in report.verdict.supporting :
           /\ {e, o} \subseteq f.evidence /\ f.type = "indicator"
           /\ g.type # "indicator" /\ g.evidence \cap ObservedItems # {}

\* Benign is earned (verdict/engine.py:13): the run completed, the allow list knows
\* an indicator the telemetry shows, no malicious one is seen in the telemetry, and
\* no script ran suspiciously; a high confidence means that nothing was missing.
BenignIsEarned ==
  report.verdict.disposition = "benign" =>
    /\ outcome = "completed"
    /\ \E e \in OfType("ioc_reputation") :
         /\ Field(e, "reputation") = "benign"
         /\ \E o \in ObservedItems : Observes(o, Field(e, "indicator"))
    /\ \A e \in OfType("ioc_reputation") : Field(e, "reputation") = "malicious" =>
         ObservedOccurrences(Field(e, "indicator")) = {}
    /\ \A e \in ObservedOf("process_execution") :
         "encoded" \in items[e].record.texts => ~Is(e, "process", ScriptInterpreters)
    /\ report.verdict.confidence = "high" =>
         \A c \in DOMAIN calls : \E n \in DOMAIN results : results[n].call = c /\ results[n].answer.success

\* A run that stopped early is not called benign, and malicious only on two links
\* and without high confidence.
PartialRunsStayCautious ==
  stage = "report" /\ outcome # "completed" =>
    /\ report.verdict.disposition # "benign"
    /\ report.verdict.disposition = "malicious" =>
         /\ report.verdict.confidence = "medium"
         /\ \E f, g, h \in report.verdict.supporting : f # g /\ g # h /\ f # h

\* verdict/engine.py:19 and :49 of a run that stopped early: "its confidence is
\* capped at medium". The code does not cap it for correlated findings.
EarlyStopCapsConfidence ==
  stage = "report" /\ outcome # "completed" => report.verdict.confidence # "high"
=============================================================================

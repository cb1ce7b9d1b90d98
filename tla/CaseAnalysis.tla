---------------------------- MODULE CaseAnalysis ----------------------------
(***************************************************************************)
(* From a finished run to its report: the evidence is extracted, summed up *)
(* and judged (app/verdict/engine.py), and the report builder puts the     *)
(* parts together (app/reports/builder.py, the order of                    *)
(* app/demo/final_report.py).                                              *)
(***************************************************************************)
EXTENDS Findings

VARIABLES
  outcome,   \* how the run ended
  stage,     \* "evidence", "summary" or "report": what is being built
  summary,   \* observations and gaps
  report     \* findings, verdict and evidence index

caseVars == <<evidenceVars, outcome, stage, summary, report>>

\* A run completes, or stops: with a failed step, without a plan, or otherwise.
Outcomes == {"completed", "step_failed", "unplanned", "stopped"}

Completed == outcome = "completed"

----------------------------------------------------------------------------
(* The verdict. *)

Bug_AnySeverity(finding) == finding.type = "indicator"

\* A malicious indicator that was a destination, an answer or a hash.
MaliciousGrade(finding) == finding.type = "indicator" /\ finding.severity >= HIGH
Behaviour == {"process", "file", "network", "correlated"}

Bug_KnownBenign ==
  {e \in OfType("ioc_reputation") : Field(e, "reputation") = "benign"}

\* Allow-list matches: benign reputations of indicators that were observed.
BenignEvidence ==
  {e \in OfType("ioc_reputation") : Field(e, "reputation") = "benign"
                                      /\ ObservedOccurrences(Field(e, "indicator")) # {}}

Hashes == {r.indicator : r \in {r \in Data.records : r.kind = "sha256"}}

\* What ties a behaviour finding to a malicious indicator.
Links(behaviour, indicator) ==
  LET about(field) == {e \in behaviour.evidence : Fold(Field(e, field)) = Fold(indicator)} IN
  IF indicator \in Hashes THEN about("hash") # {}
  ELSE \/ about("dst") \cup about("response") # {}
       \/ \E e \in behaviour.evidence : Is(e, "process", ScriptInterpreters)

CrossSourcePairs(findings) ==
  {p \in findings \X findings :
     /\ MaliciousGrade(p[1]) /\ p[2].type \in Behaviour
     /\ \E indicator \in p[1].indicators : Links(p[2], indicator)}

Bug_OnePairIsEnough(pairs) == pairs # {}

\* The bar for malicious; a partial run needs a second pair.
MeetsBar(pairs) == pairs # {} /\ (Completed \/ Cardinality(pairs) >= 2)

Judgement(disposition, confidence, supporting, counter) ==
  [disposition |-> disposition, confidence |-> confidence,
   supporting |-> supporting, counter |-> counter]

\* The rules in their order; the first that applies decides.
Verdict(findings, gaps) ==
  LET pairs == CrossSourcePairs(findings)
      indicators == {f \in findings : MaliciousGrade(f)}
      escalated == {f \in findings : f.severity >= MEDIUM}
      correlated == \E f \in escalated : f.type = "correlated" IN
  IF MeetsBar(pairs)
  THEN Judgement("malicious", IF Completed THEN "high" ELSE "medium",
                 UNION {{p[1], p[2]} : p \in pairs}, BenignEvidence)
  ELSE IF indicators # {}
  THEN Judgement("suspicious", "medium", indicators, BenignEvidence)
  ELSE IF escalated # {}
  THEN Judgement("suspicious", IF correlated THEN "high" ELSE "medium", escalated, BenignEvidence)
  ELSE IF BenignEvidence # {} /\ Completed
  THEN Judgement("benign", IF gaps = {} THEN "high" ELSE "medium", findings \ escalated, {})
  ELSE Judgement("inconclusive", "low", {}, BenignEvidence)

----------------------------------------------------------------------------
(* The report. *)

\* One line of the evidence index: where the item was seen first, how often.
IndexEntry(e) ==
  [primary |-> Head(items[e].references), sources |-> Len(items[e].references)]

EvidenceIndex == [e \in DOMAIN items |-> IndexEntry(e)]

\* The run ends; it completes only after a call that succeeded, if it made any.
CaseRunEnds ==
  /\ RunEnds
  /\ outcome' \in Outcomes
  /\ outcome' = "unplanned" => calls = <<>>
  /\ outcome' = "completed" /\ calls # <<>> =>
       results # <<>> /\ Last(results).call = Len(calls) /\ Last(results).answer.success
  /\ UNCHANGED <<stage, summary, report>>

CaseCall ==
  /\ \E request \in Requests : CallAnswered(request) \/ CallRaised(request)
  /\ UNCHANGED <<outcome, stage, summary, report>>

CaseExtract == ExtractStep /\ UNCHANGED <<outcome, stage, summary, report>>

\* DeterministicSummaryBuilder.build.
Summarise ==
  /\ Extracted /\ stage = "evidence"
  /\ stage' = "summary"
  /\ summary' = [observations |-> Observations, gaps |-> InformationGaps(outcome)]
  /\ UNCHANGED <<evidenceVars, outcome, report>>

\* FinalReportBuilder.build: findings, verdict and evidence index in one call.
BuildReport ==
  /\ stage = "summary"
  /\ stage' = "report"
  /\ report' = [findings |-> AllFindings, verdict |-> Verdict(AllFindings, summary.gaps),
                index |-> EvidenceIndex]
  /\ UNCHANGED <<evidenceVars, outcome, summary>>

Reported == stage = "report" /\ UNCHANGED caseVars

CaseInit ==
  /\ EvidenceInit /\ outcome = "running" /\ stage = "evidence"
  /\ summary = [observations |-> {}, gaps |-> {}]
  /\ report = [findings |-> {}, verdict |-> Judgement(Unset, Unset, {}, {}), index |-> <<>>]
CaseNext == CaseCall \/ CaseRunEnds \/ CaseExtract \/ Summarise \/ BuildReport \/ Reported
CaseSpec == CaseInit /\ [][CaseNext]_caseVars
=============================================================================

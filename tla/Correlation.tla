----------------------------- MODULE Correlation -----------------------------
(***************************************************************************)
(* correlate_trace_with_run of app/agents/decision_trace.py: inside one    *)
(* step, the n-th traced call decision is given the n-th call of the step. *)
(* A step has one allowed tool, so the step alone is the pairing key.      *)
(***************************************************************************)
EXTENDS Integers, Sequences, FiniteSets

Bug_PairsAnyDecision(entries, d) ==
  Cardinality({e \in 1..d : entries[e].step = entries[d].step})

\* How many decisions for a call of its step there are up to decision d.
Rank(entries, d) ==
  Cardinality({e \in 1..d : entries[e].selected /\ entries[e].step = entries[d].step})

\* The position of the n-th call of a step, or 0 if it made fewer.
NthCall(calls, step, n) ==
  LET ofStep == {c \in 1..Len(calls) : calls[c].step = step}
      hit == {c \in ofStep : Cardinality({b \in ofStep : b <= c}) = n} IN
  IF hit = {} THEN 0 ELSE CHOOSE c \in hit : TRUE

\* For each trace entry the position of its call, or 0 for "no tool_call_id".
Correlate(entries, calls) ==
  [d \in 1..Len(entries) |->
     IF entries[d].selected THEN NthCall(calls, entries[d].step, Rank(entries, d)) ELSE 0]
=============================================================================

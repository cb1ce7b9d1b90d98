------------------------------ MODULE CaseProofs ------------------------------
(***************************************************************************)
(* Machine-checked proofs about the analysis of a case, its evidence,      *)
(* summary, findings and verdict, for every dataset, set of requests and   *)
(* answers, and every order of calls and results.                          *)
(***************************************************************************)
EXTENDS CaseProperties, OrderingProofs

RecordSet ==
  UNION {UNION {Range(AnswerTo[q].lists[l]) : l \in DOMAIN AnswerTo[q].lists} :
           q \in {q \in Requests : AnswerTo[q].success /\ AnswerTo[q].object}}

ResultSet == [call : Nat, answer : {AnswerTo[q] : q \in Requests}]
RefSet == [result : Nat, call : Nat]
TagSet == {"telemetry", "knowledge", "case-linked", "unlinked-knowledge"}
ItemSet == [record : RecordSet, tags : SUBSET TagSet, references : Seq(RefSet)]

EvidenceTypes ==
  /\ calls \in Seq(Requests) /\ results \in Seq(ResultSet)
  /\ cursor \in 0..Len(results)
  /\ pending \in Seq(RecordSet)
  /\ items \in Seq(ItemSet)

-----------------------------------------------------------------------------
(* What the executor answers                                               *)

\* A readable result holds sequences of records.
LEMMA ListsType ==
  ASSUME NEW r \in ResultSet, r.answer.success, r.answer.object,
         NEW l \in DOMAIN r.answer.lists
  PROVE  r.answer.lists[l] \in Seq(RecordSet)
<1>1. PICK q \in Requests : r.answer = AnswerTo[q]
  BY DEF ResultSet
<1>2. r.answer.lists[l] \in Seq(Range(r.answer.lists[l]))
  BY <1>1, AnswersAssumption
<1>3. Range(r.answer.lists[l]) \subseteq RecordSet
  BY <1>1 DEF RecordSet
<1>. QED
  BY <1>2, <1>3

\* The records of a readable result, list after list, are a sequence of records.
LEMMA OccurrencesType ==
  ASSUME NEW r \in ResultSet, Readable(r)
  PROVE  Occurrences(r) \in Seq(RecordSet)
<1>1. \A l : RecordsIn(r, l) \in Seq(RecordSet)
  BY ListsType DEF Readable, RecordsIn, Listed
<1>. QED
  BY <1>1 DEF Occurrences

\* A record that was returned has a class, and a reputation names its indicator.
LEMMA RecordFacts ==
  ASSUME NEW raw \in RecordSet
  PROVE  /\ raw.class \in Telemetry \cup Knowledge
         /\ raw.class = "ioc_reputation" => Get(raw, "indicator") # Unset
<1>1. PICK q \in Requests : /\ AnswerTo[q].success /\ AnswerTo[q].object
                          /\ \E l \in DOMAIN AnswerTo[q].lists : raw \in Range(AnswerTo[q].lists[l])
  BY DEF RecordSet
<1>2. PICK l \in DOMAIN AnswerTo[q].lists : raw \in Range(AnswerTo[q].lists[l])
  BY <1>1
<1>3. /\ l \in DOMAIN ClassIn /\ raw.class = ClassIn[l]
      /\ raw.class = "ioc_reputation" => Get(raw, "indicator") # Unset
  BY <1>1, <1>2, AnswersAssumption
<1>. QED
  BY <1>3 DEF ClassIn, Telemetry, Knowledge
-----------------------------------------------------------------------------
(* The accumulator                                                         *)

\* The items of two places are different records.
AllDistinct(evidence) ==
  \A e, f \in DOMAIN evidence : Identity(evidence[e].record) = Identity(evidence[f].record) => e = f

\* An item takes in another occurrence of its record.
Gains(old, new, tags, reference) ==
  /\ new.record = old.record /\ new.tags = old.tags \cup tags
  /\ new.references = Append(old.references, reference)

\* Accumulate adds one item, or one reference to one item.
LEMMA AccumulateEffect ==
  ASSUME NEW evidence \in Seq(ItemSet), NEW raw \in RecordSet, NEW tags \in SUBSET TagSet,
         NEW reference \in RefSet, AllDistinct(evidence)
  PROVE  LET new == Accumulate(evidence, raw, tags, reference) IN
         /\ new \in Seq(ItemSet) /\ Len(evidence) <= Len(new)
         /\ AllDistinct(new)
         /\ \A e \in DOMAIN evidence :
              \/ new[e] = evidence[e]
              \/ /\ Identity(evidence[e].record) = Identity(raw)
                 /\ Gains(evidence[e], new[e], tags, reference)
         /\ \A e \in DOMAIN new \ DOMAIN evidence : new[e] = NewItem(raw, tags, reference)
         /\ \E e \in DOMAIN new :
              /\ Identity(new[e].record) = Identity(raw)
              /\ reference \in Range(new[e].references) /\ tags \subseteq new[e].tags
<1>. DEFINE new == Accumulate(evidence, raw, tags, reference)
<1>1. \A e \in DOMAIN evidence : evidence[e] \in ItemSet
  BY ElementOfSeq
<1>2. DOMAIN evidence = 1..Len(evidence) /\ Len(evidence) \in Nat
  BY LenProperties
<1>3. CASE Known(evidence, raw)
  <2>. DEFINE gained(e) ==
         [evidence[e] EXCEPT !.tags = @ \cup tags, !.references = Append(@, reference)]
  <2>1. new = [e \in DOMAIN evidence |->
                 IF Identity(evidence[e].record) # Identity(raw) THEN evidence[e] ELSE gained(e)]
    BY <1>3 DEF Accumulate
  <2>2. ASSUME NEW e \in DOMAIN evidence
        PROVE  /\ gained(e) \in ItemSet
               /\ Gains(evidence[e], gained(e), tags, reference)
               /\ reference \in Range(gained(e).references)
    <3>1. /\ evidence[e].references \in Seq(RefSet) /\ evidence[e].tags \in SUBSET TagSet
          /\ evidence[e].record \in RecordSet
          /\ DOMAIN evidence[e] = {"record", "tags", "references"}
      BY <1>1 DEF ItemSet
    <3>2. Append(evidence[e].references, reference) \in Seq(RefSet)
      BY <3>1
    <3>3. /\ gained(e).record = evidence[e].record
          /\ gained(e).tags = evidence[e].tags \cup tags
          /\ gained(e).references = Append(evidence[e].references, reference)
      BY <3>1
    <3>4. gained(e) \in ItemSet
      BY <1>1, <3>1, <3>2 DEF ItemSet
    <3>5. reference \in Range(Append(evidence[e].references, reference))
      BY <3>1, AppendProperties DEF Range
    <3>. QED
      BY <3>3, <3>4, <3>5 DEF Gains
  <2>. HIDE DEF gained
  <2>3. \A e \in DOMAIN evidence : new[e] \in ItemSet
    BY <1>1, <2>1, <2>2
  <2>4. new \in Seq(ItemSet) /\ Len(new) = Len(evidence) /\ DOMAIN new = DOMAIN evidence
    BY <1>2, <2>1, <2>3, SeqDef, LenProperties
  <2>5. \A e \in DOMAIN evidence : new[e].record = evidence[e].record
    BY <2>1, <2>2 DEF Gains
  <2>6. AllDistinct(new)
    BY <2>4, <2>5 DEF AllDistinct
  <2>7. PICK e \in DOMAIN evidence : Identity(evidence[e].record) = Identity(raw)
    BY <1>3 DEF Known
  <2>8. new[e] = gained(e)
    BY <2>1, <2>7
  <2>9. /\ Identity(new[e].record) = Identity(raw) /\ reference \in Range(new[e].references)
        /\ tags \subseteq new[e].tags
    BY <2>2, <2>5, <2>7, <2>8 DEF Gains
  <2>10. \A f \in DOMAIN evidence :
           \/ new[f] = evidence[f]
           \/ /\ Identity(evidence[f].record) = Identity(raw)
              /\ Gains(evidence[f], new[f], tags, reference)
    BY <2>1, <2>2
  <2>. QED
    BY <1>2, <2>4, <2>6, <2>9, <2>10
<1>4. CASE ~Known(evidence, raw)
  <2>. DEFINE item == NewItem(raw, tags, reference)
  <2>1. new = Append(evidence, item)
    BY <1>4 DEF Accumulate
  <2>2. /\ item \in ItemSet /\ item.record = raw /\ item.tags = tags
        /\ reference \in Range(item.references)
    BY DEF NewItem, ItemSet, Range
  <2>. HIDE DEF item
  <2>3. /\ new \in Seq(ItemSet) /\ Len(new) = Len(evidence) + 1
        /\ DOMAIN new = 1..(Len(evidence) + 1)
        /\ \A e \in DOMAIN evidence : new[e] = evidence[e]
        /\ new[Len(evidence) + 1] = item
    BY <1>2, <2>1, <2>2, AppendProperties
  <2>4. \A e \in DOMAIN evidence : Identity(evidence[e].record) # Identity(raw)
    BY <1>4 DEF Known
  <2>5. AllDistinct(new)
    BY <1>2, <2>2, <2>3, <2>4 DEF AllDistinct
  <2>6. \A e \in DOMAIN new \ DOMAIN evidence : new[e] = item
    BY <1>2, <2>3
  <2>7. Len(evidence) + 1 \in DOMAIN new
    BY <1>2, <2>3
  <2>. QED
    BY <1>2, <2>2, <2>3, <2>5, <2>6, <2>7 DEF item
<1>. QED
  BY <1>3, <1>4
-----------------------------------------------------------------------------
(* The invariant                                                           *)

\* Extraction begins when the run has ended; what it still has to read was in the
\* result it opened last.
Control ==
  /\ running => cursor = 0 /\ pending = <<>> /\ items = <<>>
  /\ pending # <<>> =>
       /\ cursor \in 1..Len(results) /\ Readable(results[cursor])
       /\ Range(pending) \subseteq Range(Occurrences(results[cursor]))

\* A valid record of an opened result is evidence that refers to this result, or it
\* is still to be read.
Kept(raw, n) ==
  \E e \in DOMAIN items :
    /\ \E r \in Range(items[e].references) : r.result = n
    /\ Identity(items[e].record) = Identity(raw)

NothingDropped ==
  \A n \in 1..cursor : Readable(results[n]) =>
    \A raw \in Raws(n) : (n = cursor /\ raw \in Range(pending)) \/ Kept(raw, n)

EvidenceInv ==
  EvidenceTypes /\ Control /\ AllDistinct(items) /\ ReferencesTrace /\ NothingDropped

\* Before the first call nothing is there to be wrong.
LEMMA InitEvidence == EvidenceInit => EvidenceInv
  BY DEF EvidenceInit, EvidenceInv, EvidenceTypes, Control, AllDistinct, ReferencesTrace,
         NothingDropped

\* While the run goes on, there is no evidence.
LEMMA RunKeepsEvidence ==
  ASSUME EvidenceInv, RunStep
  PROVE  EvidenceInv'
<1>1. running /\ UNCHANGED <<cursor, pending, items>>
  BY DEF RunStep, CallAnswered, CallRaised, Call, RunEnds, extractVars
<1>2. cursor = 0 /\ pending = <<>> /\ items = <<>>
  BY <1>1 DEF EvidenceInv, Control
<1>3. calls' \in Seq(Requests) /\ results' \in Seq(ResultSet)
  <2>1. CASE RunEnds
    BY <2>1 DEF RunEnds, EvidenceInv, EvidenceTypes
  <2>2. ASSUME NEW q \in Requests, CallAnswered(q) \/ CallRaised(q)
        PROVE  calls' \in Seq(Requests) /\ results' \in Seq(ResultSet)
    <3>1. calls' = Append(calls, q)
      BY <2>2 DEF CallAnswered, CallRaised, Call
    <3>2. [call |-> Len(calls) + 1, answer |-> AnswerTo[q]] \in ResultSet
      BY LenProperties DEF ResultSet, EvidenceInv, EvidenceTypes
    <3>3. results' = results \/ results' = Append(results, [call |-> Len(calls) + 1, answer |-> AnswerTo[q]])
      BY <2>2 DEF CallAnswered, CallRaised
    <3>4. calls \in Seq(Requests) /\ results \in Seq(ResultSet)
      BY DEF EvidenceInv, EvidenceTypes
    <3>5. calls' \in Seq(Requests)
      BY <2>2, <3>1, <3>4, AppendProperties
    <3>6. results' \in Seq(ResultSet)
      BY <3>2, <3>3, <3>4, AppendProperties
    <3>. QED
      BY <3>5, <3>6
  <2>. QED
    BY <2>1, <2>2 DEF RunStep
<1>4. EvidenceTypes' /\ Control'
  BY <1>1, <1>2, <1>3, LenProperties DEF EvidenceTypes, Control, EvidenceInv
<1>5. AllDistinct(items)' /\ ReferencesTrace' /\ NothingDropped'
  BY <1>1, <1>2 DEF AllDistinct, ReferencesTrace, NothingDropped
<1>. QED
  BY <1>4, <1>5 DEF EvidenceInv

\* Extraction leaves the results alone, and so what they hold.
LEMMA ResultsStay ==
  ASSUME UNCHANGED runVars
  PROVE  /\ UNCHANGED <<calls, results, running>>
         /\ \A n : /\ Readable(results[n])' <=> Readable(results[n])
                  /\ Occurrences(results[n])' = Occurrences(results[n])
                  /\ Raws(n)' = Raws(n)
<1>1. UNCHANGED <<calls, results, running>>
  BY DEF runVars
<1>2. \A n : Occurrences(results[n])' = Occurrences(results[n])
  BY <1>1 DEF Occurrences, RecordsIn, Listed, ToolOf
<1>3. \A n : Readable(results[n])' <=> Readable(results[n])
  BY <1>1 DEF Readable, ToolOf
<1>4. \A n : Raws(n)' = Raws(n)
  BY <1>2 DEF Raws
<1>. QED
  BY <1>1, <1>2, <1>3, <1>4

\* The next result is opened: it is skipped unless readable, and nothing is lost
\* with it.
LEMMA OpeningKeepsEvidence ==
  ASSUME EvidenceInv, SkipFailed \/ SkipUnreadable \/ OpenResult
  PROVE  EvidenceInv'
<1>1. /\ ~running /\ pending = <<>> /\ cursor < Len(results)
      /\ cursor' = cursor + 1 /\ UNCHANGED <<runVars, items>>
  BY DEF SkipFailed, SkipUnreadable, OpenResult, MayOpen
<1>2. \/ ~Readable(results[cursor']) /\ pending' = <<>>
      \/ Readable(results[cursor']) /\ pending' = Occurrences(results[cursor'])
  BY <1>1 DEF SkipFailed, SkipUnreadable, OpenResult, Readable
<1>3. /\ EvidenceTypes /\ Len(results) \in Nat /\ cursor \in Nat
      /\ cursor' \in 1..Len(results) /\ results[cursor'] \in ResultSet
  <2>1. results \in Seq(ResultSet) /\ cursor \in 0..Len(results) /\ EvidenceTypes
    BY DEF EvidenceInv, EvidenceTypes
  <2>2. Len(results) \in Nat
    BY <2>1, LenProperties
  <2>3. cursor \in Nat /\ cursor' \in 1..Len(results)
    BY <1>1, <2>1, <2>2
  <2>. QED
    BY <2>1, <2>2, <2>3, ElementOfSeq
<1>4. EvidenceTypes'
  <2>1. pending' \in Seq(RecordSet)
    <3>1. CASE pending' = <<>>
      BY <3>1
    <3>2. CASE Readable(results[cursor']) /\ pending' = Occurrences(results[cursor'])
      BY <1>3, <3>2, OccurrencesType
    <3>. QED
      BY <1>2, <3>1, <3>2
  <2>2. UNCHANGED <<calls, results, items>>
    BY <1>1 DEF runVars
  <2>. QED
    BY <1>3, <2>1, <2>2 DEF EvidenceTypes
<1>5. Control'
  BY <1>1, <1>2, <1>3, ResultsStay DEF Control
<1>6. AllDistinct(items)'
  BY <1>1 DEF AllDistinct, EvidenceInv
<1>7. ReferencesTrace'
  BY <1>1, <1>3, ResultsStay DEF ReferencesTrace, EvidenceInv
<1>8. NothingDropped'
  <2>1. SUFFICES ASSUME NEW n \in 1..cursor', Readable(results[n]), NEW raw \in Raws(n)
                 PROVE  (n = cursor' /\ raw \in Range(pending')) \/ Kept(raw, n)
    BY <1>1, ResultsStay DEF NothingDropped, Kept
  <2>2. CASE n = cursor'
    BY <1>2, <2>1, <2>2 DEF Raws
  <2>3. CASE n # cursor'
    <3>1. n \in 1..cursor
      BY <1>1, <1>3, <2>1, <2>3
    <3>2. Range(pending) = {}
      BY <1>1 DEF Range
    <3>. QED
      BY <2>1, <3>1, <3>2 DEF EvidenceInv, NothingDropped
  <2>. QED
    BY <2>2, <2>3
<1>. QED
  BY <1>4, <1>5, <1>6, <1>7, <1>8 DEF EvidenceInv

\* The records still to be read are the next one and those after it.
LEMMA RangeOfTail ==
  ASSUME NEW s \in Seq(RecordSet), s # <<>>
  PROVE  /\ Head(s) \in RecordSet /\ Tail(s) \in Seq(RecordSet)
         /\ Range(s) = {Head(s)} \cup Range(Tail(s))
<1>1. /\ Head(s) = s[1] /\ Head(s) \in RecordSet /\ Tail(s) \in Seq(RecordSet)
      /\ Len(s) \in Nat /\ Len(s) >= 1
      /\ DOMAIN s = 1..Len(s) /\ DOMAIN Tail(s) = 1..(Len(s) - 1)
      /\ \A n \in 1..(Len(s) - 1) : Tail(s)[n] = s[n + 1]
  BY HeadTailProperties, LenProperties
<1>2. Range(s) \subseteq {Head(s)} \cup Range(Tail(s))
  <2>1. ASSUME NEW n \in 1..Len(s), n # 1
        PROVE  s[n] \in Range(Tail(s))
    <3>1. n - 1 \in 1..(Len(s) - 1) /\ (n - 1) + 1 = n
      BY <1>1, <2>1
    <3>2. s[n] = Tail(s)[n - 1]
      BY <1>1, <3>1
    <3>. QED
      BY <1>1, <3>1, <3>2 DEF Range
  <2>2. \A n \in 1..Len(s) : s[n] \in {Head(s)} \cup Range(Tail(s))
    BY <1>1, <2>1
  <2>. QED
    BY <1>1, <2>2 DEF Range
<1>3. Range(Tail(s)) \subseteq Range(s)
  <2>1. \A n \in 1..(Len(s) - 1) : n + 1 \in 1..Len(s)
    BY <1>1
  <2>. QED
    BY <1>1, <2>1 DEF Range
<1>4. Head(s) \in Range(s)
  BY <1>1 DEF Range
<1>. QED
  BY <1>1, <1>2, <1>3, <1>4
\* A record that does not validate is skipped: nothing refers to it.
LEMMA RejectingKeepsEvidence ==
  ASSUME EvidenceInv, RejectRecord
  PROVE  EvidenceInv'
<1>1. /\ pending # <<>> /\ ~Head(pending).valid /\ pending' = Tail(pending)
      /\ UNCHANGED <<runVars, cursor, items>>
  BY DEF RejectRecord
<1>2. /\ pending \in Seq(RecordSet) /\ pending' \in Seq(RecordSet)
      /\ Range(pending) = {Head(pending)} \cup Range(pending')
  BY <1>1, RangeOfTail DEF EvidenceInv, EvidenceTypes
<1>3. EvidenceTypes'
  BY <1>1, <1>2 DEF EvidenceInv, EvidenceTypes, runVars
<1>4. Control'
  BY <1>1, <1>2, ResultsStay DEF EvidenceInv, Control
<1>5. AllDistinct(items)' /\ ReferencesTrace'
  BY <1>1, ResultsStay DEF EvidenceInv, AllDistinct, ReferencesTrace
<1>6. NothingDropped'
  <2>1. SUFFICES ASSUME NEW n \in 1..cursor, Readable(results[n]), NEW raw \in Raws(n)
                 PROVE  (n = cursor /\ raw \in Range(pending')) \/ Kept(raw, n)
    BY <1>1, ResultsStay DEF NothingDropped, Kept
  <2>2. raw # Head(pending)
    BY <1>1, <2>1 DEF Raws
  <2>. QED
    BY <1>2, <2>1, <2>2 DEF EvidenceInv, NothingDropped
<1>. QED
  BY <1>3, <1>4, <1>5, <1>6 DEF EvidenceInv

\* Every reference of an item is true, and they come in result order.
Traced(item) ==
  \A n \in DOMAIN item.references :
    LET r == item.references[n] IN
    /\ r.result \in 1..cursor /\ Readable(results[r.result])
    /\ r.call = results[r.result].call
    /\ \E raw \in Raws(r.result) : Identity(raw) = Identity(item.record)
    /\ \A m \in DOMAIN item.references : m < n => item.references[m].result <= r.result

\* What taking a record over does to evidence, cursor and pending records.
LEMMA TakeEffect ==
  ASSUME EvidenceInv, TakeRecord
  PROVE  /\ cursor \in 1..Len(results) /\ Len(results) \in Nat /\ Readable(results[cursor])
         /\ Head(pending) \in Raws(cursor)
         /\ Range(pending) = {Head(pending)} \cup Range(pending')
         /\ pending' \in Seq(RecordSet)
         /\ Reference \in RefSet /\ UNCHANGED <<runVars, cursor>>
         /\ \E tags \in SUBSET TagSet :
              /\ tags = Tags(Head(pending), calls[results[cursor].call])
              /\ Head(pending).class \in Telemetry => "telemetry" \in tags
              /\ items' = Accumulate(items, Head(pending), tags, Reference)
              /\ items' \in Seq(ItemSet) /\ Len(items) <= Len(items')
              /\ AllDistinct(items')
              /\ \A e \in DOMAIN items :
                   \/ items'[e] = items[e]
                   \/ /\ Identity(items[e].record) = Identity(Head(pending))
                      /\ Gains(items[e], items'[e], tags, Reference)
              /\ \A e \in DOMAIN items' \ DOMAIN items :
                   items'[e] = NewItem(Head(pending), tags, Reference)
              /\ \E e \in DOMAIN items' :
                   /\ Identity(items'[e].record) = Identity(Head(pending))
                   /\ Reference \in Range(items'[e].references) /\ tags \subseteq items'[e].tags
<1>. DEFINE raw == Head(pending)
            request == calls[results[cursor].call]
<1>1. /\ pending # <<>> /\ raw.valid /\ pending' = Tail(pending)
      /\ items' = Accumulate(items, raw, Tags(raw, request), Reference)
      /\ UNCHANGED <<runVars, cursor>>
  BY DEF TakeRecord
<1>2. EvidenceTypes /\ Control /\ AllDistinct(items)
  BY DEF EvidenceInv
<1>3. /\ raw \in RecordSet /\ pending' \in Seq(RecordSet)
      /\ Range(pending) = {raw} \cup Range(pending')
  BY <1>1, <1>2, RangeOfTail DEF EvidenceTypes
<1>4. /\ cursor \in 1..Len(results) /\ Readable(results[cursor])
      /\ Range(pending) \subseteq Range(Occurrences(results[cursor]))
  BY <1>1, <1>2 DEF Control
<1>5. raw \in Raws(cursor)
  BY <1>1, <1>3, <1>4 DEF Raws
<1>6. results \in Seq(ResultSet) /\ Len(results) \in Nat
  BY <1>2, LenProperties DEF EvidenceTypes
<1>7. results[cursor].call \in Nat /\ cursor \in Nat
  <2>1. results[cursor] \in ResultSet
    BY <1>4, <1>6, ElementOfSeq
  <2>. QED
    BY <1>4, <1>6, <2>1 DEF ResultSet
<1>8. Reference \in RefSet
  BY <1>7 DEF Reference, RefSet
<1>9. Tags(raw, request) \in SUBSET TagSet
  BY DEF Tags, TagSet
<1>10. raw.class \in Telemetry => "telemetry" \in Tags(raw, request)
  BY DEF Tags
<1>11. items \in Seq(ItemSet)
  BY <1>2 DEF EvidenceTypes
<1>. HIDE DEF raw, request
<1>12. LET tags == Tags(raw, request) IN
         /\ items' \in Seq(ItemSet) /\ Len(items) <= Len(items')
         /\ AllDistinct(items')
         /\ \A e \in DOMAIN items :
              \/ items'[e] = items[e]
              \/ /\ Identity(items[e].record) = Identity(raw)
                 /\ Gains(items[e], items'[e], tags, Reference)
         /\ \A e \in DOMAIN items' \ DOMAIN items : items'[e] = NewItem(raw, tags, Reference)
         /\ \E e \in DOMAIN items' :
              /\ Identity(items'[e].record) = Identity(raw)
              /\ Reference \in Range(items'[e].references) /\ tags \subseteq items'[e].tags
  <2>. DEFINE tags == Tags(raw, request)
              new == Accumulate(items, raw, tags, Reference)
  <2>1. tags \in SUBSET TagSet /\ items' = new
    BY <1>1, <1>9
  <2>. HIDE DEF tags
  <2>2. /\ new \in Seq(ItemSet) /\ Len(items) <= Len(new)
        /\ AllDistinct(new)
        /\ \A e \in DOMAIN items :
             \/ new[e] = items[e]
             \/ /\ Identity(items[e].record) = Identity(raw)
                /\ Gains(items[e], new[e], tags, Reference)
        /\ \A e \in DOMAIN new \ DOMAIN items : new[e] = NewItem(raw, tags, Reference)
        /\ \E e \in DOMAIN new :
             /\ Identity(new[e].record) = Identity(raw)
             /\ Reference \in Range(new[e].references) /\ tags \subseteq new[e].tags
    BY <1>2, <1>3, <1>8, <1>11, <2>1, AccumulateEffect
  <2>. HIDE DEF new
  <2>. QED
    BY <2>1, <2>2 DEF tags
<1>. QED
  BY <1>1, <1>3, <1>4, <1>5, <1>6, <1>8, <1>9, <1>12, <1>10 DEF raw, request

\* A valid record becomes an item or joins the one that it is.
LEMMA TakingKeepsEvidence ==
  ASSUME EvidenceInv, TakeRecord
  PROVE  EvidenceInv'
<1>. DEFINE raw == Head(pending)
<1>1. PICK tags \in SUBSET TagSet :
         /\ items' \in Seq(ItemSet) /\ AllDistinct(items')
         /\ \A e \in DOMAIN items :
              \/ items'[e] = items[e]
              \/ /\ Identity(items[e].record) = Identity(raw)
                 /\ Gains(items[e], items'[e], tags, Reference)
         /\ \A e \in DOMAIN items' \ DOMAIN items : items'[e] = NewItem(raw, tags, Reference)
         /\ \E e \in DOMAIN items' :
              /\ Identity(items'[e].record) = Identity(raw)
              /\ Reference \in Range(items'[e].references)
         /\ Len(items) <= Len(items')
  BY TakeEffect
<1>2. /\ cursor \in 1..Len(results) /\ Len(results) \in Nat /\ Readable(results[cursor])
      /\ raw \in Raws(cursor) /\ Range(pending) = {raw} \cup Range(pending')
      /\ pending' \in Seq(RecordSet) /\ Reference \in RefSet /\ UNCHANGED <<runVars, cursor>>
  BY TakeEffect
<1>3. /\ items \in Seq(ItemSet) /\ \A e \in DOMAIN items : items[e] \in ItemSet
      /\ ReferencesTrace /\ NothingDropped /\ EvidenceTypes /\ Control
  BY ElementOfSeq, LenProperties DEF EvidenceInv, EvidenceTypes
<1>4. \A e \in DOMAIN items : e \in DOMAIN items'
  BY <1>1, <1>3, LenProperties
<1>. HIDE DEF raw
<1>5. EvidenceTypes'
  BY <1>1, <1>2, <1>3 DEF EvidenceTypes, runVars
<1>6. Control'
  <2>1. ~running /\ pending # <<>> /\ Range(pending) \subseteq Range(Occurrences(results[cursor]))
    BY <1>3 DEF Control, TakeRecord
  <2>. QED
    BY <1>2, <2>1, ResultsStay DEF Control
<1>7. ReferencesTrace'
  <2>1. SUFFICES ASSUME NEW e \in DOMAIN items'
                 PROVE  Traced(items'[e])
    BY <1>2, ResultsStay DEF ReferencesTrace, Traced
  <2>2. Reference.result = cursor /\ Reference.call = results[cursor].call
    BY DEF Reference
  <2>3. CASE e \notin DOMAIN items
    <3>1. items'[e].record = raw /\ items'[e].references = <<Reference>>
      BY <1>1, <2>1, <2>3 DEF NewItem
    <3>. QED
      BY <1>2, <2>2, <3>1 DEF Traced
  <2>4. CASE e \in DOMAIN items /\ items'[e] = items[e]
    BY <1>3, <2>4 DEF ReferencesTrace, Traced
  <2>5. CASE e \in DOMAIN items /\ Identity(items[e].record) = Identity(raw)
               /\ Gains(items[e], items'[e], tags, Reference)
    <3>. DEFINE old == items[e].references
                new == items'[e].references
    <3>1. old \in Seq(RefSet) /\ items'[e].record = items[e].record /\ new = Append(old, Reference)
      BY <1>3, <2>5 DEF ItemSet, Gains
    <3>2. /\ Len(old) \in Nat /\ DOMAIN old = 1..Len(old) /\ DOMAIN new = 1..(Len(old) + 1)
          /\ \A n \in 1..Len(old) : new[n] = old[n]
          /\ new[Len(old) + 1] = Reference
      BY <1>2, <3>1, AppendProperties, LenProperties
    <3>3. \A n \in 1..Len(old) :
            /\ old[n].result \in 1..cursor /\ Readable(results[old[n].result])
            /\ old[n].call = results[old[n].result].call
            /\ \E raw_ \in Raws(old[n].result) : Identity(raw_) = Identity(items[e].record)
            /\ \A m \in 1..Len(old) : m < n => old[m].result <= old[n].result
      BY <1>3, <2>5, <3>2 DEF ReferencesTrace
    <3>. HIDE DEF old, new
    <3>4. \A m \in 1..(Len(old) + 1) : m < Len(old) + 1 => new[m].result <= cursor
      BY <1>2, <3>2, <3>3
    <3>5. SUFFICES ASSUME NEW n \in 1..(Len(old) + 1)
                   PROVE  /\ new[n].result \in 1..cursor /\ Readable(results[new[n].result])
                          /\ new[n].call = results[new[n].result].call
                          /\ \E raw_ \in Raws(new[n].result) :
                               Identity(raw_) = Identity(items[e].record)
                          /\ \A m \in 1..(Len(old) + 1) : m < n => new[m].result <= new[n].result
      BY <3>1, <3>2 DEF Traced, new
    <3>6. CASE n = Len(old) + 1
      BY <1>2, <2>2, <2>5, <3>2, <3>4, <3>6
    <3>7. CASE n \in 1..Len(old)
      <4>1. \A m \in 1..(Len(old) + 1) : m < n => m \in 1..Len(old)
        BY <3>2, <3>7
      <4>. QED
        BY <3>2, <3>3, <3>7, <4>1
    <3>. QED
      BY <3>2, <3>6, <3>7
  <2>. QED
    BY <1>1, <2>3, <2>4, <2>5
<1>8. NothingDropped'
  <2>1. SUFFICES ASSUME NEW n \in 1..cursor, Readable(results[n]), NEW other \in Raws(n)
                 PROVE  \/ n = cursor /\ other \in Range(pending')
                        \/ \E e \in DOMAIN items' :
                             /\ \E r \in Range(items'[e].references) : r.result = n
                             /\ Identity(items'[e].record) = Identity(other)
    BY <1>2, ResultsStay DEF NothingDropped, Kept
  <2>2. CASE n = cursor /\ other = raw
    BY <1>1, <2>2 DEF Reference
  <2>3. CASE Kept(other, n)
    <3>0. PICK e \in DOMAIN items :
            /\ \E r \in Range(items[e].references) : r.result = n
            /\ Identity(items[e].record) = Identity(other)
      BY <2>3 DEF Kept
    <3>1. PICK r \in Range(items[e].references) : r.result = n
      BY <3>0
    <3>2. items'[e].record = items[e].record /\ r \in Range(items'[e].references)
      <4>1. items[e].references \in Seq(RefSet)
        BY <1>3, <3>0 DEF ItemSet
      <4>2. r \in Range(Append(items[e].references, Reference))
        BY <1>2, <3>1, <4>1, AppendProperties, LenProperties DEF Range
      <4>. QED
        BY <1>1, <3>0, <3>1, <4>2 DEF Gains
    <3>. QED
      BY <1>4, <3>0, <3>1, <3>2
  <2>4. \/ n = cursor /\ other \in Range(pending)
        \/ Kept(other, n)
    BY <1>3, <2>1 DEF NothingDropped
  <2>. QED
    BY <1>2, <2>2, <2>3, <2>4
<1>. QED
  BY <1>1, <1>5, <1>6, <1>7, <1>8 DEF EvidenceInv
-----------------------------------------------------------------------------
(* Theorems                                                                *)

\* Of a case, the run and the extraction touch the evidence; summary and report
\* only read it.
LEMMA CaseStepOnEvidence ==
  ASSUME [CaseNext]_caseVars
  PROVE  RunStep \/ ExtractStep \/ UNCHANGED evidenceVars
  BY DEF CaseNext, CaseCall, CaseRunEnds, CaseExtract, Summarise, BuildReport, Reported, RunStep,
         caseVars

\* Only reading a valid record changes the items.
LEMMA OnlyTakingAdds ==
  ASSUME [CaseNext]_caseVars
  PROVE  TakeRecord \/ UNCHANGED items
<1>1. RunStep => UNCHANGED items
  BY DEF RunStep, CallAnswered, CallRaised, Call, RunEnds, extractVars
<1>2. ExtractStep => TakeRecord \/ UNCHANGED items
  BY DEF ExtractStep, SkipFailed, SkipUnreadable, OpenResult, RejectRecord
<1>3. UNCHANGED evidenceVars => UNCHANGED items
  BY DEF evidenceVars, extractVars
<1>. QED
  BY <1>1, <1>2, <1>3, CaseStepOnEvidence

\* Every step keeps the invariant.
LEMMA EvidenceInductive == EvidenceInv /\ [CaseNext]_caseVars => EvidenceInv'
<1>. SUFFICES ASSUME EvidenceInv, [CaseNext]_caseVars
              PROVE  EvidenceInv'
  OBVIOUS
<1>1. CASE RunStep
  BY <1>1, RunKeepsEvidence
<1>2. CASE ExtractStep
  BY <1>2, OpeningKeepsEvidence, RejectingKeepsEvidence, TakingKeepsEvidence DEF ExtractStep
<1>3. CASE UNCHANGED evidenceVars
  <2>1. UNCHANGED runVars /\ UNCHANGED <<cursor, pending, items>>
    BY <1>3 DEF evidenceVars, extractVars
  <2>2. EvidenceTypes' /\ Control' /\ AllDistinct(items)'
    BY <2>1, ResultsStay DEF EvidenceInv, EvidenceTypes, Control, AllDistinct
  <2>3. ReferencesTrace' /\ NothingDropped'
    BY <2>1, ResultsStay DEF EvidenceInv, ReferencesTrace, NothingDropped, Kept
  <2>. QED
    BY <2>2, <2>3 DEF EvidenceInv
<1>. QED
  BY <1>1, <1>2, <1>3, CaseStepOnEvidence

\* The invariant holds throughout a case.
THEOREM EvidenceCorrect == CaseSpec => []EvidenceInv
<1>1. CaseInit => EvidenceInv
  BY InitEvidence DEF CaseInit
<1>. QED
  BY <1>1, EvidenceInductive, PTL DEF CaseSpec

\* References are true: each names a result that was read, the call it answers and
\* a record it holds, in result order, so that the first is the primary one.
THEOREM ReferencesTrue == CaseSpec => []ReferencesTrace
<1>1. EvidenceInv => ReferencesTrace
  BY DEF EvidenceInv
<1>. QED
  BY <1>1, EvidenceCorrect, PTL

\* Deduplication loses nothing: after the extraction each valid record of each
\* readable result is exactly one item, which refers to that result.
THEOREM NothingLost == CaseSpec => []NothingIsLost
<1>1. EvidenceInv => NothingIsLost
  <2>1. SUFFICES ASSUME EvidenceInv, Extracted, NEW n \in DOMAIN results, Readable(results[n]),
                        NEW raw \in Raws(n)
                 PROVE  \E e \in DOMAIN items :
                          /\ \E r \in Range(items[e].references) : r.result = n
                          /\ {f \in DOMAIN items :
                                Identity(items[f].record) = Identity(raw)} = {e}
    BY DEF NothingIsLost
  <2>2. n \in 1..cursor /\ Range(pending) = {}
    BY <2>1, LenProperties DEF Extracted, EvidenceInv, EvidenceTypes, Range
  <2>3. PICK e \in DOMAIN items :
          /\ \E r \in Range(items[e].references) : r.result = n
          /\ Identity(items[e].record) = Identity(raw)
    BY <2>1, <2>2 DEF EvidenceInv, NothingDropped, Kept
  <2>4. \A f \in DOMAIN items : Identity(items[f].record) = Identity(raw) => f = e
    BY <2>1, <2>3 DEF EvidenceInv, AllDistinct
  <2>. QED
    BY <2>3, <2>4
<1>. QED
  BY <1>1, EvidenceCorrect, PTL

-----------------------------------------------------------------------------
(* What the tags tell                                                      *)

\* The techniques that a record ties to the case: those of a linked report.
TiedBy(raw) ==
  IF raw.class = "cti_record" /\ LinkedReport(raw) THEN raw.techniques ELSE {}

\* The linked techniques are those of the reports read: of each that was read, and
\* of nothing else.
TechniquesKnown ==
  /\ \A t \in linkedTechniques : \E m \in 1..cursor :
       Readable(results[m]) /\ \E raw \in Raws(m) : t \in TiedBy(raw)
  /\ \A m \in 1..cursor : Readable(results[m]) =>
       \A raw \in Raws(m) :
         (m = cursor /\ raw \in Range(pending)) \/ TiedBy(raw) \subseteq linkedTechniques

\* Techniques are read after the reports of their result.
TechniquesLast ==
  \A i, j \in DOMAIN pending :
    i <= j /\ pending[i].class = "attack_technique" => pending[j].class = "attack_technique"

LinkTag(raw, n) == IF TiedToCase(raw, n) THEN "case-linked" ELSE "unlinked-knowledge"

\* An item has the link tag of each of its occurrences that was read, and no other.
LinksTold ==
  \A e \in DOMAIN items :
    /\ \A n \in 1..cursor : Readable(results[n]) =>
         \A raw \in Raws(n) :
           raw.class \notin Telemetry /\ Identity(raw) = Identity(items[e].record) =>
             (n = cursor /\ raw \in Range(pending)) \/ LinkTag(raw, n) \in items[e].tags
    /\ \A tag \in items[e].tags \cap {"case-linked", "unlinked-knowledge"} :
         \E n \in 1..cursor : Readable(results[n]) /\ \E raw \in Raws(n) :
           Identity(raw) = Identity(items[e].record) /\ tag = LinkTag(raw, n)

TagsInv == TechniquesKnown /\ TechniquesLast /\ LinksTold

\* Extraction leaves alone what ties records to the case.
LEMMA TiesStay ==
  ASSUME UNCHANGED runVars
  PROVE  /\ \A raw : TiedBy(raw)' = TiedBy(raw)
         /\ \A raw, n : LinkTag(raw, n)' = LinkTag(raw, n)
<1>1. UNCHANGED <<calls, results>>
  BY DEF runVars
<1>2. CaseIndicators' = CaseIndicators
  BY <1>1 DEF CaseIndicators, Readable, RecordsIn, Listed, ToolOf
<1>3. \A raw : TiedBy(raw)' = TiedBy(raw)
  BY <1>2 DEF TiedBy, LinkedReport
<1>4. \A raw, n : TiedToCase(raw, n)' <=> TiedToCase(raw, n)
  BY <1>1, <1>2, ResultsStay DEF TiedToCase
<1>5. \A raw, n : LinkTag(raw, n)' = LinkTag(raw, n)
  BY <1>4 DEF LinkTag
<1>. QED
  BY <1>3, <1>5

\* Records of one identity are of one class.
LEMMA SameClass ==
  ASSUME NEW raw, NEW other, Identity(raw) = Identity(other)
  PROVE  raw.class = other.class
<1>1. Identity(raw)[1] = raw.class /\ Identity(other)[1] = other.class
  BY DEF Identity
<1>. QED
  BY <1>1

\* The records of a result are of a class, and a technique comes after the reports.
LEMMA ClassesInOrder ==
  ASSUME NEW r \in ResultSet, Readable(r), NEW i \in DOMAIN Occurrences(r),
         NEW j \in DOMAIN Occurrences(r), i <= j,
         Occurrences(r)[i].class = "attack_technique"
  PROVE  Occurrences(r)[j].class = "attack_technique"
<1>. DEFINE lists == Layout[ToolOf(r)]
            one == RecordsIn(r, lists[1])
            two == IF Len(lists) = 2 THEN RecordsIn(r, lists[2]) ELSE <<>>
<1>1. one \in Seq(RecordSet) /\ two \in Seq(RecordSet) /\ Occurrences(r) = one \o two
  BY ListsType DEF Readable, RecordsIn, Listed, Occurrences
<1>2. ASSUME NEW l, NEW k \in DOMAIN RecordsIn(r, l)
      PROVE  l \in DOMAIN ClassIn /\ RecordsIn(r, l)[k].class = ClassIn[l]
  <2>1. Listed(r, l) /\ RecordsIn(r, l) = r.answer.lists[l]
    BY <1>2 DEF RecordsIn
  <2>2. PICK q \in Requests : r.answer = AnswerTo[q]
    BY DEF ResultSet
  <2>3. RecordsIn(r, l)[k] \in Range(r.answer.lists[l])
    BY <1>2, <2>1 DEF Range
  <2>. QED
    BY <2>1, <2>2, <2>3, AnswersAssumption DEF Readable, Listed
<1>3. ClassIn[lists[1]] # "attack_technique"
  BY DEF Readable, Layout, ClassIn
<1>4. /\ Len(one) \in Nat /\ Len(two) \in Nat /\ DOMAIN one = 1..Len(one) /\ DOMAIN two = 1..Len(two)
      /\ DOMAIN (one \o two) = 1..(Len(one) + Len(two))
  BY <1>1, LenProperties, ConcatProperties
<1>5. /\ \A k \in 1..Len(one) : one[k].class # "attack_technique"
      /\ \A k, m \in 1..Len(two) : two[k].class = two[m].class
  BY <1>2, <1>3, <1>4
<1>. HIDE DEF one, two
<1>6. \A k \in 1..(Len(one) + Len(two)) :
        (one \o two)[k] = IF k <= Len(one) THEN one[k] ELSE two[k - Len(one)]
  BY <1>1, ConcatProperties
<1>7. i \in 1..(Len(one) + Len(two)) /\ j \in 1..(Len(one) + Len(two))
  BY <1>1, <1>4
<1>8. ~(i <= Len(one))
  <2>1. ASSUME i <= Len(one)
        PROVE  FALSE
    <3>1. i \in 1..Len(one) /\ (one \o two)[i] = one[i]
      BY <1>4, <1>6, <1>7, <2>1
    <3>. QED
      BY <1>1, <1>5, <3>1
  <2>. QED
    BY <2>1
<1>9. /\ i - Len(one) \in 1..Len(two) /\ j - Len(one) \in 1..Len(two)
      /\ (one \o two)[i] = two[i - Len(one)] /\ (one \o two)[j] = two[j - Len(one)]
  BY <1>4, <1>6, <1>7, <1>8
<1>. QED
  BY <1>1, <1>5, <1>9

\* A record is linked by the extractor exactly if it is tied to the case.
LEMMA LinkedIsTied ==
  ASSUME EvidenceInv, TagsInv, pending # <<>>, Head(pending).class \notin Telemetry
  PROVE  LinkTag(Head(pending), cursor) =
           IF Linked(Head(pending), calls[results[cursor].call]) THEN "case-linked"
           ELSE "unlinked-knowledge"
<1>. DEFINE raw == Head(pending)
<1>1. /\ pending \in Seq(RecordSet) /\ raw \in RecordSet /\ raw = pending[1]
      /\ Len(pending) \in Nat /\ Len(pending) >= 1 /\ DOMAIN pending = 1..Len(pending)
  BY LenProperties DEF EvidenceInv, EvidenceTypes
<1>2. cursor \in 1..Len(results) /\ Readable(results[cursor])
  BY DEF EvidenceInv, Control
<1>. HIDE DEF raw
<1>3. raw.class \in Knowledge
  BY <1>1, RecordFacts DEF raw
<1>4. CASE raw.class = "ioc_reputation"
  BY <1>4 DEF LinkTag, TiedToCase, Linked, LinkedReputation, raw
<1>5. CASE raw.class = "cti_record"
  <2>1. LinkedReport(raw) <=> {Fold(i) : i \in raw.indicators} \cap CaseIndicators # {}
    BY DEF LinkedReport
  <2>2. TiedToCase(raw, cursor) <=> {Fold(i) : i \in raw.indicators} \cap CaseIndicators # {}
    BY <1>5 DEF TiedToCase
  <2>3. Linked(raw, calls[results[cursor].call]) <=> LinkedReport(raw)
    BY <1>5 DEF Linked
  <2>. QED
    BY <2>1, <2>2, <2>3 DEF LinkTag, raw
<1>6. CASE raw.class = "attack_technique"
  <2>1. \A other \in Range(pending) : other.class = "attack_technique"
    <3>1. SUFFICES ASSUME NEW j \in DOMAIN pending PROVE pending[j].class = "attack_technique"
      BY DEF Range
    <3>2. 1 \in DOMAIN pending /\ 1 <= j
      BY <1>1
    <3>. QED
      BY <1>1, <1>6, <3>2 DEF TagsInv, TechniquesLast
  <2>2. TiedToCase(raw, cursor) <=>
          \E m \in 1..cursor : Readable(results[m]) /\ \E report_ \in Raws(m) :
            raw.id \in TiedBy(report_)
    BY <1>6 DEF TiedToCase, TiedBy, LinkedReport
  <2>3. raw.id \in linkedTechniques <=>
          \E m \in 1..cursor : Readable(results[m]) /\ \E report_ \in Raws(m) :
            raw.id \in TiedBy(report_)
    <3>1. ASSUME NEW m \in 1..cursor, Readable(results[m]), NEW report_ \in Raws(m),
                 raw.id \in TiedBy(report_)
          PROVE  raw.id \in linkedTechniques
      <4>1. report_.class = "cti_record"
        BY <3>1 DEF TiedBy
      <4>2. report_ \notin Range(pending)
        BY <2>1, <4>1
      <4>. QED
        BY <3>1, <4>2 DEF TagsInv, TechniquesKnown
    <3>. QED
      BY <3>1 DEF TagsInv, TechniquesKnown
  <2>4. Linked(raw, calls[results[cursor].call]) <=> raw.id \in linkedTechniques
    BY <1>6 DEF Linked, LinkedTechnique
  <2>. QED
    BY <2>2, <2>3, <2>4 DEF LinkTag, raw
<1>. QED
  BY <1>3, <1>4, <1>5, <1>6 DEF Knowledge

\* A result that is opened brings what is still to be read, reports first.
LEMMA OpeningTells ==
  ASSUME EvidenceInv, TagsInv, SkipFailed \/ SkipUnreadable \/ OpenResult
  PROVE  TagsInv'
<1>1. /\ pending = <<>> /\ cursor < Len(results)
      /\ cursor' = cursor + 1 /\ UNCHANGED <<runVars, items, linkedTechniques>>
  BY DEF SkipFailed, SkipUnreadable, OpenResult, MayOpen
<1>2. \/ ~Readable(results[cursor']) /\ pending' = <<>>
      \/ Readable(results[cursor']) /\ pending' = Occurrences(results[cursor'])
  BY <1>1 DEF SkipFailed, SkipUnreadable, OpenResult, Readable
<1>3. /\ cursor \in Nat /\ Range(pending) = {} /\ results[cursor'] \in ResultSet
      /\ \A n \in 1..cursor' : n \in 1..cursor \/ n = cursor'
  <2>1. results \in Seq(ResultSet) /\ Len(results) \in Nat /\ cursor \in 0..Len(results)
    BY LenProperties DEF EvidenceInv, EvidenceTypes
  <2>. QED
    BY <1>1, <2>1, ElementOfSeq DEF Range
<1>4. \A raw : Readable(results[cursor']) /\ raw \in Raws(cursor') => raw \in Range(pending')
  BY <1>2 DEF Raws
<1>5. TechniquesKnown'
  <2>1. \A t \in linkedTechniques : \E m \in 1..cursor' :
          Readable(results[m]) /\ \E raw \in Raws(m) : t \in TiedBy(raw)
    BY <1>1, <1>3 DEF TagsInv, TechniquesKnown
  <2>2. ASSUME NEW m \in 1..cursor', Readable(results[m]), NEW raw \in Raws(m)
        PROVE  (m = cursor' /\ raw \in Range(pending')) \/ TiedBy(raw) \subseteq linkedTechniques
    BY <1>3, <1>4, <2>2 DEF TagsInv, TechniquesKnown
  <2>. QED
    BY <1>1, <2>1, <2>2, ResultsStay, TiesStay DEF TechniquesKnown
<1>6. TechniquesLast'
  BY <1>2, <1>3, ClassesInOrder DEF TechniquesLast
<1>7. LinksTold'
  <2>1. ASSUME NEW e \in DOMAIN items, NEW n \in 1..cursor', Readable(results[n]),
               NEW raw \in Raws(n), raw.class \notin Telemetry,
               Identity(raw) = Identity(items[e].record)
        PROVE  (n = cursor' /\ raw \in Range(pending')) \/ LinkTag(raw, n) \in items[e].tags
    BY <1>3, <1>4, <2>1 DEF TagsInv, LinksTold
  <2>2. ASSUME NEW e \in DOMAIN items,
               NEW tag \in items[e].tags \cap {"case-linked", "unlinked-knowledge"}
        PROVE  \E n \in 1..cursor' : Readable(results[n]) /\ \E raw \in Raws(n) :
                 Identity(raw) = Identity(items[e].record) /\ tag = LinkTag(raw, n)
    BY <1>1, <1>3 DEF TagsInv, LinksTold
  <2>. QED
    BY <1>1, <2>1, <2>2, ResultsStay, TiesStay DEF LinksTold
<1>. QED
  BY <1>5, <1>6, <1>7 DEF TagsInv

\* What is still to be read when the next record is done.
LEMMA TailInOrder ==
  ASSUME EvidenceInv, TechniquesLast, pending # <<>>, pending' = Tail(pending)
  PROVE  TechniquesLast'
<1>1. pending \in Seq(RecordSet)
  BY DEF EvidenceInv, EvidenceTypes
<1>2. /\ Len(pending) \in Nat /\ Len(pending) >= 1 /\ DOMAIN pending = 1..Len(pending)
      /\ DOMAIN pending' = 1..(Len(pending) - 1)
      /\ \A i \in 1..(Len(pending) - 1) : pending'[i] = pending[i + 1]
  BY <1>1, LenProperties
<1>3. SUFFICES ASSUME NEW i \in 1..(Len(pending) - 1), NEW j \in 1..(Len(pending) - 1), i <= j,
                      pending'[i].class = "attack_technique"
               PROVE  pending'[j].class = "attack_technique"
  BY <1>2 DEF TechniquesLast
<1>4. i + 1 \in DOMAIN pending /\ j + 1 \in DOMAIN pending /\ i + 1 <= j + 1
  BY <1>2, <1>3
<1>. QED
  BY <1>2, <1>3, <1>4 DEF TechniquesLast

\* An invalid record tells nothing.
LEMMA RejectingTells ==
  ASSUME EvidenceInv, TagsInv, RejectRecord
  PROVE  TagsInv'
<1>1. /\ pending # <<>> /\ ~Head(pending).valid /\ pending' = Tail(pending)
      /\ UNCHANGED <<runVars, cursor, items, linkedTechniques>>
  BY DEF RejectRecord
<1>2. Range(pending) = {Head(pending)} \cup Range(pending')
  BY <1>1, RangeOfTail DEF EvidenceInv, EvidenceTypes
<1>3. \A n : \A raw \in Raws(n) : raw \in Range(pending) => raw \in Range(pending')
  BY <1>1, <1>2 DEF Raws
<1>4. TechniquesKnown'
  BY <1>1, <1>3, ResultsStay, TiesStay DEF TagsInv, TechniquesKnown
<1>5. TechniquesLast'
  BY <1>1, TailInOrder DEF TagsInv
<1>6. LinksTold'
  <2>1. ASSUME NEW e \in DOMAIN items, NEW n \in 1..cursor, Readable(results[n]),
               NEW raw \in Raws(n), raw.class \notin Telemetry,
               Identity(raw) = Identity(items[e].record)
        PROVE  (n = cursor /\ raw \in Range(pending')) \/ LinkTag(raw, n) \in items[e].tags
    BY <1>3, <2>1 DEF TagsInv, LinksTold
  <2>2. ASSUME NEW e \in DOMAIN items,
               NEW tag \in items[e].tags \cap {"case-linked", "unlinked-knowledge"}
        PROVE  \E n \in 1..cursor : Readable(results[n]) /\ \E raw \in Raws(n) :
                 Identity(raw) = Identity(items[e].record) /\ tag = LinkTag(raw, n)
    BY DEF TagsInv, LinksTold
  <2>. QED
    BY <1>1, <2>1, <2>2, ResultsStay, TiesStay DEF LinksTold
<1>. QED
  BY <1>4, <1>5, <1>6 DEF TagsInv

\* A record that is taken brings its item the tag of what ties it, and the case its
\* techniques if it is a linked report.
LEMMA TakingTells ==
  ASSUME EvidenceInv, TagsInv, TakeRecord
  PROVE  TagsInv'
<1>. DEFINE raw == Head(pending)
            request == calls[results[cursor].call]
            tags == Tags(raw, request)
<1>1. /\ pending # <<>> /\ pending' = Tail(pending) /\ UNCHANGED <<runVars, cursor>>
      /\ linkedTechniques' = linkedTechniques \cup TiedBy(raw)
  BY DEF TakeRecord, TechniquesOf, TiedBy
<1>2. /\ cursor \in 1..Len(results) /\ Readable(results[cursor]) /\ raw \in Raws(cursor)
      /\ Range(pending) = {raw} \cup Range(pending')
  BY TakeEffect
<1>3. /\ items \in Seq(ItemSet) /\ Len(items) \in Nat /\ DOMAIN items = 1..Len(items)
      /\ cursor \in 1..cursor
  BY <1>2, LenProperties DEF EvidenceInv, EvidenceTypes
<1>4. /\ items' \in Seq(ItemSet) /\ Len(items) <= Len(items') /\ AllDistinct(items')
      /\ \A e \in DOMAIN items :
           \/ items'[e] = items[e]
           \/ /\ Identity(items[e].record) = Identity(raw)
              /\ Gains(items[e], items'[e], tags, Reference)
      /\ \A e \in DOMAIN items' \ DOMAIN items : items'[e] = NewItem(raw, tags, Reference)
      /\ \E e \in DOMAIN items' :
           Identity(items'[e].record) = Identity(raw) /\ tags \subseteq items'[e].tags
  BY TakeEffect
<1>5. raw.class \notin Telemetry =>
        LinkTag(raw, cursor) \in tags
        /\ \A tag \in tags \cap {"case-linked", "unlinked-knowledge"} : tag = LinkTag(raw, cursor)
  BY <1>1, LinkedIsTied DEF Tags
<1>6. raw.class \in Telemetry => tags \cap {"case-linked", "unlinked-knowledge"} = {}
  BY DEF Tags
<1>. HIDE DEF tags
<1>. HIDE DEF request
<1>. HIDE DEF raw
<1>7. \A e \in DOMAIN items : /\ e \in DOMAIN items' /\ items'[e].record = items[e].record
                             /\ items[e].tags \subseteq items'[e].tags
                             /\ items'[e].tags \subseteq items[e].tags \cup tags
                             /\ \/ items'[e].tags = items[e].tags
                                \/ Identity(items[e].record) = Identity(raw)
  BY <1>3, <1>4, LenProperties DEF Gains
<1>8. TechniquesKnown'
  <2>1. ASSUME NEW t \in linkedTechniques'
        PROVE  \E m \in 1..cursor :
                 Readable(results[m]) /\ \E other \in Raws(m) : t \in TiedBy(other)
    BY <1>1, <1>2, <1>3 DEF TagsInv, TechniquesKnown
  <2>2. ASSUME NEW m \in 1..cursor, Readable(results[m]), NEW other \in Raws(m)
        PROVE  \/ m = cursor /\ other \in Range(pending')
               \/ TiedBy(other) \subseteq linkedTechniques'
    BY <1>1, <1>2, <2>2 DEF TagsInv, TechniquesKnown
  <2>. QED
    BY <1>1, <2>1, <2>2, ResultsStay, TiesStay DEF TechniquesKnown
<1>9. TechniquesLast'
  BY <1>1, TailInOrder DEF TagsInv
<1>10. LinksTold'
  <2>1. ASSUME NEW e \in DOMAIN items', NEW n \in 1..cursor, Readable(results[n]),
               NEW other \in Raws(n), other.class \notin Telemetry,
               Identity(other) = Identity(items'[e].record)
        PROVE  (n = cursor /\ other \in Range(pending')) \/ LinkTag(other, n) \in items'[e].tags
    <3>1. CASE n = cursor /\ other = raw
      <4>1. PICK f \in DOMAIN items' :
              Identity(items'[f].record) = Identity(raw) /\ tags \subseteq items'[f].tags
        BY <1>4
      <4>2. f = e
        BY <1>4, <2>1, <3>1, <4>1 DEF AllDistinct
      <4>. QED
        BY <1>5, <2>1, <3>1, <4>1, <4>2
    <3>2. CASE e \in DOMAIN items /\ ~(n = cursor /\ other = raw)
      <4>1. Identity(other) = Identity(items[e].record)
        BY <1>7, <2>1, <3>2
      <4>2. (n = cursor /\ other \in Range(pending)) \/ LinkTag(other, n) \in items[e].tags
        BY <2>1, <3>2, <4>1 DEF TagsInv, LinksTold
      <4>. QED
        BY <1>2, <1>7, <3>2, <4>2
    <3>3. CASE e \notin DOMAIN items /\ ~(n = cursor /\ other = raw)
      <4>1. \A f \in DOMAIN items : Identity(items[f].record) # Identity(other)
        BY <1>4, <1>7, <2>1, <3>3 DEF AllDistinct
      <4>2. (n = cursor /\ other \in Range(pending)) \/ Kept(other, n)
        BY <2>1 DEF EvidenceInv, NothingDropped
      <4>. QED
        BY <1>2, <3>3, <4>1, <4>2 DEF Kept
    <3>. QED
      BY <3>1, <3>2, <3>3
  <2>2. ASSUME NEW e \in DOMAIN items',
               NEW tag \in items'[e].tags \cap {"case-linked", "unlinked-knowledge"}
        PROVE  \E n \in 1..cursor : Readable(results[n]) /\ \E other \in Raws(n) :
                 Identity(other) = Identity(items'[e].record) /\ tag = LinkTag(other, n)
    <3>1. CASE tag \in tags /\ Identity(items'[e].record) = Identity(raw)
      BY <1>2, <1>3, <1>5, <1>6, <2>2, <3>1
    <3>2. CASE e \in DOMAIN items /\ tag \in items[e].tags
      <4>1. PICK n \in 1..cursor : Readable(results[n]) /\ \E other \in Raws(n) :
              Identity(other) = Identity(items[e].record) /\ tag = LinkTag(other, n)
        BY <2>2, <3>2 DEF TagsInv, LinksTold
      <4>. QED
        BY <1>7, <3>2, <4>1
    <3>3. CASE e \notin DOMAIN items
      <4>1. items'[e].record = raw /\ items'[e].tags = tags
        BY <1>4, <2>2, <3>3 DEF NewItem
      <4>. QED
        BY <2>2, <3>1, <4>1
    <3>4. CASE e \in DOMAIN items /\ tag \notin items[e].tags
      <4>1. tag \in tags /\ Identity(items'[e].record) = Identity(raw)
        BY <1>7, <2>2, <3>4
      <4>. QED
        BY <3>1, <4>1
    <3>. QED
      BY <3>2, <3>3, <3>4
  <2>. QED
    BY <1>1, <2>1, <2>2, ResultsStay, TiesStay DEF LinksTold
<1>. QED
  BY <1>8, <1>9, <1>10 DEF TagsInv

\* The tags keep telling it.
LEMMA TagsStep == EvidenceInv /\ TagsInv /\ [CaseNext]_caseVars => TagsInv'
<1>. SUFFICES ASSUME EvidenceInv, TagsInv, [CaseNext]_caseVars PROVE TagsInv'
  OBVIOUS
<1>1. CASE RunStep
  <2>1. running /\ UNCHANGED <<cursor, pending, items, linkedTechniques>>
    BY <1>1 DEF RunStep, CallAnswered, CallRaised, Call, RunEnds, extractVars
  <2>2. cursor = 0 /\ pending = <<>> /\ items = <<>>
    BY <2>1 DEF EvidenceInv, Control
  <2>. QED
    BY <2>1, <2>2 DEF TagsInv, TechniquesKnown, TechniquesLast, LinksTold
<1>2. CASE ExtractStep
  BY <1>2, OpeningTells, RejectingTells, TakingTells DEF ExtractStep
<1>3. CASE UNCHANGED evidenceVars
  <2>1. UNCHANGED <<runVars, cursor, pending, items, linkedTechniques>>
    BY <1>3 DEF evidenceVars, extractVars
  <2>. QED
    BY <2>1, ResultsStay, TiesStay DEF TagsInv, TechniquesKnown, TechniquesLast, LinksTold
<1>4. RunStep \/ ExtractStep \/ UNCHANGED evidenceVars
  BY DEF CaseNext, CaseCall, CaseRunEnds, CaseExtract, Summarise, BuildReport, Reported, caseVars,
         RunStep
<1>. QED
  BY <1>1, <1>2, <1>3, <1>4

\* The tags of a knowledge item say what ties it to the case: that it is linked if
\* one of its occurrences was tied to the case when it was read, that it is unlinked
\* if one was not, and nothing else.
THEOREM TagsTrue == CaseSpec => []TagsTellLinks
<1>1. CaseInit => TagsInv
  BY DEF CaseInit, EvidenceInit, TagsInv, TechniquesKnown, TechniquesLast, LinksTold
<1>2. EvidenceInv /\ TagsInv => TagsTellLinks
  <2>1. SUFFICES ASSUME EvidenceInv, TagsInv, Extracted, NEW e \in DOMAIN items,
                        items[e].record.class \notin Telemetry
                 PROVE  /\ "case-linked" \in items[e].tags <=>
                              \E n \in DOMAIN results : Readable(results[n]) /\
                                \E raw \in Raws(n) :
                                  Identity(raw) = Identity(items[e].record) /\ TiedToCase(raw, n)
                        /\ "unlinked-knowledge" \in items[e].tags <=>
                              \E n \in DOMAIN results : Readable(results[n]) /\
                                \E raw \in Raws(n) :
                                  Identity(raw) = Identity(items[e].record) /\ ~TiedToCase(raw, n)
    BY DEF TagsTellLinks
  <2>2. DOMAIN results = 1..cursor /\ Range(pending) = {}
    BY <2>1, LenProperties DEF Extracted, EvidenceInv, EvidenceTypes, Range
  <2>3. ASSUME NEW n \in DOMAIN results, Readable(results[n]), NEW raw \in Raws(n),
               Identity(raw) = Identity(items[e].record)
        PROVE  LinkTag(raw, n) \in items[e].tags
    <3>1. raw.class \notin Telemetry
      BY <2>1, <2>3, SameClass
    <3>. QED
      BY <2>1, <2>2, <2>3, <3>1 DEF TagsInv, LinksTold
  <2>4. ASSUME NEW tag \in items[e].tags \cap {"case-linked", "unlinked-knowledge"}
        PROVE  \E n \in DOMAIN results : Readable(results[n]) /\ \E raw \in Raws(n) :
                 Identity(raw) = Identity(items[e].record) /\ tag = LinkTag(raw, n)
    BY <2>1, <2>2, <2>4 DEF TagsInv, LinksTold
  <2>5. "case-linked" \in items[e].tags =>
          \E n \in DOMAIN results : Readable(results[n]) /\ \E raw \in Raws(n) :
            Identity(raw) = Identity(items[e].record) /\ TiedToCase(raw, n)
    BY <2>4 DEF LinkTag
  <2>6. "unlinked-knowledge" \in items[e].tags =>
          \E n \in DOMAIN results : Readable(results[n]) /\ \E raw \in Raws(n) :
            Identity(raw) = Identity(items[e].record) /\ ~TiedToCase(raw, n)
    BY <2>4 DEF LinkTag
  <2>. QED
    BY <2>3, <2>5, <2>6 DEF LinkTag
<1>. QED
  BY <1>1, <1>2, TagsStep, EvidenceCorrect, PTL DEF CaseSpec

-----------------------------------------------------------------------------
(* The tools                                                               *)

\* The matches of a search have their places in the order of the collection.
LEMMA MatchesRanked ==
  ASSUME NEW list \in DOMAIN Data, NEW request
  PROVE  Ranked(Matching(list, request)) /\ Matching(list, request) \in SUBSET Data[list]
<1>. DEFINE S == Matching(list, request)
<1>1. S \in SUBSET Data[list]
  BY DEF Matching
<1>2. Ranked(Data[list])
  BY DataAssumption DEF WellFormed, Ranked
<1>. HIDE DEF S
<1>3. IsFiniteSet(S)
  BY <1>1, <1>2, FS_Subset DEF Ranked
<1>4. Ranked(S)
  BY <1>1, <1>2, <1>3 DEF Ranked
<1>. QED
  BY <1>1, <1>4 DEF S

\* What was put in order is a sequence of all there was.
LEMMA OrderedHasAll ==
  ASSUME NEW S, Ranked(S)
  PROVE  Ordered(S) \in Seq(S) /\ \A r \in S : \E n \in 1..Len(Ordered(S)) : Ordered(S)[n] = r
<1>1. Ordered(S) = InOrder(S)
  BY DEF Ordered, InOrder, Below
<1>. QED
  BY <1>1, AllInOrder

\* A search that does not say that it was truncated found every match.
LEMMA UntruncatedHasAll ==
  ASSUME NEW request, NEW list \in DOMAIN Data, ~Excluded(request, list),
         ~Answered(request, list).truncated,
         NEW raw \in Matching(list, request)
  PROVE  raw \in Range(Answered(request, list).found)
<1>. DEFINE S == Matching(list, request)
            all == Ordered(S)
<1>1. all \in Seq(S) /\ \E n \in 1..Len(all) : all[n] = raw
  BY MatchesRanked, OrderedHasAll
<1>2. list # "reputations" /\ Limit \in Nat
  BY DataAssumption DEF WellFormed
<1>. HIDE DEF all
<1>3. Len(all) \in Nat /\ DOMAIN all = 1..Len(all) /\ SubSeq(all, 1, Len(all)) = all
  BY <1>1, LenProperties, SubSeqProperties
<1>4. CASE list \in {"files", "records"}
  <2>1. Answered(request, list).found = all
    BY <1>2, <1>4 DEF Answered, all
  <2>. QED
    BY <1>1, <1>3, <2>1 DEF Range
<1>5. CASE list \notin {"files", "records"}
  <2>1. Answered(request, list) = ApplyLimit(all, Limit)
    BY <1>2, <1>5 DEF Answered, all
  <2>2. ApplyLimit(all, Limit).truncated = (Len(all) > Limit)
    BY Zenon DEF ApplyLimit
  <2>3. ~(Len(all) > Limit)
    BY <2>1, <2>2, Zenon
  <2>4. Len(all) \in Nat /\ Limit \in Nat
    BY <1>2, <1>3
  <2>5. Len(all) <= Limit
    BY <2>3, <2>4
  <2>6. (IF Len(all) < Limit THEN Len(all) ELSE Limit) = Len(all)
    BY <2>4, <2>5
  <2>7. ApplyLimit(all, Limit).found = all
    BY <1>3, <2>6 DEF ApplyLimit
  <2>. QED
    BY <1>1, <1>3, <2>1, <2>7 DEF Range
<1>. QED
  BY <1>4, <1>5

\* A record of a list of a readable result is read.
LEMMA ListIsRead ==
  ASSUME EvidenceTypes, NEW n \in DOMAIN results, Readable(results[n]),
         NEW list \in Range(Layout[ToolOf(results[n])]), Listed(results[n], list),
         NEW raw \in Range(results[n].answer.lists[list])
  PROVE  raw \in Range(Occurrences(results[n]))
<1>. DEFINE r == results[n]
            lists == Layout[ToolOf(r)]
            one == RecordsIn(r, lists[1])
            two == IF Len(lists) = 2 THEN RecordsIn(r, lists[2]) ELSE <<>>
<1>1. r \in ResultSet
  BY LenProperties DEF EvidenceTypes
<1>2. one \in Seq(RecordSet) /\ two \in Seq(RecordSet) /\ Occurrences(r) = one \o two
  BY <1>1, ListsType DEF Readable, RecordsIn, Listed, Occurrences
<1>3. list = lists[1] \/ (Len(lists) = 2 /\ list = lists[2])
  BY DEF Readable, Layout, Range
<1>4. raw \in Range(one) \/ raw \in Range(two)
  BY <1>3 DEF RecordsIn, Listed
<1>. HIDE DEF one, two
<1>5. /\ one \o two \in Seq(RecordSet) /\ DOMAIN (one \o two) = 1..(Len(one) + Len(two))
      /\ Len(one) \in Nat /\ Len(two) \in Nat
      /\ DOMAIN one = 1..Len(one) /\ DOMAIN two = 1..Len(two)
  BY <1>2, LenProperties
<1>6. CASE raw \in Range(one)
  <2>1. PICK i \in 1..Len(one) : one[i] = raw
    BY <1>5, <1>6 DEF Range
  <2>2. (one \o two)[i] = raw /\ i \in DOMAIN (one \o two)
    BY <1>2, <1>5, <2>1
  <2>. QED
    BY <1>2, <2>2 DEF Range
<1>7. CASE raw \in Range(two)
  <2>1. PICK i \in 1..Len(two) : two[i] = raw
    BY <1>5, <1>7 DEF Range
  <2>2. (one \o two)[Len(one) + i] = raw /\ Len(one) + i \in DOMAIN (one \o two)
    BY <1>2, <1>5, <2>1
  <2>. QED
    BY <1>2, <2>2 DEF Range
<1>. QED
  BY <1>4, <1>6, <1>7

\* A search misses nothing in silence: it says that it was truncated, or all that
\* matches in the dataset is evidence at the end.
THEOREM SearchesComplete == CaseSpec => []SearchesAreComplete
<1>1. EvidenceInv /\ NothingIsLost => SearchesAreComplete
  <2>1. SUFFICES ASSUME EvidenceInv, NothingIsLost, Extracted,
                        NEW n \in DOMAIN results, NEW list \in DOMAIN Data,
                        Readable(results[n]), Listed(results[n], list),
                        list \notin results[n].answer.more,
                        results[n].answer = Answer(calls[results[n].call]),
                        ~Excluded(calls[results[n].call], list),
                        NEW raw \in Matching(list, calls[results[n].call])
                 PROVE  \E e \in DOMAIN items : Identity(items[e].record) = Identity(raw)
    BY DEF SearchesAreComplete
  <2>. DEFINE request == calls[results[n].call]
              answer == Answer(request)
  <2>2. /\ answer.lists = [c \in Lists(request) |-> Answered(request, c).found]
        /\ answer.more = {c \in Lists(request) : Answered(request, c).truncated}
    BY <2>1 DEF Readable, Answer, Failed
  <2>3. list \in Lists(request) /\ ~Answered(request, list).truncated
    BY <2>1, <2>2 DEF Listed
  <2>4. raw \in Range(results[n].answer.lists[list])
    BY <2>1, <2>2, <2>3, UntruncatedHasAll
  <2>5. raw \in Range(Occurrences(results[n]))
    BY <2>1, <2>3, <2>4, ListIsRead DEF EvidenceInv, Lists, ToolOf
  <2>6. raw.valid
    BY MatchesRanked, ValidAssumption
  <2>. QED
    BY <2>1, <2>5, <2>6 DEF NothingIsLost, Raws
<1>. QED
  BY <1>1, EvidenceCorrect, NothingLost, PTL

-----------------------------------------------------------------------------
(* What never changes                                                      *)

\* A sequence is a prefix of itself and of what is appended to it.
LEMMA PrefixOfAppend ==
  ASSUME NEW s \in Seq(RefSet), NEW r \in RefSet
  PROVE  IsPrefix(s, s) /\ IsPrefix(s, Append(s, r))
<1>1. /\ Len(s) \in Nat /\ DOMAIN s = 1..Len(s)
      /\ Append(s, r) \in Seq(RefSet) /\ Len(Append(s, r)) = Len(s) + 1
      /\ \A n \in 1..Len(s) : Append(s, r)[n] = s[n]
  BY LenProperties, AppendProperties
<1>2. /\ SubSeq(s, 1, Len(s)) = [n \in 1..Len(s) |-> s[n]]
      /\ SubSeq(Append(s, r), 1, Len(s)) = [n \in 1..Len(s) |-> s[n]]
  BY <1>1, SubSeqProperties
<1>. QED
  BY <1>1, <1>2 DEF IsPrefix

\* Evidence never changes place, content or what was said of it: no step removes,
\* moves or rewrites an item, its tags or its references, or adds what is there already.
THEOREM EvidenceGrows == CaseSpec => EvidenceOnlyGrows
<1>. DEFINE Grows ==
       /\ Len(items) <= Len(items')
       /\ \A e \in DOMAIN items' \ DOMAIN items : \A f \in DOMAIN items' \ {e} :
            Identity(items'[e].record) # Identity(items'[f].record)
       /\ \A e \in DOMAIN items :
            /\ items'[e].record = items[e].record /\ items[e].tags \subseteq items'[e].tags
            /\ IsPrefix(items[e].references, items'[e].references)
<1>1. EvidenceInv /\ [CaseNext]_caseVars => [Grows]_caseVars
  <2>. SUFFICES ASSUME EvidenceInv, [CaseNext]_caseVars
                PROVE  Grows
    OBVIOUS
  <2>1. /\ items \in Seq(ItemSet) /\ Len(items) \in Nat
        /\ \A e \in DOMAIN items :
             items[e].references \in Seq(RefSet) /\ items[e].tags \in SUBSET TagSet
    <3>1. items \in Seq(ItemSet) /\ Len(items) \in Nat
      BY LenProperties DEF EvidenceInv, EvidenceTypes
    <3>2. \A e \in DOMAIN items : items[e] \in ItemSet
      BY <3>1, ElementOfSeq, LenProperties
    <3>. QED
      BY <3>1, <3>2 DEF ItemSet
  <2>2. CASE UNCHANGED items
    <3>1. [result |-> 0, call |-> 0] \in RefSet
      BY DEF RefSet
    <3>2. \A e \in DOMAIN items : IsPrefix(items[e].references, items[e].references)
      BY <2>1, <3>1, PrefixOfAppend
    <3>. QED
      BY <2>1, <2>2, <3>2
  <2>3. CASE TakeRecord
    <3>1. PICK tags \in SUBSET TagSet :
             /\ Len(items) <= Len(items')
             /\ \A e \in DOMAIN items :
                  \/ items'[e] = items[e]
                  \/ Gains(items[e], items'[e], tags, Reference)
      BY <2>3, TakeEffect
    <3>2. Reference \in RefSet
      BY <2>3, TakeEffect
    <3>3. ASSUME NEW e \in DOMAIN items
          PROVE  /\ items'[e].record = items[e].record /\ items[e].tags \subseteq items'[e].tags
                 /\ IsPrefix(items[e].references, items'[e].references)
      BY <2>1, <3>1, <3>2, PrefixOfAppend DEF Gains
    <3>4. AllDistinct(items')
      BY <2>3, TakeEffect
    <3>. QED
      BY <3>1, <3>3, <3>4 DEF AllDistinct
  <2>4. TakeRecord \/ UNCHANGED items
    BY OnlyTakingAdds
  <2>. QED
    BY <2>2, <2>3, <2>4
<1>. QED
  BY <1>1, EvidenceCorrect, PTL DEF CaseSpec, EvidenceOnlyGrows
-----------------------------------------------------------------------------
(* The summary, the findings and the verdict                               *)

\* Whatever is of a telemetry class is tagged as telemetry.
Tagged == \A e \in DOMAIN items : Class(e) \in Telemetry => "telemetry" \in items[e].tags

\* The summary and the report say what the finished evidence says.
ReportTrue ==
  /\ stage \in {"evidence", "summary", "report"}
  /\ stage # "evidence" => Extracted /\ summary.gaps = InformationGaps(outcome)
  /\ stage # "report" => report.findings = {} /\ report.verdict.disposition = Unset
  /\ stage = "report" => /\ report.findings = AllFindings
                         /\ report.verdict = Verdict(AllFindings, summary.gaps)

CaseInv == EvidenceInv /\ Tagged /\ ReportTrue

-----------------------------------------------------------------------------
(* The invariant                                                           *)

\* What is computed from the evidence alone stays while the evidence does.
LEMMA FindingsStay ==
  ASSUME UNCHANGED items
  PROVE  UNCHANGED <<AllFindings, BenignEvidence>>
  BY DEF AllFindings, ProcessFindings, FileFindings, NetworkFindings, IndicatorFindings,
         DnsToFlow, FileWrites, ProcessFinding, FileFinding, NetworkFinding, IndicatorFinding,
         Correlated, FlowsAfter, WritesOf, FileRecords, FileEventsAt, BadReputation,
         ExternalFlows, MaliciousIndicators, ObservedOf, ObservedItems, ObservedOccurrences,
         Reputations, Finding, Field, Class, Is, OfType, BenignEvidence

\* A verdict is about the evidence, the findings, the gaps and the end of the run.
LEMMA VerdictStays ==
  ASSUME UNCHANGED <<items, outcome, summary>>
  PROVE  UNCHANGED Verdict(AllFindings, summary.gaps)
<1>1. UNCHANGED <<AllFindings, BenignEvidence>>
  BY FindingsStay
<1>2. UNCHANGED CrossSourcePairs(AllFindings)
  BY <1>1 DEF CrossSourcePairs, Links, Field, Is
<1>. QED
  BY <1>1, <1>2 DEF Verdict, MeetsBar, Completed

\* Gaps are about the calls, the results and the evidence.
LEMMA GapsStay ==
  ASSUME UNCHANGED <<calls, results, items, outcome>>
  PROVE  UNCHANGED InformationGaps(outcome)
<1>1. \A n : UNCHANGED ResultGaps(n)
  BY DEF ResultGaps, EmptyAnswers, Listed, RecordsIn, ToolOf
<1>2. UNCHANGED CallGaps /\ UNCHANGED Unlinked
  BY DEF CallGaps, Unlinked
<1>. QED
  BY <1>1, <1>2 DEF InformationGaps

\* Telemetry is tagged when it becomes an item, and tags stay.
LEMMA TaggingStays ==
  ASSUME EvidenceInv, Tagged, [CaseNext]_caseVars
  PROVE  Tagged'
<1>1. CASE UNCHANGED items
  BY <1>1 DEF Tagged, Class
<1>2. CASE TakeRecord
  <2>1. PICK tags \in SUBSET TagSet :
          /\ Head(pending).class \in Telemetry => "telemetry" \in tags
          /\ \A e \in DOMAIN items :
               items'[e] = items[e] \/ Gains(items[e], items'[e], tags, Reference)
          /\ \A e \in DOMAIN items' \ DOMAIN items :
               items'[e] = NewItem(Head(pending), tags, Reference)
    BY <1>2, TakeEffect
  <2>2. SUFFICES ASSUME NEW e \in DOMAIN items', items'[e].record.class \in Telemetry
                 PROVE  "telemetry" \in items'[e].tags
    BY DEF Tagged, Class
  <2>3. CASE e \in DOMAIN items
    BY <2>1, <2>2, <2>3 DEF Gains, Tagged, Class
  <2>4. CASE e \notin DOMAIN items
    BY <2>1, <2>2, <2>4 DEF NewItem
  <2>. QED
    BY <2>3, <2>4
<1>. QED
  BY <1>1, <1>2, OnlyTakingAdds

\* Summary and report are built once each, from evidence that changes no more.
LEMMA ReportStaysTrue ==
  ASSUME CaseInv, [CaseNext]_caseVars
  PROVE  ReportTrue'
<1>. USE DEF CaseInv
<1>1. CASE Summarise
  <2>1. UNCHANGED <<calls, results, running, cursor, pending, items, outcome, report>>
    BY <1>1 DEF Summarise, evidenceVars, runVars, extractVars
  <2>2. summary'.gaps = InformationGaps(outcome) /\ Extracted /\ stage' = "summary"
    BY <1>1 DEF Summarise
  <2>3. UNCHANGED InformationGaps(outcome) /\ UNCHANGED Extracted
    BY <2>1, GapsStay DEF Extracted
  <2>. QED
    BY <1>1, <2>1, <2>2, <2>3 DEF ReportTrue, Summarise
<1>2. CASE BuildReport
  <2>1. UNCHANGED <<calls, results, running, cursor, pending, items, outcome, summary>>
    BY <1>2 DEF BuildReport, evidenceVars, runVars, extractVars
  <2>2. /\ stage = "summary" /\ stage' = "report" /\ report'.findings = AllFindings
        /\ report'.verdict = Verdict(AllFindings, summary.gaps)
    BY <1>2 DEF BuildReport
  <2>3. UNCHANGED <<InformationGaps(outcome), AllFindings, Verdict(AllFindings, summary.gaps)>>
    BY <2>1, GapsStay, FindingsStay, VerdictStays
  <2>4. Extracted'
    BY <2>1, <2>2 DEF Extracted, ReportTrue
  <2>. QED
    BY <2>1, <2>2, <2>3, <2>4 DEF ReportTrue
<1>3. CASE RunStep \/ ExtractStep
  <2>1. ~Extracted
    <3>1. RunStep => running
      BY DEF RunStep, CallAnswered, CallRaised, Call, RunEnds
    <3>2. ExtractStep => pending # <<>> \/ cursor < Len(results)
      BY DEF ExtractStep, SkipFailed, SkipUnreadable, OpenResult, MayOpen, RejectRecord, TakeRecord
    <3>3. Len(results) \in Nat
      BY LenProperties DEF EvidenceInv, EvidenceTypes
    <3>. QED
      BY <1>3, <3>1, <3>2, <3>3 DEF Extracted
  <2>2. stage = "evidence" /\ UNCHANGED <<stage, report>>
    BY <1>3, <2>1 DEF ReportTrue, CaseNext, CaseCall, CaseRunEnds, CaseExtract, Summarise,
                      BuildReport, Reported, caseVars
  <2>. QED
    BY <2>2 DEF ReportTrue
<1>4. CASE UNCHANGED caseVars
  <2>1. UNCHANGED <<calls, results, running, cursor, pending, items, outcome, stage, summary, report>>
    BY <1>4 DEF caseVars, evidenceVars, runVars, extractVars
  <2>2. UNCHANGED <<InformationGaps(outcome), AllFindings, Verdict(AllFindings, summary.gaps),
                    Extracted>>
    BY <2>1, GapsStay, FindingsStay, VerdictStays DEF Extracted
  <2>. QED
    BY <2>1, <2>2 DEF ReportTrue
<1>. QED
  BY <1>1, <1>2, <1>3, <1>4 DEF CaseNext, CaseCall, CaseRunEnds, CaseExtract, Reported, RunStep

\* The invariant holds throughout a case.
THEOREM CaseCorrect == CaseSpec => []CaseInv
<1>1. CaseInit => EvidenceInv /\ Tagged /\ ReportTrue
  BY InitEvidence DEF CaseInit, EvidenceInit, Tagged, ReportTrue, Judgement
<1>2. CaseInv /\ [CaseNext]_caseVars => CaseInv'
  BY EvidenceInductive, TaggingStays, ReportStaysTrue DEF CaseInv
<1>. QED
  BY <1>1, <1>2, PTL DEF CaseSpec, CaseInv

-----------------------------------------------------------------------------
(* What findings rest on                                                   *)

\* What folding makes of a text it leaves as it is, and no text becomes empty.
LEMMA FoldFacts ==
  ASSUME NEW text
  PROVE  Fold(Fold(text)) = Fold(text) /\ (text # Unset => Fold(text) # Unset)
  BY FoldAssumption DEF Fold

\* The type of an item tells its class.
LEMMA TypeClass ==
  ASSUME EvidenceInv, NEW e \in DOMAIN items
  PROVE  /\ Class(e) \in Telemetry \cup Knowledge
         /\ e \in OfType("ioc_reputation") => Class(e) = "ioc_reputation"
         /\ e \in OfType("network_connection") => Class(e) = "network_event"
         /\ e \in OfType("dns_query") => Class(e) = "dns_event"
         /\ Class(e) = "ioc_reputation" => Field(e, "indicator") # Unset
<1>. DEFINE raw == items[e].record
<1>0. items \in Seq(ItemSet) /\ DOMAIN items = 1..Len(items)
  BY LenProperties DEF EvidenceInv, EvidenceTypes
<1>1. raw \in RecordSet
  <2>1. items[e] \in ItemSet
    BY <1>0, ElementOfSeq
  <2>. QED
    BY <2>1 DEF ItemSet
<1>2. /\ raw.class \in Telemetry \cup Knowledge
      /\ raw.class = "ioc_reputation" => Get(raw, "indicator") # Unset
  BY <1>1, RecordFacts
<1>. HIDE DEF raw
<1>3. raw.class = "endpoint_event" =>
        TypeOf(raw) \in {"process_execution", "file_activity", "authentication", "other"}
  BY DEF TypeOf, EndpointTypes
<1>4. /\ TypeOf(raw) = "ioc_reputation" => raw.class = "ioc_reputation"
      /\ TypeOf(raw) = "network_connection" => raw.class = "network_event"
      /\ TypeOf(raw) = "dns_query" => raw.class = "dns_event"
  BY <1>2, <1>3 DEF TypeOf, Telemetry, Knowledge
<1>. QED
  BY <1>2, <1>4 DEF Class, OfType, Field, raw

\* What a finding rests on, of one finding.
Grounded(f) ==
  LET observed == f.evidence \cap ObservedItems
      knowledge == f.evidence \ observed IN
  /\ observed # {}
  /\ f.type = "correlated" => \E d, e \in observed : Class(d) # Class(e)
  /\ \A e \in knowledge :
       /\ Class(e) = "ioc_reputation"
       /\ \E o \in observed : Observes(o, Field(e, "indicator"))

\* Observed evidence with the reputations of a field of one of its items is ground
\* for any finding but a correlation, which needs two classes as well.
LEMMA GroundedBy ==
  ASSUME EvidenceInv, NEW f, NEW observed, NEW o \in observed, observed \subseteq ObservedItems,
         NEW knowledge, f.evidence = observed \cup knowledge,
         \A e \in knowledge :
           e \in OfType("ioc_reputation") /\ Observes(o, Field(e, "indicator")),
         f.type = "correlated" => \E d, e \in observed : Class(d) # Class(e)
  PROVE  Grounded(f)
<1>1. \A e \in knowledge : Class(e) = "ioc_reputation"
  BY TypeClass DEF OfType
<1>. QED
  BY <1>1 DEF Grounded

\* A field of a telemetry item shows the indicators it equals.
LEMMA FieldShows ==
  ASSUME EvidenceInv, NEW o \in ObservedItems,
         NEW field \in {"src", "dst", "response", "query", "hash"}, Field(o, field) # Unset,
         NEW e \in OfType("ioc_reputation"),
         Fold(Field(e, "indicator")) = Fold(Field(o, field))
  PROVE  Observes(o, Field(e, "indicator"))
<1>1. Field(e, "indicator") # Unset
  BY TypeClass DEF OfType
<1>. QED
  BY <1>1 DEF Observes, ObservedOccurrences

\* What is observed of one type is observed.
LEMMA ObservedOfItems == \A type : ObservedOf(type) \subseteq ObservedItems
  BY DEF ObservedOf, ObservedItems, OfType

\* RULE-PROC-001 rests on the executions of the script alone.
LEMMA ProcessGrounded ==
  ASSUME EvidenceInv, NEW f \in ProcessFindings
  PROVE  Grounded(f)
<1>1. PICK e \in ObservedOf("process_execution") :
        f = ProcessFinding(Field(e, "host"), Field(e, "process"), Field(e, "parent"))
  BY DEF ProcessFindings
<1>. DEFINE group == {d \in ObservedOf("process_execution") :
                        Field(d, "host") = Field(e, "host")
                          /\ Field(d, "process") = Field(e, "process")
                          /\ Field(d, "parent") = Field(e, "parent")}
<1>2. f.type = "process" /\ f.evidence = group
  BY <1>1 DEF ProcessFinding, Finding
<1>3. e \in group /\ group \subseteq ObservedItems
  BY ObservedOfItems
<1>. HIDE DEF group
<1>. QED
  BY <1>2, <1>3 DEF Grounded

\* RULE-FILE-001 rests on the file, its events and the reputations of its hash.
LEMMA FileGrounded ==
  ASSUME EvidenceInv, Tagged, NEW f \in FileFindings
  PROVE  Grounded(f)
<1>1. PICK e \in FileRecords : f = FileFinding(e)
  BY DEF FileFindings
<1>. DEFINE events == FileEventsAt(Field(e, "path"))
<1>2. f.type = "file" /\ f.evidence = ({e} \cup events) \cup BadReputation(e)
  BY <1>1 DEF FileFinding, Finding
<1>3. e \in ObservedItems
  BY ObservedOfItems DEF FileRecords
<1>4. events \subseteq ObservedItems
  BY DEF FileEventsAt, ObservedItems, Tagged, Telemetry
<1>5. \A k \in BadReputation(e) :
        /\ k \in OfType("ioc_reputation") /\ Field(e, "hash") # Unset
        /\ Fold(Field(k, "indicator")) = Fold(Field(e, "hash"))
  BY DEF BadReputation, Reputations
<1>6. \A k \in BadReputation(e) :
        k \in OfType("ioc_reputation") /\ Observes(e, Field(k, "indicator"))
  BY <1>3, <1>5, FieldShows
<1>. HIDE DEF events
<1>. QED
  BY <1>2, <1>3, <1>4, <1>6, GroundedBy

\* RULE-NET-001 rests on the flows and the DNS answers that name their destination.
LEMMA NetworkGrounded ==
  ASSUME EvidenceInv, NEW f \in NetworkFindings
  PROVE  Grounded(f)
<1>1. PICK flow \in ExternalFlows : f = NetworkFinding(flow)
  BY DEF NetworkFindings
<1>. DEFINE group == {e \in ExternalFlows : \A field \in {"dst", "port", "direction"} :
                                             Field(e, field) = Field(flow, field)}
            answers == {e \in ObservedOf("dns_query") :
                          Fold(Field(e, "response")) = Fold(Field(flow, "dst"))}
<1>2. f.type = "network" /\ f.evidence = group \cup answers
  BY <1>1 DEF NetworkFinding, Finding
<1>3. flow \in group /\ group \cup answers \subseteq ObservedItems
  BY ObservedOfItems DEF ExternalFlows
<1>. HIDE DEF group, answers
<1>. QED
  BY <1>2, <1>3 DEF Grounded

\* A finding about an indicator rests on telemetry that shows it in a field.
LEMMA IndicatorShown ==
  ASSUME EvidenceInv, NEW i, ObservedOccurrences(i) # {}
  PROVE  /\ i # Unset /\ ObservedOccurrences(i) \subseteq ObservedItems
         /\ \A o \in ObservedOccurrences(i) : \A e \in OfType("ioc_reputation") :
              Fold(Field(e, "indicator")) = Fold(i) => Observes(o, Field(e, "indicator"))
<1>1. i # Unset
  BY DEF ObservedOccurrences
<1>2. \A o \in ObservedOccurrences(i) :
        /\ o \in ObservedItems
        /\ \E field \in {"src", "dst", "response", "query", "hash"} :
             Field(o, field) # Unset /\ Fold(Field(o, field)) = Fold(i)
  BY <1>1 DEF ObservedOccurrences
<1>. QED
  BY <1>1, <1>2, FieldShows

\* RULE-IOC-001 rests on the telemetry that shows the indicator.
LEMMA IndicatorGrounded ==
  ASSUME EvidenceInv, NEW f \in IndicatorFindings
  PROVE  Grounded(f)
<1>1. PICK i \in MaliciousIndicators : f = IndicatorFinding(i) /\ ObservedOccurrences(i) # {}
  BY DEF IndicatorFindings
<1>. DEFINE observed == ObservedOccurrences(i)
            knowledge == Reputations(i, "malicious")
<1>2. f.type = "indicator" /\ f.evidence = observed \cup knowledge
  BY <1>1 DEF IndicatorFinding, Finding
<1>3. PICK o \in observed : TRUE
  BY <1>1
<1>4. /\ observed \subseteq ObservedItems
      /\ \A e \in knowledge :
           e \in OfType("ioc_reputation") /\ Observes(o, Field(e, "indicator"))
  BY <1>1, <1>3, IndicatorShown DEF Reputations
<1>. HIDE DEF observed, knowledge
<1>. QED
  BY <1>2, <1>3, <1>4, GroundedBy

\* The reputations of what a field of a party shows join a correlation.
LEMMA CorrelatedGrounded ==
  ASSUME EvidenceInv, NEW o \in ObservedItems, NEW others \in SUBSET ObservedItems, NEW names,
         NEW field \in {"src", "dst", "response", "query", "hash"},
         \E d \in others : Class(d) # Class(o)
  PROVE  Grounded(Correlated({o} \cup others, Field(o, field), names))
<1>. DEFINE f == Correlated({o} \cup others, Field(o, field), names)
            knowledge == Reputations(Field(o, field), "malicious")
            observed == {o} \cup others
<1>1. f.type = "correlated" /\ f.evidence = observed \cup knowledge
  BY DEF Correlated, Finding
<1>2. \A e \in knowledge : e \in OfType("ioc_reputation") /\ Observes(o, Field(e, "indicator"))
  BY FieldShows DEF Reputations
<1>3. /\ o \in observed /\ observed \subseteq ObservedItems
      /\ \E d, e \in observed : Class(d) # Class(e)
  OBVIOUS
<1>. HIDE DEF f, knowledge, observed
<1>4. Grounded(f)
  BY <1>1, <1>2, <1>3, GroundedBy
<1>. QED
  BY <1>4 DEF f

\* A DNS answer and the flow to it are two classes of telemetry.
LEMMA DnsToFlowGrounded ==
  ASSUME EvidenceInv, NEW f \in DnsToFlow
  PROVE  Grounded(f)
<1>1. PICK dns \in ObservedOf("dns_query") :
        /\ FlowsAfter(dns) # {}
        /\ f = Correlated({dns} \cup FlowsAfter(dns), Field(dns, "response"),
                          {Field(dns, "query"), Field(dns, "response")})
  BY DEF DnsToFlow
<1>2. Class(dns) = "dns_event" /\ dns \in ObservedItems
  BY TypeClass, ObservedOfItems DEF ObservedOf, OfType
<1>3. /\ FlowsAfter(dns) \in SUBSET ObservedItems
      /\ \A e \in FlowsAfter(dns) : Class(e) = "network_event"
  <2>1. FlowsAfter(dns) \subseteq ObservedOf("network_connection")
    BY DEF FlowsAfter
  <2>. QED
    BY <2>1, TypeClass, ObservedOfItems DEF ObservedOf, OfType
<1>. QED
  BY <1>1, <1>2, <1>3, CorrelatedGrounded

\* A file and the script's event that wrote it are two classes of telemetry.
LEMMA FileWritesGrounded ==
  ASSUME EvidenceInv, NEW f \in FileWrites
  PROVE  Grounded(f)
<1>1. PICK file \in FileRecords :
        /\ WritesOf(file) # {}
        /\ f = Correlated({file} \cup WritesOf(file), Field(file, "hash"),
                          {Field(file, "path"), Field(file, "hash")})
  BY DEF FileWrites
<1>2. Class(file) = "file_record" /\ file \in ObservedItems
  BY ObservedOfItems DEF FileRecords
<1>3. /\ WritesOf(file) \in SUBSET ObservedItems
      /\ \A e \in WritesOf(file) : Class(e) = "endpoint_event"
  BY ObservedOfItems DEF WritesOf
<1>. QED
  BY <1>1, <1>2, <1>3, CorrelatedGrounded

\* Each rule's findings are grounded, hence all of them.
LEMMA AllGrounded ==
  ASSUME EvidenceInv, Tagged
  PROVE  \A f \in AllFindings : Grounded(f)
  BY ProcessGrounded, FileGrounded, NetworkGrounded, IndicatorGrounded, DnsToFlowGrounded,
     FileWritesGrounded DEF AllFindings

\* The guarantees of the finding rules: a finding rests on observed telemetry, a
\* correlation on two sources, and a reputation joins only what shows its indicator.
THEOREM FindingsGrounded == CaseSpec => []FindingsAreGrounded
<1>1. CaseInv => FindingsAreGrounded
  <2>1. ASSUME CaseInv, NEW f \in report.findings
        PROVE  Grounded(f)
    BY <2>1, AllGrounded DEF CaseInv, ReportTrue
  <2>. QED
    BY <2>1 DEF FindingsAreGrounded, Grounded
<1>. QED
  BY <1>1, CaseCorrect, PTL

-----------------------------------------------------------------------------
(* What the verdict rests on                                               *)

\* How each disposition comes about.
LEMMA VerdictCases ==
  ASSUME NEW findings, NEW gaps
  PROVE  LET v == Verdict(findings, gaps)
             pairs == CrossSourcePairs(findings) IN
         /\ v.disposition = "malicious" =>
              /\ MeetsBar(pairs) /\ v.supporting = UNION {{p[1], p[2]} : p \in pairs}
              /\ ~Completed => v.confidence = "medium"
         /\ v.disposition = "benign" =>
              /\ Completed /\ BenignEvidence # {} /\ \A f \in findings : ~(f.severity >= MEDIUM)
              /\ v.confidence = "high" => gaps = {}
<1>. DEFINE pairs == CrossSourcePairs(findings)
            indicators == {f \in findings : MaliciousGrade(f)}
            escalated == {f \in findings : f.severity >= MEDIUM}
<1>. HIDE DEF pairs, indicators
<1>1. CASE MeetsBar(pairs)
  BY <1>1 DEF Verdict, Judgement, pairs
<1>2. CASE ~MeetsBar(pairs) /\ indicators # {}
  BY <1>2 DEF Verdict, Judgement, pairs, indicators
<1>3. CASE ~MeetsBar(pairs) /\ indicators = {} /\ escalated # {}
  BY <1>3 DEF Verdict, Judgement, pairs, indicators
<1>4. CASE ~MeetsBar(pairs) /\ indicators = {} /\ escalated = {}
  BY <1>4 DEF Verdict, Judgement, pairs, indicators
<1>. QED
  BY <1>1, <1>2, <1>3, <1>4

\* Two pairs of an indicator finding and a behaviour finding are three findings.
LEMMA TwoPairsAreThreeFindings ==
  ASSUME NEW findings, Cardinality(CrossSourcePairs(findings)) >= 2,
         CrossSourcePairs(findings) # {}
  PROVE  \E f, g, h \in UNION {{p[1], p[2]} : p \in CrossSourcePairs(findings)} :
           f # g /\ g # h /\ f # h
<1>. DEFINE pairs == CrossSourcePairs(findings)
<1>1. \A p \in pairs : p = <<p[1], p[2]>> /\ p[1].type = "indicator" /\ p[2].type \in Behaviour
  BY DEF CrossSourcePairs, MaliciousGrade
<1>2. Cardinality(pairs) >= 2 /\ pairs # {}
  OBVIOUS
<1>. HIDE DEF pairs
<1>3. PICK p \in pairs : TRUE
  BY <1>2
<1>4. PICK q \in pairs : q # p
  <2>1. ASSUME \A q \in pairs : q = p
        PROVE  FALSE
    <3>1. pairs = {p}
      BY <1>3, <2>1
    <3>. QED
      BY <1>2, <3>1, FS_Singleton
  <2>. QED
    BY <2>1
<1>5. p[1] # q[1] \/ p[2] # q[2]
  BY <1>1, <1>3, <1>4
<1>6. \A r, s \in pairs : r[1] # s[2]
  BY <1>1 DEF Behaviour
<1>7. CASE p[1] # q[1]
  BY <1>3, <1>4, <1>6, <1>7 DEF pairs
<1>8. CASE p[2] # q[2]
  BY <1>3, <1>4, <1>6, <1>8 DEF pairs
<1>. QED
  BY <1>5, <1>7, <1>8

\* A run that stopped early is not called benign, and malicious only on two links and
\* without high confidence.
THEOREM PartialRunsAreCautious == CaseSpec => []PartialRunsStayCautious
<1>1. CaseInv => PartialRunsStayCautious
  <2>1. SUFFICES ASSUME CaseInv, stage = "report", ~Completed
                 PROVE  /\ report.verdict.disposition # "benign"
                        /\ report.verdict.disposition = "malicious" =>
                             /\ report.verdict.confidence = "medium"
                             /\ \E f, g, h \in report.verdict.supporting :
                                  f # g /\ g # h /\ f # h
    BY DEF PartialRunsStayCautious, Completed
  <2>2. report.verdict = Verdict(AllFindings, summary.gaps)
    BY <2>1 DEF CaseInv, ReportTrue
  <2>3. report.verdict.disposition # "benign"
    BY <2>1, <2>2, VerdictCases
  <2>4. ASSUME report.verdict.disposition = "malicious"
        PROVE  /\ report.verdict.confidence = "medium"
               /\ \E f, g, h \in report.verdict.supporting : f # g /\ g # h /\ f # h
    <3>1. /\ MeetsBar(CrossSourcePairs(AllFindings)) /\ report.verdict.confidence = "medium"
          /\ report.verdict.supporting =
               UNION {{p[1], p[2]} : p \in CrossSourcePairs(AllFindings)}
      BY <2>1, <2>2, <2>4, VerdictCases
    <3>2. /\ CrossSourcePairs(AllFindings) # {}
          /\ Cardinality(CrossSourcePairs(AllFindings)) >= 2
      BY <2>1, <3>1 DEF MeetsBar
    <3>3. \E f, g, h \in UNION {{p[1], p[2]} : p \in CrossSourcePairs(AllFindings)} :
            f # g /\ g # h /\ f # h
      BY <3>2, TwoPairsAreThreeFindings
    <3>. QED
      BY <3>1, <3>3, Zenon
  <2>. QED
    BY <2>3, <2>4
<1>. QED
  BY <1>1, CaseCorrect, PTL

\* Only the indicator rule makes indicator findings.
LEMMA IndicatorRule ==
  ASSUME NEW f \in AllFindings, f.type = "indicator"
  PROVE  f \in IndicatorFindings
<1>1. ProcessFindings \cup FileFindings \cup NetworkFindings \cup DnsToFlow \cup FileWrites
        \subseteq {g \in AllFindings : g.type # "indicator"}
  BY DEF ProcessFindings, ProcessFinding, FileFindings, FileFinding, NetworkFindings,
         NetworkFinding, DnsToFlow, FileWrites, Correlated, Finding, AllFindings
<1>. QED
  BY <1>1 DEF AllFindings

\* A knowledge hit alone never makes a run malicious: an indicator of malicious
\* reputation was a destination, an answer or a hash, with a behaviour beside it.
THEOREM MaliciousObserved == CaseSpec => []MaliciousIsObserved
<1>1. CaseInv => MaliciousIsObserved
  <2>. SUFFICES ASSUME CaseInv, report.verdict.disposition = "malicious"
                PROVE  \E e \in OfType("ioc_reputation"), o \in ObservedItems :
                         /\ Field(e, "reputation") = "malicious"
                         /\ \E field \in {"dst", "response", "hash"} :
                              Fold(Field(o, field)) = Fold(Field(e, "indicator"))
                         /\ \E f, g \in report.verdict.supporting :
                              /\ {e, o} \subseteq f.evidence /\ f.type = "indicator"
                              /\ g.type # "indicator" /\ g.evidence \cap ObservedItems # {}
    BY DEF MaliciousIsObserved
  <2>1. EvidenceInv /\ Tagged /\ report.verdict = Verdict(AllFindings, summary.gaps)
    BY DEF CaseInv, ReportTrue, Unset
  <2>2. PICK p \in CrossSourcePairs(AllFindings) : {p[1], p[2]} \subseteq report.verdict.supporting
    <3>1. /\ MeetsBar(CrossSourcePairs(AllFindings))
          /\ report.verdict.supporting =
               UNION {{p[1], p[2]} : p \in CrossSourcePairs(AllFindings)}
      BY <2>1, VerdictCases
    <3>2. PICK p \in CrossSourcePairs(AllFindings) : TRUE
      BY <3>1 DEF MeetsBar
    <3>. QED
      BY <3>1, <3>2
  <2>3. /\ p[1] \in AllFindings /\ p[2] \in AllFindings /\ p[1].type = "indicator"
        /\ p[1].severity >= HIGH /\ p[2].type # "indicator"
    BY DEF CrossSourcePairs, MaliciousGrade, Behaviour
  <2>4. PICK i \in MaliciousIndicators : p[1] = IndicatorFinding(i) /\ ObservedOccurrences(i) # {}
    BY <2>3, IndicatorRule DEF IndicatorFindings
  <2>5. PICK e \in OfType("ioc_reputation") :
          Field(e, "reputation") = "malicious" /\ i = Fold(Field(e, "indicator"))
    BY DEF MaliciousIndicators
  <2>6. PICK o \in ObservedOccurrences(i) :
          \E field \in {"dst", "response", "hash"} : Fold(Field(o, field)) = i
    BY <2>3, <2>4 DEF IndicatorFinding, Finding, HIGH, MEDIUM
  <2>7. i # Unset /\ Fold(i) = i /\ o \in ObservedItems
    BY <2>1, <2>4, <2>5, <2>6, IndicatorShown, FoldFacts
  <2>8. e \in Reputations(i, "malicious")
    BY <2>5, <2>7 DEF Reputations
  <2>9. {e, o} \subseteq p[1].evidence
    BY <2>4, <2>6, <2>8 DEF IndicatorFinding, Finding
  <2>10. p[2].evidence \cap ObservedItems # {}
    BY <2>1, <2>3, AllGrounded DEF Grounded
  <2>. QED
    BY <2>2, <2>3, <2>5, <2>6, <2>7, <2>9, <2>10
<1>. QED
  BY <1>1, CaseCorrect, PTL

\* A malicious indicator that the telemetry shows, and a script with an encoded
\* command line, are findings of medium severity at least.
LEMMA ShownMaliceEscalates ==
  ASSUME EvidenceInv, NEW e \in OfType("ioc_reputation"), Field(e, "reputation") = "malicious",
         ObservedOccurrences(Field(e, "indicator")) # {}
  PROVE  \E f \in AllFindings : f.severity >= MEDIUM
<1>. DEFINE i == Fold(Field(e, "indicator"))
<1>1. Field(e, "indicator") # Unset /\ i # Unset /\ Fold(i) = i
  BY FoldFacts, IndicatorShown
<1>2. ObservedOccurrences(i) # {}
  BY <1>1 DEF ObservedOccurrences
<1>3. i \in MaliciousIndicators
  BY DEF MaliciousIndicators
<1>. HIDE DEF i
<1>4. IndicatorFinding(i) \in AllFindings
  BY <1>2, <1>3 DEF IndicatorFindings, AllFindings
<1>5. IndicatorFinding(i).severity >= MEDIUM
  BY DEF IndicatorFinding, Finding, MEDIUM, HIGH, CRITICAL
<1>. QED
  BY <1>4, <1>5

\* A script with an encoded command line is a finding of high severity.
LEMMA EncodedScriptEscalates ==
  ASSUME NEW e \in ObservedOf("process_execution"), "encoded" \in items[e].record.texts,
         Is(e, "process", ScriptInterpreters)
  PROVE  \E f \in AllFindings : f.severity >= MEDIUM
<1>. DEFINE f == ProcessFinding(Field(e, "host"), Field(e, "process"), Field(e, "parent"))
<1>1. f \in AllFindings
  BY DEF ProcessFindings, AllFindings
<1>2. f.severity = HIGH
  BY DEF ProcessFinding, Finding
<1>. QED
  BY <1>1, <1>2 DEF HIGH, MEDIUM

\* Without gaps, every call brought a successful result.
LEMMA NoGapsNoFailures ==
  ASSUME InformationGaps(outcome) = {}, NEW c \in DOMAIN calls
  PROVE  \E n \in DOMAIN results : results[n].call = c /\ results[n].answer.success
<1>0. CallGaps \cup UNION {ResultGaps(n) : n \in DOMAIN results} \subseteq InformationGaps(outcome)
  BY Zenon DEF InformationGaps
<1>1. CallGaps = {} /\ \A n \in DOMAIN results : ResultGaps(n) = {}
  BY <1>0
<1>2. PICK n \in DOMAIN results : results[n].call = c
  BY <1>1 DEF CallGaps
<1>3. results[n].answer.success
  BY <1>1 DEF ResultGaps
<1>. QED
  BY <1>2, <1>3

\* Benign is earned: the run completed, the allow list knows what the telemetry
\* shows, nothing malicious is shown and no script ran encoded; and with high
\* confidence no call was without its answer.
THEOREM BenignEarned == CaseSpec => []BenignIsEarned
<1>1. CaseInv => BenignIsEarned
  <2>. SUFFICES ASSUME CaseInv, report.verdict.disposition = "benign"
                PROVE  BenignIsEarned
    BY DEF BenignIsEarned
  <2>1. /\ EvidenceInv /\ report.verdict = Verdict(AllFindings, summary.gaps)
        /\ summary.gaps = InformationGaps(outcome)
    BY DEF CaseInv, ReportTrue, Unset
  <2>2. /\ Completed /\ BenignEvidence # {} /\ \A f \in AllFindings : ~(f.severity >= MEDIUM)
        /\ report.verdict.confidence = "high" => summary.gaps = {}
    BY <2>1, VerdictCases
  <2>3. \E e \in OfType("ioc_reputation") :
          /\ Field(e, "reputation") = "benign"
          /\ \E o \in ObservedItems : Observes(o, Field(e, "indicator"))
    <3>1. PICK e \in OfType("ioc_reputation") :
            Field(e, "reputation") = "benign" /\ ObservedOccurrences(Field(e, "indicator")) # {}
      BY <2>2 DEF BenignEvidence
    <3>2. PICK o \in ObservedOccurrences(Field(e, "indicator")) : TRUE
      BY <3>1
    <3>3. o \in ObservedItems
      BY <2>1, <3>2, IndicatorShown
    <3>. QED
      BY <3>1, <3>2, <3>3 DEF Observes
  <2>4. \A e \in OfType("ioc_reputation") : Field(e, "reputation") = "malicious" =>
          ObservedOccurrences(Field(e, "indicator")) = {}
    BY <2>1, <2>2, ShownMaliceEscalates
  <2>5. \A e \in ObservedOf("process_execution") :
          "encoded" \in items[e].record.texts => ~Is(e, "process", ScriptInterpreters)
    BY <2>2, EncodedScriptEscalates
  <2>6. report.verdict.confidence = "high" =>
          \A c \in DOMAIN calls : \E n \in DOMAIN results :
            results[n].call = c /\ results[n].answer.success
    BY <2>1, <2>2, NoGapsNoFailures
  <2>. QED
    BY <2>2, <2>3, <2>4, <2>5, <2>6 DEF BenignIsEarned, Completed
<1>. QED
  BY <1>1, CaseCorrect, PTL
-----------------------------------------------------------------------------
(* The summary: what is observed is told once, and no call passes in silence *)

\* Once the summary is being built, the evidence is closed.
LEMMA EvidenceClosed ==
  ASSUME CaseInv, [CaseNext]_caseVars, stage # "evidence"
  PROVE  UNCHANGED evidenceVars
<1>1. Extracted /\ Len(results) \in Nat
  BY LenProperties DEF CaseInv, ReportTrue, EvidenceInv, EvidenceTypes
<1>2. ~RunStep
  BY <1>1 DEF Extracted, RunStep, CallAnswered, CallRaised, Call, RunEnds
<1>3. ~ExtractStep
  BY <1>1 DEF Extracted, ExtractStep, SkipFailed, SkipUnreadable, OpenResult, MayOpen,
              RejectRecord, TakeRecord
<1>4. ~Summarise
  BY DEF Summarise
<1>5. BuildReport \/ UNCHANGED caseVars
  BY <1>2, <1>3, <1>4 DEF CaseNext, CaseCall, CaseRunEnds, CaseExtract, Reported, RunStep
<1>. QED
  BY <1>5 DEF BuildReport, caseVars

-----------------------------------------------------------------------------
(* Observations                                                            *)

SummaryTrue == stage # "evidence" => summary.observations = Observations

\* The summary's observations are made once, from evidence that changes no more.
LEMMA SummaryStep ==
  ASSUME CaseInv, SummaryTrue, [CaseNext]_caseVars
  PROVE  SummaryTrue'
<1>1. ASSUME UNCHANGED items PROVE UNCHANGED Observations
  BY <1>1 DEF Observations, GroupsOf, OfType, Unlinked
<1>2. CASE Summarise
  BY <1>1, <1>2 DEF Summarise, SummaryTrue, evidenceVars, extractVars
<1>3. CASE stage # "evidence"
  <2>1. UNCHANGED items
    BY <1>3, EvidenceClosed DEF evidenceVars, extractVars
  <2>2. UNCHANGED summary
    BY <1>3 DEF CaseNext, CaseCall, CaseRunEnds, CaseExtract, Summarise, BuildReport, Reported, caseVars
  <2>. QED
    BY <1>1, <1>3, <2>1, <2>2 DEF SummaryTrue
<1>4. CASE stage = "evidence" /\ ~Summarise
  BY <1>4 DEF SummaryTrue, CaseNext, CaseCall, CaseRunEnds, CaseExtract, BuildReport, Reported, caseVars
<1>. QED
  BY <1>2, <1>3, <1>4

Belongs(e, section) ==
  TypeOf(items[e].record) = section.type /\ items[e].record.class \in section.classes

\* Each item is of one section's kind, of no two.
LEMMA OneSection ==
  ASSUME EvidenceInv, NEW e \in DOMAIN items
  PROVE  \E s \in Sections : Belongs(e, s) /\ \A t \in Sections : Belongs(e, t) => t = s
<1>. DEFINE raw == items[e].record
<1>1. raw.class \in Telemetry \cup Knowledge
  BY TypeClass DEF Class
<1>. HIDE DEF raw
<1>2. raw.class = "endpoint_event" =>
        TypeOf(raw) \in {"process_execution", "file_activity", "authentication", "other"}
  BY DEF TypeOf, EndpointTypes
<1>3. /\ raw.class = "network_event" => TypeOf(raw) = "network_connection"
      /\ raw.class = "dns_event" => TypeOf(raw) = "dns_query"
      /\ raw.class = "file_record" => TypeOf(raw) = "file_activity"
      /\ raw.class = "ioc_reputation" => TypeOf(raw) = "ioc_reputation"
      /\ raw.class = "cti_record" => TypeOf(raw) = "threat_intelligence"
      /\ raw.class = "attack_technique" => TypeOf(raw) = "attack_knowledge"
  BY DEF TypeOf
<1>4. \E s \in Sections : TypeOf(raw) = s.type /\ raw.class \in s.classes
  BY <1>1, <1>2, <1>3
  DEF Sections, EndpointSections, FlowSections, DnsSections, FileSections, LogonSections,
      ReputationSections, CtiSections, AttackSections, Section, Telemetry, Knowledge
<1>5. \A s, t \in Sections : s.type = t.type /\ s.classes \cap t.classes # {} => s = t
  BY DEF Sections, EndpointSections, FlowSections, DnsSections, FileSections, LogonSections,
         ReputationSections, CtiSections, AttackSections, Section
<1>. QED
  BY <1>4, <1>5 DEF Belongs, raw

\* A linked item is told in one observation: the group it has in its section.
LEMMA ToldOnce ==
  ASSUME EvidenceInv, NEW e \in DOMAIN items, e \notin Unlinked
  PROVE  \E group : {o \in Observations : e \in o} = {group}
<1>. DEFINE members(s) == {f \in OfType(s.type) \ Unlinked : items[f].record.class \in s.classes}
            keyOf(s, f) == [n \in DOMAIN s.key |-> Get(items[f].record, s.key[n])]
            group(s, f) == {g \in members(s) : keyOf(s, g) = keyOf(s, f)}
<1>1. PICK s \in Sections : Belongs(e, s) /\ \A t \in Sections : Belongs(e, t) => t = s
  BY OneSection
<1>2. \A t \in Sections : GroupsOf(t) = {group(t, f) : f \in members(t)}
  BY DEF GroupsOf
<1>3. \A t : e \in members(t) <=> Belongs(e, t)
  BY DEF Belongs, OfType
<1>. HIDE DEF members, keyOf
<1>4. group(s, e) \in Observations /\ e \in group(s, e)
  BY <1>1, <1>2, <1>3 DEF Observations
<1>5. ASSUME NEW o \in Observations, e \in o
      PROVE  o = group(s, e)
  <2>1. PICK t \in Sections : \E f \in members(t) : o = group(t, f)
    BY <1>2 DEF Observations
  <2>2. PICK f \in members(t) : o = group(t, f)
    BY <2>1
  <2>3. e \in members(t) /\ keyOf(t, e) = keyOf(t, f)
    BY <1>5, <2>2
  <2>4. t = s
    BY <1>1, <1>3, <2>3
  <2>. QED
    BY <2>2, <2>3, <2>4
<1>. HIDE DEF group
<1>6. {o \in Observations : e \in o} = {group(s, e)}
  BY <1>4, <1>5
<1>. QED
  BY <1>6

\* An unlinked item is in no observation, and a gap is about it.
LEMMA UnlinkedUntold ==
  ASSUME NEW e \in Unlinked, NEW outcome_
  PROVE  /\ \A o \in Observations : e \notin o
         /\ \E gap \in InformationGaps(outcome_) : gap.kind = "unlinked" /\ e \in gap.about
<1>1. \A o \in Observations : e \notin o
  BY DEF Observations, GroupsOf
<1>2. Gap("unlinked", Unlinked) \in InformationGaps(outcome_)
  BY DEF InformationGaps
<1>. QED
  BY <1>1, <1>2 DEF Gap

\* Nothing observed is left out of the summary or told twice, and what is not tied to
\* the case is reported as a gap.
THEOREM ObservationsPartition == CaseSpec => []ObservationsPartitionEvidence
<1>1. CaseInit => SummaryTrue
  BY DEF CaseInit, SummaryTrue
<1>2. CaseInv /\ SummaryTrue => ObservationsPartitionEvidence
  <2> SUFFICES ASSUME CaseInv, SummaryTrue, stage # "evidence", NEW e \in DOMAIN items
               PROVE  LET told == {o \in summary.observations : e \in o} IN
                      IF e \in Unlinked
                      THEN told = {} /\ \E gap \in summary.gaps : gap.kind = "unlinked" /\ e \in gap.about
                      ELSE Cardinality(told) = 1
    BY DEF ObservationsPartitionEvidence
  <2>1. summary.observations = Observations /\ summary.gaps = InformationGaps(outcome) /\ EvidenceInv
    BY DEF CaseInv, ReportTrue, SummaryTrue
  <2>2. CASE e \in Unlinked
    BY <2>1, <2>2, UnlinkedUntold
  <2>3. CASE e \notin Unlinked
    <3>1. PICK group : {o \in summary.observations : e \in o} = {group}
      BY <2>1, <2>3, ToldOnce
    <3>2. Cardinality({group}) = 1
      BY FS_Singleton
    <3>. QED
      BY <2>3, <3>1, <3>2
  <2>. QED
    BY <2>2, <2>3
<1>. QED
  BY CaseCorrect, SummaryStep, <1>1, <1>2, PTL DEF CaseSpec

-----------------------------------------------------------------------------
(* Silence                                                                 *)

ListNames == {"items", "records", "network_events", "dns_events", "files", "reputations",
              "cti_records", "attack_techniques"}
WarningSet == [result : Nat, reason : ListNames \cup {"unreadable", "invalid"}]

\* Some warning of a list of warnings is about result n.
Told(list, n) == \E w \in DOMAIN list : list[w].result = n

\* What a result that was opened did not bring is in a warning, or is still to come.
SkipsAreWarned ==
  \A n \in 1..cursor :
    /\ results[n].answer.success /\ ~Readable(results[n]) => Told(warnings, n)
    /\ Readable(results[n]) =>
         /\ \A raw \in Range(Occurrences(results[n])) :
              raw.valid \/ (n = cursor /\ raw \in Range(pending)) \/ Told(warnings, n)
         /\ \A list \in Range(Layout[ToolOf(results[n])]) :
              Listed(results[n], list) \/ Told(warnings, n)

WarnedInv == warnings \in Seq(WarningSet) /\ SkipsAreWarned

\* A tool's payload has one list or two.
LEMMA LayoutFacts ==
  ASSUME NEW tool \in DOMAIN Layout
  PROVE  /\ Range(Layout[tool]) = IF Len(Layout[tool]) = 2 THEN {Layout[tool][1], Layout[tool][2]}
                                  ELSE {Layout[tool][1]}
         /\ Layout[tool][1] \in ListNames /\ (Len(Layout[tool]) = 2 => Layout[tool][2] \in ListNames)
<1>. DEFINE lists == Layout[tool]
<1>1. \/ \E a \in ListNames : lists = <<a>>
      \/ \E a, b \in ListNames : lists = <<a, b>>
  <2>1. /\ tool = "search_endpoint_events" => lists = <<"items">>
        /\ tool = "search_network_activity" => lists = <<"network_events", "dns_events">>
        /\ tool = "lookup_file_reputation" => lists = <<"files", "reputations">>
        /\ tool = "lookup_ioc_reputation" => lists = <<"records">>
        /\ tool = "search_cti" => lists = <<"cti_records", "attack_techniques">>
        /\ tool \in {"search_endpoint_events", "search_network_activity", "lookup_file_reputation",
                     "lookup_ioc_reputation", "search_cti"}
    BY DEF Layout
  <2>. HIDE DEF lists
  <2>2. \/ lists = <<"items">> \/ lists = <<"records">>
        \/ lists = <<"network_events", "dns_events">> \/ lists = <<"files", "reputations">>
        \/ lists = <<"cti_records", "attack_techniques">>
    BY <2>1
  <2>. QED
    BY <2>2 DEF ListNames
<1>. HIDE DEF lists
<1>2. ASSUME NEW a \in ListNames, lists = <<a>>
      PROVE  Len(lists) = 1 /\ lists[1] = a /\ Range(lists) = {a}
  BY <1>2 DEF Range
<1>3. ASSUME NEW a \in ListNames, NEW b \in ListNames, lists = <<a, b>>
      PROVE  Len(lists) = 2 /\ lists[1] = a /\ lists[2] = b /\ Range(lists) = {a, b}
  <2>1. DOMAIN lists = {1, 2} /\ Len(lists) = 2 /\ lists[1] = a /\ lists[2] = b
    BY <1>3
  <2>. QED
    BY <2>1 DEF Range
<1>. QED
  BY <1>1, <1>2, <1>3 DEF lists

\* Joining two lists of warnings loses none and adds none.
LEMMA WarningsAdd ==
  ASSUME NEW old \in Seq(WarningSet), NEW more \in Seq(WarningSet)
  PROVE  /\ old \o more \in Seq(WarningSet)
         /\ \A n : Told(old \o more, n) <=> Told(old, n) \/ Told(more, n)
<1>1. /\ old \o more \in Seq(WarningSet)
      /\ Len(old) \in Nat /\ Len(more) \in Nat
      /\ DOMAIN old = 1..Len(old) /\ DOMAIN more = 1..Len(more)
      /\ Len(old \o more) = Len(old) + Len(more)
      /\ \A w \in 1..Len(old) : (old \o more)[w] = old[w]
      /\ \A w \in 1..Len(more) : (old \o more)[Len(old) + w] = more[w]
  BY ConcatProperties, LenProperties
<1>2. DOMAIN (old \o more) = 1..(Len(old) + Len(more))
  BY <1>1, LenProperties
<1>3. \A w \in 1..Len(more) : Len(old) + w \in 1..(Len(old) + Len(more))
  BY <1>1
<1>4. \A w \in 1..Len(old) : w \in 1..(Len(old) + Len(more))
  BY <1>1
<1>5. ASSUME NEW w \in 1..(Len(old) + Len(more)), w \notin 1..Len(old)
      PROVE  w - Len(old) \in 1..Len(more) /\ (old \o more)[w] = more[w - Len(old)]
  <2>1. w - Len(old) \in 1..Len(more) /\ Len(old) + (w - Len(old)) = w
    BY <1>1, <1>5
  <2>. QED
    BY <1>1, <2>1
<1>. QED
  <2>. SUFFICES ASSUME NEW n PROVE Told(old \o more, n) <=> Told(old, n) \/ Told(more, n)
    BY <1>1
  <2>1. Told(old, n) => Told(old \o more, n)
    BY <1>1, <1>2, <1>4 DEF Told
  <2>2. Told(more, n) => Told(old \o more, n)
    BY <1>1, <1>2, <1>3 DEF Told
  <2>3. Told(old \o more, n) => Told(old, n) \/ Told(more, n)
    BY <1>1, <1>2, <1>5 DEF Told
  <2>. QED
    BY <2>1, <2>2, <2>3

\* One more warning is told beside the earlier ones.
LEMMA WarningAdded ==
  ASSUME NEW old \in Seq(WarningSet), NEW n \in Nat, NEW reason \in ListNames \cup {"unreadable", "invalid"}
  PROVE  LET new == Append(old, Warned(n, reason)) IN
         /\ new \in Seq(WarningSet) /\ Told(new, n)
         /\ \A m : Told(new, m) <=> Told(old, m) \/ m = n
<1>1. Warned(n, reason) \in WarningSet /\ Warned(n, reason).result = n
  BY DEF Warned, WarningSet
<1>. DEFINE new == Append(old, Warned(n, reason))
<1>2. /\ new \in Seq(WarningSet) /\ Len(old) \in Nat /\ DOMAIN old = 1..Len(old)
      /\ DOMAIN new = 1..(Len(old) + 1)
      /\ new[Len(old) + 1] = Warned(n, reason)
      /\ \A w \in 1..Len(old) : new[w] = old[w]
  BY <1>1, AppendProperties, LenProperties
<1>. HIDE DEF new
<1>3. /\ Len(old) + 1 \in DOMAIN new /\ \A w \in DOMAIN old : w \in DOMAIN new
      /\ \A w \in DOMAIN new : w \in DOMAIN old \/ w = Len(old) + 1
  BY <1>2
<1>. QED
  BY <1>1, <1>2, <1>3 DEF Told, new

\* The warnings about missing lists name the result that lacks them.
LEMMA MissingWarned ==
  ASSUME NEW result, ToolOf(result) \in DOMAIN Layout, cursor \in Nat
  PROVE  /\ MissingLists(result) \in Seq(WarningSet)
         /\ \A list \in Range(Layout[ToolOf(result)]) :
              Listed(result, list) \/ Told(MissingLists(result), cursor + 1)
<1>. DEFINE lists == Layout[ToolOf(result)]
            missing(list) == IF Listed(result, list) THEN <<>> ELSE <<Warned(cursor + 1, list)>>
<1>1. PICK second : second = IF Len(lists) = 2 THEN missing(lists[2]) ELSE <<>>
  OBVIOUS
<1>2. PICK first : first = missing(lists[1])
  OBVIOUS
<1>3. MissingLists(result) = first \o second
  BY <1>1, <1>2 DEF MissingLists
<1>4. /\ lists[1] \in ListNames /\ (Len(lists) = 2 => lists[2] \in ListNames)
      /\ Range(lists) = IF Len(lists) = 2 THEN {lists[1], lists[2]} ELSE {lists[1]}
  BY LayoutFacts
<1>. HIDE DEF lists
<1>5. ASSUME NEW list \in ListNames
      PROVE  missing(list) \in Seq(WarningSet) /\ (Listed(result, list) \/ Told(missing(list), cursor + 1))
  <2>1. Warned(cursor + 1, list) \in WarningSet /\ Warned(cursor + 1, list).result = cursor + 1
    BY DEF Warned, WarningSet
  <2>2. CASE Listed(result, list)
    BY <2>2
  <2>3. CASE ~Listed(result, list)
    <3>. DEFINE s == missing(list)
    <3>1. s = <<Warned(cursor + 1, list)>>
      BY <2>3
    <3>. HIDE DEF s
    <3>2. s \in Seq(WarningSet) /\ s[1] = Warned(cursor + 1, list) /\ 1 \in DOMAIN s
      BY <2>1, <3>1
    <3>3. Told(s, cursor + 1)
      BY <2>1, <3>2 DEF Told
    <3>. QED
      BY <3>2, <3>3 DEF s
  <2>. QED
    BY <2>2, <2>3
<1>. HIDE DEF missing
<1>6. first \in Seq(WarningSet) /\ (Listed(result, lists[1]) \/ Told(first, cursor + 1))
  BY <1>2, <1>4, <1>5
<1>7. /\ second \in Seq(WarningSet)
      /\ Len(lists) = 2 => Listed(result, lists[2]) \/ Told(second, cursor + 1)
  <2>1. CASE Len(lists) = 2
    BY <1>1, <1>4, <1>5, <2>1
  <2>2. CASE Len(lists) # 2
    BY <1>1, <2>2
  <2>. QED
    BY <2>1, <2>2
<1>8. /\ first \o second \in Seq(WarningSet)
      /\ Told(first \o second, cursor + 1) <=> Told(first, cursor + 1) \/ Told(second, cursor + 1)
  BY <1>6, <1>7, WarningsAdd
<1>9. \A list \in Range(lists) : Listed(result, list) \/ Told(first \o second, cursor + 1)
  BY <1>4, <1>6, <1>7, <1>8
<1>. QED
  BY <1>3, <1>8, <1>9 DEF lists

\* Extraction leaves the results alone, and so what each of them should bring.
LEMMA LayoutStays ==
  ASSUME UNCHANGED runVars
  PROVE  \A n : /\ Layout[ToolOf(results[n])]' = Layout[ToolOf(results[n])]
                /\ \A list : Listed(results[n], list)' <=> Listed(results[n], list)
  BY ResultsStay DEF Listed, ToolOf, Layout

\* The result that is opened is warned about, or what it holds is still to come.
LEMMA OpeningWarns ==
  ASSUME EvidenceInv, WarnedInv, SkipFailed \/ SkipUnreadable \/ OpenResult
  PROVE  WarnedInv'
<1>1. /\ pending = <<>> /\ cursor' = cursor + 1 /\ UNCHANGED runVars
      /\ warnings \in Seq(WarningSet)
  BY DEF SkipFailed, SkipUnreadable, OpenResult, MayOpen, WarnedInv
<1>2. cursor \in Nat
  BY LenProperties DEF EvidenceInv, EvidenceTypes
<1>3. /\ warnings' \in Seq(WarningSet)
      /\ \A n : Told(warnings, n) => Told(warnings', n)
      /\ results[cursor'].answer.success /\ ~Readable(results[cursor']) => Told(warnings', cursor')
      /\ Readable(results[cursor']) =>
           /\ pending' = Occurrences(results[cursor'])
           /\ \A list \in Range(Layout[ToolOf(results[cursor'])]) :
                Listed(results[cursor'], list) \/ Told(warnings', cursor')
  <2>1. CASE SkipFailed
    BY <1>1, <2>1 DEF SkipFailed, Readable
  <2>2. CASE SkipUnreadable
    <3>1. warnings' = Append(warnings, Warned(cursor + 1, "unreadable")) /\ ~Readable(results[cursor'])
      BY <1>1, <2>2 DEF SkipUnreadable
    <3>2. /\ warnings' \in Seq(WarningSet) /\ Told(warnings', cursor + 1)
          /\ \A n : Told(warnings, n) => Told(warnings', n)
      BY <1>1, <1>2, <3>1, WarningAdded
    <3>. QED
      BY <1>1, <3>1, <3>2
  <2>3. CASE OpenResult
    <3>. DEFINE result == results[cursor + 1]
    <3>1. /\ Readable(result) /\ pending' = Occurrences(result)
          /\ warnings' = warnings \o MissingLists(result)
      BY <2>3 DEF OpenResult, MayOpen
    <3>. HIDE DEF result
    <3>2. /\ MissingLists(result) \in Seq(WarningSet)
          /\ \A list \in Range(Layout[ToolOf(result)]) :
               Listed(result, list) \/ Told(MissingLists(result), cursor + 1)
      BY <1>2, <3>1, MissingWarned DEF Readable
    <3>3. /\ warnings' \in Seq(WarningSet)
          /\ \A n : Told(warnings', n) <=> Told(warnings, n) \/ Told(MissingLists(result), n)
      BY <1>1, <3>1, <3>2, WarningsAdd
    <3>. QED
      BY <1>1, <3>1, <3>2, <3>3 DEF result
  <2>. QED
    BY <2>1, <2>2, <2>3
<1>4. SkipsAreWarned'
  <2>1. SUFFICES ASSUME NEW n \in 1..cursor'
        PROVE  /\ results[n].answer.success /\ ~Readable(results[n]) => Told(warnings', n)
               /\ Readable(results[n]) =>
                    /\ \A raw \in Range(Occurrences(results[n])) :
                         raw.valid \/ (n = cursor' /\ raw \in Range(pending')) \/ Told(warnings', n)
                    /\ \A list \in Range(Layout[ToolOf(results[n])]) :
                         Listed(results[n], list) \/ Told(warnings', n)
    BY <1>1, ResultsStay, LayoutStays DEF SkipsAreWarned, Told
  <2>2. CASE n = cursor'
    BY <1>3, <2>2
  <2>3. CASE n # cursor'
    <3>1. n \in 1..cursor
      BY <1>1, <1>2, <2>1, <2>3
    <3>2. Range(pending) = {}
      BY <1>1 DEF Range
    <3>. QED
      BY <1>3, <3>1, <3>2 DEF WarnedInv, SkipsAreWarned
  <2>. QED
    BY <2>2, <2>3
<1>. QED
  BY <1>3, <1>4 DEF WarnedInv

\* A record that was read is valid, or a warning about its result tells that it is not.
LEMMA ReadingWarns ==
  ASSUME EvidenceInv, WarnedInv, RejectRecord \/ TakeRecord
  PROVE  WarnedInv'
<1>1. /\ pending # <<>> /\ pending' = Tail(pending) /\ UNCHANGED <<runVars, cursor>>
      /\ warnings \in Seq(WarningSet)
  BY DEF RejectRecord, TakeRecord, WarnedInv
<1>2. /\ cursor \in Nat /\ Range(pending) = {Head(pending)} \cup Range(pending')
  <2>1. pending \in Seq(RecordSet) /\ cursor \in 0..Len(results) /\ Len(results) \in Nat
    BY LenProperties DEF EvidenceInv, EvidenceTypes
  <2>. QED
    BY <1>1, <2>1, RangeOfTail
<1>3. /\ warnings' \in Seq(WarningSet)
      /\ \A n : Told(warnings, n) => Told(warnings', n)
      /\ Head(pending).valid \/ Told(warnings', cursor)
  <2>1. CASE TakeRecord
    BY <1>1, <2>1 DEF TakeRecord
  <2>2. CASE RejectRecord
    BY <1>1, <1>2, <2>2, WarningAdded DEF RejectRecord
  <2>. QED
    BY <2>1, <2>2
<1>4. SkipsAreWarned'
  <2>1. SUFFICES ASSUME NEW n \in 1..cursor
        PROVE  /\ results[n].answer.success /\ ~Readable(results[n]) => Told(warnings', n)
               /\ Readable(results[n]) =>
                    /\ \A raw \in Range(Occurrences(results[n])) :
                         raw.valid \/ (n = cursor /\ raw \in Range(pending')) \/ Told(warnings', n)
                    /\ \A list \in Range(Layout[ToolOf(results[n])]) :
                         Listed(results[n], list) \/ Told(warnings', n)
    BY <1>1, ResultsStay, LayoutStays DEF SkipsAreWarned, Told
  <2>. QED
    BY <1>2, <1>3 DEF WarnedInv, SkipsAreWarned
<1>. QED
  BY <1>3, <1>4 DEF WarnedInv

\* Every step keeps the account of what was skipped.
LEMMA WarnedStep ==
  ASSUME EvidenceInv, WarnedInv, [CaseNext]_caseVars
  PROVE  WarnedInv'
<1>1. CASE RunStep
  <2>1. running /\ UNCHANGED <<cursor, warnings>>
    BY <1>1 DEF RunStep, CallAnswered, CallRaised, Call, RunEnds, extractVars
  <2>2. cursor = 0
    BY <2>1 DEF EvidenceInv, Control
  <2>. QED
    BY <2>1, <2>2 DEF WarnedInv, SkipsAreWarned
<1>2. CASE ExtractStep
  BY <1>2, OpeningWarns, ReadingWarns DEF ExtractStep
<1>3. CASE UNCHANGED evidenceVars
  <2>1. UNCHANGED <<runVars, cursor, pending, warnings>>
    BY <1>3 DEF evidenceVars, extractVars
  <2>. QED
    BY <2>1, ResultsStay, LayoutStays DEF WarnedInv, SkipsAreWarned, Told
<1>4. RunStep \/ ExtractStep \/ UNCHANGED evidenceVars
  BY DEF CaseNext, CaseCall, CaseRunEnds, CaseExtract, Summarise, BuildReport, Reported, caseVars, RunStep
<1>. QED
  BY <1>1, <1>2, <1>3, <1>4

\* A payload without a record is a payload of empty lists.
LEMMA NoRecordNoList ==
  ASSUME NEW result \in ResultSet, Readable(result), Range(Occurrences(result)) = {},
         NEW list \in Range(Layout[ToolOf(result)]), Listed(result, list)
  PROVE  result.answer.lists[list] = <<>>
<1>. DEFINE lists == Layout[ToolOf(result)]
<1>1. /\ Range(lists) = IF Len(lists) = 2 THEN {lists[1], lists[2]} ELSE {lists[1]}
      /\ ToolOf(result) \in DOMAIN Layout
  BY LayoutFacts DEF Readable
<1>2. PICK first : first = RecordsIn(result, lists[1])
  OBVIOUS
<1>3. PICK second : second = IF Len(lists) = 2 THEN RecordsIn(result, lists[2]) ELSE <<>>
  OBVIOUS
<1>4. Occurrences(result) = first \o second
  BY <1>2, <1>3 DEF Occurrences
<1>5. \A l : RecordsIn(result, l) \in Seq(RecordSet)
  BY ListsType DEF Readable, RecordsIn, Listed
<1>6. first \in Seq(RecordSet) /\ second \in Seq(RecordSet)
  BY <1>2, <1>3, <1>5
<1>7. /\ Len(first) \in Nat /\ Len(second) \in Nat
      /\ DOMAIN (first \o second) = 1..(Len(first) + Len(second))
  BY <1>6, ConcatProperties, LenProperties
<1>8. first = <<>> /\ second = <<>>
  <2>1. Len(first) + Len(second) = 0
    <3>1. 1 \notin DOMAIN (first \o second)
      BY <1>4 DEF Range
    <3>. QED
      BY <1>7, <3>1
  <2>. QED
    BY <1>6, <1>7, <2>1, EmptySeq
<1>9. RecordsIn(result, list) = <<>>
  BY <1>1, <1>2, <1>3, <1>8 DEF lists
<1>. QED
  BY <1>9 DEF RecordsIn

\* A readable result whose lists are all there and empty leaves a gap.
LEMMA EmptyLeavesGap ==
  ASSUME NEW n, Readable(results[n]),
         \A list \in Range(Layout[ToolOf(results[n])]) :
           Listed(results[n], list) /\ results[n].answer.lists[list] = <<>>
  PROVE  \E kind : kind # "unlinked" /\ Gap(kind, {results[n].call}) \in ResultGaps(n)
<1>. DEFINE tool == ToolOf(results[n])
<1>1. results[n].answer.success /\ results[n].answer.object
  BY DEF Readable
<1>2. \E list \in EmptyAnswers(results[n]) : list # "unlinked"
  <2>1. tool \in {"search_endpoint_events", "search_network_activity", "lookup_file_reputation",
                  "lookup_ioc_reputation", "search_cti"}
    BY DEF Readable, Layout
  <2>2. \A list \in {Layout[tool][1]} : list \in Range(Layout[tool]) /\ list \in ListNames
    BY LayoutFacts DEF Readable
  <2>3. Layout[tool][1] # "unlinked"
    BY <2>2 DEF ListNames
  <2>4. CASE tool \in {"search_endpoint_events", "search_network_activity", "search_cti"}
    BY <2>2, <2>3, <2>4 DEF EmptyAnswers
  <2>5. CASE tool = "lookup_file_reputation"
    <3>1. Layout[tool][1] = "files"
      BY <2>5 DEF Layout
    <3>2. "files" \in EmptyAnswers(results[n])
      BY <2>2, <2>5, <3>1 DEF EmptyAnswers
    <3>. QED
      BY <3>2
  <2>6. CASE tool = "lookup_ioc_reputation"
    <3>1. Layout[tool][1] = "records"
      BY <2>6 DEF Layout
    <3>2. "records" \in EmptyAnswers(results[n])
      BY <2>2, <2>6, <3>1 DEF EmptyAnswers
    <3>. QED
      BY <3>2
  <2>. QED
    BY <2>1, <2>4, <2>5, <2>6
<1>. QED
  BY <1>1, <1>2 DEF ResultGaps

\* No call vanishes from the report: what it brought is evidence, or a gap names
\* it, or an extraction warning names its result.
THEOREM NothingPassesInSilence == CaseSpec => []NoCallIsSilent
<1>1. CaseInit => WarnedInv
  BY DEF CaseInit, EvidenceInit, WarnedInv, SkipsAreWarned
<1>2. CaseInv /\ WarnedInv /\ [CaseNext]_caseVars => WarnedInv'
  BY WarnedStep DEF CaseInv
<1>3. CaseInv /\ WarnedInv => NoCallIsSilent
  <2>. SUFFICES ASSUME CaseInv, WarnedInv, stage # "evidence", NEW c \in DOMAIN calls
                PROVE  \/ \E gap \in summary.gaps : gap.kind # "unlinked" /\ c \in gap.about
                       \/ \E e \in DOMAIN items : \E r \in Range(items[e].references) : r.call = c
                       \/ \E n \in DOMAIN warnings : results[warnings[n].result].call = c
    BY DEF NoCallIsSilent
  <2>1. /\ cursor = Len(results) /\ pending = <<>>
        /\ \A gap : gap \in CallGaps => gap \in summary.gaps
        /\ \A n \in DOMAIN results : \A gap \in ResultGaps(n) : gap \in summary.gaps
    BY DEF CaseInv, ReportTrue, Extracted, InformationGaps
  <2>2. \A kind : kind # "unlinked" /\ Gap(kind, {c}) \in summary.gaps =>
          \E gap \in summary.gaps : gap.kind # "unlinked" /\ c \in gap.about
    BY DEF Gap
  <2>3. CASE \A n \in DOMAIN results : results[n].call # c
    <3>1. Gap("no_result", {c}) \in CallGaps
      BY <2>3 DEF CallGaps
    <3>. QED
      BY <2>1, <2>2, <3>1
  <2>4. ASSUME NEW n \in DOMAIN results, results[n].call = c
        PROVE  \/ \E gap \in summary.gaps : gap.kind # "unlinked" /\ c \in gap.about
               \/ \E e \in DOMAIN items : \E r \in Range(items[e].references) : r.call = c
               \/ \E m \in DOMAIN warnings : results[warnings[m].result].call = c
    <3>1. n \in 1..cursor /\ results[n] \in ResultSet
      <4>1. results \in Seq(ResultSet) /\ DOMAIN results = 1..Len(results)
        BY LenProperties DEF CaseInv, EvidenceInv, EvidenceTypes
      <4>. QED
        BY <2>1, <4>1, ElementOfSeq
    <3>2. CASE Told(warnings, n)
      BY <2>4, <3>2 DEF Told
    <3>3. CASE ~results[n].answer.success
      <4>1. Gap("failed", {c}) \in ResultGaps(n)
        BY <2>4, <3>3 DEF ResultGaps
      <4>2. Gap("failed", {c}) \in summary.gaps
        BY <2>1, <4>1
      <4>. QED
        BY <2>2, <4>2
    <3>4. CASE results[n].answer.success /\ ~Told(warnings, n)
      <4>1. /\ Readable(results[n])
            /\ \A raw \in Range(Occurrences(results[n])) : raw.valid
            /\ \A list \in Range(Layout[ToolOf(results[n])]) : Listed(results[n], list)
        <5>1. Range(pending) = {}
          BY <2>1 DEF Range
        <5>. QED
          BY <3>1, <3>4, <5>1 DEF WarnedInv, SkipsAreWarned
      <4>2. CASE Range(Occurrences(results[n])) = {}
        <5>1. PICK kind : kind # "unlinked" /\ Gap(kind, {c}) \in ResultGaps(n)
          BY <2>4, <3>1, <4>1, <4>2, NoRecordNoList, EmptyLeavesGap
        <5>2. Gap(kind, {c}) \in summary.gaps
          BY <2>1, <5>1
        <5>. QED
          BY <2>2, <5>1, <5>2
      <4>3. ASSUME NEW raw \in Range(Occurrences(results[n]))
            PROVE  \E e \in DOMAIN items : \E r \in Range(items[e].references) : r.call = c
        <5>1. raw \in Raws(n) /\ Range(pending) = {}
          BY <2>1, <4>1, <4>3 DEF Raws, Range
        <5>2. Kept(raw, n)
          BY <3>1, <4>1, <5>1 DEF CaseInv, EvidenceInv, NothingDropped
        <5>3. PICK e \in DOMAIN items : \E r \in Range(items[e].references) : r.result = n
          BY <5>2 DEF Kept
        <5>4. \A r \in Range(items[e].references) : r.call = results[r.result].call
          BY DEF CaseInv, EvidenceInv, ReferencesTrace, Range
        <5>. QED
          BY <2>4, <5>3, <5>4
      <4>. QED
        BY <4>2, <4>3
    <3>. QED
      BY <3>2, <3>3, <3>4
  <2>. QED
    BY <2>3, <2>4
<1>. QED
  BY <1>1, <1>2, <1>3, CaseCorrect, PTL DEF CaseSpec

-----------------------------------------------------------------------------
(* The extraction as gathering                                             *)

\* A result answers a call that was made.
AnswersCalls == \A n \in DOMAIN results : results[n].call \in DOMAIN calls

\* A warning is about a result that was opened and is flawed.
WarningsTrue == \A n : Told(warnings, n) => n \in 1..cursor /\ Flawed(n)

GatherInv == EvidenceInv /\ WarnedInv /\ AnswersCalls /\ WarningsTrue

\* What is known and doubtful is what the results that were read in full hold.
Booked ==
  /\ ReadInFull \in Nat /\ ReadInFull <= Len(results)
  /\ \A pair : pair \in KnownFacts <=>
       \E n \in 1..ReadInFull : \E fact \in FactsIn(n) : pair = <<fact, n>>
  /\ DoubtfulResults = {n \in 1..ReadInFull : Flawed(n)}

\* Extraction leaves alone what is wrong with a result and what it shows.
LEMMA FlawsStay ==
  ASSUME UNCHANGED runVars
  PROVE  \A n : Flawed(n)' = Flawed(n) /\ FactsIn(n)' = FactsIn(n)
<1>1. UNCHANGED results
  BY DEF runVars
<1>2. \A n : Flawed(n)' = Flawed(n)
  BY <1>1, ResultsStay, LayoutStays DEF Flawed
<1>3. \A n : FactsIn(n)' = FactsIn(n)
  BY <1>1, ResultsStay DEF FactsIn
<1>. QED
  BY <1>2, <1>3

\* The warnings about the lists of a payload are about one result, that lacks one.
LEMMA MissingTrue ==
  ASSUME NEW result, ToolOf(result) \in DOMAIN Layout, cursor \in Nat,
         NEW n, Told(MissingLists(result), n)
  PROVE  n = cursor + 1 /\ \E list \in Range(Layout[ToolOf(result)]) : ~Listed(result, list)
<1>. DEFINE lists == Layout[ToolOf(result)]
            missing(list) == IF Listed(result, list) THEN <<>> ELSE <<Warned(cursor + 1, list)>>
<1>1. PICK second : second = IF Len(lists) = 2 THEN missing(lists[2]) ELSE <<>>
  OBVIOUS
<1>2. PICK first : first = missing(lists[1])
  OBVIOUS
<1>3. MissingLists(result) = first \o second
  BY <1>1, <1>2 DEF MissingLists
<1>4. /\ lists[1] \in ListNames /\ (Len(lists) = 2 => lists[2] \in ListNames)
      /\ Range(lists) = IF Len(lists) = 2 THEN {lists[1], lists[2]} ELSE {lists[1]}
  BY LayoutFacts
<1>. HIDE DEF lists
<1>5. ASSUME NEW list \in ListNames
      PROVE  /\ missing(list) \in Seq(WarningSet)
             /\ Told(missing(list), n) => n = cursor + 1 /\ ~Listed(result, list)
  <2>1. Warned(cursor + 1, list) \in WarningSet /\ Warned(cursor + 1, list).result = cursor + 1
    BY DEF Warned, WarningSet
  <2>2. CASE Listed(result, list)
    BY <2>2 DEF Told
  <2>3. CASE ~Listed(result, list)
    <3>. DEFINE s == missing(list)
    <3>1. s = <<Warned(cursor + 1, list)>>
      BY <2>3
    <3>. HIDE DEF s
    <3>2. s \in Seq(WarningSet) /\ s[1] = Warned(cursor + 1, list) /\ DOMAIN s = {1}
      BY <2>1, <3>1
    <3>3. Told(s, n) => n = cursor + 1
      BY <2>1, <3>2 DEF Told
    <3>. QED
      BY <2>3, <3>2, <3>3 DEF s
  <2>. QED
    BY <2>2, <2>3
<1>. HIDE DEF missing
<1>6. ~Told(<<>>, n) /\ <<>> \in Seq(WarningSet)
  BY DEF Told
<1>7. /\ first \in Seq(WarningSet)
      /\ Told(first, n) => n = cursor + 1 /\ ~Listed(result, lists[1])
  BY <1>2, <1>4, <1>5
<1>8. /\ second \in Seq(WarningSet)
      /\ Told(second, n) => n = cursor + 1 /\ Len(lists) = 2 /\ ~Listed(result, lists[2])
  <2>1. CASE Len(lists) = 2
    BY <1>1, <1>4, <1>5, <2>1
  <2>2. CASE Len(lists) # 2
    BY <1>1, <1>6, <2>2
  <2>. QED
    BY <2>1, <2>2
<1>9. Told(first, n) \/ Told(second, n)
  BY <1>3, <1>7, <1>8, WarningsAdd
<1>. QED
  BY <1>4, <1>7, <1>8, <1>9 DEF lists

\* A warning that is added is about the result at hand, which deserves it.
LEMMA WarnsOfFlaws ==
  ASSUME GatherInv, ExtractStep
  PROVE  \A n : Told(warnings', n) => Told(warnings, n) \/ (n = cursor' /\ Flawed(n))
<1>1. warnings \in Seq(WarningSet) /\ cursor \in Nat /\ Len(results) \in Nat
  BY LenProperties DEF GatherInv, WarnedInv, EvidenceInv, EvidenceTypes
<1>2. CASE SkipFailed \/ TakeRecord
  BY <1>2 DEF SkipFailed, TakeRecord
<1>3. CASE SkipUnreadable
  <2>1. /\ warnings' = Append(warnings, Warned(cursor + 1, "unreadable")) /\ cursor' = cursor + 1
        /\ results[cursor'].answer.success /\ ~Readable(results[cursor'])
    BY <1>3 DEF SkipUnreadable
  <2>. QED
    BY <1>1, <2>1, WarningAdded DEF Flawed
<1>4. CASE OpenResult
  <2>1. /\ warnings' = warnings \o MissingLists(results[cursor + 1]) /\ cursor' = cursor + 1
        /\ Readable(results[cursor + 1]) /\ ToolOf(results[cursor + 1]) \in DOMAIN Layout
        /\ results[cursor + 1].answer.success
    BY <1>4 DEF OpenResult, Readable
  <2>2. MissingLists(results[cursor + 1]) \in Seq(WarningSet)
    BY <1>1, <2>1, MissingWarned
  <2>3. ASSUME NEW n, Told(warnings', n), ~Told(warnings, n)
        PROVE  n = cursor' /\ Flawed(n)
    <3>1. Told(MissingLists(results[cursor + 1]), n)
      BY <1>1, <2>1, <2>2, <2>3, WarningsAdd
    <3>2. n = cursor + 1 /\ \E list \in Range(Layout[ToolOf(results[cursor + 1])]) :
                              ~Listed(results[cursor + 1], list)
      BY <1>1, <2>1, <3>1, MissingTrue
    <3>. QED
      BY <2>1, <3>2 DEF Flawed
  <2>. QED
    BY <2>3
<1>5. CASE RejectRecord
  <2>1. /\ pending # <<>> /\ ~Head(pending).valid /\ cursor' = cursor
        /\ warnings' = Append(warnings, Warned(cursor, "invalid"))
    BY <1>5 DEF RejectRecord
  <2>2. Head(pending) \in Range(Occurrences(results[cursor])) /\ Readable(results[cursor])
    BY <2>1, RangeOfTail DEF GatherInv, EvidenceInv, EvidenceTypes, Control
  <2>3. Flawed(cursor)
    BY <2>1, <2>2 DEF Flawed, Readable
  <2>. QED
    BY <1>1, <2>1, <2>3, WarningAdded
<1>. QED
  BY <1>2, <1>3, <1>4, <1>5 DEF ExtractStep

\* A call leaves alone what earlier results hold.
LEMMA EarlierStay ==
  ASSUME EvidenceInv, AnswersCalls, RunStep
  PROVE  /\ AnswersCalls'
         /\ Len(results') \in {Len(results), Len(results) + 1}
         /\ \A n \in DOMAIN results : /\ n \in DOMAIN results'
                                      /\ Flawed(n)' = Flawed(n) /\ FactsIn(n)' = FactsIn(n)
<1>1. /\ calls \in Seq(Requests) /\ Len(calls) \in Nat /\ DOMAIN calls = 1..Len(calls)
      /\ results \in Seq(ResultSet) /\ Len(results) \in Nat /\ DOMAIN results = 1..Len(results)
  BY LenProperties DEF EvidenceInv, EvidenceTypes
<1>2. /\ AnswersCalls' /\ Len(results') \in {Len(results), Len(results) + 1}
      /\ \A n \in DOMAIN results : n \in DOMAIN results' /\ results'[n] = results[n]
      /\ \A c \in DOMAIN calls : calls'[c] = calls[c]
  <2>1. CASE RunEnds
    BY <1>1, <2>1 DEF RunEnds, AnswersCalls
  <2>2. ASSUME NEW q \in Requests, CallAnswered(q) \/ CallRaised(q)
        PROVE  /\ AnswersCalls' /\ Len(results') \in {Len(results), Len(results) + 1}
               /\ \A n \in DOMAIN results : n \in DOMAIN results' /\ results'[n] = results[n]
               /\ \A c \in DOMAIN calls : calls'[c] = calls[c]
    <3>. DEFINE result == [call |-> Len(calls) + 1, answer |-> AnswerTo[q]]
    <3>1. calls' = Append(calls, q) /\ (results' = results \/ results' = Append(results, result))
      BY <2>2 DEF CallAnswered, CallRaised, Call
    <3>2. /\ DOMAIN calls' = 1..(Len(calls) + 1)
          /\ \A c \in 1..Len(calls) : calls'[c] = calls[c]
      BY <1>1, <3>1, AppendProperties, LenProperties
    <3>3. result \in ResultSet /\ result.call = Len(calls) + 1
      BY <1>1 DEF ResultSet
    <3>. HIDE DEF result
    <3>4. CASE results' = results
      BY <1>1, <3>2, <3>4 DEF AnswersCalls
    <3>5. CASE results' = Append(results, result)
      <4>1. /\ DOMAIN results' = 1..(Len(results) + 1) /\ Len(results') = Len(results) + 1
            /\ \A n \in 1..Len(results) : results'[n] = results[n]
            /\ results'[Len(results) + 1] = result
        BY <1>1, <3>3, <3>5, AppendProperties, LenProperties
      <4>2. \A n \in 1..(Len(results) + 1) : n \in 1..Len(results) \/ n = Len(results) + 1
        BY <1>1
      <4>3. \A n \in 1..Len(results) : results'[n].call \in 1..(Len(calls) + 1)
        BY <1>1, <4>1 DEF AnswersCalls
      <4>4. Len(calls) + 1 \in 1..(Len(calls) + 1)
        BY <1>1
      <4>5. AnswersCalls'
        BY <3>2, <3>3, <4>1, <4>2, <4>3, <4>4 DEF AnswersCalls
      <4>. QED
        BY <1>1, <3>2, <4>1, <4>5
    <3>. QED
      BY <3>1, <3>4, <3>5
  <2>. QED
    BY <2>1, <2>2 DEF RunStep
<1>3. ASSUME NEW n \in DOMAIN results
      PROVE  Flawed(n)' = Flawed(n) /\ FactsIn(n)' = FactsIn(n)
  <2>1. results'[n] = results[n] /\ calls'[results[n].call] = calls[results[n].call]
    BY <1>2, <1>3 DEF AnswersCalls
  <2>2. /\ ToolOf(results[n])' = ToolOf(results[n])
        /\ \A list : Listed(results[n], list)' <=> Listed(results[n], list)
        /\ \A list : RecordsIn(results[n], list)' = RecordsIn(results[n], list)
    BY <2>1 DEF ToolOf, Listed, RecordsIn
  <2>3. /\ Readable(results[n])' <=> Readable(results[n])
        /\ Occurrences(results[n])' = Occurrences(results[n])
    BY <2>1, <2>2 DEF Readable, Occurrences
  <2>. QED
    BY <2>1, <2>2, <2>3 DEF Flawed, FactsIn, Raws
<1>. QED
  BY <1>2, <1>3

\* Every step keeps the books.
LEMMA GatherInductive ==
  ASSUME GatherInv, [CaseNext]_caseVars
  PROVE  GatherInv'
<1>1. EvidenceInv' /\ WarnedInv'
  BY EvidenceInductive, WarnedStep DEF GatherInv
<1>2. CASE RunStep
  <2>1. running /\ UNCHANGED <<cursor, warnings>>
    BY <1>2 DEF RunStep, CallAnswered, CallRaised, Call, RunEnds, extractVars
  <2>2. cursor = 0
    BY <2>1 DEF GatherInv, EvidenceInv, Control
  <2>3. \A n : ~Told(warnings, n)
    BY <2>2 DEF GatherInv, WarningsTrue
  <2>. QED
    BY <1>1, <1>2, <2>1, <2>3, EarlierStay DEF GatherInv, WarningsTrue, Told
<1>3. CASE ExtractStep
  <2>1. UNCHANGED runVars /\ cursor' \in {cursor, cursor + 1}
    BY <1>3 DEF ExtractStep, SkipFailed, SkipUnreadable, OpenResult, RejectRecord, TakeRecord
  <2>2. AnswersCalls'
    BY <2>1, ResultsStay DEF GatherInv, AnswersCalls
  <2>3. /\ cursor \in Nat /\ cursor' \in 0..Len(results)' /\ Len(results)' \in Nat
        /\ \A n \in 1..cursor : n \in 1..cursor'
    BY <1>1, <2>1, LenProperties DEF GatherInv, EvidenceInv, EvidenceTypes
  <2>4. \A n : Told(warnings', n) => n \in 1..cursor' /\ Flawed(n)
    <3>1. SUFFICES ASSUME NEW n, Told(warnings', n) PROVE n \in 1..cursor' /\ Flawed(n)
      OBVIOUS
    <3>2. CASE Told(warnings, n)
      BY <2>3, <3>2 DEF GatherInv, WarningsTrue
    <3>3. CASE n = cursor' /\ Flawed(n)
      <4>1. cursor' # 0
        <5>1. CASE pending # <<>>
          BY <1>3, <5>1 DEF GatherInv, EvidenceInv, Control, ExtractStep, SkipFailed, SkipUnreadable,
                            OpenResult, RejectRecord, TakeRecord, MayOpen
        <5>2. CASE pending = <<>>
          <6>1. cursor' = cursor + 1
            BY <1>3, <5>2 DEF ExtractStep, SkipFailed, SkipUnreadable, OpenResult, RejectRecord, TakeRecord
          <6>. QED
            BY <2>3, <6>1
        <5>. QED
          BY <5>1, <5>2
      <4>. QED
        BY <2>3, <3>3, <4>1
    <3>. QED
      BY <1>3, <3>1, <3>2, <3>3, WarnsOfFlaws
  <2>5. WarningsTrue'
    BY <2>1, <2>4, FlawsStay DEF WarningsTrue, Told
  <2>. QED
    BY <1>1, <2>2, <2>5 DEF GatherInv
<1>4. CASE UNCHANGED evidenceVars
  <2>1. UNCHANGED <<runVars, cursor, warnings>>
    BY <1>4 DEF evidenceVars, extractVars
  <2>2. AnswersCalls' /\ WarningsTrue'
    BY <2>1, ResultsStay, FlawsStay DEF GatherInv, AnswersCalls, WarningsTrue, Told
  <2>. QED
    BY <1>1, <2>2 DEF GatherInv
<1>. QED
  BY <1>2, <1>3, <1>4, CaseStepOnEvidence

\* What the books say follows.
LEMMA BooksAreRight ==
  ASSUME GatherInv
  PROVE  Booked
<1>1. /\ cursor \in 0..Len(results) /\ Len(results) \in Nat
      /\ pending # <<>> => cursor \in 1..Len(results)
  BY LenProperties DEF GatherInv, EvidenceInv, EvidenceTypes, Control
<1>2. /\ ReadInFull \in Nat /\ ReadInFull <= Len(results)
      /\ \A n \in 1..ReadInFull : n \in 1..cursor /\ (n = cursor => pending = <<>>)
  BY <1>1 DEF ReadInFull
<1>3. Range(<<>>) = {}
  BY DEF Range
<1>. HIDE DEF ReadInFull
<1>4. ASSUME NEW pair, pair \in KnownFacts
      PROVE  \E n \in 1..ReadInFull : \E fact \in FactsIn(n) : pair = <<fact, n>>
  <2>1. PICK e \in DOMAIN items : \E n \in {n \in 1..ReadInFull : RefersTo(e, n)} :
          pair = <<Identity(items[e].record), n>>
    BY <1>4 DEF KnownFacts
  <2>2. PICK n \in 1..ReadInFull : RefersTo(e, n) /\ pair = <<Identity(items[e].record), n>>
    BY <2>1
  <2>3. PICK m \in DOMAIN items[e].references : items[e].references[m].result = n
    BY <2>2 DEF RefersTo, Range
  <2>4. Readable(results[n]) /\ \E raw \in Raws(n) : Identity(raw) = Identity(items[e].record)
    BY <2>1, <2>3 DEF GatherInv, EvidenceInv, ReferencesTrace
  <2>5. Identity(items[e].record) \in FactsIn(n)
    BY <2>4 DEF FactsIn
  <2>. QED
    BY <2>2, <2>5
<1>5. ASSUME NEW n \in 1..ReadInFull, NEW fact \in FactsIn(n)
      PROVE  <<fact, n>> \in KnownFacts
  <2>1. PICK raw \in Raws(n) : fact = Identity(raw) /\ Readable(results[n])
    BY <1>5 DEF FactsIn
  <2>2. Kept(raw, n)
    <3>1. (n = cursor /\ raw \in Range(pending)) \/ Kept(raw, n)
      BY <1>2, <2>1 DEF GatherInv, EvidenceInv, NothingDropped
    <3>. QED
      BY <1>2, <1>3, <3>1
  <2>3. PICK e \in DOMAIN items : RefersTo(e, n) /\ Identity(items[e].record) = fact
    BY <2>1, <2>2 DEF Kept, RefersTo
  <2>4. <<fact, n>> \in {<<Identity(items[e].record), k>> : k \in {k \in 1..ReadInFull : RefersTo(e, k)}}
    BY <2>3
  <2>. QED
    BY <2>4 DEF KnownFacts
<1>6. ASSUME NEW n \in 1..ReadInFull
      PROVE  Told(warnings, n) <=> Flawed(n)
  <2>1. Told(warnings, n) => Flawed(n)
    BY DEF GatherInv, WarningsTrue
  <2>2. ASSUME Flawed(n)
        PROVE  Told(warnings, n)
    <3>1. ~(\E raw : n = cursor /\ raw \in Range(pending))
      BY <1>2, <1>3
    <3>. QED
      BY <1>2, <2>2, <3>1 DEF GatherInv, WarnedInv, SkipsAreWarned, Flawed
  <2>. QED
    BY <2>1, <2>2
<1>7. Booked
  BY <1>2, <1>4, <1>5, <1>6 DEF Booked, DoubtfulResults, Told
<1>. QED
  BY <1>7

\* What is held is a sequence as long as that of the results.
HeldByResults ==
  /\ Len(Held) = Len(results) /\ DOMAIN Held = DOMAIN results
  /\ \A n \in DOMAIN results : Held[n] = [facts |-> FactsIn(n), flawed |-> Flawed(n)]

LEMMA HeldForm ==
  ASSUME GatherInv
  PROVE  HeldByResults
<1>1. DOMAIN results = 1..Len(results) /\ Len(results) \in Nat
  BY LenProperties DEF GatherInv, EvidenceInv, EvidenceTypes
<1>. DEFINE entries == {[facts |-> FactsIn(n), flawed |-> Flawed(n)] : n \in DOMAIN results}
<1>2. Held \in [1..Len(results) -> entries]
  BY <1>1 DEF Held
<1>. HIDE DEF entries
<1>3. Len(Held) = Len(results)
  BY <1>1, <1>2, IntervalIsSequence
<1>. QED
  BY <1>3 DEF Held, HeldByResults

\* Reading one result in full is what Gathering allows; reading on in one is not seen.
LEMMA ReadingGathers ==
  ASSUME GatherInv, Booked, Booked', UNCHANGED runVars, ReadInFull' \in {ReadInFull, ReadInFull + 1},
         ReadInFull' # ReadInFull => ~running
  PROVE  [Extraction!Next]_(Extraction!gatheringVars)
<1>1. /\ UNCHANGED <<results, running>>
      /\ \A n : Flawed(n)' = Flawed(n) /\ FactsIn(n)' = FactsIn(n)
  BY FlawsStay DEF runVars
<1>2. Held' = Held
  BY <1>1 DEF Held
<1>3. /\ ReadInFull \in Nat /\ ReadInFull' <= Len(results) /\ Len(results) \in Nat
  BY <1>1, LenProperties DEF Booked, GatherInv, EvidenceInv, EvidenceTypes
<1>4. CASE ReadInFull' = ReadInFull
  <2>1. \A pair : pair \in KnownFacts' <=> pair \in KnownFacts
    BY <1>1, <1>4 DEF Booked
  <2>2. KnownFacts' = KnownFacts /\ DoubtfulResults' = DoubtfulResults
    BY <1>1, <1>4, <2>1 DEF Booked
  <2>. QED
    BY <1>1, <1>2, <1>4, <2>2 DEF Extraction!gatheringVars
<1>5. CASE ReadInFull' = ReadInFull + 1
  <2>1. \A n : n \in 1..ReadInFull' <=> n \in 1..ReadInFull \/ n = ReadInFull'
    BY <1>3, <1>5
  <2>2. ReadInFull' \in DOMAIN results /\ ReadInFull < Len(results)
    BY <1>3, <1>5, LenProperties DEF GatherInv, EvidenceInv, EvidenceTypes
  <2>3. /\ Len(Held) = Len(results)
        /\ Held[ReadInFull'].facts = FactsIn(ReadInFull') /\ Held[ReadInFull'].flawed = Flawed(ReadInFull')
    BY <2>2, HeldForm DEF HeldByResults
  <2>4. KnownFacts' = KnownFacts \cup {<<fact, ReadInFull'>> : fact \in Held[ReadInFull'].facts}
    BY <1>1, <2>1, <2>3 DEF Booked
  <2>5. DoubtfulResults' = DoubtfulResults \cup {n \in {ReadInFull'} : Held[n].flawed}
    BY <1>1, <2>1, <2>3 DEF Booked
  <2>6. Extraction!ReadResult
    BY <1>1, <1>2, <1>5, <2>2, <2>3, <2>4, <2>5 DEF Extraction!ReadResult
  <2>. QED
    BY <2>6 DEF Extraction!Next
<1>. QED
  BY <1>4, <1>5

\* Every step is one of Gathering or is not seen.
LEMMA GatheringStep ==
  ASSUME GatherInv, Booked, Booked', HeldByResults', [CaseNext]_caseVars
  PROVE  [Extraction!Next]_(Extraction!gatheringVars)
<1>1. CASE RunStep
  <2>1. running /\ UNCHANGED <<cursor, pending, items, warnings>>
    BY <1>1 DEF RunStep, CallAnswered, CallRaised, Call, RunEnds, extractVars
  <2>2. cursor = 0 /\ pending = <<>> /\ items = <<>>
    BY <2>1 DEF GatherInv, EvidenceInv, Control
  <2>3. /\ ReadInFull = 0 /\ ReadInFull' = 0
        /\ KnownFacts' = KnownFacts /\ DoubtfulResults' = DoubtfulResults
    BY <2>1, <2>2 DEF ReadInFull, KnownFacts, DoubtfulResults, RefersTo
  <2>4. CASE RunEnds
    <3>1. UNCHANGED <<calls, results>> /\ running' = FALSE
      BY <2>4 DEF RunEnds
    <3>2. \A n \in DOMAIN results : Flawed(n)' = Flawed(n) /\ FactsIn(n)' = FactsIn(n)
      BY <1>1, EarlierStay DEF GatherInv
    <3>3. Held' = Held
      BY <3>1, <3>2 DEF Held
    <3>. QED
      BY <2>1, <2>3, <3>1, <3>3 DEF Extraction!Next, Extraction!RunIsOver
  <2>5. ASSUME NEW request \in Requests, CallRaised(request)
        PROVE  UNCHANGED Extraction!gatheringVars
    <3>1. UNCHANGED <<results, running>>
      BY <2>5 DEF CallRaised, Call
    <3>2. \A n \in DOMAIN results : Flawed(n)' = Flawed(n) /\ FactsIn(n)' = FactsIn(n)
      BY <1>1, EarlierStay DEF GatherInv
    <3>3. Held' = Held
      BY <3>1, <3>2 DEF Held
    <3>. QED
      BY <2>3, <3>1, <3>3 DEF Extraction!gatheringVars
  <2>6. ASSUME NEW request \in Requests, CallAnswered(request)
        PROVE  Extraction!ResultArrives
    <3>1. UNCHANGED running
      BY <2>6 DEF CallAnswered, Call
    <3>2. Len(results') = Len(results) + 1
      BY <2>6, AppendProperties DEF CallAnswered, GatherInv, EvidenceInv, EvidenceTypes, ResultSet
    <3>3. /\ Len(Held) = Len(results) /\ DOMAIN Held = DOMAIN results
          /\ \A n \in DOMAIN results : Held[n] = [facts |-> FactsIn(n), flawed |-> Flawed(n)]
      BY HeldForm DEF HeldByResults
    <3>4. /\ Len(Held') = Len(results') /\ DOMAIN Held' = DOMAIN results'
          /\ \A n \in DOMAIN results' : Held'[n] = [facts |-> FactsIn(n)', flawed |-> Flawed(n)']
      BY DEF HeldByResults
    <3>. QED
      BY <1>1, <2>1, <2>3, <3>1, <3>2, <3>3, <3>4, EarlierStay DEF Extraction!ResultArrives, GatherInv
  <2>. QED
    BY <1>1, <2>4, <2>5, <2>6 DEF RunStep, Extraction!Next
<1>2. CASE SkipFailed \/ SkipUnreadable \/ OpenResult
  <2>1. /\ ~running /\ pending = <<>> /\ cursor' = cursor + 1 /\ UNCHANGED runVars
    BY <1>2 DEF SkipFailed, SkipUnreadable, OpenResult, MayOpen
  <2>2. cursor \in Nat
    BY LenProperties DEF GatherInv, EvidenceInv, EvidenceTypes
  <2>3. ReadInFull' \in {ReadInFull, ReadInFull + 1}
    BY <2>1, <2>2 DEF ReadInFull
  <2>. QED
    BY <2>1, <2>3, ReadingGathers
<1>3. CASE RejectRecord \/ TakeRecord
  <2>1. pending # <<>> /\ UNCHANGED <<cursor, runVars>>
    BY <1>3 DEF RejectRecord, TakeRecord
  <2>2. cursor \in Nat /\ ~running
    BY <2>1, LenProperties DEF GatherInv, EvidenceInv, EvidenceTypes, Control
  <2>3. ReadInFull' \in {ReadInFull, ReadInFull + 1}
    BY <2>1, <2>2 DEF ReadInFull
  <2>. QED
    BY <2>1, <2>2, <2>3, ReadingGathers
<1>4. CASE UNCHANGED evidenceVars
  <2>1. UNCHANGED <<runVars, cursor, pending>>
    BY <1>4 DEF evidenceVars, extractVars
  <2>2. ReadInFull' = ReadInFull
    BY <2>1 DEF ReadInFull
  <2>. QED
    BY <2>1, <2>2, ReadingGathers
<1>. QED
  BY <1>1, <1>2, <1>3, <1>4, CaseStepOnEvidence DEF ExtractStep

\* Reading record by record, with merging, linking and skipping, comes to the same as
\* reading each result at once: all of it that is usable becomes known, and there is
\* a warning about it exactly if some of it is not.
THEOREM EvidenceImplementsGathering == CaseSpec => ImplementsGathering
<1>1. CaseInit => GatherInv
  <2>1. CaseInit => WarnedInv /\ AnswersCalls /\ WarningsTrue
    BY DEF CaseInit, EvidenceInit, WarnedInv, SkipsAreWarned, AnswersCalls, WarningsTrue, Told
  <2>. QED
    BY <2>1, InitEvidence DEF GatherInv, CaseInit
<1>2. CaseInit => Extraction!Init
  <2>1. SUFFICES ASSUME CaseInit PROVE Extraction!Init
    OBVIOUS
  <2>2. /\ running = TRUE /\ cursor = 0 /\ pending = <<>> /\ items = <<>> /\ results = <<>>
    BY <2>1 DEF CaseInit, EvidenceInit
  <2>3. ReadInFull = 0 /\ KnownFacts = {} /\ DoubtfulResults = {}
    BY <2>2 DEF ReadInFull, KnownFacts, DoubtfulResults
  <2>4. Held = <<>>
    BY <2>2 DEF Held
  <2>. QED
    BY <2>2, <2>3, <2>4 DEF Extraction!Init
<1>3. GatherInv => Booked /\ HeldByResults
  BY BooksAreRight, HeldForm
<1>4. GatherInv /\ [CaseNext]_caseVars => GatherInv'
  BY GatherInductive
<1>5. GatherInv /\ Booked /\ Booked' /\ HeldByResults' /\ [CaseNext]_caseVars
        => [Extraction!Next]_(Extraction!gatheringVars)
  BY GatheringStep
<1>. QED
  BY <1>1, <1>2, <1>3, <1>4, <1>5, PTL DEF CaseSpec, ImplementsGathering, Extraction!Spec

=============================================================================

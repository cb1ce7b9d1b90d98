---------------------------- MODULE OrderingProofs ----------------------------
(***************************************************************************)
(* Machine-checked facts about putting a finite set in order, for the      *)
(* modules that prove something about sorted results: the number of        *)
(* elements before an element, or of records below a record, is its place. *)
(***************************************************************************)
EXTENDS Integers, SequenceTheorems, FiniteSetTheorems, TLAPS

\* A function on 1..n is a sequence of length n.
LEMMA IntervalIsSequence ==
  ASSUME NEW S, NEW n \in Nat, NEW f \in [1..n -> S]
  PROVE  f \in Seq(S) /\ Len(f) = n
<1>1. f \in Seq(S)
  BY SeqDef
<1>. QED
  BY <1>1, LenProperties

-----------------------------------------------------------------------------
(* Places                                                                  *)

\* A relation that puts finitely many elements in one order.
Orders(R, S) ==
  /\ IsFiniteSet(S)
  /\ \A r \in S : <<r, r>> \notin R
  /\ \A p, q, r \in S : <<p, q>> \in R /\ <<q, r>> \in R => <<p, r>> \in R
  /\ \A q, r \in S : q = r \/ <<q, r>> \in R \/ <<r, q>> \in R

Preceding(R, S, r) == {q \in S : <<q, r>> \in R}

\* Fewer elements precede an element than there are.
LEMMA PrecedingCounts ==
  ASSUME NEW R, NEW S, Orders(R, S), NEW r \in S
  PROVE  /\ IsFiniteSet(Preceding(R, S, r))
         /\ Cardinality(Preceding(R, S, r)) + 1 \in 1..Cardinality(S)
<1>. DEFINE before == Preceding(R, S, r)
<1>1. IsFiniteSet(S) /\ Cardinality(S) \in Nat
  BY FS_CardinalityType DEF Orders
<1>2. before \in SUBSET S /\ r \notin before
  BY DEF Preceding, Orders
<1>. HIDE DEF before
<1>3. IsFiniteSet(before) /\ Cardinality(before) \in Nat
  BY <1>1, <1>2, FS_Subset, FS_CardinalityType
<1>4. Cardinality(before \cup {r}) = Cardinality(before) + 1
  BY <1>2, <1>3, FS_AddElement
<1>5. before \cup {r} \in SUBSET S
  BY <1>2
<1>6. Cardinality(before \cup {r}) <= Cardinality(S)
  BY <1>1, <1>5, FS_Subset
<1>7. IsFiniteSet(before) /\ Cardinality(before) + 1 \in 1..Cardinality(S)
  BY <1>1, <1>3, <1>4, <1>6
<1>. QED
  BY <1>7 DEF before

\* More elements precede a later one.
LEMMA LaterHasMore ==
  ASSUME NEW R, NEW S, Orders(R, S), NEW q \in S, NEW r \in S, <<q, r>> \in R
  PROVE  Cardinality(Preceding(R, S, q)) < Cardinality(Preceding(R, S, r))
<1>. DEFINE fewer == Preceding(R, S, q)
            more == Preceding(R, S, r)
<1>1. q \notin fewer /\ fewer \cup {q} \in SUBSET more
  BY DEF Preceding, Orders
<1>2. /\ IsFiniteSet(fewer) /\ IsFiniteSet(more)
      /\ Cardinality(fewer) \in Nat /\ Cardinality(more) \in Nat
  BY PrecedingCounts, FS_CardinalityType
<1>. HIDE DEF fewer, more
<1>3. Cardinality(fewer \cup {q}) = Cardinality(fewer) + 1
  BY <1>1, <1>2, FS_AddElement
<1>4. Cardinality(fewer \cup {q}) <= Cardinality(more)
  BY <1>1, <1>2, FS_Subset
<1>5. Cardinality(fewer) < Cardinality(more)
  BY <1>2, <1>3, <1>4
<1>. QED
  BY <1>5 DEF fewer, more

\* Every place is taken.
LEMMA PlaceTaken ==
  ASSUME NEW R, NEW S, Orders(R, S), NEW n \in 1..Cardinality(S)
  PROVE  \E r \in S : Cardinality(Preceding(R, S, r)) = n - 1
<1>. DEFINE N == Cardinality(S)
            place == [r \in S |-> Cardinality(Preceding(R, S, r)) + 1]
<1>1. N \in Nat /\ IsFiniteSet(S)
  BY FS_CardinalityType DEF Orders
<1>2. IsFiniteSet(1..N) /\ Cardinality(1..N) = N
  BY <1>1, FS_Interval
<1>3. \A r \in S : /\ Cardinality(Preceding(R, S, r)) + 1 \in 1..N
                   /\ Cardinality(Preceding(R, S, r)) \in Nat
  BY PrecedingCounts, FS_CardinalityType
<1>4. \A q, r \in S : place[q] = place[r] => q = r
  <2>1. SUFFICES ASSUME NEW q \in S, NEW r \in S, q # r
                 PROVE  Cardinality(Preceding(R, S, q)) # Cardinality(Preceding(R, S, r))
    BY <1>3
  <2>2. <<q, r>> \in R \/ <<r, q>> \in R
    BY <2>1 DEF Orders
  <2>. QED
    BY <1>3, <2>2, LaterHasMore
<1>5. place \in Injection(S, 1..N)
  BY <1>3, <1>4 DEF Injection, IsInjective
<1>. HIDE DEF place, N
<1>6. place \in Surjection(S, 1..N)
  BY <1>2, <1>5, FS_Injection DEF N
<1>7. PICK r \in S : place[r] = n
  BY <1>6 DEF Surjection, N
<1>. QED
  BY <1>3, <1>7 DEF place

-----------------------------------------------------------------------------
(* Ranks                                                                   *)

\* Finitely many records, of which no two have the same rank.
Ranked(S) ==
  /\ IsFiniteSet(S)
  /\ \A r \in S : r.rank \in Int
  /\ \A q, r \in S : q.rank = r.rank => q = r

Below(S, r) == {q \in S : q.rank < r.rank}
ByRank(S) == {pair \in S \X S : pair[1].rank < pair[2].rank}

\* Ranks put records in order, and what precedes a record is below it.
LEMMA RanksOrder ==
  ASSUME NEW S, Ranked(S)
  PROVE  Orders(ByRank(S), S) /\ \A r \in S : Preceding(ByRank(S), S, r) = Below(S, r)
<1>1. \A q, r \in S : <<q, r>> \in ByRank(S) <=> q.rank < r.rank
  BY DEF ByRank
<1>. QED
  BY <1>1 DEF Orders, Ranked, Preceding, Below

\* Fewer records are below a record than there are.
LEMMA BelowCounts ==
  ASSUME NEW S, Ranked(S), NEW r \in S
  PROVE  IsFiniteSet(Below(S, r)) /\ Cardinality(Below(S, r)) + 1 \in 1..Cardinality(S)
  BY RanksOrder, PrecedingCounts

\* A record of higher rank has more below it.
LEMMA HigherHasMore ==
  ASSUME NEW S, Ranked(S), NEW q \in S, NEW r \in S, q.rank < r.rank
  PROVE  Cardinality(Below(S, q)) < Cardinality(Below(S, r))
<1>1. <<q, r>> \in ByRank(S)
  BY DEF ByRank
<1>. QED
  BY <1>1, RanksOrder, LaterHasMore

\* Every position is taken.
LEMMA PositionTaken ==
  ASSUME NEW S, Ranked(S), NEW n \in 1..Cardinality(S)
  PROVE  \E r \in S : Cardinality(Below(S, r)) = n - 1
  BY RanksOrder, PlaceTaken

\* The records of a set, each after those below it.
InOrder(S) ==
  [n \in 1..Cardinality(S) |-> CHOOSE r \in S : Cardinality(Below(S, r)) = n - 1]

\* The records in the order of their ranks are all records, and nothing else.
LEMMA AllInOrder ==
  ASSUME NEW S, Ranked(S)
  PROVE  /\ InOrder(S) \in Seq(S) /\ Len(InOrder(S)) = Cardinality(S)
         /\ \A r \in S : \E n \in 1..Len(InOrder(S)) : InOrder(S)[n] = r
<1>. DEFINE N == Cardinality(S)
            f == InOrder(S)
<1>1. N \in Nat
  BY FS_CardinalityType DEF Ranked
<1>2. \A n \in 1..N : f[n] \in S /\ Cardinality(Below(S, f[n])) = n - 1
  <2>1. SUFFICES ASSUME NEW n \in 1..N PROVE f[n] \in S /\ Cardinality(Below(S, f[n])) = n - 1
    OBVIOUS
  <2>2. f[n] = CHOOSE r \in S : Cardinality(Below(S, r)) = n - 1
    BY DEF InOrder
  <2>3. \E r \in S : Cardinality(Below(S, r)) = n - 1
    BY PositionTaken
  <2>. QED
    BY <2>2, <2>3
<1>3. f \in [1..N -> S]
  BY <1>2 DEF InOrder
<1>4. f \in Seq(S) /\ Len(f) = N
  BY <1>1, <1>3, IntervalIsSequence
<1>5. ASSUME NEW r \in S
      PROVE  \E n \in 1..N : f[n] = r
  <2>. DEFINE n == Cardinality(Below(S, r)) + 1
  <2>1. n \in 1..N /\ Cardinality(Below(S, r)) \in Nat
    BY BelowCounts, FS_CardinalityType
  <2>2. f[n] \in S /\ Cardinality(Below(S, f[n])) = Cardinality(Below(S, r))
    BY <1>2, <2>1
  <2>3. f[n] = r
    <3>1. CASE f[n].rank < r.rank
      BY <2>1, <2>2, <3>1, HigherHasMore
    <3>2. CASE r.rank < f[n].rank
      BY <2>1, <2>2, <3>2, HigherHasMore
    <3>. QED
      BY <2>2, <3>1, <3>2 DEF Ranked
  <2>. QED
    BY <2>1, <2>3
<1>. QED
  BY <1>4, <1>5

=============================================================================

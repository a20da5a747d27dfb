--------------------------- MODULE AlgorithmProofs --------------------------
(***************************************************************************)
(* What Resolution and Submissions promise, for every list of results a    *)
(* search may show, every threshold, and every limit and window.           *)
(***************************************************************************)
EXTENDS Resolution, Submissions, FiniteSetTheorems, SequenceTheorems,
        WellFoundedInduction, TLAPS

\* A set of natural numbers has a least one.
LEMMA Least ==
  ASSUME NEW S \in SUBSET Nat, S # {}
  PROVE  \E m \in S : \A n \in S : m <= n
<1>1. IsWellFoundedOn(OpToRel(<, Nat), Nat)
  BY NatLessThanWellFounded
<1>2. PICK m \in S : \A n \in S : ~ (<<n, m>> \in OpToRel(<, Nat))
  BY <1>1, WFMin
<1>3. \A n \in S : ~ (n < m)
  BY <1>2 DEF OpToRel
<1> QED
  BY <1>3

\* A set of natural numbers that holds 0 and every successor of its own holds all.
LEMMA Induct ==
  ASSUME NEW S \in SUBSET Nat, 0 \in S, \A n \in S : n + 1 \in S
  PROVE  S = Nat
<1>1. ASSUME NEW x \in Nat, x \notin S PROVE FALSE
  <2>1. PICK m \in Nat \ S : \A n \in Nat \ S : m <= n
    BY <1>1, Least
  <2>2. m # 0 /\ m - 1 \in Nat
    BY <2>1
  <2>3. m - 1 \in S
    BY <2>1, <2>2
  <2> QED
    BY <2>1, <2>3
<1> QED
  BY <1>1

-----------------------------------------------------------------------------
(* Resolution.                                                             *)

\* A score is a number of points between nought and a hundred.
LEMMA ScoreRange == ASSUME NEW c \in Candidate PROVE Score(c) \in 0 .. 100
<1>1. \A x, y \in Int : Max({x, y}) = (IF x >= y THEN x ELSE y)
  <2> SUFFICES ASSUME NEW x \in Int, NEW y \in Int
               PROVE  Max({x, y}) = (IF x >= y THEN x ELSE y)
    OBVIOUS
  <2>1. Max({x, y}) \in {x, y} /\ Max({x, y}) >= x /\ Max({x, y}) >= y
    BY DEF Max
  <2> QED
    BY <2>1
<1>2. \A x, y \in Int : Min({x, y}) = (IF x <= y THEN x ELSE y)
  <2> SUFFICES ASSUME NEW x \in Int, NEW y \in Int
               PROVE  Min({x, y}) = (IF x <= y THEN x ELSE y)
    OBVIOUS
  <2>1. Min({x, y}) \in {x, y} /\ Min({x, y}) <= x /\ Min({x, y}) <= y
    BY DEF Min
  <2> QED
    BY <2>1
<1>3. c.similarity \in Int /\ c.unrequested \in Int
  BY DEF Candidate
<1>4. ASSUME NEW q \in Int PROVE Max({0, Min({100, q})}) \in 0 .. 100
  <2>1. Min({100, q}) = (IF 100 <= q THEN 100 ELSE q) /\ Min({100, q}) \in Int
    BY <1>2
  <2>2. Max({0, Min({100, q})}) = (IF 0 >= Min({100, q}) THEN 0 ELSE Min({100, q}))
    BY <1>1, <2>1
  <2> QED
    BY <2>1, <2>2
<1>5. ASSUME NEW p \in Int, NEW b \in BOOLEAN PROVE Points(p, b) \in Int
  BY DEF Points
<1>6. Min({60, 25 * c.unrequested}) \in Int
  BY <1>2, <1>3
<1>7. /\ Points(10, c.version) \in Int /\ Points(10, c.official) \in Int
      /\ Points(5, c.duration = "near") \in Int /\ Points(10, c.duration = "far") \in Int
  BY DEF Points
<1> HIDE DEF Candidate
<1>8. c.similarity + Points(10, c.version) + Points(10, c.official)
        - Min({60, 25 * c.unrequested})
        + Points(5, c.duration = "near") - Points(10, c.duration = "far") \in Int
  BY <1>3, <1>6, <1>7
<1> QED
  BY <1>4, <1>8 DEF Score

\* Candidates told apart by their ids.
Distinct(C) == \A c, d \in C : c.id = d.id => c = d

InRank(s) == \A k, l \in DOMAIN s : k < l => Precedes(s[k], s[l])

\* Of such candidates, one comes before all others.
LEMMA BestExists ==
  ASSUME NEW C \in SUBSET Candidate, Distinct(C), C # {}
  PROVE  \E b \in C : \A c \in C \ {b} : Precedes(b, c)
<1> DEFINE short == { 100 - Score(c) : c \in C }
<1>1. \A c \in C : Score(c) \in 0 .. 100 /\ c.id \in Nat
  BY ScoreRange DEF Candidate
<1>2. short \in SUBSET Nat /\ short # {}
  BY <1>1
<1>3. PICK m \in short : \A n \in short : m <= n
  BY <1>2, Least
<1> DEFINE ids == { c.id : c \in { d \in C : 100 - Score(d) = m } }
<1>4. ids \in SUBSET Nat /\ ids # {}
  BY <1>1, <1>3
<1>5. PICK i \in ids : \A n \in ids : i <= n
  BY <1>4, Least
<1>6. PICK b \in C : 100 - Score(b) = m /\ b.id = i
  BY <1>5
<1>7. ASSUME NEW c \in C \ {b} PROVE Precedes(b, c)
  <2>1. m <= 100 - Score(c)
    BY <1>3
  <2>2. CASE 100 - Score(c) = m
    <3>1. i <= c.id /\ c.id # i
      BY <1>5, <1>6, <2>2 DEF Distinct
    <3> QED
      BY <1>1, <1>6, <2>2, <3>1 DEF Precedes
  <2>3. CASE 100 - Score(c) # m
    BY <1>1, <1>6, <2>1, <2>3 DEF Precedes
  <2> QED
    BY <2>2, <2>3
<1> QED
  BY <1>7

Rankable == { n \in Nat : \A C \in SUBSET Candidate :
                IsFiniteSet(C) /\ Cardinality(C) = n /\ Distinct(C) =>
                  \E s \in [1 .. n -> C] : Range(s) = C /\ InRank(s) }

\* Candidates told apart by their ids have a ranking, however many there are.
LEMMA RankingExists == Rankable = Nat
<1>1. 0 \in Rankable
  <2> SUFFICES ASSUME NEW C \in SUBSET Candidate, IsFiniteSet(C), Cardinality(C) = 0
               PROVE  \E s \in [1 .. 0 -> C] : Range(s) = C /\ InRank(s)
    BY DEF Rankable
  <2>1. C = {}
    BY FS_EmptySet
  <2>2. [k \in 1 .. 0 |-> k] \in [1 .. 0 -> C]
    OBVIOUS
  <2> QED
    BY <2>1, <2>2 DEF Range, InRank
<1>2. ASSUME NEW n \in Rankable PROVE n + 1 \in Rankable
  <2>0. n \in Nat
    BY DEF Rankable
  <2> SUFFICES ASSUME NEW C \in SUBSET Candidate, IsFiniteSet(C), Cardinality(C) = n + 1,
                      Distinct(C)
               PROVE  \E s \in [1 .. n + 1 -> C] : Range(s) = C /\ InRank(s)
    BY <2>0 DEF Rankable
  <2>1. C # {}
    BY <2>0, FS_EmptySet
  <2>2. PICK b \in C : \A c \in C \ {b} : Precedes(b, c)
    BY <2>1, BestExists
  <2>3. /\ IsFiniteSet(C \ {b}) /\ Cardinality(C \ {b}) = n
        /\ Distinct(C \ {b}) /\ C \ {b} \in SUBSET Candidate
    <3>1. /\ IsFiniteSet(C \ {b})
          /\ Cardinality(C \ {b}) = IF b \in C THEN Cardinality(C) - 1 ELSE Cardinality(C)
      BY FS_RemoveElement
    <3>2. Distinct(C \ {b}) /\ C \ {b} \in SUBSET Candidate
      BY DEF Distinct
    <3> QED
      BY <2>0, <3>1, <3>2
  <2>4. PICK s \in [1 .. n -> C \ {b}] : Range(s) = C \ {b} /\ InRank(s)
    BY <2>3 DEF Rankable
  <2> DEFINE t == [k \in 1 .. n + 1 |-> IF k = 1 THEN b ELSE s[k - 1]]
  <2>5. ASSUME NEW k \in 1 .. n + 1, k # 1 PROVE k - 1 \in 1 .. n /\ t[k] = s[k - 1]
    BY <2>0, <2>5
  <2>6. t \in [1 .. n + 1 -> C] /\ t[1] = b /\ 1 \in 1 .. n + 1
    BY <2>0, <2>5
  <2>7. Range(t) = C
    <3>1. ASSUME NEW c \in C \ {b} PROVE c \in Range(t)
      <4>1. PICK k \in 1 .. n : s[k] = c
        BY <2>4 DEF Range
      <4>2. k + 1 \in 1 .. n + 1 /\ k + 1 # 1 /\ (k + 1) - 1 = k
        BY <2>0
      <4>3. t[k + 1] = c
        BY <2>5, <4>1, <4>2
      <4> QED
        BY <2>6, <4>2, <4>3 DEF Range
    <3>2. b \in Range(t) /\ Range(t) \subseteq C
      BY <2>6 DEF Range
    <3> QED
      BY <3>1, <3>2
  <2>8. InRank(t)
    <3> SUFFICES ASSUME NEW k \in 1 .. n + 1, NEW l \in 1 .. n + 1, k < l
                 PROVE  Precedes(t[k], t[l])
      BY <2>6 DEF InRank
    <3>1. l # 1 /\ l - 1 \in 1 .. n /\ t[l] = s[l - 1]
      BY <2>0, <2>5
    <3>2. CASE k = 1
      BY <2>2, <2>4, <2>6, <3>1, <3>2
    <3>3. CASE k # 1
      <4>1. k - 1 \in 1 .. n /\ t[k] = s[k - 1] /\ k - 1 < l - 1
        BY <2>0, <2>5, <3>3
      <4> QED
        BY <2>4, <3>1, <4>1 DEF InRank
    <3> QED
      BY <3>2, <3>3
  <2> QED
    BY <2>6, <2>7, <2>8
<1> QED
  BY <1>1, <1>2, Induct DEF Rankable

\* What is kept of a search are as many different videos as the list is long, and a
\* search that is still read has room for one more.
ResolutionInv ==
  /\ searching \in BOOLEAN
  /\ candidates \in Seq(Candidate)
  /\ Distinct(Range(candidates))
  /\ IsFiniteSet(Range(candidates)) /\ Cardinality(Range(candidates)) = Len(candidates)
  /\ IsFiniteSet(Kept) /\ Cardinality(Kept) = Len(candidates)
  /\ Len(candidates) <= CandidateLimit
  /\ searching => Len(candidates) < CandidateLimit

\* A search starts with nothing.
LEMMA ResolutionStart == ResolutionInit => ResolutionInv
<1> SUFFICES ASSUME ResolutionInit PROVE ResolutionInv
  OBVIOUS
<1>1. candidates = <<>> /\ searching = TRUE /\ Range(candidates) = {} /\ Kept = {}
  BY DEF ResolutionInit, Range, Kept
<1>2. candidates \in Seq(Candidate) /\ Len(candidates) = 0
  BY <1>1
<1> QED
  BY <1>1, <1>2, FS_EmptySet, ResolutionAssumption DEF ResolutionInv, Distinct

\* One result read keeps it so.
LEMMA ResolutionRead ==
  ASSUME ResolutionInv, NEW r \in Results, ReadResult(r) PROVE ResolutionInv'
<1>1. Len(candidates) \in Nat /\ Len(candidates) < CandidateLimit /\ CandidateLimit \in Nat
  BY ResolutionAssumption DEF ResolutionInv, ReadResult
<1>2. searching' = (Len(candidates') < CandidateLimit)
  BY DEF ReadResult
<1>3. CASE r = Unusable \/ r.id \in Kept
  <2>1. candidates' = candidates
    BY <1>3 DEF ReadResult
  <2> QED
    BY <1>1, <1>2, <2>1 DEF ResolutionInv, Kept
<1>4. CASE r # Unusable /\ r.id \notin Kept
  <2>1. candidates' = Append(candidates, r) /\ r \in Candidate
    BY <1>4, ResolutionAssumption DEF ReadResult
  <2>2. candidates' \in Seq(Candidate) /\ Len(candidates') = Len(candidates) + 1
    BY <2>1 DEF ResolutionInv
  <2>3. Range(candidates') = Range(candidates) \union {r}
    <3>1. DOMAIN candidates = 1 .. Len(candidates)
          /\ DOMAIN candidates' = 1 .. Len(candidates) + 1
          /\ (\A k \in 1 .. Len(candidates) : candidates'[k] = candidates[k])
          /\ candidates'[Len(candidates) + 1] = r
      BY <2>1 DEF ResolutionInv
    <3>2. ASSUME NEW k \in 1 .. Len(candidates) + 1
          PROVE  k \in 1 .. Len(candidates) \/ k = Len(candidates) + 1
      BY <1>1
    <3>3. 1 .. Len(candidates) \subseteq 1 .. Len(candidates) + 1
          /\ Len(candidates) + 1 \in 1 .. Len(candidates) + 1
      BY <1>1
    <3> QED
      BY <3>1, <3>2, <3>3 DEF Range
  <2>4. Kept' = Kept \union {r.id}
    BY <2>3 DEF Kept
  <2>5. r \notin Range(candidates)
    BY <1>4 DEF Kept
  <2>6. Distinct(Range(candidates'))
    BY <1>4, <2>3 DEF ResolutionInv, Distinct, Kept
  <2>7. /\ IsFiniteSet(Range(candidates')) /\ Cardinality(Range(candidates')) = Len(candidates')
        /\ IsFiniteSet(Kept') /\ Cardinality(Kept') = Len(candidates')
    BY <1>4, <2>2, <2>3, <2>4, <2>5, FS_AddElement DEF ResolutionInv
  <2>8. Len(candidates') <= CandidateLimit
    BY <1>1, <2>2
  <2>9. searching' \in BOOLEAN /\ (searching' => Len(candidates') < CandidateLimit)
    <3>1. CASE Len(candidates') < CandidateLimit
      <4>1. (Len(candidates') < CandidateLimit) = TRUE
        BY <3>1
      <4>2. searching' = TRUE
        BY <1>2, <4>1, Zenon
      <4> QED
        BY <3>1, <4>2
    <3>2. CASE ~ (Len(candidates') < CandidateLimit)
      <4>1. (Len(candidates') < CandidateLimit) = FALSE
        BY <3>2
      <4>2. searching' = FALSE
        BY <1>2, <4>1, Zenon
      <4> QED
        BY <4>2
    <3> QED
      BY <3>1, <3>2
  <2> QED
    BY <2>2, <2>6, <2>7, <2>8, <2>9 DEF ResolutionInv
<1> QED
  BY <1>3, <1>4

\* The ranking is one of what was kept.
LEMMA RankedIsRanking ==
  ASSUME ResolutionInv
  PROVE  /\ Ranked \in [1 .. Len(candidates) -> Range(candidates)]
         /\ Range(Ranked) = Range(candidates) /\ InRank(Ranked)
<1>1. DOMAIN candidates = 1 .. Len(candidates) /\ Len(candidates) \in Nat
      /\ Range(candidates) \in SUBSET Candidate
  BY DEF ResolutionInv, Range
<1>2. \E s \in [1 .. Len(candidates) -> Range(candidates)] :
        Range(s) = Range(candidates) /\ InRank(s)
  BY <1>1, RankingExists DEF ResolutionInv, Rankable
<1> QED
  BY <1>1, <1>2 DEF Ranked, InRank

\* The decision selects what is clear, and nothing is found only where nothing is kept.
LEMMA DecisionIsClear ==
  ASSUME ResolutionInv
  PROVE  Decision.selected = Clear /\ (Decision.method = "not_found" <=> candidates = <<>>)
<1> DEFINE n == Len(candidates)
           C == Range(candidates)
<1>1. /\ n \in Nat /\ C \in SUBSET Candidate /\ candidates \in Seq(Candidate)
      /\ DOMAIN candidates = 1 .. n /\ Len(candidates) = n
  BY DEF ResolutionInv, Range
<1>2. Ranked \in [1 .. n -> C] /\ Range(Ranked) = C /\ InRank(Ranked)
  BY RankedIsRanking
<1>3. Ranked \in Seq(Candidate) /\ Len(Ranked) = n
  BY <1>1, <1>2
<1>4. \A c \in C : Score(c) \in 0 .. 100
  BY <1>1, ScoreRange
<1>5. MinimumScore \in 0 .. 100 /\ MinimumMargin \in 1 .. 100
  BY ResolutionAssumption
<1> HIDE DEF n, C
<1>6. CASE n = 0
  <2>1. candidates = <<>> /\ Ranked = <<>> /\ C = {}
    BY <1>1, <1>3, <1>6 DEF Range, C
  <2> QED
    BY <2>1 DEF Decision, NoCandidate, Clear, C
<1>7. CASE n > 0
  <2>1. candidates # <<>> /\ Ranked # <<>> /\ 1 \in 1 .. n /\ Ranked[1] \in C
    BY <1>1, <1>2, <1>3, <1>7
  <2>2. PICK best \in C : best = Ranked[1]
    BY <2>1
  <2>3. n > 1 => 2 \in 1 .. n /\ Ranked[2] \in C
    BY <1>1, <1>2
  <2>4. PICK runnerUp \in 0 .. 100 : runnerUp = IF n > 1 THEN Score(Ranked[2]) ELSE 0
    <3>1. CASE n > 1
      BY <1>4, <2>3, <3>1
    <3>2. CASE ~ (n > 1)
      BY <3>2
    <3> QED
      BY <3>1, <3>2
  <2> DEFINE automatic == /\ Score(best) >= MinimumScore
                          /\ Score(best) - runnerUp >= MinimumMargin
                          /\ ~Disqualified(best)
  <2>5. Decision = IF automatic THEN [method |-> "automatic", selected |-> {best}]
                                ELSE [method |-> "needs_review", selected |-> {}]
    BY <1>3, <2>1, <2>2, <2>4 DEF Decision
  <2>6. Score(best) \in 0 .. 100 /\ best.id \in Nat
    BY <1>1, <1>4 DEF Candidate
  <2>7. n > 1 => Ranked[2] \in C \ {best} /\ runnerUp = Score(Ranked[2])
    <3> SUFFICES ASSUME n > 1 PROVE Ranked[2] # best
      BY <2>3, <2>4
    <3>1. Precedes(best, Ranked[2])
      BY <1>1, <1>2, <2>1, <2>2, <2>3 DEF InRank
    <3> SUFFICES ASSUME Precedes(best, best) PROVE FALSE
      BY <3>1
    <3> QED
      BY <2>6 DEF Precedes
  <2>8. ASSUME NEW c \in C, c # best
        PROVE  Score(c) <= runnerUp /\ runnerUp <= Score(best)
    <3>1. PICK k \in 1 .. n : Ranked[k] = c
      BY <1>2 DEF Range
    <3>2. n > 1 /\ 2 \in 1 .. n /\ (k = 2 \/ 2 < k)
      BY <1>1, <2>2, <2>8, <3>1
    <3>3. Precedes(best, Ranked[2])
      BY <1>2, <2>1, <2>2, <3>2 DEF InRank
    <3>4. c = Ranked[2] \/ Precedes(Ranked[2], c)
      BY <1>2, <3>1, <3>2 DEF InRank
    <3>5. PICK second \in C : second = Ranked[2] /\ runnerUp = Score(second)
      BY <2>7, <3>2
    <3>6. Score(second) \in 0 .. 100 /\ Score(c) \in 0 .. 100
      BY <1>4
    <3>7. Score(best) > Score(second) \/ Score(best) = Score(second)
      BY <3>3, <3>5 DEF Precedes
    <3>8. c = second \/ Score(second) > Score(c) \/ Score(second) = Score(c)
      BY <3>4, <3>5 DEF Precedes
    <3> QED
      BY <2>6, <3>5, <3>6, <3>7, <3>8
  <2>9. ASSUME NEW c \in Clear PROVE c = best /\ automatic
    <3>1. /\ c \in C /\ Score(c) >= MinimumScore /\ Score(c) >= MinimumMargin /\ ~Disqualified(c)
          /\ \A d \in C \ {c} : Score(c) - Score(d) >= MinimumMargin
      BY DEF Clear, C
    <3>2. c = best
      <4> SUFFICES ASSUME c # best PROVE FALSE
        OBVIOUS
      <4>1. Score(c) <= runnerUp /\ runnerUp <= Score(best)
        BY <2>8, <3>1
      <4>2. Score(c) - Score(best) >= MinimumMargin /\ Score(c) \in 0 .. 100
        BY <1>4, <3>1
      <4> QED
        BY <1>5, <2>6, <4>1, <4>2
    <3>3. Score(best) - runnerUp >= MinimumMargin
      <4>1. CASE n > 1
        BY <2>7, <3>1, <3>2, <4>1
      <4>2. CASE ~ (n > 1)
        <5>1. runnerUp = 0 /\ Score(best) >= MinimumMargin
          BY <2>4, <3>1, <3>2, <4>2
        <5> QED
          BY <1>5, <2>6, <5>1
      <4> QED
        BY <4>1, <4>2
    <3> QED
      BY <3>1, <3>2, <3>3
  <2>10. ASSUME automatic PROVE best \in Clear
    <3>1. Score(best) - runnerUp >= MinimumMargin
      BY <2>10
    <3>2. Score(best) >= MinimumMargin
      BY <1>5, <2>6, <3>1
    <3>3. ASSUME NEW d \in C \ {best} PROVE Score(best) - Score(d) >= MinimumMargin
      <4>1. Score(d) <= runnerUp /\ Score(d) \in 0 .. 100
        BY <1>4, <2>8
      <4> QED
        BY <1>5, <2>6, <3>1, <4>1
    <3> QED
      BY <2>10, <3>2, <3>3 DEF Clear, C
  <2> HIDE DEF automatic
  <2>11. Decision.selected = Clear /\ Decision.method # "not_found"
    <3>1. CASE automatic
      BY <2>5, <2>9, <2>10, <3>1
    <3>2. CASE ~automatic
      BY <2>5, <2>9, <3>2
    <3> QED
      BY <3>1, <3>2
  <2> QED
    BY <2>1, <2>11
<1> QED
  BY <1>1, <1>6, <1>7

\* A video is selected without asking exactly when it is the one clear candidate, for
\* every list a search may show and every limit and threshold.
THEOREM SelectionHolds == ResolutionSpec => []SelectionIsClear
<1>1. ResolutionInv /\ [ResolutionNext]_resolutionVars => ResolutionInv'
  <2> SUFFICES ASSUME ResolutionInv, [ResolutionNext]_resolutionVars PROVE ResolutionInv'
    OBVIOUS
  <2>1. CASE EndOfResults
    BY <2>1 DEF EndOfResults, ResolutionInv, Kept
  <2>2. ASSUME NEW r \in Results, ReadResult(r) PROVE ResolutionInv'
    BY <2>2, ResolutionRead
  <2>3. CASE UNCHANGED resolutionVars
    BY <2>3 DEF resolutionVars, ResolutionInv, Kept
  <2> QED
    BY <2>1, <2>2, <2>3 DEF ResolutionNext
<1>2. ResolutionInv => SelectionIsClear
  BY DecisionIsClear DEF ResolutionInv, SelectionIsClear
<1> QED
  BY ResolutionStart, <1>1, <1>2, PTL DEF ResolutionSpec
-----------------------------------------------------------------------------
(* Submissions.                                                            *)

\* A list is what is left of a longer one without its first entries.
Rest(list, whole, n) ==
  /\ n \in 0 .. Len(whole)
  /\ Len(list) = Len(whole) - n
  /\ \A k \in 1 .. Len(list) : list[k] = whole[n + k]

\* Dropping from the front stops at the first entry that is later.
LEMMA Dropped ==
  ASSUME NEW times \in Seq(Nat), NEW cutoff \in Int
  PROVE  /\ DropUpTo(times, cutoff) \in Seq(Nat)
         /\ \E n \in 0 .. Len(times) :
              /\ \A k \in 1 .. n : times[k] <= cutoff
              /\ n < Len(times) => times[n + 1] > cutoff
              /\ Rest(DropUpTo(times, cutoff), times, n)
<1> DEFINE Late == { n \in 0 .. Len(times) : n < Len(times) => times[n + 1] > cutoff }
           Stop(n) == /\ \A k \in 1 .. n : times[k] <= cutoff
                      /\ n < Len(times) => times[n + 1] > cutoff
<1>1. Len(times) \in Nat /\ \A k \in 1 .. Len(times) : times[k] \in Nat
  OBVIOUS
<1>2. PICK n \in Late : \A m \in Late : n <= m
  <2>1. Late \in SUBSET Nat /\ Len(times) \in Late
    BY <1>1
  <2> QED
    BY <2>1, Least
<1>3. ASSUME NEW k \in 1 .. n PROVE times[k] <= cutoff
  <2>1. k - 1 \in 0 .. Len(times) /\ k - 1 < Len(times) /\ ~ (n <= k - 1) /\ (k - 1) + 1 = k
    BY <1>1, <1>2
  <2>2. k - 1 \notin Late
    BY <1>2, <2>1
  <2>3. ~ (times[(k - 1) + 1] > cutoff)
    BY <2>1, <2>2
  <2>4. times[k] \in Nat
    BY <1>1, <2>1
  <2> QED
    BY <2>1, <2>3, <2>4
<1>4. n \in 0 .. Len(times) /\ Stop(n)
  BY <1>2, <1>3
<1> DEFINE dropped == CHOOSE m \in 0 .. Len(times) : Stop(m)
<1>5. dropped \in 0 .. Len(times) /\ Stop(dropped)
  BY <1>4
<1>6. DropUpTo(times, cutoff) = SubSeq(times, dropped + 1, Len(times))
  BY DEF DropUpTo
<1> HIDE DEF dropped
<1> DEFINE left == SubSeq(times, dropped + 1, Len(times))
<1>7. left \in Seq(Nat) /\ Rest(left, times, dropped)
  <2>1. CASE dropped = Len(times)
    <3>1. left = <<>>
      BY <1>1, <2>1
    <3> QED
      BY <1>1, <1>5, <2>1, <3>1 DEF Rest
  <2>2. CASE dropped < Len(times)
    <3>1. /\ dropped + 1 \in 1 .. Len(times) + 1 /\ Len(times) \in dropped .. Len(times)
          /\ dropped \in Nat
      BY <1>1, <1>5, <2>2
    <3>2. /\ left \in Seq(Nat)
          /\ Len(left) = Len(times) - dropped
          /\ \A k \in 1 .. Len(times) - dropped : left[k] = times[dropped + k]
      BY <1>1, <3>1, <2>2
    <3> QED
      BY <1>5, <3>2 DEF Rest
  <2> QED
    BY <1>1, <1>5, <2>1, <2>2
<1> QED
  BY <1>5, <1>6, <1>7

\* The limiter remembers a suffix of what it admitted, and what it forgot lies before
\* the window; that a window never holds more than the limit is known of the windows
\* that have ended and of the one that ends now.
InOrder(i) ==
  /\ \A k \in 1 .. Len(admitted[i]) : admitted[i][k] <= now
  /\ \A k, l \in 1 .. Len(admitted[i]) : k <= l => admitted[i][k] <= admitted[i][l]

Forgot(i, n) ==
  /\ Rest(events[i], admitted[i], n)
  /\ \A k \in 1 .. n : admitted[i][k] <= now - WindowSeconds

IdentityInv(i) ==
  /\ InOrder(i)
  /\ \E n \in 0 .. Len(admitted[i]) : Forgot(i, n)
  /\ refused[i] \subseteq 0 .. now
  /\ \A t \in 0 .. now : InWindow(i, t) <= Limit
  /\ \A t \in refused[i] : InWindow(i, t) = Limit

LimiterInv ==
  /\ now \in Nat
  /\ admitted \in [Identities -> Seq(Nat)] /\ events \in [Identities -> Seq(Nat)]
  /\ refused \in [Identities -> SUBSET Nat]
  /\ \A i \in Identities : IdentityInv(i)

Window(i, t) ==
  { k \in DOMAIN admitted[i] : t - WindowSeconds < admitted[i][k] /\ admitted[i][k] <= t }

LEMMA WindowFinite ==
  ASSUME LimiterInv, NEW i \in Identities, NEW t
  PROVE  IsFiniteSet(Window(i, t)) /\ InWindow(i, t) = Cardinality(Window(i, t))
<1>1. Window(i, t) \subseteq 1 .. Len(admitted[i]) /\ Len(admitted[i]) \in Nat
  BY DEF LimiterInv, Window
<1> QED
  BY <1>1, FS_Interval, FS_Subset DEF InWindow, Window

\* What is recalled are the submissions of the window that ends now.
LEMMA Recalled ==
  ASSUME LimiterInv, NEW i \in Identities
  PROVE  /\ Recall(events[i]) \in Seq(Nat)
         /\ \E n \in 0 .. Len(admitted[i]) :
              /\ Rest(Recall(events[i]), admitted[i], n)
              /\ \A k \in 1 .. n : admitted[i][k] <= now - WindowSeconds
              /\ Window(i, now) = n + 1 .. Len(admitted[i])
              /\ InWindow(i, now) = Len(admitted[i]) - n
<1> DEFINE a == admitted[i]
           e == events[i]
           r == Recall(events[i])
           cutoff == now - WindowSeconds
<1>1. /\ a \in Seq(Nat) /\ e \in Seq(Nat) /\ cutoff \in Int /\ now \in Nat
      /\ Len(a) \in Nat /\ DOMAIN a = 1 .. Len(a) /\ Len(e) \in Nat
  BY LimiterAssumption DEF LimiterInv
<1>2. /\ \A k \in 1 .. Len(a) : a[k] \in Nat /\ a[k] <= now
      /\ \A k, l \in 1 .. Len(a) : k <= l => a[k] <= a[l]
  <2>1. InOrder(i)
    BY DEF LimiterInv, IdentityInv
  <2> QED
    BY <1>1, <2>1 DEF InOrder
<1>3. PICK n \in 0 .. Len(a) : Forgot(i, n)
  BY DEF LimiterInv, IdentityInv
<1>4. Rest(e, a, n) /\ \A k \in 1 .. n : a[k] <= cutoff
  BY <1>3 DEF Forgot
<1>5. r = DropUpTo(e, cutoff)
  BY DEF Recall
<1>6. /\ r \in Seq(Nat)
      /\ \E m \in 0 .. Len(e) :
           /\ \A k \in 1 .. m : e[k] <= cutoff
           /\ m < Len(e) => e[m + 1] > cutoff
           /\ Rest(r, e, m)
  BY <1>1, <1>5, Dropped
<1>7. PICK m \in 0 .. Len(e) :
        /\ \A k \in 1 .. m : e[k] <= cutoff
        /\ m < Len(e) => e[m + 1] > cutoff
        /\ Rest(r, e, m)
  BY <1>6
<1>8. WindowSeconds \in Nat /\ Recall(events[i]) = r /\ admitted[i] = a
  BY LimiterAssumption
<1>20. Window(i, now) = { k \in 1 .. Len(a) : cutoff < a[k] /\ a[k] <= now }
  BY <1>1 DEF Window
<1>21. InWindow(i, now) = Cardinality(Window(i, now))
  BY WindowFinite
<1> HIDE DEF a, e, r, cutoff
<1>9. n \in Nat /\ m \in Nat /\ Len(e) = Len(a) - n /\ n + m \in 0 .. Len(a)
  BY <1>1, <1>3, <1>4, <1>7 DEF Rest
<1>10. \A k \in 1 .. Len(e) : e[k] = a[n + k]
  BY <1>4 DEF Rest
<1>11. Rest(r, a, n + m)
  <2>1. Len(r) = Len(e) - m /\ \A k \in 1 .. Len(r) : r[k] = e[m + k]
    BY <1>7 DEF Rest
  <2>2. ASSUME NEW k \in 1 .. Len(r) PROVE r[k] = a[(n + m) + k]
    <3>1. m + k \in 1 .. Len(e) /\ n + (m + k) = (n + m) + k
      BY <1>1, <1>9, <2>1
    <3> QED
      BY <1>10, <2>1, <3>1
  <2>3. Len(r) = Len(a) - (n + m)
    BY <1>1, <1>9, <2>1
  <2> QED
    BY <1>9, <2>2, <2>3 DEF Rest
<1>12. ASSUME NEW k \in 1 .. n + m PROVE a[k] <= cutoff
  <2>1. CASE k <= n
    BY <1>4, <1>9, <2>1
  <2>2. CASE k > n
    <3>1. k - n \in 1 .. m /\ k - n \in 1 .. Len(e) /\ n + (k - n) = k
      BY <1>1, <1>7, <1>9, <2>2
    <3>2. e[k - n] = a[k] /\ e[k - n] <= cutoff
      BY <1>7, <1>10, <3>1
    <3> QED
      BY <3>2
  <2> QED
    BY <1>9, <2>1, <2>2
<1>13. ASSUME NEW k \in (n + m) + 1 .. Len(a) PROVE cutoff < a[k]
  <2>1. /\ m < Len(e) /\ m + 1 \in 1 .. Len(e) /\ n + (m + 1) = (n + m) + 1
        /\ (n + m) + 1 \in 1 .. Len(a) /\ k \in 1 .. Len(a) /\ (n + m) + 1 <= k
    BY <1>1, <1>7, <1>9
  <2>2. e[m + 1] = a[(n + m) + 1] /\ e[m + 1] > cutoff
    BY <1>7, <1>10, <2>1
  <2>3. a[(n + m) + 1] <= a[k] /\ a[(n + m) + 1] \in Nat /\ a[k] \in Nat
    BY <1>2, <2>1
  <2> QED
    BY <1>1, <2>2, <2>3
<1>14. Window(i, now) = (n + m) + 1 .. Len(a)
  <2>1. ASSUME NEW k \in 1 .. Len(a)
        PROVE  (cutoff < a[k] /\ a[k] <= now) <=> k \in (n + m) + 1 .. Len(a)
    <3>1. a[k] \in Nat /\ a[k] <= now
      BY <1>2
    <3>2. CASE k \in 1 .. n + m
      <4>1. a[k] <= cutoff
        BY <1>12, <3>2
      <4>2. ~ (cutoff < a[k]) /\ k \notin (n + m) + 1 .. Len(a)
        BY <1>1, <1>9, <3>1, <3>2, <4>1
      <4> QED
        BY <4>2
    <3>3. CASE k \in (n + m) + 1 .. Len(a)
      BY <1>13, <3>1, <3>3
    <3> QED
      BY <1>1, <1>9, <3>2, <3>3
  <2>2. (n + m) + 1 .. Len(a) \subseteq 1 .. Len(a)
    BY <1>1, <1>9
  <2> QED
    BY <1>20, <2>1, <2>2
<1>15. InWindow(i, now) = Len(a) - (n + m)
  <2>1. (n + m) + 1 \in Int /\ Len(a) \in Int
    BY <1>1, <1>9
  <2>2. Cardinality((n + m) + 1 .. Len(a)) =
          IF (n + m) + 1 > Len(a) THEN 0 ELSE Len(a) - ((n + m) + 1) + 1
    BY <2>1, FS_Interval
  <2> QED
    BY <1>1, <1>9, <1>14, <1>21, <2>2
<1> QED
  BY <1>6, <1>8, <1>9, <1>11, <1>12, <1>14, <1>15 DEF cutoff

LEMMA LimiterTick == LimiterInv /\ Tick => LimiterInv'
<1> SUFFICES ASSUME LimiterInv, Tick PROVE LimiterInv'
  OBVIOUS
<1>1. now' = now + 1 /\ now \in Nat /\ UNCHANGED <<events, admitted, refused>>
  BY DEF Tick, LimiterInv
<1>2. ASSUME NEW i \in Identities PROVE IdentityInv(i)'
  <2>1. /\ admitted[i] \in Seq(Nat) /\ IdentityInv(i)
        /\ \A k \in DOMAIN admitted[i] : admitted[i][k] \in Nat
    BY DEF LimiterInv
  <2>2. \A t : InWindow(i, t)' = InWindow(i, t)
    BY <1>1 DEF InWindow
  <2>3. InWindow(i, now + 1) <= Limit
    <3>1. Window(i, now + 1) \subseteq Window(i, now)
      <4>1. \A k \in DOMAIN admitted[i] : admitted[i][k] \in Nat /\ admitted[i][k] <= now
        BY <2>1 DEF IdentityInv, InOrder
      <4> QED
        BY <1>1, <4>1, LimiterAssumption DEF Window
    <3>2. InWindow(i, now + 1) <= InWindow(i, now)
      BY <3>1, WindowFinite, FS_Subset
    <3>3. InWindow(i, now) <= Limit /\ InWindow(i, now) \in Nat /\ InWindow(i, now + 1) \in Nat
      BY <1>1, <2>1, WindowFinite, FS_CardinalityType DEF IdentityInv
    <3> QED
      BY <3>2, <3>3, LimiterAssumption
  <2>4. \A t \in 0 .. now + 1 : InWindow(i, t) <= Limit
    BY <1>1, <2>1, <2>3 DEF IdentityInv
  <2>5. PICK n \in 0 .. Len(admitted[i]) :
          Rest(events[i], admitted[i], n) /\ \A k \in 1 .. n : admitted[i][k] <= now - WindowSeconds
    BY <2>1 DEF IdentityInv, Forgot
  <2>6. Forgot(i, n)'
    <3>1. ASSUME NEW k \in 1 .. n PROVE admitted[i][k] <= (now + 1) - WindowSeconds
      <4>1. k \in DOMAIN admitted[i] /\ admitted[i][k] \in Nat
        BY <2>1
      <4> QED
        BY <1>1, <2>5, <4>1, LimiterAssumption
    <3> QED
      BY <1>1, <2>5, <3>1 DEF Forgot, Rest
  <2>8. (\E m \in 0 .. Len(admitted[i]) : Forgot(i, m))'
    BY <1>1, <2>6
  <2>7. InOrder(i)'
    <3>1. InOrder(i)
      BY <2>1 DEF IdentityInv
    <3>2. ASSUME NEW k \in 1 .. Len(admitted[i]) PROVE admitted[i][k] <= now + 1
      <4>1. admitted[i][k] \in Nat /\ admitted[i][k] <= now
        BY <2>1, <3>1 DEF InOrder
      <4> QED
        BY <1>1, <4>1
    <3> QED
      BY <1>1, <3>1, <3>2 DEF InOrder
  <2>9. refused[i] \subseteq 0 .. now + 1 /\ \A t \in refused[i] : InWindow(i, t) = Limit
    BY <1>1, <2>1 DEF IdentityInv
  <2> QED
    BY <1>1, <2>2, <2>4, <2>7, <2>8, <2>9 DEF IdentityInv
<1> QED
  BY <1>1, <1>2 DEF LimiterInv

\* A refusal: the window that ends now is full.
LEMMA LimiterRefuse ==
  ASSUME LimiterInv, NEW i \in Identities, Submit(i), Len(Recall(events[i])) >= Limit
  PROVE  IdentityInv(i)' /\ events'[i] \in Seq(Nat) /\ refused'[i] \in SUBSET Nat
<1> DEFINE r == Recall(events[i])
           a == admitted[i]
<1>1. /\ events' = [events EXCEPT ![i] = r]
      /\ refused' = [refused EXCEPT ![i] = @ \union {now}]
      /\ now' = now /\ admitted' = admitted
  BY DEF Submit
<1>2. events'[i] = r /\ refused'[i] = refused[i] \union {now} /\ now \in Nat /\ a \in Seq(Nat)
      /\ refused[i] \in SUBSET Nat
  BY <1>1 DEF LimiterInv
<1>3. IdentityInv(i)
  BY DEF LimiterInv
<1>4. r \in Seq(Nat)
  BY Recalled
<1>5. PICK n \in 0 .. Len(a) :
        /\ Rest(r, a, n)
        /\ \A k \in 1 .. n : a[k] <= now - WindowSeconds
        /\ InWindow(i, now) = Len(a) - n
  BY Recalled
<1>6. Forgot(i, n)'
  BY <1>1, <1>2, <1>5 DEF Forgot, Rest
<1>7. InWindow(i, now) = Limit
  <2>1. InWindow(i, now) = Len(r) /\ Len(r) >= Limit /\ Len(r) \in Nat
    BY <1>4, <1>5 DEF Rest
  <2>2. InWindow(i, now) <= Limit
    BY <1>2, <1>3 DEF IdentityInv
  <2> QED
    BY <2>1, <2>2, LimiterAssumption
<1>8. \A t : InWindow(i, t)' = InWindow(i, t)
  BY <1>1 DEF InWindow
<1>9. InOrder(i)'
  BY <1>1, <1>3 DEF IdentityInv, InOrder
<1>10. (\E m \in 0 .. Len(admitted[i]) : Forgot(i, m))'
  BY <1>1, <1>6
<1>11. /\ refused'[i] \subseteq 0 .. now'
       /\ \A t \in 0 .. now' : InWindow(i, t)' <= Limit
       /\ \A t \in refused'[i] : InWindow(i, t)' = Limit
  BY <1>1, <1>2, <1>3, <1>7, <1>8 DEF IdentityInv
<1> QED
  BY <1>2, <1>4, <1>9, <1>10, <1>11 DEF IdentityInv

\* An admission: the window that ends now has room, and no other window sees it.
LEMMA LimiterAdmit ==
  ASSUME LimiterInv, NEW i \in Identities, Submit(i), ~ (Len(Recall(events[i])) >= Limit)
  PROVE  IdentityInv(i)' /\ events'[i] \in Seq(Nat) /\ admitted'[i] \in Seq(Nat)
<1> DEFINE r == Recall(events[i])
           a == admitted[i]
           b == Append(a, now)
<1>1. /\ events' = [events EXCEPT ![i] = Append(r, now)]
      /\ admitted' = [admitted EXCEPT ![i] = Append(@, now)]
      /\ now' = now /\ refused' = refused
  BY DEF Submit
<1>2. /\ events'[i] = Append(r, now) /\ admitted'[i] = b
      /\ now \in Nat /\ a \in Seq(Nat) /\ Len(a) \in Nat
  BY <1>1 DEF LimiterInv
<1>3. IdentityInv(i)
  BY DEF LimiterInv
<1>4. r \in Seq(Nat) /\ Len(r) \in Nat
  BY Recalled
<1>5. PICK n \in 0 .. Len(a) :
        /\ Rest(r, a, n)
        /\ \A k \in 1 .. n : a[k] <= now - WindowSeconds
        /\ Window(i, now) = n + 1 .. Len(a)
        /\ InWindow(i, now) = Len(a) - n
  BY Recalled
<1>6. /\ b \in Seq(Nat) /\ Len(b) = Len(a) + 1
      /\ \A k \in 1 .. Len(a) : b[k] = a[k]
      /\ b[Len(a) + 1] = now
  BY <1>2
<1>7. /\ Append(r, now) \in Seq(Nat) /\ Len(Append(r, now)) = Len(r) + 1
      /\ \A k \in 1 .. Len(r) : Append(r, now)[k] = r[k]
      /\ Append(r, now)[Len(r) + 1] = now
  BY <1>2, <1>4
<1>8. \A k \in 1 .. Len(a) : a[k] \in Nat
  BY <1>2
<1>9. Len(r) = Len(a) - n /\ \A k \in 1 .. Len(r) : r[k] = a[n + k]
  BY <1>5 DEF Rest
<1>10. Forgot(i, n)'
  <2>1. Rest(Append(r, now), b, n)
    <3>1. ASSUME NEW k \in 1 .. Len(r) + 1 PROVE Append(r, now)[k] = b[n + k]
      <4>1. CASE k \in 1 .. Len(r)
        <5>1. n + k \in 1 .. Len(a)
          BY <1>2, <1>4, <1>9, <4>1
        <5> QED
          BY <1>6, <1>7, <1>9, <4>1, <5>1
      <4>2. CASE k = Len(r) + 1
        <5>1. n + k = Len(a) + 1
          BY <1>2, <1>4, <1>9, <4>2
        <5> QED
          BY <1>6, <1>7, <4>2, <5>1
      <4>3. k \in 1 .. Len(r) \/ k = Len(r) + 1
        BY <1>4
      <4> QED
        BY <4>1, <4>2, <4>3
    <3>2. n \in 0 .. Len(b) /\ Len(Append(r, now)) = Len(b) - n
      BY <1>2, <1>4, <1>6, <1>7, <1>9
    <3> QED
      BY <1>7, <3>1, <3>2 DEF Rest
  <2>2. \A k \in 1 .. n : b[k] <= now - WindowSeconds
    <3>1. ASSUME NEW k \in 1 .. n PROVE b[k] <= now - WindowSeconds
      <4>1. k \in 1 .. Len(a)
        BY <1>2
      <4> QED
        BY <1>5, <1>6, <4>1
    <3> QED
      BY <3>1
  <2> QED
    BY <1>1, <1>2, <2>1, <2>2 DEF Forgot
<1>11. n \in 0 .. Len(b)
  BY <1>2, <1>6
<1>12. \A t : InWindow(i, t)' =
              Cardinality({ k \in 1 .. Len(b) : t - WindowSeconds < b[k] /\ b[k] <= t })
  <2>1. DOMAIN b = 1 .. Len(b)
    BY <1>6
  <2> QED
    BY <1>1, <1>2, <2>1 DEF InWindow
<1>13. \A t : InWindow(i, t) =
              Cardinality({ k \in 1 .. Len(a) : t - WindowSeconds < a[k] /\ a[k] <= t })
  <2>1. DOMAIN a = 1 .. Len(a)
    BY <1>2
  <2> QED
    BY <2>1 DEF InWindow
<1>14. WindowSeconds \in Nat /\ WindowSeconds > 0 /\ Limit \in Nat
  BY LimiterAssumption
<1>15. ASSUME NEW t \in 0 .. now, t < now PROVE InWindow(i, t)' = InWindow(i, t)
  <2>1. ASSUME NEW k \in 1 .. Len(b)
        PROVE  (t - WindowSeconds < b[k] /\ b[k] <= t)
               <=> k \in 1 .. Len(a) /\ t - WindowSeconds < a[k] /\ a[k] <= t
    <3>1. k \in 1 .. Len(a) \/ (k = Len(a) + 1 /\ k \notin 1 .. Len(a) /\ ~ (now <= t))
      BY <1>2, <1>6, <1>15
    <3> QED
      BY <1>6, <3>1
  <2>2. 1 .. Len(a) \subseteq 1 .. Len(b)
    BY <1>2, <1>6
  <2>3. { k \in 1 .. Len(b) : t - WindowSeconds < b[k] /\ b[k] <= t } =
        { k \in 1 .. Len(a) : t - WindowSeconds < a[k] /\ a[k] <= t }
    BY <2>1, <2>2
  <2> QED
    BY <1>12, <1>13, <2>3
<1>16. ASSUME NEW t, t = now PROVE InWindow(i, t)' = InWindow(i, now) + 1
  <2>1. { k \in 1 .. Len(a) : now - WindowSeconds < a[k] /\ a[k] <= now } = n + 1 .. Len(a)
    BY <1>2, <1>5 DEF Window
  <2>2. { k \in 1 .. Len(b) : now - WindowSeconds < b[k] /\ b[k] <= now } = n + 1 .. Len(a) + 1
    <3>1. ASSUME NEW k \in 1 .. Len(b)
          PROVE  (now - WindowSeconds < b[k] /\ b[k] <= now) <=> k \in n + 1 .. Len(a) + 1
      <4>1. CASE k \in 1 .. Len(a)
        <5>1. (now - WindowSeconds < a[k] /\ a[k] <= now) <=> k \in n + 1 .. Len(a)
          BY <2>1, <4>1
        <5>2. k \in n + 1 .. Len(a) <=> k \in n + 1 .. Len(a) + 1
          BY <1>2, <4>1
        <5> QED
          BY <1>6, <4>1, <5>1, <5>2
      <4>2. CASE k = Len(a) + 1
        <5>1. now - WindowSeconds < now /\ now <= now /\ k \in n + 1 .. Len(a) + 1
          BY <1>2, <1>14, <4>2
        <5> QED
          BY <1>6, <4>2, <5>1
      <4> QED
        BY <1>2, <1>6, <4>1, <4>2
    <3>2. n + 1 .. Len(a) + 1 \subseteq 1 .. Len(b)
      BY <1>2, <1>6
    <3> QED
      BY <3>1, <3>2
  <2>3. Cardinality(n + 1 .. Len(a) + 1) = (Len(a) + 1) - n
    <3>1. n + 1 \in Int /\ Len(a) + 1 \in Int /\ n + 1 <= Len(a) + 1
      BY <1>2
    <3>2. Cardinality(n + 1 .. Len(a) + 1) =
            IF n + 1 > Len(a) + 1 THEN 0 ELSE (Len(a) + 1) - (n + 1) + 1
      BY <3>1, FS_Interval
    <3> QED
      BY <1>2, <3>1, <3>2
  <2> QED
    <3>1. InWindow(i, t)' = Cardinality(n + 1 .. Len(a) + 1)
      BY <1>12, <1>16, <2>2
    <3>2. Len(a) \in Int /\ n \in Int
      BY <1>2
    <3> QED
      BY <1>5, <2>3, <3>1, <3>2
<1>17. InWindow(i, now) + 1 <= Limit
  BY <1>2, <1>4, <1>5, <1>9, <1>14
<1>18. ASSUME NEW t \in 0 .. now PROVE InWindow(i, t)' <= Limit
  <2>1. CASE t < now
    BY <1>3, <1>15, <2>1 DEF IdentityInv
  <2>2. CASE t = now
    BY <1>16, <1>17, <2>2
  <2> QED
    BY <1>2, <2>1, <2>2
<1>19. ASSUME NEW t \in refused[i] PROVE InWindow(i, t)' = Limit
  <2>1. InWindow(i, t) = Limit /\ t \in 0 .. now
    BY <1>3 DEF IdentityInv
  <2>2. t # now
    BY <1>2, <1>5, <1>14, <1>17, <2>1
  <2> QED
    BY <1>2, <1>15, <2>1, <2>2
<1>20. InOrder(i)'
  <2>1. InOrder(i)
    BY <1>3 DEF IdentityInv
  <2>2. ASSUME NEW k \in 1 .. Len(b) PROVE b[k] \in Nat /\ b[k] <= now
    <3>1. k \in 1 .. Len(a) \/ k = Len(a) + 1
      BY <1>2, <1>6
    <3> QED
      BY <1>2, <1>6, <1>8, <2>1, <3>1 DEF InOrder
  <2>3. ASSUME NEW k \in 1 .. Len(b), NEW l \in 1 .. Len(b), k <= l PROVE b[k] <= b[l]
    <3>1. CASE l = Len(a) + 1
      BY <1>6, <2>2, <3>1
    <3>2. CASE l \in 1 .. Len(a)
      <4>1. k \in 1 .. Len(a)
        BY <1>2, <2>3, <3>2
      <4> QED
        BY <1>6, <2>1, <2>3, <3>2, <4>1 DEF InOrder
    <3> QED
      BY <1>2, <1>6, <3>1, <3>2
  <2> QED
    BY <1>1, <1>2, <2>2, <2>3 DEF InOrder
<1>21. (\E m \in 0 .. Len(admitted[i]) : Forgot(i, m))'
  BY <1>1, <1>2, <1>10, <1>11
<1>22. refused'[i] \subseteq 0 .. now'
  BY <1>1, <1>3 DEF IdentityInv
<1> QED
  BY <1>1, <1>2, <1>6, <1>7, <1>18, <1>19, <1>20, <1>21, <1>22 DEF IdentityInv

\* A submission leaves the other identities alone.
LEMMA LimiterSubmit ==
  ASSUME LimiterInv, NEW i \in Identities, Submit(i) PROVE LimiterInv'
<1>1. now' = now /\ now \in Nat
  BY DEF Submit, LimiterInv
<1>2. ASSUME NEW j \in Identities, j # i
      PROVE  events'[j] = events[j] /\ admitted'[j] = admitted[j] /\ refused'[j] = refused[j]
  BY <1>2 DEF Submit, LimiterInv
<1>3. ASSUME NEW j \in Identities, j # i PROVE IdentityInv(j)'
  <2>1. IdentityInv(j)
    BY DEF LimiterInv
  <2>2. \A t : InWindow(j, t)' = InWindow(j, t)
    BY <1>2, <1>3 DEF InWindow
  <2>3. InOrder(j)'
    BY <1>1, <1>2, <1>3, <2>1 DEF IdentityInv, InOrder
  <2>4. (\E n \in 0 .. Len(admitted[j]) : Forgot(j, n))'
    BY <1>1, <1>2, <1>3, <2>1 DEF IdentityInv, Forgot
  <2> QED
    BY <1>1, <1>2, <1>3, <2>1, <2>2, <2>3, <2>4 DEF IdentityInv
<1>4. /\ IdentityInv(i)' /\ events'[i] \in Seq(Nat) /\ admitted'[i] \in Seq(Nat)
      /\ refused'[i] \in SUBSET Nat
  <2>1. CASE Len(Recall(events[i])) >= Limit
    BY <2>1, LimiterRefuse DEF Submit, LimiterInv
  <2>2. CASE ~ (Len(Recall(events[i])) >= Limit)
    BY <2>2, LimiterAdmit DEF Submit, LimiterInv
  <2> QED
    BY <2>1, <2>2
<1>5. /\ admitted' \in [Identities -> Seq(Nat)] /\ events' \in [Identities -> Seq(Nat)]
      /\ refused' \in [Identities -> SUBSET Nat]
  BY <1>4 DEF Submit, LimiterInv
<1>6. \A j \in Identities : IdentityInv(j)'
  BY <1>3, <1>4
<1> QED
  BY <1>1, <1>5, <1>6 DEF LimiterInv

\* At the start nothing was submitted.
LEMMA LimiterStart == LimiterInit => LimiterInv
<1> SUFFICES ASSUME LimiterInit PROVE LimiterInv
  OBVIOUS
<1>1. ASSUME NEW i \in Identities PROVE IdentityInv(i)
  <2>1. now = 0 /\ events[i] = <<>> /\ admitted[i] = <<>> /\ refused[i] = {}
    BY DEF LimiterInit
  <2>2. \A t : InWindow(i, t) = 0
    BY <2>1, FS_EmptySet DEF InWindow
  <2>3. Forgot(i, 0)
    BY <2>1 DEF Forgot, Rest
  <2> QED
    BY <2>1, <2>2, <2>3, LimiterAssumption DEF IdentityInv, InOrder
<1> QED
  BY <1>1 DEF LimiterInit, LimiterInv

\* No identity submits more than the limit within any window, and it is refused only
\* when it has used that limit up, for every number of identities and every limit.
THEOREM LimiterHolds == LimiterSpec => []WithinLimit
<1>1. LimiterInv /\ [LimiterNext]_limiterVars => LimiterInv'
  <2> SUFFICES ASSUME LimiterInv, [LimiterNext]_limiterVars PROVE LimiterInv'
    OBVIOUS
  <2>1. CASE Tick
    BY <2>1, LimiterTick
  <2>2. ASSUME NEW i \in Identities, Submit(i) PROVE LimiterInv'
    BY <2>2, LimiterSubmit
  <2>3. CASE UNCHANGED limiterVars
    BY <2>3 DEF limiterVars, LimiterInv, IdentityInv, InOrder, Forgot, InWindow
  <2> QED
    BY <2>1, <2>2, <2>3 DEF LimiterNext
<1>2. LimiterInv => WithinLimit
  BY DEF LimiterInv, IdentityInv, WithinLimit
<1> QED
  BY LimiterStart, <1>1, <1>2, PTL DEF LimiterSpec
=============================================================================

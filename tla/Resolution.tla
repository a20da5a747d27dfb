----------------------------- MODULE Resolution -----------------------------
(***************************************************************************)
(* From a request of artist and title to one video (source_resolution.py,  *)
(* resolver.py): the results of a search are read one by one, scored,      *)
(* ranked, and either one is selected or the user is asked.  A result is   *)
(* reduced to what its score depends on.                                   *)
(***************************************************************************)
EXTENDS Integers, FiniteSets, SequencesExt

CONSTANTS
  Results,         \* what the search tool may list: candidates and other lines
  Unusable,        \* a line without a video id or a title
  CandidateLimit,  \* candidates a search keeps
  MinimumScore,    \* auto_select_min_score
  MinimumMargin    \* auto_select_min_margin

\* id: video ids have an order, which breaks ties.  similarity: rounded points
\* for title and artist, 0..80.  version: the requested version is evident, or
\* none was requested.  official: an official-source signal.  unrequested: how
\* many kinds of unrequested versions the words name.  duration: near the
\* expected one, far from it, or neither.
Candidate == [id : Nat, similarity : 0..80, version : BOOLEAN, official : BOOLEAN,
              unrequested : 0..9, duration : {"near", "far", "other"}]

ASSUME ResolutionAssumption ==
  /\ Results \subseteq Candidate \union {Unusable}
  /\ CandidateLimit \in Nat \ {0}
  /\ MinimumScore \in 0..100 /\ MinimumMargin \in 1..100

VARIABLES
  searching,   \* the search tool's output is being read
  candidates   \* the candidates kept, in the order listed

resolutionVars == <<searching, candidates>>

ResolutionInit == searching = TRUE /\ candidates = <<>>

Kept == { c.id : c \in Range(candidates) }

\* One listed result: not a video, listed before, or kept.  The limit ends the
\* reading.
ReadResult(r) ==
  /\ searching
  /\ candidates' = IF r = Unusable \/ r.id \in Kept
                     THEN candidates ELSE Append(candidates, r)
  /\ searching' = (Len(candidates') < CandidateLimit)

EndOfResults == searching /\ searching' = FALSE /\ UNCHANGED candidates

ResolutionNext == EndOfResults \/ \E r \in Results : ReadResult(r)

ResolutionSpec == ResolutionInit /\ [][ResolutionNext]_resolutionVars

-----------------------------------------------------------------------------
Points(p, condition) == IF condition THEN p ELSE 0

\* score_candidate
Score(c) ==
  LET points == c.similarity + Points(10, c.version) + Points(10, c.official)
                - Min({60, 25 * c.unrequested})
                + Points(5, c.duration = "near") - Points(10, c.duration = "far")
  IN  Max({0, Min({100, points})})

Disqualified(c) == c.unrequested > 0

\* Mutant: the search tool's order is taken for the ranking.
AsListed == candidates

Precedes(a, b) == Score(a) > Score(b) \/ (Score(a) = Score(b) /\ a.id < b.id)

\* Best score first, ties in the order of the video ids.
Ranked ==
  CHOOSE s \in [DOMAIN candidates -> Range(candidates)] :
    Range(s) = Range(candidates) /\ \A k, l \in DOMAIN s : k < l => Precedes(s[k], s[l])

NoCandidate == [method |-> "not_found", selected |-> {}]

\* decide_resolution
Decision ==
  IF Ranked = <<>> THEN NoCandidate ELSE
    LET best == Ranked[1]
        runnerUp == IF Len(Ranked) > 1 THEN Score(Ranked[2]) ELSE 0
        automatic == /\ Score(best) >= MinimumScore
                     /\ Score(best) - runnerUp >= MinimumMargin
                     /\ ~Disqualified(best)
    IN  IF automatic THEN [method |-> "automatic", selected |-> {best}]
                     ELSE [method |-> "needs_review", selected |-> {}]

\* The candidates nobody would argue about: good enough, free of an unrequested
\* version, and ahead of every other candidate, or of no score at all, by the margin.
Clear ==
  { c \in Range(candidates) :
      /\ Score(c) >= MinimumScore /\ Score(c) >= MinimumMargin /\ ~Disqualified(c)
      /\ \A d \in Range(candidates) \ {c} : Score(c) - Score(d) >= MinimumMargin }

\* A video is selected without asking exactly when it is the one clear candidate
\* among those kept, whatever order the search tool listed them in, and however
\* often; a disqualified upload near it makes the choice the user's as any other
\* does (resolver.py: decide_resolution; search_youtube_candidates).
SelectionIsClear ==
  ~searching =>
    /\ Decision.selected = Clear
    /\ Decision.method = "not_found" <=> candidates = <<>>
    /\ Cardinality(Kept) = Len(candidates) /\ Len(candidates) <= CandidateLimit
=============================================================================

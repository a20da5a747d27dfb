---------------------------- MODULE MCAlgorithms ----------------------------
(***************************************************************************)
(* The algorithms of the program in one run: an initial state chooses the  *)
(* one that is stepped through, and the others rest.                       *)
(***************************************************************************)
EXTENDS Resolution, PcmOutput, Submissions

VARIABLE subject

vars == <<subject, resolutionVars, pcmVars, limiterVars>>

\* Uploads on both sides of every threshold of score_candidate and
\* decide_resolution: clamped, tied, within and outside the margin, disqualified
\* once and more often than the penalty grows.
Upload(id, similarity, version, official, unrequested, duration) ==
  [id |-> id, similarity |-> similarity, version |-> version, official |-> official,
   unrequested |-> unrequested, duration |-> duration]

MCResults ==
  {Unusable} \union
  UNION { { Upload(id, 80, TRUE, TRUE, 0, "near"), Upload(id, 80, TRUE, FALSE, 0, "other"),
            Upload(id, 75, TRUE, TRUE, 0, "far"), Upload(id, 79, TRUE, FALSE, 0, "other"),
            Upload(id, 80, TRUE, FALSE, 0, "far"), Upload(id, 65, TRUE, FALSE, 0, "other"),
            Upload(id, 80, TRUE, TRUE, 1, "near"), Upload(id, 66, TRUE, FALSE, 0, "other"),
            Upload(id, 80, FALSE, TRUE, 3, "far"), Upload(id, 10, TRUE, FALSE, 2, "other") }
          : id \in 1..3 }

Init ==
  /\ subject \in {"resolution", "pcm", "limiter"}
  /\ ResolutionInit /\ LimiterInit /\ PcmInit
  /\ subject # "pcm" => decoded = 1 /\ probed = 1
                        /\ config = [safe |-> Min(SafeSizes), segment |-> Min(SegmentLengths)]

Next ==
  \/ subject = "resolution" /\ ResolutionNext /\ UNCHANGED <<subject, pcmVars, limiterVars>>
  \/ subject = "pcm" /\ PcmNext /\ UNCHANGED <<subject, resolutionVars, limiterVars>>
  \/ subject = "limiter" /\ LimiterNext /\ UNCHANGED <<subject, resolutionVars, pcmVars>>

Spec == Init /\ [][Next]_vars

MCLengths == 1 .. 96
=============================================================================

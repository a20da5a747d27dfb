----------------------------- MODULE MCLocalQueue -----------------------------
(***************************************************************************)
(* Small instances of LocalQueue for TLC.                                  *)
(***************************************************************************)
EXTENDS LocalQueue, TLC

\* No derivative, one, and one after the other.
MainProfiles == {"archive", "listen", "complete"}

\* The bounds of the main run: job 1 has any of these profiles and any request, up to
\* the first that overwrites a row; job 2, an archive job, has none.
Unasked(j) == \A u \in Users : \A r \in todo[u] : r.job # j
SecondPlain ==
  profile[2] = "archive" /\ Unasked(2) /\ (overtaken # {} => Unasked(1))

Symmetry == Permutations(Workers)

ArchiveOnly == {"archive"}
=============================================================================

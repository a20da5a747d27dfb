---------------------------- MODULE MCCloudQueue ----------------------------
(***************************************************************************)
(* Small instances of CloudQueue for TLC.                                  *)
(***************************************************************************)
EXTENDS CloudQueue, TLC

\* CloudProfile's three presets, as sets of outputs.
Presets == {{}, {"convert"}, {"convert", "package"}}

\* The source master alone, the shortest pipeline.
SourceOnly == {{}}

\* The bounds of the largest run: the queue is never paused and every
\* acquisition is a limited one.  The other runs lift both.
AlwaysLimited == ~paused /\ \A j \in Jobs : quality[j] # "best"

\* The bounds of the run with crashes, restarts and two jobs: those, and no delivery
\* ends.  A forbidden step always has an allowed sibling, so fairness is kept.
Lean == AlwaysLimited /\ \A j \in Jobs : delivery[j] \in {"not_published", "available"}
LeanSpec == Init /\ [][Next /\ Lean']_vars /\ Fairness

Symmetry == Permutations(Tokens) \union Permutations(Workers)
=============================================================================

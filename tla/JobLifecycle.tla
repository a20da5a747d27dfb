----------------------------- MODULE JobLifecycle -----------------------------
(***************************************************************************)
(* What the cloud application promises about one job row, whoever writes   *)
(* it: processing follows the transition table (a requeue may pass through *)
(* failed or interrupted inside one transaction), delivery follows its own *)
(* table, and the two dimensions meet at publication only.                 *)
(***************************************************************************)
EXTENDS CloudModels

CONSTANT Jobs

VARIABLES processing, delivery

vars == <<processing, delivery>>

Init ==
  /\ processing = [j \in Jobs |-> Absent]
  /\ delivery = [j \in Jobs |-> "not_published"]

\* create_job inserts a row as ready (exact URL) or pending (artist and title).
Create(j) ==
  /\ processing[j] = Absent
  /\ processing'[j] \in QueuedStates
  /\ delivery'[j] = delivery[j]

\* The states one transaction may move a row to: one edge of the table, or two
\* edges that meet in failed or interrupted and lead back to the queue.
Reachable(s) ==
  AllowedProcessing(s)
    \union { q \in QueuedStates :
               \E mid \in {"failed", "interrupted"} :
                 mid \in AllowedProcessing(s) /\ q \in AllowedProcessing(mid) }

\* A processing step.  Success is recorded for published work only, and a job
\* is closed without files only when nothing of it was ever published.
Advance(j) ==
  /\ processing[j] \in ProcessingState
  /\ processing'[j] \in Reachable(processing[j])
  /\ processing'[j] \in CompletedStates => delivery[j] # "not_published"
  /\ processing'[j] \in {"cancelled", "not_found"} =>
       delivery[j] = "not_published"
  /\ delivery'[j] = delivery[j]

\* Files are offered once, from the publishing state.
Publish(j) ==
  /\ processing[j] = "publishing"
  /\ delivery[j] = "not_published"
  /\ delivery'[j] = "available"
  /\ processing'[j] = processing[j]

\* Files are withdrawn, never offered again, without rewriting the outcome.
Retire(j) ==
  /\ delivery[j] # "not_published"
  /\ delivery'[j] \in AllowedDelivery(delivery[j])
  /\ processing'[j] = processing[j]

JobStep(j) == Create(j) \/ Advance(j) \/ Publish(j) \/ Retire(j)

JobUnchanged(j) == processing'[j] = processing[j] /\ delivery'[j] = delivery[j]

\* Startup recovery moves several rows in one transaction.
Next ==
  /\ processing' = [j \in Jobs |-> processing'[j]]
  /\ delivery' = [j \in Jobs |-> delivery'[j]]
  /\ \A j \in Jobs : JobUnchanged(j) \/ JobStep(j)

Spec == Init /\ [][Next]_vars
=============================================================================

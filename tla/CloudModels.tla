----------------------------- MODULE CloudModels -----------------------------
(***************************************************************************)
(* The vocabulary of the cloud queue (cloud/models.py): processing and     *)
(* delivery states, the two transition tables, the state classes built on  *)
(* them and the access-retry policy.  States are the strings the database  *)
(* stores.                                                                 *)
(***************************************************************************)
EXTENDS Integers

\* A job row that create_job has not inserted yet; not a database value.
Absent == "absent"

ProcessingState ==
  {"pending", "resolving", "needs_review", "ready", "downloading",
   "verifying_master", "converting", "verifying_output", "packaging",
   "publishing", "completed", "completed_with_warnings", "failed",
   "interrupted", "skipped_duplicate", "not_found", "cancelled"}

DeliveryState ==
  {"not_published", "available", "deletion_pending", "expired", "deleted"}

\* The files a job can be asked for beyond its source master, reduced to what
\* the control flow distinguishes: any converted format, and the ZIP package.
CloudOutput == {"convert", "package"}

ActiveProcessingStates ==
  {"resolving", "downloading", "verifying_master", "converting",
   "verifying_output", "packaging", "publishing"}

CompletedStates == {"completed", "completed_with_warnings"}

SuccessProcessingStates == CompletedStates \union {"skipped_duplicate"}

TerminalProcessingStates ==
  SuccessProcessingStates \union {"not_found", "cancelled"}

\* The states claim_next_job hands to a worker.
QueuedStates == {"pending", "ready"}

AllowedProcessing(s) ==
  { t \in ProcessingState :
      \/ s = "pending"      /\ t \in {"resolving", "ready", "cancelled", "failed"}
      \/ s = "resolving"    /\ t \in {"needs_review", "ready", "not_found",
                                      "failed", "interrupted"}
      \/ s = "needs_review" /\ t \in {"ready", "not_found", "cancelled"}
      \/ s = "ready"        /\ t \in {"downloading", "skipped_duplicate",
                                      "cancelled", "failed"}
      \/ s = "downloading"  /\ t \in {"verifying_master", "failed", "interrupted"}
      \/ s = "verifying_master" /\ t \in {"converting", "packaging", "publishing",
                                          "failed", "interrupted"}
      \/ s = "converting"   /\ t \in {"verifying_output", "failed", "interrupted"}
      \/ s = "verifying_output" /\ t \in {"packaging", "publishing", "failed",
                                          "interrupted"}
      \/ s = "packaging"    /\ t \in {"publishing", "failed", "interrupted"}
      \/ s = "publishing"   /\ t \in CompletedStates \union {"failed", "interrupted"}
      \/ s = "failed"       /\ t \in {"pending", "ready", "cancelled"}
      \/ s = "interrupted"  /\ t \in {"pending", "ready", "failed", "cancelled"} }

AllowedDelivery(s) ==
  { t \in DeliveryState :
      \/ s = "not_published"    /\ t = "available"
      \/ s = "available"        /\ t \in {"deletion_pending", "expired", "deleted"}
      \/ s = "deletion_pending" /\ t \in {"expired", "deleted"}
      \/ s = "expired"          /\ t = "deleted" }

-----------------------------------------------------------------------------
\* What classify_job_error tells apart: a source-access failure that waiting can
\* clear (rate limit, bot check, forbidden, token) and everything else.
ErrorKind == {"access", "other"}

\* Only these stages contact YouTube, so only they yield an "access" class.
SourceAccessStages == {"resolving", "downloading"}

\* The class fail_job records: the stage is the row's, not the worker's.
ClassifyJobError(stage, kind) ==
  IF stage \in SourceAccessStages THEN kind ELSE "other"

\* Mutant: one retry too many.
PermitsOneMore(class, used, limit) == class = "access" /\ used <= limit

\* AccessRetryPolicy.permits.
Permits(class, used, limit) == class = "access" /\ 0 <= used /\ used < limit

\* Mutant: a state the enumeration does not list.
RequeueTargetUnlisted(isPinned) == IF isPinned THEN "ready" ELSE "queued"

\* The queue state a requeued job returns to: its pinned source, or resolution.
RequeueTarget(isPinned) == IF isPinned THEN "ready" ELSE "pending"
=============================================================================

------------------------------ MODULE CloudQueue ------------------------------
(***************************************************************************)
(* The cloud queue: PostgreSQL job rows, worker claims with leases,        *)
(* attempts, worker processes running process_claim, their heartbeat       *)
(* threads, startup recovery and the web operations.  One action is one    *)
(* database transaction together with the tool run and the heartbeat check *)
(* that precede it; but the two transactions that look at a lease and then  *)
(* write the job, recovery and cancellation, take two steps, because the    *)
(* row lock they hold is on the job and renewals write the claim.           *)
(*                                                                         *)
(* A lease is a Boolean: live until NOW() passes lease_expires_at_utc.     *)
(* Output rows and objects are the subject of Publication.                 *)
(***************************************************************************)
EXTENDS CloudModels, FiniteSets

CONSTANTS
  Jobs,                \* job ids, in the order the queue serves them
  Workers,             \* worker processes
  Tokens, NoToken,     \* uuid4 claim tokens
  Requests,            \* the sets of outputs a job may be asked for
  RetryLimit,          \* AccessRetryPolicy.limit
  RecoveryLimit,       \* the LIMIT of recover_abandoned_jobs
  HeartbeatsMayStall   \* whether a running worker may lose its lease

ASSUME QueueAssumption ==
  /\ Jobs \subseteq Nat \ {0}
  /\ NoToken \notin Tokens
  /\ Requests \subseteq SUBSET CloudOutput
  /\ RetryLimit \in Nat
  /\ RecoveryLimit \in Nat \ {0}
  /\ HeartbeatsMayStall \in BOOLEAN

VARIABLES
  processing, delivery,   \* jobs.processing_state, jobs.delivery_state
  pinned,                 \* source_extractor, source_id and source_url are set
  wants,                  \* requested_outputs
  quality,                \* quality_status: "unset", "best", "limited"
  accessRetries, backoff, \* access_retry_count, retry_not_before_utc > NOW()
  paused,                 \* queue_control.paused
  claim,                  \* worker_claims: the token, whether its lease is live, and
                          \* whether it has been since the claim was taken
  recovering,             \* each worker: the job rows its recovery has locked
  cancelling,             \* the job rows cancellations have locked
  pc, job, token,         \* each worker: where it is, its claim
  err,                    \* the exception it is handling
  best,                   \* acquisition.quality_status is verified_best_available
  attempt,                \* its processing_attempts row
  hbLost                  \* ClaimHeartbeat._error is set

rowVars    == <<processing, delivery, pinned, wants, quality, accessRetries, backoff>>
workerVars == <<pc, job, token, err, best, attempt, hbLost>>
lockVars   == <<recovering, cancelling>>
vars       == <<rowVars, paused, lockVars, claim, workerVars>>

NoJob   == 0
NoClaim == [token |-> NoToken, live |-> FALSE, kept |-> FALSE]

\* A claim row whose lease has run out.
Lapsed(c) == [token |-> c.token, live |-> FALSE, kept |-> FALSE]

\* The places between process_claim's transactions, in program order.
InProcess ==
  {"reading", "resolving", "persisting", "rereading", "acquiring", "verifying",
   "recording", "converting", "checking", "packaging", "publishing",
   "marking", "completing", "finishing"}

\* Where a worker holds a claim and its heartbeat thread runs.
Running == InProcess \union {"starting", "lost", "failing", "closing", "releasing"}

Place == Running \union {"down", "recovering", "idle", "polling"}

\* heartbeat.check() precedes the transaction taken from these places.
CheckPoints(w) ==
  \/ pc[w] \in {"persisting", "verifying", "checking", "marking"}
  \/ pc[w] = "publishing" /\ "package" \in wants[job[w]]

TypeOK ==
  /\ processing \in [Jobs -> ProcessingState \union {Absent}]
  /\ delivery \in [Jobs -> DeliveryState]
  /\ pinned \in [Jobs -> BOOLEAN]
  /\ wants \in [Jobs -> SUBSET CloudOutput]
  /\ quality \in [Jobs -> {"unset", "best", "limited"}]
  /\ accessRetries \in [Jobs -> Nat]
  /\ backoff \in [Jobs -> BOOLEAN]
  /\ paused \in BOOLEAN
  /\ claim \in [Jobs -> [token : Tokens \union {NoToken}, live : BOOLEAN, kept : BOOLEAN]]
  /\ recovering \in [Workers -> SUBSET Jobs]
  /\ cancelling \in SUBSET Jobs
  /\ pc \in [Workers -> Place]
  /\ job \in [Workers -> Jobs \union {NoJob}]
  /\ token \in [Workers -> Tokens \union {NoToken}]
  /\ err \in [Workers -> ErrorKind \union {"none"}]
  /\ best \in [Workers -> BOOLEAN]
  /\ attempt \in [Workers -> {"none", "open", "closed"}]
  /\ hbLost \in [Workers -> BOOLEAN]

Init ==
  /\ processing = [j \in Jobs |-> Absent]
  /\ delivery = [j \in Jobs |-> "not_published"]
  /\ pinned = [j \in Jobs |-> FALSE]
  /\ wants = [j \in Jobs |-> {}]
  /\ quality = [j \in Jobs |-> "unset"]
  /\ accessRetries = [j \in Jobs |-> 0]
  /\ backoff = [j \in Jobs |-> FALSE]
  /\ paused = FALSE
  /\ claim = [j \in Jobs |-> NoClaim]
  /\ recovering = [w \in Workers |-> {}]
  /\ cancelling = {}
  /\ pc = [w \in Workers |-> "down"]
  /\ job = [w \in Workers |-> NoJob]
  /\ token = [w \in Workers |-> NoToken]
  /\ err = [w \in Workers |-> "none"]
  /\ best = [w \in Workers |-> FALSE]
  /\ attempt = [w \in Workers |-> "none"]
  /\ hbLost = [w \in Workers |-> FALSE]

-----------------------------------------------------------------------------
(* Steps of a worker's program.                                            *)

Goto(w, place) == pc' = [pc EXCEPT ![w] = place]

\* An exception leaves the try block of process_claim for its handler.
Raise(w, kind) ==
  /\ Goto(w, "failing")
  /\ err' = [err EXCEPT ![w] = kind]

\* The worker process forgets its claim and its attempt, open or not.
Forget(w, place) ==
  /\ Goto(w, place)
  /\ job' = [job EXCEPT ![w] = NoJob]
  /\ token' = [token EXCEPT ![w] = NoToken]
  /\ err' = [err EXCEPT ![w] = "none"]
  /\ best' = [best EXCEPT ![w] = FALSE]
  /\ attempt' = [attempt EXCEPT ![w] = "none"]
  /\ hbLost' = [hbLost EXCEPT ![w] = FALSE]

\* FOR UPDATE: the job row belongs to a transaction that has not committed yet, and
\* whoever wants to write it waits.  worker_claims rows are never locked this way.
Locked(j) == j \in cancelling \/ \E w \in Workers : j \in recovering[w]

\* transition_processing: the row's own state decides, never the claim.
Transition(w, new, place) ==
  LET j == job[w] IN
  /\ ~Locked(j)
  /\ \/ /\ new \in AllowedProcessing(processing[j])
        /\ processing' = [processing EXCEPT ![j] = new]
        /\ Goto(w, place)
        /\ UNCHANGED err
     \/ /\ new \notin AllowedProcessing(processing[j])
        /\ Raise(w, "other")
        /\ UNCHANGED processing
  /\ UNCHANGED <<delivery, pinned, wants, quality, accessRetries, backoff,
                 paused, lockVars, claim, job, token, best, attempt, hbLost>>

Owns(w, j) == claim[j].token = token[w]

\* Mutants (here and below, an operator placed before the one it replaces): the
\* recovery query without its lease condition, or joined to the claim rows.
AbandonedByStage(j) == processing[j] \in ActiveProcessingStates
AbandonedWithRow(j) == AbandonedByStage(j) /\ claim[j].token # NoToken /\ ~claim[j].live

Abandoned(j) == processing[j] \in ActiveProcessingStates /\ ~claim[j].live

\* Startup, recover_abandoned_jobs: FOR UPDATE SKIP LOCKED takes the first abandoned
\* jobs that nobody has locked; `busy' adds the rows that a transaction of one step
\* happens to hold.
Taken(busy) ==
  LET free == {j \in Jobs \ busy : Abandoned(j) /\ ~Locked(j)}
  IN  {j \in free : Cardinality({i \in free : i < j}) < RecoveryLimit}

SelectAbandonedSkipping(w, busy) ==
  /\ pc[w] = "down"
  /\ recovering' = [recovering EXCEPT ![w] = Taken(busy)]
  /\ Goto(w, "recovering")
  /\ UNCHANGED <<rowVars, paused, cancelling, claim, job, token, err, best, attempt, hbLost>>

SelectAbandoned(w) == \E busy \in SUBSET Jobs : SelectAbandonedSkipping(w, busy)

\* Mutants: recovery that ignores the pin, the delivery state, or the quality.
RecoveredUnpinned(j) == "ready"
RecoveredBlindly(j) ==
  IF processing[j] = "publishing" THEN "completed" ELSE RequeueTarget(pinned[j])
RecoveredAsBest(j) ==
  IF processing[j] = "publishing" /\ delivery[j] = "available"
    THEN "completed" ELSE RequeueTarget(pinned[j])

RecoveredState(j) ==
  IF processing[j] = "publishing" /\ delivery[j] = "available"
    THEN IF quality[j] = "best" THEN "completed" ELSE "completed_with_warnings"
    ELSE RequeueTarget(pinned[j])

\* Mutant: recovery deletes the claim of every job it took.
UnclaimedAll(w) == [j \in Jobs |-> IF j \in recovering[w] THEN NoClaim ELSE claim[j]]

\* The DELETE looks at the lease once more: a renewal may have come in between.
Unclaimed(w) ==
  [j \in Jobs |-> IF j \in recovering[w] /\ ~claim[j].live THEN NoClaim ELSE claim[j]]

\* The rest of its transaction, renewed lease or not.
RecoverAbandonedJobs(w) ==
  /\ pc[w] = "recovering"
  /\ processing' = [j \in Jobs |->
                      IF j \in recovering[w] THEN RecoveredState(j) ELSE processing[j]]
  /\ claim' = Unclaimed(w)
  /\ attempt' = [v \in Workers |->
                   IF attempt[v] = "open" /\ job[v] \in recovering[w]
                     THEN "closed" ELSE attempt[v]]
  /\ recovering' = [recovering EXCEPT ![w] = {}]
  /\ Goto(w, "idle")
  /\ UNCHANGED <<delivery, pinned, wants, quality, accessRetries, backoff,
                 paused, cancelling, job, token, err, best, hbLost>>

\* claim_next_job, first SELECT: the pause flag.
ReadPaused(w) ==
  /\ pc[w] = "idle"
  /\ ~paused
  /\ Goto(w, "polling")
  /\ UNCHANGED <<rowVars, paused, lockVars, claim, job, token, err, best,
                 attempt, hbLost>>

\* Mutant: the claim query without its NOT EXISTS.
ClaimableByStage(j) == processing[j] \in QueuedStates /\ ~backoff[j] /\ ~Locked(j)

Claimable(j) ==
  /\ processing[j] \in QueuedStates
  /\ ~backoff[j]
  /\ ~claim[j].live
  /\ ~Locked(j)

\* ORDER BY ready before pending, then id.
ServedBefore(i, j) ==
  \/ processing[i] = "ready" /\ processing[j] = "pending"
  \/ processing[i] = processing[j] /\ i < j

NextInQueue(j) ==
  /\ Claimable(j)
  /\ \A i \in Jobs : Claimable(i) => ~ServedBefore(i, j)

\* uuid4: a token nobody still uses, but for the row that is overwritten.
Fresh(j, t) ==
  /\ \A i \in Jobs \ {j} : claim[i].token # t
  /\ \A w \in Workers : token[w] # t

\* claim_next_job, the row lock and the upsert of the claim.
ClaimNextJob(w) ==
  /\ pc[w] = "polling"
  /\ \E j \in Jobs, t \in Tokens :
       /\ NextInQueue(j)
       /\ Fresh(j, t)
       /\ claim' = [claim EXCEPT ![j] = [token |-> t, live |-> TRUE, kept |-> TRUE]]
       /\ job' = [job EXCEPT ![w] = j]
       /\ token' = [token EXCEPT ![w] = t]
       /\ Goto(w, "starting")
  /\ UNCHANGED <<rowVars, paused, lockVars, err, best, attempt, hbLost>>

FindNothing(w) ==
  /\ pc[w] = "polling"
  /\ \A j \in Jobs : ~Claimable(j)
  /\ Goto(w, "idle")
  /\ UNCHANGED <<rowVars, paused, lockVars, claim, job, token, err, best,
                 attempt, hbLost>>

StartAttempt(w) ==
  /\ pc[w] = "starting"
  /\ ~Locked(job[w])   \* the foreign key's share lock
  /\ attempt' = [attempt EXCEPT ![w] = "open"]
  /\ Goto(w, "reading")
  /\ UNCHANGED <<rowVars, paused, lockVars, claim, job, token, err, best, hbLost>>

\* process_claim reads the row; resolution reads it once more afterwards.
ReadJob(w) ==
  LET j == job[w]
      usable == processing[j] = "ready" /\ pinned[j]
  IN
  /\ pc[w] \in {"reading", "rereading"}
  /\ \/ /\ pc[w] = "reading" /\ processing[j] = "pending"
        /\ Goto(w, "resolving")
        /\ UNCHANGED err
     \/ usable /\ Goto(w, "acquiring") /\ UNCHANGED err
     \/ /\ ~usable /\ ~(pc[w] = "reading" /\ processing[j] = "pending")
        /\ Raise(w, "other")
  /\ UNCHANGED <<rowVars, paused, lockVars, claim, job, token, best, attempt, hbLost>>

BeginResolving(w) ==
  /\ pc[w] = "resolving"
  /\ Transition(w, "resolving", "persisting")

\* The search, decide_resolution's three outcomes and persist_resolution.
PersistResolution(w) ==
  LET j == job[w] IN
  /\ pc[w] = "persisting"
  /\ ~hbLost[w]
  /\ ~Locked(j)
  /\ \/ /\ processing[j] = "resolving"
        /\ \E target \in {"ready", "needs_review", "not_found"} :
             /\ processing' = [processing EXCEPT ![j] = target]
             /\ pinned' = [pinned EXCEPT ![j] = target = "ready"]
             /\ Goto(w, IF target = "ready" THEN "rereading" ELSE "finishing")
        /\ UNCHANGED err
     \/ /\ processing[j] # "resolving"
        /\ Raise(w, "other")
        /\ UNCHANGED <<processing, pinned>>
  /\ UNCHANGED <<delivery, wants, quality, accessRetries, backoff, paused, lockVars,
                 claim, job, token, best, attempt, hbLost>>

BeginDownloading(w) ==
  /\ pc[w] = "acquiring"
  /\ Transition(w, "downloading", "verifying")

\* acquire() returned a verified item.
BeginVerifyingMaster(w) ==
  /\ pc[w] = "verifying"
  /\ ~hbLost[w]
  /\ Transition(w, "verifying_master", "recording")

\* After the master (and the conversions) comes the package, if one is wanted.
Packaging(j) == IF "package" \in wants[j] THEN "packaging" ELSE "publishing"

RecordAcquisition(w) ==
  LET j == job[w] IN
  /\ pc[w] = "recording"
  /\ ~Locked(j)
  /\ \/ /\ processing[j] = "verifying_master"
        /\ \E q \in {"best", "limited"} :
             /\ quality' = [quality EXCEPT ![j] = q]
             /\ best' = [best EXCEPT ![w] = q = "best"]
        /\ Goto(w, IF "convert" \in wants[j] THEN "converting" ELSE Packaging(j))
        /\ UNCHANGED err
     \/ /\ processing[j] # "verifying_master"
        /\ Raise(w, "other")
        /\ UNCHANGED <<quality, best>>
  /\ UNCHANGED <<processing, delivery, pinned, wants, accessRetries, backoff,
                 paused, lockVars, claim, job, token, attempt, hbLost>>

BeginConverting(w) ==
  /\ pc[w] = "converting"
  /\ Transition(w, "converting", "checking")

\* Every requested conversion was created, with a heartbeat check after each.
BeginVerifyingOutput(w) ==
  /\ pc[w] = "checking"
  /\ ~hbLost[w]
  /\ Transition(w, "verifying_output", Packaging(job[w]))

BeginPackaging(w) ==
  /\ pc[w] = "packaging"
  /\ Transition(w, "packaging", "publishing")

BeginPublishing(w) ==
  /\ pc[w] = "publishing"
  /\ CheckPoints(w) => ~hbLost[w]
  /\ Transition(w, "publishing", "marking")

\* _publish: record_output and mark_available demand the same two facts.
MarkAvailable(w) ==
  LET j == job[w] IN
  /\ pc[w] = "marking"
  /\ ~hbLost[w]
  /\ ~Locked(j)
  /\ \/ /\ processing[j] = "publishing" /\ delivery[j] = "not_published"
        /\ delivery' = [delivery EXCEPT ![j] = "available"]
        /\ Goto(w, "completing")
        /\ UNCHANGED err
     \/ /\ processing[j] # "publishing" \/ delivery[j] # "not_published"
        /\ Raise(w, "other")
        /\ UNCHANGED delivery
  /\ UNCHANGED <<processing, pinned, wants, quality, accessRetries, backoff,
                 paused, lockVars, claim, job, token, best, attempt, hbLost>>

Complete(w) ==
  /\ pc[w] = "completing"
  /\ Transition(w, IF best[w] THEN "completed" ELSE "completed_with_warnings",
                "finishing")

\* finish_attempt on the way out; a row recovery already closed raises.
FinishAttempt(w) ==
  /\ pc[w] = "finishing"
  /\ \/ /\ attempt[w] = "open"
        /\ attempt' = [attempt EXCEPT ![w] = "closed"]
        /\ Goto(w, "releasing")
        /\ UNCHANGED err
     \/ /\ attempt[w] # "open"
        /\ Raise(w, "other")
        /\ UNCHANGED attempt
  /\ UNCHANGED <<rowVars, paused, lockVars, claim, job, token, best, hbLost>>

-----------------------------------------------------------------------------
(* The handlers of process_claim and the end of run_next.                  *)

\* heartbeat.check() raises LostWorkerClaim.
NoticeLostClaim(w) ==
  /\ CheckPoints(w)
  /\ hbLost[w]
  /\ Goto(w, "lost")
  /\ UNCHANGED <<rowVars, paused, lockVars, claim, job, token, err, best,
                 attempt, hbLost>>

\* except LostWorkerClaim: close the attempt and leave the job as it is; if
\* recovery closed it first, the ValueError replaces the lost claim.
AbandonAttempt(w) ==
  /\ pc[w] = "lost"
  /\ attempt' = [attempt EXCEPT ![w] = "closed"]
  /\ err' = [err EXCEPT ![w] = IF attempt[w] = "open" THEN @ ELSE "other"]
  /\ Goto(w, "releasing")
  /\ UNCHANGED <<rowVars, paused, lockVars, claim, job, token, best, hbLost>>

\* Mutant: the retry is scheduled but not counted.
RequeueUncounted(j) ==
  /\ processing' = [processing EXCEPT ![j] = RequeueTarget(pinned[j])]
  /\ backoff' = [backoff EXCEPT ![j] = TRUE]
  /\ UNCHANGED accessRetries

\* The second half of fail_job: a failed job goes back to the queue at once.
Requeue(j) ==
  /\ processing' = [processing EXCEPT ![j] = RequeueTarget(pinned[j])]
  /\ accessRetries' = [accessRetries EXCEPT ![j] = @ + 1]
  /\ backoff' = [backoff EXCEPT ![j] = TRUE]

\* fail_job: record the failure if the row permits it and, for a transient
\* access failure within the budget, requeue it in the same transaction.
FailJob(w) ==
  LET j     == job[w]
      class == ClassifyJobError(processing[j], err[w])
      again == Permits(class, accessRetries[j], RetryLimit)
  IN
  /\ pc[w] = "failing"
  /\ ~Locked(j)
  /\ \/ /\ "failed" \in AllowedProcessing(processing[j])
        /\ \/ again /\ Requeue(j)
           \/ /\ ~again
              /\ processing' = [processing EXCEPT ![j] = "failed"]
              /\ UNCHANGED <<accessRetries, backoff>>
     \/ /\ "failed" \notin AllowedProcessing(processing[j])
        /\ UNCHANGED <<processing, accessRetries, backoff>>
  /\ Goto(w, "closing")
  /\ UNCHANGED <<delivery, pinned, wants, quality, paused, lockVars, claim,
                 job, token, err, best, attempt, hbLost>>

CloseFailedAttempt(w) ==
  /\ pc[w] = "closing"
  /\ attempt' = [attempt EXCEPT ![w] = "closed"]
  /\ Goto(w, "releasing")
  /\ UNCHANGED <<rowVars, paused, lockVars, claim, job, token, err, best, hbLost>>

\* release_claim, by token.  The heartbeat is checked once more on a clean exit,
\* and a lost claim is not released.
ReleaseClaim(w) ==
  LET j == job[w]
      lost == err[w] = "none" /\ hbLost[w]
  IN
  /\ pc[w] = "releasing"
  /\ claim' = IF Owns(w, j) /\ ~lost THEN [claim EXCEPT ![j] = NoClaim] ELSE claim
  /\ Forget(w, "idle")
  /\ UNCHANGED <<rowVars, paused, lockVars>>

-----------------------------------------------------------------------------
(* Failures: of a tool or a transaction, of a handler, of the heartbeat, of  *)
(* the process.                                                            *)

\* A tool or a transaction of process_claim raises.
StepRaises(w) ==
  /\ pc[w] \in InProcess
  /\ \E kind \in ErrorKind :
       /\ kind = "access" => pc[w] \in {"persisting", "verifying"}
       /\ Raise(w, kind)
  /\ UNCHANGED <<rowVars, paused, lockVars, claim, job, token, best, attempt, hbLost>>

\* Outside the try block (start_attempt) or inside a handler an exception goes
\* straight to run_next, which still releases the claim; fail_job's own exception
\* passes through the finally clause that closes the attempt.
HandlerRaises(w) ==
  /\ \/ pc[w] \in {"starting", "lost", "failing", "closing"} /\ Goto(w, "releasing")
     \/ pc[w] = "failing" /\ Goto(w, "closing")
  /\ err' = [err EXCEPT ![w] = "other"]
  /\ UNCHANGED <<rowVars, paused, lockVars, claim, job, token, best, attempt, hbLost>>

\* release_claim itself raises: the claim row stays until its lease runs out.
ReleaseFails(w) ==
  /\ pc[w] = "releasing"
  /\ Forget(w, "idle")
  /\ UNCHANGED <<rowVars, paused, lockVars, claim>>

\* The heartbeat thread stops for good at its first error: the lease is gone
\* or the database did not answer.
HeartbeatFails(w) ==
  /\ HeartbeatsMayStall
  /\ pc[w] \in Running
  /\ ~hbLost[w]
  /\ hbLost' = [hbLost EXCEPT ![w] = TRUE]
  /\ UNCHANGED <<rowVars, paused, lockVars, claim, pc, job, token, err, best, attempt>>

\* A worker whose heartbeat thread can still renew the claim of job j.
Renewing(w, j) == pc[w] \in Running /\ job[w] = j /\ Owns(w, j) /\ ~hbLost[w]

LeaseExpires(j) ==
  /\ claim[j].live
  /\ HeartbeatsMayStall \/ \A w \in Workers : ~Renewing(w, j)
  /\ claim' = [claim EXCEPT ![j] = Lapsed(@)]
  /\ UNCHANGED <<rowVars, paused, lockVars, workerVars>>

\* heartbeat_claim began in time, by its own NOW(), and commits after the lease ran
\* out: the lease is live again, whatever another transaction saw in between.
RenewLate(w) ==
  /\ \E j \in Jobs :
       /\ Renewing(w, j)
       /\ ~claim[j].live
       /\ claim' = [claim EXCEPT ![j].live = TRUE]
  /\ UNCHANGED <<rowVars, paused, lockVars, workerVars>>

\* The process is killed, or stops between jobs on SIGTERM; a transaction that was
\* open is rolled back.
Crash(w) ==
  /\ pc[w] # "down"
  /\ Forget(w, "down")
  /\ recovering' = [recovering EXCEPT ![w] = {}]
  /\ UNCHANGED <<rowVars, paused, cancelling, claim>>

BackoffElapses(j) ==
  /\ backoff[j]
  /\ backoff' = [backoff EXCEPT ![j] = FALSE]
  /\ UNCHANGED <<processing, delivery, pinned, wants, quality, accessRetries,
                 paused, lockVars, claim, workerVars>>

-----------------------------------------------------------------------------
(* The web service and the delivery side of the job row.                   *)

CreateJob(j) ==
  /\ processing[j] = Absent
  /\ \E url \in BOOLEAN, r \in Requests :
       /\ processing' = [processing EXCEPT ![j] = RequeueTarget(url)]
       /\ pinned' = [pinned EXCEPT ![j] = url]
       /\ wants' = [wants EXCEPT ![j] = r]
  /\ UNCHANGED <<delivery, quality, accessRetries, backoff, paused, lockVars, claim, workerVars>>

\* The review decisions: a source is pinned, or none exists.
Review(j, target) ==
  /\ ~Locked(j)
  /\ processing[j] = "needs_review"
  /\ processing' = [processing EXCEPT ![j] = target]
  /\ pinned' = [pinned EXCEPT ![j] = target = "ready"]
  /\ UNCHANGED <<delivery, wants, quality, accessRetries, backoff, paused, lockVars,
                 claim, workerVars>>

ApproveCandidate(j) == Review(j, "ready")
ReplaceSourceUrl(j) == Review(j, "ready")
MarkNotFound(j)     == Review(j, "not_found")

\* cancel_job locks the job, finds no live lease, and writes.
CancelJob(j) ==
  /\ ~Locked(j)
  /\ delivery[j] = "not_published"
  /\ "cancelled" \in AllowedProcessing(processing[j])
  /\ ~claim[j].live
  /\ cancelling' = cancelling \union {j}
  /\ UNCHANGED <<rowVars, paused, recovering, claim, workerVars>>

CommitCancel(j) ==
  /\ j \in cancelling
  /\ cancelling' = cancelling \ {j}
  /\ processing' = [processing EXCEPT ![j] = "cancelled"]
  /\ backoff' = [backoff EXCEPT ![j] = FALSE]
  /\ UNCHANGED <<delivery, pinned, wants, quality, accessRetries, paused,
                 recovering, claim, workerVars>>

\* The web process or its connection is gone before the commit.
CancelFails(j) ==
  /\ j \in cancelling
  /\ cancelling' = cancelling \ {j}
  /\ UNCHANGED <<rowVars, paused, recovering, claim, workerVars>>

RetryJob(j) ==
  /\ ~Locked(j)
  /\ processing[j] \in {"failed", "interrupted"}
  /\ delivery[j] = "not_published"
  /\ processing' = [processing EXCEPT ![j] = RequeueTarget(pinned[j])]
  /\ accessRetries' = [accessRetries EXCEPT ![j] = 0]
  /\ backoff' = [backoff EXCEPT ![j] = FALSE]
  /\ UNCHANGED <<delivery, pinned, wants, quality, paused, lockVars, claim, workerVars>>

SetQueuePaused ==
  /\ paused' = ~paused
  /\ UNCHANGED <<rowVars, lockVars, claim, workerVars>>

MoveDelivery(j, from, to) ==
  /\ ~Locked(j)
  /\ delivery[j] \in from
  /\ delivery' = [delivery EXCEPT ![j] = to]
  /\ UNCHANGED <<processing, pinned, wants, quality, accessRetries, backoff,
                 paused, lockVars, claim, workerVars>>

RequestEarlyDeletion(j) == MoveDelivery(j, {"available"}, "deletion_pending")

\* The cleanup pass runs in the worker's loop, between jobs.
ExpireDueJob(w, j) ==
  pc[w] = "idle" /\ MoveDelivery(j, {"available"}, "expired")

MarkJobDeletedIfEmpty(w, j) ==
  pc[w] = "idle" /\ MoveDelivery(j, {"expired", "deletion_pending"}, "deleted")

-----------------------------------------------------------------------------
\* The work of process_claim, and the whole of run_next around it.
ProcessClaim(w) ==
  \/ ReadJob(w) \/ BeginResolving(w) \/ PersistResolution(w)
  \/ BeginDownloading(w) \/ BeginVerifyingMaster(w) \/ RecordAcquisition(w)
  \/ BeginConverting(w) \/ BeginVerifyingOutput(w) \/ BeginPackaging(w)
  \/ BeginPublishing(w) \/ MarkAvailable(w) \/ Complete(w) \/ FinishAttempt(w)

RunNext(w) ==
  \/ ReadPaused(w) \/ ClaimNextJob(w) \/ FindNothing(w) \/ StartAttempt(w)
  \/ ProcessClaim(w)
  \/ NoticeLostClaim(w) \/ AbandonAttempt(w)
  \/ FailJob(w) \/ CloseFailedAttempt(w) \/ ReleaseClaim(w)

WorkerFault(w) ==
  \/ StepRaises(w) \/ HandlerRaises(w) \/ ReleaseFails(w) \/ HeartbeatFails(w)
  \/ Crash(w)

Cleanup(w) == \E j \in Jobs : ExpireDueJob(w, j) \/ MarkJobDeletedIfEmpty(w, j)

WebOperation(j) ==
  \/ CreateJob(j) \/ ApproveCandidate(j) \/ ReplaceSourceUrl(j) \/ MarkNotFound(j)
  \/ CancelJob(j) \/ CommitCancel(j) \/ CancelFails(j)
  \/ RetryJob(j) \/ RequestEarlyDeletion(j)

Startup(w) == SelectAbandoned(w) \/ RecoverAbandonedJobs(w)

Next ==
  \/ \E w \in Workers :
       Startup(w) \/ RunNext(w) \/ RenewLate(w) \/ WorkerFault(w) \/ Cleanup(w)
  \/ \E j \in Jobs : WebOperation(j) \/ LeaseExpires(j) \/ BackoffElapses(j)
  \/ SetQueuePaused

Spec == Init /\ [][Next]_vars

-----------------------------------------------------------------------------
(* Safety.                                                                 *)

Lifecycle == INSTANCE JobLifecycle WITH
  Jobs <- Jobs, processing <- processing, delivery <- delivery

\* Whatever workers, recovery and users do, and however stale a worker is, each
\* job row moves as JobLifecycle promises: along the transition tables, success
\* only for published files, cancellation only when nothing was published.
FollowsLifecycle == Lifecycle!Spec

\* A source is pinned exactly while the job is past resolution: acquisition
\* never runs without a pin, and no requeue (recovery, automatic or user retry)
\* sends a pinned job back to the search.
PinnedPastResolution ==
  \A j \in Jobs :
    /\ processing[j] \in {"ready"} \union CompletedStates
                          \union (ActiveProcessingStates \ {"resolving"})
         => pinned[j]
    /\ processing[j] \in {"pending", "resolving", "needs_review", "not_found"}
         => ~pinned[j]

\* The automatic retries of one job never exceed the policy's limit, even when
\* two workers fail it, until a user asks for a retry.
RetryBudget == \A j \in Jobs : accessRetries[j] <= RetryLimit

\* Only a worker running job j can move a queued or active j whose lease has been
\* live ever since the claim was taken.
OnlyWorkersMove(j) ==
  /\ claim[j].kept
  /\ processing[j] \in QueuedStates \union ActiveProcessingStates
  /\ processing'[j] # processing[j]
  => \E w \in Workers : pc[w] \in Running /\ job[w] = j /\ pc'[w] # pc[w]

\* A live claim, kept or renewed late, ends by its lease running out or by its
\* holder's release.
OnlyHolderReleases(j) ==
  /\ claim[j].live
  /\ claim'[j] # claim[j]
  => \/ claim'[j] = Lapsed(claim[j])
     \/ \E w \in Workers : pc[w] = "releasing" /\ job[w] = j /\ Owns(w, j)

\* A lease that never lapsed keeps cancellation, recovery and the other workers away
\* from the job, although they check it one step before they write; and no live
\* lease, even one renewed between their check and their write, loses its claim row.
LeaseProtects ==
  [][\A j \in Jobs : OnlyWorkersMove(j) /\ OnlyHolderReleases(j)]_vars

\* While leases are renewed in time, no two workers process the same job.
SoleProcessor ==
  \A v, w \in Workers :
    v # w /\ pc[v] \in Running /\ pc[w] \in Running => job[v] # job[w]

\* Nor does recovery close the attempt of a worker that is still processing, so
\* finish_attempt never finds its row already closed.
OwnAttemptOpen ==
  \A w \in Workers : pc[w] \in InProcess => attempt[w] = "open"

\* The worker and the startup recovery agree: a job ends as completed exactly
\* when the acquisition recorded for it was the best available.
OutcomeMatchesQuality ==
  \A j \in Jobs :
    /\ processing[j] = "completed" => quality[j] = "best"
    /\ processing[j] = "completed_with_warnings" => quality[j] = "limited"

-----------------------------------------------------------------------------
(* Liveness.  The platform keeps the worker process running and the program  *)
(* takes its steps; time passes.  Users and failures are never obliged.      *)

\* The claim of job j has no process left to renew it.
LeaseRunsOut(j) == (\A w \in Workers : ~Renewing(w, j)) /\ LeaseExpires(j)

Fairness ==
  /\ \A w \in Workers : WF_vars(Startup(w)) /\ WF_vars(RunNext(w))
  /\ \A j \in Jobs :
       WF_vars(CommitCancel(j)) /\ WF_vars(LeaseRunsOut(j)) /\ WF_vars(BackoffElapses(j))

FairSpec == Spec /\ Fairness

\* What may go wrong beside the tools and transactions of process_claim: a process
\* killed anywhere but between two polls, a handler or a release that raises, a
\* heartbeat that stops, a cancellation whose process dies.
Fault ==
  \/ \E w \in Workers :
       \/ Crash(w) /\ pc[w] # "idle"
       \/ HandlerRaises(w) \/ ReleaseFails(w) \/ HeartbeatFails(w)
  \/ \E j \in Jobs : CancelFails(j)

UserRetry == \E j \in Jobs : RetryJob(j)

\* A poll that was not interrupted, and a startup that found no row locked.
Poll    == \E w \in Workers : ClaimNextJob(w) \/ FindNothing(w)
Restart == \E w \in Workers : SelectAbandonedSkipping(w, {}) /\ \A j \in Jobs : ~Locked(j)

Settled(j) ==
  processing[j] \in TerminalProcessingStates \union {"failed", "needs_review"}

\* An active job no live claim answers for.
Unattended(j) == processing[j] \in ActiveProcessingStates /\ ~claim[j].live

\* The queue is not paused for ever, users retry and things go wrong finitely often,
\* and the worker polls again and again.
Calm ==
  /\ <>[]~paused
  /\ ~[]<><<UserRetry>>_vars
  /\ ~[]<><<Fault>>_vars
  /\ []<><<Poll>>_vars

\* In calm operation, with no job left unattended for ever, every queued job reaches
\* an outcome or a person: neither ready-first ordering, back-off, automatic
\* retries nor recovered jobs starve it.
QueueDrains ==
  Calm /\ (\A j \in Jobs : []<>~Unattended(j)) =>
    \A j \in Jobs : processing[j] \in QueuedStates ~> Settled(j)

\* And if workers are also restarted again and again, each startup taking back no
\* more than its limit and passing over locked rows at other times, so does every
\* job a crash or a handler left active, whichever stage it was in and whether or
\* not a claim row was left behind.
RestartsRecover ==
  Calm /\ []<><<Restart>>_vars =>
    \A j \in Jobs : processing[j] \in ActiveProcessingStates ~> Settled(j)

-----------------------------------------------------------------------------
(* What the documents say, and the code does not do.                       *)

\* CLOUD_SPEC 18.1: when a worker stops, its active jobs become recoverable or
\* interrupted.  Recovery runs at startup only, so a job whose lease outlives a
\* quick restart stays in its stage for as long as the new process runs.
AbandonedJobsLeave == \A j \in Jobs : Unattended(j) ~> ~Unattended(j)
=============================================================================

----------------------------- MODULE Publication -----------------------------
(***************************************************************************)
(* Temporary delivery of one job: the publication loop of a worker, the    *)
(* rollback of a failed one, the cleanup pass, the output rows and the     *)
(* objects in R2.  Object keys carry the job id, so jobs share none.       *)
(*                                                                         *)
(* Each publication pass has an expiry of its own.  Passes are numbered,   *)
(* and a pass's number stands for its expires_at_utc: elapsed is the       *)
(* number of passes whose expiry NOW() has reached.                        *)
(***************************************************************************)
EXTENDS CloudModels, FiniteSets

CONSTANTS
  Workers, NoWorker,   \* worker processes
  FileCount,           \* most files of one publication, in upload order
  Digests,             \* contents a file may have from one attempt to another
  Deployments,         \* the deployments to consider, see DeploymentType
  MaxPasses,           \* bound on publication passes: with none left, no claim
  LeasesMayLapse       \* whether a working process may lose its lease

\* The processes that run, the files a publication has, and the contents they
\* take: one of them where a conversion is reproducible.
DeploymentType ==
  [staff : SUBSET Workers, files : 1..FileCount, contents : SUBSET Digests]

ASSUME PublicationAssumption ==
  /\ NoWorker \notin Workers
  /\ FileCount \in Nat \ {0}
  /\ Deployments \subseteq { d \in DeploymentType : d.contents # {} }
  /\ MaxPasses \in Nat \ {0}
  /\ LeasesMayLapse \in BOOLEAN

\* object_key_for: the role comes with the file's place, the digest with its content.
\* Files of one role with one content have one key and one row: they are one file here.
Keys == (1..FileCount) \X Digests

VARIABLES
  deployment,             \* which one this is; it never changes
  processing, delivery,   \* the job row
  expires,                \* jobs.expires_at_utc, 0 before publication
  offered,                \* the output ids the publishing worker returned, as keys
  passes, elapsed,        \* publication passes begun, and expired
  rows,                   \* outputs: expires_at_utc of each live row, 0 for none
  objects,                \* R2: the pass of each object's last upload, 0 for none
  owner,                  \* the worker whose claim has a live lease
  pc,                     \* each worker's place
  bundle, pass, next,     \* its publication: the keys by file, pass, next file
  listed,                 \* the outputs its rollback or cleanup still goes through
  leftOpen                \* history: the pass that struck the last output left the job

jobVars    == <<processing, delivery, expires, offered>>
storeVars  == <<rows, objects>>
workerVars == <<pc, bundle, pass, next, listed>>
vars       == <<jobVars, passes, elapsed, storeVars, owner, workerVars>>

\* Where process_claim runs under its except clauses.
InProcess ==
  {"claimed", "acquiring", "publishing", "uploading", "recording", "completing"}

\* Where a process holds a claim: the pipeline and its failure handler.
Holding ==
  InProcess \union
  {"rollback", "collecting", "removing", "unlisting", "failing", "releasing"}

Place == Holding \union {"idle", "listing", "sweeping", "striking", "closing"}

TypeOK ==
  /\ deployment \in Deployments
  /\ processing \in ProcessingState \union {Absent}
  /\ delivery \in DeliveryState
  /\ expires \in 0..MaxPasses
  /\ offered \subseteq Keys
  /\ passes \in 0..MaxPasses
  /\ elapsed \in 0..passes
  /\ rows \in [Keys -> 0..MaxPasses]
  /\ objects \in [Keys -> 0..MaxPasses]
  /\ owner \in Workers \union {NoWorker}
  /\ pc \in [Workers -> Place]
  /\ bundle \in [Workers -> [1..FileCount -> Digests]]
  /\ pass \in [Workers -> 0..MaxPasses]
  /\ next \in [Workers -> 1..FileCount + 1]
  /\ listed \in [Workers -> SUBSET Keys]
  /\ leftOpen \in BOOLEAN

\* What a worker that publishes nothing is said to hold.
NoBundle == [f \in 1..FileCount |-> CHOOSE d \in Digests : TRUE]

\* The bundles a publication may have.
Bundles ==
  { b \in [1..FileCount -> Digests] :
      \A f \in 1..FileCount :
        IF f <= deployment.files THEN b[f] \in deployment.contents
                                 ELSE b[f] = NoBundle[f] }

Init ==
  /\ deployment \in Deployments
  /\ processing = Absent
  /\ delivery = "not_published"
  /\ expires = 0
  /\ offered = {}
  /\ passes = 0
  /\ elapsed = 0
  /\ rows = [k \in Keys |-> 0]
  /\ objects = [k \in Keys |-> 0]
  /\ owner = NoWorker
  /\ pc = [w \in Workers |-> "idle"]
  /\ bundle = [w \in Workers |-> NoBundle]
  /\ pass = [w \in Workers |-> 0]
  /\ next = [w \in Workers |-> 1]
  /\ listed = [w \in Workers |-> {}]
  /\ leftOpen = FALSE

Goto(w, place) == pc' = [pc EXCEPT ![w] = place]

Key(w) == <<next[w], bundle[w][next[w]]>>

Bundle(w) == { <<f, bundle[w][f]>> : f \in 1..deployment.files }

Live == { k \in Keys : rows[k] # 0 }

-----------------------------------------------------------------------------
(* The pipeline up to publication; its stages touch no output.             *)

\* create_job for an exact URL: the source is pinned.
CreateJob ==
  /\ processing = Absent
  /\ processing' = "ready"
  /\ UNCHANGED <<delivery, expires, offered, passes, elapsed, storeVars,
                 owner, workerVars>>

\* A stage change of the worker's job, refused by transition_processing.
Stage(w, new, place) ==
  \/ /\ new \in AllowedProcessing(processing)
     /\ processing' = new
     /\ Goto(w, place)
  \/ /\ new \notin AllowedProcessing(processing)
     /\ Goto(w, "rollback")
     /\ UNCHANGED processing

ClaimNextJob(w) ==
  /\ pc[w] = "idle"
  /\ passes < MaxPasses
  /\ processing = "ready"
  /\ owner = NoWorker
  /\ owner' = w
  /\ Goto(w, "claimed")
  /\ UNCHANGED <<jobVars, passes, elapsed, storeVars, bundle, pass, next, listed>>

BeginDownloading(w) ==
  /\ pc[w] = "claimed"
  /\ Stage(w, "downloading", "acquiring")
  /\ UNCHANGED <<delivery, expires, offered, passes, elapsed, storeVars, owner,
                 bundle, pass, next, listed>>

BeginVerifyingMaster(w) ==
  /\ pc[w] = "acquiring"
  /\ Stage(w, "verifying_master", "publishing")
  /\ UNCHANGED <<delivery, expires, offered, passes, elapsed, storeVars, owner,
                 bundle, pass, next, listed>>

\* The PUBLISHING transition and the head of _publish: the verified files and the
\* expiry all of them will carry.
BeginPublishing(w) ==
  /\ pc[w] = "publishing"
  /\ Stage(w, "publishing", "uploading")
  /\ \/ /\ pc'[w] = "uploading"
        /\ passes < MaxPasses
        /\ passes' = passes + 1
        /\ pass' = [pass EXCEPT ![w] = passes']
        /\ \E b \in Bundles : bundle' = [bundle EXCEPT ![w] = b]
     \/ pc'[w] = "rollback" /\ UNCHANGED <<passes, pass, bundle>>
  /\ UNCHANGED <<delivery, expires, offered, elapsed, storeVars, owner, next, listed>>

-----------------------------------------------------------------------------
(* The publication loop.                                                   *)

\* R2DeliveryStorage.publish_file: upload, read back, and reject a bad upload.
UploadObject(w) ==
  /\ pc[w] = "uploading"
  /\ next[w] <= deployment.files
  /\ \/ /\ objects' = [objects EXCEPT ![Key(w)] = pass[w]]
        /\ Goto(w, "recording") \/ Goto(w, "rollback")
     \/ objects' = [objects EXCEPT ![Key(w)] = 0] /\ Goto(w, "rollback")
  /\ UNCHANGED <<jobVars, passes, elapsed, rows, owner, bundle, pass, next, listed>>

\* Mutant: each output gets a later expiry of its own.
RecordedLater(w) ==
  /\ pc[w] = "recording"
  /\ processing = "publishing"
  /\ delivery = "not_published"
  /\ rows' = [rows EXCEPT ![Key(w)] = pass[w] + 1]
  /\ next' = [next EXCEPT ![w] = @ + 1]
  /\ Goto(w, "uploading")
  /\ UNCHANGED <<jobVars, passes, elapsed, objects, owner, bundle, pass, listed>>

\* Mutant: record_output trusts the worker and reads no job row.
RecordedUnchecked(w) ==
  /\ pc[w] = "recording"
  /\ rows' = [rows EXCEPT ![Key(w)] = pass[w]]
  /\ next' = [next EXCEPT ![w] = @ + 1]
  /\ Goto(w, "uploading")
  /\ UNCHANGED <<jobVars, passes, elapsed, objects, owner, bundle, pass, listed>>

\* record_output's upsert.
RecordOutput(w) ==
  /\ pc[w] = "recording"
  /\ processing = "publishing"
  /\ delivery = "not_published"
  /\ rows' = [rows EXCEPT ![Key(w)] = pass[w]]
  /\ next' = [next EXCEPT ![w] = @ + 1]
  /\ Goto(w, "uploading")
  /\ UNCHANGED <<jobVars, passes, elapsed, objects, owner, bundle, pass, listed>>

\* record_output refuses or fails: the uploaded object is deleted, if that works.
RecordFails(w) ==
  /\ pc[w] = "recording"
  /\ objects' \in {objects, [objects EXCEPT ![Key(w)] = 0]}
  /\ Goto(w, "rollback")
  /\ UNCHANGED <<jobVars, passes, elapsed, rows, owner, bundle, pass, next, listed>>

\* Mutant: mark_available looks at the outputs alone.
MarkedUnchecked(w) ==
  /\ pc[w] = "uploading"
  /\ next[w] = deployment.files + 1
  /\ \E k \in Keys : rows[k] = pass[w]
  /\ delivery' = "available"
  /\ expires' = pass[w]
  /\ offered' = Bundle(w)
  /\ Goto(w, "completing")
  /\ UNCHANGED <<processing, passes, elapsed, storeVars, owner, bundle, pass, next,
                 listed>>

MarkAvailable(w) ==
  /\ pc[w] = "uploading"
  /\ next[w] = deployment.files + 1
  /\ \/ /\ processing = "publishing"
        /\ delivery = "not_published"
        /\ \E k \in Keys : rows[k] = pass[w]
        /\ delivery' = "available"
        /\ expires' = pass[w]
        /\ offered' = Bundle(w)
        /\ Goto(w, "completing")
     \/ /\ \/ processing # "publishing" \/ delivery # "not_published"
           \/ \A k \in Keys : rows[k] # pass[w]
        /\ Goto(w, "rollback")
        /\ UNCHANGED <<delivery, expires, offered>>
  /\ UNCHANGED <<processing, passes, elapsed, storeVars, owner, bundle, pass, next,
                 listed>>

Complete(w) ==
  /\ pc[w] = "completing"
  /\ Stage(w, "completed", "releasing")
  /\ UNCHANGED <<delivery, expires, offered, passes, elapsed, storeVars, owner,
                 bundle, pass, next, listed>>

-----------------------------------------------------------------------------
(* Failure of the attempt.                                                 *)

\* Back in the worker's loop: the attempt's own state is gone.
Leave(w) ==
  /\ Goto(w, "idle")
  /\ bundle' = [bundle EXCEPT ![w] = NoBundle]
  /\ pass' = [pass EXCEPT ![w] = 0]
  /\ next' = [next EXCEPT ![w] = 1]
  /\ listed' = [listed EXCEPT ![w] = {}]

\* Any other step of process_claim raises.
StepRaises(w) ==
  /\ pc[w] \in InProcess \ {"recording"}
  /\ Goto(w, "rollback")
  /\ UNCHANGED <<jobVars, passes, elapsed, storeVars, owner, bundle, pass, next,
                 listed>>

\* heartbeat.check() after the acquisition and before each upload.
NoticeLostClaim(w) ==
  /\ \/ pc[w] = "acquiring"
     \/ pc[w] = "uploading" /\ next[w] <= deployment.files
  /\ owner # w
  /\ Goto(w, "releasing")
  /\ UNCHANGED <<jobVars, passes, elapsed, storeVars, owner, bundle, pass, next,
                 listed>>

\* Mutant: the rollback does not ask whether the job was published.
RolledBackPublished(w) ==
  /\ pc[w] = "rollback"
  /\ Goto(w, "collecting")
  /\ UNCHANGED <<jobVars, passes, elapsed, storeVars, owner, bundle, pass, next,
                 listed>>

\* _rollback_unpublished reads the job row, then the live outputs.
RollbackUnpublished(w) ==
  /\ pc[w] = "rollback"
  /\ Goto(w, IF delivery = "not_published" THEN "collecting" ELSE "failing")
  /\ UNCHANGED <<jobVars, passes, elapsed, storeVars, owner, bundle, pass, next,
                 listed>>

CollectOutputs(w) ==
  /\ pc[w] = "collecting"
  /\ listed' = [listed EXCEPT ![w] = Live]
  /\ Goto(w, IF Live = {} THEN "failing" ELSE "removing")
  /\ UNCHANGED <<jobVars, passes, elapsed, storeVars, owner, bundle, pass, next>>

\* The output in hand.  The queries order them; which order is immaterial.
First(w) == CHOOSE k \in listed[w] : TRUE

\* Done with the output in hand: the next one, or onwards.
Proceed(w, again, onwards) ==
  /\ listed' = [listed EXCEPT ![w] = @ \ {First(w)}]
  /\ Goto(w, IF listed[w] = {First(w)} THEN onwards ELSE again)

\* delete_object and mark_output_deleted of one output; a failure of either only
\* skips the rest of that output.
RemoveUnpublished(w) ==
  /\ pc[w] = "removing"
  /\ \/ /\ objects' = [objects EXCEPT ![First(w)] = 0]
        /\ Goto(w, "unlisting")
        /\ UNCHANGED listed
     \/ Proceed(w, "removing", "failing") /\ UNCHANGED objects
  /\ UNCHANGED <<jobVars, passes, elapsed, rows, owner, bundle, pass, next>>

UnlistUnpublished(w) ==
  /\ pc[w] = "unlisting"
  /\ rows' \in {rows, [rows EXCEPT ![First(w)] = 0]}
  /\ Proceed(w, "removing", "failing")
  /\ UNCHANGED <<jobVars, passes, elapsed, objects, owner, bundle, pass, next>>

\* fail_job; a source-access failure may be requeued within its budget.
FailJob(w) ==
  /\ pc[w] = "failing"
  /\ \/ /\ "failed" \in AllowedProcessing(processing)
        /\ processing' \in {"failed"} \union
             { q \in {"ready"} : processing \in SourceAccessStages }
     \/ /\ "failed" \notin AllowedProcessing(processing)
        /\ UNCHANGED processing
  /\ Goto(w, "releasing")
  /\ UNCHANGED <<delivery, expires, offered, passes, elapsed, storeVars, owner,
                 bundle, pass, next, listed>>

HandlerRaises(w) ==
  /\ pc[w] \in {"rollback", "collecting", "failing"}
  /\ Goto(w, "releasing")
  /\ UNCHANGED <<jobVars, passes, elapsed, storeVars, owner, bundle, pass, next,
                 listed>>

ReleaseClaim(w) ==
  /\ pc[w] = "releasing"
  /\ owner' = IF owner = w THEN NoWorker ELSE owner
  /\ Leave(w)
  /\ UNCHANGED <<jobVars, passes, elapsed, storeVars>>

\* release_claim raises, and the claim row stays until its lease runs out.
ReleaseFails(w) ==
  /\ pc[w] = "releasing"
  /\ Leave(w)
  /\ UNCHANGED <<jobVars, passes, elapsed, storeVars, owner>>

\* The process dies, and is soon back in its loop.
Crash(w) ==
  /\ pc[w] # "idle"
  /\ Leave(w)
  /\ UNCHANGED <<jobVars, passes, elapsed, storeVars, owner>>

LeaseExpires ==
  /\ owner # NoWorker
  /\ LeasesMayLapse \/ pc[owner] \notin Holding
  /\ owner' = NoWorker
  /\ UNCHANGED <<jobVars, passes, elapsed, storeVars, workerVars>>

\* Startup recovery; a restart of an idle process is invisible here.
RecoverAbandonedJob(w) ==
  /\ pc[w] = "idle"
  /\ processing \in ActiveProcessingStates
  /\ owner = NoWorker
  /\ processing' = IF processing = "publishing" /\ delivery = "available"
                     THEN "completed" ELSE "ready"
  /\ UNCHANGED <<delivery, expires, offered, passes, elapsed, storeVars, owner,
                 workerVars>>

-----------------------------------------------------------------------------
(* The web service, time and the storage lifecycle rule.                   *)

RetryJob ==
  /\ processing \in {"failed", "interrupted"}
  /\ delivery = "not_published"
  /\ processing' = "ready"
  /\ UNCHANGED <<delivery, expires, offered, passes, elapsed, storeVars, owner,
                 workerVars>>

RequestEarlyDeletion ==
  /\ delivery = "available"
  /\ delivery' = "deletion_pending"
  /\ UNCHANGED <<processing, expires, offered, passes, elapsed, storeVars, owner,
                 workerVars>>

\* NOW() reaches the next pass's expiry.
TimePasses ==
  /\ elapsed < passes
  /\ elapsed' = elapsed + 1
  /\ UNCHANGED <<jobVars, passes, storeVars, owner, workerVars>>

\* R2 deletes an object two days after its upload, so after its expiry.
LifecycleRule(k) ==
  /\ objects[k] \in 1..elapsed
  /\ objects' = [objects EXCEPT ![k] = 0]
  /\ UNCHANGED <<jobVars, passes, elapsed, rows, owner, workerVars>>

-----------------------------------------------------------------------------
(* cleanup_expired, in the worker's loop between jobs.                     *)

ExpireDueJobs(w) ==
  /\ pc[w] = "idle"
  /\ delivery' = IF delivery = "available" /\ expires <= elapsed
                   THEN "expired" ELSE delivery
  /\ Goto(w, "listing")
  /\ UNCHANGED <<processing, expires, offered, passes, elapsed, storeVars, owner,
                 bundle, pass, next, listed>>

Closing == delivery \in {"expired", "deletion_pending"}

Due == { k \in Live : Closing \/ rows[k] <= elapsed }

ListCleanupOutputs(w) ==
  /\ pc[w] = "listing"
  /\ listed' = [listed EXCEPT ![w] = Due]
  /\ Goto(w, IF Due = {} THEN "idle" ELSE "sweeping")
  /\ UNCHANGED <<jobVars, passes, elapsed, storeVars, owner, bundle, pass, next>>

\* Mutant: an object deleted early is left to the storage lifecycle rule.
SweptWhenExpired(w) ==
  /\ pc[w] = "sweeping"
  /\ objects' = [objects EXCEPT ![First(w)] = IF rows[First(w)] <= elapsed THEN 0 ELSE @]
  /\ Goto(w, "striking")
  /\ UNCHANGED <<jobVars, passes, elapsed, rows, owner, bundle, pass, next, listed>>

SweepObject(w) ==
  /\ pc[w] = "sweeping"
  /\ objects' = [objects EXCEPT ![First(w)] = 0]
  /\ Goto(w, "striking")
  /\ UNCHANGED <<jobVars, passes, elapsed, rows, owner, bundle, pass, next, listed>>

MarkOutputDeleted(w) ==
  /\ pc[w] = "striking"
  /\ rows' = [rows EXCEPT ![First(w)] = 0]
  /\ Proceed(w, "sweeping", "closing")
  /\ UNCHANGED <<jobVars, passes, elapsed, objects, owner, bundle, pass, next>>

\* Asked for the jobs this pass struck an output of, and no others.
MarkJobDeletedIfEmpty(w) ==
  /\ pc[w] = "closing"
  /\ delivery' = IF Closing /\ Live = {} THEN "deleted" ELSE delivery
  /\ Goto(w, "idle")
  /\ UNCHANGED <<processing, expires, offered, passes, elapsed, storeVars, owner,
                 bundle, pass, next, listed>>

\* R2 or the database fails; the next pass starts over.
CleanupFails(w) ==
  /\ pc[w] \in {"listing", "sweeping", "striking", "closing"}
  /\ Leave(w)
  /\ UNCHANGED <<jobVars, passes, elapsed, storeVars, owner>>

-----------------------------------------------------------------------------
Pipeline(w) ==
  \/ ClaimNextJob(w) \/ BeginDownloading(w) \/ BeginVerifyingMaster(w)
  \/ BeginPublishing(w) \/ UploadObject(w) \/ RecordOutput(w) \/ MarkAvailable(w)
  \/ Complete(w) \/ NoticeLostClaim(w) \/ ReleaseClaim(w)

FailedAttempt(w) ==
  \/ RollbackUnpublished(w) \/ CollectOutputs(w) \/ RemoveUnpublished(w)
  \/ UnlistUnpublished(w) \/ FailJob(w) \/ RecordFails(w)

Fault(w) ==
  \/ StepRaises(w) \/ HandlerRaises(w) \/ ReleaseFails(w)
  \/ Crash(w)

CleanupExpired(w) ==
  \/ ExpireDueJobs(w) \/ ListCleanupOutputs(w) \/ SweepObject(w)
  \/ MarkOutputDeleted(w) \/ MarkJobDeletedIfEmpty(w)

Step ==
  \/ CreateJob
  \/ \E w \in deployment.staff :
       \/ Pipeline(w) \/ FailedAttempt(w) \/ Fault(w) \/ CleanupExpired(w)
       \/ CleanupFails(w) \/ RecoverAbandonedJob(w)
  \/ LeaseExpires \/ RetryJob \/ RequestEarlyDeletion \/ TimePasses
  \/ \E k \in Keys : LifecycleRule(k)

\* A cleanup pass ends beside a published job without outputs and leaves it.
LeavesOpen ==
  /\ delivery # "not_published" /\ delivery' # "deleted" /\ Live = {}
  /\ \E w \in deployment.staff : pc[w] = "closing" /\ pc'[w] = "idle"

Next ==
  /\ Step
  /\ leftOpen' = (leftOpen \/ LeavesOpen)
  /\ UNCHANGED deployment

Spec == Init /\ [][Next]_<<vars, leftOpen, deployment>>

-----------------------------------------------------------------------------
(* Safety.                                                                 *)

\* One worker process, as the cloud design has it.
SoleWorker == \E w \in Workers : deployment.staff = {w}

\* One file that always comes out the same: every publication has the same key.
SoleObject ==
  deployment.files = 1 /\ \E d \in Digests : deployment.contents = {d}

\* With one worker process, whatever fails or crashes when: until it expires or
\* is deleted early, a published job keeps every file of its publication, row and
\* object, and all of them end at the job's expiry.
OfferIntact ==
  SoleWorker /\ delivery = "available" /\ expires > elapsed
  => \A k \in offered : rows[k] = expires /\ objects[k] = expires

\* The outputs of a published job are final: no worker adds one or dates one
\* anew, not even one that lost its claim long ago, and the offer is made once.
PublicationFrozen ==
  [][delivery # "not_published" =>
       /\ UNCHANGED <<offered, expires>>
       /\ \A k \in Keys : rows'[k] \in {rows[k], 0}]_vars

\* What a failed rollback left of an earlier attempt is downloadable too once the
\* job is published (get_downloadable_output asks only for a live row), but ends
\* before the offer, unless it is one of the files offered.  Said of one worker, and
\* of several whose publications share their only key: of two that record different
\* keys, the one whose lease lapsed may be the one to offer, beside later outputs.
LeftoversEndFirst ==
  (SoleWorker \/ SoleObject) /\ delivery # "not_published"
  => \A k \in Live : rows[k] <= expires /\ (rows[k] = expires => k \in offered)

\* Publication, rollback, cleanup and recovery, by workers that may have lost
\* their claim, move the job row as JobLifecycle says and no other way.
TheJob == {1}

Lifecycle == INSTANCE JobLifecycle WITH
  Jobs       <- TheJob,
  processing <- [j \in TheJob |-> processing],
  delivery   <- [j \in TheJob |-> delivery]

FollowsLifecycle == Lifecycle!Init /\ [][Lifecycle!Next]_(Lifecycle!vars)

-----------------------------------------------------------------------------
(* Liveness.  A worker goes on with what it does, and between jobs its loop *)
(* runs the cleanup again and again.                                       *)

Fairness ==
  \A w \in Workers :
    /\ WF_vars(/\ w \in deployment.staff
               /\ Pipeline(w) \/ FailedAttempt(w) \/ CleanupExpired(w))
    /\ SF_vars(w \in deployment.staff /\ ExpireDueJobs(w))

FairSpec == Spec /\ Fairness

\* A cleanup pass with work to do is given up.
Interrupted ==
  \E w \in Workers :
    pc[w] \in {"listing", "sweeping", "striking"} /\ Due # {} /\ pc'[w] = "idle"

\* With one worker process, an output of a job that is to be deleted goes with its
\* object.
StruckWithObject ==
  [][SoleWorker /\ Closing => \A k \in Live : rows'[k] = 0 => objects'[k] = 0]_vars

\* So it does; and unless cleanup keeps failing all of them go, and the job is marked
\* deleted, but for a pass that strikes its last output and is given up at its last
\* statement, or was overtaken by the expiry after it had looked for expired jobs:
\* no later pass asks for a job without outputs.
ClosedOutputsGo ==
  /\ StruckWithObject
  /\ SoleWorker /\ ~[]<><<Interrupted>>_vars =>
       (Closing ~> Live = {} /\ (delivery = "deleted" \/ leftOpen))
=============================================================================

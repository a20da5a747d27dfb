-------------------------- MODULE PublicationProofs --------------------------
(***************************************************************************)
(* Theorems about Publication for every set of workers, every number of    *)
(* files and contents and every deployment: its types, what no worker may  *)
(* do to a published job, the job row's lifecycle; and, for one worker,    *)
(* that an offer stays whole and outlasts what earlier attempts left.      *)
(***************************************************************************)
EXTENDS Publication, TLAPS

-----------------------------------------------------------------------------
(* Types.                                                                  *)

\* A worker in the middle of a list has an output in hand, one that records has a
\* file in hand and a pass, and one that completes has made the offer.
PlaceInv ==
  \A w \in Workers :
    /\ pc[w] \in {"removing", "unlisting", "sweeping", "striking"} => listed[w] # {}
    /\ pc[w] = "recording" => next[w] <= deployment.files
    /\ pc[w] \in {"uploading", "recording"} => pass[w] # 0
    /\ pc[w] = "completing" => delivery # "not_published"

TypeInv == TypeOK /\ PlaceInv

\* What a deployment is.
LEMMA DeploymentFacts ==
  ASSUME deployment \in Deployments
  PROVE  /\ deployment.staff \subseteq Workers
         /\ deployment.files \in 1..FileCount
         /\ deployment.contents \subseteq Digests
         /\ deployment.contents # {}
  BY PublicationAssumption DEF DeploymentType

\* What a worker that publishes nothing holds has the type of a bundle.
LEMMA NoBundleType ==
  ASSUME deployment \in Deployments
  PROVE  NoBundle \in [1..FileCount -> Digests]
<1>1. \E d \in Digests : TRUE
  BY DeploymentFacts
<1> QED
  BY <1>1 DEF NoBundle

\* And so has every bundle a publication may have.
LEMMA BundleType ==
  ASSUME deployment \in Deployments, NEW b \in Bundles
  PROVE  b \in [1..FileCount -> Digests]
  BY DEF Bundles

\* At first the types hold.
LEMMA InitTypes == Init => TypeInv
<1> SUFFICES ASSUME Init PROVE TypeInv
  OBVIOUS
<1>1. NoBundle \in [1..FileCount -> Digests]
  BY NoBundleType DEF Init
<1>2. /\ 0 \in 0..MaxPasses /\ 0 \in 0..0 /\ 1 \in 1..FileCount + 1
      /\ "idle" \in Place /\ "not_published" \in DeliveryState
  BY PublicationAssumption DEF Place, DeliveryState
<1>3. rows \in [Keys -> 0..MaxPasses] /\ objects \in [Keys -> 0..MaxPasses]
  BY <1>2 DEF Init
<1>4. TypeOK
  BY <1>1, <1>2, <1>3 DEF Init, TypeOK
<1>5. PlaceInv
  BY DEF Init, PlaceInv
<1> QED
  BY <1>4, <1>5 DEF TypeInv

\* The key of the file in hand, and the output in hand.
LEMMA InHand ==
  ASSUME TypeInv, NEW w \in Workers
  PROVE  /\ next[w] <= deployment.files => Key(w) \in Keys
         /\ listed[w] # {} => First(w) \in listed[w] /\ First(w) \in Keys
<1>1. next[w] <= deployment.files => Key(w) \in Keys
  BY PublicationAssumption, DeploymentFacts DEF TypeInv, TypeOK, Key, Keys
<1>2. listed[w] # {} => First(w) \in listed[w] /\ First(w) \in Keys
  BY DEF TypeInv, TypeOK, First
<1> QED
  BY <1>1, <1>2

\* Striking a row or an object keeps the table.
LEMMA StrikeType ==
  ASSUME NEW f \in [Keys -> 0..MaxPasses], NEW k \in Keys
  PROVE  [f EXCEPT ![k] = 0] \in [Keys -> 0..MaxPasses]
  BY PublicationAssumption

\* Every step of a worker's pipeline keeps the types.
LEMMA PipelineTypes ==
  ASSUME TypeInv, NEW w \in Workers, Pipeline(w), UNCHANGED deployment, leftOpen' \in BOOLEAN
  PROVE  TypeInv'
<1> USE PublicationAssumption DEF TypeInv, TypeOK, PlaceInv, jobVars, storeVars, workerVars,
        Place, Holding, InProcess, Goto
<1>0. /\ deployment.files \in 1..FileCount
      /\ Key(w) \in Keys \/ ~(next[w] <= deployment.files)
  BY DeploymentFacts, InHand
<1>1. CASE ClaimNextJob(w)
  BY <1>1 DEF ClaimNextJob
<1>2. CASE BeginDownloading(w)
  BY <1>2 DEF BeginDownloading, Stage, ProcessingState
<1>3. CASE BeginVerifyingMaster(w)
  BY <1>3 DEF BeginVerifyingMaster, Stage, ProcessingState
<1>4. CASE BeginPublishing(w)
  <2>1. PICK b \in [1..FileCount -> Digests] : bundle' \in {bundle, [bundle EXCEPT ![w] = b]}
    BY <1>4, BundleType, NoBundleType DEF BeginPublishing
  <2>2. bundle' \in [Workers -> [1..FileCount -> Digests]]
    BY <2>1
  <2>3. processing' \in ProcessingState \union {Absent} /\ pc' \in [Workers -> Place]
    BY <1>4 DEF BeginPublishing, Stage, ProcessingState
  <2>4. passes' \in 0..MaxPasses /\ pass' \in [Workers -> 0..MaxPasses] /\ elapsed \in 0..passes'
    <3>1. CASE passes < MaxPasses /\ passes' = passes + 1 /\ pass' = [pass EXCEPT ![w] = passes']
      BY <3>1
    <3>2. CASE passes' = passes /\ pass' = pass
      BY <3>2
    <3> QED
      BY <1>4, <3>1, <3>2 DEF BeginPublishing
  <2>5. TypeOK'
    BY <1>4, <2>2, <2>3, <2>4 DEF BeginPublishing
  <2>6. PlaceInv'
    BY <1>4 DEF BeginPublishing, Stage
  <2> QED
    BY <2>5, <2>6
<1>5. CASE UploadObject(w)
  <2>0. Key(w) \in Keys /\ pass[w] \in 0..MaxPasses /\ 0 \in 0..MaxPasses
    BY <1>0, <1>5 DEF UploadObject
  <2>1. PICK p \in 0..MaxPasses : objects' = [objects EXCEPT ![Key(w)] = p]
    BY <1>5, <2>0 DEF UploadObject
  <2>2. pc' \in [Workers -> Place]
    BY <1>5 DEF UploadObject
  <2> QED
    BY <1>5, <2>1, <2>2 DEF UploadObject
<1>6. CASE RecordOutput(w)
  <2>1. rows' \in [Keys -> 0..MaxPasses]
    BY <1>0, <1>6 DEF RecordOutput
  <2> QED
    BY <1>0, <1>6, <2>1 DEF RecordOutput
<1>7. CASE MarkAvailable(w)
  <2>1. Bundle(w) \subseteq Keys
    BY <1>0 DEF Bundle, Keys
  <2>2. TypeOK'
    <3>1. /\ delivery' \in DeliveryState /\ expires' \in 0..MaxPasses /\ offered' \subseteq Keys
          /\ pc' \in [Workers -> Place]
      <4>1. CASE /\ delivery' = "available" /\ expires' = pass[w] /\ offered' = Bundle(w)
                 /\ Goto(w, "completing")
        BY <4>1, <2>1 DEF DeliveryState
      <4>2. CASE Goto(w, "rollback") /\ UNCHANGED <<delivery, expires, offered>>
        BY <4>2
      <4> QED
        BY <1>7, <4>1, <4>2 DEF MarkAvailable
    <3> QED
      BY <1>7, <3>1 DEF MarkAvailable
  <2>3. PlaceInv'
    BY <1>7 DEF MarkAvailable
  <2> QED
    BY <2>2, <2>3
<1>8. CASE Complete(w)
  BY <1>8 DEF Complete, Stage, ProcessingState
<1>9. CASE NoticeLostClaim(w)
  BY <1>9 DEF NoticeLostClaim
<1>10. CASE ReleaseClaim(w)
  BY <1>10, NoBundleType DEF ReleaseClaim, Leave
<1> QED
  BY <1>1, <1>2, <1>3, <1>4, <1>5, <1>6, <1>7, <1>8, <1>9, <1>10 DEF Pipeline

\* So does everything a failed attempt does.
LEMMA FailureTypes ==
  ASSUME TypeInv, NEW w \in Workers, FailedAttempt(w) \/ Fault(w),
         UNCHANGED deployment, leftOpen' \in BOOLEAN
  PROVE  TypeInv'
<1> USE PublicationAssumption DEF TypeInv, TypeOK, PlaceInv, jobVars, storeVars, workerVars,
        Place, Holding, InProcess, Goto
<1>0. listed[w] # {} => First(w) \in Keys
  BY InHand
<1>1. CASE RollbackUnpublished(w)
  BY <1>1 DEF RollbackUnpublished
<1>2. CASE CollectOutputs(w)
  BY <1>2 DEF CollectOutputs, Live
<1>3. CASE RemoveUnpublished(w)
  <2>1. First(w) \in Keys
    BY <1>0, <1>3 DEF RemoveUnpublished
  <2>2. objects' \in [Keys -> 0..MaxPasses]
    <3>1. objects' \in {objects, [objects EXCEPT ![First(w)] = 0]}
      BY <1>3 DEF RemoveUnpublished
    <3>2. [objects EXCEPT ![First(w)] = 0] \in [Keys -> 0..MaxPasses]
      BY <2>1, StrikeType
    <3> QED
      BY <3>1, <3>2
  <2>3. listed' \in [Workers -> SUBSET Keys] /\ pc' \in [Workers -> Place]
    <3>1. CASE Goto(w, "unlisting") /\ UNCHANGED listed
      BY <3>1
    <3>2. CASE Proceed(w, "removing", "failing")
      BY <3>2 DEF Proceed
    <3> QED
      BY <1>3, <3>1, <3>2 DEF RemoveUnpublished
  <2>4. PlaceInv'
    BY <1>3 DEF RemoveUnpublished, Proceed
  <2> QED
    BY <1>3, <2>2, <2>3, <2>4 DEF RemoveUnpublished
<1>4. CASE UnlistUnpublished(w)
  <2>1. First(w) \in Keys
    BY <1>0, <1>4 DEF UnlistUnpublished
  <2>2. rows' \in [Keys -> 0..MaxPasses]
    <3>1. rows' \in {rows, [rows EXCEPT ![First(w)] = 0]}
      BY <1>4 DEF UnlistUnpublished
    <3>2. [rows EXCEPT ![First(w)] = 0] \in [Keys -> 0..MaxPasses]
      BY <2>1, StrikeType
    <3> QED
      BY <3>1, <3>2
  <2>3. listed' \in [Workers -> SUBSET Keys] /\ pc' \in [Workers -> Place]
    BY <1>4 DEF UnlistUnpublished, Proceed
  <2>4. PlaceInv'
    BY <1>4 DEF UnlistUnpublished, Proceed
  <2> QED
    BY <1>4, <2>2, <2>3, <2>4 DEF UnlistUnpublished
<1>5. CASE FailJob(w)
  BY <1>5 DEF FailJob, ProcessingState
<1>6. CASE RecordFails(w)
  <2>1. Key(w) \in Keys
    BY <1>6, InHand DEF RecordFails
  <2>2. objects' \in [Keys -> 0..MaxPasses]
    <3>1. objects' \in {objects, [objects EXCEPT ![Key(w)] = 0]}
      BY <1>6 DEF RecordFails
    <3>2. [objects EXCEPT ![Key(w)] = 0] \in [Keys -> 0..MaxPasses]
      BY <2>1, StrikeType
    <3> QED
      BY <3>1, <3>2
  <2> QED
    BY <1>6, <2>2 DEF RecordFails
<1>7. CASE StepRaises(w)
  BY <1>7 DEF StepRaises
<1>8. CASE HandlerRaises(w)
  BY <1>8 DEF HandlerRaises
<1>9. CASE ReleaseFails(w)
  BY <1>9, NoBundleType DEF ReleaseFails, Leave
<1>10. CASE Crash(w)
  BY <1>10, NoBundleType DEF Crash, Leave
<1> QED
  BY <1>1, <1>2, <1>3, <1>4, <1>5, <1>6, <1>7, <1>8, <1>9, <1>10 DEF FailedAttempt, Fault

\* And the cleanup pass.
LEMMA CleanupTypes ==
  ASSUME TypeInv, NEW w \in Workers, CleanupExpired(w) \/ CleanupFails(w),
         UNCHANGED deployment, leftOpen' \in BOOLEAN
  PROVE  TypeInv'
<1> USE PublicationAssumption DEF TypeInv, TypeOK, PlaceInv, jobVars, storeVars, workerVars,
        Place, Holding, InProcess, Goto
<1>0. listed[w] # {} => First(w) \in Keys
  BY InHand
<1>1. CASE ExpireDueJobs(w)
  BY <1>1 DEF ExpireDueJobs, DeliveryState
<1>2. CASE ListCleanupOutputs(w)
  BY <1>2 DEF ListCleanupOutputs, Due, Live
<1>3. CASE SweepObject(w)
  BY <1>0, <1>3 DEF SweepObject
<1>4. CASE MarkOutputDeleted(w)
  BY <1>0, <1>4 DEF MarkOutputDeleted, Proceed
<1>5. CASE MarkJobDeletedIfEmpty(w)
  BY <1>5 DEF MarkJobDeletedIfEmpty, DeliveryState, Closing
<1>6. CASE CleanupFails(w)
  BY <1>6, NoBundleType DEF CleanupFails, Leave
<1> QED
  BY <1>1, <1>2, <1>3, <1>4, <1>5, <1>6 DEF CleanupExpired

\* And every other step.
LEMMA OtherTypes ==
  ASSUME TypeInv, UNCHANGED deployment, leftOpen' \in BOOLEAN,
         \/ CreateJob \/ LeaseExpires \/ RetryJob \/ RequestEarlyDeletion \/ TimePasses
         \/ \E w \in Workers : RecoverAbandonedJob(w)
         \/ \E k \in Keys : LifecycleRule(k)
         \/ UNCHANGED vars
  PROVE  TypeInv'
<1> USE PublicationAssumption DEF TypeInv, TypeOK, PlaceInv, jobVars, storeVars, workerVars,
        Place, Holding, InProcess
<1>1. CASE CreateJob
  BY <1>1 DEF CreateJob, ProcessingState
<1>2. CASE LeaseExpires
  BY <1>2 DEF LeaseExpires
<1>3. CASE RetryJob
  BY <1>3 DEF RetryJob, ProcessingState
<1>4. CASE RequestEarlyDeletion
  BY <1>4 DEF RequestEarlyDeletion, DeliveryState
<1>5. CASE TimePasses
  BY <1>5 DEF TimePasses
<1>6. ASSUME NEW w \in Workers, RecoverAbandonedJob(w) PROVE TypeInv'
  BY <1>6 DEF RecoverAbandonedJob, ProcessingState
<1>7. ASSUME NEW k \in Keys, LifecycleRule(k) PROVE TypeInv'
  BY <1>7 DEF LifecycleRule
<1>8. CASE UNCHANGED vars
  BY <1>8 DEF vars
<1> QED
  BY <1>1, <1>2, <1>3, <1>4, <1>5, <1>6, <1>7, <1>8

\* Whose step a step is: a worker's of the deployment, or anybody else's.
LEMMA NextCases ==
  ASSUME TypeInv, [Next]_<<vars, leftOpen, deployment>>
  PROVE  /\ UNCHANGED deployment /\ leftOpen' \in BOOLEAN
         /\ \/ \E w \in Workers :
                 /\ w \in deployment.staff
                 /\ \/ Pipeline(w) \/ FailedAttempt(w) \/ Fault(w)
                    \/ CleanupExpired(w) \/ CleanupFails(w)
            \/ CreateJob \/ LeaseExpires \/ RetryJob \/ RequestEarlyDeletion \/ TimePasses
            \/ \E w \in Workers : RecoverAbandonedJob(w)
            \/ \E k \in Keys : LifecycleRule(k)
            \/ UNCHANGED vars
<1>1. deployment.staff \subseteq Workers
  BY DeploymentFacts DEF TypeInv, TypeOK
<1>2. UNCHANGED deployment
  BY DEF Next
<1>3. leftOpen' \in BOOLEAN
  <2>1. CASE Next
    BY <2>1 DEF Next, TypeInv, TypeOK
  <2>2. CASE UNCHANGED <<vars, leftOpen, deployment>>
    BY <2>2 DEF TypeInv, TypeOK
  <2> QED
    BY <2>1, <2>2
<1> QED
  BY <1>1, <1>2, <1>3 DEF Next, Step

\* Every step keeps the types.
LEMMA TypeStep == TypeInv /\ [Next]_<<vars, leftOpen, deployment>> => TypeInv'
  BY NextCases, PipelineTypes, FailureTypes, CleanupTypes, OtherTypes

\* Every variable keeps its type: no pass beyond the bound, no output or file outside
\* the publication's, nothing in hand of a list that is empty.
THEOREM PublicationTypes == Spec => []TypeOK
<1>1. TypeInv => TypeOK
  BY DEF TypeInv
<1> QED
  BY InitTypes, TypeStep, <1>1, PTL DEF Spec

-----------------------------------------------------------------------------
(* What is published stays as it was offered.                              *)

\* No step adds an output of a published job or dates one anew.
LEMMA FrozenStep ==
  ASSUME TypeInv, [Next]_<<vars, leftOpen, deployment>>, delivery # "not_published"
  PROVE  /\ UNCHANGED <<offered, expires>>
         /\ \A k \in Keys : rows'[k] \in {rows[k], 0}
<1> DEFINE Kept == /\ UNCHANGED <<offered, expires>>
                   /\ \A k \in Keys : rows'[k] \in {rows[k], 0}
<1> USE DEF jobVars, storeVars, workerVars
<1>0. rows \in [Keys -> 0..MaxPasses]
  BY DEF TypeInv, TypeOK
<1>1. ASSUME NEW w \in Workers, Pipeline(w) PROVE Kept
  BY <1>1 DEF Pipeline, ClaimNextJob, BeginDownloading, BeginVerifyingMaster,
     BeginPublishing, UploadObject, RecordOutput, MarkAvailable, Complete,
     NoticeLostClaim, ReleaseClaim
<1>2. ASSUME NEW w \in Workers, FailedAttempt(w) \/ Fault(w) PROVE Kept
  <2>1. rows' \in {rows, [rows EXCEPT ![First(w)] = 0]} /\ UNCHANGED <<offered, expires>>
    BY <1>2 DEF FailedAttempt, Fault, RollbackUnpublished, CollectOutputs,
       RemoveUnpublished, UnlistUnpublished, FailJob, RecordFails, StepRaises,
       HandlerRaises, ReleaseFails, Crash
  <2> QED
    BY <1>0, <2>1
<1>3. ASSUME NEW w \in Workers, CleanupExpired(w) \/ CleanupFails(w) PROVE Kept
  <2>1. rows' \in {rows, [rows EXCEPT ![First(w)] = 0]} /\ UNCHANGED <<offered, expires>>
    BY <1>3 DEF CleanupExpired, ExpireDueJobs, ListCleanupOutputs, SweepObject,
       MarkOutputDeleted, MarkJobDeletedIfEmpty, CleanupFails
  <2> QED
    BY <1>0, <2>1
<1>4. CASE \/ CreateJob \/ LeaseExpires \/ RetryJob \/ RequestEarlyDeletion \/ TimePasses
           \/ \E w \in Workers : RecoverAbandonedJob(w)
           \/ \E k \in Keys : LifecycleRule(k)
           \/ UNCHANGED vars
  BY <1>4 DEF CreateJob, LeaseExpires, RetryJob, RequestEarlyDeletion, TimePasses,
     RecoverAbandonedJob, LifecycleRule, vars
<1> QED
  BY <1>1, <1>2, <1>3, <1>4, NextCases

\* The outputs of a published job are final, whichever workers still believe that they
\* publish it: record_output and mark_available look at the delivery state under the
\* row's lock.
THEOREM FrozenHolds == Spec => PublicationFrozen
<1>1. TypeInv /\ [Next]_<<vars, leftOpen, deployment>>
        => [delivery # "not_published" =>
              /\ UNCHANGED <<offered, expires>>
              /\ \A k \in Keys : rows'[k] \in {rows[k], 0}]_vars
  BY FrozenStep
<1> QED
  BY InitTypes, TypeStep, <1>1, PTL DEF Spec, PublicationFrozen

-----------------------------------------------------------------------------
(* The job row, and the refinement of JobLifecycle.                        *)

\* JobLifecycle speaks of the same states and the same tables.
LEMMA SameVocabulary ==
  /\ Lifecycle!ProcessingState = ProcessingState
  /\ Lifecycle!DeliveryState = DeliveryState
  /\ Lifecycle!QueuedStates = QueuedStates
  /\ Lifecycle!CompletedStates = CompletedStates
  /\ Lifecycle!Absent = Absent
  /\ \A s : Lifecycle!AllowedProcessing(s) = AllowedProcessing(s)
  /\ \A s : Lifecycle!AllowedDelivery(s) = AllowedDelivery(s)
<1>1. /\ Lifecycle!ProcessingState = ProcessingState
      /\ Lifecycle!DeliveryState = DeliveryState
      /\ Lifecycle!QueuedStates = QueuedStates
      /\ Lifecycle!CompletedStates = CompletedStates
      /\ Lifecycle!Absent = Absent
  BY DEF ProcessingState, DeliveryState, QueuedStates, CompletedStates, Absent,
     Lifecycle!ProcessingState, Lifecycle!DeliveryState, Lifecycle!QueuedStates,
     Lifecycle!CompletedStates, Lifecycle!Absent
<1>2. ASSUME NEW s PROVE Lifecycle!AllowedProcessing(s) = AllowedProcessing(s)
  BY <1>1 DEF AllowedProcessing, Lifecycle!AllowedProcessing
<1>3. ASSUME NEW s PROVE Lifecycle!AllowedDelivery(s) = AllowedDelivery(s)
  BY <1>1 DEF AllowedDelivery, Lifecycle!AllowedDelivery
<1> QED
  BY <1>1, <1>2, <1>3

\* One edge of the table; or two that lead through a failure back to the queue.
Advances ==
  /\ processing \in ProcessingState
  /\ \/ processing' \in AllowedProcessing(processing)
     \/ /\ processing' = "ready"
        /\ \E mid \in {"failed", "interrupted"} : mid \in AllowedProcessing(processing)
  /\ processing' \in CompletedStates => delivery # "not_published"
  /\ processing' \notin {"cancelled", "not_found"}
  /\ delivery' = delivery

\* The ways a step moves the job row.
RowMove ==
  \/ UNCHANGED <<processing, delivery>>
  \/ processing = Absent /\ processing' = "ready" /\ delivery' = delivery
  \/ Advances
  \/ /\ processing = "publishing" /\ delivery = "not_published"
     /\ delivery' = "available" /\ processing' = processing
  \/ /\ delivery # "not_published" /\ delivery' \in AllowedDelivery(delivery)
     /\ processing' = processing

\* A stage change that succeeds only for published work.
LEMMA StageMoves ==
  ASSUME TypeInv, NEW w \in Workers, NEW place,
         NEW new \in {"downloading", "verifying_master", "publishing", "completed"},
         Stage(w, new, place), delivery' = delivery,
         new = "completed" => delivery # "not_published"
  PROVE  RowMove
  BY DEF Stage, RowMove, Advances, AllowedProcessing, ProcessingState, CompletedStates,
     TypeInv, TypeOK, Absent

\* Every step moves the job row in one of these ways.
LEMMA RowMoves ==
  ASSUME TypeInv, [Next]_<<vars, leftOpen, deployment>>
  PROVE  RowMove
<1> USE DEF jobVars, storeVars, workerVars
<1>1. ASSUME NEW w \in Workers, Pipeline(w) PROVE RowMove
  <2>1. CASE BeginDownloading(w)
    BY <2>1, StageMoves DEF BeginDownloading
  <2>2. CASE BeginVerifyingMaster(w)
    BY <2>2, StageMoves DEF BeginVerifyingMaster
  <2>3. CASE BeginPublishing(w)
    BY <2>3, StageMoves DEF BeginPublishing
  <2>4. CASE Complete(w)
    BY <2>4, StageMoves DEF Complete, TypeInv, PlaceInv
  <2>5. CASE MarkAvailable(w)
    BY <2>5 DEF MarkAvailable, RowMove
  <2>6. CASE \/ ClaimNextJob(w) \/ UploadObject(w) \/ RecordOutput(w) \/ NoticeLostClaim(w)
             \/ ReleaseClaim(w)
    BY <2>6 DEF ClaimNextJob, UploadObject, RecordOutput, NoticeLostClaim, ReleaseClaim, RowMove
  <2> QED
    BY <1>1, <2>1, <2>2, <2>3, <2>4, <2>5, <2>6 DEF Pipeline
<1>2. ASSUME NEW w \in Workers, FailedAttempt(w) \/ Fault(w) PROVE RowMove
  <2>1. CASE FailJob(w)
    BY <2>1 DEF FailJob, RowMove, Advances, AllowedProcessing, ProcessingState, CompletedStates,
       SourceAccessStages, TypeInv, TypeOK, Absent
  <2>2. CASE ~FailJob(w)
    BY <1>2, <2>2 DEF FailedAttempt, Fault, RollbackUnpublished, CollectOutputs,
       RemoveUnpublished, UnlistUnpublished, RecordFails, StepRaises, HandlerRaises,
       ReleaseFails, Crash, RowMove
  <2> QED
    BY <2>1, <2>2
<1>3. ASSUME NEW w \in Workers, CleanupExpired(w) \/ CleanupFails(w) PROVE RowMove
  BY <1>3 DEF CleanupExpired, ExpireDueJobs, ListCleanupOutputs, SweepObject,
     MarkOutputDeleted, MarkJobDeletedIfEmpty, CleanupFails, RowMove, Closing,
     AllowedDelivery, DeliveryState
<1>4. ASSUME NEW w \in Workers, RecoverAbandonedJob(w) PROVE RowMove
  BY <1>4 DEF RecoverAbandonedJob, RowMove, Advances, AllowedProcessing, ProcessingState,
     CompletedStates, ActiveProcessingStates
<1>5. CASE CreateJob \/ RetryJob \/ RequestEarlyDeletion
  BY <1>5 DEF CreateJob, RetryJob, RequestEarlyDeletion, RowMove, Advances,
     AllowedProcessing, ProcessingState, CompletedStates, AllowedDelivery, DeliveryState
<1>6. CASE LeaseExpires \/ TimePasses \/ UNCHANGED vars \/ \E k \in Keys : LifecycleRule(k)
  BY <1>6 DEF LeaseExpires, TimePasses, vars, LifecycleRule, RowMove
<1> QED
  BY <1>1, <1>2, <1>3, <1>4, <1>5, <1>6, NextCases

\* Each of them is a step of the lifecycle.
LEMMA MoveIsLifecycle ==
  ASSUME RowMove, NEW j \in TheJob
  PROVE  Lifecycle!JobStep(j) \/ Lifecycle!JobUnchanged(j)
<1> USE SameVocabulary
<1>1. CASE UNCHANGED <<processing, delivery>>
  BY <1>1 DEF Lifecycle!JobUnchanged
<1>2. CASE processing = Absent /\ processing' = "ready" /\ delivery' = delivery
  BY <1>2 DEF Lifecycle!JobStep, Lifecycle!Create, QueuedStates
<1>3. CASE Advances
  <2>1. processing' \in Lifecycle!Reachable(processing)
    <3>1. "ready" \in AllowedProcessing("failed") /\ "ready" \in AllowedProcessing("interrupted")
      BY DEF AllowedProcessing, ProcessingState
    <3> QED
      BY <1>3, <3>1 DEF Advances, Lifecycle!Reachable, QueuedStates
  <2> QED
    BY <1>3, <2>1 DEF Advances, Lifecycle!JobStep, Lifecycle!Advance
<1>4. CASE /\ processing = "publishing" /\ delivery = "not_published"
           /\ delivery' = "available" /\ processing' = processing
  BY <1>4 DEF Lifecycle!JobStep, Lifecycle!Publish
<1>5. CASE /\ delivery # "not_published" /\ delivery' \in AllowedDelivery(delivery)
           /\ processing' = processing
  BY <1>5 DEF Lifecycle!JobStep, Lifecycle!Retire
<1> QED
  BY <1>1, <1>2, <1>3, <1>4, <1>5 DEF RowMove

\* Publication, rollback, cleanup and recovery, by workers that may have lost their
\* claim, move the job row as JobLifecycle says: the detailed delivery implements it.
THEOREM LifecycleImplemented == Spec => FollowsLifecycle
<1>1. Init => Lifecycle!Init
  BY SameVocabulary DEF Init, Lifecycle!Init
<1>2. TypeInv /\ [Next]_<<vars, leftOpen, deployment>> => [Lifecycle!Next]_(Lifecycle!vars)
  BY RowMoves, MoveIsLifecycle DEF Lifecycle!Next
<1> QED
  BY InitTypes, TypeStep, <1>1, <1>2, PTL DEF Spec, FollowsLifecycle

-----------------------------------------------------------------------------
(* One worker.                                                             *)

\* The files of its pass a worker has sent and recorded.
Sent(w) == { <<f, bundle[w][f]>> : f \in 1..next[w] - 1 }

\* Its pass is the last one begun.  What it has sent is dated by it, row and object,
\* and no other row is.
SendInv(w) ==
  /\ pc[w] \in {"idle", "claimed", "acquiring", "publishing",
                 "listing", "sweeping", "striking", "closing"} => next[w] = 1
  /\ pc[w] \in {"uploading", "recording"} =>
       /\ pass[w] = passes
       /\ \A k \in Keys : rows[k] = passes => k \in Sent(w)
       /\ \A k \in Sent(w) :
            rows[k] = passes /\ (elapsed < passes => objects[k] = passes)
  /\ pc[w] = "recording" /\ elapsed < passes => objects[Key(w)] = passes

\* What is published is no longer worked on, and is not rolled back.
OfferInv(w) ==
  /\ delivery = "available" =>
       /\ pc[w] \notin {"claimed", "acquiring", "publishing", "uploading", "recording"}
       /\ processing \in {"publishing", "completed", "failed"}
  /\ pc[w] \in {"collecting", "removing", "unlisting"} => delivery = "not_published"

\* Rows end with the pass that made them; of a published job only what is offered
\* ends with the offer, and while the offer lasts all of it is there.
RowInv ==
  /\ \A k \in Keys : rows[k] <= passes
  /\ expires <= passes
  /\ delivery # "not_published" =>
       \A k \in Live : rows[k] <= expires /\ (rows[k] = expires => k \in offered)
  /\ delivery = "available" /\ expires > elapsed =>
       \A k \in offered : rows[k] = expires /\ objects[k] = expires

\* A cleanup pass goes through nothing of an offer that lasts, and strikes an output
\* whose object it has deleted.
SweepInv(w) ==
  /\ pc[w] \in {"sweeping", "striking"} /\ delivery = "available" /\ expires > elapsed =>
       listed[w] \intersect offered = {}
  /\ pc[w] = "striking" => objects[First(w)] = 0

SoleInv(w) == SendInv(w) /\ OfferInv(w) /\ RowInv /\ SweepInv(w)


\* Steps of nobody's: time, leases, the web and the bucket.
Outside ==
  \/ CreateJob \/ LeaseExpires \/ RetryJob \/ RequestEarlyDeletion \/ TimePasses
  \/ \E w \in Workers : RecoverAbandonedJob(w)
  \/ \E k \in Keys : LifecycleRule(k)
  \/ UNCHANGED vars

\* With one worker, every other step is its own.
LEMMA SoleCases ==
  ASSUME TypeInv, [Next]_<<vars, leftOpen, deployment>>,
         NEW w \in Workers, deployment.staff = {w}
  PROVE  \/ Pipeline(w) \/ FailedAttempt(w) \/ Fault(w) \/ CleanupExpired(w) \/ CleanupFails(w)
         \/ Outside
  BY NextCases DEF Outside

\* What the steps outside change: no place, no row, and an object only if it is due.
LEMMA OutsideSteps ==
  ASSUME TypeInv, Outside
  PROVE  /\ UNCHANGED <<expires, offered, passes, rows, workerVars>>
         /\ elapsed' \in elapsed..passes
         /\ \A k \in Keys : objects'[k] = objects[k] \/ (objects[k] <= elapsed /\ objects'[k] = 0)
         /\ delivery' = "available" => delivery = "available"
         /\ delivery' = "not_published" <=> delivery = "not_published"
<1> USE DEF TypeInv, TypeOK, jobVars, storeVars, vars
<1>1. CASE LeaseExpires \/ UNCHANGED vars
  BY <1>1 DEF LeaseExpires
<1>2. CASE CreateJob \/ RetryJob \/ RequestEarlyDeletion
  BY <1>2 DEF CreateJob, RetryJob, RequestEarlyDeletion
<1>3. CASE TimePasses
  BY <1>3 DEF TimePasses
<1>4. ASSUME NEW v \in Workers, RecoverAbandonedJob(v)
      PROVE  /\ UNCHANGED <<expires, offered, passes, rows, workerVars>>
             /\ UNCHANGED <<elapsed, objects, delivery>>
  BY <1>4 DEF RecoverAbandonedJob
<1>5. ASSUME NEW q \in Keys, LifecycleRule(q)
      PROVE  /\ UNCHANGED <<expires, offered, passes, rows, workerVars, elapsed, delivery>>
             /\ \A k \in Keys : objects'[k] = objects[k] \/ (objects[k] <= elapsed /\ objects'[k] = 0)
  BY <1>5 DEF LifecycleRule
<1> QED
  BY <1>1, <1>2, <1>3, <1>4, <1>5 DEF Outside

\* The file in hand is not among those sent, and all of them are keys.
LEMMA KeyOf ==
  ASSUME TypeInv, NEW w \in Workers
  PROVE  /\ \A k \in Sent(w) : k # Key(w)
         /\ next[w] - 1 <= FileCount => Sent(w) \subseteq Keys
<1>1. \A k \in Sent(w) : k # Key(w)
  BY DEF Sent, Key, TypeInv, TypeOK
<1>2. ASSUME next[w] - 1 <= FileCount PROVE Sent(w) \subseteq Keys
  BY <1>2, PublicationAssumption DEF Sent, Keys, TypeInv, TypeOK
<1> QED
  BY <1>1, <1>2

\* Every step keeps what a worker has sent.
LEMMA SendStep ==
  ASSUME TypeInv, [Next]_<<vars, leftOpen, deployment>>,
         NEW w \in Workers, deployment.staff = {w}, SoleInv(w)
  PROVE  SendInv(w)'
<1> USE DEF TypeInv, TypeOK, jobVars, storeVars, workerVars, Goto
<1>0. next[w] - 1 <= FileCount
  BY PublicationAssumption
<1>1. CASE UploadObject(w)
  <2>0. Key(w) \in Keys /\ next[w] <= deployment.files
    BY <1>1, InHand DEF UploadObject
  <2>1. Sent(w)' = Sent(w) /\ Key(w)' = Key(w)
    BY <1>1 DEF UploadObject, Sent, Key
  <2>2. CASE objects' = [objects EXCEPT ![Key(w)] = pass[w]] /\ pc' = [pc EXCEPT ![w] = "recording"]
    <3>1. objects'[Key(w)] = passes
      BY <1>1, <2>0, <2>2 DEF UploadObject, SoleInv, SendInv
    <3>2. \A k \in Sent(w) : objects'[k] = objects[k]
      BY <1>0, <2>0, <2>2, KeyOf
    <3> QED
      BY <1>1, <2>1, <2>2, <3>1, <3>2 DEF UploadObject, SoleInv, SendInv
  <2>3. CASE pc' = [pc EXCEPT ![w] = "rollback"]
    BY <2>3 DEF SendInv
  <2> QED
    BY <1>1, <2>2, <2>3 DEF UploadObject
<1>2. CASE RecordOutput(w)
  <2>0. Key(w) \in Keys /\ next[w] <= deployment.files
    BY <1>2, InHand DEF RecordOutput, PlaceInv
  <2>1. /\ pc[w] = "recording" /\ pc'[w] = "uploading" /\ next'[w] = next[w] + 1
        /\ UNCHANGED <<objects, bundle, pass, passes, elapsed>>
    BY <1>2 DEF RecordOutput
  <2>2. Sent(w)' = Sent(w) \union {Key(w)}
    BY <2>1 DEF Sent, Key
  <2>3. \A k \in Keys : rows'[k] = IF k = Key(w) THEN passes ELSE rows[k]
    BY <1>2, <2>0, <2>1 DEF RecordOutput, SoleInv, SendInv
  <2>4. Sent(w) \subseteq Keys
    BY <1>0, KeyOf
  <2> QED
    BY <2>0, <2>1, <2>2, <2>3, <2>4 DEF SoleInv, SendInv
<1>3. CASE BeginPublishing(w)
  <2>1. CASE pc'[w] = "uploading"
    <3>1. next'[w] = 1 /\ passes' = passes + 1 /\ pass'[w] = passes' /\ rows' = rows
      BY <1>3, <2>1 DEF BeginPublishing, SoleInv, SendInv
    <3>2. Sent(w)' = {}
      BY <3>1 DEF Sent
    <3>3. \A k \in Keys : rows'[k] # passes'
      BY <3>1 DEF SoleInv, RowInv
    <3> QED
      BY <2>1, <3>1, <3>2, <3>3 DEF SendInv
  <2>2. CASE pc'[w] = "rollback"
    BY <2>2 DEF SendInv
  <2> QED
    BY <1>3, <2>1, <2>2 DEF BeginPublishing
<1>4. CASE /\ Pipeline(w) \/ FailedAttempt(w) \/ Fault(w) \/ CleanupExpired(w) \/ CleanupFails(w)
           /\ ~(UploadObject(w) \/ RecordOutput(w) \/ BeginPublishing(w))
  <2>1. CASE Pipeline(w)
    BY <1>4, <2>1 DEF Pipeline, ClaimNextJob, BeginDownloading, BeginVerifyingMaster,
       Stage, MarkAvailable, Complete, NoticeLostClaim, ReleaseClaim, Leave, SoleInv, SendInv
  <2>2. CASE FailedAttempt(w) \/ Fault(w)
    BY <2>2 DEF FailedAttempt, Fault, RollbackUnpublished, CollectOutputs, Proceed,
       RemoveUnpublished, UnlistUnpublished, FailJob, RecordFails, StepRaises,
       HandlerRaises, ReleaseFails, Crash, Leave, SendInv
  <2>3. CASE CleanupExpired(w) \/ CleanupFails(w)
    BY <2>3 DEF CleanupExpired, ExpireDueJobs, ListCleanupOutputs, SweepObject,
       MarkOutputDeleted, MarkJobDeletedIfEmpty, CleanupFails, Leave, Proceed, SoleInv, SendInv
  <2> QED
    BY <1>4, <2>1, <2>2, <2>3
<1>5. CASE Outside
  <2>1. Sent(w)' = Sent(w) /\ Key(w)' = Key(w) /\ UNCHANGED <<passes, rows, workerVars>>
    BY <1>5, OutsideSteps DEF Sent, Key
  <2>2. Sent(w) \subseteq Keys /\ (pc[w] = "recording" => Key(w) \in Keys)
    BY <1>0, KeyOf, InHand DEF PlaceInv
  <2>3. \A k \in Keys : elapsed' < passes /\ objects[k] = passes => objects'[k] = passes
    BY <1>5, OutsideSteps
  <2>4. elapsed <= elapsed' /\ elapsed' \in Nat
    BY <1>5, OutsideSteps
  <2> QED
    BY <2>1, <2>2, <2>3, <2>4 DEF SoleInv, SendInv
<1> QED
  BY <1>1, <1>2, <1>3, <1>4, <1>5, SoleCases

\* Every step keeps a published job out of the pipeline and the rollback.
LEMMA OfferStep ==
  ASSUME TypeInv, [Next]_<<vars, leftOpen, deployment>>,
         NEW w \in Workers, deployment.staff = {w}, SoleInv(w)
  PROVE  OfferInv(w)'
<1> USE DEF TypeInv, TypeOK, jobVars, storeVars, workerVars, Goto, SoleInv, OfferInv
<1>1. CASE Pipeline(w)
  BY <1>1 DEF Pipeline, ClaimNextJob, BeginDownloading, BeginVerifyingMaster, BeginPublishing,
     Stage, UploadObject, RecordOutput, MarkAvailable, Complete, NoticeLostClaim, ReleaseClaim,
     Leave
<1>2. CASE FailedAttempt(w)
  BY <1>2 DEF FailedAttempt, RollbackUnpublished, CollectOutputs, Proceed, RemoveUnpublished,
     UnlistUnpublished, FailJob, RecordFails, SourceAccessStages
<1>3. CASE Fault(w)
  BY <1>3 DEF Fault, StepRaises, HandlerRaises, ReleaseFails, Crash, Leave
<1>4. CASE CleanupExpired(w) \/ CleanupFails(w)
  BY <1>4 DEF CleanupExpired, ExpireDueJobs, ListCleanupOutputs, SweepObject,
     MarkOutputDeleted, MarkJobDeletedIfEmpty, CleanupFails, Leave, Proceed
<1>5. CASE Outside
  BY <1>5 DEF Outside, CreateJob, LeaseExpires, RetryJob, RequestEarlyDeletion, TimePasses,
     RecoverAbandonedJob, LifecycleRule, vars, Absent, ActiveProcessingStates
<1> QED
  BY <1>1, <1>2, <1>3, <1>4, <1>5, SoleCases

\* What a step of the worker does to the rows and the objects.
LEMMA RowEffects ==
  ASSUME TypeInv, NEW w \in Workers,
         \/ Pipeline(w) /\ ~RecordOutput(w)
         \/ FailedAttempt(w) \/ Fault(w) \/ CleanupExpired(w) \/ CleanupFails(w)
  PROVE  /\ \A k \in Keys : rows'[k] # rows[k] =>
              /\ pc[w] \in {"unlisting", "striking"} /\ k \in listed[w] /\ rows'[k] = 0
         /\ \A k \in Keys : objects'[k] # objects[k] =>
              \/ pc[w] \in {"uploading", "recording"}
              \/ pc[w] \in {"removing", "sweeping"} /\ k \in listed[w]
         /\ elapsed' = elapsed /\ passes <= passes' /\ passes' \in Nat
<1> USE DEF TypeInv, TypeOK, jobVars, storeVars, workerVars
<1>1. CASE Pipeline(w) /\ ~RecordOutput(w)
  BY <1>1 DEF Pipeline, ClaimNextJob, BeginDownloading, BeginVerifyingMaster, BeginPublishing,
     UploadObject, MarkAvailable, Complete, NoticeLostClaim, ReleaseClaim
<1>2. CASE FailedAttempt(w)
  <2>1. CASE RemoveUnpublished(w) \/ UnlistUnpublished(w)
    <3>1. /\ pc[w] = "removing" => rows' = rows
          /\ pc[w] = "unlisting" => objects' = objects
          /\ rows' \in {rows, [rows EXCEPT ![First(w)] = 0]}
          /\ objects' \in {objects, [objects EXCEPT ![First(w)] = 0]}
          /\ pc[w] \in {"removing", "unlisting"} /\ UNCHANGED <<passes, elapsed>>
      BY <2>1 DEF RemoveUnpublished, UnlistUnpublished
    <3>2. First(w) \in listed[w]
      BY <3>1, InHand DEF PlaceInv
    <3> QED
      BY <3>1, <3>2
  <2>2. CASE RollbackUnpublished(w) \/ CollectOutputs(w) \/ FailJob(w) \/ RecordFails(w)
    BY <2>2 DEF RollbackUnpublished, CollectOutputs, FailJob, RecordFails
  <2> QED
    BY <1>2, <2>1, <2>2 DEF FailedAttempt
<1>3. CASE Fault(w) \/ CleanupFails(w)
  BY <1>3 DEF Fault, StepRaises, HandlerRaises, ReleaseFails, Crash, CleanupFails
<1>4. CASE CleanupExpired(w)
  <2>1. CASE SweepObject(w) \/ MarkOutputDeleted(w)
    <3>1. /\ pc[w] = "sweeping" => rows' = rows
          /\ pc[w] = "striking" => objects' = objects
          /\ rows' \in {rows, [rows EXCEPT ![First(w)] = 0]}
          /\ objects' \in {objects, [objects EXCEPT ![First(w)] = 0]}
          /\ pc[w] \in {"sweeping", "striking"} /\ UNCHANGED <<passes, elapsed>>
      BY <2>1 DEF SweepObject, MarkOutputDeleted
    <3>2. First(w) \in listed[w]
      BY <3>1, InHand DEF PlaceInv
    <3> QED
      BY <3>1, <3>2
  <2>2. CASE ExpireDueJobs(w) \/ ListCleanupOutputs(w) \/ MarkJobDeletedIfEmpty(w)
    BY <2>2 DEF ExpireDueJobs, ListCleanupOutputs, MarkJobDeletedIfEmpty
  <2> QED
    BY <1>4, <2>1, <2>2 DEF CleanupExpired
<1> QED
  BY <1>1, <1>2, <1>3, <1>4

\* Only one step makes the offer; no other changes it or brings it back.
LEMMA OfferEffects ==
  ASSUME TypeInv, NEW w \in Workers,
         \/ Pipeline(w) /\ ~MarkAvailable(w)
         \/ FailedAttempt(w) \/ Fault(w) \/ CleanupExpired(w) \/ CleanupFails(w)
  PROVE  /\ UNCHANGED <<expires, offered>>
         /\ delivery' = "available" => delivery = "available"
         /\ delivery' = "not_published" <=> delivery = "not_published"
<1> USE DEF TypeInv, TypeOK, jobVars, storeVars, workerVars
<1>1. CASE Pipeline(w) /\ ~MarkAvailable(w)
  BY <1>1 DEF Pipeline, ClaimNextJob, BeginDownloading, BeginVerifyingMaster, BeginPublishing,
     UploadObject, RecordOutput, Complete, NoticeLostClaim, ReleaseClaim
<1>2. CASE FailedAttempt(w) \/ Fault(w)
  BY <1>2 DEF FailedAttempt, Fault, RollbackUnpublished, CollectOutputs, RemoveUnpublished,
     UnlistUnpublished, FailJob, RecordFails, StepRaises, HandlerRaises, ReleaseFails, Crash
<1>3. CASE CleanupExpired(w) \/ CleanupFails(w)
  BY <1>3 DEF CleanupExpired, ExpireDueJobs, ListCleanupOutputs, SweepObject,
     MarkOutputDeleted, MarkJobDeletedIfEmpty, CleanupFails, Closing
<1> QED
  BY <1>1, <1>2, <1>3

\* Every step keeps what rows and objects are dated by.
LEMMA RowStep ==
  ASSUME TypeInv, [Next]_<<vars, leftOpen, deployment>>,
         NEW w \in Workers, deployment.staff = {w}, SoleInv(w)
  PROVE  RowInv'
<1> USE DEF TypeInv, TypeOK, SoleInv
<1>1. CASE RecordOutput(w)
  <2>0. Key(w) \in Keys
    BY <1>1, InHand DEF RecordOutput, PlaceInv
  <2>1. /\ UNCHANGED <<delivery, expires, passes>> /\ delivery = "not_published"
        /\ pass[w] = passes
    BY <1>1 DEF RecordOutput, SendInv, jobVars
  <2>2. \A k \in Keys : rows'[k] \in {rows[k], passes}
    BY <1>1, <2>0, <2>1 DEF RecordOutput
  <2>3. ASSUME NEW k \in Keys PROVE rows'[k] <= passes'
    <3>1. rows[k] <= passes
      BY DEF RowInv
    <3>2. rows[k] \in Int /\ passes \in Int /\ passes <= passes' /\ passes' \in Int
      BY <2>1, <2>2, PublicationAssumption
    <3>3. rows'[k] \in {rows[k], 0, passes} /\ 0 <= passes
      BY <2>1, <2>2, PublicationAssumption
    <3> QED
      BY <3>1, <3>2, <3>3
  <2>4. expires' <= passes' /\ delivery' = "not_published"
    BY <2>1 DEF RowInv
  <2> QED
    BY <2>3, <2>4 DEF RowInv
<1>2. CASE MarkAvailable(w)
  <2>1. UNCHANGED <<rows, objects, passes, elapsed>>
    BY <1>2 DEF MarkAvailable, storeVars
  <2>2. CASE UNCHANGED <<delivery, expires, offered>>
    BY <2>1, <2>2 DEF RowInv, Live
  <2>3. CASE /\ delivery' = "available" /\ expires' = pass[w] /\ offered' = Bundle(w)
    <3>1. Bundle(w) = Sent(w) /\ Sent(w) \subseteq Keys
      BY <1>2, DeploymentFacts, KeyOf, PublicationAssumption DEF MarkAvailable, Bundle, Sent
    <3>2. /\ pass[w] = passes
          /\ \A k \in Keys : rows[k] = passes => k \in Sent(w)
          /\ \A k \in Sent(w) : rows[k] = passes /\ (elapsed < passes => objects[k] = passes)
      BY <1>2 DEF MarkAvailable, SendInv
    <3> QED
      BY <2>1, <2>3, <3>1, <3>2 DEF RowInv, Live
  <2> QED
    BY <1>2, <2>2, <2>3 DEF MarkAvailable
<1>3. CASE /\ \/ Pipeline(w) /\ ~RecordOutput(w)
              \/ FailedAttempt(w) \/ Fault(w) \/ CleanupExpired(w) \/ CleanupFails(w)
           /\ ~MarkAvailable(w)
  <2>1. /\ UNCHANGED <<expires, offered>>
        /\ delivery' = "available" => delivery = "available"
        /\ delivery' # "not_published" => delivery # "not_published"
    BY <1>3, OfferEffects
  <2>2. /\ elapsed' = elapsed /\ passes <= passes' /\ passes' \in Nat
        /\ \A k \in Keys : rows'[k] \in {rows[k], 0}
    BY <1>3, RowEffects
  <2>3. ASSUME delivery = "available", expires > elapsed
        PROVE  \A k \in offered : rows'[k] = rows[k] /\ objects'[k] = objects[k]
    <3>1. pc[w] \notin {"uploading", "recording", "removing", "unlisting"}
      BY <2>3 DEF OfferInv
    <3>2. pc[w] \in {"sweeping", "striking"} => listed[w] \intersect offered = {}
      BY <2>3 DEF SweepInv
    <3> QED
      BY <1>3, <3>1, <3>2, RowEffects
  <2>4. ASSUME NEW k \in Keys PROVE rows'[k] <= passes'
    <3>1. rows[k] <= passes
      BY DEF RowInv
    <3>2. rows[k] \in Int /\ passes \in Int /\ passes <= passes' /\ passes' \in Int
      BY <2>2, PublicationAssumption
    <3>3. rows'[k] \in {rows[k], 0, passes} /\ 0 <= passes
      BY <2>2, PublicationAssumption
    <3> QED
      BY <3>1, <3>2, <3>3
  <2>5. expires' <= passes'
    BY <2>1, <2>2 DEF RowInv
  <2>6. ASSUME delivery' # "not_published", NEW k \in Live'
        PROVE  rows'[k] <= expires' /\ (rows'[k] = expires' => k \in offered')
    <3>1. k \in Keys /\ rows'[k] = rows[k] /\ rows[k] # 0
      BY <2>2, <2>6 DEF Live
    <3> QED
      BY <2>1, <2>6, <3>1 DEF RowInv, Live
  <2>7. ASSUME delivery' = "available", expires' > elapsed', NEW k \in offered'
        PROVE  rows'[k] = expires' /\ objects'[k] = expires'
    BY <2>1, <2>2, <2>3, <2>7 DEF RowInv
  <2> QED
    BY <2>4, <2>5, <2>6, <2>7 DEF RowInv
<1>4. CASE Outside
  BY <1>4, OutsideSteps DEF RowInv, Live
<1> QED
  BY <1>1, <1>2, <1>3, <1>4, SoleCases DEF Pipeline

\* Every step keeps what a cleanup pass may go through.
LEMMA SweepStep ==
  ASSUME TypeInv, [Next]_<<vars, leftOpen, deployment>>,
         NEW w \in Workers, deployment.staff = {w}, SoleInv(w)
  PROVE  SweepInv(w)'
<1> USE DEF TypeInv, TypeOK, jobVars, storeVars, workerVars, Goto, SoleInv
<1>1. CASE Pipeline(w)
  BY <1>1 DEF Pipeline, ClaimNextJob, BeginDownloading, BeginVerifyingMaster, BeginPublishing,
     Stage, UploadObject, RecordOutput, MarkAvailable, Complete, NoticeLostClaim, ReleaseClaim,
     Leave, SweepInv
<1>2. CASE FailedAttempt(w) \/ Fault(w)
  BY <1>2 DEF FailedAttempt, Fault, RollbackUnpublished, CollectOutputs, Proceed,
     RemoveUnpublished, UnlistUnpublished, FailJob, RecordFails, StepRaises, HandlerRaises,
     ReleaseFails, Crash, Leave, SweepInv
<1>3. CASE ListCleanupOutputs(w)
  <2>1. ASSUME delivery = "available", expires > elapsed PROVE Due \intersect offered = {}
    BY <2>1 DEF Due, Live, Closing, RowInv
  <2> QED
    BY <1>3, <2>1 DEF ListCleanupOutputs, SweepInv
<1>4. CASE SweepObject(w)
  <2>1. First(w) \in Keys /\ First(w)' = First(w)
    BY <1>4, InHand DEF SweepObject, PlaceInv, First
  <2>2. objects'[First(w)] = 0
    BY <1>4, <2>1 DEF SweepObject
  <2> QED
    BY <1>4, <2>1, <2>2 DEF SweepObject, SweepInv
<1>5. CASE MarkOutputDeleted(w)
  BY <1>5 DEF MarkOutputDeleted, Proceed, SweepInv
<1>6. CASE ExpireDueJobs(w) \/ MarkJobDeletedIfEmpty(w) \/ CleanupFails(w)
  BY <1>6 DEF ExpireDueJobs, MarkJobDeletedIfEmpty, CleanupFails, Leave, SweepInv
<1>7. CASE Outside
  <2>1. First(w)' = First(w) /\ (pc[w] = "striking" => First(w) \in Keys)
    BY <1>7, OutsideSteps, InHand DEF First, PlaceInv
  <2>2. pc[w] = "striking" /\ objects[First(w)] = 0 => objects'[First(w)] = 0
    BY <1>7, <2>1, OutsideSteps
  <2>3. /\ UNCHANGED <<expires, offered, pc, listed>> /\ elapsed' >= elapsed
        /\ elapsed' \in Nat
        /\ delivery' = "available" => delivery = "available"
    BY <1>7, OutsideSteps
  <2> QED
    BY <2>1, <2>2, <2>3 DEF SweepInv
<1> QED
  BY <1>1, <1>2, <1>3, <1>4, <1>5, <1>6, <1>7, SoleCases DEF CleanupExpired

\* All of it together, for whichever worker is the only one.
LoneInv == TypeInv /\ \A w \in Workers : deployment.staff = {w} => SoleInv(w)

\* At first all of it holds.
LEMMA InitLone == Init => LoneInv
<1> SUFFICES ASSUME Init PROVE LoneInv
  OBVIOUS
<1>1. ASSUME NEW w \in Workers PROVE SoleInv(w)
  BY DEF Init, SoleInv, SendInv, OfferInv, RowInv, SweepInv, Live
<1> QED
  BY <1>1, InitTypes DEF LoneInv

\* And every step keeps it.
LEMMA LoneStep == LoneInv /\ [Next]_<<vars, leftOpen, deployment>> => LoneInv'
<1> SUFFICES ASSUME LoneInv, [Next]_<<vars, leftOpen, deployment>> PROVE LoneInv'
  OBVIOUS
<1>1. TypeInv /\ UNCHANGED deployment
  BY NextCases DEF LoneInv
<1>2. ASSUME NEW w \in Workers, deployment.staff = {w} PROVE SoleInv(w)'
  BY <1>1, <1>2, SendStep, OfferStep, RowStep, SweepStep DEF LoneInv, SoleInv
<1> QED
  BY <1>1, <1>2, TypeStep DEF LoneInv

-----------------------------------------------------------------------------
(* One file that always comes out the same.                                *)

\* One key at most has a row, whoever recorded it, and the offer names it.
ObjectInv(d) ==
  /\ \A k \in Live : k = <<1, d>>
  /\ \A w \in Workers : pc[w] \in {"uploading", "recording"} => bundle[w][1] = d
  /\ delivery # "not_published" => \A k \in Live : rows[k] = expires /\ k \in offered

OneObjectInv ==
  /\ TypeInv
  /\ deployment.files = 1 => \A d \in Digests : deployment.contents = {d} => ObjectInv(d)

\* At first there is no row.
LEMMA InitObject == Init => OneObjectInv
<1> SUFFICES ASSUME Init PROVE OneObjectInv
  OBVIOUS
<1>1. ASSUME NEW d \in Digests PROVE ObjectInv(d)
  BY DEF Init, ObjectInv, Live
<1> QED
  BY <1>1, InitTypes DEF OneObjectInv

\* A step that adds no row, makes no offer and begins no pass keeps it.
LEMMA ObjectKept ==
  ASSUME TypeInv, NEW d \in Digests, ObjectInv(d),
         \A k \in Keys : rows'[k] \in {rows[k], 0},
         UNCHANGED <<expires, offered>>,
         delivery' = "not_published" <=> delivery = "not_published",
         \A w \in Workers : pc'[w] \in {"uploading", "recording"} =>
           pc[w] \in {"uploading", "recording"} /\ bundle'[w] = bundle[w]
  PROVE  ObjectInv(d)'
<1>1. \A k \in Live' : k \in Live /\ rows'[k] = rows[k]
  BY DEF Live
<1> QED
  BY <1>1 DEF ObjectInv

\* So does every step, whose worker it may be.
LEMMA ObjectStep ==
  ASSUME TypeInv, [Next]_<<vars, leftOpen, deployment>>, deployment.files = 1,
         NEW d \in Digests, deployment.contents = {d}, ObjectInv(d)
  PROVE  ObjectInv(d)'
<1> USE DEF TypeInv, TypeOK
<1>1. ASSUME NEW w \in Workers, RecordOutput(w) PROVE ObjectInv(d)'
  <2>1. Key(w) = <<1, d>> /\ Key(w) \in Keys
    <3>1. next[w] = 1
      BY <1>1, PublicationAssumption DEF RecordOutput, PlaceInv
    <3>2. bundle[w][1] = d
      BY <1>1 DEF RecordOutput, ObjectInv
    <3>3. Key(w) = <<1, d>>
      BY <3>1, <3>2 DEF Key
    <3>4. next[w] <= deployment.files
      BY <3>1
    <3>5. Key(w) \in Keys
      BY <3>4, InHand
    <3> QED
      BY <3>3, <3>5
  <2>2. \A k \in Live' : k = <<1, d>>
    BY <1>1, <2>1 DEF RecordOutput, ObjectInv, Live
  <2>3. delivery' = "not_published"
    BY <1>1 DEF RecordOutput, jobVars
  <2>4. \A v \in Workers : pc'[v] \in {"uploading", "recording"} => bundle'[v][1] = d
    BY <1>1 DEF RecordOutput, ObjectInv, Goto
  <2> QED
    BY <2>2, <2>3, <2>4 DEF ObjectInv
<1>2. ASSUME NEW w \in Workers, MarkAvailable(w) PROVE ObjectInv(d)'
  <2>1. CASE UNCHANGED <<delivery, expires, offered>>
    BY <1>2, <2>1, ObjectKept DEF MarkAvailable, Goto, storeVars
  <2>2. CASE /\ \E k \in Keys : rows[k] = pass[w]
             /\ expires' = pass[w] /\ offered' = Bundle(w)
    <3>1. PICK q \in Keys : rows[q] = pass[w]
      BY <2>2
    <3>2. pass[w] # 0 /\ bundle[w][1] = d /\ UNCHANGED <<rows, bundle>>
      BY <1>2 DEF MarkAvailable, PlaceInv, ObjectInv, storeVars
    <3>3. \A k \in Live : k = q
      BY <3>1, <3>2 DEF ObjectInv, Live
    <3>4. <<1, d>> \in Bundle(w)
      BY <3>2 DEF Bundle
    <3>5. \A k \in Live' : k = <<1, d>> /\ rows'[k] = expires' /\ k \in offered'
      BY <2>2, <3>1, <3>2, <3>3, <3>4 DEF ObjectInv, Live
    <3>6. \A v \in Workers : pc'[v] \in {"uploading", "recording"} => bundle'[v][1] = d
      BY <1>2, <3>2 DEF MarkAvailable, ObjectInv, Goto
    <3> QED
      BY <3>5, <3>6 DEF ObjectInv
  <2> QED
    BY <1>2, <2>1, <2>2 DEF MarkAvailable
<1>3. ASSUME NEW w \in Workers, BeginPublishing(w) PROVE ObjectInv(d)'
  <2>1. UNCHANGED <<rows, expires, offered, delivery>>
    BY <1>3 DEF BeginPublishing, storeVars
  <2>2. CASE pc'[w] = "uploading"
    <3>1. PICK b \in Bundles : bundle' = [bundle EXCEPT ![w] = b]
      BY <1>3, <2>2 DEF BeginPublishing
    <3>2. b[1] = d
      BY PublicationAssumption DEF Bundles
    <3>3. \A v \in Workers : pc'[v] \in {"uploading", "recording"} => bundle'[v][1] = d
      BY <1>3, <3>1, <3>2 DEF BeginPublishing, Stage, Goto, ObjectInv
    <3> QED
      BY <2>1, <3>3 DEF ObjectInv, Live
  <2>3. CASE pc'[w] = "rollback"
    <3>1. bundle' = bundle
      BY <1>3, <2>3 DEF BeginPublishing
    <3>2. \A v \in Workers : pc'[v] \in {"uploading", "recording"} => bundle'[v][1] = d
      BY <1>3, <2>3, <3>1 DEF BeginPublishing, Stage, Goto, ObjectInv
    <3> QED
      BY <2>1, <3>2 DEF ObjectInv, Live
  <2> QED
    BY <1>3, <2>2, <2>3 DEF BeginPublishing
<1>4. ASSUME NEW w \in Workers,
             \/ Pipeline(w) /\ ~(RecordOutput(w) \/ MarkAvailable(w) \/ BeginPublishing(w))
             \/ FailedAttempt(w) \/ Fault(w) \/ CleanupExpired(w) \/ CleanupFails(w)
      PROVE  ObjectInv(d)'
  <2>1. \A k \in Keys : rows'[k] \in {rows[k], 0}
    BY <1>4, RowEffects
  <2>2. /\ UNCHANGED <<expires, offered>>
        /\ delivery' = "not_published" <=> delivery = "not_published"
    BY <1>4, OfferEffects
  <2>3. \A v \in Workers : pc'[v] \in {"uploading", "recording"} =>
          pc[v] \in {"uploading", "recording"} /\ bundle'[v] = bundle[v]
    <3> USE DEF Goto, workerVars
    <3>1. CASE /\ Pipeline(w)
               /\ ~(RecordOutput(w) \/ MarkAvailable(w) \/ BeginPublishing(w))
      BY <3>1 DEF Pipeline, ClaimNextJob, BeginDownloading, BeginVerifyingMaster, Stage,
         UploadObject, Complete, NoticeLostClaim, ReleaseClaim, Leave
    <3>2. CASE FailedAttempt(w) \/ Fault(w)
      BY <3>2 DEF FailedAttempt, Fault, RollbackUnpublished, CollectOutputs, Proceed,
         RemoveUnpublished, UnlistUnpublished, FailJob, RecordFails, StepRaises,
         HandlerRaises, ReleaseFails, Crash, Leave
    <3>3. CASE CleanupExpired(w) \/ CleanupFails(w)
      BY <3>3 DEF CleanupExpired, ExpireDueJobs, ListCleanupOutputs, SweepObject,
         MarkOutputDeleted, MarkJobDeletedIfEmpty, CleanupFails, Leave, Proceed
    <3> QED
      BY <1>4, <3>1, <3>2, <3>3
  <2> QED
    BY <2>1, <2>2, <2>3, ObjectKept
<1>5. CASE Outside
  BY <1>5, OutsideSteps, ObjectKept DEF workerVars
<1> QED
  BY <1>1, <1>2, <1>3, <1>4, <1>5, NextCases DEF Outside, Pipeline

\* Every step keeps it, for whichever content is the only one.
LEMMA OneObjectStep == OneObjectInv /\ [Next]_<<vars, leftOpen, deployment>> => OneObjectInv'
<1> SUFFICES ASSUME OneObjectInv, [Next]_<<vars, leftOpen, deployment>> PROVE OneObjectInv'
  OBVIOUS
<1>1. TypeInv /\ UNCHANGED deployment
  BY NextCases DEF OneObjectInv
<1>2. ASSUME NEW d \in Digests, deployment.files = 1, deployment.contents = {d}
      PROVE  ObjectInv(d)'
  BY <1>1, <1>2, ObjectStep DEF OneObjectInv
<1> QED
  BY <1>1, <1>2, TypeStep DEF OneObjectInv

-----------------------------------------------------------------------------
(* The properties.                                                         *)

\* With one worker process, whatever fails, crashes or lapses, every file offered stays,
\* row and object, until the offer's expiry: neither the cleanup pass nor a rollback
\* touches it, and no later attempt uploads over it.
THEOREM OfferHolds == Spec => []OfferIntact
<1>1. LoneInv => OfferIntact
  BY DEF LoneInv, SoleInv, RowInv, OfferIntact, SoleWorker
<1> QED
  BY InitLone, LoneStep, <1>1, PTL DEF Spec

\* What an earlier attempt left ends before the offer, unless it is one of its files.
THEOREM LeftoversEnd == Spec => []LeftoversEndFirst
<1>1. LoneInv /\ OneObjectInv => LeftoversEndFirst
  <2> SUFFICES ASSUME LoneInv, OneObjectInv, SoleWorker \/ SoleObject,
                      delivery # "not_published", NEW k \in Live
               PROVE  rows[k] <= expires /\ (rows[k] = expires => k \in offered)
    BY DEF LeftoversEndFirst
  <2>1. CASE SoleWorker
    BY <2>1 DEF LoneInv, SoleInv, RowInv, SoleWorker
  <2>2. CASE SoleObject
    <3>1. rows[k] = expires /\ k \in offered
      BY <2>2 DEF OneObjectInv, ObjectInv, SoleObject
    <3>2. expires \in Int
      BY DEF OneObjectInv, TypeInv, TypeOK
    <3> QED
      BY <3>1, <3>2
  <2> QED
    BY <2>1, <2>2
<1> QED
  BY InitLone, LoneStep, InitObject, OneObjectStep, <1>1, PTL DEF Spec

\* With one worker process, an output of a job that is to be deleted is struck only
\* after its object has been deleted: no object is forgotten.
THEOREM StruckHolds == Spec => StruckWithObject
<1>1. ASSUME LoneInv, [Next]_<<vars, leftOpen, deployment>>,
             SoleWorker, Closing, NEW q \in Live, rows'[q] = 0
      PROVE  objects'[q] = 0
  <2> USE DEF TypeInv, TypeOK
  <2>0. TypeInv
    BY <1>1 DEF LoneInv
  <2>1. PICK w \in Workers : deployment.staff = {w} /\ SoleInv(w)
    BY <1>1 DEF LoneInv, SoleWorker
  <2>2. q \in Keys /\ rows[q] # 0 /\ rows'[q] # rows[q]
    BY <1>1 DEF Live
  <2>3. CASE RecordOutput(w)
    BY <1>1, <2>3 DEF RecordOutput, Closing
  <2>4. CASE Outside
    BY <2>0, <2>2, <2>4, OutsideSteps
  <2>5. CASE \/ Pipeline(w) /\ ~RecordOutput(w)
             \/ FailedAttempt(w) \/ Fault(w) \/ CleanupExpired(w) \/ CleanupFails(w)
    <3>1. pc[w] \in {"unlisting", "striking"}
      BY <2>0, <2>2, <2>5, RowEffects
    <3>2. pc[w] = "striking"
      BY <1>1, <2>1, <3>1 DEF SoleInv, OfferInv, Closing
    <3>3. objects[First(w)] = 0
      BY <2>1, <3>2 DEF SoleInv, SweepInv
    <3>4. rows' = [rows EXCEPT ![First(w)] = 0] /\ objects' = objects
      <4>1. MarkOutputDeleted(w) \/ (CleanupFails(w) \/ Fault(w))
        BY <2>5, <3>2 DEF Pipeline, ClaimNextJob, BeginDownloading, BeginVerifyingMaster,
           BeginPublishing, UploadObject, MarkAvailable, Complete, NoticeLostClaim,
           ReleaseClaim, FailedAttempt, RollbackUnpublished, CollectOutputs,
           RemoveUnpublished, UnlistUnpublished, FailJob, RecordFails,
           CleanupExpired, ExpireDueJobs, ListCleanupOutputs, SweepObject,
           MarkJobDeletedIfEmpty
      <4>2. ~(CleanupFails(w) \/ Fault(w))
        BY <2>2 DEF CleanupFails, Fault, StepRaises, HandlerRaises, ReleaseFails, Crash,
           storeVars
      <4> QED
        BY <4>1, <4>2 DEF MarkOutputDeleted
    <3>5. q = First(w)
      BY <2>0, <2>2, <3>4
    <3> QED
      BY <3>3, <3>4, <3>5
  <2> QED
    BY <1>1, <2>0, <2>1, <2>3, <2>4, <2>5, SoleCases
<1>2. LoneInv /\ [Next]_<<vars, leftOpen, deployment>>
        => [SoleWorker /\ Closing => \A k \in Live : rows'[k] = 0 => objects'[k] = 0]_vars
  BY <1>1
<1> QED
  BY InitLone, LoneStep, <1>2, PTL DEF Spec, StruckWithObject
=============================================================================

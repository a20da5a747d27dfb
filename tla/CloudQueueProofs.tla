--------------------------- MODULE CloudQueueProofs ---------------------------
(***************************************************************************)
(* Theorems about CloudQueue for every set of jobs, workers and tokens and  *)
(* every retry limit, checked by the TLA+ proof system.                    *)
(***************************************************************************)
EXTENDS CloudQueue, TLAPS

-----------------------------------------------------------------------------
(* Type correctness.                                                       *)

\* Counting one entry up keeps a table of natural numbers one.
LEMMA CountUp ==
  ASSUME NEW S, NEW f \in [S -> Nat], NEW i
  PROVE  [f EXCEPT ![i] = @ + 1] \in [S -> Nat]
<1>1. CASE i \in S
  <2>1. f[i] + 1 \in Nat
    BY <1>1
  <2>2. QED
    BY <1>1, <2>1
<1>2. CASE i \notin S
  <2>1. [f EXCEPT ![i] = @ + 1] = f
    BY <1>2
  <2>2. QED
    BY <2>1
<1>3. QED
  BY <1>1, <1>2

\* What recovery writes is a processing state.
LEMMA RecoveredIsProcessing ==
  ASSUME NEW j
  PROVE  RecoveredState(j) \in ProcessingState
BY DEF RecoveredState, RequeueTarget, ProcessingState

\* A process that forgets its claim keeps every variable's type.
LEMMA ForgetTypeOK ==
  ASSUME TypeOK, NEW w \in Workers, NEW place \in Place, Forget(w, place),
         UNCHANGED <<rowVars, paused>>,
         recovering' \in [Workers -> SUBSET Jobs], cancelling' \in SUBSET Jobs,
         claim' \in [Jobs -> [token : Tokens \union {NoToken}, live : BOOLEAN,
                             kept : BOOLEAN]]
  PROVE  TypeOK'
BY DEF TypeOK, Forget, Goto, rowVars, ErrorKind

\* So does transition_processing.
LEMMA TransitionTypeOK ==
  ASSUME TypeOK, NEW w \in Workers, NEW new \in ProcessingState,
         NEW place \in Place, Transition(w, new, place)
  PROVE  TypeOK'
<1>1. processing' \in [Jobs -> ProcessingState \union {Absent}]
  BY DEF TypeOK, Transition
<1>2. pc' \in [Workers -> Place]
  <2>1. PICK p \in Place : pc' = [pc EXCEPT ![w] = p]
    BY DEF Transition, Goto, Raise, Place, Running
  <2>2. QED
    BY <2>1 DEF TypeOK
<1>3. err' \in [Workers -> ErrorKind \union {"none"}]
  BY DEF TypeOK, Transition, Raise, ErrorKind
<1>4. UNCHANGED <<delivery, pinned, wants, quality, accessRetries, backoff, paused,
                  recovering, cancelling, claim, job, token, best, attempt, hbLost>>
  BY DEF Transition, lockVars
<1>5. QED
  BY <1>1, <1>2, <1>3, <1>4 DEF TypeOK

\* The initial state has its types.
LEMMA TypeInit ==
  ASSUME Init
  PROVE  TypeOK
BY DEF Init, TypeOK, NoClaim, NoJob, Place, DeliveryState

\* Every step keeps the types, action by action.
LEMMA TypeStep ==
  ASSUME TypeOK, Next
  PROVE  TypeOK'
<1>1. ASSUME NEW w \in Workers, RecoverAbandonedJobs(w) PROVE TypeOK'
  BY <1>1, RecoveredIsProcessing
  DEF TypeOK, RecoverAbandonedJobs, Unclaimed, NoClaim, Goto, Place
<1>2. ASSUME NEW w \in Workers, ReadPaused(w) PROVE TypeOK'
  BY <1>2 DEF TypeOK, lockVars, ReadPaused, rowVars, Goto, Place, Running, InProcess
<1>3. ASSUME NEW w \in Workers, ClaimNextJob(w) PROVE TypeOK'
  BY <1>3 DEF TypeOK, lockVars, ClaimNextJob, rowVars, Goto, Place, Running, InProcess
<1>4. ASSUME NEW w \in Workers, FindNothing(w) PROVE TypeOK'
  BY <1>4 DEF TypeOK, lockVars, FindNothing, rowVars, Goto, Place, Running, InProcess
<1>5. ASSUME NEW w \in Workers, StartAttempt(w) PROVE TypeOK'
  BY <1>5 DEF TypeOK, lockVars, StartAttempt, rowVars, Goto, Place, Running, InProcess
<1>6. ASSUME NEW w \in Workers, ReadJob(w) PROVE TypeOK'
  BY <1>6
  DEF TypeOK, lockVars, ReadJob, rowVars, Raise, ErrorKind, Goto, Place, Running,
      InProcess
<1>7. ASSUME NEW w \in Workers, BeginResolving(w) PROVE TypeOK'
  BY <1>7, TransitionTypeOK
  DEF BeginResolving, ProcessingState, Place, Running, InProcess
<1>8. ASSUME NEW w \in Workers, PersistResolution(w) PROVE TypeOK'
  <2> DEFINE j == job[w]
  <2>1. CASE processing[j] = "resolving"
    <3>1. PICK target \in {"ready", "needs_review", "not_found"} :
            /\ processing' = [processing EXCEPT ![j] = target]
            /\ pinned' = [pinned EXCEPT ![j] = target = "ready"]
            /\ Goto(w, IF target = "ready" THEN "rereading" ELSE "finishing")
      BY <1>8, <2>1 DEF PersistResolution
    <3>2. /\ processing' \in [Jobs -> ProcessingState \union {Absent}]
          /\ pinned' \in [Jobs -> BOOLEAN]
          /\ pc' \in [Workers -> Place]
      BY <3>1 DEF TypeOK, lockVars, Goto, Place, Running, InProcess, ProcessingState
    <3>3. QED
      BY <1>8, <2>1, <3>2 DEF TypeOK, lockVars, PersistResolution
  <2>2. CASE processing[j] # "resolving"
    BY <1>8, <2>2 DEF TypeOK, lockVars, PersistResolution, Goto, Raise, Place, Running,
       ErrorKind
  <2>3. QED
    BY <2>1, <2>2
<1>9. ASSUME NEW w \in Workers, BeginDownloading(w) PROVE TypeOK'
  BY <1>9, TransitionTypeOK
  DEF BeginDownloading, ProcessingState, Place, Running, InProcess
<1>10. ASSUME NEW w \in Workers, BeginVerifyingMaster(w) PROVE TypeOK'
  BY <1>10, TransitionTypeOK
  DEF BeginVerifyingMaster, ProcessingState, Place, Running, InProcess
<1>11. ASSUME NEW w \in Workers, RecordAcquisition(w) PROVE TypeOK'
  <2> DEFINE j == job[w]
  <2>1. CASE processing[j] = "verifying_master"
    <3>1. PICK q \in {"best", "limited"} :
            /\ quality' = [quality EXCEPT ![j] = q]
            /\ best' = [best EXCEPT ![w] = q = "best"]
      BY <1>11, <2>1 DEF RecordAcquisition
    <3>2. /\ quality' \in [Jobs -> {"unset", "best", "limited"}]
          /\ best' \in [Workers -> BOOLEAN]
      BY <3>1 DEF TypeOK
    <3>3. pc' \in [Workers -> Place]
      <4>1. PICK place \in Place : pc' = [pc EXCEPT ![w] = place]
        BY <1>11, <2>1 DEF RecordAcquisition, Goto, Packaging, Place, Running, InProcess
      <4>2. QED
        BY <4>1 DEF TypeOK
    <3>4. QED
      BY <1>11, <2>1, <3>2, <3>3 DEF TypeOK, lockVars, RecordAcquisition
  <2>2. CASE processing[j] # "verifying_master"
    BY <1>11, <2>2 DEF TypeOK, lockVars, RecordAcquisition, Goto, Raise, Place, Running,
       ErrorKind
  <2>3. QED
    BY <2>1, <2>2
<1>12. ASSUME NEW w \in Workers, BeginConverting(w) PROVE TypeOK'
  BY <1>12, TransitionTypeOK
  DEF BeginConverting, ProcessingState, Place, Running, InProcess
<1>13. ASSUME NEW w \in Workers, BeginVerifyingOutput(w) PROVE TypeOK'
  BY <1>13, TransitionTypeOK
  DEF BeginVerifyingOutput, Packaging, ProcessingState, Place, Running,
      InProcess
<1>14. ASSUME NEW w \in Workers, BeginPackaging(w) PROVE TypeOK'
  BY <1>14, TransitionTypeOK
  DEF BeginPackaging, ProcessingState, Place, Running, InProcess
<1>15. ASSUME NEW w \in Workers, BeginPublishing(w) PROVE TypeOK'
  BY <1>15, TransitionTypeOK
  DEF BeginPublishing, ProcessingState, Place, Running, InProcess
<1>16. ASSUME NEW w \in Workers, MarkAvailable(w) PROVE TypeOK'
  <2>1. delivery' \in [Jobs -> DeliveryState]
    <3>1. \/ delivery' = [delivery EXCEPT ![job[w]] = "available"]
          \/ UNCHANGED delivery
      BY <1>16 DEF MarkAvailable
    <3>2. QED
      BY <3>1 DEF TypeOK, DeliveryState
  <2>2. pc' \in [Workers -> Place]
    <3>1. PICK p \in Place : pc' = [pc EXCEPT ![w] = p]
      BY <1>16 DEF MarkAvailable, Goto, Raise, Place, Running, InProcess
    <3>2. QED
      BY <3>1 DEF TypeOK
  <2>3. err' \in [Workers -> ErrorKind \union {"none"}]
    BY <1>16 DEF TypeOK, MarkAvailable, Raise, ErrorKind
  <2>4. UNCHANGED <<processing, pinned, wants, quality, accessRetries, backoff, paused,
                    recovering, cancelling, claim, job, token, best, attempt, hbLost>>
    BY <1>16 DEF MarkAvailable, lockVars
  <2>5. QED
    BY <2>1, <2>2, <2>3, <2>4 DEF TypeOK
<1>17. ASSUME NEW w \in Workers, Complete(w) PROVE TypeOK'
  BY <1>17, TransitionTypeOK
  DEF Complete, ProcessingState, Place, Running, InProcess
<1>18. ASSUME NEW w \in Workers, FinishAttempt(w) PROVE TypeOK'
  BY <1>18
  DEF TypeOK, lockVars, FinishAttempt, rowVars, Raise, ErrorKind, Goto, Place,
      Running, InProcess
<1>19. ASSUME NEW w \in Workers, NoticeLostClaim(w) PROVE TypeOK'
  BY <1>19
  DEF TypeOK, lockVars, NoticeLostClaim, rowVars, Goto, Place, Running, InProcess
<1>20. ASSUME NEW w \in Workers, AbandonAttempt(w) PROVE TypeOK'
  BY <1>20
  DEF TypeOK, lockVars, AbandonAttempt, rowVars, ErrorKind, Goto, Place, Running,
      InProcess
<1>21. ASSUME NEW w \in Workers, FailJob(w) PROVE TypeOK'
  <2> DEFINE j == job[w]
  <2>1. /\ processing' \in [Jobs -> ProcessingState \union {Absent}]
        /\ accessRetries' \in [Jobs -> Nat]
        /\ backoff' \in [Jobs -> BOOLEAN]
    <3>1. CASE Requeue(j)
      <4>1. processing' \in [Jobs -> ProcessingState \union {Absent}]
        BY <3>1 DEF Requeue, TypeOK, RequeueTarget, ProcessingState
      <4>2. accessRetries' \in [Jobs -> Nat]
        BY <3>1, CountUp DEF Requeue, TypeOK
      <4>3. backoff' \in [Jobs -> BOOLEAN]
        BY <3>1 DEF Requeue, TypeOK
      <4>4. QED
        BY <4>1, <4>2, <4>3
    <3>2. CASE /\ processing' = [processing EXCEPT ![j] = "failed"]
               /\ UNCHANGED <<accessRetries, backoff>>
      BY <3>2 DEF TypeOK, lockVars, ProcessingState
    <3>3. CASE UNCHANGED <<processing, accessRetries, backoff>>
      BY <3>3 DEF TypeOK
    <3>4. QED
      BY <1>21, <3>1, <3>2, <3>3 DEF FailJob
  <2>2. QED
    BY <1>21, <2>1 DEF TypeOK, lockVars, FailJob, Goto, Place, Running
<1>22. ASSUME NEW w \in Workers, CloseFailedAttempt(w) PROVE TypeOK'
  BY <1>22
  DEF TypeOK, lockVars, CloseFailedAttempt, rowVars, Goto, Place, Running, InProcess
<1>23. ASSUME NEW w \in Workers, ReleaseClaim(w) PROVE TypeOK'
  BY <1>23, ForgetTypeOK DEF ReleaseClaim, NoClaim, TypeOK, lockVars, Place
<1>24. ASSUME NEW w \in Workers, StepRaises(w) PROVE TypeOK'
  BY <1>24
  DEF TypeOK, lockVars, StepRaises, rowVars, Raise, ErrorKind, Goto, Place, Running,
      InProcess
<1>25. ASSUME NEW w \in Workers, HandlerRaises(w) PROVE TypeOK'
  BY <1>25
  DEF TypeOK, lockVars, HandlerRaises, rowVars, ErrorKind, Goto, Place, Running,
      InProcess
<1>26. ASSUME NEW w \in Workers, ReleaseFails(w) PROVE TypeOK'
  BY <1>26, ForgetTypeOK DEF ReleaseFails, TypeOK, lockVars, Place
<1>27. ASSUME NEW w \in Workers, HeartbeatFails(w) PROVE TypeOK'
  BY <1>27
  DEF TypeOK, lockVars, HeartbeatFails, rowVars, Goto, Place, Running, InProcess
<1>28. ASSUME NEW w \in Workers, Crash(w) PROVE TypeOK'
  BY <1>28, ForgetTypeOK DEF Crash, TypeOK, Place
<1>29. ASSUME NEW j \in Jobs, LeaseExpires(j) PROVE TypeOK'
  BY <1>29 DEF TypeOK, lockVars, LeaseExpires, Lapsed, rowVars, workerVars
<1>30. ASSUME NEW j \in Jobs, BackoffElapses(j) PROVE TypeOK'
  BY <1>30 DEF TypeOK, lockVars, BackoffElapses, rowVars, workerVars
<1>31. ASSUME NEW j \in Jobs, CreateJob(j) PROVE TypeOK'
  BY <1>31, QueueAssumption
  DEF TypeOK, lockVars, CreateJob, rowVars, workerVars, RequeueTarget,
      ProcessingState, QueueAssumption
<1>32. ASSUME NEW j \in Jobs, ApproveCandidate(j) PROVE TypeOK'
  BY <1>32
  DEF TypeOK, lockVars, ApproveCandidate, rowVars, workerVars, Review, ProcessingState
<1>33. ASSUME NEW j \in Jobs, ReplaceSourceUrl(j) PROVE TypeOK'
  BY <1>33
  DEF TypeOK, lockVars, ReplaceSourceUrl, rowVars, workerVars, Review, ProcessingState
<1>34. ASSUME NEW j \in Jobs, MarkNotFound(j) PROVE TypeOK'
  BY <1>34
  DEF TypeOK, lockVars, MarkNotFound, rowVars, workerVars, Review, ProcessingState
<1>35. ASSUME NEW j \in Jobs, CancelJob(j) PROVE TypeOK'
  BY <1>35 DEF TypeOK, lockVars, CancelJob, rowVars, workerVars, ProcessingState
<1>36. ASSUME NEW j \in Jobs, RetryJob(j) PROVE TypeOK'
  BY <1>36
  DEF TypeOK, lockVars, RetryJob, rowVars, workerVars, RequeueTarget, ProcessingState
<1>37. ASSUME NEW j \in Jobs, RequestEarlyDeletion(j) PROVE TypeOK'
  BY <1>37
  DEF TypeOK, lockVars, RequestEarlyDeletion, rowVars, workerVars, MoveDelivery,
      DeliveryState
<1>38. ASSUME NEW w \in Workers, NEW j \in Jobs, ExpireDueJob(w, j) PROVE TypeOK'
  BY <1>38 DEF TypeOK, lockVars, ExpireDueJob, MoveDelivery, workerVars, DeliveryState
<1>39. ASSUME NEW w \in Workers, NEW j \in Jobs, MarkJobDeletedIfEmpty(w, j) PROVE TypeOK'
  BY <1>39
  DEF TypeOK, lockVars, MarkJobDeletedIfEmpty, MoveDelivery, workerVars, DeliveryState
<1>40. CASE SetQueuePaused
  BY <1>40 DEF TypeOK, lockVars, SetQueuePaused, rowVars, workerVars
<1>41. ASSUME NEW w \in Workers, SelectAbandoned(w) PROVE TypeOK'
  <2>1. PICK busy \in SUBSET Jobs : SelectAbandonedSkipping(w, busy)
    BY <1>41 DEF SelectAbandoned
  <2>2. Taken(busy) \in SUBSET Jobs
    BY DEF Taken
  <2>3. QED
    BY <2>1, <2>2 DEF TypeOK, SelectAbandonedSkipping, rowVars, Goto, Place
<1>42. ASSUME NEW w \in Workers, RenewLate(w) PROVE TypeOK'
  BY <1>42 DEF TypeOK, lockVars, RenewLate, rowVars, workerVars
<1>43. ASSUME NEW j \in Jobs, CommitCancel(j) PROVE TypeOK'
  BY <1>43 DEF TypeOK, CommitCancel, workerVars, ProcessingState
<1>44. ASSUME NEW j \in Jobs, CancelFails(j) PROVE TypeOK'
  BY <1>44 DEF TypeOK, CancelFails, rowVars, workerVars
<1>45. QED
  BY <1>1, <1>2, <1>3, <1>4, <1>5, <1>6, <1>7, <1>8, <1>9, <1>10, <1>11,
     <1>12, <1>13, <1>14, <1>15, <1>16, <1>17, <1>18, <1>19, <1>20, <1>21,
     <1>22, <1>23, <1>24, <1>25, <1>26, <1>27, <1>28, <1>29, <1>30, <1>31,
     <1>32, <1>33, <1>34, <1>35, <1>36, <1>37, <1>38, <1>39, <1>40, <1>41, <1>42,
     <1>43, <1>44
  DEF Next, Startup, RunNext, ProcessClaim, WorkerFault, Cleanup, WebOperation

\* A step that changes nothing keeps the types.
LEMMA TypeStutter ==
  ASSUME TypeOK, UNCHANGED vars
  PROVE  TypeOK'
BY DEF TypeOK, vars, rowVars, lockVars, workerVars

\* Every variable keeps its type: in particular no transaction ever writes a
\* state outside the enumerations of models.py.
THEOREM TypeCorrect == Spec => []TypeOK
<1>1. TypeOK /\ [Next]_vars => TypeOK'
  BY TypeStep, TypeStutter
<1>2. QED
  BY TypeInit, <1>1, PTL DEF Spec

-----------------------------------------------------------------------------
(* Which actions write the job rows.                                       *)

\* The steps of a worker that leave every job row alone but for its quality.
Bookkeeping(w) ==
  \/ ReadPaused(w) \/ ClaimNextJob(w) \/ FindNothing(w) \/ StartAttempt(w)
  \/ ReadJob(w) \/ RecordAcquisition(w) \/ FinishAttempt(w) \/ NoticeLostClaim(w)
  \/ AbandonAttempt(w) \/ CloseFailedAttempt(w) \/ ReleaseClaim(w)
  \/ StepRaises(w) \/ HandlerRaises(w) \/ ReleaseFails(w) \/ HeartbeatFails(w)
  \/ Crash(w) \/ SelectAbandoned(w) \/ RenewLate(w)

\* The stage changes of process_claim, each with the state it asks for.
StageChange(w, new, place) ==
  \/ BeginResolving(w) /\ new = "resolving" /\ place = "persisting"
  \/ BeginDownloading(w) /\ new = "downloading" /\ place = "verifying"
  \/ BeginVerifyingMaster(w) /\ new = "verifying_master" /\ place = "recording"
  \/ BeginConverting(w) /\ new = "converting" /\ place = "checking"
  \/ BeginVerifyingOutput(w) /\ new = "verifying_output" /\ place = Packaging(job[w])
  \/ BeginPackaging(w) /\ new = "packaging" /\ place = "publishing"
  \/ BeginPublishing(w) /\ new = "publishing" /\ place = "marking"
  \/ /\ Complete(w)
     /\ new = IF best[w] THEN "completed" ELSE "completed_with_warnings"
     /\ place = "finishing"

\* The clock and the pause switch.
Elsewhere ==
  SetQueuePaused \/ \E j \in Jobs : LeaseExpires(j) \/ BackoffElapses(j)

lifeVars == <<processing, delivery, pinned, accessRetries>>

\* Steps that only move a worker, its attempt or its claim write no job row.
LEMMA BookkeepingLeavesRows ==
  ASSUME NEW w \in Workers, Bookkeeping(w)
  PROVE  UNCHANGED lifeVars
<1>1. CASE RecordAcquisition(w)
  BY <1>1 DEF RecordAcquisition, lifeVars
<1>2. CASE ~RecordAcquisition(w)
  BY <1>2
  DEF Bookkeeping, lifeVars, rowVars, ReadPaused, ClaimNextJob, FindNothing,
    StartAttempt, ReadJob, FinishAttempt, NoticeLostClaim, AbandonAttempt,
    CloseFailedAttempt, ReleaseClaim, StepRaises, HandlerRaises, ReleaseFails,
    HeartbeatFails, Crash, SelectAbandoned, SelectAbandonedSkipping, RenewLate
<1>3. QED
  BY <1>1, <1>2

\* A stage change moves the worker's own job along the table, or raises.
LEMMA StageChangeMoves ==
  ASSUME TypeOK, NEW w \in Workers, NEW new, NEW place, StageChange(w, new, place)
  PROVE  /\ \/ /\ new \in AllowedProcessing(processing[job[w]])
               /\ processing' = [processing EXCEPT ![job[w]] = new]
               /\ pc' = [pc EXCEPT ![w] = place]
            \/ /\ UNCHANGED processing
               /\ pc' = [pc EXCEPT ![w] = "failing"]
         /\ pc[w] \in InProcess /\ pc[w] # place
         /\ UNCHANGED <<delivery, pinned, accessRetries, claim, job, token, lockVars>>
         /\ ~Locked(job[w])
         /\ new \in CompletedStates => pc[w] = "completing"
BY DEF StageChange, Transition, Goto, Raise, BeginResolving, BeginDownloading,
   BeginVerifyingMaster, BeginConverting, BeginVerifyingOutput, BeginPackaging,
   BeginPublishing, Complete, Packaging, InProcess, CompletedStates

\* The steps of the specification, by what they write.
LEMMA NextByEffect ==
  ASSUME Next
  PROVE  \/ \E w \in Workers :
              \/ Bookkeeping(w)
              \/ \E new \in ProcessingState, place \in Place : StageChange(w, new, place)
              \/ RecoverAbandonedJobs(w) \/ PersistResolution(w)
              \/ MarkAvailable(w) \/ FailJob(w) \/ Cleanup(w)
         \/ \E j \in Jobs : WebOperation(j)
         \/ Elsewhere
<1>1. ASSUME NEW w \in Workers, ProcessClaim(w)
      PROVE  \/ Bookkeeping(w)
             \/ \E new \in ProcessingState, place \in Place : StageChange(w, new, place)
             \/ PersistResolution(w) \/ MarkAvailable(w)
  <2>1. ASSUME Complete(w)
        PROVE  \E new \in ProcessingState, place \in Place : StageChange(w, new, place)
    BY <2>1 DEF StageChange, CompletedStates, ProcessingState, Place, Running, InProcess
  <2>2. ASSUME ~Complete(w), ~Bookkeeping(w), ~PersistResolution(w), ~MarkAvailable(w)
        PROVE  \E new \in ProcessingState, place \in Place : StageChange(w, new, place)
    BY <1>1, <2>2
    DEF ProcessClaim, Bookkeeping, StageChange, Packaging, ProcessingState, Place,
      Running, InProcess
  <2>3. QED
    BY <2>1, <2>2
<1>2. QED
  BY <1>1 DEF Next, Startup, RunNext, WorkerFault, Bookkeeping, Elsewhere

-----------------------------------------------------------------------------
(* The retry budget.                                                       *)

\* Only fail_job counts a retry, and only below the limit; a user's retry resets.
LEMMA RetryStep ==
  ASSUME TypeOK, RetryBudget, Next
  PROVE  RetryBudget'
<1>1. ASSUME NEW w \in Workers, FailJob(w) PROVE RetryBudget'
  <2> DEFINE j == job[w]
  <2>1. ASSUME Requeue(j), accessRetries[j] < RetryLimit PROVE RetryBudget'
    <3>1. ASSUME NEW i \in Jobs PROVE accessRetries'[i] <= RetryLimit
      <4>1. CASE i = j
        BY <2>1, <4>1, QueueAssumption DEF Requeue, TypeOK, QueueAssumption
      <4>2. CASE i # j
        BY <2>1, <4>2 DEF Requeue, TypeOK, RetryBudget
      <4>3. QED
        BY <4>1, <4>2
    <3>2. QED
      BY <3>1 DEF RetryBudget
  <2>2. ASSUME UNCHANGED accessRetries PROVE RetryBudget'
    BY <2>2 DEF RetryBudget
  <2>3. QED
    BY <1>1, <2>1, <2>2 DEF FailJob, Permits
<1>2. ASSUME NEW j \in Jobs, RetryJob(j) PROVE RetryBudget'
  BY <1>2, QueueAssumption DEF RetryJob, RetryBudget, TypeOK, QueueAssumption
<1>3. ASSUME UNCHANGED accessRetries PROVE RetryBudget'
  BY <1>3 DEF RetryBudget
<1>4. ASSUME NEW w \in Workers, Bookkeeping(w) PROVE RetryBudget'
  BY <1>3, <1>4, BookkeepingLeavesRows DEF lifeVars
<1>5. ASSUME NEW w \in Workers, NEW new, NEW place, StageChange(w, new, place)
      PROVE  RetryBudget'
  BY <1>3, <1>5, StageChangeMoves
<1>6. ASSUME NEW w \in Workers,
             RecoverAbandonedJobs(w) \/ PersistResolution(w)
               \/ MarkAvailable(w) \/ Cleanup(w)
      PROVE  RetryBudget'
  BY <1>3, <1>6
  DEF RecoverAbandonedJobs, PersistResolution, MarkAvailable, Cleanup, ExpireDueJob,
    MarkJobDeletedIfEmpty, MoveDelivery
<1>7. ASSUME NEW j \in Jobs, WebOperation(j) PROVE RetryBudget'
  BY <1>2, <1>3, <1>7
  DEF WebOperation, CreateJob, ApproveCandidate, ReplaceSourceUrl, MarkNotFound,
    Review, CancelJob, CommitCancel, CancelFails, RequestEarlyDeletion, MoveDelivery, rowVars
<1>8. ASSUME Elsewhere PROVE RetryBudget'
  BY <1>3, <1>8
  DEF Elsewhere, SetQueuePaused, LeaseExpires, BackoffElapses, rowVars
<1>9. QED
  BY NextByEffect, <1>1, <1>4, <1>5, <1>6, <1>7, <1>8

\* The automatic retries never exceed the limit, for every limit and however
\* many workers fail the same job.
THEOREM RetriesBounded == Spec => []RetryBudget
<1>1. Init => RetryBudget
  BY QueueAssumption DEF Init, RetryBudget, QueueAssumption
<1>2. TypeOK /\ RetryBudget /\ [Next]_vars => RetryBudget'
  <2>1. CASE UNCHANGED vars
    BY <2>1 DEF RetryBudget, vars, rowVars
  <2>2. QED
    BY <2>1, RetryStep
<1>3. QED
  BY <1>1, <1>2, TypeCorrect, PTL DEF Spec

-----------------------------------------------------------------------------
(* The row locks of recovery and cancellation.                             *)

\* What is known of a row that a transaction has locked: it was looked at when its
\* lease was not live, nobody claimed it since, nobody else has locked it, and its
\* state is still the one that was looked at.  A lease renewed late is not `kept'.
LockedRow(j) ==
  /\ claim[j].kept => claim[j].live
  /\ Locked(j) => ~claim[j].kept
  /\ \A w \in Workers :
       j \in recovering[w] =>
         /\ processing[j] \in ActiveProcessingStates
         /\ j \notin cancelling
         /\ \A v \in Workers : j \in recovering[v] => v = w
  /\ j \in cancelling =>
       /\ delivery[j] = "not_published"
       /\ "cancelled" \in AllowedProcessing(processing[j])

LockInv == TypeOK /\ \A j \in Jobs : LockedRow(j)

\* Nobody takes a lock on j, a locked j keeps its row, and no claim on j is renewed
\* in a way that hides a lapse.
LEMMA LocksKept ==
  ASSUME LockInv, NEW j \in Jobs,
         \A w \in Workers : j \in recovering'[w] => j \in recovering[w],
         j \in cancelling' => j \in cancelling,
         Locked(j)' => processing'[j] = processing[j] /\ delivery'[j] = delivery[j],
         claim'[j].kept => claim[j].kept /\ claim'[j].live
  PROVE  LockedRow(j)'
BY DEF LockInv, LockedRow, Locked

\* A worker's own step writes no row and no claim that is locked, and locks only
\* what is abandoned and free.
LEMMA LockBookkeeping ==
  ASSUME LockInv, NEW w \in Workers, Bookkeeping(w), NEW j \in Jobs
  PROVE  LockedRow(j)'
<1>1. UNCHANGED <<processing, delivery>>
  BY BookkeepingLeavesRows DEF lifeVars
<1>2. CASE SelectAbandoned(w)
  <2>1. PICK busy \in SUBSET Jobs : SelectAbandonedSkipping(w, busy)
    BY <1>2 DEF SelectAbandoned
  <2>2. /\ recovering' = [recovering EXCEPT ![w] = Taken(busy)]
        /\ UNCHANGED <<claim, cancelling>>
    BY <2>1 DEF SelectAbandonedSkipping
  <2>3. CASE j \in Taken(busy)
    <3>1. Abandoned(j) /\ ~Locked(j)
      BY <2>3 DEF Taken
    <3>2. \A v \in Workers : j \in recovering'[v] => v = w
      BY <2>2, <3>1 DEF Locked, LockInv, TypeOK
    <3>3. /\ processing[j] \in ActiveProcessingStates /\ ~claim[j].kept
          /\ j \notin cancelling
      BY <3>1 DEF Abandoned, LockInv, LockedRow, Locked
    <3>4. QED
      BY <1>1, <2>2, <3>2, <3>3 DEF LockedRow
  <2>4. CASE j \notin Taken(busy)
    <3>1. \A v \in Workers : j \in recovering'[v] => j \in recovering[v]
      BY <2>2, <2>4 DEF LockInv, TypeOK
    <3>2. QED
      BY <1>1, <2>2, <3>1, LocksKept DEF LockInv, LockedRow
  <2>5. QED
    BY <2>3, <2>4
<1>3. CASE ClaimNextJob(w)
  <2>1. PICK i \in Jobs, t \in Tokens :
          /\ NextInQueue(i)
          /\ claim' = [claim EXCEPT ![i] = [token |-> t, live |-> TRUE, kept |-> TRUE]]
    BY <1>3 DEF ClaimNextJob
  <2>2. UNCHANGED lockVars /\ ~Locked(i)
    BY <1>3, <2>1 DEF ClaimNextJob, NextInQueue, Claimable
  <2>3. CASE i = j
    BY <1>1, <2>1, <2>2, <2>3 DEF LockInv, TypeOK, LockedRow, Locked, lockVars
  <2>4. CASE i # j
    BY <1>1, <2>1, <2>2, <2>4, LocksKept DEF LockInv, TypeOK, LockedRow, lockVars
  <2>5. QED
    BY <2>3, <2>4
<1>4. CASE ReleaseClaim(w)
  BY <1>1, <1>4, LocksKept
  DEF ReleaseClaim, NoClaim, LockInv, LockedRow, TypeOK, lockVars
<1>5. CASE RenewLate(w)
  <2>1. PICK i \in Jobs :
          ~claim[i].live /\ claim' = [claim EXCEPT ![i] = [claim[i] EXCEPT !.live = TRUE]]
    BY <1>5 DEF RenewLate
  <2>2. claim'[j].kept => claim[j].kept /\ claim'[j].live
    BY <2>1 DEF LockInv, LockedRow, TypeOK
  <2>3. QED
    BY <1>1, <1>5, <2>2, LocksKept DEF RenewLate, lockVars
<1>6. CASE Crash(w)
  <2>1. \A v \in Workers : j \in recovering'[v] => j \in recovering[v]
    BY <1>6 DEF Crash, LockInv, TypeOK
  <2>2. QED
    BY <1>1, <1>6, <2>1, LocksKept DEF Crash, LockInv, LockedRow
<1>7. CASE UNCHANGED <<lockVars, claim>>
  BY <1>1, <1>7, LocksKept DEF LockInv, LockedRow, lockVars
<1>8. QED
  BY <1>2, <1>3, <1>4, <1>5, <1>6, <1>7
  DEF Bookkeeping, ReadPaused, FindNothing, StartAttempt, ReadJob, RecordAcquisition,
    FinishAttempt, NoticeLostClaim, AbandonAttempt, CloseFailedAttempt, StepRaises,
    HandlerRaises, ReleaseFails, HeartbeatFails

\* Whoever writes a row has not found it locked, or holds the lock.
LEMMA LockStep ==
  ASSUME LockInv, Next, NEW j \in Jobs
  PROVE  LockedRow(j)'
<1>1. ASSUME UNCHANGED <<lockVars, claim>>,
             Locked(j) => processing'[j] = processing[j] /\ delivery'[j] = delivery[j]
      PROVE  LockedRow(j)'
  <2>1. Locked(j)' = Locked(j)
    BY <1>1 DEF Locked, lockVars
  <2>2. QED
    BY <1>1, <2>1, LocksKept DEF LockInv, LockedRow, lockVars
<1>2. ASSUME NEW w \in Workers, NEW new, NEW place, StageChange(w, new, place)
      PROVE  LockedRow(j)'
  BY <1>1, <1>2, StageChangeMoves DEF LockInv, TypeOK
<1>3. ASSUME NEW w \in Workers, PersistResolution(w) \/ MarkAvailable(w) \/ FailJob(w)
      PROVE  LockedRow(j)'
  BY <1>1, <1>3 DEF PersistResolution, MarkAvailable, FailJob, Requeue, LockInv, TypeOK
<1>4. ASSUME NEW w \in Workers, RecoverAbandonedJobs(w) PROVE LockedRow(j)'
  <2>1. /\ \A v \in Workers : j \in recovering'[v] => j \in recovering[v]
        /\ UNCHANGED <<cancelling, delivery>>
    BY <1>4 DEF RecoverAbandonedJobs, LockInv, TypeOK
  <2>2. claim'[j] \in {claim[j], NoClaim}
    BY <1>4 DEF RecoverAbandonedJobs, Unclaimed
  <2>3. Locked(j)' => processing'[j] = processing[j]
    <3>1. CASE j \in recovering[w]
      BY <1>4, <2>1, <3>1 DEF RecoverAbandonedJobs, LockInv, LockedRow, Locked, TypeOK
    <3>2. CASE j \notin recovering[w]
      BY <1>4, <3>2 DEF RecoverAbandonedJobs
    <3>3. QED
      BY <3>1, <3>2
  <2>4. QED
    BY <2>1, <2>2, <2>3, LocksKept DEF LockInv, LockedRow, NoClaim
<1>5. ASSUME NEW w \in Workers, Cleanup(w) PROVE LockedRow(j)'
  BY <1>1, <1>5
  DEF Cleanup, ExpireDueJob, MarkJobDeletedIfEmpty, MoveDelivery, LockInv, TypeOK
<1>6. ASSUME NEW i \in Jobs, WebOperation(i) PROVE LockedRow(j)'
  <2>1. CASE CreateJob(i)
    <3>1. "cancelled" \notin AllowedProcessing(Absent) /\ Absent \notin ActiveProcessingStates
      BY DEF AllowedProcessing, ActiveProcessingStates, Absent
    <3>2. Locked(j) => i # j
      BY <2>1, <3>1 DEF CreateJob, LockInv, LockedRow, Locked
    <3>3. QED
      BY <1>1, <2>1, <3>2 DEF CreateJob, LockInv, TypeOK
  <2>2. CASE RetryJob(i) \/ RequestEarlyDeletion(i)
               \/ \E target \in {"ready", "not_found"} : Review(i, target)
    BY <1>1, <2>2
    DEF RetryJob, RequestEarlyDeletion, MoveDelivery, Review, LockInv, TypeOK
  <2>3. CASE CancelJob(i)
    <3>1. CASE i = j
      BY <2>3, <3>1 DEF CancelJob, rowVars, LockInv, LockedRow, Locked
    <3>2. CASE i # j
      BY <2>3, <3>2, LocksKept DEF CancelJob, rowVars, LockInv, LockedRow
    <3>3. QED
      BY <3>1, <3>2
  <2>4. CASE CommitCancel(i) \/ CancelFails(i)
    <3>1. /\ UNCHANGED <<recovering, claim, delivery>>
          /\ cancelling' = cancelling \ {i} /\ i \in cancelling
          /\ i # j => processing'[j] = processing[j]
      BY <2>4 DEF CommitCancel, CancelFails, rowVars, LockInv, TypeOK
    <3>2. Locked(j)' => i # j
      BY <3>1 DEF LockInv, LockedRow, Locked
    <3>3. QED
      BY <3>1, <3>2, LocksKept DEF LockInv, LockedRow
  <2>5. QED
    BY <1>6, <2>1, <2>2, <2>3, <2>4
    DEF WebOperation, ApproveCandidate, ReplaceSourceUrl, MarkNotFound
<1>7. ASSUME Elsewhere PROVE LockedRow(j)'
  <2>1. ASSUME NEW i \in Jobs, LeaseExpires(i) PROVE LockedRow(j)'
    <3>1. claim'[j].kept => claim[j].kept /\ claim'[j].live
      BY <2>1 DEF LeaseExpires, Lapsed, LockInv, LockedRow, TypeOK
    <3>2. QED
      BY <2>1, <3>1, LocksKept DEF LeaseExpires, rowVars, lockVars
  <2>2. QED
    BY <1>1, <1>7, <2>1 DEF Elsewhere, SetQueuePaused, BackoffElapses, rowVars
<1>8. QED
  BY NextByEffect, LockBookkeeping, <1>2, <1>3, <1>4, <1>5, <1>6, <1>7

\* Nothing is locked or claimed at first.
LEMMA LockInit ==
  ASSUME Init
  PROVE  LockInv
<1>1. \A j \in Jobs : ~Locked(j) /\ ~claim[j].kept
  BY DEF Init, Locked, NoClaim
<1>2. QED
  BY <1>1, TypeInit DEF LockInv, LockedRow, Locked

\* What recovery and cancellation have locked stays as they saw it.
LEMMA LocksHold == Spec => []LockInv
<1>1. LockInv /\ [Next]_vars => LockInv'
  <2>1. CASE Next
    BY <2>1, TypeStep, LockStep DEF LockInv
  <2>2. CASE UNCHANGED vars
    BY <2>2, TypeStutter DEF LockInv, LockedRow, Locked, vars, rowVars, lockVars
  <2>3. QED
    BY <2>1, <2>2
<1>2. QED
  BY LockInit, <1>1, PTL DEF Spec

-----------------------------------------------------------------------------
(* What a live lease protects.                                             *)

\* An unbroken lease is kept from recovery, from the other workers and from users,
\* and a live one keeps its row.
LEMMA LeaseStep ==
  ASSUME LockInv, Next, NEW j \in Jobs
  PROVE  OnlyWorkersMove(j) /\ OnlyHolderReleases(j)
<1>1. ASSUME UNCHANGED processing PROVE OnlyWorkersMove(j)
  BY <1>1 DEF OnlyWorkersMove
<1>2. ASSUME UNCHANGED claim PROVE OnlyHolderReleases(j)
  BY <1>2 DEF OnlyHolderReleases
<1> USE DEF LockInv
<1>3. ASSUME NEW w \in Workers, RecoverAbandonedJobs(w)
      PROVE  OnlyWorkersMove(j) /\ OnlyHolderReleases(j)
  <2>1. OnlyWorkersMove(j)
    BY <1>3 DEF RecoverAbandonedJobs, LockedRow, Locked, OnlyWorkersMove
  <2>2. claim[j].live => claim'[j] = claim[j]
    BY <1>3 DEF RecoverAbandonedJobs, Unclaimed
  <2>3. QED
    BY <2>1, <2>2 DEF OnlyHolderReleases
<1>4. ASSUME NEW w \in Workers, NEW new, NEW place, StageChange(w, new, place)
      PROVE  OnlyWorkersMove(j) /\ OnlyHolderReleases(j)
  <2>1. OnlyHolderReleases(j)
    BY <1>2, <1>4, StageChangeMoves
  <2>2. processing'[j] # processing[j] =>
          pc[w] \in Running /\ job[w] = j /\ pc'[w] # pc[w]
    BY <1>4, StageChangeMoves DEF TypeOK, Running
  <2>3. QED
    BY <2>1, <2>2 DEF OnlyWorkersMove
<1>5. ASSUME NEW w \in Workers, PersistResolution(w) \/ FailJob(w)
      PROVE  OnlyWorkersMove(j) /\ OnlyHolderReleases(j)
  <2>1. OnlyHolderReleases(j)
    BY <1>2, <1>5 DEF PersistResolution, FailJob
  <2>2. processing'[j] # processing[j] => job[w] = j
    BY <1>5 DEF PersistResolution, FailJob, Requeue, TypeOK
  <2>3. pc[w] \in Running /\ pc'[w] # pc[w]
    BY <1>5
    DEF PersistResolution, FailJob, Goto, Raise, Running, InProcess, TypeOK
  <2>4. QED
    BY <2>1, <2>2, <2>3 DEF OnlyWorkersMove
<1>6. ASSUME NEW w \in Workers, Bookkeeping(w)
      PROVE  OnlyWorkersMove(j) /\ OnlyHolderReleases(j)
  <2>1. OnlyWorkersMove(j)
    BY <1>1, <1>6, BookkeepingLeavesRows DEF lifeVars
  <2>2. CASE ClaimNextJob(w)
    BY <2>1, <2>2 DEF ClaimNextJob, NextInQueue, Claimable, OnlyHolderReleases, TypeOK
  <2>3. CASE ReleaseClaim(w)
    BY <2>1, <2>3 DEF ReleaseClaim, OnlyHolderReleases, TypeOK
  <2>4. CASE RenewLate(w)
    BY <2>1, <2>4 DEF RenewLate, OnlyHolderReleases, TypeOK
  <2>5. CASE ~ClaimNextJob(w) /\ ~ReleaseClaim(w) /\ ~RenewLate(w)
    BY <1>2, <1>6, <2>1, <2>5
    DEF Bookkeeping, ReadPaused, FindNothing, StartAttempt, ReadJob,
      RecordAcquisition, FinishAttempt, NoticeLostClaim, AbandonAttempt,
      CloseFailedAttempt, StepRaises, HandlerRaises, ReleaseFails, HeartbeatFails,
      Crash, SelectAbandoned, SelectAbandonedSkipping
  <2>6. QED
    BY <2>1, <2>2, <2>3, <2>4, <2>5
<1>7. ASSUME NEW w \in Workers, MarkAvailable(w) \/ Cleanup(w)
      PROVE  OnlyWorkersMove(j) /\ OnlyHolderReleases(j)
  BY <1>1, <1>2, <1>7
  DEF MarkAvailable, Cleanup, ExpireDueJob, MarkJobDeletedIfEmpty, MoveDelivery
<1>8. ASSUME NEW i \in Jobs, WebOperation(i)
      PROVE  OnlyWorkersMove(j) /\ OnlyHolderReleases(j)
  <2>1. OnlyHolderReleases(j)
    BY <1>2, <1>8
    DEF WebOperation, CreateJob, ApproveCandidate, ReplaceSourceUrl, MarkNotFound,
      Review, CancelJob, CommitCancel, CancelFails, RetryJob, RequestEarlyDeletion,
      MoveDelivery
  <2>2. CASE RetryJob(i)
    BY <2>1, <2>2
    DEF RetryJob, OnlyWorkersMove, QueuedStates, ActiveProcessingStates, TypeOK
  <2>6. CASE CommitCancel(i)
    BY <2>1, <2>6 DEF CommitCancel, LockedRow, Locked, OnlyWorkersMove, TypeOK
  <2>3. CASE CreateJob(i) \/ \E target \in {"ready", "not_found"} : Review(i, target)
    BY <2>1, <2>3
    DEF CreateJob, Review, OnlyWorkersMove, QueuedStates, ActiveProcessingStates,
      TypeOK, Absent
  <2>4. CASE RequestEarlyDeletion(i) \/ CancelJob(i) \/ CancelFails(i)
    BY <1>1, <2>1, <2>4
    DEF RequestEarlyDeletion, MoveDelivery, CancelJob, CancelFails, rowVars
  <2>5. QED
    BY <1>8, <2>2, <2>3, <2>4, <2>6
    DEF WebOperation, ApproveCandidate, ReplaceSourceUrl, MarkNotFound
<1>9. ASSUME Elsewhere PROVE OnlyWorkersMove(j) /\ OnlyHolderReleases(j)
  <2>1. OnlyWorkersMove(j)
    BY <1>1, <1>9
    DEF Elsewhere, SetQueuePaused, LeaseExpires, BackoffElapses, rowVars
  <2>2. OnlyHolderReleases(j)
    <3>1. ASSUME NEW i \in Jobs, LeaseExpires(i) PROVE OnlyHolderReleases(j)
      BY <3>1 DEF LeaseExpires, OnlyHolderReleases, TypeOK
    <3>2. QED
      BY <1>2, <1>9, <3>1 DEF Elsewhere, SetQueuePaused, BackoffElapses
  <2>3. QED
    BY <2>1, <2>2
<1>10. QED
  BY NextByEffect, <1>3, <1>4, <1>5, <1>6, <1>7, <1>8, <1>9

\* However many workers there are and however leases lapse and are renewed late:
\* cancellation, recovery and claiming, which look at the lease before they write,
\* leave alone the job of a lease that never lapsed and the row of one that is live.
THEOREM LeasesProtect == Spec => LeaseProtects
<1>1. LockInv /\ [Next]_vars
        => [\A j \in Jobs : OnlyWorkersMove(j) /\ OnlyHolderReleases(j)]_vars
  BY LeaseStep
<1>2. QED
  BY <1>1, LocksHold, PTL DEF Spec, LeaseProtects

-----------------------------------------------------------------------------
(* The job row: pins, and the refinement of JobLifecycle.                  *)

\* JobLifecycle speaks of the same states and the same tables.
LEMMA SameVocabulary ==
  /\ Lifecycle!ProcessingState = ProcessingState
  /\ Lifecycle!DeliveryState = DeliveryState
  /\ Lifecycle!QueuedStates = QueuedStates
  /\ Lifecycle!CompletedStates = CompletedStates
  /\ Lifecycle!Absent = Absent
  /\ \A s : Lifecycle!AllowedProcessing(s) = AllowedProcessing(s)
  /\ \A s : Lifecycle!AllowedDelivery(s) = AllowedDelivery(s)
<1>1. /\ Lifecycle!ProcessingState = ProcessingState
      /\ Lifecycle!DeliveryState = DeliveryState
      /\ Lifecycle!QueuedStates = QueuedStates
      /\ Lifecycle!CompletedStates = CompletedStates
      /\ Lifecycle!Absent = Absent
  BY DEF ProcessingState, DeliveryState, QueuedStates, CompletedStates, Absent,
     Lifecycle!ProcessingState, Lifecycle!DeliveryState, Lifecycle!QueuedStates,
     Lifecycle!CompletedStates, Lifecycle!Absent
<1>2. ASSUME NEW s PROVE Lifecycle!AllowedProcessing(s) = AllowedProcessing(s)
  BY <1>1 DEF AllowedProcessing, Lifecycle!AllowedProcessing
<1>3. ASSUME NEW s PROVE Lifecycle!AllowedDelivery(s) = AllowedDelivery(s)
  BY <1>1 DEF AllowedDelivery, Lifecycle!AllowedDelivery
<1>4. QED
  BY <1>1, <1>2, <1>3

\* PinnedPastResolution and FollowsLifecycle depend on each other's state: a
\* published job has its pin, so resolution and review never meet one; and only
\* the worker that published reaches the completing step.
PinInv(j) ==
  /\ processing[j] \in {"ready"} \union CompletedStates
                        \union (ActiveProcessingStates \ {"resolving"})
       => pinned[j]
  /\ processing[j] \in {Absent, "pending", "resolving", "needs_review", "not_found"}
       => ~pinned[j]
  /\ delivery[j] # "not_published" => pinned[j]

RowInv ==
  /\ TypeOK
  /\ \A j \in Jobs : LockedRow(j)
  /\ \A j \in Jobs : PinInv(j)
  /\ \A w \in Workers : pc[w] \in Running => job[w] \in Jobs
  /\ \A w \in Workers :
       pc[w] = "completing" => delivery[job[w]] # "not_published"

\* No row exists at first, and no worker runs.
LEMMA RowInit ==
  ASSUME Init
  PROVE  RowInv
<1>1. LockInv
  BY LockInit
<1>2. QED
  BY <1>1
  DEF Init, LockInv, RowInv, PinInv, Absent, Running, InProcess, CompletedStates,
    ActiveProcessingStates

\* A change of rows that leaves every worker's place and job alone keeps the part
\* of RowInv that is about workers.
LEMMA DeliveryStays ==
  ASSUME RowInv, TypeOK', UNCHANGED <<pc, job>>,
         \A j \in Jobs : delivery[j] # "not_published" => delivery'[j] # "not_published"
  PROVE  /\ \A w \in Workers : pc'[w] \in Running => job'[w] \in Jobs
         /\ \A w \in Workers :
              pc'[w] = "completing" => delivery'[job'[w]] # "not_published"
BY DEF RowInv, Running, InProcess

\* A worker's own steps keep its job, and none of them leads to "completing".
LEMMA BookkeepingWorkers ==
  ASSUME RowInv, NEW w \in Workers, Bookkeeping(w)
  PROVE  /\ \A v \in Workers : pc'[v] \in Running => job'[v] \in Jobs
         /\ \A v \in Workers :
              pc'[v] = "completing" => pc[v] = "completing" /\ job'[v] = job[v]
<1>1. CASE ReadPaused(w) \/ FindNothing(w) \/ StartAttempt(w) \/ FinishAttempt(w)
             \/ NoticeLostClaim(w) \/ AbandonAttempt(w)
  BY <1>1
  DEF RowInv, TypeOK, ReadPaused, FindNothing, StartAttempt, FinishAttempt,
    NoticeLostClaim, AbandonAttempt, CheckPoints, Goto, Raise, Running, InProcess
<1>2. CASE CloseFailedAttempt(w) \/ StepRaises(w) \/ HandlerRaises(w)
             \/ HeartbeatFails(w)
  BY <1>2
  DEF RowInv, TypeOK, CloseFailedAttempt, StepRaises, HandlerRaises, HeartbeatFails,
    Goto, Raise, Running, InProcess
<1>3. CASE ClaimNextJob(w)
  <2>1. PICK j \in Jobs : job' = [job EXCEPT ![w] = j]
    BY <1>3 DEF ClaimNextJob
  <2>2. pc' = [pc EXCEPT ![w] = "starting"]
    BY <1>3 DEF ClaimNextJob, Goto
  <2>3. QED
    BY <2>1, <2>2 DEF RowInv, TypeOK, Running, InProcess
<1>4. ASSUME NEW place \in {"idle", "down"}, Forget(w, place)
      PROVE  /\ \A v \in Workers : pc'[v] \in Running => job'[v] \in Jobs
             /\ \A v \in Workers :
                  pc'[v] = "completing" => pc[v] = "completing" /\ job'[v] = job[v]
  BY <1>4 DEF RowInv, TypeOK, Forget, Goto, Running, InProcess
<1>5. CASE ReadJob(w) \/ RecordAcquisition(w)
  <2>1. /\ pc[w] \in InProcess /\ UNCHANGED job
        /\ pc' = [pc EXCEPT ![w] = pc'[w]] /\ pc'[w] # "completing"
    <3>1. CASE ReadJob(w)
      BY <3>1 DEF RowInv, TypeOK, ReadJob, Goto, Raise, InProcess
    <3>2. CASE RecordAcquisition(w)
      BY <3>2 DEF RowInv, TypeOK, RecordAcquisition, Goto, Raise, Packaging, InProcess
    <3>3. QED
      BY <1>5, <3>1, <3>2
  <2>2. QED
    BY <2>1 DEF RowInv, TypeOK, Running
<1>6. CASE SelectAbandoned(w) \/ RenewLate(w)
  BY <1>6
  DEF RowInv, TypeOK, SelectAbandoned, SelectAbandonedSkipping, RenewLate, workerVars,
    Goto, Running, InProcess
<1>7. QED
  BY <1>1, <1>2, <1>3, <1>4, <1>5, <1>6
  DEF Bookkeeping, ReleaseClaim, ReleaseFails, Crash

\* The state recovery gives an active job keeps its pin and its way out.
LEMMA RecoveryMoves ==
  ASSUME RowInv, NEW j \in Jobs, processing[j] \in ActiveProcessingStates
  PROVE  /\ RecoveredState(j) \in Lifecycle!Reachable(processing[j])
         /\ RecoveredState(j) \in CompletedStates => delivery[j] # "not_published"
         /\ RecoveredState(j) \in CompletedStates \union QueuedStates
         /\ RecoveredState(j) \in CompletedStates \union {"ready"} => pinned[j]
         /\ RecoveredState(j) = "pending" => ~pinned[j]
<1>1. CASE processing[j] = "publishing" /\ delivery[j] = "available"
  <2>1. RecoveredState(j) \in CompletedStates /\ pinned[j]
    BY <1>1
    DEF RecoveredState, CompletedStates, RowInv, PinInv,
      ActiveProcessingStates
  <2>2. RecoveredState(j) \in AllowedProcessing(processing[j])
    BY <1>1, <2>1 DEF AllowedProcessing, CompletedStates, ProcessingState
  <2>3. QED
    BY <1>1, <2>1, <2>2, SameVocabulary DEF Lifecycle!Reachable, CompletedStates
<1>2. CASE ~(processing[j] = "publishing" /\ delivery[j] = "available")
  <2>1. /\ RecoveredState(j) \in QueuedStates
        /\ RecoveredState(j) = "ready" => pinned[j]
        /\ RecoveredState(j) = "pending" => ~pinned[j]
    BY <1>2 DEF RecoveredState, RequeueTarget, QueuedStates
  <2>2. "interrupted" \in AllowedProcessing(processing[j])
    BY DEF ActiveProcessingStates, AllowedProcessing, ProcessingState
  <2>3. \A q \in QueuedStates : q \in AllowedProcessing("interrupted")
    BY DEF QueuedStates, AllowedProcessing, ProcessingState
  <2>4. RecoveredState(j) \in Lifecycle!Reachable(processing[j])
    BY <2>1, <2>2, <2>3, SameVocabulary DEF Lifecycle!Reachable
  <2>5. QED
    BY <2>1, <2>4 DEF CompletedStates, QueuedStates
<1>3. QED
  BY <1>1, <1>2

\* A stage leads on to the stages of the same side of the resolution.
LEMMA StagesKeepPin ==
  ASSUME NEW s, NEW new \in AllowedProcessing(s),
         new \in ActiveProcessingStates \union CompletedStates
  PROVE  /\ s \in ProcessingState
         /\ new = "resolving" => s = "pending"
         /\ new # "resolving" =>
              s \in {"ready"} \union (ActiveProcessingStates \ {"resolving"})
         /\ new \notin {"cancelled", "not_found"}
BY DEF AllowedProcessing, ActiveProcessingStates, CompletedStates, ProcessingState

\* One allowed edge is a step of the abstract row.
LEMMA EdgeAdvances ==
  ASSUME NEW j \in Jobs, processing[j] \in ProcessingState,
         processing'[j] \in AllowedProcessing(processing[j]),
         processing'[j] \in CompletedStates => delivery[j] # "not_published",
         processing'[j] \in {"cancelled", "not_found"} => delivery[j] = "not_published",
         delivery'[j] = delivery[j]
  PROVE  Lifecycle!JobStep(j)
BY SameVocabulary DEF Lifecycle!JobStep, Lifecycle!Advance, Lifecycle!Reachable

\* What a step must do to each row for RowInv and the refinement.
RowStep(j) ==
  /\ PinInv(j)'
  /\ Lifecycle!JobStep(j) \/ Lifecycle!JobUnchanged(j)

\* A row nobody writes takes a permitted step.
LEMMA UnchangedRow ==
  ASSUME RowInv, NEW j \in Jobs, processing'[j] = processing[j],
         delivery'[j] = delivery[j], pinned'[j] = pinned[j]
  PROVE  RowStep(j)
BY DEF RowInv, PinInv, RowStep, Lifecycle!JobUnchanged

\* transition_processing keeps the pin and is a step of the abstract row.
LEMMA StageChangeRow ==
  ASSUME RowInv, NEW w \in Workers, NEW new, NEW place, StageChange(w, new, place),
         NEW j \in Jobs
  PROVE  RowStep(j)
<1> USE StageChangeMoves
<1>1. delivery'[j] = delivery[j] /\ pinned'[j] = pinned[j]
  BY DEF RowInv
<1>2. CASE processing'[j] = processing[j]
  BY <1>1, <1>2, UnchangedRow
<1>3. CASE processing'[j] # processing[j]
  <2>1. /\ job[w] = j /\ processing'[j] = new
        /\ new \in AllowedProcessing(processing[j])
    BY <1>3 DEF RowInv, TypeOK
  <2>2. new \in ActiveProcessingStates \union CompletedStates
    BY DEF StageChange, ActiveProcessingStates, CompletedStates
  <2>3. /\ processing[j] \in ProcessingState
        /\ new \notin {"cancelled", "not_found"}
        /\ new = "resolving" => ~pinned[j]
        /\ new # "resolving" => pinned[j]
    BY <2>1, <2>2, StagesKeepPin DEF RowInv, PinInv
  <2>4. new \in CompletedStates => delivery[j] # "not_published"
    BY <2>1 DEF RowInv
  <2>5. PinInv(j)'
    BY <1>1, <2>1, <2>2, <2>3, <2>4
    DEF PinInv, RowInv, ActiveProcessingStates, CompletedStates, Absent
  <2>6. Lifecycle!JobStep(j)
    BY <1>1, <2>1, <2>3, <2>4, EdgeAdvances
  <2>7. QED
    BY <2>5, <2>6 DEF RowStep
<1>4. QED
  BY <1>2, <1>3

\* Startup recovery keeps the pin and is a step of the abstract row.
LEMMA RecoveryRow ==
  ASSUME RowInv, NEW w \in Workers, RecoverAbandonedJobs(w), NEW j \in Jobs
  PROVE  RowStep(j)
<1>1. UNCHANGED <<delivery, pinned>>
  BY DEF RecoverAbandonedJobs
<1>2. CASE j \notin recovering[w]
  <2>1. processing'[j] = processing[j]
    BY <1>2 DEF RecoverAbandonedJobs
  <2>2. QED
    BY <1>1, <2>1, UnchangedRow
<1>3. CASE j \in recovering[w]
  <2>1. processing'[j] = RecoveredState(j)
    BY <1>3 DEF RecoverAbandonedJobs
  <2>2. processing[j] \in ActiveProcessingStates
    BY <1>3 DEF RowInv, LockedRow
  <2>3. processing[j] \in ProcessingState
    BY <2>2 DEF ActiveProcessingStates, ProcessingState
  <2>4. PinInv(j)'
    BY <1>1, <2>1, <2>2, RecoveryMoves
    DEF PinInv, RowInv, QueuedStates, CompletedStates, ActiveProcessingStates, Absent
  <2>5. Lifecycle!JobStep(j)
    BY <1>1, <2>1, <2>2, <2>3, RecoveryMoves, SameVocabulary
    DEF Lifecycle!JobStep, Lifecycle!Advance, QueuedStates, CompletedStates
  <2>6. QED
    BY <2>4, <2>5 DEF RowStep
<1>4. QED
  BY <1>2, <1>3

\* So does persist_resolution, which sets the pin,
LEMMA ResolutionRow ==
  ASSUME RowInv, NEW w \in Workers, PersistResolution(w), NEW j \in Jobs
  PROVE  RowStep(j)
<1>1. CASE processing'[j] = processing[j] /\ pinned'[j] = pinned[j]
  BY <1>1, UnchangedRow DEF PersistResolution
<1>2. CASE ~(processing'[j] = processing[j] /\ pinned'[j] = pinned[j])
  <2>1. job[w] = j /\ processing[j] = "resolving"
    BY <1>2 DEF PersistResolution, RowInv, TypeOK
  <2>2. PICK target \in {"ready", "needs_review", "not_found"} :
          processing'[j] = target /\ pinned'[j] = (target = "ready")
    BY <2>1 DEF PersistResolution, RowInv, TypeOK
  <2>3. delivery[j] = "not_published" /\ delivery'[j] = delivery[j]
    BY <2>1 DEF RowInv, PinInv, PersistResolution
  <2>4. PinInv(j)'
    BY <2>2, <2>3 DEF PinInv, CompletedStates, ActiveProcessingStates, Absent
  <2>5. Lifecycle!JobStep(j)
    BY <2>1, <2>2, <2>3, EdgeAdvances
    DEF AllowedProcessing, ProcessingState, CompletedStates
  <2>6. QED
    BY <2>4, <2>5 DEF RowStep
<1>3. QED
  BY <1>1, <1>2

\* fail_job, which may requeue in the same transaction,
LEMMA FailureRow ==
  ASSUME RowInv, NEW w \in Workers, FailJob(w), NEW j \in Jobs
  PROVE  RowStep(j)
<1>1. UNCHANGED <<delivery, pinned>>
  BY DEF FailJob
<1>2. CASE processing'[j] = processing[j]
  BY <1>1, <1>2, UnchangedRow
<1>3. CASE processing'[j] # processing[j]
  <2>1. /\ job[w] = j
        /\ "failed" \in AllowedProcessing(processing[j])
        /\ processing'[j] \in {"failed", RequeueTarget(pinned[j])}
    BY <1>3 DEF FailJob, Requeue, RowInv, TypeOK
  <2>2. processing[j] \in ProcessingState
    BY <2>1 DEF AllowedProcessing, ProcessingState
  <2>3. PinInv(j)'
    BY <1>1, <2>1
    DEF PinInv, RowInv, RequeueTarget, CompletedStates, ActiveProcessingStates, Absent
  <2>4. processing'[j] \in Lifecycle!Reachable(processing[j])
    <3>1. "pending" \in AllowedProcessing("failed") /\ "ready" \in AllowedProcessing("failed")
      BY DEF AllowedProcessing, ProcessingState
    <3>2. QED
      BY <2>1, <3>1, SameVocabulary DEF Lifecycle!Reachable, RequeueTarget, QueuedStates
  <2>5. Lifecycle!JobStep(j)
    BY <1>1, <2>1, <2>2, <2>4, SameVocabulary
    DEF Lifecycle!JobStep, Lifecycle!Advance, RequeueTarget, CompletedStates
  <2>6. QED
    BY <2>3, <2>5 DEF RowStep
<1>4. QED
  BY <1>2, <1>3

\* Delivery moves one step along its own table.
LEMMA DeliveryRow ==
  ASSUME RowInv, NEW i \in Jobs, NEW from, NEW to, MoveDelivery(i, from, to),
         from \subseteq {"available", "expired", "deletion_pending"},
         \A s \in from : to \in AllowedDelivery(s), NEW j \in Jobs
  PROVE  RowStep(j)
<1>1. CASE i # j
  BY <1>1, UnchangedRow DEF MoveDelivery
<1>2. CASE i = j
  <2>1. /\ processing'[j] = processing[j] /\ pinned'[j] = pinned[j]
        /\ delivery[j] # "not_published" /\ delivery'[j] = to
    BY <1>2 DEF MoveDelivery, RowInv, TypeOK
  <2>2. PinInv(j)'
    BY <2>1 DEF PinInv, RowInv
  <2>3. Lifecycle!JobStep(j)
    BY <1>2, <2>1, SameVocabulary
    DEF MoveDelivery, Lifecycle!JobStep, Lifecycle!Retire
  <2>4. QED
    BY <2>2, <2>3 DEF RowStep
<1>3. QED
  BY <1>1, <1>2

\* record_acquisition and mark_available,
LEMMA PublicationRow ==
  ASSUME RowInv, NEW w \in Workers, MarkAvailable(w), NEW j \in Jobs
  PROVE  RowStep(j)
<1>1. processing'[j] = processing[j] /\ pinned'[j] = pinned[j]
  BY DEF MarkAvailable
<1>2. CASE delivery'[j] = delivery[j]
  BY <1>1, <1>2, UnchangedRow
<1>3. CASE delivery'[j] # delivery[j]
  <2>1. /\ processing[j] = "publishing" /\ delivery[j] = "not_published"
        /\ delivery'[j] = "available"
    BY <1>3 DEF MarkAvailable, RowInv, TypeOK
  <2>2. PinInv(j)'
    BY <1>1, <2>1 DEF PinInv, RowInv, ActiveProcessingStates
  <2>3. Lifecycle!JobStep(j)
    BY <1>1, <2>1 DEF Lifecycle!JobStep, Lifecycle!Publish
  <2>4. QED
    BY <2>2, <2>3 DEF RowStep
<1>4. QED
  BY <1>2, <1>3

\* and every web operation or delivery change.
LEMMA WebRow ==
  ASSUME RowInv, NEW i \in Jobs, WebOperation(i), NEW j \in Jobs
  PROVE  RowStep(j)
<1>1. CASE i # j
  <2>1. /\ processing'[j] = processing[j] /\ pinned'[j] = pinned[j]
        /\ delivery'[j] = delivery[j]
    <3>1. CASE CreateJob(i) \/ CommitCancel(i) \/ RetryJob(i)
      BY <1>1, <3>1 DEF CreateJob, CommitCancel, RetryJob, RowInv, TypeOK
    <3>2. CASE RequestEarlyDeletion(i) \/ \E target \in {"ready", "not_found"} : Review(i, target)
      BY <1>1, <3>2 DEF RequestEarlyDeletion, MoveDelivery, Review, RowInv, TypeOK
    <3>3. CASE CancelJob(i) \/ CancelFails(i)
      BY <3>3 DEF CancelJob, CancelFails, rowVars
    <3>4. QED
      BY <3>1, <3>2, <3>3
      DEF WebOperation, ApproveCandidate, ReplaceSourceUrl, MarkNotFound
  <2>2. QED
    BY <2>1, UnchangedRow
<1>2. CASE i = j /\ CreateJob(i)
  <2>1. PICK url \in BOOLEAN :
          processing'[j] = RequeueTarget(url) /\ pinned'[j] = url
    BY <1>2 DEF CreateJob, RowInv, TypeOK
  <2>2. processing[j] = Absent /\ delivery'[j] = delivery[j]
    BY <1>2 DEF CreateJob
  <2>3. PinInv(j)'
    BY <2>1, <2>2
    DEF RowInv, PinInv, RequeueTarget, CompletedStates, ActiveProcessingStates, Absent
  <2>4. Lifecycle!JobStep(j)
    BY <2>1, <2>2, SameVocabulary
    DEF Lifecycle!JobStep, Lifecycle!Create, RequeueTarget, QueuedStates
  <2>5. QED
    BY <2>3, <2>4 DEF RowStep
<1>3. ASSUME i = j, NEW target \in {"ready", "not_found"}, Review(i, target)
      PROVE  RowStep(j)
  <2>1. /\ processing[j] = "needs_review" /\ processing'[j] = target
        /\ pinned'[j] = (target = "ready")
    BY <1>3 DEF Review, RowInv, TypeOK
  <2>2. delivery[j] = "not_published" /\ delivery'[j] = delivery[j]
    BY <1>3, <2>1 DEF Review, RowInv, PinInv
  <2>3. PinInv(j)'
    BY <2>1, <2>2 DEF PinInv, CompletedStates, ActiveProcessingStates, Absent
  <2>4. Lifecycle!JobStep(j)
    BY <2>1, <2>2, EdgeAdvances DEF AllowedProcessing, ProcessingState, CompletedStates
  <2>5. QED
    BY <2>3, <2>4 DEF RowStep
<1>4. CASE i = j /\ CommitCancel(i)
  <2>1. /\ processing'[j] = "cancelled"
        /\ "cancelled" \in AllowedProcessing(processing[j])
        /\ delivery[j] = "not_published" /\ delivery'[j] = delivery[j]
        /\ pinned'[j] = pinned[j]
    BY <1>4 DEF CommitCancel, RowInv, TypeOK, LockedRow
  <2>2. processing[j] \in ProcessingState
    BY <2>1 DEF AllowedProcessing, ProcessingState
  <2>3. PinInv(j)'
    BY <2>1 DEF RowInv, PinInv, CompletedStates, ActiveProcessingStates, Absent
  <2>4. Lifecycle!JobStep(j)
    BY <2>1, <2>2, EdgeAdvances DEF CompletedStates
  <2>5. QED
    BY <2>3, <2>4 DEF RowStep
<1>5. CASE i = j /\ RetryJob(i)
  <2>1. /\ processing[j] \in {"failed", "interrupted"}
        /\ processing'[j] = RequeueTarget(pinned[j])
        /\ delivery'[j] = delivery[j] /\ pinned'[j] = pinned[j]
        /\ delivery[j] = "not_published"
    BY <1>5 DEF RetryJob, RowInv, TypeOK
  <2>2. PinInv(j)'
    BY <2>1
    DEF RowInv, PinInv, RequeueTarget, CompletedStates, ActiveProcessingStates, Absent
  <2>3. Lifecycle!JobStep(j)
    BY <2>1, EdgeAdvances
    DEF AllowedProcessing, ProcessingState, RequeueTarget, CompletedStates
  <2>4. QED
    BY <2>2, <2>3 DEF RowStep
<1>6. CASE RequestEarlyDeletion(i)
  BY <1>6, DeliveryRow DEF RequestEarlyDeletion, AllowedDelivery, DeliveryState
<1>7. CASE CancelJob(i) \/ CancelFails(i)
  BY <1>7, UnchangedRow DEF CancelJob, CancelFails, rowVars
<1>8. QED
  BY <1>1, <1>2, <1>3, <1>4, <1>5, <1>6, <1>7
  DEF WebOperation, ApproveCandidate, ReplaceSourceUrl, MarkNotFound

\* Every step of the queue keeps RowInv for every row and is one of the abstract
\* row's steps or leaves it alone.
LEMMA EveryRow ==
  ASSUME RowInv, Next, NEW j \in Jobs
  PROVE  RowStep(j)
<1>1. ASSUME NEW w \in Workers, Bookkeeping(w) PROVE RowStep(j)
  BY <1>1, BookkeepingLeavesRows, UnchangedRow DEF lifeVars
<1>2. ASSUME NEW w \in Workers, Cleanup(w) PROVE RowStep(j)
  BY <1>2, DeliveryRow
  DEF Cleanup, ExpireDueJob, MarkJobDeletedIfEmpty, AllowedDelivery, DeliveryState
<1>3. ASSUME Elsewhere PROVE RowStep(j)
  BY <1>3, UnchangedRow
  DEF Elsewhere, SetQueuePaused, LeaseExpires, BackoffElapses, rowVars
<1>4. QED
  BY NextByEffect, <1>1, <1>2, <1>3, StageChangeRow, RecoveryRow, ResolutionRow,
     FailureRow, PublicationRow, WebRow

\* Nothing takes a publication back.
LEMMA PublishedStays ==
  ASSUME RowInv, Next, NEW j \in Jobs, delivery[j] # "not_published"
  PROVE  delivery'[j] # "not_published"
BY EveryRow, SameVocabulary
DEF RowStep, AllowedDelivery, Lifecycle!JobStep, Lifecycle!Create, Lifecycle!Advance,
  Lifecycle!Publish, Lifecycle!Retire, Lifecycle!JobUnchanged

\* After any step a running worker has a job, and a completing one a published job.
LEMMA WorkersKeepJobs ==
  ASSUME RowInv, Next
  PROVE  /\ \A v \in Workers : pc'[v] \in Running => job'[v] \in Jobs
         /\ \A v \in Workers :
              pc'[v] = "completing" => delivery'[job'[v]] # "not_published"
<1> DEFINE Kept ==
      /\ \A v \in Workers : pc'[v] \in Running => job'[v] \in Jobs
      /\ \A v \in Workers :
           pc'[v] = "completing" => delivery'[job'[v]] # "not_published"
<1>1. ASSUME UNCHANGED job,
             \A v \in Workers : pc'[v] # pc[v] =>
               pc[v] \in Running \/ pc'[v] \notin Running,
             \A v \in Workers : pc'[v] = "completing" =>
               pc[v] = "completing" \/ delivery'[job[v]] # "not_published"
      PROVE  Kept
  BY <1>1, PublishedStays DEF RowInv, Running, InProcess
<1>2. ASSUME NEW w \in Workers, Bookkeeping(w) PROVE Kept
  BY <1>2, BookkeepingWorkers, PublishedStays DEF RowInv, Running, InProcess
<1>3. ASSUME NEW w \in Workers, NEW new \in ProcessingState, NEW place \in Place,
             StageChange(w, new, place)
      PROVE  Kept
  <2>1. place # "completing"
    BY <1>3 DEF StageChange, Packaging
  <2>2. QED
    BY <1>1, <1>3, <2>1, StageChangeMoves DEF RowInv, TypeOK, Running
<1>4. ASSUME NEW w \in Workers, RecoverAbandonedJobs(w) PROVE Kept
  BY <1>1, <1>4 DEF RecoverAbandonedJobs, Goto, RowInv, TypeOK, Running, InProcess
<1>5. ASSUME NEW w \in Workers, PersistResolution(w) \/ FailJob(w) PROVE Kept
  <2>1. /\ UNCHANGED job /\ pc[w] \in Running
        /\ pc' = [pc EXCEPT ![w] = pc'[w]] /\ pc'[w] # "completing"
    <3>1. CASE PersistResolution(w)
      BY <3>1
      DEF PersistResolution, Goto, Raise, RowInv, TypeOK, Running, InProcess
    <3>2. CASE FailJob(w)
      BY <3>2 DEF FailJob, Goto, RowInv, TypeOK, Running
    <3>3. QED
      BY <1>5, <3>1, <3>2
  <2>2. QED
    BY <1>1, <2>1 DEF RowInv, TypeOK
<1>6. ASSUME NEW w \in Workers, MarkAvailable(w) PROVE Kept
  <2>1. /\ UNCHANGED job /\ pc[w] \in Running /\ job[w] \in Jobs
        /\ pc' = [pc EXCEPT ![w] = pc'[w]]
        /\ pc'[w] = "completing" => delivery'[job[w]] # "not_published"
    BY <1>6 DEF MarkAvailable, Goto, Raise, RowInv, TypeOK, Running, InProcess
  <2>2. QED
    BY <1>1, <2>1 DEF RowInv, TypeOK
<1>7. ASSUME UNCHANGED <<pc, job>> PROVE Kept
  BY <1>1, <1>7
<1>8. ASSUME NEW w \in Workers, Cleanup(w) PROVE Kept
  BY <1>7, <1>8 DEF Cleanup, ExpireDueJob, MarkJobDeletedIfEmpty, MoveDelivery, workerVars
<1>9. ASSUME NEW j \in Jobs, WebOperation(j) PROVE Kept
  BY <1>7, <1>9
  DEF WebOperation, CreateJob, ApproveCandidate, ReplaceSourceUrl, MarkNotFound,
    Review, CancelJob, CommitCancel, CancelFails, RetryJob, RequestEarlyDeletion,
      MoveDelivery, workerVars
<1>10. ASSUME Elsewhere PROVE Kept
  BY <1>7, <1>10
  DEF Elsewhere, SetQueuePaused, LeaseExpires, BackoffElapses, workerVars
<1>11. QED
  BY NextByEffect, <1>2, <1>3, <1>4, <1>5, <1>6, <1>8, <1>9, <1>10

\* RowInv is inductive.
LEMMA RowInvStep == RowInv /\ [Next]_vars => RowInv'
<1>1. ASSUME RowInv, Next PROVE RowInv'
  <2>1. TypeOK' /\ \A j \in Jobs : LockedRow(j)'
    BY <1>1, TypeStep, LockStep DEF RowInv, LockInv
  <2>2. \A j \in Jobs : PinInv(j)'
    BY <1>1, EveryRow DEF RowStep
  <2>3. QED
    BY <1>1, <2>1, <2>2, WorkersKeepJobs DEF RowInv
<1>2. ASSUME RowInv, UNCHANGED vars PROVE RowInv'
  <2>1. TypeOK'
    BY <1>2, TypeStutter DEF RowInv
  <2>2. \A j \in Jobs : LockedRow(j)' = LockedRow(j) /\ PinInv(j)' = PinInv(j)
    BY <1>2 DEF LockedRow, Locked, PinInv, vars, rowVars, lockVars
  <2>3. QED
    BY <1>2, <2>1, <2>2 DEF RowInv, vars, rowVars, workerVars
<1>3. QED
  BY <1>1, <1>2

\* RowInv holds in every reachable state.
LEMMA RowsConsistent == Spec => []RowInv
BY RowInit, RowInvStep, PTL DEF Spec

\* A job past resolution always has its pinned source and a job before it never
\* has one, whatever interleaving of workers, recovery, retries and reviews.
THEOREM PinnedCorrect == Spec => []PinnedPastResolution
<1>1. RowInv => PinnedPastResolution
  BY DEF RowInv, PinInv, PinnedPastResolution
<1>2. QED
  BY <1>1, RowsConsistent, PTL

\* The queue implements the life of a job row that JobLifecycle describes, for
\* every number of jobs and workers and with leases lost at any moment.
THEOREM LifecycleImplemented == Spec => FollowsLifecycle
<1>1. Init => Lifecycle!Init
  BY SameVocabulary DEF Init, Lifecycle!Init
<1>2. RowInv /\ RowInv' /\ [Next]_vars => [Lifecycle!Next]_(Lifecycle!vars)
  <2>1. ASSUME RowInv, RowInv', Next PROVE Lifecycle!Next
    <3>1. /\ processing' = [j \in Jobs |-> processing'[j]]
          /\ delivery' = [j \in Jobs |-> delivery'[j]]
      BY <2>1 DEF RowInv, TypeOK
    <3>2. \A j \in Jobs : Lifecycle!JobStep(j) \/ Lifecycle!JobUnchanged(j)
      BY <2>1, EveryRow DEF RowStep
    <3>3. QED
      BY <3>1, <3>2 DEF Lifecycle!Next
  <2>2. ASSUME UNCHANGED vars PROVE UNCHANGED Lifecycle!vars
    BY <2>2 DEF vars, rowVars, Lifecycle!vars
  <2>3. QED
    BY <2>1, <2>2
<1>3. QED
  BY <1>1, <1>2, RowsConsistent, PTL DEF Spec, FollowsLifecycle, Lifecycle!Spec

-----------------------------------------------------------------------------
(* One worker per job, while leases are renewed in time.                   *)

\* A worker holds the unbroken claim it works under, and no two hold one token; that
\* is why a second worker cannot be on the same job.
HoldInv ==
  /\ \A w \in Workers : ~hbLost[w]
  /\ \A w \in Workers :
       pc[w] \in Running =>
         job[w] \in Jobs /\ Owns(w, job[w]) /\ claim[job[w]].kept
  /\ \A v, w \in Workers :
       v # w /\ pc[v] \in Running /\ pc[w] \in Running => token[v] # token[w]

\* Two workers that own the same claim row would have the same token.
LEMMA HoldsAlone ==
  ASSUME HoldInv
  PROVE  SoleProcessor
BY DEF HoldInv, SoleProcessor, Owns

\* A step that touches neither claims nor the workers' hold on them keeps HoldInv.
LEMMA HoldUnchanged ==
  ASSUME HoldInv, UNCHANGED <<claim, job, token, hbLost>>,
         \A v \in Workers : pc'[v] \in Running => pc[v] \in Running
  PROVE  HoldInv'
BY DEF HoldInv, Owns

\* A step of worker w between places where it holds its claim.
LEMMA HoldWorkerStep ==
  ASSUME HoldInv, TypeOK, NEW w \in Workers, pc[w] \in Running, NEW place,
         pc' = [pc EXCEPT ![w] = place], UNCHANGED <<claim, job, token, hbLost>>
  PROVE  HoldInv'
BY HoldUnchanged DEF TypeOK

\* Worker w no longer holds anything; its job's claim may be deleted with it.
LEMMA HoldForget ==
  ASSUME HoldInv, TypeOK, NEW w \in Workers, NEW place \in {"idle", "down"},
         Forget(w, place),
         \/ UNCHANGED claim
         \/ pc[w] \in Running /\ claim' = [claim EXCEPT ![job[w]] = NoClaim]
  PROVE  HoldInv'
<1>1. /\ \A v \in Workers : ~hbLost'[v]
      /\ pc'[w] \notin Running
      /\ \A v \in Workers \ {w} :
           pc'[v] = pc[v] /\ job'[v] = job[v] /\ token'[v] = token[v]
  BY DEF HoldInv, TypeOK, Forget, Goto, Running, InProcess
<1>2. \A v \in Workers \ {w} :
        pc[v] \in Running => claim'[job[v]] = claim[job[v]]
  BY HoldsAlone DEF HoldInv, SoleProcessor, TypeOK
<1>3. QED
  BY <1>1, <1>2 DEF HoldInv, Owns

\* Claiming, releasing, failing and dying keep HoldInv.
LEMMA HoldBookkeeping ==
  ASSUME ~HeartbeatsMayStall, LockInv, HoldInv, NEW w \in Workers, Bookkeeping(w)
  PROVE  HoldInv'
<1> USE DEF LockInv
<1>1. CASE ClaimNextJob(w)
  <2>1. PICK j \in Jobs, t \in Tokens :
          /\ NextInQueue(j) /\ Fresh(j, t)
          /\ claim' = [claim EXCEPT ![j] = [token |-> t, live |-> TRUE, kept |-> TRUE]]
          /\ job' = [job EXCEPT ![w] = j]
          /\ token' = [token EXCEPT ![w] = t]
    BY <1>1 DEF ClaimNextJob
  <2>2. UNCHANGED hbLost /\ pc' = [pc EXCEPT ![w] = "starting"]
    BY <1>1 DEF ClaimNextJob, Goto
  <2>3. ~claim[j].kept /\ \A v \in Workers : token[v] # t
    BY <2>1 DEF NextInQueue, Claimable, Fresh, LockInv, LockedRow
  <2>4. \A v \in Workers \ {w} :
          /\ pc'[v] = pc[v] /\ job'[v] = job[v] /\ token'[v] = token[v]
          /\ pc[v] \in Running => claim'[job[v]] = claim[job[v]]
    BY <2>1, <2>2, <2>3 DEF HoldInv, TypeOK
  <2>5. /\ job'[w] = j /\ token'[w] = t
        /\ claim'[j].token = t /\ claim'[j].kept
    BY <2>1 DEF TypeOK
  <2>6. QED
    BY <2>2, <2>3, <2>4, <2>5 DEF HoldInv, Owns
<1>2. CASE ReadPaused(w) \/ FindNothing(w)
  BY <1>2, HoldUnchanged
  DEF ReadPaused, FindNothing, Goto, TypeOK, Running, InProcess
<1>3. CASE StartAttempt(w) \/ FinishAttempt(w) \/ NoticeLostClaim(w)
             \/ AbandonAttempt(w) \/ CloseFailedAttempt(w)
  BY <1>3, HoldWorkerStep
  DEF StartAttempt, FinishAttempt, NoticeLostClaim, AbandonAttempt,
    CloseFailedAttempt, CheckPoints, Goto, Raise, Running, InProcess
<1>4. CASE StepRaises(w) \/ HandlerRaises(w)
  BY <1>4, HoldWorkerStep DEF StepRaises, HandlerRaises, Goto, Raise, Running
<1>5. CASE ReadJob(w) \/ RecordAcquisition(w)
  BY <1>5, HoldWorkerStep
  DEF ReadJob, RecordAcquisition, Goto, Raise, Packaging, Running, InProcess
<1>6. CASE ReleaseClaim(w)
  BY <1>6, HoldForget DEF ReleaseClaim, Running
<1>7. CASE ReleaseFails(w) \/ Crash(w)
  BY <1>7, HoldForget DEF ReleaseFails, Crash
<1>8. CASE SelectAbandoned(w)
  BY <1>8, HoldUnchanged
  DEF SelectAbandoned, SelectAbandonedSkipping, Goto, TypeOK, Running, InProcess
<1>9. CASE RenewLate(w)
  <2>1. PICK j \in Jobs : claim' = [claim EXCEPT ![j] = [claim[j] EXCEPT !.live = TRUE]]
    BY <1>9 DEF RenewLate
  <2>2. \A i \in Jobs : claim'[i].token = claim[i].token /\ claim'[i].kept = claim[i].kept
    BY <2>1 DEF TypeOK
  <2>3. QED
    BY <1>9, <2>2 DEF RenewLate, workerVars, HoldInv, Owns
<1>10. QED
  BY <1>1, <1>2, <1>3, <1>4, <1>5, <1>6, <1>7, <1>8, <1>9
  DEF Bookkeeping, HeartbeatFails

\* With leases renewed in time, HoldInv is inductive.
LEMMA HoldStep ==
  ASSUME ~HeartbeatsMayStall, LockInv, HoldInv, Next
  PROVE  HoldInv'
<1> USE DEF LockInv
<1>1. ASSUME NEW w \in Workers, NEW new, NEW place, StageChange(w, new, place)
      PROVE  HoldInv'
  <2>1. UNCHANGED hbLost
    BY <1>1
    DEF StageChange, Transition, BeginResolving, BeginDownloading,
      BeginVerifyingMaster, BeginConverting, BeginVerifyingOutput, BeginPackaging,
      BeginPublishing, Complete
  <2>2. QED
    BY <1>1, <2>1, StageChangeMoves, HoldWorkerStep DEF Running
<1>2. ASSUME NEW w \in Workers, RecoverAbandonedJobs(w) PROVE HoldInv'
  <2>1. /\ UNCHANGED <<job, token, hbLost>> /\ pc' = [pc EXCEPT ![w] = "idle"]
        /\ \A j \in Jobs : claim[j].kept => claim'[j] = claim[j]
    BY <1>2 DEF RecoverAbandonedJobs, Unclaimed, LockedRow, Goto
  <2>2. \A v \in Workers : pc'[v] \in Running => pc[v] \in Running
    BY <2>1 DEF TypeOK, Running, InProcess
  <2>3. QED
    BY <2>1, <2>2 DEF HoldInv, Owns
<1>3. ASSUME NEW w \in Workers, PersistResolution(w) \/ MarkAvailable(w) \/ FailJob(w)
      PROVE  HoldInv'
  BY <1>3, HoldWorkerStep
  DEF PersistResolution, MarkAvailable, FailJob, Goto, Raise, Running, InProcess
<1>4. ASSUME UNCHANGED <<claim, workerVars>> PROVE HoldInv'
  BY <1>4, HoldUnchanged DEF workerVars
<1>5. ASSUME NEW w \in Workers, Cleanup(w) PROVE HoldInv'
  BY <1>4, <1>5 DEF Cleanup, ExpireDueJob, MarkJobDeletedIfEmpty, MoveDelivery
<1>6. ASSUME NEW j \in Jobs, WebOperation(j) PROVE HoldInv'
  BY <1>4, <1>6
  DEF WebOperation, CreateJob, ApproveCandidate, ReplaceSourceUrl, MarkNotFound,
    Review, CancelJob, CommitCancel, CancelFails, RetryJob, RequestEarlyDeletion,
      MoveDelivery
<1>7. ASSUME Elsewhere PROVE HoldInv'
  <2>1. ASSUME NEW j \in Jobs, LeaseExpires(j) PROVE HoldInv'
    <3>1. \A w \in Workers : pc[w] \in Running => job[w] # j
      BY <2>1 DEF LeaseExpires, Renewing, HoldInv
    <3>2. \A i \in Jobs : i # j => claim'[i] = claim[i]
      BY <2>1 DEF LeaseExpires, TypeOK
    <3>3. QED
      BY <2>1, <3>1, <3>2 DEF LeaseExpires, workerVars, HoldInv, Owns
  <2>2. QED
    BY <1>4, <1>7, <2>1 DEF Elsewhere, SetQueuePaused, BackoffElapses
<1>8. QED
  BY NextByEffect, HoldBookkeeping, <1>1, <1>2, <1>3, <1>5, <1>6, <1>7

\* With leases renewed in time, every running worker owns a live claim.
LEMMA ClaimsHeld ==
  ASSUME ~HeartbeatsMayStall
  PROVE  Spec => []HoldInv
<1>1. Init => HoldInv
  BY DEF Init, HoldInv, Running, InProcess
<1>2. LockInv /\ HoldInv /\ [Next]_vars => HoldInv'
  <2>1. CASE UNCHANGED vars
    BY <2>1 DEF HoldInv, Owns, vars, workerVars
  <2>2. QED
    BY <2>1, HoldStep
<1>3. QED
  BY <1>1, <1>2, LocksHold, PTL DEF Spec

\* For every number of workers: when running workers keep their leases, no two
\* of them are ever on one job, however often others crash, restart and recover.
THEOREM OneWorkerPerJob ==
  ASSUME ~HeartbeatsMayStall
  PROVE  Spec => []SoleProcessor
<1>1. HoldInv => SoleProcessor
  BY HoldsAlone
<1>2. QED
  BY <1>1, ClaimsHeld, PTL

\* Recovery passes over the job of a running worker, so its attempt stays open.
LEMMA AttemptStep ==
  ASSUME LockInv, HoldInv, OwnAttemptOpen, Next
  PROVE  OwnAttemptOpen'
<1> USE DEF LockInv
<1>1. ASSUME UNCHANGED attempt,
             \A v \in Workers : pc'[v] \in InProcess => pc[v] \in InProcess
      PROVE  OwnAttemptOpen'
  BY <1>1 DEF OwnAttemptOpen
<1>2. ASSUME NEW w \in Workers, Bookkeeping(w) PROVE OwnAttemptOpen'
  <2>1. CASE StartAttempt(w)
    BY <2>1 DEF StartAttempt, Goto, OwnAttemptOpen, TypeOK, InProcess
  <2>2. CASE FinishAttempt(w) \/ AbandonAttempt(w) \/ CloseFailedAttempt(w)
    BY <2>2
    DEF FinishAttempt, AbandonAttempt, CloseFailedAttempt, Goto, Raise,
      OwnAttemptOpen, TypeOK, InProcess
  <2>3. CASE ReleaseClaim(w) \/ ReleaseFails(w) \/ Crash(w)
    BY <2>3
    DEF ReleaseClaim, ReleaseFails, Crash, Forget, Goto, OwnAttemptOpen, TypeOK,
      InProcess
  <2>4. CASE ReadJob(w) \/ RecordAcquisition(w)
    BY <1>1, <2>4
    DEF ReadJob, RecordAcquisition, Goto, Raise, Packaging, TypeOK, InProcess
  <2>5. CASE ReadPaused(w) \/ FindNothing(w) \/ ClaimNextJob(w) \/ NoticeLostClaim(w)
               \/ StepRaises(w) \/ HandlerRaises(w) \/ HeartbeatFails(w)
               \/ SelectAbandoned(w) \/ RenewLate(w)
    BY <1>1, <2>5
    DEF ReadPaused, FindNothing, ClaimNextJob, NoticeLostClaim, StepRaises,
      HandlerRaises, HeartbeatFails, SelectAbandoned, SelectAbandonedSkipping,
      RenewLate, workerVars, Goto, Raise, TypeOK, InProcess
  <2>6. QED
    BY <1>2, <2>1, <2>2, <2>3, <2>4, <2>5 DEF Bookkeeping
<1>3. ASSUME NEW w \in Workers, NEW new, NEW place, StageChange(w, new, place)
      PROVE  OwnAttemptOpen'
  <2>1. UNCHANGED attempt
    BY <1>3
    DEF StageChange, Transition, BeginResolving, BeginDownloading,
      BeginVerifyingMaster, BeginConverting, BeginVerifyingOutput, BeginPackaging,
      BeginPublishing, Complete
  <2>2. QED
    BY <1>1, <1>3, <2>1, StageChangeMoves DEF TypeOK
<1>4. ASSUME NEW w \in Workers, RecoverAbandonedJobs(w) PROVE OwnAttemptOpen'
  <2>1. \A v \in Workers : pc'[v] \in InProcess => pc[v] \in InProcess
    BY <1>4 DEF RecoverAbandonedJobs, Goto, TypeOK, InProcess
  <2>2. \A v \in Workers : pc[v] \in InProcess => job[v] \notin recovering[w]
    BY DEF HoldInv, LockedRow, Locked, Running
  <2>3. QED
    BY <1>4, <2>1, <2>2 DEF RecoverAbandonedJobs, OwnAttemptOpen
<1>5. ASSUME NEW w \in Workers, PersistResolution(w) \/ MarkAvailable(w) \/ FailJob(w)
      PROVE  OwnAttemptOpen'
  BY <1>1, <1>5
  DEF PersistResolution, MarkAvailable, FailJob, Goto, Raise, TypeOK, InProcess
<1>6. ASSUME UNCHANGED workerVars PROVE OwnAttemptOpen'
  BY <1>1, <1>6 DEF workerVars
<1>7. ASSUME NEW w \in Workers, Cleanup(w) PROVE OwnAttemptOpen'
  BY <1>6, <1>7 DEF Cleanup, ExpireDueJob, MarkJobDeletedIfEmpty, MoveDelivery
<1>8. ASSUME NEW j \in Jobs, WebOperation(j) PROVE OwnAttemptOpen'
  BY <1>6, <1>8
  DEF WebOperation, CreateJob, ApproveCandidate, ReplaceSourceUrl, MarkNotFound,
    Review, CancelJob, CommitCancel, CancelFails, RetryJob, RequestEarlyDeletion,
      MoveDelivery
<1>9. ASSUME Elsewhere PROVE OwnAttemptOpen'
  BY <1>6, <1>9 DEF Elsewhere, SetQueuePaused, LeaseExpires, BackoffElapses
<1>10. QED
  BY NextByEffect, <1>2, <1>3, <1>4, <1>5, <1>7, <1>8, <1>9

\* And recovery, run by however many restarting workers, never closes the attempt
\* of one that still processes.
THEOREM AttemptsStayOpen ==
  ASSUME ~HeartbeatsMayStall
  PROVE  Spec => []OwnAttemptOpen
<1>1. Init => OwnAttemptOpen
  BY DEF Init, OwnAttemptOpen, InProcess
<1>2. LockInv /\ HoldInv /\ OwnAttemptOpen /\ [Next]_vars => OwnAttemptOpen'
  <2>1. CASE UNCHANGED vars
    BY <2>1 DEF OwnAttemptOpen, vars, workerVars
  <2>2. QED
    BY <2>1, AttemptStep
<1>3. QED
  BY <1>1, <1>2, LocksHold, ClaimsHeld, PTL DEF Spec

-----------------------------------------------------------------------------
(* The outcome of a job, and the quality recorded for it.                  *)

\* Where a worker is past record_acquisition.
Recorded == {"converting", "checking", "packaging", "publishing", "marking", "completing"}

\* A worker past record_acquisition remembers what the row says, and no job is being
\* published before it is recorded: a recovery that finds one published can tell the
\* outcome.
QualityInv ==
  /\ \A w \in Workers :
       pc[w] \in Recorded => quality[job[w]] = IF best[w] THEN "best" ELSE "limited"
  /\ \A j \in Jobs : processing[j] = "publishing" => quality[j] # "unset"
  /\ OutcomeMatchesQuality

\* A step that records no quality moves no worker past the recording, and none out of
\* memory of it.
LEMMA QualityUnchanged ==
  ASSUME TypeOK, QualityInv, UNCHANGED quality,
         \A v \in Workers :
           pc'[v] \in Recorded =>
             pc[v] \in Recorded /\ job'[v] = job[v] /\ best'[v] = best[v],
         \A j \in Jobs :
           processing'[j] \in {"publishing"} \union CompletedStates =>
             \/ processing'[j] = processing[j]
             \/ processing'[j] = "publishing" /\ quality[j] # "unset"
             \/ processing'[j] = "completed" /\ quality[j] = "best"
             \/ processing'[j] = "completed_with_warnings" /\ quality[j] = "limited"
  PROVE  QualityInv'
<1>1. \A w \in Workers :
        pc'[w] \in Recorded => quality'[job'[w]] = IF best'[w] THEN "best" ELSE "limited"
  BY DEF QualityInv
<1>2. \A j \in Jobs : processing'[j] = "publishing" => quality'[j] # "unset"
  BY DEF QualityInv, CompletedStates
<1>3. OutcomeMatchesQuality'
  BY DEF QualityInv, OutcomeMatchesQuality, CompletedStates
<1>4. QED
  BY <1>1, <1>2, <1>3 DEF QualityInv

\* Recording: the worker is alone on the job, and the job is not published yet.
LEMMA QualityRecorded ==
  ASSUME TypeOK, HoldInv, QualityInv, NEW w \in Workers, RecordAcquisition(w)
  PROVE  QualityInv'
<1> DEFINE j == job[w]
<1>1. CASE processing[j] # "verifying_master"
  BY <1>1, QualityUnchanged
  DEF RecordAcquisition, Raise, Goto, TypeOK, Recorded
<1>2. CASE processing[j] = "verifying_master"
  <2>1. PICK q \in {"best", "limited"} :
          /\ quality' = [quality EXCEPT ![j] = q]
          /\ best' = [best EXCEPT ![w] = q = "best"]
    BY <1>2 DEF RecordAcquisition
  <2>2. /\ UNCHANGED <<processing, job>> /\ j \in Jobs
        /\ \A v \in Workers \ {w} : pc'[v] = pc[v] /\ best'[v] = best[v]
        /\ \A v \in Workers \ {w} : pc[v] \in Recorded => job[v] # j
    <3>1. UNCHANGED <<processing, job>> /\ pc[w] \in Running
      BY DEF RecordAcquisition, Running, InProcess
    <3>2. \A v \in Workers \ {w} : pc'[v] = pc[v] /\ best'[v] = best[v]
      BY <1>2, <2>1 DEF RecordAcquisition, Goto, TypeOK
    <3>3. QED
      BY <3>1, <3>2, HoldsAlone DEF HoldInv, SoleProcessor, Recorded, Running, InProcess
  <2>3. quality'[j] = q /\ best'[w] = (q = "best")
    BY <2>1, <2>2 DEF TypeOK
  <2>4. \A i \in Jobs : i # j => quality'[i] = quality[i]
    BY <2>1 DEF TypeOK
  <2>5. ASSUME NEW v \in Workers, pc'[v] \in Recorded
        PROVE  quality'[job'[v]] = IF best'[v] THEN "best" ELSE "limited"
    <3>1. CASE v = w
      BY <2>2, <2>3, <3>1
    <3>2. CASE v # w
      <4>1. pc[v] \in Recorded /\ job[v] # j /\ quality'[job[v]] = quality[job[v]]
        BY <2>1, <2>2, <2>5, <3>2 DEF TypeOK
      <4>2. QED
        BY <2>2, <3>2, <4>1 DEF QualityInv
    <3>3. QED
      BY <3>1, <3>2
  <2>6. \A i \in Jobs : processing'[i] = "publishing" => quality'[i] # "unset"
    BY <2>2, <2>3, <2>4 DEF QualityInv
  <2>7. OutcomeMatchesQuality'
    BY <1>2, <2>2, <2>4 DEF QualityInv, OutcomeMatchesQuality
  <2>8. QED
    BY <2>5, <2>6, <2>7 DEF QualityInv
<1>3. QED
  BY <1>1, <1>2

\* A worker publishes and completes what it remembers, which is what the row says.
LEMMA QualityStage ==
  ASSUME TypeOK, QualityInv, NEW w \in Workers, NEW new, NEW place,
         StageChange(w, new, place)
  PROVE  QualityInv'
<1>1. UNCHANGED <<quality, best>>
  BY DEF StageChange, Transition, BeginResolving, BeginDownloading,
    BeginVerifyingMaster, BeginConverting, BeginVerifyingOutput, BeginPackaging,
    BeginPublishing, Complete
<1>2. /\ place \in Recorded => pc[w] \in Recorded
      /\ new = "publishing" => pc[w] \in Recorded
      /\ new \in CompletedStates =>
           /\ pc[w] \in Recorded
           /\ new = IF best[w] THEN "completed" ELSE "completed_with_warnings"
  BY DEF StageChange, BeginResolving, BeginDownloading, BeginVerifyingMaster,
    BeginConverting, BeginVerifyingOutput, BeginPackaging, BeginPublishing, Complete,
    Packaging, Recorded, CompletedStates
<1>3. pc[w] \in Recorded => quality[job[w]] = IF best[w] THEN "best" ELSE "limited"
  BY DEF QualityInv
<1>4. /\ UNCHANGED job
      /\ \A v \in Workers : pc'[v] \in Recorded => pc[v] \in Recorded
  BY <1>2, StageChangeMoves DEF TypeOK, Recorded
<1>5. ASSUME NEW j \in Jobs,
             processing'[j] \in {"publishing"} \union CompletedStates,
             processing'[j] # processing[j]
      PROVE  \/ processing'[j] = "publishing" /\ quality[j] # "unset"
             \/ processing'[j] = "completed" /\ quality[j] = "best"
             \/ processing'[j] = "completed_with_warnings" /\ quality[j] = "limited"
  <2>1. j = job[w] /\ processing'[j] = new
    BY <1>5, StageChangeMoves DEF TypeOK
  <2>2. QED
    BY <1>2, <1>3, <1>5, <2>1 DEF CompletedStates
<1>6. QED
  BY <1>1, <1>4, <1>5, QualityUnchanged

\* With leases renewed in time, QualityInv is inductive.
LEMMA QualityStep ==
  ASSUME TypeOK, HoldInv, QualityInv, Next
  PROVE  QualityInv'
<1>1. ASSUME UNCHANGED <<quality, processing>>,
             \A v \in Workers :
               pc'[v] \in Recorded =>
                 pc[v] \in Recorded /\ job'[v] = job[v] /\ best'[v] = best[v]
      PROVE  QualityInv'
  BY <1>1, QualityUnchanged
<1>2. ASSUME UNCHANGED <<quality, workerVars>>,
             \A j \in Jobs :
               processing'[j] \in {"publishing"} \union CompletedStates =>
                 processing'[j] = processing[j]
      PROVE  QualityInv'
  BY <1>2, QualityUnchanged DEF workerVars
<1>3. ASSUME NEW w \in Workers, Bookkeeping(w), ~RecordAcquisition(w) PROVE QualityInv'
  <2>1. UNCHANGED <<quality, processing>>
    BY <1>3
    DEF Bookkeeping, rowVars, ReadPaused, ClaimNextJob, FindNothing, StartAttempt,
      ReadJob, FinishAttempt, NoticeLostClaim, AbandonAttempt, CloseFailedAttempt,
      ReleaseClaim, StepRaises, HandlerRaises, ReleaseFails, HeartbeatFails, Crash,
      SelectAbandoned, SelectAbandonedSkipping, RenewLate
  <2>2. CASE ClaimNextJob(w)
    BY <1>1, <2>1, <2>2 DEF ClaimNextJob, Goto, TypeOK, Recorded
  <2>3. CASE ReleaseClaim(w) \/ ReleaseFails(w) \/ Crash(w)
    BY <1>1, <2>1, <2>3
    DEF ReleaseClaim, ReleaseFails, Crash, Forget, Goto, TypeOK, Recorded
  <2>4. CASE \/ ReadPaused(w) \/ FindNothing(w) \/ StartAttempt(w) \/ ReadJob(w)
             \/ FinishAttempt(w) \/ NoticeLostClaim(w) \/ AbandonAttempt(w)
             \/ CloseFailedAttempt(w) \/ StepRaises(w) \/ HandlerRaises(w)
             \/ HeartbeatFails(w) \/ SelectAbandoned(w) \/ RenewLate(w)
    BY <1>1, <2>1, <2>4
    DEF SelectAbandoned, SelectAbandonedSkipping, RenewLate, workerVars, ReadPaused,
      FindNothing, StartAttempt, ReadJob, FinishAttempt,
      NoticeLostClaim, AbandonAttempt, CloseFailedAttempt, StepRaises,
      HandlerRaises, HeartbeatFails, Goto, Raise, TypeOK, Recorded
  <2>5. QED
    BY <1>3, <2>2, <2>3, <2>4 DEF Bookkeeping
<1>4. ASSUME NEW w \in Workers, RecoverAbandonedJobs(w) PROVE QualityInv'
  <2>1. /\ UNCHANGED <<quality, job, best>>
        /\ \A v \in Workers : pc'[v] \in Recorded => pc[v] \in Recorded
    BY <1>4 DEF RecoverAbandonedJobs, Goto, TypeOK, Recorded
  <2>2. ASSUME NEW j \in Jobs,
               processing'[j] \in {"publishing"} \union CompletedStates,
               processing'[j] # processing[j]
        PROVE  \/ processing'[j] = "completed" /\ quality[j] = "best"
               \/ processing'[j] = "completed_with_warnings" /\ quality[j] = "limited"
    <3>1. processing'[j] = RecoveredState(j)
      BY <1>4, <2>2 DEF RecoverAbandonedJobs
    <3>2. processing[j] = "publishing" =>
            quality[j] \in {"unset", "best", "limited"} /\ quality[j] # "unset"
      BY DEF QualityInv, TypeOK
    <3>3. QED
      BY <2>2, <3>1, <3>2 DEF RecoveredState, RequeueTarget, CompletedStates
  <2>3. QED
    BY <2>1, <2>2, QualityUnchanged
<1>5. ASSUME NEW w \in Workers, PersistResolution(w) PROVE QualityInv'
  BY <1>5, QualityUnchanged
  DEF PersistResolution, Goto, Raise, TypeOK, Recorded, CompletedStates
<1>6. ASSUME NEW w \in Workers, MarkAvailable(w) PROVE QualityInv'
  BY <1>1, <1>6 DEF MarkAvailable, Goto, Raise, TypeOK, Recorded
<1>7. ASSUME NEW w \in Workers, FailJob(w) PROVE QualityInv'
  <2>1. /\ UNCHANGED <<quality, job, best>>
        /\ \A v \in Workers : pc'[v] \in Recorded => pc[v] \in Recorded
    BY <1>7 DEF FailJob, Goto, TypeOK, Recorded
  <2>2. \A j \in Jobs : processing'[j] \in {processing[j], "failed", "pending", "ready"}
    BY <1>7 DEF FailJob, Requeue, RequeueTarget, TypeOK
  <2>3. QED
    BY <2>1, <2>2, QualityUnchanged DEF CompletedStates
<1>8. ASSUME NEW w \in Workers, Cleanup(w) PROVE QualityInv'
  BY <1>2, <1>8 DEF Cleanup, ExpireDueJob, MarkJobDeletedIfEmpty, MoveDelivery
<1>9. ASSUME NEW i \in Jobs, WebOperation(i) PROVE QualityInv'
  <2>1. /\ UNCHANGED <<quality, workerVars>>
        /\ \A j \in Jobs :
             processing'[j] \in {processing[j], "pending", "ready", "not_found", "cancelled"}
    BY <1>9
    DEF rowVars, WebOperation, CreateJob, ApproveCandidate, ReplaceSourceUrl, MarkNotFound,
      Review, CancelJob, CommitCancel, CancelFails, RetryJob, RequestEarlyDeletion,
      MoveDelivery, RequeueTarget,
      TypeOK
  <2>2. QED
    BY <1>2, <2>1 DEF CompletedStates
<1>10. ASSUME Elsewhere PROVE QualityInv'
  BY <1>2, <1>10
  DEF Elsewhere, SetQueuePaused, LeaseExpires, BackoffElapses, rowVars
<1>11. QED
  BY NextByEffect, QualityRecorded, QualityStage, <1>3, <1>4, <1>5, <1>6, <1>7, <1>8,
     <1>9, <1>10

\* With leases renewed in time, a job ends as completed exactly when the acquisition
\* recorded for it was the best available, whether its worker says so or, after a
\* crash between the two, the recovery of another process.
THEOREM OutcomesMatch ==
  ASSUME ~HeartbeatsMayStall
  PROVE  Spec => []OutcomeMatchesQuality
<1>1. Init => QualityInv
  BY DEF Init, QualityInv, OutcomeMatchesQuality, Recorded, Absent
<1>2. TypeOK /\ HoldInv /\ QualityInv /\ [Next]_vars => QualityInv'
  <2>1. CASE UNCHANGED vars
    BY <2>1 DEF QualityInv, OutcomeMatchesQuality, vars, rowVars, workerVars
  <2>2. QED
    BY <2>1, QualityStep
<1>3. QualityInv => OutcomeMatchesQuality
  BY DEF QualityInv
<1>4. QED
  BY <1>1, <1>2, <1>3, TypeCorrect, ClaimsHeld, PTL DEF Spec
=============================================================================

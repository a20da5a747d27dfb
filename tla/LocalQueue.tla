------------------------------ MODULE LocalQueue ------------------------------
(***************************************************************************)
(* The local queue: one SQLite file shared by the web application, its     *)
(* worker thread and command-line processes.  A repository method reads a  *)
(* row, checks it against the transition table and then opens the          *)
(* transaction that writes it, so another process may write in between: a  *)
(* step here is such a read or such a commit.  Claiming alone is one       *)
(* transaction (BEGIN IMMEDIATE).                                          *)
(*                                                                         *)
(* All jobs name one source, so they share its archive item and assets.    *)
(***************************************************************************)
EXTENDS Integers, FiniteSets

CONSTANTS
  Jobs,            \* job ids, in the order the queue serves them
  Workers,         \* processes that may run a SequentialWorker
  Users,           \* clients whose requests are served one at a time
  Profiles,        \* the output profiles requested
  NoWorker, Gone,  \* nobody, and a process that has ended
  StartsOverlap    \* whether a process may start while another claims work

ASSUME LocalQueueAssumption ==
  /\ Jobs \subseteq Nat \ {0}
  /\ Workers \intersect Users = {}
  /\ {NoWorker, Gone} \intersect (Workers \union Users) = {}
  /\ NoWorker # Gone
  /\ Profiles \subseteq {"archive", "ableton", "listen", "complete"}
  /\ StartsOverlap \in BOOLEAN

Actors == Workers \union Users

Absent == "absent"

JobState ==
  {"pending", "resolving", "needs_review", "ready", "downloading",
   "verifying_master", "converting", "verifying_output", "completed",
   "completed_with_warnings", "failed", "interrupted", "skipped_duplicate",
   "not_found", "cancelled"}

ActiveStates ==
  {"resolving", "downloading", "verifying_master", "converting", "verifying_output"}

CompletedStates == {"completed", "completed_with_warnings"}

TerminalStates ==
  CompletedStates \union {"skipped_duplicate", "not_found", "cancelled"}

\* The states claim_next_queue_job hands to a worker.
RunnableStates == {"pending", "ready", "converting"}

AllowedTransitions(s) ==
  { t \in JobState :
      \/ s = "pending"      /\ t \in {"resolving", "ready", "cancelled", "failed"}
      \/ s = "resolving"    /\ t \in {"needs_review", "ready", "not_found",
                                      "failed", "interrupted"}
      \/ s = "needs_review" /\ t \in {"ready", "not_found", "cancelled"}
      \/ s = "ready"        /\ t \in {"downloading", "skipped_duplicate",
                                      "cancelled", "failed"}
      \/ s = "downloading"  /\ t \in {"verifying_master", "failed", "interrupted"}
      \/ s = "verifying_master" /\ t \in {"converting", "failed", "interrupted"}
                                           \union CompletedStates
      \/ s = "converting"   /\ t \in {"verifying_output", "failed", "interrupted"}
      \/ s = "verifying_output" /\ t \in {"failed", "interrupted"} \union CompletedStates
      \/ s = "failed"       /\ t \in {"pending", "ready", "cancelled"}
      \/ s = "interrupted"  /\ t \in {"pending", "ready", "failed", "cancelled"} }

\* The asset roles a profile asks for; the master comes with the archive item.
Derivatives(profile) ==
  CASE profile = "archive"  -> {}
    [] profile = "ableton"  -> {"ableton"}
    [] profile = "listen"   -> {"listening"}
    [] profile = "complete" -> {"ableton", "listening"}

VARIABLES
  state,           \* jobs.state
  pinned,          \* source_extractor, source_id and source_url are set
  profile,         \* jobs.profile
  quality,         \* jobs.quality_status: "unset", "best", "limited"
  assets,          \* roles recorded for the source; "master" with its archive item
  claim,           \* the row of worker_claims and the process in its token
  pc, job,         \* each worker: its place, the job it claimed
  best,            \* the acquisition it returned is verified_best_available
  todo,            \* what each actor checked and is about to write
  \* History: the clients whose row somebody else has written since they checked
  \* it, and the jobs such a client wrote all the same.
  stale, overtaken

rowVars == <<state, pinned, profile, quality, stale, overtaken>>
vars    == <<rowVars, assets, claim, pc, job, best, todo>>

NoJob   == 0
NoClaim == [job |-> NoJob, owner |-> NoWorker]

\* A row to write.  The pin is kept, set or cleared by the same UPDATE.
Write(j, to, pin) == [job |-> j, to |-> to, pin |-> pin]

Writes == [job : Jobs, to : JobState, pin : {"keep", "set", "clear"}]

\* _execute_job and the functions it calls.
Executing ==
  {"loading", "resolving", "persisting", "rereading", "acquiring", "verifying",
   "recording", "closing", "deriving", "ableton", "ableton_check", "ableton_close",
   "between", "listening", "listening_check", "listening_close"}

\* Where a worker believes it holds the claim.
Running == Executing \union {"failing", "releasing"}

Recovering == {"interrupting", "clearing", "requeueing"}

Place == Running \union Recovering \union {"down", "polling"}

TypeOK ==
  /\ state \in [Jobs -> JobState \union {Absent}]
  /\ pinned \in [Jobs -> BOOLEAN]
  /\ profile \in [Jobs -> {"archive", "ableton", "listen", "complete"}]
  /\ quality \in [Jobs -> {"unset", "best", "limited"}]
  /\ assets \subseteq {"master", "ableton", "listening"}
  /\ claim \in [job : Jobs, owner : Workers \union {Gone}] \union {NoClaim}
  /\ pc \in [Workers -> Place]
  /\ job \in [Workers -> Jobs \union {NoJob}]
  /\ best \in [Workers -> BOOLEAN]
  /\ todo \in [Actors -> SUBSET Writes]
  /\ stale \subseteq Users
  /\ overtaken \subseteq Jobs

Init ==
  /\ state = [j \in Jobs |-> Absent]
  /\ pinned = [j \in Jobs |-> FALSE]
  /\ profile = [j \in Jobs |-> "archive"]
  /\ quality = [j \in Jobs |-> "unset"]
  /\ assets = {}
  /\ claim = NoClaim
  /\ pc = [w \in Workers |-> "down"]
  /\ job = [w \in Workers |-> NoJob]
  /\ best = [w \in Workers |-> FALSE]
  /\ todo = [a \in Actors |-> {}]
  /\ stale = {}
  /\ overtaken = {}

-----------------------------------------------------------------------------
(* Reading, then writing.                                                  *)

Goto(w, place) == pc' = [pc EXCEPT ![w] = place]

\* The program goes on from its place once what it checked has been written.
At(w, place) == pc[w] = place /\ todo[w] = {}

Prepare(a, writes) == todo' = [todo EXCEPT ![a] = writes]

\* The requests on a row that a write of it overtakes.
Overtaken(a) ==
  { u \in Users \ {a} : \E r \in todo[a], s \in todo[u] : r.job = s.job }

\* The write after a check: by row id, whatever the row has become since.
Commit(a) ==
  /\ todo[a] # {}
  /\ state' = [j \in Jobs |->
                 IF \E r \in todo[a] : r.job = j
                   THEN (CHOOSE r \in todo[a] : r.job = j).to ELSE state[j]]
  /\ pinned' = [j \in Jobs |->
                  \/ \E r \in todo[a] : r.job = j /\ r.pin = "set"
                  \/ pinned[j] /\ ~\E r \in todo[a] : r.job = j /\ r.pin = "clear"]
  /\ Prepare(a, {})
  /\ stale' = (stale \ {a}) \union Overtaken(a)
  /\ overtaken' = overtaken \union (IF a \in stale THEN { r.job : r \in todo[a] } ELSE {})
  /\ UNCHANGED <<profile, quality, assets, claim, pc, job, best>>

\* The stages in which the function a place belongs to records its own failure.
OwnStages(place) ==
  CASE place = "persisting" -> {"resolving"}
    [] place \in {"verifying", "recording", "closing"}
         -> {"downloading", "verifying_master"}
    [] place \in {"ableton", "ableton_check", "ableton_close", "listening",
                  "listening_check", "listening_close"}
         -> {"converting", "verifying_output"}
    [] OTHER -> {}

\* An exception leaves a function of the pipeline: its except clause reads the
\* job and fails it, then run_next's handler takes over.
Raise(w) ==
  LET j == job[w] IN
  /\ Goto(w, "failing")
  /\ Prepare(w, { r \in {Write(j, "failed", "keep")} : state[j] \in OwnStages(pc[w]) })

\* transition_job's read and check.
Transition(w, new, place) ==
  LET j == job[w] IN
  \/ /\ new \in AllowedTransitions(state[j])
     /\ Prepare(w, {Write(j, new, "keep")})
     /\ Goto(w, place)
  \/ /\ new \notin AllowedTransitions(state[j])
     /\ Raise(w)

-----------------------------------------------------------------------------
(* recover_startup.                                                        *)

\* Mutant: recovery takes every claim for a stale one.
ListNoClaims(w) ==
  /\ At(w, "down")
  /\ Goto(w, "interrupting")
  /\ UNCHANGED <<rowVars, assets, claim, job, best, todo>>

\* No claim of a living process: recovery may begin.  A claim whose process id
\* was taken over keeps the new process from starting, which changes nothing.
ListClaims(w) ==
  /\ At(w, "down")
  /\ claim.owner \in {NoWorker, Gone}
  /\ Goto(w, "interrupting")
  /\ UNCHANGED <<rowVars, assets, claim, job, best, todo>>

\* Mutant: only the job of the stale claim is looked at.
InterruptClaimedJob(w) ==
  /\ At(w, "interrupting")
  /\ Prepare(w, { Write(j, "interrupted", "keep") :
                    j \in { i \in Jobs : state[i] \in ActiveStates /\ claim.job = i } })
  /\ Goto(w, "clearing")
  /\ UNCHANGED <<rowVars, assets, claim, job, best>>

InterruptActiveJobs(w) ==
  /\ At(w, "interrupting")
  /\ Prepare(w, { Write(j, "interrupted", "keep") :
                    j \in { i \in Jobs : state[i] \in ActiveStates } })
  /\ Goto(w, "clearing")
  /\ UNCHANGED <<rowVars, assets, claim, job, best>>

ClearWorkerClaims(w) ==
  /\ At(w, "clearing")
  /\ claim' = NoClaim
  /\ Goto(w, "requeueing")
  /\ UNCHANGED <<rowVars, assets, job, best, todo>>

\* Mutants: a state the enumeration does not list; the pin ignored.
RequeuedUnlisted(j) == IF pinned[j] THEN "ready" ELSE "queued"
RequeuedReady(j)    == "ready"

\* The queue state a job returns to: acquisition, or resolution.
RequeueTarget(j) == IF pinned[j] THEN "ready" ELSE "pending"

RecoverInterruptedJobs(w) ==
  /\ At(w, "requeueing")
  /\ Prepare(w, { Write(j, RequeueTarget(j), "keep") :
                    j \in { i \in Jobs : state[i] = "interrupted" } })
  /\ Goto(w, "polling")
  /\ UNCHANGED <<rowVars, assets, claim, job, best>>

-----------------------------------------------------------------------------
(* run_next and _execute_job.                                              *)

\* The environment's part of the single-worker policy: nobody starts a process
\* while another is about to claim.
StartingUp(v) == pc[v] \in Recovering \/ (pc[v] = "polling" /\ todo[v] # {})

StartsInTheWay == ~StartsOverlap /\ \E v \in Workers : StartingUp(v)

\* Mutant: a claim on another job is no obstacle.
ClaimOtherJob(w) ==
  /\ At(w, "polling")
  /\ ~StartsInTheWay
  /\ \E j \in Jobs :
       /\ state[j] \in RunnableStates
       /\ claim.job # j
       /\ claim' = [job |-> j, owner |-> w]
       /\ job' = [job EXCEPT ![w] = j]
  /\ Goto(w, "loading")
  /\ UNCHANGED <<rowVars, assets, best, todo>>

\* claim_next_queue_job: any claim row at all sends the worker away.
ClaimNextQueueJob(w) ==
  /\ At(w, "polling")
  /\ ~StartsInTheWay
  /\ claim = NoClaim
  /\ \E j \in Jobs :
       /\ state[j] \in RunnableStates
       /\ \A i \in Jobs : state[i] \in RunnableStates => j <= i
       /\ claim' = [job |-> j, owner |-> w]
       /\ job' = [job EXCEPT ![w] = j]
  /\ Goto(w, "loading")
  /\ UNCHANGED <<rowVars, assets, best, todo>>

\* Out of run_next: on to the next poll, or to an end of the process.
Leave(w, place) ==
  /\ Goto(w, place)
  /\ job' = [job EXCEPT ![w] = NoJob]
  /\ best' = [best EXCEPT ![w] = FALSE]

\* _execute_job looks at the job it claimed, or has just resolved; a job to be
\* acquired must have a pinned source.
LoadJob(w) ==
  LET s == state[job[w]] IN
  /\ At(w, "loading") \/ At(w, "rereading")
  /\ \/ pc[w] = "loading" /\ s = "pending" /\ Goto(w, "resolving")
     \/ s = "ready" /\ pinned[job[w]] /\ Goto(w, "acquiring")
     \/ s = "ready" /\ ~pinned[job[w]] /\ Goto(w, "failing")
     \/ s = "converting" /\ Goto(w, "deriving")
     \/ /\ s \notin {"ready", "converting"}
        /\ ~(pc[w] = "loading" /\ s = "pending")
        /\ Goto(w, "releasing")
  /\ UNCHANGED <<rowVars, assets, claim, job, best, todo>>

BeginResolving(w) ==
  /\ At(w, "resolving")
  /\ Transition(w, "resolving", "persisting")
  /\ UNCHANGED <<rowVars, assets, claim, job, best>>

\* The search, decide_resolution's three outcomes, and _persist_decision.
PersistDecision(w) ==
  LET j == job[w] IN
  /\ At(w, "persisting")
  /\ \/ /\ state[j] = "resolving"
        /\ \E target \in {"ready", "needs_review", "not_found"} :
             Prepare(w, {Write(j, target, IF target = "ready" THEN "set" ELSE "clear")})
        /\ Goto(w, "rereading")
     \/ /\ state[j] # "resolving"
        /\ Raise(w)
  /\ UNCHANGED <<rowVars, assets, claim, job, best>>

BeginDownloading(w) ==
  /\ At(w, "acquiring")
  /\ Transition(w, "downloading", "verifying")
  /\ UNCHANGED <<rowVars, assets, claim, job, best>>

BeginVerifyingMaster(w) ==
  /\ At(w, "verifying")
  /\ Transition(w, "verifying_master", "recording")
  /\ UNCHANGED <<rowVars, assets, claim, job, best>>

\* record_acquisition writes without looking at the job's state.
RecordAcquisition(w) ==
  /\ At(w, "recording")
  /\ \E q \in {"best", "limited"} :
       /\ quality' = [quality EXCEPT ![job[w]] = q]
       /\ best' = [best EXCEPT ![w] = q = "best"]
  /\ assets' = assets \union {"master"}
  /\ Goto(w, "closing")
  /\ UNCHANGED <<state, pinned, profile, claim, job, todo, stale, overtaken>>

Outcome(isBest) == IF isBest THEN "completed" ELSE "completed_with_warnings"

\* The archive profile ends here; the others go on to their derivatives.
CloseAcquisition(w) ==
  /\ At(w, "closing")
  /\ IF profile[job[w]] = "archive"
       THEN Transition(w, Outcome(best[w]), "releasing")
       ELSE Transition(w, "converting", "deriving")
  /\ UNCHANGED <<rowVars, assets, claim, job, best>>

\* Where _execute_job starts the derivatives of a profile; archive has none.
FirstDerivative(prof) ==
  CASE prof \in {"ableton", "complete"} -> "ableton"
    [] prof = "listen"                  -> "listening"
    [] prof = "archive"                 -> "failing"

\* After the Ableton one of a complete profile comes the other; either time the
\* job must still say converting.
ChooseDerivative(w) ==
  LET j == job[w]
      next == CASE state[j] # "converting"    -> "releasing"
                [] pc[w] = "deriving"         -> FirstDerivative(profile[j])
                [] profile[j] = "complete"    -> "listening"
                [] OTHER                      -> "releasing"
  IN
  /\ At(w, "deriving") \/ At(w, "between")
  /\ Goto(w, next)
  /\ UNCHANGED <<rowVars, assets, claim, job, best, todo>>

\* create_ableton_for_job and create_listening_for_job up to the recorded asset.
CreateDerivative(w, place, next) ==
  LET j == job[w] IN
  /\ At(w, place)
  /\ \/ /\ state[j] = "converting" /\ pinned[j] /\ "master" \in assets
        /\ assets' = assets \union {place}
        /\ Goto(w, next)
        /\ UNCHANGED todo
     \/ /\ ~(state[j] = "converting" /\ pinned[j] /\ "master" \in assets)
        /\ Raise(w)
        /\ UNCHANGED assets
  /\ UNCHANGED <<rowVars, claim, job, best>>

\* Mutant: one recorded derivative is enough.
CheckAnyOutput(w, place, next, otherwise) ==
  /\ At(w, place)
  /\ Transition(w, "verifying_output", next)
  /\ UNCHANGED <<rowVars, assets, claim, job, best>>

\* _finish_derivative_job_if_complete: are all the roles recorded for the source?
CheckOutputs(w, place, next, otherwise) ==
  LET complete == Derivatives(profile[job[w]]) \subseteq assets IN
  /\ At(w, place)
  /\ \/ complete /\ Transition(w, "verifying_output", next)
     \/ ~complete /\ Goto(w, otherwise) /\ UNCHANGED todo
  /\ UNCHANGED <<rowVars, assets, claim, job, best>>

CloseDerivative(w, place, next) ==
  /\ At(w, place)
  /\ Transition(w, Outcome(quality[job[w]] = "best"), next)
  /\ UNCHANGED <<rowVars, assets, claim, job, best>>

CreateAbleton(w)   == CreateDerivative(w, "ableton", "ableton_check")
CheckAbleton(w)    == CheckOutputs(w, "ableton_check", "ableton_close", "between")
CloseAbleton(w)    == CloseDerivative(w, "ableton_close", "between")
CreateListening(w) == CreateDerivative(w, "listening", "listening_check")
CheckListening(w)  == CheckOutputs(w, "listening_check", "listening_close", "releasing")
CloseListening(w)  == CloseDerivative(w, "listening_close", "releasing")

\* run_next's handler: fail the job unless it is closed or failed already; a
\* refused transition is swallowed.
FailJob(w) ==
  LET s == state[job[w]] IN
  /\ At(w, "failing")
  /\ Prepare(w, { r \in {Write(job[w], "failed", "keep")} :
                    /\ s \notin TerminalStates \union {"failed"}
                    /\ "failed" \in AllowedTransitions(s) })
  /\ Goto(w, "releasing")
  /\ UNCHANGED <<rowVars, assets, claim, job, best>>

\* release_worker_claim; a claim that is gone raises RuntimeError.
ReleaseClaim(w) ==
  /\ At(w, "releasing")
  /\ claim' = IF claim = [job |-> job[w], owner |-> w] THEN NoClaim ELSE claim
  /\ Leave(w, "polling")
  /\ UNCHANGED <<rowVars, assets, todo>>

-----------------------------------------------------------------------------
(* Failures.                                                               *)

ToolRaises(w) ==
  /\ pc[w] \in Executing
  /\ todo[w] = {}
  /\ Raise(w)
  /\ UNCHANGED <<rowVars, assets, claim, job, best>>

\* The database stays locked, or the disk is full.
WriteFails(w) ==
  /\ todo[w] # {}
  /\ \/ /\ pc[w] \in Recovering \union {"polling"}
        /\ Goto(w, "down")
        /\ Prepare(w, {})
     \/ /\ pc[w] \in Running
        /\ \/ /\ \E r \in todo[w] : r.to = "failed"
              /\ Prepare(w, {})
              /\ UNCHANGED pc
           \/ /\ \A r \in todo[w] : r.to # "failed"
              /\ Raise(w)
  /\ UNCHANGED <<rowVars, assets, claim, job, best>>

\* release_worker_claim itself raises: the row stays, with a living process.
ReleaseFails(w) ==
  /\ At(w, "releasing")
  /\ Leave(w, "polling")
  /\ UNCHANGED <<rowVars, assets, claim, todo>>

\* The process ends, between jobs or in the middle of one.
Stop(w) ==
  /\ pc[w] # "down"
  /\ Leave(w, "down")
  /\ Prepare(w, {})
  /\ claim' = IF claim.owner = w THEN [claim EXCEPT !.owner = Gone] ELSE claim
  /\ UNCHANGED <<rowVars, assets>>

-----------------------------------------------------------------------------
(* Requests of users, in the browser or on the command line.               *)

CreateJob(j) ==
  /\ state[j] = Absent
  /\ \E url \in BOOLEAN, p \in Profiles :
       /\ state' = [state EXCEPT ![j] = IF url THEN "ready" ELSE "pending"]
       /\ pinned' = [pinned EXCEPT ![j] = url]
       /\ profile' = [profile EXCEPT ![j] = p]
  /\ UNCHANGED <<quality, assets, claim, pc, job, best, todo, stale, overtaken>>

Request(u, write) ==
  /\ todo[u] = {}
  /\ Prepare(u, {write})
  /\ UNCHANGED <<rowVars, assets, claim, pc, job, best>>

CancelJob(u, j) ==
  "cancelled" \in AllowedTransitions(state[j]) /\ Request(u, Write(j, "cancelled", "keep"))

RetryJob(u, j) ==
  state[j] \in {"failed", "interrupted"} /\ Request(u, Write(j, RequeueTarget(j), "keep"))

ApproveCandidate(u, j) ==
  state[j] = "needs_review" /\ Request(u, Write(j, "ready", "set"))

ReplaceSourceUrl(u, j) ==
  state[j] = "needs_review" /\ Request(u, Write(j, "ready", "set"))

MarkNotFound(u, j) ==
  state[j] = "needs_review" /\ Request(u, Write(j, "not_found", "clear"))

-----------------------------------------------------------------------------
RecoverStartup(w) ==
  \/ ListClaims(w) \/ InterruptActiveJobs(w) \/ ClearWorkerClaims(w)
  \/ RecoverInterruptedJobs(w)

ExecuteJob(w) ==
  \/ LoadJob(w) \/ BeginResolving(w) \/ PersistDecision(w) \/ BeginDownloading(w)
  \/ BeginVerifyingMaster(w) \/ RecordAcquisition(w) \/ CloseAcquisition(w)
  \/ ChooseDerivative(w) \/ CreateAbleton(w) \/ CheckAbleton(w) \/ CloseAbleton(w)
  \/ CreateListening(w) \/ CheckListening(w) \/ CloseListening(w)

RunNext(w) ==
  ClaimNextQueueJob(w) \/ ExecuteJob(w) \/ FailJob(w) \/ ReleaseClaim(w)

Fault(w) == ToolRaises(w) \/ WriteFails(w) \/ ReleaseFails(w) \/ Stop(w)

UserRequest(u, j) ==
  \/ CancelJob(u, j) \/ RetryJob(u, j) \/ ApproveCandidate(u, j)
  \/ ReplaceSourceUrl(u, j) \/ MarkNotFound(u, j)

\* The browser or the command gives up on a request whose write failed.
RequestFails(u) ==
  /\ todo[u] # {}
  /\ Prepare(u, {})
  /\ stale' = stale \ {u}
  /\ UNCHANGED <<state, pinned, profile, quality, overtaken, assets, claim, pc, job, best>>

Next ==
  \/ \E w \in Workers : RecoverStartup(w) \/ RunNext(w) \/ Fault(w) \/ Commit(w)
  \/ \E u \in Users : Commit(u) \/ RequestFails(u)
  \/ \E j \in Jobs : CreateJob(j) \/ \E u \in Users : UserRequest(u, j)

Spec == Init /\ [][Next]_vars

-----------------------------------------------------------------------------
(* Safety.                                                                 *)

\* One process at a time works, on any job: the claim table lets a second worker
\* in only when the first has released its claim or is gone.
OneWorkerAtATime ==
  \A v, w \in Workers : v # w => ~(pc[v] \in Running /\ pc[w] \in Running)

\* A source is pinned exactly while the job is past resolution, in whatever order
\* the checks and writes of resolution, review, recovery and retries fall.  Only a
\* request whose row was written between its own check and its write breaks it, and
\* then only for that job: nothing in the code keeps such a request from its write.
PinnedPastResolution ==
  \A j \in Jobs \ overtaken :
    /\ state[j] \in {"ready"} \union CompletedStates
                        \union (ActiveStates \ {"resolving"}) => pinned[j]
    /\ state[j] \in {"pending", "resolving", "needs_review", "not_found"}
         => ~pinned[j]

\* A completed job has the outcome its recorded acquisition deserves, and every asset
\* its profile asks for is recorded, even if a request overwrote the row on the way.
CompletedAsRecorded ==
  \A j \in Jobs :
    state[j] \in CompletedStates =>
      /\ state[j] = "completed" <=> quality[j] = "best"
      /\ {"master"} \union Derivatives(profile[j]) \subseteq assets

\* The outcome of a finished job is final: no start-up, late commit of a worker, or
\* requeue reopens it.  Only a request that checked the job before it was finished,
\* and writes now, still does.
OutcomeIsFinal ==
  [][\A j \in Jobs :
       state[j] \in CompletedStates =>
         \/ UNCHANGED <<state[j], quality[j]>>
         \/ \E u \in stale : todo'[u] = {} /\ \E r \in todo[u] : r.job = j]_vars

-----------------------------------------------------------------------------
(* Liveness.                                                               *)

\* An unfinished job that no process works on.
Unattended(j) ==
  /\ state[j] \in ActiveStates \union {"interrupted"}
  /\ \A w \in Workers : job[w] # j

\* A process ends its recovery, its last write done.
Recovered ==
  \E w \in Workers : StartingUp(w) /\ pc'[w] = "polling" /\ todo'[w] = {}

\* If processes keep ending their recovery, no job stays active or interrupted for ever,
\* even when an earlier recovery was cut off half way.
RestartsRequeue ==
  []<><<Recovered>>_vars => \A j \in Jobs : Unattended(j) ~> ~Unattended(j)
=============================================================================

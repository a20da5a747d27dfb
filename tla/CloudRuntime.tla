---------------------------- MODULE CloudRuntime ----------------------------
(***************************************************************************)
(* The two cloud services from process start to process end                *)
(* (cloud/runtime.py): the web service migrates the database and serves;   *)
(* the worker service waits for the schema, recovers, and then alternates  *)
(* between cleaning up and running jobs.  A worker keeps one scratch       *)
(* directory per job on its own disk (cloud/workspace.py).  What happens   *)
(* inside a job is CloudQueue's subject; here a job is queued, active, in  *)
(* review, failed or interrupted, or closed for good.                      *)
(***************************************************************************)
EXTENDS Integers, FiniteSets, FiniteSetsExt

CONSTANTS
  Webs,     \* web processes: the replicas and, during a deployment, the old ones
  Workers,  \* worker processes
  Jobs,     \* job ids, which are numbers
  Latest,   \* number of migration scripts in the newest release
  Ships     \* process -> number of scripts its release ships with

ASSUME RuntimeAssumption ==
  /\ Jobs \subseteq Nat \ {0} /\ IsFiniteSet(Jobs)
  /\ Latest \in Nat
  /\ Ships \in [Webs \union Workers -> 0 .. Latest]
  \* "Deploy the web service first": no worker is ahead of every web process.
  /\ \A w \in Workers : \E p \in Webs : Ships[w] <= Ships[p]

NoJob == 0

VARIABLES
  schema,    \* last version in schema_migrations; scripts run in their order
  web,       \* p -> place of a web process
  script,    \* p -> version it applies next, from what it read at its start
  worker,    \* w -> place of a worker process
  stopping,  \* w -> SIGTERM or SIGINT was received
  due,       \* w -> now >= next_cleanup
  jobs,      \* j -> state of the job row
  holding,   \* w -> job of the claim it processes
  dirs,      \* w -> j -> its scratch directory: none, fresh, or past retention
  visit,     \* w -> directories the running sweep has still to look at
  doomed     \* w -> directory the sweep has decided to remove

schemaVars == <<schema, web, script>>
loopVars == <<worker, stopping, due>>
scratchVars == <<dirs, visit, doomed>>
vars == <<schemaVars, loopVars, jobs, holding, scratchVars>>

\* "down": ended from outside; "ended": the program ended by itself.
Off == {"down", "ended"}
WebPlace == Off \union {"applying", "open", "serving"}
StartPlace == Off \union {"starting", "waiting"}
LoopPlace == {"polling", "cleaning", "sweeping", "claiming", "processing", "closing"}
WorkerPlace == StartPlace \union {"configuring", "recovering"} \union LoopPlace
JobState == {"absent", "queued", "active", "review", "failed", "closed"}

TypeOK ==
  /\ schema \in 0 .. Latest
  /\ web \in [Webs -> WebPlace] /\ script \in [Webs -> 1 .. Latest + 1]
  /\ worker \in [Workers -> WorkerPlace]
  /\ stopping \in [Workers -> BOOLEAN] /\ due \in [Workers -> BOOLEAN]
  /\ jobs \in [Jobs -> JobState]
  /\ holding \in [Workers -> Jobs \union {NoJob}]
  /\ dirs \in [Workers -> [Jobs -> {"none", "fresh", "old"}]]
  /\ visit \in [Workers -> SUBSET Jobs]
  /\ doomed \in [Workers -> Jobs \union {NoJob}]

\* The database may be empty or left by any earlier release.
Init ==
  /\ schema \in 0 .. Latest
  /\ web = [p \in Webs |-> "down"] /\ script = [p \in Webs |-> 1]
  /\ worker = [w \in Workers |-> "down"]
  /\ stopping = [w \in Workers |-> FALSE] /\ due = [w \in Workers |-> TRUE]
  /\ jobs = [j \in Jobs |-> "absent"]
  /\ holding = [w \in Workers |-> NoJob]
  /\ dirs = [w \in Workers |-> [j \in Jobs |-> "none"]]
  /\ visit = [w \in Workers |-> {}]
  /\ doomed = [w \in Workers |-> NoJob]

-----------------------------------------------------------------------------
\* The web service: _run_web and apply_migrations.

WebStep(p, place) == web' = [web EXCEPT ![p] = place]

\* Mutant: every script is run, whatever the table says.
StartReadingNothing(p) ==
  /\ web[p] \in Off
  /\ WebStep(p, "applying")
  /\ script' = [script EXCEPT ![p] = 1]
  /\ UNCHANGED <<schema, loopVars, jobs, holding, scratchVars>>

\* The platform starts the process.  It creates schema_migrations if need be and
\* reads the versions in it: once, and outside any transaction.
StartWeb(p) ==
  /\ web[p] \in Off
  /\ WebStep(p, "applying")
  /\ script' = [script EXCEPT ![p] = schema + 1]
  /\ UNCHANGED <<schema, loopVars, jobs, holding, scratchVars>>

\* A script begins its transaction and takes the locks of what it creates or
\* alters: the same script of another process blocks until that one ends.
BeginScript(p) ==
  /\ web[p] = "applying"
  /\ script[p] = schema + 1 /\ script[p] <= Ships[p]
  /\ \A q \in Webs : web[q] # "open"
  /\ WebStep(p, "open")
  /\ UNCHANGED <<schema, script, loopVars, jobs, holding, scratchVars>>

\* The script and its row in schema_migrations are committed together.
CommitScript(p) ==
  /\ web[p] = "open"
  /\ schema' = script[p]
  /\ script' = [script EXCEPT ![p] = @ + 1]
  /\ WebStep(p, "applying")
  /\ UNCHANGED <<loopVars, jobs, holding, scratchVars>>

\* Another process has committed this version meanwhile: its objects exist, the
\* script raises, and nothing catches that.
ScriptCollides(p) ==
  /\ web[p] = "applying"
  /\ script[p] <= schema /\ script[p] <= Ships[p]
  /\ WebStep(p, "ended") /\ script' = [script EXCEPT ![p] = 1]
  /\ UNCHANGED <<schema, loopVars, jobs, holding, scratchVars>>

\* No script of the release is left: uvicorn serves the application.
Serve(p) ==
  /\ web[p] = "applying" /\ script[p] > Ships[p]
  /\ WebStep(p, "serving")
  /\ UNCHANGED <<schema, script, loopVars, jobs, holding, scratchVars>>

\* The process ends anywhere: a lost connection, a signal, a deployment.  A
\* transaction that is open is rolled back.
WebEnds(p) ==
  /\ web[p] \notin Off
  /\ WebStep(p, "down") /\ script' = [script EXCEPT ![p] = 1]
  /\ UNCHANGED <<schema, loopVars, jobs, holding, scratchVars>>

\* The routes that change a job row, as far as the sweep can tell them apart.
Serving == \E p \in Webs : web[p] = "serving"

Request(j, old, new) ==
  /\ Serving /\ jobs[j] \in old
  /\ jobs' = [jobs EXCEPT ![j] = new]
  /\ UNCHANGED <<schemaVars, loopVars, holding, scratchVars>>

\* The form of one song, and each accepted row of an uploaded file.
CreateJob(j) == Request(j, {"absent"}, "queued")
RetryJob(j) == Request(j, {"failed"}, "queued")
ApproveCandidate(j) == Request(j, {"review"}, "queued")
ReplaceSource(j) == Request(j, {"review"}, "queued")
MarkNotFound(j) == Request(j, {"review"}, "closed")

\* Work under a live claim is not cancelled.
CancelJob(j) ==
  /\ \A w \in Workers : holding[w] # j
  /\ Request(j, {"queued", "review", "failed"}, "closed")

-----------------------------------------------------------------------------
\* The worker service until its loop: _build_worker and recover_startup.

WorkerStep(w, place) == worker' = [worker EXCEPT ![w] = place]

\* A new process has no stop requested and next_cleanup = 0.
ForgetLoop(w) ==
  /\ stopping' = [stopping EXCEPT ![w] = FALSE]
  /\ due' = [due EXCEPT ![w] = TRUE]

\* A new process.  Its container keeps the disk of the last one or starts empty.
StartWorker(w) ==
  /\ worker[w] \in Off
  /\ WorkerStep(w, "starting")
  /\ \/ UNCHANGED dirs
     \/ dirs' = [dirs EXCEPT ![w] = [j \in Jobs |-> "none"]]
  /\ UNCHANGED <<schemaVars, stopping, due, jobs, holding, visit, doomed>>

\* Mutant: the wait is over once the first migration is there.
SchemaBegun(w) == schema >= 1 \/ Ships[w] = 0

\* expected <= applied
SchemaReady(w) == schema >= Ships[w]

\* One round of _wait_for_schema.  The query may also raise, which it survives.
ReadSchema(w) ==
  /\ worker[w] \in {"starting", "waiting"}
  /\ IF SchemaReady(w) THEN WorkerStep(w, "configuring") ELSE WorkerStep(w, "waiting")
  /\ UNCHANGED <<schemaVars, stopping, due, jobs, holding, scratchVars>>

ReadSchemaRaises(w) ==
  /\ worker[w] = "starting"
  /\ WorkerStep(w, "waiting")
  /\ UNCHANGED <<schemaVars, stopping, due, jobs, holding, scratchVars>>

\* The deadline passes while it sleeps between two rounds.
WaitTimesOut(w) ==
  /\ worker[w] = "waiting"
  /\ WorkerStep(w, "ended")
  /\ UNCHANGED <<schemaVars, stopping, due, jobs, holding, scratchVars>>

\* The token server is started, or reported and done without.
Configure(w) ==
  /\ worker[w] = "configuring"
  /\ WorkerStep(w, "recovering")
  /\ UNCHANGED <<schemaVars, stopping, due, jobs, holding, scratchVars>>

\* Jobs of dead holders are requeued; those whose lease still runs are left.
RecoverStartup(w) ==
  /\ worker[w] = "recovering"
  /\ \E abandoned \in SUBSET { j \in Jobs : /\ jobs[j] = "active"
                                            /\ \A v \in Workers : holding[v] # j } :
       jobs' = [j \in Jobs |-> IF j \in abandoned THEN "queued" ELSE jobs[j]]
  /\ WorkerStep(w, "polling")
  /\ UNCHANGED <<schemaVars, stopping, due, holding, scratchVars>>

\* The process ends without its loop's consent: a crash, or an exception before
\* the loop.  The claim's row, the job's state and the disk stay as they are.
WorkerEnds(w) ==
  /\ worker[w] \notin Off
  /\ WorkerStep(w, "down") /\ ForgetLoop(w)
  /\ holding' = [holding EXCEPT ![w] = NoJob]
  /\ visit' = [visit EXCEPT ![w] = {}]
  /\ doomed' = [doomed EXCEPT ![w] = NoJob]
  /\ UNCHANGED <<schemaVars, jobs, dirs>>

-----------------------------------------------------------------------------
\* The loop of _run_worker.

\* SIGTERM and SIGINT set the flag once the handlers are installed.
RequestStop(w) ==
  /\ worker[w] \in LoopPlace
  /\ stopping' = [stopping EXCEPT ![w] = TRUE]
  /\ UNCHANGED <<schemaVars, worker, due, jobs, holding, scratchVars>>

Stop(w) ==
  /\ worker[w] = "polling" /\ stopping[w]
  /\ WorkerStep(w, "ended") /\ ForgetLoop(w)
  /\ UNCHANGED <<schemaVars, jobs, holding, scratchVars>>

\* The clock reaches next_cleanup, and a directory's time stamp falls behind the
\* retention window.
IntervalElapses(w) ==
  /\ worker[w] \notin Off /\ ~due[w]
  /\ due' = [due EXCEPT ![w] = TRUE]
  /\ UNCHANGED <<schemaVars, worker, stopping, jobs, holding, scratchVars>>

Ages(w, j) ==
  /\ dirs[w][j] = "fresh"
  /\ dirs' = [dirs EXCEPT ![w][j] = "old"]
  /\ UNCHANGED <<schemaVars, loopVars, jobs, holding, visit, doomed>>

BeginIteration(w) ==
  /\ worker[w] = "polling" /\ ~stopping[w]
  /\ IF due[w] THEN WorkerStep(w, "cleaning") ELSE WorkerStep(w, "claiming")
  /\ UNCHANGED <<schemaVars, stopping, due, jobs, holding, scratchVars>>

Listed(w) == { j \in Jobs : dirs[w][j] # "none" }

\* cleanup_expired, then the sweep: it lists the directories.
CleanupExpired(w) ==
  /\ worker[w] = "cleaning"
  /\ WorkerStep(w, "sweeping")
  /\ visit' = [visit EXCEPT ![w] = Listed(w)]
  /\ UNCHANGED <<schemaVars, stopping, due, jobs, holding, dirs, doomed>>

\* Mutant: one handler around both, so that a failed cleanup skips the sweep.
CleanupTakesSweep(w) ==
  /\ worker[w] = "cleaning"
  /\ WorkerStep(w, "claiming")
  /\ due' = [due EXCEPT ![w] = FALSE]
  /\ UNCHANGED <<schemaVars, stopping, jobs, holding, scratchVars>>

\* cleanup_expired raises and is reported; the sweep goes ahead.
CleanupRaises(w) ==
  /\ worker[w] = "cleaning"
  /\ WorkerStep(w, "sweeping")
  /\ visit' = [visit EXCEPT ![w] = Listed(w)]
  /\ UNCHANGED <<schemaVars, stopping, due, jobs, holding, dirs, doomed>>

\* Mutant: a job that has failed counts as finished.
JobWillRun(j) == jobs[j] \in {"queued", "active"}

\* job_may_run_again: the row is there and its state is not terminal.
JobMayRunAgain(j) == jobs[j] \notin {"absent", "closed"}

\* The next directory: its age is looked at first, then its job.
Examine(w) ==
  /\ worker[w] = "sweeping" /\ doomed[w] = NoJob /\ visit[w] # {}
  /\ LET j == Min(visit[w]) IN
       /\ visit' = [visit EXCEPT ![w] = @ \ {j}]
       /\ doomed' = [doomed EXCEPT ![w] =
                       IF dirs[w][j] # "old" /\ JobMayRunAgain(j) THEN NoJob ELSE j]
  /\ UNCHANGED <<schemaVars, loopVars, jobs, holding, dirs>>

\* rmtree, whose errors are ignored, removes the directory or leaves it.
RemoveDirectory(w) ==
  /\ worker[w] = "sweeping" /\ doomed[w] # NoJob
  /\ dirs' = [dirs EXCEPT ![w][doomed[w]] = "none"]
  /\ doomed' = [doomed EXCEPT ![w] = NoJob]
  /\ UNCHANGED <<schemaVars, loopVars, jobs, holding, visit>>

RemoveFails(w) ==
  /\ worker[w] = "sweeping" /\ doomed[w] # NoJob
  /\ doomed' = [doomed EXCEPT ![w] = NoJob]
  /\ UNCHANGED <<schemaVars, loopVars, jobs, holding, dirs, visit>>

\* The pass is over, or a query raised and ended it early.
EndSweep(w) ==
  /\ WorkerStep(w, "claiming")
  /\ due' = [due EXCEPT ![w] = FALSE]
  /\ visit' = [visit EXCEPT ![w] = {}]
  /\ UNCHANGED <<schemaVars, stopping, jobs, holding, dirs, doomed>>

SweepDone(w) ==
  worker[w] = "sweeping" /\ doomed[w] = NoJob /\ visit[w] = {} /\ EndSweep(w)
SweepRaises(w) ==
  worker[w] = "sweeping" /\ doomed[w] = NoJob /\ visit[w] # {} /\ EndSweep(w)

-----------------------------------------------------------------------------
\* One job of run_next and process_claim.

ClaimNext(w) ==
  /\ worker[w] = "claiming"
  /\ \E j \in Jobs :
       /\ jobs[j] = "queued"
       /\ jobs' = [jobs EXCEPT ![j] = "active"]
       /\ holding' = [holding EXCEPT ![w] = j]
  /\ WorkerStep(w, "processing")
  /\ UNCHANGED <<schemaVars, stopping, due, scratchVars>>

\* Nothing to claim, the queue is paused, or the query raised.
ClaimNothing(w) ==
  /\ worker[w] = "claiming"
  /\ WorkerStep(w, "polling")
  /\ UNCHANGED <<schemaVars, stopping, due, jobs, holding, scratchVars>>

\* prepare: temp is made anew, which renews the directory's time stamp.
Prepare(w) ==
  /\ worker[w] = "processing" /\ jobs[holding[w]] = "active"
  /\ dirs[w][holding[w]] # "fresh"
  /\ dirs' = [dirs EXCEPT ![w][holding[w]] = "fresh"]
  /\ UNCHANGED <<schemaVars, loopVars, jobs, holding, visit, doomed>>

\* The attempt reached an end of its own: published, or handed to review.
Conclude(w) ==
  /\ worker[w] = "processing"
  /\ \E end \in {"closed", "review"} : jobs' = [jobs EXCEPT ![holding[w]] = end]
  /\ WorkerStep(w, "closing")
  /\ UNCHANGED <<schemaVars, stopping, due, holding, scratchVars>>

\* workspace_finished: the directory is discarded, errors ignored.
Discard(w) ==
  /\ worker[w] = "closing"
  /\ dirs' = [dirs EXCEPT ![w][holding[w]] = "none"]
  /\ holding' = [holding EXCEPT ![w] = NoJob]
  /\ WorkerStep(w, "polling")
  /\ UNCHANGED <<schemaVars, stopping, due, jobs, visit, doomed>>

DiscardFails(w) ==
  /\ worker[w] = "closing"
  /\ holding' = [holding EXCEPT ![w] = NoJob]
  /\ WorkerStep(w, "polling")
  /\ UNCHANGED <<schemaVars, stopping, due, jobs, scratchVars>>

\* The attempt failed: fail_job fails the job or requeues it, and the directory
\* is kept.  fail_job may itself raise, which leaves the job active.
Fail(w) ==
  /\ worker[w] = "processing"
  /\ \E end \in {"failed", "queued", "active"} :
       jobs' = [jobs EXCEPT ![holding[w]] = end]
  /\ holding' = [holding EXCEPT ![w] = NoJob]
  /\ WorkerStep(w, "polling")
  /\ UNCHANGED <<schemaVars, stopping, due, scratchVars>>

-----------------------------------------------------------------------------
Migrate(p) ==
  BeginScript(p) \/ CommitScript(p) \/ ScriptCollides(p) \/ Serve(p)

WebNext(p) == StartWeb(p) \/ Migrate(p) \/ WebEnds(p)

UserNext ==
  \E j \in Jobs :
    \/ CreateJob(j) \/ RetryJob(j) \/ CancelJob(j)
    \/ ApproveCandidate(j) \/ ReplaceSource(j) \/ MarkNotFound(j)

\* Every step the worker's own program takes next.
WorkerProgram(w) ==
  \/ StartWorker(w) \/ ReadSchema(w) \/ Configure(w) \/ RecoverStartup(w)
  \/ Stop(w) \/ BeginIteration(w)
  \/ CleanupExpired(w) \/ CleanupRaises(w)
  \/ Examine(w) \/ RemoveDirectory(w) \/ SweepDone(w)
  \/ ClaimNext(w) \/ ClaimNothing(w) \/ Conclude(w) \/ Discard(w) \/ Fail(w)

WorkerNext(w) ==
  \/ WorkerProgram(w) \/ ReadSchemaRaises(w) \/ WaitTimesOut(w) \/ WorkerEnds(w)
  \/ RequestStop(w) \/ IntervalElapses(w) \/ Prepare(w)
  \/ RemoveFails(w) \/ SweepRaises(w) \/ DiscardFails(w)
  \/ \E j \in Jobs : Ages(w, j)

Next ==
  \/ \E p \in Webs : WebNext(p)
  \/ \E w \in Workers : WorkerNext(w)
  \/ UserNext

\* The platform restarts what has ended, the programs take their steps, and the
\* clock goes on.  Nothing is assumed of users, and nothing has to fail.
Fairness ==
  /\ \A p \in Webs : WF_vars(StartWeb(p) \/ Migrate(p))
  /\ \A w \in Workers : WF_vars(WorkerProgram(w)) /\ WF_vars(IntervalElapses(w))

Spec == Init /\ [][Next]_vars /\ Fairness

-----------------------------------------------------------------------------
Running(w) == worker[w] \notin StartPlace

\* Every web process that serves, and every worker past its wait, works on a
\* database that has every migration of its own release, although processes of
\* several releases start, migrate, collide and die in any order; and one script
\* at most is open, the next one (runtime.py: _run_web, _wait_for_schema).
SchemaWhole ==
  /\ TypeOK
  /\ \A p \in Webs : web[p] = "serving" => Ships[p] <= schema
  /\ \A w \in Workers : Running(w) => Ships[w] <= schema
  /\ \A p, q \in Webs : web[p] = "open" => /\ script[p] = schema + 1
                                           /\ web[q] = "open" => p = q

\* Disturbances of the start: processes killed or stopped, and failed queries.
Disturbed ==
  \/ \E p \in Webs : WebEnds(p)
  \/ \E w \in Workers : WorkerEnds(w) \/ RequestStop(w) \/ ReadSchemaRaises(w)

\* Once the disturbances are over, every process comes up and stays up: a start
\* that collided with another one's migration, or timed out waiting for it, is
\* made good by the restarts that follow, in any order the services are started.
ServicesComeUp ==
  <>[][~Disturbed]_vars =>
    <>[](/\ \A p \in Webs : web[p] = "serving"
         /\ \A w \in Workers : worker[w] \in LoopPlace)

\* The sweep removes a directory that is within its retention only if the job it
\* belongs to can never run again, as the database has it at the moment of the
\* removal, although it asked before (workspace.py: sweep_stale_workspaces).
SweepSpares ==
  [][\A w \in Workers : \A j \in Jobs :
       RemoveDirectory(w) /\ dirs[w][j] # dirs'[w][j]
         => dirs[w][j] = "old" \/ jobs[j] = "closed"]_vars

\* Faults that keep a directory where it is: a worker killed or told to stop, a
\* removal that leaves it, a query that raises during the wait or the sweep.  A
\* cleanup_expired or a claim that raises is not one.
ScratchFault ==
  \E w \in Workers :
    \/ WorkerEnds(w) \/ RequestStop(w)
    \/ RemoveFails(w) \/ SweepRaises(w) \/ ReadSchemaRaises(w)

\* Once those faults are over, the scratch directory of a closed job goes from
\* every disk, also when its worker died before discarding it or another worker
\* closed the job, and also while the cleanup before the sweep goes on failing.
ScratchGoes ==
  <>[][~ScratchFault]_vars =>
    \A w \in Workers : \A j \in Jobs :
      [](jobs[j] = "closed" => <>(dirs[w][j] = "none"))
=============================================================================

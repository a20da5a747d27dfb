# A verification model of Audio Archive

Audio Archive turns songs and YouTube links into verified, checksummed archive
items. The repository holds two programs over one core:

* the **local** program (`src/audio_archive/*.py`): a command line and a
  browser page on the user's machine, a SQLite queue, one worker;
* the **cloud** program (`src/audio_archive/cloud/*.py`): a web service and a
  worker service over PostgreSQL, temporary delivery through Cloudflare R2.

This directory models the parts whose correctness rests on what happens
*between* transactions: queues, claims and leases, recovery, publication and
cleanup. `PROJECT.json` lists, for machines, what this page says in words: the
components, the runs, the mutants that show each property can fail, the source
lines behind every definition, the hazards and the theorems.

## 1. Inventory

| Component | Source | State | Operations | Meets | Status |
| --- | --- | --- | --- | --- | --- |
| Cloud job queue and worker | `cloud/db.py`, `execution.py`, `worker.py`, `models.py`, `web_repository.py` | `jobs`, `worker_claims` (token, lease), `processing_attempts`, `queue_control`; in each worker: its claim, the heartbeat thread's error | create, claim, heartbeat, transition, resolve, record, fail with automatic retry, release, recover; review, cancel, retry, pause | the pipeline and the web service, through rows only | modelled |
| Cloud processing pipeline | `cloud/pipeline.py`, `cloud/runtime.py` | the place in `process_claim`; the worker's loop | stages, heartbeat checks, failure handling, rollback, cleanup between jobs | queue, delivery, workspace | partly |
| Temporary delivery | `cloud/delivery.py`, `cloud/storage.py` | `outputs` rows, R2 objects, the job's delivery state and expiry | upload, record, offer, roll back, expire, delete early, sweep | pipeline, web service, R2's lifecycle rule | modelled |
| Local queue | `db.py`, `worker.py`, `pipeline.py`, `source_resolution.py`, `models.py` | `jobs`, the one `worker_claims` row, `archive_items`, `assets` | recover at start, claim, execute by profile, fail, release; create, cancel, retry, review | the page and the command line, through the file | partly |
| Local page and queue thread | `app.py` | wake, stop and pause flags | launch, wake, pause, resume, shut down; every form and the import of a file | local queue, `run-queue` beside it | modelled |
| Source resolution | `resolver.py`, `source_resolution.py` | candidates of a search | read results, score, rank, decide | both queues | modelled |
| Acquisition, archive items | `acquisition.py`, `manifest.py`, `integrity.py`, `archive_verify.py` | files, manifest, checksums of an item | download, verify, publish the item, reuse | both pipelines | partly |
| Derivatives | `ableton.py`, `listening.py`, `wav24.py` | segments, MP3 and WAV files, their manifest entries | convert, verify, publish, undo, reuse | both pipelines | partly |
| Scratch workspaces | `cloud/workspace.py` | a directory per job | reuse after failure, remove, sweep | cloud pipeline | modelled |
| Migrations and startup | `migrations/`, `cloud/runtime.py` | schema versions | migrate, wait for the schema, start, stop, restart | both services | modelled |
| Authentication | `cloud/auth.py` | none (signed assertions and form tokens) | verify an assertion, issue and verify a form token | web service | not modelled: stateless checks |
| CSV input | `inputs.py` | previews by one-time token | choose the rows of a file, keep and consume its preview | both pages | partly: parsing is abstracted |
| Cloud web application | `cloud/app.py` | submission times by identity | validates forms, limits submissions, calls the repositories | queue, delivery | partly: its routes through the repositories, and the limiter |
| Command line and tools | `cli.py`, `tooling.py`, `doctor.py`, `acceptance.py`, `config.py`, `urls.py` | none | run the queue, run programs, print | local queue, archive items | partly: `run-queue` beside the page |
| Proxy and cloud settings | `cloud/proxy.py`, `cloud/config.py` | none | parse | both services | not modelled: pure parsing |

What is hard here, and what must hold:

* **Stale workers.** No write to a cloud job names the claim. A worker whose
  lease lapsed goes on writing rows that recovery or another worker took over.
  The row must keep its lifecycle, its pinned source, its retry budget; a lease
  that never lapsed must keep everyone else away.
* **Locks on the wrong row.** Recovery and cancellation lock the job and look at
  a lease that stands in another row, which its heartbeat renews without that lock.
* **Crashes.** A crash between any two transactions must leave a state that
  recovery maps back to the right place: requeued with or without search, or
  completed with the outcome the worker would have written.
* **Publication.** Rows, objects and the job's delivery state live in two
  stores and change one at a time, while cleanup, rollback, expiry, early
  deletion and later attempts touch the same keys.
* **Check, then write.** The local repositories read a row, check it, and write
  it in a later SQLite transaction, whatever it has become; start-up recovery is
  four transactions.
* **Threads and flags.** The local page's routes set and read the flags of its
  queue thread without a lock; a wake-up set at the wrong moment could be lost,
  a pause could come too late.
* **Processes.** Web services of two releases migrate one database at once
  while a worker waits for it; a worker sweeps directories of jobs that other
  processes revive.
* **Boundaries.** Margins between scores, cuts in bytes computed from a
  measured duration, a sliding window.
* **Progress.** Back-off, priorities and retries must not starve a job;
  restarts must not strand one; withdrawn files must really go.

The complete list, each item at its line, is `hazards` in `PROJECT.json`.

## 2. Modules

```
CloudModels      states, transition tables, retry policy   (cloud/models.py)
  |-- JobLifecycle     abstract: what the application promises of one job row
  |-- CloudQueue       rows, claims, attempts, workers, web operations
  |     |   INSTANCE JobLifecycle  (FollowsLifecycle is the refinement)
  |     |-- MCCloudQueue      instances for TLC
  |     `-- CloudQueueProofs  theorems, checked by TLAPS
  `-- Publication      one job's outputs, R2 objects, rollback, cleanup
        |   INSTANCE JobLifecycle  (FollowsLifecycle again, from the other side)
        |-- MCPublication     instances for TLC
        `-- PublicationProofs  theorems
CloudRuntime     processes: migrations, start, the worker's loop, scratch disks
  |-- MCCloudRuntime   an instance for TLC
  `-- CloudRuntimeProofs  theorems
LocalQueue       SQLite queue, recovery, profiles, requests
  |-- MCLocalQueue     instances for TLC
  `-- LocalQueueProofs  theorems
WorkBell         abstract: what a worker owes to whoever rings for it
LocalPage        routes, flags and queue thread of the page, imports, run-queue
  |   INSTANCE WorkBell      (AnswersBell is the refinement)
  |-- MCLocalPage      an instance for TLC
  `-- LocalPageProofs  theorems
ArchiveItem      files of one item, attempts that write them, crashes
  |-- MCArchiveItem    instances for TLC
  `-- ArchiveItemProofs  theorems
Resolution       from search results to one video      \
PcmOutput        cutting, verifying and reusing output   >- MCAlgorithms
Submissions      the limiter of the web service         /
  |-- AlgorithmProofs  theorems on Resolution and Submissions
  `-- PcmOutputProofs  theorems on PcmOutput
```

### CloudQueue

A step is one database transaction together with the tool run and the heartbeat
check before it. Its statements are not split where a row lock on the job (`FOR
UPDATE`) protects all it looks at. That lock does not cover `worker_claims`, so
the two transactions that look at a lease and then write the job are two steps:
`SelectAbandoned` and `RecoverAbandonedJobs`, `CancelJob` and `CommitCancel`.
In between the job row is `Locked`: whoever wants to write it waits, and claims
and other recoveries skip it. Claims and leases go on. `RenewLate` is
`heartbeat_claim` that began in time, by the `NOW()` of its own transaction, and
commits after the lease ran out; `kept` remembers of a claim that its lease never
lapsed. A claim is one step, since its upsert looks at the lease again
(`db.py:239`), and so is what recovery does to the claim row, a guarded `DELETE`.

Recovery takes at most `RecoveryLimit` jobs (the 100 of `LIMIT`) and skips the
rows that somebody has locked: those of a modelled transaction, and any set `busy`
of others that are in a transaction of one step at that moment. A claim that skips
such a row takes the next, which the model leaves out, as it can only change the order.

`pc[w]` is the place of a worker
between two transactions of `run_next` and `process_claim`, in program order;
`job`, `token`, `best`, `attempt` are its local variables; `hbLost` is
`ClaimHeartbeat._error`. A lease is a Boolean, live until `NOW()` passes
`lease_expires_at_utc`; `LeaseExpires` may happen whenever nobody renews it,
and with `HeartbeatsMayStall` also while its holder works. `err` is what the
handler caught: an access failure that waiting can clear, or anything else.

`Transition` is `transition_processing`: it looks at the row's own state and at
nothing else. `FailJob` is the whole of `fail_job`, including the requeue in
the same transaction. `ReadPaused` and `ClaimNextJob` are two steps, because
the pause flag is read by a statement of its own. `Crash` can happen at every
place and leaves the claim row behind. The attempt rows of dead workers are not
kept, since no decision reads them.

`JobLifecycle` says what the row may do at all: edges of the processing table
(a requeue passes through `failed` or `interrupted` in one transaction), edges
of the delivery table, success for published work only, cancellation and
`not_found` for unpublished work only, files offered once and from
`publishing`. `FollowsLifecycle` says that the queue implements it.

### Publication

One job, because object keys carry the job id. A publication pass has a number
that stands for its expiry; `elapsed` is the number of passes whose expiry has
come, so comparing numbers compares times. `rows` and `objects` give, for each
key (place of the file, digest), the pass that last wrote it. Uploading,
recording, offering, and each step of rollback and cleanup are separate, since
R2 and PostgreSQL share no transaction. The stages before publication are
shortened to two that touch no output; failure, release, recovery and retry are
those of CloudQueue seen from one job; a lease that lapsed stays so here, as one that
is renewed late would only withhold the next claim. The instance refines `JobLifecycle` too,
so the two views of a job row agree on what may happen to it. `leftOpen` is
history: it remembers a pass that struck the last output and could not close
the job.

### CloudRuntime

What CloudQueue takes for granted: that the services come up, on a schema they
know, and that a worker's disk does not fill with dead scratch directories.
`apply_migrations` reads the applied versions once (`StartWeb`), then runs each
missing script in a transaction (`BeginScript`, `CommitScript`). A script takes
locks, so a second process blocks on it and then collides (`ScriptCollides`),
which ends that process; what a script does is a version number. A database may
start at any version, and `Ships` lets processes of several releases run at
once. The worker waits (`ReadSchema`, until its deadline), configures, recovers
and enters its loop: cleanup and sweep when due, then a claim. The sweep asks
for each directory (`Examine`) and removes it in a later step
(`RemoveDirectory`), so a user or another worker may act in between. A process
the program ends itself is `"ended"`, one ended from outside `"down"`.

### LocalQueue

`transition_job`, `fail_job`, `retry_job`, the review operations and both
recovery queries run a `SELECT` outside any transaction, check, and then open
the transaction that writes by row id. The model splits each into a check that
fills `todo[a]` and a `Commit(a)` that writes it, whatever the row has become.
Claiming is one step (`BEGIN IMMEDIATE`), and so are recording an acquisition
(no check), recording a derivative (its write does not touch the job's state)
and releasing a claim. `pc[w]` is the place after the pending write. A process
that ends with a claim leaves it to `Gone`; a new one starts only when no claim
belongs to a living process. A start refused because the process id was reused
changes nothing and is therefore no action. Two history variables speak of what a
write by row id can overtake: `stale`, the clients whose row somebody has written since
their check, and `overtaken`, the jobs such a client wrote all the same. All jobs name the same source, so
they share the recorded `assets` that close a derivative job.

### LocalPage and WorkBell

The other half of the local program: how requests and the queue thread meet.
`pc` is the thread's place in `_loop`, `run_until_idle` and `run_next`, one step
per statement that reads or writes shared state; `ClearWake` and `CheckPause`
are steps of their own, because `wake` and `pause` are called from the event
loop between them. The routes await nothing, so `serving` names the one request
in hand and what it has still to do: insert, then wake (`Wake` reads the pause
flag, `SetWake` sets the event, as two steps). `import` is the request that
imports a file, one transaction per row, where any of them may raise. What a job goes
through under a claim is LocalQueue's; here it is waiting, active, held for the
user, or closed. `run-queue` beside the page takes claims of its own.

`WorkBell` is the promise, in eight short actions: a worker does not go to rest
over a job it was rung for, except when a pass is given up and nobody has rung
since. `owed` is the history variable both share.

### Resolution, PcmOutput, Submissions

Three pure algorithms as small state machines, so that their inputs are built
the way the program gets them: results are read one by one up to the limit,
pieces are verified and recorded one after the other and read back by a later
job, submissions come as time passes. Each has one property that compares it
with a reference stated in another way: `Clear` quantifies over all candidates
and ranks nothing; `PiecesWhole` speaks of samples in the recording;
`WithinLimit` counts all submissions ever admitted. A similarity of texts is an
input; a duration is in samples, and what the probe reports may be wrong by
`Drift`. `MCAlgorithms` steps through one of the three, chosen initially.

What the code leaves to `sort`, `sorted` and `popleft` is said by what it does:
`Ranked` is the permutation in which each candidate precedes those after it, the
video id breaking ties; `Listed` puts each piece at the place that
so many names precede; `DropUpTo` drops from the front. The name `part-%03d` is
kept as a number and a length: two names are compared as their numbers filled up
with noughts on the right, the shorter first where these are equal, which is the
order of the texts.

### ArchiveItem

One item directory. `disk` gives each file its content, `sums` the content
`SHA256SUMS` lists for it, so `Valid` is `verify_sha256sums`. Files that are
written once with the item (source info, thumbnail, ingest log) stand together
as the master. An attempt goes through the program of `acquire` and, for each
derivative it wants, of `create`: what it has read is in `loaded`, what its
handler would restore in `old`, so everything stale it could write is there.
Each file replacement of `_publish` and of its handler is a step. `Stop` is the
end of the process, or an exception where nothing undoes what was done, which
leaves the same files; `PublicationRaises` is one the handler catches. The
Ableton, 24-bit and listening services publish in the same order, so a role
stands for any of them; the outputs of `Segmented` roles may be directories, which
cannot be replaced in one move and whose removal in an undo may fail in silence,
leaving all or some of them (`UndoOutput`). `setting` chooses, once, who writes: the queue worker
alone, a command beside it, or a cloud job in its scratch workspace, whose
attempts begin with `prepare`. A verification is one step. Left out is what a cloud
job does to a scratch item after its acquisition: it writes its profile into the
manifest and then the checksum list (`cloud/pipeline.py:320`). Stopped in between it
leaves an item that does not verify, as `PublicationRaises` and `Stop` do elsewhere,
and the next `prepare` removes it.

## 3. Runs

All constants are small sets. Counters are bounded by the program's own limit
(`RetryLimit`) or by a named constant.

| Run | Instance | Shows |
| --- | --- | --- |
| `CloudQueueStall` | 1 job, 2 workers, leases may lapse; `AlwaysLimited` | `TypeOK`, `PinnedPastResolution`, `RetryBudget`, `LeaseProtects`, `FollowsLifecycle`, however stale the workers |
| `CloudQueuePunctual` | 1 job, 2 workers, all presets, leases renewed | `SoleProcessor`, `OwnAttemptOpen`, `OutcomeMatchesQuality` |
| `CloudQueueDrains` | 2 jobs, 1 worker, recovery of 1 job at a time; `LeanSpec` | `QueueDrains`, `RestartsRecover` |
| `CloudRuntime` | an old and a new web process, 1 worker, 3 migrations, 2 jobs | `SchemaWhole`, `SweepSpares`; `ServicesComeUp`, `ScratchGoes` |
| `Publication` | 1 worker with 2 files in 2 versions, or 2 workers with 1 file; leases may lapse | `TypeOK`, `OfferIntact`, `LeftoversEndFirst`, `PublicationFrozen`, `FollowsLifecycle`; `ClosedOutputsGo` |
| `LocalQueue` | 2 jobs, 2 processes, 1 user; `SecondPlain` | `TypeOK`, `OneWorkerAtATime`, `PinnedPastResolution`, `CompletedAsRecorded`, `OutcomeIsFinal`, `RestartsRequeue` |
| `LocalPage` | 2 jobs, 1 uploaded file of 4 rows, a command beside the page | `TypeOK`, `PauseHolds`, `ImportOnce`, `AnswersBell`; `RungJobsRun` |
| `ArchiveItem` | 2 processes, 2 derivatives (one may be segments), 2 contents, 2 faults; `CommandAcquires` | `TypeOK`, `DoneIsWhole`, `CompleteIsValid`, `UndoRestores`, `MasterKept`, `ScratchRecovers` |
| `Algorithms` | 31 search results up to 3 candidates, recordings of 1 to 96 samples, 2 submissions in 2 seconds | `SelectionIsClear`, `PiecesWhole`, `WithinLimit` |
| `CloudQueueStuck` | 1 job, 1 worker | violates `AbandonedJobsLeave` |
| `LocalQueueOverlap` | 2 jobs, 2 processes, `StartsOverlap` | violates `OneWorkerAtATime` |
| `ArchiveItemBlocked` | 1 process, 1 fault | violates `AttemptsFinish` |

**Bounds.** Two workers are the smallest number with a stale one beside its
successor. One cloud job is enough where the property is about one row: rows
meet only in the query of a claim and of recovery, and `CloudQueueDrains` has two
jobs for that, one more than its `RecoveryLimit`.
Two tokens are enough for one job and two workers, since a token is fresh again
once no row and no process holds it. `RetryLimit = 1` has both a permitted and
a refused retry. `MaxPasses = 2` publishes once, fails or crashes, and publishes
again, with the same or another digest per file; with no pass left no claim is
made. `AloneOrTogether` gives `Publication` its two deployments in one run: alone,
with everything a file can be; together, where rows of two workers meet on
one key. `AlwaysLimited` keeps the largest run within reach: the queue is never
paused and every acquisition is a limited one; pausing only withholds claims,
and the runs with the invariants on quality do not use the constraint. `LeanSpec`
is the specification with that bound on its steps and with no end of a delivery:
each of the steps left out has a sibling that is kept, so fairness is too.
`SecondPlain` lets job 1 have any of three profiles (no derivative, one, one after
the other) and any request, up to the first that overwrites a row, while job 2 is
an archive job that nobody asks anything of. A write that was overtaken can still
meet whatever a worker or a start-up does afterwards.
In `ArchiveItem`, two contents tell a new download or conversion from an old one,
two faults let one hit what another left (an undoing cut short, a removal that
fails after a crash), and `CommandAcquires` keeps the second process to
acquiring the item beside the worker.

In `CloudRuntime` the old web process ships 1 script, the worker 2 and the new
web process 3: the worker has to wait for the new one, and later works on a
schema ahead of its own. Two jobs let the sweep look at one directory while
the other's job runs. In `LocalPage` two jobs are the fewest with a later one
to be overtaken; the file has a request twice, one that cannot be read, and
another, so two rows are accepted and a third job never fits. Clocks and
retention are Booleans (due, old). In `Algorithms` sizes are scaled down (a
sample is 2 bytes, a second 4 samples, part numbers have one digit at least,
so the tenth part already shows what `part-%03d` does at the thousandth); the
thresholds of the decision are the program's own, 90 and 15, and the results lie
on both sides of each. Recordings of 96 samples are cut into up to 12 pieces.

Workers and tokens are interchangeable, so runs of safety properties alone use
symmetry; runs with temporal properties do not.

**Fairness.** `CloudQueue` assumes that the platform restarts the worker process
and the program takes its steps (`WF` on `Startup` and on `RunNext`), that a
cancellation in hand ends, that an unrenewed lease runs out and that back-off
elapses. Nothing is assumed of users, and no failure has to happen. Both liveness
properties have the premise `Calm`: the queue is not paused for ever, users retry
finitely often (an automatic retry is bounded by the code, a user's is not),
`Fault`s end (processes killed at work, handlers that raise, stalled heartbeats;
tools and transactions may fail for ever), and the worker gets to poll again and
again, which it does unless it is for ever killed before it polls. `QueueDrains`
is about runs in which no job stays unattended for ever. `RestartsRecover` is what
restarts add: they go on (between polls, which is no fault), and some of them find
no row locked. Then every active job a crash left behind is settled, although one
startup takes back no more than its limit, in the order of ids, and others may keep
skipping a row. `Publication` assumes the worker's
loop goes on and begins a cleanup pass again and again (`SF`, since between
passes it may be busy with jobs); `ClosedOutputsGo` excludes only a cleanup
that fails for ever. `RestartsRequeue` needs no fairness: its premise is that
processes keep ending their start-up recovery.

`CloudRuntime` assumes that the platform restarts a process that has ended; the
documents state no restart policy, and without one a service whose migration
collided stays down. Programs take their steps and the interval elapses (`WF`);
that disturbances end is the premise of both liveness properties, never an
assumption of the specification. `LocalPage` assumes that the thread goes on
and that a request that has begun is answered (`WF`); a job's own failure is a
legal end of it, and passes that raise or meet another's claim for ever are
excluded by the premise of `RungJobsRun`.

`ArchiveItem` assumes that a running attempt goes on; that attempts keep being
started is the premise of its two temporal properties. Faults are finite there,
so the properties speak of what can still be repaired after the last one.

Deadlock is checked in every run but `Algorithms`, whose inputs come to an end.

## 4. What the violated runs show

* `CloudQueueStuck`: recovery runs only when a process starts. A replacement
  that is up before the old lease (90 s) ends leaves the job active, with no
  live claim, until some later restart. `RestartsRecover` is the property that
  does hold.
* `LocalQueueOverlap`: `recover_startup` lists claims and deletes all of them
  later; one taken in between is deleted too, and two processes work at once.
* `ArchiveItemBlocked`: a process that ends after a derivative is moved into
  place leaves a file that every later attempt refuses to overwrite; one that
  ends before the checksum list is replaced leaves an item that no longer
  verifies. `ScratchRecovers` shows that a scratch workspace gets over the
  second, by deleting and acquiring anew; nothing gets over the first.

Limits of the program that the models reach and the passing properties state as
assumptions:

* `OfferIntact` is about one worker. With two, the list one cleanup pass read
  can name an output the other worker has just published again. The cloud
  design runs one worker.
* The rollback of a worker that lost its lease reads the delivery state first and
  deletes later: it can strike rows and objects another one has published since,
  and a file it deletes may be one the other uploads again under the same key.
* An output that a failed rollback left behind is downloadable beside the new
  ones once a later attempt is published (`get_downloadable_output` asks for a
  live row, not for the attempt), although `cloud/pipeline.py:547` calls it
  inaccessible. `LeftoversEndFirst` bounds the time, for one worker and for any
  number whose publications share one key.
* With two workers whose publications have different keys it does not: the one
  whose lease lapsed may make the offer of an earlier pass beside rows of a later
  one, which outlast it. A download still asks for the job's own expiry, so
  nothing is served after that; such rows go once cleanup has closed the job.
* Recovery finalizes a published job only while delivery is `available`
  (`execution.py:111`, `163`). After an early deletion or an expiry it requeues
  the job; the new attempt downloads and converts everything, and its first
  output is refused (`record_output`). The refused object is deleted at once, but
  the rollback, which asks whether the job was ever published, would not come
  back for one whose deletion failed; R2's lifecycle rule does.
* A lease that is renewed late (`RenewLate`), after recovery or a cancellation saw it
  lapse, protects its claim row and no longer its job: the job is requeued or
  cancelled under a live claim, although `web_repository.py:257` says "never". The
  worker then fails at its next transition, or goes on with the job another has
  begun once more. `LeaseProtects` is about leases that never lapsed. `cloud/db.py:250`
  names the same race for the claim, where the code closes it.
* `OneWorkerAtATime` is about processes that do not start while another is
  about to claim (`StartsOverlap = FALSE`), and the pin and the outcome rest on it.
* Nothing keeps a worker, another process or another client from the row between a
  local request's check and its write. A retry that checked an interrupted job during
  start-up, and is written after the worker resolved it, sends a pinned job back to
  `pending`; written later still, it reopens a finished one. Of an approval and a
  "not found" that checked the same review, the later write wins, and leaves a state
  without its pin. A cancellation hits a job that has begun, or is overwritten by the
  worker it raced. `stale` and `overtaken` say which writes of requests these are: those
  of a request whose row somebody wrote since its check. `PinnedPastResolution` holds of
  every job that no such write has reached, and `OutcomeIsFinal` of every other step;
  `CompletedAsRecorded` holds even so.
* The undo of a publication removes segments with `rmtree(ignore_errors=True)`
  (`ableton.py:532`). Where that fails it ends all the same, and the segments that stay
  are in no record; every later attempt refuses to write over them (`ableton.py:231`).
* Of two files of one role with the same content (two silent segments), the later takes
  over the row and the object of the earlier, under its own name: they share a key
  (`storage.py:147`, `delivery.py:72`). `Publication` takes them as one file.
* A pause committed after `ReadPaused` admits one more claim per worker.
* A step that fails after `mark_available` leaves a job failed with its files
  withheld; `retry_job` refuses it.
* A cleanup pass that ends just before `mark_job_deleted_if_empty`, or that ran
  `expire_due_jobs` before a job's expiry and listed its outputs after it,
  strikes the last output and leaves the delivery state for ever short of
  `deleted`: later passes close only jobs they struck an output of
  (`delivery.py:406`). `ClosedOutputsGo` names this exception (`leftOpen`).
* An import whose transaction raises keeps the rows made so far and wakes nobody;
  the token is gone, so the rest of the file is lost, while the import's own row
  counts all of it. An import that succeeds calls `controller.start`, which
  overrides a pause.
* A release that fails, or a command that dies at work, leaves a claim row.
  Every later pass of the page ends quietly at it, until the next start-up
  recovery that finds its owner dead.
* `LocalPage` lets no command start while the page's thread is about to claim;
  what happens otherwise is the run `LocalQueueOverlap`.
* Parts are listed by name, and `part-1000` sorts before `part-101`: from the
  thousandth part on the records would name the wrong samples, and
  `_verify_existing`, which looks at lengths, accepts them. `PiecesWhole` has
  this premise.
* A recording that exceeds one segment by less than a packet comes out of the
  muxer whole and is refused (`Publish`).
* `_acquisition_config` reports a token server that does not start; one whose
  program is missing raises instead (`runtime.py:203`), and the process ends. `WorkerEnds` covers it.
* The limiter is a table of one process: several web processes admit the limit
  each, and a request found invalid afterwards counts.

## 5. Proofs

Each theorem is about the specification a run checks, for every value of its
constants that satisfies the module's named assumption. Where a property holds
only under a premise, the premise is stated with it, and section 4 says what
happens without.

### The cloud queue

`CloudQueueProofs` proves, for every set of jobs, workers, tokens and requests
and every retry limit, under `QueueAssumption` only:

* `TypeCorrect`: `Spec => []TypeOK`, action by action.
* `RetriesBounded`: `RetryBudget` is inductive with the types. Only `fail_job`
  counts, and only after `Permits`.
* `LeasesProtect`: a step that moves a job whose lease never lapsed belongs to a worker
  running that job, and a live claim row ends by its lease or its holder. Recovery and
  cancellation write a step after they looked, so it rests on `LockInv`: of a job that
  such a transaction has locked, the lease has lapsed once (a late renewal does not
  undo that, and nobody can claim the row anew), the state is still the one it looked
  at, and nobody else has it. The lemma `NextByEffect` groups the actions by what they
  write, so the proof is by those groups.
* `PinnedCorrect` and `LifecycleImplemented` share the invariant `RowInv`:
  `LockInv`; the pin fits the state of *every* job, including `failed` and
  `interrupted` ones; a running worker has a job; a worker in place
  `completing` has a job that was published. The last part is what makes
  success imply publication although the final transition looks at the
  processing state only: it survives stale workers because delivery never
  returns to `not_published`. `RowStep` is the statement about one row that all
  the lemmas `...Row` prove: the pin still fits, and the row took a step of
  `JobLifecycle` or none.

With the additional assumption `~HeartbeatsMayStall`:

* `OneWorkerPerJob` and `AttemptsStayOpen` rest on `HoldInv`: no heartbeat has
  failed, every running worker owns a claim that was never broken, with its own
  token, and no two running workers have the same token. Fresh tokens make it
  inductive, with `LockInv` for the jobs recovery has locked.
* `OutcomesMatch` rests on `QualityInv` besides: a worker past
  `record_acquisition` remembers what the row says, and no job is `publishing`
  before its quality is recorded, so a recovery that finds one published can tell
  the outcome. With stalled heartbeats the theorem is false: two workers on one
  job may record different qualities, and the first to finish goes by its own.

### The publication

`PublicationProofs`, for every set of workers, files, digests and passes:

* `PublicationTypes`: `TypeOK` together with `PlaceInv`, which says that a worker
  within a list has an output in hand, and one that completes has made the offer.
* `FrozenHolds` and `LifecycleImplemented`, for any number of workers, however
  stale. Both rest on the types alone: `record_output` and `mark_available` look
  at the delivery state in the transaction that writes.
* `OfferHolds`, `LeftoversEnd`, `StruckHolds`, for one worker process (`LeftoversEnd`
  also for workers that share one key). The invariant is `SoleInv`: what the worker
  has sent is dated by its own pass, row and object (`SendInv`); a published job is
  neither worked on nor rolled back (`OfferInv`); no row that is not part of the
  offer lasts as long (`RowInv`); and the list of a cleanup pass names nothing of
  an offer that lasts (`SweepInv`). The last part is the one that needs the single
  worker: between listing and striking nobody publishes anew. `StruckHolds` is the
  safety half of `ClosedOutputsGo`. For shared keys, `ObjectInv` says that one key
  at most has a row and the offer names it.

### Services and scratch disks

`CloudRuntimeProofs`, for every set of processes, jobs and releases:

* `SchemaIsWhole` and `MigrationsStay`: `MigrationInv` says that a start which runs its
  scripts has skipped none, that an open script is the next one and the only one,
  and that whoever serves or is past its wait has found all of its own.
* `SweepSparesHolds` and `ClosedForGood`: `SweepInv` carries an answer the sweep got
  earlier to the step that removes the directory. It needs `ClaimInv` (a job in
  processing is held by one worker, which is in it), and that a closed job stays
  closed.

### The local queue

`LocalQueueProofs`, for every set of jobs, processes and clients:

* `QueueTypes`, overlapping starts included.
* `OneWorkerHolds`, if starts do not overlap (`~StartsOverlap`). `WorkInv`: who is in
  a job holds the claim; while a process starts, nobody alive does; a process that
  is down has nothing left to write. `LocalQueueOverlap` shows the premise is needed.
* `PinHolds`, `CompletionHolds` and `OutcomeStays`, under the same premise and for any
  interleaving of workers and requests. Since a write goes by row id whatever the row
  has become, `PendingInv` says of every write still to come what is true of it: of
  any write, that it completes a job only with what it deserves (`Lasting`, which is
  why completion needs no exemption); of a request that was not overtaken, that the
  row is still as it was checked (`TimelyRequest`); of a worker's write, that its job
  is open and, unless an overtaken request has reached it, that the pin it relies on is
  right (`TimelyWork`). `CommitFresh` shows that a write leaves the fresh requests
  right, by making stale all those of its job. `PlaceInv` says what a worker's place
  implies about its job and about what is recorded for it.

### The page and its bell

`LocalPageProofs` proves, for every set of jobs and previews and every file,
under `PageAssumption` only:

* `TypeCorrect`: the types are inductive together with `HoldInv`, which says
  whose claim it is while the thread or the command works (each releases what it
  took, nobody else's) and what an import under way has left to do.
* `PauseHeld`: a pause is overtaken by one claim at most, because a thread that
  is about to claim while paused has taken nothing since (`PauseInv`).
* `ImportedOnce`: `ImportInv` says that a token is consumed before any job names
  its file, and that the rows an import has left are accepted rows without a job.
  Accepted rows differ from each other, so the next job differs from all before.
* `BellImplemented`: every step of the page is a step of `WorkBell` or leaves it
  alone. The refinement needs `OwedInv` (a pass that ends leaves nothing owed
  unless the event is set again) and `FlagInv` (nobody is about to ring while
  the queue is paused or stopping). The step that carries it is `ClearWake`: the
  event is cleared *before* the pass looks, so a later ring is seen by the next.
* `RingsKept`: the abstract promise, proved of `WorkBell` alone, holds of the page
  through the refinement.

### The archive item

`ArchiveItemProofs`, for every set of processes, roles and contents and any number
of faults:

* `ItemTypes` and `MasterStays`, in every setting, however many attempts write:
  `ItemInv` says that a master that is there, and the manifest of an item in use,
  are never missing again outside a scratch workspace.
* `DoneHolds`, `CompleteHolds` and `UndoHolds`, with one writer. `AloneInv` follows an
  attempt: outside a publication the item verifies and what was read of it still
  holds (`CalmInv`); within one, the saved originals are a consistent item without
  the derivative, and all but three files are as they were (`SavedInv`); `StageInv`
  says how far it is. An undo is sure of the records and of an output that is a file;
  `UndoHolds` says nothing of segments, whose removal may fail in silence. `Consistent`, of a checksum list alone, is what survives a
  stop in the middle, when nothing else does: the next attempt verifies against
  that list before it counts anything as done.

### The algorithms

`AlgorithmProofs` and `PcmOutputProofs`, for inputs of any length:

* `SelectionHolds`: the ranking exists for every list of candidates
  (`RankingExists`), so its first and second decide about all of them; `ResolutionInv`
  adds that what is kept of a search are different videos, so their ids break every tie.
* `LimiterHolds`: `LimiterInv` says that the times kept for an identity are in order,
  that those dropped are out of every window still to come, and that no window of
  the whole history holds more than the limit.
* `PiecesHold`: the cuts join without gap or overlap (`PiecesJoin`), each piece fits
  the safe size (`PiecesFit`), and the lengths add up in whatever order the pieces
  are listed (`Telescope`), because the listing is a permutation
  (`ListedIsPermutation`, also below the place where names grow longer the identity).

Induction over data is done on sets: the library's induction theorems take an
operator, which none of the installed provers can instantiate, so `Least` and
`Induct` are derived from the well-foundedness of the naturals, and a recursive
function or a ranking is shown to exist by the set of lengths for which it does.

### Only model-checked

Liveness: `ServicesComeUp`, `ScratchGoes`, `RestartsRequeue`, `RestartsRecover`,
`QueueDrains`, `RungJobsRun`, `ScratchRecovers` and `ClosedOutputsGo` rest on fairness
or on a premise about what goes on for ever, and on `ENABLED`, which are out of the
prover's reach.

## 6. Abstractions

Candidates, scores, events, display columns and error texts are left out of the
queues. A conversion, a download and a verification succeed or raise. Requested
outputs are reduced to "some conversion" and "the package", the two facts
control flow looks at. Back-off is a Boolean. A worker's disk is its own: nothing
another worker does is seen there. `CloudRuntime` renews every lease in time; what
lost leases do is CloudQueue's subject. Requests of one web process are
serialized by its event loop where the code awaits nothing.

**Not modelled.** Authentication (`cloud/auth.py`) verifies signed assertions and
form tokens from their arguments and the clock, with no state between calls; a
model would assume what the signature library decides. Settings and proxy files
parse text. Pages, forms and signed URLs read rows and write none. The
stage commands (`resolve`, `acquire`, `convert`) take no claim; they are in the
plan. `doctor`, `acceptance` and the tool wrappers run programs one after the
other. `archive-verify` reads.

## 7. Plan

Every safety property that a run checks is a theorem, some of them under the
premises named above. What is left:

1. Theorems without those premises where something weaker holds: which
   outputs of an offer two publication workers can damage, and by which steps;
   what becomes of a cloud job whose lease is renewed late.
2. Of the archive item: what two writers of derivatives beside each other keep
   besides the master, and `archive-verify`.
3. The stage commands beside the local queue.

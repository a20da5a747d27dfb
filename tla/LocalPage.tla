------------------------------ MODULE LocalPage ------------------------------
(***************************************************************************)
(* The browser page of the local program: the requests of its event loop   *)
(* and the queue thread of QueueController, beside a run-queue command     *)
(* that may serve the same queue.                                          *)
(*                                                                         *)
(* The routes await nothing between their first and last statement, so one *)
(* request is served at a time; the thread runs between any two of its     *)
(* statements.  What a job goes through while it is worked on is           *)
(* LocalQueue's; here a job waits, is active, is held for the user (failed *)
(* or in review) or is closed.                                             *)
(***************************************************************************)
EXTENDS Integers, Sequences, Functions

CONSTANTS
  Jobs,         \* job ids, handed out and served in their order
  Previews,     \* tokens of uploaded CSV files
  Rows,         \* the rows of an uploaded file: each a request, or unreadable
  Unreadable,   \* a row normalize_request refuses
  Manual        \* the origin of a job no CSV file asked for

ASSUME PageAssumption ==
  /\ Jobs \subseteq Nat \ {0}
  /\ Rows \in Seq(Range(Rows))
  /\ Manual \notin Previews \X Range(Rows)

VARIABLES
  state,        \* jobs.state, in the phases above
  origin,       \* the CSV row a job was made from
  claim,        \* the row of worker_claims
  stage,        \* CsvPreviewStore._files: each token's file
  serving,      \* what the request in hand still has to do
  import,       \* its preview and the accepted rows still to be made
  wake, stop,   \* the controller's events
  paused,       \* SequentialWorker._pause_requested
  pc,           \* the queue thread's place
  command,      \* the run-queue command
  owed,         \* history: waiting, unclaimed jobs the thread was woken for
  sincePause    \* history: jobs the thread took since the last pause

queueVars   == <<state, origin, claim>>
requestVars == <<stage, serving, import>>
flagVars    == <<wake, stop, paused>>
vars == <<queueVars, requestVars, flagVars, pc, command, owed, sincePause>>

NoJob   == 0
NoClaim == [job |-> NoJob, owner |-> "none"]

NoImport == [preview |-> Manual, left |-> {}]

\* preview_csv: readable rows, each request once, where it first comes.
Accepted ==
  { i \in DOMAIN Rows : /\ Rows[i] # Unreadable
                        /\ \A k \in 1..i - 1 : Rows[k] # Rows[i] }

\* Where the thread is inside run_until_idle, and where it holds a job.
Working == {"executing", "acquiring", "handling", "releasing", "unwinding"}
Passing == {"cleared", "passing", "claiming", "reporting", "resting"} \union Working

Waiting == { j \in Jobs : state[j] = "waiting" }

\* The jobs a pass can still take.
Unclaimed == Waiting \ {claim.job}

TypeOK ==
  /\ state \in [Jobs -> {"absent", "waiting", "active", "held", "closed"}]
  /\ origin \in [Jobs -> (Previews \X Range(Rows)) \union {Manual}]
  /\ claim \in [job : Jobs, owner : {"page", "command", "gone"}] \union {NoClaim}
  /\ stage \in [Previews -> {"none", "staged", "consumed"}]
  /\ serving \in {"nothing", "recording", "importing", "waking", "resuming", "ringing"}
  /\ import \in [preview : Previews, left : SUBSET DOMAIN Rows] \union {NoImport}
  /\ wake \in BOOLEAN /\ stop \in BOOLEAN /\ paused \in BOOLEAN
  /\ pc \in {"off", "waiting", "woken", "ended"} \union Passing
  /\ command \in {"off", "idle", "working"}
  /\ owed \subseteq Unclaimed
  /\ sincePause \in 0..2
  /\ pc \in Working => claim.job \in Jobs

Init ==
  /\ state = [j \in Jobs |-> "absent"]
  /\ origin = [j \in Jobs |-> Manual]
  /\ claim = NoClaim
  /\ stage = [p \in Previews |-> "none"]
  /\ serving = "nothing"
  /\ import = NoImport
  /\ wake = FALSE /\ stop = FALSE /\ paused = FALSE
  /\ pc = "off"
  /\ command = "off"
  /\ owed = {}
  /\ sincePause = 0
-----------------------------------------------------------------------------
(* The queue thread: _loop, run_until_idle, run_next.                      *)

\* A pass that fails, or that finds the queue taken, serves nobody who has not
\* rung since it began.
GiveUp == owed' = IF wake THEN owed ELSE {}

\* An exception leaves run_until_idle: _loop keeps it to show, and goes on.
Raise == pc' = "resting" /\ GiveUp

\* _wake.wait returns.
Awake ==
  /\ pc = "waiting"
  /\ wake
  /\ pc' = "woken"
  /\ UNCHANGED <<queueVars, requestVars, flagVars, command, owed, sincePause>>

ClearWake ==
  /\ pc = "woken"
  /\ wake' = FALSE
  /\ pc' = "cleared"
  /\ UNCHANGED <<queueVars, requestVars, stop, paused, command, owed, sincePause>>

CheckStop ==
  /\ pc = "cleared"
  /\ pc' = IF stop THEN "ended" ELSE "passing"
  /\ UNCHANGED <<queueVars, requestVars, flagVars, command, owed, sincePause>>

\* Mutant: the pause is looked at once a pass has nothing left to do.
PausedAtEnd ==
  /\ pc = "passing"
  /\ pc' = IF paused /\ Waiting = {} THEN "resting" ELSE "claiming"
  /\ UNCHANGED <<queueVars, requestVars, flagVars, command, owed, sincePause>>

\* run_until_idle and run_next both look at the pause before a claim.
CheckPause ==
  /\ pc = "passing"
  /\ pc' = IF paused THEN "resting" ELSE "claiming"
  /\ UNCHANGED <<queueVars, requestVars, flagVars, command, owed, sincePause>>

\* claim_next_queue_job, in one transaction.
ClaimNext ==
  /\ pc = "claiming"
  /\ \/ /\ claim # NoClaim
        /\ pc' = "resting"
        /\ GiveUp
        /\ UNCHANGED <<claim, sincePause>>
     \/ /\ claim = NoClaim /\ Waiting = {}
        /\ pc' = "resting"
        /\ UNCHANGED <<claim, owed, sincePause>>
     \/ \E j \in Waiting :
          /\ claim = NoClaim
          /\ \A i \in Waiting : j <= i
          /\ claim' = [job |-> j, owner |-> "page"]
          /\ pc' = "executing"
          /\ owed' = owed \ {j}
          /\ sincePause' = IF paused /\ sincePause < 2 THEN sincePause + 1 ELSE sincePause
  /\ UNCHANGED <<state, origin, requestVars, flagVars, command>>

\* _execute_job: a job that left the queue since the claim is let go; one that is
\* resolved is ready, and waits for a moment, before it is acquired.
Execute ==
  LET j == claim.job IN
  /\ pc \in {"executing", "acquiring"}
  /\ \/ /\ state[j] = "waiting"
        /\ state' = [state EXCEPT ![j] = "active"]
        /\ UNCHANGED pc
     \/ /\ state[j] = "active" /\ pc = "executing"
        /\ state' = [state EXCEPT ![j] = "waiting"]
        /\ pc' = "acquiring"
     \/ /\ state[j] = "active"
        /\ \E outcome \in {"held", "closed"} : state' = [state EXCEPT ![j] = outcome]
        /\ pc' = "releasing"
     \/ /\ state[j] \in {"held", "closed"}
        /\ pc' = "releasing"
        /\ UNCHANGED state
  /\ UNCHANGED <<origin, claim, requestVars, flagVars, command, owed, sincePause>>

\* A step of the job raises; some record the failure themselves.
ExecuteRaises ==
  LET j == claim.job IN
  /\ pc \in {"executing", "acquiring"}
  /\ pc' = "handling"
  /\ state' \in {state} \union
       { s \in {[state EXCEPT ![j] = "held"]} : state[j] = "active" }
  /\ UNCHANGED <<origin, claim, requestVars, flagVars, command, owed, sincePause>>

\* run_next's except clause.
HandleFailure ==
  LET j == claim.job IN
  /\ pc = "handling"
  /\ state' = [state EXCEPT ![j] = IF @ \in {"held", "closed"} THEN @ ELSE "held"]
  /\ pc' = "releasing"
  /\ UNCHANGED <<origin, claim, requestVars, flagVars, command, owed, sincePause>>

\* Its own statements raise: the claim is released with the exception in flight.
HandlerRaises ==
  /\ pc = "handling"
  /\ pc' = "unwinding"
  /\ UNCHANGED <<queueVars, requestVars, flagVars, command, owed, sincePause>>

Release ==
  /\ pc \in {"releasing", "unwinding"}
  /\ claim' = NoClaim
  /\ \/ pc = "releasing" /\ pc' = "reporting" /\ UNCHANGED owed
     \/ pc = "unwinding" /\ Raise
  /\ UNCHANGED <<state, origin, requestVars, flagVars, command, sincePause>>

\* Mutant: a pass works on one job.
ReportAndRest ==
  /\ pc = "reporting"
  /\ pc' = "resting"
  /\ UNCHANGED <<queueVars, requestVars, flagVars, command, owed, sincePause>>

\* get_job for the result of run_next.
Report ==
  /\ pc = "reporting"
  /\ pc' = "passing"
  /\ UNCHANGED <<queueVars, requestVars, flagVars, command, owed, sincePause>>

\* Mutant: the event is cleared when the pass is over, too.
RestAndClear ==
  /\ pc = "resting"
  /\ wake' = FALSE
  /\ pc' = IF stop THEN "ended" ELSE "waiting"
  /\ UNCHANGED <<queueVars, requestVars, stop, paused, command, owed, sincePause>>

Rest ==
  /\ pc = "resting"
  /\ pc' = IF stop THEN "ended" ELSE "waiting"
  /\ UNCHANGED <<queueVars, requestVars, flagVars, command, owed, sincePause>>

\* The database fails under the claim, the release or the last read.  A release
\* that fails leaves its row, and this process lives.
DatabaseRaises ==
  /\ pc \in {"claiming", "releasing", "unwinding", "reporting"}
  /\ Raise
  /\ UNCHANGED <<queueVars, requestVars, flagVars, command, sincePause>>

Thread ==
  \/ Awake \/ ClearWake \/ CheckStop \/ CheckPause \/ ClaimNext \/ Execute
  \/ HandleFailure \/ Release \/ Report \/ Rest

ThreadFault == ExecuteRaises \/ HandlerRaises \/ DatabaseRaises

-----------------------------------------------------------------------------
(* The routes.                                                             *)

Listening == pc # "off" /\ ~stop /\ serving = "nothing"

\* What the route does after its first statement.
Then(place) == serving' = place

Absent == { j \in Jobs : state[j] = "absent" }

\* A new row takes the next id.
Insert(from) ==
  \E j \in Absent :
    /\ \A i \in Absent : j <= i
    /\ state' = [state EXCEPT ![j] = "waiting"]
    /\ origin' = [origin EXCEPT ![j] = from]

CreateJob ==
  /\ Listening
  /\ Insert(Manual)
  /\ \E startQueue \in BOOLEAN : Then(IF startQueue THEN "waking" ELSE "nothing")
  /\ UNCHANGED <<claim, stage, import, flagVars, pc, command, owed, sincePause>>

\* approve_candidate, replace_source_url, retry_job.
Reopen(j) ==
  /\ Listening
  /\ state[j] = "held"
  /\ state' = [state EXCEPT ![j] = "waiting"]
  /\ Then("waking")
  /\ UNCHANGED <<origin, claim, stage, import, flagVars, pc, command, owed, sincePause>>

\* mark_not_found and the cancellation; neither wakes anybody.
Close(j) ==
  /\ Listening
  /\ state[j] \in {"waiting", "held"}
  /\ state' = [state EXCEPT ![j] = "closed"]
  /\ owed' = owed \ {j}
  /\ UNCHANGED <<origin, claim, requestVars, flagVars, pc, command, sincePause>>

\* CsvPreviewStore.create; a file that cannot be previewed leaves no token.
PreviewCsv(p) ==
  /\ Listening
  /\ stage[p] = "none"
  /\ stage' = [stage EXCEPT ![p] = "staged"]
  /\ UNCHANGED <<queueVars, serving, import, flagVars, pc, command, owed, sincePause>>

\* Mutant: the token is dropped only when the import is complete.
ConsumeLater(p) ==
  /\ Listening
  /\ stage[p] = "staged"
  /\ import' = [preview |-> p, left |-> Accepted]
  /\ Then("recording")
  /\ UNCHANGED <<queueVars, stage, flagVars, pc, command, owed, sincePause>>

\* CsvPreviewStore.consume; the file may be gone or no longer parse.
Consume(p) ==
  /\ Listening
  /\ stage[p] = "staged"
  /\ stage' = [stage EXCEPT ![p] = "consumed"]
  /\ \/ import' = [preview |-> p, left |-> Accepted] /\ Then("recording")
     \/ UNCHANGED <<import, serving>>
  /\ UNCHANGED <<queueVars, flagVars, pc, command, owed, sincePause>>

RecordImport ==
  /\ serving = "recording"
  /\ Then("importing")
  /\ UNCHANGED <<queueVars, stage, import, flagVars, pc, command, owed, sincePause>>

\* Each accepted row is a job, in file order and in a transaction of its own.
ImportRow ==
  /\ serving = "importing"
  /\ \E i \in import.left :
       /\ \A k \in import.left : i <= k
       /\ Insert(<<import.preview, Rows[i]>>)
       /\ import' = [import EXCEPT !.left = @ \ {i}]
  /\ UNCHANGED <<claim, stage, serving, flagVars, pc, command, owed, sincePause>>

\* controller.start overrides a pause; an import without jobs starts nothing.
EndImport ==
  /\ serving = "importing"
  /\ import.left = {}
  /\ import' = NoImport
  /\ \/ Accepted # {} /\ Then("resuming")
     \/ Then("nothing")
  /\ UNCHANGED <<queueVars, stage, flagVars, pc, command, owed, sincePause>>

\* A transaction raises: the rows made so far stay, and nobody is woken.
ImportRaises ==
  /\ serving \in {"recording", "importing"}
  /\ import' = NoImport
  /\ Then("nothing")
  /\ UNCHANGED <<queueVars, stage, flagVars, pc, command, owed, sincePause>>

StartQueue ==
  /\ Listening
  /\ Then("resuming")
  /\ UNCHANGED <<queueVars, stage, import, flagVars, pc, command, owed, sincePause>>

PauseQueue ==
  /\ Listening
  /\ paused' = TRUE
  /\ owed' = {}
  /\ sincePause' = IF pc \in Working THEN 1 ELSE 0
  /\ UNCHANGED <<queueVars, requestVars, wake, stop, pc, command>>

-----------------------------------------------------------------------------
(* QueueController.wake and start.                                         *)

Wake ==
  /\ serving = "waking"
  /\ Then(IF paused THEN "nothing" ELSE "ringing")
  /\ UNCHANGED <<queueVars, stage, import, flagVars, pc, command, owed, sincePause>>

Resume ==
  /\ serving = "resuming"
  /\ paused' = FALSE
  /\ sincePause' = 0
  /\ Then("ringing")
  /\ UNCHANGED <<queueVars, stage, import, wake, stop, pc, command, owed>>

SetWake ==
  /\ serving = "ringing"
  /\ wake' = TRUE
  /\ owed' = Unclaimed
  /\ Then("nothing")
  /\ UNCHANGED <<queueVars, stage, import, stop, paused, pc, command, sincePause>>

-----------------------------------------------------------------------------
(* Processes.                                                              *)

\* recover_startup, while nobody is about to claim (LocalQueue has its steps):
\* refused beside a live claim; active jobs go back to the queue.
Recover ==
  /\ state' = [j \in Jobs |-> IF state[j] = "active" THEN "waiting" ELSE state[j]]
  /\ claim' = NoClaim

\* The page starts: recover, then launch the thread and wake it.
LaunchPage ==
  /\ pc = "off"
  /\ claim.owner # "command"
  /\ Recover
  /\ pc' = "waiting"
  /\ Then("waking")
  /\ UNCHANGED <<origin, stage, import, flagVars, command, owed, sincePause>>

\* The end of lifespan; the thread is joined for two seconds at most.
Shutdown ==
  /\ Listening
  /\ stop' = TRUE
  /\ wake' = TRUE
  /\ owed' = {}
  /\ UNCHANGED <<queueVars, requestVars, paused, pc, command, sincePause>>

\* The page's process ends, after a shutdown or without one, and its daemon thread
\* with it; a claim stays behind, and previews are forgotten.
EndPage ==
  /\ pc # "off"
  /\ pc' = "off"
  /\ claim' = IF claim.owner = "page" THEN [claim EXCEPT !.owner = "gone"] ELSE claim
  /\ stage' = [p \in Previews |-> IF stage[p] = "none" THEN "none" ELSE "consumed"]
  /\ Then("nothing")
  /\ import' = NoImport
  /\ wake' = FALSE /\ stop' = FALSE /\ paused' = FALSE
  /\ owed' = {}
  /\ sincePause' = 0
  /\ UNCHANGED <<state, origin, command>>

\* Mutant: the command clears every claim it finds.
RecoverUnasked ==
  /\ command = "off"
  /\ pc # "claiming"
  /\ Recover
  /\ command' = "idle"
  /\ UNCHANGED <<origin, requestVars, flagVars, pc, owed, sincePause>>

StartCommand ==
  /\ command = "off"
  /\ claim.owner # "page"
  /\ pc # "claiming"
  /\ Recover
  /\ command' = "idle"
  /\ UNCHANGED <<origin, requestVars, flagVars, pc, owed, sincePause>>

CommandClaims ==
  /\ command = "idle"
  /\ claim = NoClaim
  /\ \E j \in Waiting :
       /\ \A i \in Waiting : j <= i
       /\ claim' = [job |-> j, owner |-> "command"]
       /\ owed' = owed \ {j}
  /\ command' = "working"
  /\ UNCHANGED <<state, origin, requestVars, flagVars, pc, sincePause>>

CommandWorks ==
  LET j == claim.job IN
  /\ command = "working"
  /\ \/ /\ state[j] = "waiting"
        /\ state' = [state EXCEPT ![j] = "active"]
        /\ UNCHANGED <<claim, command>>
     \/ /\ state[j] # "waiting"
        /\ \E outcome \in {"held", "closed"} :
             state' = [state EXCEPT ![j] = IF @ = "active" THEN outcome ELSE @]
        /\ claim' = NoClaim
        /\ command' = "idle"
  /\ UNCHANGED <<origin, requestVars, flagVars, pc, owed, sincePause>>

\* The command is done, or is killed at work.
EndCommand ==
  /\ command # "off"
  /\ command' = "off"
  /\ claim' = IF claim.owner = "command" THEN [claim EXCEPT !.owner = "gone"] ELSE claim
  /\ UNCHANGED <<state, origin, requestVars, flagVars, pc, owed, sincePause>>

-----------------------------------------------------------------------------
Controller == Wake \/ Resume \/ SetWake

Importing == RecordImport \/ ImportRow \/ EndImport

Routes ==
  \/ CreateJob \/ StartQueue \/ PauseQueue
  \/ \E j \in Jobs : Reopen(j) \/ Close(j)
  \/ \E p \in Previews : PreviewCsv(p) \/ Consume(p)

Command == StartCommand \/ CommandClaims \/ CommandWorks \/ EndCommand

Next ==
  \/ Thread \/ ThreadFault
  \/ Routes \/ Controller \/ Importing \/ ImportRaises
  \/ LaunchPage \/ Shutdown \/ EndPage
  \/ Command

\* The thread goes on, and a request that has begun is answered.
Fairness == WF_vars(Thread) /\ WF_vars(Controller)

Spec == Init /\ [][Next]_vars /\ Fairness

-----------------------------------------------------------------------------
(* Properties.                                                             *)

\* "Pause after current": until somebody resumes, the page's thread works on one job
\* at most after a pause, the one in hand or the one about to be claimed.  A command
\* beside the page knows nothing of the pause.
PauseHolds == paused => sincePause <= 1

\* However often the import of an upload fails and its token is sent again, across
\* restarts, and though the file may ask for it twice, no request of it becomes two jobs
\* (app.py: import_csv; inputs.py: preview_csv, CsvPreviewStore).
ImportOnce ==
  \A i, j \in Jobs :
    i # j => origin[i] = Manual \/ origin[i] # origin[j]

\* No wake-up is lost between the requests and the thread: WorkBell is implemented.
Bell == INSTANCE WorkBell WITH
  Jobs    <- Jobs,
  owed    <- owed,
  bell    <- wake,
  resting <- (pc \in {"off", "waiting", "woken", "ended"}),
  muted   <- (paused \/ stop)

AnswersBell == Bell!Init /\ [][Bell!Next]_(Bell!vars)

\* What may keep a job from its turn if it happens for ever: jobs that enter the
\* queue before it, passes that fail, passes that find the queue taken.
Queued  == \E j \in Jobs : state[j] # "waiting" /\ state'[j] = "waiting"
Refused == pc = "claiming" /\ pc' = "resting" /\ claim # NoClaim

\* A job the thread was woken for is taken, by the thread or a command, or leaves
\* the queue, or is let down by a failed pass, a claim in the way, a pause or the
\* end of the process with nobody ringing since.
RungJobsRun ==
  ~[]<><<Queued \/ Refused \/ ThreadFault>>_vars =>
    \A j \in Jobs : j \in owed ~> j \notin owed
=============================================================================

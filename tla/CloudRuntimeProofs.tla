------------------------- MODULE CloudRuntimeProofs -------------------------
(***************************************************************************)
(* Theorems about CloudRuntime for every set of processes and jobs and     *)
(* every mix of releases: the database a running process finds, and the    *)
(* directories the sweep leaves alone.                                     *)
(***************************************************************************)
EXTENDS CloudRuntime, WellFoundedInduction, TLAPS

-----------------------------------------------------------------------------
(* Constants.                                                              *)

\* The row that names no job is nobody's: ids start at one.
LEMMA NoJobIsNoJob == NoJob \notin Jobs
  BY RuntimeAssumption DEF NoJob

\* The directory a sweep takes next is one of those it has still to look at.
LEMMA MinOfNaturals ==
  ASSUME NEW S \in SUBSET Nat, S # {}
  PROVE  Min(S) \in S
<1>1. PICK x \in S : \A y \in S : ~ (<<y, x>> \in OpToRel(<, Nat))
  BY NatLessThanWellFounded, WFMin
<1>2. \A y \in S : x <= y
  <2> SUFFICES ASSUME NEW y \in S PROVE x <= y
    OBVIOUS
  <2>1. y \in Nat /\ x \in Nat
    OBVIOUS
  <2>2. y < x => <<y, x>> \in OpToRel(<, Nat)
    BY <2>1 DEF OpToRel
  <2>3. ~ (y < x)
    BY <1>1, <2>2, Zenon
  <2> QED
    BY <2>1, <2>3
<1> QED
  BY <1>2 DEF Min

-----------------------------------------------------------------------------
(* Types.                                                                  *)

\* The first state has the types.
LEMMA TypeInit == Init => TypeOK
  BY RuntimeAssumption DEF Init, TypeOK, WebPlace, WorkerPlace, StartPlace, Off, JobState

\* The migrations of every process: what a start has read is at most one script
\* behind, an open script is the next one and the only one, and who is past its
\* wait has found all of its own.  A committed script is never taken back.
MigrationInv ==
  /\ \A p \in Webs : web[p] = "applying" => script[p] <= schema + 1
  /\ \A p \in Webs : web[p] = "open" => script[p] = schema + 1 /\ script[p] <= Ships[p]
  /\ \A p, q \in Webs : web[p] = "open" /\ web[q] = "open" => p = q
  /\ \A p \in Webs : web[p] = "serving" => Ships[p] <= schema
  /\ \A w \in Workers : Running(w) => Ships[w] <= schema

TypeInv == TypeOK /\ MigrationInv

\* The first state satisfies the invariant: every process is down.
LEMMA TypeInvInit == Init => TypeInv
  BY TypeInit DEF Init, TypeInv, MigrationInv, Running, StartPlace, Off

\* Every step of a worker keeps the types.
LEMMA WorkerTypes ==
  ASSUME TypeOK, NEW w \in Workers, WorkerNext(w)
  PROVE  TypeOK'
<1> USE NoJobIsNoJob
    DEF TypeOK, WorkerStep, ForgetLoop, WorkerPlace, StartPlace, LoopPlace, Off, JobState,
        schemaVars, loopVars, scratchVars
<1>1. CASE StartWorker(w)
  <2>1. dirs' \in [Workers -> [Jobs -> {"none", "fresh", "old"}]]
    BY <1>1 DEF StartWorker
  <2> QED
    BY <1>1, <2>1 DEF StartWorker
<1>2. CASE ReadSchema(w)
  BY <1>2 DEF ReadSchema
<1>3. CASE Configure(w)
  BY <1>3 DEF Configure
<1>4. CASE RecoverStartup(w)
  BY <1>4 DEF RecoverStartup
<1>5. CASE Stop(w)
  BY <1>5 DEF Stop
<1>6. CASE BeginIteration(w)
  BY <1>6 DEF BeginIteration
<1>7. CASE CleanupExpired(w)
  BY <1>7 DEF CleanupExpired, Listed
<1>8. CASE CleanupRaises(w)
  BY <1>8 DEF CleanupRaises, Listed
<1>9. CASE Examine(w)
  <2>1. Min(visit[w]) \in Jobs
    BY <1>9, MinOfNaturals, RuntimeAssumption DEF Examine
  <2> QED
    BY <1>9, <2>1 DEF Examine
<1>10. CASE RemoveDirectory(w)
  BY <1>10 DEF RemoveDirectory
<1>11. CASE SweepDone(w)
  BY <1>11 DEF SweepDone, EndSweep
<1>12. CASE ClaimNext(w)
  BY <1>12 DEF ClaimNext
<1>13. CASE ClaimNothing(w)
  BY <1>13 DEF ClaimNothing
<1>14. CASE Conclude(w)
  <2>1. jobs' \in [Jobs -> JobState]
    <3>1. PICK end \in JobState : jobs' = [jobs EXCEPT ![holding[w]] = end]
      BY <1>14 DEF Conclude
    <3>2. \A j \in Jobs : jobs'[j] \in JobState
      BY <3>1
    <3> QED
      BY <3>1, <3>2
  <2> QED
    BY <1>14, <2>1 DEF Conclude
<1>15. CASE Discard(w)
  BY <1>15 DEF Discard
<1>16. CASE Fail(w)
  <2>1. jobs' \in [Jobs -> JobState]
    <3>1. PICK end \in JobState : jobs' = [jobs EXCEPT ![holding[w]] = end]
      BY <1>16 DEF Fail
    <3>2. \A j \in Jobs : jobs'[j] \in JobState
      BY <3>1
    <3> QED
      BY <3>1, <3>2
  <2> QED
    BY <1>16, <2>1 DEF Fail
<1>17. CASE ReadSchemaRaises(w)
  BY <1>17 DEF ReadSchemaRaises
<1>18. CASE WaitTimesOut(w)
  BY <1>18 DEF WaitTimesOut
<1>19. CASE WorkerEnds(w)
  BY <1>19 DEF WorkerEnds
<1>20. CASE RequestStop(w)
  BY <1>20 DEF RequestStop
<1>21. CASE IntervalElapses(w)
  BY <1>21 DEF IntervalElapses
<1>22. CASE Prepare(w)
  BY <1>22 DEF Prepare
<1>23. CASE RemoveFails(w)
  BY <1>23 DEF RemoveFails
<1>24. CASE SweepRaises(w)
  BY <1>24 DEF SweepRaises, EndSweep
<1>25. CASE DiscardFails(w)
  BY <1>25 DEF DiscardFails
<1>26. CASE \E j \in Jobs : Ages(w, j)
  BY <1>26 DEF Ages
<1> QED
  BY <1>1, <1>2, <1>3, <1>4, <1>5, <1>6, <1>7, <1>8, <1>9, <1>10, <1>11, <1>12, <1>13,
     <1>14, <1>15, <1>16, <1>17, <1>18, <1>19, <1>20, <1>21, <1>22, <1>23, <1>24, <1>25,
     <1>26
     DEF WorkerNext, WorkerProgram

\* A worker passes its wait by reading a schema that has its release's scripts;
\* nothing else it does brings it there or touches the migrations.
LEMMA WorkerMigrates ==
  ASSUME TypeOK, MigrationInv, NEW w \in Workers, WorkerNext(w)
  PROVE  MigrationInv' /\ UNCHANGED schemaVars
<1>1. /\ UNCHANGED schemaVars
      /\ \A v \in Workers : Running(v)' => Running(v) \/ Ships[v] <= schema
  <2> USE DEF TypeOK, Running, WorkerStep, StartPlace, Off, LoopPlace
  <2>1. CASE ReadSchema(w)
    BY <2>1 DEF ReadSchema, SchemaReady
  <2>2. CASE StartWorker(w) \/ Stop(w) \/ WaitTimesOut(w) \/ WorkerEnds(w) \/ ReadSchemaRaises(w)
    BY <2>2 DEF StartWorker, Stop, WaitTimesOut, WorkerEnds, ReadSchemaRaises, ForgetLoop
  <2>3. CASE Configure(w) \/ RecoverStartup(w) \/ BeginIteration(w)
    BY <2>3 DEF Configure, RecoverStartup, BeginIteration
  <2>4. CASE CleanupExpired(w) \/ CleanupRaises(w) \/ SweepDone(w) \/ SweepRaises(w)
    BY <2>4 DEF CleanupExpired, CleanupRaises, SweepDone, SweepRaises, EndSweep
  <2>5. CASE Examine(w) \/ RemoveDirectory(w) \/ RemoveFails(w) \/ Prepare(w)
             \/ RequestStop(w) \/ IntervalElapses(w) \/ \E j \in Jobs : Ages(w, j)
    BY <2>5 DEF Examine, RemoveDirectory, RemoveFails, Prepare, RequestStop,
         IntervalElapses, Ages, loopVars
  <2>6. CASE ClaimNext(w) \/ ClaimNothing(w) \/ Conclude(w) \/ Fail(w)
             \/ Discard(w) \/ DiscardFails(w)
    BY <2>6 DEF ClaimNext, ClaimNothing, Conclude, Fail, Discard, DiscardFails
  <2> QED
    BY <2>1, <2>2, <2>3, <2>4, <2>5, <2>6 DEF WorkerNext, WorkerProgram
<1> QED
  BY <1>1 DEF MigrationInv, schemaVars

\* A web process reads, applies and commits in the order of the scripts.
LEMMA WebMigrates ==
  ASSUME TypeInv, NEW p \in Webs, WebNext(p)
  PROVE  TypeInv'
<1> USE DEF TypeInv, TypeOK, MigrationInv, Running, WebStep, WebPlace, Off,
            schemaVars, loopVars, scratchVars
<1>0. Ships \in [Webs \union Workers -> 0 .. Latest] /\ Latest \in Nat
  BY RuntimeAssumption
<1>1. CASE StartWeb(p)
  BY <1>0, <1>1 DEF StartWeb
<1>2. CASE BeginScript(p)
  BY <1>0, <1>2 DEF BeginScript
<1>3. CASE CommitScript(p)
  BY <1>0, <1>3 DEF CommitScript
<1>4. CASE ScriptCollides(p)
  BY <1>0, <1>4 DEF ScriptCollides
<1>5. CASE Serve(p)
  BY <1>0, <1>5 DEF Serve
<1>6. CASE WebEnds(p)
  BY <1>0, <1>6 DEF WebEnds
<1> QED
  BY <1>1, <1>2, <1>3, <1>4, <1>5, <1>6 DEF WebNext, Migrate

\* A route of the web application changes one job row.
LEMMA UserMigrates == TypeInv /\ UserNext => TypeInv'
<1> SUFFICES ASSUME TypeInv, NEW j \in Jobs, NEW old, NEW new \in JobState,
                    Request(j, old, new)
             PROVE  TypeInv'
  BY DEF UserNext, CreateJob, RetryJob, CancelJob, ApproveCandidate, ReplaceSource,
         MarkNotFound, JobState
<1> QED
  BY DEF TypeInv, TypeOK, MigrationInv, Running, Request, schemaVars, loopVars, scratchVars

\* Every step keeps the types and the order of the migrations.
LEMMA TypeInvStep == TypeInv /\ [Next]_vars => TypeInv'
<1> SUFFICES ASSUME TypeInv, [Next]_vars PROVE TypeInv'
  OBVIOUS
<1>1. CASE Next
  BY <1>1, WorkerTypes, WorkerMigrates, WebMigrates, UserMigrates DEF Next, TypeInv
<1>2. CASE UNCHANGED vars
  BY <1>2 DEF TypeInv, TypeOK, MigrationInv, Running, vars, schemaVars, loopVars, scratchVars
<1> QED
  BY <1>1, <1>2

\* Every process that serves or is past its wait works on a database with every
\* migration of its own release, and one script at most is open, the next one.
THEOREM SchemaIsWhole == Spec => []SchemaWhole
<1>1. TypeInv => SchemaWhole
  BY DEF TypeInv, MigrationInv, SchemaWhole
<1> QED
  BY TypeInvInit, TypeInvStep, <1>1, PTL DEF Spec

\* The versions of a database only grow, whatever processes of whatever releases
\* start, collide and die.
THEOREM MigrationsStay == Spec => [][schema' \in {schema, schema + 1}]_vars
<1>1. TypeInv /\ [Next]_vars => [schema' \in {schema, schema + 1}]_vars
  <2> SUFFICES ASSUME TypeInv, Next PROVE schema' \in {schema, schema + 1}
    OBVIOUS
  <2>1. CASE \E p \in Webs : WebNext(p)
    BY <2>1 DEF TypeInv, MigrationInv, WebNext, Migrate, StartWeb, BeginScript,
         CommitScript, ScriptCollides, Serve, WebEnds
  <2>2. CASE \E w \in Workers : WorkerNext(w)
    BY <2>2, WorkerMigrates DEF TypeInv, schemaVars
  <2>3. CASE UserNext
    BY <2>3 DEF UserNext, CreateJob, RetryJob, CancelJob, ApproveCandidate,
         ReplaceSource, MarkNotFound, Request, schemaVars
  <2> QED
    BY <2>1, <2>2, <2>3 DEF Next
<1> QED
  BY TypeInvInit, TypeInvStep, <1>1, PTL DEF Spec

-----------------------------------------------------------------------------
(* The sweep.                                                              *)

\* A job in processing is active and its claim is held once; who holds a claim
\* is in a job.
ClaimInv ==
  /\ \A w \in Workers : worker[w] = "processing" =>
       holding[w] \in Jobs /\ jobs[holding[w]] = "active"
  /\ \A v, w \in Workers :
       /\ worker[v] = "processing" /\ worker[w] = "processing"
       /\ holding[v] = holding[w]
       => v = w
  /\ \A w \in Workers : worker[w] = "closing" =>
       holding[w] \in Jobs /\ jobs[holding[w]] # "absent"

\* A job without a row has no directory and no sweep has one to look at; and the
\* directory a sweep is about to remove is still as it was when it asked.
SweepInv ==
  /\ \A w \in Workers : \A j \in Jobs :
       jobs[j] = "absent" => dirs[w][j] = "none" /\ j \notin visit[w]
  /\ \A w \in Workers : doomed[w] # NoJob =>
       /\ worker[w] = "sweeping"
       /\ dirs[w][doomed[w]] = "old" \/ jobs[doomed[w]] = "closed"

RuntimeInv == TypeInv /\ ClaimInv /\ SweepInv

\* The first state satisfies it: there is no job and no sweep.
LEMMA RuntimeInvInit == Init => RuntimeInv
  BY TypeInvInit DEF Init, RuntimeInv, ClaimInv, SweepInv

\* What a route does to a job row: it takes it from a state that is neither
\* active nor closed, and to one in which it has a row.
LEMMA RouteChanges ==
  ASSUME UserNext
  PROVE  /\ UNCHANGED <<worker, holding, scratchVars>>
         /\ \E j \in Jobs : \E new \in JobState \ {"absent"} :
              /\ jobs[j] \notin {"active", "closed"}
              /\ jobs' = [jobs EXCEPT ![j] = new]
  BY DEF UserNext, CreateJob, RetryJob, CancelJob, ApproveCandidate, ReplaceSource,
         MarkNotFound, Request, JobState, loopVars

\* A request during a sweep leaves its verdict true: no route reopens a closed job.
LEMMA UserSweeps == RuntimeInv /\ UserNext => RuntimeInv'
<1> SUFFICES ASSUME RuntimeInv, UserNext PROVE RuntimeInv'
  OBVIOUS
<1>1. PICK j \in Jobs, new \in JobState \ {"absent"} :
        /\ jobs[j] \notin {"active", "closed"}
        /\ jobs' = [jobs EXCEPT ![j] = new]
  BY RouteChanges
<1>2. UNCHANGED <<worker, holding, dirs, visit, doomed>>
  BY RouteChanges DEF scratchVars
<1>3. TypeInv'
  BY UserMigrates DEF RuntimeInv
<1>4. \A i \in Jobs : jobs'[i] = IF i = j THEN new ELSE jobs[i]
  BY <1>1 DEF RuntimeInv, TypeInv, TypeOK
<1>5. ClaimInv'
  BY <1>1, <1>2, <1>4 DEF RuntimeInv, ClaimInv
<1>6. SweepInv'
  <2>1. \A w \in Workers : doomed[w] \in Jobs \union {NoJob}
    BY DEF RuntimeInv, TypeInv, TypeOK
  <2> QED
    BY <1>1, <1>2, <1>4, <2>1 DEF RuntimeInv, SweepInv
<1> QED
  BY <1>3, <1>5, <1>6 DEF RuntimeInv

\* Nor does a worker: this one's sweep runs between its jobs, and the jobs of the
\* others were active when they were closed.
LEMMA WorkerSweeps ==
  ASSUME RuntimeInv, NEW w \in Workers, WorkerNext(w)
  PROVE  ClaimInv' /\ SweepInv'
<1> USE NoJobIsNoJob
    DEF RuntimeInv, TypeInv, TypeOK, ClaimInv, SweepInv, WorkerStep, ForgetLoop, StartPlace,
        LoopPlace, Off, schemaVars, loopVars, scratchVars
<1>1. CASE StartWorker(w)
  BY <1>1 DEF StartWorker
<1>2. CASE ReadSchema(w)
  <2>1. PICK place \in {"configuring", "waiting"} : worker' = [worker EXCEPT ![w] = place]
    BY <1>2 DEF ReadSchema
  <2> QED
    BY <1>2, <2>1 DEF ReadSchema
<1>3. CASE Configure(w)
  BY <1>3 DEF Configure
<1>4. CASE RecoverStartup(w)
  BY <1>4 DEF RecoverStartup
<1>5. CASE Stop(w)
  BY <1>5 DEF Stop
<1>6. CASE BeginIteration(w)
  <2>1. PICK place \in {"cleaning", "claiming"} : worker' = [worker EXCEPT ![w] = place]
    BY <1>6 DEF BeginIteration
  <2> QED
    BY <1>6, <2>1 DEF BeginIteration
<1>7. CASE CleanupExpired(w)
  BY <1>7 DEF CleanupExpired, Listed
<1>8. CASE CleanupRaises(w)
  BY <1>8 DEF CleanupRaises, Listed
<1>9. CASE Examine(w)
  <2>1. Min(visit[w]) \in visit[w]
    BY <1>9, MinOfNaturals, RuntimeAssumption DEF Examine
  <2> QED
    BY <1>9, <2>1 DEF Examine, JobMayRunAgain
<1>10. CASE RemoveDirectory(w)
  BY <1>10 DEF RemoveDirectory
<1>11. CASE SweepDone(w)
  BY <1>11 DEF SweepDone, EndSweep
<1>12. CASE ClaimNext(w)
  BY <1>12 DEF ClaimNext
<1>13. CASE ClaimNothing(w)
  BY <1>13 DEF ClaimNothing
<1>14. CASE Conclude(w)
  BY <1>14 DEF Conclude
<1>15. CASE Discard(w)
  BY <1>15 DEF Discard
<1>16. CASE Fail(w)
  BY <1>16 DEF Fail
<1>17. CASE ReadSchemaRaises(w)
  BY <1>17 DEF ReadSchemaRaises
<1>18. CASE WaitTimesOut(w)
  BY <1>18 DEF WaitTimesOut
<1>19. CASE WorkerEnds(w)
  BY <1>19 DEF WorkerEnds
<1>20. CASE RequestStop(w)
  BY <1>20 DEF RequestStop
<1>21. CASE IntervalElapses(w)
  BY <1>21 DEF IntervalElapses
<1>22. CASE Prepare(w)
  BY <1>22 DEF Prepare
<1>23. CASE RemoveFails(w)
  BY <1>23 DEF RemoveFails
<1>24. CASE SweepRaises(w)
  BY <1>24 DEF SweepRaises, EndSweep
<1>25. CASE DiscardFails(w)
  BY <1>25 DEF DiscardFails
<1>26. CASE \E j \in Jobs : Ages(w, j)
  BY <1>26 DEF Ages
<1> QED
  BY <1>1, <1>2, <1>3, <1>4, <1>5, <1>6, <1>7, <1>8, <1>9, <1>10, <1>11, <1>12, <1>13,
     <1>14, <1>15, <1>16, <1>17, <1>18, <1>19, <1>20, <1>21, <1>22, <1>23, <1>24, <1>25,
     <1>26
     DEF WorkerNext, WorkerProgram

\* Every step keeps the claims and the verdicts of the sweeps.
LEMMA RuntimeInvStep == RuntimeInv /\ [Next]_vars => RuntimeInv'
<1> SUFFICES ASSUME RuntimeInv, [Next]_vars PROVE ClaimInv' /\ SweepInv'
  BY TypeInvStep DEF RuntimeInv
<1>1. CASE \E p \in Webs : WebNext(p)
  <2>1. UNCHANGED <<worker, jobs, holding, dirs, visit, doomed>>
    BY <1>1 DEF WebNext, Migrate, StartWeb, BeginScript, CommitScript, ScriptCollides,
         Serve, WebEnds, loopVars, scratchVars
  <2> QED
    BY <2>1 DEF RuntimeInv, ClaimInv, SweepInv
<1>2. CASE \E w \in Workers : WorkerNext(w)
  BY <1>2, WorkerSweeps
<1>3. CASE UserNext
  BY <1>3, UserSweeps DEF RuntimeInv
<1>4. CASE UNCHANGED vars
  BY <1>4 DEF RuntimeInv, ClaimInv, SweepInv, vars, loopVars, scratchVars
<1> QED
  BY <1>1, <1>2, <1>3, <1>4 DEF Next

\* The sweep removes a directory within its retention only if its job is closed
\* at that moment, although it asked before.
THEOREM SweepSparesHolds == Spec => SweepSpares
<1>1. RuntimeInv =>
        \A w \in Workers : \A j \in Jobs :
          RemoveDirectory(w) /\ dirs[w][j] # dirs'[w][j]
            => dirs[w][j] = "old" \/ jobs[j] = "closed"
  <2> SUFFICES ASSUME RuntimeInv, NEW w \in Workers, NEW j \in Jobs,
                      RemoveDirectory(w), dirs[w][j] # dirs'[w][j]
               PROVE  dirs[w][j] = "old" \/ jobs[j] = "closed"
    OBVIOUS
  <2>1. j = doomed[w]
    BY DEF RemoveDirectory, RuntimeInv, TypeInv, TypeOK
  <2> QED
    BY <2>1 DEF RemoveDirectory, RuntimeInv, SweepInv
<1> QED
  BY RuntimeInvInit, RuntimeInvStep, <1>1, PTL DEF Spec, SweepSpares

\* A job that was closed stays closed, whoever works on it or asks for it.
THEOREM ClosedForGood ==
  Spec => [][\A j \in Jobs : jobs[j] = "closed" => jobs'[j] = "closed"]_vars
<1>1. RuntimeInv /\ [Next]_vars =>
        [\A j \in Jobs : jobs[j] = "closed" => jobs'[j] = "closed"]_vars
  <2> SUFFICES ASSUME RuntimeInv, Next, NEW j \in Jobs, jobs[j] = "closed"
               PROVE  jobs'[j] = "closed"
    OBVIOUS
  <2> USE DEF RuntimeInv, TypeInv, TypeOK
  <2>1. CASE \E p \in Webs : WebNext(p)
    BY <2>1 DEF WebNext, Migrate, StartWeb, BeginScript, CommitScript, ScriptCollides,
         Serve, WebEnds
  <2>2. CASE UserNext
    BY <2>2, RouteChanges
  <2>3. ASSUME NEW w \in Workers, WorkerNext(w)
        PROVE  jobs'[j] = "closed"
    <3>1. CASE RecoverStartup(w)
      BY <3>1 DEF RecoverStartup
    <3>2. CASE ClaimNext(w) \/ Conclude(w) \/ Fail(w)
      BY <3>2 DEF ClaimNext, Conclude, Fail, ClaimInv
    <3>3. CASE UNCHANGED jobs
      BY <3>3
    <3> QED
      BY <2>3, <3>1, <3>2, <3>3
         DEF WorkerNext, WorkerProgram, StartWorker, ReadSchema, Configure, Stop,
             BeginIteration, CleanupExpired, CleanupRaises, Examine, RemoveDirectory,
             SweepDone, SweepRaises, EndSweep, ClaimNothing, Discard, ReadSchemaRaises,
             WaitTimesOut, WorkerEnds, RequestStop, IntervalElapses, Prepare, RemoveFails,
             DiscardFails, Ages, loopVars, scratchVars
  <2> QED
    BY <2>1, <2>2, <2>3 DEF Next
<1> QED
  BY RuntimeInvInit, RuntimeInvStep, <1>1, PTL DEF Spec
=============================================================================

--------------------------- MODULE LocalPageProofs ---------------------------
(***************************************************************************)
(* Theorems about LocalPage for every set of jobs, previews and rows: its  *)
(* types, the pause, that a request of a file becomes one job however an   *)
(* import fails, and that the page implements WorkBell.                    *)
(***************************************************************************)
EXTENDS LocalPage, TLAPS

-----------------------------------------------------------------------------
(* Types.                                                                  *)

\* Who holds the claim while the thread or the command works, and what an import
\* under way still has to do.
HoldInv ==
  /\ pc \in Working => claim.owner = "page"
  /\ command = "working" => claim.owner = "command"
  /\ serving \in {"recording", "importing"} =>
       import \in [preview : Previews, left : SUBSET DOMAIN Rows]

TypeInv == TypeOK /\ HoldInv

\* The row that names no job is nobody's: ids start at one.
LEMMA NoJobIsNoJob == NoJob \notin Jobs
  BY PageAssumption DEF NoJob

\* The first state has the types.
LEMMA TypeInvInit == Init => TypeInv
<1> SUFFICES ASSUME Init PROVE TypeInv
  OBVIOUS
<1>1. HoldInv
  BY DEF Init, HoldInv, Working
<1>2. TypeOK
  <2> USE DEF Init, NoClaim, NoImport
  <2>1. claim \in [job : Jobs, owner : {"page", "command", "gone"}] \union {NoClaim}
    OBVIOUS
  <2>2. import \in [preview : Previews, left : SUBSET DOMAIN Rows] \union {NoImport}
    OBVIOUS
  <2>3. owed \subseteq Unclaimed /\ sincePause \in 0..2
    OBVIOUS
  <2>4. origin \in [Jobs -> (Previews \X Range(Rows)) \union {Manual}]
    OBVIOUS
  <2>5. /\ pc \in {"off", "waiting", "woken", "ended"} \union Passing
        /\ pc \in Working => claim.job \in Jobs
    BY DEF Working, Passing
  <2> QED
    BY <2>1, <2>2, <2>3, <2>4, <2>5 DEF TypeOK
<1> QED
  BY <1>1, <1>2 DEF TypeInv

\* Every step keeps the types.
LEMMA TypeInvStep == TypeInv /\ [Next]_vars => TypeInv'
<1> SUFFICES ASSUME TypeInv, [Next]_vars PROVE TypeInv'
  OBVIOUS
<1> USE NoJobIsNoJob DEF TypeInv, TypeOK, HoldInv, Unclaimed, Waiting, Working, Passing, NoClaim,
                         NoImport, queueVars, requestVars, flagVars
<1>1. CASE Thread
  <2>1. CASE Awake
    BY <2>1 DEF Awake
  <2>2. CASE ClearWake
    BY <2>2 DEF ClearWake
  <2>3. CASE CheckStop
    BY <2>3 DEF CheckStop
  <2>4. CASE CheckPause
    BY <2>4 DEF CheckPause
  <2>5. CASE ClaimNext
    BY <2>5 DEF ClaimNext, GiveUp
  <2>6. CASE Execute
    BY <2>6 DEF Execute
  <2>7. CASE HandleFailure
    BY <2>7 DEF HandleFailure
  <2>8. CASE Release
    BY <2>8 DEF Release, Raise, GiveUp
  <2>9. CASE Report
    BY <2>9 DEF Report
  <2>10. CASE Rest
    BY <2>10 DEF Rest
  <2> QED
    BY <1>1, <2>1, <2>2, <2>3, <2>4, <2>5, <2>6, <2>7, <2>8, <2>9, <2>10 DEF Thread
<1>2. CASE ThreadFault
  <2>1. CASE ExecuteRaises
    BY <2>1 DEF ExecuteRaises
  <2>2. CASE HandlerRaises
    BY <2>2 DEF HandlerRaises
  <2>3. CASE DatabaseRaises
    BY <2>3 DEF DatabaseRaises, Raise, GiveUp
  <2> QED
    BY <1>2, <2>1, <2>2, <2>3 DEF ThreadFault
<1>3. CASE Routes
  <2>1. CASE CreateJob
    BY <2>1 DEF CreateJob, Insert, Then, Absent, Listening
  <2>2. CASE StartQueue
    BY <2>2 DEF StartQueue, Then, Listening
  <2>3. CASE PauseQueue
    BY <2>3 DEF PauseQueue, Listening
  <2>4. ASSUME NEW j \in Jobs, Reopen(j)
        PROVE  TypeInv'
    BY <2>4 DEF Reopen, Then, Listening
  <2>5. ASSUME NEW j \in Jobs, Close(j)
        PROVE  TypeInv'
    BY <2>5 DEF Close, Listening
  <2>6. ASSUME NEW p \in Previews, PreviewCsv(p)
        PROVE  TypeInv'
    BY <2>6 DEF PreviewCsv, Listening
  <2>7. ASSUME NEW p \in Previews, Consume(p)
        PROVE  TypeInv'
    BY <2>7 DEF Consume, Then, Listening, Accepted
  <2> QED
    BY <1>3, <2>1, <2>2, <2>3, <2>4, <2>5, <2>6, <2>7 DEF Routes
<1>4. CASE Controller
  <2>1. CASE Wake
    BY <2>1 DEF Wake, Then
  <2>2. CASE Resume
    <3>1. sincePause' \in 0..2
      BY <2>2 DEF Resume
    <3> QED
      BY <2>2, <3>1 DEF Resume, Then
  <2>3. CASE SetWake
    BY <2>3 DEF SetWake, Then
  <2> QED
    BY <1>4, <2>1, <2>2, <2>3 DEF Controller
<1>5. CASE Importing
  <2>1. CASE RecordImport
    BY <2>1 DEF RecordImport, Then
  <2>2. CASE ImportRow
    BY <2>2, PageAssumption DEF ImportRow, Insert, Absent, Range
  <2>3. CASE EndImport
    BY <2>3 DEF EndImport, Then
  <2> QED
    BY <1>5, <2>1, <2>2, <2>3 DEF Importing
<1>6. CASE ImportRaises
  BY <1>6 DEF ImportRaises, Then
<1>7. CASE LaunchPage
  BY <1>7 DEF LaunchPage, Then, Recover
<1>8. CASE Shutdown
  BY <1>8 DEF Shutdown, Listening
<1>9. CASE EndPage
  <2>1. sincePause' \in 0..2
    BY <1>9 DEF EndPage
  <2>2. claim' \in [job : Jobs, owner : {"page", "command", "gone"}] \union {NoClaim}
    BY <1>9 DEF EndPage
  <2> QED
    BY <1>9, <2>1, <2>2 DEF EndPage, Then
<1>10. CASE Command
  <2>1. CASE StartCommand
    BY <2>1 DEF StartCommand, Recover
  <2>2. CASE CommandClaims
    BY <2>2 DEF CommandClaims
  <2>3. CASE CommandWorks
    BY <2>3 DEF CommandWorks
  <2>4. CASE EndCommand
    BY <2>4 DEF EndCommand
  <2> QED
    BY <1>10, <2>1, <2>2, <2>3, <2>4 DEF Command
<1>11. CASE UNCHANGED vars
  BY <1>11 DEF vars
<1> QED
  BY <1>1, <1>2, <1>3, <1>4, <1>5, <1>6, <1>7, <1>8, <1>9, <1>10, <1>11 DEF Next

\* The types hold of every program, whatever its jobs and files: in particular the
\* thread never works without the claim of a job (worker.py: run_next).
THEOREM TypeCorrect == Spec => []TypeOK
<1>1. TypeInv => TypeOK
  BY DEF TypeInv
<1> QED
  BY TypeInvInit, TypeInvStep, <1>1, PTL DEF Spec

-----------------------------------------------------------------------------
(* Pause after current.                                                    *)

\* A thread that is about to claim while paused looked before the pause, and has
\* not taken a job since.
PauseInv ==
  /\ sincePause \in 0..2
  /\ paused => sincePause <= 1
  /\ paused /\ pc = "claiming" => sincePause = 0

\* Every step keeps it.
LEMMA PauseInvStep == PauseInv /\ [Next]_vars => PauseInv'
<1> SUFFICES ASSUME PauseInv, [Next]_vars PROVE PauseInv'
  OBVIOUS
<1> USE DEF PauseInv, flagVars
<1>1. CASE Thread
  <2>1. CASE ClaimNext
    BY <2>1 DEF ClaimNext
  <2>2. CASE Awake \/ ClearWake \/ CheckStop \/ CheckPause \/ Rest
    BY <2>2 DEF Awake, ClearWake, CheckStop, CheckPause, Rest
  <2>3. CASE Execute \/ HandleFailure \/ Release \/ Report
    BY <2>3 DEF Execute, HandleFailure, Release, Raise, Report
  <2> QED
    BY <1>1, <2>1, <2>2, <2>3 DEF Thread
<1>2. CASE ThreadFault
  BY <1>2 DEF ThreadFault, ExecuteRaises, HandlerRaises, DatabaseRaises, Raise
<1>3. CASE Routes
  BY <1>3 DEF Routes, CreateJob, StartQueue, PauseQueue, Reopen, Close, PreviewCsv, Consume, Working
<1>4. CASE Controller
  BY <1>4 DEF Controller, Wake, Resume, SetWake
<1>5. CASE Importing \/ ImportRaises
  BY <1>5 DEF Importing, RecordImport, ImportRow, EndImport, ImportRaises
<1>6. CASE LaunchPage \/ Shutdown \/ EndPage
  BY <1>6 DEF LaunchPage, Shutdown, EndPage
<1>7. CASE Command
  BY <1>7 DEF Command, StartCommand, CommandClaims, CommandWorks, EndCommand
<1>8. CASE UNCHANGED vars
  BY <1>8 DEF vars
<1> QED
  BY <1>1, <1>2, <1>3, <1>4, <1>5, <1>6, <1>7, <1>8 DEF Next

\* Whatever the pause meets, the thread takes at most one job until the queue is
\* resumed (worker.py: pause_after_current, run_until_idle, run_next).
THEOREM PauseHeld == Spec => []PauseHolds
<1>1. Init => PauseInv
  BY DEF Init, PauseInv
<1>2. PauseInv => PauseHolds
  BY DEF PauseInv, PauseHolds
<1> QED
  BY <1>1, <1>2, PauseInvStep, PTL DEF Spec

-----------------------------------------------------------------------------
(* Imports.                                                                *)

\* A job of a file belongs to a consumed preview, and the accepted rows an import
\* still has to make have no job yet.
ImportInv ==
  /\ \A j \in Jobs : state[j] = "absent" => origin[j] = Manual
  /\ \A j \in Jobs : origin[j] # Manual => stage[origin[j][1]] = "consumed"
  /\ serving \in {"recording", "importing"} =>
       /\ stage[import.preview] = "consumed"
       /\ import.left \subseteq Accepted
       /\ \A i \in import.left, j \in Jobs : origin[j] # <<import.preview, Rows[i]>>
  /\ ImportOnce

\* Jobs that keep their origin, and files none of which is consumed twice, keep it.
LEMMA ImportKept ==
  ASSUME TypeInv, ImportInv, UNCHANGED <<origin, stage>>,
         \A j \in Jobs : state'[j] = "absent" => state[j] = "absent",
         \/ serving' \notin {"recording", "importing"}
         \/ UNCHANGED import /\ serving \in {"recording", "importing"}
  PROVE  ImportInv'
BY DEF ImportInv, ImportOnce, Accepted

\* A new job has no origin yet, and takes the one it is made from.
LEMMA InsertOrigin ==
  ASSUME TypeInv, ImportInv, NEW from, Insert(from)
  PROVE  \E j \in Jobs :
           /\ state[j] = "absent" /\ origin[j] = Manual
           /\ state' = [state EXCEPT ![j] = "waiting"]
           /\ origin' = [origin EXCEPT ![j] = from]
BY DEF Insert, Absent, ImportInv

\* No step makes a second job of a request of a file.
LEMMA ImportInvStep == TypeInv /\ ImportInv /\ [Next]_vars => ImportInv'
<1> SUFFICES ASSUME TypeInv, ImportInv, [Next]_vars PROVE ImportInv'
  OBVIOUS
<1> USE DEF Then, Listening, queueVars, requestVars, flagVars
<1> DEFINE Kept == /\ UNCHANGED <<origin, stage>>
                   /\ \A j \in Jobs : state'[j] = "absent" => state[j] = "absent"
                   /\ \/ serving' \notin {"recording", "importing"}
                      \/ UNCHANGED import /\ serving \in {"recording", "importing"}
<1>k. Kept => ImportInv'
  BY ImportKept
<1>s. TypeInv => state \in [Jobs -> {"absent", "waiting", "active", "held", "closed"}]
  BY DEF TypeInv, TypeOK
<1> HIDE DEF Kept
<1>1. CASE Thread
  <2>1. CASE Execute
    <3>1. \A j \in Jobs : state'[j] = "absent" => state[j] = "absent"
      BY <2>1, <1>s DEF Execute
    <3> QED
      BY <2>1, <3>1, <1>k DEF Execute, Kept, ImportInv, ImportOnce, Accepted
  <2>2. CASE HandleFailure
    <3>1. \A j \in Jobs : state'[j] = "absent" => state[j] = "absent"
      BY <2>2, <1>s DEF HandleFailure
    <3> QED
      BY <2>2, <3>1, <1>k DEF HandleFailure, ImportInv, ImportOnce, Accepted
  <2>3. CASE Awake \/ ClearWake \/ CheckStop \/ CheckPause \/ ClaimNext \/ Release \/ Report \/ Rest
    <3>1. UNCHANGED <<state, origin, stage, serving, import>>
      BY <2>3 DEF Awake, ClearWake, CheckStop, CheckPause, ClaimNext, Release, Report, Rest
    <3> QED
      BY <3>1 DEF ImportInv, ImportOnce, Accepted
  <2> QED
    BY <1>1, <2>1, <2>2, <2>3 DEF Thread
<1>2. CASE ThreadFault
  <2>1. UNCHANGED <<origin, stage, serving, import>>
    BY <1>2 DEF ThreadFault, ExecuteRaises, HandlerRaises, DatabaseRaises
  <2>2. \A j \in Jobs : state'[j] = "absent" => state[j] = "absent"
    BY <1>2, <1>s DEF ThreadFault, ExecuteRaises, HandlerRaises, DatabaseRaises
  <2> QED
    BY <2>1, <2>2 DEF ImportInv, ImportOnce, Accepted
<1>3. CASE Routes
  <2>1. CASE CreateJob
    <3>1. PICK j \in Jobs : /\ state' = [state EXCEPT ![j] = "waiting"]
                            /\ origin' = [origin EXCEPT ![j] = Manual]
                            /\ origin[j] = Manual
      BY <2>1, InsertOrigin DEF CreateJob
    <3>2. origin' = origin /\ stage' = stage /\ serving' \notin {"recording", "importing"}
      BY <2>1, <3>1 DEF CreateJob, TypeInv, TypeOK
    <3>3. \A i \in Jobs : state'[i] = "absent" => state[i] = "absent"
      BY <3>1, <1>s
    <3> QED
      BY <3>2, <3>3, <1>k DEF Kept
  <2>2. CASE StartQueue \/ PauseQueue
    BY <2>2, <1>k DEF StartQueue, PauseQueue, Kept, ImportInv, ImportOnce, Accepted
  <2>3. ASSUME NEW j \in Jobs, Reopen(j)
        PROVE  ImportInv'
    BY <2>3, <1>k, <1>s DEF Reopen, Kept
  <2>4. ASSUME NEW j \in Jobs, Close(j)
        PROVE  ImportInv'
    BY <2>4, <1>k, <1>s DEF Close, Kept
  <2>5. ASSUME NEW p \in Previews, PreviewCsv(p)
        PROVE  ImportInv'
    BY <2>5 DEF PreviewCsv, ImportInv, ImportOnce, Accepted, TypeInv, TypeOK
  <2>6. ASSUME NEW p \in Previews, Consume(p)
        PROVE  ImportInv'
    <3>1. UNCHANGED <<state, origin>> /\ stage' = [stage EXCEPT ![p] = "consumed"]
      BY <2>6 DEF Consume
    <3>2. \A j \in Jobs : origin[j] # Manual => origin[j][1] # p
      BY <2>6 DEF Consume, ImportInv
    <3>3. \A j \in Jobs : origin'[j] # Manual => stage'[origin'[j][1]] = "consumed"
      BY <3>1, <3>2 DEF ImportInv, TypeInv, TypeOK
    <3>4. \A i \in Accepted, j \in Jobs : origin[j] # <<p, Rows[i]>>
      <4> SUFFICES ASSUME NEW i \in Accepted, NEW j \in Jobs
                   PROVE  origin[j] # <<p, Rows[i]>>
        OBVIOUS
      <4>1. Rows[i] \in Range(Rows)
        BY DEF Accepted, Range
      <4>2. <<p, Rows[i]>> # Manual /\ <<p, Rows[i]>>[1] = p
        BY <4>1, PageAssumption
      <4> QED
        BY <3>2, <4>2
    <3>5. stage'[p] = "consumed"
      BY <3>1 DEF TypeInv, TypeOK
    <3>6. CASE import' = [preview |-> p, left |-> Accepted]
      BY <3>1, <3>3, <3>4, <3>5, <3>6 DEF ImportInv, ImportOnce, Accepted
    <3>7. CASE UNCHANGED <<import, serving>>
      BY <2>6, <3>1, <3>3, <3>7 DEF Consume, ImportInv, ImportOnce
    <3> QED
      BY <2>6, <3>6, <3>7 DEF Consume
  <2> QED
    BY <1>3, <2>1, <2>2, <2>3, <2>4, <2>5, <2>6 DEF Routes
<1>4. CASE Controller
  BY <1>4, <1>k DEF Controller, Wake, Resume, SetWake, Kept
<1>5. CASE Importing
  <2>1. CASE RecordImport \/ EndImport
    BY <2>1, <1>k DEF RecordImport, EndImport, Kept
  <2>2. CASE ImportRow
    <3>1. PICK i \in import.left : Insert(<<import.preview, Rows[i]>>)
                                   /\ import' = [import EXCEPT !.left = @ \ {i}]
      BY <2>2 DEF ImportRow
    <3>2. PICK j \in Jobs :
            /\ state[j] = "absent" /\ origin[j] = Manual
            /\ state' = [state EXCEPT ![j] = "waiting"]
            /\ origin' = [origin EXCEPT ![j] = <<import.preview, Rows[i]>>]
      BY <3>1, InsertOrigin
    <3>3. /\ UNCHANGED <<stage, serving>>
          /\ stage[import.preview] = "consumed"
          /\ import.left \subseteq Accepted
          /\ import.preview \in Previews
          /\ import' = [preview |-> import.preview, left |-> import.left \ {i}]
      BY <2>2, <3>1 DEF ImportRow, ImportInv, TypeInv, HoldInv
    <3>4. \A k \in import.left \ {i} : Rows[k] # Rows[i]
      BY <3>1, <3>3, PageAssumption DEF Accepted
    <3>5. \A k \in import.left, h \in Jobs : origin[h] # <<import.preview, Rows[k]>>
      BY <2>2 DEF ImportRow, ImportInv
    <3>6. \A h \in Jobs : origin'[h] = IF h = j THEN <<import.preview, Rows[i]>> ELSE origin[h]
      BY <3>2 DEF TypeInv, TypeOK
    <3>7. \A h \in Jobs : state'[h] = IF h = j THEN "waiting" ELSE state[h]
      BY <3>2, <1>s
    <3>8. \A h \in Jobs : state'[h] = "absent" => origin'[h] = Manual
      BY <3>3, <3>6, <3>7 DEF ImportInv
    <3>9. \A k \in import.left \ {i}, h \in Jobs : origin'[h] # <<import.preview, Rows[k]>>
      BY <3>4, <3>5, <3>6
    <3>10. ImportOnce'
      BY <3>1, <3>5, <3>6 DEF ImportInv, ImportOnce
    <3>11. /\ import'.preview = import.preview
           /\ import'.left = import.left \ {i}
      BY <3>3
    <3>12. /\ stage'[import'.preview] = "consumed"
           /\ import'.left \subseteq Accepted
           /\ \A k \in import'.left, h \in Jobs : origin'[h] # <<import'.preview, Rows[k]>>
      BY <3>3, <3>9, <3>11
    <3>13. \A h \in Jobs : origin'[h] # Manual => stage'[origin'[h][1]] = "consumed"
      BY <3>3, <3>6 DEF ImportInv
    <3>14. Accepted' = Accepted
      BY DEF Accepted
    <3> QED
      BY <3>8, <3>10, <3>12, <3>13, <3>14 DEF ImportInv
  <2> QED
    BY <1>5, <2>1, <2>2 DEF Importing
<1>6. CASE ImportRaises
  BY <1>6, <1>k DEF ImportRaises, Kept
<1>7. CASE LaunchPage
  BY <1>7, <1>k, <1>s DEF LaunchPage, Recover, Kept
<1>8. CASE Shutdown
  BY <1>8, <1>k DEF Shutdown, Kept
<1>9. CASE EndPage
  BY <1>9 DEF EndPage, ImportInv, ImportOnce, TypeInv, TypeOK
<1>10. CASE Command
  <2>1. UNCHANGED <<origin, stage, serving, import>>
    BY <1>10 DEF Command, StartCommand, CommandClaims, CommandWorks, EndCommand
  <2>2. \A j \in Jobs : state'[j] = "absent" => state[j] = "absent"
    BY <1>10, <1>s DEF Command, StartCommand, CommandClaims, CommandWorks, EndCommand, Recover
  <2> QED
    BY <2>1, <2>2 DEF ImportInv, ImportOnce, Accepted
<1>11. CASE UNCHANGED vars
  BY <1>11 DEF vars, ImportInv, ImportOnce, Accepted
<1> QED
  BY <1>1, <1>2, <1>3, <1>4, <1>5, <1>6, <1>7, <1>8, <1>9, <1>10, <1>11 DEF Next

\* No request of an uploaded file becomes two jobs, whichever transaction of its
\* import fails and however often its token is sent again (app.py: import_csv).
THEOREM ImportedOnce == Spec => []ImportOnce
<1>1. Init => ImportInv
  BY DEF Init, ImportInv, ImportOnce
<1>2. ImportInv => ImportOnce
  BY DEF ImportInv
<1> QED
  BY <1>1, <1>2, TypeInvInit, TypeInvStep, ImportInvStep, PTL DEF Spec

-----------------------------------------------------------------------------
(* The bell.                                                               *)

\* What the flags say of the request in hand and of the thread.
FlagInv ==
  /\ stop => serving = "nothing"
  /\ serving = "ringing" => ~paused
  /\ pc = "off" => ~wake /\ ~stop /\ ~paused /\ serving = "nothing"
  /\ pc = "woken" => wake

\* The flags keep their relations whatever happens.
LEMMA FlagInvStep == TypeOK /\ FlagInv /\ [Next]_vars => FlagInv'
<1> SUFFICES ASSUME FlagInv, [Next]_vars PROVE FlagInv'
  OBVIOUS
<1> USE DEF FlagInv, flagVars, requestVars, Then, Listening
<1>1. CASE Thread
  <2>1. CASE ClearWake
    BY <2>1 DEF ClearWake
  <2>2. CASE Awake
    BY <2>2 DEF Awake
  <2>3. CASE CheckStop
    BY <2>3 DEF CheckStop
  <2>4. CASE CheckPause
    BY <2>4 DEF CheckPause
  <2>5. CASE ClaimNext
    BY <2>5 DEF ClaimNext
  <2>6. CASE Execute
    BY <2>6 DEF Execute
  <2>7. CASE HandleFailure \/ Report
    BY <2>7 DEF HandleFailure, Report
  <2>8. CASE Release
    BY <2>8 DEF Release, Raise
  <2>9. CASE Rest
    BY <2>9 DEF Rest
  <2> QED
    BY <1>1, <2>1, <2>2, <2>3, <2>4, <2>5, <2>6, <2>7, <2>8, <2>9 DEF Thread
<1>2. CASE ThreadFault
  BY <1>2 DEF ThreadFault, ExecuteRaises, HandlerRaises, DatabaseRaises, Raise
<1>3. CASE Routes
  <2>1. CASE CreateJob
    BY <2>1 DEF CreateJob
  <2>2. CASE StartQueue
    BY <2>2 DEF StartQueue
  <2>3. CASE PauseQueue
    BY <2>3 DEF PauseQueue
  <2>4. ASSUME NEW j \in Jobs, Reopen(j)
        PROVE  FlagInv'
    BY <2>4 DEF Reopen
  <2>5. ASSUME NEW j \in Jobs, Close(j)
        PROVE  FlagInv'
    BY <2>5 DEF Close
  <2>6. ASSUME NEW p \in Previews, PreviewCsv(p)
        PROVE  FlagInv'
    BY <2>6 DEF PreviewCsv
  <2>7. ASSUME NEW p \in Previews, Consume(p)
        PROVE  FlagInv'
    BY <2>7 DEF Consume
  <2> QED
    BY <1>3, <2>1, <2>2, <2>3, <2>4, <2>5, <2>6, <2>7 DEF Routes
<1>4. CASE Controller
  <2>1. CASE Wake
    BY <2>1 DEF Wake
  <2>2. CASE Resume
    BY <2>2 DEF Resume
  <2>3. CASE SetWake
    BY <2>3 DEF SetWake
  <2> QED
    BY <1>4, <2>1, <2>2, <2>3 DEF Controller
<1>5. CASE Importing \/ ImportRaises
  BY <1>5 DEF Importing, RecordImport, ImportRow, EndImport, ImportRaises
<1>6. CASE LaunchPage
  BY <1>6 DEF LaunchPage
<1>7. CASE Shutdown
  BY <1>7 DEF Shutdown
<1>8. CASE EndPage
  BY <1>8 DEF EndPage
<1>9. CASE Command
  BY <1>9 DEF Command, StartCommand, CommandClaims, CommandWorks, EndCommand
<1>10. CASE UNCHANGED vars
  BY <1>10 DEF vars
<1> QED
  BY <1>1, <1>2, <1>3, <1>4, <1>5, <1>6, <1>7, <1>8, <1>9, <1>10 DEF Next

\* Nothing is owed where nobody may ring, and a pass that ends leaves nothing owed
\* unless the bell has rung since it began.
OwedInv ==
  /\ paused \/ stop \/ pc = "off" => owed = {}
  /\ pc = "resting" => owed = {} \/ wake

\* Every step keeps it.
LEMMA OwedInvStep == TypeOK /\ FlagInv /\ OwedInv /\ [Next]_vars => OwedInv'
<1> SUFFICES ASSUME TypeOK, FlagInv, OwedInv, [Next]_vars PROVE OwedInv'
  OBVIOUS
<1> USE DEF OwedInv, FlagInv, flagVars, Listening
<1>1. CASE Thread
  <2>1. CASE ClaimNext
    BY <2>1 DEF ClaimNext, GiveUp, TypeOK, Unclaimed
  <2>2. CASE Release
    BY <2>2 DEF Release, Raise, GiveUp
  <2>3. CASE Awake \/ ClearWake \/ CheckStop \/ CheckPause \/ Rest
    BY <2>3 DEF Awake, ClearWake, CheckStop, CheckPause, Rest
  <2>4. CASE Execute \/ HandleFailure \/ Report
    BY <2>4 DEF Execute, HandleFailure, Report
  <2> QED
    BY <1>1, <2>1, <2>2, <2>3, <2>4 DEF Thread
<1>2. CASE ThreadFault
  BY <1>2 DEF ThreadFault, ExecuteRaises, HandlerRaises, DatabaseRaises, Raise, GiveUp
<1>3. CASE Routes
  BY <1>3 DEF Routes, CreateJob, StartQueue, PauseQueue, Reopen, Close, PreviewCsv, Consume
<1>4. CASE Controller
  BY <1>4 DEF Controller, Wake, Resume, SetWake
<1>5. CASE Importing \/ ImportRaises
  BY <1>5 DEF Importing, RecordImport, ImportRow, EndImport, ImportRaises
<1>6. CASE LaunchPage \/ Shutdown \/ EndPage
  BY <1>6 DEF LaunchPage, Shutdown, EndPage
<1>7. CASE Command
  BY <1>7 DEF Command, StartCommand, CommandClaims, CommandWorks, EndCommand
<1>8. CASE UNCHANGED vars
  BY <1>8 DEF vars
<1> QED
  BY <1>1, <1>2, <1>3, <1>4, <1>5, <1>6, <1>7, <1>8 DEF Next

\* What the refinement needs to know of a state.
BellInv == TypeOK /\ FlagInv /\ OwedInv

\* Every step of the page is a step of the bell, or leaves it alone.
LEMMA BellStep == BellInv /\ [Next]_vars => [Bell!Next]_(Bell!vars)
<1> SUFFICES ASSUME BellInv, [Next]_vars PROVE Bell!Next \/ UNCHANGED Bell!vars
  OBVIOUS
<1> USE DEF BellInv, FlagInv, OwedInv, flagVars, Listening
<1> DEFINE Quiet == /\ owed' = owed /\ wake' = wake /\ paused' = paused /\ stop' = stop
                    /\ (pc' \in {"off", "waiting", "woken", "ended"})
                         <=> (pc \in {"off", "waiting", "woken", "ended"})
<1>q. Quiet => UNCHANGED Bell!vars
  BY DEF Bell!vars
<1>1. CASE Thread
  <2>1. CASE Awake \/ CheckPause \/ Execute \/ HandleFailure \/ Report
    BY <2>1, <1>q DEF Awake, CheckPause, Execute, HandleFailure, Report
  <2>2. CASE ClearWake
    BY <2>2 DEF ClearWake, Bell!Next, Bell!Begin
  <2>3. CASE CheckStop
    BY <2>3, <1>q DEF CheckStop, Bell!Next, Bell!Rest
  <2>4. CASE ClaimNext
    <3>1. CASE owed' = owed
      BY <2>4, <3>1, <1>q DEF ClaimNext
    <3>2. CASE \E j \in Jobs : owed' = owed \ {j}
      BY <2>4, <3>2 DEF ClaimNext, Bell!Next, Bell!Serve
    <3>3. CASE GiveUp
      BY <2>4, <3>3, <1>q DEF ClaimNext, GiveUp, Bell!Next, Bell!GiveUp
    <3> QED
      BY <2>4, <3>1, <3>2, <3>3 DEF ClaimNext, Waiting
  <2>5. CASE Release
    BY <2>5, <1>q DEF Release, Raise, GiveUp, Bell!Next, Bell!GiveUp
  <2>6. CASE Rest
    BY <2>6, <1>q DEF Rest, Bell!Next, Bell!Rest
  <2> QED
    BY <1>1, <2>1, <2>2, <2>3, <2>4, <2>5, <2>6 DEF Thread
<1>2. CASE ThreadFault
  <2>1. CASE ExecuteRaises \/ HandlerRaises
    BY <2>1, <1>q DEF ExecuteRaises, HandlerRaises
  <2>2. CASE DatabaseRaises
    BY <2>2, <1>q DEF DatabaseRaises, Raise, GiveUp, Bell!Next, Bell!GiveUp
  <2> QED
    BY <1>2, <2>1, <2>2 DEF ThreadFault
<1>3. CASE Routes
  <2>1. CASE PauseQueue
    BY <2>1 DEF PauseQueue, Bell!Next, Bell!Mute
  <2>2. ASSUME NEW j \in Jobs, Close(j)
        PROVE  Bell!Next
    BY <2>2 DEF Close, Bell!Next, Bell!Serve
  <2>3. CASE CreateJob \/ StartQueue
    BY <2>3, <1>q DEF CreateJob, StartQueue
  <2>4. ASSUME NEW j \in Jobs, Reopen(j)
        PROVE  Quiet
    BY <2>4 DEF Reopen
  <2>5. ASSUME NEW p \in Previews, PreviewCsv(p) \/ Consume(p)
        PROVE  Quiet
    BY <2>5 DEF PreviewCsv, Consume
  <2> QED
    BY <1>3, <1>q, <2>1, <2>2, <2>3, <2>4, <2>5 DEF Routes
<1>4. CASE Controller
  <2>1. CASE Wake
    BY <2>1, <1>q DEF Wake
  <2>2. CASE Resume
    BY <2>2 DEF Resume, Bell!Next, Bell!Unmute
  <2>3. CASE SetWake
    BY <2>3 DEF SetWake, TypeOK, Unclaimed, Waiting, Bell!Next, Bell!Ring
  <2> QED
    BY <1>4, <2>1, <2>2, <2>3 DEF Controller
<1>5. CASE Importing \/ ImportRaises
  BY <1>5, <1>q DEF Importing, RecordImport, ImportRow, EndImport, ImportRaises
<1>6. CASE LaunchPage
  BY <1>6, <1>q DEF LaunchPage
<1>7. CASE Shutdown
  BY <1>7 DEF Shutdown, Bell!Next, Bell!Mute
<1>8. CASE EndPage
  BY <1>8 DEF EndPage, Bell!Next, Bell!Reset
<1>9. CASE Command
  <2>1. CASE StartCommand \/ CommandWorks \/ EndCommand
    BY <2>1, <1>q DEF StartCommand, CommandWorks, EndCommand
  <2>2. CASE CommandClaims
    BY <2>2 DEF CommandClaims, Waiting, Bell!Next, Bell!Serve
  <2> QED
    BY <1>9, <2>1, <2>2 DEF Command
<1>10. CASE UNCHANGED vars
  BY <1>10, <1>q DEF vars
<1> QED
  BY <1>1, <1>2, <1>3, <1>4, <1>5, <1>6, <1>7, <1>8, <1>9, <1>10 DEF Next

\* What the refinement needs holds in every state.
LEMMA BellInvAlways == Spec => []BellInv
<1>1. Init => FlagInv /\ OwedInv
  BY DEF Init, FlagInv, OwedInv
<1>2. TypeInv => TypeOK
  BY DEF TypeInv
<1>3. TypeOK /\ FlagInv /\ OwedInv => BellInv
  BY DEF BellInv
<1> QED
  BY <1>1, <1>2, <1>3, TypeInvInit, TypeInvStep, FlagInvStep, OwedInvStep, PTL DEF Spec

\* The first state is a state of the bell at rest.
LEMMA BellInit == Init => Bell!Init
  BY DEF Init, Bell!Init

\* The page implements WorkBell: between the event, the pause and the thread no
\* wake-up is lost (app.py: QueueController).
THEOREM BellImplemented == Spec => AnswersBell
  BY BellInit, BellInvAlways, BellStep, PTL DEF Spec, AnswersBell

\* What the bell promises follows from its own steps.
LEMMA BellKeepsRings ==
  Bell!NoLostRing /\ [Bell!Next]_(Bell!vars) => Bell!NoLostRing'
  BY DEF Bell!NoLostRing, Bell!Next, Bell!vars, Bell!Ring, Bell!Begin, Bell!Serve,
         Bell!GiveUp, Bell!Rest, Bell!Mute, Bell!Unmute, Bell!Reset

\* So when the thread rests and the event is clear, no waiting job is one it was
\* woken for (app.py: QueueController.wake, _loop).
THEOREM RingsKept == Spec => []Bell!NoLostRing
<1>1. Bell!Init => Bell!NoLostRing
  BY DEF Bell!Init, Bell!NoLostRing
<1> QED
  BY <1>1, BellImplemented, BellKeepsRings, PTL DEF AnswersBell
=============================================================================

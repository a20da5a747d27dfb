-------------------------- MODULE LocalQueueProofs --------------------------
(***************************************************************************)
(* Theorems about LocalQueue for every set of jobs, processes and clients: *)
(* its types; that one process works at a time; and what a write after a   *)
(* check still does to a row that others have written meanwhile.           *)
(***************************************************************************)
EXTENDS LocalQueue, TLAPS

-----------------------------------------------------------------------------
(* Types.                                                                  *)

\* Who is in a job has claimed one.
TypeInv ==
  /\ TypeOK
  /\ \A w \in Workers : pc[w] \in Running => job[w] \in Jobs

\* The row that names no job is nobody's, and no worker is gone or nobody.
LEMMA Nobody == NoJob \notin Jobs /\ NoWorker \notin Workers /\ Gone \notin Workers
  BY LocalQueueAssumption DEF NoJob

\* What a program at work writes next after a check of its job: a failure of an
\* open job, the next stage, or what the resolution decided.
NextWrite(j, r) ==
  \/ /\ r = Write(j, "failed", "keep")
     /\ state[j] \in JobState \ TerminalStates
  \/ /\ r.to \in {"resolving", "downloading", "verifying_master", "converting",
                  "verifying_output"} \union CompletedStates
     /\ r = Write(j, r.to, "keep") /\ r.to \in AllowedTransitions(state[j])
  \/ /\ state[j] = "resolving"
     /\ r \in {Write(j, "ready", "set"), Write(j, "needs_review", "clear"),
               Write(j, "not_found", "clear")}

\* A step of the program inside a job: it moves, records assets and the quality of
\* what it acquired, and prepares one write of its job at most.
Thinks(w) ==
  /\ UNCHANGED <<state, pinned, profile, claim, job, stale, overtaken>>
  /\ \E p \in Running : pc' = [pc EXCEPT ![w] = p]
  /\ \E S \in SUBSET Writes :
       /\ todo' = [todo EXCEPT ![w] = S]
       /\ \A r \in S : NextWrite(job[w], r)
       /\ \A r, s \in S : r = s
  /\ \/ UNCHANGED <<quality, best>>
     \/ /\ pc[w] = "recording" /\ todo[w] = {}
        /\ \E q \in {"best", "limited"} :
             /\ quality' = [quality EXCEPT ![job[w]] = q]
             /\ best' = [best EXCEPT ![w] = q = "best"]
  /\ assets \subseteq assets' /\ assets' \subseteq assets \union {"master", "ableton", "listening"}

\* An exception fails the job if the function it leaves was in the middle of it.
LEMMA RaiseThinks ==
  ASSUME TypeInv, NEW w \in Workers, pc[w] \in Running, Raise(w)
  PROVE  /\ \E p \in Running : pc' = [pc EXCEPT ![w] = p]
         /\ \E S \in SUBSET Writes :
              /\ todo' = [todo EXCEPT ![w] = S]
              /\ \A r \in S : NextWrite(job[w], r)
              /\ \A r, s \in S : r = s
<1> DEFINE S == { r \in {Write(job[w], "failed", "keep")} : state[job[w]] \in OwnStages(pc[w]) }
<1>1. pc' = [pc EXCEPT ![w] = "failing"] /\ todo' = [todo EXCEPT ![w] = S]
  BY DEF Raise, Goto, Prepare
<1>2. job[w] \in Jobs
  BY DEF TypeInv
<1>3. S \in SUBSET Writes
  BY <1>2 DEF Write, Writes, JobState
<1>4. \A r \in S : NextWrite(job[w], r)
  BY DEF NextWrite, OwnStages, JobState, TerminalStates, CompletedStates
<1>5. \A r, s \in S : r = s
  OBVIOUS
<1> QED
  BY <1>1, <1>3, <1>4, <1>5 DEF Running

\* A checked transition prepares its write, or raises.
LEMMA TransitionThinks ==
  ASSUME TypeInv, NEW w \in Workers, pc[w] \in Running,
         NEW new \in {"resolving", "downloading", "verifying_master", "converting",
                      "verifying_output"} \union CompletedStates,
         NEW place \in Running, Transition(w, new, place)
  PROVE  /\ \E p \in Running : pc' = [pc EXCEPT ![w] = p]
         /\ \E S \in SUBSET Writes :
              /\ todo' = [todo EXCEPT ![w] = S]
              /\ \A r \in S : NextWrite(job[w], r)
              /\ \A r, s \in S : r = s
<1>1. CASE new \notin AllowedTransitions(state[job[w]])
  BY <1>1, RaiseThinks DEF Transition
<1>2. CASE new \in AllowedTransitions(state[job[w]])
  <2> DEFINE S == {Write(job[w], new, "keep")}
  <2>1. pc' = [pc EXCEPT ![w] = place] /\ todo' = [todo EXCEPT ![w] = S]
    BY <1>2 DEF Transition, Goto, Prepare
  <2>2. S \in SUBSET Writes
    BY DEF TypeInv, Write, Writes, JobState, CompletedStates
  <2>3. \A r \in S : NextWrite(job[w], r)
    <3>1. Write(job[w], new, "keep").to = new
      BY DEF Write
    <3> QED
      BY <1>2, <3>1 DEF NextWrite
  <2> QED
    BY <2>1, <2>2, <2>3
<1> QED
  BY <1>1, <1>2

\* So does every step of the program in a job: none writes but after a check.
LEMMA JobThinks ==
  ASSUME TypeInv, NEW w \in Workers, ExecuteJob(w) \/ FailJob(w) \/ ToolRaises(w)
  PROVE  Thinks(w) /\ pc[w] \in Running /\ todo[w] = {}
<1>0. pc[w] \in Running /\ todo[w] = {}
  BY DEF ExecuteJob, LoadJob, BeginResolving, PersistDecision, BeginDownloading,
         BeginVerifyingMaster, RecordAcquisition, CloseAcquisition, ChooseDerivative,
         CreateAbleton, CheckAbleton, CloseAbleton, CreateListening, CheckListening,
         CloseListening, CreateDerivative, CheckOutputs, CloseDerivative, FailJob,
         ToolRaises, At, Running, Executing
<1>a. job[w] \in Jobs /\ todo \in [Actors -> SUBSET Writes] /\ pc \in [Workers -> Place]
      /\ w \in Actors /\ profile \in [Jobs -> {"archive", "ableton", "listen", "complete"}]
      /\ assets \subseteq {"master", "ableton", "listening"}
  BY <1>0 DEF TypeInv, TypeOK, Actors
\* A step that prepares no write.
<1>b. ASSUME NEW p \in Running, pc' = [pc EXCEPT ![w] = p], UNCHANGED todo
      PROVE  /\ \E q \in Running : pc' = [pc EXCEPT ![w] = q]
             /\ \E S \in SUBSET Writes :
                  /\ todo' = [todo EXCEPT ![w] = S]
                  /\ \A r \in S : NextWrite(job[w], r)
                  /\ \A r, s \in S : r = s
  <2>1. todo' = [todo EXCEPT ![w] = {}]
    BY <1>0, <1>a, <1>b
  <2> QED
    BY <1>b, <2>1
<1>1. CASE LoadJob(w)
  <2>1. PICK p \in Running : pc' = [pc EXCEPT ![w] = p]
    BY <1>1 DEF LoadJob, Goto, Running, Executing
  <2> QED
    BY <1>0, <1>1, <1>b, <2>1 DEF LoadJob, Thinks, rowVars
<1>2. CASE BeginResolving(w)
  BY <1>0, <1>2, TransitionThinks DEF BeginResolving, Thinks, rowVars, Running, Executing
<1>3. CASE PersistDecision(w)
  <2>1. CASE Raise(w)
    BY <1>0, <1>3, <2>1, RaiseThinks DEF PersistDecision, Thinks, rowVars
  <2>2. CASE /\ state[job[w]] = "resolving"
             /\ \E target \in {"ready", "needs_review", "not_found"} :
                  Prepare(w, {Write(job[w], target, IF target = "ready" THEN "set" ELSE "clear")})
             /\ Goto(w, "rereading")
    <3>1. PICK target \in {"ready", "needs_review", "not_found"} :
            todo' = [todo EXCEPT ![w] =
                       {Write(job[w], target, IF target = "ready" THEN "set" ELSE "clear")}]
      BY <2>2 DEF Prepare
    <3> DEFINE r == Write(job[w], target, IF target = "ready" THEN "set" ELSE "clear")
    <3>2. r \in Writes /\ NextWrite(job[w], r)
      BY <1>a, <2>2 DEF Writes, Write, NextWrite, JobState
    <3>3. pc' = [pc EXCEPT ![w] = "rereading"] /\ "rereading" \in Running
      BY <2>2 DEF Goto, Running, Executing
    <3>4. \E S \in SUBSET Writes : /\ todo' = [todo EXCEPT ![w] = S]
                                   /\ \A x \in S : NextWrite(job[w], x)
                                   /\ \A x, y \in S : x = y
      <4>1. {r} \in SUBSET Writes /\ \A x \in {r} : NextWrite(job[w], x)
        BY <3>2
      <4>2. todo' = [todo EXCEPT ![w] = {r}]
        BY <3>1
      <4> QED
        BY <4>1, <4>2
    <3>5. UNCHANGED <<rowVars, claim, job, best, assets>>
      BY <1>3 DEF PersistDecision, rowVars
    <3> QED
      BY <1>0, <3>3, <3>4, <3>5 DEF Thinks, rowVars
  <2> QED
    BY <1>3, <2>1, <2>2 DEF PersistDecision
<1>4. CASE BeginDownloading(w)
  BY <1>0, <1>4, TransitionThinks DEF BeginDownloading, Thinks, rowVars, Running, Executing
<1>5. CASE BeginVerifyingMaster(w)
  BY <1>0, <1>5, TransitionThinks
     DEF BeginVerifyingMaster, Thinks, rowVars, Running, Executing
<1>6. CASE RecordAcquisition(w)
  <2>1. pc' = [pc EXCEPT ![w] = "closing"] /\ "closing" \in Running /\ UNCHANGED todo
    BY <1>6 DEF RecordAcquisition, Goto, Running, Executing
  <2> QED
    BY <1>0, <1>6, <1>b, <2>1 DEF RecordAcquisition, Thinks, At
<1>7. CASE CloseAcquisition(w)
  <2>1. "releasing" \in Running /\ "deriving" \in Running /\ Outcome(best[w]) \in CompletedStates
    BY DEF Running, Executing, Outcome, CompletedStates
  <2> QED
    BY <1>0, <1>7, <2>1, TransitionThinks DEF CloseAcquisition, Thinks, rowVars
<1>8. CASE ChooseDerivative(w)
  <2>1. PICK p \in Running : pc' = [pc EXCEPT ![w] = p]
    <3>1. FirstDerivative(profile[job[w]]) \in {"ableton", "listening", "failing"}
      BY <1>a DEF FirstDerivative
    <3> QED
      BY <1>8, <3>1 DEF ChooseDerivative, Goto, Running, Executing
  <2> QED
    BY <1>0, <1>8, <1>b, <2>1 DEF ChooseDerivative, Thinks, rowVars
<1>9. ASSUME NEW place \in {"ableton", "listening"}, NEW next \in Running,
             CreateDerivative(w, place, next)
      PROVE  Thinks(w)
  <2>1. CASE Raise(w) /\ UNCHANGED assets
    BY <1>0, <1>9, <2>1, RaiseThinks DEF CreateDerivative, Thinks, rowVars
  <2>2. CASE UNCHANGED todo /\ Goto(w, next) /\ assets' = assets \union {place}
    BY <1>0, <1>9, <1>b, <2>2 DEF CreateDerivative, Thinks, rowVars, Goto
  <2> QED
    BY <1>9, <2>1, <2>2 DEF CreateDerivative
<1>10. ASSUME NEW place, NEW next \in Running, NEW otherwise \in Running,
              CheckOutputs(w, place, next, otherwise)
       PROVE  Thinks(w)
  <2>1. CASE Transition(w, "verifying_output", next)
    BY <1>0, <1>10, <2>1, TransitionThinks DEF CheckOutputs, Thinks, rowVars
  <2>2. CASE UNCHANGED todo /\ Goto(w, otherwise)
    BY <1>0, <1>10, <1>b, <2>2 DEF CheckOutputs, Thinks, rowVars, Goto
  <2> QED
    BY <1>10, <2>1, <2>2 DEF CheckOutputs
<1>11. ASSUME NEW place, NEW next \in Running, CloseDerivative(w, place, next)
       PROVE  Thinks(w)
  <2>1. Outcome(quality[job[w]] = "best") \in CompletedStates
    BY DEF Outcome, CompletedStates
  <2> QED
    BY <1>0, <1>11, <2>1, TransitionThinks DEF CloseDerivative, Thinks, rowVars
<1>12. CASE FailJob(w)
  <2> DEFINE S == { r \in {Write(job[w], "failed", "keep")} :
                      /\ state[job[w]] \notin TerminalStates \union {"failed"}
                      /\ "failed" \in AllowedTransitions(state[job[w]]) }
  <2>1. todo' = [todo EXCEPT ![w] = S] /\ pc' = [pc EXCEPT ![w] = "releasing"]
    BY <1>12 DEF FailJob, Goto, Prepare
  <2>2. S \in SUBSET Writes
    BY <1>a DEF Write, Writes, JobState
  <2>3. \A r \in S : NextWrite(job[w], r)
    BY DEF NextWrite, AllowedTransitions, JobState
  <2>4. \A r, s \in S : r = s
    OBVIOUS
  <2> QED
    BY <1>0, <1>12, <2>1, <2>2, <2>3, <2>4 DEF FailJob, Thinks, rowVars, Running
<1>13. CASE ToolRaises(w)
  BY <1>0, <1>13, RaiseThinks DEF ToolRaises, Thinks, rowVars
<1>c. {"ableton_check", "ableton_close", "between", "listening_check", "listening_close",
       "releasing"} \subseteq Running
  BY DEF Running, Executing
<1>14. CASE CreateAbleton(w)
  BY <1>0, <1>c, <1>9, <1>14 DEF CreateAbleton
<1>15. CASE CreateListening(w)
  BY <1>0, <1>c, <1>9, <1>15 DEF CreateListening
<1>16. CASE CheckAbleton(w)
  BY <1>0, <1>c, <1>10, <1>16 DEF CheckAbleton
<1>17. CASE CheckListening(w)
  BY <1>0, <1>c, <1>10, <1>17 DEF CheckListening
<1>18. CASE CloseAbleton(w)
  BY <1>0, <1>c, <1>11, <1>18 DEF CloseAbleton
<1>19. CASE CloseListening(w)
  BY <1>0, <1>c, <1>11, <1>19 DEF CloseListening
<1> QED
  BY <1>0, <1>1, <1>2, <1>3, <1>4, <1>5, <1>6, <1>7, <1>8, <1>12, <1>13, <1>14, <1>15,
     <1>16, <1>17, <1>18, <1>19
     DEF ExecuteJob

\* A write that fails inside a job is one more exception, or is dropped.
LEMMA WriteFailsThinks ==
  ASSUME TypeInv, NEW w \in Workers, WriteFails(w), pc[w] \in Running
  PROVE  Thinks(w)
<1>1. CASE Raise(w)
  BY <1>1, RaiseThinks DEF WriteFails, Thinks, rowVars
<1>2. CASE Prepare(w, {}) /\ UNCHANGED pc
  <2>1. pc' = [pc EXCEPT ![w] = pc[w]]
    BY <1>2 DEF TypeInv, TypeOK
  <2>2. \E S \in SUBSET Writes : /\ todo' = [todo EXCEPT ![w] = S]
                                 /\ \A r \in S : NextWrite(job[w], r)
                                 /\ \A r, s \in S : r = s
    <3>1. {} \in SUBSET Writes /\ todo' = [todo EXCEPT ![w] = {}]
      BY <1>2 DEF Prepare
    <3> QED
      BY <3>1
  <2> QED
    BY <2>1, <2>2 DEF WriteFails, Thinks, rowVars
<1>3. pc[w] \notin Recovering \union {"polling"}
  BY DEF Running, Executing, Recovering
<1> QED
  BY <1>1, <1>2, <1>3 DEF WriteFails

\* The first state has the types.
LEMMA TypeInvInit == Init => TypeInv
<1> SUFFICES ASSUME Init PROVE TypeInv
  OBVIOUS
<1>1. claim \in [job : Jobs, owner : Workers \union {Gone}] \union {NoClaim}
  BY DEF Init
<1> QED
  BY <1>1 DEF Init, TypeInv, TypeOK, Place, Running, Executing

\* A program's step inside a job keeps the types.
LEMMA ThinksTypes ==
  ASSUME TypeInv, NEW w \in Workers, Thinks(w), pc[w] \in Running
  PROVE  TypeInv'
<1> USE DEF TypeInv, TypeOK
<1>1. PICK p \in Running : pc' = [pc EXCEPT ![w] = p]
  BY DEF Thinks
<1>2. PICK S \in SUBSET Writes : todo' = [todo EXCEPT ![w] = S]
  BY DEF Thinks
<1>3. pc' \in [Workers -> Place] /\ todo' \in [Actors -> SUBSET Writes]
  BY <1>1, <1>2 DEF Place
<1>4. quality' \in [Jobs -> {"unset", "best", "limited"}] /\ best' \in [Workers -> BOOLEAN]
  <2>1. CASE UNCHANGED <<quality, best>>
    BY <2>1
  <2>2. CASE \E q \in {"best", "limited"} : /\ quality' = [quality EXCEPT ![job[w]] = q]
                                            /\ best' = [best EXCEPT ![w] = q = "best"]
    <3>1. PICK q \in {"best", "limited"} : /\ quality' = [quality EXCEPT ![job[w]] = q]
                                           /\ best' = [best EXCEPT ![w] = q = "best"]
      BY <2>2
    <3>2. (q = "best") \in BOOLEAN
      OBVIOUS
    <3> QED
      BY <3>1, <3>2
  <2> QED
    BY <2>1, <2>2 DEF Thinks
<1>5. /\ UNCHANGED <<state, pinned, profile, claim, job, stale, overtaken>>
      /\ assets' \subseteq {"master", "ableton", "listening"}
  BY DEF Thinks
<1>6. \A v \in Workers : pc'[v] \in Running => pc[v] \in Running
  BY <1>1
<1> QED
  BY <1>3, <1>4, <1>5, <1>6

\* A write changes the rows it names and leaves the others.
LEMMA CommitTypes ==
  ASSUME TypeInv, NEW a \in Actors, Commit(a)
  PROVE  TypeInv'
<1> USE DEF TypeInv, TypeOK
<1>1. ASSUME NEW j \in Jobs, NEW r \in todo[a], r.job = j
      PROVE  (CHOOSE x \in todo[a] : x.job = j).to \in JobState
  <2>1. (CHOOSE x \in todo[a] : x.job = j) \in todo[a]
    BY <1>1
  <2> QED
    BY <2>1 DEF Writes
<1>2. state' \in [Jobs -> JobState \union {Absent}]
  BY <1>1 DEF Commit
<1>3. pinned' \in [Jobs -> BOOLEAN]
  BY DEF Commit
<1>4. todo' \in [Actors -> SUBSET Writes]
  BY DEF Commit, Prepare
<1>5. stale' \subseteq Users /\ overtaken' \subseteq Jobs
  BY DEF Commit, Overtaken, Writes
<1> QED
  BY <1>2, <1>3, <1>4, <1>5 DEF Commit

\* What a request writes is a row of a job.
LEMMA RequestTypes ==
  ASSUME TypeInv, NEW u \in Users, NEW j \in Jobs, UserRequest(u, j)
  PROVE  /\ todo[u] = {} /\ UNCHANGED <<rowVars, assets, claim, pc, job, best>>
         /\ \E r \in Writes :
              /\ todo' = [todo EXCEPT ![u] = {r}]
              /\ r.job = j
              /\ \/ /\ r = Write(j, "cancelled", "keep")
                    /\ "cancelled" \in AllowedTransitions(state[j])
                 \/ r = Write(j, RequeueTarget(j), "keep") /\ state[j] \in {"failed", "interrupted"}
                 \/ /\ r \in {Write(j, "ready", "set"), Write(j, "not_found", "clear")}
                    /\ state[j] = "needs_review"
<1> USE DEF Request, Prepare, Write, Writes, JobState
<1>1. CASE CancelJob(u, j)
  BY <1>1 DEF CancelJob
<1>2. CASE RetryJob(u, j)
  <2>1. RequeueTarget(j) \in {"pending", "ready"}
    BY DEF RequeueTarget
  <2> QED
    BY <1>2, <2>1 DEF RetryJob
<1>3. CASE ApproveCandidate(u, j) \/ ReplaceSourceUrl(u, j)
  BY <1>3 DEF ApproveCandidate, ReplaceSourceUrl
<1>4. CASE MarkNotFound(u, j)
  BY <1>4 DEF MarkNotFound
<1> QED
  BY <1>1, <1>2, <1>3, <1>4 DEF UserRequest

\* A step of a worker is one of these.
LEMMA WorkerSteps ==
  ASSUME TypeInv, NEW w \in Workers,
         RecoverStartup(w) \/ RunNext(w) \/ Fault(w) \/ Commit(w)
  PROVE  \/ RecoverStartup(w) \/ ClaimNextQueueJob(w) \/ ReleaseClaim(w)
         \/ ReleaseFails(w) \/ Stop(w) \/ Commit(w)
         \/ /\ ExecuteJob(w) \/ FailJob(w) \/ ToolRaises(w) \/ WriteFails(w)
            /\ Thinks(w) /\ pc[w] \in Running
         \/ WriteFails(w) /\ pc[w] \notin Running
  BY JobThinks, WriteFailsThinks DEF RunNext, Fault

\* Every step keeps the types.
LEMMA TypeInvStep == TypeInv /\ [Next]_vars => TypeInv'
<1> SUFFICES ASSUME TypeInv, [Next]_vars PROVE TypeInv'
  OBVIOUS
<1>1. ASSUME NEW w \in Workers, RecoverStartup(w) \/ RunNext(w) \/ Fault(w) \/ Commit(w)
      PROVE  TypeInv'
  <2> USE Nobody DEF TypeInv, TypeOK, rowVars, Goto, Prepare, Place, Actors
  <2>1. CASE ListClaims(w)
    BY <2>1 DEF ListClaims, Recovering, Running, Executing
  <2>2. CASE InterruptActiveJobs(w)
    <3> DEFINE S == { Write(j, "interrupted", "keep") :
                        j \in { i \in Jobs : state[i] \in ActiveStates } }
    <3>1. S \subseteq Writes
      BY DEF Write, Writes, JobState
    <3>2. todo' \in [Actors -> SUBSET Writes]
      BY <2>2, <3>1 DEF InterruptActiveJobs
    <3> QED
      BY <2>2, <3>2 DEF InterruptActiveJobs, Recovering, Running, Executing
  <2>3. CASE ClearWorkerClaims(w)
    BY <2>3 DEF ClearWorkerClaims, Recovering, Running, Executing
  <2>4. CASE RecoverInterruptedJobs(w)
    <3> DEFINE S == { Write(j, RequeueTarget(j), "keep") :
                        j \in { i \in Jobs : state[i] = "interrupted" } }
    <3>1. S \subseteq Writes
      BY DEF Write, Writes, JobState, RequeueTarget
    <3>2. todo' \in [Actors -> SUBSET Writes]
      BY <2>4, <3>1 DEF RecoverInterruptedJobs
    <3> QED
      BY <2>4, <3>2 DEF RecoverInterruptedJobs, Running, Executing
  <2>5. CASE ClaimNextQueueJob(w)
    BY <2>5 DEF ClaimNextQueueJob, Running, Executing
  <2>6. CASE ReleaseClaim(w)
    BY <2>6 DEF ReleaseClaim, Leave, NoClaim, Running, Executing
  <2>7. CASE ReleaseFails(w)
    BY <2>7 DEF ReleaseFails, Leave, Running, Executing
  <2>8. CASE Stop(w)
    BY <2>8 DEF Stop, Leave, NoClaim, Running, Executing
  <2>9. CASE Commit(w)
    BY <2>9, CommitTypes
  <2>10. CASE Thinks(w) /\ pc[w] \in Running
    BY <2>10, ThinksTypes
  <2>11. CASE WriteFails(w) /\ pc[w] \notin Running
    BY <2>11 DEF WriteFails, Running, Executing
  <2> QED
    BY <1>1, WorkerSteps, <2>1, <2>2, <2>3, <2>4, <2>5, <2>6, <2>7, <2>8, <2>9, <2>10, <2>11
       DEF RecoverStartup
<1>2. ASSUME NEW u \in Users, Commit(u) \/ RequestFails(u)
      PROVE  TypeInv'
  <2>1. CASE Commit(u)
    BY <2>1, CommitTypes DEF Actors
  <2>2. CASE RequestFails(u)
    BY <2>2 DEF RequestFails, Prepare, TypeInv, TypeOK, rowVars
  <2> QED
    BY <1>2, <2>1, <2>2
<1>3. ASSUME NEW j \in Jobs, CreateJob(j)
      PROVE  TypeInv'
  BY <1>3, LocalQueueAssumption DEF CreateJob, TypeInv, TypeOK, JobState
<1>4. ASSUME NEW j \in Jobs, NEW u \in Users, UserRequest(u, j)
      PROVE  TypeInv'
  <2>1. PICK r \in Writes : todo' = [todo EXCEPT ![u] = {r}]
    BY <1>4, RequestTypes
  <2>2. UNCHANGED <<rowVars, assets, claim, pc, job, best>>
    BY <1>4, RequestTypes
  <2> QED
    BY <2>1, <2>2 DEF TypeInv, TypeOK, rowVars
<1>5. CASE UNCHANGED vars
  BY <1>5 DEF TypeInv, TypeOK, vars, rowVars
<1> QED
  BY <1>1, <1>2, <1>3, <1>4, <1>5 DEF Next

\* The types hold, however processes and requests overlap.
THEOREM QueueTypes == Spec => []TypeOK
<1>1. TypeInv => TypeOK
  BY DEF TypeInv
<1> QED
  BY TypeInvInit, TypeInvStep, <1>1, PTL DEF Spec

-----------------------------------------------------------------------------
(* One process at a time.                                                  *)

\* Who is in a job holds the claim; while a process starts, nobody alive does; and
\* a process that is down has nothing left to write.
WorkInv ==
  \A w \in Workers :
    /\ pc[w] \in Running => claim = [job |-> job[w], owner |-> w]
    /\ StartingUp(w) => claim.owner \notin Workers
    /\ pc[w] = "down" => todo[w] = {}

\* The first state satisfies it: every process is down.
LEMMA WorkInvInit == Init => WorkInv
  BY DEF Init, WorkInv, Running, Executing, StartingUp, Recovering, Actors

\* Every step of a worker keeps it, as long as no process starts while another is
\* about to claim.
LEMMA WorkInvWorker ==
  ASSUME ~StartsOverlap, TypeInv, WorkInv, NEW w \in Workers,
         RecoverStartup(w) \/ RunNext(w) \/ Fault(w) \/ Commit(w)
  PROVE  WorkInv'
<1> USE Nobody DEF TypeInv, TypeOK, WorkInv, StartingUp, Goto, Prepare, Actors, At
<1>1. CASE ListClaims(w)
  BY <1>1 DEF ListClaims, Recovering, Running, Executing, rowVars
<1>2. CASE InterruptActiveJobs(w)
  BY <1>2 DEF InterruptActiveJobs, Recovering, Running, Executing
<1>3. CASE ClearWorkerClaims(w)
  <2>1. \A v \in Workers : pc[v] \notin Running
    BY <1>3 DEF ClearWorkerClaims, Recovering
  <2> QED
    BY <1>3, <2>1 DEF ClearWorkerClaims, Recovering, Running, Executing, NoClaim
<1>4. CASE RecoverInterruptedJobs(w)
  BY <1>4 DEF RecoverInterruptedJobs, Recovering, Running, Executing
<1>5. CASE ClaimNextQueueJob(w)
  <2>1. \A v \in Workers : ~StartingUp(v) /\ pc[v] \notin Running
    BY <1>5 DEF ClaimNextQueueJob, StartsInTheWay, NoClaim
  <2>2. PICK j \in Jobs : claim' = [job |-> j, owner |-> w] /\ job' = [job EXCEPT ![w] = j]
    BY <1>5 DEF ClaimNextQueueJob
  <2> QED
    BY <1>5, <2>1, <2>2 DEF ClaimNextQueueJob, Recovering
<1>6. CASE ReleaseClaim(w)
  BY <1>6 DEF ReleaseClaim, Leave, NoClaim, Running, Executing, Recovering
<1>7. CASE ReleaseFails(w)
  BY <1>7 DEF ReleaseFails, Leave, Running, Executing, Recovering
<1>8. CASE Stop(w)
  BY <1>8 DEF Stop, Leave, NoClaim, Running, Executing, Recovering
<1>9. CASE Commit(w)
  BY <1>9 DEF Commit
<1>10. CASE Thinks(w) /\ pc[w] \in Running
  BY <1>10 DEF Thinks, Running, Executing, Recovering
<1>11. CASE WriteFails(w) /\ pc[w] \notin Running
  BY <1>11 DEF WriteFails, Running, Executing, Recovering
<1> QED
  BY WorkerSteps, <1>1, <1>2, <1>3, <1>4, <1>5, <1>6, <1>7, <1>8, <1>9, <1>10, <1>11
     DEF RecoverStartup

\* So does every other step.
LEMMA WorkInvStep ==
  ASSUME ~StartsOverlap
  PROVE  TypeInv /\ WorkInv /\ [Next]_vars => WorkInv'
<1> SUFFICES ASSUME TypeInv, WorkInv, [Next]_vars PROVE WorkInv'
  OBVIOUS
<1>1. ASSUME NEW u \in Users, UNCHANGED <<claim, pc, job>>,
             \E S : todo' = [todo EXCEPT ![u] = S]
      PROVE  WorkInv'
  <2>1. \A w \in Workers : w # u /\ w \in Actors
    BY LocalQueueAssumption DEF Actors
  <2>2. \A w \in Workers : todo'[w] = todo[w]
    BY <1>1, <2>1 DEF TypeInv, TypeOK
  <2> QED
    BY <1>1, <2>2 DEF WorkInv, StartingUp
<1>2. CASE \E w \in Workers : RecoverStartup(w) \/ RunNext(w) \/ Fault(w) \/ Commit(w)
  BY <1>2, WorkInvWorker
<1>3. CASE \E u \in Users : Commit(u) \/ RequestFails(u)
  BY <1>1, <1>3 DEF Commit, RequestFails, Prepare
<1>4. CASE \E j \in Jobs : CreateJob(j)
  BY <1>4 DEF CreateJob, WorkInv, StartingUp
<1>5. CASE \E j \in Jobs : \E u \in Users : UserRequest(u, j)
  BY <1>1, <1>5, RequestTypes
<1>6. CASE UNCHANGED vars
  BY <1>6 DEF vars, WorkInv, StartingUp
<1> QED
  BY <1>2, <1>3, <1>4, <1>5, <1>6 DEF Next

\* A second worker gets into a job only when the first has left it, whatever fails
\* or ends and whatever users ask for meanwhile, unless a process starts while
\* another is about to claim.
THEOREM OneWorkerHolds == ~StartsOverlap => (Spec => []OneWorkerAtATime)
<1> SUFFICES ASSUME ~StartsOverlap PROVE Spec => []OneWorkerAtATime
  OBVIOUS
<1>1. WorkInv => OneWorkerAtATime
  BY DEF WorkInv, OneWorkerAtATime
<1> QED
  BY TypeInvInit, TypeInvStep, WorkInvInit, WorkInvStep, <1>1, PTL DEF Spec

-----------------------------------------------------------------------------
(* What is written after a check.                                          *)

PastResolution == {"ready"} \union CompletedStates \union (ActiveStates \ {"resolving"})
BeforeResolution == {"pending", "resolving", "needs_review", "not_found"}

\* A write that leaves the pin alone and relies on it, and one that changes it.
Relies(r) == r.pin = "keep" /\ r.to \in PastResolution \union BeforeResolution
Repins(r) == r.pin # "keep"

\* The outcome a job may be given: the one its acquisition deserves, all recorded.
Deserved(j, to) ==
  /\ to = "completed" <=> quality[j] = "best"
  /\ {"master"} \union Derivatives(profile[j]) \subseteq assets

\* A write nothing can put in the wrong: of a row there is, with a pin that fits its
\* state and, if it completes the job, with the outcome and assets it deserves.
Lasting(r) ==
  /\ state[r.job] # Absent
  /\ r.pin = "set" => r.to = "ready"
  /\ r.pin = "clear" => r.to \in {"needs_review", "not_found"}
  /\ r.to \in CompletedStates => Deserved(r.job, r.to)

\* A write that relies on the pin is still right about it.
PinRight(r) ==
  r.job \notin overtaken /\ Relies(r) =>
    /\ pinned[r.job] <=> r.to \in PastResolution
    /\ state[r.job] # "needs_review"

\* The write of a request nobody has overtaken: its row is as it was checked, open,
\* in no worker's hands, and in review if the request is a decision about it.
TimelyRequest(r) ==
  /\ state[r.job] \notin ActiveStates \union CompletedStates
  /\ Repins(r) => state[r.job] = "needs_review"
  /\ PinRight(r)

\* A worker's write: of its own job, or of a recovery, which touches no pin.
TimelyWork(w, r) ==
  /\ pc[w] \in Running => r.job = job[w]
  /\ pc[w] \notin Running => r.to \in {"interrupted", "ready", "pending"} /\ r.pin = "keep"
  /\ state[r.job] \notin CompletedStates
  /\ r.job \notin overtaken /\ Repins(r) => state[r.job] = "resolving"
  /\ PinRight(r)

PendingInv ==
  /\ \A a \in Actors : \A r, s \in todo[a] : r.job = s.job => r = s
  /\ \A a \in Actors : \A r \in todo[a] : Lasting(r)
  /\ \A u \in Users : \A r \in todo[u] : r.to \in {"ready", "pending", "cancelled", "not_found"}
  /\ \A u \in Users \ stale : \A r \in todo[u] : TimelyRequest(r)
  /\ \A w \in Workers : \A r \in todo[w] : TimelyWork(w, r)

\* What a worker's place says of its job and of what it has recorded for it.
PlaceInv ==
  \A w \in Workers :
    /\ pc[w] \in Running => state[job[w]] # Absent
    /\ pc[w] = "recording" => /\ state[job[w]] \notin CompletedStates
                              /\ \A r \in todo[w] : r.to \in ActiveStates
    /\ pc[w] = "closing" => "master" \in assets /\ (best[w] <=> quality[job[w]] = "best")
    /\ pc[w] \in {"ableton_check", "ableton_close", "listening_check", "listening_close"}
         => "master" \in assets
    /\ pc[w] \in {"ableton_close", "listening_close"}
         => Derivatives(profile[job[w]]) \subseteq assets

QueueInv ==
  TypeInv /\ WorkInv /\ PinnedPastResolution /\ CompletedAsRecorded /\ PendingInv /\ PlaceInv

\* The first state satisfies it: there is no job and nothing to write.
LEMMA QueueInvInit == Init => QueueInv
<1> SUFFICES ASSUME Init PROVE QueueInv
  OBVIOUS
<1>1. PinnedPastResolution /\ CompletedAsRecorded
  BY DEF Init, PinnedPastResolution, CompletedAsRecorded, Absent, ActiveStates,
         CompletedStates
<1>2. PendingInv
  BY DEF Init, PendingInv, Actors
<1>3. PlaceInv
  BY DEF Init, PlaceInv, Running, Executing
<1> QED
  BY TypeInvInit, WorkInvInit, <1>1, <1>2, <1>3 DEF QueueInv

\* While a worker is in a job, no other is, and no other has anything to write.
LEMMA AloneInJob ==
  ASSUME TypeInv, WorkInv, NEW w \in Workers, pc[w] \in Running,
         NEW v \in Workers, v # w
  PROVE  pc[v] \notin Running /\ todo[v] = {}
<1>1. claim.owner = w
  BY DEF WorkInv
<1>2. pc[v] \notin Running /\ ~StartingUp(v)
  BY <1>1 DEF WorkInv
<1>3. pc[v] \in Place /\ Place = Running \union Recovering \union {"down", "polling"}
  BY DEF TypeInv, TypeOK, Place
<1> QED
  BY <1>2, <1>3 DEF WorkInv, StartingUp

\* A request's step is not a worker's.
LEMMA Strangers ==
  Workers \intersect Users = {} /\ Workers \subseteq Actors /\ Users \subseteq Actors
  BY LocalQueueAssumption DEF Actors

\* The rows after a commit.
LEMMA CommitRows ==
  ASSUME TypeInv, PendingInv, NEW a \in Actors, Commit(a)
  PROVE  /\ \A r \in todo[a] :
              /\ state'[r.job] = r.to
              /\ pinned'[r.job] <=> r.pin = "set" \/ (pinned[r.job] /\ r.pin # "clear")
         /\ \A j \in Jobs : (\A r \in todo[a] : r.job # j) =>
              state'[j] = state[j] /\ pinned'[j] = pinned[j]
         /\ todo' = [todo EXCEPT ![a] = {}]
         /\ \A u \in Users \ stale' : u # a =>
              u \notin stale /\ \A r \in todo[a], s \in todo[u] : r.job # s.job
         /\ overtaken \subseteq overtaken'
         /\ a \in stale => \A r \in todo[a] : r.job \in overtaken'
         /\ UNCHANGED <<profile, quality, assets, claim, pc, job, best>>
<1>1. ASSUME NEW r \in todo[a]
      PROVE  /\ state'[r.job] = r.to
             /\ pinned'[r.job] <=> r.pin = "set" \/ (pinned[r.job] /\ r.pin # "clear")
  <2>1. r.job \in Jobs
    BY DEF TypeInv, TypeOK, Writes
  <2>2. \A s \in todo[a] : s.job = r.job => s = r
    BY DEF PendingInv
  <2>3. (CHOOSE s \in todo[a] : s.job = r.job) = r
    BY <2>2
  <2>4. state'[r.job] = r.to
    BY <2>1, <2>3 DEF Commit
  <2>5. pinned'[r.job] <=> r.pin = "set" \/ (pinned[r.job] /\ r.pin # "clear")
    BY <2>1, <2>2 DEF Commit
  <2> QED
    BY <2>4, <2>5
<1>2. ASSUME NEW j \in Jobs, \A r \in todo[a] : r.job # j
      PROVE  state'[j] = state[j] /\ pinned'[j] = pinned[j]
  BY <1>2 DEF Commit, TypeInv, TypeOK
<1>3. \A u \in Users \ stale' : u # a =>
        u \notin stale /\ \A r \in todo[a], s \in todo[u] : r.job # s.job
  BY DEF Commit, Overtaken
<1>4. /\ overtaken \subseteq overtaken'
      /\ a \in stale => \A r \in todo[a] : r.job \in overtaken'
  BY DEF Commit
<1> QED
  BY <1>1, <1>2, <1>3, <1>4 DEF Commit, Prepare

\* What a job has become: a write's, or as it was.
LEMMA CommitCases ==
  ASSUME TypeInv, PendingInv, NEW a \in Actors, Commit(a), NEW j \in Jobs
  PROVE  \/ \E r \in todo[a] : /\ r.job = j /\ state'[j] = r.to /\ r.to \in JobState
                               /\ r.pin \in {"keep", "set", "clear"}
                               /\ pinned'[j] <=> r.pin = "set" \/ (pinned[j] /\ r.pin # "clear")
         \/ state'[j] = state[j] /\ pinned'[j] = pinned[j] /\ \A r \in todo[a] : r.job # j
<1>1. \A r \in todo[a] : r.to \in JobState /\ r.pin \in {"keep", "set", "clear"}
  BY DEF TypeInv, TypeOK, Writes
<1> QED
  BY <1>1, CommitRows

\* A commit leaves a job as its stage and its assets want it.
LEMMA CommitKeepsRows ==
  ASSUME QueueInv, NEW a \in Actors, Commit(a)
  PROVE  PinnedPastResolution' /\ CompletedAsRecorded'
<1> USE DEF QueueInv
<1>1. \A r \in todo[a] : /\ Lasting(r)
                         /\ a \notin stale => PinRight(r)
  BY DEF PendingInv, Actors, TimelyRequest, TimelyWork
<1>2. UNCHANGED <<profile, quality, assets>>
  BY CommitRows
<1>3. PinnedPastResolution'
  <2> SUFFICES ASSUME NEW j \in Jobs \ overtaken'
               PROVE  /\ state'[j] \in PastResolution => pinned'[j]
                      /\ state'[j] \in BeforeResolution => ~pinned'[j]
    BY DEF PinnedPastResolution, PastResolution, BeforeResolution
  <2>0. j \notin overtaken /\ \A r \in todo[a] : r.job = j => PinRight(r)
    BY <1>1, CommitRows
  <2>1. CASE state'[j] = state[j] /\ pinned'[j] = pinned[j]
    BY <2>0, <2>1 DEF PinnedPastResolution, PastResolution, BeforeResolution
  <2>2. ASSUME NEW r \in todo[a], r.job = j, state'[j] = r.to,
               r.pin \in {"keep", "set", "clear"},
               pinned'[j] <=> r.pin = "set" \/ (pinned[j] /\ r.pin # "clear")
        PROVE  /\ state'[j] \in PastResolution => pinned'[j]
               /\ state'[j] \in BeforeResolution => ~pinned'[j]
    <3>1. PastResolution \intersect BeforeResolution = {} /\ "ready" \in PastResolution
          /\ {"needs_review", "not_found"} \subseteq BeforeResolution
      BY DEF PastResolution, BeforeResolution, CompletedStates, ActiveStates
    <3> QED
      BY <1>1, <2>0, <2>2, <3>1 DEF Lasting, PinRight, Relies
  <2> QED
    BY <2>1, <2>2, CommitCases
<1>4. CompletedAsRecorded'
  <2> SUFFICES ASSUME NEW j \in Jobs, state'[j] \in CompletedStates
               PROVE  Deserved(j, state'[j])
    BY <1>2 DEF CompletedAsRecorded, Deserved
  <2>1. CASE state'[j] = state[j]
    BY <2>1 DEF CompletedAsRecorded, Deserved
  <2>2. CASE \E r \in todo[a] : r.job = j /\ state'[j] = r.to
    BY <1>1, <2>2 DEF Lasting
  <2> QED
    BY <2>1, <2>2, CommitCases
<1> QED
  BY <1>3, <1>4

\* What somebody is about to write outlasts a commit by another.
LEMMA CommitLasts ==
  ASSUME QueueInv, NEW a \in Actors, Commit(a), NEW b \in Actors, NEW r \in todo[b]
  PROVE  Lasting(r)'
<1>1. Lasting(r) /\ r.job \in Jobs
  BY DEF QueueInv, PendingInv, TypeInv, TypeOK, Writes
<1>2. state'[r.job] # Absent
  BY <1>1, CommitCases DEF QueueInv, Lasting, JobState, Absent
<1>3. UNCHANGED <<profile, quality, assets>>
  BY CommitRows DEF QueueInv
<1> QED
  BY <1>1, <1>2, <1>3 DEF Lasting, Deserved

\* A request that is still fresh has not met a commit by another.
LEMMA CommitFresh ==
  ASSUME QueueInv, NEW a \in Actors, Commit(a),
         NEW u \in Users \ stale', u # a, NEW r \in todo[u]
  PROVE  TimelyRequest(r)'
<1>1. TimelyRequest(r) /\ r.job \in Jobs
  BY CommitRows, Strangers DEF QueueInv, PendingInv, TypeInv, TypeOK, Writes
<1>2. \A s \in todo[a] : s.job # r.job
  BY CommitRows DEF QueueInv
<1>3. /\ state'[r.job] = state[r.job] /\ pinned'[r.job] = pinned[r.job]
      /\ r.job \notin overtaken' => r.job \notin overtaken
  BY <1>1, <1>2, CommitRows DEF QueueInv
<1> QED
  BY <1>1, <1>3 DEF TimelyRequest, PinRight, Relies, Repins

\* A commit of a request, fresh or overtaken, keeps what others are about to write
\* timely: a fresh one by what it checked, the other one by its mark on the job.
LEMMA CommitRequest ==
  ASSUME QueueInv, NEW u \in Users, Commit(u)
  PROVE  PendingInv' /\ PlaceInv'
<1> USE Strangers DEF QueueInv
<1>1. /\ UNCHANGED <<profile, quality, assets, claim, pc, job, best>>
      /\ \A a \in Actors : todo'[a] = IF a = u THEN {} ELSE todo[a]
  <2>1. todo' = [todo EXCEPT ![u] = {}] /\ u \in Actors /\ todo \in [Actors -> SUBSET Writes]
    BY CommitRows DEF TypeInv, TypeOK
  <2> QED
    BY <2>1, CommitRows
<1>2. \A r \in todo[u] : /\ r.to \in {"ready", "pending", "cancelled", "not_found"}
                         /\ r \in Writes
                         /\ u \notin stale => TimelyRequest(r)
  BY DEF PendingInv, TypeInv, TypeOK
<1>3. ASSUME NEW j \in Jobs, state[j] \notin CompletedStates
      PROVE  state'[j] \notin CompletedStates
  BY <1>2, <1>3, CommitCases DEF CompletedStates
<1>4. ASSUME NEW w \in Workers, NEW r \in todo[w] PROVE TimelyWork(w, r)'
  <2>1. TimelyWork(w, r) /\ r.job \in Jobs
    BY <1>4 DEF PendingInv, TypeInv, TypeOK, Writes
  <2>2. state'[r.job] \notin CompletedStates
    BY <1>3, <2>1 DEF TimelyWork
  <2>3. ASSUME r.job \notin overtaken'
        PROVE  PinRight(r)' /\ (Repins(r) => state'[r.job] = "resolving")
    <3>1. r.job \notin overtaken
      BY <2>3, CommitRows
    <3>2. CASE state'[r.job] = state[r.job] /\ pinned'[r.job] = pinned[r.job]
      BY <2>1, <3>1, <3>2 DEF TimelyWork, PinRight, Relies
    <3>3. ASSUME NEW s \in todo[u], s.job = r.job, state'[r.job] = s.to,
                 pinned'[r.job] <=> s.pin = "set" \/ (pinned[r.job] /\ s.pin # "clear")
          PROVE  PinRight(r)' /\ (Repins(r) => state'[r.job] = "resolving")
      <4>1. u \notin stale
        BY <2>3, <3>3, CommitRows
      <4>2. TimelyRequest(s) /\ s.to # "needs_review"
        BY <1>2, <4>1
      <4>3. ~Repins(r)
        BY <2>1, <3>1, <3>3, <4>2 DEF TimelyWork, TimelyRequest, ActiveStates
      <4>4. Relies(r) => s.pin = "keep"
        BY <2>1, <3>1, <3>3, <4>2 DEF TimelyWork, PinRight, TimelyRequest, Repins
      <4> QED
        BY <2>1, <3>1, <3>3, <4>2, <4>3, <4>4 DEF TimelyWork, PinRight, Relies
    <3> QED
      BY <2>1, <3>2, <3>3, CommitCases
  <2> QED
    BY <1>1, <2>1, <2>2, <2>3 DEF TimelyWork, PinRight, Repins
<1>5. PendingInv'
  <2>1. \A a \in Actors : \A r, s \in todo'[a] : r.job = s.job => r = s
    BY <1>1 DEF PendingInv
  <2>2. \A a \in Actors : \A r \in todo'[a] : Lasting(r)'
    BY <1>1, CommitLasts
  <2>3. \A v \in Users : \A r \in todo'[v] : r.to \in {"ready", "pending", "cancelled", "not_found"}
    BY <1>1 DEF PendingInv
  <2>4. \A v \in Users \ stale' : \A r \in todo'[v] : TimelyRequest(r)'
    BY <1>1, CommitFresh
  <2>5. \A w \in Workers : \A r \in todo'[w] : TimelyWork(w, r)'
    BY <1>1, <1>4
  <2> QED
    BY <2>1, <2>2, <2>3, <2>4, <2>5 DEF PendingInv
<1>6. PlaceInv'
  <2>1. \A j \in Jobs : state[j] # Absent => state'[j] # Absent
    BY CommitCases DEF JobState, Absent
  <2>2. \A w \in Workers : todo'[w] = todo[w] /\ (pc[w] \in Running => job[w] \in Jobs)
    BY <1>1 DEF TypeInv
  <2>3. "recording" \in Running
    BY DEF Running, Executing
  <2> QED
    BY <1>1, <1>3, <2>1, <2>2, <2>3 DEF PlaceInv
<1> QED
  BY <1>5, <1>6

\* A worker's commit leaves no worker's write behind the times: in a job it is alone,
\* and recoveries only interrupt and requeue.
LEMMA CommitWork ==
  ASSUME QueueInv, NEW w \in Workers, Commit(w)
  PROVE  PendingInv' /\ PlaceInv'
<1> USE Strangers DEF QueueInv
<1>1. /\ UNCHANGED <<profile, quality, assets, claim, pc, job, best>>
      /\ \A a \in Actors : todo'[a] = IF a = w THEN {} ELSE todo[a]
  <2>1. todo' = [todo EXCEPT ![w] = {}] /\ w \in Actors /\ todo \in [Actors -> SUBSET Writes]
    BY CommitRows DEF TypeInv, TypeOK
  <2> QED
    BY <2>1, CommitRows
<1>2. \A r \in todo[w] : TimelyWork(w, r) /\ r \in Writes
  BY DEF PendingInv, TypeInv, TypeOK
<1>3. ASSUME NEW v \in Workers, v # w, NEW r \in todo[v]
      PROVE  /\ pc[w] \notin Running /\ pc[v] \notin Running
             /\ \A x \in Workers : pc[x] \notin Running
  <2>1. pc[w] \notin Running
    BY <1>3, AloneInJob
  <2>2. todo[w] # {} /\ todo[v] # {}
    BY <1>3 DEF Commit
  <2> QED
    BY <2>1, <2>2, AloneInJob
<1>4. ASSUME NEW v \in Workers, v # w, NEW r \in todo[v] PROVE TimelyWork(v, r)'
  <2>1. TimelyWork(v, r) /\ r.job \in Jobs /\ pc[v] \notin Running /\ ~Repins(r)
    BY <1>3, <1>4 DEF PendingInv, TypeInv, TypeOK, Writes, TimelyWork, Repins
  <2>2. r.job \notin overtaken' => r.job \notin overtaken
    BY CommitRows
  <2>3. CASE state'[r.job] = state[r.job] /\ pinned'[r.job] = pinned[r.job]
    BY <1>1, <2>1, <2>2, <2>3 DEF TimelyWork, PinRight, Relies, Repins
  <2>4. ASSUME NEW s \in todo[w], s.job = r.job, state'[r.job] = s.to,
               pinned'[r.job] <=> s.pin = "set" \/ (pinned[r.job] /\ s.pin # "clear")
        PROVE  TimelyWork(v, r)'
    <3>1. s.pin = "keep" /\ s.to \in {"interrupted", "ready", "pending"}
      BY <1>2, <1>3, <1>4 DEF TimelyWork
    <3>2. s.to \notin CompletedStates /\ s.to # "needs_review"
      BY <3>1 DEF CompletedStates
    <3> QED
      BY <1>1, <2>1, <2>2, <2>4, <3>1, <3>2 DEF TimelyWork, PinRight, Relies, Repins
  <2> QED
    BY <2>1, <2>3, <2>4, CommitCases
<1>5. PendingInv'
  <2>1. \A a \in Actors : \A r, s \in todo'[a] : r.job = s.job => r = s
    BY <1>1 DEF PendingInv
  <2>2. \A a \in Actors : \A r \in todo'[a] : Lasting(r)'
    BY <1>1, CommitLasts
  <2>3. \A v \in Users : \A r \in todo'[v] : r.to \in {"ready", "pending", "cancelled", "not_found"}
    BY <1>1 DEF PendingInv
  <2>4. \A v \in Users \ stale' : \A r \in todo'[v] : TimelyRequest(r)'
    BY <1>1, CommitFresh
  <2>5. \A v \in Workers : \A r \in todo'[v] : TimelyWork(v, r)'
    BY <1>1, <1>4
  <2> QED
    BY <2>1, <2>2, <2>3, <2>4, <2>5 DEF PendingInv
<1>6. PlaceInv'
  <2>1. \A j \in Jobs : state[j] # Absent => state'[j] # Absent
    BY CommitCases DEF JobState, Absent
  <2>2. \A v \in Workers : pc[v] \in Running => job[v] \in Jobs
    BY DEF TypeInv
  <2>3. "recording" \in Running
    BY DEF Running, Executing
  <2>4. ASSUME NEW v \in Workers, pc[v] = "recording"
        PROVE  state'[job[v]] \notin CompletedStates /\ \A r \in todo'[v] : r.to \in ActiveStates
    <3>1. v = w
      BY <2>3, <2>4, AloneInJob DEF Commit
    <3>2. state[job[v]] \notin CompletedStates /\ \A r \in todo[v] : r.to \in ActiveStates
      BY <2>4 DEF PlaceInv
    <3>3. job[v] \in Jobs /\ todo'[v] = {} /\ ActiveStates \intersect CompletedStates = {}
      BY <1>1, <2>2, <2>3, <2>4, <3>1 DEF ActiveStates, CompletedStates
    <3> QED
      BY <3>1, <3>2, <3>3, CommitCases
  <2> QED
    BY <1>1, <2>1, <2>2, <2>3, <2>4 DEF PlaceInv
<1> QED
  BY <1>5, <1>6

\* What a function that raises writes, and where the worker goes on.
LEMMA RaiseWrites ==
  ASSUME TypeInv, NEW w \in Workers, Raise(w)
  PROVE  pc'[w] = "failing" /\ \A r \in todo'[w] : r.to = "failed"
<1>1. w \in Actors /\ todo \in [Actors -> SUBSET Writes] /\ pc \in [Workers -> Place]
  BY DEF TypeInv, TypeOK, Actors
<1>2. pc' = [pc EXCEPT ![w] = "failing"]
  BY DEF Raise, Goto
<1>3. todo'[w] \subseteq {Write(job[w], "failed", "keep")}
  BY <1>1 DEF Raise, Prepare
<1> QED
  BY <1>1, <1>2, <1>3 DEF Write

\* A transition goes on with the stage the table allows, or raises.
LEMMA TransitionWrites ==
  ASSUME TypeInv, NEW w \in Workers, NEW new, NEW place, Transition(w, new, place)
  PROVE  \/ pc'[w] = "failing" /\ \A r \in todo'[w] : r.to = "failed"
         \/ /\ pc'[w] = place /\ new \in AllowedTransitions(state[job[w]])
            /\ \A r \in todo'[w] : r.to = new
<1>1. w \in Actors /\ todo \in [Actors -> SUBSET Writes] /\ pc \in [Workers -> Place]
  BY DEF TypeInv, TypeOK, Actors
<1>2. CASE Raise(w)
  BY <1>2, RaiseWrites
<1>3. CASE /\ new \in AllowedTransitions(state[job[w]])
           /\ Prepare(w, {Write(job[w], new, "keep")}) /\ Goto(w, place)
  BY <1>1, <1>3 DEF Prepare, Goto, Write
<1> QED
  BY <1>2, <1>3 DEF Transition

\* The places at which a worker relies on what it has recorded.
RecordedPlaces ==
  {"recording", "closing", "ableton_check", "ableton_close", "listening_check",
   "listening_close"}

\* What a worker's place says of itself, and that it completes its job as it should.
PlaceOf(w) ==
  /\ pc[w] = "recording" => /\ state[job[w]] \notin CompletedStates
                            /\ \A r \in todo[w] : r.to \in ActiveStates
  /\ pc[w] = "closing" => "master" \in assets /\ (best[w] <=> quality[job[w]] = "best")
  /\ pc[w] \in {"ableton_check", "ableton_close", "listening_check", "listening_close"}
       => "master" \in assets
  /\ pc[w] \in {"ableton_close", "listening_close"}
       => Derivatives(profile[job[w]]) \subseteq assets
  /\ \A r \in todo[w] : r.to \in CompletedStates => Deserved(job[w], r.to)

\* Whatever a step in a job does, it comes to such a place with the record it needs.
LEMMA ThinksPlace ==
  ASSUME QueueInv, NEW w \in Workers,
         ExecuteJob(w) \/ FailJob(w) \/ ToolRaises(w) \/ WriteFails(w), pc[w] \in Running
  PROVE  PlaceOf(w)'
<1> USE Strangers DEF QueueInv
<1>1. /\ pc \in [Workers -> Place] /\ todo \in [Actors -> SUBSET Writes] /\ w \in Actors
      /\ job[w] \in Jobs /\ quality \in [Jobs -> {"unset", "best", "limited"}]
      /\ best \in [Workers -> BOOLEAN] /\ assets \subseteq {"master", "ableton", "listening"}
      /\ profile \in [Jobs -> {"archive", "ableton", "listen", "complete"}]
  BY DEF TypeInv, TypeOK
\* Anywhere else nothing is relied on.
<1>2. ASSUME pc'[w] \notin RecordedPlaces, \A r \in todo'[w] : r.to \notin CompletedStates
      PROVE  PlaceOf(w)'
  BY <1>2 DEF PlaceOf, RecordedPlaces
<1>3. CASE Raise(w)
  <2>1. pc'[w] \notin RecordedPlaces /\ \A r \in todo'[w] : r.to \notin CompletedStates
    BY <1>3, RaiseWrites DEF RecordedPlaces, CompletedStates
  <2> QED
    BY <1>2, <2>1
<1>4. ASSUME NEW new, NEW place, Transition(w, new, place), new \notin CompletedStates,
             place \notin RecordedPlaces
      PROVE  PlaceOf(w)'
  <2>1. pc'[w] \notin RecordedPlaces /\ \A r \in todo'[w] : r.to \notin CompletedStates
    BY <1>4, TransitionWrites DEF RecordedPlaces, CompletedStates
  <2> QED
    BY <1>2, <2>1
<1>5. ASSUME NEW place, place \notin RecordedPlaces, Goto(w, place), todo[w] = {}, UNCHANGED todo
      PROVE  PlaceOf(w)'
  <2>1. pc'[w] = place /\ todo'[w] = {}
    BY <1>1, <1>5 DEF Goto
  <2> QED
    BY <1>2, <1>5, <2>1
<1>6. ASSUME NEW new \in CompletedStates, NEW place, place \notin RecordedPlaces,
             Transition(w, new, place), Deserved(job[w], new),
             UNCHANGED <<profile, quality, assets, job>>
      PROVE  PlaceOf(w)'
  <2>1. pc'[w] \notin RecordedPlaces
    BY <1>6, TransitionWrites DEF RecordedPlaces
  <2>2. \A r \in todo'[w] : r.to \in CompletedStates => r.to = new
    BY <1>6, TransitionWrites DEF CompletedStates
  <2>3. Deserved(job[w], new)'
    BY <1>6 DEF Deserved
  <2> QED
    BY <1>6, <2>1, <2>2, <2>3 DEF PlaceOf, RecordedPlaces, Deserved
<1>7. CASE LoadJob(w)
  <2>1. PICK place \in {"resolving", "acquiring", "failing", "deriving", "releasing"} :
          Goto(w, place)
    BY <1>7 DEF LoadJob
  <2> QED
    BY <1>5, <1>7, <2>1 DEF LoadJob, At, RecordedPlaces
<1>8. CASE BeginResolving(w)
  BY <1>4, <1>8 DEF BeginResolving, RecordedPlaces, CompletedStates
<1>9. CASE PersistDecision(w)
  <2>1. CASE Raise(w)
    BY <1>3, <2>1
  <2>2. CASE /\ Goto(w, "rereading")
             /\ \E target \in {"ready", "needs_review", "not_found"} :
                  Prepare(w, {Write(job[w], target, IF target = "ready" THEN "set" ELSE "clear")})
    <3>1. /\ pc'[w] = "rereading"
          /\ \A r \in todo'[w] : r.to \in {"ready", "needs_review", "not_found"}
      BY <1>1, <2>2 DEF Goto, Prepare, Write
    <3>2. pc'[w] \notin RecordedPlaces /\ \A r \in todo'[w] : r.to \notin CompletedStates
      BY <3>1 DEF RecordedPlaces, CompletedStates
    <3> QED
      BY <1>2, <3>2
  <2> QED
    BY <1>9, <2>1, <2>2 DEF PersistDecision
<1>10. CASE BeginDownloading(w)
  BY <1>4, <1>10 DEF BeginDownloading, RecordedPlaces, CompletedStates
<1>11. CASE BeginVerifyingMaster(w)
  <2>1. CASE pc'[w] = "failing" /\ \A r \in todo'[w] : r.to = "failed"
    BY <1>2, <2>1 DEF RecordedPlaces, CompletedStates
  <2>2. CASE /\ pc'[w] = "recording" /\ "verifying_master" \in AllowedTransitions(state[job[w]])
             /\ \A r \in todo'[w] : r.to = "verifying_master"
    <3>1. state[job[w]] \notin CompletedStates
      BY <2>2 DEF AllowedTransitions, CompletedStates
    <3>2. UNCHANGED <<state, job>>
      BY <1>11 DEF BeginVerifyingMaster, rowVars
    <3> QED
      BY <2>2, <3>1, <3>2 DEF PlaceOf, ActiveStates, CompletedStates
  <2> QED
    BY <1>11, <2>1, <2>2, TransitionWrites DEF BeginVerifyingMaster
<1>12. CASE RecordAcquisition(w)
  <2>1. pc'[w] = "closing" /\ todo'[w] = {} /\ "master" \in assets' /\ job'[w] = job[w]
    BY <1>1, <1>12 DEF RecordAcquisition, Goto, At
  <2>2. PICK q \in {"best", "limited"} : /\ quality' = [quality EXCEPT ![job[w]] = q]
                                         /\ best' = [best EXCEPT ![w] = q = "best"]
    BY <1>12 DEF RecordAcquisition
  <2>3. best'[w] <=> quality'[job[w]] = "best"
    BY <1>1, <2>2
  <2> QED
    BY <2>1, <2>3 DEF PlaceOf
<1>13. CASE CloseAcquisition(w)
  <2>1. CASE profile[job[w]] = "archive"
    <3>1. "master" \in assets /\ (best[w] <=> quality[job[w]] = "best")
      BY <1>13 DEF CloseAcquisition, At, PlaceInv
    <3>2. Outcome(best[w]) \in CompletedStates /\ Deserved(job[w], Outcome(best[w]))
      BY <2>1, <3>1 DEF Outcome, CompletedStates, Deserved, Derivatives
    <3> QED
      BY <1>6, <1>13, <2>1, <3>2 DEF CloseAcquisition, RecordedPlaces, rowVars
  <2>2. CASE profile[job[w]] # "archive"
    BY <1>4, <1>13, <2>2 DEF CloseAcquisition, RecordedPlaces, CompletedStates
  <2> QED
    BY <2>1, <2>2
<1>14. CASE ChooseDerivative(w)
  <2>1. FirstDerivative(profile[job[w]]) \in {"ableton", "listening", "failing"}
    BY <1>1 DEF FirstDerivative
  <2>2. PICK place \in {"ableton", "listening", "failing", "releasing"} : Goto(w, place)
    BY <1>14, <2>1 DEF ChooseDerivative
  <2> QED
    BY <1>5, <1>14, <2>2 DEF ChooseDerivative, At, RecordedPlaces
<1>15. ASSUME NEW place, NEW next \in {"ableton_check", "listening_check"},
              CreateDerivative(w, place, next)
       PROVE  PlaceOf(w)'
  <2>1. CASE /\ "master" \in assets /\ assets' = assets \union {place}
             /\ Goto(w, next) /\ UNCHANGED todo
    <3>1. pc'[w] = next /\ todo'[w] = {} /\ "master" \in assets'
      BY <1>1, <1>15, <2>1 DEF CreateDerivative, Goto, At
    <3> QED
      BY <1>15, <3>1 DEF PlaceOf
  <2> QED
    BY <1>3, <1>15, <2>1 DEF CreateDerivative
<1>16. ASSUME NEW place \in {"ableton_check", "listening_check"},
              NEW next \in {"ableton_close", "listening_close"},
              NEW otherwise \in {"between", "releasing"},
              CheckOutputs(w, place, next, otherwise)
       PROVE  PlaceOf(w)'
  <2>1. CASE Goto(w, otherwise) /\ UNCHANGED todo
    BY <1>5, <1>16, <2>1 DEF CheckOutputs, At, RecordedPlaces
  <2>2. CASE /\ Derivatives(profile[job[w]]) \subseteq assets
             /\ Transition(w, "verifying_output", next)
    <3>1. "master" \in assets /\ UNCHANGED <<profile, assets, job>>
      BY <1>16 DEF CheckOutputs, At, PlaceInv, rowVars
    <3>2. CASE pc'[w] = "failing" /\ \A r \in todo'[w] : r.to = "failed"
      BY <1>2, <3>2 DEF RecordedPlaces, CompletedStates
    <3>3. CASE pc'[w] = next /\ \A r \in todo'[w] : r.to = "verifying_output"
      BY <1>16, <2>2, <3>1, <3>3 DEF PlaceOf, CompletedStates
    <3> QED
      BY <2>2, <3>2, <3>3, TransitionWrites
  <2> QED
    BY <1>16, <2>1, <2>2 DEF CheckOutputs
<1>17. ASSUME NEW place \in {"ableton_close", "listening_close"},
              NEW next \in {"between", "releasing"}, CloseDerivative(w, place, next)
       PROVE  PlaceOf(w)'
  <2>1. "master" \in assets /\ Derivatives(profile[job[w]]) \subseteq assets
    BY <1>17 DEF CloseDerivative, At, PlaceInv
  <2>2. /\ Outcome(quality[job[w]] = "best") \in CompletedStates
        /\ Deserved(job[w], Outcome(quality[job[w]] = "best"))
    BY <2>1 DEF Outcome, CompletedStates, Deserved
  <2> QED
    BY <1>6, <1>17, <2>2 DEF CloseDerivative, RecordedPlaces, rowVars
<1>18. CASE FailJob(w)
  <2>1. pc'[w] = "releasing" /\ \A r \in todo'[w] : r.to = "failed"
    BY <1>1, <1>18 DEF FailJob, Goto, Prepare, Write
  <2> QED
    BY <1>2, <2>1 DEF RecordedPlaces, CompletedStates
<1>19. CASE WriteFails(w)
  <2>1. CASE Raise(w)
    BY <1>3, <2>1
  <2>2. CASE (\E r \in todo[w] : r.to = "failed") /\ Prepare(w, {}) /\ UNCHANGED pc
    <3>1. todo'[w] = {} /\ UNCHANGED <<state, pc, job, quality, profile, assets, best>>
      BY <1>1, <1>19, <2>2 DEF Prepare, WriteFails, rowVars
    <3> QED
      BY <3>1 DEF PlaceOf, PlaceInv
  <2> QED
    BY <1>19, <2>1, <2>2 DEF WriteFails, Running, Executing, Recovering
<1>20. CASE ToolRaises(w)
  BY <1>3, <1>20 DEF ToolRaises
<1>21. CASE CreateAbleton(w) \/ CreateListening(w)
  BY <1>15, <1>21 DEF CreateAbleton, CreateListening
<1>22. CASE CheckAbleton(w) \/ CheckListening(w)
  BY <1>16, <1>22 DEF CheckAbleton, CheckListening
<1>23. CASE CloseAbleton(w) \/ CloseListening(w)
  BY <1>17, <1>23 DEF CloseAbleton, CloseListening
<1> QED
  BY <1>7, <1>8, <1>9, <1>10, <1>11, <1>12, <1>13, <1>14, <1>18, <1>19, <1>20, <1>21, <1>22,
         <1>23
     DEF ExecuteJob

\* What an actor is about to write stays right in a step that leaves the rows alone.
LEMMA RowsStay ==
  ASSUME UNCHANGED <<state, pinned, profile, overtaken>>, NEW r
  PROVE  /\ TimelyRequest(r) => TimelyRequest(r)'
         /\ PinRight(r) => PinRight(r)'
         /\ Lasting(r) /\ r.to \notin CompletedStates => Lasting(r)'
         /\ Lasting(r) /\ UNCHANGED <<quality, assets>> => Lasting(r)'
  BY DEF TimelyRequest, PinRight, Relies, Repins, Lasting, Deserved

\* A step inside a job prepares only what is right for its row, and leaves the rows
\* and what the others wrote down alone.
LEMMA ThinksRows ==
  ASSUME QueueInv, NEW w \in Workers,
         ExecuteJob(w) \/ FailJob(w) \/ ToolRaises(w) \/ WriteFails(w),
         Thinks(w), pc[w] \in Running
  PROVE  PinnedPastResolution' /\ CompletedAsRecorded' /\ PendingInv' /\ PlaceInv'
<1> USE Strangers DEF QueueInv
<1>1. /\ job[w] \in Jobs /\ w \in Actors /\ state[job[w]] # Absent
      /\ pc \in [Workers -> Place] /\ todo \in [Actors -> SUBSET Writes]
      /\ quality \in [Jobs -> {"unset", "best", "limited"}]
  BY DEF TypeInv, TypeOK, PlaceInv
<1>2. /\ UNCHANGED <<state, pinned, profile, claim, job, stale, overtaken>>
      /\ assets \subseteq assets'
      /\ pc'[w] \in Running /\ \A v \in Workers : v # w => pc'[v] = pc[v]
      /\ \A a \in Actors : a # w => todo'[a] = todo[a]
      /\ \A r \in todo'[w] : r \in Writes /\ NextWrite(job[w], r)
      /\ \A r, s \in todo'[w] : r = s
  <2>1. PICK p \in Running : pc' = [pc EXCEPT ![w] = p]
    BY DEF Thinks
  <2>2. PICK S \in SUBSET Writes : /\ todo' = [todo EXCEPT ![w] = S]
                                   /\ \A r \in S : NextWrite(job[w], r)
                                   /\ \A r, s \in S : r = s
    BY DEF Thinks
  <2> QED
    BY <1>1, <2>1, <2>2 DEF Thinks
\* Nobody else is in a job or about to write.
<1>3. \A v \in Workers : v # w => pc[v] \notin Running /\ todo[v] = {}
  BY AloneInJob
<1>4. /\ \A v \in Workers : v # w => todo'[v] = {}
      /\ \A u \in Users : todo'[u] = todo[u]
  BY <1>2, <1>3
<1>5. PlaceOf(w)'
  BY ThinksPlace
\* The quality changes while the job is open.
<1>6. \A j \in Jobs : state[j] \in CompletedStates => quality'[j] = quality[j]
  <2>1. CASE UNCHANGED quality
    BY <2>1
  <2>2. CASE pc[w] = "recording" /\ \E q : quality' = [quality EXCEPT ![job[w]] = q]
    <3>1. state[job[w]] \notin CompletedStates
      BY <2>2 DEF PlaceInv
    <3> QED
      BY <1>1, <2>2, <3>1
  <2> QED
    BY <2>1, <2>2 DEF Thinks
<1>7. PinnedPastResolution'
  BY <1>2 DEF PinnedPastResolution
<1>8. CompletedAsRecorded'
  BY <1>2, <1>6 DEF CompletedAsRecorded
<1>9. ASSUME NEW r \in todo'[w] PROVE Lasting(r)' /\ TimelyWork(w, r)'
  <2>1. CASE r = Write(job[w], "failed", "keep") /\ state[job[w]] \in JobState \ TerminalStates
    <3>1. r.job = job[w] /\ r.to = "failed" /\ r.pin = "keep"
      BY <2>1 DEF Write
    <3>2. ~Relies(r) /\ "failed" \notin CompletedStates /\ ~Repins(r)
      BY <3>1
         DEF Relies, Repins, PastResolution, BeforeResolution, CompletedStates, ActiveStates
    <3> QED
      BY <1>1, <1>2, <2>1, <3>1, <3>2
         DEF Lasting, PinRight, TimelyWork, Relies, Repins, TerminalStates
  <2>2. CASE /\ r.to \in {"resolving", "downloading", "verifying_master", "converting",
                           "verifying_output"} \union CompletedStates
             /\ r = Write(job[w], r.to, "keep") /\ r.to \in AllowedTransitions(state[job[w]])
    <3>1. r.job = job[w] /\ r.pin = "keep"
      BY <2>2 DEF Write
    <3>2. /\ state[job[w]] \notin CompletedStates \union {"needs_review"}
          /\ r.to = "resolving" => state[job[w]] \in BeforeResolution
          /\ r.to # "resolving" => state[job[w]] \in PastResolution
      BY <2>2
         DEF AllowedTransitions, CompletedStates, PastResolution, BeforeResolution,
             ActiveStates
    <3>3. r.to = "resolving" <=> r.to \notin PastResolution
      BY <2>2 DEF PastResolution, CompletedStates, ActiveStates
    <3>4. job[w] \notin overtaken => (pinned[job[w]] <=> r.to \in PastResolution)
      BY <1>1, <3>2, <3>3 DEF PinnedPastResolution, PastResolution, BeforeResolution
    <3>5. r.to \in CompletedStates => Deserved(job[w], r.to)'
      BY <1>5 DEF PlaceOf
    <3> QED
      BY <1>1, <1>2, <3>1, <3>2, <3>4, <3>5
         DEF Lasting, PinRight, TimelyWork, Repins, Deserved
  <2>3. CASE /\ state[job[w]] = "resolving"
             /\ r \in {Write(job[w], "ready", "set"), Write(job[w], "needs_review", "clear"),
                      Write(job[w], "not_found", "clear")}
    <3>1. /\ r.job = job[w] /\ r.pin \in {"set", "clear"}
          /\ r.pin = "set" => r.to = "ready"
          /\ r.pin = "clear" => r.to \in {"needs_review", "not_found"}
      BY <2>3 DEF Write
    <3>2. r.to \notin CompletedStates /\ "resolving" \notin CompletedStates \union {Absent}
      BY <3>1 DEF CompletedStates, Absent
    <3> QED
      BY <1>2, <2>3, <3>1, <3>2 DEF Lasting, PinRight, TimelyWork, Relies
  <2> QED
    BY <1>2, <2>1, <2>2, <2>3 DEF NextWrite
<1>10. PendingInv'
  <2>1. \A a \in Actors : \A r, s \in todo'[a] : r.job = s.job => r = s
    BY <1>2, <1>4 DEF PendingInv, Actors
  <2>2. ASSUME NEW u \in Users, NEW r \in todo'[u]
        PROVE  /\ Lasting(r)' /\ r.to \in {"ready", "pending", "cancelled", "not_found"}
               /\ u \notin stale' => TimelyRequest(r)'
    <3>1. /\ Lasting(r) /\ r.to \in {"ready", "pending", "cancelled", "not_found"}
          /\ u \notin stale => TimelyRequest(r)
      BY <1>4, <2>2 DEF PendingInv
    <3>2. r.to \notin CompletedStates
      BY <3>1 DEF CompletedStates
    <3> QED
      BY <1>2, <3>1, <3>2, RowsStay
  <2>3. \A a \in Actors : \A r \in todo'[a] : Lasting(r)'
    BY <1>4, <1>9, <2>2 DEF Actors
  <2>4. \A v \in Workers : \A r \in todo'[v] : TimelyWork(v, r)'
    BY <1>4, <1>9
  <2> QED
    BY <2>1, <2>2, <2>3, <2>4 DEF PendingInv
<1>11. PlaceInv'
  <2>1. {"recording", "closing", "ableton_check", "ableton_close", "listening_check",
         "listening_close"} \subseteq Running
    BY DEF Running, Executing
  <2> QED
    BY <1>1, <1>2, <1>3, <1>5, <2>1 DEF PlaceInv, PlaceOf
<1> QED
  BY <1>7, <1>8, <1>10, <1>11

\* A recovery's step prepares writes of jobs nobody is in.
LEMMA RecoveryRows ==
  ASSUME QueueInv, NEW w \in Workers, RecoverStartup(w)
  PROVE  PinnedPastResolution' /\ CompletedAsRecorded' /\ PendingInv' /\ PlaceInv'
<1> USE Strangers DEF QueueInv
<1>1. /\ pc \in [Workers -> Place] /\ todo \in [Actors -> SUBSET Writes] /\ w \in Actors
      /\ UNCHANGED <<state, pinned, profile, quality, stale, overtaken, assets, job, best>>
  BY DEF TypeInv, TypeOK, RecoverStartup, ListClaims, InterruptActiveJobs,
         ClearWorkerClaims,
         RecoverInterruptedJobs, rowVars
<1>2. PICK p \in {"interrupting", "clearing", "requeueing", "polling"} :
        pc' = [pc EXCEPT ![w] = p]
  BY DEF RecoverStartup, ListClaims, InterruptActiveJobs, ClearWorkerClaims,
         RecoverInterruptedJobs, Goto
<1>3. {"interrupting", "clearing", "requeueing", "polling"} \intersect Running = {}
  BY DEF Running, Executing
<1>4. \A v \in Workers : /\ v # w => pc'[v] = pc[v]
                         /\ v = w => pc'[v] \notin Running /\ pc[v] \notin Running
  BY <1>1, <1>2, <1>3
     DEF RecoverStartup, ListClaims, InterruptActiveJobs, ClearWorkerClaims,
     RecoverInterruptedJobs, At, Running, Executing
<1>5. PinnedPastResolution' /\ CompletedAsRecorded'
  BY <1>1 DEF PinnedPastResolution, CompletedAsRecorded
<1>6. \A a \in Actors : a # w => todo'[a] = todo[a]
  BY <1>1 DEF RecoverStartup, ListClaims, InterruptActiveJobs, ClearWorkerClaims,
     RecoverInterruptedJobs, Prepare
<1>7. PlaceInv'
  <2>1. {"recording", "closing", "ableton_check", "ableton_close", "listening_check",
         "listening_close"} \subseteq Running
    BY DEF Running, Executing
  <2>2. ASSUME NEW v \in Workers, v # w
        PROVE  pc'[v] = pc[v] /\ todo'[v] = todo[v] /\ job'[v] = job[v]
    BY <1>1, <1>4, <1>6, <2>2
  <2> QED
    BY <1>1, <1>4, <2>1, <2>2 DEF PlaceInv
\* What it writes.
<1>8. ASSUME NEW r \in todo'[w]
      PROVE  /\ r \in Writes /\ r.pin = "keep"
             /\ \/ r.to = "interrupted" /\ state[r.job] \in ActiveStates
                \/ r.to = RequeueTarget(r.job) /\ state[r.job] = "interrupted"
             /\ \A s \in todo'[w] : r.job = s.job => r = s
  <2>1. CASE UNCHANGED todo /\ todo[w] = {}
    BY <1>8, <2>1
  <2>2. CASE InterruptActiveJobs(w)
    <3>1. todo'[w] = { Write(j, "interrupted", "keep") :
                         j \in { i \in Jobs : state[i] \in ActiveStates } }
      BY <1>1, <2>2 DEF InterruptActiveJobs, Prepare
    <3> QED
      BY <1>8, <3>1 DEF Write, Writes, JobState
  <2>3. CASE RecoverInterruptedJobs(w)
    <3>1. todo'[w] = { Write(j, RequeueTarget(j), "keep") :
                         j \in { i \in Jobs : state[i] = "interrupted" } }
      BY <1>1, <2>3 DEF RecoverInterruptedJobs, Prepare
    <3>2. \A j \in Jobs : RequeueTarget(j) \in JobState
      BY DEF RequeueTarget, JobState
    <3> QED
      BY <1>8, <3>1, <3>2 DEF Write, Writes
  <2> QED
    BY <2>1, <2>2, <2>3 DEF RecoverStartup, ListClaims, ClearWorkerClaims, At
<1>9. ASSUME NEW r \in todo'[w] PROVE Lasting(r)' /\ TimelyWork(w, r)'
  <2>1. /\ RequeueTarget(r.job) \in {"ready", "pending"}
        /\ pinned[r.job] <=> RequeueTarget(r.job) = "ready"
    BY DEF RequeueTarget
  <2>2. r.to \in {"interrupted", "ready", "pending"} /\ r.pin = "keep"
    BY <1>8, <2>1
  <2>3. state[r.job] \notin CompletedStates \union {Absent, "needs_review"}
    BY <1>8 DEF CompletedStates, ActiveStates, Absent
  <2>4. Relies(r) => (pinned[r.job] <=> r.to \in PastResolution)
    BY <1>8, <2>1
       DEF Relies, PastResolution, BeforeResolution, CompletedStates, ActiveStates
  <2>5. r.to \notin CompletedStates
    BY <2>2 DEF CompletedStates
  <2> QED
    BY <1>1, <1>4, <2>2, <2>3, <2>4, <2>5
       DEF Lasting, PinRight, TimelyWork, Relies, Repins
<1>10. ASSUME NEW v \in Workers, v # w, NEW r \in todo'[v] PROVE TimelyWork(v, r)'
  <2>1. r \in todo[v] /\ TimelyWork(v, r)
    BY <1>6, <1>10 DEF PendingInv
  <2> QED
    BY <1>1, <1>4, <1>10, <2>1 DEF TimelyWork, PinRight, Relies, Repins
<1>11. PendingInv'
  <2>1. \A a \in Actors : \A r, s \in todo'[a] : r.job = s.job => r = s
    BY <1>6, <1>8 DEF PendingInv
  <2>2. \A a \in Actors : \A r \in todo'[a] : Lasting(r)'
    BY <1>1, <1>6, <1>9, RowsStay DEF PendingInv
  <2>3. \A u \in Users : todo'[u] = todo[u]
    BY <1>6
  <2>4. \A u \in Users : \A r \in todo'[u] :
          /\ r.to \in {"ready", "pending", "cancelled", "not_found"}
          /\ u \notin stale' => TimelyRequest(r)'
    BY <1>1, <2>3, RowsStay DEF PendingInv
  <2>5. \A v \in Workers : \A r \in todo'[v] : TimelyWork(v, r)'
    BY <1>9, <1>10
  <2> QED
    BY <2>1, <2>2, <2>4, <2>5 DEF PendingInv
<1> QED
  BY <1>5, <1>7, <1>11

\* So does a step at the edge of a job: a claim, a release, an end.
LEMMA EdgeRows ==
  ASSUME QueueInv, NEW w \in Workers,
         \/ ClaimNextQueueJob(w) \/ ReleaseClaim(w) \/ ReleaseFails(w) \/ Stop(w)
         \/ WriteFails(w) /\ pc[w] \notin Running
  PROVE  PinnedPastResolution' /\ CompletedAsRecorded' /\ PendingInv' /\ PlaceInv'
<1> USE Strangers DEF QueueInv
<1>1. /\ pc \in [Workers -> Place] /\ todo \in [Actors -> SUBSET Writes] /\ w \in Actors
      /\ job \in [Workers -> Jobs \union {NoJob}] /\ best \in [Workers -> BOOLEAN]
      /\ UNCHANGED <<state, pinned, profile, quality, stale, overtaken, assets>>
  BY DEF TypeInv, TypeOK, ClaimNextQueueJob, ReleaseClaim, ReleaseFails, Stop, WriteFails,
         rowVars
<1>2. PICK p \in {"loading", "polling", "down"} : pc' = [pc EXCEPT ![w] = p]
  BY DEF ClaimNextQueueJob, ReleaseClaim, ReleaseFails, Stop, WriteFails, Goto, Leave,
         Running
<1>3. todo'[w] = {} /\ \A a \in Actors : a # w => todo'[a] = todo[a]
  BY <1>1
     DEF ClaimNextQueueJob, ReleaseClaim, ReleaseFails, Stop, WriteFails, Prepare, At,
         Running
<1>4. \A v \in Workers : v # w => pc'[v] = pc[v] /\ job'[v] = job[v] /\ best'[v] = best[v]
  BY <1>1, <1>2 DEF ClaimNextQueueJob, ReleaseClaim, ReleaseFails, Stop, WriteFails, Leave
<1>5. pc'[w] \notin RecordedPlaces
  BY <1>1, <1>2 DEF RecordedPlaces
<1>6. pc'[w] \in Running => state[job'[w]] # Absent
  <2>1. CASE ClaimNextQueueJob(w)
    BY <1>1, <2>1 DEF ClaimNextQueueJob, RunnableStates, Absent
  <2>2. CASE ~ClaimNextQueueJob(w)
    BY <1>1, <2>2
       DEF ReleaseClaim, ReleaseFails, Stop, WriteFails, Leave, Goto, Running, Executing
  <2> QED
    BY <2>1, <2>2
<1>7. PinnedPastResolution' /\ CompletedAsRecorded'
  BY <1>1 DEF PinnedPastResolution, CompletedAsRecorded
<1>8. PlaceInv'
  BY <1>1, <1>3, <1>4, <1>5, <1>6 DEF PlaceInv, RecordedPlaces
<1>9. PendingInv'
  <2>1. \A a \in Actors : \A r \in todo'[a] : a # w /\ r \in todo[a]
    BY <1>3
  <2>2. \A a \in Actors : \A r \in todo'[a] : Lasting(r)'
    BY <1>1, <2>1, RowsStay DEF PendingInv
  <2>3. \A u \in Users : \A r \in todo'[u] :
          /\ r.to \in {"ready", "pending", "cancelled", "not_found"}
          /\ u \notin stale' => TimelyRequest(r)'
    BY <1>1, <2>1, RowsStay DEF PendingInv
  <2>4. \A v \in Workers : \A r \in todo'[v] : TimelyWork(v, r)'
    BY <1>1, <1>4, <2>1 DEF PendingInv, TimelyWork, PinRight, Relies, Repins
  <2>5. \A a \in Actors : \A r, s \in todo'[a] : r.job = s.job => r = s
    BY <2>1 DEF PendingInv
  <2> QED
    BY <2>2, <2>3, <2>4, <2>5 DEF PendingInv
<1> QED
  BY <1>7, <1>8, <1>9

\* A request checks its row, and what others write of that row stays timely.
LEMMA RequestRows ==
  ASSUME QueueInv, NEW u \in Users, NEW j \in Jobs, UserRequest(u, j)
  PROVE  PinnedPastResolution' /\ CompletedAsRecorded' /\ PendingInv' /\ PlaceInv'
<1> USE Strangers DEF QueueInv
<1>1. /\ UNCHANGED <<state, pinned, profile, quality, stale, overtaken>>
      /\ UNCHANGED <<assets, claim, pc, job, best>> /\ todo[u] = {}
  BY RequestTypes DEF rowVars
<1>2. PICK r \in Writes :
        /\ todo' = [todo EXCEPT ![u] = {r}]
        /\ r.job = j
        /\ \/ /\ r = Write(j, "cancelled", "keep")
              /\ "cancelled" \in AllowedTransitions(state[j])
           \/ r = Write(j, RequeueTarget(j), "keep") /\ state[j] \in {"failed", "interrupted"}
           \/ /\ r \in {Write(j, "ready", "set"), Write(j, "not_found", "clear")}
              /\ state[j] = "needs_review"
  BY RequestTypes
<1>3. todo'[u] = {r} /\ \A a \in Actors : a # u => todo'[a] = todo[a]
  BY <1>2 DEF TypeInv, TypeOK
<1>4. /\ Lasting(r) /\ TimelyRequest(r)
      /\ r.to \in {"ready", "pending", "cancelled", "not_found"}
  <2>1. CASE r = Write(j, "cancelled", "keep") /\ "cancelled" \in AllowedTransitions(state[j])
    <3>1. r.job = j /\ r.to = "cancelled" /\ r.pin = "keep"
      BY <2>1 DEF Write
    <3>2. state[j] \notin CompletedStates \union {Absent} \union ActiveStates
      BY <2>1 DEF AllowedTransitions, CompletedStates, ActiveStates, Absent
    <3> QED
      BY <3>1, <3>2
         DEF Lasting, TimelyRequest, PinRight, Relies, Repins, PastResolution,
         BeforeResolution, CompletedStates, ActiveStates
  <2>2. CASE r = Write(j, RequeueTarget(j), "keep") /\ state[j] \in {"failed", "interrupted"}
    <3>1. r.job = j /\ r.to = RequeueTarget(j) /\ r.pin = "keep"
      BY <2>2 DEF Write
    <3>2. r.to \in {"ready", "pending"} /\ (pinned[j] <=> r.to = "ready")
      BY <3>1 DEF RequeueTarget
    <3> QED
      BY <2>2, <3>1, <3>2
         DEF Lasting, TimelyRequest, PinRight, Relies, Repins, PastResolution,
         BeforeResolution, CompletedStates, ActiveStates, Absent
  <2>3. CASE /\ r \in {Write(j, "ready", "set"), Write(j, "not_found", "clear")}
             /\ state[j] = "needs_review"
    BY <2>3
       DEF Write, Lasting, TimelyRequest, PinRight, Relies, Repins, CompletedStates,
           ActiveStates, Absent
  <2> QED
    BY <1>2, <2>1, <2>2, <2>3
<1>7. PinnedPastResolution' /\ CompletedAsRecorded'
  BY <1>1 DEF PinnedPastResolution, CompletedAsRecorded
<1>8. PlaceInv'
  <2>1. \A w \in Workers : todo'[w] = todo[w]
    BY <1>3
  <2> QED
    BY <1>1, <2>1 DEF PlaceInv
<1>9. PendingInv'
  <2>1. \A a \in Actors : \A x \in todo'[a] : Lasting(x)'
    BY <1>1, <1>3, <1>4, RowsStay DEF PendingInv
  <2>2. \A v \in Users : \A x \in todo'[v] :
          /\ x.to \in {"ready", "pending", "cancelled", "not_found"}
          /\ v \notin stale' => TimelyRequest(x)'
    BY <1>1, <1>3, <1>4, RowsStay DEF PendingInv
  <2>3. \A v \in Workers : \A x \in todo'[v] : TimelyWork(v, x)'
    BY <1>1, <1>3 DEF PendingInv, TimelyWork, PinRight, Relies, Repins
  <2>4. \A a \in Actors : \A x, y \in todo'[a] : x.job = y.job => x = y
    BY <1>3 DEF PendingInv
  <2> QED
    BY <2>1, <2>2, <2>3, <2>4 DEF PendingInv
<1> QED
  BY <1>7, <1>8, <1>9

\* A new job meets no write: there was no row to check.
LEMMA CreateRows ==
  ASSUME QueueInv, NEW j \in Jobs, CreateJob(j)
  PROVE  PinnedPastResolution' /\ CompletedAsRecorded' /\ PendingInv' /\ PlaceInv'
<1> USE DEF QueueInv
<1>1. PICK url \in BOOLEAN, p \in Profiles :
        /\ state' = [state EXCEPT ![j] = IF url THEN "ready" ELSE "pending"]
        /\ pinned' = [pinned EXCEPT ![j] = url]
        /\ profile' = [profile EXCEPT ![j] = p]
  BY DEF CreateJob
<1>2. /\ state[j] = Absent
      /\ UNCHANGED <<quality, assets, claim, pc, job, best, todo, stale, overtaken>>
      /\ state'[j] = (IF url THEN "ready" ELSE "pending") /\ pinned'[j] = url
      /\ \A i \in Jobs : i # j =>
           state'[i] = state[i] /\ pinned'[i] = pinned[i] /\ profile'[i] = profile[i]
  BY <1>1 DEF CreateJob, TypeInv, TypeOK
<1>3. PinnedPastResolution'
  BY <1>2 DEF PinnedPastResolution, CompletedStates, ActiveStates
<1>4. CompletedAsRecorded'
  <2>1. state'[j] \notin CompletedStates
    BY <1>2 DEF CompletedStates
  <2> QED
    BY <1>2, <2>1 DEF CompletedAsRecorded
<1>5. \A a \in Actors : \A r \in todo[a] : r.job \in Jobs /\ r.job # j
  BY <1>2 DEF PendingInv, Lasting, TypeInv, TypeOK, Writes
<1>6. PendingInv'
  <2>1. \A a \in Actors : \A r \in todo'[a] : Lasting(r)'
    BY <1>2, <1>5 DEF PendingInv, Lasting, Deserved
  <2>2. \A u \in Users : \A r \in todo'[u] :
          /\ r.to \in {"ready", "pending", "cancelled", "not_found"}
          /\ u \notin stale' => TimelyRequest(r)'
    BY <1>2, <1>5, Strangers DEF PendingInv, TimelyRequest, PinRight, Relies, Repins
  <2>3. \A w \in Workers : \A r \in todo'[w] : TimelyWork(w, r)'
    BY <1>2, <1>5, Strangers DEF PendingInv, TimelyWork, PinRight, Relies, Repins
  <2> QED
    BY <1>2, <2>1, <2>2, <2>3 DEF PendingInv
<1>7. PlaceInv'
  <2>1. RecordedPlaces \subseteq Running
    BY DEF RecordedPlaces, Running, Executing
  <2>2. \A w \in Workers : pc[w] \in Running => job[w] \in Jobs /\ job[w] # j
    BY <1>2 DEF TypeInv, PlaceInv
  <2> QED
    BY <1>2, <2>1, <2>2 DEF PlaceInv, RecordedPlaces
<1> QED
  BY <1>3, <1>4, <1>6, <1>7

\* Every step keeps the invariant, as long as starts do not overlap.
LEMMA QueueInvStep ==
  ASSUME ~StartsOverlap
  PROVE  QueueInv /\ [Next]_vars => QueueInv'
<1> SUFFICES ASSUME QueueInv, [Next]_vars
             PROVE  PinnedPastResolution' /\ CompletedAsRecorded' /\ PendingInv' /\ PlaceInv'
  BY TypeInvStep, WorkInvStep DEF QueueInv
<1>1. ASSUME NEW w \in Workers,
             RecoverStartup(w) \/ RunNext(w) \/ Fault(w) \/ Commit(w)
      PROVE  PinnedPastResolution' /\ CompletedAsRecorded' /\ PendingInv' /\ PlaceInv'
  <2>1. TypeInv
    BY DEF QueueInv
  <2>2. CASE Commit(w)
    BY <2>2, CommitKeepsRows, CommitWork, Strangers
  <2>3. CASE RecoverStartup(w)
    BY <2>3, RecoveryRows
  <2>4. CASE /\ ExecuteJob(w) \/ FailJob(w) \/ ToolRaises(w) \/ WriteFails(w)
             /\ Thinks(w) /\ pc[w] \in Running
    BY <2>4, ThinksRows
  <2>5. CASE \/ ClaimNextQueueJob(w) \/ ReleaseClaim(w) \/ ReleaseFails(w) \/ Stop(w)
             \/ WriteFails(w) /\ pc[w] \notin Running
    BY <2>5, EdgeRows
  <2> QED
    BY <1>1, <2>1, <2>2, <2>3, <2>4, <2>5, WorkerSteps
<1>2. ASSUME NEW u \in Users, Commit(u)
      PROVE  PinnedPastResolution' /\ CompletedAsRecorded' /\ PendingInv' /\ PlaceInv'
  BY <1>2, CommitKeepsRows, CommitRequest, Strangers
<1>3. ASSUME NEW u \in Users, RequestFails(u)
      PROVE  PinnedPastResolution' /\ CompletedAsRecorded' /\ PendingInv' /\ PlaceInv'
  <2>1. /\ UNCHANGED <<state, pinned, profile, quality, overtaken, assets, claim, pc, job, best>>
        /\ stale' = stale \ {u}
    BY <1>3 DEF RequestFails
  <2>2. /\ todo'[u] = {} /\ \A a \in Actors : a # u => todo'[a] = todo[a]
        /\ \A w \in Workers : todo'[w] = todo[w]
    BY <1>3, Strangers DEF RequestFails, Prepare, QueueInv, TypeInv, TypeOK
  <2>3. PinnedPastResolution' /\ CompletedAsRecorded'
    BY <2>1 DEF QueueInv, PinnedPastResolution, CompletedAsRecorded
  <2>4. PlaceInv'
    BY <2>1, <2>2 DEF QueueInv, PlaceInv
  <2>5. \A a \in Actors : \A r \in todo'[a] : Lasting(r)'
    BY <2>1, <2>2, RowsStay DEF QueueInv, PendingInv
  <2>6. \A v \in Users : \A r \in todo'[v] :
          /\ r.to \in {"ready", "pending", "cancelled", "not_found"}
          /\ v \notin stale' => TimelyRequest(r)'
    BY <2>1, <2>2, RowsStay, Strangers DEF QueueInv, PendingInv
  <2>7. \A w \in Workers : \A r \in todo'[w] : TimelyWork(w, r)'
    BY <2>1, <2>2, Strangers DEF QueueInv, PendingInv, TimelyWork, PinRight, Relies, Repins
  <2>8. \A a \in Actors : \A r, s \in todo'[a] : r.job = s.job => r = s
    BY <2>2 DEF QueueInv, PendingInv
  <2>9. PendingInv'
    BY <2>5, <2>6, <2>7, <2>8 DEF PendingInv
  <2> QED
    BY <2>3, <2>4, <2>9
<1>4. ASSUME NEW j \in Jobs, CreateJob(j)
      PROVE  PinnedPastResolution' /\ CompletedAsRecorded' /\ PendingInv' /\ PlaceInv'
  BY <1>4, CreateRows
<1>5. ASSUME NEW j \in Jobs, NEW u \in Users, UserRequest(u, j)
      PROVE  PinnedPastResolution' /\ CompletedAsRecorded' /\ PendingInv' /\ PlaceInv'
  BY <1>5, RequestRows
<1>6. CASE UNCHANGED vars
  BY <1>6 DEF vars, rowVars, QueueInv, PinnedPastResolution, CompletedAsRecorded, PlaceInv,
     PendingInv, Lasting, PinRight, TimelyRequest, TimelyWork, Relies, Repins, Deserved
<1> QED
  BY <1>1, <1>2, <1>3, <1>4, <1>5, <1>6 DEF Next

\* A source is pinned exactly while its job is past resolution, in whatever order the
\* checks and writes of recovery, review, retry and work fall, unless the write of a
\* request that was overtaken since its check reached the job.
THEOREM PinHolds ==
  ~StartsOverlap => (Spec => []PinnedPastResolution)
<1> SUFFICES ASSUME ~StartsOverlap PROVE Spec => []PinnedPastResolution
  OBVIOUS
<1>1. QueueInv => PinnedPastResolution
  BY DEF QueueInv
<1> QED
  BY QueueInvInit, QueueInvStep, <1>1, PTL DEF Spec

\* A completed job has the outcome its acquisition deserves and every asset of its
\* profile recorded, overtaken requests or not.
THEOREM CompletionHolds ==
  ~StartsOverlap => (Spec => []CompletedAsRecorded)
<1> SUFFICES ASSUME ~StartsOverlap PROVE Spec => []CompletedAsRecorded
  OBVIOUS
<1>1. QueueInv => CompletedAsRecorded
  BY DEF QueueInv
<1> QED
  BY QueueInvInit, QueueInvStep, <1>1, PTL DEF Spec

\* The outcome of a finished job is final but for a request that checked it earlier:
\* no worker has a write of it left, a request still fresh is of an open job, and the
\* quality of an acquisition is recorded before its job is finished.
THEOREM OutcomeStays ==
  ~StartsOverlap => (Spec => OutcomeIsFinal)
<1> DEFINE Final(j) == \/ UNCHANGED <<state[j], quality[j]>>
                       \/ \E u \in stale : todo'[u] = {} /\ \E r \in todo[u] : r.job = j
<1> SUFFICES ASSUME ~StartsOverlap PROVE Spec => OutcomeIsFinal
  OBVIOUS
<1>1. QueueInv /\ [Next]_vars =>
        [\A j \in Jobs : state[j] \in CompletedStates => Final(j)]_vars
  <2> SUFFICES ASSUME QueueInv, Next, NEW j \in Jobs, state[j] \in CompletedStates
               PROVE  Final(j)
    OBVIOUS
  <2> USE DEF QueueInv
  <2>1. ASSUME NEW a \in Actors, Commit(a), \A r \in todo[a] : r.job # j
        PROVE  Final(j)
    BY <2>1, CommitRows
  <2>2. ASSUME NEW w \in Workers, RecoverStartup(w) \/ RunNext(w) \/ Fault(w) \/ Commit(w)
        PROVE  Final(j)
    <3>1. CASE UNCHANGED <<state, quality>>
      BY <3>1
    <3>2. CASE Thinks(w) /\ pc[w] = "recording"
      <4>1. state[job[w]] \notin CompletedStates /\ UNCHANGED state
        BY <3>2 DEF PlaceInv, Thinks
      <4> QED
        BY <3>2, <4>1 DEF Thinks, TypeInv, TypeOK
    <3>3. CASE Thinks(w) /\ pc[w] # "recording"
      BY <3>1, <3>3 DEF Thinks
    <3>4. CASE RecoverStartup(w)
      BY <3>4 DEF RecoverStartup, ListClaims, InterruptActiveJobs, ClearWorkerClaims,
         RecoverInterruptedJobs, rowVars
    <3>5. CASE ClaimNextQueueJob(w) \/ ReleaseClaim(w) \/ ReleaseFails(w) \/ Stop(w)
               \/ WriteFails(w)
      BY <3>5 DEF ClaimNextQueueJob, ReleaseClaim, ReleaseFails, Stop, WriteFails, rowVars
    <3>6. CASE Commit(w)
      BY <2>1, <3>6, Strangers DEF PendingInv, TimelyWork
    <3> QED
      BY <2>2, <3>2, <3>3, <3>4, <3>5, <3>6, WorkerSteps
  <2>3. ASSUME NEW u \in Users, Commit(u)
        PROVE  Final(j)
    <3>1. CASE u \in stale /\ \E r \in todo[u] : r.job = j
      <4>1. todo'[u] = {}
        BY <2>3, Strangers DEF Commit, Prepare, TypeInv, TypeOK
      <4> QED
        BY <3>1, <4>1
    <3>2. CASE u \notin stale
      BY <2>1, <2>3, <3>2, Strangers DEF PendingInv, TimelyRequest
    <3>3. CASE ~\E r \in todo[u] : r.job = j
      BY <2>1, <2>3, <3>3, Strangers
    <3> QED
      BY <3>1, <3>2, <3>3
  <2>4. ASSUME NEW i \in Jobs, CreateJob(i)
        PROVE  Final(j)
    <3>1. i # j
      BY <2>4 DEF CreateJob, CompletedStates, Absent
    <3> QED
      BY <2>4, <3>1 DEF CreateJob, TypeInv, TypeOK
  <2>5. ASSUME NEW u \in Users, RequestFails(u) \/ \E i \in Jobs : UserRequest(u, i)
        PROVE  Final(j)
    BY <2>5, RequestTypes DEF RequestFails, rowVars
  <2> QED
    BY <2>2, <2>3, <2>4, <2>5 DEF Next
<1> QED
  BY QueueInvInit, QueueInvStep, <1>1, PTL DEF Spec, OutcomeIsFinal
=============================================================================

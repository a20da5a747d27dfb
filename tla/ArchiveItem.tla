---------------------------- MODULE ArchiveItem ----------------------------
(***************************************************************************)
(* The directory of one archived video: its source master, the manifest    *)
(* (metadata/archive.json), the checksum list (checksums/SHA256SUMS), and  *)
(* for each derivative its output and its conversion log.  Attempts of     *)
(* jobs acquire the item, or reuse it, and add the derivatives they want;  *)
(* the files change one at a time, and a process may stop between any two. *)
(*                                                                         *)
(* setting says where the item lies and who writes to it:                  *)
(*   "worker"   the local archive, under the one queue worker;             *)
(*   "beside"   the local archive, with commands run beside the worker;    *)
(*   "scratch"  the workspace of a cloud job, which prepare() prunes.      *)
(***************************************************************************)
EXTENDS Naturals, FiniteSets

CONSTANTS
  Processes,   \* processes that run attempts
  Roles,       \* kinds of derivatives
  Segmented,   \* those whose output may be a directory of segments
  Bytes,       \* contents a download or a conversion may produce
  Nothing,     \* no such file, no such entry
  MaxFaults    \* bound on raised errors, stops and failed removals

ASSUME ArchiveAssumption ==
  /\ MaxFaults \in Nat
  /\ Segmented \subseteq Roles
  /\ Nothing \notin Bytes \union [Roles -> Bytes \union {Nothing}]

VARIABLES
  setting,
  exists,      \* the item's directory exists
  disk,        \* the content of each file in it
  sums,        \* SHA256SUMS: the content each listed file should have
  pc,
  wants, done, \* each attempt: the derivatives of its job, those it has
  role,        \* the one under way
  made,        \* what it downloaded or converted
  loaded,      \* the manifest and the listed paths it has read
  old,         \* the bytes its handler would restore
  placed,      \* its output is in its final place
  faults

itemVars    == <<exists, disk, sums>>
attemptVars == <<wants, done, role, made, loaded, old, placed>>
vars        == <<setting, itemVars, pc, attemptVars, faults>>

Master    == <<"master", "item">>
Manifest  == <<"manifest", "item">>
Output(r) == <<"output", r>>
Log(r)    == <<"log", r>>
Path      == {Master, Manifest} \union {Output(r) : r \in Roles} \union {Log(r) : r \in Roles}

\* What the manifest records of each derivative.
Record == [Roles -> Bytes \union {Nothing}]
File   == Bytes \union Record \union {Nothing}

NoRole    == "none"
NoFiles   == [f \in Path |-> Nothing]
NoRecords == [r \in Roles |-> Nothing]
Unread    == [manifest |-> Nothing, paths |-> {}]
Unsaved   == [manifest |-> Nothing, sums |-> NoFiles, log |-> Nothing]

Publishing == {"placing", "logging", "recording", "listing", "confirming"}
Undoing    == {"undo_manifest", "undo_sums", "undo_output", "undo_log"}
Place == {"idle", "pruning", "acquiring", "downloading", "checking", "installing",
          "choosing", "verifying", "reading", "examining", "converting", "saving",
          "complete"} \union Publishing \union Undoing

Listed == {f \in Path : sums[f] # Nothing}

\* verify_sha256sums
Valid == Listed # {} /\ \A f \in Listed : disk[f] = sums[f]

TypeOK ==
  /\ setting \in {"worker", "beside", "scratch"}
  /\ exists \in BOOLEAN
  /\ disk \in [Path -> File] /\ sums \in [Path -> File]
  /\ disk[Manifest] \in Record \union {Nothing}
  /\ pc \in [Processes -> Place]
  /\ wants \in [Processes -> SUBSET Roles] /\ done \in [Processes -> SUBSET Roles]
  /\ role \in [Processes -> Roles \union {NoRole}]
  /\ made \in [Processes -> Bytes \union {Nothing}]
  /\ loaded \in [Processes -> [manifest : Record \union {Nothing}, paths : SUBSET Path]]
  /\ old \in [Processes -> [manifest : Record \union {Nothing},
                            sums : [Path -> File], log : Bytes \union {Nothing}]]
  /\ placed \in [Processes -> BOOLEAN]
  /\ faults \in 0..MaxFaults
  /\ \A p \in Processes :
       pc[p] \in {"verifying", "reading", "examining", "converting", "saving"}
                   \union Publishing \union Undoing => role[p] \in Roles
  /\ ~exists => disk = NoFiles /\ sums = NoFiles

Init ==
  /\ setting \in {"worker", "beside", "scratch"}
  /\ exists = FALSE
  /\ disk = NoFiles
  /\ sums = NoFiles
  /\ pc = [p \in Processes |-> "idle"]
  /\ wants = [p \in Processes |-> {}]
  /\ done = [p \in Processes |-> {}]
  /\ role = [p \in Processes |-> NoRole]
  /\ made = [p \in Processes |-> Nothing]
  /\ loaded = [p \in Processes |-> Unread]
  /\ old = [p \in Processes |-> Unsaved]
  /\ placed = [p \in Processes |-> FALSE]
  /\ faults = 0

-----------------------------------------------------------------------------
(* Steps of an attempt.                                                    *)

Goto(p, place) == pc' = [pc EXCEPT ![p] = place]

\* The attempt is over, with or without an error; its memory is gone.
EndAttempt(p) ==
  /\ Goto(p, "idle")
  /\ wants' = [wants EXCEPT ![p] = {}]
  /\ done' = [done EXCEPT ![p] = {}]
  /\ role' = [role EXCEPT ![p] = NoRole]
  /\ made' = [made EXCEPT ![p] = Nothing]
  /\ loaded' = [loaded EXCEPT ![p] = Unread]
  /\ old' = [old EXCEPT ![p] = Unsaved]
  /\ placed' = [placed EXCEPT ![p] = FALSE]

\* The derivative under way is there; on to the next.
NextRole(p) ==
  /\ Goto(p, "choosing")
  /\ done' = [done EXCEPT ![p] = @ \union {role[p]}]
  /\ role' = [role EXCEPT ![p] = NoRole]
  /\ made' = [made EXCEPT ![p] = Nothing]
  /\ loaded' = [loaded EXCEPT ![p] = Unread]
  /\ old' = [old EXCEPT ![p] = Unsaved]
  /\ placed' = [placed EXCEPT ![p] = FALSE]
  /\ UNCHANGED wants

\* Only a command run by hand starts beside another attempt.
StartAttempt(p, wanted) ==
  /\ pc[p] = "idle"
  /\ setting # "beside" => \A q \in Processes : pc[q] = "idle"
  /\ Goto(p, IF setting = "scratch" THEN "pruning" ELSE "acquiring")
  /\ wants' = [wants EXCEPT ![p] = wanted]
  /\ UNCHANGED <<setting, itemVars, done, role, made, loaded, old, placed, faults>>

\* Mutant: an item with a manifest is kept, verified or not.
PruneByManifest(p) ==
  /\ pc[p] = "pruning"
  /\ Goto(p, "acquiring")
  /\ IF disk[Manifest] # Nothing
       THEN UNCHANGED itemVars
       ELSE exists' = FALSE /\ disk' = NoFiles /\ sums' = NoFiles
  /\ UNCHANGED <<setting, attemptVars, faults>>

\* _prune_unverified_items; rmtree ignores errors and may leave some files.
PruneItem(p) ==
  /\ pc[p] = "pruning"
  /\ Goto(p, "acquiring")
  /\ IF ~exists \/ (disk[Manifest] # Nothing /\ Valid)
       THEN UNCHANGED <<itemVars, faults>>
       ELSE \/ /\ exists' = FALSE
               /\ disk' = NoFiles
               /\ sums' = NoFiles
               /\ UNCHANGED faults
            \/ /\ faults < MaxFaults
               /\ faults' = faults + 1
               /\ \E left \in SUBSET Path :
                    disk' = [f \in Path |-> IF f \in left THEN disk[f] ELSE Nothing]
               /\ sums' \in {sums, NoFiles}
               /\ UNCHANGED exists
  /\ UNCHANGED <<setting, attemptVars>>

\* Mutants: an item is reused for having a manifest; a reused item goes straight
\* to a conversion.
ReuseUnverified(p) ==
  /\ pc[p] = "acquiring"
  /\ exists
  /\ IF disk[Manifest] # Nothing
       THEN Goto(p, "choosing") /\ UNCHANGED attemptVars
       ELSE EndAttempt(p)
  /\ UNCHANGED <<setting, itemVars, faults>>
ReuseStraight(p) ==
  /\ pc[p] = "acquiring"
  /\ exists
  /\ Goto(p, "verifying")
  /\ UNCHANGED <<setting, itemVars, attemptVars, faults>>

\* acquire: an item that is there is reused if it verifies, never replaced.
ReuseItem(p) ==
  /\ pc[p] = "acquiring"
  /\ exists
  /\ IF disk[Manifest] # Nothing /\ Valid /\ disk[Master] # Nothing
       THEN Goto(p, "choosing") /\ UNCHANGED attemptVars
       ELSE EndAttempt(p)
  /\ UNCHANGED <<setting, itemVars, faults>>

MissItem(p) ==
  /\ pc[p] = "acquiring"
  /\ ~exists
  /\ Goto(p, "downloading")
  /\ UNCHANGED <<setting, itemVars, attemptVars, faults>>

\* Download, demux and verification, and the whole item built in the job's own
\* temporary directory, where only this attempt looks.
StageItem(p) ==
  /\ pc[p] = "downloading"
  /\ \E b \in Bytes : made' = [made EXCEPT ![p] = b]
  /\ Goto(p, "checking")
  /\ UNCHANGED <<setting, itemVars, wants, done, role, loaded, old, placed, faults>>

CheckAbsent(p) ==
  /\ pc[p] = "checking"
  /\ IF exists THEN EndAttempt(p) ELSE Goto(p, "installing") /\ UNCHANGED attemptVars
  /\ UNCHANGED <<setting, itemVars, faults>>

\* Mutant: a move that replaces what is there.
InstallOver(p) ==
  /\ pc[p] = "installing"
  /\ exists' = TRUE
  /\ disk' = [NoFiles EXCEPT ![Master] = made[p], ![Manifest] = NoRecords]
  /\ sums' = disk'
  /\ Goto(p, "choosing")
  /\ made' = [made EXCEPT ![p] = Nothing]
  /\ UNCHANGED <<setting, wants, done, role, loaded, old, placed, faults>>

\* os.replace of the staging directory, which fails on a directory with files.
InstallItem(p) ==
  /\ pc[p] = "installing"
  /\ \/ /\ exists
        /\ EndAttempt(p)
        /\ UNCHANGED itemVars
     \/ /\ ~exists
        /\ exists' = TRUE
        /\ disk' = [NoFiles EXCEPT ![Master] = made[p], ![Manifest] = NoRecords]
        /\ sums' = disk'
        /\ Goto(p, "choosing")
        /\ made' = [made EXCEPT ![p] = Nothing]
        /\ UNCHANGED <<wants, done, role, loaded, old, placed>>
  /\ UNCHANGED <<setting, faults>>

ChooseDerivative(p) ==
  /\ pc[p] = "choosing"
  /\ \E r \in wants[p] \ done[p] : role' = [role EXCEPT ![p] = r]
  /\ Goto(p, "verifying")
  /\ UNCHANGED <<setting, itemVars, wants, done, made, loaded, old, placed, faults>>

\* create, up to the list of checksums: an item that does not verify is refused.
VerifyItem(p) ==
  /\ pc[p] = "verifying"
  /\ IF Valid
       THEN /\ Goto(p, "reading")
            /\ loaded' = [loaded EXCEPT ![p].paths = Listed]
            /\ UNCHANGED <<wants, done, role, made, old, placed>>
       ELSE EndAttempt(p)
  /\ UNCHANGED <<setting, itemVars, faults>>

ReadManifest(p) ==
  /\ pc[p] = "reading"
  /\ Goto(p, "examining")
  /\ loaded' = [loaded EXCEPT ![p].manifest = disk[Manifest]]
  /\ UNCHANGED <<setting, itemVars, wants, done, role, made, old, placed, faults>>

\* _verify_existing: a recorded derivative is listed, there, and as recorded.
Reusable(p) ==
  /\ Output(role[p]) \in loaded[p].paths
  /\ disk[Output(role[p])] = loaded[p].manifest[role[p]]

\* Mutant: an output that is there is taken for a finished one.
ExamineByName(p) ==
  /\ pc[p] = "examining"
  /\ IF disk[Output(role[p])] # Nothing
       THEN NextRole(p)
       ELSE Goto(p, "converting") /\ UNCHANGED attemptVars
  /\ UNCHANGED <<setting, itemVars, faults>>

\* A recorded derivative is reused or refused; one that is not recorded is made,
\* unless its file is there.
ExamineDerivative(p) ==
  LET recorded == loaded[p].manifest[role[p]] # Nothing IN
  /\ pc[p] = "examining"
  /\ \/ recorded /\ Reusable(p) /\ NextRole(p)
     \/ /\ ~recorded /\ disk[Output(role[p])] = Nothing
        /\ Goto(p, "converting")
        /\ UNCHANGED attemptVars
     \/ /\ IF recorded THEN ~Reusable(p) ELSE disk[Output(role[p])] # Nothing
        /\ EndAttempt(p)
  /\ UNCHANGED <<setting, itemVars, faults>>

\* FFmpeg into the job's temporary directory, FFprobe, and the log.
Convert(p) ==
  /\ pc[p] = "converting"
  /\ \E b \in Bytes : made' = [made EXCEPT ![p] = b]
  /\ Goto(p, "saving")
  /\ UNCHANGED <<setting, itemVars, wants, done, role, loaded, old, placed, faults>>

\* _publish, before its try: what the handler will restore.
SaveOriginals(p) ==
  /\ pc[p] = "saving"
  /\ Goto(p, "placing")
  /\ old' = [old EXCEPT ![p] = [manifest |-> disk[Manifest], sums |-> sums,
                                log |-> disk[Log(role[p])]]]
  /\ UNCHANGED <<setting, itemVars, wants, done, role, made, loaded, placed, faults>>

\* os.replace writes over a file; over a directory of segments it fails.
PlaceOutput(p) ==
  /\ pc[p] = "placing"
  /\ \/ /\ disk' = [disk EXCEPT ![Output(role[p])] = made[p]]
        /\ placed' = [placed EXCEPT ![p] = TRUE]
        /\ Goto(p, "logging")
     \/ /\ role[p] \in Segmented
        /\ disk[Output(role[p])] # Nothing
        /\ Goto(p, "undo_manifest")
        /\ UNCHANGED <<disk, placed>>
  /\ UNCHANGED <<setting, exists, sums, wants, done, role, made, loaded, old, faults>>

PlaceLog(p) ==
  /\ pc[p] = "logging"
  /\ disk' = [disk EXCEPT ![Log(role[p])] = made[p]]
  /\ Goto(p, "recording")
  /\ UNCHANGED <<setting, exists, sums, attemptVars, faults>>

\* write_manifest_atomic: the manifest read earlier, with the new derivative.
WriteManifest(p) ==
  /\ pc[p] = "recording"
  /\ disk' = [disk EXCEPT ![Manifest] = [loaded[p].manifest EXCEPT ![role[p]] = made[p]]]
  /\ Goto(p, "listing")
  /\ UNCHANGED <<setting, exists, sums, attemptVars, faults>>

\* write_sha256sums: the paths read earlier and the new ones; each must exist.
WriteSums(p) ==
  LET paths == loaded[p].paths \union {Output(role[p]), Log(role[p]), Manifest} IN
  /\ pc[p] = "listing"
  /\ \/ /\ \A f \in paths : disk[f] # Nothing
        /\ sums' = [f \in Path |-> IF f \in paths THEN disk[f] ELSE Nothing]
        /\ Goto(p, "confirming")
     \/ /\ \E f \in paths : disk[f] = Nothing
        /\ Goto(p, "undo_manifest")
        /\ UNCHANGED sums
  /\ UNCHANGED <<setting, exists, disk, attemptVars, faults>>

ConfirmPublication(p) ==
  /\ pc[p] = "confirming"
  /\ IF Valid THEN NextRole(p) ELSE Goto(p, "undo_manifest") /\ UNCHANGED attemptVars
  /\ UNCHANGED <<setting, itemVars, faults>>

-----------------------------------------------------------------------------
(* The handler of _publish.                                                *)

UndoManifest(p) ==
  /\ pc[p] = "undo_manifest"
  /\ disk' = [disk EXCEPT ![Manifest] = old[p].manifest]
  /\ Goto(p, "undo_sums")
  /\ UNCHANGED <<setting, exists, sums, attemptVars, faults>>

\* Mutant: the handler leaves the checksum list alone.
UndoNoSums(p) ==
  /\ pc[p] = "undo_sums"
  /\ Goto(p, "undo_output")
  /\ UNCHANGED <<setting, itemVars, attemptVars, faults>>

UndoSums(p) ==
  /\ pc[p] = "undo_sums"
  /\ sums' = old[p].sums
  /\ Goto(p, "undo_output")
  /\ UNCHANGED <<setting, exists, disk, attemptVars, faults>>

\* An output file is unlinked, or the handler raises (Stop).  Segments are removed by
\* an rmtree that ignores errors: all or some may stay, and the handler goes on.
UndoOutput(p) ==
  /\ pc[p] = "undo_output"
  /\ \/ /\ disk' = IF placed[p] THEN [disk EXCEPT ![Output(role[p])] = Nothing] ELSE disk
        /\ UNCHANGED faults
     \/ /\ placed[p] /\ role[p] \in Segmented
        /\ faults < MaxFaults
        /\ faults' = faults + 1
        /\ \E left \in Bytes : disk' = [disk EXCEPT ![Output(role[p])] = left]
  /\ Goto(p, "undo_log")
  /\ UNCHANGED <<setting, exists, sums, attemptVars>>

UndoLog(p) ==
  /\ pc[p] = "undo_log"
  /\ disk' = [disk EXCEPT ![Log(role[p])] = old[p].log]
  /\ EndAttempt(p)
  /\ UNCHANGED <<setting, exists, sums, faults>>

-----------------------------------------------------------------------------
(* The end of an attempt, and failures.                                    *)

FinishDerivatives(p) ==
  /\ pc[p] = "choosing"
  /\ wants[p] \subseteq done[p]
  /\ Goto(p, "complete")
  /\ UNCHANGED <<setting, itemVars, attemptVars, faults>>

\* A cloud job that succeeded discards its workspace; what a failed removal
\* leaves is never used again, so that the next job starts with none.
CompleteJob(p) ==
  /\ pc[p] = "complete"
  /\ IF setting = "scratch"
       THEN exists' = FALSE /\ disk' = NoFiles /\ sums' = NoFiles
       ELSE UNCHANGED itemVars
  /\ EndAttempt(p)
  /\ UNCHANGED <<setting, faults>>

\* A write, copy or move raises inside _publish's try.
PublicationRaises(p) ==
  /\ pc[p] \in Publishing
  /\ faults < MaxFaults
  /\ faults' = faults + 1
  /\ Goto(p, "undo_manifest")
  /\ UNCHANGED <<setting, itemVars, attemptVars>>

\* The process stops, or raises where nothing undoes what was done: before
\* _publish, or inside its handler.
Stop(p) ==
  /\ pc[p] # "idle"
  /\ faults < MaxFaults
  /\ faults' = faults + 1
  /\ EndAttempt(p)
  /\ UNCHANGED <<setting, itemVars>>

CreateDerivative(p) ==
  \/ ChooseDerivative(p)
  \/ VerifyItem(p)
  \/ ReadManifest(p)
  \/ ExamineDerivative(p)
  \/ Convert(p)
  \/ SaveOriginals(p)

Publish(p) ==
  \/ PlaceOutput(p)
  \/ PlaceLog(p)
  \/ WriteManifest(p)
  \/ WriteSums(p)
  \/ ConfirmPublication(p)

UndoPublication(p) ==
  \/ UndoManifest(p)
  \/ UndoSums(p)
  \/ UndoOutput(p)
  \/ UndoLog(p)

Acquire(p) ==
  \/ ReuseItem(p)
  \/ MissItem(p)
  \/ StageItem(p)
  \/ CheckAbsent(p)
  \/ InstallItem(p)

Step(p) ==
  \/ PruneItem(p)
  \/ Acquire(p)
  \/ CreateDerivative(p)
  \/ Publish(p)
  \/ UndoPublication(p)
  \/ FinishDerivatives(p)
  \/ CompleteJob(p)

Next ==
  \E p \in Processes :
    \/ \E wanted \in SUBSET Roles : StartAttempt(p, wanted)
    \/ Step(p)
    \/ PublicationRaises(p)
    \/ Stop(p)

Spec == Init /\ [][Next]_vars

\* A running process goes on; nobody is bound to start an attempt.
FairSpec == Spec /\ \A p \in Processes : WF_vars(Step(p))

-----------------------------------------------------------------------------
(* Properties.                                                             *)

Alone == setting # "beside"

\* With one writer, a derivative an attempt counts as done, made or reused, is
\* in place, as recorded, and as listed, whatever earlier attempts left behind.
DoneIsWhole ==
  Alone =>
    \A p \in Processes : \A r \in done[p] :
      /\ disk[Output(r)] # Nothing
      /\ sums[Output(r)] = disk[Output(r)]
      /\ disk[Manifest][r] = disk[Output(r)]

\* With one writer, a job completes on an item that verifies and records no
\* derivative that is not there.
CompleteIsValid ==
  Alone =>
    \A p \in Processes : pc[p] = "complete" =>
      /\ Valid
      /\ \A r \in Roles : disk[Manifest][r] \in {Nothing, disk[Output(r)]}

\* A publication that fails and undoes itself leaves an item that verifies, without the
\* derivative: the manifest does not record it, the checksum list does not have it, and
\* an output that is a file is gone.  Segments whose removal failed in silence may stay,
\* and then keep every later attempt from making them.
UndoRestores ==
  [][Alone =>
       \A p \in Processes :
         pc[p] = "undo_log" /\ pc'[p] = "idle" /\ faults' = faults
           => /\ Valid'
              /\ disk'[Manifest][role[p]] = Nothing
              /\ Output(role[p]) \notin Listed'
              /\ role[p] \notin Segmented => disk'[Output(role[p])] = Nothing]_vars

\* The source master of the local archive is never written over or removed, not
\* even when a command acquires the same video beside the worker.
MasterKept ==
  [][setting # "scratch" /\ exists => exists' /\ disk'[Master] = disk[Master]]_vars

Attempted == \E p \in Processes : StartAttempt(p, Roles)

\* In a scratch workspace, where an item that does not verify is deleted and
\* acquired again, attempts that keep coming always get a valid item back.
ScratchRecovers ==
  setting = "scratch" /\ []<><<Attempted>>_vars =>
    []<>(exists /\ Valid)

-----------------------------------------------------------------------------
(* What the documents say, and the code does not do.                       *)

\* DEC-010: re-execution starts at the last durable boundary.  An attempt that
\* stops between placing an output and listing it leaves an item no later
\* attempt can finish.
AttemptsFinish ==
  []<><<Attempted>>_vars => <>(\E p \in Processes : pc[p] = "complete" /\ wants[p] = Roles)
=============================================================================

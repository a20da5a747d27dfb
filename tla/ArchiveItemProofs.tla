-------------------------- MODULE ArchiveItemProofs --------------------------
(***************************************************************************)
(* Theorems about ArchiveItem for every set of processes, derivatives and  *)
(* contents and any number of faults: its types; that a source master      *)
(* stays; and, with one writer, what an attempt that counts a derivative   *)
(* as done, completes or undoes itself leaves on the disk.                 *)
(***************************************************************************)
EXTENDS ArchiveItem, TLAPS

-----------------------------------------------------------------------------
(* Types.                                                                  *)

\* Where an attempt has the item, and where it is in the middle of a derivative.
Calm    == {"choosing", "verifying", "reading", "examining", "converting", "saving", "complete"}
Working == Calm \union Publishing \union Undoing

\* One attempt at a time, unless commands are run beside the worker; only a cloud
\* workspace is pruned.  Bytes are where bytes belong; a master that is there, and the
\* manifest of an item in use, are never missing again.
ItemInv ==
  /\ \A f \in Path \ {Manifest} : disk[f] \in Bytes \union {Nothing}
  /\ exists /\ setting # "scratch" => disk[Manifest] # Nothing
  /\ \A p, q \in Processes :
       setting # "beside" /\ pc[p] # "idle" /\ pc[q] # "idle" => p = q
  /\ \A p \in Processes :
       /\ pc[p] = "pruning" => setting = "scratch"
       /\ pc[p] \in Working => exists /\ disk[Manifest] # Nothing
       /\ pc[p] \in {"examining", "converting", "saving"} \union Publishing \union Undoing =>
            loaded[p].manifest # Nothing
       /\ pc[p] \in Publishing \union Undoing => old[p].manifest # Nothing

TypeInv == TypeOK /\ ItemInv


\* The files of an item are different files.
LEMMA Paths ==
  /\ Master \in Path /\ Manifest \in Path /\ Master # Manifest
  /\ \A r \in Roles :
       /\ Output(r) \in Path /\ Log(r) \in Path
       /\ Output(r) \notin {Master, Manifest} /\ Log(r) \notin {Master, Manifest}
  /\ \A r, s \in Roles :
       Output(r) # Log(s) /\ (Output(r) = Output(s) => r = s) /\ (Log(r) = Log(s) => r = s)
  BY DEF Path, Master, Manifest, Output, Log

\* No file is neither bytes nor a manifest.
LEMMA Missing ==
  /\ Nothing \notin Bytes /\ Nothing \notin Record
  /\ Nothing \in File /\ NoRecords \in Record /\ NoFiles \in [Path -> File]
  /\ Bytes \subseteq File /\ Record \subseteq File
  BY ArchiveAssumption DEF File, Record, NoRecords, NoFiles

\* At the start there is no item.
LEMMA InitTypes == Init => TypeInv
<1> SUFFICES ASSUME Init PROVE TypeInv
  OBVIOUS
<1>1. disk[Manifest] = Nothing /\ \A f \in Path : disk[f] = Nothing
  BY Paths DEF Init, NoFiles
<1>2. Unread \in [manifest : Record \union {Nothing}, paths : SUBSET Path]
  BY DEF Unread
<1>3. Unsaved \in [manifest : Record \union {Nothing}, sums : [Path -> File],
                   log : Bytes \union {Nothing}]
  BY Missing DEF Unsaved
<1>4. 0 \in 0..MaxFaults
  BY ArchiveAssumption
<1>5. TypeOK
  BY <1>1, <1>2, <1>3, <1>4, Missing DEF Init, TypeOK, Place, Publishing, Undoing
<1>6. ItemInv
  BY <1>1 DEF Init, ItemInv, Working, Calm, Publishing, Undoing
<1> QED
  BY <1>5, <1>6 DEF TypeInv

\* What a step of an attempt does to its own memory.
MemoryType(p) ==
  /\ pc'[p] \in Place
  /\ wants'[p] \in SUBSET Roles /\ done'[p] \in SUBSET Roles
  /\ role'[p] \in Roles \union {NoRole}
  /\ made'[p] \in Bytes \union {Nothing}
  /\ loaded'[p] \in [manifest : Record \union {Nothing}, paths : SUBSET Path]
  /\ old'[p] \in [manifest : Record \union {Nothing}, sums : [Path -> File],
                  log : Bytes \union {Nothing}]
  /\ placed'[p] \in BOOLEAN
  /\ pc'[p] \in {"verifying", "reading", "examining", "converting", "saving"}
                  \union Publishing \union Undoing => role'[p] \in Roles
  /\ pc'[p] = "pruning" => setting = "scratch"
  /\ pc'[p] \in {"examining", "converting", "saving"} \union Publishing \union Undoing =>
       loaded'[p].manifest # Nothing
  /\ pc'[p] \in Publishing \union Undoing => old'[p].manifest # Nothing

\* A step of one attempt leaves the memory of the others alone.
OnlyMine(p) ==
  /\ MemoryType(p)
  /\ \A q \in Processes \ {p} :
       /\ pc'[q] = pc[q] /\ wants'[q] = wants[q] /\ done'[q] = done[q] /\ role'[q] = role[q]
       /\ made'[q] = made[q] /\ loaded'[q] = loaded[q] /\ old'[q] = old[q]
       /\ placed'[q] = placed[q]
  /\ pc' \in [Processes -> Place]
  /\ wants' \in [Processes -> SUBSET Roles] /\ done' \in [Processes -> SUBSET Roles]
  /\ role' \in [Processes -> Roles \union {NoRole}]
  /\ made' \in [Processes -> Bytes \union {Nothing}]
  /\ loaded' \in [Processes -> [manifest : Record \union {Nothing}, paths : SUBSET Path]]
  /\ old' \in [Processes -> [manifest : Record \union {Nothing},
                             sums : [Path -> File], log : Bytes \union {Nothing}]]
  /\ placed' \in [Processes -> BOOLEAN]

\* And it keeps the item an item.
ItemKept(p) ==
  /\ exists' \in BOOLEAN /\ disk' \in [Path -> File] /\ sums' \in [Path -> File]
  /\ disk'[Manifest] \in Record \union {Nothing}
  /\ \A f \in Path \ {Manifest} : disk'[f] \in Bytes \union {Nothing}
  /\ ~exists' => disk' = NoFiles /\ sums' = NoFiles
  /\ exists' /\ setting # "scratch" => disk'[Manifest] # Nothing
  /\ pc'[p] \in Working => exists' /\ disk'[Manifest] # Nothing
  /\ setting # "scratch" /\ exists => exists' /\ disk'[Master] = disk[Master]

\* Two attempts at once only beside each other: a step of one that keeps the item an
\* item keeps what the others know of it.
LEMMA TypeFrame ==
  ASSUME TypeInv, NEW p \in Processes, OnlyMine(p), ItemKept(p),
         pc[p] = "idle" /\ setting # "beside" => \A q \in Processes : pc[q] = "idle",
         setting' = setting, faults' \in 0..MaxFaults
  PROVE  TypeInv'
<1> USE DEF TypeInv, OnlyMine, MemoryType, ItemKept
<1>1. TypeOK'
  <2>1. \A q \in Processes :
          pc'[q] \in {"verifying", "reading", "examining", "converting", "saving"}
                       \union Publishing \union Undoing => role'[q] \in Roles
    BY DEF TypeOK
  <2> QED
    BY <2>1 DEF TypeOK
<1>2. ASSUME NEW q \in Processes, NEW r \in Processes,
             setting # "beside", pc'[q] # "idle", pc'[r] # "idle"
      PROVE  q = r
  BY <1>2 DEF ItemInv, TypeOK
<1>3. ASSUME NEW q \in Processes
      PROVE  /\ pc'[q] = "pruning" => setting = "scratch"
             /\ pc'[q] \in Working => exists' /\ disk'[Manifest] # Nothing
             /\ pc'[q] \in {"examining", "converting", "saving"} \union Publishing \union Undoing =>
                  loaded'[q].manifest # Nothing
             /\ pc'[q] \in Publishing \union Undoing => old'[q].manifest # Nothing
  <2>1. CASE q = p
    BY <2>1
  <2>2. CASE q # p
    <3>1. pc'[q] = pc[q] /\ loaded'[q] = loaded[q] /\ old'[q] = old[q]
      BY <2>2
    <3>2. pc[q] \in Working => pc[q] # "idle"
      BY DEF Working, Calm, Publishing, Undoing
    <3>3. pc[q] \in Working /\ setting = "scratch" => pc[p] = "idle"
      BY <2>2, <3>2 DEF ItemInv
    <3>4. pc[q] \in Working => setting # "scratch"
      BY <3>2, <3>3
    <3> QED
      BY <3>1, <3>4 DEF ItemInv
  <2> QED
    BY <2>1, <2>2
<1>4. ItemInv'
  BY <1>2, <1>3 DEF ItemInv
<1> QED
  BY <1>1, <1>4

\* The ways a step changes the attempt's memory.
LEMMA EndMine ==
  ASSUME TypeInv, NEW p \in Processes, EndAttempt(p)
  PROVE  OnlyMine(p) /\ pc'[p] = "idle"
<1>1. /\ Unread \in [manifest : Record \union {Nothing}, paths : SUBSET Path]
      /\ Unsaved \in [manifest : Record \union {Nothing}, sums : [Path -> File],
                      log : Bytes \union {Nothing}]
  BY Missing DEF Unread, Unsaved
<1>2. "idle" \in Place \ {"pruning"} /\ "idle" \notin Publishing \union Undoing
  BY DEF Place, Publishing, Undoing
<1> QED
  BY <1>1, <1>2 DEF EndAttempt, Goto, OnlyMine, MemoryType, TypeInv, TypeOK

\* On to the next derivative.
LEMMA NextMine ==
  ASSUME TypeInv, NEW p \in Processes, NextRole(p), role[p] \in Roles
  PROVE  OnlyMine(p) /\ pc'[p] = "choosing"
<1>1. /\ Unread \in [manifest : Record \union {Nothing}, paths : SUBSET Path]
      /\ Unsaved \in [manifest : Record \union {Nothing}, sums : [Path -> File],
                      log : Bytes \union {Nothing}]
  BY Missing DEF Unread, Unsaved
<1>2. "choosing" \in Place \ {"pruning"} /\ "choosing" \notin Publishing \union Undoing
  BY DEF Place, Publishing, Undoing
<1> QED
  BY <1>1, <1>2 DEF NextRole, Goto, OnlyMine, MemoryType, TypeInv, TypeOK

\* On to another place with what it has.
LEMMA GotoMine ==
  ASSUME TypeInv, NEW p \in Processes, NEW place \in Place, Goto(p, place),
         UNCHANGED attemptVars,
         place \in {"verifying", "reading", "examining", "converting", "saving"}
                     \union Publishing \union Undoing => role[p] \in Roles,
         place = "pruning" => setting = "scratch",
         place \in {"examining", "converting", "saving"} \union Publishing \union Undoing =>
           loaded[p].manifest # Nothing,
         place \in Publishing \union Undoing => old[p].manifest # Nothing
  PROVE  OnlyMine(p) /\ pc'[p] = place
  BY DEF Goto, attemptVars, OnlyMine, MemoryType, TypeInv, TypeOK

\* A step that leaves the files alone may go where the item is known.
LEMMA SameItem ==
  ASSUME TypeInv, NEW p \in Processes, UNCHANGED itemVars,
         pc'[p] \in Working => exists /\ disk[Manifest] # Nothing
  PROVE  ItemKept(p)
  BY DEF itemVars, ItemKept, TypeInv, TypeOK, ItemInv

\* A step that writes one file but the master.
LEMMA WriteItem ==
  ASSUME TypeInv, NEW p \in Processes, pc[p] \in Working, UNCHANGED exists,
         NEW f \in Path \ {Master}, NEW x,
         f = Manifest => x \in Record, f # Manifest => x \in Bytes \union {Nothing},
         disk' = [disk EXCEPT ![f] = x], sums' = sums
  PROVE  ItemKept(p)
<1>1. exists /\ disk[Manifest] # Nothing
  BY DEF TypeInv, ItemInv
<1>2. disk' \in [Path -> File]
  BY Missing DEF TypeInv, TypeOK
<1>3. disk'[Manifest] \in Record /\ disk'[Master] = disk[Master]
  BY <1>1, Paths DEF TypeInv, TypeOK
<1>4. \A g \in Path \ {Manifest} : disk'[g] \in Bytes \union {Nothing}
  BY DEF TypeInv, TypeOK, ItemInv
<1> QED
  BY <1>1, <1>2, <1>3, <1>4, Missing DEF ItemKept, TypeInv, TypeOK

\* What every step of p keeps.
Keeps(p) == OnlyMine(p) /\ ItemKept(p) /\ setting' = setting

\* Start, pruning, acquisition, derivative, publication, end: the steps keep types.
LEMMA StartKeeps ==
  ASSUME TypeInv, NEW p \in Processes, NEW wanted \in SUBSET Roles, StartAttempt(p, wanted)
  PROVE  Keeps(p)
<1>1. OnlyMine(p)
  BY DEF StartAttempt, Goto, Place, Publishing, Undoing, OnlyMine, MemoryType, TypeInv, TypeOK
<1>2. pc'[p] \notin Working
  BY DEF StartAttempt, Goto, Working, Calm, Publishing, Undoing, TypeInv, TypeOK
<1> QED
  BY <1>1, <1>2, SameItem DEF StartAttempt, Keeps

\* Only a cloud workspace is pruned, before its attempt has the item.
LEMMA PruneKeeps ==
  ASSUME TypeInv, NEW p \in Processes, PruneItem(p)
  PROVE  Keeps(p)
<1>1. OnlyMine(p) /\ pc'[p] = "acquiring"
  BY GotoMine DEF PruneItem, Place, Publishing, Undoing
<1>2. pc'[p] \notin Working /\ setting = "scratch"
  BY <1>1 DEF PruneItem, Working, Calm, Publishing, Undoing, TypeInv, ItemInv
<1>3. CASE UNCHANGED itemVars
  BY <1>1, <1>2, <1>3, SameItem DEF PruneItem, Keeps
<1>4. CASE exists' = FALSE /\ disk' = NoFiles /\ sums' = NoFiles
  <2>1. disk'[Manifest] = Nothing /\ \A f \in Path : disk'[f] = Nothing
    BY <1>4, Paths DEF NoFiles
  <2> QED
    BY <1>1, <1>2, <1>4, <2>1, Missing DEF PruneItem, Keeps, ItemKept
<1>5. ASSUME NEW left \in SUBSET Path, exists, UNCHANGED exists, sums' \in {sums, NoFiles},
             disk' = [f \in Path |-> IF f \in left THEN disk[f] ELSE Nothing]
      PROVE  Keeps(p)
  <2>1. \A f \in Path : disk'[f] \in {disk[f], Nothing}
    BY <1>5
  <2>2. disk' \in [Path -> File] /\ sums' \in [Path -> File]
    BY <1>5, Missing DEF TypeInv, TypeOK
  <2>3. /\ disk'[Manifest] \in Record \union {Nothing}
        /\ \A f \in Path \ {Manifest} : disk'[f] \in Bytes \union {Nothing}
    BY <2>1, Paths DEF TypeInv, TypeOK, ItemInv
  <2> QED
    BY <1>1, <1>2, <1>5, <2>2, <2>3 DEF PruneItem, Keeps, ItemKept
<1> QED
  BY <1>3, <1>4, <1>5 DEF PruneItem, itemVars

\* An acquisition goes on to a derivative only with an item that has a manifest.
LEMMA AcquireKeeps ==
  ASSUME TypeInv, NEW p \in Processes, Acquire(p)
  PROVE  Keeps(p)
<1> USE DEF Place, Publishing, Undoing, Working, Calm
<1>1. CASE ReuseItem(p)
  <2>1. OnlyMine(p) /\ (pc'[p] = "idle" \/ (pc'[p] = "choosing" /\ disk[Manifest] # Nothing))
    <3>1. CASE EndAttempt(p)
      BY <3>1, EndMine
    <3>2. CASE Goto(p, "choosing") /\ UNCHANGED attemptVars /\ disk[Manifest] # Nothing
      BY <3>2, GotoMine
    <3> QED
      BY <1>1, <3>1, <3>2 DEF ReuseItem
  <2> QED
    BY <1>1, <2>1, SameItem DEF ReuseItem, Keeps
<1>2. CASE MissItem(p)
  <2>1. OnlyMine(p) /\ pc'[p] = "downloading"
    BY <1>2, GotoMine DEF MissItem
  <2> QED
    BY <1>2, <2>1, SameItem DEF MissItem, Keeps
<1>3. CASE StageItem(p)
  <2>1. OnlyMine(p) /\ pc'[p] = "checking"
    BY <1>3 DEF StageItem, Goto, OnlyMine, MemoryType, TypeInv, TypeOK
  <2> QED
    BY <1>3, <2>1, SameItem DEF StageItem, Keeps
<1>4. CASE CheckAbsent(p)
  <2>1. OnlyMine(p) /\ pc'[p] \in {"idle", "installing"}
    BY <1>4, EndMine, GotoMine DEF CheckAbsent
  <2> QED
    BY <1>4, <2>1, SameItem DEF CheckAbsent, Keeps
<1>5. CASE InstallItem(p)
  <2>1. CASE exists /\ EndAttempt(p) /\ UNCHANGED itemVars
    BY <1>5, <2>1, EndMine, SameItem DEF InstallItem, Keeps
  <2>2. CASE ~exists
    <3>1. OnlyMine(p)
      BY <1>5, <2>2, Missing DEF InstallItem, Goto, OnlyMine, MemoryType, TypeInv, TypeOK
    <3>2. /\ disk' = [NoFiles EXCEPT ![Master] = made[p], ![Manifest] = NoRecords]
          /\ sums' = disk' /\ exists' = TRUE /\ setting' = setting
      BY <1>5, <2>2 DEF InstallItem
    <3>3. disk'[Manifest] = NoRecords /\ disk' \in [Path -> File]
      BY <3>2, Paths, Missing DEF TypeInv, TypeOK, NoFiles
    <3>4. \A f \in Path \ {Manifest} : disk'[f] \in Bytes \union {Nothing}
      BY <3>2, Paths DEF TypeInv, TypeOK, NoFiles
    <3> QED
      BY <2>2, <3>1, <3>2, <3>3, <3>4, Missing DEF Keeps, ItemKept
  <2> QED
    BY <1>5, <2>1, <2>2 DEF InstallItem
<1> QED
  BY <1>1, <1>2, <1>3, <1>4, <1>5 DEF Acquire

\* The steps of a derivative up to its publication write no file.
LEMMA CreateKeeps ==
  ASSUME TypeInv, NEW p \in Processes, CreateDerivative(p)
  PROVE  Keeps(p)
<1> USE DEF Place, Publishing, Undoing, Working, Calm
<1>0. pc[p] \in Working /\ exists /\ disk[Manifest] # Nothing /\ disk[Manifest] \in Record
  BY DEF CreateDerivative, ChooseDerivative, VerifyItem, ReadManifest, ExamineDerivative, Convert,
     SaveOriginals, TypeInv, TypeOK, ItemInv
<1>1. CASE ChooseDerivative(p)
  <2>1. OnlyMine(p)
    BY <1>1 DEF ChooseDerivative, Goto, OnlyMine, MemoryType, TypeInv, TypeOK
  <2> QED
    BY <1>0, <1>1, <2>1, SameItem DEF ChooseDerivative, Keeps
<1>2. CASE VerifyItem(p)
  <2>1. CASE EndAttempt(p)
    BY <1>2, <2>1, EndMine, SameItem DEF VerifyItem, Keeps
  <2>2. CASE /\ Goto(p, "reading") /\ loaded' = [loaded EXCEPT ![p].paths = Listed]
             /\ UNCHANGED <<wants, done, role, made, old, placed>>
    <3>1. Listed \subseteq Path
      BY DEF Listed
    <3>2. OnlyMine(p)
      BY <1>2, <2>2, <3>1 DEF VerifyItem, Goto, OnlyMine, MemoryType, TypeInv, TypeOK
    <3> QED
      BY <1>0, <1>2, <3>2, SameItem DEF VerifyItem, Keeps
  <2> QED
    BY <1>2, <2>1, <2>2 DEF VerifyItem
<1>3. CASE ReadManifest(p)
  <2>1. OnlyMine(p)
    BY <1>0, <1>3 DEF ReadManifest, Goto, OnlyMine, MemoryType, TypeInv, TypeOK
  <2> QED
    BY <1>0, <1>3, <2>1, SameItem DEF ReadManifest, Keeps
<1>4. CASE ExamineDerivative(p)
  <2>1. role[p] \in Roles /\ loaded[p].manifest # Nothing
    BY <1>4 DEF ExamineDerivative, TypeInv, TypeOK, ItemInv
  <2>2. OnlyMine(p)
    BY <1>4, <2>1, EndMine, NextMine, GotoMine DEF ExamineDerivative
  <2> QED
    BY <1>0, <1>4, <2>2, SameItem DEF ExamineDerivative, Keeps
<1>5. CASE Convert(p)
  <2>1. OnlyMine(p)
    BY <1>5 DEF Convert, Goto, OnlyMine, MemoryType, TypeInv, TypeOK, ItemInv
  <2> QED
    BY <1>0, <1>5, <2>1, SameItem DEF Convert, Keeps
<1>6. CASE SaveOriginals(p)
  <2>1. role[p] \in Roles
    BY <1>6 DEF SaveOriginals, TypeInv, TypeOK
  <2>2. disk[Log(role[p])] \in Bytes \union {Nothing} /\ sums \in [Path -> File]
    BY <2>1, Paths DEF TypeInv, TypeOK, ItemInv
  <2>3. old' = [old EXCEPT ![p] = [manifest |-> disk[Manifest], sums |-> sums,
                                   log |-> disk[Log(role[p])]]]
    BY <1>6 DEF SaveOriginals
  <2>4. OnlyMine(p)
    BY <1>0, <1>6, <2>1, <2>2, <2>3
    DEF SaveOriginals, Goto, OnlyMine, MemoryType, TypeInv, TypeOK, ItemInv
  <2> QED
    BY <1>0, <1>6, <2>4, SameItem DEF SaveOriginals, Keeps
<1> QED
  BY <1>1, <1>2, <1>3, <1>4, <1>5, <1>6 DEF CreateDerivative

\* A publication, and its undoing, write files of their own derivative.
LEMMA PublishKeeps ==
  ASSUME TypeInv, NEW p \in Processes, Publish(p) \/ UndoPublication(p)
  PROVE  Keeps(p)
<1> USE DEF Place, Publishing, Undoing, Working, Calm
<1>0. /\ pc[p] \in Publishing \union Undoing /\ pc[p] \in Working
      /\ exists /\ disk[Manifest] # Nothing
      /\ role[p] \in Roles /\ loaded[p].manifest \in Record /\ old[p].manifest \in Record
      /\ loaded[p].manifest # Nothing /\ old[p].manifest # Nothing
      /\ made[p] \in Bytes \union {Nothing} /\ old[p].log \in Bytes \union {Nothing}
  <2>1. pc[p] \in Publishing \union Undoing
    BY DEF Publish, UndoPublication, PlaceOutput, PlaceLog, WriteManifest, WriteSums,
       ConfirmPublication, UndoManifest, UndoSums, UndoOutput, UndoLog
  <2> QED
    BY <2>1 DEF TypeInv, TypeOK, ItemInv
<1>1. CASE PlaceOutput(p)
  <2>1. OnlyMine(p) /\ setting' = setting
    BY <1>0, <1>1 DEF PlaceOutput, Goto, OnlyMine, MemoryType, TypeInv, TypeOK
  <2>2. CASE disk' = [disk EXCEPT ![Output(role[p])] = made[p]]
    BY <1>0, <1>1, <2>1, <2>2, WriteItem, Paths DEF PlaceOutput, Keeps
  <2>3. CASE disk' = disk
    BY <1>0, <1>1, <2>1, <2>3, SameItem DEF PlaceOutput, Keeps, itemVars
  <2> QED
    BY <1>1, <2>2, <2>3 DEF PlaceOutput
<1>2. CASE PlaceLog(p)
  BY <1>0, <1>2, GotoMine, WriteItem, Paths DEF PlaceLog, Keeps
<1>3. CASE WriteManifest(p)
  <2>1. [loaded[p].manifest EXCEPT ![role[p]] = made[p]] \in Record
    BY <1>0 DEF Record
  <2> QED
    BY <1>0, <1>3, <2>1, GotoMine, WriteItem, Paths DEF WriteManifest, Keeps
<1>4. CASE WriteSums(p)
  <2>1. OnlyMine(p)
    BY <1>0, <1>4, GotoMine DEF WriteSums
  <2>2. sums' \in [Path -> File]
    BY <1>4, Missing DEF WriteSums, TypeInv, TypeOK
  <2> QED
    BY <1>0, <1>4, <2>1, <2>2 DEF WriteSums, Keeps, ItemKept, TypeInv, TypeOK, ItemInv
<1>5. CASE ConfirmPublication(p)
  <2>1. OnlyMine(p)
    BY <1>0, <1>5, NextMine, GotoMine DEF ConfirmPublication
  <2> QED
    BY <1>0, <1>5, <2>1, SameItem DEF ConfirmPublication, Keeps
<1>6. CASE UndoManifest(p)
  BY <1>0, <1>6, GotoMine, WriteItem, Paths DEF UndoManifest, Keeps
<1>7. CASE UndoSums(p)
  <2>1. OnlyMine(p)
    BY <1>0, <1>7, GotoMine DEF UndoSums
  <2>2. sums' \in [Path -> File]
    BY <1>7 DEF UndoSums, TypeInv, TypeOK
  <2> QED
    BY <1>0, <1>7, <2>1, <2>2 DEF UndoSums, Keeps, ItemKept, TypeInv, TypeOK, ItemInv
<1>8. CASE UndoOutput(p)
  <2>1. OnlyMine(p)
    BY <1>0, <1>8, GotoMine DEF UndoOutput
  <2>2. ASSUME NEW left \in Bytes \union {Nothing},
               disk' = [disk EXCEPT ![Output(role[p])] = left]
        PROVE  Keeps(p)
    BY <1>0, <1>8, <2>1, <2>2, WriteItem, Paths DEF UndoOutput, Keeps
  <2>3. CASE disk' = disk
    BY <1>0, <1>8, <2>1, <2>3, SameItem DEF UndoOutput, Keeps, itemVars
  <2> QED
    BY <1>8, <2>2, <2>3 DEF UndoOutput
<1>9. CASE UndoLog(p)
  BY <1>0, <1>9, EndMine, WriteItem, Paths DEF UndoLog, Keeps
<1> QED
  BY <1>1, <1>2, <1>3, <1>4, <1>5, <1>6, <1>7, <1>8, <1>9 DEF Publish, UndoPublication

\* The end of an attempt removes a workspace and nothing else.
LEMMA EndKeeps ==
  ASSUME TypeInv, NEW p \in Processes,
         FinishDerivatives(p) \/ CompleteJob(p) \/ PublicationRaises(p) \/ Stop(p)
  PROVE  Keeps(p)
<1> USE DEF Place, Publishing, Undoing, Working, Calm
<1>1. CASE FinishDerivatives(p)
  BY <1>1, GotoMine, SameItem DEF FinishDerivatives, Keeps, TypeInv, ItemInv
<1>2. CASE CompleteJob(p)
  <2>1. OnlyMine(p) /\ pc'[p] = "idle"
    BY <1>2, EndMine DEF CompleteJob
  <2>2. CASE UNCHANGED itemVars
    BY <1>2, <2>1, <2>2, SameItem DEF CompleteJob, Keeps
  <2>3. CASE setting = "scratch" /\ exists' = FALSE /\ disk' = NoFiles /\ sums' = NoFiles
    <3>1. disk'[Manifest] = Nothing /\ \A f \in Path : disk'[f] = Nothing
      BY <2>3, Paths DEF NoFiles
    <3> QED
      BY <1>2, <2>1, <2>3, <3>1, Missing DEF CompleteJob, Keeps, ItemKept
  <2> QED
    BY <1>2, <2>2, <2>3 DEF CompleteJob
<1>3. CASE PublicationRaises(p)
  <2>1. OnlyMine(p)
    BY <1>3, GotoMine DEF PublicationRaises, TypeInv, TypeOK, ItemInv
  <2> QED
    BY <1>3, <2>1, SameItem DEF PublicationRaises, Keeps, TypeInv, ItemInv
<1>4. CASE Stop(p)
  BY <1>4, EndMine, SameItem DEF Stop, Keeps
<1> QED
  BY <1>1, <1>2, <1>3, <1>4

\* Only a start is a step of an idle process.
LEMMA BusySteps ==
  ASSUME NEW p \in Processes, Step(p) \/ PublicationRaises(p) \/ Stop(p)
  PROVE  pc[p] # "idle"
  BY DEF Step, PruneItem, Acquire, ReuseItem, MissItem, StageItem, CheckAbsent, InstallItem,
     CreateDerivative, ChooseDerivative, VerifyItem, ReadManifest, ExamineDerivative, Convert,
     SaveOriginals, Publish, PlaceOutput, PlaceLog, WriteManifest, WriteSums, ConfirmPublication,
     UndoPublication, UndoManifest, UndoSums, UndoOutput, UndoLog, FinishDerivatives, CompleteJob,
     PublicationRaises, Publishing, Stop

\* Every step is one attempt's, and it keeps types.
LEMMA NextKeeps ==
  ASSUME TypeInv, Next
  PROVE  \E p \in Processes :
           /\ Keeps(p)
           /\ pc[p] = "idle" /\ setting # "beside" => \A q \in Processes : pc[q] = "idle"
<1>1. PICK p \in Processes :
        \/ \E wanted \in SUBSET Roles : StartAttempt(p, wanted)
        \/ Step(p) \/ PublicationRaises(p) \/ Stop(p)
  BY DEF Next
<1>2. Keeps(p)
  BY <1>1, StartKeeps, PruneKeeps, AcquireKeeps, CreateKeeps, PublishKeeps, EndKeeps DEF Step
<1>3. pc[p] = "idle" => \E wanted \in SUBSET Roles : StartAttempt(p, wanted)
  BY <1>1, BusySteps
<1> QED
  BY <1>2, <1>3 DEF StartAttempt

\* Faults are counted up to their bound.
LEMMA FaultsBounded ==
  ASSUME TypeInv, Next
  PROVE  faults' \in 0..MaxFaults
<1>1. faults' \in {faults, faults + 1} /\ (faults' # faults => faults < MaxFaults)
  BY DEF Next, StartAttempt, Step, PruneItem, Acquire, ReuseItem, MissItem, StageItem, CheckAbsent,
     InstallItem, CreateDerivative, ChooseDerivative, VerifyItem, ReadManifest, ExamineDerivative,
     Convert, SaveOriginals, Publish, PlaceOutput, PlaceLog, WriteManifest, WriteSums,
     ConfirmPublication, UndoPublication, UndoManifest, UndoSums, UndoOutput, UndoLog,
     FinishDerivatives, CompleteJob, PublicationRaises, Stop
<1> QED
  BY <1>1, ArchiveAssumption DEF TypeInv, TypeOK

\* The types are inductive.
LEMMA TypeStep == TypeInv /\ [Next]_vars => TypeInv'
<1>1. ASSUME TypeInv, Next PROVE TypeInv'
  BY <1>1, NextKeeps, FaultsBounded, TypeFrame DEF Keeps
<1>2. ASSUME TypeInv, UNCHANGED vars PROVE TypeInv'
  BY <1>2 DEF vars, itemVars, attemptVars, TypeInv, TypeOK, ItemInv, Listed
<1> QED
  BY <1>1, <1>2

\* Every variable keeps its type: files hold bytes or a manifest, an item that is not
\* there has no file, and an attempt at a derivative knows which one.
THEOREM ItemTypes == Spec => []TypeOK
<1>1. TypeInv => TypeOK
  BY DEF TypeInv
<1> QED
  BY InitTypes, TypeStep, <1>1, PTL DEF Spec

\* The source master of the local archive is never written over or removed, however many
\* attempts and commands run beside each other and wherever they stop.
THEOREM MasterStays == Spec => MasterKept
<1>1. TypeInv /\ [Next]_vars
        => [setting # "scratch" /\ exists => exists' /\ disk'[Master] = disk[Master]]_vars
  BY NextKeeps DEF Keeps, ItemKept
<1> QED
  BY InitTypes, TypeStep, <1>1, PTL DEF Spec, MasterKept

-----------------------------------------------------------------------------
(* One writer.                                                             *)

\* A list of checksums as a snapshot: it has the manifest, and what the manifest records.
Consistent(s) ==
  (\E f \in Path : s[f] # Nothing) =>
    /\ s[Manifest] \in Record
    /\ \A r \in Roles : s[Manifest][r] # Nothing => s[Output(r)] = s[Manifest][r]

\* What an attempt counts as done.
Whole(p) ==
  \A r \in done[p] :
    /\ disk[Output(r)] # Nothing
    /\ sums[Output(r)] = disk[Output(r)]
    /\ disk[Manifest][r] = disk[Output(r)]

\* Outside a publication the item verifies, and what was read of it still holds.
CalmInv(p) ==
  /\ Valid
  /\ pc[p] \in {"reading", "examining", "converting", "saving"} => loaded[p].paths = Listed
  /\ pc[p] \in {"examining", "converting", "saving"} => loaded[p].manifest = disk[Manifest]
  /\ pc[p] \in {"converting", "saving"} =>
       disk[Manifest][role[p]] = Nothing /\ disk[Output(role[p])] = Nothing
  /\ pc[p] = "saving" => made[p] \in Bytes
  /\ pc[p] \notin {"choosing", "complete"} => role[p] \notin done[p]

\* What a publication, and its undoing, may rely on: the originals are a consistent item
\* without the derivative, and every listed file but three is still as it was.
SavedInv(p) ==
  LET s == old[p].sums IN
  /\ Consistent(s)
  /\ s[Manifest] = old[p].manifest
  /\ s[Manifest][role[p]] = Nothing /\ s[Output(role[p])] = Nothing
  /\ s[Log(role[p])] \in {Nothing, old[p].log}
  /\ loaded[p].manifest = s[Manifest] /\ loaded[p].paths = {f \in Path : s[f] # Nothing}
  /\ \A f \in Path \ {Manifest, Output(role[p]), Log(role[p])} :
       s[f] # Nothing => disk[f] = s[f]
  /\ \A r \in done[p] : s[Manifest][r] # Nothing

\* How far it is.
StageInv(p) ==
  LET new == [old[p].manifest EXCEPT ![role[p]] = made[p]] IN
  /\ pc[p] \in Publishing => made[p] \in Bytes
  /\ pc[p] \in {"placing", "logging", "recording", "undo_sums", "undo_output", "undo_log"} =>
       disk[Manifest] = old[p].manifest
  /\ pc[p] \in {"listing", "confirming"} => disk[Manifest] = new
  /\ pc[p] = "undo_manifest" => disk[Manifest] \in {old[p].manifest, new}
  /\ pc[p] \in {"placing", "logging", "recording", "listing", "undo_output", "undo_log"} =>
       sums = old[p].sums
  /\ pc[p] \in {"logging", "recording", "listing", "confirming"} =>
       placed[p] /\ disk[Output(role[p])] = made[p]
  /\ pc[p] = "placing" \/ ~placed[p] => disk[Output(role[p])] = Nothing
  /\ pc[p] = "undo_log" /\ role[p] \notin Segmented => disk[Output(role[p])] = Nothing
  /\ pc[p] = "confirming" => sums[Output(role[p])] = made[p]

AttemptInv(p) ==
  /\ done[p] # {} => pc[p] \in Working
  /\ pc[p] \in {"checking", "installing"} => made[p] \in Bytes
  /\ Whole(p)
  /\ pc[p] \in Calm => CalmInv(p)
  /\ pc[p] \in Publishing \union Undoing => SavedInv(p) /\ StageInv(p)

AloneInv == Alone => Consistent(sums) /\ \A p \in Processes : AttemptInv(p)

\* An attempt without memory has nothing to keep.
LEMMA IdleAttempt ==
  ASSUME NEW p \in Processes, pc'[p] = "idle", done'[p] = {}
  PROVE  AttemptInv(p)'
  BY DEF AttemptInv, Whole, Working, Calm, Publishing, Undoing

\* Alone, whoever is not at work is idle and stays so.
LEMMA OthersKeep ==
  ASSUME TypeInv, AloneInv, Alone, NEW p \in Processes, Keeps(p),
         pc[p] = "idle" => \A q \in Processes : pc[q] = "idle",
         NEW q \in Processes \ {p}
  PROVE  AttemptInv(q)'
<1>1. pc[q] = "idle"
  BY DEF TypeInv, ItemInv, Alone
<1>2. done[q] = {}
  BY <1>1 DEF AloneInv, AttemptInv, Working, Calm, Publishing, Undoing
<1> QED
  BY <1>1, <1>2, IdleAttempt DEF Keeps, OnlyMine

\* Where the files are, and their list, does not change while they do not.
LEMMA SameFiles ==
  ASSUME UNCHANGED itemVars
  PROVE  /\ Listed' = Listed /\ (Valid' <=> Valid) /\ UNCHANGED <<disk, sums, exists>>
         /\ Consistent(sums) => Consistent(sums)'
  BY DEF itemVars, Listed, Valid, Consistent

\* What a step of p establishes.
Kept(p) == Consistent(sums)' /\ AttemptInv(p)'

\* An attempt starts with nothing done.
LEMMA StartAlone ==
  ASSUME TypeInv, AloneInv, Alone, NEW p \in Processes, NEW wanted \in SUBSET Roles,
         StartAttempt(p, wanted)
  PROVE  Kept(p)
<1>1. pc'[p] \in {"pruning", "acquiring"} /\ done'[p] = {}
  BY DEF StartAttempt, Goto, TypeInv, TypeOK, AloneInv, AttemptInv, Working, Calm, Publishing,
     Undoing
<1>2. Consistent(sums)'
  BY SameFiles DEF StartAttempt, AloneInv
<1> QED
  BY <1>1, <1>2 DEF Kept, AttemptInv, Whole, Working, Calm, Publishing, Undoing

\* What a pruning leaves of a workspace lists nothing, or what was listed.
LEMMA PruneAlone ==
  ASSUME TypeInv, AloneInv, Alone, NEW p \in Processes, PruneItem(p)
  PROVE  Kept(p)
<1>1. pc'[p] = "acquiring" /\ done'[p] = {}
  BY DEF PruneItem, Goto, attemptVars, TypeInv, TypeOK, AloneInv, AttemptInv, Working, Calm,
     Publishing, Undoing
<1>2. sums' \in {sums, NoFiles}
  BY DEF PruneItem, itemVars
<1>3. Consistent(sums)'
  BY <1>2 DEF AloneInv, Consistent, NoFiles
<1> QED
  BY <1>1, <1>3 DEF Kept, AttemptInv, Whole, Working, Calm, Publishing, Undoing

\* An item that is reused verifies; one that is installed lists what it has.
LEMMA AcquireAlone ==
  ASSUME TypeInv, AloneInv, Alone, NEW p \in Processes, Acquire(p)
  PROVE  Kept(p)
<1> USE DEF Working, Calm, Publishing, Undoing
<1>0. done[p] = {} /\ Consistent(sums)
  BY DEF Acquire, ReuseItem, MissItem, StageItem, CheckAbsent, InstallItem, AloneInv, AttemptInv
<1>1. CASE ReuseItem(p)
  <2>1. Consistent(sums)'
    BY <1>0, <1>1, SameFiles DEF ReuseItem
  <2>2. CASE EndAttempt(p)
    BY <2>1, <2>2, IdleAttempt DEF EndAttempt, Goto, Kept, TypeInv, TypeOK
  <2>3. CASE Valid /\ Goto(p, "choosing") /\ UNCHANGED attemptVars
    <3>1. pc'[p] = "choosing" /\ done'[p] = {} /\ Valid'
      BY <1>0, <1>1, <2>3, SameFiles DEF ReuseItem, Goto, attemptVars, TypeInv, TypeOK
    <3> QED
      BY <2>1, <3>1 DEF Kept, AttemptInv, Whole, CalmInv
  <2> QED
    BY <1>1, <2>2, <2>3 DEF ReuseItem
<1>2. CASE MissItem(p)
  <2>1. pc'[p] = "downloading" /\ done'[p] = {} /\ Consistent(sums)'
    BY <1>0, <1>2, SameFiles DEF MissItem, Goto, attemptVars, TypeInv, TypeOK
  <2> QED
    BY <2>1 DEF Kept, AttemptInv, Whole
<1>3. CASE StageItem(p)
  <2>1. pc'[p] = "checking" /\ done'[p] = {} /\ made'[p] \in Bytes /\ Consistent(sums)'
    BY <1>0, <1>3, SameFiles DEF StageItem, Goto, TypeInv, TypeOK
  <2> QED
    BY <2>1 DEF Kept, AttemptInv, Whole
<1>4. CASE CheckAbsent(p)
  <2>1. Consistent(sums)'
    BY <1>0, <1>4, SameFiles DEF CheckAbsent
  <2>2. CASE EndAttempt(p)
    BY <2>1, <2>2, IdleAttempt DEF EndAttempt, Goto, Kept, TypeInv, TypeOK
  <2>3. CASE Goto(p, "installing") /\ UNCHANGED attemptVars
    <3>1. pc'[p] = "installing" /\ done'[p] = {} /\ made'[p] \in Bytes
      BY <1>0, <1>4, <2>3
      DEF CheckAbsent, Goto, attemptVars, TypeInv, TypeOK, AloneInv, AttemptInv
    <3> QED
      BY <2>1, <3>1 DEF Kept, AttemptInv, Whole
  <2> QED
    BY <1>4, <2>2, <2>3 DEF CheckAbsent
<1>5. CASE InstallItem(p)
  <2>1. CASE EndAttempt(p) /\ UNCHANGED itemVars
    BY <1>0, <2>1, IdleAttempt, SameFiles DEF EndAttempt, Goto, Kept, TypeInv, TypeOK
  <2>2. CASE /\ disk' = [NoFiles EXCEPT ![Master] = made[p], ![Manifest] = NoRecords]
             /\ sums' = disk' /\ Goto(p, "choosing") /\ UNCHANGED done
    <3>1. sums'[Manifest] = NoRecords /\ Manifest \in Path
      BY <2>2, Paths DEF NoFiles
    <3>2. Consistent(sums)'
      BY <3>1, Missing DEF Consistent, NoRecords
    <3>3. Valid'
      BY <2>2, <3>1, Missing DEF Valid, Listed
    <3>4. pc'[p] = "choosing" /\ done'[p] = {}
      BY <1>0, <2>2 DEF Goto, TypeInv, TypeOK
    <3> QED
      BY <3>2, <3>3, <3>4 DEF Kept, AttemptInv, Whole, CalmInv
  <2> QED
    BY <1>5, <2>1, <2>2 DEF InstallItem
<1> QED
  BY <1>1, <1>2, <1>3, <1>4, <1>5 DEF Acquire

\* Until it publishes, an attempt finds the item as it read it.
LEMMA CreateAlone ==
  ASSUME TypeInv, AloneInv, Alone, NEW p \in Processes, CreateDerivative(p)
  PROVE  Kept(p)
<1> USE DEF Working, Calm, Publishing, Undoing
<1>0. /\ CalmInv(p) /\ Whole(p) /\ Consistent(sums) /\ Valid
      /\ pc[p] # "choosing" => role[p] \in Roles
  BY DEF CreateDerivative, ChooseDerivative, VerifyItem, ReadManifest, ExamineDerivative, Convert,
     SaveOriginals, AloneInv, AttemptInv, CalmInv, TypeInv, TypeOK
<1>1. UNCHANGED itemVars
  BY DEF CreateDerivative, ChooseDerivative, VerifyItem, ReadManifest, ExamineDerivative, Convert,
     SaveOriginals
<1>2. /\ Consistent(sums)' /\ Valid' /\ Listed' = Listed /\ UNCHANGED <<disk, sums>>
      /\ disk[Manifest] # Nothing /\ disk[Manifest] \in Record
  BY <1>0, <1>1, SameFiles DEF CreateDerivative, ChooseDerivative, VerifyItem, ReadManifest,
     ExamineDerivative, Convert, SaveOriginals, TypeInv, TypeOK, ItemInv
<1>3. CASE EndAttempt(p)
  BY <1>2, <1>3, IdleAttempt DEF EndAttempt, Goto, Kept, TypeInv, TypeOK
<1>4. CASE ChooseDerivative(p)
  <2>1. pc'[p] = "verifying" /\ done'[p] = done[p] /\ role'[p] \notin done[p]
    BY <1>4 DEF ChooseDerivative, Goto, TypeInv, TypeOK
  <2> QED
    BY <1>0, <1>2, <2>1 DEF Kept, AttemptInv, Whole, CalmInv
<1>5. CASE VerifyItem(p) /\ ~EndAttempt(p)
  <2>1. /\ pc[p] = "verifying" /\ pc'[p] = "reading"
        /\ done'[p] = done[p] /\ role'[p] = role[p] /\ loaded'[p].paths = Listed
    BY <1>5 DEF VerifyItem, Goto, TypeInv, TypeOK
  <2> QED
    BY <1>0, <1>2, <2>1 DEF Kept, AttemptInv, Whole, CalmInv
<1>6. CASE ReadManifest(p)
  <2>1. /\ pc[p] = "reading" /\ pc'[p] = "examining"
        /\ done'[p] = done[p] /\ role'[p] = role[p]
        /\ loaded'[p].paths = loaded[p].paths /\ loaded'[p].manifest = disk[Manifest]
    BY <1>6 DEF ReadManifest, Goto, TypeInv, TypeOK
  <2> QED
    BY <1>0, <1>2, <2>1 DEF Kept, AttemptInv, Whole, CalmInv
<1>7. CASE ExamineDerivative(p) /\ ~EndAttempt(p)
  <2>0. pc[p] = "examining" /\ role[p] \in Roles /\ role[p] \notin done[p]
    BY <1>0, <1>7 DEF ExamineDerivative, CalmInv
  <2>1. CASE loaded[p].manifest[role[p]] # Nothing /\ Reusable(p) /\ NextRole(p)
    <3>1. pc'[p] = "choosing" /\ done'[p] = done[p] \union {role[p]}
      BY <2>1 DEF NextRole, Goto, TypeInv, TypeOK
    <3>2. /\ Output(role[p]) \in Listed
          /\ disk[Output(role[p])] = disk[Manifest][role[p]] /\ disk[Manifest][role[p]] # Nothing
      BY <1>0, <2>0, <2>1 DEF Reusable, CalmInv
    <3>3. sums[Output(role[p])] = disk[Output(role[p])]
      BY <1>0, <3>2 DEF Valid
    <3> QED
      BY <1>0, <1>2, <3>1, <3>2, <3>3 DEF Kept, AttemptInv, Whole, CalmInv
  <2>2. CASE /\ loaded[p].manifest[role[p]] = Nothing /\ disk[Output(role[p])] = Nothing
             /\ Goto(p, "converting") /\ UNCHANGED attemptVars
    <3>1. /\ pc'[p] = "converting" /\ done'[p] = done[p] /\ role'[p] = role[p]
          /\ loaded'[p] = loaded[p]
      BY <2>2 DEF Goto, attemptVars, TypeInv, TypeOK
    <3>2. loaded[p].paths = Listed /\ loaded[p].manifest = disk[Manifest]
      BY <1>0, <2>0 DEF CalmInv
    <3> QED
      BY <1>0, <1>2, <2>0, <2>2, <3>1, <3>2 DEF Kept, AttemptInv, Whole, CalmInv
  <2> QED
    BY <1>7, <2>1, <2>2 DEF ExamineDerivative
<1>8. CASE Convert(p)
  <2>1. /\ pc[p] = "converting" /\ pc'[p] = "saving" /\ done'[p] = done[p]
        /\ role'[p] = role[p] /\ loaded'[p] = loaded[p] /\ made'[p] \in Bytes
    BY <1>8 DEF Convert, Goto, TypeInv, TypeOK
  <2> QED
    BY <1>0, <1>2, <2>1 DEF Kept, AttemptInv, Whole, CalmInv
<1>9. CASE SaveOriginals(p)
  <2>1. /\ pc[p] = "saving" /\ pc'[p] = "placing" /\ done'[p] = done[p]
        /\ role'[p] = role[p] /\ loaded'[p] = loaded[p] /\ made'[p] = made[p]
        /\ placed'[p] = placed[p]
    BY <1>9 DEF SaveOriginals, Goto, TypeInv, TypeOK
  <2>2. /\ old'[p].manifest = disk[Manifest] /\ old'[p].sums = sums
        /\ old'[p].log = disk[Log(role[p])]
    BY <1>9 DEF SaveOriginals, TypeInv, TypeOK
  <2>3. /\ loaded[p].paths = Listed /\ loaded[p].manifest = disk[Manifest]
        /\ disk[Manifest][role[p]] = Nothing /\ disk[Output(role[p])] = Nothing
        /\ made[p] \in Bytes /\ role[p] \in Roles /\ role[p] \notin done[p]
    BY <1>0, <2>1 DEF CalmInv
  <2>4. sums[Manifest] = disk[Manifest]
    BY <1>0, <1>2, Paths, Missing DEF Valid, Listed, Consistent
  <2>5. \A f \in Path : sums[f] # Nothing => disk[f] = sums[f]
    BY <1>0 DEF Valid, Listed
  <2>6. SavedInv(p)'
    <3>1. sums[Output(role[p])] = Nothing /\ sums[Log(role[p])] \in {Nothing, disk[Log(role[p])]}
      BY <2>3, <2>5, Paths
    <3>2. Consistent(old[p].sums)'
      BY <1>0, <2>2 DEF Consistent
    <3>3. loaded[p].paths = {f \in Path : sums[f] # Nothing}
      BY <2>3 DEF Listed
    <3>4. \A r \in done[p] : sums[Manifest][r] # Nothing
      BY <1>0, <2>4 DEF Whole
    <3> QED
      BY <1>2, <2>1, <2>2, <2>3, <2>4, <2>5, <3>1, <3>2, <3>3, <3>4 DEF SavedInv
  <2>7. StageInv(p)'
    BY <1>2, <2>1, <2>2, <2>3 DEF StageInv
  <2> QED
    BY <1>0, <1>2, <2>1, <2>6, <2>7 DEF Kept, AttemptInv, Whole
<1> QED
  BY <1>3, <1>4, <1>5, <1>6, <1>7, <1>8, <1>9 DEF CreateDerivative

\* What is done lies outside a publication: it is another derivative, listed before it.
LEMMA DoneOutside ==
  ASSUME TypeInv, NEW p \in Processes, pc[p] \in Publishing \union Undoing, SavedInv(p),
         NEW r \in done[p]
  PROVE  /\ r \in Roles /\ r # role[p]
         /\ Output(r) \in Path \ {Manifest, Output(role[p]), Log(role[p])}
         /\ old[p].sums[Output(r)] # Nothing /\ disk[Output(r)] = old[p].sums[Output(r)]
         /\ old[p].manifest[r] = old[p].sums[Output(r)]
<1>1. r \in Roles /\ role[p] \in Roles /\ old[p].manifest # Nothing
  BY DEF TypeInv, TypeOK, ItemInv
<1>2. old[p].sums[Manifest][r] # Nothing /\ r # role[p]
  BY DEF SavedInv
<1>3. old[p].sums[Output(r)] = old[p].sums[Manifest][r]
  BY <1>1, <1>2, Paths DEF SavedInv, Consistent
<1>4. Output(r) \in Path \ {Manifest, Output(role[p]), Log(role[p])}
  BY <1>1, <1>2, Paths
<1> QED
  BY <1>1, <1>2, <1>3, <1>4 DEF SavedInv

\* A step that touches only the files of the derivative, and lists what is done.
LEMMA PublicationKept ==
  ASSUME TypeInv, NEW p \in Processes, pc[p] \in Publishing \union Undoing, SavedInv(p),
         UNCHANGED <<old[p], role[p], loaded[p], done[p]>>,
         \A f \in Path \ {Manifest, Output(role[p]), Log(role[p])} : disk'[f] = disk[f],
         \/ disk'[Manifest] = old[p].manifest
         \/ disk'[Manifest] = [old[p].manifest EXCEPT ![role[p]] = made[p]],
         \A r \in done[p] : sums'[Output(r)] = disk[Output(r)]
  PROVE  SavedInv(p)' /\ Whole(p)'
<1>1. SavedInv(p)'
  BY DEF SavedInv, Consistent
<1>2. ASSUME NEW r \in done[p]
      PROVE  /\ disk'[Output(r)] # Nothing /\ sums'[Output(r)] = disk'[Output(r)]
             /\ disk'[Manifest][r] = disk'[Output(r)]
  <2>1. /\ r \in Roles /\ r # role[p]
        /\ Output(r) \in Path \ {Manifest, Output(role[p]), Log(role[p])}
        /\ old[p].sums[Output(r)] # Nothing /\ disk[Output(r)] = old[p].sums[Output(r)]
        /\ old[p].manifest[r] = old[p].sums[Output(r)]
    BY DoneOutside
  <2>2. old[p].manifest \in Record
    BY DEF TypeInv, TypeOK, ItemInv
  <2>3. disk'[Manifest][r] = old[p].manifest[r]
    BY <2>1, <2>2 DEF Record
  <2> QED
    BY <2>1, <2>3
<1> QED
  BY <1>1, <1>2 DEF Whole

\* A publication changes only what its handler can put back.
LEMMA PublishAlone ==
  ASSUME TypeInv, AloneInv, Alone, NEW p \in Processes, Publish(p) \/ PublicationRaises(p)
  PROVE  Kept(p)
<1> DEFINE new == [old[p].manifest EXCEPT ![role[p]] = made[p]]
           Path0 == Path \ {Manifest, Output(role[p]), Log(role[p])}
<1> USE DEF Working, Calm, Publishing, Undoing
<1>0. /\ pc[p] \in Publishing /\ SavedInv(p) /\ StageInv(p) /\ Whole(p) /\ Consistent(sums)
      /\ made[p] \in Bytes /\ role[p] \in Roles
      /\ old[p].manifest \in Record /\ loaded[p].manifest = old[p].manifest
      /\ disk[Manifest] \in {old[p].manifest, new} /\ new \in Record /\ new # Nothing
  <2>1. pc[p] \in Publishing
    BY DEF Publish, PlaceOutput, PlaceLog, WriteManifest, WriteSums, ConfirmPublication,
       PublicationRaises
  <2>2. SavedInv(p) /\ StageInv(p) /\ Whole(p) /\ Consistent(sums) /\ role[p] \in Roles
    BY <2>1 DEF AloneInv, AttemptInv, TypeInv, TypeOK
  <2>3. made[p] \in Bytes /\ old[p].manifest \in Record
    BY <2>1, <2>2 DEF StageInv, TypeInv, TypeOK, ItemInv
  <2>4. new \in Record
    BY <2>2, <2>3 DEF Record
  <2> QED
    BY <2>1, <2>2, <2>3, <2>4, Missing DEF StageInv, SavedInv
<1>1. \A r \in done[p] : Output(r) \in Path0 /\ sums[Output(r)] = disk[Output(r)]
  BY <1>0, DoneOutside DEF Whole
<1>2. CASE PlaceOutput(p)
  <2>1. disk[Output(role[p])] = Nothing /\ pc[p] = "placing"
    BY <1>0, <1>2 DEF PlaceOutput, StageInv, TypeInv, TypeOK
  <2>2. /\ disk' = [disk EXCEPT ![Output(role[p])] = made[p]] /\ sums' = sums
        /\ placed'[p] = TRUE /\ pc'[p] = "logging"
        /\ UNCHANGED <<old[p], role[p], loaded[p], done[p], made[p]>>
    BY <1>2, <2>1 DEF PlaceOutput, Goto, TypeInv, TypeOK
  <2>3. /\ \A f \in Path0 : disk'[f] = disk[f]
        /\ disk'[Manifest] = disk[Manifest] /\ disk'[Output(role[p])] = made[p]
    BY <1>0, <2>2, Paths DEF TypeInv, TypeOK
  <2>4. SavedInv(p)' /\ Whole(p)'
    BY <1>0, <1>1, <2>2, <2>3, PublicationKept
  <2>5. StageInv(p)' /\ Consistent(sums)'
    BY <1>0, <2>1, <2>2, <2>3 DEF StageInv, Consistent
  <2> QED
    BY <2>2, <2>4, <2>5 DEF Kept, AttemptInv
<1>3. CASE PlaceLog(p)
  <2>1. /\ pc[p] = "logging" /\ pc'[p] = "recording" /\ sums' = sums
        /\ disk' = [disk EXCEPT ![Log(role[p])] = made[p]]
        /\ UNCHANGED <<old[p], role[p], loaded[p], done[p], made[p], placed[p]>>
    BY <1>3 DEF PlaceLog, Goto, attemptVars, TypeInv, TypeOK
  <2>2. /\ \A f \in Path0 : disk'[f] = disk[f]
        /\ disk'[Manifest] = disk[Manifest]
        /\ disk'[Output(role[p])] = disk[Output(role[p])]
    BY <1>0, <2>1, Paths DEF TypeInv, TypeOK
  <2>3. SavedInv(p)' /\ Whole(p)'
    BY <1>0, <1>1, <2>1, <2>2, PublicationKept
  <2>4. StageInv(p)' /\ Consistent(sums)'
    BY <1>0, <2>1, <2>2 DEF StageInv, Consistent
  <2> QED
    BY <2>1, <2>3, <2>4 DEF Kept, AttemptInv
<1>4. CASE WriteManifest(p)
  <2>1. /\ pc[p] = "recording" /\ pc'[p] = "listing" /\ sums' = sums
        /\ disk' = [disk EXCEPT ![Manifest] = new]
        /\ UNCHANGED <<old[p], role[p], loaded[p], done[p], made[p], placed[p]>>
    BY <1>0, <1>4 DEF WriteManifest, Goto, attemptVars, TypeInv, TypeOK
  <2>2. /\ \A f \in Path0 : disk'[f] = disk[f]
        /\ disk'[Manifest] = new
        /\ disk'[Output(role[p])] = disk[Output(role[p])]
    BY <1>0, <2>1, Paths DEF TypeInv, TypeOK
  <2>3. SavedInv(p)' /\ Whole(p)'
    BY <1>0, <1>1, <2>1, <2>2, PublicationKept
  <2>4. StageInv(p)' /\ Consistent(sums)'
    BY <1>0, <2>1, <2>2 DEF StageInv, Consistent
  <2> QED
    BY <2>1, <2>3, <2>4 DEF Kept, AttemptInv
<1>5. CASE WriteSums(p)
  <2> DEFINE paths == loaded[p].paths \union {Output(role[p]), Log(role[p]), Manifest}
  <2>1. /\ pc[p] = "listing" /\ disk' = disk
        /\ UNCHANGED <<old[p], role[p], loaded[p], done[p], made[p], placed[p]>>
    BY <1>5 DEF WriteSums, attemptVars
  <2>2. disk[Manifest] = new /\ disk[Output(role[p])] = made[p] /\ placed[p] /\ sums = old[p].sums
    BY <1>0, <2>1 DEF StageInv
  <2>3. CASE sums' = [f \in Path |-> IF f \in paths THEN disk[f] ELSE Nothing] /\ Goto(p, "confirming")
    <3>1. pc'[p] = "confirming"
      BY <2>3 DEF Goto, TypeInv, TypeOK
    <3>2. /\ sums'[Manifest] = new /\ sums'[Output(role[p])] = made[p]
          /\ \A f \in Path : old[p].sums[f] # Nothing => sums'[f] = disk[f]
      BY <1>0, <2>2, <2>3, Paths DEF SavedInv
    <3>3. \A r \in done[p] : sums'[Output(r)] = disk[Output(r)]
      BY <1>0, <1>1, <3>2, DoneOutside
    <3>4. SavedInv(p)' /\ Whole(p)'
      BY <1>0, <2>1, <2>2, <3>3, PublicationKept
    <3>5. ASSUME NEW r \in Roles, new[r] # Nothing PROVE sums'[Output(r)] = new[r]
      <4>1. CASE r = role[p]
        BY <1>0, <3>2, <4>1 DEF Record
      <4>2. CASE r # role[p]
        <5>1. new[r] = old[p].manifest[r] /\ old[p].sums[Manifest] = old[p].manifest
          BY <1>0, <4>2 DEF Record, SavedInv
        <5>2. old[p].sums[Output(r)] = new[r]
          BY <1>0, <3>5, <5>1, Paths, Missing DEF SavedInv, Consistent
        <5>3. Output(r) \in Path0
          BY <1>0, <4>2, Paths
        <5> QED
          BY <1>0, <3>2, <3>5, <5>2, <5>3 DEF SavedInv
      <4> QED
        BY <4>1, <4>2
    <3>6. Consistent(sums)'
      BY <1>0, <3>2, <3>5 DEF Consistent
    <3>7. StageInv(p)'
      BY <1>0, <2>1, <2>2, <3>1, <3>2 DEF StageInv
    <3> QED
      BY <3>1, <3>4, <3>6, <3>7 DEF Kept, AttemptInv
  <2>4. CASE sums' = sums /\ Goto(p, "undo_manifest")
    <3>1. pc'[p] = "undo_manifest"
      BY <2>4 DEF Goto, TypeInv, TypeOK
    <3>2. SavedInv(p)' /\ Whole(p)'
      BY <1>0, <1>1, <2>1, <2>2, <2>4, PublicationKept
    <3>3. StageInv(p)' /\ Consistent(sums)'
      BY <1>0, <2>1, <2>2, <2>4, <3>1 DEF StageInv, Consistent
    <3> QED
      BY <3>1, <3>2, <3>3 DEF Kept, AttemptInv
  <2> QED
    BY <1>5, <2>3, <2>4 DEF WriteSums
<1>6. CASE ConfirmPublication(p)
  <2>1. pc[p] = "confirming" /\ UNCHANGED <<disk, sums>> /\ (Valid' <=> Valid) /\ Consistent(sums)'
    BY <1>0, <1>6, SameFiles DEF ConfirmPublication
  <2>2. /\ disk[Manifest] = new /\ disk[Output(role[p])] = made[p]
        /\ placed[p] /\ sums[Output(role[p])] = made[p]
    BY <1>0, <2>1 DEF StageInv
  <2>3. CASE Valid /\ NextRole(p)
    <3>1. pc'[p] = "choosing" /\ done'[p] = done[p] \union {role[p]}
      BY <2>3 DEF NextRole, Goto, TypeInv, TypeOK
    <3>2. new[role[p]] = made[p] /\ made[p] # Nothing
      BY <1>0, Missing DEF Record
    <3>3. Whole(p)'
      BY <1>0, <2>1, <2>2, <3>1, <3>2 DEF Whole
    <3> QED
      BY <2>1, <2>3, <3>1, <3>3 DEF Kept, AttemptInv, CalmInv
  <2>4. CASE Goto(p, "undo_manifest") /\ UNCHANGED attemptVars
    <3>1. /\ pc'[p] = "undo_manifest"
          /\ UNCHANGED <<old[p], role[p], loaded[p], done[p], made[p], placed[p]>>
      BY <2>4 DEF Goto, attemptVars, TypeInv, TypeOK
    <3>2. SavedInv(p)' /\ Whole(p)'
      BY <1>0, <1>1, <2>1, <2>2, <3>1, PublicationKept
    <3>3. StageInv(p)'
      BY <1>0, <2>1, <2>2, <3>1 DEF StageInv
    <3> QED
      BY <2>1, <3>1, <3>2, <3>3 DEF Kept, AttemptInv
  <2> QED
    BY <1>6, <2>3, <2>4 DEF ConfirmPublication
<1>7. CASE PublicationRaises(p)
  <2>1. /\ pc'[p] = "undo_manifest" /\ UNCHANGED <<disk, sums>> /\ Consistent(sums)'
        /\ UNCHANGED <<old[p], role[p], loaded[p], done[p], made[p], placed[p]>>
    BY <1>0, <1>7, SameFiles DEF PublicationRaises, Goto, attemptVars, TypeInv, TypeOK
  <2>2. SavedInv(p)' /\ Whole(p)'
    BY <1>0, <1>1, <2>1, PublicationKept
  <2>3. StageInv(p)'
    BY <1>0, <2>1 DEF StageInv
  <2> QED
    BY <2>1, <2>2, <2>3 DEF Kept, AttemptInv
<1> QED
  BY <1>2, <1>3, <1>4, <1>5, <1>6, <1>7 DEF Publish

\* The undoing puts back what it saved, one file at a time.
LEMMA UndoAlone ==
  ASSUME TypeInv, AloneInv, Alone, NEW p \in Processes, UndoPublication(p)
  PROVE  Kept(p)
<1> DEFINE Path0 == Path \ {Manifest, Output(role[p]), Log(role[p])}
<1> USE DEF Working, Calm, Publishing, Undoing
<1>0. /\ pc[p] \in Undoing /\ SavedInv(p) /\ StageInv(p) /\ Whole(p) /\ Consistent(sums)
      /\ role[p] \in Roles /\ old[p].manifest \in Record
  <2>1. pc[p] \in Undoing
    BY DEF UndoPublication, UndoManifest, UndoSums, UndoOutput, UndoLog
  <2> QED
    BY <2>1 DEF AloneInv, AttemptInv, TypeInv, TypeOK, ItemInv
<1>1. \A r \in done[p] :
        /\ Output(r) \in Path0 /\ sums[Output(r)] = disk[Output(r)]
        /\ old[p].sums[Output(r)] = disk[Output(r)]
  BY <1>0, DoneOutside DEF Whole
<1>2. CASE UndoManifest(p)
  <2>1. /\ pc[p] = "undo_manifest" /\ pc'[p] = "undo_sums" /\ sums' = sums
        /\ disk' = [disk EXCEPT ![Manifest] = old[p].manifest]
        /\ UNCHANGED <<old[p], role[p], loaded[p], done[p], made[p], placed[p]>>
    BY <1>2 DEF UndoManifest, Goto, attemptVars, TypeInv, TypeOK
  <2>2. /\ \A f \in Path0 : disk'[f] = disk[f]
        /\ disk'[Manifest] = old[p].manifest
        /\ disk'[Output(role[p])] = disk[Output(role[p])]
    BY <1>0, <2>1, Paths DEF TypeInv, TypeOK
  <2>3. SavedInv(p)' /\ Whole(p)'
    BY <1>0, <1>1, <2>1, <2>2, PublicationKept
  <2>4. StageInv(p)' /\ Consistent(sums)'
    BY <1>0, <2>1, <2>2 DEF StageInv, Consistent
  <2> QED
    BY <2>1, <2>3, <2>4 DEF Kept, AttemptInv
<1>3. CASE UndoSums(p)
  <2>1. /\ pc[p] = "undo_sums" /\ pc'[p] = "undo_output" /\ disk' = disk
        /\ sums' = old[p].sums
        /\ UNCHANGED <<old[p], role[p], loaded[p], done[p], made[p], placed[p]>>
    BY <1>3 DEF UndoSums, Goto, attemptVars, TypeInv, TypeOK
  <2>2. disk[Manifest] = old[p].manifest
    BY <1>0, <2>1 DEF StageInv
  <2>3. SavedInv(p)' /\ Whole(p)'
    BY <1>0, <1>1, <2>1, <2>2, PublicationKept
  <2>4. StageInv(p)' /\ Consistent(sums)'
    BY <1>0, <2>1, <2>2 DEF StageInv, Consistent, SavedInv
  <2> QED
    BY <2>1, <2>3, <2>4 DEF Kept, AttemptInv
<1>4. CASE UndoOutput(p)
  <2>1. /\ pc[p] = "undo_output" /\ pc'[p] = "undo_log" /\ sums' = sums
        /\ UNCHANGED <<old[p], role[p], loaded[p], done[p], made[p], placed[p]>>
    BY <1>4 DEF UndoOutput, Goto, attemptVars, TypeInv, TypeOK
  <2>a. \/ disk' = IF placed[p] THEN [disk EXCEPT ![Output(role[p])] = Nothing] ELSE disk
        \/ /\ placed[p] /\ role[p] \in Segmented
           /\ \E left \in Bytes : disk' = [disk EXCEPT ![Output(role[p])] = left]
    BY <1>4 DEF UndoOutput
  <2>2. /\ \A f \in Path0 : disk'[f] = disk[f]
        /\ disk'[Manifest] = disk[Manifest]
    BY <1>0, <2>a, Paths DEF TypeInv, TypeOK
  <2>3. ~placed[p] \/ role[p] \notin Segmented => disk'[Output(role[p])] = Nothing
    BY <1>0, <2>a, Paths DEF StageInv, TypeInv, TypeOK
  <2>4. disk[Manifest] = old[p].manifest /\ sums = old[p].sums
    BY <1>0, <2>1 DEF StageInv
  <2>5. SavedInv(p)' /\ Whole(p)'
    BY <1>0, <1>1, <2>1, <2>2, <2>4, PublicationKept
  <2>6. StageInv(p)' /\ Consistent(sums)'
    BY <1>0, <2>1, <2>2, <2>3, <2>4 DEF StageInv, Consistent
  <2> QED
    BY <2>1, <2>5, <2>6 DEF Kept, AttemptInv
<1>5. CASE UndoLog(p)
  <2>1. sums' = sums /\ EndAttempt(p)
    BY <1>5 DEF UndoLog
  <2>2. pc'[p] = "idle" /\ done'[p] = {}
    BY <2>1 DEF EndAttempt, Goto, TypeInv, TypeOK
  <2> QED
    BY <1>0, <2>1, <2>2, IdleAttempt DEF Kept, Consistent
<1> QED
  BY <1>2, <1>3, <1>4, <1>5 DEF UndoPublication

\* An attempt that is over has nothing left to keep.
LEMMA EndAlone ==
  ASSUME TypeInv, AloneInv, Alone, NEW p \in Processes,
         FinishDerivatives(p) \/ CompleteJob(p) \/ Stop(p)
  PROVE  Kept(p)
<1> USE DEF Working, Calm, Publishing, Undoing
<1>1. CASE FinishDerivatives(p)
  <2>1. /\ pc[p] = "choosing" /\ pc'[p] = "complete" /\ done'[p] = done[p]
        /\ UNCHANGED <<disk, sums>> /\ (Valid' <=> Valid) /\ Consistent(sums)'
    BY <1>1, SameFiles DEF FinishDerivatives, Goto, attemptVars, TypeInv, TypeOK, AloneInv
  <2> QED
    BY <2>1 DEF AloneInv, Kept, AttemptInv, Whole, CalmInv
<1>2. CASE CompleteJob(p) \/ Stop(p)
  <2>1. EndAttempt(p) /\ sums' \in {sums, NoFiles}
    BY <1>2 DEF CompleteJob, Stop, itemVars
  <2>2. pc'[p] = "idle" /\ done'[p] = {}
    BY <2>1 DEF EndAttempt, Goto, TypeInv, TypeOK
  <2>3. Consistent(sums)'
    BY <2>1 DEF AloneInv, Consistent, NoFiles
  <2> QED
    BY <2>2, <2>3, IdleAttempt DEF Kept
<1> QED
  BY <1>1, <1>2

\* At the start no attempt is at work.
LEMMA InitAlone == Init => AloneInv
<1> SUFFICES ASSUME Init PROVE AloneInv
  OBVIOUS
<1>1. Consistent(sums)
  BY DEF Init, Consistent, NoFiles
<1>2. \A p \in Processes : AttemptInv(p)
  BY DEF Init, AttemptInv, Whole, Working, Calm, Publishing, Undoing
<1> QED
  BY <1>1, <1>2 DEF AloneInv

\* With one writer, the invariant is inductive.
LEMMA AloneStep == TypeInv /\ AloneInv /\ [Next]_vars => AloneInv'
<1>1. ASSUME TypeInv, AloneInv, Next, Alone' PROVE AloneInv'
  <2>1. PICK p \in Processes :
          \/ \E wanted \in SUBSET Roles : StartAttempt(p, wanted)
          \/ Step(p) \/ PublicationRaises(p) \/ Stop(p)
    BY <1>1 DEF Next
  <2>2. Keeps(p)
    BY <1>1, <2>1, StartKeeps, PruneKeeps, AcquireKeeps, CreateKeeps, PublishKeeps, EndKeeps
    DEF Step
  <2>3. Alone
    BY <1>1, <2>2 DEF Alone, Keeps
  <2>4. Kept(p)
    BY <1>1, <2>1, <2>3, StartAlone, PruneAlone, AcquireAlone, CreateAlone, PublishAlone,
       UndoAlone, EndAlone DEF Step
  <2>5. pc[p] = "idle" => \A q \in Processes : pc[q] = "idle"
    BY <2>1, <2>3, BusySteps DEF StartAttempt, Alone
  <2>6. \A q \in Processes : AttemptInv(q)'
    BY <1>1, <2>2, <2>3, <2>4, <2>5, OthersKeep DEF Kept
  <2> QED
    BY <2>4, <2>6 DEF AloneInv, Kept
<1>2. ASSUME TypeInv, AloneInv, UNCHANGED vars PROVE AloneInv'
  <2>1. UNCHANGED <<setting, exists, disk, sums, pc, wants, done, role, made, loaded, old, placed>>
    BY <1>2 DEF vars, itemVars, attemptVars
  <2>2. (Valid' <=> Valid) /\ Listed' = Listed
    BY <2>1 DEF Valid, Listed
  <2> QED
    BY <1>2, <2>1, <2>2 DEF AloneInv, Alone, Consistent, AttemptInv, Whole, CalmInv, SavedInv,
       StageInv
<1>3. TypeInv /\ AloneInv /\ [Next]_vars /\ ~Alone' => AloneInv'
  BY DEF AloneInv
<1> QED
  BY <1>1, <1>2, <1>3

\* With one writer, what an attempt counts as done, made by it or found, is in place as
\* the manifest records it and as the checksum list has it, whatever earlier attempts
\* that stopped or were undone left behind.
THEOREM DoneHolds == Spec => []DoneIsWhole
<1>1. AloneInv => DoneIsWhole
  BY DEF AloneInv, DoneIsWhole, AttemptInv, Whole
<1> QED
  BY InitTypes, TypeStep, InitAlone, AloneStep, <1>1, PTL DEF Spec

\* With one writer, a job completes on an item that verifies and records no derivative
\* that is not there.
THEOREM CompleteHolds == Spec => []CompleteIsValid
<1>1. TypeInv /\ AloneInv => CompleteIsValid
  <2> SUFFICES ASSUME TypeInv, AloneInv, Alone, NEW p \in Processes, pc[p] = "complete"
               PROVE  /\ Valid
                      /\ \A r \in Roles : disk[Manifest][r] \in {Nothing, disk[Output(r)]}
    BY DEF CompleteIsValid
  <2>1. Valid /\ Consistent(sums)
    BY DEF AloneInv, AttemptInv, CalmInv, Calm
  <2>2. sums[Manifest] \in Record /\ disk[Manifest] = sums[Manifest]
    BY <2>1, Paths, Missing DEF Valid, Listed, Consistent
  <2>3. ASSUME NEW r \in Roles, disk[Manifest][r] # Nothing
        PROVE  disk[Output(r)] = disk[Manifest][r]
    BY <2>1, <2>2, <2>3, Paths DEF Valid, Listed, Consistent
  <2> QED
    BY <2>1, <2>3
<1> QED
  BY InitTypes, TypeStep, InitAlone, AloneStep, <1>1, PTL DEF Spec

\* A publication that undoes itself to the end leaves an item that verifies and neither
\* records nor lists the derivative; an output that is a file is gone, and only segments
\* whose removal failed in silence may stay.
THEOREM UndoHolds == Spec => UndoRestores
<1>1. ASSUME TypeInv, AloneInv, Next, Alone, NEW p \in Processes,
             pc[p] = "undo_log", pc'[p] = "idle", faults' = faults
      PROVE  /\ Valid'
             /\ disk'[Manifest][role[p]] = Nothing
             /\ Output(role[p]) \notin Listed'
             /\ role[p] \notin Segmented => disk'[Output(role[p])] = Nothing
  <2>1. UndoLog(p)
    <3>1. PICK q \in Processes :
            \/ \E wanted \in SUBSET Roles : StartAttempt(q, wanted)
            \/ Step(q) \/ PublicationRaises(q) \/ Stop(q)
      BY <1>1 DEF Next
    <3>2. Keeps(q)
      BY <1>1, <3>1, StartKeeps, PruneKeeps, AcquireKeeps, CreateKeeps, PublishKeeps, EndKeeps
      DEF Step
    <3>3. q = p
      BY <1>1, <3>2 DEF Keeps, OnlyMine
    <3>4. ~Stop(q) /\ ~PublicationRaises(q)
      BY <1>1, <3>3 DEF Stop, PublicationRaises, Publishing, TypeInv, TypeOK
    <3>5. Step(p)
      BY <1>1, <3>1, <3>3, <3>4 DEF StartAttempt
    <3> QED
      BY <1>1, <3>5 DEF Step, PruneItem, Acquire, ReuseItem, MissItem, StageItem, CheckAbsent,
         InstallItem, CreateDerivative, ChooseDerivative, VerifyItem, ReadManifest,
         ExamineDerivative, Convert, SaveOriginals, Publish, PlaceOutput, PlaceLog,
         WriteManifest, WriteSums, ConfirmPublication, UndoPublication, UndoManifest, UndoSums,
         UndoOutput, FinishDerivatives, CompleteJob
  <2>2. SavedInv(p) /\ StageInv(p) /\ role[p] \in Roles /\ old[p].manifest \in Record
    BY <1>1 DEF AloneInv, AttemptInv, Undoing, TypeInv, TypeOK, ItemInv
  <2>3. /\ disk[Manifest] = old[p].manifest /\ sums = old[p].sums
        /\ role[p] \notin Segmented => disk[Output(role[p])] = Nothing
    BY <1>1, <2>2 DEF StageInv
  <2>4. disk' = [disk EXCEPT ![Log(role[p])] = old[p].log] /\ sums' = sums
    BY <2>1 DEF UndoLog
  <2>5. /\ \A f \in Path \ {Log(role[p])} : disk'[f] = disk[f]
        /\ disk'[Log(role[p])] = old[p].log
    <3>1. Log(role[p]) \in Path /\ disk \in [Path -> File]
      BY <1>1, <2>2, Paths DEF TypeInv, TypeOK
    <3> QED
      BY <2>4, <3>1
  <2>6. ASSUME NEW f \in Path, sums[f] # Nothing PROVE disk'[f] = sums[f]
    <3>1. CASE f = Log(role[p])
      BY <2>2, <2>3, <2>5, <2>6, <3>1 DEF SavedInv
    <3>2. CASE f = Manifest
      BY <2>2, <2>3, <2>5, <3>2, Paths DEF SavedInv
    <3>3. CASE f = Output(role[p])
      BY <2>2, <2>3, <2>6, <3>3 DEF SavedInv
    <3>4. CASE f \in Path \ {Manifest, Output(role[p]), Log(role[p])}
      BY <2>2, <2>3, <2>5, <2>6, <3>4 DEF SavedInv
    <3> QED
      BY <3>1, <3>2, <3>3, <3>4
  <2>7. sums[Manifest] # Nothing /\ Manifest \in Path
    BY <2>2, <2>3, Paths, Missing DEF SavedInv
  <2>8. Valid'
    BY <2>4, <2>6, <2>7 DEF Valid, Listed
  <2>9. disk'[Manifest][role[p]] = Nothing /\ Output(role[p]) \notin Listed'
    BY <2>2, <2>3, <2>4, <2>5, Paths DEF SavedInv, Listed
  <2> QED
    BY <2>2, <2>3, <2>5, <2>8, <2>9, Paths
<1>2. TypeInv /\ AloneInv /\ [Next]_vars
        => [Alone =>
              \A p \in Processes :
                pc[p] = "undo_log" /\ pc'[p] = "idle" /\ faults' = faults
                  => /\ Valid'
                     /\ disk'[Manifest][role[p]] = Nothing
                     /\ Output(role[p]) \notin Listed'
                     /\ role[p] \notin Segmented => disk'[Output(role[p])] = Nothing]_vars
  BY <1>1
<1> QED
  BY InitTypes, TypeStep, InitAlone, AloneStep, <1>2, PTL DEF Spec, UndoRestores
=============================================================================

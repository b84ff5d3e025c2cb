----------------------------- MODULE RecycleBin -----------------------------
(***************************************************************************)
(* Removals by the filesystem method and the recycle bin                   *)
(* (src/internal/executor fsops, confined, methods, disc, restore): files  *)
(* are moved part by part into a dated folder of the bin, by rename or by  *)
(* copy when the bin is on another device, rolled back when a part fails,  *)
(* restored on request, and expired days are emptied.                      *)
(*                                                                         *)
(* The executor's lock makes its operations exclusive; the process can die *)
(* at any step, every filesystem call can fail, and the library's owner    *)
(* changes it at any time.  A check and the rename or unlink that follows  *)
(* it at once are one step.  A location holds 0 (nothing), a file f > 0,   *)
(* or -f, an unfinished copy of f.                                         *)
(***************************************************************************)
EXTENDS Integers, Sequences, FiniteSets, FiniteSetsExt, SequencesExt

CONSTANTS
  OwnerSlots,       \* the library paths whose files the library's owner changes
  Removal,          \* the approved removals by the filesystem
  PartSlots,        \* removal -> the library paths of its parts, in order
  RemovalKind,      \* removal -> "file" or "disc" (a full-disc backup's entries)
  SlotInfo,         \* library path -> what fsChoice looks at
  BinSettings,      \* the recycle bin settings to consider
  BinDevices,       \* where the bin can be: "same" or "other" device
  CleanupDays,      \* RecycleBinCleanupDays, 0 keeps everything
  MaxDay,           \* bound: days
  MaxFiles,         \* bound: files that ever exist
  MaxFaults,        \* bound: failing calls and crashes
  MaxNames          \* bound: names uniqueName tries

Slots == DOMAIN SlotInfo

\* Files are numbered: those of the library at first, one on each path, then
\* the ones that arrive.
ASSUME RecycleAssumption ==
  /\ MaxDay \in Nat \ {0} /\ MaxFiles \in Nat /\ MaxFaults \in Nat /\ MaxNames \in Nat /\ CleanupDays \in Nat
  /\ IsFiniteSet(Slots)
  /\ {SlotInfo[s].file : s \in Slots} = 1..Cardinality(Slots)
  /\ \A s, t \in Slots : SlotInfo[s].file = SlotInfo[t].file => s = t
  /\ PartSlots \in [Removal -> Seq(Slots) \ {<<>>}]
  /\ \A b \in BinSettings : b.set \in BOOLEAN

Lib(s) == <<0, s, 1>>                             \* a library path
BinPaths == (1..MaxDay) \X Slots \X (1..MaxNames)  \* day, name, number
LibPaths == {Lib(s) : s \in Slots}
Locations == LibPaths \cup BinPaths

VARIABLES
  disk,             \* location -> content
  born,             \* files so far
  erased,           \* files the library's owner removed
  today,
  bin,              \* [set, problems, content, device] of the configured bin
  act,              \* removal -> the stored action
  job,              \* the operation that holds the executor's lock
  faultsLeft

recycleVars == <<disk, born, erased, today, bin, act, job, faultsLeft>>

NoJob == [op |-> "none"]
Exists(l) == disk[l] # 0
Put(d, l, c) == [d EXCEPT ![l] = c]
Moved(d, src, dst) == [d EXCEPT ![dst] = d[src], ![src] = 0]

-----------------------------------------------------------------------------
\* validateRecycleBin: the configured folder stays clear of everything it
\* must (Paths says which).  Without a usable bin nothing is recycled.
binUsable(b) == b.set /\ b.problems = {}

\* checkBinAdoptable: marked as Dupearr's, or nothing in it but ignore files.
checkBinAdoptable == bin.content # "foreign"
hasBinMarker == bin.content = "marked"

\* fsChoice for one part: mapped, a regular file under a mapped root and in a
\* library folder, a video file outside any disc, of the size that was
\* verified; and the move into the bin stays within one kind of share.
partUsable(s) ==
  LET i == SlotInfo[s]
  IN  i.mapped /\ i.inRoot /\ i.inLibrary /\ i.video /\ ~i.insideDisc /\ disk[Lib(s)] > 0 /\ ~i.shareMix

\* discChoice for one entry: no video check, but it holds no library folder
\* and no bin, and the bin is on its device.
entryUsable(s) ==
  LET i == SlotInfo[s]
  IN  i.mapped /\ i.inRoot /\ i.inLibrary /\ disk[Lib(s)] > 0 /\ ~i.shareMix /\ bin.device = "same"

fsChoice(a) ==
  /\ \A k \in DOMAIN PartSlots[a] :
       IF RemovalKind[a] = "disc" THEN entryUsable(PartSlots[a][k]) ELSE partUsable(PartSlots[a][k])
  /\ RemovalKind[a] = "disc" => bin.set
  /\ bin.set => binUsable(bin) /\ checkBinAdoptable

-----------------------------------------------------------------------------
\* The plan of a removal: the identity of every part is taken here and
\* checked again before anything moves.
PlanRemoval(a) ==
  /\ job = NoJob /\ act[a].status = "queued" /\ fsChoice(a)
  /\ act' = [act EXCEPT ![a].status = "running", ![a].ids = [k \in DOMAIN PartSlots[a] |-> disk[Lib(PartSlots[a][k])]]]
  /\ job' = [op |-> "remove", a |-> a, step |-> "planned", day |-> today, done |-> <<>>, lost |-> <<>>,
             dir |-> "forward", dst |-> <<>>]
  /\ UNCHANGED <<disk, born, erased, today, bin, faultsLeft>>

\* No method fits: the removal fails and touches nothing.
RefuseRemoval(a) ==
  /\ job = NoJob /\ act[a].status = "queued" /\ ~fsChoice(a)
  /\ act' = [act EXCEPT ![a].status = "refused"]
  /\ UNCHANGED <<disk, born, erased, today, bin, job, faultsLeft>>

\* openPlannedPart: is it still the planned file?
asPlanned(a, k) == disk[Lib(PartSlots[a][k])] = act[a].ids[k]
\* A disc is measured again: its fingerprint is that of all its entries.
discMeasured(a) == \A k \in DOMAIN PartSlots[a] : asPlanned(a, k)
partsOpened(a) == \A k \in DOMAIN PartSlots[a] : asPlanned(a, k)

\* Every part is looked at first: one that changed makes the removal stale.
OpenParts ==
  /\ job.op = "remove" /\ job.step = "planned"
  /\ IF IF RemovalKind[job.a] = "disc" THEN discMeasured(job.a) ELSE partsOpened(job.a)
     THEN /\ job' = [job EXCEPT !.step = IF bin.set THEN "pinned" ELSE "deleting", !.day = today]
          /\ UNCHANGED act
     ELSE /\ act' = [act EXCEPT ![job.a].status = "skipped"]
          /\ job' = NoJob
  /\ UNCHANGED <<disk, born, erased, today, bin, faultsLeft>>

\* openBin: create it, refuse a folder with foreign content, write the ignore
\* files and the marker.
openBin ==
  /\ job.op = "remove" /\ job.step = "pinned"
  /\ IF checkBinAdoptable
     THEN /\ bin' = [bin EXCEPT !.content = "marked"]
          /\ job' = [job EXCEPT !.step = "next"] /\ UNCHANGED act
     ELSE /\ act' = [act EXCEPT ![job.a].status = "failed"]
          /\ job' = NoJob /\ UNCHANGED bin
  /\ UNCHANGED <<disk, born, erased, today, faultsLeft>>

\* Without a bin the parts are deleted one by one; a failure leaves the
\* earlier ones deleted.
removeEntry ==
  /\ job.op = "remove" /\ job.step = "deleting"
  /\ LET k == Len(job.done) + 1
         s == Lib(PartSlots[job.a][k])
     IN  \/ /\ asPlanned(job.a, k)
            /\ disk' = Put(disk, s, 0)
            /\ IF k = Len(PartSlots[job.a])
               THEN act' = [act EXCEPT ![job.a].status = "succeeded"] /\ job' = NoJob
               ELSE job' = [job EXCEPT !.done = Append(@, <<s, s>>)] /\ UNCHANGED act
            /\ UNCHANGED faultsLeft
         \/ /\ (faultsLeft > 0 \/ ~asPlanned(job.a, k))
            /\ faultsLeft' = IF asPlanned(job.a, k) THEN faultsLeft - 1 ELSE faultsLeft
            /\ act' = [act EXCEPT ![job.a].status = "failed"] /\ job' = NoJob
            /\ UNCHANGED disk
  /\ UNCHANGED <<born, erased, today, bin>>

-----------------------------------------------------------------------------
(* The mover.  A removal moves its parts into the bin and, when one fails, *)
(* the moved ones back; a restore moves them out and, when one fails, back *)
(* in.                                                                     *)

\* Mutated forms: the source goes first; a
\* failed part leaves the others in the bin.
copyStartAndDrop(d, src, dst) == [d EXCEPT ![dst] = -d[src], ![src] = 0]
FailingAtOnce == [job EXCEPT !.dir = "back", !.step = "next", !.dst = <<>>, !.done = <<>>]

occupied(l) == Exists(l)

\* uniqueName: name, name_2, ...; 0 when every name is taken.
uniqueName(day, s) ==
  LET free == {n \in 1..MaxNames : ~occupied(<<day, s, n>>)} IN IF free = {} THEN 0 ELSE Min(free)

\* A disc's entries keep their names in the bin.
discDst(day, s) == <<day, s, 1>>

Total == Len(PartSlots[job.a])

\* The move at hand: where from, where to and which file it must be (0: any).
current ==
  LET k == Len(job.done) + 1
      s == PartSlots[job.a][k]
      last == job.done[Len(job.done)]
  IN  IF job.dir = "back" THEN [src |-> last[2], dst |-> last[1], want |-> 0]
      ELSE IF job.op = "restore" THEN [src |-> act[job.a].recycle[k], dst |-> Lib(s), want |-> 0]
      ELSE [src |-> Lib(s), want |-> act[job.a].ids[k],
            dst |-> IF RemovalKind[job.a] = "disc" THEN discDst(job.day, s) ELSE <<job.day, s, uniqueName(job.day, s)>>]

pending == IF job.dir = "back" THEN job.done # <<>> ELSE Len(job.done) < Total

\* A move that must not start: the source is missing or not the planned file,
\* or something is at the destination.
blocked(m) ==
  \/ m.dst \notin Locations
  \/ ~Exists(m.src) \/ (m.want # 0 /\ disk[m.src] # m.want)
  \/ occupied(m.dst)

Advanced(m) ==
  IF job.dir = "back" THEN [job EXCEPT !.done = Front(@), !.step = "next", !.dst = <<>>]
  ELSE [job EXCEPT !.done = Append(@, <<m.src, m.dst>>), !.step = "next", !.dst = <<>>]

\* rollback and undo: a failed move turns the job around; one that fails on
\* the way back stays where it is and is reported.
Failing ==
  IF job.dir = "forward" THEN [job EXCEPT !.dir = "back", !.step = "next", !.dst = <<>>]
  ELSE [job EXCEPT !.lost = Append(@, job.done[Len(job.done)]), !.done = Front(@), !.step = "next", !.dst = <<>>]

copyStart(d, src, dst) == [d EXCEPT ![dst] = -d[src]]

\* moveEntry: rename, or start a copy when the bin is on another device (a
\* disc is never copied).
moveEntry ==
  /\ job.op \in {"remove", "restore"} /\ job.step = "next" /\ pending
  /\ LET m == current
     IN  \/ /\ ~blocked(m) /\ bin.device = "same"
            /\ disk' = Moved(disk, m.src, m.dst) /\ job' = Advanced(m)
         \/ /\ ~blocked(m) /\ bin.device = "other" /\ RemovalKind[job.a] # "disc" /\ disk[m.src] > 0
            /\ disk' = copyStart(disk, m.src, m.dst)
            /\ job' = [job EXCEPT !.step = "copying", !.dst = <<m.src, m.dst>>]
         \/ /\ blocked(m) \/ (bin.device = "other" /\ RemovalKind[job.a] = "disc") \/ disk[m.src] < 0
            /\ job' = Failing /\ UNCHANGED disk
  /\ UNCHANGED <<born, erased, today, bin, act, faultsLeft>>

\* copyAndRemove, first half: the data is copied, counted and synced.
CopyData ==
  /\ job.op # "none" /\ job.step = "copying"
  /\ disk' = Put(disk, job.dst[2], -disk[job.dst[2]])
  /\ job' = [job EXCEPT !.step = "copied"]
  /\ UNCHANGED <<born, erased, today, bin, act, faultsLeft>>

\* Second half: the source goes only if it is still the file that was copied.
copyAndRemove ==
  /\ job.op # "none" /\ job.step = "copied"
  /\ LET src == job.dst[1]
         dst == job.dst[2]
     IN  IF disk[src] = disk[dst]
         THEN disk' = Put(disk, src, 0) /\ job' = Advanced([src |-> src, dst |-> dst, want |-> 0])
         ELSE disk' = Put(disk, dst, 0) /\ job' = Failing
  /\ UNCHANGED <<born, erased, today, bin, act, faultsLeft>>

\* Any call of a move fails: what was copied so far is discarded.
CallFails ==
  /\ job.op \in {"remove", "restore"} /\ job.step \in {"next", "copying", "copied"} /\ faultsLeft > 0
  /\ job.step = "next" => pending
  /\ disk' = IF job.step = "next" THEN disk ELSE Put(disk, job.dst[2], 0)
  /\ job' = Failing /\ faultsLeft' = faultsLeft - 1
  /\ UNCHANGED <<born, erased, today, bin, act>>

discStillThere == RemovalKind[job.a] = "disc" /\ \E k \in 1..Total : Exists(Lib(PartSlots[job.a][k]))

\* Every part is in the bin.  A disc must also be gone from its place: what
\* reappeared there rolls the removal back.
RemovalDone ==
  /\ job.op = "remove" /\ job.step = "next" /\ job.dir = "forward" /\ ~pending
  /\ IF discStillThere
     THEN job' = Failing /\ UNCHANGED act
     ELSE /\ act' = [act EXCEPT ![job.a].status = "succeeded",
                                ![job.a].recycle = [k \in 1..Total |-> job.done[k][2]]]
          /\ job' = NoJob
  /\ UNCHANGED <<disk, born, erased, today, bin, faultsLeft>>

\* The rollback is over; parts that could not be moved back are recorded.
RolledBack ==
  /\ job.op = "remove" /\ job.step = "next" /\ job.dir = "back" /\ ~pending
  /\ act' = [act EXCEPT ![job.a].status = "failed",
                        ![job.a].recycle = [k \in DOMAIN job.lost |-> job.lost[k][2]]]
  /\ job' = NoJob /\ UNCHANGED <<disk, born, erased, today, bin, faultsLeft>>

-----------------------------------------------------------------------------
\* Restore: a succeeded removal with recorded bin paths that all exist in a
\* marked bin; every original path is free and still usable.
fileRestorable(a, k) ==
  LET i == SlotInfo[PartSlots[a][k]]
  IN  /\ Exists(act[a].recycle[k]) /\ ~Exists(Lib(PartSlots[a][k]))
      /\ i.mapped /\ i.inRoot /\ i.video /\ i.inLibrary /\ ~i.shareMix
\* Of a disc, whatever entries are in the bin.
discRestorable(a, k) ==
  LET i == SlotInfo[PartSlots[a][k]]
  IN  /\ Exists(act[a].recycle[k]) /\ ~Exists(Lib(PartSlots[a][k]))
      /\ i.inRoot /\ i.inLibrary /\ ~i.shareMix
restorable(a) ==
  /\ act[a].status = "succeeded" /\ act[a].recycle # <<>> /\ binUsable(bin) /\ hasBinMarker
  /\ IF RemovalKind[a] = "disc" THEN \A k \in DOMAIN act[a].recycle : discRestorable(a, k)
     ELSE /\ Len(act[a].recycle) = Len(PartSlots[a])
          /\ \A k \in DOMAIN act[a].recycle : fileRestorable(a, k)

Restore(a) ==
  /\ job = NoJob /\ restorable(a)
  /\ job' = [op |-> "restore", a |-> a, step |-> "next", day |-> today, done |-> <<>>, lost |-> <<>>,
             dir |-> "forward", dst |-> <<>>]
  /\ UNCHANGED <<disk, born, erased, today, bin, act, faultsLeft>>

\* afterRestore: the group is ignored so that no scan offers the file again,
\* and the record of the bin paths is cleared.
afterRestore ==
  /\ job.op = "restore" /\ job.step = "next" /\ job.dir = "forward" /\ ~pending
  /\ act' = [act EXCEPT ![job.a].recycle = <<>>, ![job.a].ignored = TRUE]
  /\ job' = NoJob /\ UNCHANGED <<disk, born, erased, today, bin, faultsLeft>>

RestoreUndone ==
  /\ job.op = "restore" /\ job.step = "next" /\ job.dir = "back" /\ ~pending
  /\ job' = NoJob /\ UNCHANGED <<disk, born, erased, today, bin, act, faultsLeft>>

expired(d) == CleanupDays > 0 /\ d < today - CleanupDays

\* CleanRecycleBin: dated folders before the cutoff; one that cannot be
\* removed is left for the next time.
CleanRecycleBin ==
  /\ job = NoJob /\ binUsable(bin) /\ hasBinMarker
  /\ \E days \in SUBSET {d \in 1..MaxDay : expired(d)} :
       disk' = [l \in Locations |-> IF l \in BinPaths /\ l[1] \in days THEN 0 ELSE disk[l]]
  /\ disk' # disk
  /\ UNCHANGED <<born, erased, today, bin, act, job, faultsLeft>>

-----------------------------------------------------------------------------
\* The process dies: the removal is found "running" and marked failed by the
\* next start; nobody finishes or undoes its moves.
Crash ==
  /\ job # NoJob /\ faultsLeft > 0
  /\ act' = IF job.op = "remove" THEN [act EXCEPT ![job.a].status = "interrupted"]
            ELSE act
  /\ job' = NoJob /\ faultsLeft' = faultsLeft - 1
  /\ UNCHANGED <<disk, born, erased, today, bin>>

\* The library's owner adds or removes a file, but leaves alone one that is
\* being copied back at that moment.
beingWritten(l) == job.op # "none" /\ job.dst # <<>> /\ l = job.dst[2]
Appear(s) ==
  /\ s \in OwnerSlots /\ disk[Lib(s)] = 0 /\ born < MaxFiles
  /\ born' = born + 1 /\ disk' = Put(disk, Lib(s), born + 1)
  /\ UNCHANGED <<erased, today, bin, act, job, faultsLeft>>
Erase(s) ==
  /\ s \in OwnerSlots /\ disk[Lib(s)] # 0 /\ disk' = Put(disk, Lib(s), 0) /\ erased' = erased \cup {disk[Lib(s)]}
  /\ ~beingWritten(Lib(s))
  /\ born < MaxFiles          \* bound: only what makes room for another file
  /\ UNCHANGED <<born, today, bin, act, job, faultsLeft>>

\* A mapping or library added later can reach into the bin's folder.
PlacementDrifts ==
  /\ job = NoJob /\ bin.set /\ bin.problems = {} /\ today = MaxDay
  /\ bin' = [bin EXCEPT !.problems = {"holds_mapping"}]
  /\ UNCHANGED <<disk, born, erased, today, act, job, faultsLeft>>

NextDay ==
  /\ today < MaxDay /\ today' = today + 1
  /\ UNCHANGED <<disk, born, erased, bin, act, job, faultsLeft>>

RecycleInit ==
  /\ born = Cardinality(Slots)
  /\ disk = [l \in Locations |-> IF l \in LibPaths THEN SlotInfo[l[2]].file ELSE 0]
  /\ erased = {} /\ today = 1 /\ job = NoJob /\ faultsLeft = MaxFaults
  /\ bin \in {[set |-> b.set, problems |-> b.problems, content |-> b.content, device |-> d] : b \in BinSettings, d \in BinDevices}
  /\ act = [a \in Removal |-> [status |-> "queued", ids |-> <<>>, recycle |-> <<>>, ignored |-> FALSE]]

-----------------------------------------------------------------------------
\* Where a file is, as the promise sees it: a copy under way does not count.
wholeAt(f) == {l \in Locations : disk[l] = f /\ ~beingWritten(l)}
placeOf(f) ==
  IF f > born THEN <<"unborn", 0>>
  ELSE IF f \in erased THEN <<"gone", 0>>
  ELSE IF wholeAt(f) \cap LibPaths # {} THEN <<"library", 0>>
  ELSE IF wholeAt(f) # {} THEN <<"bin", Max({l[1] : l \in wholeAt(f)})>>
  ELSE <<"gone", 0>>

Promise == INSTANCE Custody WITH CustodyFiles <- 1..MaxFiles, KeepDays <- CleanupDays,
                                 place <- [f \in 1..MaxFiles |-> placeOf(f)], clock <- today

\* Moving, rolling back, restoring and cleaning, with calls that fail and a
\* process that dies anywhere, implement the promise: no file is lost, and a
\* recycled one stays for the configured days (moveEntry, copyAndRemove,
\* performFS, restoreMoves, CleanRecycleBin).
KeepsCustody == Promise!CustodySpec

\* A removal that fails reports every part it could not put back: when it
\* reports none, all of them are in the library (or were taken by its owner),
\* never half of a version (rollback in performFS and performDisc).
RollbackWhole ==
  [][\A a \in Removal :
       act[a].status = "running" /\ act'[a].status = "failed" /\ act'[a].recycle = <<>> /\ bin.set
         => \A k \in DOMAIN act[a].ids :
              act[a].ids[k] \in erased' \/ \E s \in Slots : disk'[Lib(s)] = act[a].ids[k]]_recycleVars
=============================================================================

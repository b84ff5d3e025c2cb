--------------------------- MODULE RemovalsProofs ---------------------------
(***************************************************************************)
(* The life of a removal, proved for every set of groups, versions, files  *)
(* and actions, every choice of concurrent writers, and any number of      *)
(* crashes, lost writes and files deleted by somebody else.                *)
(*                                                                         *)
(* The argument has two layers.  Every step of the scanner, the executor,  *)
(* the API and the recovery is a transaction of the group store or leaves  *)
(* it alone, so what the store promises its clients holds here             *)
(* (UsesTheStore).  And what a queue run read before it started to remove  *)
(* files stays true of the disk while it removes them (RemovalInv).        *)
(***************************************************************************)
EXTENDS Removals, GroupStoreProofs, WellFoundedInduction

-----------------------------------------------------------------------------
(* The inductive invariant.                                                *)

Known == {g \in Group : Exists(db, g)}
Used  == {a \in ActionId : db.act[a].status # "none"}

\* What somebody works on exists in the store.
LockRefs ==
  /\ lk.op \in {"resolve", "approve", "cancel"} => lk.g \in Known
  /\ lk.op = "approve" /\ lk.pc \in {"leftovers", "create"} => lk.todo # {}

RunRefs ==
  /\ run.listed \cup run.todo \subseteq Used
  /\ run.pc \in {"perform", "finish"} => run.cur \in Used
  /\ run.pc = "finish" => run.result # "none"

BootRefs == boot.todo \cup boot.cancel \subseteq Used

ApiRefs == unignores \cup followups \subseteq Known

\* An approval can always be given a later stamp.
StampsBounded == \E m \in Nat : \A a \in ActionId : db.act[a].stamp <= m

\* No file is both there and gone, and the last copy was not ours to delete.
WorldOK == disk \cap gone = {} /\ NeverLastCopy

\* A group that is being removed has a keeper, on the disk unless somebody else
\* deleted it, in another file than any version still to be removed.
Executing == run.pc \in {"exec", "perform", "finish"}

KeepersSafe ==
  /\ Executing =>
       /\ run.keepers # {}
       /\ \A k \in run.keepers :
            /\ FileOf[k] \in disk \cup gone
            /\ \A a \in run.todo : FileOf[k] # FileOf[VersionOf(a)]
  /\ run.pc = "perform" =>
       \A k \in run.keepers : FileOf[k] # FileOf[VersionOf(run.cur)]

\* A file is only ever touched for a removal that is not simulated.
RealRun == run.pc = "perform" => ~run.dry /\ ~db.act[run.cur].dryRun

\* Nobody takes a version into a group while a scan holds the copy it read.
CopyPresence ==
  lk.op = "store" =>
    \A v \in Version : db.file[lk.g][v].decision = "absent" =>
                         lk.copy.file[v].decision = "absent"

\* No version still to be removed was relied on earlier in the run.
KeptApart ==
  /\ Executing => \A a \in run.todo : VersionOf(a) \notin run.keptInRun
  /\ run.pc = "perform" => VersionOf(run.cur) \notin run.keptInRun

Refs == LockRefs /\ RunRefs /\ BootRefs /\ ApiRefs

\* A run that removes files.
RunSafe == KeepersSafe /\ RealRun /\ KeptApart

RemovalInv ==
  /\ TypeOK /\ Sound(db)
  /\ Refs /\ StampsBounded
  /\ WorldOK /\ RunSafe /\ CopyPresence

-----------------------------------------------------------------------------
(* Choices the code makes have a result.                                   *)

\* A set of natural numbers that is not empty has a smallest one.
LEMMA LeastNat ==
  ASSUME NEW S \in SUBSET Nat, S # {}
  PROVE  \E x \in S : \A y \in S : x <= y
<1> DEFINE R == OpToRel(<, Nat)
<1>1. IsWellFoundedOn(R, Nat)
  BY NatLessThanWellFounded
<1>2. \A x, y \in Nat : <<y, x>> \in R <=> y < x
  BY DEF OpToRel
<1> HIDE DEF R
<1>3. PICK x \in S : \A y \in S : ~(<<y, x>> \in R)
  BY <1>1, WFMin
<1>4. \A y \in S : ~(y < x)
  BY <1>2, <1>3, Zenon
<1>5. \A y \in S : x <= y
  BY <1>4
<1> QED BY <1>5

\* ListPending and the recovery read the actions in the order of their ids:
\* there is an oldest one.
LEMMA OldestIn ==
  ASSUME NEW ids \in SUBSET ActionId, ids # {}
  PROVE  Oldest(ids) \in ids
<1>1. \E x \in ids : \A y \in ids : x <= y
  BY LeastNat, ActionIdAssumption
<1> QED BY <1>1 DEF Oldest

\* A set of natural numbers with an upper bound has a largest one.
LEMMA LargestNat ==
  ASSUME NEW S \in SUBSET Nat, S # {}, NEW m \in Nat, \A n \in S : n <= m
  PROVE  \E x \in S : \A y \in S : y <= x
<1> DEFINE U == {n \in Nat : \A k \in S : k <= n}
<1>1. U \in SUBSET Nat /\ U # {}
  OBVIOUS
<1>2. PICK u \in U : \A y \in U : u <= y
  BY <1>1, LeastNat
<1>3. u \in S
  <2> SUFFICES ASSUME u \notin S PROVE FALSE
    OBVIOUS
  <2>1. u \in Nat /\ \A k \in S : k < u
    BY <1>2
  <2>2. PICK k \in S : TRUE
    OBVIOUS
  <2>3. u - 1 \in Nat /\ \A n \in S : n <= u - 1
    BY <2>1, <2>2
  <2>4. u - 1 \in U
    BY <2>3
  <2> QED BY <1>2, <2>1, <2>4
<1> QED BY <1>2, <1>3

\* The stamp of an approval: a group's stamps are bounded, so there is a later
\* one.
LEMMA NextStampNat ==
  ASSUME db \in Database, StampsBounded, NEW g \in Group
  PROVE  NextStamp(g) \in Nat /\ \A n \in StampsOf(g) : n < NextStamp(g)
<1> DEFINE S == StampsOf(g)
<1>1. S \in SUBSET Nat
  BY DEF StampsOf, ActionsIn, Database, Action
<1>2. PICK m \in Nat : \A n \in S : n <= m
  BY DEF StampsOf, ActionsIn, StampsBounded
<1>3. CASE S = {}
  BY <1>3 DEF NextStamp
<1>4. CASE S # {}
  <2>1. \E n \in S : \A k \in S : k <= n
    BY <1>1, <1>2, <1>4, LargestNat
  <2>2. LastStamp(g) \in S /\ \A k \in S : k <= LastStamp(g)
    BY <2>1 DEF LastStamp
  <2>3. NextStamp(g) = LastStamp(g) + 1
    BY <1>4 DEF NextStamp
  <2> HIDE DEF S
  <2> QED BY <1>1, <2>2, <2>3 DEF S
<1> QED BY <1>3, <1>4

-----------------------------------------------------------------------------
(* Every step is a transaction of the store, or leaves it alone.           *)

\* The transactions as the components call them, on groups and actions that
\* exist.
LEMMA StoreCalls ==
  /\ \A g \in Group, e \in Incoming : db' = Upsert(db, g, e) => StoreNext
  /\ \A g \in Known, s \in GroupStatus : db' = UpdateStatus(db, g, s) => StoreNext
  /\ \A g \in Group, from \in SUBSET GroupStatus, s \in GroupStatus :
       db' = UpdateStatusIf(db, g, from, s) => StoreNext \/ db' = db
  /\ \A g \in Known : db' = CancelPendingForGroup(db, g) => StoreNext
  /\ \A a \in Used, s \in ActionStatus \ {"none"} :
       db' = UpdateAction(db, a, s) => StoreNext
<1>1. \A g \in Known, s \in GroupStatus : db' = UpdateStatus(db, g, s) => StoreNext
  BY DEF StoreNext, GroupWrite, Known
<1>2. \A g \in Group, from \in SUBSET GroupStatus, s \in GroupStatus :
        db' = UpdateStatusIf(db, g, from, s) => StoreNext \/ db' = db
  <2> SUFFICES ASSUME NEW g \in Group, NEW from \in SUBSET GroupStatus,
                      NEW s \in GroupStatus, db' = UpdateStatusIf(db, g, from, s)
               PROVE  StoreNext \/ db' = db
    OBVIOUS
  <2>1. db.status[g] \in from => g \in Known
    BY DEF Known, Exists, GroupStatus
  <2> QED BY <1>1, <2>1 DEF UpdateStatusIf
<1>3. \A g \in Known : db' = CancelPendingForGroup(db, g) => StoreNext
  BY DEF StoreNext, GroupWrite, Known
<1>4. \A a \in Used, s \in ActionStatus \ {"none"} :
        db' = UpdateAction(db, a, s) => StoreNext
  BY DEF StoreNext, ActionWrite, Used
<1>5. \A g \in Group, e \in Incoming : db' = Upsert(db, g, e) => StoreNext
  BY DEF StoreNext, GroupWrite
<1> QED BY <1>1, <1>2, <1>3, <1>4, <1>5

\* engine.finish and dropStaleApproval give a status, for any group that was
\* read.
LEMMA StoredStatusOK ==
  ASSUME NEW copy \in GroupRow, NEW fresh \in AllOutcomes, NEW keep
  PROVE  StoredStatus(copy, fresh, keep) \in GroupStatus
BY DEF StoredStatus, AllOutcomes, GroupStatus

\* What a scan or a re-evaluation hands to the store is a group with decisions.
LEMMA EvaluatedIncoming ==
  ASSUME NEW copy \in GroupRow, NEW files, NEW engineKeep, NEW protected,
         NEW fresh \in AllOutcomes
  PROVE  Evaluated(copy, files, engineKeep, protected, fresh) \in Incoming
<1> DEFINE keep == Decided(engineKeep, protected, copy.file) \cap files
           st == StoredStatus(copy, fresh, keep)
           ov == [v \in Version |-> ReadOverride(copy.file, v)]
<1>1. st \in GroupStatus
  BY StoredStatusOK
<1>2. ov \in [Version -> Override]
  BY DEF ReadOverride, GroupRow, File, Override
<1>3. Evaluated(copy, files, engineKeep, protected, fresh) =
        [status    |-> st,
         engine    |-> [v \in Version |-> IF v \in engineKeep THEN "keep" ELSE "remove"],
         decision  |-> [v \in Version |-> IF v \notin files THEN "absent"
                                          ELSE IF v \in keep THEN "keep" ELSE "remove"],
         protected |-> [v \in Version |-> v \in protected],
         override  |-> ov]
  BY DEF Evaluated
<1> HIDE DEF st, ov, keep
<1> QED BY <1>1, <1>2, <1>3 DEF Incoming, Decision

\* So is what touch hands back.
LEMMA UnchangedIncoming ==
  ASSUME NEW copy \in GroupRow, copy.status \notin Closed \cup {"absent"}
  PROVE  Unchanged(copy) \in Incoming
<1> DEFINE ov == [v \in Version |-> ReadOverride(copy.file, v)]
<1>1. ov \in [Version -> Override]
  BY DEF ReadOverride, GroupRow, File, Override
<1>2. copy.status \in GroupStatus /\ copy.file \in [Version -> File]
  BY DEF GroupRow
<1>3. Unchanged(copy) =
        [status    |-> copy.status,
         engine    |-> [v \in Version |-> IF copy.file[v].decision = "keep"
                                          THEN "keep" ELSE "remove"],
         decision  |-> [v \in Version |-> copy.file[v].decision],
         protected |-> [v \in Version |-> copy.file[v].protected],
         override  |-> ov]
  BY DEF Unchanged
<1> HIDE DEF ov
<1> QED BY <1>1, <1>2, <1>3 DEF Incoming, Decision, File

\* finalizeGroup computes a status.
LEMMA BatchStatusOK ==
  ASSUME NEW g, NEW stamps
  PROVE  BatchStatus(g, stamps) \in GroupStatus
BY DEF BatchStatus, GroupStatus

\* The steps of whoever holds the group lock.
LEMMA LockStepStores ==
  ASSUME TypeOK, Refs, LockStep
  PROVE  StoreNext \/ db' = db
<1>1. lk \in LockType /\ lk.g \in Group /\ lk.copy \in GroupRow
  BY DEF TypeOK, LockType
<1>2. CASE StoreWrite
  <2>1. PICK files, engineKeep, protected, fresh :
          /\ fresh \in AllOutcomes
          /\ db' = Upsert(db, lk.g, Evaluated(lk.copy, files, engineKeep, protected, fresh))
    BY <1>2, RemovalsAssumption, Zenon DEF StoreWrite, FreshStatus
  <2>2. Evaluated(lk.copy, files, engineKeep, protected, fresh) \in Incoming
    BY <1>1, <2>1, EvaluatedIncoming
  <2> QED BY <1>1, <2>1, <2>2, StoreCalls
<1>3. CASE StoreTouch
  BY <1>1, <1>3, UnchangedIncoming, StoreCalls DEF StoreTouch
<1>4. CASE StoreFails
  BY <1>4 DEF StoreFails
<1>5. CASE ResolveWriteOne
  <2>1. lk.g \in Known /\ "resolved" \in GroupStatus
    BY <1>5 DEF ResolveWriteOne, Refs, LockRefs, GroupStatus
  <2> QED BY <1>5, <2>1, StoreCalls DEF ResolveWriteOne
<1>6. CASE ApproveStep
  <2>1. lk.op = "approve" /\ lk.g \in Known
    BY <1>6 DEF ApproveStep, ApproveLeftovers, ApproveCreate, ApproveCheck, ApproveQueue,
                ApproveRecheck, ApproveRollback, ApproveToReview, Refs, LockRefs
  <2>2. CASE ApproveLeftovers \/ ApproveRollback
    BY <2>1, <2>2, StoreCalls DEF ApproveLeftovers, ApproveRollback
  <2>3. CASE ApproveCheck \/ ApproveRecheck
    BY <2>3 DEF ApproveCheck, ApproveRecheck
  <2>4. CASE ApproveCreate
    <3> DEFINE v == CHOOSE v \in lk.todo : TRUE
    <3>1. v \in Version /\ lk.stamp \in Nat /\ lk.dry \in BOOLEAN
      BY <1>1, <2>4 DEF ApproveCreate, LockType, Refs, LockRefs
    <3>2. PICK a \in ActionId : /\ db.act[a].status = "none"
                                /\ db' = CreateAction(db, a, lk.g, v, lk.stamp, lk.dry)
      BY <2>4 DEF ApproveCreate, IsNextId, UnusedIds
    <3> HIDE DEF v
    <3>3. ActionWrite(a)
      BY <1>1, <3>1, <3>2 DEF ActionWrite
    <3> QED BY <3>3 DEF StoreNext
  <2>5. CASE ApproveQueue
    <3>1. lk.copy.status \in GroupStatus \cup {"absent"} /\ "queued" \in GroupStatus
      BY <1>1 DEF GroupRow, GroupStatus
    <3>2. db' = UpdateStatusIf(db, lk.g, {lk.copy.status} \ {"absent"}, "queued")
      BY <2>1, <2>5 DEF ApproveQueue, UpdateStatusIf, Known, Exists
    <3>3. {lk.copy.status} \ {"absent"} \in SUBSET GroupStatus
      BY <3>1
    <3> QED BY <1>1, <3>1, <3>2, <3>3, StoreCalls
  <2>6. CASE ApproveToReview
    <3>1. {"queued", "pending"} \in SUBSET GroupStatus /\ "review" \in GroupStatus
      BY DEF GroupStatus
    <3> QED BY <1>1, <2>6, <3>1, StoreCalls DEF ApproveToReview
  <2> QED BY <1>6, <2>2, <2>3, <2>4, <2>5, <2>6 DEF ApproveStep
<1>7. CASE CancelPendingOfGroup \/ CancelReopen
  <2>1. lk.g \in Known /\ "pending" \in GroupStatus
    BY <1>7 DEF CancelPendingOfGroup, CancelReopen, Refs, LockRefs, GroupStatus
  <2> QED BY <1>7, <2>1, StoreCalls DEF CancelPendingOfGroup, CancelReopen
<1> QED BY <1>2, <1>3, <1>4, <1>5, <1>6, <1>7 DEF LockStep

\* The writers that take no lock.
LEMMA UnlockedStores ==
  ASSUME TypeOK, Refs, NEW g \in Group, UnlockedWrite(g)
  PROVE  StoreNext \/ db' = db
<1>1. /\ "ignored" \in GroupStatus /\ "pending" \in GroupStatus /\ "review" \in GroupStatus
      /\ {"queued", "failed"} \in SUBSET GroupStatus
  BY DEF GroupStatus
<1>2. CASE Ignore(g)
  BY <1>1, <1>2, StoreCalls DEF Ignore, Known, Exists
<1>3. CASE UnignoreRead(g)
  BY <1>3 DEF UnignoreRead
<1>4. CASE UnignoreWrite(g) \/ FollowupFails(g)
  <2>1. g \in Known
    BY <1>4 DEF UnignoreWrite, FollowupFails, Refs, ApiRefs
  <2> QED BY <1>1, <1>4, <2>1, StoreCalls DEF UnignoreWrite, FollowupFails
<1>5. ASSUME NEW v \in Version, NEW o \in UserOverrides, SetUserOverride(g, v, o)
      PROVE  StoreNext
  <2>1. o \in Override
    BY RemovalsAssumption
  <2>2. /\ Exists(db, g) /\ db.file[g][v].decision # "absent"
        /\ db' = SetOverride(db, g, v, o)
    BY <1>5 DEF SetUserOverride, Exists
  <2> QED BY <2>1, <2>2 DEF StoreNext, GroupWrite
<1>6. CASE Repoint(g)
  BY <1>1, <1>6, StoreCalls DEF Repoint
<1>7. CASE ResolveUnseen(g)
  <2>1. {g} \in SUBSET {h \in Group : db.status[h] \notin Closed \cup {"absent"}}
    BY <1>7 DEF ResolveUnseen
  <2> QED BY <1>7, <2>1 DEF ResolveUnseen, StoreNext, ResolveWrite
<1> QED BY <1>2, <1>3, <1>4, <1>5, <1>6, <1>7 DEF UnlockedWrite

\* The steps of a queue run.
LEMMA RunStepStores ==
  ASSUME TypeOK, Refs, RunStep
  PROVE  StoreNext \/ db' = db
<1>1. /\ run.todo \in SUBSET ActionId /\ run.g \in Group /\ run.goal \in GroupStatus
      /\ run.result \in ActionStatus /\ run.cur \in ActionId
      /\ run.todo \subseteq Used
  BY DEF TypeOK, RunType, Refs, RunRefs
<1>2. {"running", "cancelled", "skipped", "failed"} \subseteq ActionStatus \ {"none"}
  BY DEF ActionStatus, Finished
<1>3. CASE RunEnd \/ RunPick \/ RunVerified \/ RunDefer \/ RunSkip \/ RunPerform
           \/ RunExecEnd \/ RunCount
  BY <1>3 DEF RunEnd, RunPick, RunVerified, RunDefer, RunSkip, RunPerform, RunExecEnd, RunCount
<1>4. CASE RunDrop
  <2>1. run.todo # {} => Oldest(run.todo) \in Used
    BY <1>1, OldestIn
  <2> QED BY <1>2, <1>4, <2>1, StoreCalls DEF RunDrop
<1>5. CASE RunSkipOne
  <2>1. run.todo # {} => Oldest(run.todo) \in Used
    BY <1>1, OldestIn
  <2> QED BY <1>2, <1>5, <2>1, StoreCalls DEF RunSkipOne
<1>6. CASE RunRefuse
  <2>1. PICK a \in run.todo : db' = UpdateAction(db, a, "failed")
    BY <1>6 DEF RunRefuse
  <2> QED BY <1>1, <1>2, <2>1, StoreCalls
<1>7. CASE RunExec
  <2>1. PICK a \in run.todo : db' = UpdateAction(db, a, "running")
    BY <1>7 DEF RunExec
  <2> QED BY <1>1, <1>2, <2>1, StoreCalls
<1>8. CASE RunFinish
  <2>1. run.cur \in Used /\ run.result \in ActionStatus \ {"none"}
    BY <1>1, <1>8 DEF RunFinish, Refs, RunRefs
  <2>2. db' = UpdateAction(db, run.cur, run.result) \/ db' = db
    BY <1>8 DEF RunFinish, WriteLost
  <2> QED BY <2>1, <2>2, StoreCalls
<1>9. CASE RunFail
  <2>1. {"queued", "failed"} \in SUBSET GroupStatus /\ "failed" \in GroupStatus
    BY DEF GroupStatus
  <2> QED BY <1>1, <1>9, <2>1, StoreCalls DEF RunFail, SetRunStatus
<1>10. CASE RunStatus
  <2>1. {"queued", run.goal} \in SUBSET GroupStatus
    BY <1>1 DEF GroupStatus
  <2> QED BY <1>1, <1>10, <2>1, StoreCalls DEF RunStatus, SetRunStatus
<1> QED BY <1>3, <1>4, <1>5, <1>6, <1>7, <1>8, <1>9, <1>10 DEF RunStep

\* The recovery of interrupted removals.
LEMMA RecoverStepStores ==
  ASSUME TypeOK, Refs, RecoverStep
  PROVE  StoreNext \/ db' = db
<1>1. /\ boot.todo \in SUBSET ActionId /\ boot.todo \subseteq Used
      /\ boot.cancel \in SUBSET ActionId /\ boot.cancel \subseteq Used
      /\ boot.groups \subseteq Group
  BY DEF TypeOK, BootType, Refs, BootRefs
<1>2. {"cancelled", "failed"} \subseteq ActionStatus \ {"none"}
  BY DEF ActionStatus, Finished
<1>3. CASE RecoverAction
  <2>1. Oldest(boot.todo) \in Used
    BY <1>1, <1>3, OldestIn DEF RecoverAction
  <2>2. db' = UpdateAction(db, Oldest(boot.todo), "failed") \/ db' = db
    BY <1>3 DEF RecoverAction, WriteLost
  <2> QED BY <1>2, <2>1, <2>2, StoreCalls
<1>4. CASE RecoverGroup
  <2>1. PICK g \in boot.groups :
          db' = UpdateStatusIf(db, g, RecoverFrom, "failed") \/ db' = db
    BY <1>4 DEF RecoverGroup, WriteLost
  <2>2. RecoverFrom \in SUBSET GroupStatus /\ "failed" \in GroupStatus
    BY DEF RecoverFrom, GroupStatus
  <2> QED BY <1>1, <2>1, <2>2, StoreCalls
<1>5. CASE RecoverList \/ RecoverDone
  BY <1>5 DEF RecoverList, RecoverDone
<1>6. CASE RecoverCancel
  <2>1. Oldest(boot.cancel) \in Used
    BY <1>1, <1>6, OldestIn DEF RecoverCancel
  <2> QED BY <1>2, <1>6, <2>1, StoreCalls DEF RecoverCancel
<1> QED BY <1>3, <1>4, <1>5, <1>6 DEF RecoverStep

\* Whatever step is taken, it is a transaction of the store or leaves it alone.
LEMMA StepStores ==
  ASSUME TypeOK, Refs, [Next]_vars
  PROVE  [StoreNext]_db
<1>1. ASSUME NEW g \in Group, LockTaken(g) PROVE db' = db
  BY <1>1 DEF LockTaken, StoreRead, ResolveRead, ApproveRead, CancelRead
<1>2. ASSUME NEW a \in ActionId, QueueCancel(a) PROVE StoreNext
  BY <1>2 DEF QueueCancel, StoreNext, ActionWrite
<1>3. ToggleDryRun => db' = db
  BY DEF ToggleDryRun
<1>4. ASSUME NEW f \in disk, SomebodyDeletes(f) PROVE db' = db
  BY <1>4 DEF SomebodyDeletes
<1>5. RunStart \/ RunRecover \/ Crash \/ Restart => db' = db
  BY DEF RunStart, RunRecover, Crash, Restart
<1>6. UNCHANGED vars => db' = db
  BY DEF vars
<1> QED BY <1>1, <1>2, <1>3, <1>4, <1>5, <1>6, LockStepStores, UnlockedStores,
           RunStepStores, RecoverStepStores DEF Next

-----------------------------------------------------------------------------
(* The locals keep their types, and what they name stays in the store.     *)

\* What the store has once shown, it keeps.
LEMMA StableRefs ==
  ASSUME Stable(db, db')
  PROVE  /\ Known \subseteq Known' /\ Used \subseteq Used'
         /\ \A a \in Used : /\ VersionOf(a)' = VersionOf(a)
                            /\ db'.act[a].dryRun = db.act[a].dryRun
BY DEF Stable, Known, Used, VersionOf, Exists

\* A group as it is read under the lock.
LEMMA RowType ==
  ASSUME db \in Database, NEW g \in Group
  PROVE  Row(g) \in GroupRow
BY DEF Row, GroupRow, Database

\* The row of nothing.
LEMMA NoRowType == NoRow \in GroupRow
<1>1. EmptyFile \in File
  BY DEF EmptyFile, File, Decision, Override
<1> QED BY <1>1 DEF NoRow, GroupRow

\* The locals of the free lock, and of a lock that has just been taken.
LEMMA HoldingType ==
  ASSUME db \in Database
  PROVE  /\ Free \in LockType /\ Free.op = "free"
         /\ \A op \in {"store", "resolve", "approve", "cancel"} :
            \A pc \in {"write", "leftovers", "create", "pending"} :
            \A g \in Group :
              /\ Holding(op, pc, g) \in LockType
              /\ Holding(op, pc, g).op = op /\ Holding(op, pc, g).pc = pc
              /\ Holding(op, pc, g).g = g /\ Holding(op, pc, g).copy = Row(g)
<1>1. (CHOOSE g \in Group : TRUE) \in Group
  BY RemovalsAssumption
<1>2. Free \in LockType /\ Free.op = "free"
  BY <1>1, NoRowType DEF Free, LockType
<1>3. ASSUME NEW op \in {"store", "resolve", "approve", "cancel"},
             NEW pc \in {"write", "leftovers", "create", "pending"}, NEW g \in Group
      PROVE  /\ Holding(op, pc, g) \in LockType
             /\ Holding(op, pc, g).op = op /\ Holding(op, pc, g).pc = pc
             /\ Holding(op, pc, g).g = g /\ Holding(op, pc, g).copy = Row(g)
  <2>1. Row(g) \in GroupRow
    BY RowType
  <2> QED BY <1>2, <2>1 DEF Holding, LockType
<1> QED BY <1>2, <1>3

\* The steps of the holder of the group lock, and the ones that take it.
LEMMA LockKeeps ==
  ASSUME TypeOK, Refs, StampsBounded, Known \subseteq Known',
         \/ LockStep
         \/ \E g \in Group : LockTaken(g)
         \/ Crash
         \/ lk' = lk
  PROVE  lk' \in LockType /\ LockRefs'
<1>1. lk \in LockType /\ LockRefs /\ db \in Database /\ dryRun \in BOOLEAN
  BY DEF TypeOK, StoreTypeOK, Refs
<1>2. lk' = Free => lk' \in LockType /\ LockRefs'
  BY <1>1, HoldingType DEF LockRefs
<1>3. CASE StoreWrite \/ StoreTouch \/ StoreFails \/ ResolveWriteOne \/ CancelReopen \/ Crash
  BY <1>2, <1>3 DEF StoreWrite, StoreTouch, StoreFails, ResolveWriteOne, CancelReopen, Crash
<1>4. CASE ApproveStep
  <2>1. lk.op = "approve" /\ lk.g \in Known'
    BY <1>1, <1>4 DEF ApproveStep, ApproveLeftovers, ApproveCreate, ApproveCheck, ApproveQueue,
                      ApproveRecheck, ApproveRollback, ApproveToReview, LockRefs
  <2>2. CASE ApproveLeftovers
    BY <1>1, <2>1, <2>2 DEF ApproveLeftovers, LockType, LockRefs
  <2>3. CASE ApproveCreate
    <3> DEFINE v == CHOOSE v \in lk.todo : TRUE
    <3>1. v \in lk.todo
      BY <1>1, <2>3 DEF ApproveCreate, LockRefs
    <3>2. lk' = [lk EXCEPT !.pc = "rollback"]
          \/ lk' = [lk EXCEPT !.todo = lk.todo \ {v},
                              !.pc = IF lk.todo = {v} THEN "check" ELSE "create"]
      BY <1>1, <2>3 DEF ApproveCreate, LockType
    <3> HIDE DEF v
    <3>3. CASE lk' = [lk EXCEPT !.pc = "rollback"]
      BY <1>1, <2>1, <3>3 DEF LockType, LockRefs
    <3>4. CASE lk' = [lk EXCEPT !.todo = lk.todo \ {v},
                                !.pc = IF lk.todo = {v} THEN "check" ELSE "create"]
      <4>1. lk' \in LockType /\ lk'.op = lk.op /\ lk'.g = lk.g
        BY <1>1, <3>4 DEF LockType
      <4>2. lk'.todo = lk.todo \ {v}
        BY <1>1, <3>4 DEF LockType
      <4>3. lk'.pc = IF lk.todo = {v} THEN "check" ELSE "create"
        BY <1>1, <3>4 DEF LockType
      <4>4. lk'.pc = "create" => lk'.todo # {}
        BY <3>1, <4>2, <4>3
      <4>5. lk'.pc # "leftovers"
        BY <4>3
      <4> QED BY <2>1, <4>1, <4>4, <4>5 DEF LockRefs
    <3> QED BY <3>2, <3>3, <3>4
  <2>4. CASE ApproveCheck
    BY <1>1, <2>1, <2>4 DEF ApproveCheck, LockType, LockRefs
  <2>5. CASE ApproveQueue
    BY <1>1, <2>1, <2>5 DEF ApproveQueue, LockType, LockRefs
  <2>6. CASE ApproveRecheck
    BY <1>1, <1>2, <2>1, <2>6 DEF ApproveRecheck, LockType, LockRefs
  <2>7. CASE ApproveRollback
    BY <1>1, <1>2, <2>1, <2>7 DEF ApproveRollback, LockType, LockRefs
  <2>8. CASE ApproveToReview
    BY <1>2, <2>8 DEF ApproveToReview
  <2> QED BY <1>4, <2>2, <2>3, <2>4, <2>5, <2>6, <2>7, <2>8 DEF ApproveStep
<1>5. CASE CancelPendingOfGroup
  BY <1>1, <1>2, <1>5 DEF CancelPendingOfGroup, LockType, LockRefs
<1>6. ASSUME NEW g \in Group, LockTaken(g)
      PROVE  lk' \in LockType /\ LockRefs'
  <2>1. CASE StoreRead(g)
    BY <1>1, <2>1, HoldingType DEF StoreRead, LockRefs
  <2>2. CASE ResolveRead(g)
    BY <1>1, <2>2, HoldingType DEF ResolveRead, LockRefs, Known, Exists
  <2>3. CASE ApproveRead(g)
    <3> DEFINE pc == IF ActionsIn(db, g, {"pending"}) # {} THEN "leftovers" ELSE "create"
               h == Holding("approve", pc, g)
               ts == Targets(db.file[g])
    <3>1. /\ h \in LockType /\ h.op = "approve" /\ h.g = g /\ pc \in {"leftovers", "create"}
          /\ h.pc = pc
      BY <1>1, HoldingType
    <3>2. ts \in SUBSET Version /\ ts # {} /\ g \in Known
      BY <2>3 DEF ApproveRead, Targets, Known, Exists, Approvable
    <3>3. lk' = [h EXCEPT !.todo = ts, !.stamp = NextStamp(g), !.dry = dryRun]
      BY <2>3 DEF ApproveRead
    <3>4. NextStamp(g) \in Nat
      BY <1>1, NextStampNat
    <3> HIDE DEF h, ts, pc
    <3> QED BY <1>1, <3>1, <3>2, <3>3, <3>4 DEF LockType, LockRefs
  <2>4. CASE CancelRead(g)
    BY <1>1, <2>4, HoldingType DEF CancelRead, LockRefs, Known
  <2> QED BY <1>6, <2>1, <2>2, <2>3, <2>4 DEF LockTaken
<1>7. CASE lk' = lk
  BY <1>1, <1>7 DEF LockRefs
<1> QED BY <1>3, <1>4, <1>5, <1>6, <1>7 DEF LockStep

\* The locals of no run.
LEMMA IdleType ==
  /\ Idle \in RunType /\ Idle.pc = "idle" /\ Idle.listed = {} /\ Idle.todo = {}
<1>1. (CHOOSE g \in Group : TRUE) \in Group /\ (CHOOSE a \in ActionId : TRUE) \in ActionId
  BY RemovalsAssumption
<1>2. "none" \in ActionStatus /\ "queued" \in GroupStatus
  BY DEF ActionStatus, GroupStatus
<1> QED BY <1>1, <1>2, NoRowType DEF Idle, RunType

\* Between two groups a run only has its list left.
LEMMA BetweenType ==
  ASSUME run \in RunType
  PROVE  /\ Between(run) \in RunType /\ Between(run).pc = "pick"
         /\ Between(run).listed = run.listed /\ Between(run).todo = {}
BY IdleType DEF Between, RunType

\* A run that has listed the queue.
LEMMA ListedType ==
  ASSUME NEW dry \in BOOLEAN
  PROVE  /\ Listed(dry) \in RunType /\ Listed(dry).pc \in {"idle", "pick"}
         /\ Listed(dry).listed \subseteq Used /\ Listed(dry).todo = {}
<1>1. Having("pending") \in SUBSET ActionId /\ Having("pending") \subseteq Used
  BY DEF Having, Used
<1>2. CASE Having("pending") = {}
  BY <1>2, IdleType DEF Listed
<1>3. CASE Having("pending") # {}
  BY <1>1, <1>3, IdleType DEF Listed, RunType
<1> QED BY <1>2, <1>3

\* The steps of a run that neither start nor perform a removal.
LEMMA QuietRunKeeps ==
  ASSUME TypeOK, Refs, Used \subseteq Used',
         \/ RunEnd \/ RunPick \/ RunDrop \/ RunDefer \/ RunSkip \/ RunSkipOne
         \/ RunRefuse \/ RunExecEnd \/ RunFail \/ RunCount \/ RunStatus
         \/ RunStart \/ RunRecover \/ Crash
  PROVE  run' \in RunType /\ RunRefs' /\ ~Executing'
<1> DEFINE Quiet == run'.pc \notin {"exec", "perform", "finish"}
           Goal == run' \in RunType /\ run'.listed \cup run'.todo \subseteq Used' /\ Quiet
<1>1. /\ run \in RunType /\ run.listed \subseteq Used' /\ run.todo \subseteq Used'
      /\ db \in Database /\ dryRun \in BOOLEAN
  BY DEF TypeOK, StoreTypeOK, Refs, RunRefs
<1>2. SUFFICES Goal
  BY DEF RunRefs, Executing
<1>3. CASE RunEnd \/ Crash
  BY <1>3, IdleType DEF RunEnd, Crash
<1>4. CASE RunPick
  <2> DEFINE g == db.act[Oldest(run.listed)].group
             batch == {a \in run.listed : db.act[a].group = g}
             stamps == {db.act[a].stamp : a \in batch}
             pc == IF db.status[g] = "queued" THEN "verify" ELSE "drop"
  <2>1. Oldest(run.listed) \in ActionId
    BY <1>1, <1>4, OldestIn DEF RunPick, RunType
  <2>2. g \in Group
    BY <1>1, <2>1 DEF Database, Action
  <2>3. batch \in SUBSET run.listed /\ run.listed \in SUBSET ActionId
    BY <1>1 DEF RunType
  <2>4. stamps \in SUBSET Nat
    BY <1>1, <2>3 DEF Database, Action
  <2>5. Row(g) \in GroupRow
    BY <1>1, <2>2, RowType
  <2>6. pc \in {"verify", "drop"}
    OBVIOUS
  <2>7. run' = [run EXCEPT !.pc = pc, !.listed = run.listed \ batch, !.g = g,
                           !.copy = Row(g), !.todo = batch, !.stamps = stamps,
                           !.next = "pick"]
    BY <1>1, <1>4 DEF RunPick, RunType
  <2> HIDE DEF g, batch, stamps, pc
  <2> QED BY <1>1, <2>2, <2>3, <2>4, <2>5, <2>6, <2>7 DEF RunType
<1>5. CASE RunDrop
  BY <1>1, <1>5, BetweenType DEF RunDrop, RunType
<1>6. CASE RunDefer \/ RunStatus
  BY <1>1, <1>6, BetweenType DEF RunDefer, RunStatus
<1>7. CASE RunSkip
  BY <1>1, <1>7, NoRowType DEF RunSkip, RunType
<1>8. CASE RunSkipOne
  <2>1. "review" \in GroupStatus
    BY DEF GroupStatus
  <2>2. CASE run' = [run EXCEPT !.pc = "status", !.goal = "review"]
    BY <1>1, <2>1, <2>2 DEF RunType
  <2>3. ASSUME NEW a, run.pc = "skip", run' = [run EXCEPT !.todo = run.todo \ {a}]
        PROVE  Goal
    BY <1>1, <2>3 DEF RunType
  <2>4. \/ run' = [run EXCEPT !.pc = "status", !.goal = "review"]
        \/ \E a : run.pc = "skip" /\ run' = [run EXCEPT !.todo = run.todo \ {a}]
    BY <1>1, <1>8 DEF RunSkipOne, RunType
  <2> HIDE DEF Goal
  <2> QED BY <2>2, <2>3, <2>4
<1>9. CASE RunRefuse
  <2>1. PICK a : run' = [run EXCEPT !.pc = "fail", !.todo = run.todo \ {a}, !.copy = NoRow]
    BY <1>1, <1>9 DEF RunRefuse, RunType
  <2> QED BY <1>1, <2>1, NoRowType DEF RunType
<1>10. CASE RunExecEnd \/ RunFail
  BY <1>1, <1>10 DEF RunExecEnd, RunFail, RunType
<1>11. CASE RunCount
  <2>1. BatchStatus(run.g, run.stamps) \in GroupStatus
    BY BatchStatusOK
  <2> QED BY <1>1, <1>11, <2>1, BetweenType DEF RunCount, RunType
<1>12. CASE RunStart
  <2>1. Used' = Used
    BY <1>12 DEF RunStart, Used
  <2> QED BY <1>1, <1>12, <2>1, ListedType DEF RunStart
<1>13. CASE RunRecover
  BY <1>1, <1>13, IdleType DEF RunRecover, RunType
<1> QED BY <1>3, <1>4, <1>5, <1>6, <1>7, <1>8, <1>9, <1>10, <1>11, <1>12, <1>13

-----------------------------------------------------------------------------
(* Removing files.                                                         *)

\* verify passed: every kept version that is counted on is present, in a file
\* of its own, and no removal targets a version another group relies on.
LEMMA VerifiedKeeps ==
  ASSUME TypeOK, Refs, RunVerified
  PROVE  run' \in RunType /\ RunRefs' /\ RunSafe'
<1>1. /\ run \in RunType /\ run.listed \cup run.todo \subseteq Used
      /\ VerifiedKeepers \in SUBSET Version /\ VerifiedKeepers # {}
  BY DEF TypeOK, Refs, RunRefs, RunVerified, Verified, VerifiedKeepers, Kept
<1>2. /\ run' = [run EXCEPT !.pc = "exec", !.keepers = VerifiedKeepers, !.copy = NoRow]
      /\ db' = db /\ disk' = disk /\ gone' = gone
  BY DEF RunVerified, world
<1>3. \A k \in VerifiedKeepers :
        /\ FileOf[k] \in disk
        /\ \A a \in run.todo : FileOf[k] # FileOf[VersionOf(a)]
  BY DEF RunVerified, Verified, VerifiedKeepers
<1>4. \A a \in run.todo : VersionOf(a) \notin run.keptInRun
  BY DEF RunVerified, Verified, KeptElsewhere
<1>5. /\ run' \in RunType /\ run'.pc = "exec" /\ run'.keepers = VerifiedKeepers
      /\ run'.listed = run.listed /\ run'.todo = run.todo /\ run'.keptInRun = run.keptInRun
  <2> HIDE DEF VerifiedKeepers
  <2> QED BY <1>1, <1>2, NoRowType DEF RunType
<1>6. RunRefs'
  BY <1>1, <1>2, <1>5 DEF RunRefs, Used
<1>7. KeepersSafe'
  BY <1>1, <1>2, <1>3, <1>5 DEF KeepersSafe, VersionOf
<1>8. RealRun' /\ KeptApart'
  BY <1>2, <1>4, <1>5 DEF RealRun, KeptApart, VersionOf
<1> QED BY <1>5, <1>6, <1>7, <1>8 DEF RunSafe

\* execute: a removal is started; it is performed only when neither its approval
\* nor the run nor the settings say dry run.
LEMMA ExecKeeps ==
  ASSUME TypeOK, Refs, RunSafe, Stable(db, db'), RunExec
  PROVE  run' \in RunType /\ RunRefs' /\ RunSafe'
<1>1. /\ run \in RunType /\ run.listed \cup run.todo \subseteq Used /\ dryRun \in BOOLEAN
      /\ db \in Database /\ run.pc = "exec" /\ disk' = disk /\ gone' = gone
  BY DEF TypeOK, StoreTypeOK, Refs, RunRefs, RunExec, world
<1>2. PICK a \in run.todo :
        LET dry == run.dry \/ (~db.act[a].dryRun /\ dryRun) IN
        run' = [run EXCEPT
                  !.todo = @ \ {a}, !.dry = dry,
                  !.cur = IF UpdateAccepted(db, a, "running") THEN a ELSE @,
                  !.result = IF UpdateAccepted(db, a, "running")
                             THEN "dry_run" ELSE "none",
                  !.pc = IF ~UpdateAccepted(db, a, "running") THEN "exec"
                         ELSE IF dry \/ db.act[a].dryRun THEN "finish"
                         ELSE "perform"]
  BY DEF RunExec
<1> DEFINE ok == UpdateAccepted(db, a, "running")
           sim == db.act[a].dryRun
           dry == run.dry \/ (~sim /\ dryRun)
           pc == IF ~ok THEN "exec" ELSE IF dry \/ sim THEN "finish" ELSE "perform"
           cur == IF ok THEN a ELSE run.cur
           result == IF ok THEN "dry_run" ELSE "none"
<1>3. a \in ActionId /\ a \in Used /\ sim \in BOOLEAN
  BY <1>1, <1>2 DEF RunType, Database, Action
<1>4. run' = [run EXCEPT !.todo = run.todo \ {a}, !.dry = dry, !.cur = cur,
                         !.result = result, !.pc = pc]
  BY <1>1, <1>2 DEF RunType
<1>5. /\ dry \in BOOLEAN /\ cur \in ActionId /\ result \in ActionStatus
      /\ pc \in {"exec", "finish", "perform"}
      /\ pc # "exec" => cur = a /\ result = "dry_run"
      /\ pc = "perform" => ~dry /\ ~sim
  BY <1>1, <1>3 DEF RunType, ActionStatus, Finished
<1> HIDE DEF dry, cur, result, pc, ok
<1>6. /\ run' \in RunType /\ run'.pc = pc /\ run'.cur = cur /\ run'.result = result
      /\ run'.dry = dry /\ run'.todo = run.todo \ {a} /\ run'.listed = run.listed
      /\ run'.keepers = run.keepers /\ run'.keptInRun = run.keptInRun
  BY <1>1, <1>4, <1>5 DEF RunType
<1>7. /\ Used \subseteq Used'
      /\ \A b \in Used : VersionOf(b)' = VersionOf(b) /\ db'.act[b].dryRun = db.act[b].dryRun
  BY StableRefs
<1>8. RunRefs'
  BY <1>1, <1>3, <1>5, <1>6, <1>7 DEF RunRefs
<1>9. KeepersSafe'
  <2>1. /\ run.keepers # {}
        /\ \A k \in run.keepers :
             /\ FileOf[k] \in disk \cup gone
             /\ \A b \in run.todo : FileOf[k] # FileOf[VersionOf(b)]
    BY <1>1 DEF RunSafe, KeepersSafe, Executing
  <2>2. \A b \in run.todo : VersionOf(b)' = VersionOf(b)
    BY <1>1, <1>7
  <2> QED BY <1>1, <1>2, <1>5, <1>6, <2>1, <2>2 DEF KeepersSafe
<1>10. RealRun'
  BY <1>3, <1>5, <1>6, <1>7 DEF RealRun
<1>11. KeptApart'
  <2>1. \A b \in run.todo : VersionOf(b) \notin run.keptInRun /\ VersionOf(b)' = VersionOf(b)
    BY <1>1, <1>7 DEF RunSafe, KeptApart, Executing
  <2> QED BY <1>2, <1>5, <1>6, <2>1 DEF KeptApart
<1> QED BY <1>6, <1>8, <1>9, <1>10, <1>11 DEF RunSafe

\* perform: what is removed is not the file of a keeper.
LEMMA PerformKeeps ==
  ASSUME TypeOK, Refs, RunSafe, RunPerform
  PROVE  run' \in RunType /\ RunRefs' /\ RunSafe'
<1>1. /\ run \in RunType /\ RunRefs /\ run.pc = "perform" /\ KeepersSafe /\ KeptApart
      /\ db' = db /\ gone' = gone
  BY DEF TypeOK, Refs, RunSafe, RunPerform
<1>2. PICK result \in {"succeeded", "failed", "skipped"} :
        run' = [run EXCEPT !.pc = "finish", !.result = result]
  BY DEF RunPerform
<1>3. result \in ActionStatus \ {"none"}
  BY <1>2 DEF ActionStatus, Finished
<1>4. /\ run' \in RunType /\ run'.pc = "finish" /\ run'.result = result
      /\ run'.cur = run.cur /\ run'.todo = run.todo /\ run'.listed = run.listed
      /\ run'.keepers = run.keepers /\ run'.keptInRun = run.keptInRun
  BY <1>1, <1>2, <1>3 DEF RunType
<1>5. disk \ {FileOf[VersionOf(run.cur)]} \subseteq disk'
  BY DEF RunPerform
<1>6. RunRefs'
  BY <1>1, <1>3, <1>4 DEF RunRefs, Used
<1>7. KeepersSafe'
  BY <1>1, <1>4, <1>5 DEF KeepersSafe, Executing, VersionOf
<1>8. RealRun' /\ KeptApart'
  BY <1>1, <1>4 DEF RealRun, KeptApart, Executing, VersionOf
<1> QED BY <1>4, <1>6, <1>7, <1>8 DEF RunSafe

\* finishAction: the keepers of a group that lost a copy are relied on for the
\* rest of the run.
LEMMA FinishKeeps ==
  ASSUME TypeOK, Refs, RunSafe, Stable(db, db'), RunFinish
  PROVE  run' \in RunType /\ RunRefs' /\ RunSafe'
<1> DEFINE kept == IF run.result = "succeeded" THEN run.keptInRun \cup run.keepers
                                               ELSE run.keptInRun
           pc == CASE run.result = "failed"  -> "fail"
                   [] run.result = "skipped" -> "skip"
                   [] OTHER                  -> "exec"
<1>1. /\ run \in RunType /\ RunRefs /\ KeepersSafe /\ KeptApart /\ Executing
      /\ disk' = disk /\ gone' = gone
  BY DEF TypeOK, Refs, RunSafe, RunFinish, Executing, world
<1>2. run' = [run EXCEPT !.cur = Idle.cur, !.result = "none", !.keptInRun = kept, !.pc = pc]
  BY <1>1 DEF RunFinish, RunType
<1>3. /\ Idle.cur \in ActionId /\ "none" \in ActionStatus
      /\ kept \in SUBSET Version /\ kept \subseteq run.keptInRun \cup run.keepers
      /\ pc \in {"fail", "skip", "exec"}
  BY <1>1, IdleType DEF RunType, ActionStatus
<1> HIDE DEF kept, pc
<1>4. /\ run' \in RunType /\ run'.pc = pc /\ run'.keptInRun = kept
      /\ run'.todo = run.todo /\ run'.listed = run.listed /\ run'.keepers = run.keepers
  BY <1>1, <1>2, <1>3 DEF RunType
<1>5. /\ Used \subseteq Used' /\ run.todo \subseteq Used
      /\ \A b \in Used : VersionOf(b)' = VersionOf(b)
  BY <1>1, StableRefs DEF RunRefs
<1>6. RunRefs'
  BY <1>1, <1>3, <1>4, <1>5 DEF RunRefs
<1>7. KeepersSafe'
  BY <1>1, <1>3, <1>4, <1>5 DEF KeepersSafe, Executing
<1>8. RealRun'
  BY <1>3, <1>4 DEF RealRun
<1>9. KeptApart'
  <2>1. \A b \in run.todo : /\ VersionOf(b)' = VersionOf(b)
                            /\ VersionOf(b) \notin run.keptInRun
                            /\ VersionOf(b) \notin run.keepers
    BY <1>1, <1>5 DEF KeptApart, KeepersSafe
  <2> QED BY <1>3, <1>4, <2>1 DEF KeptApart
<1> QED BY <1>4, <1>6, <1>7, <1>8, <1>9 DEF RunSafe

\* Any other step: what the run relies on may only be deleted by somebody else.
LEMMA OtherKeeps ==
  ASSUME TypeOK, Refs, RunSafe, Stable(db, db'), run' = run,
         disk \cup gone \subseteq disk' \cup gone'
  PROVE  run' \in RunType /\ RunRefs' /\ RunSafe'
<1>1. run \in RunType /\ RunRefs /\ KeepersSafe /\ KeptApart /\ RealRun
  BY DEF TypeOK, Refs, RunSafe
<1>2. /\ Used \subseteq Used'
      /\ \A b \in Used : VersionOf(b)' = VersionOf(b) /\ db'.act[b].dryRun = db.act[b].dryRun
  BY StableRefs
<1>3. RunRefs'
  BY <1>1, <1>2 DEF RunRefs
<1>4. \A b \in run.todo : VersionOf(b)' = VersionOf(b)
  BY <1>1, <1>2 DEF RunRefs
<1>5. run.pc = "perform" => /\ VersionOf(run.cur)' = VersionOf(run.cur)
                            /\ db'.act[run.cur].dryRun = db.act[run.cur].dryRun
  BY <1>1, <1>2 DEF RunRefs
<1>6. KeepersSafe'
  BY <1>1, <1>4, <1>5 DEF KeepersSafe, Executing
<1>7. RealRun'
  BY <1>1, <1>5 DEF RealRun
<1>8. KeptApart'
  BY <1>1, <1>4, <1>5 DEF KeptApart, Executing
<1> QED BY <1>1, <1>3, <1>6, <1>7, <1>8 DEF RunSafe

\* Somebody else's deletion is remembered; every other step that does not
\* perform a removal leaves the disk alone.
LEMMA WorldFrame ==
  ASSUME [Next]_vars, ~RunPerform
  PROVE  \/ disk' = disk /\ gone' = gone
         \/ \E f \in disk : disk' = disk \ {f} /\ gone' = gone \cup {f}
<1>1. LockStep => disk' = disk /\ gone' = gone
  BY DEF LockStep, StoreWrite, StoreTouch, StoreFails, ResolveWriteOne, ApproveStep,
         ApproveLeftovers, ApproveCreate, ApproveCheck, ApproveQueue, ApproveRecheck,
         ApproveRollback, ApproveToReview, CancelPendingOfGroup, CancelReopen, world
<1>2. \A g \in Group : LockTaken(g) => disk' = disk /\ gone' = gone
  BY DEF LockTaken, StoreRead, ResolveRead, ApproveRead, CancelRead, world
<1>3. \A g \in Group : UnlockedWrite(g) => disk' = disk /\ gone' = gone
  BY DEF UnlockedWrite, Ignore, UnignoreRead, UnignoreWrite, FollowupFails,
         SetUserOverride, Repoint, ResolveUnseen, world
<1>4. \A a \in ActionId : QueueCancel(a) => disk' = disk /\ gone' = gone
  BY DEF QueueCancel, world
<1>5. \A f \in disk : SomebodyDeletes(f) => disk' = disk \ {f} /\ gone' = gone \cup {f}
  BY DEF SomebodyDeletes
<1>6. RunStep => disk' = disk /\ gone' = gone
  BY DEF RunStep, RunEnd, RunPick, RunDrop, RunVerified, RunDefer, RunSkip, RunSkipOne,
         RunRefuse, RunExec, RunFinish, RunExecEnd, RunFail, RunCount, RunStatus, world
<1>7. RecoverStep => disk' = disk /\ gone' = gone
  BY DEF RecoverStep, RecoverAction, RecoverGroup, RecoverList, RecoverCancel, RecoverDone,
         world
<1>8. ToggleDryRun \/ RunStart \/ RunRecover \/ Crash \/ Restart
        => disk' = disk /\ gone' = gone
  BY DEF ToggleDryRun, RunStart, RunRecover, Crash, Restart, world
<1>9. UNCHANGED vars => disk' = disk /\ gone' = gone
  BY DEF vars
<1> QED BY <1>1, <1>2, <1>3, <1>4, <1>5, <1>6, <1>7, <1>8, <1>9 DEF Next

\* Who changes the locals of the queue run.
LEMMA RunFrame ==
  ASSUME [Next]_vars
  PROVE  run' = run \/ RunStart \/ RunRecover \/ RunStep \/ Crash \/ RecoverDone
<1>1. LockStep => run' = run
  BY DEF LockStep, StoreWrite, StoreTouch, StoreFails, ResolveWriteOne, ApproveStep,
         ApproveLeftovers, ApproveCreate, ApproveCheck, ApproveQueue, ApproveRecheck,
         ApproveRollback, ApproveToReview, CancelPendingOfGroup, CancelReopen
<1>2. \A g \in Group : LockTaken(g) => run' = run
  BY DEF LockTaken, StoreRead, ResolveRead, ApproveRead, CancelRead
<1>3. \A g \in Group : UnlockedWrite(g) => run' = run
  BY DEF UnlockedWrite, Ignore, UnignoreRead, UnignoreWrite, FollowupFails,
         SetUserOverride, Repoint, ResolveUnseen
<1>4. \A a \in ActionId : QueueCancel(a) => run' = run
  BY DEF QueueCancel
<1>5. \A f \in disk : SomebodyDeletes(f) => run' = run
  BY DEF SomebodyDeletes
<1>6. RecoverStep => run' = run \/ RecoverDone
  BY DEF RecoverStep, RecoverAction, RecoverGroup, RecoverList, RecoverCancel
<1>7. ToggleDryRun \/ Restart => run' = run
  BY DEF ToggleDryRun, Restart
<1>8. UNCHANGED vars => run' = run
  BY DEF vars
<1> QED BY <1>1, <1>2, <1>3, <1>4, <1>5, <1>6, <1>7, <1>8 DEF Next

\* Whatever happens during a run, the keepers its removals rely on are left.
LEMMA RunKeeps ==
  ASSUME TypeOK, Refs, RunSafe, Stable(db, db'), [Next]_vars
  PROVE  run' \in RunType /\ RunRefs' /\ RunSafe'
<1>1. Used \subseteq Used'
  BY StableRefs
<1>2. run' \in RunType /\ RunRefs' /\ ~Executing' => RunSafe'
  BY DEF RunSafe, KeepersSafe, RealRun, KeptApart, Executing
<1>3. ~RunPerform => disk \cup gone \subseteq disk' \cup gone'
  BY WorldFrame
<1>4. CASE run' = run /\ ~RunPerform
  BY <1>3, <1>4, OtherKeeps
<1>5. CASE RunPerform
  BY <1>5, PerformKeeps
<1>6. CASE RunVerified \/ RunExec \/ RunFinish
  BY <1>6, VerifiedKeeps, ExecKeeps, FinishKeeps
<1>7. CASE \/ RunEnd \/ RunPick \/ RunDrop \/ RunDefer \/ RunSkip \/ RunSkipOne
           \/ RunRefuse \/ RunExecEnd \/ RunFail \/ RunCount \/ RunStatus
           \/ RunStart \/ RunRecover \/ Crash
  BY <1>1, <1>2, <1>7, QuietRunKeeps
<1>8. CASE RecoverDone /\ run' # run
  <2>1. run' = Listed(run.dry) /\ db' = db /\ run.dry \in BOOLEAN
    BY <1>8 DEF RecoverDone, TypeOK, RunType
  <2>2. /\ run' \in RunType /\ run'.pc \in {"idle", "pick"}
        /\ run'.listed \subseteq Used /\ run'.todo = {}
    BY <2>1, ListedType
  <2>3. RunRefs' /\ ~Executing'
    BY <1>1, <2>2 DEF RunRefs, Executing
  <2> QED BY <1>2, <2>2, <2>3
<1> QED BY <1>4, <1>5, <1>6, <1>7, <1>8, RunFrame DEF RunStep

\* The disk: a removal leaves the file of a keeper, and the deletions of
\* somebody else are remembered.
LEMMA WorldKeeps ==
  ASSUME TypeOK, WorldOK, RunSafe, [Next]_vars
  PROVE  WorldOK'
<1>1. CASE ~RunPerform
  <2>1. \/ disk' = disk /\ gone' = gone
        \/ \E f \in disk : disk' = disk \ {f} /\ gone' = gone \cup {f}
    BY <1>1, WorldFrame
  <2> QED BY <2>1 DEF WorldOK, NeverLastCopy
<1>2. CASE RunPerform
  <2> DEFINE f == FileOf[VersionOf(run.cur)]
  <2>1. gone' = gone /\ disk \ {f} \subseteq disk' /\ disk' \subseteq disk
    BY <1>2 DEF RunPerform
  <2>2. PICK k \in run.keepers : FileOf[k] \in disk \cup gone /\ FileOf[k] # f
    BY <1>2 DEF RunPerform, RunSafe, KeepersSafe, Executing
  <2> HIDE DEF f
  <2> QED BY <2>1, <2>2 DEF WorldOK, NeverLastCopy
<1> QED BY <1>1, <1>2

\* The recovery only works on removals that exist.
LEMMA BootKeeps ==
  ASSUME TypeOK, Refs, Stable(db, db'), [Next]_vars
  PROVE  boot' \in BootType /\ BootRefs'
<1> DEFINE Goal == boot' \in BootType /\ boot'.todo \cup boot'.cancel \subseteq Used'
<1>1. /\ boot \in BootType /\ boot.todo \subseteq Used' /\ boot.cancel \subseteq Used'
      /\ db \in Database
  BY StableRefs DEF TypeOK, StoreTypeOK, Refs, BootRefs
<1>2. SUFFICES Goal
  BY DEF BootRefs
<1>3. Working \in BootType /\ Working.todo = {} /\ Working.cancel = {}
  BY DEF Working, BootType
<1>4. Having("running") \in SUBSET ActionId /\ Having("running") \subseteq Used'
  BY StableRefs DEF Having, Used
<1>5. CASE boot' = boot
  BY <1>1, <1>5
<1>6. CASE Crash
  BY <1>3, <1>6 DEF Crash, BootType
<1>7. CASE RunRecover \/ Restart
  BY <1>3, <1>4, <1>7 DEF RunRecover, Restart, BootType
<1>8. CASE RecoverAction
  <2> DEFINE a == Oldest(boot.todo)
             g == db.act[a].group
  <2>1. a \in ActionId
    BY <1>1, <1>8, OldestIn DEF RecoverAction, BootType
  <2>2. g \in Group
    BY <1>1, <2>1 DEF Database, Action
  <2>3. \/ boot' = [boot EXCEPT !.todo = boot.todo \ {a}, !.groups = boot.groups \cup {g}]
        \/ boot' = [boot EXCEPT !.todo = boot.todo \ {a}]
    BY <1>1, <1>8 DEF RecoverAction, BootType
  <2> HIDE DEF a, g
  <2>4. CASE boot' = [boot EXCEPT !.todo = boot.todo \ {a}, !.groups = boot.groups \cup {g}]
    BY <1>1, <2>2, <2>4 DEF BootType
  <2>5. CASE boot' = [boot EXCEPT !.todo = boot.todo \ {a}]
    BY <1>1, <2>5 DEF BootType
  <2> QED BY <2>3, <2>4, <2>5
<1>9. CASE RecoverGroup
  <2>1. PICK g \in Group, l \in SUBSET Group :
          \/ boot' = [boot EXCEPT !.groups = boot.groups \ {g}, !.list = l]
          \/ boot' = [boot EXCEPT !.groups = boot.groups \ {g}]
    <3>1. PICK g \in boot.groups :
            \/ boot' = [boot EXCEPT !.groups = boot.groups \ {g},
                          !.list = IF db.status[g] \in RecoverFrom THEN {g} ELSE {}]
            \/ boot' = [boot EXCEPT !.groups = boot.groups \ {g}]
      BY <1>1, <1>9 DEF RecoverGroup, BootType
    <3>2. g \in Group /\ (IF db.status[g] \in RecoverFrom THEN {g} ELSE {}) \in SUBSET Group
      BY <1>1, <3>1 DEF BootType
    <3> QED BY <3>1, <3>2
  <2>2. CASE boot' = [boot EXCEPT !.groups = boot.groups \ {g}, !.list = l]
    BY <1>1, <2>1, <2>2 DEF BootType
  <2>3. CASE boot' = [boot EXCEPT !.groups = boot.groups \ {g}]
    BY <1>1, <2>3 DEF BootType
  <2> QED BY <2>1, <2>2, <2>3
<1>10. CASE RecoverList
  <2> DEFINE c == UNION {ActionsIn(db, g, {"pending"}) : g \in boot.list}
  <2>1. c \in SUBSET ActionId /\ c \subseteq Used
    BY DEF ActionsIn, Used
  <2>2. boot' = [boot EXCEPT !.list = {}, !.cancel = c]
    BY <1>10 DEF RecoverList
  <2>3. c \subseteq Used'
    BY <2>1, StableRefs
  <2> HIDE DEF c
  <2> QED BY <1>1, <2>1, <2>2, <2>3 DEF BootType
<1>11. CASE RecoverCancel
  <2> DEFINE a == Oldest(boot.cancel)
  <2>1. boot' = [boot EXCEPT !.cancel = boot.cancel \ {a}]
    BY <1>1, <1>11 DEF RecoverCancel, BootType
  <2> HIDE DEF a
  <2> QED BY <1>1, <2>1 DEF BootType
<1>12. CASE RecoverDone
  BY <1>3, <1>12 DEF RecoverDone
<1>13. \/ boot' = boot \/ Crash \/ RunRecover \/ Restart \/ RecoverStep
  <2>1. LockStep => boot' = boot
    BY DEF LockStep, StoreWrite, StoreTouch, StoreFails, ResolveWriteOne, ApproveStep,
           ApproveLeftovers, ApproveCreate, ApproveCheck, ApproveQueue, ApproveRecheck,
           ApproveRollback, ApproveToReview, CancelPendingOfGroup, CancelReopen, proc
  <2>2. \A g \in Group : LockTaken(g) => boot' = boot
    BY DEF LockTaken, StoreRead, ResolveRead, ApproveRead, CancelRead, proc
  <2>3. \A g \in Group : UnlockedWrite(g) => boot' = boot
    BY DEF UnlockedWrite, Ignore, UnignoreRead, UnignoreWrite, FollowupFails,
           SetUserOverride, Repoint, ResolveUnseen, proc
  <2>4. \A a \in ActionId : QueueCancel(a) => boot' = boot
    BY DEF QueueCancel, proc
  <2>5. \A f \in disk : SomebodyDeletes(f) => boot' = boot
    BY DEF SomebodyDeletes, proc
  <2>6. RunStep => boot' = boot
    BY DEF RunStep, RunEnd, RunPick, RunDrop, RunVerified, RunDefer, RunSkip, RunSkipOne,
           RunRefuse, RunExec, RunPerform, RunFinish, RunExecEnd, RunFail, RunCount,
           RunStatus, proc
  <2>7. ToggleDryRun \/ RunStart => boot' = boot
    BY DEF ToggleDryRun, RunStart, proc
  <2>8. UNCHANGED vars => boot' = boot
    BY DEF vars
  <2> QED BY <2>1, <2>2, <2>3, <2>4, <2>5, <2>6, <2>7, <2>8 DEF Next
<1> HIDE DEF Goal
<1> QED BY <1>5, <1>6, <1>7, <1>8, <1>9, <1>10, <1>11, <1>12, <1>13 DEF RecoverStep

-----------------------------------------------------------------------------
(* Who writes the versions of a group.                                     *)

\* Only the two writes of a scan and the user's override write versions.
LEMMA FilesFrame ==
  ASSUME TypeOK, Refs, [Next]_vars, ~StoreWrite, ~StoreTouch
  PROVE  \/ db'.file = db.file
         \/ \E g \in Group, v \in Version, o \in UserOverrides : SetUserOverride(g, v, o)
<1>1. db \in Database /\ lk \in LockType /\ lk.g \in Group /\ run \in RunType
  BY DEF TypeOK, StoreTypeOK, LockType
<1>2. /\ {"resolved", "queued", "review", "pending", "ignored", "failed"} \subseteq GroupStatus
      /\ {"running", "cancelled", "skipped", "failed"} \subseteq ActionStatus
  BY DEF GroupStatus, ActionStatus, Finished
<1>3. LockStep => db'.file = db.file
  <2>1. ResolveWriteOne \/ StoreFails => db'.file = db.file
    BY <1>1, <1>2, FilesLeftAlone DEF ResolveWriteOne, StoreFails
  <2>2. ApproveLeftovers \/ ApproveRollback \/ CancelPendingOfGroup => db'.file = db.file
    BY <1>1, FilesLeftAlone DEF ApproveLeftovers, ApproveRollback, CancelPendingOfGroup
  <2>3. ApproveCheck \/ ApproveRecheck => db'.file = db.file
    BY DEF ApproveCheck, ApproveRecheck
  <2>4. CASE ApproveCreate
    <3> DEFINE v == CHOOSE v \in lk.todo : TRUE
    <3>1. v \in Version /\ lk.stamp \in Nat /\ lk.dry \in BOOLEAN
      BY <1>1, <2>4 DEF ApproveCreate, LockType, Refs, LockRefs
    <3>2. PICK a \in ActionId : db' = CreateAction(db, a, lk.g, v, lk.stamp, lk.dry)
      BY <2>4 DEF ApproveCreate
    <3> HIDE DEF v
    <3> QED BY <1>1, <3>1, <3>2, CreateFiles
  <2>5. ApproveQueue \/ ApproveToReview \/ CancelReopen => db'.file = db.file
    BY <1>1, <1>2, FilesLeftAlone DEF ApproveQueue, ApproveToReview, CancelReopen
  <2> QED BY <2>1, <2>2, <2>3, <2>4, <2>5 DEF LockStep, ApproveStep
<1>4. \A g \in Group : LockTaken(g) => db'.file = db.file
  BY DEF LockTaken, StoreRead, ResolveRead, ApproveRead, CancelRead
<1>5. ASSUME NEW g \in Group, UnlockedWrite(g)
      PROVE  \/ db'.file = db.file
             \/ \E v \in Version, o \in UserOverrides : SetUserOverride(g, v, o)
  <2>1. Ignore(g) \/ UnignoreWrite(g) \/ FollowupFails(g) \/ Repoint(g)
          => db'.file = db.file
    BY <1>1, <1>2, FilesLeftAlone DEF Ignore, UnignoreWrite, FollowupFails, Repoint
  <2>2. UnignoreRead(g) => db'.file = db.file
    BY DEF UnignoreRead
  <2>3. ResolveUnseen(g) => db'.file = db.file
    BY <1>1, FilesLeftAlone DEF ResolveUnseen
  <2> QED BY <1>5, <2>1, <2>2, <2>3 DEF UnlockedWrite
<1>6. \A a \in ActionId : QueueCancel(a) => db'.file = db.file
  BY <1>1, FilesLeftAlone DEF QueueCancel
<1>7. \A f \in disk : SomebodyDeletes(f) => db'.file = db.file
  BY DEF SomebodyDeletes
<1>8. RunStep => db'.file = db.file
  <2>1. \A a \in ActionId, s \in ActionStatus : UpdateAction(db, a, s).file = db.file
    BY <1>1, FilesLeftAlone
  <2>2. run.todo \in SUBSET ActionId /\ run.cur \in ActionId /\ run.result \in ActionStatus
        /\ run.g \in Group /\ run.goal \in GroupStatus
    BY <1>1 DEF RunType
  <2>3. run.todo # {} => Oldest(run.todo) \in ActionId
    BY <2>2, OldestIn
  <2>4. RunDrop \/ RunSkipOne => db'.file = db.file
    BY <1>2, <2>1, <2>3 DEF RunDrop, RunSkipOne
  <2>5. RunRefuse \/ RunExec => db'.file = db.file
    <3>1. RunRefuse \/ RunExec => \E a \in run.todo, s \in {"failed", "running"} :
                                    db' = UpdateAction(db, a, s)
      BY DEF RunRefuse, RunExec
    <3> QED BY <1>2, <2>1, <2>2, <3>1
  <2>6. RunFinish => db'.file = db.file
    BY <2>1, <2>2 DEF RunFinish, WriteLost
  <2>7. RunFail \/ RunStatus => db'.file = db.file
    BY <1>1, <1>2, <2>2, FilesLeftAlone DEF RunFail, RunStatus, SetRunStatus
  <2>8. RunEnd \/ RunPick \/ RunVerified \/ RunDefer \/ RunSkip \/ RunPerform
        \/ RunExecEnd \/ RunCount => db'.file = db.file
    BY DEF RunEnd, RunPick, RunVerified, RunDefer, RunSkip, RunPerform, RunExecEnd, RunCount
  <2> QED BY <2>4, <2>5, <2>6, <2>7, <2>8 DEF RunStep
<1>9. RecoverStep => db'.file = db.file
  <2>1. boot.todo \in SUBSET ActionId /\ boot.cancel \in SUBSET ActionId
        /\ boot.groups \in SUBSET Group
    BY DEF TypeOK, BootType
  <2>2. RecoverAction => db'.file = db.file
    <3>1. RecoverAction => Oldest(boot.todo) \in ActionId
      BY <2>1, OldestIn DEF RecoverAction
    <3> QED BY <1>1, <1>2, <3>1, FilesLeftAlone DEF RecoverAction, WriteLost
  <2>3. RecoverGroup => db'.file = db.file
    <3>1. RecoverGroup => \E g \in boot.groups :
            db' = UpdateStatusIf(db, g, RecoverFrom, "failed") \/ db' = db
      BY DEF RecoverGroup, WriteLost
    <3> QED BY <1>1, <1>2, <2>1, <3>1, FilesLeftAlone
  <2>4. RecoverCancel => db'.file = db.file
    <3>1. RecoverCancel => Oldest(boot.cancel) \in ActionId
      BY <2>1, OldestIn DEF RecoverCancel
    <3> QED BY <1>1, <1>2, <3>1, FilesLeftAlone DEF RecoverCancel
  <2>5. RecoverList \/ RecoverDone => db'.file = db.file
    BY DEF RecoverList, RecoverDone
  <2> QED BY <2>2, <2>3, <2>4, <2>5 DEF RecoverStep
<1>10. ToggleDryRun \/ RunStart \/ RunRecover \/ Crash \/ Restart \/ UNCHANGED vars
         => db'.file = db.file
  BY DEF ToggleDryRun, RunStart, RunRecover, Crash, Restart, vars
<1> QED BY <1>3, <1>4, <1>5, <1>6, <1>7, <1>8, <1>9, <1>10 DEF Next

\* Who changes the locals of the group lock.
LEMMA LockFrame ==
  ASSUME [Next]_vars
  PROVE  lk' = lk \/ LockStep \/ (\E g \in Group : LockTaken(g)) \/ Crash
<1>1. \A g \in Group : UnlockedWrite(g) => lk' = lk
  BY DEF UnlockedWrite, Ignore, UnignoreRead, UnignoreWrite, FollowupFails,
         SetUserOverride, Repoint, ResolveUnseen
<1>2. \A a \in ActionId : QueueCancel(a) => lk' = lk
  BY DEF QueueCancel
<1>3. \A f \in disk : SomebodyDeletes(f) => lk' = lk
  BY DEF SomebodyDeletes
<1>4. RunStep => lk' = lk
  BY DEF RunStep, RunEnd, RunPick, RunDrop, RunVerified, RunDefer, RunSkip, RunSkipOne,
         RunRefuse, RunExec, RunPerform, RunFinish, RunExecEnd, RunFail, RunCount, RunStatus
<1>5. RecoverStep => lk' = lk
  BY DEF RecoverStep, RecoverAction, RecoverGroup, RecoverList, RecoverCancel, RecoverDone
<1>6. ToggleDryRun \/ RunStart \/ RunRecover \/ Restart \/ UNCHANGED vars => lk' = lk
  BY DEF ToggleDryRun, RunStart, RunRecover, Restart, vars
<1> QED BY <1>1, <1>2, <1>3, <1>4, <1>5, <1>6 DEF Next

\* While a scan holds the group lock no version joins the group.
LEMMA CopyKeeps ==
  ASSUME TypeOK, Refs, CopyPresence, [Next]_vars
  PROVE  CopyPresence'
<1>1. db \in Database /\ lk \in LockType
  BY DEF TypeOK, StoreTypeOK
<1>2. lk' = Free => CopyPresence'
  BY <1>1, HoldingType DEF CopyPresence
<1>3. CASE lk' = lk
  <2>1. lk.op = "store" => ~StoreWrite /\ ~StoreTouch
    BY <1>1, <1>3, HoldingType DEF StoreWrite, StoreTouch
  <2>2. ASSUME NEW g \in Group, NEW v \in Version, NEW o \in UserOverrides,
               SetUserOverride(g, v, o)
        PROVE  \A h \in Group, w \in Version :
                 db'.file[h][w].decision = "absent" => db.file[h][w].decision = "absent"
    BY <1>1, <2>2, SetOverrideFiles, RemovalsAssumption DEF SetUserOverride
  <2>3. lk.op = "store" =>
          \A h \in Group, w \in Version :
            db'.file[h][w].decision = "absent" => db.file[h][w].decision = "absent"
    BY <2>1, <2>2, FilesFrame
  <2> QED BY <1>1, <1>3, <2>3 DEF CopyPresence, LockType
<1>4. CASE LockStep
  <2>1. StoreWrite \/ StoreTouch \/ StoreFails \/ ResolveWriteOne \/ CancelReopen => lk' = Free
    BY DEF StoreWrite, StoreTouch, StoreFails, ResolveWriteOne, CancelReopen
  <2>2. ApproveStep => lk.op = "approve"
    BY DEF ApproveStep, ApproveLeftovers, ApproveCreate, ApproveCheck, ApproveQueue,
           ApproveRecheck, ApproveRollback, ApproveToReview
  <2>3. CancelPendingOfGroup => lk.op = "cancel"
    BY DEF CancelPendingOfGroup
  <2>4. ApproveStep \/ CancelPendingOfGroup => lk'.op \in {lk.op, "free"}
    <3>1. ApproveLeftovers \/ ApproveQueue => lk'.op = lk.op
      BY <1>1 DEF ApproveLeftovers, ApproveQueue, LockType
    <3>2. ApproveCreate => lk'.op = lk.op
      BY <1>1 DEF ApproveCreate, LockType
    <3>3. ApproveCheck => lk'.op = lk.op
      BY <1>1 DEF ApproveCheck, LockType
    <3>4. ApproveRecheck \/ ApproveRollback \/ CancelPendingOfGroup => lk'.op \in {lk.op, "free"}
      <4>1. ASSUME NEW pc, lk' = [lk EXCEPT !.pc = pc] PROVE lk'.op = lk.op
        BY <1>1, <4>1 DEF LockType
      <4>2. lk' = Free => lk'.op = "free"
        BY <1>1, HoldingType
      <4>3. ApproveRecheck \/ ApproveRollback \/ CancelPendingOfGroup =>
              lk' = Free \/ \E pc : lk' = [lk EXCEPT !.pc = pc]
        BY DEF ApproveRecheck, ApproveRollback, CancelPendingOfGroup
      <4> QED BY <4>1, <4>2, <4>3
    <3>5. ApproveToReview => lk'.op = "free"
      BY <1>1, HoldingType DEF ApproveToReview
    <3> QED BY <3>1, <3>2, <3>3, <3>4, <3>5 DEF ApproveStep
  <2>5. ApproveStep \/ CancelPendingOfGroup => CopyPresence'
    BY <2>2, <2>3, <2>4 DEF CopyPresence
  <2> QED BY <1>2, <1>4, <2>1, <2>5 DEF LockStep
<1>5. ASSUME NEW g \in Group, LockTaken(g) PROVE CopyPresence'
  <2>1. db' = db
    BY <1>5 DEF LockTaken, StoreRead, ResolveRead, ApproveRead, CancelRead
  <2>2. CASE StoreRead(g)
    <3>1. lk'.g = g /\ lk'.copy = Row(g)
      BY <1>1, <2>2, HoldingType DEF StoreRead
    <3> QED BY <2>1, <3>1 DEF CopyPresence, Row
  <2>3. CASE ResolveRead(g) \/ CancelRead(g)
    BY <1>1, <2>3, HoldingType DEF ResolveRead, CancelRead, CopyPresence
  <2>4. CASE ApproveRead(g)
    <3> DEFINE pc == IF ActionsIn(db, g, {"pending"}) # {} THEN "leftovers" ELSE "create"
               h == Holding("approve", pc, g)
    <3>1. h \in LockType /\ h.op = "approve"
      BY <1>1, HoldingType
    <3>2. lk' = [h EXCEPT !.todo = Targets(db.file[g]), !.stamp = NextStamp(g), !.dry = dryRun]
      BY <2>4 DEF ApproveRead
    <3> HIDE DEF h, pc
    <3>3. lk'.op = "approve"
      BY <3>1, <3>2 DEF LockType
    <3> QED BY <3>3 DEF CopyPresence
  <2> QED BY <1>5, <2>2, <2>3, <2>4 DEF LockTaken
<1>6. CASE Crash
  BY <1>2, <1>6 DEF Crash
<1> QED BY <1>3, <1>4, <1>5, <1>6, LockFrame

-----------------------------------------------------------------------------
(* The rest of the state.                                                  *)

\* Every transaction gives out at most one new stamp.
LEMMA StampsKeep ==
  ASSUME db \in Database, db' \in Database, StampsBounded, Stable(db, db')
  PROVE  StampsBounded'
<1>1. PICK m \in Nat : \A a \in ActionId : db.act[a].stamp <= m
  BY DEF StampsBounded
<1>2. PICK n \in Nat : \A a \in ActionId : db'.act[a].stamp \in {db.act[a].stamp, n}
  BY DEF Stable
<1>3. \A a \in ActionId : db'.act[a].stamp \in Nat /\ db.act[a].stamp \in Nat
  BY DEF Database, Action
<1>4. \A a \in ActionId : db'.act[a].stamp <= m + n
  BY <1>1, <1>2, <1>3
<1>5. m + n \in Nat
  OBVIOUS
<1> QED BY <1>4, <1>5 DEF StampsBounded

\* The requests in flight are about groups that exist.
LEMMA ApiKeeps ==
  ASSUME TypeOK, Refs, Stable(db, db'), [Next]_vars
  PROVE  ApiRefs'
<1>1. /\ unignores \subseteq Known' /\ followups \subseteq Known' /\ Known \subseteq Known'
  BY StableRefs DEF Refs, ApiRefs
<1> SUFFICES unignores' \subseteq Known' /\ followups' \subseteq Known'
  BY DEF ApiRefs
<1>2. CASE unignores' \subseteq unignores /\ followups' \subseteq followups
  BY <1>1, <1>2
<1>3. CASE CancelReopen
  <2>1. lk.g \in Known
    BY <1>3 DEF CancelReopen, Refs, LockRefs
  <2> QED BY <1>1, <1>3, <2>1 DEF CancelReopen
<1>4. ASSUME NEW g \in Group, UnignoreRead(g) \/ UnignoreWrite(g)
      PROVE  unignores' \subseteq Known' /\ followups' \subseteq Known'
  <2>1. g \in Known
    BY <1>4 DEF UnignoreRead, UnignoreWrite, Known, Exists, Refs, ApiRefs
  <2>2. unignores' \subseteq unignores \cup {g} /\ followups' \subseteq followups \cup {g}
    BY <1>4 DEF UnignoreRead, UnignoreWrite
  <2> QED BY <1>1, <2>1, <2>2
<1>5. LockStep => CancelReopen \/ (unignores' = unignores /\ followups' = followups)
  BY DEF LockStep, StoreWrite, StoreTouch, StoreFails, ResolveWriteOne, ApproveStep,
         ApproveLeftovers, ApproveCreate, ApproveCheck, ApproveQueue, ApproveRecheck,
         ApproveRollback, ApproveToReview, CancelPendingOfGroup, api
<1>6. \A g \in Group : LockTaken(g) => unignores' = unignores /\ followups' \subseteq followups
  BY DEF LockTaken, StoreRead, ResolveRead, ApproveRead, CancelRead, api
<1>7. \A g \in Group : UnlockedWrite(g) =>
        \/ UnignoreRead(g) \/ UnignoreWrite(g)
        \/ unignores' = unignores /\ followups' \subseteq followups
  BY DEF UnlockedWrite, Ignore, FollowupFails, SetUserOverride, Repoint, ResolveUnseen, api
<1>8. \A a \in ActionId : QueueCancel(a) => unignores' = unignores /\ followups' = followups
  BY DEF QueueCancel, api
<1>9. \A f \in disk : SomebodyDeletes(f) => unignores' = unignores /\ followups' = followups
  BY DEF SomebodyDeletes, api
<1>10. RunStep => unignores' = unignores /\ followups' = followups
  BY DEF RunStep, RunEnd, RunPick, RunDrop, RunVerified, RunDefer, RunSkip, RunSkipOne,
         RunRefuse, RunExec, RunPerform, RunFinish, RunExecEnd, RunFail, RunCount,
         RunStatus, api
<1>11. RecoverStep => unignores' = unignores /\ followups' = followups
  BY DEF RecoverStep, RecoverAction, RecoverGroup, RecoverList, RecoverCancel, RecoverDone, api
<1>12. ToggleDryRun \/ RunStart \/ RunRecover \/ Restart \/ Crash =>
         unignores' \subseteq unignores /\ followups' \subseteq followups
  BY DEF ToggleDryRun, RunStart, RunRecover, Restart, Crash, api
<1>13. UNCHANGED vars => unignores' = unignores /\ followups' = followups
  BY DEF vars
<1> QED BY <1>2, <1>3, <1>4, <1>5, <1>6, <1>7, <1>8, <1>9, <1>10, <1>11, <1>12, <1>13
        DEF Next

\* The settings and the counters.
LEMMA CountersKeep ==
  ASSUME TypeOK, Refs, [Next]_vars
  PROVE  /\ dryRun' \in BOOLEAN /\ interrupted' \subseteq ActionId
         /\ crashes' \in 0 .. MaxCrashes /\ lost' \in 0 .. MaxLost
<1> DEFINE Same == dryRun' = dryRun /\ interrupted' = interrupted /\ crashes' = crashes
           More == lost' = lost \/ (lost < MaxLost /\ lost' = lost + 1)
<1>1. /\ dryRun \in BOOLEAN /\ interrupted \subseteq ActionId
      /\ crashes \in 0 .. MaxCrashes /\ lost \in 0 .. MaxLost
      /\ MaxCrashes \in Nat /\ MaxLost \in Nat
  BY RemovalsAssumption DEF TypeOK
<1>2. CASE Same /\ More
  BY <1>1, <1>2
<1>3. CASE Crash
  BY <1>1, <1>3 DEF Crash
<1>4. CASE ToggleDryRun
  BY <1>1, <1>4, RemovalsAssumption DEF ToggleDryRun, proc
<1>5. CASE RecoverAction
  <2>1. Oldest(boot.todo) \in ActionId
    BY <1>5, OldestIn DEF RecoverAction, TypeOK, BootType
  <2>2. /\ interrupted' \in {interrupted, interrupted \cup {Oldest(boot.todo)}}
        /\ dryRun' = dryRun /\ crashes' = crashes /\ More
    BY <1>5 DEF RecoverAction, WriteLost
  <2> QED BY <1>1, <2>1, <2>2
<1>6. LockStep => Same /\ lost' = lost
  BY DEF LockStep, StoreWrite, StoreTouch, StoreFails, ResolveWriteOne, ApproveStep,
         ApproveLeftovers, ApproveCreate, ApproveCheck, ApproveQueue, ApproveRecheck,
         ApproveRollback, ApproveToReview, CancelPendingOfGroup, CancelReopen, proc
<1>7. \A g \in Group : LockTaken(g) => Same /\ lost' = lost
  BY DEF LockTaken, StoreRead, ResolveRead, ApproveRead, CancelRead, proc
<1>8. \A g \in Group : UnlockedWrite(g) => Same /\ lost' = lost
  BY DEF UnlockedWrite, Ignore, UnignoreRead, UnignoreWrite, FollowupFails,
         SetUserOverride, Repoint, ResolveUnseen, proc
<1>9. \A a \in ActionId : QueueCancel(a) => Same /\ lost' = lost
  BY DEF QueueCancel, proc
<1>10. \A f \in disk : SomebodyDeletes(f) => Same /\ lost' = lost
  BY DEF SomebodyDeletes, proc
<1>11. RunStep => Same /\ More
  BY DEF RunStep, RunEnd, RunPick, RunDrop, RunVerified, RunDefer, RunSkip, RunSkipOne,
         RunRefuse, RunExec, RunPerform, RunFinish, RunExecEnd, RunFail, RunCount,
         RunStatus, WriteLost, proc
<1>12. RecoverStep => RecoverAction \/ (Same /\ More)
  BY DEF RecoverStep, RecoverGroup, RecoverList, RecoverCancel, RecoverDone, WriteLost
<1>13. RunStart \/ RunRecover \/ Restart => Same /\ lost' = lost
  BY DEF RunStart, RunRecover, Restart, proc
<1>14. UNCHANGED vars => Same /\ lost' = lost
  BY DEF vars
<1> HIDE DEF Same
<1> QED BY <1>2, <1>3, <1>4, <1>5, <1>6, <1>7, <1>8, <1>9, <1>10, <1>11, <1>12, <1>13, <1>14
        DEF Next

-----------------------------------------------------------------------------
(* The theorems.                                                           *)

\* The process starts with the empty store.
LEMMA InitStore == Init => StoreInit
<1> SUFFICES ASSUME Init PROVE StoreInit
  OBVIOUS
<1> DEFINE row == [group |-> CHOOSE g \in Group : TRUE,
                   version |-> CHOOSE v \in Version : TRUE,
                   status |-> "none", stamp |-> 0, dryRun |-> FALSE]
           acts == [a \in ActionId |-> row]
           st == [g \in Group |-> "absent"]
           fs == [g \in Group |-> [v \in Version |-> EmptyFile]]
<1>1. row \in Action
  BY RemovalsAssumption DEF Action, ActionStatus
<1>2. EmptyFile \in File
  BY DEF EmptyFile, File, Decision, Override
<1>3. db = [status |-> st, file |-> fs, act |-> acts]
  BY DEF Init
<1>4. \A a \in ActionId : acts[a].status = "none"
  OBVIOUS
<1>5. acts \in [ActionId -> Action]
  BY <1>1
<1>6. fs \in [Group -> [Version -> File]]
  BY <1>2
<1> HIDE DEF acts, fs, row
<1>7. db \in Database
  BY <1>3, <1>5, <1>6 DEF Database
<1> QED BY <1>3, <1>4, <1>7 DEF StoreInit, fs

\* The inductive invariant holds initially: there is a file for every version.
LEMMA InvInit == Init => RemovalInv
<1> SUFFICES ASSUME Init PROVE RemovalInv
  OBVIOUS
<1>1. StoreInit /\ Sound(db) /\ db \in Database
  BY InitStore, StoreInitSound DEF Sound
<1>2. /\ lk = Free /\ run = Idle /\ boot = Working
      /\ unignores = {} /\ followups = {} /\ interrupted = {} /\ crashes = 0 /\ lost = 0
      /\ disk = {FileOf[v] : v \in Version} /\ gone = {} /\ dryRun \in DryRuns
  BY DEF Init
<1>3. lk \in LockType /\ lk.op = "free"
  BY <1>1, <1>2, HoldingType
<1>4. run \in RunType /\ run.pc = "idle" /\ run.listed = {} /\ run.todo = {}
  BY <1>2, IdleType
<1>5. boot \in BootType /\ boot.todo = {} /\ boot.cancel = {}
  BY <1>2 DEF Working, BootType
<1>6. TypeOK
  BY <1>1, <1>2, <1>3, <1>4, <1>5, RemovalsAssumption DEF TypeOK, StoreTypeOK
<1>7. Refs
  BY <1>2, <1>3, <1>4, <1>5 DEF Refs, LockRefs, RunRefs, BootRefs, ApiRefs
<1>8. StampsBounded
  <2>1. \A a \in ActionId : db.act[a].stamp = 0
    BY DEF Init
  <2>2. \A a \in ActionId : db.act[a].stamp <= 0
    BY <2>1
  <2> QED BY <2>2 DEF StampsBounded
<1>9. WorldOK
  BY <1>2, RemovalsAssumption DEF WorldOK, NeverLastCopy
<1>10. RunSafe /\ CopyPresence
  BY <1>3, <1>4 DEF RunSafe, KeepersSafe, RealRun, KeptApart, CopyPresence, Executing
<1> QED BY <1>1, <1>6, <1>7, <1>8, <1>9, <1>10 DEF RemovalInv

\* No file appears from nowhere.
LEMMA FilesKnown ==
  ASSUME [Next]_vars
  PROVE  disk' \cup gone' \subseteq disk \cup gone
<1>1. CASE RunPerform
  <2>1. gone' = gone /\ disk' \subseteq disk
    BY <1>1 DEF RunPerform
  <2> QED BY <2>1
<1>2. CASE ~RunPerform
  BY <1>2, WorldFrame
<1> QED BY <1>1, <1>2

\* Every step keeps the inductive invariant.
LEMMA InvNext ==
  ASSUME RemovalInv, [Next]_vars
  PROVE  RemovalInv' /\ Stable(db, db')
<1>1. TypeOK /\ Refs /\ StampsBounded /\ WorldOK /\ RunSafe /\ CopyPresence /\ Sound(db)
  BY DEF RemovalInv
<1>2. [StoreNext]_db
  BY <1>1, StepStores
<1>3. Sound(db') /\ Stable(db, db')
  <2>1. CASE StoreNext
    BY <1>1, <2>1, StoreNextSafe, StoreNextStable DEF Safe, Sound
  <2>2. CASE db' = db
    <3>1. Frame(db, db)
      BY DEF Frame
    <3>2. Stable(db, db)
      BY <3>1, FrameStable
    <3> QED BY <1>1, <2>2, <3>2
  <2> QED BY <1>2, <2>1, <2>2
<1>4. db \in Database /\ db' \in Database /\ Known \subseteq Known'
  BY <1>1, <1>3, StableRefs DEF Sound
<1>5. lk' \in LockType /\ LockRefs'
  BY <1>1, <1>4, LockFrame, LockKeeps
<1>6. run' \in RunType /\ RunRefs' /\ RunSafe'
  BY <1>1, <1>3, RunKeeps
<1>7. boot' \in BootType /\ BootRefs'
  BY <1>1, <1>3, BootKeeps
<1>8. ApiRefs'
  BY <1>1, <1>3, ApiKeeps
<1>9. StampsBounded'
  BY <1>1, <1>3, <1>4, StampsKeep
<1>10. WorldOK' /\ CopyPresence'
  BY <1>1, WorldKeeps, CopyKeeps
<1>11. TypeOK'
  <2>1. disk' \cup gone' \subseteq {FileOf[v] : v \in Version}
    BY <1>1, FilesKnown DEF TypeOK
  <2>2. unignores' \subseteq Group /\ followups' \subseteq Group
    BY <1>8 DEF ApiRefs, Known
  <2>3. /\ dryRun' \in BOOLEAN /\ interrupted' \subseteq ActionId
        /\ crashes' \in 0 .. MaxCrashes /\ lost' \in 0 .. MaxLost
    BY <1>1, CountersKeep
  <2> QED BY <1>4, <1>5, <1>6, <1>7, <2>1, <2>2, <2>3 DEF TypeOK, StoreTypeOK
<1>12. Refs'
  BY <1>5, <1>6, <1>7, <1>8 DEF Refs
<1>13. Sound(db)'
  BY <1>3
<1> QED BY <1>3, <1>6, <1>9, <1>10, <1>11, <1>12, <1>13 DEF RemovalInv

\* The invariant is an invariant.
LEMMA InvHolds == Spec => []RemovalInv
<1>1. RemovalInv /\ [Next]_vars => RemovalInv'
  BY InvNext
<1> QED BY <1>1, InvInit, PTL DEF Spec

\* Every part of the state keeps its type: what a scan hands to the store, the
\* status a run computes and the stamp of an approval are always defined.
THEOREM RemovalsTyped == Spec => []TypeOK
<1>1. RemovalInv => TypeOK
  BY DEF RemovalInv
<1> QED BY <1>1, InvHolds, PTL

\* The scanner, the executor, the API and the recovery, crashes included, are
\* clients of the group store: they run its transactions, with arguments it
\* accepts, and change it in no other way.
THEOREM UsesTheStore == Spec => StoreSpec
<1>1. RemovalInv /\ [Next]_vars => [StoreNext]_db
  BY StepStores DEF RemovalInv
<1> QED BY <1>1, InitStore, InvHolds, PTL DEF Spec, StoreSpec

\* So no removal waits in the queue for a version that is not marked for removal,
\* whatever the scanner, the users and a crash do in between.
THEOREM QueueIsRemovable == Spec => []PendingRemovable
BY UsesTheStore, StoreInvariants, PTL

\* So a version the user or a rule keeps is never stored "remove".
THEOREM KeepsWhatIsKept == Spec => []KeepWins
BY UsesTheStore, StoreKeeps, PTL

\* So a removal starts only while its version is marked for removal.
THEOREM RunStartsMarked == Spec => StartsOnlyMarked
BY UsesTheStore, StoreStarts, PTL

\* Dupearr never deletes the last copy: as long as nobody else deletes files,
\* one is left, with any number of groups that share versions and files, of
\* approvals, crashes and lost writes.
THEOREM LastCopyStays == Spec => []NeverLastCopy
<1>1. RemovalInv => NeverLastCopy
  BY DEF RemovalInv, WorldOK
<1> QED BY <1>1, InvHolds, PTL

\* A file that is removed leaves the file of a keeper that was verified before.
THEOREM KeeperStays == Spec => RemovalLeavesKeeper
<1>1. ASSUME RemovalInv, [Next]_vars
      PROVE  \A f \in disk \ disk' :
               \/ f \in gone'
               \/ \E k \in run.keepers : FileOf[k] \in disk' \cup gone'
  <2>1. CASE RunPerform
    <3>1. gone' = gone /\ disk \ {FileOf[VersionOf(run.cur)]} \subseteq disk'
      BY <2>1 DEF RunPerform
    <3>2. PICK k \in run.keepers : /\ FileOf[k] \in disk \cup gone
                                   /\ FileOf[k] # FileOf[VersionOf(run.cur)]
      BY <1>1, <2>1 DEF RunPerform, RemovalInv, RunSafe, KeepersSafe, Executing
    <3> QED BY <3>1, <3>2
  <2>2. CASE ~RunPerform
    BY <1>1, <2>2, WorldFrame
  <2> QED BY <2>1, <2>2
<1>2. RemovalInv /\ [Next]_vars =>
        [\A f \in disk \ disk' :
           \/ f \in gone'
           \/ \E k \in run.keepers : FileOf[k] \in disk' \cup gone']_vars
  BY <1>1
<1> QED BY <1>2, InvHolds, PTL DEF Spec, RemovalLeavesKeeper

\* No simulated removal touches a file, whenever the dry run setting is switched.
THEOREM SimulationStays == Spec => SimulatedStays
<1>1. ASSUME RemovalInv, [Next]_vars, disk' # disk, gone' = gone
      PROVE  ~run.dry /\ ~db.act[run.cur].dryRun
  <2>1. RunPerform
    BY <1>1, WorldFrame DEF RemovalInv, WorldOK
  <2> QED BY <1>1, <2>1 DEF RunPerform, RemovalInv, RunSafe, RealRun
<1>2. RemovalInv /\ [Next]_vars =>
        [disk' # disk /\ gone' = gone => ~run.dry /\ ~db.act[run.cur].dryRun]_vars
  BY <1>1
<1> QED BY <1>2, InvHolds, PTL DEF Spec, SimulatedStays

\* The override a scan hands over never replaces a stored one: it only ever adds
\* the empty override of a version that was not in the group when it was read.
LEMMA UpsertOverrides ==
  ASSUME RemovalInv, lk.op = "store", NEW e \in Incoming, db' = Upsert(db, lk.g, e),
         e.override = [v \in Version |-> ReadOverride(lk.copy.file, v)],
         NEW g \in Group, NEW v \in Version
  PROVE  db'.file[g][v].override = db.file[g][v].override
<1> DEFINE old == db.file[lk.g]
<1>1. db \in Database /\ lk.g \in Group /\ CopyPresence
  BY DEF RemovalInv, TypeOK, StoreTypeOK, LockType
<1>2. /\ db'.file[lk.g] = MergedFiles(old, e)
      /\ \A h \in Group \ {lk.g} : db'.file[h] = db.file[h]
  BY <1>1, UpsertFiles
<1>3. MergedOverride(old, e, v) = old[v].override
  <2>1. old[v].decision = "absent" => e.override[v] = ""
    BY <1>1 DEF CopyPresence, ReadOverride
  <2> QED BY <2>1 DEF MergedOverride
<1>4. MergedFiles(old, e)[v].override = MergedOverride(old, e, v)
  BY DEF MergedFiles
<1> QED BY <1>2, <1>3, <1>4

\* Only the user changes an override, whatever a scan read before.
THEOREM OnlyTheUserOverrides == Spec => OverridesSurvive
<1>1. ASSUME RemovalInv, [Next]_vars, NEW g \in Group, NEW v \in Version,
             db'.file[g][v].override # db.file[g][v].override
      PROVE  lk' = lk
  <2>1. lk.copy \in GroupRow
    BY <1>1 DEF RemovalInv, TypeOK, LockType
  <2>2. ~StoreWrite
    <3> SUFFICES ASSUME StoreWrite PROVE FALSE
      OBVIOUS
    <3>1. PICK files, engineKeep, protected, fresh :
            /\ fresh \in AllOutcomes
            /\ db' = Upsert(db, lk.g, Evaluated(lk.copy, files, engineKeep, protected, fresh))
      BY RemovalsAssumption, Zenon DEF StoreWrite, FreshStatus
    <3> DEFINE e == Evaluated(lk.copy, files, engineKeep, protected, fresh)
    <3>2. e \in Incoming
      BY <2>1, <3>1, EvaluatedIncoming
    <3>3. e.override = [w \in Version |-> ReadOverride(lk.copy.file, w)]
      BY DEF Evaluated
    <3> HIDE DEF e
    <3> QED BY <1>1, <3>1, <3>2, <3>3, UpsertOverrides DEF StoreWrite, e
  <2>3. ~StoreTouch
    <3> SUFFICES ASSUME StoreTouch PROVE FALSE
      OBVIOUS
    <3> DEFINE e == Unchanged(lk.copy)
    <3>1. e \in Incoming
      BY <2>1, UnchangedIncoming DEF StoreTouch
    <3>2. e.override = [w \in Version |-> ReadOverride(lk.copy.file, w)]
      BY DEF Unchanged
    <3>3. db' = Upsert(db, lk.g, e) /\ lk.op = "store"
      BY DEF StoreTouch
    <3> HIDE DEF e
    <3> QED BY <1>1, <3>1, <3>2, <3>3, UpsertOverrides
  <2>4. \E h \in Group, w \in Version, o \in UserOverrides : SetUserOverride(h, w, o)
    BY <1>1, <2>2, <2>3, FilesFrame DEF RemovalInv
  <2> QED BY <2>4 DEF SetUserOverride
<1>2. RemovalInv /\ [Next]_vars =>
        [\A g \in Group, v \in Version :
           db'.file[g][v].override # db.file[g][v].override => lk' = lk]_vars
  BY <1>1
<1> QED BY <1>2, InvHolds, PTL DEF Spec, OverridesSurvive

\* A copy that an earlier removal of the run relied on is not removed by that
\* run, when every version has a file of its own: keptInRun is a set of versions,
\* so a second version of a kept file is the listing's to notice.
THEOREM KeptCopiesStay ==
  ASSUME \A v, w \in Version : FileOf[v] = FileOf[w] => v = w
  PROVE  Spec => RunKeepsItsKeepers
<1>1. ASSUME RemovalInv, [Next]_vars, NEW f \in disk \ disk', NEW k \in run.keptInRun,
             f \notin gone'
      PROVE  FileOf[k] # f
  <2>1. RunPerform
    BY <1>1, WorldFrame
  <2>2. f = FileOf[VersionOf(run.cur)]
    BY <1>1, <2>1 DEF RunPerform
  <2>3. /\ VersionOf(run.cur) \notin run.keptInRun
        /\ run.keptInRun \subseteq Version /\ VersionOf(run.cur) \in Version
    BY <1>1, <2>1 DEF RunPerform, RemovalInv, RunSafe, KeptApart, TypeOK, RunType,
                      StoreTypeOK, Database, Action, VersionOf
  <2> QED BY <2>2, <2>3
<1>2. RemovalInv /\ [Next]_vars =>
        [\A f \in disk \ disk' :
           f \in gone' \/ \A k \in run.keptInRun : FileOf[k] # f]_vars
  BY <1>1
<1> QED BY <1>2, InvHolds, PTL DEF Spec, RunKeepsItsKeepers

=============================================================================

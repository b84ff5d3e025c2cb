------------------------------ MODULE Removals ------------------------------
(***************************************************************************)
(* The life of a removal, from the scan that proposes it to the deleted    *)
(* file: everything that writes the group store at the same time.          *)
(*                                                                         *)
(*   - the holder of the scanner's group lock (groupMu): a scan or a       *)
(*     re-evaluation storing a group, an approval, a cancelled approval, a *)
(*     targeted scan resolving a group (lk);                               *)
(*   - the writers that take no lock: ignore, un-ignore, overrides, the    *)
(*     cancellation of one queued removal, a repointed connection, the     *)
(*     end of a full scan;                                                 *)
(*   - the queue run of the executor (run), which works from copies read   *)
(*     earlier and takes the group lock only to write a group's status;    *)
(*   - crashes, and the recovery of interrupted removals at startup (boot).*)
(*                                                                         *)
(* Every step is at most one transaction of the store, one read of it or   *)
(* one change of the disk.  (_Fault: see GroupStore.)                      *)
(***************************************************************************)
EXTENDS GroupStore, FiniteSets

CONSTANTS
  FileOf,       \* the file of each version; two versions may share one
  Members,      \* the versions a scan may file under each group
  Concurrent,   \* which writers without the group lock are in play
  UserOverrides,\* the overrides the user sets
  Protectable,  \* the versions a protection rule may match
  EngineKeeps,  \* the sets of versions the engine may choose to keep
  Outcomes,     \* the statuses a fresh evaluation may give
  DryRuns,      \* the values the dry run setting takes
  MaxCrashes,   \* bound: crashes of the process
  MaxLost,      \* bound: results and recoveries the store fails to record
  MaxGone       \* bound: files deleted by somebody else

Writers == {"ignore", "unignore", "override", "queueCancel", "repoint",
            "unseen"}

\* "playing" is a deferral only because a version is playing.
AllOutcomes == {"pending", "review", "deferred", "playing", "protected"}

ASSUME RemovalsAssumption ==
  /\ Group # {} /\ Version # {} /\ ActionId # {}
  /\ Members \in [Group -> SUBSET Version]
  /\ Concurrent \subseteq Writers
  /\ UserOverrides \subseteq Override
  /\ Protectable \subseteq Version
  /\ EngineKeeps \subseteq SUBSET Version
  /\ Outcomes \subseteq AllOutcomes
  /\ DryRuns \subseteq BOOLEAN /\ DryRuns # {}
  /\ MaxCrashes \in Nat /\ MaxLost \in Nat /\ MaxGone \in Nat

VARIABLES
  disk,      \* the files that exist
  gone,      \* history: the files somebody else deleted
  dryRun,    \* settings.dryRun
  lk,        \* the holder of the group lock and its locals
  run,       \* the queue run of the executor and its locals
  unignores, \* groups an un-ignore request has read as "ignored"
  followups, \* groups an API request is about to re-evaluate
  boot,      \* the process: up, down, or recovering at startup
  interrupted, \* the actions whose message says a restart interrupted them
  crashes, lost  \* how often each of the two happened

world == <<disk, gone>>
api   == <<unignores, followups>>
proc  == <<boot, interrupted, crashes, lost>>
vars  == <<db, disk, gone, dryRun, lk, run, unignores, followups, boot,
          interrupted, crashes, lost>>

-----------------------------------------------------------------------------
(* Locals.                                                                 *)

Up == boot.pc = "up"

GroupRow == [status: GroupStatus \cup {"absent"}, file: [Version -> File]]
Row(g)   == [status |-> db.status[g], file |-> db.file[g]]

Kept(file) == {v \in Version : file[v].decision = "keep"}

NoRow == [status |-> "absent", file |-> [v \in Version |-> EmptyFile]]

\* Nobody holds the group lock.
Free == [op |-> "free", pc |-> "", g |-> CHOOSE g \in Group : TRUE,
         copy |-> NoRow, todo |-> {}, stamp |-> 0, dry |-> FALSE]

Holding(op, pc, g) == [Free EXCEPT !.op = op, !.pc = pc, !.g = g, !.copy = Row(g)]

LockFree == Up /\ lk.op = "free"

\* No queue run.
Idle == [pc |-> "idle", listed |-> {}, g |-> CHOOSE g \in Group : TRUE,
         copy |-> NoRow, todo |-> {}, stamps |-> {}, cur |-> CHOOSE a \in ActionId : TRUE,
         result |-> "none", keepers |-> {}, keptInRun |-> {}, dry |-> FALSE,
         goal |-> "queued", next |-> "pick"]

\* Between two groups of a run only these survive.
Between(r) == [Idle EXCEPT !.pc = "pick", !.listed = r.listed, !.dry = r.dry,
                           !.keptInRun = r.keptInRun]

Working == [pc |-> "up", todo |-> {}, groups |-> {}, list |-> {}, cancel |-> {}]

-----------------------------------------------------------------------------
(* Scans and re-evaluations: read, evaluate, store, under the group lock.  *)

\* carryOver: only a version that is in the stored group carries its override.
ReadOverride(file, v) ==
  IF file[v].decision = "absent" THEN "" ELSE file[v].override

\* engine.decide: the engine's keepers, then the user's overrides; an
\* override never removes a protected version nor the last kept one.
Decided(engineKeep, protected, file) ==
  LET keep == (engineKeep \cup {v \in Version : ReadOverride(file, v) = "keep"})
              \ {v \in Version : ReadOverride(file, v) = "remove" /\ v \notin protected} IN
  IF keep = {} THEN engineKeep ELSE keep

\* engine.status: the statuses the fresh data can give.
FreshStatus(removals) ==
  Outcomes \cap (IF removals = {} THEN {"protected", "review"}
                                  ELSE AllOutcomes \ {"protected"})

\* An approval survives a change of the kept version.
StoredStatus_Fault(copy, fresh, keep) ==
  CASE copy.status = "ignored" -> "ignored"
    [] copy.status = "queued" /\ fresh \in {"pending", "playing"} -> "queued"
    [] OTHER -> IF fresh = "playing" THEN "deferred" ELSE fresh

\* engine.finish: ignored stays, queued stays while the fresh result allows
\* the removals.  dropStaleApproval: but not when an approved keeper is not
\* kept any more.  (A group held back by incomplete data, by a blocked library
\* or by an ignored overlap goes to "review", which is a fresh status too.)
StoredStatus(copy, fresh, keep) ==
  CASE copy.status = "ignored" -> "ignored"
    [] copy.status = "queued" /\ fresh \in {"pending", "playing"} ->
         IF Kept(copy.file) \subseteq keep THEN "queued" ELSE "review"
    [] OTHER -> IF fresh = "playing" THEN "deferred" ELSE fresh

Evaluated(copy, files, engineKeep, protected, fresh) ==
  LET keep == Decided(engineKeep, protected, copy.file) \cap files IN
  [status    |-> StoredStatus(copy, fresh, keep),
   engine    |-> [v \in Version |-> IF v \in engineKeep THEN "keep" ELSE "remove"],
   decision  |-> [v \in Version |-> IF v \notin files THEN "absent"
                                    ELSE IF v \in keep THEN "keep" ELSE "remove"],
   protected |-> [v \in Version |-> v \in protected],
   override  |-> [v \in Version |-> ReadOverride(copy.file, v)]]

\* What touch hands back: the group as it was read.
Unchanged(copy) ==
  [status    |-> copy.status,
   engine    |-> [v \in Version |-> IF copy.file[v].decision = "keep"
                                    THEN "keep" ELSE "remove"],
   decision  |-> [v \in Version |-> copy.file[v].decision],
   protected |-> [v \in Version |-> copy.file[v].protected],
   override  |-> [v \in Version |-> ReadOverride(copy.file, v)]]

\* persistGroup, reevaluateLocked, touch: lock and read.
StoreRead(g) ==
  /\ LockFree
  /\ lk' = Holding("store", "write", g)
  /\ followups' = followups \ {g}
  /\ UNCHANGED <<db, world, dryRun, run, unignores, proc>>

\* The group a scan built (two versions or more), or the stored one.
StoreWrite ==
  /\ lk.op = "store"
  /\ \E files \in {s \in SUBSET Members[lk.g] : Cardinality(s) >= 2} :
     \E engineKeep \in {k \cap files : k \in EngineKeeps} \ {{}} :
     \E protected \in SUBSET (engineKeep \cap Protectable) :
       LET keep == Decided(engineKeep, protected, lk.copy.file) \cap files IN
       \E fresh \in FreshStatus(files \ keep) :
         db' = Upsert(db, lk.g, Evaluated(lk.copy, files, engineKeep, protected, fresh))
  /\ lk' = Free
  /\ UNCHANGED <<world, dryRun, run, api, proc>>

StoreTouch ==
  /\ lk.op = "store"
  /\ lk.copy.status \notin Closed \cup {"absent"}
  /\ db' = Upsert(db, lk.g, Unchanged(lk.copy))
  /\ lk' = Free
  /\ UNCHANGED <<world, dryRun, run, api, proc>>

\* The group cannot be evaluated or stored: nothing is written.
StoreFails ==
  /\ lk.op = "store"
  /\ lk' = Free
  /\ UNCHANGED <<db, world, dryRun, run, api, proc>>

\* resolveOne of a targeted scan: the group is gone from the server.
ResolveRead(g) ==
  /\ LockFree
  /\ db.status[g] \notin Closed \cup {"absent"}
  /\ lk' = Holding("resolve", "write", g)
  /\ UNCHANGED <<db, world, dryRun, run, api, proc>>

\* The group lock is not released.
ResolveWriteOne_Fault ==
  /\ lk.op = "resolve"
  /\ db' = UpdateStatus(db, lk.g, "resolved")
  /\ UNCHANGED <<lk, world, dryRun, run, api, proc>>

ResolveWriteOne ==
  /\ lk.op = "resolve"
  /\ db' = UpdateStatus(db, lk.g, "resolved")
  /\ lk' = Free
  /\ UNCHANGED <<world, dryRun, run, api, proc>>

-----------------------------------------------------------------------------
(* ApproveReviewed, under approveMu and the group lock.                    *)

Approvable == {"pending", "review", "deferred", "failed"}

Targets(file) == {v \in Version : file[v].decision = "remove" /\ ~file[v].protected}

\* ValidateDecisions: something is kept, nothing protected is removed.
ValidDecisions(file) ==
  /\ Kept(file) # {}
  /\ \A v \in Version : file[v].protected => file[v].decision # "remove"

UnusedIds == {a \in ActionId : db.act[a].status = "none"}
IsNextId(a) == a \in UnusedIds /\ \A b \in UnusedIds : a <= b

StampsOf(g) == {db.act[a].stamp : a \in ActionsIn(db, g, ActionStatus \ {"none"})}

\* Strictly after every stamp of the group: a batch is told by its stamp.
LastStamp(g) == CHOOSE n \in StampsOf(g) : \A m \in StampsOf(g) : m <= n
NextStamp(g) == IF StampsOf(g) = {} THEN 1 ELSE LastStamp(g) + 1

\* sameApprovalState: decisions, protections and files.
SameApprovalState(a, b) ==
  \A v \in Version : /\ a.file[v].decision = b.file[v].decision
                     /\ a.file[v].protected = b.file[v].protected

ApproveRead(g) ==
  /\ LockFree
  /\ db.status[g] \in Approvable
  /\ ValidDecisions(db.file[g])
  /\ Targets(db.file[g]) # {}
  /\ ActionsIn(db, g, {"running"}) = {}
  /\ Cardinality(UnusedIds) >= Cardinality(Targets(db.file[g]))   \* bound
  /\ lk' = [Holding("approve", IF ActionsIn(db, g, {"pending"}) # {}
                               THEN "leftovers" ELSE "create", g)
              EXCEPT !.todo = Targets(db.file[g]), !.stamp = NextStamp(g),
                     !.dry = dryRun]
  /\ UNCHANGED <<db, world, dryRun, run, api, proc>>

ApproveLeftovers ==
  /\ lk.op = "approve" /\ lk.pc = "leftovers"
  /\ db' = CancelPendingForGroup(db, lk.g)
  /\ lk' = [lk EXCEPT !.pc = "create"]
  /\ UNCHANGED <<world, dryRun, run, api, proc>>

\* One removal per target; the store may refuse one (the rest is rolled back).
ApproveCreate ==
  /\ lk.op = "approve" /\ lk.pc = "create"
  /\ LET v == CHOOSE v \in lk.todo : TRUE IN
     /\ \E a \in ActionId : /\ IsNextId(a)
                            /\ db' = CreateAction(db, a, lk.g, v, lk.stamp, lk.dry)
     /\ lk' = IF ~Removable(db, lk.g, v) THEN [lk EXCEPT !.pc = "rollback"]
              ELSE [lk EXCEPT !.todo = @ \ {v},
                              !.pc = IF lk.todo = {v} THEN "check" ELSE "create"]
  /\ UNCHANGED <<world, dryRun, run, api, proc>>

\* groupChanged before the status is written.
ApproveCheck ==
  /\ lk.op = "approve" /\ lk.pc = "check"
  /\ lk' = [lk EXCEPT !.pc =
              IF /\ db.status[lk.g] = lk.copy.status
                 /\ SameApprovalState(lk.copy, Row(lk.g))
              THEN "cas" ELSE "rollback"]
  /\ UNCHANGED <<db, world, dryRun, run, api, proc>>

ApproveQueue ==
  /\ lk.op = "approve" /\ lk.pc = "cas"
  /\ db' = UpdateStatusIf(db, lk.g, {lk.copy.status}, "queued")
  /\ lk' = [lk EXCEPT !.pc = IF db.status[lk.g] = lk.copy.status
                             THEN "recheck" ELSE "rollback"]
  /\ UNCHANGED <<world, dryRun, run, api, proc>>

\* groupChanged after it: an approval of other data is undone.
ApproveRecheck ==
  /\ lk.op = "approve" /\ lk.pc = "recheck"
  /\ lk' = IF SameApprovalState(lk.copy, Row(lk.g)) THEN Free
           ELSE [lk EXCEPT !.pc = "revert"]
  /\ UNCHANGED <<db, world, dryRun, run, api, proc>>

\* rollbackApproval, alone or as the first half of revertApproval.
ApproveRollback ==
  /\ lk.op = "approve" /\ lk.pc \in {"rollback", "revert"}
  /\ db' = CancelPendingForGroup(db, lk.g)
  /\ lk' = IF lk.pc = "revert" THEN [lk EXCEPT !.pc = "toReview"] ELSE Free
  /\ UNCHANGED <<world, dryRun, run, api, proc>>

ApproveToReview ==
  /\ lk.op = "approve" /\ lk.pc = "toReview"
  /\ db' = UpdateStatusIf(db, lk.g, {"queued", "pending"}, "review")
  /\ lk' = Free
  /\ UNCHANGED <<world, dryRun, run, api, proc>>

-----------------------------------------------------------------------------
(* CancelGroup, under approveMu and the group lock; the API re-evaluates   *)
(* the group afterwards.                                                   *)

CancelRead(g) ==
  /\ LockFree
  /\ Exists(db, g)
  /\ lk' = Holding("cancel", "pending", g)
  /\ UNCHANGED <<db, world, dryRun, run, api, proc>>

CancelPendingOfGroup ==
  /\ lk.op = "cancel" /\ lk.pc = "pending"
  /\ db' = CancelPendingForGroup(db, lk.g)
  /\ lk' = IF lk.copy.status \in {"queued", "failed"}
           THEN [lk EXCEPT !.pc = "reopen"] ELSE Free
  /\ UNCHANGED <<world, dryRun, run, api, proc>>

CancelReopen ==
  /\ lk.op = "cancel" /\ lk.pc = "reopen"
  /\ db' = UpdateStatus(db, lk.g, "pending")
  /\ lk' = Free
  /\ followups' = followups \cup {lk.g}
  /\ UNCHANGED <<world, dryRun, run, unignores, proc>>

-----------------------------------------------------------------------------
(* Writers without the group lock.                                         *)

\* ignoreGroup; a group resolved after the request read it is ignored too.
Ignore(g) ==
  /\ Up /\ "ignore" \in Concurrent
  /\ db.status[g] \notin {"absent", "ignored"}
  /\ db' = UpdateStatus(db, g, "ignored")
  /\ UNCHANGED <<world, dryRun, lk, run, api, proc>>

\* unignoreGroup: read, then write; several requests may be in flight.
UnignoreRead(g) ==
  /\ Up /\ "unignore" \in Concurrent
  /\ db.status[g] = "ignored" /\ g \notin unignores
  /\ unignores' = unignores \cup {g}
  /\ UNCHANGED <<db, world, dryRun, lk, run, followups, proc>>

UnignoreWrite(g) ==
  /\ Up /\ g \in unignores
  /\ db' = UpdateStatus(db, g, "pending")
  /\ unignores' \in {unignores, unignores \ {g}}
  /\ followups' = followups \cup {g}
  /\ UNCHANGED <<world, dryRun, lk, run, proc>>

\* The re-evaluation a request waits for fails: the group goes to review.
FollowupFails(g) ==
  /\ Up /\ g \in followups
  /\ db' = UpdateStatus(db, g, "review")
  /\ followups' = followups \ {g}
  /\ UNCHANGED <<world, dryRun, lk, run, unignores, proc>>

\* handleDuplicateOverride: refused up front when nothing would be kept.
SetUserOverride(g, v, o) ==
  /\ Up /\ "override" \in Concurrent
  /\ db.status[g] \notin {"absent", "resolved"}
  /\ db.file[g][v].decision # "absent" /\ db.file[g][v].override # o
  /\ o = "remove" => /\ Kept(db.file[g]) \ {v} # {}
                     /\ ~db.file[g][v].protected
  /\ db' = SetOverride(db, g, v, o)
  /\ UNCHANGED <<world, dryRun, lk, run, api, proc>>

\* handleQueueCancel: DELETE /queue/{id}.
QueueCancel(a) ==
  /\ Up /\ "queueCancel" \in Concurrent
  /\ db.act[a].status = "pending"
  /\ db' = CancelIfPending(db, a)
  /\ UNCHANGED <<world, dryRun, lk, run, api, proc>>

\* endpointRepointed: the connection of the group has another URL now.
Repoint(g) ==
  /\ Up /\ "repoint" \in Concurrent
  /\ db.status[g] \in {"queued", "failed"}
  /\ db' = UpdateStatusIf(db, g, {"queued", "failed"}, "review")
  /\ UNCHANGED <<world, dryRun, lk, run, api, proc>>

\* resolveFull: the full scan did not see the group.
ResolveUnseen(g) ==
  /\ Up /\ "unseen" \in Concurrent
  /\ db.status[g] \notin Closed \cup {"absent"}
  /\ db' = MarkUnseenResolved(db, {g})
  /\ UNCHANGED <<world, dryRun, lk, run, api, proc>>

ToggleDryRun ==
  /\ Up
  /\ dryRun' \in DryRuns \ {dryRun}
  /\ UNCHANGED <<db, world, lk, run, api, proc>>

\* Somebody else deletes a file.
SomebodyDeletes(f) ==
  /\ f \in disk /\ Cardinality(gone) < MaxGone
  /\ disk' = disk \ {f} /\ gone' = gone \cup {f}
  /\ UNCHANGED <<db, dryRun, lk, run, api, proc>>

-----------------------------------------------------------------------------
(* ProcessQueue, under the run lock.                                       *)

Oldest(ids) == CHOOSE a \in ids : \A b \in ids : a <= b

Having(s) == {a \in ActionId : db.act[a].status = s}

\* A write that fails is only logged: whoever wrote goes on.
WriteLost == lost < MaxLost /\ lost' = lost + 1 /\ UNCHANGED db

\* ListPending; a run without a pending removal ends at once.
Listed(dry) ==
  IF Having("pending") = {} THEN Idle
  ELSE [Idle EXCEPT !.pc = "pick", !.dry = dry, !.listed = Having("pending")]

RunStart ==
  /\ Up /\ run.pc = "idle"
  /\ Having("running") = {} /\ Having("pending") # {}
  /\ run' = Listed(dryRun)
  /\ UNCHANGED <<db, world, dryRun, lk, api, proc>>

\* A removal is still recorded as running: the run recovers it first.
RunRecover ==
  /\ Up /\ run.pc = "idle" /\ Having("running") # {}
  /\ run' = [Idle EXCEPT !.pc = "recover", !.dry = dryRun]
  /\ boot' = [Working EXCEPT !.todo = Having("running")]
  /\ UNCHANGED <<db, world, dryRun, lk, api, interrupted, crashes, lost>>

\* The run ends: nothing left, or a breaker, a limit or a shutdown stopped it.
RunEnd ==
  /\ run.pc = "pick"
  /\ run' = Idle
  /\ UNCHANGED <<db, world, dryRun, lk, api, proc>>

\* processGroup: the oldest batch and the group as stored now.  A group that
\* is not queued any more loses its listed removals.
RunPick ==
  /\ run.pc = "pick" /\ run.listed # {}
  /\ LET g == db.act[Oldest(run.listed)].group
         batch == {a \in run.listed : db.act[a].group = g} IN
     run' = [run EXCEPT
               !.pc = IF db.status[g] = "queued" THEN "verify" ELSE "drop",
               !.listed = @ \ batch, !.g = g, !.copy = Row(g), !.todo = batch,
               !.stamps = {db.act[a].stamp : a \in batch}, !.next = "pick"]
  /\ UNCHANGED <<db, world, dryRun, lk, api, proc>>

\* cancelActions, one removal after the other.
RunDrop ==
  /\ run.pc = "drop"
  /\ IF run.todo = {}
     THEN /\ run' = IF run.next = "pick" THEN Between(run)
                    ELSE [run EXCEPT !.pc = run.next]
          /\ UNCHANGED db
     ELSE LET a == Oldest(run.todo) IN
          /\ db' = UpdateAction(db, a, "cancelled")
          /\ run' = [run EXCEPT !.todo = @ \ {a}]
  /\ UNCHANGED <<world, dryRun, lk, api, proc>>

\* Only the groups that are still open are asked.
KeptElsewhere_Fault(v) ==
  \E h \in Group \ {run.g} : /\ db.status[h] \notin Closed \cup {"absent"}
                             /\ db.file[h][v].decision = "keep"

\* keptElsewhere: another live group keeps the version, or a group whose
\* copies this run removed does.
KeptElsewhere(v) ==
  \/ v \in run.keptInRun
  \/ \E h \in Group \ {run.g} : /\ db.status[h] \notin Closed \cup {"absent"}
                                /\ db.file[h][v].decision = "keep"

VersionOf(a) == db.act[a].version

\* The kept versions are taken as stored.
VerifiedKeepers_Fault == Kept(run.copy.file)

\* verify: the kept versions that are confirmed present.
VerifiedKeepers == {v \in Kept(run.copy.file) : FileOf[v] \in disk}

\* Two versions of one file are not noticed.
Verified_Fault ==
  /\ \A a \in run.todo :
       LET v == VersionOf(a) IN
       v \in Targets(run.copy.file) /\ ~KeptElsewhere(v) /\ FileOf[v] \in disk
  /\ ValidDecisions(run.copy.file)
  /\ VerifiedKeepers # {}

\* The checks of processGroup that the model can decide; the others (playback,
\* identities, *arr data, minimum age) may stop any group (RunSkip, RunDefer,
\* RunRefuse).
Verified ==
  /\ \A a \in run.todo :
       LET v == VersionOf(a) IN
       /\ v \in Targets(run.copy.file)
       /\ ~KeptElsewhere(v)
       /\ FileOf[v] \in disk
       /\ \A k \in Kept(run.copy.file) : FileOf[k] # FileOf[v]
  /\ ValidDecisions(run.copy.file)
  /\ VerifiedKeepers # {}

RunVerified ==
  /\ run.pc = "verify" /\ Verified
  /\ run' = [run EXCEPT !.pc = "exec", !.keepers = VerifiedKeepers, !.copy = NoRow]
  /\ UNCHANGED <<db, world, dryRun, lk, api, proc>>

\* deferGroup: "queued" is compare-and-set over "queued"; nothing changes.
RunDefer ==
  /\ run.pc = "verify"
  /\ run' = Between(run)
  /\ UNCHANGED <<db, world, dryRun, lk, api, proc>>

RunSkip ==
  /\ run.pc = "verify"
  /\ run' = [run EXCEPT !.pc = "skip", !.copy = NoRow]
  /\ UNCHANGED <<db, world, dryRun, lk, api, proc>>

\* skipGroup: every removal not started is skipped, then the group is sent to
\* review.
RunSkipOne ==
  /\ run.pc = "skip"
  /\ IF run.todo = {}
     THEN /\ run' = [run EXCEPT !.pc = "status", !.goal = "review"]
          /\ UNCHANGED db
     ELSE LET a == Oldest(run.todo) IN
          /\ db' = UpdateAction(db, a, "skipped")
          /\ run' = [run EXCEPT !.todo = @ \ {a}]
  /\ UNCHANGED <<world, dryRun, lk, api, proc>>

\* refuseGroup: no method can remove a, so nothing of the group is removed.
RunRefuse ==
  /\ run.pc = "verify" /\ Verified
  /\ \E a \in run.todo :
       /\ db' = UpdateAction(db, a, "failed")
       /\ run' = [run EXCEPT !.pc = "fail", !.todo = @ \ {a}, !.copy = NoRow]
  /\ UNCHANGED <<world, dryRun, lk, api, proc>>

\* The dry run an action was approved under is forgotten.
RunExec_Fault ==
  /\ run.pc = "exec"
  /\ \E a \in run.todo :
       /\ UpdateAccepted(db, a, "running")
       /\ db' = UpdateAction(db, a, "running")
       /\ run' = [run EXCEPT !.todo = @ \ {a}, !.cur = a, !.result = "dry_run",
                             !.dry = @ \/ dryRun,
                             !.pc = IF run.dry \/ dryRun THEN "finish" ELSE "perform"]
  /\ UNCHANGED <<world, dryRun, lk, api, proc>>

\* execute: settings are read again, then the action is started; a refused
\* start leaves it out.
RunExec ==
  /\ run.pc = "exec"
  /\ \E a \in run.todo :
       LET dry == run.dry \/ (~db.act[a].dryRun /\ dryRun) IN
       /\ db' = UpdateAction(db, a, "running")
       /\ run' = [run EXCEPT
                    !.todo = @ \ {a}, !.dry = dry,
                    !.cur = IF UpdateAccepted(db, a, "running") THEN a ELSE @,
                    !.result = IF UpdateAccepted(db, a, "running")
                               THEN "dry_run" ELSE "none",
                    !.pc = IF ~UpdateAccepted(db, a, "running") THEN "exec"
                           ELSE IF dry \/ db.act[a].dryRun THEN "finish"
                           ELSE "perform"]
  /\ UNCHANGED <<world, dryRun, lk, api, proc>>

\* perform: the file is removed, or not (refused as stale), or the removal
\* fails before or after the file was gone.
RunPerform ==
  /\ run.pc = "perform"
  /\ LET f == FileOf[VersionOf(run.cur)] IN
     \E result \in {"succeeded", "failed", "skipped"} :
       /\ run' = [run EXCEPT !.pc = "finish", !.result = result]
       /\ disk' \in CASE result = "succeeded" -> {disk \ {f}}
                      [] result = "failed"    -> {disk, disk \ {f}}
                      [] OTHER                -> {disk}
  /\ UNCHANGED <<db, gone, dryRun, lk, api, proc>>

\* finishAction, and where the group goes on from there; a result that cannot
\* be recorded is only logged.
RunFinish ==
  /\ run.pc = "finish"
  /\ \/ db' = UpdateAction(db, run.cur, run.result) /\ UNCHANGED lost
     \/ WriteLost
  /\ run' = [run EXCEPT
               !.cur = Idle.cur, !.result = "none",
               !.keptInRun = IF run.result = "succeeded" THEN @ \cup run.keepers ELSE @,
               !.pc = CASE run.result = "failed"  -> "fail"
                        [] run.result = "skipped" -> "skip"
                        [] OTHER                  -> "exec"]
  /\ UNCHANGED <<world, dryRun, lk, api, boot, interrupted, crashes>>

\* No removal is left, or a breaker, a limit or a shutdown halts the run.
RunExecEnd ==
  /\ run.pc = "exec"
  /\ run' = [run EXCEPT !.pc = "count"]
  /\ UNCHANGED <<db, world, dryRun, lk, api, proc>>

\* setRunStatus: a compare-and-set from "queued" under the group lock.
SetRunStatus(s) == UpdateStatusIf(db, run.g, {"queued", s}, s)

\* A failed removal fails the group before its other removals are cancelled.
RunFail ==
  /\ run.pc = "fail" /\ LockFree
  /\ db' = SetRunStatus("failed")
  /\ run' = [run EXCEPT !.pc = "drop", !.next = "count"]
  /\ UNCHANGED <<world, dryRun, lk, api, proc>>

\* finalizeGroup: the status the results of the approval batch call for.
BatchStatus(g, stamps) ==
  LET all == {a \in ActionsIn(db, g, ActionStatus \ {"none"}) :
                db.act[a].stamp \in stamps}
      st(s) == {a \in all : db.act[a].status = s}
      batch == all \ st("cancelled") IN
  CASE st("failed") # {}                       -> "failed"
    [] st("failed") = {} /\ st("skipped") # {} -> "review"
    [] st("failed") \cup st("skipped") = {}
         /\ st("pending") \cup st("running") # {} -> "queued"
    [] batch # {} /\ st("succeeded") = batch /\ st("cancelled") = {} -> "resolved"
    [] OTHER                                   -> "pending"

RunCount ==
  /\ run.pc = "count"
  /\ LET left == {a \in ActionsIn(db, run.g, ActionStatus \ {"none", "cancelled"}) :
                    db.act[a].stamp \in run.stamps} IN
     run' = IF left = {} THEN Between(run)
            ELSE [run EXCEPT !.pc = "status", !.goal = BatchStatus(run.g, run.stamps)]
  /\ UNCHANGED <<db, world, dryRun, lk, api, proc>>

\* The group lock is not taken.
RunStatus_Fault ==
  /\ run.pc = "status"
  /\ db' = SetRunStatus(run.goal)
  /\ run' = Between(run)
  /\ UNCHANGED <<world, dryRun, lk, api, proc>>

RunStatus ==
  /\ run.pc = "status" /\ LockFree
  /\ db' = SetRunStatus(run.goal)
  /\ run' = Between(run)
  /\ UNCHANGED <<world, dryRun, lk, api, proc>>

-----------------------------------------------------------------------------
(* Crash and recovery.                                                     *)

\* Only groups that are open count as interrupted.
RecoverFrom_Fault == {"pending", "review", "deferred"}

\* recoverFrom: every status but ignored.
RecoverFrom == GroupStatus \ {"ignored"}

Crash ==
  /\ boot.pc # "down" /\ crashes < MaxCrashes
  /\ crashes' = crashes + 1
  /\ boot' = [Working EXCEPT !.pc = "down"]
  /\ lk' = Free /\ run' = Idle /\ unignores' = {} /\ followups' = {}
  /\ UNCHANGED <<db, world, dryRun, interrupted, lost>>

\* main: recoverInterrupted runs before any command and before HTTP.
Restart ==
  /\ boot.pc = "down"
  /\ boot' = [Working EXCEPT !.pc = "recover", !.todo = Having("running")]
  /\ UNCHANGED <<db, world, dryRun, lk, run, api, interrupted, crashes, lost>>

Recovering == boot.pc = "recover" \/ run.pc = "recover"

\* The interrupted removal fails; its group is remembered once that is stored.
RecoverAction ==
  /\ Recovering /\ boot.todo # {}
  /\ LET a == Oldest(boot.todo) IN
     \/ /\ db' = UpdateAction(db, a, "failed")
        /\ boot' = [boot EXCEPT !.todo = @ \ {a}, !.groups = @ \cup {db.act[a].group}]
        /\ interrupted' = interrupted \cup {a}
        /\ UNCHANGED lost
     \/ /\ WriteLost
        /\ boot' = [boot EXCEPT !.todo = @ \ {a}]
        /\ UNCHANGED interrupted
  /\ UNCHANGED <<world, dryRun, lk, run, api, crashes>>

\* The group fails, under the group lock, before its removals are cancelled.
RecoverGroup ==
  /\ Recovering /\ lk.op = "free"
  /\ boot.todo = {} /\ boot.list = {} /\ boot.cancel = {}
  /\ \E g \in boot.groups :
       \/ /\ db' = UpdateStatusIf(db, g, RecoverFrom, "failed")
          /\ boot' = [boot EXCEPT !.groups = @ \ {g},
                        !.list = IF db.status[g] \in RecoverFrom THEN {g} ELSE {}]
          /\ UNCHANGED lost
       \/ WriteLost /\ boot' = [boot EXCEPT !.groups = @ \ {g}]
  /\ UNCHANGED <<world, dryRun, lk, run, api, interrupted, crashes>>

RecoverList ==
  /\ Recovering /\ boot.list # {}
  /\ boot' = [boot EXCEPT !.list = {},
                !.cancel = UNION {ActionsIn(db, g, {"pending"}) : g \in boot.list}]
  /\ UNCHANGED <<db, world, dryRun, lk, run, api, interrupted, crashes, lost>>

RecoverCancel ==
  /\ Recovering /\ boot.cancel # {}
  /\ LET a == Oldest(boot.cancel) IN
     /\ db' = UpdateAction(db, a, "cancelled")
     /\ boot' = [boot EXCEPT !.cancel = @ \ {a}]
  /\ UNCHANGED <<world, dryRun, lk, run, api, interrupted, crashes, lost>>

RecoverDone ==
  /\ Recovering
  /\ boot.todo = {} /\ boot.groups = {} /\ boot.list = {} /\ boot.cancel = {}
  /\ boot' = Working
  /\ run' = IF run.pc = "recover" THEN Listed(run.dry) ELSE run
  /\ UNCHANGED <<db, world, dryRun, lk, api, interrupted, crashes, lost>>

-----------------------------------------------------------------------------
Init ==
  /\ db = [status |-> [g \in Group |-> "absent"],
           file   |-> [g \in Group |-> [v \in Version |-> EmptyFile]],
           act    |-> [a \in ActionId |->
                         [group |-> CHOOSE g \in Group : TRUE,
                          version |-> CHOOSE v \in Version : TRUE,
                          status |-> "none", stamp |-> 0, dryRun |-> FALSE]]]
  /\ disk = {FileOf[v] : v \in Version} /\ gone = {}
  /\ dryRun \in DryRuns
  /\ lk = Free /\ run = Idle
  /\ unignores = {} /\ followups = {}
  /\ boot = Working /\ interrupted = {}
  /\ crashes = 0 /\ lost = 0

ApproveStep ==
  \/ ApproveLeftovers \/ ApproveCreate \/ ApproveCheck \/ ApproveQueue
  \/ ApproveRecheck \/ ApproveRollback \/ ApproveToReview

\* The steps of whoever holds the group lock.
LockStep ==
  \/ StoreWrite \/ StoreTouch \/ StoreFails \/ ResolveWriteOne
  \/ ApproveStep \/ CancelPendingOfGroup \/ CancelReopen

LockTaken(g) == StoreRead(g) \/ ResolveRead(g) \/ ApproveRead(g) \/ CancelRead(g)

UnlockedWrite(g) ==
  \/ Ignore(g) \/ UnignoreRead(g) \/ UnignoreWrite(g) \/ FollowupFails(g)
  \/ \E v \in Version, o \in UserOverrides : SetUserOverride(g, v, o)
  \/ Repoint(g) \/ ResolveUnseen(g)

\* The steps of a queue run once it has started.
RunStep ==
  \/ RunEnd \/ RunPick \/ RunDrop \/ RunVerified \/ RunDefer \/ RunSkip
  \/ RunSkipOne \/ RunRefuse \/ RunExec \/ RunPerform \/ RunFinish
  \/ RunExecEnd \/ RunFail \/ RunCount \/ RunStatus

RecoverStep ==
  RecoverAction \/ RecoverGroup \/ RecoverList \/ RecoverCancel \/ RecoverDone

Next ==
  \/ LockStep
  \/ \E g \in Group : LockTaken(g) \/ UnlockedWrite(g)
  \/ \E a \in ActionId : QueueCancel(a)
  \/ ToggleDryRun
  \/ \E f \in disk : SomebodyDeletes(f)
  \/ RunStart \/ RunRecover \/ RunStep
  \/ Crash \/ Restart \/ RecoverStep

Spec == Init /\ [][Next]_vars

\* Whoever holds the group lock goes on and releases it; a run that waits for
\* it gets it (sync.Mutex is starvation free); the queue is processed on a
\* schedule (Process Queue, every five minutes); the process is restarted.
Fairness ==
  /\ WF_vars(LockStep)
  /\ SF_vars(RunStep)
  /\ SF_vars(RecoverStep)
  /\ WF_vars(RunStart \/ RunRecover)
  /\ WF_vars(Restart)

FairSpec == Spec /\ Fairness

-----------------------------------------------------------------------------
(* Properties.                                                             *)

LockType ==
  [op: {"free", "store", "resolve", "approve", "cancel"},
   pc: {"", "write", "leftovers", "create", "check", "cas", "recheck",
        "rollback", "revert", "toReview", "pending", "reopen"},
   g: Group, copy: GroupRow, todo: SUBSET Version, stamp: Nat, dry: BOOLEAN]

RunType ==
  [pc: {"idle", "recover", "pick", "drop", "verify", "skip", "exec", "perform",
        "finish", "fail", "count", "status"},
   listed: SUBSET ActionId, g: Group, copy: GroupRow, todo: SUBSET ActionId,
   stamps: SUBSET Nat, cur: ActionId, result: ActionStatus,
   keepers: SUBSET Version, keptInRun: SUBSET Version, dry: BOOLEAN,
   goal: GroupStatus, next: {"pick", "count"}]

BootType == [pc: {"up", "down", "recover"}, todo: SUBSET ActionId,
             groups: SUBSET Group, list: SUBSET Group, cancel: SUBSET ActionId]

TypeOK ==
  /\ StoreTypeOK
  /\ disk \cup gone \subseteq {FileOf[v] : v \in Version}
  /\ dryRun \in BOOLEAN
  /\ lk \in LockType /\ run \in RunType /\ boot \in BootType
  /\ unignores \subseteq Group /\ followups \subseteq Group
  /\ interrupted \subseteq ActionId
  /\ crashes \in 0 .. MaxCrashes /\ lost \in 0 .. MaxLost

\* Dupearr never deletes the last copy of a title, whatever decisions, scans,
\* overlapping groups and crashes come together: with nobody else deleting
\* files, a copy is left (invariants 2 and 3 of verify, keptElsewhere).
NeverLastCopy == disk = {} => gone # {}

\* A file the executor removes leaves the file of a version its group keeps,
\* one that was verified present, unless somebody else deleted that one
\* (invariants 2 and 3 of verify).
RemovalLeavesKeeper ==
  [][\A f \in disk \ disk' :
       \/ f \in gone'
       \/ \E k \in run.keepers : FileOf[k] \in disk' \cup gone']_vars

\* A copy that an earlier removal of the same run relied on is not removed by
\* that run, whatever another group of the version decides and although the
\* first group may be resolved by then (keptInRun).
RunKeepsItsKeepers ==
  [][\A f \in disk \ disk' :
       f \in gone' \/ \A k \in run.keptInRun : FileOf[k] # f]_vars

\* When a removal starts, a version its run verified as the kept copy is still
\* decided "keep": a re-evaluation that changes the keeper of an approved group
\* takes the approval back (dropStaleApproval).
StartsWithKeeper ==
  [][\A a \in ActionId :
       db'.act[a].status = "running" /\ db.act[a].status # "running" =>
         \E k \in run.keepers : db.file[run.g][k].decision = "keep"]_vars

\* Only the user changes an override: whatever a scan read before the user set
\* it, and when the version leaves the group and comes back, the stored override
\* survives (Upsert merges the stored and the retained overrides).
OverridesSurvive ==
  [][\A g \in Group, v \in Version :
       db'.file[g][v].override # db.file[g][v].override => lk' = lk]_vars

\* A group is "queued" only while it has a removal to run, or while somebody is
\* in the middle of working on it; otherwise it could never be approved, and no
\* scan would reopen it (reopenEmptiedGroups).
NotStranded ==
  \A g \in Group :
    db.status[g] = "queued" =>
      \/ ActionsIn(db, g, QueuedStatus) # {}
      \/ lk.op # "free" /\ lk.g = g
      \/ run.pc \notin {"idle", "pick"} /\ run.g = g

\* A group that a queue run resolved is never stored "queued" again by a scan
\* or re-evaluation that read it before: the run's status and the cycle of the
\* scanner exclude each other (setRunStatus, GroupLock).
ResolvedNeverRequeued ==
  [][\A g \in Group :
       ~ (db.status[g] = "resolved" /\ db'.status[g] = "queued")]_vars

\* An ignored group stays ignored until the user un-ignores it.
IgnoredUntilUnignored ==
  [][\A g \in Group :
       db.status[g] = "ignored" /\ db'.status[g] # "ignored" =>
         g \in unignores \/ g \in followups]_vars

\* After a restart interrupted a removal nothing else of its approval batch is
\* started: the batch is taken back before any run (recoverInterrupted).
InterruptedBatchStops ==
  [][\A a \in ActionId :
       db'.act[a].status = "running" /\ db.act[a].status # "running" =>
         ~ \E b \in interrupted : /\ db.act[b].group = db.act[a].group
                                  /\ db.act[b].stamp = db.act[a].stamp]_vars

\* No removal approved as a simulation, and none that starts once its run has
\* seen the dry run setting, removes a file, whenever the setting is switched
\* between the approval, the run and its steps (execute).
SimulatedStays ==
  [][disk' # disk /\ gone' = gone =>
       ~run.dry /\ ~db.act[run.cur].dryRun]_vars

\* A queue run ends: no wait for the group lock is forever, and no loop over
\* removals starts again.  And a removal recorded as running is settled some
\* day, after a crash and after a result that could not be recorded
\* (recoverInterrupted at startup and at the start of every run).
RunsSettle ==
  /\ run.pc # "idle" ~> run.pc = "idle"
  /\ \A a \in ActionId :
       db.act[a].status = "running" ~> db.act[a].status # "running"

=============================================================================

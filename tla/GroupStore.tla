----------------------------- MODULE GroupStore -----------------------------
(***************************************************************************)
(* The duplicate groups and the removal actions as internal/database keeps *)
(* them (repo_groups.go, repo_activity.go).  SQLite has one writer, so     *)
(* every repository method that writes is one transaction: an operator     *)
(* here takes the database d and returns the database after the commit.   *)
(*                                                                         *)
(* A version of a group is a row of group_files.  A version that left the  *)
(* group keeps the user's override (column retained_overrides); here its   *)
(* record stays with decision "absent" and that override.                  *)
(*                                                                         *)
(* StoreNext is the most general client: any transaction, any arguments    *)
(* the repositories accept, in any order.  What holds of StoreSpec holds   *)
(* whatever the scanner, the executor and the API do.                      *)
(*                                                                         *)
(* An operator whose name ends in _Fault is its namesake with a seeded     *)
(* fault; no specification uses it.  Replacing the namesake by it shows    *)
(* which property notices.                                                 *)
(***************************************************************************)
EXTENDS Naturals

CONSTANTS
  Group,     \* the keys of duplicate groups
  Version,   \* the version keys (one copy of a title on a media server)
  ActionId   \* the ids of the actions table (AUTOINCREMENT: never reused)

ASSUME ActionIdAssumption == ActionId \subseteq Nat

VARIABLE db   \* the committed database

-----------------------------------------------------------------------------
(* Values of the columns.                                                  *)

GroupStatus == {"pending", "review", "deferred", "protected", "queued",
                "resolved", "ignored", "failed"}

\* statusBlocksRemovals: no removal queued for such a group may run.
BlocksRemovals == {"ignored", "resolved", "review", "deferred", "protected"}

Closed == {"ignored", "resolved"}

Decision == {"keep", "remove"}
Override == {"", "keep", "remove"}

\* "none": no such row yet.
Finished     == {"succeeded", "dry_run", "failed", "skipped"}
ActionStatus == {"none", "pending", "running", "cancelled"} \cup Finished
QueuedStatus == {"pending", "running"}

File   == [decision: Decision \cup {"absent"}, override: Override,
           protected: BOOLEAN]
Action == [group: Group, version: Version, status: ActionStatus,
           stamp: Nat, dryRun: BOOLEAN]

Database == [status: [Group -> GroupStatus \cup {"absent"}],
             file:   [Group -> [Version -> File]],
             act:    [ActionId -> Action]]

\* What a scan or a re-evaluation hands to Upsert: the engine's own decision,
\* the effective one, the protections and the overrides it read.
Incoming == [status:   GroupStatus,
             engine:   [Version -> Decision],
             decision: [Version -> Decision \cup {"absent"}],
             protected: [Version -> BOOLEAN],
             override: [Version -> Override]]

-----------------------------------------------------------------------------
(* Reads.                                                                  *)

ActionsIn(d, g, statuses) ==
  {a \in ActionId : d.act[a].group = g /\ d.act[a].status \in statuses}

\* The row of a version that is to be removed.
Marked(f) == f.decision = "remove" /\ ~f.protected

\* actionTargetRemovable: the stored state still marks the version for removal.
Removable(d, g, v) ==
  d.status[g] \notin Closed \cup {"absent"} /\ Marked(d.file[g][v])

-----------------------------------------------------------------------------
(* Cancelling.                                                             *)

\* A queued group without a pending or running action is pending again.
ReopenEmptiedGroups(d, groups) ==
  [d EXCEPT !.status =
     [g \in Group |->
        IF g \in groups /\ d.status[g] = "queued"
                        /\ ActionsIn(d, g, QueuedStatus) = {}
        THEN "pending" ELSE d.status[g]]]

\* cancelActions: the actions in ids (the caller's condition) are cancelled.
CancelActions(d, ids) ==
  ReopenEmptiedGroups(
    [d EXCEPT !.act = [a \in ActionId |->
       IF a \in ids THEN [d.act[a] EXCEPT !.status = "cancelled"]
                    ELSE d.act[a]]],
    {d.act[a].group : a \in ids})

CancelPendingForGroup(d, g) == CancelActions(d, ActionsIn(d, g, {"pending"}))

\* The pending actions whose version is no longer in the group with "remove".
CancelStaleActions(d, g) ==
  CancelActions(d, {a \in ActionsIn(d, g, {"pending"}) :
                      d.file[g][d.act[a].version].decision # "remove"})

CancelIfPending(d, a) ==
  IF d.act[a].status = "pending" THEN CancelActions(d, {a}) ELSE d

-----------------------------------------------------------------------------
(* Actions.                                                                *)

\* Create of a pending action: refused (d unchanged) unless its target is
\* marked for removal in the same transaction.
CreateAction(d, a, g, v, stamp, dry) ==
  IF Removable(d, g, v)
  THEN [d EXCEPT !.act[a] = [group |-> g, version |-> v, status |-> "pending",
                             stamp |-> stamp, dryRun |-> dry]]
  ELSE d

\* A cancelled removal may start.
TransitionAllowed_Fault(current, next) ==
  next = "cancelled" => current \in QueuedStatus \cup {"cancelled"}

\* checkActionTransition.
TransitionAllowed(current, next) ==
  CASE next = "running"   -> current \in QueuedStatus
    [] next = "pending"   -> current \notin {"cancelled", "succeeded"}
    [] next = "cancelled" -> current \in QueuedStatus \cup {"cancelled"}
    [] OTHER              -> TRUE

\* Queueing and starting need a target that is still marked for removal.
NeedsTarget(current, next) ==
  next = "pending" \/ (next = "running" /\ current = "pending")

UpdateAccepted(d, a, next) ==
  LET current == d.act[a].status IN
  /\ TransitionAllowed(current, next)
  /\ NeedsTarget(current, next) =>
       Removable(d, d.act[a].group, d.act[a].version)

\* Update of an action's status.  A queued action whose target may not be
\* removed any more is cancelled on the spot instead.
UpdateAction(d, a, next) ==
  LET current == d.act[a].status
      set == [d EXCEPT !.act[a].status = next] IN
  IF UpdateAccepted(d, a, next)
  THEN IF next = "cancelled" /\ current # "cancelled"
       THEN ReopenEmptiedGroups(set, {d.act[a].group})
       ELSE set
  ELSE IF TransitionAllowed(current, next) /\ current \in QueuedStatus
  THEN CancelActions(d, {a})
  ELSE d

-----------------------------------------------------------------------------
(* Groups.                                                                 *)

\* The queued removals of a closed group stay.
UpdateStatus_Fault(d, g, s) == [d EXCEPT !.status[g] = s]

\* UpdateStatus with afterStatusChange.
UpdateStatus(d, g, s) ==
  LET set == [d EXCEPT !.status[g] = s] IN
  IF s \in BlocksRemovals THEN CancelPendingForGroup(set, g) ELSE set

\* UpdateStatusIf: the same as an atomic compare-and-set.
UpdateStatusIf(d, g, from, s) ==
  IF d.status[g] \in from THEN UpdateStatus(d, g, s) ELSE d

\* An override of "keep" takes effect at once; the others wait for the
\* re-evaluation.
SetOverride(d, g, v, o) ==
  LET old == d.file[g][v]
      new == [decision  |-> IF o = "keep" THEN "keep" ELSE old.decision,
              override  |-> o,
              protected |-> old.protected]
      set == [d EXCEPT !.file[g][v] = new] IN
  IF o = "keep" THEN CancelStaleActions(set, g) ELSE set

\* MarkUnseenResolved for the open groups the full scan did not see.
MarkUnseenResolved(d, groups) ==
  LET set == [d EXCEPT !.status =
                [g \in Group |-> IF g \in groups THEN "resolved"
                                                 ELSE d.status[g]]] IN
  CancelActions(set, {a \in ActionId : d.act[a].group \in groups
                                       /\ d.act[a].status = "pending"})

\* The scan's copy of the override is stored.
MergedOverride_Fault(old, e, v) ==
  IF e.decision[v] = "absent" THEN old[v].override ELSE e.override[v]

\* The override that survives an Upsert: the stored row's, else the retained
\* one, else the one handed over.
MergedOverride(old, e, v) ==
  IF old[v].decision # "absent" \/ old[v].override # "" THEN old[v].override
  ELSE IF e.decision[v] = "absent" THEN "" ELSE e.override[v]

\* The decision is stored as the scan computed it.
MergedDecision_Fault(old, e, v) == e.decision[v]

\* A version whose override or protection says keep is never stored "remove".
MergedDecision(old, e, v) ==
  LET o == MergedOverride(old, e, v)
      effective == IF o # "" THEN o ELSE e.engine[v] IN
  IF e.decision[v] = "absent" THEN "absent"
  ELSE IF effective = "keep" \/ e.protected[v] THEN "keep" ELSE e.decision[v]

MergedFiles(old, e) ==
  [v \in Version |-> [decision  |-> MergedDecision(old, e, v),
                      override  |-> MergedOverride(old, e, v),
                      protected |-> e.decision[v] # "absent" /\ e.protected[v]]]

\* A stored "ignored" wins; a group that would keep nothing goes to review.
MergedStatus(stored, files, e) ==
  LET s == IF stored = "ignored" THEN "ignored" ELSE e.status IN
  IF /\ s \notin Closed
     /\ \E v \in Version : files[v].decision # "absent"
     /\ \A v \in Version : files[v].decision # "keep"
  THEN "review" ELSE s

Upsert(d, g, e) ==
  LET files  == MergedFiles(d.file[g], e)
      status == MergedStatus(d.status[g], files, e)
      set    == [d EXCEPT !.status[g] = status, !.file[g] = files]
      unblocked == IF status \in BlocksRemovals
                   THEN CancelPendingForGroup(set, g) ELSE set IN
  IF d.status[g] = "absent" THEN set ELSE CancelStaleActions(unblocked, g)

-----------------------------------------------------------------------------
(* The most general client.                                                *)

EmptyFile == [decision |-> "absent", override |-> "", protected |-> FALSE]

StoreInit ==
  /\ db \in Database
  /\ db.status = [g \in Group |-> "absent"]
  /\ db.file = [g \in Group |-> [v \in Version |-> EmptyFile]]
  /\ \A a \in ActionId : db.act[a].status = "none"

Exists(d, g) == d.status[g] # "absent"

GroupWrite(g) ==
  \/ \E e \in Incoming : db' = Upsert(db, g, e)
  \/ /\ Exists(db, g)
     /\ \/ \E s \in GroupStatus : db' = UpdateStatus(db, g, s)
        \/ \E v \in Version, o \in Override :
             /\ db.file[g][v].decision # "absent"
             /\ db' = SetOverride(db, g, v, o)
        \/ db' = CancelPendingForGroup(db, g)

ActionWrite(a) ==
  \/ /\ db.act[a].status = "none"
     /\ \E g \in Group, v \in Version, n \in Nat, dry \in BOOLEAN :
          db' = CreateAction(db, a, g, v, n, dry)
  \/ /\ db.act[a].status # "none"
     /\ \/ \E s \in ActionStatus \ {"none"} : db' = UpdateAction(db, a, s)
        \/ db' = CancelIfPending(db, a)

ResolveWrite ==
  \E groups \in SUBSET {g \in Group : db.status[g] \notin Closed \cup {"absent"}} :
    db' = MarkUnseenResolved(db, groups)

StoreNext ==
  \/ \E g \in Group : GroupWrite(g)
  \/ \E a \in ActionId : ActionWrite(a)
  \/ ResolveWrite

StoreSpec == StoreInit /\ [][StoreNext]_db

-----------------------------------------------------------------------------
(* What the store promises.                                                *)

\* The columns hold values of their types.
StoreTypeOK == db \in Database

\* A version the user wants kept, or that a rule protects, is stored "keep"
\* as long as it is in the group: no interleaving of overrides with scans
\* that evaluated older overrides stores it as "remove" (Upsert merges the
\* stored override, SetOverride writes the decision itself).
KeepHonoured(f) ==
  /\ f.decision # "absent" /\ f.override = "keep" => f.decision = "keep"
  /\ f.protected => f.decision = "keep"

KeepWins == \A g \in Group, v \in Version : KeepHonoured(db.file[g][v])

\* Every removal waiting in the queue targets a version that is marked for
\* removal right now, in a group that is neither ignored nor resolved: every
\* transaction that takes the mark away cancels the action with it
\* (cancelStaleActions, afterStatusChange, MarkUnseenResolved).
PendingRemovable ==
  \A a \in ActionId :
    db.act[a].status = "pending" =>
      Removable(db, db.act[a].group, db.act[a].version)

\* A removal starts only when the stored state at that very moment marks its
\* version for removal, and a cancelled or finished action never starts
\* (Update's check runs in the transaction that starts it, whatever copy the
\* executor works from).
StartsMarked ==
  \A a \in ActionId :
    (db'.act[a].status = "running" /\ db.act[a].status # "running") =>
      /\ db.act[a].status = "pending"
      /\ Removable(db, db.act[a].group, db.act[a].version)

StartsOnlyMarked == [][StartsMarked]_db

=============================================================================

-------------------------- MODULE GroupStoreProofs --------------------------
(***************************************************************************)
(* What the group store promises its clients, proved for every set of      *)
(* groups, versions and actions, and whatever transactions the scanner,    *)
(* the executor and the API run in whatever order (StoreSpec).             *)
(***************************************************************************)
EXTENDS GroupStore, TLAPS

\* The invariants as predicates of a database, for the lemmas about single
\* transactions.
KeepIn(d) == \A g \in Group, v \in Version : KeepHonoured(d.file[g][v])

PendingIn(d) ==
  \A a \in ActionId :
    d.act[a].status = "pending" => Removable(d, d.act[a].group, d.act[a].version)

\* No transaction from d to e starts a removal that is not marked.
StartsIn(d, e) ==
  \A a \in ActionId :
    (e.act[a].status = "running" /\ d.act[a].status # "running") =>
      /\ d.act[a].status = "pending"
      /\ Removable(d, d.act[a].group, d.act[a].version)

Sound(d) == d \in Database /\ KeepIn(d) /\ PendingIn(d)

\* What a transaction has to establish.
Safe(d, e) == Sound(e) /\ StartsIn(d, e)

-----------------------------------------------------------------------------
(* Writing one column.                                                     *)

\* An action whose status is replaced by another status is still an action.
LEMMA WithStatus ==
  ASSUME NEW a \in Action, NEW s \in ActionStatus
  PROVE  LET b == [a EXCEPT !.status = s] IN
         /\ b \in Action
         /\ b.status = s /\ b.group = a.group /\ b.version = a.version
         /\ b.stamp = a.stamp /\ b.dryRun = a.dryRun
BY DEF Action

\* Replacing the table of actions leaves the statuses and the files alone.
LEMMA SetAct ==
  ASSUME NEW d \in Database, NEW f \in [ActionId -> Action]
  PROVE  LET e == [d EXCEPT !.act = f] IN
         e \in Database /\ e.act = f /\ e.status = d.status /\ e.file = d.file
BY DEF Database

-----------------------------------------------------------------------------
(* Cancelling.                                                             *)

\* reopenEmptiedGroups only turns "queued" into "pending".
LEMMA ReopenShape ==
  ASSUME NEW d \in Database, NEW groups
  PROVE  LET e == ReopenEmptiedGroups(d, groups) IN
         /\ e \in Database /\ e.file = d.file /\ e.act = d.act
         /\ \A g \in Group : \/ e.status[g] = d.status[g]
                             \/ d.status[g] = "queued" /\ e.status[g] = "pending"
BY DEF ReopenEmptiedGroups, Database, GroupStatus

\* cancelActions cancels exactly the actions it is given.
LEMMA CancelShape ==
  ASSUME NEW d \in Database, NEW ids \in SUBSET ActionId
  PROVE  LET e == CancelActions(d, ids) IN
         /\ e \in Database /\ e.file = d.file
         /\ \A a \in ActionId :
              e.act[a] = IF a \in ids THEN [d.act[a] EXCEPT !.status = "cancelled"]
                                      ELSE d.act[a]
         /\ \A g \in Group : \/ e.status[g] = d.status[g]
                             \/ d.status[g] = "queued" /\ e.status[g] = "pending"
<1> DEFINE acts == [a \in ActionId |->
                     IF a \in ids THEN [d.act[a] EXCEPT !.status = "cancelled"]
                                  ELSE d.act[a]]
           c == [d EXCEPT !.act = acts]
<1>1. d.act \in [ActionId -> Action]
  BY DEF Database
<1>2. "cancelled" \in ActionStatus
  BY DEF ActionStatus
<1>3. \A a \in ActionId : [d.act[a] EXCEPT !.status = "cancelled"] \in Action
  BY <1>1, <1>2, WithStatus
<1>4. acts \in [ActionId -> Action]
  BY <1>1, <1>3
<1>5. CancelActions(d, ids) = ReopenEmptiedGroups(c, {d.act[a].group : a \in ids})
  BY DEF CancelActions
<1>6. c \in Database /\ c.act = acts /\ c.file = d.file /\ c.status = d.status
  BY <1>4, SetAct
<1> HIDE DEF c
<1> QED BY <1>5, <1>6, ReopenShape

\* A reopened group is as open as a queued one.
LEMMA RemovableKept ==
  ASSUME NEW d \in Database, NEW e \in Database, e.file = d.file,
         NEW g \in Group, NEW v \in Version, Removable(d, g, v),
         \/ e.status[g] = d.status[g]
         \/ d.status[g] = "queued" /\ e.status[g] = "pending"
  PROVE  Removable(e, g, v)
BY DEF Removable, Closed

\* Cancelling every pending action that is not removable restores PendingIn.
LEMMA CancelRestores ==
  ASSUME NEW d \in Database, KeepIn(d), NEW ids \in SUBSET ActionId,
         \A a \in ActionId \ ids :
           d.act[a].status = "pending" => Removable(d, d.act[a].group, d.act[a].version)
  PROVE  LET e == CancelActions(d, ids) IN
         /\ Sound(e) /\ e.file = d.file
         /\ \A a \in ActionId : /\ e.act[a].group = d.act[a].group
                                /\ e.act[a].version = d.act[a].version
                                /\ e.act[a].status \in {d.act[a].status, "cancelled"}
<1> DEFINE e == CancelActions(d, ids)
<1>1. /\ e \in Database /\ e.file = d.file
      /\ \A a \in ActionId :
           e.act[a] = IF a \in ids THEN [d.act[a] EXCEPT !.status = "cancelled"]
                                   ELSE d.act[a]
      /\ \A g \in Group : \/ e.status[g] = d.status[g]
                          \/ d.status[g] = "queued" /\ e.status[g] = "pending"
  BY CancelShape
<1> HIDE DEF e
<1>2. ASSUME NEW a \in ActionId
      PROVE  /\ e.act[a].group = d.act[a].group
             /\ e.act[a].version = d.act[a].version
             /\ e.act[a].status = IF a \in ids THEN "cancelled" ELSE d.act[a].status
             /\ d.act[a].group \in Group /\ d.act[a].version \in Version
  <2>1. d.act[a] \in Action
    BY DEF Database
  <2>2. "cancelled" \in ActionStatus
    BY DEF ActionStatus
  <2>3. CASE a \in ids
    <3> DEFINE b == [d.act[a] EXCEPT !.status = "cancelled"]
    <3>1. e.act[a] = b
      BY <1>1, <2>3
    <3>2. b.status = "cancelled" /\ b.group = d.act[a].group
          /\ b.version = d.act[a].version
      BY <2>1, <2>2, WithStatus
    <3> HIDE DEF b
    <3> QED BY <2>1, <2>3, <3>1, <3>2 DEF Action
  <2>4. CASE a \notin ids
    BY <1>1, <2>1, <2>4 DEF Action
  <2> QED BY <2>3, <2>4
<1>3. KeepIn(e)
  BY <1>1 DEF KeepIn
<1>4. PendingIn(e)
  <2> SUFFICES ASSUME NEW a \in ActionId, e.act[a].status = "pending"
               PROVE  Removable(e, d.act[a].group, d.act[a].version)
    BY <1>2 DEF PendingIn
  <2>1. a \notin ids /\ d.act[a].status = "pending"
    BY <1>2
  <2>2. Removable(d, d.act[a].group, d.act[a].version)
    BY <2>1
  <2> QED BY <1>1, <1>2, <2>2, RemovableKept
<1> QED BY <1>1, <1>2, <1>3, <1>4 DEF Sound, e

\* cancelActions, whatever actions it is given, keeps what the store promises:
\* it only takes removals out of the queue.
LEMMA CancelSafe ==
  ASSUME NEW d, Sound(d), NEW ids \in SUBSET ActionId
  PROVE  Safe(d, CancelActions(d, ids))
<1>1. \A a \in ActionId \ ids :
        d.act[a].status = "pending" => Removable(d, d.act[a].group, d.act[a].version)
  BY DEF Sound, PendingIn
<1> QED BY <1>1, CancelRestores DEF Sound, Safe, StartsIn

-----------------------------------------------------------------------------
(* The transactions on groups.                                             *)

\* Writing the status of one group leaves the other groups, the files and the
\* actions alone.
LEMMA SetStatusShape ==
  ASSUME NEW d \in Database, NEW g \in Group, NEW s \in GroupStatus
  PROVE  LET e == [d EXCEPT !.status[g] = s] IN
         /\ e \in Database /\ e.file = d.file /\ e.act = d.act
         /\ e.status[g] = s
         /\ \A h \in Group \ {g} : e.status[h] = d.status[h]
BY DEF Database

\* UpdateStatus: a blocking status takes the queued removals of the group away.
LEMMA UpdateStatusSafe ==
  ASSUME NEW d, Sound(d), NEW g \in Group, NEW s \in GroupStatus, Exists(d, g)
  PROVE  Safe(d, UpdateStatus(d, g, s))
<1> DEFINE c == [d EXCEPT !.status[g] = s]
           ids == ActionsIn(c, g, {"pending"})
<1>1. d \in Database /\ KeepIn(d) /\ PendingIn(d)
  BY DEF Sound
<1>2. /\ c \in Database /\ c.file = d.file /\ c.act = d.act
      /\ c.status[g] = s /\ \A h \in Group \ {g} : c.status[h] = d.status[h]
  BY <1>1, SetStatusShape
<1>3. UpdateStatus(d, g, s) = IF s \in BlocksRemovals THEN CancelActions(c, ids) ELSE c
  BY DEF UpdateStatus, CancelPendingForGroup
<1> HIDE DEF c
<1>4. KeepIn(c)
  BY <1>1, <1>2 DEF KeepIn
<1>5. \A a \in ActionId : d.act[a].group \in Group /\ d.act[a].version \in Version
  BY <1>1 DEF Database, Action
<1>6. ids \in SUBSET ActionId
  BY DEF ActionsIn
<1>7. CASE s \in BlocksRemovals
  <2>1. ASSUME NEW a \in ActionId \ ids, c.act[a].status = "pending"
        PROVE  Removable(c, c.act[a].group, c.act[a].version)
    <3>1. c.act[a].group # g
      BY <2>1 DEF ActionsIn
    <3>2. Removable(d, d.act[a].group, d.act[a].version)
      BY <1>1, <1>2, <2>1 DEF PendingIn
    <3> QED BY <1>2, <1>5, <3>1, <3>2 DEF Removable
  <2> HIDE DEF ids
  <2> QED BY <1>2, <1>3, <1>4, <1>6, <1>7, <2>1, CancelRestores DEF Safe, StartsIn
<1>8. CASE s \notin BlocksRemovals
  <2>1. PendingIn(c)
    BY <1>1, <1>2, <1>5, <1>8 DEF PendingIn, Removable, BlocksRemovals, Closed, GroupStatus
  <2> QED BY <1>2, <1>3, <1>4, <1>8, <2>1 DEF Safe, Sound, StartsIn
<1> QED BY <1>7, <1>8

\* Writing one row of group_files leaves every other row alone.
LEMMA SetFileShape ==
  ASSUME NEW d \in Database, NEW g \in Group, NEW v \in Version, NEW f \in File
  PROVE  LET e == [d EXCEPT !.file[g][v] = f] IN
         /\ e \in Database /\ e.status = d.status /\ e.act = d.act
         /\ \A h \in Group, w \in Version :
              e.file[h][w] = IF h = g /\ w = v THEN f ELSE d.file[h][w]
BY DEF Database

\* SetOverride: "keep" takes effect with the removals it contradicts.
LEMMA SetOverrideSafe ==
  ASSUME NEW d, Sound(d), NEW g \in Group, NEW v \in Version, NEW o \in Override,
         d.file[g][v].decision # "absent"
  PROVE  Safe(d, SetOverride(d, g, v, o))
<1> DEFINE old == d.file[g][v]
           new == [decision  |-> IF o = "keep" THEN "keep" ELSE old.decision,
                   override  |-> o,
                   protected |-> old.protected]
           c == [d EXCEPT !.file[g][v] = new]
           ids == {a \in ActionsIn(c, g, {"pending"}) :
                     c.file[g][c.act[a].version].decision # "remove"}
<1>1. d \in Database /\ KeepIn(d) /\ PendingIn(d)
  BY DEF Sound
<1>2. old \in File /\ KeepHonoured(old)
  BY <1>1 DEF Database, KeepIn
<1>3. /\ new \in File /\ KeepHonoured(new)
      /\ Marked(old) /\ new.decision = "remove" => Marked(new)
      /\ o # "keep" /\ Marked(old) => Marked(new)
  BY <1>2 DEF File, Decision, Marked, KeepHonoured
<1>4. SetOverride(d, g, v, o) = IF o = "keep" THEN CancelActions(c, ids) ELSE c
  BY DEF SetOverride, CancelStaleActions
<1> HIDE DEF old, new
<1>5. /\ c \in Database /\ c.status = d.status /\ c.act = d.act
      /\ \A h \in Group, w \in Version :
           c.file[h][w] = IF h = g /\ w = v THEN new ELSE d.file[h][w]
  BY <1>1, <1>3, SetFileShape
<1> HIDE DEF c
<1>6. KeepIn(c)
  BY <1>1, <1>3, <1>5 DEF KeepIn
<1>7. \A a \in ActionId : d.act[a].group \in Group /\ d.act[a].version \in Version
  BY <1>1 DEF Database, Action
<1>8. ids \in SUBSET ActionId
  BY DEF ActionsIn
<1>9. CASE o = "keep"
  <2>1. ASSUME NEW a \in ActionId \ ids, c.act[a].status = "pending"
        PROVE  Removable(c, c.act[a].group, c.act[a].version)
    <3>1. Removable(d, d.act[a].group, d.act[a].version)
      BY <1>1, <1>5, <2>1 DEF PendingIn
    <3>2. d.act[a].group = g => c.file[g][d.act[a].version].decision = "remove"
      BY <1>5, <2>1 DEF ActionsIn
    <3> QED BY <1>3, <1>5, <1>7, <3>1, <3>2 DEF Removable, old
  <2> HIDE DEF ids
  <2> QED BY <1>5, <1>4, <1>6, <1>8, <1>9, <2>1, CancelRestores DEF Safe, StartsIn
<1>10. CASE o # "keep"
  <2>1. PendingIn(c)
    BY <1>1, <1>3, <1>5, <1>7, <1>10 DEF PendingIn, Removable, old
  <2> QED BY <1>4, <1>5, <1>6, <1>10, <2>1 DEF Safe, Sound, StartsIn
<1> QED BY <1>9, <1>10

\* MarkUnseenResolved: the queued removals of a resolved group go with it.
LEMMA MarkUnseenResolvedSafe ==
  ASSUME NEW d, Sound(d), NEW groups \in SUBSET Group
  PROVE  Safe(d, MarkUnseenResolved(d, groups))
<1> DEFINE st == [g \in Group |-> IF g \in groups THEN "resolved" ELSE d.status[g]]
           c == [d EXCEPT !.status = st]
           ids == {a \in ActionId : d.act[a].group \in groups
                                     /\ d.act[a].status = "pending"}
<1>1. d \in Database /\ KeepIn(d) /\ PendingIn(d)
  BY DEF Sound
<1>2. MarkUnseenResolved(d, groups) = CancelActions(c, ids)
  BY DEF MarkUnseenResolved
<1>3. c \in Database /\ c.file = d.file /\ c.act = d.act /\ c.status = st
  BY <1>1 DEF Database, GroupStatus
<1> HIDE DEF c
<1>4. KeepIn(c)
  BY <1>1, <1>3 DEF KeepIn
<1>5. \A a \in ActionId : d.act[a].group \in Group /\ d.act[a].version \in Version
  BY <1>1 DEF Database, Action
<1>6. ids \in SUBSET ActionId
  OBVIOUS
<1>7. \A a \in ActionId \ ids :
        c.act[a].status = "pending" => Removable(c, c.act[a].group, c.act[a].version)
  BY <1>1, <1>3, <1>5 DEF PendingIn, Removable
<1> HIDE DEF ids
<1> QED BY <1>2, <1>3, <1>4, <1>6, <1>7, CancelRestores DEF Safe, StartsIn

\* The rows Upsert stores: the merge never stores "remove" for a version whose
\* override or protection says keep.
LEMMA MergedFilesOK ==
  ASSUME NEW old \in [Version -> File], NEW e \in Incoming, NEW v \in Version
  PROVE  LET f == MergedFiles(old, e)[v] IN
         /\ f \in File /\ KeepHonoured(f)
         /\ f.decision = "remove" => Marked(f)
<1> DEFINE o == MergedOverride(old, e, v)
           dec == MergedDecision(old, e, v)
           prot == e.decision[v] # "absent" /\ e.protected[v]
<1>1. o \in Override
  BY DEF MergedOverride, Incoming, File, Override
<1>2. /\ dec \in Decision \cup {"absent"}
      /\ dec # "absent" /\ o = "keep" => dec = "keep"
      /\ prot => dec = "keep"
  BY DEF MergedDecision, Incoming, Decision
<1>3. MergedFiles(old, e)[v] = [decision |-> dec, override |-> o, protected |-> prot]
  BY DEF MergedFiles
<1>4. prot \in BOOLEAN
  OBVIOUS
<1> HIDE DEF o, dec, prot
<1> QED BY <1>1, <1>2, <1>3, <1>4 DEF File, KeepHonoured, Marked

\* The status Upsert stores is a status.
LEMMA MergedStatusOK ==
  ASSUME NEW stored, NEW files, NEW e \in Incoming
  PROVE  MergedStatus(stored, files, e) \in GroupStatus
BY DEF MergedStatus, Incoming, GroupStatus

\* Upsert: an evaluation of older decisions, overrides and statuses is merged
\* with the stored ones, and removals it no longer supports are cancelled.
LEMMA UpsertSafe ==
  ASSUME NEW d, Sound(d), NEW g \in Group, NEW e \in Incoming
  PROVE  Safe(d, Upsert(d, g, e))
<1> DEFINE files == MergedFiles(d.file[g], e)
           st == MergedStatus(d.status[g], files, e)
           c == [d EXCEPT !.status[g] = st, !.file[g] = files]
           blocked == ActionsIn(c, g, {"pending"})
           u == IF st \in BlocksRemovals THEN CancelActions(c, blocked) ELSE c
           stale == {a \in ActionsIn(u, g, {"pending"}) :
                       u.file[g][u.act[a].version].decision # "remove"}
<1>1. d \in Database /\ KeepIn(d) /\ PendingIn(d)
  BY DEF Sound
<1>2. d.file[g] \in [Version -> File]
  BY <1>1 DEF Database
<1>3. /\ files \in [Version -> File]
      /\ \A v \in Version : /\ KeepHonoured(files[v])
                            /\ files[v].decision = "remove" => Marked(files[v])
  <2>1. files = [v \in Version |-> files[v]]
    BY DEF MergedFiles
  <2> QED BY <1>2, <2>1, MergedFilesOK
<1>4. st \in GroupStatus
  BY MergedStatusOK
<1>5. Upsert(d, g, e) = IF d.status[g] = "absent" THEN c ELSE CancelActions(u, stale)
  BY DEF Upsert, CancelPendingForGroup, CancelStaleActions
<1> HIDE DEF files, st
<1>6. /\ c \in Database /\ c.act = d.act
      /\ c.status[g] = st /\ c.file[g] = files
      /\ \A h \in Group \ {g} : c.status[h] = d.status[h] /\ c.file[h] = d.file[h]
  BY <1>1, <1>3, <1>4 DEF Database
<1> HIDE DEF c
<1>7. KeepIn(c)
  BY <1>1, <1>3, <1>6 DEF KeepIn
<1>8. \A a \in ActionId : d.act[a].group \in Group /\ d.act[a].version \in Version
  BY <1>1 DEF Database, Action
<1>9. \A a \in ActionId :
        c.act[a].status = "pending" /\ c.act[a].group # g =>
          Removable(c, c.act[a].group, c.act[a].version)
  BY <1>1, <1>6, <1>8 DEF PendingIn, Removable
<1>10. CASE d.status[g] = "absent"
  <2>1. \A a \in ActionId : d.act[a].status = "pending" => d.act[a].group # g
    BY <1>1, <1>10 DEF PendingIn, Removable
  <2>2. PendingIn(c)
    BY <1>6, <1>9, <2>1 DEF PendingIn
  <2> QED BY <1>5, <1>6, <1>7, <1>10, <2>2 DEF Safe, Sound, StartsIn
<1>11. CASE d.status[g] # "absent"
  \* The rest of the group's queued removals, after the blocking status took
  \* its own away.
  <2>1. /\ u \in Database /\ u.file = c.file
        /\ \A a \in ActionId : /\ u.act[a].group = d.act[a].group
                               /\ u.act[a].version = d.act[a].version
                               /\ u.act[a].status \in {d.act[a].status, "cancelled"}
                               /\ u.act[a].status = "pending" /\ d.act[a].group = g =>
                                    u.status[g] \notin Closed \cup {"absent"}
                               /\ u.act[a].status = "pending" /\ d.act[a].group # g =>
                                    Removable(u, d.act[a].group, d.act[a].version)
    <3>1. CASE st \in BlocksRemovals
      <4>1. blocked \in SUBSET ActionId
        BY DEF ActionsIn
      <4>2. \A a \in ActionId \ blocked :
              c.act[a].status = "pending" => Removable(c, c.act[a].group, c.act[a].version)
        BY <1>9 DEF ActionsIn
      <4>3. \A a \in blocked : CancelActions(c, blocked).act[a].status = "cancelled"
        <5> SUFFICES ASSUME NEW a \in blocked
                     PROVE  CancelActions(c, blocked).act[a].status = "cancelled"
          OBVIOUS
        <5>1. a \in ActionId /\ c.act[a] \in Action
          BY <1>6, <4>1 DEF Database
        <5>2. CancelActions(c, blocked).act[a] = [c.act[a] EXCEPT !.status = "cancelled"]
          BY <1>6, <4>1, <5>1, CancelShape
        <5>3. [c.act[a] EXCEPT !.status = "cancelled"].status = "cancelled"
          BY <5>1 DEF Action
        <5> QED BY <5>2, <5>3
      <4>4. u = CancelActions(c, blocked)
        BY <3>1
      <4> HIDE DEF u
      <4>5. /\ Sound(u) /\ u.file = c.file
            /\ \A a \in ActionId : /\ u.act[a].group = c.act[a].group
                                   /\ u.act[a].version = c.act[a].version
                                   /\ u.act[a].status \in {c.act[a].status, "cancelled"}
        BY <1>6, <1>7, <4>1, <4>2, <4>4, CancelRestores
      <4>6. \A a \in ActionId : u.act[a].status = "pending" => d.act[a].group # g
        BY <1>6, <4>3, <4>4, <4>5 DEF ActionsIn
      <4> QED BY <1>6, <4>5, <4>6 DEF Sound, PendingIn
    <3>2. CASE st \notin BlocksRemovals
      <4>1. u = c
        BY <3>2
      <4>2. st \notin Closed \cup {"absent"}
        BY <1>4, <3>2 DEF BlocksRemovals, Closed, GroupStatus
      <4> HIDE DEF u
      <4> QED BY <1>6, <1>9, <4>1, <4>2
    <3> QED BY <3>1, <3>2
  <2> HIDE DEF u
  <2>2. KeepIn(u)
    BY <1>7, <2>1 DEF KeepIn
  <2>3. ASSUME NEW a \in ActionId \ stale, u.act[a].status = "pending"
        PROVE  Removable(u, u.act[a].group, u.act[a].version)
    <3>1. CASE d.act[a].group = g
      <4>1. u.file[g][u.act[a].version].decision = "remove"
        BY <2>1, <2>3, <3>1 DEF ActionsIn
      <4>2. Marked(u.file[g][u.act[a].version])
        BY <1>3, <1>6, <1>8, <2>1, <4>1
      <4> QED BY <2>1, <2>3, <3>1, <4>2 DEF Removable
    <3>2. CASE d.act[a].group # g
      BY <2>1, <2>3, <3>2
    <3> QED BY <3>1, <3>2
  <2>4. stale \in SUBSET ActionId
    BY DEF ActionsIn
  <2> HIDE DEF stale
  <2>5. LET r == CancelActions(u, stale) IN
        /\ Sound(r)
        /\ \A a \in ActionId : r.act[a].status \in {u.act[a].status, "cancelled"}
    BY <2>1, <2>2, <2>3, <2>4, CancelRestores
  <2> QED BY <1>5, <1>11, <2>1, <2>5 DEF Safe, StartsIn
<1> QED BY <1>10, <1>11

-----------------------------------------------------------------------------
(* The transactions on actions.                                            *)

\* Writing the row of one action leaves every other row alone.
LEMMA SetOneAct ==
  ASSUME NEW d \in Database, NEW a \in ActionId, NEW r \in Action
  PROVE  LET e == [d EXCEPT !.act[a] = r] IN
         /\ e \in Database /\ e.status = d.status /\ e.file = d.file
         /\ \A b \in ActionId : e.act[b] = IF b = a THEN r ELSE d.act[b]
BY DEF Database

\* Writing the row of one action, when the new row is as the invariants want it.
LEMMA SetOneSafe ==
  ASSUME NEW d, Sound(d), NEW a \in ActionId, NEW r \in Action,
         r.status = "pending" => Removable(d, r.group, r.version),
         r.status = "running" /\ d.act[a].status # "running" =>
           d.act[a].status = "pending"
  PROVE  Safe(d, [d EXCEPT !.act[a] = r])
<1> DEFINE e == [d EXCEPT !.act[a] = r]
<1>1. d \in Database /\ KeepIn(d) /\ PendingIn(d)
  BY DEF Sound
<1>2. /\ e \in Database /\ e.status = d.status /\ e.file = d.file
      /\ \A b \in ActionId : e.act[b] = IF b = a THEN r ELSE d.act[b]
  BY <1>1, SetOneAct
<1> HIDE DEF e
<1>3. KeepIn(e)
  BY <1>1, <1>2 DEF KeepIn
<1>4. PendingIn(e)
  BY <1>1, <1>2 DEF PendingIn, Removable
<1>5. StartsIn(d, e)
  BY <1>1, <1>2 DEF StartsIn, PendingIn
<1> QED BY <1>2, <1>3, <1>4, <1>5 DEF Safe, Sound, e

\* Create: a removal is queued only for a version that is marked for removal in
\* the same transaction.
LEMMA CreateActionSafe ==
  ASSUME NEW d, Sound(d), NEW a \in ActionId, NEW g \in Group, NEW v \in Version,
         NEW n \in Nat, NEW dry \in BOOLEAN
  PROVE  Safe(d, CreateAction(d, a, g, v, n, dry))
<1> DEFINE r == [group |-> g, version |-> v, status |-> "pending",
                 stamp |-> n, dryRun |-> dry]
<1>1. r \in Action /\ r.status = "pending" /\ r.group = g /\ r.version = v
  BY DEF Action, ActionStatus
<1>2. CreateAction(d, a, g, v, n, dry)
        = IF Removable(d, g, v) THEN [d EXCEPT !.act[a] = r] ELSE d
  BY DEF CreateAction
<1> HIDE DEF r
<1>3. CASE Removable(d, g, v)
  <2>1. Safe(d, [d EXCEPT !.act[a] = r])
    BY <1>1, <1>3, SetOneSafe
  <2> QED BY <1>2, <1>3, <2>1
<1>4. CASE ~Removable(d, g, v)
  BY <1>2, <1>4 DEF Safe, StartsIn
<1> QED BY <1>3, <1>4

\* Update of an action: queueing and starting are checked against the stored
\* state; a removal that fails the check is cancelled.
LEMMA UpdateActionSafe ==
  ASSUME NEW d, Sound(d), NEW a \in ActionId, NEW s \in ActionStatus
  PROVE  Safe(d, UpdateAction(d, a, s))
<1> DEFINE cur == d.act[a].status
           r == [d.act[a] EXCEPT !.status = s]
           c == [d EXCEPT !.act[a] = r]
           ok == UpdateAccepted(d, a, s)
<1>1. d \in Database /\ KeepIn(d) /\ PendingIn(d) /\ d.act[a] \in Action
  BY DEF Sound, Database
<1>2. /\ r \in Action /\ r.status = s
      /\ r.group = d.act[a].group /\ r.version = d.act[a].version
  BY <1>1, WithStatus
<1>3. [d EXCEPT !.act[a].status = s] = c
  BY <1>1 DEF Database
<1>4. UpdateAction(d, a, s)
        = IF ok
          THEN IF s = "cancelled" /\ cur # "cancelled"
               THEN ReopenEmptiedGroups(c, {d.act[a].group}) ELSE c
          ELSE IF TransitionAllowed(cur, s) /\ cur \in QueuedStatus
          THEN CancelActions(d, {a}) ELSE d
  BY <1>3 DEF UpdateAction
<1> HIDE DEF r
<1>5. CASE ok
  <2>1. s = "pending" => Removable(d, r.group, r.version)
    BY <1>2, <1>5 DEF UpdateAccepted, NeedsTarget
  <2>2. s = "running" /\ cur # "running" => cur = "pending"
    BY <1>5 DEF UpdateAccepted, TransitionAllowed, QueuedStatus
  <2>3. Safe(d, c)
    BY <1>2, <2>1, <2>2, SetOneSafe
  <2> HIDE DEF c, ok, cur
  <2>4. LET e == ReopenEmptiedGroups(c, {d.act[a].group}) IN Safe(d, e)
    <3> DEFINE e == ReopenEmptiedGroups(c, {d.act[a].group})
    <3>1. c \in Database /\ KeepIn(c) /\ PendingIn(c) /\ StartsIn(d, c)
      BY <2>3 DEF Safe, Sound
    <3>2. /\ e \in Database /\ e.file = c.file /\ e.act = c.act
          /\ \A g \in Group : \/ e.status[g] = c.status[g]
                              \/ c.status[g] = "queued" /\ e.status[g] = "pending"
      BY <3>1, ReopenShape
    <3> HIDE DEF e
    <3>3. KeepIn(e)
      BY <3>1, <3>2 DEF KeepIn
    <3>4. \A b \in ActionId : c.act[b].group \in Group /\ c.act[b].version \in Version
      BY <3>1 DEF Database, Action
    <3>5. PendingIn(e)
      BY <3>1, <3>2, <3>4, RemovableKept DEF PendingIn
    <3>6. StartsIn(d, e)
      BY <3>1, <3>2 DEF StartsIn
    <3>7. Safe(d, e)
      BY <3>2, <3>3, <3>5, <3>6 DEF Safe, Sound
    <3> QED BY <3>7 DEF e
  <2> QED BY <1>4, <1>5, <2>3, <2>4
<1>6. CASE ~ok
  <2>1. Safe(d, CancelActions(d, {a}))
    BY CancelSafe
  <2>2. Safe(d, d)
    BY DEF Safe, StartsIn
  <2> HIDE DEF c, ok, cur
  <2> QED BY <1>4, <1>6, <2>1, <2>2
<1> QED BY <1>5, <1>6

-----------------------------------------------------------------------------
(* Every transaction of the most general client.                           *)

\* Every transaction of the repositories, with any arguments, keeps the inductive
\* invariant and starts nothing that is not marked for removal.
LEMMA StoreNextSafe ==
  ASSUME Sound(db), StoreNext
  PROVE  Safe(db, db')
<1>1. ASSUME NEW g \in Group, GroupWrite(g)
      PROVE  Safe(db, db')
  <2>1. ASSUME NEW e \in Incoming, db' = Upsert(db, g, e)
        PROVE  Safe(db, db')
    BY <2>1, UpsertSafe
  <2>2. ASSUME Exists(db, g), NEW s \in GroupStatus, db' = UpdateStatus(db, g, s)
        PROVE  Safe(db, db')
    BY <2>2, UpdateStatusSafe
  <2>3. ASSUME NEW v \in Version, NEW o \in Override,
               db.file[g][v].decision # "absent", db' = SetOverride(db, g, v, o)
        PROVE  Safe(db, db')
    BY <2>3, SetOverrideSafe
  <2>4. ASSUME db' = CancelPendingForGroup(db, g)
        PROVE  Safe(db, db')
    <3>1. ActionsIn(db, g, {"pending"}) \in SUBSET ActionId
      BY DEF ActionsIn
    <3> QED BY <2>4, <3>1, CancelSafe DEF CancelPendingForGroup
  <2> QED BY <1>1, <2>1, <2>2, <2>3, <2>4 DEF GroupWrite
<1>2. ASSUME NEW a \in ActionId, ActionWrite(a)
      PROVE  Safe(db, db')
  <2>1. ASSUME NEW g \in Group, NEW v \in Version, NEW n \in Nat, NEW dry \in BOOLEAN,
               db' = CreateAction(db, a, g, v, n, dry)
        PROVE  Safe(db, db')
    BY <2>1, CreateActionSafe
  <2>2. ASSUME NEW s \in ActionStatus \ {"none"}, db' = UpdateAction(db, a, s)
        PROVE  Safe(db, db')
    BY <2>2, UpdateActionSafe
  <2>3. ASSUME db' = CancelIfPending(db, a)
        PROVE  Safe(db, db')
    <3>1. Safe(db, CancelActions(db, {a}))
      BY CancelSafe
    <3>2. Safe(db, db)
      BY DEF Safe, StartsIn
    <3> QED BY <2>3, <3>1, <3>2 DEF CancelIfPending
  <2> QED BY <1>2, <2>1, <2>2, <2>3 DEF ActionWrite
<1>3. ASSUME ResolveWrite
      PROVE  Safe(db, db')
  BY <1>3, MarkUnseenResolvedSafe DEF ResolveWrite
<1> QED BY <1>1, <1>2, <1>3 DEF StoreNext

\* The empty database satisfies the inductive invariant.
LEMMA StoreInitSound == StoreInit => Sound(db)
<1> SUFFICES ASSUME StoreInit PROVE Sound(db)
  OBVIOUS
<1>1. db \in Database
  BY DEF StoreInit
<1>2. KeepIn(db)
  <2>1. KeepHonoured(EmptyFile)
    BY DEF KeepHonoured, EmptyFile
  <2> QED BY <2>1 DEF StoreInit, KeepIn
<1>3. PendingIn(db)
  BY DEF StoreInit, PendingIn
<1> QED BY <1>1, <1>2, <1>3 DEF Sound

\* Sound is the inductive invariant of the store.
LEMMA StoreSound == StoreSpec => []Sound(db)
<1>1. StoreInit => Sound(db)
  BY StoreInitSound
<1>2. Sound(db) /\ [StoreNext]_db => Sound(db)'
  <2> SUFFICES ASSUME Sound(db), [StoreNext]_db PROVE Sound(db')
    OBVIOUS
  <2>1. CASE StoreNext
    BY <2>1, StoreNextSafe DEF Safe
  <2>2. CASE UNCHANGED db
    BY <2>2
  <2> QED BY <2>1, <2>2
<1> QED BY <1>1, <1>2, PTL DEF StoreSpec

\* The columns keep their types, and no removal waits in the queue for a version
\* that is not marked for removal, whatever the clients of the store do.
THEOREM StoreInvariants == StoreSpec => [](StoreTypeOK /\ PendingRemovable)
<1>1. Sound(db) => StoreTypeOK /\ PendingRemovable
  BY DEF Sound, PendingIn, StoreTypeOK, PendingRemovable
<1> QED BY <1>1, StoreSound, PTL

\* A version the user or a rule keeps is never stored "remove", whatever older
\* overrides a scan evaluated.
THEOREM StoreKeeps == StoreSpec => []KeepWins
<1>1. Sound(db) => KeepWins
  BY DEF Sound, KeepIn, KeepWins
<1> QED BY <1>1, StoreSound, PTL

\* A removal starts only in a transaction that finds its version marked for
\* removal, whoever asks for it and from whatever copy of the group.
THEOREM StoreStarts == StoreSpec => StartsOnlyMarked
<1>1. Sound(db) /\ [StoreNext]_db => [StartsMarked]_db
  <2> SUFFICES ASSUME Sound(db), [StoreNext]_db PROVE [StartsMarked]_db
    OBVIOUS
  <2>1. CASE StoreNext
    BY <2>1, StoreNextSafe DEF Safe, StartsIn, StartsMarked
  <2>2. CASE UNCHANGED db
    BY <2>2
  <2> QED BY <2>1, <2>2
<1> QED BY <1>1, StoreSound, PTL DEF StoreSpec, StartsOnlyMarked

-----------------------------------------------------------------------------
(* What no transaction takes away: a client that has read a group or an    *)
(* action may rely on it for as long as it works.                          *)

\* From d to e every group stays known, and every action stays an action of the
\* same group, version, approval and mode.
Frame(d, e) ==
  /\ \A g \in Group : Exists(d, g) => Exists(e, g)
  /\ \A a \in ActionId :
       /\ d.act[a].status # "none" => e.act[a].status # "none"
       /\ e.act[a].group = d.act[a].group /\ e.act[a].version = d.act[a].version
       /\ e.act[a].stamp = d.act[a].stamp /\ e.act[a].dryRun = d.act[a].dryRun

\* The same when an action may be created, with one new stamp.
Stable(d, e) ==
  /\ \A g \in Group : Exists(d, g) => Exists(e, g)
  /\ \A a \in ActionId :
       d.act[a].status # "none" =>
         /\ e.act[a].status # "none"
         /\ e.act[a].group = d.act[a].group /\ e.act[a].version = d.act[a].version
         /\ e.act[a].stamp = d.act[a].stamp /\ e.act[a].dryRun = d.act[a].dryRun
  /\ \E n \in Nat : \A a \in ActionId : e.act[a].stamp \in {d.act[a].stamp, n}

\* cancelActions takes nothing away.
LEMMA CancelFrame ==
  ASSUME NEW d \in Database, NEW ids \in SUBSET ActionId
  PROVE  Frame(d, CancelActions(d, ids))
<1> DEFINE e == CancelActions(d, ids)
<1>1. /\ \A a \in ActionId :
           e.act[a] = IF a \in ids THEN [d.act[a] EXCEPT !.status = "cancelled"]
                                   ELSE d.act[a]
      /\ \A g \in Group : \/ e.status[g] = d.status[g]
                          \/ d.status[g] = "queued" /\ e.status[g] = "pending"
  BY CancelShape
<1> HIDE DEF e
<1>2. ASSUME NEW a \in ActionId
      PROVE  /\ d.act[a].status # "none" => e.act[a].status # "none"
             /\ e.act[a].group = d.act[a].group /\ e.act[a].version = d.act[a].version
             /\ e.act[a].stamp = d.act[a].stamp /\ e.act[a].dryRun = d.act[a].dryRun
  <2> DEFINE b == [d.act[a] EXCEPT !.status = "cancelled"]
  <2>1. d.act[a] \in Action /\ "cancelled" \in ActionStatus
    BY DEF Database, ActionStatus
  <2>2. /\ b.status = "cancelled" /\ b.group = d.act[a].group
        /\ b.version = d.act[a].version
        /\ b.stamp = d.act[a].stamp /\ b.dryRun = d.act[a].dryRun
    BY <2>1, WithStatus
  <2>3. e.act[a] = IF a \in ids THEN b ELSE d.act[a]
    BY <1>1
  <2> HIDE DEF b
  <2> QED BY <1>2, <2>2, <2>3
<1> QED BY <1>1, <1>2 DEF Frame, Exists, e

\* A transaction that leaves the actions alone and cancels afterwards.
LEMMA ThenCancelFrame ==
  ASSUME NEW d \in Database, NEW c \in Database, c.act = d.act,
         \A g \in Group : Exists(d, g) => Exists(c, g),
         NEW ids \in SUBSET ActionId
  PROVE  /\ Frame(d, c) /\ Frame(d, CancelActions(c, ids))
         /\ CancelActions(c, ids) \in Database
<1>1. Frame(c, CancelActions(c, ids)) /\ CancelActions(c, ids) \in Database
  BY CancelFrame, CancelShape
<1> QED BY <1>1 DEF Frame

\* UpdateStatus takes nothing away: the status it writes is that of a known group.
LEMMA UpdateStatusFrame ==
  ASSUME NEW d \in Database, NEW g \in Group, NEW s \in GroupStatus
  PROVE  Frame(d, UpdateStatus(d, g, s))
<1> DEFINE c == [d EXCEPT !.status[g] = s]
           ids == ActionsIn(c, g, {"pending"})
<1>1. /\ c \in Database /\ c.act = d.act /\ c.status[g] = s
      /\ \A h \in Group \ {g} : c.status[h] = d.status[h]
  BY SetStatusShape
<1>2. UpdateStatus(d, g, s) = IF s \in BlocksRemovals THEN CancelActions(c, ids) ELSE c
  BY DEF UpdateStatus, CancelPendingForGroup
<1> HIDE DEF c
<1>3. \A h \in Group : Exists(d, h) => Exists(c, h)
  BY <1>1 DEF Exists, GroupStatus
<1>4. ids \in SUBSET ActionId
  BY DEF ActionsIn
<1> HIDE DEF ids
<1> QED BY <1>1, <1>2, <1>3, <1>4, ThenCancelFrame

\* SetOverride takes nothing away.
LEMMA SetOverrideFrame ==
  ASSUME NEW d \in Database, NEW g \in Group, NEW v \in Version, NEW o \in Override
  PROVE  Frame(d, SetOverride(d, g, v, o))
<1> DEFINE old == d.file[g][v]
           new == [decision  |-> IF o = "keep" THEN "keep" ELSE old.decision,
                   override  |-> o,
                   protected |-> old.protected]
           c == [d EXCEPT !.file[g][v] = new]
           ids == {a \in ActionsIn(c, g, {"pending"}) :
                     c.file[g][c.act[a].version].decision # "remove"}
<1>1. new \in File
  BY DEF Database, File, Decision
<1>2. SetOverride(d, g, v, o) = IF o = "keep" THEN CancelActions(c, ids) ELSE c
  BY DEF SetOverride, CancelStaleActions
<1> HIDE DEF new
<1>3. c \in Database /\ c.status = d.status /\ c.act = d.act
  BY <1>1, SetFileShape
<1> HIDE DEF c
<1>4. ids \in SUBSET ActionId
  BY DEF ActionsIn
<1> HIDE DEF ids
<1>5. \A h \in Group : Exists(d, h) => Exists(c, h)
  BY <1>3 DEF Exists
<1> QED BY <1>2, <1>3, <1>4, <1>5, ThenCancelFrame

\* MarkUnseenResolved takes nothing away: a resolved group is still known.
LEMMA MarkUnseenResolvedFrame ==
  ASSUME NEW d \in Database, NEW groups \in SUBSET Group
  PROVE  Frame(d, MarkUnseenResolved(d, groups))
<1> DEFINE st == [g \in Group |-> IF g \in groups THEN "resolved" ELSE d.status[g]]
           c == [d EXCEPT !.status = st]
           ids == {a \in ActionId : d.act[a].group \in groups
                                     /\ d.act[a].status = "pending"}
<1>1. MarkUnseenResolved(d, groups) = CancelActions(c, ids)
  BY DEF MarkUnseenResolved
<1>2. c \in Database /\ c.act = d.act /\ c.status = st
  BY DEF Database, GroupStatus
<1> HIDE DEF c
<1>3. \A h \in Group : Exists(d, h) => Exists(c, h)
  BY <1>2 DEF Exists
<1>4. ids \in SUBSET ActionId
  OBVIOUS
<1> HIDE DEF ids
<1> QED BY <1>1, <1>2, <1>3, <1>4, ThenCancelFrame

\* Upsert takes nothing away: the statuses it stores are those of known groups.
LEMMA UpsertFrame ==
  ASSUME NEW d \in Database, NEW g \in Group, NEW e \in Incoming
  PROVE  Frame(d, Upsert(d, g, e))
<1> DEFINE files == MergedFiles(d.file[g], e)
           st == MergedStatus(d.status[g], files, e)
           c == [d EXCEPT !.status[g] = st, !.file[g] = files]
           blocked == ActionsIn(c, g, {"pending"})
           u == IF st \in BlocksRemovals THEN CancelActions(c, blocked) ELSE c
           stale == {a \in ActionsIn(u, g, {"pending"}) :
                       u.file[g][u.act[a].version].decision # "remove"}
<1>1. files \in [Version -> File]
  <2>1. d.file[g] \in [Version -> File]
    BY DEF Database
  <2>2. files = [v \in Version |-> files[v]]
    BY DEF MergedFiles
  <2> QED BY <2>1, <2>2, MergedFilesOK
<1>2. st \in GroupStatus
  BY MergedStatusOK
<1>3. Upsert(d, g, e) = IF d.status[g] = "absent" THEN c ELSE CancelActions(u, stale)
  BY DEF Upsert, CancelPendingForGroup, CancelStaleActions
<1> HIDE DEF files, st
<1>4. /\ c \in Database /\ c.act = d.act /\ c.status[g] = st
      /\ \A h \in Group \ {g} : c.status[h] = d.status[h]
  BY <1>1, <1>2 DEF Database
<1> HIDE DEF c
<1>5. \A h \in Group : Exists(d, h) => Exists(c, h)
  BY <1>2, <1>4 DEF Exists, GroupStatus
<1>6. blocked \in SUBSET ActionId
  BY DEF ActionsIn
<1> HIDE DEF blocked
<1>7. Frame(d, c) /\ Frame(d, u) /\ u \in Database
  BY <1>4, <1>5, <1>6, ThenCancelFrame
<1> HIDE DEF u
<1>8. stale \in SUBSET ActionId
  BY DEF ActionsIn
<1> HIDE DEF stale
<1>9. Frame(u, CancelActions(u, stale))
  BY <1>7, <1>8, CancelFrame
<1> QED BY <1>3, <1>7, <1>9 DEF Frame

\* Update changes the status of an action and nothing else of it.
LEMMA UpdateActionFrame ==
  ASSUME NEW d \in Database, NEW a \in ActionId, NEW s \in ActionStatus \ {"none"}
  PROVE  Frame(d, UpdateAction(d, a, s))
<1> DEFINE r == [d.act[a] EXCEPT !.status = s]
           c == [d EXCEPT !.act[a] = r]
           e == ReopenEmptiedGroups(c, {d.act[a].group})
<1>1. d.act[a] \in Action
  BY DEF Database
<1>2. /\ r \in Action /\ r.status = s
      /\ r.group = d.act[a].group /\ r.version = d.act[a].version
      /\ r.stamp = d.act[a].stamp /\ r.dryRun = d.act[a].dryRun
  BY <1>1, WithStatus
<1>3. [d EXCEPT !.act[a].status = s] = c
  BY <1>1 DEF Database
<1>4. UpdateAction(d, a, s) \in {c, e, CancelActions(d, {a}), d}
  BY <1>3 DEF UpdateAction
<1> HIDE DEF r
<1>5. /\ c \in Database /\ c.status = d.status
      /\ \A b \in ActionId : c.act[b] = IF b = a THEN r ELSE d.act[b]
  BY <1>2, SetOneAct
<1> HIDE DEF c
<1>6. Frame(d, c)
  BY <1>2, <1>5 DEF Frame, Exists
<1>7. Frame(d, e)
  <2>1. /\ e.act = c.act
        /\ \A g \in Group : \/ e.status[g] = c.status[g]
                            \/ c.status[g] = "queued" /\ e.status[g] = "pending"
    BY <1>5, ReopenShape
  <2> HIDE DEF e
  <2> QED BY <1>6, <2>1 DEF Frame, Exists
<1>8. Frame(d, CancelActions(d, {a}))
  BY CancelFrame
<1>9. Frame(d, d)
  BY DEF Frame
<1> HIDE DEF e
<1> QED BY <1>4, <1>6, <1>7, <1>8, <1>9

\* A transaction that creates no action is stable.
LEMMA FrameStable ==
  ASSUME NEW d, NEW e, Frame(d, e)
  PROVE  Stable(d, e)
<1>1. \A a \in ActionId : e.act[a].stamp \in {d.act[a].stamp, 0}
  BY DEF Frame
<1> QED BY <1>1 DEF Frame, Stable

\* No transaction of any client forgets a group or changes what an action
\* removes, and for which approval.
LEMMA StoreNextStable ==
  ASSUME db \in Database, StoreNext
  PROVE  Stable(db, db')
<1>1. ASSUME NEW g \in Group, GroupWrite(g)
      PROVE  Frame(db, db')
  <2>1. ActionsIn(db, g, {"pending"}) \in SUBSET ActionId
    BY DEF ActionsIn
  <2>2. Frame(db, CancelPendingForGroup(db, g))
    BY <2>1, CancelFrame DEF CancelPendingForGroup
  <2> QED BY <1>1, <2>2, UpsertFrame, UpdateStatusFrame, SetOverrideFrame DEF GroupWrite
<1>2. ASSUME NEW a \in ActionId, ActionWrite(a)
      PROVE  Stable(db, db')
  <2>1. ASSUME NEW g \in Group, NEW v \in Version, NEW n \in Nat, NEW dry \in BOOLEAN,
               db.act[a].status = "none", db' = CreateAction(db, a, g, v, n, dry)
        PROVE  Stable(db, db')
    <3> DEFINE r == [group |-> g, version |-> v, status |-> "pending",
                     stamp |-> n, dryRun |-> dry]
               e == [db EXCEPT !.act[a] = r]
    <3>1. r \in Action /\ r.stamp = n
      BY DEF Action, ActionStatus
    <3>2. db' = e \/ db' = db
      BY <2>1 DEF CreateAction
    <3> HIDE DEF r
    <3>3. /\ e.status = db.status
          /\ \A b \in ActionId : e.act[b] = IF b = a THEN r ELSE db.act[b]
      BY <3>1, SetOneAct
    <3> HIDE DEF e
    <3>4. \A b \in ActionId : db'.act[b].stamp \in {db.act[b].stamp, n}
      BY <3>1, <3>2, <3>3
    <3> QED BY <2>1, <3>2, <3>3, <3>4 DEF Stable, Exists
  <2>2. Frame(db, CancelActions(db, {a})) /\ Frame(db, db)
    BY CancelFrame DEF Frame
  <2>3. Frame(db, CancelIfPending(db, a))
    BY <2>2 DEF CancelIfPending
  <2>4. \A s \in ActionStatus \ {"none"} : Frame(db, UpdateAction(db, a, s))
    BY UpdateActionFrame
  <2> QED BY <1>2, <2>1, <2>3, <2>4, FrameStable DEF ActionWrite
<1>3. ASSUME ResolveWrite
      PROVE  Frame(db, db')
  BY <1>3, MarkUnseenResolvedFrame DEF ResolveWrite
<1> QED BY <1>1, <1>2, <1>3, FrameStable DEF StoreNext

-----------------------------------------------------------------------------
(* Which transactions write the versions of a group.                       *)

\* Only Upsert and SetOverride write group_files.
LEMMA FilesLeftAlone ==
  ASSUME NEW d \in Database
  PROVE  /\ \A g \in Group, s \in GroupStatus : UpdateStatus(d, g, s).file = d.file
         /\ \A from : \A g \in Group, s \in GroupStatus :
              UpdateStatusIf(d, g, from, s).file = d.file
         /\ \A g \in Group : CancelPendingForGroup(d, g).file = d.file
         /\ \A a \in ActionId : CancelIfPending(d, a).file = d.file
         /\ \A a \in ActionId, s \in ActionStatus : UpdateAction(d, a, s).file = d.file
         /\ \A groups \in SUBSET Group : MarkUnseenResolved(d, groups).file = d.file
<1>1. \A g \in Group, s \in GroupStatus : UpdateStatus(d, g, s).file = d.file
  <2> SUFFICES ASSUME NEW g \in Group, NEW s \in GroupStatus
               PROVE  UpdateStatus(d, g, s).file = d.file
    OBVIOUS
  <2> DEFINE c == [d EXCEPT !.status[g] = s]
             ids == ActionsIn(c, g, {"pending"})
  <2>1. c \in Database /\ c.file = d.file
    BY SetStatusShape
  <2>2. UpdateStatus(d, g, s) = IF s \in BlocksRemovals THEN CancelActions(c, ids) ELSE c
    BY DEF UpdateStatus, CancelPendingForGroup
  <2>3. ids \in SUBSET ActionId
    BY DEF ActionsIn
  <2> HIDE DEF c, ids
  <2>4. CancelActions(c, ids).file = c.file
    BY <2>1, <2>3, CancelShape
  <2> QED BY <2>1, <2>2, <2>4
<1>2. \A g \in Group : CancelPendingForGroup(d, g).file = d.file
  <2> SUFFICES ASSUME NEW g \in Group PROVE CancelPendingForGroup(d, g).file = d.file
    OBVIOUS
  <2>1. ActionsIn(d, g, {"pending"}) \in SUBSET ActionId
    BY DEF ActionsIn
  <2> QED BY <2>1, CancelShape DEF CancelPendingForGroup
<1>3. \A a \in ActionId : CancelActions(d, {a}).file = d.file
  BY CancelShape
<1>4. \A a \in ActionId, s \in ActionStatus : UpdateAction(d, a, s).file = d.file
  <2> SUFFICES ASSUME NEW a \in ActionId, NEW s \in ActionStatus
               PROVE  UpdateAction(d, a, s).file = d.file
    OBVIOUS
  <2> DEFINE r == [d.act[a] EXCEPT !.status = s]
             c == [d EXCEPT !.act[a] = r]
             e == ReopenEmptiedGroups(c, {d.act[a].group})
  <2>1. d.act[a] \in Action
    BY DEF Database
  <2>2. r \in Action
    BY <2>1, WithStatus
  <2>3. [d EXCEPT !.act[a].status = s] = c
    BY <2>1 DEF Database
  <2>4. UpdateAction(d, a, s) \in {c, e, CancelActions(d, {a}), d}
    BY <2>3 DEF UpdateAction
  <2> HIDE DEF r
  <2>5. c \in Database /\ c.file = d.file
    BY <2>2, SetOneAct
  <2> HIDE DEF c
  <2>6. e.file = d.file
    BY <2>5, ReopenShape
  <2> HIDE DEF e
  <2> QED BY <1>3, <2>4, <2>5, <2>6
<1>5. \A groups \in SUBSET Group : MarkUnseenResolved(d, groups).file = d.file
  <2> SUFFICES ASSUME NEW groups \in SUBSET Group
               PROVE  MarkUnseenResolved(d, groups).file = d.file
    OBVIOUS
  <2> DEFINE st == [g \in Group |-> IF g \in groups THEN "resolved" ELSE d.status[g]]
             c == [d EXCEPT !.status = st]
             ids == {a \in ActionId : d.act[a].group \in groups
                                       /\ d.act[a].status = "pending"}
  <2>1. MarkUnseenResolved(d, groups) = CancelActions(c, ids)
    BY DEF MarkUnseenResolved
  <2>2. c \in Database /\ c.file = d.file
    BY DEF Database, GroupStatus
  <2>3. ids \in SUBSET ActionId
    OBVIOUS
  <2> HIDE DEF c, ids
  <2> QED BY <2>1, <2>2, <2>3, CancelShape
<1> QED BY <1>1, <1>2, <1>3, <1>4, <1>5 DEF CancelIfPending, UpdateStatusIf

\* Create writes no version.
LEMMA CreateFiles ==
  ASSUME NEW d \in Database, NEW a \in ActionId, NEW g \in Group, NEW v \in Version,
         NEW n \in Nat, NEW dry \in BOOLEAN
  PROVE  CreateAction(d, a, g, v, n, dry).file = d.file
<1> DEFINE r == [group |-> g, version |-> v, status |-> "pending",
                 stamp |-> n, dryRun |-> dry]
<1>1. r \in Action
  BY DEF Action, ActionStatus
<1>2. CreateAction(d, a, g, v, n, dry) \in {[d EXCEPT !.act[a] = r], d}
  BY DEF CreateAction
<1> HIDE DEF r
<1>3. [d EXCEPT !.act[a] = r].file = d.file
  BY <1>1, SetOneAct
<1> QED BY <1>2, <1>3

\* SetOverride writes one version, and does not take it out of the group.
LEMMA SetOverrideFiles ==
  ASSUME NEW d \in Database, NEW g \in Group, NEW v \in Version, NEW o \in Override,
         d.file[g][v].decision # "absent"
  PROVE  LET e == SetOverride(d, g, v, o) IN
         \A h \in Group, w \in Version :
           /\ e.file[h][w].decision = "absent" => d.file[h][w].decision = "absent"
           /\ h # g \/ w # v => e.file[h][w] = d.file[h][w]
<1> DEFINE old == d.file[g][v]
           new == [decision  |-> IF o = "keep" THEN "keep" ELSE old.decision,
                   override  |-> o,
                   protected |-> old.protected]
           c == [d EXCEPT !.file[g][v] = new]
           ids == {a \in ActionsIn(c, g, {"pending"}) :
                     c.file[g][c.act[a].version].decision # "remove"}
<1>1. new \in File /\ new.decision # "absent"
  BY DEF Database, File, Decision
<1>2. SetOverride(d, g, v, o) = IF o = "keep" THEN CancelActions(c, ids) ELSE c
  BY DEF SetOverride, CancelStaleActions
<1> HIDE DEF new
<1>3. /\ c \in Database
      /\ \A h \in Group, w \in Version :
           c.file[h][w] = IF h = g /\ w = v THEN new ELSE d.file[h][w]
  BY <1>1, SetFileShape
<1> HIDE DEF c
<1>4. ids \in SUBSET ActionId
  BY DEF ActionsIn
<1> HIDE DEF ids
<1>5. SetOverride(d, g, v, o).file = c.file
  BY <1>2, <1>3, <1>4, CancelShape
<1> QED BY <1>1, <1>3, <1>5

\* Upsert stores the merged versions of its group and no other group's.
LEMMA UpsertFiles ==
  ASSUME NEW d \in Database, NEW g \in Group, NEW e \in Incoming
  PROVE  LET u == Upsert(d, g, e) IN
         /\ u.file[g] = MergedFiles(d.file[g], e)
         /\ \A h \in Group \ {g} : u.file[h] = d.file[h]
<1> DEFINE files == MergedFiles(d.file[g], e)
           st == MergedStatus(d.status[g], files, e)
           c == [d EXCEPT !.status[g] = st, !.file[g] = files]
           blocked == ActionsIn(c, g, {"pending"})
           u == IF st \in BlocksRemovals THEN CancelActions(c, blocked) ELSE c
           stale == {a \in ActionsIn(u, g, {"pending"}) :
                       u.file[g][u.act[a].version].decision # "remove"}
<1>1. files \in [Version -> File]
  <2>1. d.file[g] \in [Version -> File]
    BY DEF Database
  <2>2. files = [v \in Version |-> files[v]]
    BY DEF MergedFiles
  <2> QED BY <2>1, <2>2, MergedFilesOK
<1>2. st \in GroupStatus
  BY MergedStatusOK
<1>3. Upsert(d, g, e) = IF d.status[g] = "absent" THEN c ELSE CancelActions(u, stale)
  BY DEF Upsert, CancelPendingForGroup, CancelStaleActions
<1> HIDE DEF files, st
<1>4. /\ c \in Database /\ c.file[g] = files
      /\ \A h \in Group \ {g} : c.file[h] = d.file[h]
  BY <1>1, <1>2 DEF Database
<1> HIDE DEF c
<1>5. blocked \in SUBSET ActionId
  BY DEF ActionsIn
<1> HIDE DEF blocked
<1>6. u \in Database /\ u.file = c.file
  BY <1>4, <1>5, CancelShape
<1> HIDE DEF u
<1>7. stale \in SUBSET ActionId
  BY DEF ActionsIn
<1> HIDE DEF stale
<1>8. CancelActions(u, stale).file = c.file
  BY <1>6, <1>7, CancelShape
<1>9. Upsert(d, g, e).file = c.file
  BY <1>3, <1>8
<1> QED BY <1>4, <1>9 DEF files

=============================================================================

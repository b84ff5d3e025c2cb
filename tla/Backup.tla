------------------------------- MODULE Backup -------------------------------
(***************************************************************************)
(* Backups of the database and config.xml, and their restore               *)
(* (src/internal/backup, the start-up of src/cmd/dupearr/wire.go).         *)
(* A backup is staged into .restore while the program runs, confirmed, and *)
(* swapped in, file by file, at the next start; the process can die        *)
(* between any two of these steps.  A database is abstracted to            *)
(*   [gen, users, token, removals, safe, session]                          *)
(* and config.xml to [gen, key, hosts]: gen says which files belong        *)
(* together, users/token/key/hosts are the settings a restore treats       *)
(* apart, removals says that removals are queued or running.               *)
(***************************************************************************)
EXTENDS Integers, FiniteSets, FiniteSetsExt

CONSTANTS
  Uploads,          \* archives a user may upload, see pickEntries and verifyDatabase
  LiveDBs,          \* databases the program may have when it is first seen
  EarlierKept,      \* what earlier restores may have left: sets of replaced files
  Clock,            \* the times the clock may show: it can be set back
  RetentionDays,    \* age from which Cleanup removes a scheduled backup
  SettingValues,    \* what the account, a token, an API key may be
  MaxStagings, MaxDeaths, MaxChanges, MaxBackups   \* bounds

DBRec == [gen : Int, users : Int, token : Int, removals : BOOLEAN, safe : BOOLEAN, session : BOOLEAN]
ConfigRec == [gen : Int, key : Int, hosts : Int]
\* No time is zero, which says that there is no marker.
ASSUME BackupAssumption ==
  /\ {MaxStagings, MaxDeaths, MaxChanges, MaxBackups} \subseteq Nat /\ Clock \subseteq Nat \ {0} /\ SettingValues \subseteq Nat
  /\ \A a \in Uploads : a.db \in DBRec /\ a.config \in ConfigRec
  /\ LiveDBs \subseteq {d \in DBRec : d.gen = 0}
  /\ \A files \in EarlierKept : IsFiniteSet(files)

VARIABLES
  live,             \* [db, wal, config]: the files the program runs on
  staged,           \* the folder .restore
  kept,             \* the files replaced by restores: [name, stamp, n, gen, wal]
  archives,         \* the backups: [kind, time, db, config, ...]
  building,         \* the staging in progress
  boot,             \* where the process is: "up", "down", or starting
  clock,
  ghost,            \* what the properties look back at
  backupLeft        \* what the bounds still allow
backupVars == <<live, staged, kept, archives, building, boot, clock, ghost, backupLeft>>

Absent == [gen |-> -2]
NoStaged == [there |-> FALSE, db |-> Absent, config |-> Absent, unconfirmed |-> FALSE,
             security |-> FALSE, state |-> <<>>, applying |-> 0]
NotBuilding == [phase |-> "idle", db |-> Absent, config |-> Absent, security |-> FALSE, state |-> <<>>, confirmed |-> FALSE]
NotStarting(phase) == [phase |-> phase, stamp |-> 0, bak |-> 0]
FreshConfig == [gen |-> -1, key |-> 0, hosts |-> 0]
FreshDB == [gen |-> -1, users |-> 0, token |-> 0, removals |-> FALSE, safe |-> TRUE, session |-> FALSE]

BackupInit ==
  /\ live \in [db : LiveDBs, wal : {-2}, config : {[gen |-> 0, key |-> 1, hosts |-> 1]}]
  /\ staged = NoStaged /\ kept \in EarlierKept /\ archives = {} /\ building = NotBuilding
  /\ boot = NotStarting("up") /\ clock \in Clock
  /\ ghost = [approved |-> {}, replaced |-> {}]
  /\ backupLeft = [stagings |-> MaxStagings, deaths |-> MaxDeaths, changes |-> MaxChanges, backups |-> MaxBackups]

Up == boot.phase = "up"
\* securityFingerprint: the settings of config.xml, the account, the token.
securityFingerprint(l) == <<l.config.key, l.config.hosts, l.db.users, l.db.token>>

-----------------------------------------------------------------------------
(* Backups.  s.mu makes each of these one step; what a crash leaves of one *)
(* is a temporary folder the next start sweeps.                            *)
scrubSnapshot(db) == [db EXCEPT !.session = FALSE]
Create(kind) ==
  /\ Up /\ building.phase = "idle" /\ backupLeft.backups > 0
  /\ archives' = archives \cup {[kind |-> kind, time |-> clock, entries |-> "both", intact |-> TRUE, schema |-> "known",
                                 accounts |-> IF live.db.users = 0 THEN 0 ELSE 1, foreign |-> FALSE,
                                 db |-> scrubSnapshot(live.db), config |-> live.config]}
  /\ backupLeft' = [backupLeft EXCEPT !.backups = @ - 1]
  /\ UNCHANGED <<live, staged, kept, building, boot, clock, ghost>>
Delete(a) ==
  /\ Up /\ building.phase = "idle" /\ a \in archives /\ archives' = archives \ {a}
  /\ UNCHANGED <<live, staged, kept, building, boot, clock, ghost, backupLeft>>
\* Scheduled backups only, never the newest.
outdated(all) ==
  LET mine == {a \in all : a.kind = "scheduled"}
  IN  {a \in mine : a.time < clock - RetentionDays /\ \E b \in mine : b.time > a.time}
Cleanup ==
  /\ Up /\ building.phase = "idle" /\ outdated(archives) # {} /\ archives' = archives \ outdated(archives)
  /\ UNCHANGED <<live, staged, kept, building, boot, clock, ghost, backupLeft>>

-----------------------------------------------------------------------------
(* Staging.                                                                *)
pickEntries(a) == a.entries = "both"
verifyDatabase(a) == a.intact
\* A version this build does not know is refused, and so is a missing one that
\* cannot be made up for.
checkSchemaCompatible(a) == a.schema \in {"known", "upgradable"}
openRebuild(a) == ~a.foreign
readable(a) == pickEntries(a) /\ verifyDatabase(a) /\ checkSchemaCompatible(a) /\ openRebuild(a) /\ a.accounts <= 1

\* The account and the settings of the running instance are kept unless the
\* caller asked for the backup's; hosts never come from a backup.
restoresUsers(a, security) == security /\ ~(a.accounts = 0 /\ live.db.users # 0)
copyRows(a, security) ==
  [a.db EXCEPT !.users = IF restoresUsers(a, security) THEN @ ELSE live.db.users,
               !.token = IF security /\ @ # 0 THEN @ ELSE live.db.token,
               !.session = FALSE]
planRestore(a, security) ==
  [a.config EXCEPT !.key = IF security THEN @ ELSE live.config.key, !.hosts = live.config.hosts]
\* Mutated form: only removals that are waiting are cancelled, and settings stay.
neutralizePending(db) == [db EXCEPT !.removals = @ /\ ~db.safe]
\* neutralizeRemovals, forceSafeSettings.
neutralizeRemovals(db) == [db EXCEPT !.removals = FALSE, !.safe = TRUE]

rebuildInto(a, security, gen) ==
  [db |-> [neutralizeRemovals(copyRows(a, security)) EXCEPT !.gen = gen],
   config |-> [planRestore(a, security) EXCEPT !.gen = gen]]

\* A refused archive leaves everything as it was.
StageRefused(a) == Up /\ building.phase = "idle" /\ ~readable(a) /\ UNCHANGED backupVars
StageBuild(a, security, confirmed) ==
  /\ Up /\ building.phase = "idle" /\ readable(a) /\ backupLeft.stagings > 0
  /\ LET new == rebuildInto(a, security, MaxStagings - backupLeft.stagings + 1)
     IN  building' = [phase |-> IF confirmed THEN "marked" ELSE "built", confirmed |-> confirmed, security |-> security,
                      state |-> <<>>, db |-> new.db, config |-> new.config]
  /\ backupLeft' = [backupLeft EXCEPT !.stagings = @ - 1]
  /\ UNCHANGED <<live, staged, kept, archives, boot, clock, ghost>>
\* The fingerprint is taken when the files are already there.
StageMark ==
  /\ Up /\ building.phase = "built"
  /\ building' = [building EXCEPT !.phase = "marked", !.state = securityFingerprint(live)]
  /\ UNCHANGED <<live, staged, kept, archives, boot, clock, ghost, backupLeft>>
\* A restore staged before is set aside, to be deleted, and the new one moved in.
StageAside ==
  /\ Up /\ building.phase = "marked" /\ staged.there
  /\ staged' = NoStaged
  /\ UNCHANGED <<live, kept, archives, building, boot, clock, ghost, backupLeft>>
StageIn ==
  /\ Up /\ building.phase = "marked" /\ ~staged.there
  /\ staged' = [there |-> TRUE, db |-> building.db, config |-> building.config, unconfirmed |-> ~building.confirmed,
                security |-> building.security, state |-> building.state, applying |-> 0]
  /\ building' = NotBuilding
  /\ ghost' = IF building.confirmed
              THEN [ghost EXCEPT !.approved = @ \cup {building.db.gen}]
              ELSE ghost
  /\ UNCHANGED <<live, kept, archives, boot, clock, backupLeft>>
StageFails ==
  /\ Up /\ building.phase # "idle" /\ backupLeft.deaths > 0 /\ building' = NotBuilding
  /\ backupLeft' = [backupLeft EXCEPT !.deaths = @ - 1]
  /\ UNCHANGED <<live, staged, kept, archives, boot, clock, ghost>>

stillCurrent(s) == s.state = securityFingerprint(live)
waiting(s) == s.there /\ s.unconfirmed /\ s.db # Absent /\ s.config # Absent
ConfirmRestore ==
  /\ Up /\ building.phase = "idle" /\ waiting(staged)
  /\ IF stillCurrent(staged)
     THEN /\ staged' = [staged EXCEPT !.unconfirmed = FALSE]
          /\ ghost' = [ghost EXCEPT !.approved = @ \cup {staged.db.gen}]
     ELSE staged' = NoStaged /\ UNCHANGED ghost
  /\ UNCHANGED <<live, kept, archives, building, boot, clock, backupLeft>>
DiscardRestore ==
  /\ Up /\ building.phase = "idle" /\ staged.there /\ staged' = NoStaged
  /\ UNCHANGED <<live, kept, archives, building, boot, clock, ghost, backupLeft>>

-----------------------------------------------------------------------------
(* What else happens while it runs.                                        *)
\* A password, the API key: only what a restore keeps is of interest.
SettingChanges(l) ==
  /\ Up /\ backupLeft.changes > 0
  /\ live' = l /\ backupLeft' = [backupLeft EXCEPT !.changes = @ - 1]
  /\ UNCHANGED <<staged, kept, archives, building, boot, clock, ghost>>
UserChanges(v) == Up /\ v # live.db.users /\ SettingChanges([live EXCEPT !.db.users = v])
KeyChanges(v) == Up /\ v # live.config.key /\ SettingChanges([live EXCEPT !.config.key = v])
RemovalsQueued == Up /\ ~live.db.removals /\ SettingChanges([live EXCEPT !.db.removals = TRUE, !.db.safe = FALSE])
ClockSet(t) ==
  /\ t # clock /\ Up /\ backupLeft.changes > 0 /\ clock' = t
  /\ backupLeft' = [backupLeft EXCEPT !.changes = @ - 1]
  /\ UNCHANGED <<live, staged, kept, archives, building, boot, ghost>>

\* A clean stop writes the log of the database back; a crash leaves it.
Stop ==
  /\ Up /\ building.phase = "idle" /\ boot' = NotStarting("down")
  /\ UNCHANGED <<live, staged, kept, archives, building, clock, ghost, backupLeft>>
Dies ==
  /\ boot.phase # "down" /\ backupLeft.deaths > 0
  /\ boot' = NotStarting("down") /\ building' = NotBuilding
  /\ live' = IF Up THEN [live EXCEPT !.wal = live.db.gen] ELSE live
  /\ backupLeft' = [backupLeft EXCEPT !.deaths = @ - 1]
  /\ UNCHANGED <<staged, kept, archives, clock, ghost>>

-----------------------------------------------------------------------------
(* The start: wire reads config.xml first, and creates one when there is   *)
(* none; then ApplyPendingRestore; then the database.                      *)
Goes(phase) == boot' = [boot EXCEPT !.phase = phase]
LoadConfig ==
  /\ boot.phase = "down" /\ Goes("pending")
  /\ live' = IF live.config = Absent THEN [live EXCEPT !.config = FreshConfig] ELSE live
  /\ UNCHANGED <<staged, kept, archives, building, clock, ghost, backupLeft>>

resumes == staged.there /\ staged.applying # 0
complete == staged.there /\ ~staged.unconfirmed /\ staged.db # Absent /\ staged.config # Absent
writeMarker(stamp) == [staged EXCEPT !.applying = stamp]
replacedNow == [gen |-> live.config.gen, wal |-> live.wal, stamp |-> clock]
applyPendingRestore ==
  /\ boot.phase = "pending"
  /\ IF resumes
     THEN boot' = [phase |-> "swap db", stamp |-> staged.applying, bak |-> 0] /\ UNCHANGED <<staged, ghost>>
     ELSE IF complete
     THEN /\ boot' = [phase |-> "swap db", stamp |-> clock, bak |-> 0]
          /\ staged' = writeMarker(clock)
          /\ ghost' = [ghost EXCEPT !.replaced = {replacedNow}]
     ELSE Goes("open") /\ staged' = NoStaged /\ UNCHANGED ghost
  /\ UNCHANGED <<live, kept, archives, building, clock, backupLeft>>

\* freeName: the first unused number of the name of a replaced file.
freeName(name, stamp) ==
  Min({n \in 0 .. Cardinality(kept) : ~\E k \in kept : k.name = name /\ k.stamp = stamp /\ k.n = n})
\* The -wal and -journal of the old database go with it.
withSideFiles(f) == [f EXCEPT !.wal = -2]
SwapSideFiles ==
  /\ boot.phase = "swap db"
  /\ IF staged.db = Absent THEN Goes("swap config") /\ UNCHANGED <<live, kept>>
     ELSE LET n == freeName("db", boot.stamp)
          IN  /\ boot' = [boot EXCEPT !.phase = "move db", !.bak = n]
              /\ live' = withSideFiles(live)
              /\ kept' = IF live.wal = -2 THEN kept
                         ELSE kept \cup {[name |-> "wal", stamp |-> boot.stamp, n |-> n, gen |-> live.wal]}
  /\ UNCHANGED <<staged, archives, building, clock, ghost, backupLeft>>
MoveLiveDB ==
  /\ boot.phase = "move db" /\ Goes("place db")
  /\ live' = [live EXCEPT !.db = Absent]
  /\ kept' = IF live.db = Absent THEN kept
             ELSE kept \cup {[name |-> "db", stamp |-> boot.stamp, n |-> boot.bak, gen |-> live.db.gen]}
  /\ UNCHANGED <<staged, archives, building, clock, ghost, backupLeft>>
PlaceDB ==
  /\ boot.phase = "place db" /\ Goes("swap config")
  /\ live' = [live EXCEPT !.db = staged.db] /\ staged' = [staged EXCEPT !.db = Absent]
  /\ UNCHANGED <<kept, archives, building, clock, ghost, backupLeft>>
MoveLiveConfig ==
  /\ boot.phase = "swap config"
  /\ IF staged.config = Absent THEN Goes("clear") /\ UNCHANGED <<live, kept>>
     ELSE /\ Goes("place config") /\ live' = [live EXCEPT !.config = Absent]
          /\ kept' = IF live.config = Absent THEN kept
                     ELSE kept \cup {[name |-> "config", stamp |-> boot.stamp, n |-> freeName("config", boot.stamp),
                                      gen |-> live.config.gen]}
  /\ UNCHANGED <<staged, archives, building, clock, ghost, backupLeft>>
PlaceConfig ==
  /\ boot.phase = "place config" /\ Goes("clear")
  /\ live' = [live EXCEPT !.config = staged.config] /\ staged' = [staged EXCEPT !.config = Absent]
  /\ UNCHANGED <<kept, archives, building, clock, ghost, backupLeft>>
\* RemoveAll takes the files of the folder one after the other.
ClearMarker ==
  /\ boot.phase = "clear" /\ staged.applying # 0 /\ staged' = [staged EXCEPT !.applying = 0]
  /\ UNCHANGED <<live, kept, archives, building, boot, clock, ghost, backupLeft>>
ClearFolder ==
  /\ boot.phase = "clear" /\ staged.applying = 0 /\ Goes("prune") /\ staged' = NoStaged
  /\ UNCHANGED <<live, kept, archives, building, clock, ghost, backupLeft>>
keepRestoreGenerations == 2
\* pruneRestoreBackups: this restore's generation counts as the newest, whatever
\* the clock says.
pruneRestoreBackups(files, current) ==
  LET ahead(k) == {s \in {f.stamp : f \in files} : s # k.stamp /\ (s = current \/ (s > k.stamp /\ k.stamp # current))}
  IN  {k \in files : Cardinality(ahead(k)) < keepRestoreGenerations}
Prune ==
  /\ boot.phase = "prune" /\ Goes("open") /\ kept' = pruneRestoreBackups(kept, boot.stamp)
  /\ UNCHANGED <<live, staged, archives, building, clock, ghost, backupLeft>>
\* RemoveForeignSchemaObjects, database.Open (which creates a missing file).
OpenDatabase ==
  /\ boot.phase = "open" /\ boot' = NotStarting("up")
  /\ live' = [live EXCEPT !.db = IF @ = Absent THEN FreshDB ELSE [@ EXCEPT !.session = TRUE], !.wal = -2]
  /\ UNCHANGED <<staged, kept, archives, building, clock, ghost, backupLeft>>

-----------------------------------------------------------------------------
(* Properties.                                                             *)

\* Whatever crashes there were, and however the clock was set, the program never
\* runs on a database and a config.xml of two different restores, no log of one
\* database is ever replayed into another, and the files the last restore
\* replaced are all kept, with their log, so that it can be undone
\* (ApplyPendingRestore, swapIn, pruneRestoreBackups).
RestoreIsWhole ==
  /\ Up => live.db.gen = live.config.gen
  /\ boot.phase = "open" => live.wal \in {-2, live.db.gen}
  /\ Up => \A r \in ghost.replaced :
       /\ \A name \in {"db", "config"} : \E k \in kept : k.name = name /\ k.stamp = r.stamp /\ k.gen = r.gen
       /\ r.wal # -2 => \E d, w \in kept :
            d.name = "db" /\ w.name = "wal" /\ d.stamp = r.stamp /\ w.stamp = r.stamp /\ d.n = w.n /\ d.gen = r.gen /\ w.gen = r.wal

\* What is swapped in was asked for, and nothing it brings back removes
\* anything by itself: no removal is queued or running, and dry run is on
\* (ConfirmRestore, neutralizeRemovals).
ApprovedAndInert ==
  [][\A g \in 1 .. MaxStagings : (live'.db.gen = g /\ live.db.gen # g) =>
        g \in ghost.approved /\ ~live'.db.removals /\ live'.db.safe]_backupVars

\* A restore is whole, undoable, asked for and inert, wherever the process
\* died while it was staged or applied (Stage, ApplyPendingRestore).
RestoreHolds == []RestoreIsWhole /\ ApprovedAndInert
=============================================================================

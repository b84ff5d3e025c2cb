------------------------------ MODULE Services ------------------------------
(***************************************************************************)
(* The service itself, from its parts: sessions, access, settings,         *)
(* connections, backups, the scheduler, notifications and health.          *)
(***************************************************************************)
EXTENDS Backup, Sessions, HostAccess, Connections, Scheduler, Notifier, Health, Config

-----------------------------------------------------------------------------
(* The parts share no state: a behaviour is one part's, and the others stay *)
(* in one of their initial states.  Restores ("backup") are staged from   *)
(* uploads and one backup; several backups are made in part "archives".   *)
(* Requests change connections one after the other or together in part     *)
(* "edits", and one of them races scans and syncs in part "connections".   *)
CONSTANT ServicesParts
VARIABLE part

\* What a person may ask for on the host settings page.
Methods == {"forms", "external", "none"}
Required == {"always", "notLocal"}

Fixed ==
  /\ part \notin {"backup", "archives"} => clock = 1
  /\ part # "host" => host = CHOOSE h \in FirstHosts : TRUE
  /\ part # "schedule" => interval = 0
  /\ part # "config" => cfgFile = Empty
ServicesInit ==
  /\ part \in ServicesParts /\ Fixed
  /\ BackupInit /\ SessionInit /\ HostInit /\ ConnInit /\ SchedInit /\ NotifierInit /\ HealthInit /\ ConfigInit

BackupOnly(ps) ==
  part \in ps /\ UNCHANGED <<part, sessionVars, hostVars, connVars, schedVars, noticeVars, healthVars, configVars>>
SessionsOnly ==
  part = "sessions" /\ UNCHANGED <<part, backupVars, hostVars, connVars, schedVars, noticeVars, healthVars, configVars>>
HostOnly ==
  part = "host" /\ UNCHANGED <<part, backupVars, sessionVars, connVars, schedVars, noticeVars, healthVars, configVars>>
ConnectionsOnly(ps) ==
  part \in ps /\ UNCHANGED <<part, backupVars, sessionVars, hostVars, schedVars, noticeVars, healthVars, configVars>>
Asking == ConnectionsOnly({"connections", "edits"}) /\ (part = "edits" \/ edits = 0)
ScheduleOnly ==
  part = "schedule" /\ UNCHANGED <<part, backupVars, sessionVars, hostVars, connVars, noticeVars, healthVars, configVars>>
NoticesOnly ==
  part = "notices" /\ UNCHANGED <<part, backupVars, sessionVars, hostVars, connVars, schedVars, healthVars, configVars>>
HealthOnly ==
  part = "health" /\ UNCHANGED <<part, backupVars, sessionVars, hostVars, connVars, schedVars, noticeVars, configVars>>
ConfigOnly ==
  part = "config" /\ UNCHANGED <<part, backupVars, sessionVars, hostVars, connVars, schedVars, noticeVars, healthVars>>

BackupNext ==
  \/ BackupOnly({"archives"}) /\ \E kind \in {"manual", "scheduled"} : Create(kind)
  \/ BackupOnly({"backup"}) /\ backupLeft.backups = MaxBackups /\ Create("manual")
  \/ BackupOnly({"backup", "archives"}) /\ \E a \in archives : Delete(a)
  \/ BackupOnly({"backup", "archives"}) /\ Cleanup
  \/ BackupOnly({"backup"}) /\ \E a \in Uploads \cup archives : StageRefused(a)
  \/ BackupOnly({"backup"}) /\ \E a \in Uploads \cup archives, security, confirmed \in BOOLEAN :
       StageBuild(a, security, confirmed)
  \/ BackupOnly({"backup"}) /\ StageMark
  \/ BackupOnly({"backup"}) /\ StageAside
  \/ BackupOnly({"backup"}) /\ StageIn
  \/ BackupOnly({"backup"}) /\ StageFails
  \/ BackupOnly({"backup"}) /\ ConfirmRestore
  \/ BackupOnly({"backup"}) /\ DiscardRestore
  \/ BackupOnly({"backup"}) /\ \E v \in SettingValues : UserChanges(v)
  \/ BackupOnly({"backup"}) /\ \E v \in SettingValues : KeyChanges(v)
  \/ BackupOnly({"backup"}) /\ RemovalsQueued
  \/ BackupOnly({"backup", "archives"}) /\ \E t \in Clock : ClockSet(t)
  \/ BackupOnly({"backup"}) /\ Stop
  \/ BackupOnly({"backup"}) /\ Dies
  \/ BackupOnly({"backup"}) /\ LoadConfig
  \/ BackupOnly({"backup"}) /\ applyPendingRestore
  \/ BackupOnly({"backup"}) /\ SwapSideFiles
  \/ BackupOnly({"backup"}) /\ MoveLiveDB
  \/ BackupOnly({"backup"}) /\ PlaceDB
  \/ BackupOnly({"backup"}) /\ MoveLiveConfig
  \/ BackupOnly({"backup"}) /\ PlaceConfig
  \/ BackupOnly({"backup"}) /\ ClearMarker
  \/ BackupOnly({"backup"}) /\ ClearFolder
  \/ BackupOnly({"backup"}) /\ Prune
  \/ BackupOnly({"backup"}) /\ OpenDatabase

SessionsNext ==
  \/ SessionsOnly /\ \E s \in SessionIds : LoginRead(s)
  \/ SessionsOnly /\ \E s \in SessionIds : LoginRefused(s)
  \/ SessionsOnly /\ \E s \in SessionIds : LoginIssue(s)
  \/ SessionsOnly /\ \E s \in SessionIds, t \in tokens, th \in {"get", "logout", "revoke", "password", "stream"} :
       VerifyBegin(s, t, th)
  \/ SessionsOnly /\ \E s \in SessionIds : VerifyUser(s)
  \/ SessionsOnly /\ \E s \in SessionIds : VerifyEnd(s)
  \/ SessionsOnly /\ \E s \in SessionIds : Renew(s)
  \/ SessionsOnly /\ \E s \in SessionIds : Answer(s)
  \/ SessionsOnly /\ \E s \in SessionIds : LogoutMark(s)
  \/ SessionsOnly /\ \E s \in SessionIds : LogoutSave(s)
  \/ SessionsOnly /\ \E s \in SessionIds : RotateSave(s)
  \/ SessionsOnly /\ \E s \in SessionIds : RotateSwap(s)
  \/ SessionsOnly /\ \E s \in SessionIds : RotateClear(s)
  \/ SessionsOnly /\ \E s \in SessionIds : KeepSession(s)
  \/ SessionsOnly /\ \E s \in SessionIds : UpdateUser(s)
  \/ SessionsOnly /\ ResetRequested
  \/ SessionsOnly /\ Lockdown
  \/ SessionsOnly /\ Restart
  \/ SessionsOnly /\ \E s \in SessionIds : StreamOpen(s)
  \/ SessionsOnly /\ StreamWoken
  \/ SessionsOnly /\ StreamArms
  \/ SessionsOnly /\ StreamTick

HostNext ==
  \/ HostOnly /\ \E r \in Requests, m \in Methods, q \in Required, t \in TrustLists, p \in BOOLEAN, c \in BOOLEAN :
       UpdateBegin(r, m, q, t, p, c)
  \/ HostOnly /\ UpdateFails
  \/ HostOnly /\ UpdateSave
  \/ HostOnly /\ \E r \in Requests, q \in Required : Setup(r, q)
  \/ HostOnly /\ ResetAuth

ConnectionsNext ==
  \/ Asking /\ \E e \in Editors, id \in ServerIds, in \in AskedServers, f \in BOOLEAN :
       ServerCreate(e, id, in, f)
  \/ Asking /\ \E e \in Editors, id \in ServerIds, in \in AskedServers, f \in BOOLEAN :
       ServerUpdate(e, id, in, f)
  \/ ConnectionsOnly({"connections", "edits"}) /\ \E e \in Editors : ServerAnswers(e)
  \/ ConnectionsOnly({"connections", "edits"}) /\ \E e \in Editors : ServerSilent(e)
  \/ ConnectionsOnly({"connections", "edits"}) /\ \E e \in Editors : Repoint(e)
  \/ ConnectionsOnly({"connections", "edits"}) /\ \E e \in Editors : ServerSave(e)
  \/ Asking /\ \E id \in ServerIds : ServerDelete(id)
  \/ Asking /\ \E id \in ServerIds, in \in AskedServers : ServerTest(id, in)
  \/ Asking /\ \E e \in Editors, id \in ArrIds, in \in AskedArrs, f \in BOOLEAN :
       ArrCreate(e, id, in, f)
  \/ Asking /\ \E e \in Editors, id \in ArrIds, in \in AskedArrs, f \in BOOLEAN :
       ArrUpdate(e, id, in, f)
  \/ ConnectionsOnly({"connections", "edits"}) /\ \E e \in Editors, ok \in BOOLEAN : ArrAnswers(e, ok)
  \/ ConnectionsOnly({"connections", "edits"}) /\ \E e \in Editors : ArrSave(e)
  \/ Asking /\ \E id \in ArrIds : ArrDelete(id)
  \/ Asking /\ \E id \in ArrIds, in \in AskedArrs : ArrTest(id, in)
  \/ Asking /\ \E e \in Editors, id \in ServerIds, in \in AskedTautullis, f \in BOOLEAN :
       TautulliBegin(e, id, in, f)
  \/ ConnectionsOnly({"connections", "edits"}) /\ \E e \in Editors : TautulliAnswers(e)
  \/ ConnectionsOnly({"connections", "edits"}) /\ \E e \in Editors : TautulliSave(e)
  \/ Asking /\ \E id \in ServerIds : TautulliDelete(id)
  \/ Asking /\ \E id \in ServerIds, in \in AskedTautullis : TautulliTest(id, in)
  \/ ConnectionsOnly({"connections"}) /\ MappingSaved(Conn("server", 1))
  \/ ConnectionsOnly({"connections"}) /\ MappingDeleted(Conn("server", 1))
  \/ ConnectionsOnly({"connections"}) /\ \E id \in ServerIds : SyncAsks(id)
  \/ ConnectionsOnly({"connections"}) /\ SyncChecks
  \/ ConnectionsOnly({"connections"}) /\ SyncAdopts
  \/ ConnectionsOnly({"connections"}) /\ \E l \in SUBSET ApiKeys : SyncSaves(l)
  \/ ConnectionsOnly({"connections"}) /\ \E id \in ServerIds, k \in ApiKeys : LibraryUpdate(id, k)
  \/ ConnectionsOnly({"connections"}) /\ ScanBegins
  \/ ConnectionsOnly({"connections"}) /\ \E st \in {"pending", "queued"} : ScanStores(st)
  \/ ConnectionsOnly({"connections"}) /\ Approve

ScheduleNext ==
  \/ ScheduleOnly /\ CheckSchedule
  \/ ScheduleOnly /\ LoadFails
  \/ ScheduleOnly /\ Starts
  \/ ScheduleOnly /\ RunByHand
  \/ ScheduleOnly /\ RunEnds
  \/ ScheduleOnly /\ RunAborted
  \/ ScheduleOnly /\ SaveFails
  \/ ScheduleOnly /\ Minute
  \/ ScheduleOnly /\ \E d \in ClockShifts : ClockTurned(d)
  \/ ScheduleOnly /\ \E i \in Intervals : IntervalChanges(i)
  \/ ScheduleOnly /\ SchedulerDies
  \/ ScheduleOnly /\ Boots

NoticesNext ==
  \/ NoticesOnly /\ \E m \in Notices : Notify(m)
  \/ NoticesOnly /\ \E m \in Notices : List(m)
  \/ NoticesOnly /\ \E m \in Notices : ListFails(m)
  \/ NoticesOnly /\ \E m \in Notices : Spawn(m)
  \/ NoticesOnly /\ \E m \in Notices : DropRest(m)
  \/ NoticesOnly /\ \E m \in Notices : DispatchEnds(m)
  \/ NoticesOnly /\ \E s \in sends : Deliver(s)
  \/ NoticesOnly /\ \E s \in sends : CutOff(s)
  \/ NoticesOnly /\ \E s \in sends, a \in Answers : Do(s, a)
  \/ NoticesOnly /\ \E s \in sends : Connect(s)
  \/ NoticesOnly /\ \E s \in sends, o \in BOOLEAN : Hello(s, o)
  \/ NoticesOnly /\ \E s \in sends, o \in BOOLEAN : Auth(s, o)
  \/ NoticesOnly /\ \E s \in sends, o \in BOOLEAN : Data(s, o)
  \/ NoticesOnly /\ Shutdown
  \/ NoticesOnly /\ ShutdownDone
  \/ NoticesOnly /\ ShutdownLate
  \/ NoticesOnly /\ \E c \in Conns : Toggle(c)

HealthNext ==
  \/ HealthOnly /\ \E a \in BOOLEAN : Load(a)
  \/ HealthOnly /\ Cancelled
  \/ HealthOnly /\ \E hung \in {"", "PlexMediaDeletion"}, saves \in BOOLEAN : Process(hung, saves)
  \/ HealthOnly /\ \E i \in DOMAIN Situations : SituationTurns(i)
  \/ HealthOnly /\ GraceEnds
  \/ HealthOnly /\ Reboot

ConfigNext ==
  \/ ConfigOnly /\ \E env \in Environments : LoadFile(env)
  \/ ConfigOnly /\ \E page \in Pages, s \in BOOLEAN : UpdateFile(page, s)
  \/ ConfigOnly /\ SaveWrites
  \/ ConfigOnly /\ SaveAborts
  \/ ConfigOnly /\ SaveRenames
  \/ ConfigOnly /\ SaveSyncs
  \/ ConfigOnly /\ TellSubscribers
  \/ ConfigOnly /\ \E power \in BOOLEAN : ConfigDies(power)
  \/ ConfigOnly /\ \E a \in ArchivedFiles, security \in BOOLEAN : StageFile(a, security)
  \/ ConfigOnly /\ PlaceStaged

ServicesNext ==
  \/ BackupNext \/ SessionsNext \/ HostNext \/ ConnectionsNext \/ ScheduleNext \/ NoticesNext
  \/ HealthNext \/ ConfigNext
servicesVars == <<part, backupVars, sessionVars, hostVars, connVars, schedVars, noticeVars, healthVars, configVars>>
ServicesSpec == ServicesInit /\ [][ServicesNext]_servicesVars /\ SessionFairness

-----------------------------------------------------------------------------
\* No change of the settings shuts out the one who makes it (NotShutOut of
\* HostAccess), and none leaves a config.xml that the next start refuses, has
\* lost, or takes the environment's values from (ConfigHolds of Config).
SettingsHold == NotShutOut /\ ConfigHolds
=============================================================================

------------------------------- MODULE Health -------------------------------
(***************************************************************************)
(* The health checks (src/internal/health): a run reads a snapshot of the  *)
(* configuration, lets every check probe servers and folders, publishes    *)
(* what is wrong and tells the person what appeared and what disappeared.  *)
(* What was told is kept across restarts.                                  *)
(*                                                                         *)
(* What the program may find is a catalogue of situations; the snapshot    *)
(* and the probes may see different ones.  Every server has one library.   *)
(* Wordings are left out: an issue is its key and its severity.            *)
(***************************************************************************)
EXTENDS Naturals, FiniteSets

CONSTANTS
    Situations,     \* a sequence of what the program may find
    MaxTurns, MaxReboots, MaxStoreFaults

VARIABLES
    situation,      \* index of how things are now
    snapshot,       \* index of what the run in progress read, 0: no run
    readOK,         \* the store answered when it was read
    shown,          \* results of the last run
    notified,       \* the checker's memory of issues told
    loaded,         \* that memory was read from the store
    savedIssues,    \* the stored one
    starting,       \* the grace period after the start
    told, repeated, \* what the person was told, and what was told again
    fresh,          \* shown is of a run that ended since the last change
    lost,           \* the memory of what was told was lost to a fault
    turns, reboots, storeFaults

healthVars == <<situation, snapshot, readOK, shown, notified, loaded, savedIssues, starting,
                told, repeated, fresh, lost, turns, reboots, storeFaults>>

Error == 3
Warning == 2
Notice == 1

\* An issue about nothing in particular, and one about a server or the like.
issue(src, sev) == {[src |-> src, sub |-> "", n |-> 0, sev |-> sev]}
issueOf(src, sub, n, sev) == {[src |-> src, sub |-> sub, n |-> n, sev |-> sev]}
When(cond, found) == IF cond THEN found ELSE {}

serious(r) == r.sev >= Warning
SameKey(a, b) == a.src = b.src /\ a.sub = b.sub /\ a.n = b.n

-----------------------------------------------------------------------------
(* The snapshot                                                             *)

\* Without an answer from the store every list is empty and nothing is set;
\* the configuration file is read all the same.
unread(s) == [s EXCEPT !.servers = <<>>, !.arrs = <<>>, !.tautullis = <<>>, !.methods = {},
                       !.dryRun = FALSE, !.discs = FALSE, !.bin = "unset"]

load == IF readOK THEN Situations[snapshot] ELSE unread(Situations[snapshot])
methodEnabled(s, m) == m \in s.methods
enabledServers(s) == {i \in DOMAIN s.servers : s.servers[i].on}
enabledPlexServers(s) == {i \in enabledServers(s) : s.servers[i].plex}
enabledReadOnlyServers(s) == {i \in enabledServers(s) : ~s.servers[i].plex}
enabledArrs(s) == {i \in DOMAIN s.arrs : s.arrs[i].on}
enabledTautullis(s) == {i \in DOMAIN s.tautullis :
    s.tautullis[i].on /\ s.tautullis[i].server \in enabledPlexServers(s)}
enabledLibraryFolders(s) == {i \in enabledServers(s) : s.servers[i].lib}
multiServer(s) == Cardinality(enabledServers(s)) >= 2

\* forEach: the issues of a probe per item together.
forEach(probes) == UNION probes

-----------------------------------------------------------------------------
(* The checks: s is the snapshot, w how things are when they probe          *)

checkNoMediaServer(s) ==
    When(readOK /\ enabledServers(s) = {}, issue("NoMediaServer", Warning))

checkMediaServerConnectivity(s, w) ==
    forEach({When(w.servers[i].answers = "nothing" \/ (w.servers[i].answers = "another" /\ s.servers[i].identified),
                  issueOf("MediaServerConnectivity", "server", i, Error))
            : i \in enabledServers(s)})

\* A server that does not answer is reported by the connectivity check only.
checkPlexMediaDeletion(s, w) ==
    When(methodEnabled(s, "plex"), forEach({When(w.servers[i].answers # "nothing" /\ ~w.servers[i].deletes,
                  issueOf("PlexMediaDeletion", "server", i, Warning))
            : i \in enabledPlexServers(s)}))

\* Only a known answer of plex.tv counts, for a server with an identity.
checkPlexOwner(s, w) ==
    When(methodEnabled(s, "plex"), forEach({When(s.servers[i].identified /\ w.servers[i].owner = "other",
                  issueOf("PlexOwner", "server", i, Warning))
            : i \in enabledPlexServers(s)}))

checkArrConnectivity(s, w) ==
    forEach({When(~w.arrs[i].up, issueOf("ArrConnectivity", "arr", i, Error)) : i \in enabledArrs(s)})

checkArrRecycleBin(s, w) ==
    When(methodEnabled(s, "arr"), forEach({When(w.arrs[i].up /\ ~w.arrs[i].bin, issueOf("ArrRecycleBin", "arr", i, Notice))
            : i \in enabledArrs(s)}))

checkTautulliConnectivity(s, w) ==
    forEach({When(~w.tautullis[i].up \/ ~s.servers[s.tautullis[i].server].identified \/ ~w.tautullis[i].same,
                  issueOf("TautulliConnectivity", "tautulli", i, Error))
            : i \in enabledTautullis(s)})

\* Libraries whose profile ranks by plays, on servers without a Tautulli or
\* with one that keeps no history.
checkWatchHistory(s, w) ==
    LET watching == {i \in enabledPlexServers(s) : s.servers[i].lib /\ s.servers[i].ranksPlays}
        followed == {i \in enabledTautullis(s) : s.tautullis[i].server \in watching}
    IN  forEach({issueOf("WatchHistory", "server", i, Warning)
            : i \in watching \ {s.tautullis[j].server : j \in followed}})
        \cup forEach({When(w.tautullis[i].up /\ ~w.tautullis[i].keeps, issueOf("WatchHistory", "tautulli", i, Notice))
            : i \in followed})

jellyfinPathMappingIssues(s, w) ==
    LET folders == enabledLibraryFolders(s) \cap enabledReadOnlyServers(s)
    IN  When(\E i \in folders : ~s.servers[i].mapped, issueOf("PathMapping", "jellyfin-unmapped", 0, Warning))
        \cup When(\E i \in folders : s.servers[i].mapped /\ ~w.servers[i].mounted,
                  issueOf("PathMapping", "jellyfin-missing", 0, Warning))

checkPathMapping(s, w) ==
    LET folders == enabledLibraryFolders(s) \cap enabledPlexServers(s)
    IN  jellyfinPathMappingIssues(s, w) \cup
        When(methodEnabled(s, "filesystem"),
             When(\E i \in folders : ~s.servers[i].mapped, issueOf("PathMapping", "unmapped", 0, Warning))
             \cup When(\E i \in folders : s.servers[i].mapped /\ ~w.servers[i].mounted,
                       issueOf("PathMapping", "missing", 0, Warning)))

checkDiscDetection(s) ==
    LET movies == {i \in enabledLibraryFolders(s) \cap enabledPlexServers(s) : s.servers[i].movies}
    IN  When(s.discs /\ movies # {} /\ \A i \in movies : ~s.servers[i].mapped, issue("DiscDetection", Notice))

\* An .ignore that keeps Jellyfin out of a bin inside its library, and a scan
\* since it was added to an existing bin.
jellyfinBinIssues(s, w) ==
    LET inside == {i \in enabledLibraryFolders(s) \cap enabledReadOnlyServers(s) :
                      s.servers[i].mapped /\ s.servers[i].holdsBin}
    IN  When(inside # {},
             IF w.ignore # "empty" THEN issueOf("RecycleBin", "ignore", 0, Warning)
             ELSE When(w.ignoreAdded /\ \E i \in inside : w.servers[i].answers = "nothing" \/ ~w.servers[i].scanned,
                       issueOf("RecycleBin", "ignore-scan", 0, Notice)))

\* The bin that is set: usable, outside the mapped folders or hidden from
\* the servers that list them.
checkRecycleBin(s, w) ==
    When(s.bin # "unset",
         IF s.bin \in {"relative", "holds media"} \/ w.binAt \in {"unwritable", "no folder", "no parent"}
         THEN issue("RecycleBin", Error)
         ELSE When(w.binAt # "absent",
              jellyfinBinIssues(s, w) \cup
              When(\E i \in enabledLibraryFolders(s) \cap enabledPlexServers(s) :
                       s.servers[i].mapped /\ s.servers[i].holdsBin /\ ~w.plexignore,
                   issueOf("RecycleBin", "plexignore", 0, Warning))))

jellyfinServerIssues(w, i) ==
    LET jf == w.servers[i]
    IN  When(jf.answers # "nothing",
             IF jf.version = "old" THEN issueOf("JellyfinServer", "version", i, Error)
             ELSE When(jf.version = "new", issueOf("JellyfinServer", "version", i, Notice))
                  \cup When(~jf.admin, issueOf("JellyfinServer", "admin", i, Warning))
                  \cup When(jf.substitutes, issueOf("JellyfinServer", "paths", i, Error)))

jellyfinBinNotice(s, w) ==
    When(readOK /\ s.bin = "unset" /\ \A i \in enabledArrs(s) : ~(w.arrs[i].up /\ w.arrs[i].bin),
         issueOf("JellyfinServer", "recycle-bin", 0, Notice))

checkJellyfinServers(s, w) ==
    When(enabledReadOnlyServers(s) # {},
         forEach({jellyfinServerIssues(w, i) : i \in enabledReadOnlyServers(s)}) \cup jellyfinBinNotice(s, w))

checkDryRun(s) == When(s.dryRun, issue("DryRun", Notice))
checkAuthentication(s) == When(s.auth = "none", issue("Authentication", Warning))
checkExternalAuth(s, w) ==
    When(s.auth = "external", issue("ExternalAuth", IF w.proxies THEN Notice ELSE Warning))
checkWebhookAPIKey(w) == When(w.masterKeyUsed, issue("WebhookApiKey", Warning))
checkReverseProxy(w) == When(w.untrustedProxy, issue("ReverseProxy", Warning))
checkLastScan(w) == When(w.store /\ w.lastScan = "failed", issue("LastScan", Warning))
checkDatabase(w) == When(~w.store, issue("Database", Error))

\* Two servers that list the same folder, one of them perhaps disabled.
checkMultiServerFolders(s) ==
    LET same(i, j) == s.servers[i].folder = s.servers[j].folder
                      /\ ((s.servers[i].mapped /\ s.servers[j].mapped)
                          \/ (~s.servers[i].separate /\ ~s.servers[j].separate))
    IN  When(multiServer(s),
             When(\E i, j \in enabledServers(s) : i < j /\ same(i, j),
                  issueOf("MultiServerFolders", "enabled", 0, Notice))
             \cup When(\E i \in enabledServers(s), j \in DOMAIN s.servers \ enabledServers(s) : same(i, j),
                       issueOf("MultiServerFolders", "disabled", 0, Notice)))

checkArrServerLinks(s) ==
    When(multiServer(s) /\ \E i \in enabledArrs(s) :
             ~s.arrs[i].confirmed \/ s.arrs[i].links \cap enabledServers(s) = {},
         issue("ArrServerLinks", Warning))

checkMultiServerMapping(s) ==
    When(multiServer(s) /\ \E i \in enabledLibraryFolders(s) : ~s.servers[i].separate /\ ~s.servers[i].mapped,
         issue("MultiServerMapping", Warning))

checkSeparateServer(s, w) ==
    When(multiServer(s) /\ w.store, forEach({When(w.servers[i].nameMatches, issueOf("SeparateServer", "server", i, Warning))
            : i \in {j \in enabledServers(s) : s.servers[j].separate}}))

checkMediaServerIdentity(s) ==
    When(multiServer(s), forEach({When(~s.servers[i].identified, issueOf("MediaServerIdentity", "server", i, Warning))
            : i \in enabledServers(s)}))

checks(s, w) ==
    UNION {checkNoMediaServer(s), checkMediaServerConnectivity(s, w), checkPlexMediaDeletion(s, w),
           checkPlexOwner(s, w), checkArrConnectivity(s, w), checkArrRecycleBin(s, w),
           checkTautulliConnectivity(s, w), checkWatchHistory(s, w), checkPathMapping(s, w),
           checkDiscDetection(s), checkRecycleBin(s, w), checkJellyfinServers(s, w), checkDryRun(s),
           checkAuthentication(s), checkExternalAuth(s, w), checkWebhookAPIKey(w), checkReverseProxy(w),
           checkLastScan(w), checkDatabase(w), checkMultiServerFolders(s), checkArrServerLinks(s),
           checkMultiServerMapping(s), checkSeparateServer(s, w), checkMediaServerIdentity(s)}

\* runOne: what a check that hangs or panics reports instead of its findings.
runOne(found, hung) ==
    IF hung = "" THEN found ELSE {r \in found : r.src # hung} \cup issueOf(hung, "timeout", 0, Warning)

-----------------------------------------------------------------------------
(* A run                                                                    *)

Load(answered) ==
    /\ snapshot = 0 /\ snapshot' = situation
    /\ readOK' = (answered /\ Situations[situation].store)
    /\ answered \/ storeFaults < MaxStoreFaults
    /\ storeFaults' = IF answered THEN storeFaults ELSE storeFaults + 1
    /\ UNCHANGED <<situation, shown, notified, loaded, savedIssues, starting, told, repeated,
                   fresh, lost, turns, reboots>>

Cancelled ==
    /\ snapshot # 0 /\ snapshot' = 0 /\ readOK' = TRUE
    /\ UNCHANGED <<situation, shown, notified, loaded, savedIssues, starting, told, repeated,
                   fresh, lost, turns, reboots, storeFaults>>

\* loadNotified: read once, whether or not the store answers.
loadNotified ==
    IF loaded \/ ~Situations[situation].store THEN notified ELSE notified \cup savedIssues

restoredOf(known, all) == {n \in known : ~\E r \in all : SameKey(r, n) /\ serious(r)}
appearedOf(known, all) == {r \in all : serious(r) /\ ~\E n \in known : SameKey(n, r) /\ r.sev <= n.sev}

\* As if what the grace period holds back counted as told.
recordedAll(known, all) == {r \in all : serious(r)}

\* What is known afterwards: what is still there, at its severity of now,
\* and what appeared, unless that is held back by the grace period.
recorded(known, all) ==
    LET news == IF starting THEN appearedOf(known, all) ELSE {}
    IN  {r \in all : serious(r) /\ r \notin news}
        \cup {n \in known : \E r \in news : SameKey(r, n)}

\* processChanges: tells, then saves what is known if it changed.
Process(hung, saves) ==
    LET all      == runOne(checks(load, Situations[situation]), hung)
        known    == loadNotified
        restored == restoredOf(known, all)
        appeared == IF starting THEN {} ELSE appearedOf(known, all)
        now      == recorded(known, all)
    IN  /\ snapshot # 0 /\ snapshot' = 0 /\ readOK' = TRUE
        /\ saves \/ storeFaults < MaxStoreFaults
        /\ storeFaults' = IF saves THEN storeFaults ELSE storeFaults + 1
        /\ shown' = all /\ notified' = now /\ loaded' = TRUE
        /\ savedIssues' = IF saves /\ Situations[situation].store /\ now # known THEN now ELSE savedIssues
        /\ told' = {t \in told : ~\E r \in restored \cup appeared : SameKey(r, t)} \cup appeared
        /\ repeated' = repeated \cup {r \in appeared : \E t \in told : t = r /\ \E k \in shown : k = r}
        /\ fresh' = (hung = "")
        /\ lost' = (lost \/ ~saves \/ ~Situations[situation].store)
        /\ UNCHANGED <<situation, starting, turns, reboots>>

-----------------------------------------------------------------------------
(* What happens around it                                                   *)

SituationTurns(i) ==
    /\ turns < MaxTurns /\ i # situation /\ turns' = turns + 1
    /\ situation' = i /\ fresh' = FALSE
    /\ UNCHANGED <<snapshot, readOK, shown, notified, loaded, savedIssues, starting, told,
                   repeated, lost, reboots, storeFaults>>

GraceEnds ==
    /\ starting /\ starting' = FALSE /\ fresh' = FALSE
    /\ UNCHANGED <<situation, snapshot, readOK, shown, notified, loaded, savedIssues, told,
                   repeated, lost, turns, reboots, storeFaults>>

Reboot ==
    /\ reboots < MaxReboots /\ reboots' = reboots + 1
    /\ snapshot' = 0 /\ readOK' = TRUE
    /\ notified' = {} /\ loaded' = FALSE /\ starting' = TRUE /\ fresh' = FALSE
    /\ UNCHANGED <<situation, shown, savedIssues, told, repeated, lost, turns, storeFaults>>

HealthInit ==
    /\ situation = 1 /\ snapshot = 0 /\ readOK = TRUE
    /\ shown = {} /\ notified = {} /\ loaded = FALSE /\ savedIssues = {} /\ starting = TRUE
    /\ told = {} /\ repeated = {} /\ fresh = FALSE /\ lost = FALSE
    /\ turns = 0 /\ reboots = 0 /\ storeFaults = 0

-----------------------------------------------------------------------------
(* After a run outside the grace period the person has been told of exactly *)
(* the warnings and errors the run shows, whatever restarts and held-back  *)
(* notifications came before (processChanges, saveNotified), unless the    *)
(* store failed to keep what was told.                                     *)
ToldWhatStands ==
    fresh /\ ~starting /\ ~lost =>
        \A src \in {r.src : r \in shown \cup told} :
            {<<r.sub, r.n>> : r \in {x \in shown : x.src = src /\ serious(x)}}
                = {<<t.sub, t.n>> : t \in {x \in told : x.src = src}}

(* No issue that stands is told twice, a restart in between included       *)
(* (health.go: "a restart does not repeat notifications").                 *)
ToldOnce == ~lost => repeated = {}

(* What is told is what stands, once.                                      *)
ToldRight == ToldWhatStands /\ ToldOnce
=============================================================================

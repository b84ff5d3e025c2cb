------------------------------- MODULE Library ------------------------------
(***************************************************************************)
(* The files and the libraries, from their parts: the recycle bin, the     *)
(* checks before a removal, paths, scans, play history, discs, the         *)
(* applications and listings.                                              *)
(***************************************************************************)
EXTENDS RecycleBin, RemovalGuards, Paths, ScanPipeline, PlayHistory, DiscScan, ArrClient, Listing

-----------------------------------------------------------------------------
(* The parts share no state: a behaviour is one part's, and the others stay *)
(* in one of their initial states.  The queue of an application is read    *)
(* after its files (part "queue"); the files change in part "tracked".     *)
CONSTANT LibraryParts
VARIABLE part

Fixed ==
  /\ part # "recycle" => bin = [set |-> FALSE, problems |-> {}, content |-> "absent", device |-> "same"]
  /\ part # "guards" => setup = CHOOSE s \in GuardSetups : TRUE
  /\ part # "bins" => place = CHOOSE p \in Places : TRUE
  /\ part # "files" => pair = uncompared(CHOOSE c \in FileCases : TRUE)
  /\ part # "history" => plays = {} /\ keeps = [users |-> "yes", library |-> "yes"]
  /\ part # "discs" => tree \in [there : {CHOOSE ids \in FirstEntries : TRUE},
                                 ver : {[x \in Ids \cup {-g : g \in DOMAIN Folders} |-> 0]}]
  /\ part \notin {"tracked", "rescan", "queue"} => app = "sonarr"
  /\ part # "rescan" => rescanJob = "none"
  /\ part # "queue" => queue = <<>>
  /\ part # "listing" => server = [kind |-> "plex", totals |-> TRUE, cap |-> 1]
LibraryInit ==
  /\ part \in LibraryParts /\ Fixed
  /\ RecycleInit /\ GuardInit /\ PathInit /\ ScanInit /\ HistoryInit /\ DiscInit /\ ArrInit /\ ListingInit

RecycleOnly ==
  part = "recycle" /\ UNCHANGED <<part, guardVars, pathVars, scanVars, historyVars, discVars, arrVars, listingVars>>
GuardsOnly ==
  part = "guards" /\ UNCHANGED <<part, recycleVars, pathVars, scanVars, historyVars, discVars, arrVars, listingVars>>
PathsOnly(p) ==
  part = p /\ UNCHANGED <<part, recycleVars, guardVars, scanVars, historyVars, discVars, arrVars, listingVars>>
ScansOnly ==
  part = "scans" /\ UNCHANGED <<part, recycleVars, guardVars, pathVars, historyVars, discVars, arrVars, listingVars>>
HistoryOnly ==
  part = "history" /\ UNCHANGED <<part, recycleVars, guardVars, pathVars, scanVars, discVars, arrVars, listingVars>>
DiscsOnly ==
  part = "discs" /\ UNCHANGED <<part, recycleVars, guardVars, pathVars, scanVars, historyVars, arrVars, listingVars>>
ArrOnly(ps) ==
  part \in ps /\ UNCHANGED <<part, recycleVars, guardVars, pathVars, scanVars, historyVars, discVars, listingVars>>
ListingOnly ==
  part = "listing" /\ UNCHANGED <<part, recycleVars, guardVars, pathVars, scanVars, historyVars, discVars, arrVars>>

RecycleNext ==
  \/ RecycleOnly /\ \E a \in Removal : PlanRemoval(a)
  \/ RecycleOnly /\ \E a \in Removal : RefuseRemoval(a)
  \/ RecycleOnly /\ OpenParts
  \/ RecycleOnly /\ openBin
  \/ RecycleOnly /\ removeEntry
  \/ RecycleOnly /\ moveEntry
  \/ RecycleOnly /\ CopyData
  \/ RecycleOnly /\ copyAndRemove
  \/ RecycleOnly /\ CallFails
  \/ RecycleOnly /\ RemovalDone
  \/ RecycleOnly /\ RolledBack
  \/ RecycleOnly /\ afterRestore
  \/ RecycleOnly /\ RestoreUndone
  \/ RecycleOnly /\ CleanRecycleBin
  \/ RecycleOnly /\ Crash
  \/ RecycleOnly /\ NextDay
  \/ RecycleOnly /\ PlacementDrifts
  \/ RecycleOnly /\ \E a \in Removal : Restore(a)
  \/ RecycleOnly /\ \E s \in Slots : Appear(s)
  \/ RecycleOnly /\ \E s \in Slots : Erase(s)

GuardsNext ==
  \/ GuardsOnly /\ CheckGroup
  \/ GuardsOnly /\ DeferGroup
  \/ GuardsOnly /\ Verify
  \/ GuardsOnly /\ CheckOtherServers
  \/ GuardsOnly /\ SelectMethods
  \/ GuardsOnly /\ \E t \in Targets : Perform(t)
  \/ GuardsOnly /\ PerformFails
  \/ GuardsOnly /\ PostActions
  \/ GuardsOnly /\ \E p \in FilePaths : FileReplaced(p)
  \/ GuardsOnly /\ \E p, q \in FilePaths : FileLinked(p, q)
  \/ GuardsOnly /\ ServerScans
  \/ GuardsOnly /\ ArrMoves
  \/ GuardsOnly /\ ServerSwapped
  \/ GuardsOnly /\ OtherScans
  \/ GuardsOnly /\ OtherBusy

PathsNext ==
  \/ PathsOnly("bins") /\ \E b \in BinChoices : SaveBin(b)
  \/ PathsOnly("bins") /\ \E i \in {1, 2}, d \in BinChoices : EditMapping(i, d)
  \/ PathsOnly("bins") /\ \E t \in LinkTargets : Relink(t)
  \/ PathsOnly("files") /\ CompareFiles

ScansNext ==
  \/ ScansOnly /\ \E b \in ScanBodies, d \in SUBSET DOMAIN ScanServers : StartFull(b, d)
  \/ ScansOnly /\ \E b \in ScanBodies, bad \in SUBSET DOMAIN Titles, d \in SUBSET DOMAIN ScanServers :
       StartTargeted(b, bad, d)
  \/ ScansOnly /\ \E o \in {"lists", "fails", "empty"} : ListLibrary(o)
  \/ ScansOnly /\ BuildIndex
  \/ ScansOnly /\ Select
  \/ ScansOnly /\ \E bad \in SUBSET scan.examined : FetchDetails(bad)
  \/ ScansOnly /\ \E bad \in SUBSET Instances : Enrich(bad)
  \/ ScansOnly /\ \E ok \in BOOLEAN : LoadIgnored(ok)
  \/ ScansOnly /\ \E o \in {"saves", "save fails", "lookup fails"} : PersistGroup(o)
  \/ ScansOnly /\ KeepUnavailable
  \/ ScansOnly /\ \E ok \in BOOLEAN : ResolveFull(ok)
  \/ ScansOnly /\ ResolveTargeted
  \/ ScansOnly /\ AutoApprove
  \/ ScansOnly /\ FinishScan
  \/ ScansOnly /\ CancelScan
  \/ ScansOnly /\ \E k \in Keys : IgnoreGroup(k)
  \/ ScansOnly /\ \E k \in Keys, c \in DOMAIN Files : OverrideKeep(k, c)
  \/ ScansOnly /\ \E k \in Keys : Reevaluate(k)
  \/ ScansOnly /\ \E t \in DOMAIN Titles : TitleGone(t)
  \/ ScansOnly /\ \E c \in DOMAIN Files, st \in {"ok", "missing", "offline"} : FileChanges(c, st)

HistoryNext ==
  \/ HistoryOnly /\ watchFailed
  \/ HistoryOnly /\ \E r \in BOOLEAN : ReadServer(r)
  \/ HistoryOnly /\ ReadUsers
  \/ HistoryOnly /\ ReadSection
  \/ HistoryOnly /\ SectionsRead
  \/ HistoryOnly /\ \E b \in BOOLEAN : ReadPage(b)
  \/ HistoryOnly /\ AskKeys
  \/ HistoryOnly /\ TakeKeys
  \/ HistoryOnly /\ StartTitles
  \/ HistoryOnly /\ AskTitle
  \/ HistoryOnly /\ TakeTitle
  \/ HistoryOnly /\ ApplyWatch
  \/ HistoryOnly /\ \E i \in DOMAIN PlayRows : SomeonePlays(i)
  \/ HistoryOnly /\ \E i \in DOMAIN PlayRows : RowPurged(i)

\* The folders of movies; the others lie in one of them.
MovieFolders == {f \in DOMAIN Folders : Folders[f].up = 0}
DiscsNext ==
  \/ DiscsOnly /\ \E f \in MovieFolders : DetectFolder(f)
  \/ DiscsOnly /\ \E f \in MovieFolders : InspectFolder(f)
  \/ DiscsOnly /\ \E f \in MovieFolders : DetectFails(f)
  \/ DiscsOnly /\ Attach
  \/ DiscsOnly /\ \E v \in UNION {attached[i] : i \in DOMAIN attached}, f \in DOMAIN Folders : VerifyDetect(v, f)
  \/ DiscsOnly /\ VerifyMeasure
  \/ DiscsOnly /\ \E e \in Changing : EntryAppears(e)
  \/ DiscsOnly /\ \E e \in Changing : EntryGoes(e)

TrackedNext ==
  \/ ArrOnly({"tracked", "queue"}) /\ \E f \in BOOLEAN : StartTracked(f)
  \/ ArrOnly({"tracked", "queue"}) /\ \E r \in Reply : ListItems(r)
  \/ ArrOnly({"tracked", "queue"}) /\ \E r \in Reply : ListTags(r)
  \/ ArrOnly({"tracked", "queue"}) /\ \E i \in Items : Ask(i)
  \/ ArrOnly({"tracked", "queue"}) /\ \E i \in Items, r \in Reply : ListRows(i, r)
  \/ ArrOnly({"tracked", "queue"}) /\ \E i \in Items, r \in Reply : FileById(i, r)
  \/ ArrOnly({"tracked", "queue"}) /\ \E i \in Items, r \in Reply : ListEpisodes(i, r)
  \/ ArrOnly({"tracked", "queue"}) /\ \E i \in Items, f \in 1 .. MaxFile, r \in Reply : ReadMissing(i, f, r)
  \/ ArrOnly({"tracked", "queue"}) /\ \E i \in Items : SeriesDone(i)
  \/ ArrOnly({"tracked", "queue"}) /\ ListingDone
  \/ ArrOnly({"tracked"}) /\ \E i \in Items, e \in Episodes, o \in BOOLEAN : Import(i, e, o)
  \/ ArrOnly({"tracked"}) /\ \E i \in Items, e \in Episodes : FileDeleted(i, e)
  \/ ArrOnly({"tracked"}) /\ \E i \in Items : ItemDeleted(i)

RescanNext ==
  \/ ArrOnly({"rescan"}) /\ StartRescan
  \/ ArrOnly({"rescan"}) /\ \E r \in Reply : ListCommands(r)
  \/ ArrOnly({"rescan"}) /\ \E r \in Reply : PollCommand(r)
  \/ ArrOnly({"rescan"}) /\ \E r \in Reply : PostCommand(r)
  \/ ArrOnly({"rescan"}) /\ \E i \in Items, e \in Episodes : FileDeleted(i, e)
  \/ ArrOnly({"rescan"}) /\ JobMoves

QueueNext ==
  \/ ArrOnly({"queue"}) /\ StartQueue
  \/ ArrOnly({"queue"}) /\ \E r \in Reply, t \in BOOLEAN : QueuePage(r, t)
  \/ ArrOnly({"queue"}) /\ TooManyPages
  \/ ArrOnly({"queue"}) /\ \E i \in Items : Enqueued(i)
  \/ ArrOnly({"queue"}) /\ \E k \in 1 .. Len(queue) : EntryLeaves(k)

ListingNext ==
  \/ ListingOnly /\ StartListing
  \/ ListingOnly /\ getJSON
  \/ ListingOnly /\ \E early \in BOOLEAN : PlexEmptyPage(early)
  \/ ListingOnly /\ PlexPage
  \/ ListingOnly /\ listRows
  \/ ListingOnly /\ \E k \in 1 .. Len(shelf) + 1 : RowArrives(k)
  \/ ListingOnly /\ \E k \in 1 .. Len(shelf) : RowLeaves(k)

LibraryNext ==
  \/ RecycleNext \/ GuardsNext \/ PathsNext \/ ScansNext \/ HistoryNext \/ DiscsNext
  \/ TrackedNext \/ RescanNext \/ QueueNext \/ ListingNext
libraryVars == <<part, recycleVars, guardVars, pathVars, scanVars, historyVars, discVars, arrVars,
  listingVars>>
LibrarySpec == LibraryInit /\ [][LibraryNext]_libraryVars
=============================================================================

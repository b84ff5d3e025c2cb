SPECIFICATION LibrarySpec
CONSTANTS
  LibraryParts = {"recycle", "guards", "bins", "files", "scans", "history", "discs", "tracked", "rescan", "queue", "listing"}
  Removal = {"film", "disc"}
  PartSlots <- MCPartSlots
  RemovalKind <- MCRemovalKind
  SlotInfo <- MCSlotInfo
  BinSettings <- MCBinSettings
  BinDevices = {"same", "other"}
  CleanupDays = 1
  MaxDay = 3
  MaxFiles = 3
  MaxFaults = 1
  OwnerSlots = {"x1"}
  MaxNames = 2
  GuardGroups <- MCGuardGroups
  GuardDisk <- MCGuardDisk
  FileSize <- MCFileSize
  BaseName <- MCBaseName
  Inside <- MCInside
  GuardSetups <- MCGuardSetups
  OtherItems <- MCOtherItems
  MaxDrift = 1
  Places <- MCPlaces
  BinChoices <- MCBinPaths
  LinkTargets <- MCLinks
  FileCases <- MCFileCases
  ScanServers <- MCScanServers
  ScanLibs <- MCScanLibs
  Titles <- MCTitles
  Files <- MCFiles
  ArrFiles <- MCArrFiles
  ArrLinks <- MCArrLinks
  ScanBodies <- MCScanBodies
  AutoMode = TRUE
  StableScansRequired = 2
  MaxDeletionsPerRun = 1
  ScansMax = 2
  ScanFaults = 1
  ScanChanges = 1
  HistItems <- MCHistItems
  ListedKeys <- MCListed
  PlayRows <- MCPlayRows
  FirstRows <- MCFirstRows
  PageRows = 1
  ChunkKeys = 2
  MaxRowsRead = 9
  KeepsHistory = {"yes", "unknown"}
  MaxPlays = 1
  MaxPurges = 1
  MaxReplies = 1
  Entry <- MCEntry
  Folders <- MCFolders
  Playlists <- MCPlaylists
  Clips <- MCClips
  Movies <- MCMovies
  FirstEntries <- MCFirstEntries
  Changing = {1, 3, 5, 7, 9, 12}
  MaxDiskChanges = 2
  Items = {1, 2}
  Episodes = {1}
  MaxFile = 3
  MaxInFlight = 2
  MaxArrChanges = 2
  MaxBadAnswers = 1
  PageSize = 1
  MaxPages = 2
  Reply = {"answer", "transient", "proxy", "error"}
  Shelved = {1, 2, 3, 4}
  Arriving = {11}
  AskedRows = 2
  MaxListed = 6
  MaxWithdrawn = 1
  MaxFailures = 1
INVARIANTS
  KeptCopyReadable
  NothingElseGoes
  PathsHold
  
  
  ZeroPlaysAreReal
  DiscsApart
  ReadsHold
  ListedWhole
PROPERTIES
  
  RollbackWhole
CHECK_DEADLOCK FALSE

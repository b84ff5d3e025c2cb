SPECIFICATION ServicesSpec
CONSTANTS
  ServicesParts = {"backup", "archives", "sessions", "host", "connections", "edits", "schedule", "notices", "health", "config"}
  Uploads <- MCUploads
  LiveDBs <- MCLive
  Clock = {1, 3}
  EarlierKept <- MCKept
  RetentionDays = 1
  SettingValues = {1, 2}
  MaxStagings = 2
  MaxDeaths = 1
  MaxChanges = 1
  MaxBackups = 2
  SessionIds = {1, 2}
  MaxLogins = 1
  MaxRotations = 1
  MaxPasswords = 2
  MaxResets = 1
  MaxRevoked = 1
  LocalAddrs = {"lan", "proxy"}
  IpHosts <- MCIpHosts
  PrivateNames = {"nas"}
  Requests <- MCRequests
  FirstHosts <- MCHosts
  TrustLists <- MCTrustLists
  Forced = {}
  MaxHostChanges = 2
  ServerIds = {1, 2}
  ArrIds = {1, 2}
  Urls = {"s1", "s2", "a1", "a2", "t1"}
  EndpointOf <- MCEndpointOf
  MachineAt <- MCMachineAt
  Monitored <- MCMonitored
  AskedServers <- MCAskedServers
  AskedArrs <- MCAskedArrs
  AskedTautullis <- MCAskedTautullis
  InitialServers <- MCServers
  InitialArrs <- MCArrs
  InitialTautullis <- MCTautullis
  ApiKeys = {"k"}
  Editors = {1, 2}
  GroupServer = 1
  GroupArr = 1
  AutoApproves = FALSE
  MaxEdits = 2
  Intervals = {0, 2}
  NoTime = NoTime
  Grace = 1
  ClockShifts <- MCShifts
  LongAgo = 6
  MaxRestarts = 1
  MaxShifts = 1
  MaxChoices = 1
  Notices = {1, 2}
  Sinks <- MCSinks
  MaxPending = 1
  MaxSends = 1
  MaxToggles = 1
  Situations <- MCSituations
  MaxTurns = 2
  MaxReboots = 1
  MaxStoreFaults = 1
  FirstFiles <- MCFiles
  Environments <- MCEnvironments
  Pages <- MCPages
  ArchivedFiles <- MCArchived
  MaxConfigSaves = 2
  MaxConfigDeaths = 2
INVARIANTS
  
  
  ConnectionsHold
  OnTime
  SendsHold
  
PROPERTIES
  RestoreHolds
  StreamEnds
CHECK_DEADLOCK FALSE

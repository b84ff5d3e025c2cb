CONSTANTS
  g1 = g1
  g2 = g2
  v1 = v1
  v2 = v2
  v3 = v3
  f1 = f1
  f2 = f2
  f3 = f3
  Group = {g1}
  Version = {v1, v2}
  ActionId = {1}
  FileOf <- OwnFiles2
  Members <- OneGroup
  Concurrent = {}
  UserOverrides = {}
  Protectable = {}
  EngineKeeps = {{v1}}
  Outcomes = {"pending"}
  DryRuns = {FALSE, TRUE}
  MaxCrashes = 1
  MaxLost = 1
  MaxGone = 1
SPECIFICATION FairSpec
PROPERTIES SimulatedStays RunsSettle

CONSTANTS
  g1 = g1
  g2 = g2
  v1 = v1
  v2 = v2
  v3 = v3
  f1 = f1
  f2 = f2
  f3 = f3
  Group = {g1}
  Version = {v1, v2}
  ActionId = {1, 2}
  FileOf <- OwnFiles2
  Members <- OneGroup
  Concurrent = {}
  UserOverrides = {}
  Protectable = {}
  EngineKeeps = {{v1}, {v2}}
  Outcomes = {"pending"}
  DryRuns = {FALSE}
  MaxCrashes = 0
  MaxLost = 0
  MaxGone = 0
SPECIFICATION Spec
INVARIANTS NotStranded

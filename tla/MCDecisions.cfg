SPECIFICATION DecisionsSpec
CONSTANTS
  Catalogue <- Archetypes
  ProfileSeq <- Profiles
  EnvSeq <- Envs
  KeeperCases <- MCKeeperCases
  MaxOverrides = 1
  Shelf <- MCShelf
  Shelves <- MCShelves
  GroupOpts <- MCGroupOpts
  MaxScans = 1
INVARIANTS
  DecisionsHold
  BestUnbeaten
  GroupsDisjoint
CHECK_DEADLOCK FALSE

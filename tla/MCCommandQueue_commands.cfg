CONSTANTS
  scan = scan
  process = process
  health = health
  Kind = {scan, health}
  Exclusive = {scan}
  Reporting = {scan}
  CommandId = {1, 2}
  Workers = 1
  MaxChanges = 1
  MaxErrors = 1
  MaxBoots = 2
SPECIFICATION FairSpec
INVARIANTS ExclusiveAlone FreshReflects ExitSettles
PROPERTIES RowsHold NothingStartsLate QueuedEnds
CHECK_DEADLOCK FALSE

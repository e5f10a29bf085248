SPECIFICATION Spec
CONSTANTS
  None = None
  Importer = {p1, p2}
  EntityType <- MCEntityType
  Rank <- MCRank
  LockTypes <- MCLockTypes
  Dump <- MCDump
  DumpDate <- MCDumpDate
  DumpItems <- MCDumpItems
  Request <- ArtistRequests
  MaxRuns = 3
  MaxItems = 3
  MaxWorkers = 2
SYMMETRY ImporterSymmetry
CHECK_DEADLOCK FALSE
INVARIANTS
  TypeOK
  LedgerMatchesCounters
  LedgerHasOneOwner
  UninterruptedReadyRowsMatch
PROPERTIES
  CommitsAreFenced
  SettledRunsAreFinal

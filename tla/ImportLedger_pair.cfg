SPECIFICATION Spec
CONSTANTS
  None = None
  Importer = {p1, p2}
  EntityType <- MCEntityType
  Rank <- MCRank
  LockTypes <- MCLockTypes
  Dump <- MCDump
  DumpDate <- MCDumpDate
  DumpItems <- OneItemDumps
  Request <- PairRequests
  MaxRuns = 3
  MaxItems = 1
  MaxWorkers = 1
SYMMETRY ImporterSymmetry
CHECK_DEADLOCK FALSE
INVARIANTS
  ProcessInv
  RunningRunsDisjoint
  LiveImporterOwnsItsRun
  StaleStateForcesImport
  UninterruptedReadyRowsMatch
PROPERTIES
  CheckpointNeverRegresses
  FailedLedgerPreserved
  ImplementsLease

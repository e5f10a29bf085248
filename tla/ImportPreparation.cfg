SPECIFICATION Spec
CONSTANTS
  None = None
  Importer = {p1, p2}
  EntityType <- MCEntityType
  RequiredTypes <- MCRequired
  Date <- MCDate
  MonthOf <- MCMonthOf
  YearOf <- MCYearOf
  DirectDate <- MCDirectDate
  Issue <- MCIssue
  Revision = {1, 2}
  Request <- MCRequest
  AtStart <- MCAtStart
  Reissuable <- MCReissuable
  MaxInvocations = 2
  MaxFaults = 2
SYMMETRY ImporterSymmetry
CHECK_DEADLOCK FALSE
INVARIANTS
  PreparationTypeOK
  CompletedFromPinnedFile
  DependenciesHeld
PROPERTIES
  CleanupFollowsSuccess

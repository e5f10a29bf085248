SPECIFICATION Spec
CONSTANTS
    Absent = Absent
    Master = {1, 2}
    Release = {1, 2}
    Dump = {1, 2, 3}
    ListedMaster <- MCListedMaster
    ListedRelease <- MCListedRelease
    MaxRuns = 3
    MaxClock = 4
CHECK_DEADLOCK FALSE
INVARIANT NewestObservedMainReleaseWins

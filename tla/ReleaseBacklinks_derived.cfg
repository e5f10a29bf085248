SPECIFICATION Spec
CONSTANTS
    Absent = Absent
    Master = {1, 2}
    Release = {1, 2}
    Dump = {1, 2, 3}
    ListedMaster <- MCListedMaster
    ListedRelease <- MCListedRelease
    MaxRuns = 4
    MaxClock = 4
CHECK_DEADLOCK FALSE
INVARIANTS
    BacklinkTypeOK
    
    BacklinksNeverDangleAfterBootstrap

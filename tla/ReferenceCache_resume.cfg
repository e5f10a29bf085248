SPECIFICATION Spec
CONSTANTS
    Absent = Absent
    EntityType <- MCEntityType
    Rank <- MCRank
    TwoPass <- MCTwoPass
    Requires <- MCRequires
    Id = {1, 2, 3}
    SegmentOf <- MCSegmentOf
    Name = {"Rock"}
    Dump = {1, 2}
    Source <- MCSource
    Selections <- MCSelections
    MaxRuns = 2
CHECK_DEADLOCK FALSE
INVARIANT RelationsExact

SPECIFICATION Spec
CONSTANTS
    Digest = {1, 2, 3}
    Payload = {"p", "q"}
    Slot = {1, 2, 3}
    LegacyHashes <- MCLegacyHashes
    Generators <- MCGenerators
    Attempts = 2
    Inputs <- MCInputs
    MaxImports = 2
CHECK_DEADLOCK FALSE
INVARIANTS
    SlotsTypeOK
    SlotsAreUnique
PROPERTIES
    UnsharedHashIsSlot
    ImportedExactly
    ReimportChangesNothing

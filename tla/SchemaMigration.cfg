SPECIFICATION Spec
CONSTANTS
    None = None
    Process = {p1, p2}
    EntityType <- MCEntityType
    Release = "release"
    LockTypes <- MCLockTypes
    Rank <- MCRank
    Migration <- MCMigration
    Build = {"old", "new", "forked"}
    Artifact <- MCArtifact
    Legacy <- MCLegacy
    Supported = {2, 3}
SYMMETRY ProcessSymmetry
INVARIANTS
    SchemaTypeOK
    MigratorIsAlone
    LedgerMatchesCatalog
    SuccessMeansArtifact
    ImportersFindTheirMigrations

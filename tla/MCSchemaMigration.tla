------------------------- MODULE MCSchemaMigration -------------------------
(* Three releases of the importer, one of which changed a released migration. *)
EXTENDS SchemaMigration, TLC

MCEntityType == {"artist", "release"}
MCRank       == "artist" :> 1 @@ "release" :> 2
MCLockTypes  == "artist" :> {"artist"} @@ "release" :> {"artist", "release"}

M(v, c) == [version |-> v, checksum |-> c]
MCMigration == {M(v, c) : v \in 1..3, c \in 1..2}

MCArtifact ==
    "old" :> <<M(1, 1), M(2, 1)>> @@ "new" :> <<M(1, 1), M(2, 1), M(3, 1)>>
    @@ "forked" :> <<M(1, 1), M(2, 2)>>

\* The last Liquibase importers knew the migrations of the new build.
MCLegacy == <<M(1, 1), M(2, 1), M(3, 1)>>

ProcessSymmetry == Permutations(Process)
=============================================================================

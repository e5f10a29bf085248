--------------------------- MODULE MCImportLedger ---------------------------
(* Small instances of ImportLedger: two entity types, of which master also locks artist. *)
EXTENDS ImportLease, TLC

MCEntityType == {"artist", "master"}
MCRank       == "artist" :> 1 @@ "master" :> 3
MCLockTypes  == "artist" :> {"artist"} @@ "master" :> {"artist", "master"}

\* Dump 1 is older than dump 2.
MCDump      == {1, 2}
MCDumpDate  == 1 :> 1 @@ 2 :> 2
MCDumpItems == 1 :> 2 @@ 2 :> 3
OneItemDumps == 1 :> 1 @@ 2 :> 1

Rev(n) == [e \in MCEntityType |-> n]
Invocation(manifest, size, force, downgrade, rev) ==
    [manifest |-> manifest, size |-> size, force |-> force, downgrade |-> downgrade, rev |-> Rev(rev)]

\* Two months of one entity, in two chunk sizes, one of them forced.
ArtistRequests ==
    {Invocation("artist" :> 1, 1, FALSE, FALSE, 1), Invocation("artist" :> 1, 2, FALSE, FALSE, 1),
     Invocation("artist" :> 2, 1, FALSE, FALSE, 1), Invocation("artist" :> 1, 1, TRUE, TRUE, 1)}

\* Independent and overlapping selections of two entities.  Two of them come from a build
\* with newer import contracts: with those a plan can be satisfied by two runs, and a run
\* of the exact manifest can be of the old contract.
PairRequests ==
    {Invocation("artist" :> 1, 1, FALSE, FALSE, 1), Invocation("artist" :> 2, 1, FALSE, FALSE, 1),
     Invocation("master" :> 1, 1, FALSE, FALSE, 1), Invocation("artist" :> 1, 1, FALSE, FALSE, 2),
     Invocation("artist" :> 1 @@ "master" :> 1, 1, FALSE, FALSE, 2)}

\* Two months of one entity, in order or not.
MonthRequests ==
    {Invocation("artist" :> 1, 1, FALSE, FALSE, 1), Invocation("artist" :> 2, 1, FALSE, FALSE, 1)}

ImporterSymmetry == Permutations(Importer)
=============================================================================

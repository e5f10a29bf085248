------------------------- MODULE MCImportPreparation -------------------------
(* A small instance of ImportPreparation: two entity types, of which master needs artist,
   and two months, the later one in a new year with a checksum document of its own. *)
EXTENDS ImportPreparation, TLC

MCEntityType == {"artist", "master"}
MCRequired   == "artist" :> {"artist"} @@ "master" :> {"artist", "master"}
MCDate       == {1, 2}
MCMonthOf    == 1 :> 1 @@ 2 :> 2
MCYearOf     == 1 :> 1 @@ 2 :> 2
MCDirectDate == 1 :> None @@ 2 :> 2
MCIssue      == {1, 2}
MCAtStart    == {<<"artist", 1>>, <<"master", 1>>, <<"artist", 2>>}
MCReissuable == {<<"artist", 2>>}

Invocation(entities, month, force, cleanup, rev) ==
    [entities |-> entities, month |-> month, force |-> force, cleanup |-> cleanup, rev |-> rev]

MCRequest ==
    {Invocation({"artist"}, None, FALSE, TRUE, 1),
     Invocation({"artist"}, 2, TRUE, FALSE, 2),
     Invocation({"master"}, None, FALSE, FALSE, 1),
     Invocation({"artist", "master"}, 2, FALSE, TRUE, 1)}

ImporterSymmetry == Permutations(Importer)
=============================================================================

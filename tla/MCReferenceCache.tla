-------------------------- MODULE MCReferenceCache --------------------------
(* Small catalogs for ReferenceCache: one two-pass type and the two one-pass types. *)
EXTENDS ReferenceCache, TLC

MCEntityType == {"artist", "master", "release"}
MCRank       == "artist" :> 1 @@ "master" :> 3 @@ "release" :> 4
MCTwoPass    == {"artist"}
MCRequires   ==
    "artist" :> {"artist"} @@ "master" :> {"artist"} @@ "release" :> {"artist", "master"}

\* One segment holds the identifiers of the dumps.
MCSegmentOf == 1 :> 0 @@ 2 :> 0 @@ 3 :> 1

Element(k, refs, n) == [chunk |-> k, refs |-> refs, names |-> n]

\* Artist 1 refers forward to artist 2; nobody has artist 3.  The second dump drops the
\* release's credit of artist 1.
Month(credits) ==
    "artist" :> (1 :> Element(0, {<<"artist", 2>>}, {}) @@ 2 :> Element(1, {}, {})
                 @@ 3 :> Absent)
    @@ "master" :> (1 :> Element(0, {<<"artist", 1>>}, {"Rock"})
                    @@ 2 :> Element(1, {<<"artist", 3>>}, {"Rock"}) @@ 3 :> Absent)
    @@ "release" :> (1 :> Element(0, credits \cup {<<"master", 1>>}, {})
                     @@ 2 :> Absent @@ 3 :> Absent)

MCSource == 1 :> Month({<<"artist", 1>>, <<"artist", 3>>}) @@ 2 :> Month({<<"artist", 2>>})

MCSelections ==
    {{"artist"}, {"artist", "master"}, {"release"}, {"artist", "master", "release"}}
=============================================================================

------------------------- MODULE MCReleaseBacklinks -------------------------
(* Two masters and two releases over three months for ReleaseBacklinks. *)
EXTENDS ReleaseBacklinks, TLC

Listed(m, main) == [master |-> m, main |-> main]

\* Release 1 is the main release of master 1, is not listed in the second month, in which
\* release 2 is, and returns unchanged in the third, which does not list release 2.  In the
\* first month release 2 names a master that is not listed.
MCListedRelease ==
    1 :> (1 :> Listed(1, TRUE) @@ 2 :> Listed(2, TRUE))
    @@ 2 :> (1 :> Absent @@ 2 :> Listed(1, TRUE))
    @@ 3 :> (1 :> Listed(1, TRUE) @@ 2 :> Absent)

\* Master 2 appears in the second month.
MCListedMaster ==
    1 :> (1 :> 1 @@ 2 :> Absent) @@ 2 :> (1 :> 2 @@ 2 :> 2) @@ 3 :> (1 :> 1 @@ 2 :> Null)
=============================================================================

----------------------------- MODULE ImportLease -----------------------------
(***************************************************************************)
(* ImportLedger implements CatalogLease: the lease of an entity type is    *)
(* the running row of discogs_import_run whose manifest selects it, which  *)
(* is the row that a chunk transaction fences on.                          *)
(***************************************************************************)
EXTENDS ImportLedger

\* Runs of the table T that may write rows of e.
RunningRuns(T, e) == {r \in RunId : T[r].status = "running" /\ Selects(T, r, e)}

LeaseOf(T, e) ==
    IF RunningRuns(T, e) = {}
    THEN [run |-> NoRun, edition |-> None]
    ELSE LET r == CHOOSE r \in RunningRuns(T, e) : TRUE
         IN  [run |-> r, edition |-> Version(T, r, e)]

\* What invocations ask for.
Editions == UNION {{<<q.manifest[e], q.rev[e]>> : e \in DOMAIN q.manifest} : q \in Request}

Lease == INSTANCE CatalogLease
    WITH lease <- [e \in EntityType |-> LeaseOf(run, e)],
         sequence <- runSeq,
         Edition <- Editions

\* Whatever importers, crashes and lost sessions do, each entity type has at most one run
\* that may write it, admission takes over whole runs, and a run that lost its entity types
\* writes none of them again.
ImplementsLease == Lease!Spec
=============================================================================

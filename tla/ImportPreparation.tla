-------------------------- MODULE ImportPreparation --------------------------
(***************************************************************************)
(* Runner.Run from the choice of a plan to the end of the invocation:      *)
(* catalog, dependency preflight, admission, preflight again, download,    *)
(* entity steps, completion, clean-up.  Invocations share the dump table,  *)
(* the run tables, the advisory locks and a data directory; the download   *)
(* site changes beside them.                                               *)
(*                                                                         *)
(* The coordinator is reduced to what ImportLedger shows of it: locks are  *)
(* taken all at once or not at all, an admission abandons running runs     *)
(* that import one of its entities, and every later write of a run fences  *)
(* on its status.  The chunks of an entity are one step.  Every admitted   *)
(* run reads all its files: that a run may resume a failed one of the same *)
(* manifest and pass over its entities is in ImportLedger.  Invocations do *)
(* not allow downgrades.                                                   *)
(***************************************************************************)
EXTENDS DependencyPreflight

CONSTANTS
    Importer,       \* invocation slots of the importer process
    Request,        \* invocations: [entities, month, force, cleanup, rev]
    Revision,       \* import contract revisions of the builds
    MaxInvocations, \* bound: invocations
    MaxFaults       \* bound: sessions, processes and statements lost during imports

Dumps == [date : Date, issue : Issue]
Plans == UNION {[S -> Dumps] : S \in SUBSET EntityType}

ASSUME PreparationAssumption ==
    /\ IsFiniteSet(Importer) /\ None \notin Importer
    /\ None \notin Request
    /\ MaxInvocations \in Nat
    /\ MaxFaults \in Nat
    /\ Request \subseteq [entities : SUBSET EntityType, month : Months \cup {None},
                          force : BOOLEAN, cleanup : BOOLEAN, rev : Revision]
    /\ \A q \in Request : q.entities # {}
    /\ Revision \subseteq Nat /\ Revision # {}

\* An invocation records at most one run, after that of the initial state.
RunId == 1..(MaxInvocations + 1)
NoRun == 0
NoPlan == [e \in {} |-> 0]

VARIABLES
    run,         \* discogs_import_run with its manifest
    runSeq,      \* last run id handed out
    imported,    \* run -> entity -> content its committed chunks were read from
    completed,   \* entity -> revision -> run of the newest completed run_dump
    checkpoint,  \* entity -> newest successful run
    dirty,       \* entities a failed run selected after their checkpoint
    lockHolder,  \* entity -> session holding its advisory lock
    disk,        \* the data directory
    unheld,      \* history: files an importer began to download without its lock session
    invoked,     \* bound's counter
    faults,      \* bound's counter
    session,     \* importer -> is the reserved lock connection alive
    pc,          \* importer -> where Run is
    req,         \* importer -> its invocation
    found,       \* importer -> dumps its refresh read
    plan,        \* importer -> entity -> dump
    accepted,    \* importer -> dependency -> the completed run its preflight accepted
    cur,         \* importer -> coordinator.runID
    left,        \* importer -> entities this stage has yet to handle
    incoming,    \* importer -> content the site is sending
    reading      \* importer -> content of the file its step opened

records == <<run, runSeq, imported, completed, checkpoint, dirty>>
memory  == <<req, found, plan, accepted, cur, incoming, reading>>
files   == <<disk, unheld>>
bounds  == <<invoked, faults>>
vars    == <<site, catalog, records, lockHolder, files, bounds, session, pc, left, memory>>

Files == INSTANCE DumpFiles
    WITH Path <- EntityType \X Date, Content <- Issue, Downloader <- Importer

FileOf(p, e) == <<e, plan[p][e].date>>

NoRunRow == [status |-> "absent", plan |-> NoPlan, rev |-> 0]

\* A new installation, or one that imported everything of the first date.
Init ==
    \E bootstrapped \in BOOLEAN :
        LET d     == Min(Date)
            first == [date |-> d, issue |-> Min(Issue)]
            v     == Min(Revision)
        IN  /\ SiteInit
            /\ catalog = [e \in EntityType |-> IF bootstrapped THEN <<first>> ELSE <<>>]
            /\ run = [r \in RunId |->
                  IF bootstrapped /\ r = 1
                  THEN [status |-> "success", plan |-> [e \in EntityType |-> first], rev |-> v]
                  ELSE NoRunRow]
            /\ runSeq = IF bootstrapped THEN 1 ELSE 0
            /\ imported = [r \in RunId |-> [e \in EntityType |->
                  IF bootstrapped /\ r = 1 THEN Files!Whole(first.issue) ELSE None]]
            /\ completed = [e \in EntityType |-> [w \in Revision |->
                  IF bootstrapped /\ w = v THEN 1 ELSE NoRun]]
            /\ checkpoint = [e \in EntityType |-> IF bootstrapped THEN 1 ELSE NoRun]
            /\ dirty = {}
            /\ lockHolder = [e \in EntityType |-> None]
            /\ disk = [x \in EntityType \X Date |-> Files!Absent]
            /\ unheld = {}
            /\ invoked = 0
            /\ faults = 0
            /\ session = [p \in Importer |-> FALSE]
            /\ pc = [p \in Importer |-> "idle"]
            /\ req = [p \in Importer |-> None]
            /\ found = [p \in Importer |-> NoPlan]
            /\ plan = [p \in Importer |-> NoPlan]
            /\ accepted = [p \in Importer |-> NoPlan]
            /\ cur = [p \in Importer |-> NoRun]
            /\ left = [p \in Importer |-> {}]
            /\ incoming = [p \in Importer |-> None]
            /\ reading = [p \in Importer |-> None]

-----------------------------------------------------------------------------
Imports == {"recheck", "download", "transfer", "steps", "reading", "failing"}

Goto(p, stage) == pc' = [pc EXCEPT ![p] = stage]

LocksWithout(p) == [e \in EntityType |-> IF lockHolder[e] = p THEN None ELSE lockHolder[e]]
Release(p) ==
    /\ lockHolder' = LocksWithout(p)
    /\ session' = [session EXCEPT ![p] = FALSE]

\* The invocation returns, or its process dies; nothing of it remains in memory.
Leave(p) ==
    /\ Release(p)
    /\ Goto(p, "idle")
    /\ req' = [req EXCEPT ![p] = None]
    /\ found' = [found EXCEPT ![p] = NoPlan]
    /\ plan' = [plan EXCEPT ![p] = NoPlan]
    /\ accepted' = [accepted EXCEPT ![p] = NoPlan]
    /\ cur' = [cur EXCEPT ![p] = NoRun]
    /\ left' = [left EXCEPT ![p] = {}]
    /\ incoming' = [incoming EXCEPT ![p] = None]
    /\ reading' = [reading EXCEPT ![p] = None]

\* The import goes on to finalizeImport with an error; of its memory only the run matters now.
Abort(p) ==
    /\ Goto(p, "failing")
    /\ accepted' = [accepted EXCEPT ![p] = NoPlan]
    /\ incoming' = [incoming EXCEPT ![p] = None]
    /\ reading' = [reading EXCEPT ![p] = None]
    /\ UNCHANGED <<req, found, plan, cur>>

\* A stage works for one importer, in memory only.
Local(p) == UNCHANGED <<site, records, lockHolder, files, session>>

-----------------------------------------------------------------------------
(***************************************************************************)
(* resolveCatalogPlan.                                                     *)
(***************************************************************************)
\* A pinned month is looked up in the table first.  (Bound: MaxInvocations.)
Invoke(p, q) ==
    /\ pc[p] = "idle"
    /\ invoked < MaxInvocations
    /\ invoked' = invoked + 1
    /\ req' = [req EXCEPT ![p] = q]
    /\ IF q.month # None /\ Resolvable(q.entities, q.month)
       THEN /\ plan' = [plan EXCEPT ![p] = ResolveImportPlan(q.entities, q.month)]
            /\ Goto(p, "preflight")
       ELSE /\ Goto(p, "refresh")
            /\ UNCHANGED plan
    /\ Local(p)
    /\ UNCHANGED <<catalog, found, accepted, cur, left, incoming, reading>>

\* The listing and the checksum documents were read.
ReadSite(p) ==
    /\ pc[p] = "refresh"
    /\ Refreshable(req[p].entities, req[p].month)
    /\ found' = [found EXCEPT ![p] = Refreshed(req[p].entities, req[p].month)]
    /\ Goto(p, "insert")
    /\ Local(p)
    /\ UNCHANGED <<catalog, req, plan, accepted, cur, left, incoming, reading>>

\* The rows found are added in one statement.
InsertCatalog(p) ==
    /\ pc[p] = "insert"
    /\ catalog' = BatchInsert(found[p])
    /\ found' = [found EXCEPT ![p] = NoPlan]
    /\ Goto(p, "resolve")
    /\ Local(p)
    /\ UNCHANGED <<req, plan, accepted, cur, left, incoming, reading>>

\* A request or the statement fails: the latest dumps are chosen from the table as it is,
\* a pinned month is given up.
RefreshFails(p) ==
    /\ pc[p] \in {"refresh", "insert"}
    /\ IF req[p].month = None
       THEN /\ Goto(p, "resolve")
            /\ UNCHANGED <<lockHolder, session, left, memory>>
       ELSE Leave(p)
    /\ UNCHANGED <<site, catalog, records, files>>

Resolve(p) ==
    /\ pc[p] = "resolve"
    /\ IF Resolvable(req[p].entities, req[p].month)
       THEN /\ plan' = [plan EXCEPT ![p] = ResolveImportPlan(req[p].entities, req[p].month)]
            /\ Goto(p, "preflight")
            /\ UNCHANGED <<lockHolder, session, req, found, accepted, cur, left, incoming, reading>>
       ELSE Leave(p)
    /\ UNCHANGED <<site, catalog, records, files>>

-----------------------------------------------------------------------------
(***************************************************************************)
(* preflightImportDependencies, before and after Prepare.                  *)
(***************************************************************************)
CompletedDump(p, t) == run[completed[t][req[p].rev]].plan[t]

DependenciesAccepted(p) ==
    \A t \in Dependencies(plan[p]) :
        /\ completed[t][req[p].rev] # NoRun
        /\ CheckpointAccepted(plan[p], t, CompletedDump(p, t))

Checkpoints(p) == [t \in Dependencies(plan[p]) |-> completed[t][req[p].rev]]

\* Mutation: the second preflight is not made.
FirstVerdict(p) == accepted[p]

\* The second preflight: what it accepts, None when it refuses.
SecondVerdict(p) == IF DependenciesAccepted(p) THEN Checkpoints(p) ELSE None

Preflight(p) ==
    /\ pc[p] = "preflight"
    /\ IF DependenciesAccepted(p)
       THEN /\ accepted' = [accepted EXCEPT ![p] = Checkpoints(p)]
            /\ Goto(p, "prepare")
            /\ UNCHANGED <<lockHolder, session, req, found, plan, cur, left, incoming, reading>>
       ELSE Leave(p)
    /\ UNCHANGED <<site, catalog, records, files>>

Recheck(p) ==
    /\ pc[p] = "recheck"
    /\ IF SecondVerdict(p) # None
       THEN /\ accepted' = [accepted EXCEPT ![p] = SecondVerdict(p)]
            /\ left' = [left EXCEPT ![p] = DOMAIN plan[p]]
            /\ Goto(p, "download")
            /\ UNCHANGED <<req, found, plan, cur, incoming, reading>>
       ELSE Abort(p) /\ UNCHANGED left
    /\ Local(p)
    /\ UNCHANGED catalog

-----------------------------------------------------------------------------
(***************************************************************************)
(* Prepare.                                                                *)
(***************************************************************************)
LockedTypes(p) == UNION {RequiredTypes[e] : e \in DOMAIN plan[p]}

Overlaps(r, p) == DOMAIN run[r].plan \cap DOMAIN plan[p] # {}
Abandoned(p) == {r \in RunId : run[r].status = "running" /\ Overlaps(r, p)}
Marked(p) == [r \in RunId |->
                 IF r \in Abandoned(p) THEN [run[r] EXCEPT !.status = "failed"] ELSE run[r]]
DirtyMarked(p) == dirty \cup UNION {DOMAIN run[r].plan : r \in Abandoned(p)}

Downgrade(p) ==
    \E e \in DOMAIN plan[p] :
        checkpoint[e] # NoRun /\ plan[p][e].date < run[checkpoint[e]].plan[e].date

\* Entities whose checkpoint is this dump, by this contract, with no failed run since.
Current(p) ==
    {e \in DOMAIN plan[p] \ DirtyMarked(p) :
        /\ checkpoint[e] # NoRun
        /\ run[checkpoint[e]].plan[e] = plan[p][e]
        /\ run[checkpoint[e]].rev = req[p].rev}

\* Successful runs of this very manifest.
Repeated(p) == {r \in RunId : run[r].status = "success" /\ run[r].plan = plan[p]}

Satisfied(p) == ~req[p].force /\ Repeated(p) # {} /\ Current(p) = DOMAIN plan[p]
Partly(p) == ~req[p].force /\ Repeated(p) # {} /\ Current(p) \notin {{}, DOMAIN plan[p]}

\* A lock is taken, the plan is refused, or a statement fails: all is rolled back.
Refuse(p) ==
    /\ pc[p] = "prepare"
    /\ Leave(p)
    /\ UNCHANGED <<site, catalog, records, files>>

MayPrepare(p) ==
    /\ pc[p] = "prepare"
    /\ \A e \in LockedTypes(p) : lockHolder[e] = None
    /\ ~Downgrade(p)
    /\ ~Partly(p)

\* The newest of them was imported by this contract; otherwise the skip records a run that
\* repeats the checkpoints.
Exact(p) == run[Max(Repeated(p))].rev = req[p].rev

Consolidate(p) ==
    /\ runSeq' = runSeq + 1
    /\ run' = [Marked(p) EXCEPT ![runSeq + 1] =
                  [status |-> "success", plan |-> plan[p], rev |-> req[p].rev]]
    /\ imported' = [imported EXCEPT ![runSeq + 1] = [e \in EntityType |->
                       IF e \in DOMAIN plan[p] THEN imported[checkpoint[e]][e] ELSE None]]
    /\ completed' = [e \in EntityType |-> [v \in Revision |->
                       IF e \in DOMAIN plan[p] /\ v = req[p].rev /\ completed[e][v] = checkpoint[e]
                       THEN runSeq + 1 ELSE completed[e][v]]]
    /\ checkpoint' = [e \in EntityType |->
                        IF e \in DOMAIN plan[p] THEN runSeq + 1 ELSE checkpoint[e]]

\* The manifest is already imported: the locks are released again, and the files may go.
Skip(p) ==
    /\ MayPrepare(p)
    /\ Satisfied(p)
    /\ dirty' = DirtyMarked(p)
    /\ IF Exact(p)
       THEN run' = Marked(p) /\ UNCHANGED <<runSeq, imported, completed, checkpoint>>
       ELSE Consolidate(p)
    /\ IF req[p].cleanup
       THEN /\ Goto(p, "cleanup")
            /\ left' = [left EXCEPT ![p] = DOMAIN plan[p]]
            /\ UNCHANGED <<lockHolder, session, memory>>
       ELSE Leave(p)
    /\ UNCHANGED <<site, catalog, files>>

Admit(p) ==
    /\ MayPrepare(p)
    /\ ~Satisfied(p)
    /\ runSeq' = runSeq + 1
    /\ run' = [Marked(p) EXCEPT ![runSeq + 1] =
                  [status |-> "running", plan |-> plan[p], rev |-> req[p].rev]]
    /\ dirty' = DirtyMarked(p)
    /\ lockHolder' = [e \in EntityType |-> IF e \in LockedTypes(p) THEN p ELSE lockHolder[e]]
    /\ session' = [session EXCEPT ![p] = TRUE]
    /\ cur' = [cur EXCEPT ![p] = runSeq + 1]
    /\ Goto(p, "recheck")
    /\ UNCHANGED <<site, catalog, imported, completed, checkpoint, files,
                   req, found, plan, accepted, left, incoming, reading>>

-----------------------------------------------------------------------------
(***************************************************************************)
(* FetchImportResources: one selected dump after the other.                *)
(***************************************************************************)
Expected(p, e) == plan[p][e].issue

FileReady(p, e) ==
    /\ pc[p] = "download"
    /\ e \in left[p]
    /\ Files!Present(FileOf(p, e), Expected(p, e))
    /\ left' = [left EXCEPT ![p] = @ \ {e}]
    /\ Local(p)
    /\ UNCHANGED <<catalog, pc, memory>>

StartDownload(p, e) ==
    /\ pc[p] = "download"
    /\ e \in left[p]
    /\ ~Files!Present(FileOf(p, e), Expected(p, e))
    /\ Files!BeginDownload(p, FileOf(p, e))
    /\ unheld' = IF session[p] THEN unheld ELSE unheld \cup {FileOf(p, e)}
    /\ incoming' = [incoming EXCEPT ![p] = <<e, served[e][plan[p][e].date]>>]
    /\ Goto(p, "transfer")
    /\ UNCHANGED <<site, catalog, records, lockHolder, session, left,
                   req, found, plan, accepted, cur, reading>>

EndDownload(p) ==
    /\ pc[p] = "transfer"
    /\ LET e   == incoming[p][1]
           got == incoming[p][2]
       IN  \/ /\ Files!DownloadVerified(p, FileOf(p, e), got, Expected(p, e))
              /\ left' = [left EXCEPT ![p] = @ \ {e}]
              /\ incoming' = [incoming EXCEPT ![p] = None]
              /\ Goto(p, "download")
              /\ UNCHANGED <<req, found, plan, accepted, cur, reading>>
           \/ /\ \/ Files!DownloadRejected(p, FileOf(p, e), got, Expected(p, e))
                 \/ Files!DownloadFailed(FileOf(p, e))
              /\ Abort(p)
              /\ UNCHANGED left
    /\ UNCHANGED <<site, catalog, records, unheld, lockHolder, session>>

-----------------------------------------------------------------------------
(***************************************************************************)
(* The entity steps, in any order here.                                    *)
(***************************************************************************)
StartSteps(p) ==
    /\ pc[p] = "download"
    /\ left[p] = {}
    /\ left' = [left EXCEPT ![p] = DOMAIN plan[p]]
    /\ Goto(p, "steps")
    /\ Local(p)
    /\ UNCHANGED <<catalog, memory>>

\* newReadCloser opens the file by its name; what it reads from then on is that file.
OpenFile(p, e) ==
    /\ pc[p] = "steps"
    /\ e \in left[p]
    /\ IF disk[FileOf(p, e)] = Files!Absent
       THEN Abort(p)
       ELSE /\ reading' = [reading EXCEPT ![p] = <<e, disk[FileOf(p, e)]>>]
            /\ Goto(p, "reading")
            /\ UNCHANGED <<req, found, plan, accepted, cur, incoming>>
    /\ Local(p)
    /\ UNCHANGED <<catalog, left>>

\* The chunks commit and completeEntityProgress sets completed_at, all fenced on the run.
ImportEntity(p) ==
    /\ pc[p] = "reading"
    /\ LET e == reading[p][1]
       IN  IF run[cur[p]].status = "running"
           THEN /\ imported' = [imported EXCEPT ![cur[p]][e] = reading[p][2]]
                /\ completed' = [completed EXCEPT ![e][req[p].rev] = cur[p]]
                /\ left' = [left EXCEPT ![p] = @ \ {e}]
                /\ reading' = [reading EXCEPT ![p] = None]
                /\ Goto(p, "steps")
                /\ UNCHANGED <<req, found, plan, accepted, cur, incoming>>
           ELSE /\ Abort(p)
                /\ UNCHANGED <<imported, completed, left>>
    /\ UNCHANGED <<site, catalog, run, runSeq, checkpoint, dirty, lockHolder, files, session>>

-----------------------------------------------------------------------------
(***************************************************************************)
(* finalizeImport.                                                         *)
(***************************************************************************)
CompleteSuccess(p) ==
    /\ pc[p] = "steps"
    /\ left[p] = {}
    /\ session[p]
    /\ run[cur[p]].status = "running"
    /\ run' = [run EXCEPT ![cur[p]].status = "success"]
    /\ checkpoint' = [e \in EntityType |-> IF e \in DOMAIN plan[p] THEN cur[p] ELSE checkpoint[e]]
    /\ dirty' = dirty \ DOMAIN plan[p]
    /\ IF req[p].cleanup
       THEN /\ Release(p)
            /\ Goto(p, "cleanup")
            /\ left' = [left EXCEPT ![p] = DOMAIN plan[p]]
            /\ UNCHANGED memory
       ELSE Leave(p)
    /\ UNCHANGED <<site, catalog, runSeq, imported, completed, files>>

CompleteFailure(p) ==
    /\ pc[p] = "failing"
    /\ session[p]
    /\ run[cur[p]].status = "running"
    /\ run' = [run EXCEPT ![cur[p]].status = "failed"]
    /\ dirty' = dirty \cup DOMAIN plan[p]
    /\ Leave(p)
    /\ UNCHANGED <<site, catalog, runSeq, imported, completed, checkpoint, files>>

\* The connection is gone, or the transaction fails.
CompleteError(p) ==
    /\ \/ pc[p] = "failing"
       \/ pc[p] = "steps" /\ left[p] = {}
    /\ Leave(p)
    /\ UNCHANGED <<site, catalog, records, files>>

\* Mutation: the files of a failed import are cleaned up as well.
CleanupStagesAll == {"cleanup", "failing"}

\* cleanupImportFiles runs only after a success or a skip.
CleanupStages == {"cleanup"}

Cleanup(p) ==
    /\ pc[p] \in CleanupStages
    /\ IF left[p] = {}
       THEN /\ pc[p] = "cleanup"
            /\ Leave(p)
            /\ UNCHANGED disk
       ELSE \E e \in left[p] :
               /\ Files!Delete(FileOf(p, e))
               /\ left' = [left EXCEPT ![p] = @ \ {e}]
               /\ UNCHANGED <<lockHolder, session, pc, memory>>
    /\ UNCHANGED <<site, catalog, records, unheld>>

-----------------------------------------------------------------------------
\* The session that holds the locks ends; the process works on through other connections.
LoseSession(p) ==
    /\ session[p]
    /\ Release(p)
    /\ UNCHANGED <<pc, left, memory>>

\* A request, a query or a chunk fails, or an interrupt arrives.
FailImport(p) ==
    /\ pc[p] \in {"recheck", "download", "steps", "reading"}
    /\ Abort(p)
    /\ UNCHANGED <<left, lockHolder, session>>

\* One of these, or the process dies.  (Bound: MaxFaults of them.)
Fault(p) ==
    /\ pc[p] \in Imports
    /\ faults < MaxFaults
    /\ faults' = faults + 1
    /\ LoseSession(p) \/ FailImport(p) \/ Leave(p)
    /\ UNCHANGED <<site, catalog, records, files>>

\* The process dies before it is admitted, or while it cleans up.
Crash(p) ==
    /\ pc[p] \notin Imports \cup {"idle"}
    /\ Leave(p)
    /\ UNCHANGED <<site, catalog, records, files>>

ImporterStep(p) ==
    \/ ReadSite(p) \/ InsertCatalog(p) \/ RefreshFails(p) \/ Resolve(p)
    \/ Preflight(p)
    \/ Refuse(p) \/ Skip(p) \/ Admit(p)
    \/ Recheck(p)
    \/ \E e \in left[p] : FileReady(p, e) \/ StartDownload(p, e) \/ OpenFile(p, e)
    \/ EndDownload(p)
    \/ StartSteps(p)
    \/ ImportEntity(p)
    \/ CompleteSuccess(p) \/ CompleteFailure(p) \/ CompleteError(p)
    \/ Cleanup(p)
    \/ Crash(p)

Upstream ==
    /\ SiteStep
    /\ UNCHANGED <<catalog, records, lockHolder, files, session, pc, left, memory>>

Next ==
    \/ Upstream /\ UNCHANGED bounds
    \/ \E p \in Importer, q \in Request : Invoke(p, q) /\ UNCHANGED faults
    \/ \E p \in Importer : ImporterStep(p) /\ UNCHANGED bounds
    \/ \E p \in Importer : Fault(p) /\ UNCHANGED invoked

Spec == Init /\ [][Next]_vars

-----------------------------------------------------------------------------
(***************************************************************************)
(* Properties.                                                             *)
(***************************************************************************)
\* An importer that was admitted and whose lock session lives.
Live(p) == pc[p] \in Imports /\ session[p]

PreparationTypeOK ==
    /\ served \in [EntityType -> [Date -> Issue \cup {None}]]
    /\ document \in [Date -> [EntityType -> Issue \cup {None}]]
    /\ catalog \in [EntityType -> Seq(Dumps)]
    /\ run \in [RunId -> [status : {"absent", "running", "success", "failed"},
                          plan : Plans, rev : Revision \cup {0}]]
    /\ runSeq \in RunId \cup {0}
    /\ imported \in [RunId -> [EntityType -> Files!FileType \cup {None}]]
    /\ completed \in [EntityType -> [Revision -> RunId \cup {NoRun}]]
    /\ checkpoint \in [EntityType -> RunId \cup {NoRun}]
    /\ dirty \subseteq EntityType
    /\ lockHolder \in [EntityType -> Importer \cup {None}]
    /\ disk \in [EntityType \X Date -> Files!FileType]
    /\ unheld \subseteq EntityType \X Date
    /\ invoked \in 0..MaxInvocations
    /\ faults \in 0..MaxFaults
    /\ session \in [Importer -> BOOLEAN]
    /\ pc \in [Importer -> Imports \cup {"idle", "refresh", "insert", "resolve", "preflight",
                                        "prepare", "cleanup"}]
    /\ req \in [Importer -> Request \cup {None}]
    /\ found \in [Importer -> Plans]
    /\ plan \in [Importer -> Plans]
    /\ cur \in [Importer -> RunId \cup {NoRun}]
    /\ left \in [Importer -> SUBSET EntityType]

\* Every entity completed from a file whose content is the one its run's manifest pins,
\* although file names are shared by the issues of a date and by invocations, and a file is
\* opened after its check by name.  The locks are what keeps the name: the exception is a
\* file that an importer began to download after its lock session had ended.
CompletedFromPinnedFile ==
    \A r \in RunId : \A e \in EntityType :
        imported[r][e] # None =>
            \/ imported[r][e] = Files!Whole(run[r].plan[e].issue)
            \/ <<e, run[r].plan[e].date>> \in unheld

\* A run that did not succeed and that no importer with a live lock session works for.  A
\* later import of another of its entities may have marked it failed since.
Orphaned(r) ==
    /\ run[r].status \in {"running", "failed"}
    /\ \A q \in Importer : cur[q] = r => ~session[q]

\* What the second preflight accepted stays the newest completed checkpoint while the
\* import holds its locks, unless a run that lost its session completed an entity since.
DependenciesHeld ==
    \A p \in Importer : Live(p) /\ pc[p] \notin {"recheck", "failing"} =>
        \A t \in DOMAIN accepted[p] :
            \/ completed[t][req[p].rev] = accepted[p][t]
            \/ Orphaned(completed[t][req[p].rev])

NamedBy(p, x) == x[1] \in DOMAIN plan[p] /\ FileOf(p, x[1]) = x

\* A whole file disappears only when an invocation that selected it downloads it anew, or
\* when its very manifest was imported and recorded as successful: a failed import keeps
\* its downloads.
CleanupFollowsSuccess ==
    [][\A x \in DOMAIN disk :
          disk[x].kind = "whole" /\ disk'[x] # disk[x] =>
              \E p \in Importer :
                  /\ NamedBy(p, x)
                  /\ \/ pc[p] = "download" /\ disk[x] # Files!Whole(Expected(p, x[1]))
                     \/ pc[p] = "transfer" /\ incoming[p][1] = x[1]
                     \/ Repeated(p) # {}]_vars
=============================================================================

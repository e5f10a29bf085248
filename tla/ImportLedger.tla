---------------------------- MODULE ImportLedger ----------------------------
(***************************************************************************)
(* The import coordinator of src/batch: admission under PostgreSQL         *)
(* advisory locks, the run, run_dump and run_chunk tables, the chunk       *)
(* transactions that write catalog rows and fence on their run row, entity *)
(* completion and run completion, with importer crashes and losses of the  *)
(* session that holds the locks.                                           *)
(*                                                                         *)
(* An Importer is one invocation slot of the program (a process running    *)
(* batch.Run); it may be invoked again after it ends.  Tables are shared.  *)
(* A statement or transaction the code issues is one step: PostgreSQL      *)
(* makes it atomic, and the row locks it takes (the running row a chunk    *)
(* fences on "for update") serialise it with the ones it conflicts with.   *)
(* A chunk transaction is two steps, its writes and its fenced commit,     *)
(* because the run may be abandoned between them.                          *)
(***************************************************************************)
EXTENDS Integers, FiniteSets, FiniteSetsExt

CONSTANTS
    Importer,    \* invocation slots of the importer process
    EntityType,  \* artist, label, master, release
    Rank,        \* canonical order of entity types
    LockTypes,   \* entity -> entity types whose advisory lock an import of it needs
    Dump,        \* dump identities (date and checksum)
    DumpDate,    \* dump -> publication date
    DumpItems,   \* dump -> number of parsed items
    Request,     \* invocations: [manifest, size, force, downgrade, rev]
    MaxRuns,     \* bound: rows of discogs_import_run
    MaxItems,    \* bound: items of the longest dump
    MaxWorkers,  \* size of the worker pool
    None         \* no importer, no request

Manifest == UNION {[S -> Dump] : S \in SUBSET EntityType}

ASSUME ConstantsAssumption ==
    /\ None \notin Importer
    /\ None \notin Request
    /\ Rank \in [EntityType -> Nat]
    /\ \A e, f \in EntityType : Rank[e] = Rank[f] => e = f
    /\ LockTypes \in [EntityType -> SUBSET EntityType]
    /\ \A e \in EntityType : e \in LockTypes[e]
    /\ DumpDate \in [Dump -> Nat]
    /\ MaxItems \in Nat
    /\ DumpItems \in [Dump -> 0..MaxItems]
    /\ None \notin Dump
    /\ MaxRuns \in Nat
    /\ MaxWorkers \in Nat \ {0}
    /\ Request \subseteq [manifest : Manifest, size : Nat \ {0}, force : BOOLEAN,
                          downgrade : BOOLEAN, rev : [EntityType -> Nat]]
    /\ \A q \in Request : DOMAIN q.manifest # {}

RunId == 1..MaxRuns
Item  == 0..(MaxItems - 1)
NoRun == 0
Null  == -1

VARIABLES
    run,          \* discogs_import_run, with the manifest of its run_dump rows
    runDump,      \* discogs_import_run_dump: chunk size and progress per entity
    runChunk,     \* discogs_import_run_chunk: the ledger of committed chunks
    entityState,  \* discogs_catalog_entity_state
    rows,         \* catalog rows: the dump and contract revision that last wrote each item
    runSeq,       \* last run id handed out
    clock,        \* now(): the next completed_at to be written
    lockHolder,   \* entity -> session holding its advisory lock
    session,      \* importer -> is the reserved lock connection alive
    pc,           \* importer -> where batch.Run is
    req,          \* importer -> its invocation
    cur,          \* importer -> coordinator.runID
    left,         \* importer -> entity types not yet imported
    inventory,    \* importer -> completed chunks loaded when the entity started
    nextChunk,    \* importer -> next chunk index of the reader
    inflight      \* importer -> chunks whose transaction is open

tables == <<run, runDump, runChunk, entityState, rows, runSeq, clock>>
local  == <<pc, req, cur, left, inventory, nextChunk, inflight>>
vars   == <<tables, lockHolder, session, local>>

(***************************************************************************)
(* Dumps and chunks.                                                       *)
(***************************************************************************)
\* Mutation: one chunk per item whatever the chunk size.
ChunkCountUnsized(d, size) == DumpItems[d]

\* The number of windows WindowWithCount makes of a dump's items.
ChunkCount(d, size) == (DumpItems[d] + size - 1) \div size

\* ChunkMetadata of the k-th window of a dump read in windows of the given size.
ChunkAt(d, size, k) ==
    [index |-> k, first |-> k * size,
     count |-> IF DumpItems[d] - k * size < size THEN DumpItems[d] - k * size ELSE size]

ChunkType == [index : Nat, first : Nat, count : Nat \ {0}]
Items(c) == c.first .. (c.first + c.count - 1)

RunChunks(L, r, e) == {c \in L : c.run = r /\ c.entity = e}
ItemSum(C) == MapThenSumSet(LAMBDA c : c.count, C)

Row(r, e, c) == [run |-> r, entity |-> e, index |-> c.index, first |-> c.first, count |-> c.count]

(***************************************************************************)
(* Queries on the run tables.  T is discogs_import_run as the querying     *)
(* transaction sees it.                                                    *)
(***************************************************************************)
Selects(T, r, e) == e \in DOMAIN T[r].manifest

\* What run r writes for entity e: its dump, as its build's import contract reads it.
Version(T, r, e) == <<T[r].manifest[e], T[r].rev[e]>>

\* The order by completed_at desc, id desc of every query.
Later(T, r, s) == T[r].at > T[s].at \/ (T[r].at = T[s].at /\ r > s)
Latest(T, S) == CHOOSE r \in S : \A s \in S \ {r} : Later(T, r, s)

Successes(T, e) == {r \in RunId : T[r].status = "success" /\ Selects(T, r, e)}

\* The view discogs_import_checkpoint: the newest successful run of an entity.
Checkpoint(T, e) == IF Successes(T, e) = {} THEN NoRun ELSE Latest(T, Successes(T, e))

\* Mutation: recovery leaves completed_at null.
AbandonUnstamped(T, selected) ==
    [r \in RunId |->
        IF T[r].status = "running" /\ DOMAIN T[r].manifest \cap selected # {}
        THEN [T[r] EXCEPT !.status = "failed"]
        ELSE T[r]]

\* Mutation: recovery also touches runs that had already failed.
AbandonUnsuccessful(T, selected) ==
    [r \in RunId |->
        IF T[r].status \in {"running", "failed"} /\ DOMAIN T[r].manifest \cap selected # {}
        THEN [T[r] EXCEPT !.status = "failed", !.at = clock]
        ELSE T[r]]

\* Mutation: no recovery.
AbandonNone(T, selected) == T

\* markAbandonedRuns: only runs that import one of the selected entity types.
Abandon(T, selected) ==
    [r \in RunId |->
        IF T[r].status = "running" /\ DOMAIN T[r].manifest \cap selected # {}
        THEN [T[r] EXCEPT !.status = "failed", !.at = clock]
        ELSE T[r]]

\* Mutation: refused only when every selected dump is older.
IsDowngradeOfAll(T, q) ==
    \A e \in DOMAIN q.manifest :
        LET c == Checkpoint(T, e)
        IN  c # NoRun /\ DumpDate[q.manifest[e]] < DumpDate[T[c].manifest[e]]

\* assertNotDowngrade's comparison with the checkpoints.
IsDowngrade(T, q) ==
    \E e \in DOMAIN q.manifest :
        LET c == Checkpoint(T, e)
        IN  c # NoRun /\ DumpDate[q.manifest[e]] < DumpDate[T[c].manifest[e]]

\* A failed run of the entity that ended after the checkpoint was applied.
Dirtied(T, e, c) ==
    \E r \in RunId : T[r].status = "failed" /\ Selects(T, r, e) /\ Later(T, r, c)

\* Mutation: the contract revision of the checkpoint is not compared.
CompatibleAnyRevision(T, q, e) ==
    LET c == Checkpoint(T, e)
    IN  c # NoRun /\ T[c].manifest[e] = q.manifest[e] /\ ~Dirtied(T, e, c)

Compatible(T, q, e) ==
    LET c == Checkpoint(T, e)
    IN  /\ c # NoRun
        /\ T[c].manifest[e] = q.manifest[e]
        /\ T[c].rev[e] = q.rev[e]
        /\ ~Dirtied(T, e, c)

\* findSuccessfulRun: successful runs of this exact manifest.
Candidates(T, q) == {r \in RunId : T[r].status = "success" /\ T[r].manifest = q.manifest}

CompatibleEntities(T, q) ==
    IF Candidates(T, q) = {} THEN {} ELSE {e \in DOMAIN q.manifest : Compatible(T, q, e)}

\* findSuccessfulRun's exact run: the newest candidate, at this build's revisions.
ExactRun(T, q) ==
    LET c == Latest(T, Candidates(T, q))
    IN  IF \A e \in DOMAIN q.manifest : T[c].rev[e] = q.rev[e] THEN c ELSE NoRun

Supersedes(T, c, r, e) ==
    /\ c # NoRun
    /\ Version(T, c, e) = Version(T, r, e)

\* Mutation: the checkpoint is not consulted.
OverwrittenNever(T, r, e) == FALSE

\* A checkpoint of another dump or revision was applied after the run failed.
Overwritten(T, r, e) ==
    LET c == Checkpoint(T, e)
    IN  c # NoRun /\ ~Supersedes(T, c, r, e) /\ Later(T, c, r)

Resumable(T, q) ==
    {r \in RunId :
        /\ T[r].status = "failed"
        /\ T[r].manifest = q.manifest
        /\ ~T[r].force
        /\ \A e \in DOMAIN q.manifest :
             /\ T[r].rev[e] = q.rev[e]
             /\ runDump[r][e].size = q.size
             /\ runDump[r][e].processed = ItemSum(RunChunks(runChunk, r, e))
             /\ \A c \in RunChunks(runChunk, r, e) :
                  c.first = c.index * q.size /\ c.count <= q.size
             /\ ~Overwritten(T, r, e)}

\* findResumableRun.
ResumeSource(T, q) ==
    IF q.force \/ Resumable(T, q) = {} THEN NoRun ELSE Latest(T, Resumable(T, q))

(***************************************************************************)
(* Initial state: an installed schema without runs, nothing imported.      *)
(***************************************************************************)
NoRunRow == [status |-> "absent", manifest |-> [e \in {} |-> 0],
             rev |-> [e \in EntityType |-> 0], force |-> FALSE, downgrade |-> FALSE,
             from |-> NoRun, at |-> 0]
NoRunDump == [size |-> 0, processed |-> 0, total |-> Null]

Init ==
    /\ run = [r \in RunId |-> NoRunRow]
    /\ runDump = [r \in RunId |-> [e \in EntityType |-> NoRunDump]]
    /\ runChunk = {}
    /\ entityState = [e \in EntityType |->
          [status |-> "bootstrap_pending", operation |-> "bootstrap",
           active |-> NoRun, last |-> NoRun]]
    /\ rows = [e \in EntityType |-> [i \in Item |-> None]]
    /\ runSeq = 0
    /\ clock = 1
    /\ lockHolder = [e \in EntityType |-> None]
    /\ session = [p \in Importer |-> FALSE]
    /\ pc = [p \in Importer |-> "idle"]
    /\ req = [p \in Importer |-> None]
    /\ cur = [p \in Importer |-> NoRun]
    /\ left = [p \in Importer |-> {}]
    /\ inventory = [p \in Importer |-> {}]
    /\ nextChunk = [p \in Importer |-> 0]
    /\ inflight = [p \in Importer |-> {}]

-----------------------------------------------------------------------------
(***************************************************************************)
(* Sessions and advisory locks.                                            *)
(***************************************************************************)
Working == {"entity", "chunks", "failing", "finished"}

\* Mutation: the connection is dropped without its locks.
LocksWithoutNone(p) == lockHolder

LocksWithout(p) == [e \in EntityType |-> IF lockHolder[e] = p THEN None ELSE lockHolder[e]]

\* Mutation: only the selected entity types are locked.
WantedSelected(p) == DOMAIN req[p].manifest

\* requiredImportLockTypes of the plan.
Wanted(p) == UNION {LockTypes[e] : e \in DOMAIN req[p].manifest}
Held(p)   == {e \in EntityType : lockHolder[e] = p}
First(S)  == CHOOSE e \in S : \A f \in S : Rank[e] <= Rank[f]

\* coordinator.release, and the end of the invocation: the locks are unlocked, the
\* connection is closed and nothing of the invocation remains in memory.
Leave(p) ==
    /\ lockHolder' = LocksWithout(p)
    /\ session' = [session EXCEPT ![p] = FALSE]
    /\ pc' = [pc EXCEPT ![p] = "idle"]
    /\ req' = [req EXCEPT ![p] = None]
    /\ cur' = [cur EXCEPT ![p] = NoRun]
    /\ left' = [left EXCEPT ![p] = {}]
    /\ inventory' = [inventory EXCEPT ![p] = {}]
    /\ nextChunk' = [nextChunk EXCEPT ![p] = 0]
    /\ inflight' = [inflight EXCEPT ![p] = {}]

\* An invocation reaches Prepare and reserves its lock connection.  (Bound: none starts
\* once MaxRuns runs were recorded.)
Start(p, q) ==
    /\ pc[p] = "idle"
    /\ runSeq < MaxRuns
    /\ pc' = [pc EXCEPT ![p] = "locking"]
    /\ req' = [req EXCEPT ![p] = q]
    /\ session' = [session EXCEPT ![p] = TRUE]
    /\ UNCHANGED <<tables, lockHolder, cur, left, inventory, nextChunk, inflight>>

\* acquireEntityLocks, one pg_try_advisory_lock: canonical order, all or nothing.
TryLock(p) ==
    /\ pc[p] = "locking"
    /\ LET e == First(Wanted(p) \ Held(p))
       IN  \/ /\ lockHolder[e] = None
              /\ lockHolder' = [lockHolder EXCEPT ![e] = p]
              /\ pc' = [pc EXCEPT ![p] = IF Wanted(p) \subseteq Held(p) \cup {e}
                                         THEN "admission" ELSE "locking"]
              /\ UNCHANGED <<session, req, cur, left, inventory, nextChunk, inflight>>
           \/ /\ lockHolder[e] # None
              /\ Leave(p)
    /\ UNCHANGED tables

\* Any database error before the admission transaction commits: it rolls back.
AdmissionError(p) ==
    /\ pc[p] \in {"locking", "admission"}
    /\ Leave(p)
    /\ UNCHANGED tables

-----------------------------------------------------------------------------
(***************************************************************************)
(* Prepare: the admission transaction.  It sees its own abandonments; a    *)
(* rejection rolls them back with everything else.                         *)
(***************************************************************************)
Marked(p) == Abandon(run, DOMAIN req[p].manifest)

PartiallySatisfied(p) ==
    LET ok == CompatibleEntities(Marked(p), req[p])
    IN  ~req[p].force /\ ok # {} /\ ok # DOMAIN req[p].manifest

FullySatisfied(p) ==
    ~req[p].force /\ CompatibleEntities(Marked(p), req[p]) = DOMAIN req[p].manifest

DowngradeRefused(p) == ~req[p].downgrade /\ IsDowngrade(Marked(p), req[p])

\* markCatalogStatesReady for run r: refuses an entity another run is active on.
ReadyAllowed(r, S) == \A e \in S : entityState[e].active \in {r, NoRun}
StatesReady(r, S) ==
    [e \in EntityType |->
        IF e \in S
        THEN [status |-> "ready", operation |-> "none", active |-> NoRun, last |-> r]
        ELSE entityState[e]]

StatesImporting(r, S) ==
    [e \in EntityType |->
        IF e \in S
        THEN [entityState[e] EXCEPT
                 !.status = "importing", !.active = r,
                 !.operation = IF entityState[e].last = NoRun THEN "bootstrap" ELSE "refresh"]
        ELSE entityState[e]]

\* markCatalogStatesFailed for run r.
FailAllowed(r, S) == \A e \in S : entityState[e].active = r
StatesFailed(S) ==
    [e \in EntityType |->
        IF e \in S THEN [entityState[e] EXCEPT !.status = "failed", !.active = NoRun]
        ELSE entityState[e]]

AdmissionRejected(p) ==
    \/ DowngradeRefused(p)
    \/ PartiallySatisfied(p)
    \/ FullySatisfied(p) /\ ExactRun(Marked(p), req[p]) # NoRun
         /\ ~ReadyAllowed(ExactRun(Marked(p), req[p]), DOMAIN req[p].manifest)
    \/ FullySatisfied(p) /\ ExactRun(Marked(p), req[p]) = NoRun
         /\ ~ReadyAllowed(runSeq + 1, DOMAIN req[p].manifest)

RejectAdmission(p) ==
    /\ pc[p] = "admission"
    /\ AdmissionRejected(p)
    /\ Leave(p)
    /\ UNCHANGED tables

\* The manifest is satisfied by one run: catalog states point to it, nothing is imported.
SkipExact(p) ==
    /\ pc[p] = "admission"
    /\ ~AdmissionRejected(p)
    /\ FullySatisfied(p)
    /\ LET r == ExactRun(Marked(p), req[p])
       IN  /\ r # NoRun
           /\ run' = Marked(p)
           /\ entityState' = StatesReady(r, DOMAIN req[p].manifest)
    /\ Leave(p)
    /\ UNCHANGED <<runDump, runChunk, rows, runSeq, clock>>

\* Satisfied by several runs: consolidateSuccessfulImportRun records a successful run
\* whose run_dump rows are copied from the checkpoints.
SkipConsolidated(p) ==
    /\ pc[p] = "admission"
    /\ ~AdmissionRejected(p)
    /\ FullySatisfied(p)
    /\ ExactRun(Marked(p), req[p]) = NoRun
    /\ runSeq < MaxRuns
    /\ LET r == runSeq + 1
           S == DOMAIN req[p].manifest
       IN  /\ run' = [Marked(p) EXCEPT ![r] =
                        [status |-> "success", manifest |-> req[p].manifest, rev |-> req[p].rev,
                         force |-> FALSE, downgrade |-> FALSE, from |-> NoRun, at |-> clock]]
           /\ runDump' = [runDump EXCEPT ![r] =
                        [e \in EntityType |->
                            IF e \in S THEN runDump[Checkpoint(Marked(p), e)][e] ELSE NoRunDump]]
           /\ entityState' = StatesReady(r, S)
           /\ runSeq' = r
    /\ clock' = clock + 1
    /\ Leave(p)
    /\ UNCHANGED <<runChunk, rows>>

\* Mutation: the source keeps its chunks.
TransferCopies(L, src, r) == L \cup {[c EXCEPT !.run = r] : c \in {k \in L : k.run = src}}

\* Mutation: only the summaries are copied.
TransferNothing(L, src, r) == L

\* copyResumeProgress: the source's chunks move to the new run.
TransferChunks(L, src, r) == {IF c.run = src THEN [c EXCEPT !.run = r] ELSE c : c \in L}

\* A run is inserted, with the progress of the run it resumes if there is one.
Admit(p) ==
    /\ pc[p] = "admission"
    /\ ~AdmissionRejected(p)
    /\ ~FullySatisfied(p)
    /\ runSeq < MaxRuns
    /\ LET q   == req[p]
           S   == DOMAIN q.manifest
           r   == runSeq + 1
           src == ResumeSource(Marked(p), q)
       IN  /\ run' = [Marked(p) EXCEPT ![r] =
                        [status |-> "running", manifest |-> q.manifest, rev |-> q.rev,
                         force |-> q.force, downgrade |-> q.downgrade, from |-> src, at |-> 0]]
           /\ runDump' = [runDump EXCEPT ![r] =
                        [e \in EntityType |->
                            CASE e \notin S -> NoRunDump
                              [] e \in S /\ src = NoRun -> [NoRunDump EXCEPT !.size = q.size]
                              [] e \in S /\ src # NoRun -> runDump[src][e]]]
           /\ runChunk' = IF src = NoRun THEN runChunk ELSE TransferChunks(runChunk, src, r)
           /\ entityState' = StatesImporting(r, S)
           /\ runSeq' = r
           /\ cur' = [cur EXCEPT ![p] = r]
           /\ left' = [left EXCEPT ![p] = S]
    /\ clock' = IF Marked(p) = run THEN clock ELSE clock + 1
    /\ pc' = [pc EXCEPT ![p] = "entity"]
    /\ UNCHANGED <<rows, lockHolder, session, req, inventory, nextChunk, inflight>>

-----------------------------------------------------------------------------
(***************************************************************************)
(* The import steps of batch.Run: entities in canonical order, chunks in   *)
(* reader order, at most MaxWorkers chunk transactions open.               *)
(***************************************************************************)
Entity(p) == First(left[p])
EntityDump(p) == run[cur[p]].manifest[Entity(p)]
Progress(p)  == runDump[cur[p]][Entity(p)]
Resuming(p)  == run[cur[p]].from # NoRun
Chunk(p)     == ChunkAt(EntityDump(p), req[p].size, nextChunk[p])
TotalChunks(p) == ChunkCount(EntityDump(p), req[p].size)

Recorded(p) == RunChunks(runChunk, cur[p], Entity(p))
ChunkRange(c) == [index |-> c.index, first |-> c.first, count |-> c.count]

NextEntity(p) ==
    /\ left' = [left EXCEPT ![p] = @ \ {Entity(p)}]
    /\ pc' = [pc EXCEPT ![p] = IF left[p] = {Entity(p)} THEN "finished" ELSE "entity"]

\* completedEntityResult: a resumed run does not import a completed entity again.
SkipEntity(p) ==
    /\ pc[p] = "entity"
    /\ Resuming(p)
    /\ Progress(p).size = req[p].size
    /\ Progress(p).total # Null
    /\ Progress(p).processed = Progress(p).total
    /\ NextEntity(p)
    /\ UNCHANGED <<tables, lockHolder, session, req, cur, inventory, nextChunk, inflight>>

\* The completed chunks are loaded and the reader starts at the first window.
StartEntity(p) ==
    /\ pc[p] = "entity"
    /\ ~(/\ Resuming(p)
         /\ Progress(p).size = req[p].size
         /\ Progress(p).total # Null
         /\ Progress(p).processed = Progress(p).total)
    /\ inventory' = [inventory EXCEPT ![p] =
                        IF Resuming(p) THEN {ChunkRange(c) : c \in Recorded(p)} ELSE {}]
    /\ nextChunk' = [nextChunk EXCEPT ![p] = 0]
    /\ pc' = [pc EXCEPT ![p] = "chunks"]
    /\ UNCHANGED <<tables, lockHolder, session, req, cur, left, inflight>>

InInventory(p) == \E c \in inventory[p] : c.index = nextChunk[p]

\* A window the inventory holds with the same range is not dispatched; with another
\* range it fails the step.
SkipChunk(p) ==
    /\ pc[p] = "chunks"
    /\ nextChunk[p] < TotalChunks(p)
    /\ InInventory(p)
    /\ IF Chunk(p) \in inventory[p]
       THEN /\ nextChunk' = [nextChunk EXCEPT ![p] = @ + 1]
            /\ UNCHANGED pc
       ELSE /\ pc' = [pc EXCEPT ![p] = "failing"]
            /\ UNCHANGED nextChunk
    /\ UNCHANGED <<tables, lockHolder, session, req, cur, left, inventory, inflight>>

\* A worker opens the chunk transaction and writes the chunk's rows.
WriteChunk(p) ==
    /\ pc[p] = "chunks"
    /\ nextChunk[p] < TotalChunks(p)
    /\ ~InInventory(p)
    /\ Cardinality(inflight[p]) < MaxWorkers
    /\ inflight' = [inflight EXCEPT ![p] = @ \cup {Chunk(p)}]
    /\ nextChunk' = [nextChunk EXCEPT ![p] = @ + 1]
    /\ UNCHANGED <<tables, lockHolder, session, pc, req, cur, left, inventory>>

\* Mutation: the run row is not fenced.
RecordableUnfenced(p, c) ==
    /\ \A k \in Recorded(p) : k.index # c.index
    /\ Progress(p).size = req[p].size
    /\ Progress(p).total = Null

\* recordCompletedChunk's conditions: the run row is still running, the chunk is new,
\* and the entity is not complete.
Recordable(p, c) ==
    /\ run[cur[p]].status = "running"
    /\ \A k \in Recorded(p) : k.index # c.index
    /\ Progress(p).size = req[p].size
    /\ Progress(p).total = Null

\* executeChunk commits: rows, ledger entry and counter together.
CommitChunk(p, c) ==
    /\ pc[p] \in {"chunks", "failing"}
    /\ c \in inflight[p]
    /\ Recordable(p, c)
    /\ rows' = [rows EXCEPT ![Entity(p)] =
                   [i \in Item |-> IF i \in Items(c) THEN Version(run, cur[p], Entity(p)) ELSE @[i]]]
    /\ runChunk' = runChunk \cup {Row(cur[p], Entity(p), c)}
    /\ runDump' = [runDump EXCEPT ![cur[p]][Entity(p)].processed = @ + c.count]
    /\ inflight' = [inflight EXCEPT ![p] = @ \ {c}]
    /\ UNCHANGED <<run, entityState, runSeq, clock, lockHolder, session,
                   pc, req, cur, left, inventory, nextChunk>>

\* executeChunk rolls back: the fence refused it, the database failed, or the context
\* was cancelled.  The worker cancels the step.
AbortChunk(p, c) ==
    /\ pc[p] \in {"chunks", "failing"}
    /\ c \in inflight[p]
    /\ inflight' = [inflight EXCEPT ![p] = @ \ {c}]
    /\ pc' = [pc EXCEPT ![p] = "failing"]
    /\ UNCHANGED <<tables, lockHolder, session, req, cur, left, inventory, nextChunk>>

\* A query or the reader fails, or the context is cancelled: no chunk is started any more.
FailStep(p) ==
    /\ pc[p] \in {"entity", "chunks"}
    /\ pc' = [pc EXCEPT ![p] = "failing"]
    /\ UNCHANGED <<tables, lockHolder, session, req, cur, left, inventory, nextChunk, inflight>>

\* The recorded chunks tile the source: completeEntityProgress's coverage.
Covered(p) ==
    LET items == DumpItems[EntityDump(p)]
        n     == TotalChunks(p)
    IN  /\ Progress(p).processed = items
        /\ Cardinality(Recorded(p)) = n
        /\ ItemSum(Recorded(p)) = items
        /\ \A c \in Recorded(p) :
             /\ c.index < n
             /\ c.first = c.index * req[p].size
             /\ c.count = IF c.index = n - 1 THEN items - c.first ELSE req[p].size

\* All workers are done and the stream ended without error.
CompleteEntity(p) ==
    /\ pc[p] = "chunks"
    /\ nextChunk[p] = TotalChunks(p)
    /\ inflight[p] = {}
    /\ IF run[cur[p]].status = "running" /\ Progress(p).size = req[p].size /\ Covered(p)
       THEN /\ runDump' = [runDump EXCEPT ![cur[p]][Entity(p)].total = DumpItems[EntityDump(p)]]
            /\ NextEntity(p)
       ELSE /\ pc' = [pc EXCEPT ![p] = "failing"]
            /\ UNCHANGED <<runDump, left>>
    /\ UNCHANGED <<run, runChunk, entityState, rows, runSeq, clock, lockHolder, session,
                   req, cur, inventory, nextChunk, inflight>>

-----------------------------------------------------------------------------
(***************************************************************************)
(* Complete: one transaction on the lock connection, then release.         *)
(***************************************************************************)
EntityIncomplete(r, e) ==
    runDump[r][e].total = Null \/ runDump[r][e].processed # runDump[r][e].total

\* Mutation: one satisfied entity is enough.
SupersededByAny(T) ==
    {r \in RunId : /\ T[r].status = "failed"
                   /\ \E e \in DOMAIN T[r].manifest : Supersedes(T, Checkpoint(T, e), r, e)}

\* Failed runs all of whose entities the current checkpoints now satisfy.
SupersededRuns(T) ==
    {r \in RunId : /\ T[r].status = "failed"
                   /\ \A e \in DOMAIN T[r].manifest : Supersedes(T, Checkpoint(T, e), r, e)}

CompleteSuccess(p) ==
    LET r == cur[p]
        S == DOMAIN run[r].manifest
    IN  /\ pc[p] = "finished"
        /\ session[p]
        /\ \A e \in S : ~EntityIncomplete(r, e)
        /\ run[r].status = "running"
        /\ ReadyAllowed(r, S)
        /\ run' = [run EXCEPT ![r] = [@ EXCEPT !.status = "success", !.at = clock]]
        /\ entityState' = StatesReady(r, S)
        /\ runChunk' = {c \in runChunk : c.run # r /\ c.run \notin SupersededRuns(run')}
        /\ clock' = clock + 1
        /\ Leave(p)
        /\ UNCHANGED <<runDump, rows, runSeq>>

\* The run error, or incomplete entities, is recorded.
CompleteFailure(p) ==
    LET r == cur[p]
        S == DOMAIN run[r].manifest
    IN  /\ \/ pc[p] = "failing" /\ inflight[p] = {}
           \/ pc[p] = "finished" /\ \E e \in S : EntityIncomplete(r, e)
        /\ session[p]
        /\ run[r].status = "running"
        /\ FailAllowed(r, S)
        /\ run' = [run EXCEPT ![r] = [@ EXCEPT !.status = "failed", !.at = clock]]
        /\ entityState' = StatesFailed(S)
        /\ clock' = clock + 1
        /\ Leave(p)
        /\ UNCHANGED <<runDump, runChunk, rows, runSeq>>

\* The completion transaction cannot run or rolls back: the connection is gone, the
\* run was abandoned, or a statement failed.  The run row keeps its status.
CompleteError(p) ==
    /\ pc[p] \in {"failing", "finished"}
    /\ inflight[p] = {}
    /\ Leave(p)
    /\ UNCHANGED tables

-----------------------------------------------------------------------------
(***************************************************************************)
(* Failures of the environment.                                            *)
(***************************************************************************)
\* The session that holds the locks ends (connection loss); the process works on
\* through the other connections of the pool.
LoseSession(p) ==
    /\ pc[p] \in Working
    /\ session[p]
    /\ session' = [session EXCEPT ![p] = FALSE]
    /\ lockHolder' = LocksWithout(p)
    /\ UNCHANGED <<tables, local>>

\* The process dies: its sessions end and its open transactions roll back.
Crash(p) ==
    /\ pc[p] # "idle"
    /\ Leave(p)
    /\ UNCHANGED tables

-----------------------------------------------------------------------------
ImporterStep(p) ==
    \/ \E q \in Request : Start(p, q)
    \/ TryLock(p)
    \/ AdmissionError(p)
    \/ RejectAdmission(p)
    \/ SkipExact(p)
    \/ SkipConsolidated(p)
    \/ Admit(p)
    \/ SkipEntity(p)
    \/ StartEntity(p)
    \/ SkipChunk(p)
    \/ WriteChunk(p)
    \/ \E c \in inflight[p] : CommitChunk(p, c) \/ AbortChunk(p, c)
    \/ FailStep(p)
    \/ CompleteEntity(p)
    \/ CompleteSuccess(p)
    \/ CompleteFailure(p)
    \/ CompleteError(p)
    \/ LoseSession(p)
    \/ Crash(p)

Next == \E p \in Importer : ImporterStep(p)

Spec == Init /\ [][Next]_vars
-----------------------------------------------------------------------------
(***************************************************************************)
(* Properties.                                                             *)
(***************************************************************************)
RunRow == [status : {"absent", "running", "success", "failed"}, manifest : Manifest,
           rev : [EntityType -> Nat], force : BOOLEAN, downgrade : BOOLEAN,
           from : RunId \cup {NoRun}, at : Nat]
RunDumpRow  == [size : Nat, processed : Nat, total : Nat \cup {Null}]
RunChunkRow == [run : RunId, entity : EntityType, index : Nat, first : Nat,
                count : Nat \ {0}]
EntityStateRow ==
    [status : {"bootstrap_pending", "importing", "ready", "failed"},
     operation : {"none", "bootstrap", "refresh"},
     active : RunId \cup {NoRun}, last : RunId \cup {NoRun}]

\* Every table and every importer's memory holds values of its columns and fields.
TypeOK ==
    /\ run \in [RunId -> RunRow]
    /\ runDump \in [RunId -> [EntityType -> RunDumpRow]]
    /\ runChunk \subseteq RunChunkRow
    /\ entityState \in [EntityType -> EntityStateRow]
    /\ rows \in [EntityType -> [Item -> (Dump \X Nat) \cup {None}]]
    /\ runSeq \in RunId \cup {0}
    /\ clock \in Nat
    /\ lockHolder \in [EntityType -> Importer \cup {None}]
    /\ session \in [Importer -> BOOLEAN]
    /\ pc \in [Importer -> {"idle", "locking", "admission"} \cup Working]
    /\ req \in [Importer -> Request \cup {None}]
    /\ cur \in [Importer -> RunId \cup {NoRun}]
    /\ left \in [Importer -> SUBSET EntityType]
    /\ inventory \in [Importer -> SUBSET ChunkType]
    /\ nextChunk \in [Importer -> Nat]
    /\ inflight \in [Importer -> SUBSET ChunkType]

Running(r) == run[r].status = "running"

\* Run ids are handed out in order.
UnusedRunsAbsent == \A r \in RunId : r > runSeq => run[r].status = "absent"

\* An importer at work refers to a recorded run of its own plan, and its open chunks belong
\* to the entity it imports; an admission transaction runs under all of its locks.
ImporterInv(p) ==
    /\ pc[p] = "idle" <=> req[p] = None
    /\ pc[p] \in {"locking", "admission"} => session[p]
    /\ pc[p] = "idle" => ~session[p]
    /\ pc[p] = "admission" => Wanted(p) \subseteq Held(p)
    /\ pc[p] \in Working =>
         /\ cur[p] \in 1..runSeq
         /\ run[cur[p]].manifest = req[p].manifest
         /\ left[p] \subseteq DOMAIN req[p].manifest
    /\ pc[p] \in {"entity", "chunks"} \/ inflight[p] # {} => left[p] # {}
    /\ inflight[p] # {} => pc[p] \in {"chunks", "failing"}

\* Only live sessions hold locks.
HeldLocksAreLive == \A e \in EntityType : lockHolder[e] # None => session[lockHolder[e]]

\* The part of the inductive invariant that concerns the importers.
ProcessInv ==
    /\ UnusedRunsAbsent
    /\ \A p \in Importer : ImporterInv(p)
    /\ HeldLocksAreLive

\* Two runs that import the same entity type are never both running: admission marks
\* the older one failed before it inserts the newer one (markAbandonedRuns).
RunningRunsDisjoint ==
    \A r, s \in RunId :
        Running(r) /\ Running(s) /\ r # s => DOMAIN run[r].manifest \cap DOMAIN run[s].manifest = {}

\* An importer whose lock session is alive still owns what it was admitted to: its run
\* is running, it holds every lock, and its entities' catalog states are its own.  No
\* other importer can have abandoned it.
LiveImporterOwnsItsRun ==
    \A p \in Importer :
        pc[p] \in Working /\ session[p] =>
            /\ Running(cur[p])
            /\ \A e \in DOMAIN run[cur[p]].manifest :
                  /\ LockTypes[e] \subseteq Held(p)
                  /\ entityState[e].active = cur[p]

\* The counter of a running run is the sum of its ledger, and an entity is marked
\* complete only when its ledger tiles the dump without gap or overlap.
LedgerMatchesCounters ==
    \A r \in RunId : Running(r) =>
        \A e \in DOMAIN run[r].manifest :
            LET chunks == RunChunks(runChunk, r, e)
                items  == DumpItems[run[r].manifest[e]]
            IN  /\ runDump[r][e].processed = ItemSum(chunks)
                /\ \A c, d \in chunks : c # d => Items(c) \cap Items(d) = {}
                /\ runDump[r][e].total # Null => UNION {Items(c) : c \in chunks} = 0..(items - 1)

\* A resumed run's source keeps no chunk: the ledger was moved, not copied, so no two
\* runs can both resume from it.
LedgerHasOneOwner ==
    \A r \in RunId : run[r].from # NoRun =>
        \A c \in runChunk : c.run # run[r].from

\* The first run of the chain of resumptions that ends in r.
ChainRoot[r \in RunId] == IF run[r].from \in 1..(r - 1) THEN ChainRoot[run[r].from] ELSE r

\* A failed run of another dump or revision of the entity lies between the first and the
\* last run of r's chain of resumptions.
ForeignFailureInChain(r, e) ==
    \E s \in RunId :
        /\ ChainRoot[r] < s /\ s < r
        /\ run[s].status = "failed"
        /\ Selects(run, s, e)
        /\ Version(run, s, e) # Version(run, r, e)

HoldsRun(e, r) ==
    \A i \in 0..(DumpItems[run[r].manifest[e]] - 1) : rows[e][i] = Version(run, r, e)

\* Every entity the catalog reports ready holds exactly the dump of its last successful
\* run: no item was missed, and none was overwritten by another run since.
ReadyRowsMatchManifest ==
    \A e \in EntityType : entityState[e].status = "ready" =>
        HoldsRun(e, entityState[e].last)

\* A successful run of the version that the entity's checkpoint has was resumed over a failed
\* run of another version.  It need not be the checkpoint: a consolidating skip records a run
\* without a chain of its own on top of it.
ImportedOverForeignFailure(e) ==
    \E r \in Successes(run, e) :
        /\ Version(run, r, e) = Version(run, Checkpoint(run, e), e)
        /\ ForeignFailureInChain(r, e)

\* The same, where no failed run of another version interrupted the chain of resumptions
\* of a run that imported what the entity's checkpoint says.
UninterruptedReadyRowsMatch ==
    \A e \in EntityType :
        entityState[e].status = "ready" /\ ~ImportedOverForeignFailure(e) =>
            HoldsRun(e, entityState[e].last)

\* An entity state still held by a run that is over can never make a skip fail: the run
\* is running, or it failed after the entity's checkpoint and forces a new import.
StaleStateForcesImport ==
    \A e \in EntityType :
        LET r == entityState[e].active
        IN  r # NoRun =>
                /\ Selects(run, r, e)
                /\ \/ Running(r)
                   \/ /\ run[r].status = "failed"
                      /\ Checkpoint(run, e) # NoRun => Dirtied(run, e, Checkpoint(run, e))

\* Catalog rows and ledger entries appear only while the run they belong to is running
\* and is the only running run of the entity: a worker that outlived its run's abandonment
\* cannot commit.
CommitsAreFenced ==
    [][\A e \in EntityType :
          rows'[e] # rows[e] =>
              \E r \in RunId :
                  /\ Running(r) /\ run'[r].status = "running" /\ Selects(run, r, e)
                  /\ \A s \in RunId : Running(s) /\ Selects(run, s, e) => s = r
                  /\ \A i \in Item : rows'[e][i] \in {rows[e][i], Version(run, r, e)}]_vars

\* A settled run never changes again, except that its chunks may be moved or pruned.
SettledRunsAreFinal ==
    [][\A r \in RunId : run[r].status \in {"success", "failed"} =>
          run'[r] = run[r] /\ runDump'[r] = runDump[r]]_vars

\* The checkpoint of an entity never moves to an older dump unless the run that moves it
\* was allowed to downgrade, although the date was compared long before the run succeeds.
CheckpointNeverRegresses ==
    [][\A e \in EntityType :
          LET old == Checkpoint(run, e)
              new == Checkpoint(run', e)
          IN  old # NoRun =>
                  /\ new # NoRun
                  /\ \/ DumpDate[run[old].manifest[e]] <= DumpDate[run'[new].manifest[e]]
                     \/ run'[new].downgrade]_vars

\* A failed run that could be resumed keeps its ledger until a run resumes it or the
\* current checkpoints cover every version it was importing.
FailedLedgerPreserved ==
    [][\A c \in runChunk :
          run[c.run].status = "failed" /\ c \notin runChunk' =>
              \/ \E r \in RunId : run'[r].from = c.run /\ run[r].status = "absent"
              \/ \A e \in DOMAIN run[c.run].manifest :
                    LET k == Checkpoint(run', e)
                    IN  k # NoRun /\ Version(run', k, e) = Version(run, c.run, e)]_vars
=============================================================================

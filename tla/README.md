# go-open-discogs-batch: TLA+ models and proofs

The program imports the monthly Discogs XML dumps (artists, labels, masters,
releases) into PostgreSQL. An invocation can be interrupted, killed, lose its
database session or race another invocation, and a later one must resume it or
start again without leaving a mixed catalog behind. These modules model that
machinery, TLC checks them on small instances, and TLAPS proves the central
facts for every value of the constants.

Paths below are relative to the repository; `safety.md` is
`docs/import-safety.md`.

## 1. The system

| Part | State it keeps | Operations | What makes it correct |
|---|---|---|---|
| **Import coordinator** `src/batch/execution.go`, `progress.go` | tables `discogs_import_run`, `_run_dump`, `_run_chunk`, `discogs_catalog_entity_state`; advisory locks of one reserved session | acquire locks, admit (abandon, refuse, skip, consolidate, resume), record a chunk, complete an entity, complete a run, release | one writer per entity; only the running run commits; ledger tiles the dump and has one owner; a skip is justified; checkpoints do not regress |
| **Runner and steps** `runner.go`, `artist.go`, `label.go`, `master.go`, `release.go` | identifier caches, step order | preflight, prepare, preload, run steps in canonical order, complete | steps see the identifiers they refer to |
| **Chunk pipeline** `relations.go`, `order.go`, `src/xmlparser`, `src/helper` | windows, worker pool, WaitGroup, two contexts, result channel | parse, window, dispatch, write, collect, cancel, complete the entity | returns, leaves no worker behind, completes only whole sources |
| **Identifier caches** `src/cache/cache.go`, `insert.go`, `writer.go`, `convergence.go` | bit sets of artist, label and master ids; sets of confirmed genre and style names | register, contain, clear, preload; reconcile a root's relations | no dangling relation, no missing one, no stale one |
| **Master backlinks** `release.go`, `master.go`, `extract.go` | `master.main_release_id`, `release_item.last_modified_at` | seed in a bootstrap, upsert when changed, finalize | every backlink is the derived one when releases are ready |
| **Relation identities and slots** `release_dedupe.go`, `canonical_rows.go`, `convergence.go` | rows keyed by a signed 32-bit slot, with a SHA-256 identity | deduplicate, assign slots, reconcile | unique slots, legacy keys kept, exact import, stable on a reordered source |
| **Dependency preflight** `dependency_preflight.go` | none (queries checkpoints and dumps) | refuse a partial import on missing, stale or reissued types, before and after the locks | what it accepted holds while the run imports |
| **Catalog plan** `src/data` | table `discogs_dump`; the download site's listing and checksum documents | refresh, insert, choose the newest or a pinned month's dumps | every chosen dump has a documented checksum |
| **Schema migration** `ddl.go`, `legacy_migration.go`, `src/database` | `open_discogs_schema_migration`, `databasechangeloglock`, the import locks of one reserved connection | lock, adopt a Liquibase history, validate the ledger, apply, release | one migrator at a time and no import beside it; the ledger is what was executed; restartable; a build meets its own schema |
| **Download** `src/file` | files under their final names | check what is there, delete, download, verify, clean up | an entity is imported from the file its manifest pins |
| Progress, CLI, configuration, test support | terminal, flags | | |

How they interact: `cmd` creates the signal context and calls `batch.Run`. It
migrates the schema under all import locks and releases them, chooses a plan,
runs the preflight, `Prepare` (locks and admission, one transaction), the
preflight again, the steps and `Complete`. A step starts the pipeline; each
worker's `executeChunk` transaction writes the chunk's rows with the help of the
caches and the slot assignment and ends with `recordCompletedChunk`, which fences
on the run row (`for update`, still `running`). The last release step runs the
backlink finalizer.

What is hard, and where it is covered:

* *Interleaving*: invocations of overlapping plans; a chunk whose run was
  abandoned between its writes and its commit; workers, dispatcher, parser and
  collector of a pass; chunks that insert the same genre, or allocate the same
  segment of an identifier set; invocations that share file names.
* *Failure*: a crash between any two statements, loss of the lock session while
  the process works on, a failing transaction, a read error, an interrupt, a
  finalizer that outlives its run.
* *Sequences*: failed, forced, downgrading, resumed and consolidating runs;
  partial imports; sources of different months, and files reissued under one
  name; builds of different contract revisions.
* *Boundaries*: the short last chunk, an interrupted window, the pool's last
  slot, colliding hashes, exhausted slots.

`PROJECT.json` lists the hazards one by one, with their lines and the properties
that guard them.

## 2. Modules

```
CatalogLease            what the coordinator promises
   ^ implemented by (ImportLease: the mapping; ImportLedgerProofs: the proof)
ImportLedger            locks, runs, ledger, chunk commits    ImportLedgerProofs, ImportHistoryProofs
SchemaMigration         RunDDL before an import              SchemaMigrationProofs
ImportPreparation       an invocation, plan to clean-up       ImportPreparationProofs
   DependencyPreflight  when a partial import is admitted
      DumpCatalog       site, listing, discogs_dump, choice of the dumps
   DumpFiles            files in the data directory (an instance)
ChunkPipeline           goroutines of one pass               ChunkPipelineProofs
ReferenceCache          caches, relations, invocations       ReferenceCacheProofs
ReleaseBacklinks        master.main_release_id               ReleaseBacklinksProofs
CompatibilitySlots      slots of a root's relation rows      CompatibilitySlotsProofs
MC*                     small instances for TLC
```

The modules share a boundary instead of composing into one state space, which
TLC could not explore. `ImportLedger` opens, commits and aborts chunks one by
one; `ChunkPipeline` is the same loop with its goroutines and one run.
`ImportPreparation` composes catalog, preflight, files and a coordinator reduced
to what `ImportLedger` shows of it. `ReferenceCache` and `ReleaseBacklinks` assume
what `ImportLedger` shows, that one importer at a time writes an entity. `CompatibilitySlots` is what happens to
one root inside a chunk transaction.

### ImportLedger

| Model | Code |
|---|---|
| `run`, `runDump`, `runChunk`, `entityState` | the tables of the same names; `run[r].manifest` is the set of `run_dump` rows, `at` is `completed_at` |
| `rows` | catalog rows of an entity: the dump and contract revision that last wrote each item |
| `lockHolder`, `session` | advisory locks and the reserved connection (`acquireEntityLocks`) |
| `TryLock` | one `pg_try_advisory_lock`, canonical order, all or nothing |
| `RejectAdmission`, `SkipExact`, `SkipConsolidated`, `Admit` | the outcomes of `Prepare`'s transaction; `Marked` is `markAbandonedRuns` in it |
| `StartEntity`, `SkipEntity`, `SkipChunk` | `completedEntityResult`, `loadCompletedChunkInventory`, the check of a recorded range |
| `WriteChunk`, `CommitChunk`, `AbortChunk` | `executeChunk`: the writes, then `recordCompletedChunk` and the commit, or the rollback |
| `CompleteEntity` | `completeEntityProgress` |
| `CompleteSuccess`, `CompleteFailure`, `CompleteError` | `Complete`, including the pruning of superseded ledgers |
| `LoseSession`, `Crash` | the environment |

A statement or transaction is one step because PostgreSQL makes it one and the
row locks serialise what conflicts. A chunk transaction is two, since a run can
be abandoned in the middle. `completed_at` is a counter: two runs completed in
one transaction share it, as `now()` does.

`CatalogLease` is the abstract specification: a run leases its entity types at
once, for one edition of each; leases of a run end together; numbers of runs
grow; only the holder writes, in its edition. `ImportLease` gives the refinement
mapping: the lease of an entity type is the running run that selects it.

### ImportPreparation

`Runner.Run` between the schema and the reports, by several invocations.

| Model | Code |
|---|---|
| `served`, `document`; `Publish`, `Reissue`, `Document` | external: the download site, its files and checksum documents |
| `catalog` | `discogs_dump`, in the order of its ids |
| `Invoke`, `ReadSite`, `InsertCatalog`, `RefreshFails`, `Resolve` | `resolveCatalogPlan`: `UpdateSelectedData`, `BatchInsert`, `ResolveImportPlan` |
| `Preflight`, `Recheck` | `preflightImportDependencies`, before and after `Prepare` |
| `Refuse`, `Skip`, `Admit` | `Prepare`, with `Marked` for the runs it abandons and `Consolidate` for a skip under another contract revision |
| `disk`; `FileReady`, `StartDownload`, `EndDownload` | `FetchImportResources`, `FetchAndCheckContext`, `execGrabReq` |
| `OpenFile`, `ImportEntity` | an entity step: the file is opened by its name; chunks and `completeEntityProgress` |
| `CompleteSuccess`, `CompleteFailure`, `CompleteError`, `Cleanup` | `finalizeImport`, `cleanupImportFiles` |
| `LoseSession`, `FailImport`, `Leave`, `Crash` | the environment |

`checkpoint` and `dirty` are `discogs_catalog_entity_state`, `completed` is the
newest completed `run_dump` of an entity and a revision, `imported` what an
entity's chunks were read from. The coordinator is reduced: locks are taken at
once, an entity's chunks are one step fenced on the run, a run does not resume
another (`ImportLedger` has all of that), and no invocation allows a downgrade. A
file name carries entity and date but not the issue; a download writes under it
directly, and the downloader that created a file goes on writing it after the
name points elsewhere. `unheld` is a history variable used by one property.

### ChunkPipeline

One pass of `processRelationChunksWithFinalizer`: the parser goroutine, the
windowing operator (all channels unbuffered, so one window ahead at most), the
`ForEach` dispatcher with the pool's submission, the worker goroutines, the
completion callback that waits for the WaitGroup and closes the results, the
collector. The pass's context is cancelled by a failed chunk and by the step's
return, the invocation's by an interrupt.

### ReferenceCache

Invocations one after another, each with its caches: `Preload` for types that are
not selected, registration by the root pass (artist, label) or by a chunk before
its transaction (master), the two passes, open chunk transactions that commit or
abort in any order, reconciliation of a root's relations, failure, resumption
with the ledger. Master workers add to one set at the same time: `IDSet.Add` is
`Load`, `LoadOrStore` of a segment when there is none, and an atomic `Or`, with
other workers in between (`AddIdentifier`). The root pass registers in one
goroutine, so there it is one step. `forgotten` is a history variable used by one property.

### ReleaseBacklinks

`link[m]` is `main_release_id`. Master chunks seed it in a bootstrap only;
release chunks upsert `item[r]` when a business column changed; the finalizer
derives all links. `straggler` is an invocation whose run was abandoned and whose
finalizer, which takes no fence, may still run. `observed` is a history variable.

### CompatibilitySlots

`Deduplicate` reads rows in source order, `StartGroup` gives the hash of a group
to its least identity, `TryCandidate` asks the generator for the others,
`Persist` is the delete and the insert of the reconciliation. The hash and the
generator are picked once per behaviour and are otherwise arbitrary, so nothing
depends on their arithmetic. Slots are counted from the least one.

### SchemaMigration

| Model | Code |
|---|---|
| `ledger`, `catalog`, `history` | rows of `open_discogs_schema_migration`; the migrations whose statements were executed; rows of `databasechangelog`, each executed, marked or untrusted |
| `changeLock` | the row of `databasechangeloglock` and its `lockedby`: all Go migrators use one name |
| `lockHolder`, `session` | advisory locks and the reserved connection they end with; migrator and import take the same family |
| `TryLock` .. `ReturnError` | `runDDL` with its deferred releases; each statement or transaction is a step, and may fail |
| `Admit`, `EndImport` | what `Run` does after it, reduced to the locks of the import |
| `Legacy*`, `ClearStaleLock` | external: a Liquibase importer, and the operator the error message asks to verify and clear a stale lock |

A migration is a version with a checksum; a build is a sequence of them. A
migrator's statements run on the connection that holds its locks, so a lost
session stops it at its next statement. The row is data: it survives. The
fingerprint of `verifyLegacySchemaContract` is modelled as equality of the
executed migrations with the prefix.

## 3. What is checked

| Run | Instance | Shows |
|---|---|---|
| `ledger_artist` | 2 importers, 1 entity type of two dumps (2 and 3 items), chunk sizes 1 and 2, a forced downgrade, 2 workers, 3 runs (1.57 M states) | ledger and counters agree and tile the dump, a resumed ledger moves, chunk commits are fenced, settled runs are final, a ready entity holds its dump |
| `ledger_pair` | 2 importers, artist and master (master also locks artist), overlapping plans, two contract revisions, 3 runs (1.14 M) | running runs are disjoint, a live importer owns its run and states, stale states force an import, rows of an old contract never pass as the new one, checkpoints do not regress, failed ledgers are kept, `CatalogLease` is implemented |
| `preparation` | 2 importers, 2 invocations out of four kinds (latest and pinned, forced, with clean-up, two revisions), artist and master of two months, a new or a bootstrapped installation, one reissue, 2 faults (1.51 M) | entities are imported from the pinned file, accepted dependencies hold, clean-up follows success |
| `pipeline` | 7 elements in windows of 2, 2 workers (64 k) | the pass returns, waits for its workers, keeps whole chunks only, completes only whole sources |
| `cache` | a two-pass type, masters, releases, two months, full and partial selections, 4 invocations, two segments (56 k) | no dangling relation, confirmed names exist, relations are exact except towards types whose roots a resumption skipped |
| `backlinks` | 2 masters, 2 releases, 3 months, 4 invocations (0.63 M) | ready backlinks are the derived ones; none dangles after the bootstrap |
| `slots` | 3 identities, 3 slots, all 27 hashes, all generators of two attempts, every order of every source, 2 imports (5.3 M) | unique slots, unshared hashes stay, exact import, no change on a reordered source |
| `schema` | 2 invocations, 3 builds (old, new, one with an altered migration), 3 migrations, every Liquibase history of them, a Liquibase importer, 2 entity types (2.3 M) | a migrator is alone, the ledger is what was executed, success means the build's schema, an import finds all its migrations |

Why the bounds suffice: three runs are what a resumption needs with a foreign run
in between (failed, other, resumed); two importers are a live one and a zombie,
or two racing ones; two chunk sizes over 2 and 3 items give a full and a short
last chunk and incompatible ledgers; in `ledger_pair` an import
of both types by the newer build satisfies its single plan, which is then
consolidated, and not that of the older build. Two invocations
of `preparation` are an importer and what races, precedes or overtakes it: the
bootstrapped installation gives it a past; two dates and one reissue give an
older, an equal and a withdrawn dump of a dependency; two faults are a lost
session and a failing process. Two
invocations and a Liquibase importer are a migrator and what it must exclude; of
the three builds any two disagree in length or in a checksum. Four chunks and two workers fill the pool
while one window waits and another is open. Three identities and three slots
give pairs and triples that collide, a generated slot that meets a later hash,
and exhaustion. `MaxRuns`, `MaxItems`, `MaxImports`, `MaxClock`, `MaxInvocations`, `MaxFaults` and `Attempts` are
guards named in the modules; a behaviour that reaches one stops, which is why
those runs do not check deadlock. `pipeline` and `schema` have no such bound and do
check it (`Terminated` is the only stuttering end of a pass; a process that is
idle can always start).

Fairness is assumed in `ChunkPipeline` only: the Go scheduler runs every
goroutine that can go on, and database statements return, so source, dispatcher,
each chunk's worker and the collector make progress. An interrupt is never
required to come. The other modules state safety only: whether an operator
starts another invocation is up to him.

Every property has a mutant of a modelled definition (the operators marked
*Mutation*) under which TLC finds it violated.

### Disagreements found

Each is a run that expects a violation, with the quoted lines in `PROJECT.json`.

1. `ledger_dirty_resume`: a failed import is resumed although another failed
   import overwrote its recorded chunks; the entity ends ready with mixed rows.
   A skip would have been refused in that situation. `UninterruptedReadyRowsMatch`
   shows that this is the only way, and `ReadyRowsHold` proves it: where no chain of
   resumptions that imported the checkpoint's version spans a foreign failure, the rows
   are right. The chain need not be the checkpoint's own: a consolidating skip can
   record a run without a chain on top of the mixed rows, which takes six runs and was
   found by attempting the proof.
2. `pipeline_malformed`: a read or decode error is dropped between the parser and
   the error callback; a truncated source completes the entity.
3. `cache_resume`: a resumed run skips roots without registering their
   identifiers, and drops the references to them.
   `RelationsExactUnlessForgotten` shows that nothing else is lost.
4. `backlinks_observed`: "newest observed" is in fact "newest changed".

Noted, without a run: an old build checks the ledger, releases its locks, and
imports although a newer build migrated before it took them again, where
`README.md:22-23` says that it rejects a newer ledger
(`ImportersFindTheirMigrations` shows that the ledger can only be ahead of it, not
behind); an import whose reserved session died works on while a
migration takes the locks it lost (`MigratorIsAlone` speaks of live sessions
only, and the migration does not abandon runs); abandonment looks at selected and not at locked entity
types, so a zombie artist run can still commit while releases are imported; the
finalizer takes no fence; the pruning of superseded ledgers is not limited to the
run's own entity types; a skip can point `last_successful_run_id` to an older
exact run; the root pass of `insert.go` can leave its parser goroutine behind
after a decode error; the preflight ignores failed runs newer than the checkpoint
it accepts.

From the preparation of an import: the refresh adds rows of *selected* entities
only, so an import of masters alone compares the artists' checkpoint with the
newest artist dump some earlier invocation saw and not with the newest one
published (`safety.md:83-85` speaks of stale checkpoints without that limit);
the newest dump of a date is the last one *inserted*, so an invocation that read
an old checksum document can make a withdrawn issue the chosen one until the next
date, and a pinned month keeps the rows it has; clean-up runs after the locks are
released and can take a file that another invocation verified, whose run then
fails to open it; a run that lost its session can complete an artist import while a
master import relies on the older one (`Orphaned` in `DependenciesHeld`; the run may
have been marked failed since, by an import of another of its entities, which takes
three entity types and was found by the proof and not by the run), and can
replace a file that another importer verified (`unheld` in
`CompletedFromPinnedFile`; a truncated file then completes by disagreement 2).
Both exceptions are reached in the run.

## 4. What is proved

For any number of importers, entity types, dumps, runs, workers and items, from
`ConstantsAssumption` (types of the constants, a total canonical order, an entity
needs its own lock):

| Theorem | Statement |
|---|---|
| `TypeCorrect` | `Spec => []TypeOK` |
| `ProcessCorrect` | `Spec => []ProcessInv` |
| `DisjointRuns` | `Spec => []RunningRunsDisjoint` |
| `OwnerSafe` | `Spec => []LiveImporterOwnsItsRun` |
| `FencedCommits` | `Spec => CommitsAreFenced` |
| `SettledFinal` | `Spec => SettledRunsAreFinal` |
| `FailedLedgerSafe` | `Spec => FailedLedgerPreserved` |
| `OneOwner` | `Spec => []LedgerHasOneOwner` |
| `LedgerImplementsLease` | `Spec => Lease!Spec` |
| `StaleStatesAreTakenOver` | `Spec => []StaleStateForcesImport` |
| `CheckpointsNeverRegress` | `Spec => CheckpointNeverRegresses` |
| `LedgersMatch` | `Spec => []LedgerMatchesCounters` |
| `ReadyRowsHold` | `Spec => []UninterruptedReadyRowsMatch` |

The argument. `TypeOK` alone is not inductive: an importer's next write is typed
only because its run, its entity and its open chunks come from one plan, which is
`ProcessInv`. `TypeOK /\ ProcessInv` is inductive; the step has one case per
action, and `StepKeepsOthers` and `OthersStep` separate the acting importer from
the others. `RunningRunsDisjoint` follows because an admission abandons every
running run that selects one of its entity types before it inserts its own;
locks are not needed for it, which is why it survives lost sessions.
`LiveImporterOwnsItsRun` does need them: an admission runs under all its locks,
so what it abandons or marks belongs to no importer whose session lives. A commit
requires its run to be running, and by disjointness that run is the only one of
the entity: `CommitsAreFenced`. What an importer writes into a run's row or
progress it writes into its own run while that is running, or under an id no run
has yet (`SettledStep`), so settled runs are final. The run another one resumed
was therefore failed when its chunks were moved and stays failed
(`SourcesFailed`), and a chunk is only ever committed to a running run: no chunk
comes back to it. For the refinement, an abandonment and the end of a run are
revocations (by disjointness an entity's holder is unique, so the runs that stop
are exactly the holders concerned), an admission is a grant, a commit a write of
the holder, and all else stutters.

The last four (`ImportHistoryProofs`) are about what one run leaves to the next.
Completion times grow with the clock (`ClockInv`), and a failed run that is still
an entity's active one failed after every success of the entity (`StaleInv`), since a
later admission would have taken the state over; so `Dirtied` holds of any
checkpoint, and no skip passes. A checkpoint moves in two ways: a consolidating skip
repeats the dates of the checkpoints, and a completion comes long after its admission
compared the dates. The comparison is not stale by then (`DateInv`): any other run that
completes the entity in between would have had to abandon this one first.

For the ledger, that the sums agree is not inductive either: a resumption takes counter
and chunks over, and does so only when they agree (`ResumedSource`), so the sum has to
be right for running runs only; but the totals come along unchecked, so failed runs too
must have tiled what they call complete, unless their ledger was pruned (`CoverInv`).
`KeyInv` (one chunk of an index) and `WindowInv` (a chunk is the window of its index, in
its run's chunk size) keep chunks apart, and enough of them cover the dump
(`ChunksTile`). That a sum over a finite set moves by what is added, removed or renamed
(`SumAdd`, `SumMoves`) would be an induction over sets; here it is a least
counterexample on the cardinality.

`ReadyRowsHold` is the central one: the rows are the dump. Runs of one entity do not
overlap, so ids and completion times agree (`OrderInv`). An item of a recorded chunk, or of
a checkpoint's dump, is what its run wrote, or has one of three excuses (`RowsInv`): a
later run of another version (`Overrun`), a foreign failure within the run's chain of
resumptions (`Interrupted`), or a success of the same version with such a chain
(`Tainted`). A commit writes the version of the entity's last run, which excuses all
others. A resumption turns overruns into interruptions, unless the later run succeeded;
then `Overwritten` allows the resumption only when a checkpoint of the source's version
came after it, whose rows are right (`ResumedItem`). A success has a chunk for every
item (`LedgersMatch`). While an entity is ready nobody has selected it since its
checkpoint, nor overrun it (`ReadyInv`), and the property's hypothesis says that there is no
taint.

For any hash function, generator, number of identities and source
(`CompatibilitySlotsProofs`):

| Theorem | Statement |
|---|---|
| `SlotsTypeCorrect` | `Spec => []SlotsTypeOK` |
| `SlotsUnique` | `Spec => []SlotsAreUnique` |
| `UnsharedHashStays` | `Spec => UnsharedHashIsSlot` |
| `ImportIsExact` | `Spec => ImportedExactly` |
| `ReimportIsStable` | `Spec => ReimportChangesNothing` |

`SlotsAreUnique` needs that the hash of a later group is nobody's slot yet (all
hashes are reserved before the first slot is generated), and that an identity
with a slot is in no queue; `SlotsInv` is the conjunction. `PersistReplaces`
shows that the reconciliation leaves exactly what was assigned, which carries the
others to the table. `ImportedExactly` takes in addition that an import in the end has
given every identity a slot (`CompleteInv`). `ReimportChangesNothing` takes that the assignment
does not depend on the order of the source: the groups are served in the order of their
hashes, their members in the order of their identities, and each identity gets the first
candidate that no reserved hash and no earlier identity has (`ChosenInv`), which
determines all slots from the set of identities alone; two assignments of one set
therefore agree, by the least identity on which they would differ.

For any invocations, builds, entity types and histories
(`SchemaMigrationProofs`):

| Theorem | Statement |
|---|---|
| `SchemaTypeCorrect` | `Spec => []SchemaTypeOK` |
| `MigratorAlone` | `Spec => []MigratorIsAlone` |
| `LedgerIsCatalog` | `Spec => []LedgerMatchesCatalog` |
| `SuccessIsArtifact` | `Spec => []SuccessMeansArtifact` |
| `ImportersFind` | `Spec => []ImportersFindTheirMigrations` |

`MigratorIsAlone` follows from two facts that must be carried along: between its
last lock and the release of the row a migrator whose session lives holds every
import lock (`LocksKept`), so nobody else can be in that stretch, and the row is
"go" while somebody is (`RowOwned`), so Liquibase cannot be either. The order of
the deferred releases, row before locks, is what makes `RowOwned` inductive:
`ReleaseRow` frees the row of the only invocation that can hold it. The assumptions
are that an entity needs its own lock, that a release needs all of them, and that
the migrations of a build are in version order.

The other three rest on `LedgerWorks`. `CatalogInv` says what the schema contains: each
version once, every row of the ledger, every change set recorded as executed, and before
the first row nothing but what some trusted or untrusted change set left; so a history
that adoption trusts without a contract has run as a whole. `LedgerInv` says that the
ledger is the beginning of one line of migrations, of the legacy importers or of a build:
the next change set of a Liquibase importer is then either in a ledger that is long
enough for it, or makes the history the longer one. `StageInv` is what a migrator knows: from validation to
release nobody else writes (`NobodyElseWrites`, from `LocksKept` and `RowOwned`), the
ledger is the schema, and the loop never looks beyond the row behind the last; after
release the rows only grow. They assume further that releases append
(`ReleasesAssumption`): position and version go together in every build and in the
legacy history, though checksums may differ. That is a contract of the module that
holds the migrations, outside the repository.

For any entity types, dumps, chunks, segments and invocations
(`ReferenceCacheProofs`):

| Theorem | Statement |
|---|---|
| `CacheTypeCorrect` | `Spec => []CacheTypeOK` |
| `NothingDangles` | `Spec => []NoDanglingReference` |
| `NamesExist` | `Spec => []ConfirmedNamesExist` |
| `OnlyForgottenIsLost` | `Spec => []RelationsExactUnlessForgotten` |

The first two rest on `BackedInv`: an identifier of the cache that has no row is one
of the step at work, and an open chunk writes its row; since a type written in one
pass never refers to itself, whoever built rows from the cache found only written
ones. The last needs that everything a relation may refer to is in the cache by
the time it is read, unless it was forgotten (`KnownInv`): a worker adds all its
identifiers before it builds its rows, whichever segment it races for, and the steps
run in the order of `Requires` (`ReferencesReady`). What a worker built is then exact
and stays so until it commits (`ReadyInv`), and so are the rows of recorded chunks,
across resumptions (`LedgerInv`): the catalog rows a plan relies on and does not
select do not change while it runs. `ConstantsAssumption` says what this takes: the
steps' order follows `Requires`, references go where `Requires` says, and one-pass
types do not refer to themselves.

For any file, chunk size, pool and inherited ledger (`ChunkPipelineProofs`):

| Theorem | Statement |
|---|---|
| `PipelineTypeCorrect` | `Spec => []PipelineTypeOK` |
| `WorkersAwaited` | `Spec => []StepWaitsForWorkers` |
| `WholeChunksOnly` | `Spec => []OnlyWholeChunksCommitted` |
| `CompletedCovers` | `Spec => []CompletedCoversSource` |

The WaitGroup is the number of workers plus the chunk that is being submitted, and no
two workers have one chunk (`PoolInv`). All dispatched chunks but the last of an
ended stream are full, and a stream that ended with nothing broken was read to its
end (`ReadInv`): a slice is a chunk of the file unless the context is done, and then
`submitWorker` refuses it (`ChunkInv`). While nothing is broken every dispatched
chunk is in the ledger, in submission or being written (`LedgerInv`), and a cancelled
pass has an error that the collector sees (`CauseInv`), so a completion finds nothing
broken. The proof needs no more of `Completable` than that the invocation was not
interrupted: the sums of `completeEntityProgress` are a second line of defence.

For any masters, releases, dumps and invocations (`ReleaseBacklinksProofs`):

| Theorem | Statement |
|---|---|
| `BacklinkTypeCorrect` | `Spec => []BacklinkTypeOK` |
| `BacklinksDerived` | `Spec => []ReadyBacklinksDerived` |
| `BacklinksNeverDangle` | `Spec => []BacklinksNeverDangleAfterBootstrap` |

The finalizer derives the links from the rows whatever they were (`ReconcileKeeps`),
so a straggler's does no harm; rows change only while the state of the releases is
"importing" (`PlanInv`); and a new master can have no main release, because releases
refer to masters with a row only (`RowInv`). That the designated release exists, and
so is a row, takes a maximum over finitely many rows (`LastExists`), by the least
counterexample. The assumptions are that releases are finitely many and that
`Absent` is neither a number nor a row.

For any entity types, dates, issues, requests, invocations and faults
(`ImportPreparationProofs`):

| Theorem | Statement |
|---|---|
| `PreparationTypeCorrect` | `Spec => []PreparationTypeOK` |
| `PinnedFileSafe` | `Spec => []CompletedFromPinnedFile` |
| `DependenciesSafe` | `Spec => []DependenciesHeld` |
| `CleanupSafe` | `Spec => CleanupFollowsSuccess` |

Types need that run ids never run out: the last id plus the invocations that can
still record a run is at most their number so far plus one (`RunsInv`, a cardinality
that one importer's step moves by one). `StageInv` ties what an importer remembers to
its stage: past its admission its run carries its plan. Ownership (`Owners`) is the
coordinator's argument again, on the reduced tables: running runs are disjoint, and an
importer whose session lives holds its locks and has a running run of its own. For the
pinned files, what an importer has checked is whole or gone as long as its run is
running, unless it went to `unheld` (`CheckedInv`): a download under another live session would
be of another running run with the same entity, a transfer changes a name only while
it still points to its own partial file, and clean-up only removes. A file that is gone
cannot be opened, one that is open is no longer affected (`ReadInv`), and a
consolidating skip repeats what its checkpoints recorded. For the dependencies, whoever completes one while
the importer holds its lock cannot hold that lock, so has lost its session; no
transition makes such a run succeed (`OrphanedStep`), and it is never resumed here. Clean-up is reached after the run or
the skip that makes `Repeated` true, and settled runs stay (`CleaningInv`). The assumptions are that dates, issues and
revisions are numbers and there are some, that importers are finitely many, that a
request selects something, and that an entity needs its own lock.

Only model-checked: liveness (`StepReturns`). Every other property of a passing run is a
theorem above; those of the runs that expect a violation are false, as section 3 says.

## 5. Not modelled

* Formatting and parsing: XML decoding, dates, the digest's encoding, the hash's
  arithmetic, SQL text, terminal output, flags. No property here depends on them.
* `UpdateData`, `FetchFiles`, `FetchImportPlan`, `PopulateFromUri` and the readers
  and writers of whole files in `src/file`: the program does not call them.
* The byte reporter of `internal/progress`: one mutex around every operation, and
  nothing reads what it prints.
* The pool of the root pass; its effects on caches and rows are in
  `ReferenceCache`.
* Statement timeouts and reconnects inside the driver: an error is an error of
  the statement's transaction.
* The statements of the migrations, which live in another module, and their search
  path: `catalog` only says which of them were executed. Creating the schema and
  checking the server's version are idempotent statements before `RunDDL`.

## 6. Plan

Done: ImportLedger, CatalogLease, CompatibilitySlots, SchemaMigration,
ReferenceCache, ChunkPipeline, ReleaseBacklinks, and ImportPreparation (with DumpCatalog,
DependencyPreflight and DumpFiles), all with their proofs.

Next: the preparation and the schema check share an invocation's start, from
`RunDDL` to `Prepare`, and could be one composition.

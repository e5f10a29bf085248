-------------------------- MODULE SchemaMigration --------------------------
(***************************************************************************)
(* RunDDL at the start of every invocation.  A migrator takes the import   *)
(* locks of all entity types and the row that Liquibase uses as its lock,  *)
(* adopts the history a Liquibase importer left, checks that the ledger is *)
(* a prefix of its own migrations and applies the rest, each in one        *)
(* transaction with its ledger row.  The locks are released before the     *)
(* invocation goes on to import, with the locks of its selection.          *)
(*                                                                         *)
(* Import locks end with their session; the Liquibase row is data and      *)
(* outlives it, until an operator clears it.                               *)
(***************************************************************************)
EXTENDS Naturals, Sequences, FiniteSets, SequencesExt

CONSTANTS
    None,
    Process,     \* invocations
    EntityType,
    Release,     \* the entity type that requires the locks of all
    LockTypes,   \* entity types an import of an entity type locks
    Rank,        \* canonical order of the lock types
    Migration,   \* [version, checksum]
    Build,       \* builds of the importer
    Artifact,    \* the migrations embedded in each, in version order
    Legacy,      \* canonical form of the change sets of the Liquibase importers
    Supported    \* lengths of a Liquibase history that have a schema contract

\* What an invocation is: a build, and the entity type it is to import.
Job == [build : Build, entity : EntityType]

ASSUME ConstantsAssumption ==
    /\ None \notin Process \cup Job
    /\ Release \in EntityType
    /\ LockTypes \in [EntityType -> SUBSET EntityType]
    /\ \A e \in EntityType : e \in LockTypes[e]
    /\ LockTypes[Release] = EntityType
    /\ Rank \in [EntityType -> Nat]
    /\ \A e, f \in EntityType : Rank[e] = Rank[f] => e = f
    /\ Migration \subseteq [version : Nat, checksum : Nat]
    /\ Artifact \in [Build -> Seq(Migration)]
    /\ \A b \in Build : \A i, j \in DOMAIN Artifact[b] :
           i < j => Artifact[b][i].version < Artifact[b][j].version
    /\ Legacy \in Seq(Migration)
    /\ Supported \subseteq DOMAIN Legacy

\* The schema's releases append migrations and keep the versions of those before.
ASSUME ReleasesAssumption ==
    /\ \A i, j \in DOMAIN Legacy : i < j => Legacy[i].version < Legacy[j].version
    /\ \A b \in Build : \A i \in DOMAIN Artifact[b] \cap DOMAIN Legacy :
           Artifact[b][i].version = Legacy[i].version

VARIABLES
    \* the database
    ledger,      \* rows of open_discogs_schema_migration
    catalog,     \* migrations whose statements were executed, in order
    history,     \* rows of databasechangelog: how each change set was executed
    changeLock,  \* owner of databasechangeloglock: "free", "go" or "java"
    lockHolder,  \* advisory import locks
    \* invocations
    pc,
    job,
    session,     \* its reserved connection is alive
    next,        \* position of the next migration
    failed,      \* runErr # nil
    \* the Liquibase importer
    legacyLive

database == <<ledger, catalog, history>>
vars == <<database, changeLock, lockHolder, pc, job, session, next, failed, legacyLive>>

Rows(s)     == {s[i] : i \in DOMAIN s}
Prefix(s, n) == SubSeq(s, 1, n)
Versions(S) == {m.version : m \in S}

\* A change set was executed, marked as executed because its objects seemed to exist, or
\* cannot be trusted (identity, checksum or execution type).
HistoryKind == {"executed", "marked", "untrusted"}

\* Phases of RunDDL that run while the Liquibase row is held, and all that reserve a
\* connection.
Migrating == {"bootstrapping", "adopting", "validating", "applying"}
Reserved  == Migrating \cup {"locking", "reserving", "releasing", "unlocking", "admitting", "importing"}
Phase     == Reserved \cup {"idle", "migrated"}

-----------------------------------------------------------------------------
\* What the change sets of a history left in the schema: some of those marked never ran,
\* the untrusted ones did something else.
LegacyCatalog(kinds, missing) ==
    LET ran == DOMAIN kinds \ missing
        InOrder(o) == /\ {o[k] : k \in DOMAIN o} = ran
                      /\ \A j, k \in DOMAIN o : j < k => o[j] < o[k]
        Left(i) == IF kinds[i] = "untrusted"
                   THEN [version |-> Legacy[i].version, checksum |-> 0]
                   ELSE Legacy[i]
    IN  {[k \in DOMAIN o |-> Left(o[k])] : o \in {f \in [1..Cardinality(ran) -> ran] : InOrder(f)}}

\* A database is empty or was filled by a Liquibase importer.
Init ==
    /\ ledger = {}
    /\ \E n \in 0..Len(Legacy) :
           \E kinds \in [1..n -> HistoryKind] :
               \E missing \in SUBSET {i \in 1..n : kinds[i] = "marked"} :
                   /\ history = kinds
                   /\ catalog \in LegacyCatalog(kinds, missing)
    /\ changeLock = "free"
    /\ lockHolder = [e \in EntityType |-> None]
    /\ pc = [p \in Process |-> "idle"]
    /\ job = [p \in Process |-> None]
    /\ session = [p \in Process |-> FALSE]
    /\ next = [p \in Process |-> 1]
    /\ failed = [p \in Process |-> FALSE]
    /\ legacyLive = FALSE

-----------------------------------------------------------------------------
(* Locks. *)

\* Mutation: the end of a session leaves its locks behind.
LocksWithoutNone(p) == lockHolder

LocksWithout(p) == [e \in EntityType |-> IF lockHolder[e] = p THEN None ELSE lockHolder[e]]
Held(p) == {e \in EntityType : lockHolder[e] = p}
Lowest(S) == CHOOSE e \in S : \A f \in S : Rank[e] <= Rank[f]

\* RunDDL locks what an import of releases does; an import what its entity requires.
Wanted(p) == IF pc[p] = "locking" THEN LockTypes[Release] ELSE LockTypes[job[p].entity]

\* The next phase of an invocation.
Goto(p, phase) == pc' = [pc EXCEPT ![p] = phase]

\* An error of a statement, or of a check, of RunDDL.
Abort(p, phase) ==
    /\ Goto(p, phase)
    /\ failed' = [failed EXCEPT ![p] = TRUE]

\* runDDL with a newly reserved connection.  (A process that ended stands for the next
\* invocation, of any build.)
Start(p, b, e) ==
    /\ pc[p] = "idle"
    /\ Goto(p, "locking")
    /\ job' = [job EXCEPT ![p] = [build |-> b, entity |-> e]]
    /\ session' = [session EXCEPT ![p] = TRUE]
    /\ UNCHANGED <<database, changeLock, lockHolder, next, failed, legacyLive>>

\* One pg_try_advisory_lock of acquireMigrationImportLocks, or of acquireEntityLocks of the
\* import that follows.
TryLock(p) ==
    /\ pc[p] \in {"locking", "admitting"}
    /\ session[p]
    /\ LET e == Lowest(Wanted(p) \ Held(p))
       IN  /\ lockHolder[e] = None
           /\ lockHolder' = [lockHolder EXCEPT ![e] = p]
           /\ IF Wanted(p) = Held(p) \cup {e}
              THEN Goto(p, IF pc[p] = "locking" THEN "reserving" ELSE "importing")
              ELSE UNCHANGED pc
    /\ UNCHANGED <<database, changeLock, job, session, next, failed, legacyLive>>

LockRefused(p) ==
    /\ pc[p] \in {"locking", "admitting"}
    /\ session[p]
    /\ lockHolder[Lowest(Wanted(p) \ Held(p))] # None
    /\ Abort(p, "unlocking")
    /\ UNCHANGED <<database, changeLock, lockHolder, job, session, next, legacyLive>>

\* Mutation: the row of another migrator is overwritten.
RowIsFreeAlways == TRUE

RowIsFree == changeLock = "free"

\* acquireLiquibaseMigrationLock.
Reserve(p) ==
    /\ pc[p] = "reserving"
    /\ session[p]
    /\ IF RowIsFree
       THEN changeLock' = "go" /\ Goto(p, "bootstrapping") /\ UNCHANGED failed
       ELSE Abort(p, "unlocking") /\ UNCHANGED changeLock
    /\ UNCHANGED <<database, lockHolder, job, session, next, legacyLive>>

\* ensureMigrationLedger: the table exists from now on.
Bootstrap(p) ==
    /\ pc[p] = "bootstrapping"
    /\ session[p]
    /\ Goto(p, "adopting")
    /\ UNCHANGED <<database, changeLock, lockHolder, job, session, next, failed, legacyLive>>
\* Mutation: a history is trusted without looking at the schema.
SchemaProvenUnseen(n) == TRUE

\* verifyLegacySchemaContract: the fingerprint of the schema is that of the prefix.
SchemaProven(n) == Rows(catalog) = Rows(Prefix(Legacy, n))

\* validateLegacyLiquibaseRows, for a build with artifact A.
Trusted(A) ==
    LET n == Len(history)
    IN  /\ n \in Supported
        /\ n <= Len(A)
        /\ \A i \in 1..n : Legacy[i] = A[i] /\ history[i] # "untrusted"
        /\ (\E i \in 1..n : history[i] = "marked") => SchemaProven(n)

\* adoptLegacyLiquibaseHistory: one transaction.
Adopt(p) ==
    LET n == Len(history)
        A == Artifact[job[p].build]
    IN  /\ pc[p] = "adopting"
        /\ session[p]
        /\ \/ /\ n = 0 \/ (ledger # {} /\ n <= Cardinality(ledger))
              /\ Goto(p, "validating")
              /\ UNCHANGED <<ledger, failed>>
           \/ /\ n > 0 /\ ledger = {} /\ Trusted(A)
              /\ ledger' = Rows(Prefix(Legacy, n))
              /\ Goto(p, "validating")
              /\ UNCHANGED failed
           \/ /\ n > 0
              /\ IF ledger = {} THEN ~Trusted(A) ELSE n > Cardinality(ledger)
              /\ Abort(p, "releasing")
              /\ UNCHANGED ledger
        /\ UNCHANGED <<catalog, history, changeLock, lockHolder, job, session, next, legacyLive>>

\* Mutation: only the migrations of the artifact are looked up, those beyond it are not.
CanonicalAnyLength(A) == Rows(A) \subseteq ledger \/ \E n \in 0..Len(A) : ledger = Rows(Prefix(A, n))

\* The ledger, in version order, is a prefix of the artifact.
Canonical(A) == \E n \in 0..Len(A) : ledger = Rows(Prefix(A, n))

\* validateMigrationLedger.
Validate(p) ==
    /\ pc[p] = "validating"
    /\ session[p]
    /\ IF Canonical(Artifact[job[p].build])
       THEN Goto(p, "applying") /\ UNCHANGED failed
       ELSE Abort(p, "releasing")
    /\ UNCHANGED <<database, changeLock, lockHolder, job, session, next, legacyLive>>

\* applyMigration: the statements and the ledger row of a migration in one transaction,
\* unless its version has a row.
Apply(p) ==
    LET m == Artifact[job[p].build][next[p]]
    IN  /\ pc[p] = "applying"
        /\ session[p]
        /\ next[p] <= Len(Artifact[job[p].build])
        /\ \/ /\ m.version \notin Versions(ledger)
              /\ catalog' = Append(catalog, m)
              /\ ledger' = ledger \cup {m}
              /\ next' = [next EXCEPT ![p] = @ + 1]
              /\ UNCHANGED <<pc, failed>>
           \/ /\ m \in ledger
              /\ next' = [next EXCEPT ![p] = @ + 1]
              /\ UNCHANGED <<catalog, ledger, pc, failed>>
           \/ /\ m.version \in Versions(ledger) /\ m \notin ledger
              /\ Abort(p, "releasing")
              /\ UNCHANGED <<catalog, ledger, next>>
        /\ UNCHANGED <<history, changeLock, lockHolder, job, session, legacyLive>>

\* The loop of runDDL is over.
Applied(p) ==
    /\ pc[p] = "applying"
    /\ session[p]
    /\ next[p] > Len(Artifact[job[p].build])
    /\ Goto(p, "releasing")
    /\ UNCHANGED <<database, changeLock, lockHolder, job, session, next, failed, legacyLive>>

\* A statement of RunDDL, or of the admission, fails; its transaction is rolled back.
StatementFails(p) ==
    /\ \/ pc[p] \in Migrating /\ Abort(p, "releasing")
       \/ pc[p] \in {"locking", "reserving", "admitting"} /\ Abort(p, "unlocking")
    /\ UNCHANGED <<database, changeLock, lockHolder, job, session, next, legacyLive>>

\* liquibaseMigrationLock.release, by the owner's name only.
ReleaseRow(p) ==
    /\ pc[p] = "releasing"
    /\ session[p] /\ changeLock = "go"
    /\ changeLock' = "free"
    /\ Goto(p, "unlocking")
    /\ UNCHANGED <<database, lockHolder, job, session, next, failed, legacyLive>>

\* Its statement fails, or the row is not the migrator's any more.
ReleaseRowFails(p) ==
    /\ pc[p] = "releasing"
    /\ Abort(p, "unlocking")
    /\ UNCHANGED <<database, changeLock, lockHolder, job, session, next, legacyLive>>

\* The invocation is over: nothing of it remains but what is in the database.
Leave(p) ==
    /\ Goto(p, "idle")
    /\ job' = [job EXCEPT ![p] = None]
    /\ session' = [session EXCEPT ![p] = FALSE]
    /\ next' = [next EXCEPT ![p] = 1]
    /\ failed' = [failed EXCEPT ![p] = FALSE]
    /\ lockHolder' = LocksWithout(p)

\* One pg_advisory_unlock of migrationImportLocks.release, in reverse order.
Unlock(p) ==
    /\ pc[p] = "unlocking"
    /\ \E e \in Held(p) :
        /\ \A f \in Held(p) : Rank[f] <= Rank[e]
        /\ lockHolder' = [lockHolder EXCEPT ![e] = None]
    /\ UNCHANGED <<database, changeLock, pc, job, session, next, failed, legacyLive>>

\* Mutation: the runner goes on after a failed RunDDL.
MayImportAlways(p) == pc[p] = "unlocking"

\* RunDDL returned nil.
MayImport(p) == pc[p] = "unlocking" /\ ~failed[p] /\ session[p]

\* The connection goes back to the pool and the runner goes on.
Return(p) ==
    /\ MayImport(p)
    /\ Held(p) = {}
    /\ Goto(p, "migrated")
    /\ session' = [session EXCEPT ![p] = FALSE]
    /\ UNCHANGED <<database, changeLock, lockHolder, job, next, failed, legacyLive>>

\* An unlock fails, or RunDDL failed before: the connection is closed, its locks end.
ReturnError(p) ==
    /\ pc[p] = "unlocking"
    /\ Leave(p)
    /\ UNCHANGED <<database, changeLock, legacyLive>>

-----------------------------------------------------------------------------
(* The import that follows. *)

\* The plan and its preflight succeed; Prepare reserves a connection.
Admit(p) ==
    /\ pc[p] = "migrated"
    /\ Goto(p, "admitting")
    /\ session' = [session EXCEPT ![p] = TRUE]
    /\ UNCHANGED <<database, changeLock, lockHolder, job, next, failed, legacyLive>>

\* It fails, is skipped, or completes.
EndImport(p) ==
    /\ pc[p] \in {"migrated", "importing"}
    /\ Leave(p)
    /\ UNCHANGED <<database, changeLock, legacyLive>>

-----------------------------------------------------------------------------
(* Failures, the operator and the Liquibase importer. *)

\* The reserved connection is lost: its locks end.  An import works on through the pool.
LoseSession(p) ==
    /\ pc[p] \in Reserved
    /\ session[p]
    /\ session' = [session EXCEPT ![p] = FALSE]
    /\ lockHolder' = LocksWithout(p)
    /\ UNCHANGED <<database, changeLock, pc, job, next, failed, legacyLive>>

Crash(p) ==
    /\ pc[p] # "idle"
    /\ Leave(p)
    /\ UNCHANGED <<database, changeLock, legacyLive>>

\* A migrator that holds, or is about to release, the Liquibase row.
Holding(p) == session[p] /\ pc[p] \in Migrating \cup {"releasing"}

\* The operator stops the other migrator, or verifies that there is none, and clears the row.
ClearStaleLock ==
    /\ changeLock # "free"
    /\ ~legacyLive
    /\ \A p \in Process : ~Holding(p)
    /\ changeLock' = "free"
    /\ UNCHANGED <<database, lockHolder, pc, job, session, next, failed, legacyLive>>

LegacyLock ==
    /\ changeLock = "free"
    /\ changeLock' = "java"
    /\ legacyLive' = TRUE
    /\ UNCHANGED <<database, lockHolder, pc, job, session, next, failed>>

\* One change set: marked when its objects exist, executed when nothing of it does.
LegacyApply ==
    LET m == Legacy[Len(history) + 1]
    IN  /\ legacyLive
        /\ Len(history) < Len(Legacy)
        /\ \/ /\ m \in Rows(catalog)
              /\ history' = Append(history, "marked")
              /\ UNCHANGED catalog
           \/ /\ m.version \notin Versions(Rows(catalog))
              /\ history' = Append(history, "executed")
              /\ catalog' = Append(catalog, m)
        /\ UNCHANGED <<ledger, changeLock, lockHolder, pc, job, session, next, failed, legacyLive>>

LegacyUnlock ==
    /\ legacyLive
    /\ legacyLive' = FALSE
    /\ changeLock' \in {"free", changeLock}  \* the latter when it crashes
    /\ UNCHANGED <<database, lockHolder, pc, job, session, next, failed>>

-----------------------------------------------------------------------------
Next ==
    \/ \E p \in Process :
        \/ \E b \in Build, e \in EntityType : Start(p, b, e)
        \/ TryLock(p) \/ LockRefused(p)
        \/ Reserve(p) \/ Bootstrap(p) \/ Adopt(p) \/ Validate(p) \/ Apply(p) \/ Applied(p)
        \/ StatementFails(p)
        \/ ReleaseRow(p) \/ ReleaseRowFails(p)
        \/ Unlock(p) \/ Return(p) \/ ReturnError(p)
        \/ Admit(p) \/ EndImport(p)
        \/ LoseSession(p) \/ Crash(p)
    \/ ClearStaleLock
    \/ LegacyLock \/ LegacyApply \/ LegacyUnlock

Spec == Init /\ [][Next]_vars
-----------------------------------------------------------------------------
(***************************************************************************)
(* Properties.                                                             *)
(***************************************************************************)

DatabaseTypeOK ==
    /\ ledger \subseteq Migration
    /\ \A m, n \in ledger : m.version = n.version => m = n
    /\ history \in Seq(HistoryKind)
    /\ Len(history) <= Len(Legacy)
    /\ changeLock \in {"free", "go", "java"}
    /\ legacyLive \in BOOLEAN

ProcessTypeOK ==
    /\ lockHolder \in [EntityType -> Process \cup {None}]
    /\ pc \in [Process -> Phase]
    /\ job \in [Process -> Job \cup {None}]
    /\ session \in [Process -> BOOLEAN]
    /\ next \in [Process -> Nat \ {0}]
    /\ failed \in [Process -> BOOLEAN]

\* The database and every invocation keep their types, the ledger has one row per version,
\* only an invocation at work has a build, and import locks belong to live sessions.
SchemaTypeOK ==
    /\ DatabaseTypeOK
    /\ ProcessTypeOK
    /\ \A p \in Process :
        /\ job[p] = None => pc[p] = "idle"
        /\ Held(p) # {} => session[p] /\ pc[p] \in Reserved

\* While a migrator can still execute a statement it owns the Liquibase row, no other
\* migrator is at work, neither is Liquibase, and no import holds its locks: through every
\* interleaving of lock acquisitions, lost sessions, stale rows and their clearing.
MigratorIsAlone ==
    \A p \in Process :
        session[p] /\ pc[p] \in Migrating =>
            /\ changeLock = "go" /\ ~legacyLive
            /\ \A q \in Process \ {p} :
                session[q] => pc[q] \notin Migrating \cup {"reserving", "importing"}

\* Once the ledger has rows they are exactly the migrations that were executed, each once:
\* adoption never vouches for a change set that did not run or was altered, and no crash
\* separates a migration from its row.  (A Liquibase history longer than the ledger, which
\* adoption refuses, was continued by a Liquibase importer after the adoption.)
LedgerMatchesCatalog ==
    ledger # {} /\ Len(history) <= Cardinality(ledger) =>
        /\ Rows(catalog) = ledger
        /\ IsInjective(catalog)

\* When RunDDL is about to succeed, ledger and schema are those of its own build: not older,
\* not newer, not another release's.
SuccessMeansArtifact ==
    \A p \in Process :
        pc[p] = "releasing" /\ session[p] /\ ~failed[p] =>
            /\ ledger = Rows(Artifact[job[p].build])
            /\ Rows(catalog) = ledger

\* An invocation that goes on after RunDDL finds all its migrations executed, whatever other
\* builds, crashes and Liquibase importers did in the meantime.
ImportersFindTheirMigrations ==
    \A p \in Process :
        pc[p] \in {"migrated", "admitting", "importing"} =>
            /\ Rows(Artifact[job[p].build]) \subseteq ledger
            /\ Rows(Artifact[job[p].build]) \subseteq Rows(catalog)
=============================================================================

--------------------------- MODULE ReferenceCache ---------------------------
(***************************************************************************)
(* The identifier caches of src/cache and what the import steps do with    *)
(* them: a relation to another entity is kept only if its identifier is in *)
(* the cache.  The caches are memory of one invocation; roots, relations   *)
(* and the ledger of committed chunks outlive it.                          *)
(*                                                                         *)
(* An artist or label step reads its file twice: the roots, which register *)
(* their identifiers, and then the relations.  A master or release step    *)
(* writes roots and relations in one chunk, and the workers of master      *)
(* chunks add to one identifier set at the same time.  The invocation      *)
(* modelled holds the locks of its plan (module ImportLedger); any number  *)
(* of its chunks may be open, and they commit in any order.                *)
(***************************************************************************)
EXTENDS Integers, FiniteSets

CONSTANTS
    EntityType,  \* artist, label, master, release
    Rank,        \* entity type -> its place in the order of the import steps
    TwoPass,     \* those whose roots are read in a pass of their own
    Requires,    \* entity type -> the types its relations refer to
    Id,          \* identifiers
    SegmentOf,   \* identifier -> the segment of an identifier set that holds its bit
    Name,        \* genre and style names
    Dump,        \* dumps of a month
    Source,      \* dump -> entity type -> identifier -> [chunk, refs, names], or Absent
    Absent,
    Selections,  \* the sets of entity types an invocation may select
    MaxRuns      \* bound: invocations

Ref == EntityType \X Id

Roots(d, e) == {i \in Id : Source[d][e][i] # Absent}
Chunks(d, e) == {Source[d][e][i].chunk : i \in Roots(d, e)}
ChunkRoots(d, e, k) == {i \in Roots(d, e) : Source[d][e][i].chunk = k}

ASSUME ConstantsAssumption ==
    /\ Rank \in [EntityType -> Nat]
    /\ \A e, f \in EntityType : Rank[e] = Rank[f] => e = f
    /\ \A e \in EntityType : \A f \in Requires[e] \ {e} : Rank[f] < Rank[e]
    /\ TwoPass \subseteq EntityType
    /\ Requires \in [EntityType -> SUBSET EntityType]
    /\ Id \subseteq Nat
    /\ SegmentOf \in [Id -> Nat]
    /\ Source \in [Dump -> [EntityType -> [Id ->
           [chunk : Nat, refs : SUBSET (EntityType \X Id), names : SUBSET Name] \cup {Absent}]]]
    /\ \A d \in Dump, e \in EntityType : \A i \in Roots(d, e) :
           \A r \in Source[d][e][i].refs : r[1] \in Requires[e]
    /\ \A e \in EntityType \ TwoPass : e \notin Requires[e]
    /\ Absent \notin Dump
    /\ Selections \subseteq (SUBSET EntityType) \ {{}}
    /\ MaxRuns \in Nat

VARIABLES
    roots,      \* root rows
    names,      \* genre and style rows
    relations,  \* relation rows of each root
    imported,   \* entity types with a completed import
    ledger,     \* chunks of the newest run
    complete,   \* its completed entity types
    status,     \* its status
    plan,       \* its dump and selection
    runs,       \* invocations so far
    forgotten,  \* entity types of which some invocation of this run's chain of
                \* resumptions skipped roots it had not read (history)
    pc,         \* where the invocation is
    left,       \* entity types of the steps left
    entity,     \* the entity type of the step
    resuming,   \* does it resume?
    todo,       \* chunks the reader has not reached in this pass
    open,       \* chunks of the workers
    cache,      \* ArtistIDs, LabelIDs and MasterIDs
    confirmed   \* GenreNames and StyleNames

tables == <<roots, names, relations, imported>>
record == <<ledger, complete, status, plan, runs, forgotten>>
memory == <<pc, left, entity, resuming, todo, open, cache, confirmed>>
vars   == <<tables, record, memory>>

NoPlan == [dump |-> Absent, selection |-> {}]

Init ==
    /\ roots = [e \in EntityType |-> {}]
    /\ names = {}
    /\ relations = [e \in EntityType |-> [i \in Id |-> {}]]
    /\ imported = {}
    /\ ledger = [e \in EntityType |-> {}]
    /\ complete = {}
    /\ status = "none"
    /\ plan = NoPlan
    /\ runs = 0
    /\ forgotten = {}
    /\ pc = "idle"
    /\ left = {}
    /\ entity = Absent
    /\ resuming = FALSE
    /\ todo = {}
    /\ open = {}
    /\ cache = {}
    /\ confirmed = {}

-----------------------------------------------------------------------------
(***************************************************************************)
(* The start of an invocation.                                             *)
(***************************************************************************)
\* The entity types a selection refers to and does not import.
Unselected(S) == (UNION {Requires[e] : e \in S}) \ S

\* preloadReferenceIDs.
Preloaded(S) == {r \in Ref : r[1] \in Unselected(S) /\ r[2] \in roots[r[1]]}

\* Dependency preflight, admission (a failed newest run of the same plan is resumed
\* unless --force) and ResetIDs.  (Bounds: MaxRuns, and only the newest run is resumed.)
Start(d, S, force) ==
    LET p == [dump |-> d, selection |-> S]
        r == status = "failed" /\ plan = p /\ ~force
    IN  /\ pc = "idle"
        /\ runs < MaxRuns
        /\ Unselected(S) \subseteq imported
        /\ ~(status = "success" /\ plan = p /\ ~force)
        /\ plan' = p
        /\ status' = "running"
        /\ runs' = runs + 1
        /\ resuming' = r
        /\ ledger' = IF r THEN ledger ELSE [e \in EntityType |-> {}]
        /\ complete' = IF r THEN complete ELSE {}
        /\ forgotten' = IF r THEN forgotten ELSE {}
        /\ cache' = Preloaded(S)
        /\ confirmed' = {}
        /\ left' = S
        /\ pc' = "entity"
        /\ UNCHANGED <<tables, entity, todo, open>>

-----------------------------------------------------------------------------
(***************************************************************************)
(* Import steps.                                                           *)
(***************************************************************************)
d0 == plan.dump

\* The steps left run in canonical order.
NextStep(e) == e \in left /\ \A f \in left : Rank[e] <= Rank[f]

\* completedEntityResult: a resumed run skips the whole step, both passes.
SkipEntity(e) ==
    /\ pc = "entity"
    /\ NextStep(e)
    /\ resuming /\ e \in complete
    /\ left' = left \ {e}
    /\ pc' = IF left' = {} THEN "finished" ELSE "entity"
    /\ forgotten' = forgotten \cup {e}
    /\ UNCHANGED <<tables, ledger, complete, status, plan, runs, entity, resuming, todo, open,
                   cache, confirmed>>

StartEntity(e) ==
    /\ pc = "entity"
    /\ NextStep(e)
    /\ ~(resuming /\ e \in complete)
    /\ entity' = e
    /\ left' = left \ {e}
    /\ pc' = IF e \in TwoPass THEN "roots" ELSE "relations"
    /\ todo' = Chunks(d0, e)
    /\ UNCHANGED <<tables, record, resuming, open, cache, confirmed>>

\* The reader reaches the chunks in the order of their indices.
NextChunk(k) == k \in todo /\ \A j \in todo : k <= j

\* Entity types with an identifier set: those that are referred to.
Identified == UNION {Requires[e] : e \in EntityType}

\* Mutation: one identifier set for every entity type.
IdentifiersOfAll(e, ids) == EntityType \X ids

\* IDSet.Add of the set of the entity type.
Identifiers(e, ids) == IF e \in Identified THEN {e} \X ids ELSE {}

\* What a worker holds of a chunk: identifiers it has yet to add to the set of its type,
\* whether it looked for a segment and found none, and the rows it built.
Work(stage, e, k, ids) ==
    [pass |-> stage, entity |-> e, chunk |-> k, adding |-> ids, missed |-> FALSE,
     related |-> [i \in ChunkRoots(d0, e, k) |-> {}], pending |-> {}]

\* transformSourceChunk, one goroutine: the roots of a window are registered before they
\* are written.
TransformRoots(k) ==
    /\ pc = "roots"
    /\ NextChunk(k)
    /\ cache' = cache \cup Identifiers(entity, ChunkRoots(d0, entity, k))
    /\ open' = open \cup {Work("roots", entity, k, {})}
    /\ todo' = todo \ {k}
    /\ UNCHANGED <<tables, record, pc, left, entity, resuming, confirmed>>

\* insertBySlice commits under the fence of the active run; the ledger has no entry.
CommitRoots(t) ==
    /\ t.pass = "roots"
    /\ roots' = [roots EXCEPT ![t.entity] = @ \cup DOMAIN t.related]
    /\ open' = open \ {t}
    /\ UNCHANGED <<names, relations, imported, record, pc, left, entity, resuming, todo, cache,
                   confirmed>>

\* Mutation: the relation pass starts when the file is read.
RootsWrittenWhenRead == todo = {}

\* The reduction of the pass has every chunk's count.
RootsWritten == todo = {} /\ open = {}

StartRelations ==
    /\ pc = "roots"
    /\ RootsWritten
    /\ pc' = "relations"
    /\ todo' = Chunks(d0, entity)
    /\ UNCHANGED <<tables, record, left, entity, resuming, open, cache, confirmed>>

\* completedChunkInventory: a chunk of the ledger is not given to a worker, and a master
\* chunk's worker is what registers its masters.
SkipChunk(k) ==
    /\ pc = "relations"
    /\ NextChunk(k)
    /\ resuming /\ k \in ledger[entity]
    /\ todo' = todo \ {k}
    /\ forgotten' = IF entity \in TwoPass THEN forgotten ELSE forgotten \cup {entity}
    /\ UNCHANGED <<tables, ledger, complete, status, plan, runs, pc, left, entity, resuming, open,
                   cache, confirmed>>

\* The getters: references whose identifier is in the cache c.
Supported(e, i, c) == Source[d0][e][i].refs \cap c

\* filterConfirmedReferenceEntities: the names of the chunk that the transaction inserts.
Pending(e, ids) == (UNION {Source[d0][e][i].names : i \in ids}) \ confirmed

\* A chunk is given to a worker; a master chunk's worker begins with its identifiers.
ReadChunk(k) ==
    /\ pc = "relations"
    /\ NextChunk(k)
    /\ ~(resuming /\ k \in ledger[entity])
    /\ open' = open \cup
         {Work("rows", entity, k,
               IF entity \in Identified \ TwoPass THEN ChunkRoots(d0, entity, k) ELSE {})}
    /\ todo' = todo \ {k}
    /\ UNCHANGED <<tables, record, pc, left, entity, resuming, cache, confirmed>>

\* IDSet.Add: is there a segment for identifier i in the set of e?
SegmentLoaded(e, i) == \E r \in cache : r[1] = e /\ SegmentOf[r[2]] = SegmentOf[i]

\* Mutation: Store instead of LoadOrStore replaces a segment allocated since.
StoreSegment(e, i) ==
    {r \in cache : ~(r[1] = e /\ SegmentOf[r[2]] = SegmentOf[i])} \cup Identifiers(e, {i})

\* LoadOrStore keeps a segment allocated since; the bit is set in the segment kept.
LoadOrStoreSegment(e, i) == cache \cup Identifiers(e, {i})

\* One IDSet.Add of a worker: Load, and if that finds no segment, LoadOrStore, between
\* which other workers add.
AddIdentifier(t, i) ==
    /\ i \in t.adding
    /\ \A j \in t.adding : i <= j
    /\ LET added == [t EXCEPT !.adding = @ \ {i}, !.missed = FALSE]
       IN  \/ /\ ~t.missed
              /\ SegmentLoaded(t.entity, i)
              /\ cache' = cache \cup Identifiers(t.entity, {i})
              /\ open' = (open \ {t}) \cup {added}
           \/ /\ ~t.missed
              /\ ~SegmentLoaded(t.entity, i)
              /\ open' = (open \ {t}) \cup {[t EXCEPT !.missed = TRUE]}
              /\ UNCHANGED cache
           \/ /\ t.missed
              /\ cache' = LoadOrStoreSegment(t.entity, i)
              /\ open' = (open \ {t}) \cup {added}
    /\ UNCHANGED <<tables, record, pc, left, entity, resuming, todo, confirmed>>

\* A worker builds the rows of its chunk.
BuildRows(t) ==
    /\ t.pass = "rows"
    /\ t.adding = {}
    /\ open' = (open \ {t}) \cup
         {[t EXCEPT !.pass = "relations",
                    !.related = [i \in DOMAIN t.related |-> Supported(t.entity, i, cache)],
                    !.pending = Pending(t.entity, DOMAIN t.related)]}
    /\ UNCHANGED <<tables, record, pc, left, entity, resuming, todo, cache, confirmed>>

\* Mutation: rows missing from the source stay.
ReconcileKeeping(old, incoming) == old \cup incoming

\* Stale relation rows of a root are deleted, the incoming ones upserted.
Reconcile(old, incoming) == (old \cap incoming) \cup incoming

\* The relation rows of the roots of a chunk.
RelationsAfter(t) ==
    [i \in Id |-> IF i \in DOMAIN t.related
                  THEN Reconcile(relations[t.entity][i], t.related[i])
                  ELSE relations[t.entity][i]]

\* The root rows: the chunk of a one-pass type writes its roots before their relations.
RootsAfter(t) ==
    roots[t.entity] \cup (IF t.entity \in TwoPass THEN {} ELSE DOMAIN t.related)

\* executeChunk commits names, roots, relations and the ledger entry; the names count as
\* confirmed afterwards.
CommitChunk(t) ==
    /\ t.pass = "relations"
    /\ names' = names \cup t.pending
    /\ roots' = [roots EXCEPT ![t.entity] = RootsAfter(t)]
    /\ relations' = [relations EXCEPT ![t.entity] = RelationsAfter(t)]
    /\ ledger' = [ledger EXCEPT ![t.entity] = @ \cup {t.chunk}]
    /\ confirmed' = confirmed \cup t.pending
    /\ open' = open \ {t}
    /\ UNCHANGED <<imported, complete, status, plan, runs, forgotten, pc, left, entity, resuming,
                   todo, cache>>

\* Mutation: the names of a failed chunk count as confirmed.
ConfirmedAnyway(t) == confirmed \cup t.pending

ConfirmedAfterFailure(t) == confirmed

\* A chunk is refused or rolled back, and the step fails.
Abort(t) ==
    /\ open' = open \ {t}
    /\ confirmed' = ConfirmedAfterFailure(t)
    /\ pc' = "failing"
    /\ todo' = {}
    /\ UNCHANGED <<tables, record, left, entity, resuming, cache>>

CompleteEntity ==
    /\ pc = "relations"
    /\ todo = {}
    /\ open = {}
    /\ ledger[entity] = Chunks(d0, entity)
    /\ complete' = complete \cup {entity}
    /\ imported' = imported \cup {entity}
    /\ pc' = IF left = {} THEN "finished" ELSE "entity"
    /\ UNCHANGED <<roots, names, relations, ledger, status, plan, runs, forgotten, left, entity,
                   resuming, todo, open, cache, confirmed>>

\* The run ends; transactions still open are refused by the fence.
EndRun(s) ==
    /\ status' = s
    /\ pc' = "idle"
    /\ left' = {}
    /\ entity' = Absent
    /\ resuming' = FALSE
    /\ todo' = {}
    /\ open' = {}
    /\ cache' = {}
    /\ confirmed' = {}
    /\ UNCHANGED <<tables, ledger, complete, plan, runs, forgotten>>

Succeed == pc = "finished" /\ EndRun("success")

\* The step's error is recorded, or the process dies and the next admission marks its run.
Fail == pc # "idle" /\ EndRun("failed")

Next ==
    \/ \E d \in Dump, S \in Selections, force \in BOOLEAN : Start(d, S, force)
    \/ \E e \in left : SkipEntity(e) \/ StartEntity(e)
    \/ \E k \in todo : TransformRoots(k) \/ SkipChunk(k) \/ ReadChunk(k)
    \/ StartRelations
    \/ \E t \in open : (\E i \in t.adding : AddIdentifier(t, i)) \/ BuildRows(t)
    \/ \E t \in open : CommitRoots(t) \/ CommitChunk(t) \/ Abort(t)
    \/ CompleteEntity
    \/ Succeed
    \/ Fail

Spec == Init /\ [][Next]_vars
-----------------------------------------------------------------------------
(***************************************************************************)
(* Properties.                                                             *)
(***************************************************************************)
WorkTypeOK(t) ==
    /\ t.pass \in {"roots", "rows", "relations"}
    /\ t.adding \subseteq DOMAIN t.related
    /\ t.missed => t.adding # {}
    /\ t.entity \in EntityType
    /\ t.chunk \in Nat
    /\ t.related \in [DOMAIN t.related -> SUBSET Ref]
    /\ DOMAIN t.related \subseteq Id
    /\ t.pending \subseteq Name

\* Tables and memory are well typed, and the cache holds identifiers of the plan's own
\* roots or of rows of the catalog only.
CacheTypeOK ==
    /\ roots \in [EntityType -> SUBSET Id]
    /\ names \subseteq Name
    /\ relations \in [EntityType -> [Id -> SUBSET Ref]]
    /\ ledger \in [EntityType -> SUBSET Nat]
    /\ imported \cup complete \cup forgotten \subseteq EntityType
    /\ status \in {"none", "running", "failed", "success"}
    /\ plan \in [dump : Dump, selection : SUBSET EntityType] \cup {NoPlan}
    /\ runs \in 0..MaxRuns
    /\ pc \in {"idle", "entity", "roots", "relations", "failing", "finished"}
    /\ left \subseteq EntityType
    /\ entity \in EntityType \cup {Absent}
    /\ resuming \in BOOLEAN
    /\ todo \subseteq Nat
    /\ \A t \in open : WorkTypeOK(t)
    /\ cache \subseteq
         {r \in Ref : r[2] \in roots[r[1]] \/ r[2] \in Roots(d0, r[1])}
    /\ confirmed \subseteq Name

\* The references the import of the plan should store for a root: those to a root of a
\* selected type's dump, or to a catalog row of a type that is not selected.
Expected(e, i) ==
    {r \in Source[d0][e][i].refs :
        IF r[1] \in plan.selection THEN r[2] \in Roots(d0, r[1]) ELSE r[2] \in roots[r[1]]}

\* No relation row refers to a root row that is not there, although the caches learn an
\* identifier before the transaction that writes its row commits, and although that
\* transaction may roll back.
NoDanglingReference ==
    \A e \in EntityType, i \in Id : \A r \in relations[e][i] : r[2] \in roots[r[1]]

\* A name that chunks no longer insert because it is confirmed has a row, whichever of two
\* concurrent chunks inserted it and whichever rolled back.
ConfirmedNamesExist == confirmed \subseteq names

\* When an entity is complete its relation rows are exactly the references its dump
\* supports: none is missing, none is left from an older dump.
RelationsExact ==
    pc # "idle" =>
        \A e \in complete : \A i \in Roots(d0, e) : relations[e][i] = Expected(e, i)

\* The same, but references to a type whose roots the run's invocations skipped may be
\* missing.
RelationsExactUnlessForgotten ==
    pc # "idle" =>
        \A e \in complete : \A i \in Roots(d0, e) :
            /\ relations[e][i] \subseteq Expected(e, i)
            /\ \A r \in Expected(e, i) : r[1] \notin forgotten => r \in relations[e][i]
=============================================================================

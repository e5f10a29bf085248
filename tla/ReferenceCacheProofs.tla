------------------------ MODULE ReferenceCacheProofs ------------------------
(***************************************************************************)
(* Proofs about the identifier caches: for any entity types, dumps,        *)
(* chunks and segments, and for any number of invocations, no relation     *)
(* dangles, and what is lost is lost to a resumption.                      *)
(***************************************************************************)
EXTENDS ReferenceCache, TLAPS

\* The row of the identifier is written.
Backed(r) == r[2] \in roots[r[1]]

\* Identifiers of entity type f that a relation may refer to.
Supporting(f) == IF f \in plan.selection THEN Roots(d0, f) ELSE roots[f]

\* The cache holds all of them.
Known(f) == f \in forgotten \/ {f} \X Supporting(f) \subseteq cache

\* R is what the rows of a root should be.
Exact(e, i, R) ==
    /\ R \subseteq Expected(e, i)
    /\ \A r \in Expected(e, i) : r[1] \in forgotten \/ r \in R

WorkRow ==
    [pass : {"roots", "rows", "relations"}, entity : EntityType, chunk : Nat,
     adding : SUBSET Id, missed : BOOLEAN,
     related : UNION {[S -> SUBSET Ref] : S \in SUBSET Id}, pending : SUBSET Name]

TypeInv ==
    /\ roots \in [EntityType -> SUBSET Id]
    /\ names \subseteq Name
    /\ relations \in [EntityType -> [Id -> SUBSET Ref]]
    /\ imported \subseteq EntityType
    /\ ledger \in [EntityType -> SUBSET Nat]
    /\ complete \subseteq EntityType
    /\ status \in {"none", "running", "failed", "success"}
    /\ plan \in [dump : Dump, selection : SUBSET EntityType] \cup {NoPlan}
    /\ runs \in 0..MaxRuns
    /\ forgotten \subseteq EntityType
    /\ pc \in {"idle", "entity", "roots", "relations", "failing", "finished"}
    /\ left \subseteq EntityType
    /\ entity \in EntityType \cup {Absent}
    /\ resuming \in BOOLEAN
    /\ todo \subseteq Nat
    /\ open \subseteq WorkRow
    /\ cache \subseteq Ref
    /\ confirmed \subseteq Name

\* Where the invocation is, and in which pass its open chunks are.
ControlInv ==
    /\ pc = "idle" => open = {} /\ cache = {}
    /\ pc # "idle" => plan # NoPlan
    /\ left \subseteq plan.selection
    /\ pc \in {"entity", "finished"} => open = {}
    /\ pc \in {"roots", "relations"} \/ open # {} => entity \in plan.selection
    /\ pc \in {"roots", "relations"} =>
         /\ \A f \in left : Rank[entity] < Rank[f]
         /\ todo \subseteq Chunks(d0, entity)
    /\ pc = "roots" => entity \in TwoPass

WorkInv(t) ==
    /\ t.entity = entity
    /\ t.chunk \in Chunks(d0, t.entity)
    /\ DOMAIN t.related = ChunkRoots(d0, t.entity, t.chunk)
    /\ t.adding \subseteq DOMAIN t.related
    /\ t.missed => t.adding # {}
    /\ t.adding # {} => t.pass = "rows" /\ t.entity \notin TwoPass
    /\ t.pass = "roots" => t.entity \in TwoPass
    /\ pc = "roots" => t.pass = "roots"
    /\ pc = "relations" => t.pass # "roots"

OpenInv == \A t \in open : WorkInv(t)

\* An identifier without a row is of the step at work, and an open chunk writes its row.
BackedInv ==
    /\ \A r \in cache : r[2] \in Supporting(r[1])
    /\ pc = "entity" \/ (pc = "relations" /\ entity \in TwoPass) => \A r \in cache : Backed(r)
    /\ pc \in {"roots", "relations"} =>
         \A r \in cache :
            Backed(r) \/ (r[1] = entity /\ \E t \in open : r[2] \in DOMAIN t.related)

\* What the selection refers to.
Needed == UNION {Requires[e] : e \in plan.selection}

\* Entity types whose identifiers are all known: those whose step is over, and the type at
\* work as far as its chunks were read.
KnownInv ==
    /\ pc = "entity" => \A f \in Needed \ left : Known(f)
    /\ pc \in {"roots", "relations"} => \A f \in Needed \ (left \cup {entity}) : Known(f)
    /\ pc = "roots" /\ entity \in Needed =>
         \A i \in Roots(d0, entity) :
            Source[d0][entity][i].chunk \in todo \/ <<entity, i>> \in cache
    /\ pc = "relations" /\ entity \in Needed /\ entity \in TwoPass => Known(entity)
    /\ pc = "relations" /\ entity \in Needed \ TwoPass =>
         \/ entity \in forgotten
         \/ \A i \in Roots(d0, entity) :
               \/ Source[d0][entity][i].chunk \in todo
               \/ <<entity, i>> \in cache
               \/ \E t \in open : i \in t.adding

\* What a worker reads from the cache has its row and is all there is; what it built is
\* exact, and stays so until it commits.
WorkReady(t) ==
    /\ t.pass # "roots" =>
         /\ \A r \in cache : r[1] \in Requires[t.entity] => Backed(r)
         /\ \A f \in Requires[t.entity] : Known(f)
    /\ t.pass = "relations" =>
         \A i \in DOMAIN t.related :
            /\ \A r \in t.related[i] : Backed(r)
            /\ Exact(t.entity, i, t.related[i])

ReadyInv == \A t \in open : WorkReady(t)

\* The relation rows of recorded chunks are exact.
LedgerInv ==
    /\ plan = NoPlan => ledger = [e \in EntityType |-> {}]
    /\ \A e \in complete : ledger[e] = Chunks(d0, e)
    /\ \A e \in EntityType : \A i \in Id :
         plan # NoPlan /\ i \in Roots(d0, e) /\ Source[d0][e][i].chunk \in ledger[e] =>
            Exact(e, i, relations[e][i])

-----------------------------------------------------------------------------
\* What the assumptions say of a dump's roots.
LEMMA SourceTyped ==
    ASSUME NEW d \in Dump, NEW e \in EntityType
    PROVE  /\ Roots(d, e) \subseteq Id
           /\ Chunks(d, e) \subseteq Nat
           /\ \A i \in Roots(d, e) :
                /\ Source[d][e][i].chunk \in Nat
                /\ Source[d][e][i].refs \subseteq Ref
                /\ Source[d][e][i].names \subseteq Name
                /\ \A r \in Source[d][e][i].refs : r[1] \in Requires[e]
<1>1. \A i \in Id : Source[d][e][i] \in
         [chunk : Nat, refs : SUBSET (EntityType \X Id), names : SUBSET Name] \cup {Absent}
  BY ConstantsAssumption
<1>2. \A i \in Roots(d, e) : Source[d][e][i] \in
         [chunk : Nat, refs : SUBSET (EntityType \X Id), names : SUBSET Name]
  BY <1>1 DEF Roots
<1>3. \A i \in Roots(d, e) : \A r \in Source[d][e][i].refs : r[1] \in Requires[e]
  BY ConstantsAssumption
<1> QED
  BY <1>2, <1>3 DEF Roots, Chunks, Ref

\* The plan of an invocation names a dump and selected entity types.
LEMMA PlanTyped ==
    ASSUME TypeInv
    PROVE  /\ plan.selection \subseteq EntityType
           /\ plan # NoPlan => d0 \in Dump
BY DEF TypeInv, NoPlan, d0

\* A new chunk of a worker is well typed.
LEMMA WorkTyped ==
    ASSUME TypeInv, plan # NoPlan,
           NEW stage \in {"roots", "rows"}, NEW e \in EntityType, NEW k \in Nat,
           NEW ids \in SUBSET Id
    PROVE  /\ Work(stage, e, k, ids) \in WorkRow
           /\ DOMAIN Work(stage, e, k, ids).related = ChunkRoots(d0, e, k)
           /\ Work(stage, e, k, ids).pass = stage
           /\ Work(stage, e, k, ids).entity = e
           /\ Work(stage, e, k, ids).chunk = k
           /\ Work(stage, e, k, ids).adding = ids
           /\ ~Work(stage, e, k, ids).missed
<1>1. ChunkRoots(d0, e, k) \subseteq Id
  BY PlanTyped, SourceTyped DEF ChunkRoots
<1>2. [i \in ChunkRoots(d0, e, k) |-> {}] \in [ChunkRoots(d0, e, k) -> SUBSET Ref]
  OBVIOUS
<1>3. [i \in ChunkRoots(d0, e, k) |-> {}] \in UNION {[S -> SUBSET Ref] : S \in SUBSET Id}
  BY <1>1, <1>2
<1> QED
  BY <1>3 DEF Work, WorkRow

LEMMA RelatedTyped ==
    ASSUME NEW t \in WorkRow
    PROVE  /\ DOMAIN t.related \subseteq Id
           /\ \A i \in DOMAIN t.related : t.related[i] \subseteq Ref
<1>1. t.related \in UNION {[S -> SUBSET Ref] : S \in SUBSET Id}
  BY DEF WorkRow
<1>2. PICK S \in SUBSET Id : t.related \in [S -> SUBSET Ref]
  BY <1>1
<1> QED
  BY <1>2

-----------------------------------------------------------------------------
(***************************************************************************)
(* Types.                                                                  *)
(***************************************************************************)
LEMMA TypeInit == Init => TypeInv
<1> SUFFICES ASSUME Init PROVE TypeInv
  OBVIOUS
<1>1. [i \in Id |-> {}] \in [Id -> SUBSET Ref]
  OBVIOUS
<1>2. relations \in [EntityType -> [Id -> SUBSET Ref]]
  BY <1>1 DEF Init
<1>3. /\ roots \in [EntityType -> SUBSET Id]
      /\ ledger \in [EntityType -> SUBSET Nat]
  BY DEF Init
<1>4. runs \in 0..MaxRuns
  BY ConstantsAssumption DEF Init
<1> QED
  BY <1>2, <1>3, <1>4 DEF Init, TypeInv

LEMMA TypeStart ==
    ASSUME TypeInv, NEW d \in Dump, NEW S \in Selections, NEW force \in BOOLEAN,
           Start(d, S, force)
    PROVE  TypeInv'
<1>0. S \subseteq EntityType
  BY ConstantsAssumption
<1>1. plan' \in [dump : Dump, selection : SUBSET EntityType]
  BY <1>0 DEF Start
<1>2. cache' \subseteq Ref
  BY DEF Start, Preloaded
<1>3. runs' \in 0..MaxRuns
  BY ConstantsAssumption DEF Start, TypeInv
<1>4. resuming' \in BOOLEAN
  BY DEF Start
<1>5. /\ ledger' \in [EntityType -> SUBSET Nat]
      /\ complete' \subseteq EntityType
      /\ forgotten' \subseteq EntityType
  BY DEF Start, TypeInv
<1>6. /\ status' = "running" /\ pc' = "entity" /\ left' \subseteq EntityType
      /\ confirmed' = {}
  BY <1>0 DEF Start
<1>7. UNCHANGED <<tables, entity, todo, open>>
  BY DEF Start
<1> QED
  BY <1>1, <1>2, <1>3, <1>4, <1>5, <1>6, <1>7 DEF TypeInv, tables

LEMMA TypeStep ==
    ASSUME TypeInv, ControlInv,
           \/ \E e \in left : SkipEntity(e) \/ StartEntity(e)
           \/ \E k \in todo : TransformRoots(k) \/ SkipChunk(k) \/ ReadChunk(k)
           \/ StartRelations
           \/ CompleteEntity
           \/ Succeed
           \/ Fail
    PROVE  TypeInv'
<1>1. CASE \E e \in left : SkipEntity(e)
  BY <1>1 DEF SkipEntity, TypeInv, tables
<1>2. CASE \E e \in left : StartEntity(e)
  <2>1. PICK e \in left : StartEntity(e)
    BY <1>2
  <2>2. plan # NoPlan /\ e \in EntityType
    BY <2>1 DEF StartEntity, ControlInv, TypeInv
  <2>3. Chunks(d0, e) \subseteq Nat
    BY <2>2, PlanTyped, SourceTyped
  <2> QED
    BY <2>1, <2>2, <2>3 DEF StartEntity, TypeInv, tables, record
<1>3. CASE \E k \in todo : TransformRoots(k)
  <2>1. PICK k \in todo : TransformRoots(k)
    BY <1>3
  <2>2. plan # NoPlan /\ entity \in EntityType /\ k \in Nat
    BY <2>1, PlanTyped DEF TransformRoots, ControlInv, TypeInv
  <2>3. Work("roots", entity, k, {}) \in WorkRow
    BY <2>2, WorkTyped
  <2>4. ChunkRoots(d0, entity, k) \subseteq Id
    BY <2>2, PlanTyped, SourceTyped DEF ChunkRoots
  <2>5. Identifiers(entity, ChunkRoots(d0, entity, k)) \subseteq Ref
    BY <2>2, <2>4 DEF Identifiers, Ref
  <2> QED
    BY <2>1, <2>3, <2>5 DEF TransformRoots, TypeInv, tables, record
<1>4. CASE \E k \in todo : SkipChunk(k)
  <2>1. PICK k \in todo : SkipChunk(k)
    BY <1>4
  <2>2. entity \in EntityType
    BY <2>1, PlanTyped DEF SkipChunk, ControlInv
  <2> QED
    BY <2>1, <2>2 DEF SkipChunk, TypeInv, tables
<1>5. CASE \E k \in todo : ReadChunk(k)
  <2>1. PICK k \in todo : ReadChunk(k)
    BY <1>5
  <2>2. plan # NoPlan /\ entity \in EntityType /\ k \in Nat
    BY <2>1, PlanTyped DEF ReadChunk, ControlInv, TypeInv
  <2>3. ChunkRoots(d0, entity, k) \subseteq Id
    BY <2>2, PlanTyped, SourceTyped DEF ChunkRoots
  <2> DEFINE ids == IF entity \in Identified \ TwoPass THEN ChunkRoots(d0, entity, k) ELSE {}
  <2>4. ids \in SUBSET Id
    BY <2>3
  <2>5. Work("rows", entity, k, ids) \in WorkRow
    BY <2>2, <2>4, WorkTyped
  <2> QED
    BY <2>1, <2>5 DEF ReadChunk, TypeInv, tables, record
<1>6. CASE StartRelations
  <2>1. plan # NoPlan /\ entity \in EntityType
    BY <1>6, PlanTyped DEF StartRelations, ControlInv
  <2>2. Chunks(d0, entity) \subseteq Nat
    BY <2>1, PlanTyped, SourceTyped
  <2> QED
    BY <1>6, <2>2 DEF StartRelations, TypeInv, tables, record
<1>7. CASE CompleteEntity
  <2>1. entity \in EntityType
    BY <1>7, PlanTyped DEF CompleteEntity, ControlInv
  <2> QED
    BY <1>7, <2>1 DEF CompleteEntity, TypeInv
<1>8. CASE Succeed \/ Fail
  BY <1>8 DEF Succeed, Fail, EndRun, TypeInv, tables
<1> QED
  BY <1>1, <1>2, <1>3, <1>4, <1>5, <1>6, <1>7, <1>8

LEMMA TypeWork ==
    ASSUME TypeInv, ControlInv, OpenInv, NEW t \in open,
           \/ \E i \in t.adding : AddIdentifier(t, i)
           \/ BuildRows(t)
           \/ CommitRoots(t) \/ CommitChunk(t) \/ Abort(t)
    PROVE  TypeInv'
<1>0. t \in WorkRow /\ t.entity \in EntityType /\ t.adding \subseteq Id /\ plan # NoPlan
  BY DEF TypeInv, WorkRow, ControlInv
<1>1. CASE \E i \in t.adding : AddIdentifier(t, i)
  <2>1. PICK i \in t.adding : AddIdentifier(t, i)
    BY <1>1
  <2> DEFINE added == [t EXCEPT !.adding = @ \ {i}, !.missed = FALSE]
             missed == [t EXCEPT !.missed = TRUE]
  <2>2. added \in WorkRow /\ missed \in WorkRow
    BY <1>0 DEF WorkRow
  <2>3. open' \subseteq WorkRow
    BY <2>1, <2>2 DEF AddIdentifier, TypeInv
  <2>4. Identifiers(t.entity, {i}) \subseteq Ref
    BY <1>0 DEF Identifiers, Ref
  <2>5. cache' \subseteq Ref
    BY <2>1, <2>4 DEF AddIdentifier, LoadOrStoreSegment, TypeInv
  <2> HIDE DEF added, missed
  <2> QED
    BY <2>1, <2>3, <2>5 DEF AddIdentifier, TypeInv, tables, record
<1>2. CASE BuildRows(t)
  <2> DEFINE rel == [i \in DOMAIN t.related |-> Supported(t.entity, i, cache)]
             pend == Pending(t.entity, DOMAIN t.related)
             built == [t EXCEPT !.pass = "relations", !.related = rel, !.pending = pend]
  <2>1. DOMAIN t.related \subseteq Id
    BY <1>0, RelatedTyped
  <2>2. rel \in [DOMAIN t.related -> SUBSET Ref]
    BY DEF Supported, TypeInv
  <2>3. rel \in UNION {[S -> SUBSET Ref] : S \in SUBSET Id}
    BY <2>1, <2>2
  <2>4. \A i \in DOMAIN t.related : i \in Roots(d0, t.entity)
    BY DEF OpenInv, WorkInv, ChunkRoots
  <2>5. \A i \in DOMAIN t.related : Source[d0][t.entity][i].names \subseteq Name
    BY <1>0, <2>4, PlanTyped, SourceTyped
  <2>6. pend \subseteq Name
    BY <2>5 DEF Pending
  <2>7. built \in WorkRow
    <3> HIDE DEF rel, pend
    <3> QED BY <1>0, <2>3, <2>6 DEF WorkRow
  <2>8. open' \subseteq WorkRow
    BY <1>2, <2>7 DEF BuildRows, TypeInv
  <2> HIDE DEF built, rel, pend
  <2> QED
    BY <1>2, <2>8 DEF BuildRows, TypeInv, tables, record
<1>3. CASE CommitRoots(t)
  <2>1. DOMAIN t.related \subseteq Id
    BY <1>0, RelatedTyped
  <2> QED
    BY <1>0, <1>3, <2>1 DEF CommitRoots, TypeInv, record
<1>4. CASE CommitChunk(t)
  <2>1. DOMAIN t.related \subseteq Id /\ \A i \in DOMAIN t.related : t.related[i] \subseteq Ref
    BY <1>0, RelatedTyped
  <2>2. relations[t.entity] \in [Id -> SUBSET Ref]
    BY <1>0 DEF TypeInv
  <2>3. RelationsAfter(t) \in [Id -> SUBSET Ref]
    BY <2>1, <2>2 DEF RelationsAfter, Reconcile
  <2>4. relations' \in [EntityType -> [Id -> SUBSET Ref]]
    BY <1>0, <1>4, <2>3 DEF CommitChunk, TypeInv
  <2>5. RootsAfter(t) \subseteq Id
    BY <1>0, <2>1 DEF RootsAfter, TypeInv
  <2>6. roots' \in [EntityType -> SUBSET Id]
    BY <1>0, <1>4, <2>5 DEF CommitChunk, TypeInv
  <2>7. t.chunk \in Nat /\ t.pending \subseteq Name
    BY <1>0 DEF WorkRow
  <2>8. ledger' \in [EntityType -> SUBSET Nat]
    BY <1>0, <1>4, <2>7 DEF CommitChunk, TypeInv
  <2> QED
    BY <1>4, <2>4, <2>6, <2>7, <2>8 DEF CommitChunk, TypeInv
<1>5. CASE Abort(t)
  BY <1>5 DEF Abort, ConfirmedAfterFailure, TypeInv, tables, record
<1> QED
  BY <1>1, <1>2, <1>3, <1>4, <1>5

-----------------------------------------------------------------------------
(***************************************************************************)
(* Control and open chunks.                                                *)
(***************************************************************************)
LEMMA ControlStart ==
    ASSUME TypeInv, ControlInv, NEW d \in Dump, NEW S \in Selections, NEW force \in BOOLEAN,
           Start(d, S, force)
    PROVE  ControlInv' /\ OpenInv'
<1>1. plan' = [dump |-> d, selection |-> S] /\ d # Absent
  BY ConstantsAssumption DEF Start
<1>2. plan' # NoPlan /\ NoPlan' = NoPlan
  BY <1>1 DEF NoPlan
<1>3. pc' = "entity" /\ left' = S /\ open' = {}
  BY DEF Start, ControlInv
<1> QED
  BY <1>1, <1>2, <1>3 DEF ControlInv, OpenInv

LEMMA ControlStep ==
    ASSUME TypeInv, ControlInv, OpenInv,
           \/ \E e \in left : SkipEntity(e) \/ StartEntity(e)
           \/ \E k \in todo : TransformRoots(k) \/ SkipChunk(k) \/ ReadChunk(k)
           \/ StartRelations
           \/ CompleteEntity
           \/ Succeed
           \/ Fail
    PROVE  ControlInv' /\ OpenInv'
<1>0. NoPlan' = NoPlan /\ plan' = plan /\ d0' = d0
  BY DEF NoPlan, SkipEntity, StartEntity, TransformRoots, SkipChunk, ReadChunk, StartRelations,
         CompleteEntity, Succeed, Fail, EndRun, record, d0
<1>1. CASE \E e \in left : SkipEntity(e)
  BY <1>0, <1>1 DEF SkipEntity, ControlInv, OpenInv, tables
<1>2. CASE \E e \in left : StartEntity(e)
  <2>1. PICK e \in left : StartEntity(e)
    BY <1>2
  <2>2. \A f \in left \ {e} : Rank[e] < Rank[f]
    <3>1. e \in EntityType /\ left \subseteq EntityType /\ Rank \in [EntityType -> Nat]
      BY ConstantsAssumption DEF TypeInv
    <3>2. \A f \in left : Rank[e] <= Rank[f]
      BY <2>1 DEF StartEntity, NextStep
    <3>3. \A f \in left \ {e} : Rank[e] # Rank[f]
      BY <3>1, ConstantsAssumption
    <3>4. \A f \in left : Rank[f] \in Nat /\ Rank[e] \in Nat
      BY <3>1
    <3> QED
      BY <3>2, <3>3, <3>4
  <2> QED
    BY <1>0, <2>1, <2>2 DEF StartEntity, ControlInv, OpenInv
<1>3. CASE \E k \in todo : TransformRoots(k)
  <2>1. PICK k \in todo : TransformRoots(k)
    BY <1>3
  <2>2. plan # NoPlan /\ entity \in EntityType /\ k \in Nat
    BY <2>1, PlanTyped DEF TransformRoots, ControlInv, TypeInv
  <2> DEFINE w == Work("roots", entity, k, {})
  <2>3. /\ w.pass = "roots" /\ w.entity = entity /\ w.adding = {} /\ ~w.missed
        /\ w.chunk = k
        /\ DOMAIN w.related = ChunkRoots(d0, w.entity, w.chunk)
    <3>1. {} \in SUBSET Id
      OBVIOUS
    <3>2. /\ DOMAIN w.related = ChunkRoots(d0, entity, k)
          /\ w.pass = "roots" /\ w.entity = entity /\ w.chunk = k /\ w.adding = {}
          /\ ~w.missed
      BY <2>2, <3>1, WorkTyped
    <3> HIDE DEF w
    <3> QED
      BY <3>2
  <2> HIDE DEF w
  <2>4. open' = open \cup {w}
    BY <2>1 DEF TransformRoots, w
  <2>5. ControlInv'
    BY <1>0, <2>1 DEF TransformRoots, ControlInv, Chunks, Roots
  <2>6. /\ pc = "roots" /\ pc' = pc /\ entity' = entity /\ k \in Chunks(d0, entity)
        /\ entity \in TwoPass
    BY <2>1 DEF TransformRoots, ControlInv
  <2>7. \A t : t = w => WorkInv(t)'
    BY <1>0, <2>3, <2>6 DEF WorkInv, ChunkRoots, Chunks, Roots
  <2>8. \A t \in open : WorkInv(t)'
    BY <1>0, <2>6 DEF OpenInv, WorkInv, ChunkRoots, Chunks, Roots
  <2> QED
    BY <2>4, <2>5, <2>7, <2>8 DEF OpenInv
<1>4. CASE \E k \in todo : SkipChunk(k)
  BY <1>0, <1>4 DEF SkipChunk, ControlInv, OpenInv, WorkInv, ChunkRoots, Chunks, Roots
<1>5. CASE \E k \in todo : ReadChunk(k)
  <2>1. PICK k \in todo : ReadChunk(k)
    BY <1>5
  <2>2. plan # NoPlan /\ entity \in EntityType /\ k \in Nat
    BY <2>1, PlanTyped DEF ReadChunk, ControlInv, TypeInv
  <2> DEFINE ids == IF entity \in Identified \ TwoPass THEN ChunkRoots(d0, entity, k) ELSE {}
             w == Work("rows", entity, k, ids)
  <2>3. ids \subseteq ChunkRoots(d0, entity, k) /\ ids \in SUBSET Id
    BY <2>2, PlanTyped, SourceTyped DEF ChunkRoots
  <2>4. /\ w.pass = "rows" /\ w.entity = entity /\ w.adding = ids /\ ~w.missed
        /\ w.chunk = k
        /\ DOMAIN w.related = ChunkRoots(d0, w.entity, w.chunk)
    <3> HIDE DEF ids
    <3>1. /\ DOMAIN w.related = ChunkRoots(d0, entity, k)
          /\ w.pass = "rows" /\ w.entity = entity /\ w.chunk = k /\ w.adding = ids
          /\ ~w.missed
      BY <2>2, <2>3, WorkTyped
    <3> HIDE DEF w
    <3> QED
      BY <3>1
  <2>5. ids # {} => entity \notin TwoPass
    OBVIOUS
  <2>6. open' = open \cup {w}
    BY <2>1 DEF ReadChunk
  <2> HIDE DEF w, ids
  <2>7. ControlInv'
    BY <1>0, <2>1 DEF ReadChunk, ControlInv
  <2>8. pc = "relations" /\ pc' = pc /\ entity' = entity /\ k \in Chunks(d0, entity)
    BY <2>1 DEF ReadChunk, ControlInv
  <2>9. \A t : t = w => WorkInv(t)'
    BY <1>0, <2>3, <2>4, <2>5, <2>8 DEF WorkInv, ChunkRoots, Chunks, Roots
  <2>10. \A t \in open : WorkInv(t)'
    BY <1>0, <2>8 DEF OpenInv, WorkInv, ChunkRoots, Chunks, Roots
  <2> QED
    BY <2>6, <2>7, <2>9, <2>10 DEF OpenInv
<1>6. CASE StartRelations
  BY <1>0, <1>6 DEF StartRelations, RootsWritten, ControlInv, OpenInv
<1>7. CASE CompleteEntity
  BY <1>0, <1>7 DEF CompleteEntity, ControlInv, OpenInv
<1>8. CASE Succeed \/ Fail
  BY <1>0, <1>8 DEF Succeed, Fail, EndRun, ControlInv, OpenInv
<1> QED
  BY <1>1, <1>2, <1>3, <1>4, <1>5, <1>6, <1>7, <1>8

LEMMA ControlWork ==
    ASSUME TypeInv, ControlInv, OpenInv, NEW t \in open,
           \/ \E i \in t.adding : AddIdentifier(t, i)
           \/ BuildRows(t)
           \/ CommitRoots(t) \/ CommitChunk(t) \/ Abort(t)
    PROVE  ControlInv' /\ OpenInv'
<1>0. /\ NoPlan' = NoPlan /\ plan' = plan /\ d0' = d0
      /\ left' = left /\ entity' = entity
  BY DEF NoPlan, AddIdentifier, BuildRows, CommitRoots, CommitChunk, Abort, record, d0
<1>1. t \in WorkRow /\ WorkInv(t) /\ pc \in {"roots", "relations", "failing"}
  BY DEF TypeInv, ControlInv, OpenInv
<1>2. pc' = pc \/ pc' = "failing"
  BY DEF AddIdentifier, BuildRows, CommitRoots, CommitChunk, Abort, record
<1>3. ControlInv'
  <2>1. todo' \subseteq todo
    BY DEF AddIdentifier, BuildRows, CommitRoots, CommitChunk, Abort
  <2>2. Chunks(d0, entity)' = Chunks(d0, entity)
    BY <1>0 DEF Chunks, Roots
  <2>3. pc' = "failing" \/ pc' = pc
    BY <1>2
  <2>4. pc # "idle" /\ open # {}
    BY <1>1
  <2> QED
    BY <1>0, <1>1, <2>1, <2>2, <2>3, <2>4 DEF ControlInv
<1>4. CASE \E i \in t.adding : AddIdentifier(t, i)
  <2>1. PICK i \in t.adding : AddIdentifier(t, i)
    BY <1>4
  <2> DEFINE added == [t EXCEPT !.adding = @ \ {i}, !.missed = FALSE]
             missed == [t EXCEPT !.missed = TRUE]
  <2>2. /\ added.entity = t.entity /\ added.chunk = t.chunk /\ added.related = t.related
        /\ added.pass = t.pass /\ added.adding = t.adding \ {i} /\ ~added.missed
        /\ missed.entity = t.entity /\ missed.chunk = t.chunk /\ missed.related = t.related
        /\ missed.pass = t.pass /\ missed.adding = t.adding /\ missed.missed = TRUE
    BY <1>1 DEF WorkRow
  <2>3. open' = (open \ {t}) \cup {added} \/ open' = (open \ {t}) \cup {missed}
    BY <2>1 DEF AddIdentifier
  <2>4. pc' = pc
    BY <2>1 DEF AddIdentifier
  <2> HIDE DEF added, missed
  <2>5. \A w \in open' : WorkInv(w)'
    BY <1>0, <1>1, <2>2, <2>3, <2>4 DEF OpenInv, WorkInv, ChunkRoots, Chunks, Roots
  <2> QED
    BY <1>3, <2>5 DEF OpenInv
<1>5. CASE BuildRows(t)
  <2> DEFINE rel == [i \in DOMAIN t.related |-> Supported(t.entity, i, cache)]
             pend == Pending(t.entity, DOMAIN t.related)
             built == [t EXCEPT !.pass = "relations", !.related = rel, !.pending = pend]
  <2>1. DOMAIN rel = DOMAIN t.related
    OBVIOUS
  <2>2. open' = (open \ {t}) \cup {built}
    BY <1>5 DEF BuildRows
  <2> HIDE DEF rel, pend
  <2>3. /\ built.entity = t.entity /\ built.chunk = t.chunk /\ built.related = rel
        /\ built.pass = "relations" /\ built.adding = t.adding /\ built.missed = t.missed
    BY <1>1 DEF WorkRow
  <2>4. pc' = pc /\ t.pass = "rows" /\ t.adding = {}
    BY <1>5 DEF BuildRows
  <2> HIDE DEF built
  <2>5. \A w \in open' : WorkInv(w)'
    BY <1>0, <1>1, <2>1, <2>2, <2>3, <2>4 DEF OpenInv, WorkInv, ChunkRoots, Chunks, Roots
  <2> QED
    BY <1>3, <2>5 DEF OpenInv
<1>6. CASE CommitRoots(t) \/ CommitChunk(t) \/ Abort(t)
  <2>1. open' = open \ {t}
    BY <1>6 DEF CommitRoots, CommitChunk, Abort
  <2>2. \A w \in open' : WorkInv(w)'
    BY <1>0, <1>2, <2>1 DEF OpenInv, WorkInv, ChunkRoots, Chunks, Roots
  <2> QED
    BY <1>3, <2>2 DEF OpenInv
<1> QED
  BY <1>4, <1>5, <1>6

-----------------------------------------------------------------------------
(***************************************************************************)
(* What a step leaves alone.                                               *)
(***************************************************************************)
\* The references to keep depend on the dump and on roots that are not imported.
LEMMA SupportFrame ==
    ASSUME TypeInv, plan' = plan,
           \A f \in EntityType \ plan.selection : roots'[f] = roots[f]
    PROVE  /\ d0' = d0
           /\ \A f \in EntityType : Supporting(f)' = Supporting(f)
           /\ plan # NoPlan => \A e \in EntityType : \A i \in Roots(d0, e) :
                 Expected(e, i)' = Expected(e, i)
<1>1. d0' = d0 /\ plan.selection \subseteq EntityType
  BY PlanTyped DEF d0
<1>2. \A f \in EntityType : Supporting(f)' = Supporting(f)
  BY <1>1 DEF Supporting, Roots
<1>3. ASSUME plan # NoPlan, NEW e \in EntityType, NEW i \in Roots(d0, e)
      PROVE  Expected(e, i)' = Expected(e, i)
  <2>1. \A r \in Source[d0][e][i].refs : r \in Ref
    BY <1>3, PlanTyped, SourceTyped
  <2>2. \A r \in Source[d0][e][i].refs : r[1] \in EntityType
    BY <2>1 DEF Ref
  <2> QED
    BY <1>1, <1>2, <2>2 DEF Expected, Supporting, Roots
<1> QED
  BY <1>1, <1>2, <1>3

LEMMA ExpectedSupported ==
    ASSUME TypeInv, plan # NoPlan, NEW e \in EntityType, NEW i \in Roots(d0, e)
    PROVE  /\ Expected(e, i) = {r \in Source[d0][e][i].refs : r[2] \in Supporting(r[1])}
           /\ \A r \in Expected(e, i) : r \in Ref /\ r[1] \in Requires[e]
<1>1. \A r \in Source[d0][e][i].refs : r \in Ref /\ r[1] \in Requires[e]
  BY PlanTyped, SourceTyped
<1> QED
  BY <1>1 DEF Expected, Supporting

\* Rows that are exact stay so while the invocations forget more.
LEMMA ExactFrame ==
    ASSUME TypeInv, plan' = plan, plan # NoPlan, forgotten \subseteq forgotten',
           \A f \in EntityType \ plan.selection : roots'[f] = roots[f],
           NEW e \in EntityType, NEW i \in Roots(d0, e), NEW R, Exact(e, i, R)
    PROVE  /\ R \subseteq Expected(e, i)'
           /\ \A r \in Expected(e, i)' : r[1] \in forgotten' \/ r \in R
BY SupportFrame DEF Exact

LEMMA LedgerFrame ==
    ASSUME TypeInv, LedgerInv, plan' = plan, forgotten \subseteq forgotten',
           \A f \in EntityType \ plan.selection : roots'[f] = roots[f],
           UNCHANGED <<relations, ledger, complete>>
    PROVE  LedgerInv'
<1>1. d0' = d0 /\ NoPlan' = NoPlan
  BY DEF d0, NoPlan
<1>2. \A e \in complete : ledger[e] = Chunks(d0, e)'
  BY <1>1 DEF LedgerInv, Chunks, Roots
<1>3. ASSUME NEW e \in EntityType, NEW i \in Id, plan # NoPlan, i \in Roots(d0, e),
             Source[d0][e][i].chunk \in ledger[e]
      PROVE  Exact(e, i, relations[e][i])'
  BY <1>3, ExactFrame DEF LedgerInv, Exact
<1> QED
  BY <1>1, <1>2, <1>3 DEF LedgerInv, Roots

\* A step that only lets roots of the selection, the cache and what is forgotten grow.
LEMMA WorkFrame ==
    ASSUME TypeInv, OpenInv, plan' = plan, plan # NoPlan, forgotten \subseteq forgotten',
           \A f \in EntityType \ plan.selection : roots'[f] = roots[f],
           \A f \in EntityType : roots[f] \subseteq roots'[f],
           cache' = cache,
           NEW t \in open, WorkReady(t)
    PROVE  WorkReady(t)'
<1>0. t \in WorkRow /\ t.entity \in EntityType
  BY DEF TypeInv, WorkRow
<1>1. d0' = d0 /\ \A f \in EntityType : Supporting(f)' = Supporting(f)
  BY SupportFrame
<1>2. \A r \in Ref : Backed(r) => Backed(r)'
  BY DEF Backed, Ref
<1>3. Requires[t.entity] \subseteq EntityType
  BY <1>0, ConstantsAssumption
<1>4. \A f \in EntityType : Known(f) => Known(f)'
  BY <1>1 DEF Known
<1>5. DOMAIN t.related \subseteq Id /\ \A i \in DOMAIN t.related : t.related[i] \subseteq Ref
  BY <1>0, RelatedTyped
<1>6. \A i \in DOMAIN t.related : i \in Roots(d0, t.entity)
  BY DEF OpenInv, WorkInv, ChunkRoots
<1>7. \A i \in DOMAIN t.related :
         Exact(t.entity, i, t.related[i]) => Exact(t.entity, i, t.related[i])'
  BY <1>0, <1>6, ExactFrame DEF Exact
<1>8. cache \subseteq Ref
  BY DEF TypeInv
<1>9. t.pass # "roots" =>
         /\ \A r \in cache' : r[1] \in Requires[t.entity] => Backed(r)'
         /\ \A f \in Requires[t.entity] : Known(f)'
  BY <1>2, <1>3, <1>4, <1>8 DEF WorkReady
<1>10. t.pass = "relations" =>
         \A i \in DOMAIN t.related :
            /\ \A r \in t.related[i] : Backed(r)'
            /\ Exact(t.entity, i, t.related[i])'
  BY <1>2, <1>5, <1>7 DEF WorkReady
<1> QED
  BY <1>9, <1>10 DEF WorkReady

-----------------------------------------------------------------------------
(***************************************************************************)
(* Steps between the passes and in the reader.                             *)
(***************************************************************************)
CacheInv ==
    /\ BackedInv
    /\ KnownInv
    /\ ReadyInv
    /\ LedgerInv
    /\ NoDanglingReference
    /\ ConfirmedNamesExist

LEMMA StartKeeps ==
    ASSUME TypeInv, ControlInv, CacheInv,
           NEW d \in Dump, NEW S \in Selections, NEW force \in BOOLEAN, Start(d, S, force)
    PROVE  CacheInv'
<1>1. /\ pc = "idle" /\ open = {} /\ open' = {} /\ pc' = "entity" /\ left' = S
      /\ plan' = [dump |-> d, selection |-> S] /\ plan'.selection = S
      /\ cache' = Preloaded(S)
      /\ roots' = roots /\ relations' = relations /\ names' = names /\ confirmed' = {}
  BY DEF Start, ControlInv, tables
<1>2. plan' # NoPlan /\ NoPlan' = NoPlan
  BY <1>1, ConstantsAssumption DEF NoPlan
<1>3. S \subseteq EntityType
  BY ConstantsAssumption
<1>4. \A r \in cache' : r \in Ref /\ r[1] \notin S /\ r[2] \in roots[r[1]]
  BY <1>1 DEF Preloaded, Unselected
<1>5. BackedInv'
  BY <1>1, <1>4 DEF BackedInv, Supporting, Backed
<1>6. \A f \in Needed' \ S : f \in EntityType /\ f \in Unselected(S)
  BY <1>1, <1>3, ConstantsAssumption DEF Needed, Unselected
<1>7. \A f \in Needed' \ S : {f} \X roots[f] \subseteq cache'
  <2> SUFFICES ASSUME NEW f \in Needed' \ S, NEW r \in {f} \X roots[f]
               PROVE  r \in cache'
    OBVIOUS
  <2>1. roots[f] \subseteq Id
    BY <1>6 DEF TypeInv
  <2>2. r \in Ref /\ r[1] = f /\ r[2] \in roots[f]
    BY <1>6, <2>1 DEF Ref
  <2> QED
    BY <1>1, <1>6, <2>2 DEF Preloaded
<1>8. KnownInv'
  BY <1>1, <1>7 DEF KnownInv, Known, Supporting
<1>9. ReadyInv'
  BY <1>1 DEF ReadyInv
<1>10. LedgerInv'
  <2>1. CASE status = "failed" /\ plan = [dump |-> d, selection |-> S] /\ ~force
    <3>1. plan' = plan /\ UNCHANGED <<relations, ledger, complete, roots, forgotten>>
      BY <1>1, <2>1 DEF Start
    <3> QED
      BY <3>1, LedgerFrame DEF CacheInv
  <2>2. CASE ~(status = "failed" /\ plan = [dump |-> d, selection |-> S] /\ ~force)
    <3>1. ledger' = [e \in EntityType |-> {}] /\ complete' = {}
      BY <2>2 DEF Start
    <3> QED
      BY <3>1 DEF LedgerInv
  <2> QED
    BY <2>1, <2>2
<1>11. NoDanglingReference' /\ ConfirmedNamesExist'
  BY <1>1 DEF CacheInv, NoDanglingReference, ConfirmedNamesExist
<1> QED
  BY <1>5, <1>8, <1>9, <1>10, <1>11 DEF CacheInv

LEMMA SkipEntityKeeps ==
    ASSUME TypeInv, ControlInv, OpenInv, CacheInv, NEW e \in left, SkipEntity(e)
    PROVE  CacheInv'
<1>1. /\ pc = "entity" /\ pc' \in {"entity", "finished"} /\ left' = left \ {e}
      /\ forgotten' = forgotten \cup {e}
      /\ UNCHANGED <<tables, ledger, complete, plan, open, cache, confirmed>>
      /\ plan # NoPlan /\ open = {}
  BY DEF SkipEntity, ControlInv
<1>2. UNCHANGED <<roots, names, relations>>
  BY <1>1 DEF tables
<1>3. d0' = d0 /\ \A f \in EntityType : Supporting(f)' = Supporting(f)
  BY <1>1, <1>2, SupportFrame
<1>4. \A r \in cache : r[1] \in EntityType
  BY DEF TypeInv, Ref
<1>5. BackedInv'
  BY <1>1, <1>2, <1>3, <1>4 DEF CacheInv, BackedInv, Backed
<1>6. Needed' = Needed /\ Needed \subseteq EntityType
  BY <1>1, PlanTyped, ConstantsAssumption DEF Needed
<1>7. KnownInv'
  BY <1>1, <1>3, <1>6 DEF CacheInv, KnownInv, Known
<1>8. ReadyInv'
  BY <1>1 DEF ReadyInv
<1>9. LedgerInv'
  BY <1>1, <1>2, LedgerFrame DEF CacheInv
<1>10. NoDanglingReference' /\ ConfirmedNamesExist'
  BY <1>1, <1>2 DEF CacheInv, NoDanglingReference, ConfirmedNamesExist
<1> QED
  BY <1>5, <1>7, <1>8, <1>9, <1>10 DEF CacheInv

LEMMA StartEntityKeeps ==
    ASSUME TypeInv, ControlInv, OpenInv, CacheInv, NEW e \in left, StartEntity(e)
    PROVE  CacheInv'
<1>1. /\ pc = "entity" /\ pc' = (IF e \in TwoPass THEN "roots" ELSE "relations")
      /\ left' = left \ {e} /\ entity' = e /\ todo' = Chunks(d0, e)
      /\ UNCHANGED <<tables, record, open, cache, confirmed>>
      /\ plan # NoPlan /\ open = {}
  BY DEF StartEntity, ControlInv
<1>2. UNCHANGED <<roots, names, relations, plan, forgotten, ledger, complete>>
  BY <1>1 DEF tables, record
<1>3. d0' = d0 /\ \A f \in EntityType : Supporting(f)' = Supporting(f)
  BY <1>2, SupportFrame
<1>4. \A r \in cache : r[1] \in EntityType
  BY DEF TypeInv, Ref
<1>5. BackedInv'
  BY <1>1, <1>2, <1>3, <1>4 DEF CacheInv, BackedInv, Backed
<1>6. Needed' = Needed /\ Needed \subseteq EntityType
  BY <1>2, PlanTyped, ConstantsAssumption DEF Needed
<1>7. \A i \in Roots(d0, e) : Source[d0][e][i].chunk \in todo'
  BY <1>1 DEF Chunks
<1>8. \A f \in Needed \ (left' \cup {e}) : Known(f)'
  BY <1>1, <1>2, <1>3, <1>6 DEF CacheInv, KnownInv, Known
<1>9. KnownInv'
  BY <1>1, <1>3, <1>6, <1>7, <1>8 DEF KnownInv, Roots
<1>10. ReadyInv'
  BY <1>1 DEF ReadyInv
<1>11. LedgerInv'
  BY <1>2, LedgerFrame DEF CacheInv
<1>12. NoDanglingReference' /\ ConfirmedNamesExist'
  BY <1>1, <1>2 DEF CacheInv, NoDanglingReference, ConfirmedNamesExist
<1> QED
  BY <1>5, <1>9, <1>10, <1>11, <1>12 DEF CacheInv

LEMMA TransformKeeps ==
    ASSUME TypeInv, ControlInv, OpenInv, CacheInv, NEW k \in todo, TransformRoots(k)
    PROVE  CacheInv'
<1> DEFINE ids == ChunkRoots(d0, entity, k)
           w   == Work("roots", entity, k, {})
<1>1. /\ pc = "roots" /\ pc' = pc /\ left' = left /\ entity' = entity /\ todo' = todo \ {k}
      /\ cache' = cache \cup Identifiers(entity, ids) /\ open' = open \cup {w}
      /\ UNCHANGED <<tables, record, confirmed>>
      /\ plan # NoPlan /\ entity \in plan.selection
  BY DEF TransformRoots, ControlInv
<1>2. UNCHANGED <<roots, names, relations, plan, forgotten, ledger, complete>>
  BY <1>1 DEF tables, record
<1>3. /\ d0' = d0 /\ \A f \in EntityType : Supporting(f)' = Supporting(f)
      /\ entity \in EntityType /\ k \in Nat
  BY <1>1, <1>2, SupportFrame, PlanTyped DEF TypeInv
<1>4. w.pass = "roots" /\ DOMAIN w.related = ids
  <2>1. {} \in SUBSET Id
    OBVIOUS
  <2> QED
    BY <1>1, <1>3, <2>1, WorkTyped
<1>5. /\ \A r \in Identifiers(entity, ids) : r[1] = entity /\ r[2] \in ids
      /\ entity \in Identified => \A i \in ids : <<entity, i>> \in Identifiers(entity, ids)
  BY DEF Identifiers
<1>6. ids \subseteq Roots(d0, entity) /\ \A r \in cache : r[1] \in EntityType
  BY DEF ChunkRoots, TypeInv, Ref
<1> HIDE DEF w
<1>7. BackedInv'
  <2>1. \A r \in cache' : r[2] \in Supporting(r[1])'
    <3>1. \A r \in cache : r[2] \in Supporting(r[1])'
      BY <1>3, <1>6 DEF CacheInv, BackedInv
    <3>2. \A r \in Identifiers(entity, ids) : r[2] \in Supporting(r[1])'
      BY <1>1, <1>3, <1>5, <1>6 DEF Supporting
    <3> QED
      BY <1>1, <3>1, <3>2
  <2>2. \A r \in cache' : Backed(r)' \/ (r[1] = entity /\ \E t \in open' : r[2] \in DOMAIN t.related)
    BY <1>1, <1>2, <1>4, <1>5 DEF CacheInv, BackedInv, Backed
  <2> QED
    BY <1>1, <2>1, <2>2 DEF BackedInv
<1>8. Needed' = Needed /\ Needed \subseteq EntityType /\ Needed \subseteq Identified
  BY <1>2, PlanTyped, ConstantsAssumption DEF Needed, Identified
<1>9. \A f \in EntityType : Known(f) => Known(f)'
  BY <1>1, <1>2, <1>3 DEF Known
<1>10. \A i \in Roots(d0, entity) : Source[d0][entity][i].chunk = k => i \in ids
  BY DEF ChunkRoots
<1>11. KnownInv'
  <2>1. entity \in Needed => \A i \in Roots(d0, entity) :
           Source[d0][entity][i].chunk \in todo' \/ <<entity, i>> \in cache'
    BY <1>1, <1>5, <1>8, <1>10 DEF CacheInv, KnownInv
  <2>2. \A f \in Needed \ (left \cup {entity}) : Known(f)'
    BY <1>1, <1>8, <1>9 DEF CacheInv, KnownInv
  <2> QED
    BY <1>1, <1>3, <1>8, <2>1, <2>2 DEF KnownInv, Roots
<1>12. ReadyInv'
  <2>1. \A t \in open' : t.pass = "roots"
    BY <1>1, <1>4 DEF OpenInv, WorkInv
  <2> QED
    BY <2>1 DEF ReadyInv, WorkReady
<1>13. LedgerInv'
  BY <1>2, LedgerFrame DEF CacheInv
<1>14. NoDanglingReference' /\ ConfirmedNamesExist'
  BY <1>1, <1>2 DEF CacheInv, NoDanglingReference, ConfirmedNamesExist
<1> QED
  BY <1>7, <1>11, <1>12, <1>13, <1>14 DEF CacheInv

LEMMA StartRelationsKeeps ==
    ASSUME TypeInv, ControlInv, OpenInv, CacheInv, StartRelations
    PROVE  CacheInv'
<1>1. /\ pc = "roots" /\ pc' = "relations" /\ left' = left /\ entity' = entity
      /\ todo = {} /\ open = {}
      /\ UNCHANGED <<tables, record, open, cache, confirmed>>
      /\ plan # NoPlan /\ entity \in plan.selection /\ entity \in TwoPass
  BY DEF StartRelations, RootsWritten, ControlInv
<1>2. UNCHANGED <<roots, names, relations, plan, forgotten, ledger, complete>>
  BY <1>1 DEF tables, record
<1>3. d0' = d0 /\ \A f \in EntityType : Supporting(f)' = Supporting(f)
  BY <1>2, SupportFrame
<1>4. \A r \in cache : r[1] \in EntityType
  BY DEF TypeInv, Ref
<1>5. BackedInv'
  BY <1>1, <1>2, <1>3, <1>4 DEF CacheInv, BackedInv, Backed
<1>6. Needed' = Needed /\ Needed \subseteq EntityType
  BY <1>2, PlanTyped, ConstantsAssumption DEF Needed
<1>7. \A f \in EntityType : Known(f) => Known(f)'
  BY <1>1, <1>2, <1>3 DEF Known
<1>8. entity \in Needed => Known(entity)
  BY <1>1 DEF CacheInv, KnownInv, Known, Supporting
<1>9. KnownInv'
  BY <1>1, <1>6, <1>7, <1>8 DEF CacheInv, KnownInv
<1>10. ReadyInv'
  BY <1>1 DEF ReadyInv
<1>11. LedgerInv'
  BY <1>2, LedgerFrame DEF CacheInv
<1>12. NoDanglingReference' /\ ConfirmedNamesExist'
  BY <1>1, <1>2 DEF CacheInv, NoDanglingReference, ConfirmedNamesExist
<1> QED
  BY <1>5, <1>9, <1>10, <1>11, <1>12 DEF CacheInv

LEMMA SkipChunkKeeps ==
    ASSUME TypeInv, ControlInv, OpenInv, CacheInv, NEW k \in todo, SkipChunk(k)
    PROVE  CacheInv'
<1>1. /\ pc = "relations" /\ pc' = pc /\ left' = left /\ entity' = entity
      /\ todo' = todo \ {k}
      /\ forgotten' = (IF entity \in TwoPass THEN forgotten ELSE forgotten \cup {entity})
      /\ UNCHANGED <<tables, ledger, complete, plan, open, cache, confirmed>>
      /\ plan # NoPlan /\ entity \in plan.selection
  BY DEF SkipChunk, ControlInv
<1>2. UNCHANGED <<roots, names, relations, plan, ledger, complete>>
  BY <1>1 DEF tables
<1>3. d0' = d0 /\ \A f \in EntityType : Supporting(f)' = Supporting(f)
  BY <1>2, SupportFrame
<1>4. (\A r \in cache : r[1] \in EntityType) /\ forgotten \subseteq forgotten'
  BY <1>1 DEF TypeInv, Ref
<1>5. BackedInv'
  BY <1>1, <1>2, <1>3, <1>4 DEF CacheInv, BackedInv, Backed
<1>6. Needed' = Needed /\ Needed \subseteq EntityType
  BY <1>2, PlanTyped, ConstantsAssumption DEF Needed
<1>7. \A f \in EntityType : Known(f) => Known(f)'
  BY <1>1, <1>3, <1>4 DEF Known
<1>8. entity \notin TwoPass => entity \in forgotten'
  BY <1>1
<1>9. KnownInv'
  BY <1>1, <1>6, <1>7, <1>8 DEF CacheInv, KnownInv
<1>10. ReadyInv'
  BY <1>1, <1>2, <1>4, WorkFrame DEF CacheInv, ReadyInv
<1>11. LedgerInv'
  BY <1>2, <1>4, LedgerFrame DEF CacheInv
<1>12. NoDanglingReference' /\ ConfirmedNamesExist'
  BY <1>1, <1>2 DEF CacheInv, NoDanglingReference, ConfirmedNamesExist
<1> QED
  BY <1>5, <1>9, <1>10, <1>11, <1>12 DEF CacheInv

\* What an entity type refers to is known and written when its relations are read.
LEMMA ReferencesReady ==
    ASSUME TypeInv, ControlInv, OpenInv, BackedInv, KnownInv, pc = "relations"
    PROVE  /\ \A r \in cache : r[1] \in Requires[entity] => Backed(r)
           /\ \A f \in Requires[entity] : Known(f)
<1>1. entity \in plan.selection /\ entity \in EntityType
  BY PlanTyped DEF ControlInv
<1>2. Requires[entity] \subseteq EntityType /\ Requires[entity] \subseteq Needed
  BY <1>1, ConstantsAssumption DEF Needed
<1>3. entity \in Requires[entity] => entity \in TwoPass
  BY <1>1, ConstantsAssumption
<1>4. \A f \in Requires[entity] \ {entity} : f \notin left
  <2> SUFFICES ASSUME NEW f \in Requires[entity] \ {entity}, f \in left
               PROVE  FALSE
    OBVIOUS
  <2>1. Rank[f] < Rank[entity] /\ Rank[entity] < Rank[f]
    BY <1>1, ConstantsAssumption DEF ControlInv
  <2>2. Rank[f] \in Nat /\ Rank[entity] \in Nat
    BY <1>1, <1>2, ConstantsAssumption
  <2> QED
    BY <2>1, <2>2
<1>5. \A f \in Requires[entity] : Known(f)
  BY <1>2, <1>3, <1>4 DEF KnownInv
<1>6. \A r \in cache : r[1] \in Requires[entity] => Backed(r)
  BY <1>3 DEF BackedInv
<1> QED
  BY <1>5, <1>6

LEMMA ReadChunkKeeps ==
    ASSUME TypeInv, ControlInv, OpenInv, CacheInv, NEW k \in todo, ReadChunk(k)
    PROVE  CacheInv'
<1> DEFINE ids == IF entity \in Identified \ TwoPass THEN ChunkRoots(d0, entity, k) ELSE {}
           w   == Work("rows", entity, k, ids)
<1>1. /\ pc = "relations" /\ pc' = pc /\ left' = left /\ entity' = entity
      /\ todo' = todo \ {k} /\ open' = open \cup {w}
      /\ UNCHANGED <<tables, record, cache, confirmed>>
      /\ plan # NoPlan /\ entity \in plan.selection
  BY DEF ReadChunk, ControlInv
<1>2. UNCHANGED <<roots, names, relations, plan, forgotten, ledger, complete>>
  BY <1>1 DEF tables, record
<1>3. /\ d0' = d0 /\ \A f \in EntityType : Supporting(f)' = Supporting(f)
      /\ entity \in EntityType /\ k \in Nat
  BY <1>1, <1>2, SupportFrame, PlanTyped DEF TypeInv
<1>4. ids \in SUBSET Id
  BY <1>1, <1>3, PlanTyped, SourceTyped DEF ChunkRoots
<1>5. w.pass = "rows" /\ w.entity = entity /\ w.adding = ids
  <2> HIDE DEF ids
  <2> QED
    BY <1>1, <1>3, <1>4, WorkTyped
<1>6. \A r \in cache : r[1] \in EntityType
  BY DEF TypeInv, Ref
<1>7. Needed' = Needed /\ Needed \subseteq EntityType /\ Needed \subseteq Identified
  BY <1>2, PlanTyped, ConstantsAssumption DEF Needed, Identified
<1>8. entity \in Needed \ TwoPass =>
         \A i \in Roots(d0, entity) : Source[d0][entity][i].chunk = k => i \in ids
  BY <1>7 DEF ChunkRoots
<1> HIDE DEF w, ids
<1>9. BackedInv'
  BY <1>1, <1>2, <1>3, <1>6 DEF CacheInv, BackedInv, Backed
<1>10. \A f \in EntityType : Known(f) => Known(f)'
  BY <1>1, <1>2, <1>3 DEF Known
<1>11. KnownInv'
  <2>1. \A f \in Needed \ (left \cup {entity}) : Known(f)'
    BY <1>1, <1>7, <1>10 DEF CacheInv, KnownInv
  <2>2. entity \in Needed /\ entity \in TwoPass => Known(entity)'
    BY <1>1, <1>3, <1>10 DEF CacheInv, KnownInv
  <2>3. entity \in Needed \ TwoPass /\ entity \notin forgotten =>
           \A i \in Roots(d0, entity) :
              \/ Source[d0][entity][i].chunk \in todo'
              \/ <<entity, i>> \in cache
              \/ \E t \in open' : i \in t.adding
    BY <1>1, <1>5, <1>8 DEF CacheInv, KnownInv
  <2>4. Roots(d0, entity)' = Roots(d0, entity)
    BY <1>1, <1>3 DEF Roots
  <2> QED
    BY <1>1, <1>2, <1>3, <1>7, <2>1, <2>2, <2>3, <2>4 DEF KnownInv
<1>12. ReadyInv'
  <2>1. \A t \in open : WorkReady(t)'
    BY <1>1, <1>2, WorkFrame DEF CacheInv, ReadyInv
  <2>2. /\ \A r \in cache : r[1] \in Requires[entity] => Backed(r)
        /\ \A f \in Requires[entity] : Known(f)
    BY <1>1, ReferencesReady DEF CacheInv
  <2>3. /\ \A r \in cache' : r[1] \in Requires[entity] => Backed(r)'
        /\ \A f \in Requires[entity] : Known(f)'
    BY <1>1, <1>2, <1>3, <1>10, <2>2, ConstantsAssumption DEF Backed
  <2>4. \A t : t = w => WorkReady(t)'
    BY <1>5, <2>3 DEF WorkReady
  <2> QED
    BY <1>1, <2>1, <2>4 DEF ReadyInv
<1>13. LedgerInv'
  BY <1>2, LedgerFrame DEF CacheInv
<1>14. NoDanglingReference' /\ ConfirmedNamesExist'
  BY <1>1, <1>2 DEF CacheInv, NoDanglingReference, ConfirmedNamesExist
<1> QED
  BY <1>9, <1>11, <1>12, <1>13, <1>14 DEF CacheInv

LEMMA CompleteEntityKeeps ==
    ASSUME TypeInv, ControlInv, OpenInv, CacheInv, CompleteEntity
    PROVE  CacheInv'
<1>1. /\ pc = "relations" /\ pc' \in {"entity", "finished"} /\ left' = left
      /\ todo = {} /\ open = {} /\ ledger[entity] = Chunks(d0, entity)
      /\ complete' = complete \cup {entity}
      /\ UNCHANGED <<roots, names, relations, ledger, plan, forgotten, open, cache, confirmed>>
      /\ plan # NoPlan /\ entity \in plan.selection
  BY DEF CompleteEntity, ControlInv
<1>2. /\ d0' = d0 /\ \A f \in EntityType : Supporting(f)' = Supporting(f)
      /\ entity \in EntityType
  BY <1>1, SupportFrame, PlanTyped
<1>3. \A r \in cache : r[1] \in EntityType
  BY DEF TypeInv, Ref
<1>4. BackedInv'
  BY <1>1, <1>2, <1>3 DEF CacheInv, BackedInv, Backed
<1>5. Needed' = Needed /\ Needed \subseteq EntityType
  BY <1>1, PlanTyped, ConstantsAssumption DEF Needed
<1>6. \A f \in EntityType : Known(f) => Known(f)'
  BY <1>1, <1>2 DEF Known
<1>7. entity \in Needed => Known(entity)
  <2>1. CASE entity \in TwoPass
    BY <1>1, <2>1 DEF CacheInv, KnownInv
  <2>2. CASE entity \notin TwoPass
    BY <1>1, <2>2 DEF CacheInv, KnownInv, Known, Supporting
  <2> QED
    BY <2>1, <2>2
<1>8. \A f \in Needed \ left : Known(f)
  BY <1>1, <1>7 DEF CacheInv, KnownInv
<1>9. KnownInv'
  BY <1>1, <1>5, <1>6, <1>8 DEF KnownInv
<1>10. ReadyInv'
  BY <1>1 DEF ReadyInv
<1>11. LedgerInv'
  <2>1. NoPlan' = NoPlan
    BY DEF NoPlan
  <2>2. \A e \in complete' : ledger[e] = Chunks(d0, e)'
    BY <1>1, <1>2 DEF CacheInv, LedgerInv, Chunks, Roots
  <2>3. ASSUME NEW e \in EntityType, NEW i \in Id, i \in Roots(d0, e),
               Source[d0][e][i].chunk \in ledger[e]
        PROVE  Exact(e, i, relations[e][i])'
    BY <1>1, <2>3, ExactFrame DEF CacheInv, LedgerInv, Exact
  <2> QED
    BY <1>1, <1>2, <2>1, <2>2, <2>3 DEF LedgerInv, Roots
<1>12. NoDanglingReference' /\ ConfirmedNamesExist'
  BY <1>1 DEF CacheInv, NoDanglingReference, ConfirmedNamesExist
<1> QED
  BY <1>4, <1>9, <1>10, <1>11, <1>12 DEF CacheInv

LEMMA EndRunKeeps ==
    ASSUME TypeInv, ControlInv, CacheInv, Succeed \/ Fail
    PROVE  CacheInv'
<1>1. /\ pc' = "idle" /\ open' = {} /\ cache' = {} /\ confirmed' = {}
      /\ UNCHANGED <<tables, ledger, complete, plan, forgotten>>
  BY DEF Succeed, Fail, EndRun
<1>2. UNCHANGED <<roots, names, relations>>
  BY <1>1 DEF tables
<1>3. BackedInv' /\ KnownInv' /\ ReadyInv'
  BY <1>1 DEF BackedInv, KnownInv, ReadyInv
<1>4. LedgerInv'
  BY <1>1, <1>2, LedgerFrame DEF CacheInv
<1>5. NoDanglingReference' /\ ConfirmedNamesExist'
  BY <1>1, <1>2 DEF CacheInv, NoDanglingReference, ConfirmedNamesExist
<1> QED
  BY <1>3, <1>4, <1>5 DEF CacheInv

-----------------------------------------------------------------------------
(***************************************************************************)
(* Steps of the workers.                                                   *)
(***************************************************************************)
LEMMA AddKeeps ==
    ASSUME TypeInv, ControlInv, OpenInv, CacheInv, NEW t \in open, NEW i \in t.adding,
           AddIdentifier(t, i)
    PROVE  CacheInv'
<1> DEFINE added  == [t EXCEPT !.adding = @ \ {i}, !.missed = FALSE]
           missed == [t EXCEPT !.missed = TRUE]
<1>1. /\ pc' = pc /\ left' = left /\ entity' = entity /\ todo' = todo
      /\ UNCHANGED <<tables, record, confirmed>>
      /\ plan # NoPlan /\ t.entity = entity /\ entity \in plan.selection
      /\ t.pass = "rows" /\ entity \notin TwoPass /\ pc \in {"relations", "failing"}
      /\ t.adding \subseteq DOMAIN t.related
  BY DEF AddIdentifier, ControlInv, OpenInv, WorkInv, TypeInv
<1>2. UNCHANGED <<roots, names, relations, plan, forgotten, ledger, complete>>
  BY <1>1 DEF tables, record
<1>3. /\ d0' = d0 /\ \A f \in EntityType : Supporting(f)' = Supporting(f)
      /\ entity \in EntityType /\ t \in WorkRow
  BY <1>1, <1>2, SupportFrame, PlanTyped DEF TypeInv
<1>4. /\ added.pass = "rows" /\ added.entity = entity /\ added.related = t.related
      /\ added.adding = t.adding \ {i}
      /\ missed.pass = "rows" /\ missed.entity = entity /\ missed.related = t.related
      /\ missed.adding = t.adding
  BY <1>1, <1>3 DEF WorkRow
<1> HIDE DEF added, missed
<1>5. \/ /\ open' = (open \ {t}) \cup {added}
         /\ cache' = cache \cup Identifiers(entity, {i})
      \/ /\ open' = (open \ {t}) \cup {missed}
         /\ cache' = cache
  BY <1>1 DEF AddIdentifier, LoadOrStoreSegment, added, missed
<1>6. /\ \A r \in Identifiers(entity, {i}) : r[1] = entity /\ r[2] = i
      /\ entity \in Identified => <<entity, i>> \in Identifiers(entity, {i})
  BY DEF Identifiers
<1>7. /\ \A r \in cache : r[1] \in EntityType
      /\ i \in Roots(d0, entity) /\ i \in DOMAIN t.related
  BY <1>1 DEF TypeInv, Ref, OpenInv, WorkInv, ChunkRoots
<1>8. entity \notin Requires[entity]
  BY <1>1, <1>3, ConstantsAssumption
<1>9. \A r \in cache' : r \in cache \/ (r[1] = entity /\ r[2] = i)
  BY <1>5, <1>6
<1>10. BackedInv'
  <2>1. \A r \in cache' : r[2] \in Supporting(r[1])'
    <3>1. \A r \in cache : r[2] \in Supporting(r[1])'
      BY <1>3, <1>7 DEF CacheInv, BackedInv
    <3>2. \A r : r[1] = entity /\ r[2] = i => r[2] \in Supporting(r[1])'
      BY <1>1, <1>2, <1>3, <1>7 DEF Supporting, Roots
    <3> QED
      BY <1>9, <3>1, <3>2
  <2>2. \A j : (\E s \in open : j \in DOMAIN s.related) =>
               \E s \in open' : j \in DOMAIN s.related
    BY <1>4, <1>5
  <2>3. \E s \in open : i \in DOMAIN s.related
    BY <1>7
  <2>4. pc = "relations" =>
           \A r \in cache' :
              Backed(r)' \/ (r[1] = entity /\ \E s \in open' : r[2] \in DOMAIN s.related)
    BY <1>2, <1>9, <2>2, <2>3 DEF CacheInv, BackedInv, Backed
  <2> QED
    BY <1>1, <2>1, <2>4 DEF BackedInv
<1>11. Needed' = Needed /\ Needed \subseteq EntityType /\ Needed \subseteq Identified
  BY <1>2, PlanTyped, ConstantsAssumption DEF Needed, Identified
<1>12. \A f \in EntityType : Known(f) => Known(f)'
  BY <1>2, <1>3, <1>5 DEF Known
<1>13. KnownInv'
  <2>1. pc = "relations" => \A f \in Needed \ (left \cup {entity}) : Known(f)'
    BY <1>11, <1>12 DEF CacheInv, KnownInv
  <2>2. ASSUME entity \in Needed, NEW j, \E s \in open : j \in s.adding
        PROVE  <<entity, j>> \in cache' \/ \E s \in open' : j \in s.adding
    BY <1>4, <1>5, <1>6, <1>11, <2>2
  <2>3. pc = "relations" /\ entity \in Needed /\ entity \notin forgotten =>
           \A j \in Roots(d0, entity) :
              \/ Source[d0][entity][j].chunk \in todo
              \/ <<entity, j>> \in cache'
              \/ \E s \in open' : j \in s.adding
    <3> SUFFICES ASSUME pc = "relations", entity \in Needed, entity \notin forgotten,
                        NEW j \in Roots(d0, entity)
                 PROVE  \/ Source[d0][entity][j].chunk \in todo
                        \/ <<entity, j>> \in cache'
                        \/ \E s \in open' : j \in s.adding
      OBVIOUS
    <3>1. \/ Source[d0][entity][j].chunk \in todo
          \/ <<entity, j>> \in cache
          \/ \E s \in open : j \in s.adding
      BY <1>1 DEF CacheInv, KnownInv
    <3>2. cache \subseteq cache'
      BY <1>5
    <3> QED
      BY <2>2, <3>1, <3>2
  <2>4. Roots(d0, entity)' = Roots(d0, entity)
    BY <1>1, <1>3 DEF Roots
  <2> QED
    BY <1>1, <1>2, <1>3, <1>11, <2>1, <2>3, <2>4 DEF KnownInv
<1>14. ReadyInv'
  <2>1. ASSUME NEW s \in open
        PROVE  WorkReady(s)'
    <3>1. WorkReady(s) /\ s.entity = entity /\ s \in WorkRow /\ s.entity \in EntityType
      BY <1>1, <1>3 DEF CacheInv, ReadyInv, OpenInv, WorkInv, TypeInv
    <3>2. \A r : Backed(r)' = Backed(r)
      BY <1>2 DEF Backed
    <3>3. \A j \in DOMAIN s.related : j \in Roots(d0, s.entity)
      BY <3>1 DEF OpenInv, WorkInv, ChunkRoots
    <3>4. \A j \in DOMAIN s.related :
             Exact(s.entity, j, s.related[j]) => Exact(s.entity, j, s.related[j])'
      BY <1>1, <1>2, <1>3, <3>1, <3>3, ExactFrame DEF Exact
    <3>5. Requires[s.entity] \subseteq EntityType
      BY <3>1, ConstantsAssumption
    <3>6. s.pass # "roots" =>
             /\ \A r \in cache' : r[1] \in Requires[s.entity] => Backed(r)'
             /\ \A f \in Requires[s.entity] : Known(f)'
      BY <1>8, <1>9, <1>12, <3>1, <3>2, <3>5 DEF WorkReady
    <3> QED
      BY <3>1, <3>2, <3>4, <3>6 DEF WorkReady
  <2>2. \A s : s = added \/ s = missed =>
           s.pass = "rows" /\ s.entity = t.entity
    BY <1>1, <1>4
  <2>3. /\ \A r \in cache' : r[1] \in Requires[t.entity] => Backed(r)'
        /\ \A f \in Requires[t.entity] : Known(f)'
    BY <1>1, <2>1 DEF WorkReady
  <2>4. \A s : s = added \/ s = missed => WorkReady(s)'
    BY <2>2, <2>3 DEF WorkReady
  <2> QED
    BY <1>5, <2>1, <2>4 DEF ReadyInv
<1>15. LedgerInv'
  BY <1>2, LedgerFrame DEF CacheInv
<1>16. NoDanglingReference' /\ ConfirmedNamesExist'
  BY <1>1, <1>2 DEF CacheInv, NoDanglingReference, ConfirmedNamesExist
<1> QED
  BY <1>10, <1>13, <1>14, <1>15, <1>16 DEF CacheInv

LEMMA BuildKeeps ==
    ASSUME TypeInv, ControlInv, OpenInv, CacheInv, NEW t \in open, BuildRows(t)
    PROVE  CacheInv'
<1> DEFINE rel   == [i \in DOMAIN t.related |-> Supported(t.entity, i, cache)]
           pend  == Pending(t.entity, DOMAIN t.related)
           built == [t EXCEPT !.pass = "relations", !.related = rel, !.pending = pend]
<1>1. /\ pc' = pc /\ left' = left /\ entity' = entity /\ todo' = todo
      /\ UNCHANGED <<tables, record, cache, confirmed>>
      /\ plan # NoPlan /\ t.entity = entity /\ entity \in plan.selection
      /\ t.pass = "rows" /\ t.adding = {}
      /\ open' = (open \ {t}) \cup {built}
  BY DEF BuildRows, ControlInv, OpenInv, WorkInv
<1>2. UNCHANGED <<roots, names, relations, plan, forgotten, ledger, complete>>
  BY <1>1 DEF tables, record
<1>3. /\ d0' = d0 /\ \A f \in EntityType : Supporting(f)' = Supporting(f)
      /\ entity \in EntityType /\ t \in WorkRow
  BY <1>1, <1>2, SupportFrame, PlanTyped DEF TypeInv
<1>4. DOMAIN rel = DOMAIN t.related /\ \A i \in DOMAIN rel : rel[i] = Supported(entity, i, cache)
  BY <1>1
<1> HIDE DEF rel, pend
<1>5. /\ built.pass = "relations" /\ built.entity = entity /\ built.related = rel
      /\ built.adding = {}
  BY <1>1, <1>3 DEF WorkRow
<1> HIDE DEF built
<1>6. (\A r \in cache : r[1] \in EntityType /\ r \in Ref) /\ Requires[entity] \subseteq EntityType
  BY <1>3, ConstantsAssumption DEF TypeInv, Ref
<1>7. BackedInv'
  <2>1. \A j : (\E s \in open : j \in DOMAIN s.related) =>
               \E s \in open' : j \in DOMAIN s.related
    BY <1>1, <1>4, <1>5
  <2> QED
    BY <1>1, <1>2, <1>3, <1>6, <2>1 DEF CacheInv, BackedInv, Backed
<1>8. Needed' = Needed /\ Needed \subseteq EntityType
  BY <1>2, PlanTyped, ConstantsAssumption DEF Needed
<1>9. \A f \in EntityType : Known(f) => Known(f)'
  BY <1>1, <1>2, <1>3 DEF Known
<1>10. KnownInv'
  <2>1. \A j : (\E s \in open : j \in s.adding) => \E s \in open' : j \in s.adding
    BY <1>1
  <2>2. Roots(d0, entity)' = Roots(d0, entity)
    BY <1>1, <1>3 DEF Roots
  <2>3. pc = "relations" => \A f \in Needed \ (left \cup {entity}) : Known(f)'
    BY <1>8, <1>9 DEF CacheInv, KnownInv
  <2>4. pc = "relations" /\ entity \in Needed /\ entity \in TwoPass => Known(entity)'
    BY <1>1, <1>3, <1>9 DEF CacheInv, KnownInv
  <2>5. pc \notin {"entity", "roots"}
    BY <1>1 DEF ControlInv, OpenInv, WorkInv
  <2> QED
    BY <1>1, <1>2, <1>3, <1>8, <2>1, <2>2, <2>3, <2>4, <2>5 DEF CacheInv, KnownInv
<1>11. ReadyInv'
  <2>1. \A s \in open : WorkReady(s)'
    BY <1>1, <1>2, WorkFrame DEF CacheInv, ReadyInv
  <2>2. /\ \A r \in cache : r[1] \in Requires[entity] => Backed(r)
        /\ \A f \in Requires[entity] : Known(f)
    BY <1>1 DEF CacheInv, ReadyInv, WorkReady
  <2>3. ASSUME NEW i \in DOMAIN t.related
        PROVE  /\ \A r \in rel[i] : Backed(r)
               /\ Exact(entity, i, rel[i])
    <3>1. i \in Roots(d0, entity)
      BY <1>1 DEF OpenInv, WorkInv, ChunkRoots
    <3>2. rel[i] = Source[d0][entity][i].refs \cap cache
      BY <1>4 DEF Supported
    <3>3. \A r \in Source[d0][entity][i].refs : r \in Ref /\ r[1] \in Requires[entity]
      BY <1>1, <1>3, <3>1, PlanTyped, SourceTyped
    <3>4. Expected(entity, i) = {r \in Source[d0][entity][i].refs : r[2] \in Supporting(r[1])}
      BY <1>1, <1>3, <3>1, ExpectedSupported
    <3>5. \A r \in rel[i] : Backed(r) /\ r \in Expected(entity, i)
      BY <2>2, <3>2, <3>3, <3>4 DEF CacheInv, BackedInv
    <3>6. ASSUME NEW r \in Expected(entity, i), r[1] \notin forgotten
          PROVE  r \in rel[i]
      <4>1. r \in Ref /\ r[1] \in Requires[entity] /\ r[2] \in Supporting(r[1])
        BY <3>3, <3>4
      <4>2. {r[1]} \X Supporting(r[1]) \subseteq cache
        BY <2>2, <3>6, <4>1 DEF Known
      <4>3. r = <<r[1], r[2]>>
        BY <4>1 DEF Ref
      <4>4. <<r[1], r[2]>> \in {r[1]} \X Supporting(r[1])
        BY <4>1
      <4> QED
        BY <3>2, <3>4, <4>2, <4>3, <4>4
    <3> QED
      BY <3>5, <3>6 DEF Exact
  <2>4. \A s : s = built => WorkReady(s)'
    <3> SUFFICES ASSUME NEW s, s = built PROVE WorkReady(s)'
      OBVIOUS
    <3>1. s.pass = "relations" /\ s.entity = entity /\ s.related = rel
      BY <1>5
    <3>2. /\ \A r \in cache' : r[1] \in Requires[entity] => Backed(r)'
          /\ \A f \in Requires[entity] : Known(f)'
      BY <1>1, <1>2, <1>6, <1>9, <2>2 DEF Backed
    <3>3. ASSUME NEW i \in DOMAIN s.related
          PROVE  /\ \A r \in s.related[i] : Backed(r)'
                 /\ Exact(s.entity, i, s.related[i])'
      <4>1. i \in DOMAIN t.related /\ i \in Roots(d0, s.entity)
        BY <1>1, <1>4, <3>1 DEF OpenInv, WorkInv, ChunkRoots
      <4>2. (\A r \in s.related[i] : Backed(r)) /\ Exact(s.entity, i, s.related[i])
        BY <2>3, <3>1, <4>1
      <4> QED
        BY <1>1, <1>2, <1>3, <3>1, <4>1, <4>2, ExactFrame DEF Exact, Backed
    <3> QED
      BY <3>1, <3>2, <3>3 DEF WorkReady
  <2> QED
    BY <1>1, <2>1, <2>4 DEF ReadyInv
<1>12. LedgerInv'
  BY <1>2, LedgerFrame DEF CacheInv
<1>13. NoDanglingReference' /\ ConfirmedNamesExist'
  BY <1>1, <1>2 DEF CacheInv, NoDanglingReference, ConfirmedNamesExist
<1> QED
  BY <1>7, <1>10, <1>11, <1>12, <1>13 DEF CacheInv

LEMMA CommitRootsKeeps ==
    ASSUME TypeInv, ControlInv, OpenInv, CacheInv, NEW t \in open, CommitRoots(t)
    PROVE  CacheInv'
<1>1. /\ pc' = pc /\ left' = left /\ entity' = entity /\ todo' = todo
      /\ open' = open \ {t} /\ roots' = [roots EXCEPT ![t.entity] = @ \cup DOMAIN t.related]
      /\ UNCHANGED <<names, relations, imported, record, cache, confirmed>>
      /\ plan # NoPlan /\ t.entity = entity /\ entity \in plan.selection
      /\ t.pass = "roots" /\ pc # "relations"
  BY DEF CommitRoots, ControlInv, OpenInv, WorkInv
<1>2. UNCHANGED <<names, relations, plan, forgotten, ledger, complete>>
  BY <1>1 DEF record
<1>3. /\ entity \in EntityType
      /\ \A f \in EntityType \ {entity} : roots'[f] = roots[f]
      /\ roots'[entity] = roots[entity] \cup DOMAIN t.related
  BY <1>1, PlanTyped DEF TypeInv
<1>4. /\ \A f \in EntityType \ plan.selection : roots'[f] = roots[f]
      /\ \A f \in EntityType : roots[f] \subseteq roots'[f]
  BY <1>1, <1>3
<1>5. d0' = d0 /\ \A f \in EntityType : Supporting(f)' = Supporting(f)
  BY <1>2, <1>4, SupportFrame
<1>6. (\A r \in cache : r[1] \in EntityType) /\ \A r \in Ref : Backed(r) => Backed(r)'
  BY <1>4 DEF TypeInv, Ref, Backed
<1>7. BackedInv'
  <2>1. \A r \in cache : r[2] \in Supporting(r[1])'
    BY <1>5, <1>6 DEF CacheInv, BackedInv
  <2>2. \A r \in Ref : r[1] = entity /\ r[2] \in DOMAIN t.related => Backed(r)'
    BY <1>3 DEF Backed
  <2>3. pc = "roots" =>
           \A r \in cache :
              Backed(r)' \/ (r[1] = entity /\ \E s \in open' : r[2] \in DOMAIN s.related)
    BY <1>1, <1>6, <2>2 DEF CacheInv, BackedInv, TypeInv
  <2>4. pc # "entity"
    BY DEF ControlInv
  <2> QED
    BY <1>1, <2>1, <2>3, <2>4 DEF BackedInv
<1>8. Needed' = Needed /\ Needed \subseteq EntityType
  BY <1>2, PlanTyped, ConstantsAssumption DEF Needed
<1>9. \A f \in EntityType : Known(f) => Known(f)'
  BY <1>1, <1>2, <1>5 DEF Known
<1>10. KnownInv'
  <2>1. pc # "entity" /\ Roots(d0, entity)' = Roots(d0, entity)
    BY <1>1, <1>5 DEF ControlInv, Roots
  <2> QED
    BY <1>1, <1>5, <1>8, <1>9, <2>1 DEF CacheInv, KnownInv
<1>11. ReadyInv'
  BY <1>1, <1>2, <1>4, WorkFrame DEF CacheInv, ReadyInv
<1>12. LedgerInv'
  BY <1>2, <1>4, LedgerFrame DEF CacheInv
<1>13. NoDanglingReference'
  <2>1. \A e \in EntityType : \A i \in Id : \A r \in relations[e][i] : r \in Ref
    BY DEF TypeInv
  <2> QED
    BY <1>2, <1>4, <2>1 DEF CacheInv, NoDanglingReference, Ref
<1>14. ConfirmedNamesExist'
  BY <1>1 DEF CacheInv, ConfirmedNamesExist
<1> QED
  BY <1>7, <1>10, <1>11, <1>12, <1>13, <1>14 DEF CacheInv

LEMMA CommitChunkKeeps ==
    ASSUME TypeInv, ControlInv, OpenInv, CacheInv, NEW t \in open, CommitChunk(t)
    PROVE  CacheInv'
<1>1. /\ pc' = pc /\ left' = left /\ entity' = entity /\ todo' = todo
      /\ open' = open \ {t}
      /\ roots' = [roots EXCEPT ![t.entity] = RootsAfter(t)]
      /\ relations' = [relations EXCEPT ![t.entity] = RelationsAfter(t)]
      /\ ledger' = [ledger EXCEPT ![t.entity] = @ \cup {t.chunk}]
      /\ names' = names \cup t.pending /\ confirmed' = confirmed \cup t.pending
      /\ UNCHANGED <<complete, plan, forgotten, cache>>
      /\ plan # NoPlan /\ t.entity = entity /\ entity \in plan.selection
      /\ t.pass = "relations" /\ t.adding = {} /\ pc \in {"relations", "failing"}
  BY DEF CommitChunk, ControlInv, OpenInv, WorkInv, TypeInv
<1>2. /\ entity \in EntityType /\ t \in WorkRow
      /\ \A f \in EntityType \ {entity} : roots'[f] = roots[f]
      /\ roots'[entity] = RootsAfter(t)
      /\ entity \notin TwoPass => roots'[entity] = roots[entity] \cup DOMAIN t.related
  BY <1>1, PlanTyped DEF TypeInv, RootsAfter
<1>3. /\ \A f \in EntityType \ plan.selection : roots'[f] = roots[f]
      /\ \A f \in EntityType : roots[f] \subseteq roots'[f]
  BY <1>1, <1>2 DEF RootsAfter
<1>4. d0' = d0 /\ \A f \in EntityType : Supporting(f)' = Supporting(f)
  BY <1>1, <1>3, SupportFrame
<1>5. (\A r \in cache : r[1] \in EntityType) /\ \A r \in Ref : Backed(r) => Backed(r)'
  BY <1>3 DEF TypeInv, Ref, Backed
<1>6. /\ DOMAIN t.related = ChunkRoots(d0, entity, t.chunk)
      /\ DOMAIN t.related \subseteq Id
      /\ \A i \in DOMAIN t.related : t.related[i] \subseteq Ref
      /\ t.chunk \in Chunks(d0, entity)
  BY <1>1, <1>2, RelatedTyped DEF OpenInv, WorkInv
<1>7. /\ \A e \in EntityType \ {entity} : relations'[e] = relations[e]
      /\ \A i \in Id : relations'[entity][i] =
            IF i \in DOMAIN t.related THEN t.related[i] ELSE relations[entity][i]
  BY <1>1, <1>2 DEF TypeInv, RelationsAfter, Reconcile
<1>8. \A i \in DOMAIN t.related :
         /\ \A r \in t.related[i] : Backed(r)
         /\ Exact(entity, i, t.related[i])
  BY <1>1 DEF CacheInv, ReadyInv, WorkReady
<1>9. BackedInv'
  <2>1. \A r \in cache : r[2] \in Supporting(r[1])'
    BY <1>4, <1>5 DEF CacheInv, BackedInv
  <2>2. \A r \in Ref : r[1] = entity /\ r[2] \in DOMAIN t.related /\ entity \notin TwoPass
           => Backed(r)'
    BY <1>2 DEF Backed
  <2>3. pc = "relations" /\ entity \in TwoPass => \A r \in cache : Backed(r)'
    BY <1>5 DEF CacheInv, BackedInv, TypeInv
  <2>4. pc = "relations" =>
           \A r \in cache :
              Backed(r)' \/ (r[1] = entity /\ \E s \in open' : r[2] \in DOMAIN s.related)
    BY <1>1, <1>5, <2>2, <2>3 DEF CacheInv, BackedInv, TypeInv
  <2> QED
    BY <1>1, <2>1, <2>3, <2>4 DEF BackedInv
<1>10. Needed' = Needed /\ Needed \subseteq EntityType
  BY <1>1, PlanTyped, ConstantsAssumption DEF Needed
<1>11. \A f \in EntityType : Known(f) => Known(f)'
  BY <1>1, <1>4 DEF Known
<1>12. KnownInv'
  <2>1. Roots(d0, entity)' = Roots(d0, entity)
    BY <1>1, <1>4 DEF Roots
  <2>2. \A j : (\E s \in open : j \in s.adding) => \E s \in open' : j \in s.adding
    BY <1>1
  <2>3. pc = "relations" => \A f \in Needed \ (left \cup {entity}) : Known(f)'
    BY <1>10, <1>11 DEF CacheInv, KnownInv
  <2>4. pc = "relations" /\ entity \in Needed /\ entity \in TwoPass => Known(entity)'
    BY <1>1, <1>2, <1>11 DEF CacheInv, KnownInv
  <2> QED
    BY <1>1, <1>4, <1>10, <2>1, <2>2, <2>3, <2>4 DEF CacheInv, KnownInv
<1>13. ReadyInv'
  BY <1>1, <1>3, WorkFrame DEF CacheInv, ReadyInv
<1>14. LedgerInv'
  <2>1. NoPlan' = NoPlan
    BY DEF NoPlan
  <2>2. \A e \in complete : ledger'[e] = Chunks(d0, e)'
    <3>1. \A e \in EntityType : Chunks(d0, e)' = Chunks(d0, e)
      BY <1>4 DEF Chunks, Roots
    <3>2. \A e \in complete : e \in EntityType /\ ledger[e] = Chunks(d0, e)
      BY DEF CacheInv, LedgerInv, TypeInv
    <3>3. \A e \in EntityType : ledger'[e] = IF e = entity THEN ledger[e] \cup {t.chunk} ELSE ledger[e]
      BY <1>1, <1>2 DEF TypeInv
    <3> QED
      BY <1>6, <3>1, <3>2, <3>3
  <2>3. ASSUME NEW e \in EntityType, NEW i \in Id, i \in Roots(d0, e),
               Source[d0][e][i].chunk \in ledger'[e]
        PROVE  Exact(e, i, relations'[e][i])
    <3>1. CASE e = entity /\ i \in DOMAIN t.related
      BY <1>7, <1>8, <3>1
    <3>2. CASE ~(e = entity /\ i \in DOMAIN t.related)
      <4>1. relations'[e][i] = relations[e][i]
        BY <1>7, <3>2
      <4>2. Source[d0][e][i].chunk \in ledger[e]
        BY <1>1, <1>2, <1>6, <2>3, <3>2 DEF ChunkRoots, TypeInv
      <4> QED
        BY <1>1, <2>3, <4>1, <4>2 DEF CacheInv, LedgerInv
    <3> QED
      BY <3>1, <3>2
  <2>4. ASSUME NEW e \in EntityType, NEW i \in Id, i \in Roots(d0, e),
               Source[d0][e][i].chunk \in ledger'[e]
        PROVE  Exact(e, i, relations[e][i])'
    BY <1>1, <1>3, <2>3, <2>4, ExactFrame DEF Exact
  <2> QED
    BY <1>1, <1>4, <2>1, <2>2, <2>4 DEF LedgerInv, Roots
<1>15. NoDanglingReference'
  <2>1. ASSUME NEW e \in EntityType, NEW i \in Id, NEW r \in relations'[e][i]
        PROVE  r[2] \in roots'[r[1]]
    <3>1. r \in Ref /\ Backed(r)
      BY <1>1, <1>6, <1>7, <1>8 DEF CacheInv, NoDanglingReference, Backed, TypeInv
    <3> QED
      BY <1>5, <3>1 DEF Backed
  <2> QED
    BY <2>1 DEF NoDanglingReference
<1>16. ConfirmedNamesExist'
  BY <1>1 DEF CacheInv, ConfirmedNamesExist
<1> QED
  BY <1>9, <1>12, <1>13, <1>14, <1>15, <1>16 DEF CacheInv

LEMMA AbortKeeps ==
    ASSUME TypeInv, ControlInv, OpenInv, CacheInv, NEW t \in open, Abort(t)
    PROVE  CacheInv'
<1>1. /\ pc' = "failing" /\ open' = open \ {t} /\ confirmed' = confirmed
      /\ UNCHANGED <<tables, record, cache>>
      /\ plan # NoPlan
  BY DEF Abort, ConfirmedAfterFailure, ControlInv
<1>2. UNCHANGED <<roots, names, relations, plan, forgotten, ledger, complete>>
  BY <1>1 DEF tables, record
<1>3. \A f \in EntityType : Supporting(f)' = Supporting(f)
  BY <1>2, SupportFrame
<1>4. BackedInv' /\ KnownInv'
  <2>1. \A r \in cache : r[1] \in EntityType
    BY DEF TypeInv, Ref
  <2> QED
    BY <1>1, <1>3, <2>1 DEF CacheInv, BackedInv, KnownInv
<1>5. ReadyInv'
  BY <1>1, <1>2, WorkFrame DEF CacheInv, ReadyInv
<1>6. LedgerInv'
  BY <1>2, LedgerFrame DEF CacheInv
<1>7. NoDanglingReference' /\ ConfirmedNamesExist'
  BY <1>1, <1>2 DEF CacheInv, NoDanglingReference, ConfirmedNamesExist
<1> QED
  BY <1>4, <1>5, <1>6, <1>7 DEF CacheInv

-----------------------------------------------------------------------------
(***************************************************************************)
(* The invariant and what follows from it.                                 *)
(***************************************************************************)
IInv ==
    /\ TypeInv
    /\ ControlInv
    /\ OpenInv
    /\ CacheInv

LEMMA InitHolds == Init => IInv
<1> SUFFICES ASSUME Init PROVE IInv
  OBVIOUS
<1>1. ControlInv /\ OpenInv
  BY DEF Init, ControlInv, OpenInv
<1>2. BackedInv /\ KnownInv /\ ReadyInv
  BY DEF Init, BackedInv, KnownInv, ReadyInv
<1>3. LedgerInv /\ ConfirmedNamesExist
  BY DEF Init, LedgerInv, ConfirmedNamesExist
<1>4. NoDanglingReference
  BY DEF Init, NoDanglingReference
<1> QED
  BY <1>1, <1>2, <1>3, <1>4, TypeInit DEF IInv, CacheInv

LEMMA NextKeeps == IInv /\ [Next]_vars => IInv'
<1> SUFFICES ASSUME IInv, [Next]_vars PROVE IInv'
  OBVIOUS
<1> USE DEF IInv
<1>1. ASSUME NEW d \in Dump, NEW S \in Selections, NEW force \in BOOLEAN, Start(d, S, force)
      PROVE  IInv'
  BY <1>1, TypeStart, ControlStart, StartKeeps
<1>2. CASE \E e \in left : SkipEntity(e) \/ StartEntity(e)
  BY <1>2, TypeStep, ControlStep, SkipEntityKeeps, StartEntityKeeps
<1>3. CASE \E k \in todo : TransformRoots(k) \/ SkipChunk(k) \/ ReadChunk(k)
  BY <1>3, TypeStep, ControlStep, TransformKeeps, SkipChunkKeeps, ReadChunkKeeps
<1>4. CASE StartRelations
  BY <1>4, TypeStep, ControlStep, StartRelationsKeeps
<1>5. ASSUME NEW t \in open, (\E i \in t.adding : AddIdentifier(t, i)) \/ BuildRows(t)
      PROVE  IInv'
  BY <1>5, TypeWork, ControlWork, AddKeeps, BuildKeeps
<1>6. ASSUME NEW t \in open, CommitRoots(t) \/ CommitChunk(t) \/ Abort(t)
      PROVE  IInv'
  BY <1>6, TypeWork, ControlWork, CommitRootsKeeps, CommitChunkKeeps, AbortKeeps
<1>7. CASE CompleteEntity
  BY <1>7, TypeStep, ControlStep, CompleteEntityKeeps
<1>8. CASE Succeed \/ Fail
  BY <1>8, TypeStep, ControlStep, EndRunKeeps
<1>9. CASE UNCHANGED vars
  <2>1. UNCHANGED <<roots, names, relations, imported, ledger, complete, status, plan, runs,
                    forgotten, pc, left, entity, resuming, todo, open, cache, confirmed>>
    BY <1>9 DEF vars, tables, record, memory
  <2>2. TypeInv'
    BY <2>1 DEF TypeInv
  <2>3. ControlInv' /\ OpenInv'
    BY <2>1 DEF ControlInv, OpenInv, WorkInv, Chunks, ChunkRoots, Roots, d0, NoPlan
  <2>4. BackedInv' /\ KnownInv'
    BY <2>1 DEF CacheInv, BackedInv, KnownInv, Backed, Known, Supporting, Needed, Roots, d0
  <2>5. ReadyInv'
    BY <2>1 DEF CacheInv, ReadyInv, WorkReady, Backed, Known, Supporting, Exact, Expected,
                Roots, d0
  <2>6. LedgerInv'
    BY <2>1, LedgerFrame DEF CacheInv
  <2>7. NoDanglingReference' /\ ConfirmedNamesExist'
    BY <2>1 DEF CacheInv, NoDanglingReference, ConfirmedNamesExist
  <2> QED
    BY <2>2, <2>3, <2>4, <2>5, <2>6, <2>7 DEF CacheInv
<1> QED
  BY <1>1, <1>2, <1>3, <1>4, <1>5, <1>6, <1>7, <1>8, <1>9 DEF Next

LEMMA IInvHolds == Spec => []IInv
BY InitHolds, NextKeeps, PTL DEF Spec

\* Types of tables and memory; the cache holds identifiers of the plan's roots or of rows of
\* the catalog only (cache.go, the getters and reconcilers of the import steps).
THEOREM CacheTypeCorrect == Spec => []CacheTypeOK
<1>1. IInv => CacheTypeOK
  <2> SUFFICES ASSUME IInv PROVE CacheTypeOK
    OBVIOUS
  <2>1. ASSUME NEW t \in open PROVE WorkTypeOK(t)
    <3>1. t \in WorkRow /\ WorkInv(t)
      BY DEF IInv, TypeInv, OpenInv
    <3>2. DOMAIN t.related \subseteq Id /\ t.related \in [DOMAIN t.related -> SUBSET Ref]
      <4>1. t.related \in UNION {[S -> SUBSET Ref] : S \in SUBSET Id}
        BY <3>1 DEF WorkRow
      <4> QED
        BY <4>1
    <3> QED
      BY <3>1, <3>2 DEF WorkRow, WorkInv, WorkTypeOK
  <2>2. \A r \in cache : r \in Ref /\ (r[2] \in roots[r[1]] \/ r[2] \in Roots(d0, r[1]))
    BY DEF IInv, TypeInv, CacheInv, BackedInv, Supporting
  <2> QED
    BY <2>1, <2>2 DEF IInv, TypeInv, CacheTypeOK
<1> QED
  BY <1>1, IInvHolds, PTL

\* No relation row refers to a root row that is not there: identifiers are registered before
\* the rows are committed (insert.go, master.go), but only the step that writes them sees
\* them, and the steps that refer to them come after its last commit.
THEOREM NothingDangles == Spec => []NoDanglingReference
<1>1. IInv => NoDanglingReference
  BY DEF IInv, CacheInv
<1> QED
  BY <1>1, IInvHolds, PTL

\* A confirmed name has its row (writer.go, release.go).
THEOREM NamesExist == Spec => []ConfirmedNamesExist
<1>1. IInv => ConfirmedNamesExist
  BY DEF IInv, CacheInv
<1> QED
  BY <1>1, IInvHolds, PTL

\* A complete entity has exactly the relations its dump supports, except references to
\* types of which an invocation of the run skipped what an earlier one had recorded: with
\* any number of workers, chunks and segments nothing else is lost or left over.
THEOREM OnlyForgottenIsLost == Spec => []RelationsExactUnlessForgotten
<1>1. IInv => RelationsExactUnlessForgotten
  <2> SUFFICES ASSUME IInv, pc # "idle", NEW e \in complete, NEW i \in Roots(d0, e)
               PROVE  /\ relations[e][i] \subseteq Expected(e, i)
                      /\ \A r \in Expected(e, i) : r[1] \notin forgotten => r \in relations[e][i]
    BY DEF RelationsExactUnlessForgotten
  <2>1. e \in EntityType /\ i \in Id /\ plan # NoPlan
    BY DEF IInv, TypeInv, ControlInv, Roots
  <2>2. Source[d0][e][i].chunk \in ledger[e]
    BY DEF IInv, CacheInv, LedgerInv, Chunks
  <2> QED
    BY <2>1, <2>2 DEF IInv, CacheInv, LedgerInv, Exact
<1> QED
  BY <1>1, IInvHolds, PTL
=============================================================================

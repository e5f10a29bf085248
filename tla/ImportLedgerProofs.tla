------------------------- MODULE ImportLedgerProofs -------------------------
(* Proofs about ImportLedger, and that it refines CatalogLease, for every value of the constants. *)
EXTENDS ImportLease, TLAPS, WellFoundedInduction

-----------------------------------------------------------------------------
(* What the helpers of the model return. *)

\* A nonempty set of naturals has a least element.
LEMMA LeastNatural ==
    ASSUME NEW S \in SUBSET Nat, S # {}
    PROVE  \E n \in S : \A m \in S : n <= m
<1>1. \E n \in S : \A m \in S : ~(<<m, n>> \in OpToRel(<, Nat))
  BY WFMin, NatLessThanWellFounded
<1>2. PICK n \in S : \A m \in S : ~(<<m, n>> \in OpToRel(<, Nat))
  BY <1>1
<1>3. \A m \in S : ~(m < n)
  BY <1>2, Zenon DEF OpToRel
<1>4. \A m \in S : n <= m
  BY <1>3
<1> QED
  BY <1>4

\* The canonical order has a first member in every nonempty selection.
LEMMA FirstInSet ==
    ASSUME NEW S \in SUBSET EntityType, S # {}
    PROVE  First(S) \in S
<1> DEFINE ranks == {Rank[e] : e \in S}
<1>1. ranks \in SUBSET Nat /\ ranks # {}
  BY ConstantsAssumption
<1>2. PICK n \in ranks : \A m \in ranks : n <= m
  BY <1>1, LeastNatural
<1>3. PICK e \in S : Rank[e] = n
  BY <1>2
<1>4. \A f \in S : Rank[e] <= Rank[f]
  BY <1>2, <1>3
<1> QED
  BY <1>4 DEF First

\* The newest of a nonempty set of runs exists: completed_at and then id decide.
LEMMA LatestInSet ==
    ASSUME NEW T, \A r \in RunId : T[r].at \in Nat,
           NEW S \in SUBSET RunId, S # {}
    PROVE  Latest(T, S) \in S /\ \A s \in S \ {Latest(T, S)} : Later(T, Latest(T, S), s)
<1> DEFINE HasLatest(R) == \E r \in R : \A s \in R \ {r} : Later(T, r, s)
           Bad == {n \in 0..MaxRuns : \E R \in SUBSET (1..n) : R # {} /\ ~HasLatest(R)}
<1>1. Bad = {}
  <2> SUFFICES ASSUME Bad # {} PROVE FALSE
    OBVIOUS
  <2>1. Bad \in SUBSET Nat
    BY ConstantsAssumption
  <2>2. PICK n \in Bad : \A m \in Bad : n <= m
    BY <2>1, LeastNatural
  <2>3. PICK R \in SUBSET (1..n) : R # {} /\ ~HasLatest(R)
    BY <2>2
  <2> n \in 0..MaxRuns /\ MaxRuns \in Nat
    BY <2>2, ConstantsAssumption
  <2> HIDE DEF HasLatest, Bad
  <2>4. n \in 1..MaxRuns /\ n - 1 \in 0..MaxRuns /\ n - 1 \notin Bad
    <3>1. PICK x \in R : x \in 1..n
      BY <2>3
    <3>2. n \in 1..MaxRuns /\ n - 1 \in 0..MaxRuns
      BY <3>1
    <3>3. \A m \in Bad : n <= m
      BY <2>2
    <3> QED
      BY <3>2, <3>3
  <2>6. R \ {n} \in SUBSET (1..(n - 1))
    <3> SUFFICES ASSUME NEW x \in R, x # n PROVE x \in 1..(n - 1)
      OBVIOUS
    <3> QED
      BY <2>3
  <2>5. n \in R
    <3>1. n \notin R => R \in SUBSET (1..(n - 1))
      BY <2>6
    <3>2. n \notin R => n - 1 \in Bad
      BY <3>1, <2>3, <2>4 DEF Bad
    <3> QED
      BY <3>2, <2>4
  <2>7. CASE R \ {n} = {}
    BY <2>3, <2>5, <2>7 DEF HasLatest
  <2>8. CASE R \ {n} # {}
    <3>1. PICK m \in R \ {n} : \A s \in (R \ {n}) \ {m} : Later(T, m, s)
      <4>1. HasLatest(R \ {n})
        BY <2>4, <2>6, <2>8 DEF Bad
      <4> QED
        BY <4>1 DEF HasLatest
    <3>2. R \subseteq RunId /\ n \in RunId /\ m \in RunId /\ m < n
      <4>1. m \in 1..(n - 1)
        BY <2>6, <3>1
      <4>2. \A x \in R : x \in 1..n
        BY <2>3
      <4> QED
        BY <4>1, <4>2, <2>4, ConstantsAssumption DEF RunId
    <3>3. T[n].at \in Nat /\ T[m].at \in Nat /\ \A s \in R : T[s].at \in Nat /\ s \in Int
      <4>1. \A s \in R : s \in RunId
        BY <3>2
      <4>2. \A s \in RunId : s \in Int
        BY ConstantsAssumption DEF RunId
      <4> QED
        BY <4>1, <4>2, <3>2
    <3>4. CASE Later(T, n, m)
      <4>1. \A s \in R \ {n} : Later(T, n, s)
        BY <3>1, <3>2, <3>3, <3>4 DEF Later, RunId
      <4> QED
        BY <4>1, <2>3, <2>5 DEF HasLatest
    <3>5. CASE ~Later(T, n, m)
      <4>1. Later(T, m, n)
        BY <3>2, <3>3, <3>5 DEF Later, RunId
      <4>2. \A s \in R \ {m} : Later(T, m, s)
        BY <3>1, <4>1
      <4> QED
        BY <4>2, <2>3, <3>1 DEF HasLatest
    <3> QED
      BY <3>4, <3>5
  <2> QED
    BY <2>7, <2>8
<1>2. HasLatest(S)
  <2>1. MaxRuns \in 0..MaxRuns
    BY ConstantsAssumption
  <2>2. S \in SUBSET (1..MaxRuns)
    BY DEF RunId
  <2> SUFFICES ASSUME ~HasLatest(S) PROVE FALSE
    OBVIOUS
  <2> HIDE DEF HasLatest
  <2>3. MaxRuns \in Bad
    BY <2>1, <2>2
  <2> QED
    BY <1>1, <2>3
<1> QED
  BY <1>2 DEF Latest

-----------------------------------------------------------------------------
(* Facts about the data of a state. *)

\* A manifest maps some of the entity types to dumps.
LEMMA ManifestFacts ==
    ASSUME NEW m \in Manifest
    PROVE  /\ DOMAIN m \subseteq EntityType
           /\ \A e \in DOMAIN m : m[e] \in Dump
           /\ m \in [DOMAIN m -> Dump]
<1>1. PICK S \in SUBSET EntityType : m \in [S -> Dump]
  BY DEF Manifest
<1> QED
  BY <1>1

\* A window before the chunk count starts inside the dump, so it is not empty.
LEMMA ChunkInDump ==
    ASSUME NEW d \in Dump, NEW size \in Nat \ {0}, NEW k \in Nat, k < ChunkCount(d, size)
    PROVE  ChunkAt(d, size, k) \in ChunkType
<1> DEFINE n == DumpItems[d]
           total == (n + size - 1) \div size
<1>1. n \in Nat
  BY ConstantsAssumption
<1> HIDE DEF n
<1>2. total \in Nat /\ total * size <= n + size - 1
  BY <1>1
<1>3. k + 1 <= total
  BY <1>2 DEF ChunkCount, n
<1> HIDE DEF total
<1>4. k * size \in Nat /\ (k + 1) * size = k * size + size
  OBVIOUS
<1>5. (k + 1) * size <= total * size
  BY <1>2, <1>3
<1>6. k * size < n
  BY <1>1, <1>2, <1>4, <1>5
<1> QED
  BY <1>1, <1>4, <1>6 DEF ChunkAt, ChunkType, n

\* An importer that is not idle carries a request, so a manifest and a chunk size.
LEMMA RequestFacts ==
    ASSUME TypeOK, ProcessInv, NEW p \in Importer, pc[p] # "idle"
    PROVE  /\ req[p] \in Request
           /\ req[p].manifest \in Manifest
           /\ req[p].size \in Nat \ {0}
           /\ req[p].force \in BOOLEAN
           /\ req[p].downgrade \in BOOLEAN
           /\ req[p].rev \in [EntityType -> Nat]
           /\ DOMAIN req[p].manifest \subseteq EntityType
           /\ DOMAIN req[p].manifest # {}
<1>1. req[p] \in Request
  BY DEF TypeOK, ProcessInv, ImporterInv
<1>2. /\ req[p] \in [manifest : Manifest, size : Nat \ {0}, force : BOOLEAN,
                      downgrade : BOOLEAN, rev : [EntityType -> Nat]]
      /\ DOMAIN req[p].manifest # {}
  BY <1>1, ConstantsAssumption
<1>3. req[p].manifest \in Manifest
  BY <1>2
<1>4. DOMAIN req[p].manifest \subseteq EntityType
  BY <1>3, ManifestFacts
<1> QED
  BY <1>1, <1>2, <1>3, <1>4

\* A working importer with an entity left has a current entity, of its own plan.
LEMMA EntityFacts ==
    ASSUME TypeOK, ProcessInv, NEW p \in Importer, pc[p] \in Working, left[p] # {}
    PROVE  /\ Entity(p) \in left[p]
           /\ Entity(p) \in EntityType
           /\ cur[p] \in RunId
           /\ Entity(p) \in DOMAIN run[cur[p]].manifest
           /\ EntityDump(p) \in Dump
           /\ Progress(p) \in RunDumpRow
<1>1. Entity(p) \in left[p]
  BY FirstInSet DEF TypeOK, Entity
<1>2. cur[p] \in RunId /\ run[cur[p]].manifest = req[p].manifest /\ left[p] \subseteq DOMAIN req[p].manifest
  BY ConstantsAssumption DEF TypeOK, ProcessInv, ImporterInv, RunId
<1>3. run[cur[p]].manifest \in Manifest
  BY <1>2 DEF TypeOK, RunRow
<1>4. EntityDump(p) \in Dump
  BY <1>1, <1>2, <1>3, ManifestFacts DEF EntityDump
<1> QED
  BY <1>1, <1>2, <1>4 DEF TypeOK, Progress

\* Recovery changes nothing but the status and the completion time of running runs.
LEMMA AbandonFacts ==
    ASSUME run \in [RunId -> RunRow], clock \in Nat, NEW S
    PROVE  /\ Abandon(run, S) \in [RunId -> RunRow]
           /\ \A r \in RunId :
                 /\ Abandon(run, S)[r].manifest = run[r].manifest
                 /\ Abandon(run, S)[r].status = "running" =>
                       /\ run[r].status = "running"
                       /\ DOMAIN run[r].manifest \cap S = {}
                 /\ run[r].status = "absent" => Abandon(run, S)[r].status = "absent"
<1>1. ASSUME NEW r \in RunId
      PROVE  /\ Abandon(run, S)[r] \in RunRow
             /\ Abandon(run, S)[r].manifest = run[r].manifest
             /\ Abandon(run, S)[r].status = "running" =>
                   /\ run[r].status = "running"
                   /\ DOMAIN run[r].manifest \cap S = {}
             /\ run[r].status = "absent" => Abandon(run, S)[r].status = "absent"
  <2>1. run[r] \in RunRow
    BY <1>1
  <2>2. CASE run[r].status = "running" /\ DOMAIN run[r].manifest \cap S # {}
    <3>1. Abandon(run, S)[r] = [run[r] EXCEPT !.status = "failed", !.at = clock]
      BY <2>2 DEF Abandon
    <3> QED
      BY <2>1, <2>2, <3>1 DEF RunRow
  <2>3. CASE ~(run[r].status = "running" /\ DOMAIN run[r].manifest \cap S # {})
    <3>1. Abandon(run, S)[r] = run[r]
      BY <2>3 DEF Abandon
    <3> QED
      BY <2>1, <2>3, <3>1
  <2> QED
    BY <2>2, <2>3
<1>2. Abandon(run, S) \in [RunId -> RunRow]
  BY <1>1 DEF Abandon
<1> QED
  BY <1>1, <1>2

\* The steps that write a table: four of the coordinator, and the commits of chunks and
\* entities.
LEMMA TableSteps ==
    ASSUME [Next]_vars
    PROVE  \/ UNCHANGED tables
           \/ \E p \in Importer :
                 \/ SkipExact(p)
                 \/ SkipConsolidated(p)
                 \/ Admit(p)
                 \/ \E c \in inflight[p] : CommitChunk(p, c)
                 \/ CompleteEntity(p)
                 \/ CompleteSuccess(p)
                 \/ CompleteFailure(p)
<1>1. CASE UNCHANGED vars
  BY <1>1 DEF vars
<1>2. ASSUME NEW p \in Importer, ImporterStep(p)
      PROVE  \/ UNCHANGED tables
             \/ \/ SkipExact(p)
                \/ SkipConsolidated(p)
                \/ Admit(p)
                \/ \E c \in inflight[p] : CommitChunk(p, c)
                \/ CompleteEntity(p)
                \/ CompleteSuccess(p)
                \/ CompleteFailure(p)
  <2>1. CASE \/ \E q \in Request : Start(p, q)
            \/ TryLock(p)
            \/ AdmissionError(p)
            \/ RejectAdmission(p)
    BY <2>1 DEF Start, TryLock, AdmissionError, RejectAdmission
  <2>2. CASE SkipEntity(p) \/ StartEntity(p) \/ SkipChunk(p) \/ WriteChunk(p) \/ FailStep(p)
    BY <2>2 DEF SkipEntity, StartEntity, SkipChunk, WriteChunk, FailStep
  <2>3. CASE \E c \in inflight[p] : AbortChunk(p, c)
    BY <2>3 DEF AbortChunk
  <2>4. CASE CompleteError(p) \/ LoseSession(p) \/ Crash(p)
    BY <2>4 DEF CompleteError, LoseSession, Crash
  <2> QED
    BY <1>2, <2>1, <2>2, <2>3, <2>4 DEF ImporterStep
<1> QED
  BY <1>1, <1>2 DEF Next

\* Updated rows are rows of the same table.
LEMMA RowUpdates ==
    /\ \A x \in RunRow, st \in {"success", "failed"}, t \in Nat :
          [x EXCEPT !.status = st, !.at = t] \in RunRow
    /\ \A x \in RunDumpRow, n \in Nat :
          /\ [x EXCEPT !.processed = @ + n] \in RunDumpRow
          /\ [x EXCEPT !.total = n] \in RunDumpRow
    /\ \A x \in EntityStateRow, st \in {"importing", "failed"}, r \in RunId \cup {NoRun},
          op \in {"none", "bootstrap", "refresh"} :
          /\ [x EXCEPT !.status = st, !.active = r] \in EntityStateRow
          /\ [x EXCEPT !.status = st, !.active = r, !.operation = op] \in EntityStateRow
<1>1. \A x \in RunRow, st \in {"success", "failed"}, t \in Nat :
          [x EXCEPT !.status = st, !.at = t] \in RunRow
  BY DEF RunRow
<1>2. \A x \in RunDumpRow, n \in Nat :
          /\ [x EXCEPT !.processed = @ + n] \in RunDumpRow
          /\ [x EXCEPT !.total = n] \in RunDumpRow
  BY DEF RunDumpRow
<1>3. \A x \in EntityStateRow, st \in {"importing", "failed"}, r \in RunId \cup {NoRun},
          op \in {"none", "bootstrap", "refresh"} :
          /\ [x EXCEPT !.status = st, !.active = r] \in EntityStateRow
          /\ [x EXCEPT !.status = st, !.active = r, !.operation = op] \in EntityStateRow
  <2> TAKE x \in EntityStateRow, st \in {"importing", "failed"}, r \in RunId \cup {NoRun},
           op \in {"none", "bootstrap", "refresh"}
  <2>1. [x EXCEPT !.status = st, !.active = r] \in EntityStateRow
    BY DEF EntityStateRow
  <2>2. [x EXCEPT !.status = st, !.active = r, !.operation = op] \in EntityStateRow
    BY DEF EntityStateRow
  <2> QED
    BY <2>1, <2>2
<1> QED
  BY <1>1, <1>2, <1>3

\* The checkpoint of an entity, if there is one, is a successful run that imported it.
LEMMA CheckpointFacts ==
    ASSUME NEW T \in [RunId -> RunRow], NEW e
    PROVE  Checkpoint(T, e) = NoRun \/ Checkpoint(T, e) \in Successes(T, e)
<1>1. \A r \in RunId : T[r].at \in Nat
  BY DEF RunRow
<1>2. Successes(T, e) \in SUBSET RunId
  BY DEF Successes
<1>3. CASE Successes(T, e) # {}
  <2>1. Latest(T, Successes(T, e)) \in Successes(T, e)
    BY <1>1, <1>2, <1>3, LatestInSet
  <2> QED
    BY <1>3, <2>1 DEF Checkpoint
<1>4. CASE Successes(T, e) = {}
  BY <1>4 DEF Checkpoint
<1> QED
  BY <1>3, <1>4

\* Progress is taken over only from a failed run that could be resumed.
LEMMA ResumeSourceFacts ==
    ASSUME NEW T \in [RunId -> RunRow], NEW q
    PROVE  ResumeSource(T, q) = NoRun \/ ResumeSource(T, q) \in Resumable(T, q)
<1>1. \A r \in RunId : T[r].at \in Nat
  BY DEF RunRow
<1>2. Resumable(T, q) \in SUBSET RunId
  BY DEF Resumable
<1>3. CASE Resumable(T, q) # {}
  <2>1. Latest(T, Resumable(T, q)) \in Resumable(T, q)
    BY <1>1, <1>2, <1>3, LatestInSet
  <2> QED
    BY <1>3, <2>1 DEF ResumeSource
<1>4. CASE Resumable(T, q) = {}
  BY <1>4 DEF ResumeSource
<1> QED
  BY <1>3, <1>4

\* An import that is satisfied has a candidate, so the exact run is a successful run of the
\* manifest or none.
LEMMA ExactRunFacts ==
    ASSUME NEW T \in [RunId -> RunRow], NEW q, Candidates(T, q) # {}
    PROVE  ExactRun(T, q) = NoRun \/ ExactRun(T, q) \in Candidates(T, q)
<1>1. \A r \in RunId : T[r].at \in Nat
  BY DEF RunRow
<1>2. Candidates(T, q) \in SUBSET RunId
  BY DEF Candidates
<1>3. Latest(T, Candidates(T, q)) \in Candidates(T, q)
  BY <1>1, <1>2, LatestInSet
<1> QED
  BY <1>3 DEF ExactRun

\* After an invocation ended, its importer's memory is that of an idle importer.
LEMMA LeaveTypes ==
    ASSUME TypeOK, NEW p \in Importer, Leave(p)
    PROVE  /\ lockHolder' \in [EntityType -> Importer \cup {None}]
           /\ session' \in [Importer -> BOOLEAN]
           /\ pc' \in [Importer -> {"idle", "locking", "admission"} \cup Working]
           /\ req' \in [Importer -> Request \cup {None}]
           /\ cur' \in [Importer -> RunId \cup {NoRun}]
           /\ left' \in [Importer -> SUBSET EntityType]
           /\ inventory' \in [Importer -> SUBSET ChunkType]
           /\ nextChunk' \in [Importer -> Nat]
           /\ inflight' \in [Importer -> SUBSET ChunkType]
<1> QED
  BY DEF TypeOK, Leave, LocksWithout

-----------------------------------------------------------------------------
(* Type correctness. *)

\* Every step leaves every table and memory well typed.
LEMMA TypeStep ==
    ASSUME TypeOK, ProcessInv, [Next]_vars
    PROVE  TypeOK'
<1> SUFFICES ASSUME NEW p \in Importer, ImporterStep(p) PROVE TypeOK'
  <2>1. CASE UNCHANGED vars
    BY <2>1 DEF vars, tables, local, TypeOK
  <2> QED
    BY <2>1 DEF Next
<1> USE ConstantsAssumption
<1>1. CASE \E q \in Request : Start(p, q)
  BY <1>1 DEF Start, TypeOK, tables
<1>2. CASE TryLock(p)
  <2>1. CASE Leave(p)
    BY <1>2, <2>1, LeaveTypes DEF TryLock, TypeOK, tables
  <2>2. CASE ~Leave(p)
    <3>1. PICK e : lockHolder' = [lockHolder EXCEPT ![e] = p]
      BY <1>2, <2>2 DEF TryLock
    <3>2. lockHolder' \in [EntityType -> Importer \cup {None}]
      BY <3>1 DEF TypeOK
    <3>3. /\ pc' = [pc EXCEPT ![p] = "admission"] \/ pc' = [pc EXCEPT ![p] = "locking"]
          /\ UNCHANGED <<tables, session, req, cur, left, inventory, nextChunk, inflight>>
      BY <1>2, <2>2 DEF TryLock
    <3> QED
      BY <3>2, <3>3 DEF TypeOK, tables
  <2> QED
    BY <2>1, <2>2
<1>3. CASE AdmissionError(p)
  BY <1>3, LeaveTypes DEF AdmissionError, TypeOK, tables
<1>4. CASE RejectAdmission(p)
  BY <1>4, LeaveTypes DEF RejectAdmission, TypeOK, tables
<1>5. CASE SkipExact(p)
  <2>1. pc[p] # "idle" /\ FullySatisfied(p)
    BY <1>5 DEF SkipExact
  <2>2. DOMAIN req[p].manifest # {}
    BY <2>1, RequestFacts
  <2>3. Marked(p) \in [RunId -> RunRow]
    BY AbandonFacts DEF Marked, TypeOK
  <2>4. ExactRun(Marked(p), req[p]) = NoRun \/ ExactRun(Marked(p), req[p]) \in RunId
    <3>1. Candidates(Marked(p), req[p]) # {}
      BY <2>1, <2>2 DEF FullySatisfied, CompatibleEntities
    <3> QED
      BY <2>3, <3>1, ExactRunFacts DEF Candidates
  <2>5. entityState' \in [EntityType -> EntityStateRow]
    BY <1>5, <2>4 DEF SkipExact, StatesReady, TypeOK, EntityStateRow
  <2> QED
    BY <1>5, <2>3, <2>5, LeaveTypes DEF SkipExact, TypeOK
<1>6. CASE SkipConsolidated(p)
  <2> DEFINE r == runSeq + 1
             S == DOMAIN req[p].manifest
  <2>1. pc[p] # "idle" /\ FullySatisfied(p) /\ r \in RunId
    BY <1>6 DEF SkipConsolidated, TypeOK, RunId
  <2>2. Marked(p) \in [RunId -> RunRow]
    BY AbandonFacts DEF Marked, TypeOK
  <2>3. \A e \in S : Checkpoint(Marked(p), e) \in RunId
    <3> SUFFICES ASSUME NEW e \in S PROVE Checkpoint(Marked(p), e) \in RunId
      OBVIOUS
    <3>1. Checkpoint(Marked(p), e) # NoRun
      BY <2>1 DEF FullySatisfied, CompatibleEntities, Compatible
    <3> QED
      BY <2>2, <3>1, CheckpointFacts DEF Successes
  <2>4. run' \in [RunId -> RunRow]
    <3>1. [status |-> "success", manifest |-> req[p].manifest, rev |-> req[p].rev, force |-> FALSE,
           downgrade |-> FALSE, from |-> NoRun, at |-> clock] \in RunRow
      BY <2>1, RequestFacts DEF RunRow, TypeOK
    <3> QED
      BY <1>6, <2>2, <3>1 DEF SkipConsolidated
  <2>5. runDump' \in [RunId -> [EntityType -> RunDumpRow]]
    <3>1. NoRunDump \in RunDumpRow
      BY DEF NoRunDump, RunDumpRow
    <3>2. [e \in EntityType |-> IF e \in S THEN runDump[Checkpoint(Marked(p), e)][e]
                                ELSE NoRunDump] \in [EntityType -> RunDumpRow]
      BY <2>3, <3>1 DEF TypeOK
    <3> QED
      BY <1>6, <3>2 DEF SkipConsolidated, TypeOK
  <2>6. entityState' \in [EntityType -> EntityStateRow]
    BY <1>6, <2>1 DEF SkipConsolidated, StatesReady, TypeOK, EntityStateRow
  <2>7. runSeq' \in RunId \cup {0} /\ clock' \in Nat /\ UNCHANGED <<runChunk, rows>>
    BY <1>6, <2>1 DEF SkipConsolidated, TypeOK
  <2> QED
    BY <1>6, <2>4, <2>5, <2>6, <2>7, LeaveTypes DEF SkipConsolidated, TypeOK
<1>7. CASE Admit(p)
  <2> DEFINE q == req[p]
             S == DOMAIN q.manifest
             r == runSeq + 1
             src == ResumeSource(Marked(p), q)
  <2>1. pc[p] # "idle" /\ r \in RunId
    BY <1>7 DEF Admit, TypeOK, RunId
  <2>2. Marked(p) \in [RunId -> RunRow]
    BY AbandonFacts DEF Marked, TypeOK
  <2>3. src = NoRun \/ src \in RunId
    BY <2>2, ResumeSourceFacts DEF Resumable
  <2>4. run' \in [RunId -> RunRow]
    <3>1. [status |-> "running", manifest |-> q.manifest, rev |-> q.rev, force |-> q.force,
           downgrade |-> q.downgrade, from |-> src, at |-> 0] \in RunRow
      BY <2>1, <2>3, RequestFacts DEF RunRow
    <3> QED
      BY <1>7, <2>2, <3>1 DEF Admit
  <2>5. runDump' \in [RunId -> [EntityType -> RunDumpRow]]
    <3>1. NoRunDump \in RunDumpRow /\ [NoRunDump EXCEPT !.size = q.size] \in RunDumpRow
      BY <2>1, RequestFacts DEF NoRunDump, RunDumpRow
    <3> DEFINE Kept(e) == CASE e \notin S -> NoRunDump
                            [] e \in S /\ src = NoRun -> [NoRunDump EXCEPT !.size = q.size]
                            [] e \in S /\ src # NoRun -> runDump[src][e]
    <3>2. ASSUME NEW e \in EntityType PROVE Kept(e) \in RunDumpRow
      <4>1. CASE e \notin S
        BY <4>1, <3>1
      <4>2. CASE e \in S /\ src = NoRun
        BY <4>2, <3>1
      <4>3. CASE e \in S /\ src # NoRun
        BY <4>3, <2>3 DEF TypeOK
      <4> QED
        BY <4>1, <4>2, <4>3
    <3>3. runDump' = [runDump EXCEPT ![r] = [e \in EntityType |-> Kept(e)]]
      BY <1>7 DEF Admit
    <3> HIDE DEF Kept
    <3> QED
      BY <3>2, <3>3 DEF TypeOK
  <2>6. runChunk' \subseteq RunChunkRow
    <3>1. ASSUME NEW c \in runChunk PROVE [c EXCEPT !.run = r] \in RunChunkRow
      <4>1. c \in RunChunkRow /\ r \in RunId
        BY <2>1, <3>1 DEF TypeOK
      <4> HIDE DEF r
      <4> QED
        BY <4>1 DEF RunChunkRow
    <3>2. TransferChunks(runChunk, src, r) \subseteq RunChunkRow
      BY <3>1 DEF TransferChunks, TypeOK
    <3> QED
      BY <1>7, <3>2 DEF Admit, TypeOK
  <2>7. entityState' \in [EntityType -> EntityStateRow]
    <3>1. ASSUME NEW e \in EntityType
          PROVE  [entityState[e] EXCEPT !.status = "importing", !.active = r,
                     !.operation = IF entityState[e].last = NoRun THEN "bootstrap" ELSE "refresh"]
                     \in EntityStateRow
      BY <2>1, RowUpdates DEF TypeOK
    <3>2. StatesImporting(r, S) \in [EntityType -> EntityStateRow]
      BY <3>1 DEF StatesImporting, TypeOK
    <3> QED
      BY <1>7, <3>2 DEF Admit
  <2>8. left' \in [Importer -> SUBSET EntityType]
    BY <1>7, <2>1, RequestFacts DEF Admit, TypeOK
  <2>9. /\ runSeq' \in RunId \cup {0}
        /\ clock' \in Nat
        /\ cur' \in [Importer -> RunId \cup {NoRun}]
        /\ pc' \in [Importer -> {"idle", "locking", "admission"} \cup Working]
        /\ UNCHANGED <<rows, lockHolder, session, req, inventory, nextChunk, inflight>>
    BY <1>7, <2>1 DEF Admit, TypeOK, Working
  <2> QED
    BY <2>4, <2>5, <2>6, <2>7, <2>8, <2>9 DEF TypeOK
<1>8. CASE SkipEntity(p)
  BY <1>8 DEF SkipEntity, NextEntity, TypeOK, tables, Working
<1>9. CASE StartEntity(p)
  <2>1. {ChunkRange(c) : c \in Recorded(p)} \in SUBSET ChunkType
    BY DEF ChunkRange, Recorded, RunChunks, TypeOK, RunChunkRow, ChunkType
  <2> QED
    BY <1>9, <2>1 DEF StartEntity, TypeOK, tables, Working
<1>10. CASE SkipChunk(p)
  BY <1>10 DEF SkipChunk, TypeOK, tables, Working
<1>11. CASE WriteChunk(p)
  <2>1. pc[p] \in Working /\ left[p] # {}
    BY <1>11 DEF WriteChunk, Working, ProcessInv, ImporterInv
  <2>2. Chunk(p) \in ChunkType
    BY <1>11, <2>1, EntityFacts, RequestFacts, ChunkInDump
       DEF WriteChunk, Chunk, TotalChunks, TypeOK
  <2> QED
    BY <1>11, <2>2 DEF WriteChunk, TypeOK, tables
<1>12. ASSUME NEW c \in inflight[p], CommitChunk(p, c) PROVE TypeOK'
  <2> DEFINE e == Entity(p)
             r == cur[p]
  <2>1. pc[p] \in Working /\ left[p] # {}
    BY <1>12 DEF CommitChunk, Working, ProcessInv, ImporterInv
  <2>2. e \in EntityType /\ r \in RunId /\ run[r].manifest[e] \in Dump /\ c \in ChunkType
    BY <2>1, EntityFacts DEF EntityDump, TypeOK
  <2>3. rows' \in [EntityType -> [Item -> (Dump \X Nat) \cup {None}]]
    <3>1. Version(run, r, e) \in Dump \X Nat
      BY <2>2 DEF Version, TypeOK, RunRow
    <3> QED
      BY <1>12, <3>1, <2>2 DEF CommitChunk, TypeOK
  <2>4. runChunk' \subseteq RunChunkRow
    BY <1>12, <2>2 DEF CommitChunk, Row, TypeOK, RunChunkRow, ChunkType
  <2>5. runDump' \in [RunId -> [EntityType -> RunDumpRow]]
    <3> DEFINE row == [runDump[r][e] EXCEPT !.processed = @ + c.count]
    <3>1. runDump[r] \in [EntityType -> RunDumpRow] /\ row \in RunDumpRow
      <4>1. runDump[r] \in [EntityType -> RunDumpRow] /\ c.count \in Nat
        BY <2>2 DEF TypeOK, ChunkType
      <4>2. runDump[r][e] \in RunDumpRow
        BY <4>1, <2>2
      <4> QED
        BY <4>1, <4>2, RowUpdates
    <3>2. runDump' = [runDump EXCEPT ![r] = [runDump[r] EXCEPT ![e] = row]]
      BY <1>12 DEF CommitChunk
    <3> QED
      BY <3>1, <3>2, <2>2 DEF TypeOK
  <2> QED
    BY <1>12, <2>3, <2>4, <2>5 DEF CommitChunk, TypeOK
<1>13. ASSUME NEW c \in inflight[p], AbortChunk(p, c) PROVE TypeOK'
  BY <1>13 DEF AbortChunk, TypeOK, tables, Working
<1>14. CASE FailStep(p)
  BY <1>14 DEF FailStep, TypeOK, tables, Working
<1>15. CASE CompleteEntity(p)
  <2>1. pc[p] \in Working /\ left[p] # {}
    BY <1>15 DEF CompleteEntity, Working, ProcessInv, ImporterInv
  <2>2. Entity(p) \in EntityType /\ cur[p] \in RunId /\ DumpItems[EntityDump(p)] \in Nat
    BY <2>1, EntityFacts
  <2>3. runDump' \in [RunId -> [EntityType -> RunDumpRow]]
    <3> DEFINE row == [runDump[cur[p]][Entity(p)] EXCEPT !.total = DumpItems[EntityDump(p)]]
    <3>1. runDump[cur[p]] \in [EntityType -> RunDumpRow] /\ row \in RunDumpRow
      <4>1. runDump[cur[p]] \in [EntityType -> RunDumpRow]
        BY <2>2 DEF TypeOK
      <4>2. runDump[cur[p]][Entity(p)] \in RunDumpRow
        BY <4>1, <2>2
      <4> QED
        BY <4>1, <4>2, <2>2, RowUpdates
    <3>2. CASE UNCHANGED runDump
      BY <3>2 DEF TypeOK
    <3>3. CASE runDump' = [runDump EXCEPT ![cur[p]] = [runDump[cur[p]] EXCEPT ![Entity(p)] = row]]
      <4> HIDE DEF row
      <4> QED
        BY <3>1, <3>3, <2>2 DEF TypeOK
    <3> QED
      BY <1>15, <3>2, <3>3 DEF CompleteEntity
  <2>4. /\ left' \in [Importer -> SUBSET EntityType]
        /\ pc' \in [Importer -> {"idle", "locking", "admission"} \cup Working]
    <3>1. CASE NextEntity(p)
      BY <3>1 DEF NextEntity, TypeOK, Working
    <3>2. CASE pc' = [pc EXCEPT ![p] = "failing"] /\ UNCHANGED left
      BY <3>2 DEF TypeOK, Working
    <3> QED
      BY <1>15, <3>1, <3>2 DEF CompleteEntity
  <2> QED
    BY <1>15, <2>3, <2>4 DEF CompleteEntity, TypeOK
<1>16. CASE CompleteSuccess(p)
  <2>1. cur[p] \in RunId
    BY <1>16 DEF CompleteSuccess, Working, ProcessInv, ImporterInv, TypeOK, RunId
  <2>2. run' \in [RunId -> RunRow]
    <3>1. [run[cur[p]] EXCEPT !.status = "success", !.at = clock] \in RunRow
      BY <2>1, RowUpdates DEF TypeOK
    <3> QED
      BY <1>16, <2>1, <3>1 DEF CompleteSuccess, TypeOK
  <2>3. entityState' \in [EntityType -> EntityStateRow]
    BY <1>16, <2>1 DEF CompleteSuccess, StatesReady, TypeOK, EntityStateRow
  <2> QED
    BY <1>16, <2>2, <2>3, LeaveTypes DEF CompleteSuccess, TypeOK
<1>17. CASE CompleteFailure(p)
  <2>1. cur[p] \in RunId
    BY <1>17 DEF CompleteFailure, Working, ProcessInv, ImporterInv, TypeOK, RunId
  <2>2. run' \in [RunId -> RunRow]
    <3>1. [run[cur[p]] EXCEPT !.status = "failed", !.at = clock] \in RunRow
      BY <2>1, RowUpdates DEF TypeOK
    <3> QED
      BY <1>17, <2>1, <3>1 DEF CompleteFailure, TypeOK
  <2>3. entityState' \in [EntityType -> EntityStateRow]
    <3>1. ASSUME NEW e \in EntityType
          PROVE  [entityState[e] EXCEPT !.status = "failed", !.active = NoRun] \in EntityStateRow
      BY RowUpdates DEF TypeOK
    <3>2. StatesFailed(DOMAIN run[cur[p]].manifest) \in [EntityType -> EntityStateRow]
      BY <3>1 DEF StatesFailed, TypeOK
    <3> QED
      BY <1>17, <3>2 DEF CompleteFailure
  <2> QED
    BY <1>17, <2>2, <2>3, LeaveTypes DEF CompleteFailure, TypeOK
<1>18. CASE CompleteError(p)
  BY <1>18, LeaveTypes DEF CompleteError, TypeOK, tables
<1>19. CASE LoseSession(p)
  BY <1>19 DEF LoseSession, TypeOK, tables, local, LocksWithout
<1>20. CASE Crash(p)
  BY <1>20, LeaveTypes DEF Crash, TypeOK, tables
<1> QED
  BY <1>1, <1>2, <1>3, <1>4, <1>5, <1>6, <1>7, <1>8, <1>9, <1>10, <1>11, <1>12, <1>13, <1>14,
     <1>15, <1>16, <1>17, <1>18, <1>19, <1>20 DEF ImporterStep

-----------------------------------------------------------------------------
(* The importers' part of the invariant. *)

\* What a step of p leaves alone: the memory of the others, the locks they hold, and what the
\* runs recorded so far import.
OthersKept(p) ==
    /\ \A q \in Importer \ {p} :
         /\ pc'[q] = pc[q] /\ req'[q] = req[q] /\ cur'[q] = cur[q] /\ left'[q] = left[q]
         /\ inflight'[q] = inflight[q] /\ session'[q] = session[q]
         /\ \A e \in EntityType : lockHolder'[e] = q <=> lockHolder[e] = q
    /\ runSeq' \in runSeq..(runSeq + 1)
    /\ \A r \in 1..runSeq : run'[r].manifest = run[r].manifest

\* An invocation that ends changes only its own memory and its own locks.
LEMMA LeaveKeepsOthers ==
    ASSUME TypeOK, NEW p \in Importer, Leave(p)
    PROVE  \A q \in Importer \ {p} :
             /\ pc'[q] = pc[q] /\ req'[q] = req[q] /\ cur'[q] = cur[q] /\ left'[q] = left[q]
             /\ inflight'[q] = inflight[q] /\ session'[q] = session[q]
             /\ \A e \in EntityType : lockHolder'[e] = q <=> lockHolder[e] = q
<1> QED
  BY ConstantsAssumption DEF TypeOK, Leave, LocksWithout

\* A step of one importer does not disturb the invariant of another.
LEMMA OthersStep ==
    ASSUME TypeOK, ProcessInv, NEW p \in Importer, OthersKept(p), NEW q \in Importer \ {p}
    PROVE  ImporterInv(q)'
<1>1. Wanted(q)' = Wanted(q) /\ Held(q)' = Held(q)
  BY DEF OthersKept, Wanted, Held
<1>2. pc[q] \in Working => cur[q] \in 1..runSeq' /\ run'[cur[q]].manifest = run[cur[q]].manifest
  <2>1. pc[q] \in Working => cur[q] \in 1..runSeq
    BY DEF ProcessInv, ImporterInv
  <2>2. runSeq \in Nat /\ runSeq' \in Nat /\ runSeq <= runSeq'
    BY ConstantsAssumption DEF TypeOK, RunId, OthersKept
  <2> QED
    BY <2>1, <2>2 DEF OthersKept
<1>3. ImporterInv(q)
  BY DEF ProcessInv
<1> QED
  BY <1>1, <1>2, <1>3 DEF OthersKept, ImporterInv

\* An invocation that ends leaves an idle importer, and only the locks of live sessions.
LEMMA LeaveStep ==
    ASSUME TypeOK, ProcessInv, NEW p \in Importer, Leave(p)
    PROVE  ImporterInv(p)' /\ HeldLocksAreLive'
<1>1. ImporterInv(p)'
  BY DEF TypeOK, Leave, ImporterInv, Working
<1>2. HeldLocksAreLive'
  BY DEF TypeOK, ProcessInv, HeldLocksAreLive, Leave, LocksWithout
<1> QED
  BY <1>1, <1>2

\* A step of p leaves the other importers alone and keeps the invariant of p and of the tables.
LEMMA StepKeepsOthers ==
    ASSUME TypeOK, ProcessInv, NEW p \in Importer, ImporterStep(p)
    PROVE  OthersKept(p) /\ UnusedRunsAbsent' /\ ImporterInv(p)' /\ HeldLocksAreLive'
<1> USE ConstantsAssumption
<1>a. ASSUME UNCHANGED <<run, runSeq>> PROVE UnusedRunsAbsent'
  BY <1>a DEF ProcessInv, UnusedRunsAbsent
<1>b. ASSUME UNCHANGED <<run, runSeq>>, Leave(p)
      PROVE OthersKept(p) /\ UnusedRunsAbsent' /\ ImporterInv(p)' /\ HeldLocksAreLive'
  BY <1>a, <1>b, LeaveStep, LeaveKeepsOthers DEF OthersKept, TypeOK, RunId
<1>c. ASSUME UNCHANGED <<lockHolder, session>> PROVE HeldLocksAreLive'
  BY <1>c DEF ProcessInv, HeldLocksAreLive
<1>d. ASSUME UNCHANGED <<lockHolder, session, req, cur, run, runSeq>>,
             \A q \in Importer \ {p} :
                pc'[q] = pc[q] /\ left'[q] = left[q] /\ inflight'[q] = inflight[q]
      PROVE OthersKept(p) /\ UnusedRunsAbsent' /\ HeldLocksAreLive'
  BY <1>a, <1>c, <1>d DEF OthersKept, TypeOK, RunId
<1>i. ImporterInv(p)
  BY DEF ProcessInv
<1>w. ASSUME pc[p] \in Working, pc'[p] \in Working, left'[p] \subseteq left[p],
             UNCHANGED <<lockHolder, session, req, cur, run, runSeq>>,
             pc'[p] \in {"entity", "chunks"} \/ inflight'[p] # {} => left'[p] # {},
             inflight'[p] # {} => pc'[p] \in {"chunks", "failing"}
      PROVE ImporterInv(p)'
  BY <1>w, <1>i DEF ImporterInv, Working
<1>1. CASE \E q \in Request : Start(p, q)
  <2>1. OthersKept(p)
    BY <1>1 DEF Start, tables, OthersKept, TypeOK, RunId
  <2>2. ImporterInv(p)'
    BY <1>1, <1>i DEF Start, tables, ImporterInv, TypeOK, Working
  <2>3. HeldLocksAreLive'
    BY <1>1 DEF Start, HeldLocksAreLive, ProcessInv, TypeOK
  <2> QED
    BY <1>1, <1>a, <2>1, <2>2, <2>3 DEF Start, tables
<1>2. CASE TryLock(p)
  <2>1. CASE Leave(p)
    BY <1>2, <2>1, <1>b DEF TryLock, tables
  <2>2. CASE ~Leave(p)
    <3> DEFINE e == First(Wanted(p) \ Held(p))
    <3>1. /\ pc[p] = "locking" /\ lockHolder[e] = None
          /\ lockHolder' = [lockHolder EXCEPT ![e] = p]
          /\ pc' = [pc EXCEPT ![p] = IF Wanted(p) \subseteq Held(p) \cup {e}
                                     THEN "admission" ELSE "locking"]
          /\ UNCHANGED <<run, runSeq, session, req, cur, left, inflight>>
      BY <1>2, <2>2 DEF TryLock, tables
    <3> HIDE DEF e
    <3>2. Wanted(p) \subseteq EntityType
      BY <3>1, RequestFacts DEF Wanted
    <3>3. OthersKept(p)
      BY <3>1 DEF OthersKept, TypeOK, RunId
    <3>4. session[p]
      BY <3>1, <1>i DEF ImporterInv
    <3>5. HeldLocksAreLive'
      BY <3>1, <3>4 DEF HeldLocksAreLive, ProcessInv, TypeOK
    <3>6. pc'[p] = "admission" => Wanted(p)' \subseteq Held(p)'
      <4>1. Wanted(p)' = Wanted(p)
        BY <3>1 DEF Wanted
      <4>2. \A f \in EntityType : f \in Held(p) \/ f = e => f \in Held(p)'
        BY <3>1 DEF Held, TypeOK
      <4> QED
        BY <3>1, <3>2, <4>1, <4>2 DEF TypeOK
    <3>7. ImporterInv(p)'
      BY <3>1, <3>4, <3>6, <1>i DEF ImporterInv, TypeOK, Working
    <3> QED
      BY <1>a, <3>1, <3>3, <3>5, <3>7
  <2> QED
    BY <2>1, <2>2
<1>3. CASE AdmissionError(p)
  BY <1>3, <1>b DEF AdmissionError, tables
<1>4. CASE RejectAdmission(p)
  BY <1>4, <1>b DEF RejectAdmission, tables
<1>5. CASE SkipExact(p)
  <2>1. \A r \in RunId :
           /\ run'[r].manifest = run[r].manifest
           /\ run[r].status = "absent" => run'[r].status = "absent"
    BY <1>5, AbandonFacts DEF SkipExact, Marked, TypeOK
  <2>2. UnusedRunsAbsent'
    BY <1>5, <2>1 DEF SkipExact, UnusedRunsAbsent, ProcessInv
  <2>3. OthersKept(p)
    BY <1>5, <2>1, LeaveKeepsOthers DEF SkipExact, OthersKept, TypeOK, RunId
  <2> QED
    BY <1>5, <2>2, <2>3, LeaveStep DEF SkipExact
<1>6. CASE SkipConsolidated(p)
  <2>1. \A s \in RunId : s # runSeq + 1 =>
           /\ run'[s].manifest = run[s].manifest
           /\ run[s].status = "absent" => run'[s].status = "absent"
    BY <1>6, AbandonFacts DEF SkipConsolidated, Marked, TypeOK
  <2>2. runSeq' = runSeq + 1 /\ runSeq \in Nat
    BY <1>6 DEF SkipConsolidated, TypeOK, RunId
  <2>r. \A s \in 1..runSeq : s \in RunId /\ s # runSeq + 1
    BY <2>2 DEF TypeOK, RunId
  <2>3. UnusedRunsAbsent'
    <3> SUFFICES ASSUME NEW s \in RunId, s > runSeq' PROVE run'[s].status = "absent"
      BY DEF UnusedRunsAbsent
    <3>1. s # runSeq + 1 /\ s > runSeq
      BY <2>2 DEF RunId
    <3>2. run[s].status = "absent"
      BY <3>1 DEF UnusedRunsAbsent, ProcessInv
    <3> QED
      BY <3>1, <3>2, <2>1
  <2>4. OthersKept(p)
    <3>1. runSeq' \in runSeq..(runSeq + 1)
      BY <2>2
    <3>2. \A s \in 1..runSeq : run'[s].manifest = run[s].manifest
      BY <2>1, <2>r
    <3> QED
      BY <1>6, <3>1, <3>2, LeaveKeepsOthers DEF SkipConsolidated, OthersKept
  <2> QED
    BY <1>6, <2>3, <2>4, LeaveStep DEF SkipConsolidated
<1>7. CASE Admit(p)
  <2> DEFINE r == runSeq + 1
  <2>1. \A s \in RunId : s # runSeq + 1 =>
           /\ run'[s].manifest = run[s].manifest
           /\ run[s].status = "absent" => run'[s].status = "absent"
    BY <1>7, AbandonFacts DEF Admit, Marked, TypeOK
  <2>2. runSeq' = r /\ runSeq \in Nat /\ r \in RunId
    BY <1>7 DEF Admit, TypeOK, RunId
  <2>r. \A s \in 1..runSeq : s \in RunId /\ s # runSeq + 1
    BY <2>2 DEF TypeOK, RunId
  <2>3. UnusedRunsAbsent'
    <3> SUFFICES ASSUME NEW s \in RunId, s > runSeq' PROVE run'[s].status = "absent"
      BY DEF UnusedRunsAbsent
    <3>1. s # runSeq + 1 /\ s > runSeq
      BY <2>2 DEF RunId
    <3>2. run[s].status = "absent"
      BY <3>1 DEF UnusedRunsAbsent, ProcessInv
    <3> QED
      BY <3>1, <3>2, <2>1
  <2>4. OthersKept(p)
    <3>1. runSeq' \in runSeq..(runSeq + 1)
      BY <2>2
    <3>2. \A s \in 1..runSeq : run'[s].manifest = run[s].manifest
      BY <2>1, <2>r
    <3> QED
      BY <1>7, <3>1, <3>2 DEF Admit, OthersKept, TypeOK
  <2>5. run'[r].manifest = req[p].manifest
    <3>1. Marked(p) \in [RunId -> RunRow]
      BY AbandonFacts DEF Marked, TypeOK
    <3> QED
      BY <1>7, <2>2, <3>1 DEF Admit
  <2>6. pc[p] = "admission" /\ req[p] # None /\ left'[p] = DOMAIN req[p].manifest /\ left'[p] # {}
    <3>1. pc[p] = "admission" /\ left'[p] = DOMAIN req[p].manifest
      BY <1>7 DEF Admit, TypeOK
    <3> QED
      BY <3>1, <1>i, RequestFacts DEF ImporterInv
  <2>7. cur'[p] = r /\ pc'[p] = "entity" /\ UNCHANGED <<req, inflight, lockHolder, session>>
    BY <1>7 DEF Admit, TypeOK
  <2>8. ImporterInv(p)'
    BY <2>2, <2>5, <2>6, <2>7, <1>i DEF ImporterInv, Working
  <2> QED
    BY <1>c, <2>3, <2>4, <2>7, <2>8
<1>8. CASE SkipEntity(p)
  <2>1. /\ pc[p] = "entity" /\ left[p] # {} /\ inflight[p] = {}
        /\ left'[p] = left[p] \ {Entity(p)}
        /\ pc'[p] = IF left[p] = {Entity(p)} THEN "finished" ELSE "entity"
    BY <1>8, <1>i DEF SkipEntity, NextEntity, TypeOK, ImporterInv
  <2>2. ImporterInv(p)'
    BY <1>8, <1>w, <2>1 DEF SkipEntity, tables, Working
  <2> QED
    BY <1>8, <1>d, <2>2 DEF SkipEntity, NextEntity, tables, TypeOK
<1>9. CASE StartEntity(p)
  BY <1>9, <1>d, <1>w, <1>i DEF StartEntity, tables, Working, TypeOK, ImporterInv
<1>10. CASE SkipChunk(p)
  BY <1>10, <1>d, <1>w, <1>i DEF SkipChunk, tables, Working, TypeOK, ImporterInv
<1>11. CASE WriteChunk(p)
  BY <1>11, <1>d, <1>w, <1>i DEF WriteChunk, tables, Working, TypeOK, ImporterInv
<1>12. ASSUME NEW c \in inflight[p], CommitChunk(p, c)
       PROVE OthersKept(p) /\ UnusedRunsAbsent' /\ ImporterInv(p)' /\ HeldLocksAreLive'
  BY <1>12, <1>d, <1>w, <1>i DEF CommitChunk, Working, TypeOK, ImporterInv
<1>13. ASSUME NEW c \in inflight[p], AbortChunk(p, c)
       PROVE OthersKept(p) /\ UnusedRunsAbsent' /\ ImporterInv(p)' /\ HeldLocksAreLive'
  BY <1>13, <1>d, <1>w, <1>i DEF AbortChunk, tables, Working, TypeOK, ImporterInv
<1>14. CASE FailStep(p)
  BY <1>14, <1>d, <1>w, <1>i DEF FailStep, tables, Working, TypeOK, ImporterInv
<1>15. CASE CompleteEntity(p)
  <2>1. CASE NextEntity(p)
    <3>1. /\ pc[p] = "chunks" /\ left[p] # {} /\ inflight[p] = {}
          /\ left'[p] = left[p] \ {Entity(p)}
          /\ pc'[p] = IF left[p] = {Entity(p)} THEN "finished" ELSE "entity"
      BY <1>15, <1>i, <2>1 DEF CompleteEntity, NextEntity, TypeOK, ImporterInv
    <3>2. ImporterInv(p)'
      BY <1>15, <1>w, <3>1 DEF CompleteEntity, Working
    <3> QED
      BY <1>15, <1>d, <2>1, <3>2 DEF CompleteEntity, NextEntity, TypeOK
  <2>2. CASE pc' = [pc EXCEPT ![p] = "failing"] /\ UNCHANGED left
    BY <1>15, <1>d, <1>w, <1>i, <2>2 DEF CompleteEntity, Working, TypeOK, ImporterInv
  <2> QED
    BY <1>15, <2>1, <2>2 DEF CompleteEntity
<1>16. CASE CompleteSuccess(p)
  <2>1. cur[p] \in 1..runSeq /\ runSeq \in Nat /\ 1..runSeq \subseteq RunId
    BY <1>16, <1>i DEF CompleteSuccess, ImporterInv, Working, TypeOK, RunId
  <2>2. \A r \in RunId :
           /\ run'[r].manifest = run[r].manifest
           /\ r # cur[p] => run'[r] = run[r]
    BY <1>16, <2>1 DEF CompleteSuccess, TypeOK, RunRow
  <2>3. UnusedRunsAbsent'
    BY <1>16, <2>1, <2>2 DEF CompleteSuccess, UnusedRunsAbsent, ProcessInv
  <2>4. OthersKept(p)
    BY <1>16, <2>1, <2>2, LeaveKeepsOthers DEF CompleteSuccess, OthersKept
  <2> QED
    BY <1>16, <2>3, <2>4, LeaveStep DEF CompleteSuccess
<1>17. CASE CompleteFailure(p)
  <2>1. cur[p] \in 1..runSeq /\ runSeq \in Nat /\ 1..runSeq \subseteq RunId
    BY <1>17, <1>i DEF CompleteFailure, ImporterInv, Working, TypeOK, RunId
  <2>2. \A r \in RunId :
           /\ run'[r].manifest = run[r].manifest
           /\ r # cur[p] => run'[r] = run[r]
    BY <1>17, <2>1 DEF CompleteFailure, TypeOK, RunRow
  <2>3. UnusedRunsAbsent'
    BY <1>17, <2>1, <2>2 DEF CompleteFailure, UnusedRunsAbsent, ProcessInv
  <2>4. OthersKept(p)
    BY <1>17, <2>1, <2>2, LeaveKeepsOthers DEF CompleteFailure, OthersKept
  <2> QED
    BY <1>17, <2>3, <2>4, LeaveStep DEF CompleteFailure
<1>18. CASE CompleteError(p)
  BY <1>18, <1>b DEF CompleteError, tables
<1>19. CASE LoseSession(p)
  <2>1. /\ pc[p] \in Working
        /\ session' = [session EXCEPT ![p] = FALSE] /\ lockHolder' = LocksWithout(p)
        /\ UNCHANGED <<run, runSeq, pc, req, cur, left, inflight>>
    BY <1>19 DEF LoseSession, tables, local
  <2>2. OthersKept(p)
    BY <2>1 DEF LocksWithout, OthersKept, TypeOK, RunId
  <2>3. ImporterInv(p)'
    BY <2>1, <1>i DEF ImporterInv, Working, TypeOK
  <2>4. HeldLocksAreLive'
    BY <2>1 DEF LocksWithout, HeldLocksAreLive, ProcessInv, TypeOK
  <2> QED
    BY <1>a, <2>1, <2>2, <2>3, <2>4
<1>20. CASE Crash(p)
  BY <1>20, <1>b DEF Crash, tables
<1> QED
  BY <1>1, <1>2, <1>3, <1>4, <1>5, <1>6, <1>7, <1>8, <1>9, <1>10, <1>11, <1>12, <1>13, <1>14,
     <1>15, <1>16, <1>17, <1>18, <1>19, <1>20 DEF ImporterStep

\* Every step keeps the importers' part of the invariant.
LEMMA ProcessStep ==
    ASSUME TypeOK, ProcessInv, [Next]_vars
    PROVE  ProcessInv'
<1>1. CASE UNCHANGED vars
  BY <1>1 DEF vars, tables, local, ProcessInv, UnusedRunsAbsent, ImporterInv, HeldLocksAreLive,
              Wanted, Held
<1>2. ASSUME NEW p \in Importer, ImporterStep(p) PROVE ProcessInv'
  BY <1>2, StepKeepsOthers, OthersStep DEF ProcessInv
<1> QED
  BY <1>1, <1>2 DEF Next

\* Every table and every importer's memory is well typed in every reachable state, for any
\* number of importers, entity types, dumps, runs and workers.
THEOREM TypeCorrect == Spec => []TypeOK
<1>1. Init => TypeOK /\ ProcessInv
  <2> SUFFICES ASSUME Init PROVE TypeOK /\ ProcessInv
    OBVIOUS
  <2> USE ConstantsAssumption
  <2>1. NoRunRow \in RunRow
    <3>1. [e \in {} |-> 0] \in Manifest
      <4>1. [e \in {} |-> 0] \in [{} -> Dump] /\ {} \in SUBSET EntityType
        OBVIOUS
      <4> QED
        BY <4>1 DEF Manifest
    <3> QED
      BY <3>1 DEF NoRunRow, RunRow
  <2>2. TypeOK
    BY <2>1 DEF Init, TypeOK, NoRunDump, RunDumpRow, EntityStateRow, RunChunkRow
  <2>3. ProcessInv
    BY DEF Init, ProcessInv, UnusedRunsAbsent, ImporterInv, HeldLocksAreLive, NoRunRow, Working
  <2> QED
    BY <2>2, <2>3
<1>2. TypeOK /\ ProcessInv /\ [Next]_vars => TypeOK' /\ ProcessInv'
  BY TypeStep, ProcessStep
<1> QED
  BY <1>1, <1>2, PTL DEF Spec

\* The importers' part of the invariant, for every value of the constants.
THEOREM ProcessCorrect == Spec => []ProcessInv
<1>1. Spec => []TypeOK
  BY TypeCorrect
<1>2. Init => ProcessInv
  BY ConstantsAssumption DEF Init, ProcessInv, UnusedRunsAbsent, ImporterInv, HeldLocksAreLive, NoRunRow, Working
<1>3. TypeOK /\ ProcessInv /\ [Next]_vars => ProcessInv'
  BY ProcessStep
<1> QED
  BY <1>1, <1>2, <1>3, PTL DEF Spec

-----------------------------------------------------------------------------
(* Two runs that import the same entity type are never both running. *)

\* A step makes at most one run a running run, and then no running run selects what it selects.
LEMMA DisjointStep ==
    ASSUME TypeOK, ProcessInv, RunningRunsDisjoint, [Next]_vars
    PROVE  RunningRunsDisjoint'
<1> USE ConstantsAssumption
<1>1. ASSUME \A r \in RunId : Running(r)' => Running(r) /\ run'[r].manifest = run[r].manifest
      PROVE  RunningRunsDisjoint'
  BY <1>1 DEF RunningRunsDisjoint, Running
<1>2. CASE UNCHANGED run
  BY <1>1, <1>2 DEF Running
<1>3. ASSUME NEW p \in Importer, SkipExact(p) PROVE RunningRunsDisjoint'
  BY <1>1, <1>3, AbandonFacts DEF SkipExact, Marked, TypeOK, Running
<1>4. ASSUME NEW p \in Importer, SkipConsolidated(p) PROVE RunningRunsDisjoint'
  <2>1. Marked(p) \in [RunId -> RunRow]
    BY AbandonFacts DEF Marked, TypeOK
  <2>2. \A s \in RunId : Running(s)' => Running(s) /\ run'[s].manifest = run[s].manifest
    BY <1>4, <2>1, AbandonFacts DEF SkipConsolidated, Marked, TypeOK, Running
  <2> QED
    BY <1>1, <2>2
<1>5. ASSUME NEW p \in Importer, Admit(p) PROVE RunningRunsDisjoint'
  <2> DEFINE r == runSeq + 1
             S == DOMAIN req[p].manifest
  <2>1. Marked(p) \in [RunId -> RunRow]
    BY AbandonFacts DEF Marked, TypeOK
  <2>2. r \in RunId /\ run'[r].manifest = req[p].manifest
    BY <1>5, <2>1 DEF Admit, TypeOK, RunId
  <2>3. \A s \in RunId : s # r /\ Running(s)' =>
           Running(s) /\ run'[s].manifest = run[s].manifest /\ DOMAIN run'[s].manifest \cap S = {}
    <3>1. \A s \in RunId : s # r => run'[s] = Abandon(run, S)[s]
      BY <1>5, <2>1 DEF Admit, Marked
    <3>2. \A s \in RunId :
             /\ Abandon(run, S)[s].manifest = run[s].manifest
             /\ Abandon(run, S)[s].status = "running" =>
                   run[s].status = "running" /\ DOMAIN run[s].manifest \cap S = {}
      BY AbandonFacts DEF TypeOK
    <3> QED
      BY <3>1, <3>2 DEF Running
  <2> QED
    BY <2>2, <2>3 DEF RunningRunsDisjoint
<1>6. ASSUME NEW p \in Importer, CompleteSuccess(p) PROVE RunningRunsDisjoint'
  <2>1. \A s \in RunId : Running(s)' => Running(s) /\ run'[s].manifest = run[s].manifest
    BY <1>6 DEF CompleteSuccess, TypeOK, RunRow, Running
  <2> QED
    BY <1>1, <2>1
<1>7. ASSUME NEW p \in Importer, CompleteFailure(p) PROVE RunningRunsDisjoint'
  <2>1. \A s \in RunId : Running(s)' => Running(s) /\ run'[s].manifest = run[s].manifest
    BY <1>7 DEF CompleteFailure, TypeOK, RunRow, Running
  <2> QED
    BY <1>1, <2>1
<1> QED
  <2>1. UNCHANGED tables => UNCHANGED run
    BY DEF tables
  <2>2. \A p \in Importer : CompleteEntity(p) => UNCHANGED run
    BY DEF CompleteEntity
  <2>3. \A p \in Importer : \A c : CommitChunk(p, c) => UNCHANGED run
    BY DEF CommitChunk
  <2> QED
    BY <1>2, <1>3, <1>4, <1>5, <1>6, <1>7, <2>1, <2>2, <2>3, TableSteps

\* No two running runs ever select the same entity type, however many importers are admitted,
\* lose their session or crash: what markAbandonedRuns is for.
THEOREM DisjointRuns == Spec => []RunningRunsDisjoint
<1>1. Init => RunningRunsDisjoint
  BY DEF Init, RunningRunsDisjoint, Running, NoRunRow
<1>2. TypeOK /\ ProcessInv /\ RunningRunsDisjoint /\ [Next]_vars => RunningRunsDisjoint'
  BY DisjointStep
<1> QED
  BY <1>1, <1>2, TypeCorrect, ProcessCorrect, PTL DEF Spec

-----------------------------------------------------------------------------
(* An importer whose lock session is alive owns its run. *)

\* Two live importers at work hold disjoint locks, so they import different entity types
\* under different runs.
LEMMA LiveImportersDiffer ==
    ASSUME TypeOK, ProcessInv, LiveImporterOwnsItsRun,
           NEW p \in Importer, NEW q \in Importer \ {p}, pc[q] \in Working, session[q],
           NEW e \in DOMAIN run[cur[q]].manifest
    PROVE  /\ e \in EntityType
           /\ lockHolder[e] = q
           /\ pc[p] = "admission" => e \notin DOMAIN req[p].manifest
           /\ pc[p] \in Working /\ session[p] => e \notin DOMAIN run[cur[p]].manifest
<1> USE ConstantsAssumption
<1>1. e \in EntityType
  <2>1. cur[q] \in RunId /\ run[cur[q]].manifest = req[q].manifest /\ pc[q] # "idle"
    BY DEF ProcessInv, ImporterInv, TypeOK, RunId, Working
  <2> QED
    BY <2>1, RequestFacts
<1>2. e \in Held(q)
  BY <1>1 DEF LiveImporterOwnsItsRun
<1>3. pc[p] = "admission" => e \notin DOMAIN req[p].manifest
  <2> SUFFICES ASSUME pc[p] = "admission", e \in DOMAIN req[p].manifest PROVE FALSE
    OBVIOUS
  <2>1. e \in Wanted(p)
    BY <1>1 DEF Wanted
  <2>2. e \in Held(p)
    BY <2>1 DEF ProcessInv, ImporterInv
  <2> QED
    BY <1>2, <2>2 DEF Held
<1>4. pc[p] \in Working /\ session[p] => e \notin DOMAIN run[cur[p]].manifest
  <2> SUFFICES ASSUME pc[p] \in Working, session[p], e \in DOMAIN run[cur[p]].manifest PROVE FALSE
    OBVIOUS
  <2>1. e \in Held(p)
    BY <1>1 DEF LiveImporterOwnsItsRun
  <2> QED
    BY <1>2, <2>1 DEF Held
<1> QED
  BY <1>1, <1>2, <1>3, <1>4 DEF Held

\* What an importer other than p keeps in a step of p that spares its run and its entities.
LEMMA SparedImporter ==
    ASSUME TypeOK, ProcessInv, LiveImporterOwnsItsRun,
           NEW p \in Importer, OthersKept(p), NEW q \in Importer \ {p},
           pc[q] \in Working, session[q],
           Running(cur[q]) => Running(cur[q])',
           \A e \in DOMAIN run[cur[q]].manifest : entityState'[e] = entityState[e]
    PROVE  /\ Running(cur[q])'
           /\ \A e \in DOMAIN run'[cur'[q]].manifest :
                 LockTypes[e] \subseteq Held(q)' /\ entityState'[e].active = cur'[q]
<1>1. cur'[q] = cur[q] /\ run'[cur[q]].manifest = run[cur[q]].manifest /\ Held(q)' = Held(q)
  BY DEF OthersKept, ProcessInv, ImporterInv, Held
<1>2. /\ Running(cur[q])
      /\ \A e \in DOMAIN run[cur[q]].manifest :
            LockTypes[e] \subseteq Held(q) /\ entityState[e].active = cur[q]
  BY DEF LiveImporterOwnsItsRun
<1> QED
  BY <1>1, <1>2 DEF Running

\* What LiveImporterOwnsItsRun says of one importer.
Owns(p) ==
    pc[p] \in Working /\ session[p] =>
        /\ Running(cur[p])
        /\ \A e \in DOMAIN run[cur[p]].manifest :
              LockTypes[e] \subseteq Held(p) /\ entityState[e].active = cur[p]

\* No step takes the run of a live importer away from it: the abandonments of an admission
\* and the catalog states it sets concern entity types whose locks it holds.
LEMMA OwnerStep ==
    ASSUME TypeOK, ProcessInv, LiveImporterOwnsItsRun, [Next]_vars
    PROVE  LiveImporterOwnsItsRun'
<1> USE ConstantsAssumption
<1>1. CASE UNCHANGED vars
  BY <1>1 DEF vars, tables, local, LiveImporterOwnsItsRun, Running, Held
<1> SUFFICES ASSUME NEW p \in Importer, ImporterStep(p) PROVE LiveImporterOwnsItsRun'
  BY <1>1 DEF Next
<1>2. OthersKept(p)
  BY StepKeepsOthers
<1>3. ASSUME Owns(p)',
             \A q \in Importer \ {p} : pc[q] \in Working /\ session[q] =>
                /\ Running(cur[q]) => Running(cur[q])'
                /\ \A e \in DOMAIN run[cur[q]].manifest : entityState'[e] = entityState[e]
      PROVE LiveImporterOwnsItsRun'
  <2>1. \A q \in Importer \ {p} : Owns(q)'
    BY <1>2, <1>3, SparedImporter DEF Owns, OthersKept
  <2> QED
    BY <1>3, <2>1 DEF Owns, LiveImporterOwnsItsRun
<1>4. \A q \in Importer \ {p} : cur'[q] = cur[q]
  BY <1>2 DEF OthersKept
<1>5. ASSUME UNCHANGED <<run, entityState>>, Owns(p)' PROVE LiveImporterOwnsItsRun'
  BY <1>3, <1>4, <1>5 DEF Running
<1>6. ASSUME Leave(p) PROVE Owns(p)'
  BY <1>6 DEF Leave, Owns, Working, TypeOK
<1>7. ASSUME UNCHANGED <<run, entityState, cur, session, lockHolder>>, pc[p] \in Working PROVE Owns(p)'
  BY <1>7 DEF Owns, LiveImporterOwnsItsRun, Running, Held
<1>8. \A q \in Importer \ {p} : pc[q] \in Working =>
         cur[q] \in RunId /\ cur[q] # runSeq + 1
  BY DEF ProcessInv, ImporterInv, TypeOK, RunId
<1>9. ASSUME NEW S, \A q \in Importer \ {p} : pc[q] \in Working /\ session[q] =>
                       \A e \in DOMAIN run[cur[q]].manifest : e \notin S
      PROVE \A q \in Importer \ {p} : pc[q] \in Working /\ session[q] =>
               (Running(cur[q]) => Abandon(run, S)[cur[q]] = run[cur[q]])
  BY <1>8, <1>9 DEF Abandon
<1>10. ASSUME pc[p] = "admission"
       PROVE \A q \in Importer \ {p} : pc[q] \in Working /\ session[q] =>
                \A e \in DOMAIN run[cur[q]].manifest : e \notin DOMAIN req[p].manifest /\ e \in EntityType
  BY <1>10, LiveImportersDiffer
<1>11. CASE SkipExact(p)
  <2>1. \A q \in Importer \ {p} : pc[q] \in Working /\ session[q] =>
           /\ Running(cur[q]) => Running(cur[q])'
           /\ \A e \in DOMAIN run[cur[q]].manifest : entityState'[e] = entityState[e]
    BY <1>11, <1>4, <1>9, <1>10 DEF SkipExact, Marked, StatesReady, Running
  <2> QED
    BY <1>3, <1>6, <1>11, <2>1 DEF SkipExact
<1>12. CASE SkipConsolidated(p)
  <2>1. Marked(p) \in [RunId -> RunRow]
    BY AbandonFacts DEF Marked, TypeOK
  <2>2. \A s \in RunId : s # runSeq + 1 => run'[s] = Abandon(run, DOMAIN req[p].manifest)[s]
    BY <1>12, <2>1 DEF SkipConsolidated, Marked
  <2>3. \A q \in Importer \ {p} : pc[q] \in Working /\ session[q] =>
           /\ Running(cur[q]) => Running(cur[q])'
           /\ \A e \in DOMAIN run[cur[q]].manifest : entityState'[e] = entityState[e]
    BY <1>12, <1>4, <1>8, <1>9, <1>10, <2>2 DEF SkipConsolidated, StatesReady, Running
  <2> QED
    BY <1>3, <1>6, <1>12, <2>3 DEF SkipConsolidated
<1>13. CASE Admit(p)
  <2> DEFINE r == runSeq + 1
             S == DOMAIN req[p].manifest
  <2>1. Marked(p) \in [RunId -> RunRow]
    BY AbandonFacts DEF Marked, TypeOK
  <2>2. \A s \in RunId : s # r => run'[s] = Abandon(run, S)[s]
    BY <1>13, <2>1 DEF Admit, Marked
  <2>3. \A q \in Importer \ {p} : pc[q] \in Working /\ session[q] =>
           /\ Running(cur[q]) => Running(cur[q])'
           /\ \A e \in DOMAIN run[cur[q]].manifest : entityState'[e] = entityState[e]
    <3>1. pc[p] = "admission" /\ entityState' = StatesImporting(r, S)
      BY <1>13 DEF Admit
    <3>2. \A e \in EntityType \ S : entityState'[e] = entityState[e]
      BY <3>1 DEF StatesImporting
    <3>3. \A q \in Importer \ {p} : pc[q] \in Working /\ session[q] =>
             (Running(cur[q]) => Running(cur[q])')
      BY <3>1, <1>4, <1>8, <1>9, <1>10, <2>2 DEF Running
    <3> QED
      BY <3>1, <3>2, <3>3, <1>10
  <2>4. r \in RunId /\ run'[r].status = "running" /\ run'[r].manifest = req[p].manifest
    BY <1>13, <2>1 DEF Admit, TypeOK, RunId
  <2>5. pc[p] = "admission" /\ S \subseteq EntityType /\ Wanted(p) \subseteq Held(p)
    BY <1>13, RequestFacts DEF Admit, ProcessInv, ImporterInv
  <2>6. cur'[p] = r /\ Held(p)' = Held(p)
    BY <1>13 DEF Admit, TypeOK, Held
  <2>7. \A e \in S : LockTypes[e] \subseteq Held(p)
    BY <2>5 DEF Wanted
  <2>8. \A e \in S : entityState'[e].active = r
    <3>1. \A e \in EntityType : entityState[e] \in EntityStateRow
      BY DEF TypeOK
    <3>2. \A e \in S : entityState'[e] =
            [entityState[e] EXCEPT !.status = "importing", !.active = r,
                !.operation = IF entityState[e].last = NoRun THEN "bootstrap" ELSE "refresh"]
      BY <1>13, <2>5 DEF Admit, StatesImporting
    <3>3. \A x \in EntityStateRow, op \in {"bootstrap", "refresh"} :
             [x EXCEPT !.status = "importing", !.active = r, !.operation = op].active = r
      BY DEF EntityStateRow
    <3> SUFFICES ASSUME NEW e \in S PROVE entityState'[e].active = r
      OBVIOUS
    <3> DEFINE op == IF entityState[e].last = NoRun THEN "bootstrap" ELSE "refresh"
    <3>4. entityState[e] \in EntityStateRow /\ op \in {"bootstrap", "refresh"}
      BY <2>5, <3>1
    <3>5. entityState'[e] =
            [entityState[e] EXCEPT !.status = "importing", !.active = r, !.operation = op]
      BY <3>2
    <3> HIDE DEF op
    <3> QED
      BY <3>3, <3>4, <3>5
  <2> QED
    BY <1>3, <2>3, <2>4, <2>6, <2>7, <2>8 DEF Owns, Running
<1>14. CASE CompleteSuccess(p)
  <2>1. pc[p] \in Working /\ session[p]
    BY <1>14 DEF CompleteSuccess, Working
  <2>2. ASSUME NEW q \in Importer \ {p}, pc[q] \in Working, session[q]
        PROVE  /\ Running(cur[q]) => Running(cur[q])'
               /\ \A e \in DOMAIN run[cur[q]].manifest : entityState'[e] = entityState[e]
    <3>1. \A e \in DOMAIN run[cur[q]].manifest : e \in EntityType /\ e \notin DOMAIN run[cur[p]].manifest
      BY <2>1, <2>2, LiveImportersDiffer
    <3>2. cur[q] # cur[p] /\ cur[q] \in RunId
      <4>1. run[cur[q]].manifest = req[q].manifest /\ DOMAIN req[q].manifest # {}
        BY <2>2, RequestFacts DEF ProcessInv, ImporterInv, Working
      <4> QED
        BY <1>8, <2>2, <3>1, <4>1
    <3>3. run'[cur[q]] = run[cur[q]]
      BY <1>14, <3>2 DEF CompleteSuccess, TypeOK
    <3> QED
      BY <1>14, <1>4, <3>1, <3>3 DEF CompleteSuccess, StatesReady, Running
  <2> QED
    BY <1>3, <1>6, <1>14, <2>2 DEF CompleteSuccess
<1>15. CASE CompleteFailure(p)
  <2>1. pc[p] \in Working /\ session[p]
    BY <1>15 DEF CompleteFailure, Working
  <2>2. ASSUME NEW q \in Importer \ {p}, pc[q] \in Working, session[q]
        PROVE  /\ Running(cur[q]) => Running(cur[q])'
               /\ \A e \in DOMAIN run[cur[q]].manifest : entityState'[e] = entityState[e]
    <3>1. \A e \in DOMAIN run[cur[q]].manifest : e \in EntityType /\ e \notin DOMAIN run[cur[p]].manifest
      BY <2>1, <2>2, LiveImportersDiffer
    <3>2. cur[q] # cur[p] /\ cur[q] \in RunId
      <4>1. run[cur[q]].manifest = req[q].manifest /\ DOMAIN req[q].manifest # {}
        BY <2>2, RequestFacts DEF ProcessInv, ImporterInv, Working
      <4> QED
        BY <1>8, <2>2, <3>1, <4>1
    <3>3. run'[cur[q]] = run[cur[q]]
      BY <1>15, <3>2 DEF CompleteFailure, TypeOK
    <3> QED
      BY <1>15, <1>4, <3>1, <3>3 DEF CompleteFailure, StatesFailed, Running
  <2> QED
    BY <1>3, <1>6, <1>15, <2>2 DEF CompleteFailure
<1>16. CASE \E q \in Request : Start(p, q)
  BY <1>5, <1>16 DEF Start, tables, Owns, Working, TypeOK
<1>17. CASE TryLock(p)
  <2>1. CASE Leave(p)
    BY <1>5, <1>6, <1>17, <2>1 DEF TryLock, tables
  <2>2. CASE ~Leave(p)
    <3>1. pc'[p] \notin Working
      BY <1>17, <2>2 DEF TryLock, Working, TypeOK
    <3> QED
      BY <1>5, <1>17, <3>1 DEF TryLock, tables, Owns
  <2> QED
    BY <2>1, <2>2
<1>18. CASE LoseSession(p)
  BY <1>5, <1>18 DEF LoseSession, tables, Owns, TypeOK
<1>19. CASE AdmissionError(p) \/ RejectAdmission(p) \/ CompleteError(p) \/ Crash(p)
  BY <1>5, <1>6, <1>19 DEF AdmissionError, RejectAdmission, CompleteError, Crash, tables
<1>20. CASE \/ SkipEntity(p) \/ StartEntity(p) \/ SkipChunk(p) \/ WriteChunk(p) \/ FailStep(p)
            \/ CompleteEntity(p) \/ \E c \in inflight[p] : CommitChunk(p, c) \/ AbortChunk(p, c)
  BY <1>5, <1>7, <1>20
     DEF SkipEntity, StartEntity, SkipChunk, WriteChunk, FailStep, CompleteEntity, CommitChunk,
         AbortChunk, tables, Working
<1> QED
  BY <1>11, <1>12, <1>13, <1>14, <1>15, <1>16, <1>17, <1>18, <1>19, <1>20 DEF ImporterStep

\* While its lock session lives, an importer's run stays running and its entity types stay its
\* own, for every interleaving of admissions, crashes and session losses.
THEOREM OwnerSafe == Spec => []LiveImporterOwnsItsRun
<1>1. Init => LiveImporterOwnsItsRun
  BY DEF Init, LiveImporterOwnsItsRun, Working
<1>2. TypeOK /\ ProcessInv /\ LiveImporterOwnsItsRun /\ [Next]_vars => LiveImporterOwnsItsRun'
  BY OwnerStep
<1> QED
  BY <1>1, <1>2, TypeCorrect, ProcessCorrect, PTL DEF Spec

-----------------------------------------------------------------------------
(* Commits are fenced. *)

\* Only a chunk commit writes catalog rows, it writes the version of a run that is running,
\* and no other running run imports the entity: an abandoned worker cannot write.
THEOREM FencedCommits == Spec => CommitsAreFenced
<1> DEFINE Fenced ==
      \A e \in EntityType :
          rows'[e] # rows[e] =>
              \E r \in RunId :
                  /\ Running(r) /\ run'[r].status = "running" /\ Selects(run, r, e)
                  /\ \A s \in RunId : Running(s) /\ Selects(run, s, e) => s = r
                  /\ \A i \in Item : rows'[e][i] \in {rows[e][i], Version(run, r, e)}
<1>1. TypeOK /\ ProcessInv /\ RunningRunsDisjoint /\ [Next]_vars => [Fenced]_vars
  <2> SUFFICES ASSUME TypeOK, ProcessInv, RunningRunsDisjoint, [Next]_vars PROVE Fenced
    OBVIOUS
  <2>1. ASSUME NEW p \in Importer, NEW c \in inflight[p], CommitChunk(p, c) PROVE Fenced
    <3> DEFINE f == Entity(p)
               r == cur[p]
    <3>1. f \in EntityType /\ r \in RunId /\ f \in DOMAIN run[r].manifest
      BY <2>1, EntityFacts DEF CommitChunk, ProcessInv, ImporterInv, Working
    <3>2. Running(r) /\ run'[r].status = "running" /\ Selects(run, r, f)
      BY <2>1, <3>1 DEF CommitChunk, Recordable, Running, Selects
    <3>3. \A s \in RunId : Running(s) /\ Selects(run, s, f) => s = r
      BY <3>1, <3>2 DEF RunningRunsDisjoint, Selects
    <3>4. /\ \A e \in EntityType \ {f} : rows'[e] = rows[e]
          /\ \A i \in Item : rows'[f][i] \in {rows[f][i], Version(run, r, f)}
      BY <2>1, <3>1 DEF CommitChunk, TypeOK
    <3> HIDE DEF f, r
    <3> QED
      BY <3>1, <3>2, <3>3, <3>4
  <2>2. CASE UNCHANGED rows
    BY <2>2
  <2>3. UNCHANGED tables => UNCHANGED rows
    BY DEF tables
  <2>4. \A p \in Importer :
           SkipExact(p) \/ SkipConsolidated(p) \/ Admit(p) => UNCHANGED rows
    BY DEF SkipExact, SkipConsolidated, Admit
  <2>5. \A p \in Importer :
           CompleteEntity(p) \/ CompleteSuccess(p) \/ CompleteFailure(p) => UNCHANGED rows
    BY DEF CompleteEntity, CompleteSuccess, CompleteFailure
  <2> QED
    BY <2>1, <2>2, <2>3, <2>4, <2>5, TableSteps
<1>2. CommitsAreFenced <=> [][Fenced]_vars
  BY DEF CommitsAreFenced
<1> QED
  BY <1>1, <1>2, TypeCorrect, ProcessCorrect, DisjointRuns, PTL DEF Spec

-----------------------------------------------------------------------------
(* Settled runs. *)

\* Recovery leaves a settled run alone.
LEMMA AbandonKeepsSettled ==
    ASSUME TypeOK, NEW p \in Importer, NEW r \in RunId, run[r].status # "running"
    PROVE  Marked(p)[r] = run[r]
<1> QED
  BY DEF Marked, Abandon

\* The run id that admission hands out next belongs to no run yet.
LEMMA NextRunAbsent ==
    ASSUME TypeOK, ProcessInv, runSeq < MaxRuns
    PROVE  runSeq + 1 \in RunId /\ run[runSeq + 1].status = "absent"
<1>1. runSeq \in Nat /\ runSeq + 1 \in RunId /\ runSeq + 1 > runSeq
  BY ConstantsAssumption DEF TypeOK, RunId
<1> QED
  BY <1>1 DEF ProcessInv, UnusedRunsAbsent

\* The run and the current entity of an importer whose chunk transaction is open.
LEMMA CommitterFacts ==
    ASSUME TypeOK, ProcessInv, NEW p \in Importer, NEW c \in inflight[p], CommitChunk(p, c)
    PROVE  cur[p] \in RunId /\ Entity(p) \in EntityType /\ Running(cur[p])
<1>1. pc[p] \in Working /\ left[p] # {}
  BY DEF CommitChunk, ProcessInv, ImporterInv, Working
<1> QED
  BY <1>1, EntityFacts DEF CommitChunk, Recordable, Running

\* What an importer writes into the row or the progress of a run, it writes into a run of its
\* own that is still running, or into one not used before.
LEMMA SettledStep ==
    ASSUME TypeOK, ProcessInv, [Next]_vars,
           NEW r \in RunId, run[r].status \in {"success", "failed"}
    PROVE  run'[r] = run[r] /\ runDump'[r] = runDump[r]
<1>1. ASSUME NEW p \in Importer, SkipExact(p)
      PROVE run'[r] = run[r] /\ runDump'[r] = runDump[r]
  BY <1>1, AbandonKeepsSettled DEF SkipExact
<1>2. ASSUME NEW p \in Importer, SkipConsolidated(p)
      PROVE run'[r] = run[r] /\ runDump'[r] = runDump[r]
  <2>1. r # runSeq + 1
    BY <1>2, NextRunAbsent DEF SkipConsolidated
  <2> QED
    BY <1>2, <2>1, AbandonFacts, AbandonKeepsSettled DEF SkipConsolidated, Marked, TypeOK
<1>3. ASSUME NEW p \in Importer, Admit(p)
      PROVE run'[r] = run[r] /\ runDump'[r] = runDump[r]
  <2>1. r # runSeq + 1
    BY <1>3, NextRunAbsent DEF Admit
  <2> QED
    BY <1>3, <2>1, AbandonFacts, AbandonKeepsSettled DEF Admit, Marked, TypeOK
<1>4. ASSUME NEW p \in Importer, NEW c \in inflight[p], CommitChunk(p, c)
      PROVE run'[r] = run[r] /\ runDump'[r] = runDump[r]
  <2>1. r # cur[p]
    BY <1>4, CommitterFacts DEF Running
  <2> QED
    BY <1>4, <2>1 DEF CommitChunk, TypeOK
<1>5. ASSUME NEW p \in Importer, CompleteEntity(p)
      PROVE run'[r] = run[r] /\ runDump'[r] = runDump[r]
  <2>1. run[cur[p]].status = "running" \/ UNCHANGED runDump
    BY <1>5 DEF CompleteEntity
  <2> QED
    BY <1>5, <2>1 DEF CompleteEntity, TypeOK
<1>6. ASSUME NEW p \in Importer, CompleteSuccess(p) \/ CompleteFailure(p)
      PROVE run'[r] = run[r] /\ runDump'[r] = runDump[r]
  BY <1>6 DEF CompleteSuccess, CompleteFailure, TypeOK
<1>7. CASE UNCHANGED <<run, runDump>>
  BY <1>7
<1> QED
  <2>1. UNCHANGED tables => UNCHANGED <<run, runDump>>
    BY DEF tables
  <2> QED
    BY <1>1, <1>2, <1>3, <1>4, <1>5, <1>6, <1>7, <2>1, TableSteps

\* A settled run never changes again: neither its row nor its progress, whatever the other
\* importers and the recovery of later ones do.
THEOREM SettledFinal == Spec => SettledRunsAreFinal
<1> DEFINE Final ==
      \A r \in RunId : run[r].status \in {"success", "failed"} =>
          run'[r] = run[r] /\ runDump'[r] = runDump[r]
<1>1. TypeOK /\ ProcessInv /\ [Next]_vars => [Final]_vars
  BY SettledStep
<1>2. SettledRunsAreFinal <=> [][Final]_vars
  BY DEF SettledRunsAreFinal
<1> QED
  BY <1>1, <1>2, TypeCorrect, ProcessCorrect, PTL DEF Spec

\* Only admission, success and chunk commits touch the ledger.
LEMMA LedgerSteps ==
    ASSUME [Next]_vars
    PROVE  \/ \E p \in Importer : Admit(p) \/ CompleteSuccess(p)
           \/ \E p \in Importer : \E d \in inflight[p] : CommitChunk(p, d)
           \/ UNCHANGED runChunk
<1>1. UNCHANGED tables => UNCHANGED runChunk
  BY DEF tables
<1>2. \A p \in Importer :
         SkipExact(p) \/ SkipConsolidated(p) \/ CompleteEntity(p) \/ CompleteFailure(p)
             => UNCHANGED runChunk
  BY DEF SkipExact, SkipConsolidated, CompleteEntity, CompleteFailure
<1> QED
  BY <1>1, <1>2, TableSteps

\* The ledger of a failed run leaves it only for the run that resumes it, or when the current
\* checkpoints cover every version the run was importing.
THEOREM FailedLedgerSafe == Spec => FailedLedgerPreserved
<1> DEFINE Kept ==
      \A c \in runChunk :
          run[c.run].status = "failed" /\ c \notin runChunk' =>
              \/ \E r \in RunId : run'[r].from = c.run /\ run[r].status = "absent"
              \/ \A e \in DOMAIN run[c.run].manifest :
                    LET k == Checkpoint(run', e)
                    IN  k # NoRun /\ Version(run', k, e) = Version(run, c.run, e)
<1>1. TypeOK /\ ProcessInv /\ [Next]_vars => [Kept]_vars
  <2> SUFFICES ASSUME TypeOK, ProcessInv, [Next]_vars PROVE Kept
    OBVIOUS
  <2> SUFFICES ASSUME NEW c \in runChunk, run[c.run].status = "failed", c \notin runChunk'
               PROVE \/ \E r \in RunId : run'[r].from = c.run /\ run[r].status = "absent"
                     \/ \A e \in DOMAIN run[c.run].manifest :
                           LET k == Checkpoint(run', e)
                           IN  k # NoRun /\ Version(run', k, e) = Version(run, c.run, e)
    OBVIOUS
  <2> DEFINE Resumed == \E r \in RunId : run'[r].from = c.run /\ run[r].status = "absent"
             Obsolete ==
                \A e \in DOMAIN run[c.run].manifest :
                    /\ Checkpoint(run', e) # NoRun
                    /\ Version(run', Checkpoint(run', e), e) = Version(run, c.run, e)
  <2> SUFFICES Resumed \/ Obsolete
    OBVIOUS
  <2>1. c.run \in RunId
    BY DEF TypeOK, RunChunkRow
  <2>2. ASSUME NEW p \in Importer, Admit(p) PROVE Resumed
    <3> DEFINE src == ResumeSource(Marked(p), req[p])
               n   == runSeq + 1
    <3>1. n \in RunId /\ run[n].status = "absent"
      BY <2>2, NextRunAbsent DEF Admit
    <3>2. c.run = src
      BY <2>2 DEF Admit, TransferChunks
    <3>3. Marked(p) \in [RunId -> RunRow]
      BY AbandonFacts DEF Marked, TypeOK
    <3>4. run'[n].from = src
      BY <2>2, <3>1, <3>3 DEF Admit
    <3> QED
      BY <3>1, <3>2, <3>4
  <2>3. ASSUME NEW p \in Importer, CompleteSuccess(p) PROVE Obsolete
    <3>1. c.run # cur[p]
      BY <2>3 DEF CompleteSuccess
    <3>2. c.run \in SupersededRuns(run')
      BY <2>3, <3>1 DEF CompleteSuccess
    <3>3. run'[c.run] = run[c.run]
      BY <2>1, <2>3, <3>1 DEF CompleteSuccess, TypeOK
    <3> SUFFICES ASSUME NEW e \in DOMAIN run[c.run].manifest
                 PROVE /\ Checkpoint(run', e) # NoRun
                       /\ Version(run', Checkpoint(run', e), e) = Version(run, c.run, e)
      OBVIOUS
    <3>4. Supersedes(run', Checkpoint(run', e), c.run, e)
      BY <3>2, <3>3 DEF SupersededRuns
    <3>5. Version(run', c.run, e) = Version(run, c.run, e)
      BY <3>3 DEF Version
    <3> QED
      BY <3>4, <3>5 DEF Supersedes
  <2>4. ASSUME NEW p \in Importer, NEW d \in inflight[p], CommitChunk(p, d) PROVE FALSE
    BY <2>4 DEF CommitChunk
  <2>5. ASSUME UNCHANGED runChunk PROVE FALSE
    BY <2>5
  <2> HIDE DEF Resumed, Obsolete
  <2> QED
    BY <2>2, <2>3, <2>4, <2>5, LedgerSteps
<1>2. FailedLedgerPreserved <=> [][Kept]_vars
  BY DEF FailedLedgerPreserved
<1> QED
  BY <1>1, <1>2, TypeCorrect, ProcessCorrect, PTL DEF Spec

-----------------------------------------------------------------------------
(* The ledger has one owner. *)

\* The run another one resumed has failed for good and keeps no chunk.
SourcesFailed ==
    \A r \in RunId : run[r].from # NoRun =>
        run[r].from \in RunId /\ run[run[r].from].status = "failed"

\* A step that does not admit a run changes no run's source.
LEMMA SourcesKept ==
    ASSUME TypeOK, ProcessInv, NEW r \in RunId, [Next]_vars, ~\E p \in Importer : Admit(p)
    PROVE  run'[r].from \in {run[r].from, NoRun}
<1> SUFFICES ASSUME NEW p \in Importer, ImporterStep(p)
             PROVE run'[r].from \in {run[r].from, NoRun}
  BY DEF Next, vars, tables
<1>m. Marked(p) \in [RunId -> RunRow] /\ Marked(p)[r].from = run[r].from
  <2>1. Marked(p) \in [RunId -> RunRow]
    BY AbandonFacts DEF Marked, TypeOK
  <2>2. Marked(p)[r].from = run[r].from
    BY DEF Marked, Abandon, TypeOK, RunRow
  <2> QED
    BY <2>1, <2>2
<1>1. CASE SkipExact(p)
  BY <1>1, <1>m DEF SkipExact
<1>2. CASE SkipConsolidated(p)
  BY <1>2, <1>m DEF SkipConsolidated
<1>3. CASE CompleteSuccess(p) \/ CompleteFailure(p)
  <2>1. PICK st \in {"success", "failed"} :
           run' = [run EXCEPT ![cur[p]] = [@ EXCEPT !.status = st, !.at = clock]]
    BY <1>3 DEF CompleteSuccess, CompleteFailure
  <2>2. run[r] \in RunRow
    BY DEF TypeOK
  <2>3. run'[r].from = run[r].from
    BY <2>1, <2>2 DEF TypeOK, RunRow
  <2> QED
    BY <2>3
<1>4. CASE UNCHANGED run
  BY <1>4
<1>5. ASSUME NEW c \in inflight[p], CommitChunk(p, c) PROVE UNCHANGED run
  BY <1>5 DEF CommitChunk
<1> QED
  BY <1>1, <1>2, <1>3, <1>4, <1>5
     DEF ImporterStep, tables, Start, TryLock, AdmissionError, RejectAdmission,
         SkipEntity, StartEntity, SkipChunk, WriteChunk, AbortChunk, FailStep, CompleteEntity,
         CompleteError, LoseSession, Crash

\* Admission takes its source from the failed runs, for a run that is nobody's source.
LEMMA AdmitSource ==
    ASSUME TypeOK, ProcessInv, NEW p \in Importer, Admit(p)
    PROVE  LET n   == runSeq + 1
               src == ResumeSource(Marked(p), req[p])
           IN  /\ n \in RunId /\ run[n].status = "absent"
               /\ run'[n].from = src /\ run'[n].status = "running"
               /\ \A r \in RunId \ {n} : run'[r] = Marked(p)[r] /\ run'[r].from = run[r].from
               /\ src # NoRun => src \in RunId \ {n} /\ Marked(p)[src].status = "failed"
<1> DEFINE n   == runSeq + 1
           src == ResumeSource(Marked(p), req[p])
<1>1. n \in RunId /\ run[n].status = "absent"
  BY NextRunAbsent DEF Admit
<1>2. Marked(p) \in [RunId -> RunRow]
  BY AbandonFacts DEF Marked, TypeOK
<1>3. run'[n].from = src /\ run'[n].status = "running"
  BY <1>1, <1>2 DEF Admit
<1>4. \A r \in RunId \ {n} : run'[r] = Marked(p)[r]
  BY <1>2 DEF Admit
<1>5. \A r \in RunId : Marked(p)[r].from = run[r].from
  BY DEF Marked, Abandon, TypeOK, RunRow
<1>6. src # NoRun => src \in RunId /\ Marked(p)[src].status = "failed"
  BY <1>2, ResumeSourceFacts DEF Resumable
<1>7. Marked(p)[n].status = "absent"
  BY <1>1, AbandonFacts DEF Marked, TypeOK
<1> QED
  BY <1>1, <1>3, <1>4, <1>5, <1>6, <1>7

\* Sources stay failed and without chunks.
LEMMA SourceStep ==
    ASSUME TypeOK, ProcessInv, SourcesFailed, LedgerHasOneOwner, [Next]_vars
    PROVE  SourcesFailed' /\ LedgerHasOneOwner'
<1>1. ASSUME NEW p \in Importer, Admit(p) PROVE SourcesFailed' /\ LedgerHasOneOwner'
  <2> DEFINE n   == runSeq + 1
             src == ResumeSource(Marked(p), req[p])
  <2>1. /\ n \in RunId /\ run[n].status = "absent"
        /\ run'[n].from = src /\ run'[n].status = "running"
        /\ \A r \in RunId \ {n} : run'[r] = Marked(p)[r] /\ run'[r].from = run[r].from
        /\ src # NoRun => src \in RunId \ {n} /\ Marked(p)[src].status = "failed"
    BY <1>1, AdmitSource
  <2>2. runChunk' = IF src = NoRun THEN runChunk ELSE TransferChunks(runChunk, src, n)
    BY <1>1 DEF Admit
  <2> HIDE DEF n, src
  <2>3. \A r \in RunId \ {n} : run[r].from # NoRun =>
           /\ run[r].from \in RunId \ {n} /\ run'[run[r].from].status = "failed"
           /\ \A c \in runChunk : c.run # run[r].from
    BY <2>1, SettledStep DEF SourcesFailed, LedgerHasOneOwner
  <2>4. SourcesFailed'
    BY <2>1, <2>3 DEF SourcesFailed
  <2>5. \A c \in runChunk' : (c \in runChunk /\ (src = NoRun \/ c.run # src)) \/ c.run = n
    BY <2>2 DEF TransferChunks, TypeOK, RunChunkRow
  <2>6. LedgerHasOneOwner'
    BY <2>1, <2>3, <2>5 DEF LedgerHasOneOwner
  <2> QED
    BY <2>4, <2>6
<1>2. CASE ~\E p \in Importer : Admit(p)
  <2>1. \A r \in RunId : run'[r].from # NoRun =>
           /\ run'[r].from = run[r].from
           /\ run[r].from \in RunId
           /\ run[run[r].from].status = "failed" /\ run'[run[r].from].status = "failed"
           /\ \A c \in runChunk : c.run # run[r].from
    BY <1>2, SourcesKept, SettledStep DEF SourcesFailed, LedgerHasOneOwner
  <2>2. SourcesFailed'
    BY <2>1 DEF SourcesFailed
  <2>3. ASSUME NEW k \in runChunk'
        PROVE  k \in runChunk \/ (k.run \in RunId /\ run[k.run].status = "running")
    <3>1. ASSUME NEW p \in Importer, CompleteSuccess(p) PROVE k \in runChunk
      BY <3>1 DEF CompleteSuccess
    <3>2. ASSUME NEW p \in Importer, NEW d \in inflight[p], CommitChunk(p, d)
          PROVE k \in runChunk \/ (k.run \in RunId /\ run[k.run].status = "running")
      <4>1. cur[p] \in RunId /\ run[cur[p]].status = "running"
        BY <3>2, CommitterFacts DEF Running
      <4>2. k \in runChunk \/ k = Row(cur[p], Entity(p), d)
        BY <3>2 DEF CommitChunk
      <4>3. Row(cur[p], Entity(p), d).run = cur[p]
        BY DEF Row
      <4> QED
        BY <4>1, <4>2, <4>3
    <3> QED
      BY <1>2, <3>1, <3>2, LedgerSteps
  <2>4. LedgerHasOneOwner'
    BY <2>1, <2>3 DEF LedgerHasOneOwner
  <2> QED
    BY <2>2, <2>4
<1> QED
  BY <1>1, <1>2

\* The chunks of a run that was resumed have moved to the run that resumed it, and no later
\* step brings any back: two runs never resume from the same ledger.
THEOREM OneOwner == Spec => []LedgerHasOneOwner
<1>1. Init => SourcesFailed /\ LedgerHasOneOwner
  BY DEF Init, NoRunRow, SourcesFailed, LedgerHasOneOwner
<1>2. TypeOK /\ ProcessInv /\ SourcesFailed /\ LedgerHasOneOwner /\ [Next]_vars
         => SourcesFailed' /\ LedgerHasOneOwner'
  BY SourceStep
<1> QED
  BY <1>1, <1>2, TypeCorrect, ProcessCorrect, PTL DEF Spec

-----------------------------------------------------------------------------
(* Leases of a table of runs. *)

\* An entity type without a running run has no lease, one with a single one its lease.
LEMMA LeaseFacts ==
    ASSUME NEW T, NEW e
    PROVE  /\ RunningRuns(T, e) = {} => LeaseOf(T, e) = Lease!NoLease
           /\ \A r : RunningRuns(T, e) = {r} =>
                        LeaseOf(T, e) = [run |-> r, edition |-> Version(T, r, e)]
<1>1. RunningRuns(T, e) = {} => LeaseOf(T, e) = Lease!NoLease
  BY DEF LeaseOf, Lease!NoLease, NoRun
<1>2. ASSUME NEW r, RunningRuns(T, e) = {r}
      PROVE  LeaseOf(T, e) = [run |-> r, edition |-> Version(T, r, e)]
  <2>1. (CHOOSE s \in RunningRuns(T, e) : TRUE) = r
    BY <1>2
  <2> QED
    BY <1>2, <2>1 DEF LeaseOf
<1> QED
  BY <1>1, <1>2

\* A lease depends only on the running runs of its entity type and their plans.
LEMMA SameLease ==
    ASSUME NEW T, NEW U, NEW e, RunningRuns(U, e) = RunningRuns(T, e),
           \A r \in RunningRuns(T, e) : Version(U, r, e) = Version(T, r, e)
    PROVE  LeaseOf(U, e) = LeaseOf(T, e)
BY DEF LeaseOf

\* Running runs are disjoint, so an entity type has one or none.
LEMMA OneHolder ==
    ASSUME RunningRunsDisjoint, NEW e, NEW r \in RunningRuns(run, e)
    PROVE  RunningRuns(run, e) = {r}
BY DEF RunningRunsDisjoint, RunningRuns, Running, Selects

\* The run that holds the lease of e also holds one of S exactly if it imports one of S.
LEMMA ConcernFacts ==
    ASSUME RunningRunsDisjoint, NEW e \in EntityType, NEW S \in SUBSET EntityType
    PROVE  Lease!HolderConcerns(e, S)
             <=> \E r \in RunningRuns(run, e) : DOMAIN run[r].manifest \cap S # {}
<1>1. ASSUME NEW r \in RunningRuns(run, e)
      PROVE  Lease!HolderConcerns(e, S) <=> DOMAIN run[r].manifest \cap S # {}
  <2>1. r \in RunId /\ r # NoRun
    BY <1>1, ConstantsAssumption DEF RunningRuns, RunId, NoRun
  <2>2. LeaseOf(run, e) = [run |-> r, edition |-> Version(run, r, e)]
    BY OneHolder, LeaseFacts
  <2>3. ASSUME NEW f \in S PROVE LeaseOf(run, f).run = r <=> f \in DOMAIN run[r].manifest
    <3>1. CASE RunningRuns(run, f) = {}
      <4>1. LeaseOf(run, f).run = NoRun
        BY <3>1, LeaseFacts DEF Lease!NoLease, NoRun
      <4>2. f \notin DOMAIN run[r].manifest
        BY <1>1, <3>1 DEF RunningRuns, Selects
      <4> QED
        BY <2>1, <4>1, <4>2
    <3>2. ASSUME NEW s \in RunningRuns(run, f)
          PROVE  LeaseOf(run, f).run = r <=> f \in DOMAIN run[r].manifest
      <4>1. RunningRuns(run, f) = {s} /\ LeaseOf(run, f).run = s
        BY OneHolder, LeaseFacts
      <4>2. r \in RunningRuns(run, f) <=> f \in DOMAIN run[r].manifest
        BY <1>1 DEF RunningRuns, Selects
      <4> QED
        BY <4>1, <4>2
    <3> QED
      BY <3>1, <3>2
  <2>4. LeaseOf(run, e) # Lease!NoLease
    BY <2>1, <2>2 DEF Lease!NoLease, NoRun
  <2>5. Lease!HolderConcerns(e, S)
          <=> /\ LeaseOf(run, e) # Lease!NoLease
              /\ \E f \in S : LeaseOf(run, f).run = LeaseOf(run, e).run
    BY DEF Lease!HolderConcerns
  <2>6. LeaseOf(run, e).run = r
    BY <2>2
  <2> QED
    BY <2>3, <2>4, <2>5, <2>6
<1>2. RunningRuns(run, e) = {} => ~Lease!HolderConcerns(e, S)
  BY LeaseFacts DEF Lease!HolderConcerns
<1>3. ASSUME NEW r \in RunningRuns(run, e), NEW s \in RunningRuns(run, e) PROVE r = s
  BY OneHolder
<1> QED
  BY <1>1, <1>2, <1>3

\* A table in which exactly the runs that import one of S stopped running has the leases
\* that a revocation of S leaves.
LEMMA RevokedLeases ==
    ASSUME RunningRunsDisjoint, NEW S \in SUBSET EntityType, NEW U,
           \A r \in RunId :
              /\ U[r].status = "running" <=>
                    run[r].status = "running" /\ DOMAIN run[r].manifest \cap S = {}
              /\ U[r].status = "running" =>
                    U[r].manifest = run[r].manifest /\ U[r].rev = run[r].rev
    PROVE  [e \in EntityType |-> LeaseOf(U, e)] = Lease!Without(S)
<1> SUFFICES ASSUME NEW e \in EntityType
             PROVE  LeaseOf(U, e) = IF Lease!HolderConcerns(e, S) THEN Lease!NoLease
                                    ELSE LeaseOf(run, e)
  BY DEF Lease!Without
<1>1. RunningRuns(U, e) = {r \in RunningRuns(run, e) : DOMAIN run[r].manifest \cap S = {}}
  BY DEF RunningRuns, Selects
<1>2. CASE Lease!HolderConcerns(e, S)
  <2>1. PICK r \in RunningRuns(run, e) : DOMAIN run[r].manifest \cap S # {}
    BY <1>2, ConcernFacts
  <2>2. RunningRuns(run, e) = {r}
    BY OneHolder
  <2>3. RunningRuns(U, e) = {}
    BY <1>1, <2>1, <2>2
  <2> QED
    BY <1>2, <2>3, LeaseFacts
<1>3. CASE ~Lease!HolderConcerns(e, S)
  <2>1. RunningRuns(U, e) = RunningRuns(run, e)
    BY <1>1, <1>3, ConcernFacts
  <2>2. \A r \in RunningRuns(run, e) : Version(U, r, e) = Version(run, r, e)
    BY <2>1 DEF RunningRuns, Version
  <2> QED
    BY <1>3, <2>1, <2>2, SameLease
<1> QED
  BY <1>2, <1>3

\* Abandonment revokes the leases of the selected entity types.
LEMMA MarkedLeases ==
    ASSUME TypeOK, RunningRunsDisjoint, NEW S \in SUBSET EntityType
    PROVE  /\ [e \in EntityType |-> LeaseOf(Abandon(run, S), e)] = Lease!Without(S)
           /\ \A r \in RunId :
                 /\ Abandon(run, S)[r].status = "running" <=>
                       run[r].status = "running" /\ DOMAIN run[r].manifest \cap S = {}
                 /\ Abandon(run, S)[r].manifest = run[r].manifest
                 /\ Abandon(run, S)[r].rev = run[r].rev
<1>1. \A r \in RunId :
         /\ Abandon(run, S)[r].status = "running" <=>
               run[r].status = "running" /\ DOMAIN run[r].manifest \cap S = {}
         /\ Abandon(run, S)[r].manifest = run[r].manifest
         /\ Abandon(run, S)[r].rev = run[r].rev
  BY DEF Abandon, TypeOK, RunRow
<1>2. [e \in EntityType |-> LeaseOf(Abandon(run, S), e)] = Lease!Without(S)
  BY <1>1, RevokedLeases
<1> QED
  BY <1>1, <1>2

-----------------------------------------------------------------------------
(* Steps. *)

\* An admission that records an import grants the new run its entity types.
LEMMA AdmitGrants ==
    ASSUME TypeOK, ProcessInv, RunningRunsDisjoint, NEW p \in Importer, Admit(p)
    PROVE  Lease!Next
<1> DEFINE r == runSeq + 1
           q == req[p]
           S == DOMAIN q.manifest
           edition == [e \in S |-> <<q.manifest[e], q.rev[e]>>]
<1>1. r \in RunId /\ r # NoRun
  BY ConstantsAssumption DEF Admit, TypeOK, RunId, NoRun
<1>2. S \in SUBSET EntityType /\ q \in Request
  BY RequestFacts DEF Admit
<1>3. edition \in [S -> Editions]
  BY <1>2 DEF Editions
<1>4. Marked(p) \in [RunId -> RunRow]
  BY AbandonFacts DEF Marked, TypeOK
<1>5. /\ run'[r].status = "running" /\ run'[r].manifest = q.manifest /\ run'[r].rev = q.rev
      /\ \A s \in RunId \ {r} : run'[s] = Marked(p)[s]
  BY <1>1, <1>4 DEF Admit
<1>6. Marked(p)[r].status # "running"
  <2>1. r > runSeq
    BY ConstantsAssumption DEF TypeOK, RunId
  <2>2. run[r].status = "absent"
    BY <1>1, <2>1 DEF ProcessInv, UnusedRunsAbsent
  <2> QED
    BY <1>1, <2>2, AbandonFacts DEF Marked, TypeOK
<1> HIDE DEF r, q, S, edition
<1>7. ASSUME NEW e \in S PROVE LeaseOf(run', e) = [run |-> r, edition |-> edition[e]]
  <2>1. \A s \in RunId \ {r} : run'[s].status = "running" => e \notin DOMAIN run'[s].manifest
    BY <1>2, <1>5, <1>7, MarkedLeases DEF Marked, S, q
  <2>2. RunningRuns(run', e) = {r}
    BY <1>1, <1>5, <1>7, <2>1 DEF RunningRuns, Selects, S
  <2>3. Version(run', r, e) = edition[e]
    BY <1>5, <1>7 DEF Version, edition
  <2> QED
    BY <2>2, <2>3, LeaseFacts
<1>8. ASSUME NEW e \in EntityType \ S PROVE LeaseOf(run', e) = Lease!Without(S)[e]
  <2>1. RunningRuns(run', e) = RunningRuns(Marked(p), e)
    BY <1>5, <1>6, <1>8 DEF RunningRuns, Selects, S
  <2>2. \A s \in RunningRuns(Marked(p), e) : Version(run', s, e) = Version(Marked(p), s, e)
    BY <1>5, <1>6 DEF RunningRuns, Version
  <2>3. LeaseOf(run', e) = LeaseOf(Marked(p), e)
    BY <2>1, <2>2, SameLease
  <2>4. [f \in EntityType |-> LeaseOf(Marked(p), f)] = Lease!Without(S)
    BY <1>2, MarkedLeases DEF Marked, S, q
  <2>5. [f \in EntityType |-> LeaseOf(Marked(p), f)][e] = LeaseOf(Marked(p), e)
    BY <1>8
  <2> QED
    BY <2>3, <2>4, <2>5
<1>9. Lease!Grant(S, edition)
  <2>1. runSeq' = runSeq + 1 /\ rows' = rows
    BY DEF Admit
  <2> QED
    BY <1>2, <1>7, <1>8, <2>1 DEF Lease!Grant, r
<1> QED
  BY <1>2, <1>3, <1>9 DEF Lease!Next

\* The end of a run revokes its leases.
LEMMA EndRevokes ==
    ASSUME TypeOK, ProcessInv, RunningRunsDisjoint, NEW p \in Importer, pc[p] \in Working,
           run[cur[p]].status = "running", run'[cur[p]].status # "running",
           \A u \in RunId \ {cur[p]} : run'[u] = run[u],
           runSeq' = runSeq, rows' = rows
    PROVE  Lease!Next
<1> DEFINE r == cur[p]
           S == DOMAIN run[r].manifest
<1>1. r \in RunId /\ run[r].manifest = req[p].manifest /\ pc[p] # "idle"
  BY ConstantsAssumption DEF TypeOK, ProcessInv, ImporterInv, RunId, Working
<1>2. S \in SUBSET EntityType /\ S # {}
  BY <1>1, RequestFacts
<1> HIDE DEF r
<1>3. \A u \in RunId :
         /\ run'[u].status = "running" <=>
               run[u].status = "running" /\ DOMAIN run[u].manifest \cap S = {}
         /\ run'[u].status = "running" =>
               run'[u].manifest = run[u].manifest /\ run'[u].rev = run[u].rev
  <2>1. run'[r].status # "running" /\ \A u \in RunId \ {r} : run'[u] = run[u]
    BY DEF r
  <2>2. \A u \in RunId \ {r} : run[u].status = "running" => DOMAIN run[u].manifest \cap S = {}
    BY <1>1 DEF RunningRunsDisjoint, Running, r
  <2> QED
    BY <1>2, <2>1, <2>2
<1> HIDE DEF S
<1>4. Lease!Revoke(S)
  BY <1>2, <1>3, RevokedLeases DEF Lease!Revoke
<1> QED
  BY <1>2, <1>4 DEF Lease!Next

\* A chunk commit is a write of the holder.
LEMMA CommitWrites ==
    ASSUME TypeOK, ProcessInv, RunningRunsDisjoint,
           NEW p \in Importer, NEW c \in inflight[p], CommitChunk(p, c)
    PROVE  Lease!Next
<1> DEFINE f == Entity(p)
           r == cur[p]
<1>1. f \in EntityType /\ r \in RunId /\ f \in DOMAIN run[r].manifest
  BY EntityFacts DEF CommitChunk, ProcessInv, ImporterInv, Working
<1>2. r \in RunningRuns(run, f)
  BY <1>1 DEF RunningRuns, Selects, CommitChunk, Recordable
<1>3. LeaseOf(run, f) = [run |-> r, edition |-> Version(run, r, f)]
  BY <1>2, OneHolder, LeaseFacts
<1>4. LeaseOf(run, f) # Lease!NoLease
  BY <1>1, <1>3, ConstantsAssumption DEF Lease!NoLease, RunId
<1>5. rows' = [rows EXCEPT ![f] = [i \in Item |-> IF i \in Items(c) \cap Item
                                                  THEN Version(run, r, f) ELSE rows[f][i]]]
  BY <1>1 DEF CommitChunk, TypeOK
<1>6. run' = run /\ runSeq' = runSeq
  BY DEF CommitChunk
<1> HIDE DEF f, r
<1>7. Lease!Write(f, Items(c) \cap Item)
  <2>1. [e \in EntityType |-> LeaseOf(run, e)][f] = LeaseOf(run, f)
    BY <1>1
  <2>2. [e \in EntityType |-> LeaseOf(run', e)] = [e \in EntityType |-> LeaseOf(run, e)]
    BY <1>6
  <2>3. rows' = [rows EXCEPT ![f] = [i \in Item |->
                    IF i \in Items(c) \cap Item
                    THEN [e \in EntityType |-> LeaseOf(run, e)][f].edition ELSE rows[f][i]]]
    <3>1. [e \in EntityType |-> LeaseOf(run, e)][f].edition = Version(run, r, f)
      BY <1>3, <2>1
    <3> QED
      BY <1>5, <3>1, Zenon
  <2> QED
    BY <1>4, <1>6, <2>1, <2>2, <2>3 DEF Lease!Write
<1> QED
  BY <1>1, <1>7 DEF Lease!Next

\* Every step of the coordinator is a step of the lease or leaves it alone.
LEMMA LeaseStep ==
    ASSUME TypeOK, ProcessInv, RunningRunsDisjoint, [Next]_vars
    PROVE  [Lease!Next]_(Lease!vars)
<1>1. CASE UNCHANGED <<run, runSeq, rows>>
  BY <1>1 DEF Lease!vars
<1>2. ASSUME NEW p \in Importer, SkipExact(p) PROVE Lease!Next
  <2>1. DOMAIN req[p].manifest \in SUBSET EntityType
    BY <1>2, RequestFacts DEF SkipExact
  <2>2. run' = Abandon(run, DOMAIN req[p].manifest) /\ runSeq' = runSeq /\ rows' = rows
    BY <1>2 DEF SkipExact, Marked
  <2>3. Lease!Revoke(DOMAIN req[p].manifest)
    BY <2>1, <2>2, MarkedLeases DEF Lease!Revoke
  <2> QED
    BY <2>1, <2>3 DEF Lease!Next
<1>3. ASSUME NEW p \in Importer, SkipConsolidated(p) PROVE Lease!Next
  <2> DEFINE S == DOMAIN req[p].manifest
             r == runSeq + 1
  <2>1. S \in SUBSET EntityType
    BY <1>3, RequestFacts DEF SkipConsolidated
  <2>2. r \in RunId /\ run[r].status # "running"
    BY <1>3, ConstantsAssumption DEF SkipConsolidated, TypeOK, RunId, ProcessInv, UnusedRunsAbsent
  <2>3. Abandon(run, S) \in [RunId -> RunRow]
    BY AbandonFacts DEF TypeOK
  <2>4. run'[r].status = "success" /\ \A s \in RunId \ {r} : run'[s] = Abandon(run, S)[s]
    BY <1>3, <2>2, <2>3 DEF SkipConsolidated, Marked
  <2>5. runSeq' = runSeq + 1 /\ rows' = rows
    BY <1>3 DEF SkipConsolidated
  <2> HIDE DEF S, r
  <2>6. \A s \in RunId :
           /\ run'[s].status = "running" <=>
                 run[s].status = "running" /\ DOMAIN run[s].manifest \cap S = {}
           /\ run'[s].status = "running" =>
                 run'[s].manifest = run[s].manifest /\ run'[s].rev = run[s].rev
    BY <2>1, <2>2, <2>4, MarkedLeases
  <2>7. Lease!Revoke(S)
    BY <2>1, <2>5, <2>6, RevokedLeases DEF Lease!Revoke
  <2> QED
    BY <2>1, <2>7 DEF Lease!Next
<1>4. ASSUME NEW p \in Importer, CompleteSuccess(p) PROVE Lease!Next
  <2>1. cur[p] \in RunId /\ pc[p] \in Working
    BY <1>4, ConstantsAssumption
       DEF CompleteSuccess, TypeOK, ProcessInv, ImporterInv, RunId, Working
  <2>2. run'[cur[p]].status # "running" /\ \A u \in RunId \ {cur[p]} : run'[u] = run[u]
    BY <1>4, <2>1 DEF CompleteSuccess, TypeOK, RunRow
  <2>3. run[cur[p]].status = "running" /\ runSeq' = runSeq /\ rows' = rows
    BY <1>4 DEF CompleteSuccess
  <2> QED
    BY <2>1, <2>2, <2>3, EndRevokes
<1>5. ASSUME NEW p \in Importer, CompleteFailure(p) PROVE Lease!Next
  <2>1. cur[p] \in RunId /\ pc[p] \in Working
    BY <1>5, ConstantsAssumption
       DEF CompleteFailure, TypeOK, ProcessInv, ImporterInv, RunId, Working
  <2>2. run'[cur[p]].status # "running" /\ \A u \in RunId \ {cur[p]} : run'[u] = run[u]
    BY <1>5, <2>1 DEF CompleteFailure, TypeOK, RunRow
  <2>3. run[cur[p]].status = "running" /\ runSeq' = runSeq /\ rows' = rows
    BY <1>5 DEF CompleteFailure
  <2> QED
    BY <2>1, <2>2, <2>3, EndRevokes
<1>6. ASSUME NEW p \in Importer, Admit(p) PROVE Lease!Next
  BY <1>6, AdmitGrants
<1>7. ASSUME NEW p \in Importer, NEW c \in inflight[p], CommitChunk(p, c) PROVE Lease!Next
  BY <1>7, CommitWrites
<1>8. UNCHANGED tables => UNCHANGED <<run, runSeq, rows>>
  BY DEF tables
<1>9. \A p \in Importer : CompleteEntity(p) => UNCHANGED <<run, runSeq, rows>>
  BY DEF CompleteEntity
<1> QED
  BY <1>1, <1>2, <1>3, <1>4, <1>5, <1>6, <1>7, <1>8, <1>9, TableSteps

\* Initially nothing is leased.
LEMMA LeaseInit ==
    ASSUME Init
    PROVE  Lease!Init
<1>1. \A e \in EntityType : RunningRuns(run, e) = {}
  BY DEF Init, RunningRuns, NoRunRow
<1> QED
  BY <1>1, LeaseFacts DEF Init, Lease!Init

-----------------------------------------------------------------------------
\* The coordinator implements the lease: admission and completion hand entity types over as
\* a whole, and chunk commits write only what the run of the importer still leases.
THEOREM LedgerImplementsLease == Spec => ImplementsLease
<1> QED
  BY LeaseInit, LeaseStep, TypeCorrect, ProcessCorrect, DisjointRuns, PTL
     DEF Spec, ImplementsLease, Lease!Spec
=============================================================================

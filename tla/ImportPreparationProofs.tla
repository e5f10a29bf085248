----------------------- MODULE ImportPreparationProofs -----------------------
(***************************************************************************)
(* Proofs about the preparation of an import, for any entity types, dates, *)
(* issues, invocations and faults: what a plan pins is what is imported,   *)
(* what a preflight accepted stays, and a failed import keeps its files.   *)
(***************************************************************************)
EXTENDS ImportPreparation, TLAPS, FiniteSetTheorems, WellFoundedInduction

-----------------------------------------------------------------------------
(***************************************************************************)
(* Types.  Beside PreparationTypeOK, what an importer's memory holds.      *)
(***************************************************************************)
RunRow == [status : {"absent", "running", "success", "failed"},
           plan : Plans, rev : Revision \cup {0}]

SiteOK ==
    /\ served \in [EntityType -> [Date -> Issue \cup {None}]]
    /\ document \in [Date -> [EntityType -> Issue \cup {None}]]
    /\ catalog \in [EntityType -> Seq(Dumps)]

RecordsOK ==
    /\ run \in [RunId -> RunRow]
    /\ runSeq \in RunId \cup {0}
    /\ imported \in [RunId -> [EntityType -> Files!FileType \cup {None}]]
    /\ completed \in [EntityType -> [Revision -> RunId \cup {NoRun}]]
    /\ checkpoint \in [EntityType -> RunId \cup {NoRun}]
    /\ dirty \subseteq EntityType

FilesOK ==
    /\ disk \in [EntityType \X Date -> Files!FileType]
    /\ unheld \subseteq EntityType \X Date

BoundsOK ==
    /\ invoked \in 0..MaxInvocations
    /\ faults \in 0..MaxFaults

Stage == Imports \cup {"idle", "refresh", "insert", "resolve", "preflight", "prepare", "cleanup"}
Verdict == UNION {[S -> RunId \cup {NoRun}] : S \in SUBSET EntityType}

MemoryOK ==
    /\ lockHolder \in [EntityType -> Importer \cup {None}]
    /\ session \in [Importer -> BOOLEAN]
    /\ pc \in [Importer -> Stage]
    /\ req \in [Importer -> Request \cup {None}]
    /\ found \in [Importer -> Plans]
    /\ plan \in [Importer -> Plans]
    /\ accepted \in [Importer -> Verdict]
    /\ cur \in [Importer -> RunId \cup {NoRun}]
    /\ left \in [Importer -> SUBSET EntityType]
    /\ incoming \in [Importer -> (EntityType \X (Issue \cup {None})) \cup {None}]
    /\ reading \in [Importer -> (EntityType \X Files!FileType) \cup {None}]

Types == SiteOK /\ RecordsOK /\ FilesOK /\ BoundsOK /\ MemoryOK

(***************************************************************************)
(* The stages.                                                             *)
(***************************************************************************)
\* Stages before the invocation can have recorded a run.
Before == {"refresh", "insert", "resolve", "preflight", "prepare"}

\* Run ids are handed out in order, at most one to each invocation.
RunsInv ==
    /\ \A r \in RunId : r > runSeq =>
          run[r].status = "absent" /\ \A e \in EntityType : imported[r][e] = None
    /\ runSeq + Cardinality({p \in Importer : pc[p] \in Before}) <= invoked + 1

\* What an importer remembers at its stage.
StageInv(p) ==
    /\ pc[p] # "idle" => req[p] \in Request
    /\ left[p] \subseteq DOMAIN plan[p]
    /\ pc[p] \in Before \cup {"idle"} => left[p] = {} /\ cur[p] = NoRun
    /\ session[p] => pc[p] \in Imports
    /\ pc[p] \in Imports =>
          /\ cur[p] \in 1..runSeq
          /\ run[cur[p]].status # "absent"
          /\ run[cur[p]].plan = plan[p]
    /\ pc[p] = "transfer" => incoming[p] \in left[p] \X (Issue \cup {None})
    /\ pc[p] = "reading" => reading[p] \in left[p] \X Files!FileType

Inv == Types /\ RunsInv /\ \A p \in Importer : StageInv(p)

-----------------------------------------------------------------------------
(***************************************************************************)
(* What the helpers return.                                                *)
(***************************************************************************)
\* A nonempty set of naturals has a least element.
LEMMA LeastNatural ==
    ASSUME NEW S \in SUBSET Nat, S # {}
    PROVE  Min(S) \in S /\ \A m \in S : Min(S) <= m
<1>1. \E n \in S : \A m \in S : ~(<<m, n>> \in OpToRel(<, Nat))
  BY WFMin, NatLessThanWellFounded
<1>2. PICK n \in S : \A m \in S : ~(<<m, n>> \in OpToRel(<, Nat))
  BY <1>1
<1>3. \A m \in S : ~(m < n)
  BY <1>2, Zenon DEF OpToRel
<1>4. \A m \in S : n <= m
  BY <1>3
<1> QED
  BY <1>4 DEF Min

\* A nonempty set of rows of an entity has a newest one.
LEMMA NewestInRows ==
    ASSUME Types, NEW e \in EntityType, NEW S \in SUBSET DOMAIN catalog[e], S # {}
    PROVE  NewestRow(e, S) \in S
<1> DEFINE DateOf(k) == catalog[e][k].date
           NotAfter(j, k) == DateOf(j) < DateOf(k) \/ (DateOf(j) = DateOf(k) /\ j <= k)
           Topped(R) == \E k \in R : \A j \in R : NotAfter(j, k)
           n   == Len(catalog[e])
           Bad == {m \in Nat : \E R \in SUBSET (1..n) : R # {} /\ R \subseteq 1..m /\ ~Topped(R)}
<1>1. n \in Nat /\ DOMAIN catalog[e] = 1..n /\ \A k \in 1..n : catalog[e][k] \in Dumps
  BY DEF Types, SiteOK
<1>2. \A k \in 1..n : catalog[e][k].date \in Nat
  BY <1>1, CatalogAssumption DEF Dumps
<1>3. Bad = {}
  <2> SUFFICES ASSUME Bad # {} PROVE FALSE
    OBVIOUS
  <2>1. Min(Bad) \in Bad /\ \A m \in Bad : Min(Bad) <= m
    <3>1. Bad \in SUBSET Nat
      OBVIOUS
    <3> HIDE DEF Bad
    <3> QED
      BY <3>1, LeastNatural
  <2> DEFINE m == Min(Bad)
  <2> HIDE DEF m
  <2>2. m \in Bad /\ \A k \in Bad : m <= k
    BY <2>1 DEF m
  <2>3. m \in Nat
    BY <2>2
  <2>4. PICK R \in SUBSET (1..n) : R # {} /\ R \subseteq 1..m /\ ~Topped(R)
    BY <2>2
  <2>5. PICK x \in R : TRUE
    BY <2>4
  <2>6. m # 0 /\ m - 1 \in Nat /\ m - 1 \notin Bad
    <3>1. x \in 1..m
      BY <2>4, <2>5
    <3>2. m # 0 /\ m - 1 \in Nat /\ m - 1 < m
      BY <2>3, <3>1
    <3> HIDE DEF Bad
    <3> QED
      BY <2>2, <2>3, <3>2
  <2>7. \A Q \in SUBSET (1..n) : Q # {} /\ Q \subseteq 1..(m - 1) => Topped(Q)
    BY <2>6
  <2>8. R \ {m} \subseteq 1..(m - 1)
    <3> SUFFICES ASSUME NEW y \in R, y # m PROVE y \in 1..(m - 1)
      OBVIOUS
    <3>1. y \in 1..m
      BY <2>4
    <3> QED
      BY <2>3, <3>1
  <2> HIDE DEF Bad, Topped
  <2>9. m \in R
    <3>1. m \notin R => R \subseteq 1..(m - 1)
      BY <2>8
    <3> QED
      BY <2>4, <2>7, <3>1
  <2>10. \A j \in R : j \in Nat /\ catalog[e][j].date \in Nat
    BY <1>2, <2>4
  <2>11. CASE R \ {m} = {}
    <3>1. \A j \in R : NotAfter(j, m)
      BY <2>10, <2>11
    <3> QED
      BY <2>4, <2>9, <3>1 DEF Topped
  <2>12. CASE R \ {m} # {}
    <3>1. Topped(R \ {m})
      BY <2>4, <2>7, <2>8, <2>12
    <3>2. PICK k \in R \ {m} : \A j \in R \ {m} : NotAfter(j, k)
      BY <3>1 DEF Topped
    <3>3. CASE NotAfter(m, k)
      <4>1. \A j \in R : NotAfter(j, k)
        BY <3>2, <3>3
      <4> QED
        BY <2>4, <3>2, <4>1 DEF Topped
    <3>4. CASE ~NotAfter(m, k)
      <4>1. ASSUME NEW j \in R \ {m} PROVE NotAfter(j, m)
        <5>1. NotAfter(j, k)
          BY <3>2, <4>1
        <5>2. ~NotAfter(m, k)
          BY <3>4
        <5>3. /\ j \in Nat /\ catalog[e][j].date \in Nat
              /\ k \in Nat /\ catalog[e][k].date \in Nat
              /\ m \in Nat /\ catalog[e][m].date \in Nat
          BY <2>9, <2>10, <3>2, <4>1
        <5>4. NotAfter(m, j) => NotAfter(m, k)
          BY <5>1, <5>3
        <5>5. NotAfter(m, j) \/ NotAfter(j, m)
          BY <5>3
        <5> QED
          BY <5>2, <5>4, <5>5
      <4>2. NotAfter(m, m)
        BY <2>9, <2>10
      <4>3. \A j \in R : NotAfter(j, m)
        BY <4>1, <4>2
      <4> QED
        BY <2>4, <2>9, <4>3 DEF Topped
    <3> QED
      BY <3>3, <3>4
  <2> QED
    BY <2>11, <2>12
<1>4. Topped(S)
  <2>1. S \in SUBSET (1..n) /\ n \in Nat
    BY <1>1
  <2>2. ~Topped(S) => n \in Bad
    BY <2>1
  <2> QED
    BY <1>3, <2>2
<1> QED
  BY <1>4 DEF NewestRow

\* A plan maps some of the entity types to dumps.
LEMMA PlanFacts ==
    ASSUME NEW m \in Plans
    PROVE  /\ DOMAIN m \subseteq EntityType
           /\ m \in [DOMAIN m -> Dumps]
           /\ \A e \in DOMAIN m : m[e] \in Dumps /\ m[e].date \in Date /\ m[e].issue \in Issue
<1>1. PICK S \in SUBSET EntityType : m \in [S -> Dumps]
  BY DEF Plans
<1> QED
  BY <1>1 DEF Dumps

LEMMA NoPlanTypes ==
    NoPlan \in Plans /\ NoPlan \in Verdict /\ DOMAIN NoPlan = {}
<1>1. NoPlan \in [{} -> Dumps] /\ NoPlan \in [{} -> RunId \cup {NoRun}] /\ DOMAIN NoPlan = {}
  BY DEF NoPlan
<1> QED
  BY <1>1 DEF Plans, Verdict

LEMMA RequestFacts ==
    ASSUME NEW q \in Request
    PROVE  /\ q.entities \subseteq EntityType
           /\ q.month \in Months \cup {None}
           /\ q.cleanup \in BOOLEAN /\ q.force \in BOOLEAN
           /\ q.rev \in Revision
<1> QED
  BY PreparationAssumption

\* An invocation chooses rows of the catalog.
LEMMA ResolvedPlan ==
    ASSUME Types, NEW q \in Request, Resolvable(q.entities, q.month)
    PROVE  ResolveImportPlan(q.entities, q.month) \in Plans
<1>1. ASSUME NEW e \in q.entities PROVE FindDump(e, q.month) \in Dumps
  <2>1. e \in EntityType /\ Eligible(e, q.month) # {} /\ Eligible(e, q.month) \subseteq DOMAIN catalog[e]
    BY <1>1, RequestFacts DEF Resolvable, Eligible
  <2>2. NewestRow(e, Eligible(e, q.month)) \in DOMAIN catalog[e]
    BY <2>1, NewestInRows
  <2> QED
    BY <2>1, <2>2 DEF FindDump, Types, SiteOK
<1> QED
  BY <1>1, RequestFacts DEF ResolveImportPlan, Plans

\* A refresh finds documented dumps.
LEMMA RefreshedPlan ==
    ASSUME Types, NEW q \in Request, Refreshable(q.entities, q.month)
    PROVE  Refreshed(q.entities, q.month) \in Plans
<1> DEFINE candidates == RefreshCandidates(q.entities, q.month)
           entities   == {x[1] : x \in candidates}
           chosen(e)  == CHOOSE x \in candidates : x[1] = e
<1>1. candidates \subseteq EntityType \X Date
  <2>1. CASE q.month # None /\ DirectDate[q.month] # None
    BY <2>1, RequestFacts, CatalogAssumption DEF RefreshCandidates, DirectCandidates
  <2>2. CASE ~(q.month # None /\ DirectDate[q.month] # None)
    BY <2>2 DEF RefreshCandidates, Candidates, Listing, Published
  <2> QED
    BY <2>1, <2>2
<1>2. \A x \in candidates : document[x[2]][x[1]] \in Issue
  BY <1>1 DEF Refreshable, Types, SiteOK
<1> HIDE DEF candidates
<1>3. entities \subseteq EntityType
  BY <1>1
<1>4. \A e \in entities :
         [date |-> chosen(e)[2], issue |-> document[chosen(e)[2]][e]] \in Dumps
  <2> SUFFICES ASSUME NEW e \in entities
               PROVE [date |-> chosen(e)[2], issue |-> document[chosen(e)[2]][e]] \in Dumps
    OBVIOUS
  <2>1. chosen(e) \in candidates /\ chosen(e)[1] = e
    OBVIOUS
  <2> QED
    BY <1>1, <1>2, <2>1 DEF Dumps
<1>5. Refreshed(q.entities, q.month) =
         [e \in entities |-> [date |-> chosen(e)[2], issue |-> document[chosen(e)[2]][e]]]
  BY DEF Refreshed, candidates
<1>6. entities \in SUBSET EntityType /\ Refreshed(q.entities, q.month) \in [entities -> Dumps]
  BY <1>3, <1>4, <1>5
<1> QED
  BY <1>6 DEF Plans

LEMMA InsertedRows ==
    ASSUME Types, NEW m \in Plans
    PROVE  BatchInsert(m) \in [EntityType -> Seq(Dumps)]
<1>1. ASSUME NEW e \in EntityType, e \in DOMAIN m PROVE InsertDump(catalog[e], m[e]) \in Seq(Dumps)
  BY <1>1, PlanFacts DEF InsertDump, Types, SiteOK
<1> QED
  BY <1>1 DEF BatchInsert, Types, SiteOK

LEMMA FileKinds ==
    /\ Files!Absent \in Files!FileType
    /\ \A p \in Importer : Files!Partial(p) \in Files!FileType
    /\ \A c \in Issue : Files!Whole(c) \in Files!FileType
    /\ \A p \in Importer : \A c : Files!Partial(p) # Files!Whole(c)
    /\ \A c : Files!Absent # Files!Whole(c)
    /\ \A c, d : Files!Whole(c) = Files!Whole(d) => c = d
<1> QED
  BY DEF Files!Absent, Files!Partial, Files!Whole, Files!FileType

\* An invocation that ends.
LEMMA LeaveTypes ==
    ASSUME MemoryOK, NEW p \in Importer, Leave(p)
    PROVE  MemoryOK'
<1> QED
  BY NoPlanTypes DEF MemoryOK, Leave, Release, LocksWithout, Goto, Stage

LEMMA AbortTypes ==
    ASSUME MemoryOK, NEW p \in Importer, Abort(p), left' \in [Importer -> SUBSET EntityType],
           UNCHANGED <<lockHolder, session>>
    PROVE  MemoryOK'
<1> QED
  BY NoPlanTypes DEF MemoryOK, Abort, Goto, Stage, Imports

\* Changes of one importer's number of invocations before admission.
LEMMA CountStep ==
    ASSUME pc \in [Importer -> Stage], NEW p \in Importer, NEW st, pc' = [pc EXCEPT ![p] = st]
    PROVE  LET n == Cardinality({q \in Importer : pc[q] \in Before})
               m == Cardinality({q \in Importer : pc'[q] \in Before})
           IN  /\ n \in Nat /\ m \in Nat
               /\ pc[p] \in Before => n >= 1
               /\ m = n + (IF st \in Before THEN 1 ELSE 0) - (IF pc[p] \in Before THEN 1 ELSE 0)
<1> DEFINE S == {q \in Importer : pc[q] \in Before}
           R == {q \in Importer : pc'[q] \in Before}
           Q == S \ {p}
<1>1. IsFiniteSet(S) /\ IsFiniteSet(R)
  BY FS_Subset, PreparationAssumption
<1>2. R = IF st \in Before THEN Q \cup {p} ELSE Q
  OBVIOUS
<1> HIDE DEF S, R
<1>3. /\ Cardinality(S) \in Nat /\ Cardinality(R) \in Nat /\ Cardinality(Q) \in Nat
      /\ IsFiniteSet(Q) /\ p \notin Q
      /\ Cardinality(Q) = IF p \in S THEN Cardinality(S) - 1 ELSE Cardinality(S)
  BY <1>1, FS_CardinalityType, FS_RemoveElement
<1> HIDE DEF Q
<1>4. Cardinality(R) = IF st \in Before THEN Cardinality(Q) + 1 ELSE Cardinality(Q)
  BY <1>2, <1>3, FS_AddElement
<1>5. p \in S <=> pc[p] \in Before
  BY DEF S
<1> QED
  BY <1>3, <1>4, <1>5 DEF S, R

\* What an importer finds when it may prepare: a free run id, and tables to write.
LEMMA PreparingFacts ==
    ASSUME Types, RunsInv, NEW p \in Importer, pc[p] = "prepare"
    PROVE  /\ runSeq \in Nat /\ runSeq + 1 \in RunId
           /\ run[runSeq + 1].status = "absent"
           /\ \A e \in EntityType : imported[runSeq + 1][e] = None
           /\ Marked(p) \in [RunId -> RunRow]
           /\ \A r \in RunId : Marked(p)[r].plan = run[r].plan /\ Marked(p)[r].rev = run[r].rev
           /\ DirtyMarked(p) \subseteq EntityType
           /\ DOMAIN plan[p] \subseteq LockedTypes(p)
           /\ LockedTypes(p) \subseteq EntityType
<1>1. runSeq \in Nat /\ invoked \in Nat /\ invoked <= MaxInvocations /\ MaxInvocations \in Nat
  BY PreparationAssumption DEF Types, RecordsOK, BoundsOK, RunId
<1>2. PICK n \in Nat : n >= 1 /\ runSeq + n <= invoked + 1
  <2>1. pc = [pc EXCEPT ![p] = pc[p]] /\ pc[p] \in Before
    BY DEF Types, MemoryOK, Before
  <2>2. /\ Cardinality({q \in Importer : pc[q] \in Before}) \in Nat
        /\ Cardinality({q \in Importer : pc[q] \in Before}) >= 1
    <3> DEFINE S == {q \in Importer : pc[q] \in Before}
    <3>1. IsFiniteSet(S) /\ p \in S
      BY <2>1, FS_Subset, PreparationAssumption
    <3> HIDE DEF S
    <3>2. Cardinality(S) \in Nat /\ (Cardinality(S) = 0 => S = {})
      BY <3>1, FS_CardinalityType, FS_EmptySet
    <3> QED
      BY <3>1, <3>2 DEF S
  <2> QED
    BY <2>2 DEF RunsInv
<1>3. runSeq + 1 \in RunId
  BY <1>1, <1>2 DEF RunId
<1>4. run[runSeq + 1].status = "absent" /\ \A e \in EntityType : imported[runSeq + 1][e] = None
  BY <1>1, <1>3 DEF RunsInv
<1>5. /\ Marked(p) \in [RunId -> RunRow]
      /\ \A r \in RunId : Marked(p)[r].plan = run[r].plan /\ Marked(p)[r].rev = run[r].rev
  BY DEF Types, RecordsOK, Marked, RunRow
<1>6. \A r \in RunId : DOMAIN run[r].plan \subseteq EntityType
  BY PlanFacts DEF Types, RecordsOK, RunRow
<1>7. DirtyMarked(p) \subseteq EntityType
  BY <1>6 DEF DirtyMarked, Abandoned, Types, RecordsOK
<1>8. DOMAIN plan[p] \subseteq EntityType
  BY PlanFacts DEF Types, MemoryOK
<1>9. DOMAIN plan[p] \subseteq LockedTypes(p) /\ LockedTypes(p) \subseteq EntityType
  BY <1>8, RequirementAssumption DEF LockedTypes
<1> QED
  BY <1>1, <1>3, <1>4, <1>5, <1>7, <1>9

-----------------------------------------------------------------------------
(***************************************************************************)
(* Type correctness, step by step.                                         *)
(***************************************************************************)
LEMMA UpstreamTypes ==
    ASSUME Types, Upstream
    PROVE  SiteOK' /\ RecordsOK' /\ FilesOK' /\ MemoryOK'
<1>1. served' \in [EntityType -> [Date -> Issue \cup {None}]]
  <2>1. Min(Issue) \in Issue
    BY LeastNatural, CatalogAssumption
  <2>2. ASSUME NEW e \in EntityType, NEW d \in Date, Publish(e, d)
        PROVE served' \in [EntityType -> [Date -> Issue \cup {None}]]
    BY <2>1, <2>2 DEF Publish, Types, SiteOK
  <2>3. ASSUME NEW e \in EntityType, NEW d \in Date, Reissue(e, d)
        PROVE served' \in [EntityType -> [Date -> Issue \cup {None}]]
    BY <2>3 DEF Reissue, Types, SiteOK
  <2>4. ASSUME NEW d \in Date, Document(d)
        PROVE served' \in [EntityType -> [Date -> Issue \cup {None}]]
    BY <2>4 DEF Document, Types, SiteOK
  <2> QED
    BY <2>2, <2>3, <2>4 DEF Upstream, SiteStep
<1>2. document' \in [Date -> [EntityType -> Issue \cup {None}]]
  <2>1. ASSUME NEW d \in Date, Document(d)
        PROVE document' \in [Date -> [EntityType -> Issue \cup {None}]]
    <3>1. [e \in EntityType |-> served[e][d]] \in [EntityType -> Issue \cup {None}]
      BY DEF Types, SiteOK
    <3> QED
      BY <2>1, <3>1 DEF Document, Types, SiteOK
  <2> QED
    BY <2>1 DEF Upstream, SiteStep, Publish, Reissue, Types, SiteOK
<1> QED
  BY <1>1, <1>2
     DEF Upstream, Types, SiteOK, RecordsOK, FilesOK, MemoryOK, records, files, memory

LEMMA InvokeTypes ==
    ASSUME Types, NEW p \in Importer, NEW q \in Request, Invoke(p, q)
    PROVE  SiteOK' /\ RecordsOK' /\ FilesOK' /\ MemoryOK' /\ invoked' \in 0..MaxInvocations
<1>1. CASE q.month # None /\ Resolvable(q.entities, q.month)
  <2>1. ResolveImportPlan(q.entities, q.month) \in Plans
    BY <1>1, ResolvedPlan
  <2>2. MemoryOK'
    BY <1>1, <2>1 DEF Invoke, Local, Types, MemoryOK, Goto, Stage
  <2> QED
    BY <2>2, PreparationAssumption
       DEF Invoke, Local, Types, SiteOK, RecordsOK, FilesOK, BoundsOK, site, records, files
<1>2. CASE ~(q.month # None /\ Resolvable(q.entities, q.month))
  <2>1. MemoryOK'
    BY <1>2 DEF Invoke, Local, Types, MemoryOK, Goto, Stage
  <2> QED
    BY <2>1, PreparationAssumption
       DEF Invoke, Local, Types, SiteOK, RecordsOK, FilesOK, BoundsOK, site, records, files
<1> QED
  BY <1>1, <1>2

\* The stages that choose and check a plan.
LEMMA PlanningTypes ==
    ASSUME Inv, NEW p \in Importer,
           \/ ReadSite(p) \/ InsertCatalog(p) \/ RefreshFails(p) \/ Resolve(p)
           \/ Preflight(p) \/ Refuse(p) \/ Recheck(p)
    PROVE  SiteOK' /\ RecordsOK' /\ FilesOK' /\ MemoryOK'
<1> USE DEF Inv, Types
<1>q. req[p] \in Request
  <2>1. pc[p] # "idle"
    BY DEF ReadSite, InsertCatalog, RefreshFails, Resolve, Preflight, Refuse, Recheck
  <2> QED
    BY <2>1 DEF StageInv
<1>v. Checkpoints(p) \in Verdict
  <2>1. Dependencies(plan[p]) \in SUBSET EntityType
    BY PlanFacts, RequirementAssumption DEF MemoryOK, Dependencies
  <2>2. \A t \in Dependencies(plan[p]) : completed[t][req[p].rev] \in RunId \cup {NoRun}
    BY <1>q, <2>1, RequestFacts DEF RecordsOK
  <2>3. Checkpoints(p) \in [Dependencies(plan[p]) -> RunId \cup {NoRun}]
    BY <2>2 DEF Checkpoints
  <2> QED
    BY <2>1, <2>3 DEF Verdict
<1>1. CASE ReadSite(p)
  <2>1. Refreshed(req[p].entities, req[p].month) \in Plans
    BY <1>1, <1>q, RefreshedPlan DEF ReadSite
  <2>2. MemoryOK'
    BY <1>1, <2>1 DEF ReadSite, Local, MemoryOK, Goto, Stage
  <2> QED
    BY <1>1, <2>2 DEF ReadSite, Local, SiteOK, RecordsOK, FilesOK, site, records, files
<1>2. CASE InsertCatalog(p)
  <2>1. BatchInsert(found[p]) \in [EntityType -> Seq(Dumps)]
    BY InsertedRows DEF MemoryOK
  <2>2. MemoryOK'
    BY <1>2, NoPlanTypes DEF InsertCatalog, Local, MemoryOK, Goto, Stage
  <2> QED
    BY <1>2, <2>1, <2>2 DEF InsertCatalog, Local, SiteOK, RecordsOK, FilesOK, site, records, files
<1>3. CASE RefreshFails(p)
  <2>1. MemoryOK'
    BY <1>3, LeaveTypes DEF RefreshFails, memory, MemoryOK, Goto, Stage
  <2> QED
    BY <1>3, <2>1 DEF RefreshFails, SiteOK, RecordsOK, FilesOK, site, records, files
<1>4. CASE Resolve(p)
  <2>1. MemoryOK'
    <3>1. CASE Resolvable(req[p].entities, req[p].month)
      <4>1. ResolveImportPlan(req[p].entities, req[p].month) \in Plans
        BY <1>4, <1>q, <3>1, ResolvedPlan DEF Resolve
      <4> QED
        BY <1>4, <3>1, <4>1 DEF Resolve, MemoryOK, Goto, Stage
    <3>2. CASE ~Resolvable(req[p].entities, req[p].month)
      BY <1>4, <3>2, LeaveTypes DEF Resolve
    <3> QED
      BY <3>1, <3>2
  <2> QED
    BY <1>4, <2>1 DEF Resolve, SiteOK, RecordsOK, FilesOK, site, records, files
<1>5. CASE Preflight(p)
  <2>1. MemoryOK'
    BY <1>5, <1>v, LeaveTypes DEF Preflight, MemoryOK, Goto, Stage
  <2> QED
    BY <1>5, <2>1 DEF Preflight, SiteOK, RecordsOK, FilesOK, site, records, files
<1>6. CASE Refuse(p)
  <2>1. MemoryOK'
    BY <1>6, LeaveTypes DEF Refuse
  <2> QED
    BY <1>6, <2>1 DEF Refuse, SiteOK, RecordsOK, FilesOK, site, records, files
<1>7. CASE Recheck(p)
  <2>1. MemoryOK'
    <3>1. CASE SecondVerdict(p) # None
      <4>1. SecondVerdict(p) \in Verdict
        BY <1>v, <3>1 DEF SecondVerdict
      <4>2. DOMAIN plan[p] \subseteq EntityType
        BY PlanFacts DEF MemoryOK
      <4> QED
        BY <1>7, <3>1, <4>1, <4>2 DEF Recheck, Local, MemoryOK, Goto, Stage, Imports
    <3>2. CASE SecondVerdict(p) = None
      BY <1>7, <3>2, AbortTypes DEF Recheck, Local, MemoryOK
    <3> QED
      BY <3>1, <3>2
  <2> QED
    BY <1>7, <2>1 DEF Recheck, Local, SiteOK, RecordsOK, FilesOK, site, records, files
<1> QED
  BY <1>1, <1>2, <1>3, <1>4, <1>5, <1>6, <1>7

\* Skipping and admission.
LEMMA PrepareTypes ==
    ASSUME Inv, NEW p \in Importer, Skip(p) \/ Admit(p)
    PROVE  SiteOK' /\ RecordsOK' /\ FilesOK' /\ MemoryOK'
<1> USE DEF Inv, Types
<1> DEFINE n == runSeq + 1
<1>1. /\ n \in RunId
      /\ Marked(p) \in [RunId -> RunRow]
      /\ DirtyMarked(p) \in SUBSET EntityType
      /\ pc[p] = "prepare"
  BY PreparingFacts DEF Skip, Admit, MayPrepare
<1>2. req[p] \in Request /\ req[p].rev \in Revision /\ req[p].cleanup \in BOOLEAN
  BY <1>1, RequestFacts DEF StageInv
<1>3. plan[p] \in Plans /\ DOMAIN plan[p] \subseteq EntityType
  BY PlanFacts DEF MemoryOK
<1>4. \A st \in {"running", "success"} :
         [Marked(p) EXCEPT ![n] = [status |-> st, plan |-> plan[p], rev |-> req[p].rev]]
            \in [RunId -> RunRow]
  BY <1>1, <1>2, <1>3 DEF RunRow
<1> HIDE DEF n
<1>5. CASE Admit(p)
  <2>1. run' = [Marked(p) EXCEPT ![n] = [status |-> "running", plan |-> plan[p], rev |-> req[p].rev]]
    BY <1>5 DEF Admit, n
  <2>2. RecordsOK'
    BY <1>5, <1>1, <1>4, <2>1 DEF Admit, RecordsOK, n
  <2>3. MemoryOK'
    BY <1>5, <1>1 DEF Admit, MemoryOK, Goto, Stage, Imports, n
  <2> QED
    BY <1>5, <2>2, <2>3 DEF Admit, SiteOK, FilesOK, site, files
<1>6. CASE Skip(p)
  <2>1. MemoryOK'
    BY <1>6, <1>3, LeaveTypes DEF Skip, memory, MemoryOK, Goto, Stage
  <2>2. CASE Exact(p)
    BY <1>1, <1>6, <2>1, <2>2 DEF Skip, SiteOK, RecordsOK, FilesOK, site, files
  <2>3. CASE ~Exact(p)
    <3>1. Consolidate(p) /\ dirty' = DirtyMarked(p)
      BY <1>6, <2>3 DEF Skip
    <3>2. run' \in [RunId -> RunRow]
      BY <1>4, <3>1 DEF Consolidate, n
    <3>3. \A e \in DOMAIN plan[p] : checkpoint[e] \in RunId
      BY <1>3, <1>6 DEF Skip, Satisfied, Current, RecordsOK
    <3>4. imported' \in [RunId -> [EntityType -> Files!FileType \cup {None}]]
      <4>1. [e \in EntityType |-> IF e \in DOMAIN plan[p] THEN imported[checkpoint[e]][e] ELSE None]
               \in [EntityType -> Files!FileType \cup {None}]
        BY <3>3 DEF RecordsOK
      <4> QED
        BY <3>1, <4>1 DEF Consolidate, RecordsOK
    <3>5. /\ completed' \in [EntityType -> [Revision -> RunId \cup {NoRun}]]
          /\ checkpoint' \in [EntityType -> RunId \cup {NoRun}]
          /\ runSeq' \in RunId
      BY <1>1, <3>1 DEF Consolidate, RecordsOK, n
    <3> QED
      BY <1>1, <1>6, <2>1, <3>1, <3>2, <3>4, <3>5 DEF Skip, SiteOK, RecordsOK, FilesOK, site, files
  <2> QED
    BY <2>2, <2>3
<1> QED
  BY <1>5, <1>6

\* The download stage, and clean-up.
LEMMA FileTypes ==
    ASSUME Inv, NEW p \in Importer,
           \/ \E e \in left[p] : FileReady(p, e) \/ StartDownload(p, e)
           \/ EndDownload(p) \/ Cleanup(p)
    PROVE  SiteOK' /\ RecordsOK' /\ FilesOK' /\ MemoryOK'
<1> USE DEF Inv, Types
<1>1. /\ left[p] \in SUBSET EntityType
      /\ \A e \in left[p] : /\ e \in DOMAIN plan[p] /\ FileOf(p, e) \in EntityType \X Date
                            /\ Expected(p, e) \in Issue /\ plan[p][e].date \in Date
  <2>1. left[p] \in SUBSET EntityType /\ left[p] \subseteq DOMAIN plan[p]
    BY DEF MemoryOK, StageInv
  <2>2. plan[p] \in Plans
    BY DEF MemoryOK
  <2> QED
    BY <2>1, <2>2, PlanFacts DEF FileOf, Expected
<1>2. ASSUME NEW e \in left[p], FileReady(p, e) PROVE RecordsOK' /\ FilesOK' /\ MemoryOK' /\ SiteOK'
  BY <1>2 DEF FileReady, Local, SiteOK, RecordsOK, FilesOK, MemoryOK, site, records, files, memory
<1>3. ASSUME NEW e \in left[p], StartDownload(p, e)
      PROVE RecordsOK' /\ FilesOK' /\ MemoryOK' /\ SiteOK'
  <2>1. FilesOK'
    BY <1>1, <1>3, FileKinds DEF StartDownload, Files!BeginDownload, FilesOK
  <2>2. <<e, served[e][plan[p][e].date]>> \in EntityType \X (Issue \cup {None})
    BY <1>1 DEF SiteOK
  <2>3. MemoryOK'
    BY <1>3, <2>2 DEF StartDownload, MemoryOK, Goto, Stage, Imports
  <2> QED
    BY <1>3, <2>1, <2>3 DEF StartDownload, SiteOK, RecordsOK, site, records
<1>4. CASE EndDownload(p)
  <2> DEFINE e == incoming[p][1]
             got == incoming[p][2]
  <2>1. e \in left[p]
    BY <1>4 DEF EndDownload, StageInv
  <2>2. \/ /\ Files!DownloadVerified(p, FileOf(p, e), got, Expected(p, e))
           /\ left' = [left EXCEPT ![p] = @ \ {e}]
           /\ incoming' = [incoming EXCEPT ![p] = None]
           /\ Goto(p, "download")
           /\ UNCHANGED <<req, found, plan, accepted, cur, reading>>
        \/ /\ Files!Delete(FileOf(p, e))
           /\ Abort(p)
           /\ UNCHANGED left
    BY <1>4 DEF EndDownload, Files!DownloadRejected, Files!DownloadFailed
  <2>3. UNCHANGED <<site, catalog, records, unheld, lockHolder, session>>
    BY <1>4 DEF EndDownload
  <2> HIDE DEF e, got
  <2>4. FilesOK'
    BY <1>1, <2>1, <2>2, <2>3, FileKinds DEF Files!DownloadVerified, Files!Delete, FilesOK
  <2>5. MemoryOK'
    BY <2>2, <2>3, AbortTypes DEF MemoryOK, Goto, Stage, Imports
  <2> QED
    BY <2>3, <2>4, <2>5 DEF SiteOK, RecordsOK, site, records
<1>5. CASE Cleanup(p)
  <2>1. MemoryOK'
    BY <1>5, LeaveTypes DEF Cleanup, MemoryOK, memory
  <2>2. FilesOK'
    BY <1>1, <1>5, FileKinds DEF Cleanup, Files!Delete, FilesOK
  <2> QED
    BY <1>5, <2>1, <2>2 DEF Cleanup, SiteOK, RecordsOK, site, records
<1> QED
  BY <1>2, <1>3, <1>4, <1>5

\* The entity steps and completion.
LEMMA ImportTypes ==
    ASSUME Inv, NEW p \in Importer,
           \/ StartSteps(p) \/ \E e \in left[p] : OpenFile(p, e)
           \/ ImportEntity(p)
           \/ CompleteSuccess(p) \/ CompleteFailure(p) \/ CompleteError(p)
    PROVE  SiteOK' /\ RecordsOK' /\ FilesOK' /\ MemoryOK'
<1> USE DEF Inv, Types
<1>1. /\ left[p] \in SUBSET EntityType /\ left[p] \subseteq DOMAIN plan[p]
      /\ DOMAIN plan[p] \in SUBSET EntityType
      /\ \A e \in left[p] : FileOf(p, e) \in EntityType \X Date
  <2>1. left[p] \in SUBSET EntityType /\ left[p] \subseteq DOMAIN plan[p] /\ plan[p] \in Plans
    BY DEF MemoryOK, StageInv
  <2> QED
    BY <2>1, PlanFacts DEF FileOf
<1>2. pc[p] \in Imports => cur[p] \in RunId /\ req[p] \in Request /\ req[p].rev \in Revision
  <2>1. pc[p] \in Imports => cur[p] \in 1..runSeq /\ req[p] \in Request
    BY DEF StageInv, Imports
  <2> QED
    BY <2>1, RequestFacts, PreparationAssumption DEF RecordsOK, RunId
<1>3. CASE StartSteps(p)
  BY <1>1, <1>3 DEF StartSteps, Local, SiteOK, RecordsOK, FilesOK, MemoryOK, Goto, Stage, Imports,
                    site, records, files, memory
<1>4. ASSUME NEW e \in left[p], OpenFile(p, e) PROVE SiteOK' /\ RecordsOK' /\ FilesOK' /\ MemoryOK'
  <2>1. UNCHANGED <<site, records, lockHolder, files, session, catalog, left>>
    BY <1>4 DEF OpenFile, Local
  <2>2. MemoryOK'
    <3>1. CASE Abort(p)
      BY <2>1, <3>1, AbortTypes DEF MemoryOK
    <3>2. CASE ~Abort(p)
      <4>1. <<e, disk[FileOf(p, e)]>> \in EntityType \X Files!FileType
        BY <1>1, <1>4 DEF FilesOK
      <4> QED
        BY <1>4, <2>1, <3>2, <4>1 DEF OpenFile, MemoryOK, Goto, Stage, Imports
    <3> QED
      BY <3>1, <3>2
  <2> QED
    BY <2>1, <2>2 DEF SiteOK, RecordsOK, FilesOK, site, records, files
<1>5. CASE ImportEntity(p)
  <2> DEFINE e == reading[p][1]
             content == reading[p][2]
  <2>1. pc[p] = "reading" /\ e \in left[p] /\ e \in EntityType /\ content \in Files!FileType
    BY <1>5 DEF ImportEntity, StageInv, MemoryOK
  <2>2. cur[p] \in RunId /\ req[p].rev \in Revision
    BY <1>2, <2>1 DEF Imports
  <2>3. UNCHANGED <<site, catalog, run, runSeq, checkpoint, dirty, lockHolder, files, session>>
    BY <1>5 DEF ImportEntity
  <2>4. CASE run[cur[p]].status = "running"
    <3>1. /\ imported' = [imported EXCEPT ![cur[p]][e] = content]
          /\ completed' = [completed EXCEPT ![e][req[p].rev] = cur[p]]
          /\ left' = [left EXCEPT ![p] = @ \ {e}]
          /\ reading' = [reading EXCEPT ![p] = None]
          /\ Goto(p, "steps")
          /\ UNCHANGED <<req, found, plan, accepted, cur, incoming>>
      BY <1>5, <2>4 DEF ImportEntity
    <3> HIDE DEF e, content
    <3>2. RecordsOK'
      BY <2>1, <2>2, <2>3, <3>1 DEF RecordsOK
    <3>3. MemoryOK'
      BY <2>1, <2>3, <3>1 DEF MemoryOK, Goto, Stage, Imports
    <3> QED
      BY <2>3, <3>2, <3>3 DEF SiteOK, FilesOK, site, files
  <2>5. CASE run[cur[p]].status # "running"
    <3>1. Abort(p) /\ UNCHANGED <<imported, completed, left>>
      BY <1>5, <2>5 DEF ImportEntity
    <3>2. MemoryOK'
      BY <2>3, <3>1, AbortTypes DEF MemoryOK
    <3> QED
      BY <2>3, <3>1, <3>2 DEF SiteOK, RecordsOK, FilesOK, site, files
  <2> QED
    BY <2>4, <2>5
<1>6. CASE CompleteSuccess(p)
  <2>1. cur[p] \in RunId /\ run' = [run EXCEPT ![cur[p]].status = "success"]
    BY <1>2, <1>6 DEF CompleteSuccess, Imports
  <2>2. RecordsOK'
    <3>1. run' \in [RunId -> RunRow]
      BY <2>1 DEF RecordsOK, RunRow
    <3> QED
      BY <1>6, <2>1, <3>1 DEF CompleteSuccess, RecordsOK
  <2>3. MemoryOK'
    <3>1. CASE Leave(p)
      BY <3>1, LeaveTypes
    <3>2. CASE ~Leave(p)
      <4>1. /\ Release(p) /\ Goto(p, "cleanup") /\ UNCHANGED memory
            /\ left' = [left EXCEPT ![p] = DOMAIN plan[p]]
        BY <1>6, <3>2 DEF CompleteSuccess
      <4> QED
        BY <1>1, <4>1 DEF MemoryOK, memory, Release, LocksWithout, Goto, Stage
    <3> QED
      BY <3>1, <3>2
  <2> QED
    BY <1>6, <2>2, <2>3 DEF CompleteSuccess, SiteOK, FilesOK, site, files
<1>7. CASE CompleteFailure(p)
  <2>1. cur[p] \in RunId /\ run' = [run EXCEPT ![cur[p]].status = "failed"]
    BY <1>2, <1>7 DEF CompleteFailure, Imports
  <2>2. RecordsOK'
    <3>1. run' \in [RunId -> RunRow]
      BY <2>1 DEF RecordsOK, RunRow
    <3> QED
      BY <1>1, <1>7, <3>1 DEF CompleteFailure, RecordsOK
  <2>3. MemoryOK'
    BY <1>7, LeaveTypes DEF CompleteFailure
  <2> QED
    BY <1>7, <2>2, <2>3 DEF CompleteFailure, SiteOK, FilesOK, site, files
<1>8. CASE CompleteError(p)
  <2>1. MemoryOK'
    BY <1>8, LeaveTypes DEF CompleteError
  <2> QED
    BY <1>8, <2>1 DEF CompleteError, SiteOK, RecordsOK, FilesOK, site, records, files
<1> QED
  BY <1>3, <1>4, <1>5, <1>6, <1>7, <1>8

LEMMA FaultTypes ==
    ASSUME Inv, NEW p \in Importer, Crash(p) \/ Fault(p)
    PROVE  /\ SiteOK' /\ RecordsOK' /\ FilesOK' /\ MemoryOK'
           /\ Fault(p) => faults' \in 0..MaxFaults
<1> USE DEF Inv, Types
<1>1. MemoryOK'
  <2>1. CASE Leave(p)
    BY <2>1, LeaveTypes
  <2>2. CASE LoseSession(p)
    BY <2>2 DEF LoseSession, Release, LocksWithout, MemoryOK, memory
  <2>3. CASE FailImport(p)
    BY <2>3, AbortTypes DEF FailImport, MemoryOK
  <2> QED
    BY <2>1, <2>2, <2>3 DEF Crash, Fault
<1>2. Fault(p) => faults' \in 0..MaxFaults
  BY PreparationAssumption DEF Fault, BoundsOK
<1> QED
  BY <1>1, <1>2 DEF Crash, Fault, SiteOK, RecordsOK, FilesOK, site, records, files

LEMMA TypeStep ==
    ASSUME Inv, [Next]_vars
    PROVE  Types'
<1>1. CASE Upstream /\ UNCHANGED bounds
  BY <1>1, UpstreamTypes DEF Inv, Types, BoundsOK, bounds
<1>2. ASSUME NEW p \in Importer, NEW q \in Request, Invoke(p, q), UNCHANGED faults PROVE Types'
  BY <1>2, InvokeTypes DEF Inv, Types, BoundsOK
<1>3. ASSUME NEW p \in Importer, ImporterStep(p), UNCHANGED bounds PROVE Types'
  <2>1. SiteOK' /\ RecordsOK' /\ FilesOK' /\ MemoryOK'
    BY <1>3, PlanningTypes, PrepareTypes, FileTypes, ImportTypes, FaultTypes DEF ImporterStep
  <2> QED
    BY <1>3, <2>1 DEF Inv, Types, BoundsOK, bounds
<1>4. ASSUME NEW p \in Importer, Fault(p), UNCHANGED invoked PROVE Types'
  BY <1>4, FaultTypes DEF Inv, Types, BoundsOK
<1>5. CASE UNCHANGED vars
  BY <1>5 DEF vars, site, records, files, bounds, memory, Inv, Types, SiteOK, RecordsOK, FilesOK,
              BoundsOK, MemoryOK
<1> QED
  BY <1>1, <1>2, <1>3, <1>4, <1>5 DEF Next

-----------------------------------------------------------------------------
(***************************************************************************)
(* The stages of one importer, and what its steps leave to the others.     *)
(***************************************************************************)
OthersKept(p) ==
    \A q \in Importer \ {p} :
       /\ pc'[q] = pc[q] /\ req'[q] = req[q] /\ plan'[q] = plan[q] /\ accepted'[q] = accepted[q]
       /\ cur'[q] = cur[q] /\ left'[q] = left[q] /\ incoming'[q] = incoming[q]
       /\ reading'[q] = reading[q] /\ session'[q] = session[q]
       /\ \A e \in EntityType : lockHolder'[e] = q <=> lockHolder[e] = q

\* Recorded runs keep their plans and never become absent again; a settled run is final.
RunsKept ==
    /\ runSeq' \in {runSeq, runSeq + 1}
    /\ \A r \in RunId : r <= runSeq =>
          /\ run'[r].plan = run[r].plan
          /\ run[r].status # "absent" => run'[r].status # "absent"
          /\ run[r].status \in {"success", "failed"} => run'[r].status = run[r].status

LEMMA LeaveKeepsOthers ==
    ASSUME MemoryOK, NEW p \in Importer, Leave(p)
    PROVE  OthersKept(p) /\ StageInv(p)'
<1>1. OthersKept(p)
  BY PreparationAssumption DEF MemoryOK, Leave, Release, LocksWithout, Goto, OthersKept
<1>2. /\ pc'[p] = "idle" /\ left'[p] = {} /\ cur'[p] = NoRun /\ ~session'[p]
  BY DEF MemoryOK, Leave, Release, Goto
<1> QED
  BY <1>1, <1>2 DEF StageInv, Before, Imports

LEMMA OthersStep ==
    ASSUME Inv, NEW p \in Importer, OthersKept(p), RunsKept, NEW q \in Importer \ {p}
    PROVE  StageInv(q)'
<1>1. pc[q] \in Imports =>
         /\ cur[q] \in 1..runSeq' /\ run'[cur[q]].status # "absent"
         /\ run'[cur[q]].plan = run[cur[q]].plan
  <2>1. runSeq \in Nat /\ 1..runSeq \subseteq RunId
    BY PreparationAssumption DEF Inv, Types, RecordsOK, RunId
  <2> QED
    BY <2>1 DEF RunsKept, Inv, StageInv
<1>2. StageInv(q)
  BY DEF Inv
<1> QED
  BY <1>1, <1>2 DEF OthersKept, StageInv

LEMMA OthersKeptStep ==
    ASSUME Inv, NEW p \in Importer,
           ImporterStep(p) \/ Fault(p) \/ \E q \in Request : Invoke(p, q)
    PROVE  OthersKept(p)
<1> USE DEF Inv, Types, MemoryOK, OthersKept
<1>1. ASSUME NEW q \in Request, Invoke(p, q) PROVE OthersKept(p)
  BY <1>1 DEF Invoke, Local, Goto
<1>2. CASE Leave(p)
  BY <1>2, LeaveKeepsOthers
<1>3. CASE LoseSession(p)
  BY <1>3, PreparationAssumption DEF LoseSession, Release, LocksWithout, memory
<1>4. CASE Abort(p) /\ UNCHANGED <<lockHolder, session>>
           /\ \A q \in Importer \ {p} : left'[q] = left[q]
  BY <1>4 DEF Abort, Goto
<1>5. CASE Fault(p)
  BY <1>2, <1>3, <1>4, <1>5 DEF Fault, FailImport
<1>6. CASE ReadSite(p)
  BY <1>6 DEF ReadSite, Local, Goto
<1>7. CASE InsertCatalog(p)
  BY <1>7 DEF InsertCatalog, Local, Goto
<1>8. CASE RefreshFails(p)
  BY <1>2, <1>8 DEF RefreshFails, Goto, memory
<1>9. CASE Resolve(p)
  BY <1>2, <1>9 DEF Resolve, Goto
<1>10. CASE Preflight(p)
  BY <1>2, <1>10 DEF Preflight, Goto
<1>11. CASE Refuse(p)
  BY <1>2, <1>11 DEF Refuse
<1>12. CASE Skip(p)
  BY <1>2, <1>12 DEF Skip, Goto, memory
<1>13. CASE Admit(p)
  <2>1. LockedTypes(p) \subseteq EntityType /\ \A e \in LockedTypes(p) : lockHolder[e] = None
    BY <1>13, PreparingFacts DEF Admit, MayPrepare
  <2> QED
    BY <1>13, <2>1, PreparationAssumption DEF Admit, Goto
<1>14. CASE Recheck(p)
  BY <1>4, <1>14 DEF Recheck, Local, Goto
<1>15. ASSUME NEW e \in left[p], FileReady(p, e) PROVE OthersKept(p)
  BY <1>15 DEF FileReady, Local, memory
<1>16. ASSUME NEW e \in left[p], StartDownload(p, e) PROVE OthersKept(p)
  BY <1>16 DEF StartDownload, Goto
<1>17. ASSUME NEW e \in left[p], OpenFile(p, e) PROVE OthersKept(p)
  BY <1>4, <1>17 DEF OpenFile, Local, Goto
<1>18. CASE EndDownload(p)
  BY <1>4, <1>18 DEF EndDownload, Goto
<1>19. CASE StartSteps(p)
  BY <1>19 DEF StartSteps, Local, Goto, memory
<1>20. CASE ImportEntity(p)
  BY <1>4, <1>20 DEF ImportEntity, Goto
<1>21. CASE CompleteSuccess(p)
  BY <1>2, <1>21, PreparationAssumption DEF CompleteSuccess, Release, LocksWithout, Goto, memory
<1>22. CASE CompleteFailure(p)
  BY <1>2, <1>22 DEF CompleteFailure
<1>23. CASE CompleteError(p)
  BY <1>2, <1>23 DEF CompleteError
<1>24. CASE Cleanup(p)
  BY <1>2, <1>24 DEF Cleanup, memory
<1>25. CASE Crash(p)
  BY <1>2, <1>25 DEF Crash
<1> QED
  BY <1>1, <1>5, <1>6, <1>7, <1>8, <1>9, <1>10, <1>11, <1>12, <1>13, <1>14, <1>15, <1>16, <1>17,
     <1>18, <1>19, <1>20, <1>21, <1>22, <1>23, <1>24, <1>25 DEF ImporterStep

\* Only admissions, skips and completions write the run table.
LEMMA RunSteps ==
    ASSUME NEW p \in Importer,
           ImporterStep(p) \/ Fault(p) \/ \E q \in Request : Invoke(p, q)
    PROVE  Skip(p) \/ Admit(p) \/ CompleteSuccess(p) \/ CompleteFailure(p) \/ UNCHANGED <<run, runSeq>>
<1>1. CASE Fault(p)
  BY <1>1 DEF Fault, records
<1>2. ASSUME NEW q \in Request, Invoke(p, q) PROVE UNCHANGED <<run, runSeq>>
  BY <1>2 DEF Invoke, Local, records
<1>3. ASSUME NEW e \in left[p], FileReady(p, e) \/ StartDownload(p, e) \/ OpenFile(p, e)
      PROVE UNCHANGED <<run, runSeq>>
  BY <1>3 DEF FileReady, StartDownload, OpenFile, Local, records
<1>4. CASE ImporterStep(p)
  BY <1>3, <1>4
     DEF ImporterStep, ReadSite, InsertCatalog, RefreshFails, Resolve, Preflight, Refuse, Recheck,
         EndDownload, StartSteps, ImportEntity, CompleteError, Cleanup, Crash, Local, records
<1> QED
  BY <1>1, <1>2, <1>4

\* A run is recorded under a new id; one that is settled changes no more.
LEMMA RunsStep ==
    ASSUME Inv, NEW p \in Importer,
           ImporterStep(p) \/ Fault(p) \/ \E q \in Request : Invoke(p, q)
    PROVE  /\ RunsKept
           /\ \A r \in RunId : r > runSeq' => run'[r].status = "absent"
<1> USE DEF Inv, Types, RecordsOK
<1>1. runSeq \in Nat /\ \A r \in RunId : r \in Nat
  BY PreparationAssumption DEF RunId
<1>2. \A r \in RunId : r > runSeq => run[r].status = "absent"
  BY DEF RunsInv
<1>3. /\ \A r \in RunId : Marked(p)[r] = run[r] \/ (/\ run[r].status = "running"
                                                    /\ Marked(p)[r].status = "failed"
                                                    /\ Marked(p)[r].plan = run[r].plan)
  BY DEF Marked, Abandoned, RunRow
<1>4. CASE UNCHANGED <<run, runSeq>>
  BY <1>1, <1>2, <1>4 DEF RunsKept
<1>5. CASE Admit(p)
  <2>1. \A r \in RunId : r # runSeq + 1 => run'[r] = Marked(p)[r]
    BY <1>5, PreparingFacts DEF Admit, MayPrepare
  <2>2. runSeq' = runSeq + 1
    BY <1>5 DEF Admit
  <2> QED
    BY <1>1, <1>2, <1>3, <2>1, <2>2 DEF RunsKept
<1>6. CASE Skip(p)
  <2>1. \A r \in RunId : r # runSeq + 1 => run'[r] = Marked(p)[r]
    BY <1>6, PreparingFacts DEF Skip, MayPrepare, Consolidate
  <2>2. runSeq' = runSeq + 1 \/ (runSeq' = runSeq /\ run' = Marked(p))
    BY <1>6 DEF Skip, Consolidate
  <2>3. CASE runSeq' = runSeq + 1
    <3>1. \A r \in RunId : r <= runSeq => run'[r] = Marked(p)[r]
      BY <1>1, <2>1
    <3>2. RunsKept
      BY <1>1, <1>3, <2>3, <3>1 DEF RunsKept
    <3>3. \A r \in RunId : r > runSeq' => r > runSeq /\ run'[r] = Marked(p)[r]
      BY <1>1, <2>1, <2>3
    <3> QED
      BY <1>2, <1>3, <3>2, <3>3
  <2>4. CASE runSeq' = runSeq /\ run' = Marked(p)
    BY <1>1, <1>2, <1>3, <2>4 DEF RunsKept
  <2> QED
    BY <2>2, <2>3, <2>4
<1>7. CASE CompleteSuccess(p) \/ CompleteFailure(p)
  <2>1. PICK st \in {"success", "failed"} : run' = [run EXCEPT ![cur[p]].status = st]
    BY <1>7 DEF CompleteSuccess, CompleteFailure
  <2>2. run[cur[p]].status = "running" /\ runSeq' = runSeq
    BY <1>7 DEF CompleteSuccess, CompleteFailure
  <2>3. \A r \in RunId : run'[r] = run[r] \/ (/\ run[r].status = "running"
                                              /\ run'[r].status = st
                                              /\ run'[r].plan = run[r].plan)
    BY <2>1, <2>2 DEF RunRow
  <2> QED
    BY <1>1, <1>2, <2>2, <2>3 DEF RunsKept
<1> QED
  BY <1>4, <1>5, <1>6, <1>7, RunSteps

\* Nothing is imported under a run id before it is handed out.
LEMMA UnusedStep ==
    ASSUME Inv, NEW p \in Importer,
           ImporterStep(p) \/ Fault(p) \/ \E q \in Request : Invoke(p, q)
    PROVE  \A r \in RunId : r > runSeq' => \A e \in EntityType : imported'[r][e] = None
<1> USE DEF Inv, Types, RecordsOK
<1>1. runSeq \in Nat /\ \A r \in RunId : r \in Nat
  BY PreparationAssumption DEF RunId
<1>2. \A r \in RunId : r > runSeq => \A e \in EntityType : imported[r][e] = None
  BY DEF RunsInv
<1>3. runSeq <= runSeq'
  BY <1>1, RunsStep DEF RunsKept
<1>4. CASE UNCHANGED imported
  BY <1>1, <1>2, <1>3, <1>4, RunsStep DEF RunsKept
<1>5. CASE ImportEntity(p)
  <2>1. cur[p] \in 1..runSeq /\ runSeq' = runSeq
    BY <1>5 DEF ImportEntity, StageInv, Imports
  <2>2. \A r \in RunId : r # cur[p] => imported'[r] = imported[r]
    BY <1>5 DEF ImportEntity
  <2> QED
    BY <1>1, <1>2, <2>1, <2>2
<1>6. CASE Skip(p)
  <2>1. \/ UNCHANGED imported
        \/ runSeq' = runSeq + 1 /\ \A r \in RunId : r # runSeq + 1 => imported'[r] = imported[r]
    BY <1>6 DEF Skip, Consolidate
  <2> QED
    BY <1>1, <1>2, <1>4, <2>1
<1>7. UNCHANGED imported \/ ImportEntity(p) \/ Skip(p)
  <2>1. CASE Fault(p)
    BY <2>1 DEF Fault, records
  <2>2. ASSUME NEW q \in Request, Invoke(p, q) PROVE UNCHANGED imported
    BY <2>2 DEF Invoke, Local, records
  <2>3. ASSUME NEW e \in left[p], FileReady(p, e) \/ StartDownload(p, e) \/ OpenFile(p, e)
        PROVE UNCHANGED imported
    BY <2>3 DEF FileReady, StartDownload, OpenFile, Local, records
  <2>4. CASE ImporterStep(p)
    BY <2>3, <2>4
       DEF ImporterStep, ReadSite, InsertCatalog, RefreshFails, Resolve, Preflight, Refuse, Admit,
           Recheck, EndDownload, StartSteps, CompleteSuccess, CompleteFailure, CompleteError,
           Cleanup, Crash, Local, records
  <2> QED
    BY <2>1, <2>2, <2>4
<1> QED
  BY <1>4, <1>5, <1>6, <1>7

\* Only an invocation enters the stages before admission; whoever records a run leaves them.
LEMMA StageStep ==
    ASSUME Inv, NEW p \in Importer,
           ImporterStep(p) \/ Fault(p) \/ \E q \in Request : Invoke(p, q)
    PROVE  /\ pc' = [pc EXCEPT ![p] = pc'[p]]
           /\ runSeq' # runSeq => pc[p] \in Before /\ pc'[p] \notin Before
           /\ \/ pc'[p] \in Before => pc[p] \in Before
              \/ \E q \in Request : Invoke(p, q)
<1> USE DEF Inv, Types, MemoryOK
<1>1. pc' = [pc EXCEPT ![p] = pc'[p]]
  <2>1. \A q \in Importer \ {p} : pc'[q] = pc[q]
    BY OthersKeptStep DEF OthersKept
  <2>2. pc' \in [Importer -> Stage]
    <3>1. CASE ImporterStep(p)
      BY <3>1, PlanningTypes, PrepareTypes, FileTypes, ImportTypes, FaultTypes DEF ImporterStep
    <3>2. CASE Fault(p)
      BY <3>2, FaultTypes
    <3>3. ASSUME NEW q \in Request, Invoke(p, q) PROVE pc' \in [Importer -> Stage]
      BY <3>3, InvokeTypes
    <3> QED
      BY <3>1, <3>2, <3>3
  <2> QED
    BY <2>1, <2>2
<1>2. CASE runSeq' # runSeq
  <2>1. Skip(p) \/ Admit(p)
    BY <1>2, RunSteps DEF CompleteSuccess, CompleteFailure
  <2> QED
    BY <1>1, <2>1 DEF Skip, Admit, MayPrepare, Leave, Goto, Before
<1>3. CASE Fault(p)
  <2>1. LoseSession(p) => UNCHANGED pc
    BY DEF LoseSession
  <2>2. FailImport(p) \/ Leave(p) => pc'[p] \in {"failing", "idle"}
    BY DEF FailImport, Abort, Leave, Goto
  <2>3. pc'[p] \in Before => pc[p] \in Before
    BY <1>3, <2>1, <2>2 DEF Fault, Before
  <2> QED
    BY <1>1, <1>2, <2>3
<1>4. CASE ImporterStep(p) /\ ~Skip(p) /\ ~Admit(p)
  <2>1. ASSUME NEW e \in left[p], FileReady(p, e) \/ StartDownload(p, e) \/ OpenFile(p, e)
        PROVE pc'[p] \in Before => pc[p] \in Before
    BY <2>1 DEF FileReady, StartDownload, OpenFile, Local, Abort, Goto, Before
  <2>2. ReadSite(p) \/ InsertCatalog(p) \/ RefreshFails(p) \/ Resolve(p) \/ Preflight(p)
           \/ Refuse(p) => pc[p] \in Before
    BY DEF ReadSite, InsertCatalog, RefreshFails, Resolve, Preflight, Refuse, Before
  <2>3. Recheck(p) \/ EndDownload(p) \/ StartSteps(p) \/ ImportEntity(p) \/ CompleteError(p)
           \/ CompleteFailure(p) \/ Crash(p) => pc'[p] \notin Before
    BY DEF Recheck, EndDownload, StartSteps, ImportEntity, CompleteError, CompleteFailure, Crash,
           Abort, Leave, Goto, Before
  <2>4. CompleteSuccess(p) => pc'[p] \notin Before
    BY DEF CompleteSuccess, Leave, Goto, Before
  <2>5. Cleanup(p) => pc'[p] \notin Before \/ pc'[p] = pc[p]
    BY DEF Cleanup, Leave, Goto, Before
  <2> QED
    BY <1>1, <1>2, <1>4, <2>1, <2>2, <2>3, <2>4, <2>5 DEF ImporterStep
<1>5. CASE Skip(p) \/ Admit(p)
  BY <1>1, <1>2, <1>5 DEF Skip, Admit, MayPrepare, Before
<1> QED
  BY <1>1, <1>2, <1>3, <1>4, <1>5

LEMMA ImporterTypes ==
    ASSUME Inv, NEW p \in Importer,
           ImporterStep(p) \/ Fault(p) \/ \E q \in Request : Invoke(p, q)
    PROVE  SiteOK' /\ RecordsOK' /\ FilesOK' /\ MemoryOK'
<1>1. CASE ImporterStep(p)
  BY <1>1, PlanningTypes, PrepareTypes, FileTypes, ImportTypes, FaultTypes DEF ImporterStep
<1> QED
  BY <1>1, FaultTypes, InvokeTypes DEF Inv

LEMMA StageInvStep ==
    ASSUME Inv, NEW p \in Importer,
           ImporterStep(p) \/ Fault(p) \/ \E q \in Request : Invoke(p, q)
    PROVE  StageInv(p)'
<1> USE DEF Inv, Types, MemoryOK
<1>s. StageInv(p) /\ RunsKept /\ runSeq \in Nat /\ 1..runSeq \subseteq RunId
  BY RunsStep, PreparationAssumption DEF RecordsOK, RunId
<1>k. ASSUME pc[p] \in Imports, cur'[p] = cur[p], plan'[p] = plan[p]
      PROVE  /\ cur'[p] \in 1..runSeq'
             /\ run'[cur'[p]].status # "absent" /\ run'[cur'[p]].plan = plan'[p]
  BY <1>k, <1>s DEF StageInv, RunsKept
<1>a. ASSUME pc[p] \in Imports, pc'[p] \in Imports, UNCHANGED session,
             cur'[p] = cur[p], plan'[p] = plan[p], req'[p] = req[p], left'[p] \subseteq DOMAIN plan[p],
             pc'[p] = "transfer" => incoming'[p] \in left'[p] \X (Issue \cup {None}),
             pc'[p] = "reading" => reading'[p] \in left'[p] \X Files!FileType
      PROVE StageInv(p)'
  BY <1>a, <1>k, <1>s DEF StageInv, Imports, Before
<1>b. ASSUME pc[p] \in Before \cup {"idle"}, pc'[p] \in Before, UNCHANGED session,
             cur'[p] = cur[p], left'[p] = left[p], req'[p] \in Request
      PROVE StageInv(p)'
  BY <1>b, <1>s DEF StageInv, Imports, Before
<1>c. ASSUME pc'[p] = "cleanup", ~session'[p], left'[p] \subseteq DOMAIN plan'[p], req'[p] \in Request
      PROVE StageInv(p)'
  BY <1>c DEF StageInv, Imports, Before
<1>1. ASSUME NEW q \in Request, Invoke(p, q) PROVE StageInv(p)'
  BY <1>1, <1>b DEF Invoke, Local, Goto, Before
<1>2. CASE Leave(p)
  BY <1>2, LeaveKeepsOthers
<1>3. ASSUME LoseSession(p), pc[p] \in Imports PROVE StageInv(p)'
  <2>1. /\ ~session'[p] /\ UNCHANGED <<pc, left, memory>>
    BY <1>3 DEF LoseSession, Release
  <2> QED
    BY <1>3, <2>1, <1>k, <1>s DEF StageInv, Imports, Before, memory
<1>4. ASSUME Abort(p), pc[p] \in Imports, UNCHANGED session, left'[p] \subseteq DOMAIN plan[p]
      PROVE StageInv(p)'
  <2>1. pc'[p] = "failing" /\ UNCHANGED <<req, plan, cur>>
    BY <1>4 DEF Abort, Goto
  <2> QED
    BY <1>4, <1>a, <2>1 DEF Imports
<1>l. left[p] \subseteq DOMAIN plan[p]
  BY <1>s DEF StageInv
<1>5. CASE Fault(p)
  BY <1>2, <1>3, <1>4, <1>5, <1>l DEF Fault, FailImport
<1>r. pc[p] # "idle" => req[p] \in Request
  BY <1>s DEF StageInv
<1>6. CASE ReadSite(p)
  BY <1>6, <1>b, <1>r DEF ReadSite, Local, Goto, Before
<1>7. CASE InsertCatalog(p)
  BY <1>7, <1>b, <1>r DEF InsertCatalog, Local, Goto, Before
<1>8. CASE RefreshFails(p)
  BY <1>2, <1>8, <1>b, <1>r DEF RefreshFails, Goto, memory, Before
<1>9. CASE Resolve(p)
  BY <1>2, <1>9, <1>b, <1>r DEF Resolve, Goto, Before
<1>10. CASE Preflight(p)
  BY <1>2, <1>10, <1>b, <1>r DEF Preflight, Goto, Before
<1>11. CASE Refuse(p)
  BY <1>2, <1>11 DEF Refuse
<1>12. CASE Skip(p)
  <2>1. pc[p] = "prepare"
    BY <1>12 DEF Skip, MayPrepare
  <2>2. ~session[p]
    BY <1>s, <2>1 DEF StageInv, Imports
  <2>3. CASE ~Leave(p)
    <3>1. pc'[p] = "cleanup" /\ left'[p] = DOMAIN plan[p] /\ UNCHANGED <<session, plan, req>>
      BY <1>12, <2>3 DEF Skip, Goto, memory
    <3> QED
      BY <1>c, <1>r, <2>1, <2>2, <3>1
  <2> QED
    BY <1>2, <2>3
<1>13. CASE Admit(p)
  <2>1. /\ runSeq + 1 \in RunId /\ pc[p] = "prepare"
        /\ Marked(p) \in [RunId -> RunRow]
    BY <1>13, PreparingFacts DEF Admit, MayPrepare
  <2>2. /\ run'[runSeq + 1].status = "running" /\ run'[runSeq + 1].plan = plan[p]
        /\ runSeq' = runSeq + 1 /\ cur'[p] = runSeq + 1 /\ pc'[p] = "recheck"
        /\ UNCHANGED <<plan, req, left>>
    BY <1>13, <2>1 DEF Admit, Goto
  <2> QED
    BY <1>s, <1>l, <1>r, <2>1, <2>2 DEF StageInv, Imports, Before
<1>14. CASE Recheck(p)
  <2>1. pc[p] = "recheck" /\ UNCHANGED session
    BY <1>14 DEF Recheck, Local
  <2>2. CASE ~Abort(p)
    <3>1. pc'[p] = "download" /\ left'[p] = DOMAIN plan[p] /\ UNCHANGED <<plan, req, cur>>
      BY <1>14, <2>2 DEF Recheck, Goto
    <3> QED
      BY <1>a, <2>1, <3>1 DEF Imports
  <2>3. CASE Abort(p)
    <3>1. left'[p] \subseteq DOMAIN plan[p]
      BY <1>14, <1>l DEF Recheck
    <3> QED
      BY <1>4, <2>1, <2>3, <3>1 DEF Imports
  <2> QED
    BY <2>2, <2>3
<1>15. ASSUME NEW e \in left[p], FileReady(p, e) PROVE StageInv(p)'
  BY <1>15, <1>a, <1>l DEF FileReady, Local, memory, Imports
<1>16. ASSUME NEW e \in left[p], StartDownload(p, e) PROVE StageInv(p)'
  <2>1. /\ pc[p] = "download" /\ pc'[p] = "transfer"
        /\ incoming'[p] = <<e, served[e][plan[p][e].date]>>
        /\ UNCHANGED <<session, left, req, plan, cur>>
    BY <1>16 DEF StartDownload, Goto
  <2>2. served[e][plan[p][e].date] \in Issue \cup {None}
    <3>1. e \in DOMAIN plan[p] /\ e \in EntityType /\ plan[p] \in Plans
      BY <1>l
    <3>2. plan[p][e].date \in Date
      BY <3>1, PlanFacts
    <3> QED
      BY <3>1, <3>2 DEF SiteOK
  <2> QED
    BY <1>a, <1>l, <2>1, <2>2 DEF Imports
<1>17. ASSUME NEW e \in left[p], OpenFile(p, e) PROVE StageInv(p)'
  <2>1. pc[p] = "steps" /\ UNCHANGED <<session, left>>
    BY <1>17 DEF OpenFile, Local
  <2>2. CASE Abort(p)
    BY <1>4, <1>l, <2>1, <2>2 DEF Imports
  <2>3. CASE ~Abort(p)
    <3>1. reading'[p] = <<e, disk[FileOf(p, e)]>> /\ pc'[p] = "reading" /\ UNCHANGED <<req, plan, cur>>
      BY <1>17, <2>3 DEF OpenFile, Goto
    <3>2. disk[FileOf(p, e)] \in Files!FileType
      <4>1. e \in DOMAIN plan[p] /\ e \in EntityType /\ plan[p] \in Plans
        BY <1>l
      <4>2. FileOf(p, e) \in EntityType \X Date
        BY <4>1, PlanFacts DEF FileOf
      <4> QED
        BY <4>2 DEF FilesOK
    <3> QED
      BY <1>a, <1>l, <2>1, <3>1, <3>2 DEF Imports
  <2> QED
    BY <2>2, <2>3
<1>18. CASE EndDownload(p)
  <2>1. pc[p] = "transfer" /\ UNCHANGED session
    BY <1>18 DEF EndDownload
  <2>2. CASE Abort(p) /\ UNCHANGED left
    BY <1>4, <1>l, <2>1, <2>2 DEF Imports
  <2>3. CASE ~(Abort(p) /\ UNCHANGED left)
    <3>1. pc'[p] = "download" /\ left'[p] \subseteq left[p] /\ UNCHANGED <<req, plan, cur>>
      BY <1>18, <2>3 DEF EndDownload, Goto
    <3> QED
      BY <1>a, <1>l, <2>1, <3>1 DEF Imports
  <2> QED
    BY <2>2, <2>3
<1>19. CASE StartSteps(p)
  BY <1>19, <1>a DEF StartSteps, Local, Goto, memory, Imports
<1>20. CASE ImportEntity(p)
  <2>1. pc[p] = "reading" /\ UNCHANGED session
    BY <1>20 DEF ImportEntity
  <2>2. CASE Abort(p) /\ UNCHANGED left
    BY <1>4, <1>l, <2>1, <2>2 DEF Imports
  <2>3. CASE ~(Abort(p) /\ UNCHANGED left)
    <3>1. pc'[p] = "steps" /\ left'[p] \subseteq left[p] /\ UNCHANGED <<req, plan, cur>>
      BY <1>20, <2>3 DEF ImportEntity, Goto
    <3> QED
      BY <1>a, <1>l, <2>1, <3>1 DEF Imports
  <2> QED
    BY <2>2, <2>3
<1>21. CASE CompleteSuccess(p)
  <2>1. CASE ~Leave(p)
    <3>1. /\ pc[p] = "steps" /\ ~session'[p] /\ pc'[p] = "cleanup"
          /\ left'[p] = DOMAIN plan[p] /\ UNCHANGED <<plan, req>>
      BY <1>21, <2>1 DEF CompleteSuccess, Release, Goto, memory
    <3> QED
      BY <1>c, <1>r, <3>1
  <2> QED
    BY <1>2, <2>1
<1>22. CASE CompleteFailure(p)
  BY <1>2, <1>22 DEF CompleteFailure
<1>23. CASE CompleteError(p)
  BY <1>2, <1>23 DEF CompleteError
<1>24. CASE Cleanup(p)
  <2>1. CASE ~Leave(p)
    <3>1. /\ pc[p] = "cleanup" /\ left'[p] \subseteq left[p]
          /\ UNCHANGED <<session, pc, req, plan>>
      BY <1>24, <2>1 DEF Cleanup, CleanupStages, memory
    <3>2. ~session[p]
      BY <1>s, <3>1 DEF StageInv, Imports
    <3> QED
      BY <1>c, <1>r, <1>l, <3>1, <3>2
  <2> QED
    BY <1>2, <2>1
<1>25. CASE Crash(p)
  BY <1>2, <1>25 DEF Crash
<1> QED
  BY <1>1, <1>5, <1>6, <1>7, <1>8, <1>9, <1>10, <1>11, <1>12, <1>13, <1>14, <1>15, <1>16, <1>17,
     <1>18, <1>19, <1>20, <1>21, <1>22, <1>23, <1>24, <1>25 DEF ImporterStep

\* Run ids never run out: an invocation records at most one run.
LEMMA CountedStep ==
    ASSUME Inv, NEW p \in Importer,
           \/ ImporterStep(p) /\ UNCHANGED bounds
           \/ Fault(p) /\ UNCHANGED invoked
           \/ \E q \in Request : Invoke(p, q)
    PROVE  RunsInv'
<1> DEFINE n == Cardinality({q \in Importer : pc[q] \in Before})
           m == Cardinality({q \in Importer : pc'[q] \in Before})
<1>1. /\ n \in Nat /\ m \in Nat
      /\ m = n + (IF pc'[p] \in Before THEN 1 ELSE 0) - (IF pc[p] \in Before THEN 1 ELSE 0)
  BY StageStep, CountStep DEF Inv, Types, MemoryOK
<1> HIDE DEF n, m
<1>2. runSeq + n <= invoked + 1 /\ runSeq \in Nat /\ invoked \in Nat
  BY PreparationAssumption DEF Inv, Types, RecordsOK, BoundsOK, RunId, RunsInv, n
<1>3. runSeq' + m <= invoked' + 1
  <2>1. ASSUME NEW q \in Request, Invoke(p, q) PROVE runSeq' + m <= invoked' + 1
    <3>1. invoked' = invoked + 1 /\ runSeq' = runSeq
      BY <2>1 DEF Invoke, Local, records
    <3> QED
      BY <1>1, <1>2, <3>1
  <2>2. CASE invoked' = invoked /\ (pc'[p] \in Before => pc[p] \in Before)
    <3>1. \/ runSeq' = runSeq
          \/ runSeq' = runSeq + 1 /\ pc[p] \in Before /\ pc'[p] \notin Before
      BY StageStep, RunsStep DEF RunsKept
    <3> QED
      BY <1>1, <1>2, <2>2, <3>1
  <2> QED
    BY <2>1, <2>2, StageStep DEF bounds
<1> QED
  BY <1>3, RunsStep, UnusedStep DEF RunsInv, m

LEMMA InvStep ==
    ASSUME Inv, [Next]_vars
    PROVE  Inv'
<1>1. Types'
  BY TypeStep
<1>2. CASE UNCHANGED vars \/ (Upstream /\ UNCHANGED bounds)
  <2>1. UNCHANGED <<records, session, pc, left, memory, invoked>>
    BY <1>2 DEF vars, Upstream, bounds
  <2>2. RunsInv'
    BY <2>1 DEF Inv, RunsInv, records
  <2>3. \A p \in Importer : StageInv(p)'
    BY <2>1 DEF Inv, StageInv, records, memory
  <2> QED
    BY <1>1, <2>2, <2>3 DEF Inv
<1>3. ASSUME NEW p \in Importer,
             \/ ImporterStep(p) /\ UNCHANGED bounds
             \/ Fault(p) /\ UNCHANGED invoked
             \/ \E q \in Request : Invoke(p, q)
      PROVE Inv'
  <2>1. RunsInv'
    BY <1>3, CountedStep
  <2>2. \A q \in Importer : StageInv(q)'
    BY <1>3, StageInvStep, OthersKeptStep, RunsStep, OthersStep
  <2> QED
    BY <1>1, <2>1, <2>2 DEF Inv
<1> QED
  BY <1>2, <1>3 DEF Next

LEMMA InvInit ==
    ASSUME Init
    PROVE  Inv
<1> DEFINE first == [date |-> Min(Date), issue |-> Min(Issue)]
           v     == Min(Revision)
<1>1. first \in Dumps /\ v \in Revision /\ Min(Issue) \in Issue
  BY LeastNatural, CatalogAssumption, PreparationAssumption DEF Dumps
<1>2. 1 \in RunId /\ RunId \subseteq Nat
  BY PreparationAssumption DEF RunId
<1>3. PICK bootstrapped \in BOOLEAN :
        /\ SiteInit
        /\ catalog = [e \in EntityType |-> IF bootstrapped THEN <<first>> ELSE <<>>]
        /\ run = [r \in RunId |->
              IF bootstrapped /\ r = 1
              THEN [status |-> "success", plan |-> [e \in EntityType |-> first], rev |-> v]
              ELSE NoRunRow]
        /\ runSeq = IF bootstrapped THEN 1 ELSE 0
        /\ imported = [r \in RunId |-> [e \in EntityType |->
              IF bootstrapped /\ r = 1 THEN Files!Whole(first.issue) ELSE None]]
        /\ completed = [e \in EntityType |-> [w \in Revision |->
              IF bootstrapped /\ w = v THEN 1 ELSE NoRun]]
        /\ checkpoint = [e \in EntityType |-> IF bootstrapped THEN 1 ELSE NoRun]
  BY DEF Init
<1> HIDE DEF v
<1>4. SiteOK
  <2>1. served \in [EntityType -> [Date -> Issue \cup {None}]]
    BY <1>1, <1>3 DEF SiteInit
  <2>2. document \in [Date -> [EntityType -> Issue \cup {None}]]
    BY <1>3, <2>1 DEF SiteInit
  <2>3. catalog \in [EntityType -> Seq(Dumps)]
    BY <1>1, <1>3
  <2> QED
    BY <2>1, <2>2, <2>3 DEF SiteOK
<1>5. RecordsOK
  <2>1. [e \in EntityType |-> first] \in Plans
    BY <1>1 DEF Plans
  <2>2. run \in [RunId -> RunRow]
    BY <1>1, <1>3, <2>1, NoPlanTypes DEF RunRow, NoRunRow
  <2>3. imported \in [RunId -> [EntityType -> Files!FileType \cup {None}]]
    BY <1>1, <1>3, FileKinds
  <2> QED
    BY <1>2, <1>3, <2>2, <2>3 DEF RecordsOK, Init
<1>6. FilesOK /\ BoundsOK
  BY FileKinds, PreparationAssumption DEF Init, FilesOK, BoundsOK
<1>7. MemoryOK
  BY NoPlanTypes DEF Init, MemoryOK, Stage
<1>8. RunsInv
  <2>1. {p \in Importer : pc[p] \in Before} = {}
    BY DEF Init, Before
  <2>2. Cardinality({p \in Importer : pc[p] \in Before}) = 0
    BY <2>1, FS_EmptySet
  <2>3. runSeq + 0 <= invoked + 1
    BY <1>3 DEF Init
  <2> QED
    BY <1>2, <1>3, <2>2, <2>3 DEF RunsInv, NoRunRow
<1>9. \A p \in Importer : StageInv(p)
  BY NoPlanTypes DEF Init, StageInv, Before, Imports
<1> QED
  BY <1>4, <1>5, <1>6, <1>7, <1>8, <1>9 DEF Inv, Types

\* Every table, file and importer's memory holds values of its type: a plan resolves to rows
\* of the catalog, which a refresh fills with documented issues only, and no more runs are
\* recorded than invocations were made.
THEOREM PreparationTypeCorrect == Spec => []PreparationTypeOK
<1>1. Init => Inv
  BY InvInit
<1>2. Inv /\ [Next]_vars => Inv'
  BY InvStep
<1>3. Inv => PreparationTypeOK
  BY DEF Inv, Types, SiteOK, RecordsOK, FilesOK, BoundsOK, MemoryOK, PreparationTypeOK, RunRow, Stage
<1> QED
  BY <1>1, <1>2, <1>3, PTL DEF Spec

-----------------------------------------------------------------------------
(***************************************************************************)
(* A failed import keeps its files.                                        *)
(***************************************************************************)
\* Who cleans up has its manifest imported by a successful run.
CleaningInv == \A p \in Importer : pc[p] = "cleanup" => Repeated(p) # {}

LEMMA CleaningStep ==
    ASSUME Inv, CleaningInv, [Next]_vars
    PROVE  CleaningInv'
<1> USE DEF Inv, Types, RecordsOK, MemoryOK
<1>1. CASE UNCHANGED vars \/ (Upstream /\ UNCHANGED bounds)
  BY <1>1 DEF vars, Upstream, CleaningInv, Repeated, records, memory
<1>2. ASSUME NEW p \in Importer,
             ImporterStep(p) \/ Fault(p) \/ \E q \in Request : Invoke(p, q)
      PROVE CleaningInv'
  <2>1. \A r \in RunId : run[r].status = "success" =>
           run'[r].status = "success" /\ run'[r].plan = run[r].plan
    <3>1. \A r \in RunId : run[r].status = "success" => r <= runSeq
      BY PreparationAssumption DEF RunsInv, RunId
    <3> QED
      BY <1>2, <3>1, RunsStep DEF RunsKept
  <2>2. \A q \in Importer : plan'[q] = plan[q] /\ Repeated(q) # {} => Repeated(q)' # {}
    BY <2>1 DEF Repeated
  <2>3. ASSUME NEW q \in Importer \ {p}, pc'[q] = "cleanup" PROVE Repeated(q)' # {}
    BY <1>2, <2>2, <2>3, OthersKeptStep DEF OthersKept, CleaningInv
  <2>4. ASSUME pc'[p] = "cleanup" PROVE Repeated(p)' # {}
    <3>1. CASE Skip(p)
      <4>1. Repeated(p) # {} /\ plan'[p] = plan[p]
        BY <2>4, <3>1 DEF Skip, Satisfied, Leave, Goto, memory
      <4> QED
        BY <2>2, <4>1
    <3>2. CASE CompleteSuccess(p)
      <4>1. cur[p] \in RunId /\ run[cur[p]].plan = plan[p]
        BY <3>2, PreparationAssumption DEF CompleteSuccess, StageInv, Imports, RunId
      <4>2. run'[cur[p]].status = "success" /\ run'[cur[p]].plan = plan[p]
        BY <3>2, <4>1 DEF CompleteSuccess, RunRow
      <4>3. plan'[p] = plan[p]
        BY <2>4, <3>2 DEF CompleteSuccess, Leave, Goto, memory
      <4> QED
        BY <4>1, <4>2, <4>3 DEF Repeated
    <3>3. CASE ~Skip(p) /\ ~CompleteSuccess(p)
      <4>1. pc[p] = "cleanup" /\ plan'[p] = plan[p]
        <5>1. pc'[p] \notin {"idle", "failing", "refresh", "insert", "resolve", "preflight",
                             "prepare", "recheck", "download", "transfer", "steps", "reading"}
          BY <2>4
        <5>2. \A e \in left[p] : ~StartDownload(p, e) /\ ~OpenFile(p, e)
          BY <5>1 DEF StartDownload, OpenFile, Abort, Goto
        <5>3. CASE Fault(p)
          <6>1. ~Leave(p) /\ ~FailImport(p)
            BY <5>1 DEF FailImport, Abort, Leave, Goto
          <6>2. UNCHANGED <<pc, plan>>
            BY <5>3, <6>1 DEF Fault, LoseSession, memory
          <6> QED
            BY <2>4, <6>2
        <5>4. ~\E q \in Request : Invoke(p, q)
          BY <5>1 DEF Invoke, Goto
        <5>5. /\ ~ReadSite(p) /\ ~InsertCatalog(p) /\ ~Resolve(p) /\ ~Preflight(p) /\ ~Refuse(p)
              /\ ~Admit(p) /\ ~Recheck(p) /\ ~EndDownload(p) /\ ~StartSteps(p) /\ ~ImportEntity(p)
              /\ ~CompleteFailure(p) /\ ~CompleteError(p) /\ ~Crash(p) /\ ~RefreshFails(p)
          BY <5>1
             DEF ReadSite, InsertCatalog, Resolve, Preflight, Refuse, Admit, Recheck, EndDownload,
                 StartSteps, ImportEntity, CompleteFailure, CompleteError, Crash, RefreshFails,
                 Abort, Leave, Goto
        <5>6. CASE \E e \in left[p] : FileReady(p, e)
          BY <2>4, <5>6 DEF FileReady, memory
        <5>7. CASE Cleanup(p)
          BY <2>4, <5>1, <5>7 DEF Cleanup, CleanupStages, Leave, Goto, memory
        <5> QED
          BY <1>2, <3>3, <5>2, <5>3, <5>4, <5>5, <5>6, <5>7 DEF ImporterStep
      <4> QED
        BY <2>2, <4>1 DEF CleaningInv
    <3> QED
      BY <3>1, <3>2, <3>3
  <2> QED
    BY <2>3, <2>4 DEF CleaningInv
<1> QED
  BY <1>1, <1>2 DEF Next

\* Only downloads and clean-up touch the files.
LEMMA FileSteps ==
    ASSUME NEW p \in Importer,
           ImporterStep(p) \/ Fault(p) \/ \E q \in Request : Invoke(p, q)
    PROVE  \/ \E e \in left[p] : StartDownload(p, e)
           \/ EndDownload(p)
           \/ Cleanup(p)
           \/ UNCHANGED files
<1>1. ASSUME NEW q \in Request, Invoke(p, q) PROVE UNCHANGED files
  BY <1>1 DEF Invoke, Local, files
<1>2. CASE Fault(p)
  BY <1>2 DEF Fault
<1>3. ASSUME NEW e \in left[p], FileReady(p, e) \/ OpenFile(p, e) PROVE UNCHANGED files
  BY <1>3 DEF FileReady, OpenFile, Local, files
<1>4. ASSUME \/ ReadSite(p) \/ InsertCatalog(p) \/ RefreshFails(p) \/ Resolve(p)
             \/ Preflight(p) \/ Refuse(p) \/ Skip(p) \/ Admit(p) \/ Recheck(p)
             \/ StartSteps(p) \/ ImportEntity(p) \/ CompleteSuccess(p) \/ CompleteFailure(p)
             \/ CompleteError(p) \/ Crash(p)
      PROVE UNCHANGED files
  BY <1>4 DEF ReadSite, InsertCatalog, RefreshFails, Resolve, Preflight, Refuse, Skip, Admit,
              Recheck, StartSteps, ImportEntity, CompleteSuccess, CompleteFailure, CompleteError,
              Crash, Local, files
<1> QED
  BY <1>1, <1>2, <1>3, <1>4 DEF ImporterStep

\* A whole file disappears only when an invocation that selected it downloads it anew, or
\* after its very manifest was imported and recorded as successful.
THEOREM CleanupSafe == Spec => CleanupFollowsSuccess
<1> DEFINE Kept ==
      \A x \in DOMAIN disk :
          disk[x].kind = "whole" /\ disk'[x] # disk[x] =>
              \E p \in Importer :
                  /\ NamedBy(p, x)
                  /\ \/ pc[p] = "download" /\ disk[x] # Files!Whole(Expected(p, x[1]))
                     \/ pc[p] = "transfer" /\ incoming[p][1] = x[1]
                     \/ Repeated(p) # {}
<1>1. Inv /\ CleaningInv /\ [Next]_vars => [Kept]_vars
  <2> SUFFICES ASSUME Inv, CleaningInv, [Next]_vars,
                      NEW x \in DOMAIN disk, disk[x].kind = "whole", disk'[x] # disk[x]
               PROVE \E p \in Importer :
                        /\ NamedBy(p, x)
                        /\ \/ pc[p] = "download" /\ disk[x] # Files!Whole(Expected(p, x[1]))
                           \/ pc[p] = "transfer" /\ incoming[p][1] = x[1]
                           \/ Repeated(p) # {}
    OBVIOUS
  <2>1. PICK p \in Importer :
           \/ \E e \in left[p] : StartDownload(p, e)
           \/ EndDownload(p)
           \/ Cleanup(p)
    <3>1. ~UNCHANGED vars /\ ~Upstream
      BY DEF Upstream, vars, files
    <3> QED
      BY <3>1, FileSteps DEF Next, files
  <2>2. \A e \in left[p] : e \in DOMAIN plan[p] /\ FileOf(p, e)[1] = e
    BY DEF Inv, StageInv, FileOf
  <2>3. ASSUME NEW e \in left[p], x = FileOf(p, e) PROVE NamedBy(p, x) /\ x[1] = e
    BY <2>2, <2>3 DEF NamedBy
  <2>4. ASSUME NEW e \in left[p], StartDownload(p, e)
        PROVE NamedBy(p, x) /\ pc[p] = "download" /\ disk[x] # Files!Whole(Expected(p, x[1]))
    <3>1. x = FileOf(p, e)
      BY <2>4 DEF StartDownload, Files!BeginDownload
    <3> QED
      BY <2>3, <2>4, <3>1 DEF StartDownload, Files!Present
  <2>5. CASE EndDownload(p)
    <3>1. incoming[p][1] \in left[p] /\ pc[p] = "transfer"
      BY <2>5 DEF EndDownload, Inv, StageInv
    <3>2. x = FileOf(p, incoming[p][1])
      BY <2>5 DEF EndDownload, Files!DownloadVerified, Files!DownloadRejected,
                  Files!DownloadFailed, Files!Delete
    <3> QED
      BY <2>3, <3>1, <3>2
  <2>6. CASE Cleanup(p)
    <3>1. PICK e \in left[p] : x = FileOf(p, e)
      BY <2>6 DEF Cleanup, Files!Delete
    <3>2. Repeated(p) # {}
      BY <2>6 DEF Cleanup, CleanupStages, CleaningInv
    <3> QED
      BY <2>3, <3>1, <3>2
  <2> QED
    BY <2>1, <2>4, <2>5, <2>6
<1>2. CleanupFollowsSuccess <=> [][Kept]_vars
  BY DEF CleanupFollowsSuccess
<1>3. Init => Inv /\ CleaningInv
  BY InvInit DEF Init, CleaningInv
<1>4. Inv /\ CleaningInv /\ [Next]_vars => Inv' /\ CleaningInv'
  BY InvStep, CleaningStep
<1> QED
  BY <1>1, <1>2, <1>3, <1>4, PTL DEF Spec

-----------------------------------------------------------------------------
(***************************************************************************)
(* Who owns an entity: locks, sessions and running runs.                   *)
(***************************************************************************)
HeldLocksAreLive == \A e \in EntityType : lockHolder[e] # None => session[lockHolder[e]]

\* An importer whose session lives holds the locks of its plan, and its run is running.
LiveOwns ==
    \A p \in Importer : Live(p) =>
        /\ run[cur[p]].status = "running"
        /\ \A e \in LockedTypes(p) : lockHolder[e] = p

RunningDisjoint ==
    \A r, s \in RunId :
        run[r].status = "running" /\ run[s].status = "running" /\ r # s =>
            DOMAIN run[r].plan \cap DOMAIN run[s].plan = {}

RunsNotShared ==
    \A p, q \in Importer :
        p # q /\ pc[p] \in Imports /\ pc[q] \in Imports => cur[p] # cur[q]

Owners == HeldLocksAreLive /\ LiveOwns /\ RunningDisjoint /\ RunsNotShared

\* Sessions and locks are taken by admissions and given up for good.
LEMMA SessionSteps ==
    ASSUME NEW p \in Importer,
           ImporterStep(p) \/ Fault(p) \/ \E q \in Request : Invoke(p, q)
    PROVE  UNCHANGED <<lockHolder, session>> \/ Release(p) \/ Admit(p)
<1>1. ASSUME NEW q \in Request, Invoke(p, q) PROVE UNCHANGED <<lockHolder, session>>
  BY <1>1 DEF Invoke, Local
<1>2. CASE Leave(p)
  BY <1>2 DEF Leave
<1>3. CASE Fault(p)
  BY <1>2, <1>3 DEF Fault, LoseSession, FailImport
<1>4. ASSUME NEW e \in left[p], FileReady(p, e) \/ StartDownload(p, e) \/ OpenFile(p, e)
      PROVE UNCHANGED <<lockHolder, session>>
  BY <1>4 DEF FileReady, StartDownload, OpenFile, Local
<1>5. CASE ImporterStep(p) /\ ~Admit(p)
  BY <1>2, <1>4, <1>5
     DEF ImporterStep, ReadSite, InsertCatalog, RefreshFails, Resolve, Preflight, Refuse, Skip,
         Recheck, EndDownload, StartSteps, ImportEntity, CompleteSuccess, CompleteFailure,
         CompleteError, Cleanup, Crash, Local
<1> QED
  BY <1>1, <1>3, <1>5

\* An importer comes to its import by admission, and stays with its plan and its run.
LEMMA ImportStage ==
    ASSUME Inv, NEW p \in Importer, pc'[p] \in Imports,
           ImporterStep(p) \/ Fault(p) \/ \E q \in Request : Invoke(p, q)
    PROVE  \/ Admit(p)
           \/ /\ pc[p] \in Imports
              /\ cur'[p] = cur[p] /\ plan'[p] = plan[p] /\ req'[p] = req[p]
<1> USE DEF Inv, Types, MemoryOK
<1>1. pc'[p] \notin Before \cup {"idle", "cleanup"}
  BY DEF Imports, Before
<1>2. ~Leave(p)
  BY <1>1 DEF Leave, Goto
<1>3. ~\E q \in Request : Invoke(p, q)
  BY <1>1 DEF Invoke, Goto, Before
<1>4. CASE Fault(p)
  BY <1>2, <1>4 DEF Fault, LoseSession, FailImport, Abort, memory
<1>5. ~ReadSite(p) /\ ~InsertCatalog(p) /\ ~RefreshFails(p) /\ ~Resolve(p) /\ ~Preflight(p)
        /\ ~Refuse(p) /\ ~Skip(p) /\ ~CompleteSuccess(p) /\ ~CompleteFailure(p)
        /\ ~CompleteError(p) /\ ~Crash(p)
  BY <1>1, <1>2 DEF ReadSite, InsertCatalog, RefreshFails, Resolve, Preflight, Refuse, Skip,
                    CompleteSuccess, CompleteFailure, CompleteError, Crash, Goto, Before
<1>6. ~Cleanup(p)
  BY <1>1, <1>2 DEF Cleanup, CleanupStages
<1>7. ASSUME NEW e \in left[p], FileReady(p, e) \/ StartDownload(p, e) \/ OpenFile(p, e)
      PROVE pc[p] \in Imports /\ cur'[p] = cur[p] /\ plan'[p] = plan[p] /\ req'[p] = req[p]
  BY <1>7 DEF FileReady, StartDownload, OpenFile, Abort, memory, Imports
<1>8. ASSUME Recheck(p) \/ EndDownload(p) \/ StartSteps(p) \/ ImportEntity(p)
      PROVE pc[p] \in Imports /\ cur'[p] = cur[p] /\ plan'[p] = plan[p] /\ req'[p] = req[p]
  BY <1>8 DEF Recheck, EndDownload, StartSteps, ImportEntity, Abort, memory, Imports
<1> QED
  BY <1>3, <1>4, <1>5, <1>6, <1>7, <1>8 DEF ImporterStep

\* A run comes to be running by admission only, and the plans of running runs stay.
LEMMA RunningStep ==
    ASSUME Inv, NEW p \in Importer, NEW r \in RunId, run'[r].status = "running",
           ImporterStep(p) \/ Fault(p) \/ \E q \in Request : Invoke(p, q)
    PROVE  \/ Admit(p) /\ r = runSeq + 1 /\ run'[r].plan = plan[p]
           \/ /\ run[r].status = "running" /\ run'[r].plan = run[r].plan /\ r <= runSeq
              /\ Skip(p) \/ Admit(p) => ~Overlaps(r, p)
<1> USE DEF Inv, Types, RecordsOK
<1>1. runSeq \in Nat /\ r \in Nat
  BY PreparationAssumption DEF RunId
<1>2. run[r].status = "running" => r <= runSeq /\ run'[r].plan = run[r].plan
  BY <1>1, RunsStep DEF RunsInv, RunsKept
<1>3. CASE Admit(p)
  <2>1. runSeq + 1 \in RunId /\ Marked(p) \in [RunId -> RunRow]
    BY <1>3, PreparingFacts DEF Admit, MayPrepare
  <2>2. r = runSeq + 1 => run'[r].plan = plan[p]
    BY <1>3, <2>1 DEF Admit
  <2>3. r # runSeq + 1 => run'[r] = Marked(p)[r]
    BY <1>3, <2>1 DEF Admit
  <2>4. r # runSeq + 1 => run[r].status = "running" /\ ~Overlaps(r, p)
    BY <2>3 DEF Marked, Abandoned, RunRow
  <2> QED
    BY <1>2, <1>3, <2>2, <2>4
<1>4. CASE Skip(p)
  <2>1. runSeq + 1 \in RunId /\ Marked(p) \in [RunId -> RunRow]
    BY <1>4, PreparingFacts DEF Skip, MayPrepare
  <2>2. run'[r] = Marked(p)[r]
    <3>1. CASE Exact(p)
      BY <1>4, <3>1 DEF Skip
    <3>2. CASE ~Exact(p)
      BY <1>4, <2>1, <3>2 DEF Skip, Consolidate
    <3> QED
      BY <3>1, <3>2
  <2>3. run[r].status = "running" /\ ~Overlaps(r, p)
    BY <2>2 DEF Marked, Abandoned, RunRow
  <2> QED
    BY <1>2, <2>3
<1>5. CASE ~Skip(p) /\ ~Admit(p)
  <2>1. run[r].status = "running"
    BY <1>5, RunSteps DEF CompleteSuccess, CompleteFailure, RunRow
  <2> QED
    BY <1>2, <1>5, <2>1
<1> QED
  BY <1>3, <1>4, <1>5

\* What an importer abandons belongs to nobody whose session lives.
LEMMA OwnerStep ==
    ASSUME Inv, Owners, NEW p \in Importer,
           ImporterStep(p) \/ Fault(p) \/ \E q \in Request : Invoke(p, q)
    PROVE  Owners'
<1> USE DEF Inv, Types
<1>o. OthersKept(p)
  BY OthersKeptStep
<1>s. runSeq \in Nat /\ \A q \in Importer : pc[q] \in Imports =>
         /\ cur[q] \in RunId /\ cur[q] <= runSeq /\ run[cur[q]].plan = plan[q]
         /\ DOMAIN plan[q] \subseteq LockedTypes(q) /\ DOMAIN plan[q] \subseteq EntityType
         /\ LockedTypes(q) \subseteq EntityType
  <2>1. runSeq \in Nat /\ 1..runSeq \subseteq RunId
    BY PreparationAssumption DEF RecordsOK, RunId
  <2>2. ASSUME NEW q \in Importer PROVE DOMAIN plan[q] \subseteq EntityType
    BY PlanFacts DEF MemoryOK
  <2>3. \A q \in Importer : DOMAIN plan[q] \subseteq LockedTypes(q) /\ LockedTypes(q) \subseteq EntityType
    BY <2>2, RequirementAssumption DEF LockedTypes
  <2> QED
    BY <2>1, <2>2, <2>3 DEF StageInv
<1>m. Skip(p) \/ Admit(p) => pc[p] = "prepare" /\ \A e \in LockedTypes(p) : lockHolder[e] = None
  BY DEF Skip, Admit, MayPrepare
<1>1. HeldLocksAreLive'
  <2>1. \A e \in EntityType : lockHolder'[e] = p => session'[p]
    <3>1. CASE UNCHANGED <<lockHolder, session>>
      BY <3>1, PreparationAssumption DEF Owners, HeldLocksAreLive
    <3>2. CASE Release(p)
      BY <3>2, PreparationAssumption DEF Release, LocksWithout
    <3>3. CASE Admit(p)
      BY <3>3 DEF Admit, MemoryOK
    <3> QED
      BY <3>1, <3>2, <3>3, SessionSteps
  <2>2. \A e \in EntityType : lockHolder'[e] \in Importer \cup {None}
    BY ImporterTypes DEF MemoryOK
  <2> QED
    BY <1>o, <2>1, <2>2, PreparationAssumption DEF OthersKept, Owners, HeldLocksAreLive
<1>2. RunsNotShared'
  <2>1. \A q \in Importer \ {p} : pc'[q] \in Imports /\ pc'[p] \in Imports => cur'[q] # cur'[p]
    <3> SUFFICES ASSUME NEW q \in Importer \ {p}, pc'[q] \in Imports, pc'[p] \in Imports
                 PROVE cur'[q] # cur'[p]
      OBVIOUS
    <3>1. pc[q] \in Imports /\ cur'[q] = cur[q]
      BY <1>o DEF OthersKept
    <3>2. CASE Admit(p)
      <4>1. cur'[p] = runSeq + 1
        BY <3>2 DEF Admit, MemoryOK
      <4> QED
        BY <1>s, <3>1, <4>1 DEF RunId
    <3>3. CASE pc[p] \in Imports /\ cur'[p] = cur[p]
      BY <3>1, <3>3 DEF Owners, RunsNotShared
    <3> QED
      BY <3>2, <3>3, ImportStage
  <2> QED
    BY <1>o, <2>1 DEF OthersKept, Owners, RunsNotShared
<1>3. RunningDisjoint'
  <2> SUFFICES ASSUME NEW r \in RunId, NEW s \in RunId, r # s,
                      run'[r].status = "running", run'[s].status = "running"
               PROVE DOMAIN run'[r].plan \cap DOMAIN run'[s].plan = {}
    BY DEF RunningDisjoint
  <2>1. CASE /\ run[r].status = "running" /\ run'[r].plan = run[r].plan
             /\ run[s].status = "running" /\ run'[s].plan = run[s].plan
    BY <2>1 DEF Owners, RunningDisjoint
  <2>2. CASE Admit(p)
    BY <2>1, <2>2, RunningStep DEF Overlaps
  <2> QED
    BY <2>1, <2>2, RunningStep
<1>4. LiveOwns'
  <2>1. ASSUME NEW q \in Importer \ {p}, Live(q)'
        PROVE /\ run'[cur'[q]].status = "running"
              /\ \A e \in LockedTypes(q)' : lockHolder'[e] = q
    <3>1. Live(q) /\ cur'[q] = cur[q] /\ plan'[q] = plan[q]
      BY <1>o, <2>1 DEF OthersKept, Live
    <3>2. /\ run[cur[q]].status = "running" /\ pc[q] \in Imports
          /\ \A e \in LockedTypes(q) : lockHolder[e] = q
      BY <3>1 DEF Owners, LiveOwns, Live
    <3>3. LockedTypes(q)' = LockedTypes(q)
      BY <3>1 DEF LockedTypes
    <3>4. \A e \in LockedTypes(q) : lockHolder'[e] = q
      BY <1>o, <1>s, <3>2 DEF OthersKept
    <3>5. Skip(p) \/ Admit(p) => ~Overlaps(cur[q], p)
      <4> SUFFICES ASSUME Skip(p) \/ Admit(p), NEW e \in DOMAIN plan[q], e \in DOMAIN plan[p]
                   PROVE FALSE
        BY <1>s, <3>2 DEF Overlaps
      <4>1. lockHolder[e] = None
        BY <1>m, PreparingFacts
      <4>2. lockHolder[e] = q
        BY <1>s, <3>2
      <4> QED
        BY <4>1, <4>2, PreparationAssumption
    <3>6. run'[cur[q]].status = "running"
      <4>1. CASE Skip(p) \/ Admit(p)
        <5>1. /\ cur[q] # runSeq + 1 /\ cur[q] \in RunId
          BY <1>s, <3>2 DEF RunId
        <5>2. run'[cur[q]] = Marked(p)[cur[q]]
          <6>1. Marked(p) \in [RunId -> RunRow]
            BY <1>m, <4>1, PreparingFacts
          <6> QED
            BY <4>1, <5>1, <6>1 DEF Skip, Admit, Consolidate
        <5>3. Marked(p)[cur[q]] = run[cur[q]]
          BY <3>5, <4>1, <5>1 DEF Marked, Abandoned
        <5> QED
          BY <3>2, <5>2, <5>3
      <4>2. CASE CompleteSuccess(p) \/ CompleteFailure(p)
        <5>1. cur[p] # cur[q]
          BY <3>2, <4>2 DEF CompleteSuccess, CompleteFailure, Imports, Owners, RunsNotShared
        <5> QED
          BY <3>2, <4>2, <5>1, <1>s DEF CompleteSuccess, CompleteFailure, RecordsOK
      <4> QED
        BY <3>2, <4>1, <4>2, RunSteps
    <3> QED
      BY <3>1, <3>3, <3>4, <3>6
  <2>2. ASSUME Live(p)'
        PROVE /\ run'[cur'[p]].status = "running"
              /\ \A e \in LockedTypes(p)' : lockHolder'[e] = p
    <3>1. CASE Admit(p)
      <4>1. runSeq + 1 \in RunId /\ LockedTypes(p) \subseteq EntityType
               /\ Marked(p) \in [RunId -> RunRow]
        BY <1>m, <3>1, PreparingFacts
      <4>2. run'[cur'[p]].status = "running"
        BY <3>1, <4>1 DEF Admit, MemoryOK
      <4>3. LockedTypes(p)' = LockedTypes(p)
        BY <3>1 DEF Admit, LockedTypes
      <4> QED
        BY <3>1, <4>1, <4>2, <4>3 DEF Admit
    <3>2. CASE ~Admit(p)
      <4>1. ~Release(p) /\ session'[p]
        BY <2>2 DEF Live, Release, MemoryOK
      <4>2. UNCHANGED <<lockHolder, session>>
        BY <3>2, <4>1, SessionSteps
      <4>3. pc[p] \in Imports /\ cur'[p] = cur[p] /\ plan'[p] = plan[p]
        BY <2>2, <3>2, ImportStage DEF Live
      <4>4. Live(p)
        BY <4>1, <4>2, <4>3 DEF Live
      <4>5. UNCHANGED run
        <5>1. ~Skip(p)
          BY <1>m, <4>3 DEF Imports
        <5>2. ~CompleteSuccess(p) /\ ~CompleteFailure(p)
          BY <4>1 DEF CompleteSuccess, CompleteFailure, Leave
        <5> QED
          BY <3>2, <5>1, <5>2, RunSteps
      <4> QED
        BY <4>2, <4>3, <4>4, <4>5 DEF Owners, LiveOwns, LockedTypes
    <3> QED
      BY <3>1, <3>2
  <2> QED
    BY <2>1, <2>2 DEF LiveOwns
<1> QED
  BY <1>1, <1>2, <1>3, <1>4 DEF Owners

LEMMA OwnersInit ==
    ASSUME Init
    PROVE  Owners
<1>1. \A r \in RunId : run[r].status # "running"
  BY DEF Init, NoRunRow
<1> QED
  BY <1>1 DEF Init, Owners, HeldLocksAreLive, LiveOwns, RunningDisjoint, RunsNotShared, Live, Imports

LEMMA OwnersNext ==
    ASSUME Inv, Owners, [Next]_vars
    PROVE  Owners'
<1>1. CASE UNCHANGED vars \/ Upstream
  BY <1>1 DEF vars, Upstream, records, memory, Owners, HeldLocksAreLive, LiveOwns, RunningDisjoint,
              RunsNotShared, Live, LockedTypes
<1> QED
  BY <1>1, OwnerStep DEF Next

-----------------------------------------------------------------------------
(***************************************************************************)
(* What is imported.                                                       *)
(***************************************************************************)
\* Under the name is the file the plan pins or none, or somebody without locks went for it.
Kept(x, c) == disk[x] \in {Files!Whole(c), Files!Absent} \/ x \in unheld

\* The files an importer has checked keep their names while its run is running.
CheckedInv(p) ==
    pc[p] \in {"download", "transfer", "steps", "reading"} /\ run[cur[p]].status = "running" =>
        \A e \in DOMAIN plan[p] :
            (pc[p] \in {"download", "transfer"} => e \notin left[p])
                => Kept(FileOf(p, e), Expected(p, e))

\* What it reads is the pinned file.
ReadInv(p) ==
    pc[p] = "reading" /\ run[cur[p]].status = "running" =>
        \/ reading[p][2] = Files!Whole(Expected(p, reading[p][1]))
        \/ FileOf(p, reading[p][1]) \in unheld

PinnedInv == CompletedFromPinnedFile /\ \A p \in Importer : CheckedInv(p) /\ ReadInv(p)

\* A step disturbs a kept file by a download under the lock session only.
LEMMA KeptStep ==
    ASSUME Inv, NEW q \in Importer,
           ImporterStep(q) \/ Fault(q) \/ \E w \in Request : Invoke(q, w),
           NEW x \in EntityType \X Date, NEW c, Kept(x, c)
    PROVE  \/ Kept(x, c)'
           \/ pc[q] = "download" /\ session[q] /\ \E e \in left[q] : x = FileOf(q, e)
<1> USE DEF Inv, Types, FilesOK
<1>1. CASE UNCHANGED files
  BY <1>1 DEF Kept, files
<1>2. ASSUME NEW e \in left[q], StartDownload(q, e)
      PROVE \/ Kept(x, c)'
            \/ pc[q] = "download" /\ session[q] /\ x = FileOf(q, e)
  <2>1. x # FileOf(q, e) => disk'[x] = disk[x]
    BY <1>2 DEF StartDownload, Files!BeginDownload
  <2>2. unheld' = IF session[q] THEN unheld ELSE unheld \cup {FileOf(q, e)}
    BY <1>2 DEF StartDownload
  <2>3. pc[q] = "download"
    BY <1>2 DEF StartDownload
  <2> QED
    BY <2>1, <2>2, <2>3 DEF Kept
<1>3. CASE EndDownload(q)
  <2> DEFINE y == FileOf(q, incoming[q][1])
             w == Expected(q, incoming[q][1])
  <2>1. \/ Files!DownloadVerified(q, y, incoming[q][2], w)
        \/ disk' = [disk EXCEPT ![y] = Files!Absent]
    BY <1>3 DEF EndDownload, Files!DownloadRejected, Files!DownloadFailed, Files!Delete
  <2>2. unheld' = unheld
    BY <1>3 DEF EndDownload
  <2>3. x \in unheld \/ disk'[x] \in {disk[x], Files!Absent}
    <3>1. CASE disk' = [disk EXCEPT ![y] = Files!Absent]
      BY <3>1
    <3>2. CASE Files!DownloadVerified(q, y, incoming[q][2], w) /\ x # y
      BY <3>2 DEF Files!DownloadVerified
    <3>3. CASE Files!DownloadVerified(q, y, incoming[q][2], w) /\ x = y /\ x \notin unheld
      <4>1. disk[y] # Files!Partial(q)
        BY <3>3 DEF Kept, Files!Whole, Files!Partial, Files!Absent
      <4>2. disk'[y] = disk[y]
        BY <3>3, <4>1 DEF Files!DownloadVerified, Files!Transferred
      <4> QED
        BY <3>3, <4>2
    <3> QED
      BY <2>1, <3>1, <3>2, <3>3
  <2> QED
    BY <2>2, <2>3 DEF Kept
<1>4. CASE Cleanup(q)
  <2>1. unheld' = unheld /\ disk'[x] \in {disk[x], Files!Absent}
    BY <1>4 DEF Cleanup, Files!Delete
  <2> QED
    BY <2>1 DEF Kept
<1> QED
  BY <1>1, <1>2, <1>3, <1>4, FileSteps

\* A file once lost to an importer without locks stays so marked.
LEMMA UnheldGrows ==
    ASSUME NEW q \in Importer, ImporterStep(q) \/ Fault(q) \/ \E w \in Request : Invoke(q, w)
    PROVE  unheld \subseteq unheld'
<1>1. ASSUME NEW e \in left[q], StartDownload(q, e) PROVE unheld \subseteq unheld'
  BY <1>1 DEF StartDownload
<1> QED
  BY <1>1, FileSteps DEF EndDownload, Cleanup, files

\* From its files on, an importer goes one step after the other.
LEMMA FileStage ==
    ASSUME Inv, NEW p \in Importer,
           ImporterStep(p) \/ Fault(p) \/ \E q \in Request : Invoke(p, q),
           pc'[p] \in {"download", "transfer", "steps", "reading"}
    PROVE  \/ Recheck(p)
           \/ \E e \in left[p] : FileReady(p, e) \/ StartDownload(p, e) \/ OpenFile(p, e)
           \/ EndDownload(p) \/ StartSteps(p) \/ ImportEntity(p)
           \/ UNCHANGED <<pc, left, memory, files, records>>
<1>1. pc'[p] \notin {"idle", "refresh", "insert", "resolve", "preflight", "prepare", "recheck",
                     "failing", "cleanup"}
  OBVIOUS
<1>2. pc'[p] \in Imports /\ pc[p] \in Stage /\ pc \in [Importer -> Stage]
  BY DEF Imports, Inv, Types, MemoryOK
<1>3. ~Leave(p) /\ ~Abort(p)
  BY <1>1, <1>2 DEF Leave, Abort, Goto
<1>4. ~\E q \in Request : Invoke(p, q)
  BY <1>1, <1>2 DEF Invoke, Goto
<1>5. CASE Fault(p)
  BY <1>3, <1>5 DEF Fault, LoseSession, FailImport
<1>6. ~ReadSite(p) /\ ~InsertCatalog(p) /\ ~RefreshFails(p) /\ ~Resolve(p) /\ ~Preflight(p)
        /\ ~Refuse(p) /\ ~Skip(p) /\ ~Admit(p) /\ ~CompleteFailure(p) /\ ~CompleteError(p)
        /\ ~CompleteSuccess(p) /\ ~Crash(p)
  BY <1>1, <1>2, <1>3
     DEF ReadSite, InsertCatalog, RefreshFails, Resolve, Preflight, Refuse, Skip, Admit,
         CompleteSuccess, CompleteFailure, CompleteError, Crash, Goto
<1>7. ~Cleanup(p)
  BY <1>1, <1>3 DEF Cleanup, CleanupStages
<1> QED
  BY <1>4, <1>5, <1>6, <1>7 DEF ImporterStep

\* The files of another importer: nobody who has its locks can select one of them.
LEMMA CheckedOther ==
    ASSUME Inv, Owners, NEW q \in Importer, NEW p \in Importer \ {q}, CheckedInv(p), ReadInv(p),
           ImporterStep(q) \/ Fault(q) \/ \E w \in Request : Invoke(q, w)
    PROVE  CheckedInv(p)' /\ ReadInv(p)'
<1> USE DEF Inv, Types
<1>o. OthersKept(q)
  BY OthersKeptStep
<1>u. unheld \subseteq unheld'
  BY UnheldGrows
<1>r. pc[p] \in Imports /\ run'[cur[p]].status = "running" => run[cur[p]].status = "running"
  <2>1. pc[p] \in Imports => cur[p] \in RunId /\ cur[p] # runSeq + 1
    BY PreparationAssumption DEF StageInv, RunId, RecordsOK
  <2> QED
    BY <2>1, RunningStep
<1>1. ASSUME pc'[p] \in {"download", "transfer", "steps", "reading"},
             run'[cur'[p]].status = "running",
             NEW e \in DOMAIN plan'[p], pc'[p] \in {"download", "transfer"} => e \notin left'[p]
      PROVE Kept(FileOf(p, e), Expected(p, e))'
  <2>1. /\ pc'[p] = pc[p] /\ cur'[p] = cur[p] /\ plan'[p] = plan[p] /\ left'[p] = left[p]
        /\ pc[p] \in Imports
    BY <1>o, <1>1 DEF OthersKept, Imports
  <2>2. FileOf(p, e)' = FileOf(p, e) /\ Expected(p, e)' = Expected(p, e)
    BY <2>1 DEF FileOf, Expected
  <2>3. Kept(FileOf(p, e), Expected(p, e)) /\ run[cur[p]].status = "running"
    BY <1>1, <1>r, <2>1 DEF CheckedInv
  <2>4. FileOf(p, e) \in EntityType \X Date
    BY <1>1, <2>1, PlanFacts DEF FileOf, MemoryOK
  <2>5. ASSUME pc[q] = "download", session[q], NEW f \in left[q], FileOf(p, e) = FileOf(q, f)
        PROVE FALSE
    <3>1. e = f
      BY <2>5 DEF FileOf
    <3>2. run[cur[q]].status = "running" /\ cur[q] # cur[p]
      BY <2>1, <2>5 DEF Owners, LiveOwns, RunsNotShared, Live, Imports
    <3>3. /\ cur[p] \in RunId /\ cur[q] \in RunId
          /\ run[cur[p]].plan = plan[p] /\ run[cur[q]].plan = plan[q]
      BY <2>1, <2>5, PreparationAssumption DEF StageInv, Imports, RecordsOK, RunId
    <3>4. e \in DOMAIN plan[p] /\ f \in DOMAIN plan[q]
      BY <1>1, <2>1, <2>5 DEF StageInv
    <3> QED
      BY <2>3, <3>1, <3>2, <3>3, <3>4 DEF Owners, RunningDisjoint
  <2> QED
    BY <2>2, <2>3, <2>4, <2>5, KeptStep
<1>2. CheckedInv(p)'
  BY <1>1 DEF CheckedInv
<1>3. ReadInv(p)'
  <2> SUFFICES ASSUME pc'[p] = "reading", run'[cur'[p]].status = "running"
               PROVE \/ reading'[p][2] = Files!Whole(Expected(p, reading[p][1]))'
                     \/ FileOf(p, reading[p][1])' \in unheld'
    BY DEF ReadInv
  <2>1. /\ pc[p] = "reading" /\ cur'[p] = cur[p] /\ plan'[p] = plan[p]
        /\ reading'[p] = reading[p]
    BY <1>o DEF OthersKept
  <2>2. run[cur[p]].status = "running"
    BY <1>r, <2>1 DEF Imports
  <2>3. /\ Files!Whole(Expected(p, reading[p][1]))' = Files!Whole(Expected(p, reading[p][1]))
        /\ FileOf(p, reading[p][1])' = FileOf(p, reading[p][1])
    BY <2>1 DEF FileOf, Expected, Files!Whole
  <2> QED
    BY <1>u, <2>1, <2>2, <2>3 DEF ReadInv
<1> QED
  BY <1>2, <1>3

\* The files of the importer itself: it goes on with what it found whole.
LEMMA CheckedOwn ==
    ASSUME Inv, NEW p \in Importer, CheckedInv(p), ReadInv(p),
           ImporterStep(p) \/ Fault(p) \/ \E w \in Request : Invoke(p, w)
    PROVE  CheckedInv(p)' /\ ReadInv(p)'
<1> SUFFICES ASSUME pc'[p] \in {"download", "transfer", "steps", "reading"},
                    run'[cur'[p]].status = "running"
             PROVE CheckedInv(p)' /\ ReadInv(p)'
  BY DEF CheckedInv, ReadInv
<1> USE DEF Inv, Types, MemoryOK
<1>u. unheld \subseteq unheld'
  BY UnheldGrows
<1>p. \A e \in DOMAIN plan[p] : FileOf(p, e) \in EntityType \X Date
  BY PlanFacts DEF FileOf
<1>n. \A e \in EntityType, f \in EntityType : FileOf(p, e) = FileOf(p, f) => e = f
  BY DEF FileOf
<1>l. left[p] \subseteq DOMAIN plan[p]
  BY DEF StageInv
<1>1. CASE Recheck(p)
  <2>1. pc'[p] = "download" /\ left'[p] = DOMAIN plan[p] /\ plan'[p] = plan[p]
    BY <1>1 DEF Recheck, Abort, Goto
  <2> QED
    BY <2>1 DEF CheckedInv, ReadInv
<1>2. ASSUME NEW e \in left[p], FileReady(p, e) PROVE CheckedInv(p)' /\ ReadInv(p)'
  <2>1. /\ pc[p] = "download" /\ pc' = pc /\ left'[p] = left[p] \ {e}
        /\ UNCHANGED <<plan, cur, disk, unheld, run>>
    BY <1>2 DEF FileReady, Local, files, memory, records
  <2>2. Kept(FileOf(p, e), Expected(p, e))
    BY <1>2 DEF FileReady, Files!Present, Kept
  <2>3. \A f \in DOMAIN plan[p] : f \notin left[p] => Kept(FileOf(p, f), Expected(p, f))
    BY <2>1 DEF CheckedInv
  <2>4. \A f \in DOMAIN plan[p] : f \notin left'[p] => Kept(FileOf(p, f), Expected(p, f))
    BY <2>1, <2>2, <2>3
  <2>5. CheckedInv(p)'
    BY <2>1, <2>4 DEF CheckedInv, Kept, FileOf, Expected
  <2> QED
    BY <2>1, <2>5 DEF ReadInv
<1>3. ASSUME NEW e \in left[p], StartDownload(p, e) PROVE CheckedInv(p)' /\ ReadInv(p)'
  <2>1. /\ pc[p] = "download" /\ pc'[p] = "transfer" /\ UNCHANGED <<left, plan, cur, run>>
        /\ disk' = [disk EXCEPT ![FileOf(p, e)] = Files!Partial(p)]
    BY <1>3 DEF StartDownload, Files!BeginDownload, Goto, records
  <2>2. \A f \in DOMAIN plan[p] : f \notin left[p] => Kept(FileOf(p, f), Expected(p, f))
    BY <2>1 DEF CheckedInv
  <2>3. ASSUME NEW f \in DOMAIN plan[p], f \notin left[p]
        PROVE Kept(FileOf(p, f), Expected(p, f))'
    <3>1. FileOf(p, f) # FileOf(p, e)
      BY <1>n, <1>l, <2>3, PlanFacts
    <3>2. disk'[FileOf(p, f)] = disk[FileOf(p, f)] /\ FileOf(p, f)' = FileOf(p, f)
             /\ Expected(p, f)' = Expected(p, f)
      BY <2>1, <3>1 DEF FileOf, Expected
    <3> QED
      BY <1>u, <2>2, <2>3, <3>2 DEF Kept
  <2> QED
    BY <2>1, <2>3 DEF CheckedInv, ReadInv
<1>4. ASSUME NEW e \in left[p], OpenFile(p, e) PROVE CheckedInv(p)' /\ ReadInv(p)'
  <2>1. /\ pc[p] = "steps" /\ pc'[p] = "reading"
        /\ reading'[p] = <<e, disk[FileOf(p, e)]>> /\ disk[FileOf(p, e)] # Files!Absent
        /\ UNCHANGED <<left, plan, cur, disk, unheld, run>>
    BY <1>4 DEF OpenFile, Local, Abort, Goto, files, records
  <2>2. \A f \in DOMAIN plan[p] : Kept(FileOf(p, f), Expected(p, f))
    BY <2>1 DEF CheckedInv
  <2>3. CheckedInv(p)'
    BY <2>1, <2>2 DEF CheckedInv, Kept, FileOf, Expected
  <2>4. Kept(FileOf(p, e), Expected(p, e)) /\ e \in DOMAIN plan[p]
    BY <1>l, <2>2
  <2> QED
    BY <2>1, <2>3, <2>4 DEF ReadInv, Kept, FileOf, Expected
<1>5. CASE EndDownload(p)
  <2> DEFINE e == incoming[p][1]
  <2>1. /\ pc[p] = "transfer" /\ pc'[p] = "download" /\ left'[p] = left[p] \ {e}
        /\ UNCHANGED <<plan, cur, run>>
        /\ disk' = [disk EXCEPT ![FileOf(p, e)] = Files!Whole(Expected(p, e))]
    BY <1>5 DEF EndDownload, Files!DownloadVerified, Abort, Goto, records
  <2>2. e \in left[p]
    BY <2>1 DEF StageInv
  <2> HIDE DEF e
  <2>3. \A f \in DOMAIN plan[p] : f \notin left[p] => Kept(FileOf(p, f), Expected(p, f))
    BY <2>1 DEF CheckedInv
  <2>4. ASSUME NEW f \in DOMAIN plan[p], f \notin left'[p]
        PROVE Kept(FileOf(p, f), Expected(p, f))'
    <3>1. FileOf(p, f)' = FileOf(p, f) /\ Expected(p, f)' = Expected(p, f)
      BY <2>1 DEF FileOf, Expected
    <3>2. CASE f = e
      <4>1. disk'[FileOf(p, f)] = Files!Whole(Expected(p, f))
        BY <1>p, <2>1, <3>2 DEF FilesOK
      <4> QED
        BY <3>1, <4>1 DEF Kept
    <3>3. CASE f # e
      <4>1. FileOf(p, f) # FileOf(p, e) /\ f \notin left[p]
        BY <1>n, <1>l, <2>1, <2>2, <2>4, <3>3, PlanFacts
      <4>2. disk'[FileOf(p, f)] = disk[FileOf(p, f)]
        BY <2>1, <4>1
      <4> QED
        BY <1>u, <2>3, <3>1, <4>1, <4>2 DEF Kept
    <3> QED
      BY <3>2, <3>3
  <2> QED
    BY <2>1, <2>4 DEF CheckedInv, ReadInv
<1>6. CASE StartSteps(p)
  <2>1. /\ pc[p] = "download" /\ pc'[p] = "steps" /\ left[p] = {}
        /\ UNCHANGED <<plan, cur, disk, unheld, run>>
    BY <1>6 DEF StartSteps, Local, Goto, files, memory, records
  <2>2. \A f \in DOMAIN plan[p] : Kept(FileOf(p, f), Expected(p, f))
    BY <2>1 DEF CheckedInv
  <2> QED
    BY <2>1, <2>2 DEF CheckedInv, ReadInv, Kept, FileOf, Expected
<1>7. CASE ImportEntity(p)
  <2>1. /\ pc[p] = "reading" /\ pc'[p] = "steps"
        /\ UNCHANGED <<plan, cur, disk, unheld, run>>
    BY <1>7 DEF ImportEntity, Abort, Goto, files
  <2>2. \A f \in DOMAIN plan[p] : Kept(FileOf(p, f), Expected(p, f))
    BY <2>1 DEF CheckedInv
  <2> QED
    BY <2>1, <2>2 DEF CheckedInv, ReadInv, Kept, FileOf, Expected
<1>8. CASE UNCHANGED <<pc, left, memory, files, records>>
  BY <1>8 DEF memory, files, records, CheckedInv, ReadInv, Kept, FileOf, Expected
<1> QED
  BY <1>1, <1>2, <1>3, <1>4, <1>5, <1>6, <1>7, <1>8, FileStage

\* A chunk is committed to the importer's running run; a skip repeats what its checkpoints
\* recorded.
LEMMA ImportedSteps ==
    ASSUME NEW p \in Importer,
           ImporterStep(p) \/ Fault(p) \/ \E q \in Request : Invoke(p, q)
    PROVE  ImportEntity(p) \/ Skip(p) \/ UNCHANGED <<imported, completed>>
<1>1. CASE Fault(p)
  BY <1>1 DEF Fault, records
<1>2. ASSUME NEW q \in Request, Invoke(p, q) PROVE UNCHANGED <<imported, completed>>
  BY <1>2 DEF Invoke, Local, records
<1>3. ASSUME NEW e \in left[p], FileReady(p, e) \/ StartDownload(p, e) \/ OpenFile(p, e)
      PROVE UNCHANGED <<imported, completed>>
  BY <1>3 DEF FileReady, StartDownload, OpenFile, Local, records
<1>4. CASE ImporterStep(p)
  BY <1>3, <1>4
     DEF ImporterStep, ReadSite, InsertCatalog, RefreshFails, Resolve, Preflight, Refuse, Admit,
         Recheck, EndDownload, StartSteps, CompleteSuccess, CompleteFailure, CompleteError,
         Cleanup, Crash, Local, records
<1> QED
  BY <1>1, <1>2, <1>4

LEMMA ImportedStep ==
    ASSUME Inv, CompletedFromPinnedFile, NEW p \in Importer, ReadInv(p),
           ImporterStep(p) \/ Fault(p) \/ \E q \in Request : Invoke(p, q)
    PROVE  CompletedFromPinnedFile'
<1> USE DEF Inv, Types, RecordsOK
<1>u. unheld \subseteq unheld'
  BY UnheldGrows
<1> SUFFICES ASSUME NEW r \in RunId, NEW e \in EntityType, imported'[r][e] # None
             PROVE \/ imported'[r][e] = Files!Whole(run'[r].plan[e].issue)
                   \/ <<e, run'[r].plan[e].date>> \in unheld'
  BY DEF CompletedFromPinnedFile, Files!Whole
<1>1. ASSUME imported'[r][e] = imported[r][e]
      PROVE \/ imported'[r][e] = Files!Whole(run'[r].plan[e].issue)
            \/ <<e, run'[r].plan[e].date>> \in unheld'
  <2>1. r <= runSeq
    BY <1>1, PreparationAssumption DEF RunsInv, RunId
  <2>2. run'[r].plan = run[r].plan
    BY <2>1, RunsStep DEF RunsKept
  <2> QED
    BY <1>1, <1>u, <2>2 DEF CompletedFromPinnedFile
<1>2. CASE ImportEntity(p)
  <2> DEFINE f == reading[p][1]
  <2>1. f \in DOMAIN plan[p] /\ f \in EntityType /\ cur[p] \in RunId /\ run[cur[p]].plan = plan[p]
    BY <1>2, PreparationAssumption DEF ImportEntity, StageInv, Imports, RunId, MemoryOK
  <2>2. CASE UNCHANGED imported
    BY <1>1, <2>2
  <2>3. CASE run[cur[p]].status = "running"
    <3>1. imported' = [imported EXCEPT ![cur[p]][f] = reading[p][2]] /\ run' = run
      BY <1>2, <2>3 DEF ImportEntity
    <3>2. CASE r = cur[p] /\ e = f
      <4>1. imported'[r][e] = reading[p][2]
        BY <2>1, <3>1, <3>2
      <4>2. \/ reading[p][2] = Files!Whole(Expected(p, f))
            \/ FileOf(p, f) \in unheld
        BY <1>2, <2>3 DEF ReadInv, ImportEntity
      <4> QED
        BY <1>u, <2>1, <3>1, <3>2, <4>1, <4>2 DEF Expected, FileOf
    <3>3. CASE ~(r = cur[p] /\ e = f)
      <4>1. imported'[r][e] = imported[r][e]
        BY <2>1, <3>1, <3>3
      <4> QED
        BY <1>1, <4>1
    <3> QED
      BY <3>2, <3>3
  <2> QED
    BY <1>2, <2>2, <2>3 DEF ImportEntity
<1>3. CASE Skip(p) /\ ~UNCHANGED imported
  <2>1. Consolidate(p) /\ Current(p) = DOMAIN plan[p]
    BY <1>3 DEF Skip, Satisfied
  <2>2. runSeq + 1 \in RunId /\ Marked(p) \in [RunId -> RunRow]
    BY <1>3, PreparingFacts DEF Skip, MayPrepare
  <2>3. CASE r # runSeq + 1
    <3>1. imported'[r][e] = imported[r][e]
      BY <2>1, <2>3 DEF Consolidate
    <3> QED
      BY <1>1, <3>1
  <2>4. CASE r = runSeq + 1
    <3>1. imported'[r][e] = IF e \in DOMAIN plan[p] THEN imported[checkpoint[e]][e] ELSE None
      BY <2>1, <2>2, <2>4 DEF Consolidate
    <3>2. e \in DOMAIN plan[p] /\ imported'[r][e] = imported[checkpoint[e]][e]
      BY <3>1
    <3>3. checkpoint[e] \in RunId /\ run[checkpoint[e]].plan[e] = plan[p][e]
      BY <2>1, <3>2 DEF Current
    <3>4. run'[r].plan = plan[p]
      BY <2>1, <2>2, <2>4 DEF Consolidate
    <3> QED
      BY <1>u, <3>2, <3>3, <3>4 DEF CompletedFromPinnedFile
  <2> QED
    BY <2>3, <2>4
<1> QED
  BY <1>1, <1>2, <1>3, ImportedSteps

LEMMA PinnedStep ==
    ASSUME Inv, Owners, PinnedInv, [Next]_vars
    PROVE  PinnedInv'
<1>1. CASE UNCHANGED vars \/ Upstream
  <2>1. UNCHANGED <<records, memory, files, pc, left>>
    BY <1>1 DEF vars, Upstream
  <2>2. CompletedFromPinnedFile'
    BY <2>1 DEF PinnedInv, CompletedFromPinnedFile, records, files, Files!Whole
  <2>3. \A p \in Importer : CheckedInv(p)' /\ ReadInv(p)'
    BY <2>1 DEF PinnedInv, CheckedInv, ReadInv, Kept, FileOf, Expected, records, files, memory,
                Files!Whole, Files!Absent
  <2> QED
    BY <2>2, <2>3 DEF PinnedInv
<1>2. ASSUME NEW q \in Importer,
             ImporterStep(q) \/ Fault(q) \/ \E w \in Request : Invoke(q, w)
      PROVE PinnedInv'
  <2>1. CompletedFromPinnedFile'
    BY <1>2, ImportedStep DEF PinnedInv
  <2>2. \A p \in Importer : CheckedInv(p)' /\ ReadInv(p)'
    BY <1>2, CheckedOwn, CheckedOther DEF PinnedInv
  <2> QED
    BY <2>1, <2>2 DEF PinnedInv
<1> QED
  BY <1>1, <1>2 DEF Next

\* Every entity is completed from the file its run's manifest pins, unless an importer
\* without its lock session began to download that file: names are shared, but not while
\* their locks are held.
THEOREM PinnedFileSafe == Spec => []CompletedFromPinnedFile
<1>1. Init => Inv /\ Owners /\ PinnedInv
  <2> SUFFICES ASSUME Init PROVE PinnedInv
    BY InvInit, OwnersInit
  <2>1. CompletedFromPinnedFile
    BY DEF Init, CompletedFromPinnedFile
  <2>2. \A p \in Importer : CheckedInv(p) /\ ReadInv(p)
    BY DEF Init, CheckedInv, ReadInv
  <2> QED
    BY <2>1, <2>2 DEF PinnedInv
<1>2. Inv /\ Owners /\ PinnedInv /\ [Next]_vars => Inv' /\ Owners' /\ PinnedInv'
  BY InvStep, OwnersNext, PinnedStep
<1>3. PinnedInv => CompletedFromPinnedFile
  BY DEF PinnedInv
<1> QED
  BY <1>1, <1>2, <1>3, PTL DEF Spec

-----------------------------------------------------------------------------
(***************************************************************************)
(* What an import depends on.                                              *)
(***************************************************************************)
\* Completed entities belong to recorded runs.
CompletedInv ==
    \A t \in EntityType : \A v \in Revision : completed[t][v] <= runSeq

\* After the second preflight: the dependencies it accepted, and what became of them.
HeldInv(p) ==
    pc[p] \in {"download", "transfer", "steps", "reading"} =>
        /\ DOMAIN accepted[p] = Dependencies(plan[p])
        /\ session[p] =>
              \A t \in DOMAIN accepted[p] :
                  \/ completed[t][req[p].rev] = accepted[p][t]
                  \/ \E r \in RunId : r = completed[t][req[p].rev] /\ Orphaned(r)

DependencyInv == CompletedInv /\ \A p \in Importer : HeldInv(p)

\* A run nobody with a live session works for can fail, but not succeed.
LEMMA OrphanedStep ==
    ASSUME Inv, Inv', NEW q \in Importer, NEW r \in RunId, r <= runSeq, Orphaned(r),
           ImporterStep(q) \/ Fault(q) \/ \E w \in Request : Invoke(q, w)
    PROVE  Orphaned(r)'
<1> USE DEF Inv, Types
<1>n. runSeq \in Nat /\ r \in Nat
  BY PreparationAssumption DEF RecordsOK, RunId
<1>o. OthersKept(q)
  BY OthersKeptStep
<1>1. run'[r].status \in {"running", "failed"}
  <2>1. run[r].status = "failed" => run'[r].status = "failed"
    BY RunsStep DEF RunsKept
  <2>2. CASE run[r].status = "running"
    <3>1. CASE Skip(q) \/ Admit(q)
      <4>1. Marked(q) \in [RunId -> RunRow] /\ runSeq + 1 \in RunId
        BY <3>1, PreparingFacts DEF Skip, Admit, MayPrepare
      <4>2. run'[r] = Marked(q)[r]
        BY <1>n, <3>1, <4>1 DEF Skip, Admit, Consolidate
      <4>3. Marked(q)[r].status \in {"running", "failed"}
        BY <2>2 DEF Marked, RecordsOK, RunRow
      <4> QED
        BY <4>2, <4>3
    <3>2. CASE CompleteSuccess(q)
      <4>1. cur[q] # r
        BY <3>2 DEF Orphaned, CompleteSuccess
      <4> QED
        BY <2>2, <3>2, <4>1 DEF CompleteSuccess, RecordsOK
    <3>3. CASE CompleteFailure(q)
      <4>1. run' = [run EXCEPT ![cur[q]].status = "failed"]
        BY <3>3 DEF CompleteFailure
      <4> QED
        BY <2>2, <4>1 DEF RecordsOK, RunRow
    <3> QED
      BY <2>2, <3>1, <3>2, <3>3, RunSteps
  <2> QED
    BY <2>1, <2>2 DEF Orphaned
<1>2. ASSUME NEW p \in Importer, cur'[p] = r PROVE ~session'[p]
  <2>1. CASE p # q
    BY <1>o, <1>2, <2>1 DEF OthersKept, Orphaned
  <2>2. CASE p = q
    <3> SUFFICES ASSUME session'[q] PROVE FALSE
      BY <2>2
    <3>1. pc'[q] \in Imports
      BY DEF StageInv
    <3>2. CASE Admit(q)
      BY <1>n, <1>2, <2>2, <3>2 DEF Admit, MemoryOK
    <3>3. CASE ~Admit(q)
      <4>1. session[q]
        BY <3>3, SessionSteps DEF Release, MemoryOK
      <4>2. cur'[q] = cur[q]
        BY <3>1, <3>3, ImportStage
      <4> QED
        BY <1>2, <2>2, <4>1, <4>2 DEF Orphaned
    <3> QED
      BY <3>2, <3>3
  <2> QED
    BY <2>1, <2>2
<1> QED
  BY <1>1, <1>2 DEF Orphaned

LEMMA CompletedStep ==
    ASSUME Inv, CompletedInv, NEW q \in Importer,
           ImporterStep(q) \/ Fault(q) \/ \E w \in Request : Invoke(q, w)
    PROVE  CompletedInv'
<1> USE DEF Inv, Types, RecordsOK
<1>n. runSeq \in Nat /\ runSeq' \in {runSeq, runSeq + 1} /\ RunId \subseteq Nat
  BY RunsStep, PreparationAssumption DEF RunsKept, RunId
<1>t. \A t \in EntityType : \A v \in Revision : completed[t][v] \in Nat /\ completed[t][v] <= runSeq
  <2>1. \A t \in EntityType : \A v \in Revision : completed[t][v] \in RunId \cup {NoRun}
    OBVIOUS
  <2>2. RunId \cup {NoRun} \subseteq Nat
    BY <1>n DEF NoRun
  <2>3. \A t \in EntityType : \A v \in Revision : completed[t][v] <= runSeq
    BY DEF CompletedInv
  <2> HIDE DEF Inv, Types, RecordsOK
  <2> QED
    BY <2>1, <2>2, <2>3
<1>m. ASSUME NEW r \in Nat, r <= runSeq',
             \A t \in EntityType : \A v \in Revision : completed'[t][v] \in {completed[t][v], r}
      PROVE CompletedInv'
  <2>1. \A t \in EntityType : \A v \in Revision : completed'[t][v] <= runSeq'
    BY <1>n, <1>t, <1>m
  <2> QED
    BY <2>1 DEF CompletedInv
<1>1. CASE UNCHANGED completed
  <2>1. 0 \in Nat /\ 0 <= runSeq'
    BY <1>n
  <2> QED
    BY <1>1, <1>m, <2>1
<1>2. CASE ImportEntity(q)
  <2>1. cur[q] \in 1..runSeq /\ runSeq' = runSeq
    BY <1>2 DEF ImportEntity, StageInv, Imports
  <2>2. \/ completed' = completed
        \/ completed' = [completed EXCEPT ![reading[q][1]][req[q].rev] = cur[q]]
    BY <1>2 DEF ImportEntity
  <2>3. \A t \in EntityType : \A v \in Revision : completed'[t][v] \in {completed[t][v], cur[q]}
    <3>1. CASE completed' = completed
      BY <3>1
    <3>2. ASSUME completed' = [completed EXCEPT ![reading[q][1]][req[q].rev] = cur[q]],
                 NEW t \in EntityType, NEW v \in Revision
          PROVE completed'[t][v] \in {completed[t][v], cur[q]}
      <4>1. completed'[t] = IF t = reading[q][1] THEN [completed[t] EXCEPT ![req[q].rev] = cur[q]]
                                                 ELSE completed[t]
        BY <3>2
      <4>2. completed[t] \in [Revision -> RunId \cup {NoRun}]
        OBVIOUS
      <4> QED
        BY <4>1, <4>2
    <3> QED
      BY <2>2, <3>1, <3>2
  <2> QED
    BY <1>m, <1>n, <2>1, <2>3
<1>3. CASE Skip(q) /\ Consolidate(q)
  <2>1. \A t \in EntityType : \A v \in Revision : completed'[t][v] \in {completed[t][v], runSeq + 1}
    BY <1>3 DEF Consolidate
  <2>2. runSeq' = runSeq + 1
    BY <1>3 DEF Consolidate
  <2>3. runSeq + 1 \in Nat /\ runSeq + 1 <= runSeq'
    BY <1>n, <2>2
  <2> QED
    BY <1>m, <2>1, <2>3
<1> QED
  BY <1>1, <1>2, <1>3, ImportedSteps DEF Skip

\* The dependencies of another importer: who completes one has lost the locks for it.
LEMMA HeldOther ==
    ASSUME Inv, Inv', Owners, CompletedInv, NEW q \in Importer, NEW p \in Importer \ {q}, HeldInv(p),
           ImporterStep(q) \/ Fault(q) \/ \E w \in Request : Invoke(q, w)
    PROVE  HeldInv(p)'
<1> USE DEF Inv, Types
<1>o. OthersKept(q)
  BY OthersKeptStep
<1> SUFFICES ASSUME pc'[p] \in {"download", "transfer", "steps", "reading"}
             PROVE HeldInv(p)'
  BY DEF HeldInv
<1>1. /\ pc[p] \in {"download", "transfer", "steps", "reading"}
      /\ accepted'[p] = accepted[p] /\ plan'[p] = plan[p] /\ req'[p] = req[p]
      /\ session'[p] = session[p]
  BY <1>o DEF OthersKept
<1>2. Dependencies(plan[p])' = Dependencies(plan[p])
  BY <1>1 DEF Dependencies
<1>3. ASSUME session[p], NEW t \in DOMAIN accepted[p], NEW v \in Revision, v = req[p].rev
      PROVE \/ completed'[t][v] = accepted[p][t]
            \/ \E r \in RunId : r = completed'[t][v] /\ Orphaned(r)'
  <2>1. t \in LockedTypes(p) /\ t \in EntityType
    <3>1. t \in LockedTypes(p)
      BY <1>1, <1>3 DEF HeldInv, Dependencies, LockedTypes
    <3>2. DOMAIN plan[p] \subseteq EntityType
      BY PlanFacts DEF MemoryOK
    <3> QED
      BY <3>1, <3>2, RequirementAssumption DEF LockedTypes
  <2>2. lockHolder[t] = p
    BY <1>1, <1>3, <2>1 DEF Owners, LiveOwns, Live, Imports
  <2>3. CASE completed'[t][v] = completed[t][v]
    <3>1. completed[t][v] <= runSeq
      BY <2>1 DEF CompletedInv
    <3>2. ASSUME NEW r \in RunId, r = completed[t][v], Orphaned(r) PROVE Orphaned(r)'
      BY <3>1, <3>2, OrphanedStep
    <3> QED
      BY <1>1, <1>3, <2>3, <3>2 DEF HeldInv
  <2>4. CASE ImportEntity(q) /\ completed'[t][v] # completed[t][v]
    <3>1. /\ pc[q] = "reading" /\ run[cur[q]].status = "running" /\ run' = run
          /\ completed' = [completed EXCEPT ![reading[q][1]][req[q].rev] = cur[q]]
          /\ cur' = cur /\ session' = session
      BY <2>4 DEF ImportEntity, Abort
    <3>2. completed'[t][v] = cur[q] /\ t = reading[q][1]
      <4>1. completed[t] \in [Revision -> RunId \cup {NoRun}]
        BY <2>1 DEF RecordsOK
      <4>2. completed'[t] = IF t = reading[q][1] THEN [completed[t] EXCEPT ![req[q].rev] = cur[q]]
                                                 ELSE completed[t]
        BY <2>1, <3>1 DEF RecordsOK
      <4> QED
        BY <2>4, <4>1, <4>2
    <3>3. t \in DOMAIN plan[q]
      BY <3>1, <3>2 DEF StageInv
    <3>4. PICK r \in RunId : r = cur[q]
      BY <3>1, PreparationAssumption DEF StageInv, Imports, RunId, RecordsOK
    <3>5. ~session[q]
      <4> SUFFICES ASSUME session[q] PROVE FALSE
        OBVIOUS
      <4>1. t \in LockedTypes(q)
        BY <2>1, <3>3, RequirementAssumption DEF LockedTypes
      <4>2. lockHolder[t] = q
        BY <3>1, <4>1 DEF Owners, LiveOwns, Live, Imports
      <4> QED
        BY <2>2, <4>2
    <3>6. ASSUME NEW x \in Importer, cur[x] = r PROVE ~session[x]
      <4>1. CASE x # q
        <5>1. pc[x] \notin Imports
          BY <3>1, <3>4, <3>6, <4>1 DEF Owners, RunsNotShared, Imports
        <5> QED
          BY <5>1 DEF StageInv
      <4> QED
        BY <3>5, <4>1
    <3>7. Orphaned(r)'
      BY <3>1, <3>4, <3>6 DEF Orphaned
    <3> QED
      BY <3>2, <3>4, <3>7
  <2>5. CASE Skip(q)
    <3>1. t \notin DOMAIN plan[q]
      <4> SUFFICES ASSUME t \in DOMAIN plan[q] PROVE FALSE
        OBVIOUS
      <4>1. lockHolder[t] = None
        BY <2>5, PreparingFacts DEF Skip, MayPrepare
      <4> QED
        BY <2>2, <4>1, PreparationAssumption
    <3>2. completed'[t][v] = completed[t][v]
      BY <2>1, <2>5, <3>1 DEF Skip, Consolidate
    <3> QED
      BY <2>3, <3>2
  <2> QED
    BY <2>3, <2>4, <2>5, ImportedSteps
<1>4. req[p].rev \in Revision
  BY <1>1, RequestFacts DEF StageInv
<1>5. session[p] => \A t \in DOMAIN accepted[p] :
         \/ completed'[t][req[p].rev] = accepted[p][t]
         \/ \E r \in RunId : r = completed'[t][req[p].rev] /\ Orphaned(r)'
  BY <1>3, <1>4
<1> QED
  BY <1>1, <1>2, <1>5 DEF HeldInv

\* The second preflight reads what it accepts under the locks; the import itself completes
\* what it selects, and no dependency.
LEMMA HeldOwn ==
    ASSUME Inv, Inv', CompletedInv, NEW p \in Importer, HeldInv(p),
           ImporterStep(p) \/ Fault(p) \/ \E w \in Request : Invoke(p, w)
    PROVE  HeldInv(p)'
<1> USE DEF Inv, Types, MemoryOK
<1> SUFFICES ASSUME pc'[p] \in {"download", "transfer", "steps", "reading"}
             PROVE HeldInv(p)'
  BY DEF HeldInv
<1>1. CASE Recheck(p)
  <2>1. /\ accepted' = [accepted EXCEPT ![p] = Checkpoints(p)]
        /\ UNCHANGED <<plan, req, completed>>
    BY <1>1 DEF Recheck, SecondVerdict, Abort, Goto, Local, records
  <2>2. accepted'[p] = [t \in Dependencies(plan[p]) |-> completed[t][req[p].rev]]
    BY <2>1 DEF Checkpoints
  <2>3. Dependencies(plan[p])' = Dependencies(plan[p])
    BY <2>1 DEF Dependencies
  <2> QED
    BY <2>1, <2>2, <2>3 DEF HeldInv
<1>2. CASE ~Recheck(p)
  <2>1. /\ pc[p] \in {"download", "transfer", "steps", "reading"}
        /\ accepted'[p] = accepted[p] /\ plan'[p] = plan[p] /\ req'[p] = req[p]
    <3>1. ~Abort(p)
      BY DEF Abort, Goto
    <3>2. ASSUME NEW e \in left[p], FileReady(p, e) \/ StartDownload(p, e) \/ OpenFile(p, e)
          PROVE /\ pc[p] \in {"download", "transfer", "steps", "reading"}
                /\ accepted'[p] = accepted[p] /\ plan'[p] = plan[p] /\ req'[p] = req[p]
      BY <3>1, <3>2 DEF FileReady, StartDownload, OpenFile, memory
    <3>3. ASSUME EndDownload(p) \/ StartSteps(p) \/ ImportEntity(p)
          PROVE /\ pc[p] \in {"download", "transfer", "steps", "reading"}
                /\ accepted'[p] = accepted[p] /\ plan'[p] = plan[p] /\ req'[p] = req[p]
      BY <3>1, <3>3 DEF EndDownload, StartSteps, ImportEntity, memory
    <3> QED
      BY <1>2, <3>2, <3>3, FileStage DEF memory
  <2>2. session'[p] => session[p]
    <3>1. ~Admit(p)
      BY DEF Admit, Goto
    <3> QED
      BY <3>1, SessionSteps DEF Release
  <2>3. Dependencies(plan[p])' = Dependencies(plan[p])
    BY <2>1 DEF Dependencies
  <2>4. ASSUME session[p], NEW t \in DOMAIN accepted[p], NEW v \in Revision, v = req[p].rev
        PROVE \/ completed'[t][v] = accepted[p][t]
              \/ \E r \in RunId : r = completed'[t][v] /\ Orphaned(r)'
    <3>1. t \notin DOMAIN plan[p] /\ t \in EntityType
      <4>1. t \in Dependencies(plan[p]) /\ DOMAIN plan[p] \subseteq EntityType
        BY <2>1, <2>4, PlanFacts DEF HeldInv
      <4>2. PICK e \in DOMAIN plan[p] : t \in RequiredTypes[e]
        BY <4>1 DEF Dependencies
      <4>3. RequiredTypes[e] \subseteq EntityType
        BY <4>1, RequirementAssumption
      <4> QED
        BY <4>1, <4>2, <4>3 DEF Dependencies
    <3>2. completed'[t] = completed[t]
      <4>1. CASE ImportEntity(p)
        <5>1. reading[p][1] \in DOMAIN plan[p]
          BY <4>1 DEF ImportEntity, StageInv
        <5> QED
          BY <3>1, <4>1, <5>1 DEF ImportEntity, RecordsOK
      <4>2. ~Skip(p)
        BY <2>1 DEF Skip, MayPrepare
      <4> QED
        BY <4>1, <4>2, ImportedSteps
    <3>3. completed[t][v] <= runSeq
      BY <3>1 DEF CompletedInv
    <3>4. ASSUME NEW r \in RunId, r = completed[t][v], Orphaned(r) PROVE Orphaned(r)'
      BY <3>3, <3>4, OrphanedStep
    <3> QED
      BY <2>1, <2>4, <3>2, <3>4 DEF HeldInv
  <2>5. req[p].rev \in Revision
    BY <2>1, RequestFacts DEF StageInv
  <2>6. session[p] => \A t \in DOMAIN accepted[p] :
           \/ completed'[t][req[p].rev] = accepted[p][t]
           \/ \E r \in RunId : r = completed'[t][req[p].rev] /\ Orphaned(r)'
    BY <2>4, <2>5
  <2> QED
    BY <2>1, <2>2, <2>3, <2>6 DEF HeldInv
<1> QED
  BY <1>1, <1>2

LEMMA DependencyStep ==
    ASSUME Inv, Inv', Owners, DependencyInv, [Next]_vars
    PROVE  DependencyInv'
<1>1. CASE UNCHANGED vars \/ Upstream
  <2>1. UNCHANGED <<records, memory, session, pc>>
    BY <1>1 DEF vars, Upstream
  <2>2. CompletedInv'
    BY <2>1 DEF DependencyInv, CompletedInv, records
  <2>3. \A p \in Importer : HeldInv(p)'
    BY <2>1 DEF DependencyInv, HeldInv, Orphaned, Dependencies, records, memory
  <2> QED
    BY <2>2, <2>3 DEF DependencyInv
<1>2. ASSUME NEW q \in Importer,
             ImporterStep(q) \/ Fault(q) \/ \E w \in Request : Invoke(q, w)
      PROVE DependencyInv'
  <2>1. CompletedInv'
    BY <1>2, CompletedStep DEF DependencyInv
  <2>2. \A p \in Importer : HeldInv(p)'
    BY <1>2, HeldOwn, HeldOther DEF DependencyInv
  <2> QED
    BY <2>1, <2>2 DEF DependencyInv
<1> QED
  BY <1>1, <1>2 DEF Next

\* While an importer holds its locks, the newest completed checkpoint of everything it
\* depends on is the one its second preflight accepted, or one recorded by a run that no
\* longer has its lock session.
THEOREM DependenciesSafe == Spec => []DependenciesHeld
<1>1. Init => Inv /\ Owners /\ DependencyInv
  <2> SUFFICES ASSUME Init PROVE DependencyInv
    BY InvInit, OwnersInit
  <2>1. CompletedInv
    BY DEF Init, CompletedInv, NoRun
  <2>2. \A p \in Importer : HeldInv(p)
    BY DEF Init, HeldInv
  <2> QED
    BY <2>1, <2>2 DEF DependencyInv
<1>2. Inv /\ Owners /\ DependencyInv /\ [Next]_vars => Inv' /\ Owners' /\ DependencyInv'
  BY InvStep, OwnersNext, DependencyStep
<1>3. DependencyInv => DependenciesHeld
  <2> SUFFICES ASSUME DependencyInv, NEW p \in Importer, Live(p),
                      pc[p] \notin {"recheck", "failing"}, NEW t \in DOMAIN accepted[p]
               PROVE \/ completed[t][req[p].rev] = accepted[p][t]
                     \/ Orphaned(completed[t][req[p].rev])
    BY DEF DependenciesHeld
  <2>1. pc[p] \in {"download", "transfer", "steps", "reading"} /\ session[p]
    BY DEF Live, Imports
  <2> QED
    BY <2>1 DEF DependencyInv, HeldInv
<1> QED
  BY <1>1, <1>2, <1>3, PTL DEF Spec
=============================================================================

------------------------- MODULE ImportHistoryProofs -------------------------
(* What the histories of ImportLedger leave in its tables, for every value of the constants. *)
EXTENDS ImportLedgerProofs, FiniteSetTheorems

-----------------------------------------------------------------------------
(***************************************************************************)
(* Checkpoints.  completed_at and id order the runs, so the checkpoint of  *)
(* an entity changes only with its successful runs.                        *)
(***************************************************************************)
\* A run later than all others of a set is its latest.
LEMMA LatestIs ==
    ASSUME NEW T, \A r \in RunId : T[r].at \in Nat,
           NEW S \in SUBSET RunId, NEW r \in S, \A s \in S \ {r} : Later(T, r, s)
    PROVE  Latest(T, S) = r
<1>1. PICK m \in S : m = Latest(T, S) /\ \A s \in S \ {m} : Later(T, m, s)
  BY LatestInSet
<1>2. T[r].at \in Nat /\ T[m].at \in Nat /\ r \in Nat /\ m \in Nat
  BY <1>1, ConstantsAssumption DEF RunId
<1>3. ~(Later(T, m, r) /\ Later(T, r, m))
  BY <1>2 DEF Later
<1> QED
  BY <1>1, <1>3

\* The checkpoint depends on the successful runs and their completion times alone.
LEMMA CheckpointFrame ==
    ASSUME NEW T, NEW U, NEW e,
           \A r \in RunId : T[r].at \in Nat /\ U[r].at \in Nat,
           Successes(U, e) = Successes(T, e),
           \A r \in Successes(T, e) : U[r].at = T[r].at
    PROVE  Checkpoint(U, e) = Checkpoint(T, e)
<1> DEFINE S == Successes(T, e)
<1>1. S \in SUBSET RunId
  BY DEF Successes
<1>2. CASE S = {}
  BY <1>2 DEF Checkpoint
<1>3. CASE S # {}
  <2> HIDE DEF S
  <2>1. PICK r \in S : r = Latest(T, S) /\ \A s \in S \ {r} : Later(T, r, s)
    BY <1>1, <1>3, LatestInSet
  <2>2. \A s \in S \ {r} : Later(U, r, s)
    BY <2>1 DEF Later, S
  <2>3. Latest(U, S) = r
    BY <1>1, <2>2, LatestIs
  <2> QED
    BY <1>3, <2>1, <2>3 DEF Checkpoint, S
<1> QED
  BY <1>2, <1>3

\* A run that succeeds after all others of the entity is its checkpoint.
LEMMA CheckpointNew ==
    ASSUME NEW T, NEW e, NEW r \in Successes(T, e),
           \A s \in RunId : T[s].at \in Nat,
           \A s \in Successes(T, e) \ {r} : T[s].at < T[r].at
    PROVE  Checkpoint(T, e) = r
<1>1. Successes(T, e) \in SUBSET RunId
  BY DEF Successes
<1>2. \A s \in Successes(T, e) \ {r} : Later(T, r, s)
  BY DEF Later
<1>3. Latest(T, Successes(T, e)) = r
  BY <1>1, <1>2, LatestIs
<1> QED
  BY <1>3 DEF Checkpoint

\* The checkpoint is later than every other successful run of the entity.
LEMMA CheckpointIsLast ==
    ASSUME NEW T, \A r \in RunId : T[r].at \in Nat, NEW e, NEW s \in Successes(T, e)
    PROVE  /\ Checkpoint(T, e) \in Successes(T, e)
           /\ s # Checkpoint(T, e) => Later(T, Checkpoint(T, e), s)
           /\ Checkpoint(T, e) # NoRun
<1>1. Successes(T, e) \in SUBSET RunId /\ Successes(T, e) # {}
  BY DEF Successes
<1>2. Checkpoint(T, e) = Latest(T, Successes(T, e))
  BY <1>1 DEF Checkpoint
<1>3. Checkpoint(T, e) \in Successes(T, e)
  BY <1>1, <1>2, LatestInSet
<1>4. Checkpoint(T, e) \in Nat \ {0}
  BY <1>1, <1>3, ConstantsAssumption DEF RunId
<1> QED
  BY <1>1, <1>2, <1>3, <1>4, LatestInSet DEF NoRun

-----------------------------------------------------------------------------
(* The clock, and what a step does to the run table. *)

\* No run was completed later than now.
ClockInv == clock \in Nat \ {0} /\ \A r \in RunId : run[r].at < clock

\* Completion times are natural numbers.
LEMMA TimesAreNat ==
    ASSUME TypeOK
    PROVE  \A r \in RunId : run[r].at \in Nat
BY DEF TypeOK, RunRow

\* What recovery does to a run: it fails now, or nothing happens to it.
LEMMA MarkedRun ==
    ASSUME TypeOK, NEW p \in Importer, NEW r \in RunId
    PROVE  \/ /\ Marked(p)[r] = run[r]
              /\ Running(r) => DOMAIN run[r].manifest \cap DOMAIN req[p].manifest = {}
           \/ /\ Running(r)
              /\ DOMAIN run[r].manifest \cap DOMAIN req[p].manifest # {}
              /\ Marked(p)[r] = [run[r] EXCEPT !.status = "failed", !.at = clock]
              /\ Marked(p)[r].status = "failed" /\ Marked(p)[r].at = clock
              /\ Marked(p)[r].manifest = run[r].manifest /\ Marked(p)[r].rev = run[r].rev
              /\ Marked(p)[r].force = run[r].force /\ Marked(p)[r].downgrade = run[r].downgrade
              /\ Marked(p)[r].from = run[r].from
<1>1. run[r] \in RunRow
  BY DEF TypeOK
<1>2. CASE Running(r) /\ DOMAIN run[r].manifest \cap DOMAIN req[p].manifest # {}
  <2>1. Marked(p)[r] = [run[r] EXCEPT !.status = "failed", !.at = clock]
    BY <1>2 DEF Marked, Abandon, Running
  <2> QED
    BY <1>1, <1>2, <2>1 DEF RunRow
<1>3. CASE ~(Running(r) /\ DOMAIN run[r].manifest \cap DOMAIN req[p].manifest # {})
  <2>1. Marked(p)[r] = run[r]
    BY <1>3 DEF Marked, Abandon, Running
  <2> QED
    BY <1>3, <2>1
<1> QED
  BY <1>2, <1>3

\* Recovery settles no successful run and touches none.
LEMMA MarkedSuccesses ==
    ASSUME TypeOK, ClockInv, NEW p \in Importer, NEW e
    PROVE  /\ Marked(p) \in [RunId -> RunRow]
           /\ Successes(Marked(p), e) = Successes(run, e)
           /\ \A r \in Successes(run, e) : Marked(p)[r] = run[r]
           /\ Checkpoint(Marked(p), e) = Checkpoint(run, e)
<1>1. Marked(p) \in [RunId -> RunRow]
  BY AbandonFacts DEF Marked, TypeOK
<1>2. \A r \in RunId : Marked(p)[r].status = "success" => run[r].status = "success"
  BY MarkedRun
<1>3. \A r \in RunId : run[r].status = "success" => Marked(p)[r] = run[r]
  BY MarkedRun DEF Running
<1>4. Successes(Marked(p), e) = Successes(run, e)
  BY <1>2, <1>3 DEF Successes, Selects
<1>5. \A r \in Successes(run, e) : Marked(p)[r] = run[r]
  BY <1>3 DEF Successes
<1>6. \A r \in RunId : run[r].at \in Nat /\ Marked(p)[r].at \in Nat
  BY <1>1, TimesAreNat DEF RunRow
<1> QED
  BY <1>1, <1>4, <1>5, <1>6, CheckpointFrame

\* An import that is satisfied abandons no run: one of its entities' failed runs would be
\* later than the checkpoint.
LEMMA SatisfiedMarksNothing ==
    ASSUME TypeOK, ProcessInv, ClockInv, NEW p \in Importer, pc[p] = "admission", FullySatisfied(p)
    PROVE  /\ Marked(p) = run
           /\ \A e \in DOMAIN req[p].manifest :
                 /\ Checkpoint(run, e) # NoRun
                 /\ Checkpoint(run, e) \in Successes(run, e)
                 /\ run[Checkpoint(run, e)].manifest[e] = req[p].manifest[e]
                 /\ run[Checkpoint(run, e)].rev[e] = req[p].rev[e]
                 /\ ~Dirtied(run, e, Checkpoint(run, e))
<1> DEFINE S == DOMAIN req[p].manifest
<1>1. S # {}
  BY RequestFacts
<1>2. \A e \in S : Compatible(Marked(p), req[p], e)
  BY <1>1 DEF FullySatisfied, CompatibleEntities
<1>3. ASSUME NEW r \in RunId
      PROVE  Marked(p)[r] = run[r]
  <2> SUFFICES ASSUME Marked(p)[r] # run[r] PROVE FALSE
    OBVIOUS
  <2>1. /\ DOMAIN run[r].manifest \cap S # {}
        /\ Marked(p)[r].status = "failed" /\ Marked(p)[r].at = clock
        /\ Marked(p)[r].manifest = run[r].manifest
    BY MarkedRun
  <2>2. PICK e \in S : e \in DOMAIN run[r].manifest
    BY <2>1
  <2>3. PICK c \in RunId : c = Checkpoint(Marked(p), e) /\ ~Dirtied(Marked(p), e, c)
                           /\ Marked(p)[c] = run[c]
    <3>1. Checkpoint(Marked(p), e) # NoRun /\ ~Dirtied(Marked(p), e, Checkpoint(Marked(p), e))
      BY <1>2 DEF Compatible
    <3>2. Checkpoint(Marked(p), e) \in Successes(Marked(p), e)
      BY <3>1, MarkedSuccesses, CheckpointFacts
    <3>3. Checkpoint(Marked(p), e) \in Successes(run, e)
      BY <3>2, MarkedSuccesses
    <3>4. Checkpoint(Marked(p), e) \in RunId
      BY <3>3 DEF Successes
    <3> QED
      BY <3>1, <3>3, <3>4, MarkedSuccesses
  <2>4. Later(Marked(p), r, c)
    BY <2>1, <2>3, TimesAreNat DEF Later, ClockInv
  <2> QED
    BY <2>1, <2>2, <2>3, <2>4 DEF Dirtied, Selects
<1>4. Marked(p) = run
  <2>1. Marked(p) \in [RunId -> RunRow] /\ run \in [RunId -> RunRow]
    BY MarkedSuccesses DEF TypeOK
  <2> QED
    BY <1>3, <2>1
<1>5. \A e \in S : Compatible(run, req[p], e)
  BY <1>2, <1>4
<1>6. \A e : Checkpoint(run, e) = NoRun \/ Checkpoint(run, e) \in Successes(run, e)
  BY CheckpointFacts DEF TypeOK
<1> QED
  BY <1>4, <1>5, <1>6 DEF Compatible

\* Admission inserts a running run after its recovery.
LEMMA AdmittedRun ==
    ASSUME TypeOK, ProcessInv, NEW p \in Importer, Admit(p)
    PROVE  \E r \in RunId :
              /\ r = runSeq + 1 /\ runSeq' = r /\ run[r].status = "absent" /\ ~Running(r)
              /\ run'[r].status = "running" /\ run'[r].manifest = req[p].manifest
              /\ run'[r].rev = req[p].rev /\ run'[r].downgrade = req[p].downgrade
              /\ run'[r].force = req[p].force
              /\ run'[r].from = ResumeSource(Marked(p), req[p]) /\ run'[r].at = 0
              /\ \A s \in RunId : s # r => run'[s] = Marked(p)[s]
              /\ entityState' = StatesImporting(r, DOMAIN req[p].manifest)
              /\ clock' = IF Marked(p) = run THEN clock ELSE clock + 1
<1> DEFINE r == runSeq + 1
<1>1. r \in RunId /\ run[r].status = "absent"
  BY NextRunAbsent DEF Admit
<1>2. Marked(p) \in [RunId -> RunRow]
  BY AbandonFacts DEF Marked, TypeOK
<1>3. /\ run' = [Marked(p) EXCEPT ![r] =
                    [status |-> "running", manifest |-> req[p].manifest, rev |-> req[p].rev,
                     force |-> req[p].force, downgrade |-> req[p].downgrade,
                     from |-> ResumeSource(Marked(p), req[p]), at |-> 0]]
      /\ runSeq' = r /\ entityState' = StatesImporting(r, DOMAIN req[p].manifest)
      /\ clock' = IF Marked(p) = run THEN clock ELSE clock + 1
  BY DEF Admit
<1> HIDE DEF r
<1>4. /\ run'[r] = [status |-> "running", manifest |-> req[p].manifest, rev |-> req[p].rev,
                    force |-> req[p].force, downgrade |-> req[p].downgrade,
                    from |-> ResumeSource(Marked(p), req[p]), at |-> 0]
      /\ \A s \in RunId : s # r => run'[s] = Marked(p)[s]
  BY <1>1, <1>2, <1>3
<1> QED
  BY <1>1, <1>3, <1>4 DEF r, Running

\* A consolidated skip inserts a successful run.
LEMMA ConsolidatedRun ==
    ASSUME TypeOK, ProcessInv, ClockInv, NEW p \in Importer, SkipConsolidated(p)
    PROVE  \E r \in RunId :
              /\ r = runSeq + 1 /\ runSeq' = r /\ run[r].status = "absent" /\ ~Running(r)
              /\ run'[r].status = "success" /\ run'[r].manifest = req[p].manifest
              /\ run'[r].rev = req[p].rev /\ run'[r].from = NoRun /\ run'[r].at = clock
              /\ \A s \in RunId : s # r => run'[s] = run[s]
              /\ entityState' = StatesReady(r, DOMAIN req[p].manifest)
              /\ clock' = clock + 1 /\ Marked(p) = run
<1> DEFINE r == runSeq + 1
<1>1. r \in RunId /\ run[r].status = "absent"
  BY NextRunAbsent DEF SkipConsolidated
<1>2. Marked(p) = run /\ run \in [RunId -> RunRow]
  BY SatisfiedMarksNothing DEF SkipConsolidated, TypeOK
<1>3. /\ run' = [Marked(p) EXCEPT ![r] =
                    [status |-> "success", manifest |-> req[p].manifest, rev |-> req[p].rev,
                     force |-> FALSE, downgrade |-> FALSE, from |-> NoRun, at |-> clock]]
      /\ runSeq' = r /\ entityState' = StatesReady(r, DOMAIN req[p].manifest)
      /\ clock' = clock + 1
  BY DEF SkipConsolidated
<1> HIDE DEF r
<1>4. /\ run'[r] = [status |-> "success", manifest |-> req[p].manifest, rev |-> req[p].rev,
                    force |-> FALSE, downgrade |-> FALSE, from |-> NoRun, at |-> clock]
      /\ \A s \in RunId : s # r => run'[s] = run[s]
  BY <1>1, <1>2, <1>3
<1> QED
  BY <1>1, <1>2, <1>3, <1>4 DEF r, Running

\* Completion settles the importer's own run, which was running.
LEMMA CompletedRun ==
    ASSUME TypeOK, ProcessInv, NEW p \in Importer, CompleteSuccess(p) \/ CompleteFailure(p)
    PROVE  \E r \in RunId :
              /\ r = cur[p] /\ runSeq' = runSeq /\ Running(r) /\ run'[r].at = clock
              /\ \/ /\ CompleteSuccess(p) /\ run'[r].status = "success"
                    /\ entityState' = StatesReady(r, DOMAIN run[r].manifest)
                 \/ /\ CompleteFailure(p) /\ run'[r].status = "failed"
                    /\ entityState' = StatesFailed(DOMAIN run[r].manifest)
              /\ run'[r].manifest = run[r].manifest /\ run'[r].rev = run[r].rev
              /\ run'[r].downgrade = run[r].downgrade /\ run'[r].from = run[r].from
              /\ run'[r].force = run[r].force
              /\ \A s \in RunId : s # r => run'[s] = run[s]
              /\ clock' = clock + 1
<1>1. cur[p] \in RunId /\ Running(cur[p])
  <2>1. pc[p] \in Working /\ Running(cur[p])
    BY DEF CompleteSuccess, CompleteFailure, Working, Running
  <2> QED
    BY <2>1, ConstantsAssumption DEF TypeOK, ProcessInv, ImporterInv, RunId
<1> DEFINE r == cur[p]
<1>2. run[r] \in RunRow
  BY <1>1 DEF TypeOK
<1>3. CASE CompleteSuccess(p)
  <2>1. /\ run' = [run EXCEPT ![r] = [run[r] EXCEPT !.status = "success", !.at = clock]]
        /\ entityState' = StatesReady(r, DOMAIN run[r].manifest)
        /\ clock' = clock + 1 /\ runSeq' = runSeq
    BY <1>1, <1>3 DEF CompleteSuccess, TypeOK
  <2> HIDE DEF r
  <2>3. /\ run'[r] = [run[r] EXCEPT !.status = "success", !.at = clock]
        /\ \A s \in RunId : s # r => run'[s] = run[s]
    BY <1>1, <2>1 DEF TypeOK, r
  <2>4. /\ run'[r].status = "success" /\ run'[r].at = clock
        /\ run'[r].manifest = run[r].manifest /\ run'[r].rev = run[r].rev
        /\ run'[r].downgrade = run[r].downgrade /\ run'[r].from = run[r].from
        /\ run'[r].force = run[r].force
    BY <1>2, <2>3 DEF RunRow
  <2>5. r \in RunId /\ r = cur[p] /\ Running(r)
    BY <1>1 DEF r
  <2> QED
    BY <1>3, <2>1, <2>3, <2>4, <2>5
<1>4. CASE CompleteFailure(p)
  <2>1. /\ run' = [run EXCEPT ![r] = [run[r] EXCEPT !.status = "failed", !.at = clock]]
        /\ entityState' = StatesFailed(DOMAIN run[r].manifest)
        /\ clock' = clock + 1 /\ runSeq' = runSeq
    BY <1>1, <1>4 DEF CompleteFailure, TypeOK
  <2> HIDE DEF r
  <2>3. /\ run'[r] = [run[r] EXCEPT !.status = "failed", !.at = clock]
        /\ \A s \in RunId : s # r => run'[s] = run[s]
    BY <1>1, <2>1 DEF TypeOK, r
  <2>4. /\ run'[r].status = "failed" /\ run'[r].at = clock
        /\ run'[r].manifest = run[r].manifest /\ run'[r].rev = run[r].rev
        /\ run'[r].downgrade = run[r].downgrade /\ run'[r].from = run[r].from
        /\ run'[r].force = run[r].force
    BY <1>2, <2>3 DEF RunRow
  <2>5. r \in RunId /\ r = cur[p] /\ Running(r)
    BY <1>1 DEF r
  <2> QED
    BY <1>4, <2>1, <2>3, <2>4, <2>5
<1> QED
  BY <1>3, <1>4

\* The steps that change the run table.
LEMMA RunSteps ==
    ASSUME TypeOK, ProcessInv, ClockInv, [Next]_vars
    PROVE  \/ UNCHANGED <<run, clock, runSeq>>
           \/ \E p \in Importer :
                 Admit(p) \/ SkipConsolidated(p) \/ CompleteSuccess(p) \/ CompleteFailure(p)
<1>1. ASSUME NEW p \in Importer, SkipExact(p)
      PROVE  UNCHANGED <<run, clock, runSeq>>
  BY <1>1, SatisfiedMarksNothing DEF SkipExact
<1>2. UNCHANGED tables => UNCHANGED <<run, clock, runSeq>>
  BY DEF tables
<1>3. \A p \in Importer : CompleteEntity(p) => UNCHANGED <<run, clock, runSeq>>
  BY DEF CompleteEntity
<1>4. \A p \in Importer : \A c : CommitChunk(p, c) => UNCHANGED <<run, clock, runSeq>>
  BY DEF CommitChunk
<1> QED
  BY <1>1, <1>2, <1>3, <1>4, TableSteps

\* Every completion is stamped before the clock moves on.
LEMMA ClockStep ==
    ASSUME TypeOK, ProcessInv, ClockInv, [Next]_vars
    PROVE  ClockInv'
<1>1. CASE UNCHANGED <<run, clock, runSeq>>
  BY <1>1 DEF ClockInv
<1>2. ASSUME NEW p \in Importer, Admit(p) PROVE ClockInv'
  <2>1. PICK r \in RunId :
           /\ run'[r].at = 0 /\ \A s \in RunId : s # r => run'[s] = Marked(p)[s]
           /\ clock' = IF Marked(p) = run THEN clock ELSE clock + 1
    BY <1>2, AdmittedRun
  <2>2. clock' \in Nat \ {0} /\ clock <= clock'
    BY <2>1 DEF ClockInv
  <2>3. ASSUME NEW s \in RunId, s # r PROVE run'[s].at < clock'
    <3>1. CASE Marked(p)[s] = run[s]
      BY <2>1, <2>2, <2>3, <3>1, TimesAreNat DEF ClockInv
    <3>2. CASE Marked(p)[s] # run[s]
      <4>1. Marked(p)[s].at = clock /\ clock' = clock + 1
        BY <2>1, <3>2, MarkedRun
      <4> QED
        BY <2>1, <2>3, <4>1 DEF ClockInv
    <3> QED
      BY <3>1, <3>2
  <2> QED
    BY <2>1, <2>2, <2>3 DEF ClockInv
<1>3. ASSUME NEW p \in Importer, SkipConsolidated(p) PROVE ClockInv'
  <2>1. PICK r \in RunId :
           /\ run'[r].at = clock /\ \A s \in RunId : s # r => run'[s] = run[s]
           /\ clock' = clock + 1
    BY <1>3, ConsolidatedRun
  <2> QED
    BY <2>1, TimesAreNat DEF ClockInv
<1>4. ASSUME NEW p \in Importer, CompleteSuccess(p) \/ CompleteFailure(p) PROVE ClockInv'
  <2>1. PICK r \in RunId :
           /\ run'[r].at = clock /\ \A s \in RunId : s # r => run'[s] = run[s]
           /\ clock' = clock + 1
    BY <1>4, CompletedRun
  <2> QED
    BY <2>1, TimesAreNat DEF ClockInv
<1> QED
  BY <1>1, <1>2, <1>3, <1>4, RunSteps

LEMMA ClockAlways == Spec => []ClockInv
<1>1. Init => ClockInv
  BY DEF Init, ClockInv, NoRunRow
<1>2. TypeOK /\ ProcessInv /\ ClockInv /\ [Next]_vars => ClockInv'
  BY ClockStep
<1> QED
  BY <1>1, <1>2, TypeCorrect, ProcessCorrect, PTL DEF Spec

-----------------------------------------------------------------------------
(***************************************************************************)
(* Entity states.  That a stale state's run dirties the checkpoint is not  *)
(* inductive: the run must have failed after every success of the entity,  *)
(* of which the checkpoint is one.                                         *)
(***************************************************************************)
\* The run an entity state belongs to imports the entity, and is running or failed after all
\* of the entity's successes.
StaleState(e) ==
    entityState[e].active # NoRun =>
        /\ Selects(run, entityState[e].active, e)
        /\ \/ Running(entityState[e].active)
           \/ /\ run[entityState[e].active].status = "failed"
              /\ \A c \in Successes(run, e) : Later(run, entityState[e].active, c)

StaleInv == \A e \in EntityType : StaleState(e)

\* A state stays good while its run and the entity's successes are not touched.
LEMMA StaleKept ==
    ASSUME NEW e \in EntityType, StaleState(e), entityState'[e] = entityState[e],
           NEW a, a = entityState[e].active,
           a # NoRun => run'[a] = run[a],
           \A c \in Successes(run', e) : c \in Successes(run, e) /\ run'[c] = run[c]
    PROVE  StaleState(e)'
<1>1. CASE a = NoRun
  BY <1>1 DEF StaleState
<1>2. CASE a # NoRun
  <2>1. Selects(run', a, e)
    BY <1>2 DEF StaleState, Selects
  <2>2. CASE Running(a)
    BY <1>2, <2>1, <2>2 DEF StaleState, Running
  <2>3. CASE run[a].status = "failed" /\ \A c \in Successes(run, e) : Later(run, a, c)
    <3>1. run'[a].status = "failed" /\ \A c \in Successes(run', e) : Later(run', a, c)
      BY <1>2, <2>3 DEF Later
    <3> QED
      BY <2>1, <3>1 DEF StaleState
  <2> QED
    BY <1>2, <2>2, <2>3 DEF StaleState
<1> QED
  BY <1>1, <1>2

\* Admission: the entities of the run are its own, the run of any other was left alone or
\* fails now.
LEMMA StaleAdmit ==
    ASSUME TypeOK, ProcessInv, ClockInv, StaleInv, NEW p \in Importer, Admit(p)
    PROVE  StaleInv'
<1> DEFINE S == DOMAIN req[p].manifest
<1>1. PICK r \in RunId :
         /\ run[r].status = "absent" /\ ~Running(r)
         /\ run'[r].status = "running" /\ run'[r].manifest = req[p].manifest
         /\ \A s \in RunId : s # r => run'[s] = Marked(p)[s]
         /\ entityState' = StatesImporting(r, S)
  BY AdmittedRun
<1>2. ASSUME NEW e \in S PROVE StaleState(e)'
  <2>1. e \in EntityType
    BY <1>2, RequestFacts DEF Admit
  <2>2. entityState'[e].active = r
    <3>1. entityState[e] \in EntityStateRow
      BY <2>1 DEF TypeOK
    <3>2. entityState'[e] = [entityState[e] EXCEPT
                               !.status = "importing", !.active = r,
                               !.operation = IF entityState[e].last = NoRun THEN "bootstrap" ELSE "refresh"]
      BY <1>1, <1>2, <2>1 DEF StatesImporting
    <3> QED
      BY <3>1, <3>2 DEF EntityStateRow
  <2> QED
    BY <1>1, <1>2, <2>2 DEF StaleState, Selects, Running
<1>3. ASSUME NEW e \in EntityType \ S PROVE StaleState(e)'
  <2> DEFINE a == entityState[e].active
  <2>1. entityState'[e] = entityState[e] /\ a \in RunId \cup {NoRun}
    BY <1>1, <1>3 DEF StatesImporting, TypeOK, EntityStateRow
  <2>2. StaleState(e)
    BY DEF StaleInv
  <2>3. a # NoRun => a \in RunId /\ a # r
    BY <1>1, <2>1, <2>2 DEF StaleState, Running
  <2>4. \A c \in Successes(run', e) : c \in Successes(run, e) /\ run'[c] = run[c]
    <3> SUFFICES ASSUME NEW c \in Successes(run', e) PROVE c \in Successes(run, e) /\ run'[c] = run[c]
      OBVIOUS
    <3>1. c \in RunId /\ c # r /\ run'[c] = Marked(p)[c]
      BY <1>1 DEF Successes
    <3>2. c \in Successes(Marked(p), e)
      BY <3>1 DEF Successes, Selects
    <3> QED
      BY <3>1, <3>2, MarkedSuccesses
  <2>5. CASE a # NoRun /\ Marked(p)[a] # run[a]
    <3>1. /\ a \in RunId /\ run'[a].status = "failed" /\ run'[a].at = clock
          /\ run'[a].manifest = run[a].manifest
      <4>1. a \in RunId /\ run'[a] = Marked(p)[a]
        BY <1>1, <2>3, <2>5
      <4> HIDE DEF a
      <4>2. /\ Marked(p)[a].status = "failed" /\ Marked(p)[a].at = clock
            /\ Marked(p)[a].manifest = run[a].manifest
        BY <2>5, <4>1, MarkedRun
      <4> QED
        BY <4>1, <4>2
    <3>2. \A c \in Successes(run', e) : Later(run', a, c)
      <4> SUFFICES ASSUME NEW c \in Successes(run', e) PROVE Later(run', a, c)
        OBVIOUS
      <4>1. c \in RunId /\ run'[c] = run[c]
        BY <2>4 DEF Successes
      <4>2. run[c].at < clock /\ run[c].at \in Nat /\ clock \in Nat
        BY <4>1, TimesAreNat DEF ClockInv
      <4> QED
        BY <3>1, <4>1, <4>2 DEF Later
    <3>3. Selects(run', a, e)
      BY <2>2, <2>5, <3>1 DEF StaleState, Selects
    <3> HIDE DEF a
    <3>4. entityState'[e].active = a
      BY <2>1 DEF a
    <3> QED
      BY <3>1, <3>2, <3>3, <3>4 DEF StaleState
  <2>6. CASE a = NoRun \/ Marked(p)[a] = run[a]
    <3>1. a # NoRun => run'[a] = run[a]
      BY <1>1, <2>3, <2>6
    <3> QED
      BY <2>1, <2>2, <2>4, <3>1, StaleKept
  <2> QED
    BY <2>5, <2>6
<1> QED
  BY <1>2, <1>3 DEF StaleInv

\* The end of a run clears its entities' states, and concerns no other entity.
LEMMA StaleEnd ==
    ASSUME TypeOK, StaleInv, NEW r \in RunId, NEW S, run'[r].manifest = run[r].manifest \/ ~Running(r),
           DOMAIN run'[r].manifest = S, run[r].status \in {"absent", "running"},
           \A s \in RunId : s # r => run'[s] = run[s],
           \A e \in S \cap EntityType : entityState'[e].active = NoRun,
           \A e \in EntityType \ S : entityState'[e] = entityState[e]
    PROVE  StaleInv'
<1>1. ASSUME NEW e \in S \cap EntityType PROVE StaleState(e)'
  BY <1>1 DEF StaleState
<1>2. ASSUME NEW e \in EntityType \ S PROVE StaleState(e)'
  <2> DEFINE a == entityState[e].active
  <2>1. StaleState(e) /\ a \in RunId \cup {NoRun}
    BY DEF StaleInv, TypeOK, EntityStateRow
  <2>2. a # NoRun => a # r
    BY <1>2, <2>1 DEF StaleState, Selects, Running
  <2>3. \A c \in Successes(run', e) : c \in Successes(run, e) /\ run'[c] = run[c]
    BY <1>2 DEF Successes, Selects
  <2>4. a # NoRun => run'[a] = run[a]
    BY <2>1, <2>2
  <2> QED
    BY <1>2, <2>1, <2>3, <2>4, StaleKept
<1> QED
  BY <1>1, <1>2 DEF StaleInv

\* Every step keeps the entity states' runs good.
LEMMA StaleStep ==
    ASSUME TypeOK, ProcessInv, ClockInv, StaleInv, [Next]_vars
    PROVE  StaleInv'
<1>1. ASSUME NEW p \in Importer, SkipExact(p) PROVE StaleInv'
  <2>1. run' = run
    BY <1>1, SatisfiedMarksNothing DEF SkipExact
  <2>2. ASSUME NEW e \in DOMAIN req[p].manifest \cap EntityType PROVE StaleState(e)'
    <3>1. entityState'[e].active = NoRun
      BY <1>1, <2>2 DEF SkipExact, StatesReady
    <3> QED
      BY <3>1 DEF StaleState
  <2>3. ASSUME NEW e \in EntityType \ DOMAIN req[p].manifest PROVE StaleState(e)'
    <3>1. entityState'[e] = entityState[e]
      BY <1>1, <2>3 DEF SkipExact, StatesReady
    <3> QED
      BY <2>1, <3>1 DEF StaleInv, StaleState, Running, Selects, Successes, Later
  <2> QED
    BY <2>2, <2>3 DEF StaleInv
<1>2. ASSUME NEW p \in Importer, SkipConsolidated(p) PROVE StaleInv'
  <2>1. PICK r \in RunId :
           /\ run[r].status = "absent" /\ ~Running(r)
           /\ run'[r].status = "success" /\ run'[r].manifest = req[p].manifest
           /\ \A s \in RunId : s # r => run'[s] = run[s]
           /\ entityState' = StatesReady(r, DOMAIN req[p].manifest)
    BY <1>2, ConsolidatedRun
  <2> DEFINE S == DOMAIN req[p].manifest
  <2>2. /\ \A e \in S \cap EntityType : entityState'[e].active = NoRun
        /\ \A e \in EntityType \ S : entityState'[e] = entityState[e]
    BY <2>1 DEF StatesReady
  <2> QED
    BY <2>1, <2>2, StaleEnd
<1>3. ASSUME NEW p \in Importer, CompleteSuccess(p) \/ CompleteFailure(p) PROVE StaleInv'
  <2>1. PICK r \in RunId :
           /\ Running(r) /\ run'[r].manifest = run[r].manifest
           /\ \A s \in RunId : s # r => run'[s] = run[s]
           /\ \/ entityState' = StatesReady(r, DOMAIN run[r].manifest)
              \/ entityState' = StatesFailed(DOMAIN run[r].manifest)
    BY <1>3, CompletedRun
  <2> DEFINE S == DOMAIN run[r].manifest
  <2>2. /\ \A e \in S \cap EntityType : entityState'[e].active = NoRun
        /\ \A e \in EntityType \ S : entityState'[e] = entityState[e]
    <3>1. CASE entityState' = StatesReady(r, S)
      BY <3>1 DEF StatesReady
    <3>2. CASE entityState' = StatesFailed(S)
      <4>1. ASSUME NEW e \in EntityType
            PROVE  /\ entityState[e] \in EntityStateRow
                   /\ entityState'[e] = IF e \in S
                                        THEN [entityState[e] EXCEPT !.status = "failed", !.active = NoRun]
                                        ELSE entityState[e]
        BY <3>2 DEF StatesFailed, TypeOK
      <4> QED
        BY <4>1 DEF EntityStateRow
    <3> QED
      BY <2>1, <3>1, <3>2
  <2>3. run[r].status = "running"
    BY <2>1 DEF Running
  <2> QED
    BY <2>1, <2>2, <2>3, StaleEnd
<1>4. ASSUME NEW p \in Importer, Admit(p) PROVE StaleInv'
  BY <1>4, StaleAdmit
<1>5. CASE UNCHANGED <<run, entityState>>
  BY <1>5 DEF StaleInv, StaleState, Running, Selects, Successes, Later
<1>6. UNCHANGED tables => UNCHANGED <<run, entityState>>
  BY DEF tables
<1>7. \A p \in Importer : CompleteEntity(p) => UNCHANGED <<run, entityState>>
  BY DEF CompleteEntity
<1>8. \A p \in Importer : \A c : CommitChunk(p, c) => UNCHANGED <<run, entityState>>
  BY DEF CommitChunk
<1> QED
  BY <1>1, <1>2, <1>3, <1>4, <1>5, <1>6, <1>7, <1>8, TableSteps

\* A catalog state that a dead run left behind makes no later admission fail: if its run is
\* not running, the failure dirties the checkpoint, so no skip is tried and admission takes
\* the entity over.
THEOREM StaleStatesAreTakenOver == Spec => []StaleStateForcesImport
<1>1. Init => StaleInv
  BY DEF Init, StaleInv, StaleState
<1>2. TypeOK /\ ProcessInv /\ ClockInv /\ StaleInv /\ [Next]_vars => StaleInv'
  BY StaleStep
<1>3. TypeOK /\ StaleInv => StaleStateForcesImport
  <2> SUFFICES ASSUME TypeOK, StaleInv, NEW e \in EntityType,
                      NEW r, r = entityState[e].active, r # NoRun
               PROVE  /\ Selects(run, r, e)
                      /\ \/ Running(r)
                         \/ /\ run[r].status = "failed"
                            /\ Checkpoint(run, e) # NoRun => Dirtied(run, e, Checkpoint(run, e))
    BY DEF StaleStateForcesImport
  <2>1. r \in RunId
    BY DEF TypeOK, EntityStateRow
  <2>2. /\ Selects(run, r, e)
        /\ \/ Running(r)
           \/ run[r].status = "failed" /\ \A c \in Successes(run, e) : Later(run, r, c)
    BY DEF StaleInv, StaleState
  <2>3. Checkpoint(run, e) # NoRun => Checkpoint(run, e) \in Successes(run, e)
    BY CheckpointFacts DEF TypeOK
  <2> QED
    BY <2>1, <2>2, <2>3 DEF Dirtied
<1> QED
  BY <1>1, <1>2, <1>3, TypeCorrect, ProcessCorrect, ClockAlways, PTL DEF Spec

-----------------------------------------------------------------------------
(***************************************************************************)
(* Dates.  Admission compares a plan's dates with the checkpoints; what    *)
(* makes the comparison good until the run succeeds is that no checkpoint  *)
(* of its entities moves while it runs, because no other run of them does. *)
(***************************************************************************)
\* A run that may not downgrade an entity is not older than the entity's checkpoint.
NotOlder(T, r, e) ==
    T[r].status = "running" /\ Selects(T, r, e) /\ ~T[r].downgrade /\ Checkpoint(T, e) # NoRun
        => DumpDate[T[Checkpoint(T, e)].manifest[e]] <= DumpDate[T[r].manifest[e]]

DateInv == \A e \in EntityType : \A r \in RunId : NotOlder(run, r, e)

\* The dump of a run's entity has a date.
LEMMA DateTypes ==
    ASSUME TypeOK, NEW r \in RunId, NEW e, Selects(run, r, e)
    PROVE  run[r].manifest[e] \in Dump /\ DumpDate[run[r].manifest[e]] \in Nat /\ e \in EntityType
<1>1. run[r].manifest \in Manifest
  BY DEF TypeOK, RunRow
<1>2. run[r].manifest[e] \in Dump /\ e \in EntityType
  BY <1>1, ManifestFacts DEF Selects
<1> QED
  BY <1>2, ConstantsAssumption

\* A step that settles no run of an entity as successful leaves its checkpoint where it was.
LEMMA SameCheckpoint ==
    ASSUME TypeOK, TypeOK', NEW e, NEW r,
           \A s \in RunId : s # r /\ run'[s] # run[s] =>
               run[s].status # "success" /\ run'[s].status # "success",
           r \in RunId => /\ run[r].status # "success"
                          /\ run'[r].status # "success" \/ ~Selects(run', r, e)
    PROVE  /\ Checkpoint(run', e) = Checkpoint(run, e)
           /\ Checkpoint(run, e) # NoRun =>
                 run'[Checkpoint(run, e)] = run[Checkpoint(run, e)] /\ Checkpoint(run, e) \in RunId
<1>1. /\ Successes(run', e) = Successes(run, e)
      /\ \A s \in Successes(run, e) : run'[s] = run[s] /\ s \in RunId
  BY DEF Successes, Selects
<1>2. \A s \in RunId : run[s].at \in Nat /\ run'[s].at \in Nat
  BY DEF TypeOK, RunRow
<1>3. Checkpoint(run', e) = Checkpoint(run, e)
  BY <1>1, <1>2, CheckpointFrame
<1>4. Checkpoint(run, e) # NoRun => Checkpoint(run, e) \in Successes(run, e)
  BY CheckpointFacts DEF TypeOK
<1> QED
  BY <1>1, <1>3, <1>4

\* A run that succeeds now becomes the checkpoint of each of its entities.
LEMMA SuccessIsCheckpoint ==
    ASSUME TypeOK, TypeOK', ClockInv, NEW r \in RunId,
           run'[r].status = "success", run'[r].at = clock,
           \A s \in RunId : s # r => run'[s] = run[s],
           NEW e, Selects(run', r, e)
    PROVE  Checkpoint(run', e) = r
<1>1. r \in Successes(run', e)
  BY DEF Successes
<1>2. \A s \in Successes(run', e) \ {r} : run'[s].at < run'[r].at
  BY DEF Successes, ClockInv
<1>3. \A s \in RunId : run'[s].at \in Nat
  BY DEF TypeOK, RunRow
<1> QED
  BY <1>1, <1>2, <1>3, CheckpointNew

\* What a step does to the checkpoint of an entity.
LEMMA CheckpointSteps ==
    ASSUME TypeOK, TypeOK', ProcessInv, ClockInv, [Next]_vars, NEW e
    PROVE  \/ /\ Checkpoint(run', e) = Checkpoint(run, e)
              /\ Checkpoint(run, e) # NoRun =>
                    run'[Checkpoint(run, e)] = run[Checkpoint(run, e)] /\ Checkpoint(run, e) \in RunId
           \/ \E r \in RunId :
                 /\ Checkpoint(run', e) = r
                 /\ Running(r) /\ Selects(run, r, e)
                 /\ run'[r].manifest = run[r].manifest /\ run'[r].downgrade = run[r].downgrade
                 /\ run'[r].rev = run[r].rev
                 /\ \A s \in RunId : s # r => run'[s] = run[s]
           \/ \E r \in RunId :
                 /\ Checkpoint(run', e) = r
                 /\ Checkpoint(run, e) \in Successes(run, e)
                 /\ run'[r].manifest[e] = run[Checkpoint(run, e)].manifest[e]
                 /\ run'[r].rev[e] = run[Checkpoint(run, e)].rev[e]
                 /\ Selects(run', r, e) /\ run[r].status = "absent" /\ run'[r].status = "success"
                 /\ ~Dirtied(run, e, Checkpoint(run, e))
                 /\ \A s \in RunId : s # r => run'[s] = run[s]
<1>1. CASE UNCHANGED <<run, clock, runSeq>>
  BY <1>1, SameCheckpoint
<1>2. ASSUME NEW p \in Importer, Admit(p)
      PROVE  /\ Checkpoint(run', e) = Checkpoint(run, e)
             /\ Checkpoint(run, e) # NoRun =>
                   run'[Checkpoint(run, e)] = run[Checkpoint(run, e)] /\ Checkpoint(run, e) \in RunId
  <2>1. PICK r \in RunId :
           /\ run[r].status = "absent" /\ run'[r].status = "running"
           /\ \A s \in RunId : s # r => run'[s] = Marked(p)[s]
    BY <1>2, AdmittedRun
  <2>2. ASSUME NEW s \in RunId, s # r, run'[s] # run[s]
        PROVE  run[s].status # "success" /\ run'[s].status # "success"
    <3>1. run'[s] = Marked(p)[s]
      BY <2>1, <2>2
    <3>2. Running(s) /\ Marked(p)[s].status = "failed"
      BY <2>2, <3>1, MarkedRun
    <3> QED
      BY <3>1, <3>2 DEF Running
  <2> QED
    BY <2>1, <2>2, SameCheckpoint
<1>3. ASSUME NEW p \in Importer, CompleteFailure(p)
      PROVE  /\ Checkpoint(run', e) = Checkpoint(run, e)
             /\ Checkpoint(run, e) # NoRun =>
                   run'[Checkpoint(run, e)] = run[Checkpoint(run, e)] /\ Checkpoint(run, e) \in RunId
  <2>1. run[cur[p]].status = "running"
    BY <1>3 DEF CompleteFailure
  <2>2. PICK r \in RunId :
           /\ r = cur[p] /\ Running(r)
           /\ \A s \in RunId : s # r => run'[s] = run[s]
    BY <1>3, CompletedRun
  <2>3. run'[r].status = "failed"
    BY <1>3, <2>2 DEF CompleteFailure, TypeOK, RunRow
  <2> QED
    BY <2>2, <2>3, SameCheckpoint DEF Running
<1>4. ASSUME NEW p \in Importer, CompleteSuccess(p)
      PROVE  \/ /\ Checkpoint(run', e) = Checkpoint(run, e)
                /\ Checkpoint(run, e) # NoRun =>
                      run'[Checkpoint(run, e)] = run[Checkpoint(run, e)] /\ Checkpoint(run, e) \in RunId
             \/ \E r \in RunId :
                   /\ Checkpoint(run', e) = r
                   /\ Running(r) /\ Selects(run, r, e)
                   /\ run'[r].manifest = run[r].manifest /\ run'[r].downgrade = run[r].downgrade
                   /\ run'[r].rev = run[r].rev
                   /\ \A s \in RunId : s # r => run'[s] = run[s]
  <2>1. PICK r \in RunId :
           /\ r = cur[p] /\ Running(r) /\ run'[r].at = clock
           /\ run'[r].manifest = run[r].manifest /\ run'[r].downgrade = run[r].downgrade
           /\ run'[r].rev = run[r].rev
           /\ \A s \in RunId : s # r => run'[s] = run[s]
    BY <1>4, CompletedRun
  <2>2. run'[r].status = "success"
    BY <1>4, <2>1 DEF CompleteSuccess, TypeOK, RunRow
  <2>3. CASE Selects(run, r, e)
    <3>1. Checkpoint(run', e) = r
      BY <2>1, <2>2, <2>3, SuccessIsCheckpoint DEF Selects
    <3> QED
      BY <2>1, <2>3, <3>1
  <2>4. CASE ~Selects(run, r, e)
    <3>1. run[r].status # "success" /\ ~Selects(run', r, e)
      BY <2>1, <2>4 DEF Running, Selects
    <3> QED
      BY <2>1, <3>1, SameCheckpoint
  <2> QED
    BY <2>3, <2>4
<1>5. ASSUME NEW p \in Importer, SkipConsolidated(p)
      PROVE  \/ /\ Checkpoint(run', e) = Checkpoint(run, e)
                /\ Checkpoint(run, e) # NoRun =>
                      run'[Checkpoint(run, e)] = run[Checkpoint(run, e)] /\ Checkpoint(run, e) \in RunId
             \/ \E r \in RunId :
                   /\ Checkpoint(run', e) = r
                   /\ Checkpoint(run, e) \in Successes(run, e)
                   /\ run'[r].manifest[e] = run[Checkpoint(run, e)].manifest[e]
                   /\ run'[r].rev[e] = run[Checkpoint(run, e)].rev[e]
                   /\ Selects(run', r, e) /\ run[r].status = "absent" /\ run'[r].status = "success"
                   /\ ~Dirtied(run, e, Checkpoint(run, e))
                   /\ \A s \in RunId : s # r => run'[s] = run[s]
  <2>1. PICK r \in RunId :
           /\ run[r].status = "absent" /\ run'[r].status = "success" /\ run'[r].at = clock
           /\ run'[r].manifest = req[p].manifest /\ run'[r].rev = req[p].rev
           /\ \A s \in RunId : s # r => run'[s] = run[s]
    BY <1>5, ConsolidatedRun
  <2>2. CASE e \in DOMAIN req[p].manifest
    <3>1. Checkpoint(run', e) = r
      BY <2>1, <2>2, SuccessIsCheckpoint DEF Selects
    <3>2. /\ Checkpoint(run, e) \in Successes(run, e)
          /\ run[Checkpoint(run, e)].manifest[e] = req[p].manifest[e]
          /\ run[Checkpoint(run, e)].rev[e] = req[p].rev[e]
          /\ ~Dirtied(run, e, Checkpoint(run, e))
      BY <1>5, <2>2, SatisfiedMarksNothing DEF SkipConsolidated
    <3> QED
      BY <2>1, <2>2, <3>1, <3>2 DEF Selects
  <2>3. CASE e \notin DOMAIN req[p].manifest
    <3>1. ~Selects(run', r, e)
      BY <2>1, <2>3 DEF Selects
    <3> QED
      BY <2>1, <3>1, SameCheckpoint
  <2> QED
    BY <2>2, <2>3
<1> QED
  BY <1>1, <1>2, <1>3, <1>4, <1>5, RunSteps

\* A run is running because it was, or because it was admitted just now.
LEMMA RunningSteps ==
    ASSUME TypeOK, ProcessInv, ClockInv, [Next]_vars, NEW r \in RunId, Running(r)'
    PROVE  \/ Running(r) /\ run'[r] = run[r]
           \/ /\ run[r].status = "absent"
              /\ \E p \in Importer :
                    /\ Admit(p) /\ run'[r].manifest = req[p].manifest
                    /\ run'[r].rev = req[p].rev /\ run'[r].downgrade = req[p].downgrade
                    /\ run'[r].from = ResumeSource(Marked(p), req[p])
                    /\ r = runSeq + 1
<1>1. CASE UNCHANGED <<run, clock, runSeq>>
  BY <1>1 DEF Running
<1>2. ASSUME NEW p \in Importer, Admit(p)
      PROVE  \/ Running(r) /\ run'[r] = run[r]
             \/ /\ run[r].status = "absent"
                /\ run'[r].manifest = req[p].manifest
                /\ run'[r].rev = req[p].rev /\ run'[r].downgrade = req[p].downgrade
                /\ run'[r].from = ResumeSource(Marked(p), req[p])
                /\ r = runSeq + 1
  <2>1. PICK u \in RunId :
           /\ u = runSeq + 1 /\ run[u].status = "absent"
           /\ run'[u].manifest = req[p].manifest /\ run'[u].rev = req[p].rev
           /\ run'[u].downgrade = req[p].downgrade
           /\ run'[u].from = ResumeSource(Marked(p), req[p])
           /\ \A s \in RunId : s # u => run'[s] = Marked(p)[s]
    BY <1>2, AdmittedRun
  <2>2. CASE r = u
    BY <2>1, <2>2
  <2>3. CASE r # u
    <3>1. run'[r] = Marked(p)[r] /\ Marked(p)[r].status = "running"
      BY <2>1, <2>3 DEF Running
    <3>2. Marked(p)[r] = run[r]
      BY <3>1, MarkedRun
    <3> QED
      BY <3>1, <3>2 DEF Running
  <2> QED
    BY <2>2, <2>3
<1>3. ASSUME NEW p \in Importer, SkipConsolidated(p) PROVE Running(r) /\ run'[r] = run[r]
  <2>1. PICK u \in RunId :
           run'[u].status = "success" /\ \A s \in RunId : s # u => run'[s] = run[s]
    BY <1>3, ConsolidatedRun
  <2> QED
    BY <2>1 DEF Running
<1>4. ASSUME NEW p \in Importer, CompleteSuccess(p) \/ CompleteFailure(p)
      PROVE  Running(r) /\ run'[r] = run[r]
  <2>1. PICK u \in RunId :
           run'[u].status \in {"success", "failed"} /\ \A s \in RunId : s # u => run'[s] = run[s]
    BY <1>4, CompletedRun
  <2> QED
    BY <2>1 DEF Running
<1> QED
  BY <1>1, <1>2, <1>3, <1>4, RunSteps

\* The comparison of the dates stays good while the run runs.
LEMMA DateStep ==
    ASSUME TypeOK, TypeOK', ProcessInv, ClockInv, RunningRunsDisjoint, DateInv, [Next]_vars
    PROVE  DateInv'
<1> SUFFICES ASSUME NEW e \in EntityType, NEW r \in RunId PROVE NotOlder(run', r, e)
  BY DEF DateInv
<1> SUFFICES ASSUME run'[r].status = "running", Selects(run', r, e), ~run'[r].downgrade,
                    Checkpoint(run', e) # NoRun
             PROVE  DumpDate[run'[Checkpoint(run', e)].manifest[e]] <= DumpDate[run'[r].manifest[e]]
  BY DEF NotOlder
<1>1. CASE Running(r) /\ run'[r] = run[r]
  <2>1. Selects(run, r, e) /\ ~run[r].downgrade
    BY <1>1 DEF Selects
  <2>2. Checkpoint(run, e) # NoRun =>
           DumpDate[run[Checkpoint(run, e)].manifest[e]] <= DumpDate[run[r].manifest[e]]
    BY <1>1, <2>1 DEF DateInv, NotOlder, Running
  <2>3. ASSUME NEW u \in RunId, Checkpoint(run', e) = u, Running(u), Selects(run, u, e)
        PROVE  FALSE
    <3>1. u = r
      BY <1>1, <2>1, <2>3 DEF RunningRunsDisjoint, Selects
    <3>2. u \in Successes(run', e)
      BY <2>3, CheckpointFacts DEF TypeOK
    <3> QED
      BY <3>1, <3>2 DEF Successes, Running
  <2>4. ASSUME NEW u \in RunId, Checkpoint(run', e) = u,
               Checkpoint(run, e) \in Successes(run, e),
               run'[u].manifest[e] = run[Checkpoint(run, e)].manifest[e]
        PROVE  DumpDate[run'[u].manifest[e]] <= DumpDate[run'[r].manifest[e]]
    <3>1. Checkpoint(run, e) # NoRun
      BY <2>4, ConstantsAssumption DEF Successes, RunId, NoRun
    <3> QED
      BY <1>1, <2>2, <2>4, <3>1
  <2> QED
    BY <1>1, <2>2, <2>3, <2>4, CheckpointSteps
<1>2. ASSUME run[r].status = "absent",
             NEW p \in Importer, Admit(p), run'[r].manifest = req[p].manifest,
             run'[r].downgrade = req[p].downgrade
      PROVE  DumpDate[run'[Checkpoint(run', e)].manifest[e]] <= DumpDate[run'[r].manifest[e]]
  <2>1. run'[r] # run[r] /\ run'[r].status # "success" /\ ~Running(r)
    BY <1>2 DEF Running
  <2>2. /\ Checkpoint(run', e) = Checkpoint(run, e)
        /\ run'[Checkpoint(run, e)] = run[Checkpoint(run, e)]
    BY <2>1, CheckpointSteps
  <2>3. ~IsDowngrade(Marked(p), req[p])
    BY <1>2 DEF Admit, AdmissionRejected, DowngradeRefused
  <2>4. e \in DOMAIN req[p].manifest
    BY <1>2 DEF Selects
  <2>5. Checkpoint(Marked(p), e) = Checkpoint(run, e)
    BY MarkedSuccesses
  <2>6. Checkpoint(run, e) \in Successes(run, e)
    BY <2>2, CheckpointFacts DEF TypeOK
  <2>7. Marked(p)[Checkpoint(run, e)] = run[Checkpoint(run, e)]
    BY <2>6, MarkedSuccesses
  <2>8. ~(DumpDate[req[p].manifest[e]] < DumpDate[run[Checkpoint(run, e)].manifest[e]])
    BY <2>2, <2>3, <2>4, <2>5, <2>7 DEF IsDowngrade
  <2>9. DumpDate[run'[r].manifest[e]] \in Nat
    <3>1. req[p].manifest[e] \in Dump
      BY <1>2, <2>4, RequestFacts, ManifestFacts DEF Admit
    <3> QED
      BY <1>2, <3>1, ConstantsAssumption
  <2>10. DumpDate[run[Checkpoint(run, e)].manifest[e]] \in Nat
    BY <2>6, DateTypes DEF Successes
  <2> QED
    BY <1>2, <2>2, <2>8, <2>9, <2>10
<1>3. Running(r)'
  BY DEF Running
<1> QED
  BY <1>1, <1>2, <1>3, RunningSteps

\* assertNotDowngrade's comparison, made at admission, still holds when the run succeeds: an
\* entity's checkpoint moves to an older dump only by a run that was allowed to downgrade.
THEOREM CheckpointsNeverRegress == Spec => CheckpointNeverRegresses
<1> DEFINE Forward ==
      \A e \in EntityType :
          LET old == Checkpoint(run, e)
              new == Checkpoint(run', e)
          IN  old # NoRun =>
                  /\ new # NoRun
                  /\ \/ DumpDate[run[old].manifest[e]] <= DumpDate[run'[new].manifest[e]]
                     \/ run'[new].downgrade
<1>1. Init => DateInv
  <2>1. Init => \A r \in RunId : ~Running(r)
    BY DEF Init, Running, NoRunRow
  <2> QED
    BY <2>1 DEF DateInv, NotOlder, Running
<1>2. TypeOK /\ TypeOK' /\ ProcessInv /\ ClockInv /\ RunningRunsDisjoint /\ DateInv /\ [Next]_vars
         => DateInv'
  BY DateStep
<1>3. TypeOK /\ TypeOK' /\ ProcessInv /\ ClockInv /\ DateInv /\ [Next]_vars => [Forward]_vars
  <2> SUFFICES ASSUME TypeOK, TypeOK', ProcessInv, ClockInv, DateInv, [Next]_vars,
                      NEW e \in EntityType, Checkpoint(run, e) # NoRun
               PROVE  /\ Checkpoint(run', e) # NoRun
                      /\ \/ DumpDate[run[Checkpoint(run, e)].manifest[e]]
                               <= DumpDate[run'[Checkpoint(run', e)].manifest[e]]
                         \/ run'[Checkpoint(run', e)].downgrade
    OBVIOUS
  <2> DEFINE c == Checkpoint(run, e)
  <2>1. c \in RunId /\ Selects(run, c, e)
    BY CheckpointFacts DEF TypeOK, Successes
  <2>2. DumpDate[run[c].manifest[e]] \in Nat
    BY <2>1, DateTypes
  <2>3. \A r \in RunId : r # NoRun
    BY ConstantsAssumption DEF RunId, NoRun
  <2>4. ASSUME NEW r \in RunId, Checkpoint(run', e) = r, Running(r), Selects(run, r, e),
               run'[r].manifest = run[r].manifest, run'[r].downgrade = run[r].downgrade
        PROVE  \/ DumpDate[run[c].manifest[e]] <= DumpDate[run'[r].manifest[e]]
               \/ run'[r].downgrade
    BY <2>4 DEF DateInv, NotOlder, Running
  <2> HIDE DEF c
  <2>5. c = Checkpoint(run, e)
    BY DEF c
  <2>6. CASE Checkpoint(run', e) = c /\ run'[c] = run[c]
    <3>1. DumpDate[run[c].manifest[e]] <= DumpDate[run[c].manifest[e]]
      BY <2>2
    <3> QED
      BY <2>1, <2>3, <2>5, <2>6, <3>1
  <2>7. ASSUME NEW r \in RunId, Checkpoint(run', e) = r, run'[r].manifest[e] = run[c].manifest[e]
        PROVE  DumpDate[run[c].manifest[e]] <= DumpDate[run'[r].manifest[e]]
    BY <2>2, <2>7
  <2> QED
    BY <2>3, <2>4, <2>5, <2>6, <2>7, CheckpointSteps
<1>4. CheckpointNeverRegresses <=> [][Forward]_vars
  BY DEF CheckpointNeverRegresses
<1> QED
  BY <1>1, <1>2, <1>3, <1>4, TypeCorrect, ProcessCorrect, DisjointRuns, ClockAlways, PTL DEF Spec

-----------------------------------------------------------------------------
(***************************************************************************)
(* Sums over ledgers.  ItemSum folds the counts of a set of chunks in some *)
(* order; it does not depend on the order, so one chunk more adds its      *)
(* count.  Induction is on the cardinality, by the least counterexample.   *)
(***************************************************************************)
\* The fold of the community modules: the element taken first, and a step of the fold.
Pick(s) == CHOOSE x \in s : TRUE
SumStep(g, s) == IF s = {} THEN 0 ELSE Pick(s).count + g[s \ {Pick(s)}]
IsSum(f, C) == f = [s \in SUBSET C |-> SumStep(f, s)]
SumOver(C) == CHOOSE f : IsSum(f, C)

LEMMA SumUnfolds ==
    ASSUME NEW C
    PROVE  ItemSum(C) = SumOver(C)[C]
BY DEF ItemSum, MapThenSumSet, MapThenFoldSet, SumOver, IsSum, SumStep, Pick

\* A nonempty finite set loses one element when the first is taken.
LEMMA PickFacts ==
    ASSUME NEW C, IsFiniteSet(C), NEW s \in SUBSET C, s # {}
    PROVE  /\ Pick(s) \in s
           /\ s \ {Pick(s)} \in SUBSET C
           /\ Cardinality(s) \in Nat /\ Cardinality(s \ {Pick(s)}) \in Nat
           /\ Cardinality(s \ {Pick(s)}) = Cardinality(s) - 1
<1>1. IsFiniteSet(s)
  BY FS_Subset
<1>2. Pick(s) \in s
  BY DEF Pick
<1>3. IsFiniteSet(s \ {Pick(s)}) /\ Cardinality(s \ {Pick(s)}) = Cardinality(s) - 1
  BY <1>1, <1>2, FS_RemoveElement
<1> QED
  BY <1>1, <1>2, <1>3, FS_CardinalityType

\* The fold's recursion has a solution on the subsets of a finite set.
LEMMA SumExists ==
    ASSUME NEW C, IsFiniteSet(C)
    PROVE  IsSum(SumOver(C), C)
<1> DEFINE Upto(n) == \E g : \A s \in SUBSET C : Cardinality(s) <= n => g[s] = SumStep(g, s)
           Bad == {n \in Nat : ~Upto(n)}
<1>1. \A s \in SUBSET C : IsFiniteSet(s) /\ Cardinality(s) \in Nat
  BY FS_Subset, FS_CardinalityType
<1>2. Upto(0)
  <2> DEFINE g == [s \in SUBSET C |-> 0]
  <2>1. \A s \in SUBSET C : Cardinality(s) <= 0 => s = {}
    BY <1>1, FS_EmptySet
  <2>2. \A s \in SUBSET C : Cardinality(s) <= 0 => g[s] = SumStep(g, s)
    BY <2>1 DEF SumStep
  <2> QED
    BY <2>2
<1>3. ASSUME NEW n \in Nat, Upto(n) PROVE Upto(n + 1)
  <2>1. PICK g : \A s \in SUBSET C : Cardinality(s) <= n => g[s] = SumStep(g, s)
    BY <1>3
  <2> DEFINE h == [s \in SUBSET C |-> SumStep(g, s)]
  <2>2. ASSUME NEW s \in SUBSET C, Cardinality(s) <= n + 1 PROVE h[s] = SumStep(h, s)
    <3>1. CASE s = {}
      BY <3>1 DEF SumStep
    <3>2. CASE s # {}
      <4> DEFINE t == s \ {Pick(s)}
      <4>1. t \in SUBSET C /\ Cardinality(t) <= n
        BY <1>3, <2>2, <3>2, PickFacts
      <4>2. g[t] = SumStep(g, t)
        BY <2>1, <4>1
      <4>3. h[t] = g[t]
        BY <4>1, <4>2
      <4>4. h[s] = Pick(s).count + g[t]
        BY <3>2 DEF SumStep
      <4> QED
        BY <3>2, <4>3, <4>4 DEF SumStep
    <3> QED
      BY <3>1, <3>2
  <2> HIDE DEF h
  <2> QED
    BY <2>2
<1> HIDE DEF Upto
<1>4. Bad = {}
  <2> SUFFICES ASSUME Bad # {} PROVE FALSE
    OBVIOUS
  <2>1. PICK n \in Bad : \A m \in Bad : n <= m
    <3>1. Bad \in SUBSET Nat
      OBVIOUS
    <3> HIDE DEF Bad
    <3> QED
      BY <3>1, LeastNatural
  <2>2. n # 0 /\ n - 1 \in Nat /\ n - 1 \notin Bad
    BY <1>2, <2>1
  <2>3. Upto(n - 1)
    BY <2>2
  <2>4. Upto((n - 1) + 1)
    BY <1>3, <2>2, <2>3
  <2>5. (n - 1) + 1 = n
    BY <2>1
  <2> QED
    BY <2>1, <2>4, <2>5
<1>5. PICK g : \A s \in SUBSET C : Cardinality(s) <= Cardinality(C) => g[s] = SumStep(g, s)
  <2>1. Cardinality(C) \in Nat
    BY <1>1
  <2> QED
    BY <1>4, <2>1 DEF Upto
<1> DEFINE f == [s \in SUBSET C |-> g[s]]
<1>6. ASSUME NEW s \in SUBSET C PROVE f[s] = SumStep(f, s)
  <2>1. g[s] = SumStep(g, s)
    BY <1>5, FS_Subset
  <2>2. s # {} => s \ {Pick(s)} \in SUBSET C
    OBVIOUS
  <2> QED
    BY <2>1, <2>2 DEF SumStep
<1>7. IsSum(f, C)
  BY <1>6 DEF IsSum
<1> HIDE DEF f
<1> QED
  BY <1>7 DEF SumOver

\* The solutions for a set and for a subset of it agree on the subset.
LEMMA SumRestricts ==
    ASSUME NEW C, IsFiniteSet(C), NEW D \in SUBSET C
    PROVE  \A s \in SUBSET D : SumOver(C)[s] = SumOver(D)[s]
<1> DEFINE Differ == {s \in SUBSET D : SumOver(C)[s] # SumOver(D)[s]}
           Bad == {Cardinality(s) : s \in Differ}
<1> SUFFICES ASSUME Differ # {} PROVE FALSE
  OBVIOUS
<1>1. IsFiniteSet(D) /\ SUBSET D \subseteq SUBSET C
  BY FS_Subset
<1>2. /\ \A s \in SUBSET C : SumOver(C)[s] = SumStep(SumOver(C), s)
      /\ \A s \in SUBSET D : SumOver(D)[s] = SumStep(SumOver(D), s)
  <2>1. IsSum(SumOver(C), C) /\ IsSum(SumOver(D), D)
    BY <1>1, SumExists
  <2> QED
    BY <2>1, Zenon DEF IsSum
<1>3. Bad \in SUBSET Nat /\ Bad # {}
  BY <1>1, FS_Subset, FS_CardinalityType
<1>4. PICK n \in Bad : \A m \in Bad : n <= m
  <2> HIDE DEF Bad
  <2> QED
    BY <1>3, LeastNatural
<1>5. PICK s \in Differ : Cardinality(s) = n
  BY <1>4
<1>6. s # {}
  BY <1>1, <1>2, <1>5 DEF SumStep
<1> DEFINE t == s \ {Pick(s)}
<1>7. t \in SUBSET D /\ Cardinality(t) = n - 1 /\ n \in Nat
  BY <1>1, <1>5, <1>6, PickFacts
<1>8. t \notin Differ
  <2>1. n - 1 \notin Bad
    BY <1>4, <1>7
  <2> QED
    BY <1>7, <2>1
<1>9. SumOver(C)[t] = SumOver(D)[t]
  BY <1>7, <1>8
<1>10. SumOver(C)[s] = SumOver(D)[s]
  BY <1>1, <1>2, <1>5, <1>6, <1>9 DEF SumStep
<1> QED
  BY <1>5, <1>10

\* The sum of a ledger is the count of the chunk taken first and the sum of the others.
LEMMA SumPick ==
    /\ ItemSum({}) = 0
    /\ \A C : IsFiniteSet(C) /\ C # {} => ItemSum(C) = Pick(C).count + ItemSum(C \ {Pick(C)})
<1>1. \A C : IsFiniteSet(C) => SumOver(C)[C] = SumStep(SumOver(C), C)
  <2> SUFFICES ASSUME NEW C, IsFiniteSet(C) PROVE SumOver(C)[C] = SumStep(SumOver(C), C)
    OBVIOUS
  <2>1. IsSum(SumOver(C), C)
    BY SumExists
  <2>2. C \in SUBSET C
    OBVIOUS
  <2> QED
    BY <2>1, <2>2, Zenon DEF IsSum
<1>2. ItemSum({}) = 0
  <2>1. SumOver({})[{}] = 0
    BY <1>1, FS_EmptySet DEF SumStep
  <2> QED
    BY <2>1, SumUnfolds
<1>3. ASSUME NEW C, IsFiniteSet(C), C # {}
      PROVE  ItemSum(C) = Pick(C).count + ItemSum(C \ {Pick(C)})
  <2> DEFINE D == C \ {Pick(C)}
  <2>1. SumOver(C)[C] = Pick(C).count + SumOver(C)[D]
    BY <1>1, <1>3 DEF SumStep
  <2>2. SumOver(C)[D] = SumOver(D)[D]
    BY <1>3, SumRestricts
  <2>3. ItemSum(C) = SumOver(C)[C] /\ ItemSum(D) = SumOver(D)[D]
    BY SumUnfolds
  <2> QED
    BY <2>1, <2>2, <2>3
<1> QED
  BY <1>2, <1>3

\* Counts are natural numbers, so sums of them are.
LEMMA SumNat ==
    ASSUME NEW C, IsFiniteSet(C), \A c \in C : c.count \in Nat
    PROVE  ItemSum(C) \in Nat
<1> DEFINE Wrong == {s \in SUBSET C : ItemSum(s) \notin Nat}
           Bad == {Cardinality(s) : s \in Wrong}
<1> SUFFICES ASSUME Wrong # {} PROVE FALSE
  OBVIOUS
<1>1. \A s \in SUBSET C : IsFiniteSet(s) /\ Cardinality(s) \in Nat
  BY FS_Subset, FS_CardinalityType
<1>2. Bad \in SUBSET Nat /\ Bad # {}
  BY <1>1
<1>3. PICK n \in Bad : \A m \in Bad : n <= m
  <2> HIDE DEF Bad
  <2> QED
    BY <1>2, LeastNatural
<1>4. PICK s \in SUBSET C : s \in Wrong /\ Cardinality(s) = n
  BY <1>3
<1>5. s # {}
  <2>1. ItemSum(s) \notin Nat
    BY <1>4
  <2>2. ItemSum({}) \in Nat
    BY SumPick
  <2> QED
    BY <2>1, <2>2
<1> DEFINE t == s \ {Pick(s)}
<1>6. t \in SUBSET C /\ Cardinality(t) = n - 1 /\ n \in Nat /\ Pick(s) \in C
  BY <1>4, <1>5, PickFacts
<1>7. n - 1 \notin Bad
  BY <1>3, <1>6
<1>8. ItemSum(t) \in Nat
  BY <1>6, <1>7
<1>9. ItemSum(s) = Pick(s).count + ItemSum(t)
  BY <1>1, <1>4, <1>5, SumPick
<1>10. Pick(s).count \in Nat
  BY <1>6
<1> HIDE DEF t
<1>11. ItemSum(s) \in Nat
  BY <1>8, <1>9, <1>10
<1> QED
  BY <1>4, <1>11

\* One chunk more adds its count.
LEMMA SumAdd ==
    ASSUME NEW C, IsFiniteSet(C), \A c \in C : c.count \in Nat,
           NEW d, d \notin C, d.count \in Nat
    PROVE  ItemSum(C \cup {d}) = ItemSum(C) + d.count
<1> DEFINE E == C \cup {d}
           Wrong == {s \in SUBSET E : \E x \in E \ s : ItemSum(s \cup {x}) # ItemSum(s) + x.count}
           Bad == {Cardinality(s) : s \in Wrong}
<1> SUFFICES ASSUME Wrong # {} PROVE FALSE
  OBVIOUS
<1>1. IsFiniteSet(E) /\ \A c \in E : c.count \in Nat
  BY FS_AddElement
<1> HIDE DEF E
<1>2. \A s \in SUBSET E : IsFiniteSet(s) /\ Cardinality(s) \in Nat /\ ItemSum(s) \in Nat
  BY <1>1, FS_Subset, FS_CardinalityType, SumNat
<1>3. Bad \in SUBSET Nat /\ Bad # {}
  BY <1>2
<1>4. PICK n \in Bad : \A m \in Bad : n <= m
  <2> HIDE DEF Bad
  <2> QED
    BY <1>3, LeastNatural
<1>5. PICK s \in SUBSET E : s \in Wrong /\ Cardinality(s) = n
  BY <1>4
<1>6. PICK x \in E \ s : ItemSum(s \cup {x}) # ItemSum(s) + x.count
  BY <1>5
<1> DEFINE u == s \cup {x}
           y == Pick(u)
<1>7. u \in SUBSET E /\ u # {} /\ y \in u /\ IsFiniteSet(u)
  <2>1. u \in SUBSET E /\ u # {}
    BY <1>5, <1>6
  <2> HIDE DEF u
  <2> QED
    BY <1>1, <2>1, FS_Subset, PickFacts
<1>8. ItemSum(u) = y.count + ItemSum(u \ {y})
  BY <1>7, SumPick
<1>9. CASE y = x
  <2>1. u \ {y} = s
    BY <1>6, <1>9
  <2> HIDE DEF u, y
  <2>2. x.count \in Nat /\ ItemSum(s) \in Nat
    BY <1>1, <1>2, <1>6
  <2>3. ItemSum(u) = ItemSum(s) + x.count
    BY <1>8, <1>9, <2>1, <2>2
  <2> QED
    BY <1>6, <2>3 DEF u
<1>10. CASE y # x
  <2> DEFINE t == s \ {y}
  <2>1. y \in s /\ u \ {y} = t \cup {x} /\ t \cup {y} = s /\ t \in SUBSET E /\ y \in E \ t /\ x \in E \ t
    BY <1>6, <1>7, <1>10
  <2>2. Cardinality(t) = n - 1 /\ n \in Nat
    <3>1. IsFiniteSet(s) /\ Cardinality(s) = n /\ n \in Nat
      BY <1>2, <1>5
    <3> HIDE DEF Wrong, Bad, u, y
    <3> QED
      BY <2>1, <3>1, FS_RemoveElement
  <2>3. n - 1 \notin Bad
    BY <1>4, <2>2
  <2>4. t \notin Wrong
    BY <2>2, <2>3
  <2> HIDE DEF Bad, u, y
  <2>5. ItemSum(t \cup {x}) = ItemSum(t) + x.count /\ ItemSum(t \cup {y}) = ItemSum(t) + y.count
    BY <2>1, <2>4
  <2>6. x.count \in Nat /\ y.count \in Nat /\ ItemSum(t) \in Nat
    BY <1>1, <1>2, <2>1
  <2> HIDE DEF Wrong
  <2>7. ItemSum(u) = y.count + (ItemSum(t) + x.count) /\ ItemSum(s) = ItemSum(t) + y.count
    BY <1>8, <2>1, <2>5
  <2> HIDE DEF t
  <2>8. ItemSum(u) = ItemSum(s) + x.count
    BY <2>6, <2>7
  <2> QED
    BY <1>6, <2>8 DEF u
<1> QED
  BY <1>9, <1>10

\* Chunks moved to another run keep their sum.
LEMMA SumMoves ==
    ASSUME NEW C \in SUBSET RunChunkRow, IsFiniteSet(C),
           NEW src, \A c \in C : c.run = src, NEW r \in RunId
    PROVE  /\ IsFiniteSet({[c EXCEPT !.run = r] : c \in C})
           /\ ItemSum({[c EXCEPT !.run = r] : c \in C}) = ItemSum(C)
<1> DEFINE Moved(s) == {[c EXCEPT !.run = r] : c \in s}
           Good(s) == IsFiniteSet(Moved(s)) /\ ItemSum(Moved(s)) = ItemSum(s)
           Wrong == {s \in SUBSET C : ~Good(s)}
           Bad == {Cardinality(s) : s \in Wrong}
<1> SUFFICES ASSUME Wrong # {} PROVE FALSE
  OBVIOUS
<1>1. \A s \in SUBSET C : IsFiniteSet(s) /\ Cardinality(s) \in Nat
  BY FS_Subset, FS_CardinalityType
<1>2. Bad \in SUBSET Nat /\ Bad # {}
  BY <1>1
<1>3. PICK n \in Bad : \A m \in Bad : n <= m
  <2> HIDE DEF Bad
  <2> QED
    BY <1>2, LeastNatural
<1>4. PICK s \in SUBSET C : s \in Wrong /\ Cardinality(s) = n
  BY <1>3
<1>5. s # {}
  <2>1. Moved({}) = {}
    OBVIOUS
  <2> QED
    BY <1>4, <2>1, FS_EmptySet
<1>6. PICK x \in s : TRUE
  BY <1>5
<1> DEFINE t == s \ {x}
<1>7. t \in SUBSET C /\ Cardinality(t) = n - 1 /\ n \in Nat /\ IsFiniteSet(t) /\ x \notin t /\ t \cup {x} = s
  BY <1>1, <1>4, <1>6, FS_RemoveElement
<1>8. Good(t)
  <2>1. n - 1 \notin Bad
    <3> HIDE DEF Bad, t
    <3>1. n - 1 < n
      BY <1>7
    <3> QED
      BY <1>3, <1>7, <3>1
  <2> QED
    BY <1>7, <2>1
<1> DEFINE y == [x EXCEPT !.run = r]
<1>9. y.count = x.count /\ x.count \in Nat /\ \A c \in t : c.count \in Nat
  BY <1>7 DEF RunChunkRow
<1>10. \A c \in Moved(t) : c.count \in Nat
  BY <1>7 DEF RunChunkRow
<1>11. y \notin Moved(t)
  <2> SUFFICES ASSUME NEW c \in t, [c EXCEPT !.run = r] = [x EXCEPT !.run = r] PROVE FALSE
    OBVIOUS
  <2>1. c \in RunChunkRow /\ x \in RunChunkRow /\ c.run = x.run
    BY <1>7
  <2>2. /\ c.entity = x.entity /\ c.index = x.index /\ c.first = x.first /\ c.count = x.count
    <3>1. /\ [c EXCEPT !.run = r].entity = c.entity /\ [x EXCEPT !.run = r].entity = x.entity
          /\ [c EXCEPT !.run = r].index = c.index /\ [x EXCEPT !.run = r].index = x.index
          /\ [c EXCEPT !.run = r].first = c.first /\ [x EXCEPT !.run = r].first = x.first
          /\ [c EXCEPT !.run = r].count = c.count /\ [x EXCEPT !.run = r].count = x.count
      BY <2>1 DEF RunChunkRow
    <3> QED
      BY <3>1
  <2>3. c = x
    BY <2>1, <2>2 DEF RunChunkRow
  <2> QED
    BY <1>7, <2>3
<1>12. Moved(s) = Moved(t) \cup {y}
  BY <1>7
<1> HIDE DEF Moved, y, t
<1>13. ItemSum(Moved(s)) = ItemSum(Moved(t)) + y.count /\ IsFiniteSet(Moved(s))
  BY <1>8, <1>9, <1>10, <1>11, <1>12, SumAdd, FS_AddElement
<1>14. ItemSum(s) = ItemSum(t) + x.count
  BY <1>7, <1>9, SumAdd
<1>15. ItemSum(Moved(s)) = ItemSum(s)
  BY <1>8, <1>9, <1>13, <1>14
<1> QED
  BY <1>4, <1>13, <1>15

-----------------------------------------------------------------------------
(* Windows.  Chunks of different index never overlap, and as many of them as there are
   windows tile the dump. *)

\* The windows of one size that begin at different multiples of it are disjoint.
LEMMA WindowsAreDisjoint ==
    ASSUME NEW size \in Nat \ {0}, NEW i \in Nat, NEW j \in Nat, i # j,
           NEW m \in Nat \ {0}, m <= size, NEW n \in Nat \ {0}, n <= size
    PROVE  (i * size)..(i * size + m - 1) \cap (j * size)..(j * size + n - 1) = {}
<1>1. \A a, b \in Nat : a < b => a * size + size <= b * size
  <2> SUFFICES ASSUME NEW a \in Nat, NEW b \in Nat, a < b PROVE a * size + size <= b * size
    OBVIOUS
  <2>1. PICK d \in Nat : b = a + 1 + d
    <3>1. b - a - 1 \in Nat /\ b = a + 1 + (b - a - 1)
      OBVIOUS
    <3> QED
      BY <3>1
  <2>2. b * size = a * size + size + d * size
    BY <2>1
  <2>3. d * size \in Nat /\ a * size \in Nat
    OBVIOUS
  <2> QED
    BY <2>2, <2>3
<1>2. i * size \in Nat /\ j * size \in Nat
  OBVIOUS
<1>3. CASE i < j
  <2>1. i * size + size <= j * size
    BY <1>1, <1>3
  <2> QED
    BY <1>2, <2>1
<1>4. CASE j < i
  <2>1. j * size + size <= i * size
    BY <1>1, <1>4
  <2> QED
    BY <1>2, <2>1
<1> QED
  BY <1>3, <1>4

\* Division with remainder.
LEMMA Quotient ==
    ASSUME NEW x \in Nat, NEW size \in Nat \ {0}
    PROVE  /\ x \div size \in Nat
           /\ size * (x \div size) <= x
           /\ x < size * (x \div size) + size
<1>1. x \div size \in Nat
  OBVIOUS
<1>2. size * (x \div size) <= x
  OBVIOUS
<1>3. x < size * (x \div size) + size
  OBVIOUS
<1> QED
  BY <1>1, <1>2, <1>3

\* The number of windows is the least whose windows reach the end of the dump.
LEMMA WindowCount ==
    ASSUME NEW items \in Nat, NEW size \in Nat \ {0}, NEW n, n = (items + size - 1) \div size
    PROVE  n \in Nat /\ items <= n * size /\ n * size <= items + size - 1
<1>1. PICK x \in Nat : x = items + size - 1
  OBVIOUS
<1>2. n \in Nat /\ size * n <= x /\ x < size * n + size
  BY <1>1, Quotient
<1>3. size * n = n * size /\ n * size \in Nat
  BY <1>2
<1> QED
  BY <1>1, <1>2, <1>3

\* Multiplication distributes.
LEMMA MultipleOfSum ==
    ASSUME NEW a \in Nat, NEW d \in Nat, NEW size \in Nat
    PROVE  /\ (a + d) * size = a * size + d * size
           /\ a * size \in Nat /\ d * size \in Nat
OBVIOUS

\* A set of numbers below n, n of them, is all of them.
LEMMA AllIndexes ==
    ASSUME NEW n \in Nat, NEW I \in SUBSET (0..(n - 1)), Cardinality(I) = n
    PROVE  I = 0..(n - 1)
<1>1. IsFiniteSet(0..(n - 1)) /\ Cardinality(0..(n - 1)) = n
  <2>1. 0 \in Int /\ n - 1 \in Int
    OBVIOUS
  <2>2. /\ IsFiniteSet(0..(n - 1))
        /\ Cardinality(0..(n - 1)) = IF 0 > n - 1 THEN 0 ELSE (n - 1) - 0 + 1
    BY <2>1, FS_Interval
  <2> QED
    BY <2>2
<1> QED
  BY <1>1, FS_Subset

\* completeEntityProgress's coverage: chunks of different windows, as many as there are
\* windows, each of its window's range, hold every item of the dump and no other number.
LEMMA ChunksTile ==
    ASSUME NEW items \in Nat, NEW size \in Nat \ {0}, NEW n, n = (items + size - 1) \div size,
           NEW C \in SUBSET RunChunkRow, IsFiniteSet(C), Cardinality(C) = n,
           \A c, d \in C : c.index = d.index => c = d,
           \A c \in C : /\ c.index < n
                        /\ c.first = c.index * size
                        /\ c.count = IF c.index = n - 1 THEN items - c.first ELSE size
    PROVE  UNION {Items(c) : c \in C} = 0..(items - 1)
<1>1. n \in Nat /\ items <= n * size /\ n * size <= items + size - 1
  BY WindowCount
<1>2. \A c \in C : c.index \in Nat /\ c.first \in Nat /\ c.count \in Nat \ {0}
  BY DEF RunChunkRow
<1> DEFINE I == {c.index : c \in C}
<1>3. I = 0..(n - 1)
  <2>1. I \in SUBSET (0..(n - 1))
    BY <1>1, <1>2
  <2> DEFINE f == [c \in C |-> c.index]
  <2>2. f \in Bijection(C, I)
    <3>1. f \in [C -> I]
      OBVIOUS
    <3>2. \A a, b \in C : f[a] = f[b] => a = b
      OBVIOUS
    <3>3. \A i \in I : \E c \in C : f[c] = i
      OBVIOUS
    <3> QED
      BY <3>1, <3>2, <3>3 DEF Bijection, Injection, IsInjective, Surjection
  <2>3. Cardinality(I) = n
    BY <2>2, FS_Bijection DEF ExistsBijection
  <2> HIDE DEF I
  <2> QED
    BY <1>1, <2>1, <2>3, AllIndexes
<1>4. ASSUME NEW c \in C, NEW i \in Items(c) PROVE i \in 0..(items - 1)
  <2> DEFINE k == c.index
  <2>1. k \in Nat /\ k < n /\ c.first = k * size /\ k * size \in Nat /\ i \in Int
        /\ c.first <= i /\ i < c.first + c.count
    BY <1>2, <1>4 DEF Items
  <2>2. CASE k = n - 1
    BY <2>1, <2>2
  <2>3. CASE k # n - 1
    <3>1. k + 1 <= n - 1 /\ n - 1 \in Nat
      BY <1>1, <2>1, <2>3
    <3>2. PICK d \in Nat : n - 1 = k + 1 + d
      <4>1. n - 1 - k - 1 \in Nat /\ n - 1 = k + 1 + (n - 1 - k - 1)
        BY <2>1, <3>1
      <4> QED
        BY <4>1
    <3>3. (n - 1) * size = k * size + size + d * size /\ d * size \in Nat
      <4>1. ((k + 1) + d) * size = (k + 1) * size + d * size /\ d * size \in Nat
        BY <2>1, MultipleOfSum
      <4>2. (k + 1) * size = k * size + 1 * size
        BY <2>1, MultipleOfSum
      <4> QED
        BY <3>2, <4>1, <4>2
    <3>4. (n - 1) * size = n * size - size /\ n * size \in Nat
      BY <1>1
    <3>5. c.count = size
      BY <2>3
    <3> HIDE DEF k
    <3> QED
      BY <1>1, <2>1, <3>3, <3>4, <3>5
  <2> QED
    BY <2>2, <2>3
<1>5. ASSUME NEW i \in 0..(items - 1) PROVE \E c \in C : i \in Items(c)
  <2> DEFINE Ends == {k \in Nat : i < k * size + size}
  <2>1. i \in Ends
    <3>1. i \in Nat /\ i * size \in Nat /\ i * 1 <= i * size
      <4>1. PICK d \in Nat : size = 1 + d
        <5>1. size - 1 \in Nat /\ size = 1 + (size - 1)
          OBVIOUS
        <5> QED
          BY <5>1
      <4>2. i \in Nat /\ i * d \in Nat /\ i * size = i + i * d
        BY <4>1
      <4> QED
        BY <4>2
    <3> QED
      BY <3>1
  <2>2. PICK k \in Ends : \A j \in Ends : k <= j
    <3>1. Ends \in SUBSET Nat /\ Ends # {}
      BY <2>1
    <3> HIDE DEF Ends
    <3> QED
      BY <3>1, LeastNatural
  <2>3. k \in Nat /\ k * size \in Nat /\ i < k * size + size /\ i \in Nat
    BY <2>2
  <2>4. k * size <= i
    <3>1. CASE k = 0
      BY <2>3, <3>1
    <3>2. CASE k # 0
      <4>1. k - 1 \in Nat /\ k - 1 \notin Ends
        BY <2>2, <3>2
      <4>2. (k - 1) * size + size = k * size /\ (k - 1) * size \in Nat
        BY <2>3, <4>1
      <4> QED
        BY <2>3, <4>1, <4>2
    <3> QED
      BY <3>1, <3>2
  <2>5. k < n
    <3> SUFFICES ASSUME n <= k PROVE FALSE
      BY <1>1, <2>3
    <3>1. PICK d \in Nat : k = n + d
      <4>1. k - n \in Nat /\ k = n + (k - n)
        BY <1>1, <2>3
      <4> QED
        BY <4>1
    <3>2. k * size = n * size + d * size /\ d * size \in Nat /\ n * size \in Nat
      BY <1>1, <3>1, MultipleOfSum
    <3>3. i \in Nat /\ i < items /\ items <= n * size /\ k * size <= i
      BY <1>1, <2>3, <2>4
    <3> QED
      BY <3>2, <3>3
  <2>6. PICK c \in C : c.index = k
    <3>1. k \in 0..(n - 1)
      BY <1>1, <2>3, <2>5
    <3>2. k \in I
      BY <1>3, <3>1
    <3> QED
      BY <3>2
  <2>7. c.first = k * size /\ c.count = IF k = n - 1 THEN items - k * size ELSE size
    BY <2>6
  <2>8. k * size <= i /\ i <= k * size + c.count - 1
    BY <2>3, <2>4, <2>7
  <2> QED
    BY <2>3, <2>7, <2>8 DEF Items
<1> QED
  BY <1>4, <1>5

-----------------------------------------------------------------------------
(***************************************************************************)
(* The ledger.  That counter and ledger agree is not inductive: a resumed  *)
(* run takes both over from a failed run, whose chunks must then be of its *)
(* own entities and windows, and be all there or pruned altogether; and    *)
(* the chunk that a worker commits must be the window it read.             *)
(***************************************************************************)
\* The ledger is finite, its rows belong to recorded runs that import their entity, and an
\* entity has one chunk of an index in a run.
KeyInv ==
    /\ IsFiniteSet(runChunk)
    /\ \A c \in runChunk : c.run <= runSeq /\ Selects(run, c.run, c.entity)
    /\ \A c, d \in runChunk :
          c.run = d.run /\ c.entity = d.entity /\ c.index = d.index => c = d

\* A chunk is the window of its index, of its run's chunk size.
WindowInv ==
    \A c \in runChunk :
        /\ c.first = c.index * runDump[c.run][c.entity].size
        /\ c.count <= runDump[c.run][c.entity].size

\* The counter of a running run is the sum of its ledger.
CounterInv ==
    \A r \in RunId : Running(r) =>
        \A e \in DOMAIN run[r].manifest :
            runDump[r][e].processed = ItemSum(RunChunks(runChunk, r, e))

\* The chunks of a complete entity hold its dump, unless they were pruned.
Tiled(C, items) == C = {} \/ UNION {Items(c) : c \in C} = 0..(items - 1)
CoverInv ==
    \A r \in RunId : \A e \in DOMAIN run[r].manifest :
        runDump[r][e].total # Null =>
            /\ runDump[r][e].processed = DumpItems[run[r].manifest[e]]
            /\ Tiled(RunChunks(runChunk, r, e), DumpItems[run[r].manifest[e]])

LedgerInv == KeyInv /\ WindowInv /\ CounterInv /\ CoverInv

\* The chunks in the workers' hands are windows of the invocation's chunk size.
InflightInv ==
    \A p \in Importer : \A c \in inflight[p] :
        c.first = c.index * req[p].size /\ c.count <= req[p].size

\* A worker's chunk is read with the size of the invocation, and dropped with it.
LEMMA InflightStep ==
    ASSUME TypeOK, ProcessInv, InflightInv, [Next]_vars
    PROVE  InflightInv'
<1> DEFINE Good(q) == \A c \in inflight[q] :
                         c.first = c.index * req[q].size /\ c.count <= req[q].size
<1> SUFFICES ASSUME NEW q \in Importer PROVE Good(q)'
  BY DEF InflightInv
<1>0. Good(q)
  BY DEF InflightInv
<1>1. ASSUME inflight'[q] \subseteq inflight[q], req'[q] = req[q] PROVE Good(q)'
  BY <1>0, <1>1
<1>2. ASSUME inflight'[q] = {} PROVE Good(q)'
  BY <1>2
<1>3. CASE UNCHANGED vars
  BY <1>1, <1>3 DEF vars, local
<1>4. ASSUME NEW p \in Importer, Leave(p) PROVE Good(q)'
  <2>1. CASE q = p
    BY <1>2, <1>4, <2>1 DEF Leave, TypeOK
  <2>2. CASE q # p
    BY <1>1, <1>4, <2>2 DEF Leave, TypeOK
  <2> QED
    BY <2>1, <2>2
<1>5. ASSUME NEW p \in Importer, NEW g \in Request, Start(p, g) PROVE Good(q)'
  <2>1. CASE q = p
    BY <1>2, <1>5, <2>1 DEF Start, ProcessInv, ImporterInv
  <2>2. CASE q # p
    BY <1>1, <1>5, <2>2 DEF Start, TypeOK
  <2> QED
    BY <2>1, <2>2
<1>6. ASSUME NEW p \in Importer, WriteChunk(p) PROVE Good(q)'
  <2>1. CASE q # p
    BY <1>1, <1>6, <2>1 DEF WriteChunk, TypeOK
  <2>2. CASE q = p
    <3>1. inflight'[q] = inflight[q] \cup {Chunk(q)} /\ req'[q] = req[q]
      BY <1>6, <2>2 DEF WriteChunk, TypeOK
    <3>2. pc[q] \in Working /\ left[q] # {}
      BY <1>6, <2>2 DEF WriteChunk, Working, ProcessInv, ImporterInv
    <3>3. req[q].size \in Nat \ {0}
      BY <3>2, RequestFacts DEF Working
    <3>4. DumpItems[EntityDump(q)] \in Nat /\ nextChunk[q] \in Nat
      BY <3>2, EntityFacts, ConstantsAssumption DEF TypeOK
    <3>5. /\ Chunk(q).first = Chunk(q).index * req[q].size
          /\ Chunk(q).count <= req[q].size
      BY <3>3, <3>4 DEF Chunk, ChunkAt
    <3> QED
      BY <1>0, <3>1, <3>5
  <2> QED
    BY <2>1, <2>2
<1>7. ASSUME NEW p \in Importer, NEW c \in inflight[p], CommitChunk(p, c) \/ AbortChunk(p, c)
      PROVE  Good(q)'
  BY <1>1, <1>7 DEF CommitChunk, AbortChunk, TypeOK
<1>8. ASSUME NEW p \in Importer,
             SkipEntity(p) \/ StartEntity(p) \/ SkipChunk(p) \/ FailStep(p) \/ CompleteEntity(p)
               \/ LoseSession(p) \/ Admit(p)
      PROVE  Good(q)'
  BY <1>1, <1>8 DEF SkipEntity, StartEntity, SkipChunk, FailStep, CompleteEntity, LoseSession, Admit,
                    local
<1>9. ASSUME NEW p \in Importer,
             AdmissionError(p) \/ RejectAdmission(p) \/ SkipExact(p) \/ SkipConsolidated(p)
               \/ CompleteSuccess(p) \/ CompleteFailure(p) \/ CompleteError(p) \/ Crash(p)
      PROVE  Good(q)'
  <2>1. Leave(p)
    BY <1>9 DEF AdmissionError, RejectAdmission, SkipExact, SkipConsolidated, CompleteSuccess,
                CompleteFailure, CompleteError, Crash
  <2> QED
    BY <1>4, <2>1
<1>10. ASSUME NEW p \in Importer, TryLock(p) PROVE Good(q)'
  <2>1. Leave(p) \/ UNCHANGED <<inflight, req>>
    BY <1>10 DEF TryLock
  <2> QED
    BY <1>1, <1>4, <2>1
<1> QED
  BY <1>3, <1>5, <1>6, <1>7, <1>8, <1>9, <1>10 DEF Next, ImporterStep

\* The ledger facts survive a step that leaves ledger and progress alone, starts no run and
\* changes no manifest.
LEMMA LedgerFrame ==
    ASSUME TypeOK, LedgerInv, UNCHANGED <<runChunk, runDump, runSeq>>,
           \A s \in RunId : run'[s].manifest = run[s].manifest,
           \A s \in RunId : Running(s)' => Running(s)
    PROVE  LedgerInv'
<1>1. \A c \in runChunk : c.run \in RunId
  BY DEF TypeOK, RunChunkRow
<1>2. KeyInv'
  BY <1>1 DEF LedgerInv, KeyInv, Selects
<1>3. WindowInv'
  BY DEF LedgerInv, WindowInv
<1>4. CounterInv'
  BY DEF LedgerInv, CounterInv
<1>5. CoverInv'
  BY DEF LedgerInv, CoverInv
<1> QED
  BY <1>2, <1>3, <1>4, <1>5 DEF LedgerInv

\* Chunks of a run are chunks of the ledger.
LEMMA RunChunksFacts ==
    ASSUME TypeOK, KeyInv, NEW r, NEW e
    PROVE  /\ RunChunks(runChunk, r, e) \in SUBSET RunChunkRow
           /\ IsFiniteSet(RunChunks(runChunk, r, e))
           /\ \A c \in RunChunks(runChunk, r, e) :
                 c.count \in Nat \ {0} /\ c.index \in Nat /\ c.first \in Nat
<1>1. RunChunks(runChunk, r, e) \in SUBSET runChunk
  BY DEF RunChunks
<1>2. runChunk \subseteq RunChunkRow /\ IsFiniteSet(runChunk)
  BY DEF TypeOK, KeyInv
<1>3. IsFiniteSet(RunChunks(runChunk, r, e))
  BY <1>1, <1>2, FS_Subset
<1> QED
  BY <1>1, <1>2, <1>3 DEF RunChunkRow

\* A committed chunk is new, is the window it says, and is counted.
LEMMA CommitLedger ==
    ASSUME TypeOK, ProcessInv, InflightInv, LedgerInv,
           NEW p \in Importer, NEW c \in inflight[p], CommitChunk(p, c)
    PROVE  LedgerInv'
<1>1. pc[p] \in Working /\ left[p] # {}
  BY DEF CommitChunk, Working, ProcessInv, ImporterInv
<1>2. PICK r \in RunId, f \in EntityType :
         /\ r = cur[p] /\ f = Entity(p) /\ r <= runSeq /\ f \in DOMAIN run[r].manifest
  <2>1. cur[p] \in 1..runSeq
    BY <1>1 DEF ProcessInv, ImporterInv
  <2>2. runSeq \in Nat
    BY ConstantsAssumption DEF TypeOK, RunId
  <2> QED
    BY <1>1, <2>1, <2>2, EntityFacts
<1>3. PICK k \in RunChunkRow :
         /\ k = Row(r, f, c) /\ k.run = r /\ k.entity = f
         /\ k.index = c.index /\ k.first = c.first /\ k.count = c.count
  <2>1. c \in ChunkType
    BY DEF TypeOK
  <2>2. c.index \in Nat /\ c.first \in Nat /\ c.count \in Nat \ {0}
    BY <2>1 DEF ChunkType
  <2>3. Row(r, f, c) \in RunChunkRow
    BY <2>2 DEF Row, RunChunkRow
  <2> QED
    BY <2>3 DEF Row
<1>4. /\ UNCHANGED <<run, runSeq>> /\ runChunk' = runChunk \cup {k}
      /\ runDump' = [runDump EXCEPT ![r][f].processed = @ + k.count]
  BY <1>2, <1>3 DEF CommitChunk
<1>5. /\ run[r].status = "running"
      /\ \A d \in runChunk : d.run = r /\ d.entity = f => d.index # k.index
      /\ runDump[r][f].size = req[p].size
      /\ runDump[r][f].total = Null
  BY <1>2, <1>3 DEF CommitChunk, Recordable, Recorded, RunChunks, Progress
<1>6. runDump \in [RunId -> [EntityType -> RunDumpRow]]
  BY DEF TypeOK
<1>7. /\ \A s \in RunId, e \in EntityType :
            /\ runDump'[s][e].size = runDump[s][e].size
            /\ runDump'[s][e].total = runDump[s][e].total
            /\ s # r \/ e # f => runDump'[s][e] = runDump[s][e]
      /\ runDump'[r][f].processed = runDump[r][f].processed + k.count
  <2>1. /\ runDump'[r][f] = [runDump[r][f] EXCEPT !.processed = runDump[r][f].processed + k.count]
        /\ \A s \in RunId, e \in EntityType : s # r \/ e # f => runDump'[s][e] = runDump[s][e]
    BY <1>4, <1>6
  <2>2. runDump[r][f] \in RunDumpRow
    BY <1>6
  <2>3. /\ runDump'[r][f].processed = runDump[r][f].processed + k.count
        /\ runDump'[r][f].size = runDump[r][f].size
        /\ runDump'[r][f].total = runDump[r][f].total
    BY <2>1, <2>2 DEF RunDumpRow
  <2> QED
    BY <2>1, <2>3
<1>8. \A d \in runChunk : d.run \in RunId /\ d.entity \in EntityType
  BY DEF TypeOK, RunChunkRow
<1>9. KeyInv'
  <2>1. IsFiniteSet(runChunk')
    BY <1>4, FS_AddElement DEF LedgerInv, KeyInv
  <2>2. \A d \in runChunk' : d.run <= runSeq /\ Selects(run, d.run, d.entity)
    BY <1>2, <1>3, <1>4 DEF LedgerInv, KeyInv, Selects
  <2>3. \A d, g \in runChunk' :
           d.run = g.run /\ d.entity = g.entity /\ d.index = g.index => d = g
    BY <1>3, <1>4, <1>5 DEF LedgerInv, KeyInv
  <2> QED
    BY <1>4, <2>1, <2>2, <2>3 DEF KeyInv, Selects
<1>10. WindowInv'
  <2>1. k.first = k.index * runDump[r][f].size /\ k.count <= runDump[r][f].size
    BY <1>3, <1>5 DEF InflightInv
  <2> QED
    BY <1>3, <1>4, <1>7, <1>8, <2>1 DEF LedgerInv, WindowInv
<1>11. \A s, e : RunChunks(runChunk', s, e) =
                    IF s = r /\ e = f THEN RunChunks(runChunk, s, e) \cup {k} ELSE RunChunks(runChunk, s, e)
  BY <1>3, <1>4 DEF RunChunks
<1>12. CounterInv'
  <2> SUFFICES ASSUME NEW s \in RunId, Running(s), NEW e \in DOMAIN run[s].manifest
               PROVE  runDump'[s][e].processed = ItemSum(RunChunks(runChunk', s, e))
    BY <1>4 DEF CounterInv, Running
  <2>1. e \in EntityType
    BY ManifestFacts DEF TypeOK, RunRow
  <2>2. runDump[s][e].processed = ItemSum(RunChunks(runChunk, s, e))
    BY DEF LedgerInv, CounterInv
  <2>3. CASE s = r /\ e = f
    <3>1. k \notin RunChunks(runChunk, s, e)
      BY <1>5, <2>3 DEF RunChunks
    <3>2. /\ IsFiniteSet(RunChunks(runChunk, s, e))
          /\ \A d \in RunChunks(runChunk, s, e) : d.count \in Nat
      BY RunChunksFacts DEF LedgerInv
    <3>3. k.count \in Nat
      BY <1>3 DEF RunChunkRow
    <3>4. ItemSum(RunChunks(runChunk, s, e) \cup {k}) = ItemSum(RunChunks(runChunk, s, e)) + k.count
      BY <3>1, <3>2, <3>3, SumAdd
    <3> QED
      BY <1>7, <1>11, <2>2, <2>3, <3>4
  <2>4. CASE ~(s = r /\ e = f)
    BY <1>7, <1>11, <2>1, <2>2, <2>4
  <2> QED
    BY <2>3, <2>4
<1>13. CoverInv'
  <2> SUFFICES ASSUME NEW s \in RunId, NEW e \in DOMAIN run[s].manifest, runDump'[s][e].total # Null
               PROVE  /\ runDump'[s][e].processed = DumpItems[run[s].manifest[e]]
                      /\ Tiled(RunChunks(runChunk', s, e), DumpItems[run[s].manifest[e]])
    BY <1>4 DEF CoverInv
  <2>1. e \in EntityType
    BY ManifestFacts DEF TypeOK, RunRow
  <2>2. ~(s = r /\ e = f)
    BY <1>5, <1>7
  <2> QED
    BY <1>7, <1>11, <2>1, <2>2 DEF LedgerInv, CoverInv
<1> QED
  BY <1>9, <1>10, <1>12, <1>13 DEF LedgerInv

\* An entity is complete when its chunks tile the dump.
LEMMA CompleteLedger ==
    ASSUME TypeOK, ProcessInv, LedgerInv, NEW p \in Importer, CompleteEntity(p)
    PROVE  LedgerInv'
<1>1. pc[p] \in Working /\ left[p] # {} /\ pc[p] # "idle"
  BY DEF CompleteEntity, Working, ProcessInv, ImporterInv
<1>2. UNCHANGED <<run, runChunk, runSeq>>
  BY DEF CompleteEntity
<1>3. CASE UNCHANGED runDump
  BY <1>2, <1>3, LedgerFrame DEF Running
<1>4. CASE ~UNCHANGED runDump
  <2>1. PICK r \in RunId, f \in EntityType :
           r = cur[p] /\ f = Entity(p) /\ f \in DOMAIN run[r].manifest /\ run[r].manifest[f] \in Dump
    BY <1>1, EntityFacts DEF EntityDump
  <2> DEFINE items == DumpItems[run[r].manifest[f]]
             C == RunChunks(runChunk, r, f)
             size == req[p].size
             n == (items + size - 1) \div size
  <2>2. /\ runDump' = [runDump EXCEPT ![r][f].total = items]
        /\ runDump[r][f].processed = items
        /\ Cardinality(C) = n
        /\ \A c \in C : /\ c.index < n
                        /\ c.first = c.index * size
                        /\ c.count = IF c.index = n - 1 THEN items - c.first ELSE size
    BY <1>4, <2>1 DEF CompleteEntity, Covered, TotalChunks, ChunkCount, EntityDump, Recorded, Progress
  <2>3. items \in Nat /\ size \in Nat \ {0}
    BY <1>1, <2>1, RequestFacts, ConstantsAssumption
  <2>4. C \in SUBSET RunChunkRow /\ IsFiniteSet(C)
    BY RunChunksFacts DEF LedgerInv
  <2>5. \A c, d \in C : c.index = d.index => c = d
    BY DEF RunChunks, LedgerInv, KeyInv
  <2>6. UNION {Items(c) : c \in C} = 0..(items - 1)
    <3> HIDE DEF items, C, size
    <3> QED
      BY <2>2, <2>3, <2>4, <2>5, ChunksTile
  <2>7. /\ runDump'[r][f].size = runDump[r][f].size
        /\ runDump'[r][f].processed = runDump[r][f].processed
        /\ \A s \in RunId, e \in EntityType : s # r \/ e # f => runDump'[s][e] = runDump[s][e]
    <3>1. runDump \in [RunId -> [EntityType -> RunDumpRow]]
      BY DEF TypeOK
    <3>2. runDump[r][f] \in RunDumpRow
      BY <3>1
    <3> HIDE DEF items
    <3>3. /\ runDump'[r][f] = [runDump[r][f] EXCEPT !.total = items]
          /\ \A s \in RunId, e \in EntityType : s # r \/ e # f => runDump'[s][e] = runDump[s][e]
      BY <2>2, <3>1
    <3> QED
      BY <3>2, <3>3 DEF RunDumpRow
  <2>8. KeyInv'
    BY <1>2 DEF LedgerInv, KeyInv, Selects
  <2>9. WindowInv'
    <3>1. \A c \in runChunk : c.run \in RunId /\ c.entity \in EntityType
      BY DEF TypeOK, RunChunkRow
    <3>2. \A s \in RunId, e \in EntityType : runDump'[s][e].size = runDump[s][e].size
      BY <2>7
    <3> QED
      BY <1>2, <3>1, <3>2 DEF LedgerInv, WindowInv
  <2>10. \A s \in RunId : \A e \in DOMAIN run[s].manifest : e \in EntityType
    BY ManifestFacts DEF TypeOK, RunRow
  <2>11. CounterInv'
    <3>1. \A s \in RunId, e \in EntityType : runDump'[s][e].processed = runDump[s][e].processed
      BY <2>7
    <3> QED
      BY <1>2, <2>10, <3>1 DEF LedgerInv, CounterInv, Running
  <2>12. CoverInv'
    <3> SUFFICES ASSUME NEW s \in RunId, NEW e \in DOMAIN run[s].manifest, runDump'[s][e].total # Null
                 PROVE  /\ runDump'[s][e].processed = DumpItems[run[s].manifest[e]]
                        /\ Tiled(RunChunks(runChunk, s, e), DumpItems[run[s].manifest[e]])
      BY <1>2 DEF CoverInv
    <3>1. CASE s = r /\ e = f
      BY <2>2, <2>6, <2>7, <3>1 DEF Tiled
    <3>2. CASE ~(s = r /\ e = f)
      BY <2>7, <2>10, <3>2 DEF LedgerInv, CoverInv
    <3> QED
      BY <3>1, <3>2
  <2> QED
    BY <2>8, <2>9, <2>11, <2>12 DEF LedgerInv
<1> QED
  BY <1>3, <1>4

\* A run's success prunes whole ledgers, of runs that are over.
LEMMA SuccessLedger ==
    ASSUME TypeOK, ProcessInv, LedgerInv, NEW p \in Importer, CompleteSuccess(p)
    PROVE  LedgerInv'
<1>1. PICK r \in RunId :
         /\ r = cur[p] /\ runSeq' = runSeq /\ Running(r)
         /\ run'[r].status = "success" \/ run'[r].status = "failed"
         /\ run'[r].manifest = run[r].manifest
         /\ \A s \in RunId : s # r => run'[s] = run[s]
  BY CompletedRun
<1>2. runDump' = runDump /\ runChunk' \subseteq runChunk
  BY DEF CompleteSuccess
<1>3. \A s \in RunId : \A e :
         (RunChunks(runChunk', s, e) = {} /\ ~Running(s)') \/ RunChunks(runChunk', s, e) = RunChunks(runChunk, s, e)
  <2>1. SupersededRuns(run') \subseteq {s \in RunId : run'[s].status = "failed"}
    BY DEF SupersededRuns
  <2>2. runChunk' = {c \in runChunk : c.run # r /\ c.run \notin SupersededRuns(run')}
    BY <1>1 DEF CompleteSuccess
  <2> TAKE s \in RunId
  <2> TAKE e
  <2>3. CASE s = r \/ s \in SupersededRuns(run')
    <3>1. RunChunks(runChunk', s, e) = {}
      BY <2>2, <2>3 DEF RunChunks
    <3>2. ~Running(s)'
      BY <1>1, <2>1, <2>3 DEF Running
    <3> QED
      BY <3>1, <3>2
  <2>4. CASE ~(s = r \/ s \in SupersededRuns(run'))
    <3>1. RunChunks(runChunk', s, e) = RunChunks(runChunk, s, e)
      BY <2>2, <2>4 DEF RunChunks
    <3> QED
      BY <3>1
  <2> QED
    BY <2>3, <2>4
<1>4. \A s \in RunId : run'[s].manifest = run[s].manifest /\ (Running(s)' => Running(s))
  BY <1>1 DEF Running
<1>5. KeyInv'
  <2>1. \A c \in runChunk : c.run \in RunId
    BY DEF TypeOK, RunChunkRow
  <2>2. IsFiniteSet(runChunk')
    BY <1>2, FS_Subset DEF LedgerInv, KeyInv
  <2> QED
    BY <1>1, <1>2, <1>4, <2>1, <2>2 DEF LedgerInv, KeyInv, Selects
<1>6. WindowInv'
  BY <1>2 DEF LedgerInv, WindowInv
<1>7. CounterInv'
  BY <1>2, <1>3, <1>4 DEF LedgerInv, CounterInv
<1>8. CoverInv'
  BY <1>2, <1>3, <1>4 DEF LedgerInv, CoverInv, Tiled
<1> QED
  BY <1>5, <1>6, <1>7, <1>8 DEF LedgerInv

\* A consolidated run has no chunks, and the progress of the checkpoints.
LEMMA ConsolidatedLedger ==
    ASSUME TypeOK, ProcessInv, ClockInv, LedgerInv, NEW p \in Importer, SkipConsolidated(p)
    PROVE  LedgerInv'
<1> DEFINE S == DOMAIN req[p].manifest
<1>1. PICK r \in RunId :
         /\ r = runSeq + 1 /\ runSeq' = r /\ ~Running(r)
         /\ run'[r].status = "success" /\ run'[r].manifest = req[p].manifest
         /\ \A s \in RunId : s # r => run'[s] = run[s]
         /\ Marked(p) = run
  BY ConsolidatedRun
<1>2. /\ runChunk' = runChunk
      /\ runDump' = [runDump EXCEPT ![r] =
                        [e \in EntityType |->
                            IF e \in S THEN runDump[Checkpoint(run, e)][e] ELSE NoRunDump]]
  BY <1>1 DEF SkipConsolidated
<1>3. /\ \A s \in RunId : s # r => runDump'[s] = runDump[s]
      /\ \A e \in EntityType \cap S : runDump'[r][e] = runDump[Checkpoint(run, e)][e]
  BY <1>2 DEF TypeOK
<1>4. runSeq \in Nat /\ \A c \in runChunk : c.run \in RunId /\ c.run # r /\ c.run <= runSeq /\ c.run \in Nat
  BY <1>1, ConstantsAssumption DEF TypeOK, RunChunkRow, RunId, LedgerInv, KeyInv
<1>5. KeyInv'
  BY <1>1, <1>2, <1>4 DEF LedgerInv, KeyInv, Selects
<1>6. WindowInv'
  BY <1>2, <1>3, <1>4 DEF LedgerInv, WindowInv
<1>7. CounterInv'
  BY <1>1, <1>2, <1>3 DEF LedgerInv, CounterInv, Running
<1>8. CoverInv'
  <2> SUFFICES ASSUME NEW s \in RunId, NEW e \in DOMAIN run'[s].manifest, runDump'[s][e].total # Null
               PROVE  /\ runDump'[s][e].processed = DumpItems[run'[s].manifest[e]]
                      /\ Tiled(RunChunks(runChunk, s, e), DumpItems[run'[s].manifest[e]])
    BY <1>2 DEF CoverInv
  <2>1. CASE s = r
    <3>1. RunChunks(runChunk, s, e) = {}
      BY <1>4, <2>1 DEF RunChunks
    <3>2. e \in EntityType \cap S
      BY <1>1, <2>1, RequestFacts DEF SkipConsolidated
    <3>3. /\ Checkpoint(run, e) \in Successes(run, e)
          /\ run[Checkpoint(run, e)].manifest[e] = req[p].manifest[e]
      BY <3>2, SatisfiedMarksNothing DEF SkipConsolidated
    <3>4. PICK c \in RunId : c = Checkpoint(run, e) /\ e \in DOMAIN run[c].manifest
      BY <3>3 DEF Successes, Selects
    <3>5. runDump'[s][e] = runDump[c][e]
      BY <1>3, <2>1, <3>2, <3>4
    <3>6. runDump[c][e].processed = DumpItems[run[c].manifest[e]]
      BY <3>4, <3>5 DEF LedgerInv, CoverInv
    <3> QED
      BY <1>1, <2>1, <3>1, <3>3, <3>4, <3>5, <3>6 DEF Tiled
  <2>2. CASE s # r
    BY <1>1, <1>3, <2>2 DEF LedgerInv, CoverInv
  <2> QED
    BY <2>1, <2>2
<1> QED
  BY <1>5, <1>6, <1>7, <1>8 DEF LedgerInv

\* What admission writes to the progress tables.
LEMMA AdmittedLedger ==
    ASSUME TypeOK, ProcessInv, NEW p \in Importer, Admit(p),
           NEW r, r = runSeq + 1, NEW src, src = ResumeSource(Marked(p), req[p])
    PROVE  /\ \A s \in RunId : s # r => runDump'[s] = runDump[s]
           /\ src = NoRun =>
                 /\ runChunk' = runChunk
                 /\ \A e \in DOMAIN req[p].manifest :
                       runDump'[r][e].processed = 0 /\ runDump'[r][e].total = Null
           /\ src # NoRun =>
                 /\ runChunk' = TransferChunks(runChunk, src, r)
                 /\ \A e \in DOMAIN req[p].manifest : runDump'[r][e] = runDump[src][e]
<1> DEFINE S == DOMAIN req[p].manifest
           D == [e \in EntityType |->
                    CASE e \notin S -> NoRunDump
                      [] e \in S /\ src = NoRun -> [NoRunDump EXCEPT !.size = req[p].size]
                      [] e \in S /\ src # NoRun -> runDump[src][e]]
<1>1. /\ runDump' = [runDump EXCEPT ![r] = D]
      /\ runChunk' = IF src = NoRun THEN runChunk ELSE TransferChunks(runChunk, src, r)
  BY DEF Admit
<1>2. S \subseteq EntityType /\ r \in RunId
  BY RequestFacts, NextRunAbsent DEF Admit
<1>3. \A e \in S : D[e] = IF src = NoRun THEN [NoRunDump EXCEPT !.size = req[p].size]
                          ELSE runDump[src][e]
  BY <1>2
<1> HIDE DEF D
<1>4. runDump'[r] = D /\ \A s \in RunId : s # r => runDump'[s] = runDump[s]
  BY <1>1, <1>2 DEF TypeOK
<1> QED
  BY <1>1, <1>3, <1>4 DEF NoRunDump

\* A resumed run failed, with the manifest and the size of the resuming one, and its counters
\* are the sums of its ledger.
LEMMA ResumedSource ==
    ASSUME TypeOK, NEW p \in Importer,
           NEW src, src = ResumeSource(Marked(p), req[p]), src # NoRun
    PROVE  /\ src \in RunId
           /\ Marked(p)[src].status = "failed" /\ run[src].manifest = req[p].manifest
           /\ \A e \in DOMAIN req[p].manifest :
                 runDump[src][e].processed = ItemSum(RunChunks(runChunk, src, e))
<1>1. Marked(p) \in [RunId -> RunRow] /\ \A s \in RunId : Marked(p)[s].manifest = run[s].manifest
  BY AbandonFacts DEF Marked, TypeOK
<1>2. src \in Resumable(Marked(p), req[p])
  BY <1>1, ResumeSourceFacts
<1> QED
  BY <1>1, <1>2 DEF Resumable

\* The ledger after the chunks of src have moved to r, which had none.
LEMMA TransferFacts ==
    ASSUME NEW L \in SUBSET RunChunkRow, IsFiniteSet(L), NEW src \in RunId, NEW r \in RunId,
           src # r, \A c \in L : c.run # r
    PROVE  /\ IsFiniteSet(TransferChunks(L, src, r))
           /\ \A k \in TransferChunks(L, src, r) : \E c \in L :
                 /\ k = IF c.run = src THEN [c EXCEPT !.run = r] ELSE c
                 /\ k.run = IF c.run = src THEN r ELSE c.run
                 /\ k.entity = c.entity /\ k.index = c.index
                 /\ k.first = c.first /\ k.count = c.count
           /\ \A s, e : RunChunks(TransferChunks(L, src, r), s, e) =
                 IF s = r THEN {[c EXCEPT !.run = r] : c \in RunChunks(L, src, e)}
                 ELSE IF s = src THEN {} ELSE RunChunks(L, s, e)
<1> DEFINE M(c) == IF c.run = src THEN [c EXCEPT !.run = r] ELSE c
           K == TransferChunks(L, src, r)
<1>1. K = {M(c) : c \in L}
  BY DEF TransferChunks
<1>2. IsFiniteSet(K)
  <2> DEFINE f == [c \in L |-> M(c)]
  <2>1. f \in Surjection(L, K)
    BY <1>1 DEF Surjection
  <2> HIDE DEF f
  <2> QED
    BY <2>1, FS_Surjection
<1>3. \A c \in L : /\ M(c).run = IF c.run = src THEN r ELSE c.run
                   /\ M(c).entity = c.entity /\ M(c).index = c.index
                   /\ M(c).first = c.first /\ M(c).count = c.count
  BY DEF RunChunkRow
<1>4. ASSUME NEW s, NEW e
      PROVE  RunChunks(K, s, e) = IF s = r THEN {[c EXCEPT !.run = r] : c \in RunChunks(L, src, e)}
                                  ELSE IF s = src THEN {} ELSE RunChunks(L, s, e)
  <2>1. RunChunks(K, s, e) = {M(c) : c \in {d \in L : M(d).run = s /\ M(d).entity = e}}
    BY <1>1 DEF RunChunks
  <2>2. CASE s = r
    <3>1. {d \in L : M(d).run = s /\ M(d).entity = e} = RunChunks(L, src, e)
      BY <1>3, <2>2 DEF RunChunks
    <3>2. \A c \in RunChunks(L, src, e) : M(c) = [c EXCEPT !.run = r]
      BY DEF RunChunks
    <3> HIDE DEF M
    <3> QED
      BY <2>1, <2>2, <3>1, <3>2
  <2>3. CASE s = src
    BY <1>3, <2>1, <2>3
  <2>4. CASE s # r /\ s # src
    <3>1. {d \in L : M(d).run = s /\ M(d).entity = e} = RunChunks(L, s, e)
      BY <1>3, <2>4 DEF RunChunks
    <3>2. \A c \in RunChunks(L, s, e) : M(c) = c
      BY <2>4 DEF RunChunks
    <3> HIDE DEF M
    <3> QED
      BY <2>1, <2>4, <3>1, <3>2
  <2> QED
    BY <2>2, <2>3, <2>4
<1>5. \A k \in K : \E c \in L : /\ k = M(c)
                                /\ k.run = IF c.run = src THEN r ELSE c.run
                                /\ k.entity = c.entity /\ k.index = c.index
                                /\ k.first = c.first /\ k.count = c.count
  BY <1>1, <1>3
<1> QED
  BY <1>2, <1>4, <1>5

\* A run that resumes nothing starts with an empty ledger.
LEMMA FreshLedger ==
    ASSUME TypeOK, ProcessInv, LedgerInv, NEW p \in Importer, Admit(p),
           ResumeSource(Marked(p), req[p]) = NoRun
    PROVE  LedgerInv'
<1> DEFINE S == DOMAIN req[p].manifest
<1>1. PICK r \in RunId :
         /\ r = runSeq + 1 /\ runSeq' = r /\ run'[r].manifest = req[p].manifest
         /\ \A s \in RunId : s # r => run'[s] = Marked(p)[s]
  BY AdmittedRun
<1>2. /\ \A s \in RunId : s # r => runDump'[s] = runDump[s]
      /\ runChunk' = runChunk
      /\ \A e \in S : runDump'[r][e].processed = 0 /\ runDump'[r][e].total = Null
  BY <1>1, AdmittedLedger
<1>3. \A s \in RunId : s # r => run'[s].manifest = run[s].manifest /\ (Running(s)' => Running(s))
  <2>1. \A s \in RunId : Marked(p)[s].manifest = run[s].manifest
                         /\ (Marked(p)[s].status = "running" => run[s].status = "running")
    BY AbandonFacts DEF Marked, TypeOK
  <2> QED
    BY <1>1, <2>1 DEF Running
<1>4. runSeq \in Nat /\ \A c \in runChunk : c.run \in RunId /\ c.run # r /\ c.run <= runSeq /\ c.run \in Nat
  BY <1>1, ConstantsAssumption DEF TypeOK, RunChunkRow, RunId, LedgerInv, KeyInv
<1>5. KeyInv'
  BY <1>1, <1>2, <1>3, <1>4 DEF LedgerInv, KeyInv, Selects
<1>6. WindowInv'
  BY <1>2, <1>4 DEF LedgerInv, WindowInv
<1>7. CounterInv'
  <2> SUFFICES ASSUME NEW s \in RunId, Running(s)', NEW e \in DOMAIN run'[s].manifest
               PROVE  runDump'[s][e].processed = ItemSum(RunChunks(runChunk, s, e))
    BY <1>2 DEF CounterInv
  <2>1. CASE s = r
    <3>1. RunChunks(runChunk, s, e) = {}
      BY <1>4, <2>1 DEF RunChunks
    <3> QED
      BY <1>1, <1>2, <2>1, <3>1, SumPick
  <2>2. CASE s # r
    BY <1>2, <1>3, <2>2 DEF LedgerInv, CounterInv
  <2> QED
    BY <2>1, <2>2
<1>8. CoverInv'
  BY <1>1, <1>2, <1>3 DEF LedgerInv, CoverInv
<1> QED
  BY <1>5, <1>6, <1>7, <1>8 DEF LedgerInv

\* A resumed run's ledger becomes that of the run that resumes it.
LEMMA ResumedLedger ==
    ASSUME TypeOK, ProcessInv, LedgerInv, NEW p \in Importer, Admit(p),
           ResumeSource(Marked(p), req[p]) # NoRun
    PROVE  LedgerInv'
<1> DEFINE S == DOMAIN req[p].manifest
<1>1. PICK r \in RunId :
         /\ r = runSeq + 1 /\ runSeq' = r /\ run[r].status = "absent"
         /\ run'[r].manifest = req[p].manifest
         /\ \A s \in RunId : s # r => run'[s] = Marked(p)[s]
  BY AdmittedRun
<1>2. PICK src \in RunId :
         /\ src = ResumeSource(Marked(p), req[p]) /\ src # NoRun
         /\ Marked(p)[src].status = "failed" /\ run[src].manifest = req[p].manifest
         /\ \A e \in S : runDump[src][e].processed = ItemSum(RunChunks(runChunk, src, e))
  BY ResumedSource
<1>3. /\ \A s \in RunId : s # r => runDump'[s] = runDump[s]
      /\ runChunk' = TransferChunks(runChunk, src, r)
      /\ \A e \in S : runDump'[r][e] = runDump[src][e]
  BY <1>1, <1>2, AdmittedLedger
<1>4. \A s \in RunId : /\ Marked(p)[s].manifest = run[s].manifest
                       /\ Marked(p)[s].status = "running" => run[s].status = "running"
                       /\ run[s].status = "absent" => Marked(p)[s].status = "absent"
  BY AbandonFacts DEF Marked, TypeOK
<1>5. src # r
  BY <1>1, <1>2, <1>4
<1>6. runSeq \in Nat /\ \A c \in runChunk : c.run \in RunId /\ c.run # r /\ c.run <= runSeq /\ c.run \in Nat
  BY <1>1, ConstantsAssumption DEF TypeOK, RunChunkRow, RunId, LedgerInv, KeyInv
<1>7. runChunk \in SUBSET RunChunkRow /\ IsFiniteSet(runChunk)
  BY DEF TypeOK, LedgerInv, KeyInv
<1>8. /\ IsFiniteSet(runChunk')
      /\ \A k \in runChunk' : \E c \in runChunk :
            /\ k = IF c.run = src THEN [c EXCEPT !.run = r] ELSE c
            /\ k.run = IF c.run = src THEN r ELSE c.run
            /\ k.entity = c.entity /\ k.index = c.index
            /\ k.first = c.first /\ k.count = c.count
      /\ \A s, e : RunChunks(runChunk', s, e) =
                 IF s = r THEN {[c EXCEPT !.run = r] : c \in RunChunks(runChunk, src, e)}
                 ELSE IF s = src THEN {} ELSE RunChunks(runChunk, s, e)
  BY <1>3, <1>5, <1>6, <1>7, TransferFacts
<1>9. /\ \A s \in RunId : s # r => run'[s].manifest = run[s].manifest
      /\ \A s \in RunId : s # r /\ Running(s)' => Running(s) /\ s # src
  BY <1>1, <1>2, <1>4 DEF Running
<1>10. KeyInv'
  <2>1. ASSUME NEW k \in runChunk' PROVE k.run <= r /\ Selects(run', k.run, k.entity)
    <3>1. PICK c \in runChunk : k.run = (IF c.run = src THEN r ELSE c.run) /\ k.entity = c.entity
      BY <1>8
    <3>2. Selects(run, c.run, c.entity) /\ c.run <= runSeq /\ c.run \in RunId /\ c.run # r
      BY <1>6 DEF LedgerInv, KeyInv
    <3>3. Selects(run', k.run, k.entity)
      BY <1>1, <1>2, <1>9, <3>1, <3>2 DEF Selects
    <3>4. k.run <= r
      BY <1>1, <1>6, <3>1, <3>2
    <3> QED
      BY <3>3, <3>4
  <2>2. ASSUME NEW k \in runChunk', NEW m \in runChunk',
               k.run = m.run, k.entity = m.entity, k.index = m.index
        PROVE  k = m
    <3>1. PICK c \in runChunk :
             /\ k = IF c.run = src THEN [c EXCEPT !.run = r] ELSE c
             /\ k.run = IF c.run = src THEN r ELSE c.run
             /\ k.entity = c.entity /\ k.index = c.index
      BY <1>8
    <3>2. PICK d \in runChunk :
             /\ m = IF d.run = src THEN [d EXCEPT !.run = r] ELSE d
             /\ m.run = IF d.run = src THEN r ELSE d.run
             /\ m.entity = d.entity /\ m.index = d.index
      BY <1>8
    <3>3. c.run = d.run
      BY <1>6, <2>2, <3>1, <3>2
    <3>4. c = d
      BY <2>2, <3>1, <3>2, <3>3 DEF LedgerInv, KeyInv
    <3> QED
      BY <3>1, <3>2, <3>4
  <2> QED
    BY <1>1, <1>8, <2>1, <2>2 DEF KeyInv
<1>11. WindowInv'
  <2> SUFFICES ASSUME NEW k \in runChunk'
               PROVE  /\ k.first = k.index * runDump'[k.run][k.entity].size
                      /\ k.count <= runDump'[k.run][k.entity].size
    BY DEF WindowInv
  <2>1. PICK c \in runChunk :
           /\ k.run = IF c.run = src THEN r ELSE c.run
           /\ k.entity = c.entity /\ k.index = c.index
           /\ k.first = c.first /\ k.count = c.count
    BY <1>8
  <2>2. Selects(run, c.run, c.entity) /\ c.run \in RunId /\ c.run # r
    BY <1>6 DEF LedgerInv, KeyInv
  <2>3. runDump'[k.run][k.entity] = runDump[c.run][c.entity]
    BY <1>2, <1>3, <2>1, <2>2 DEF Selects
  <2> QED
    BY <2>1, <2>3 DEF LedgerInv, WindowInv
<1>12. ASSUME NEW e
       PROVE  /\ RunChunks(runChunk, src, e) \in SUBSET RunChunkRow
              /\ IsFiniteSet(RunChunks(runChunk, src, e))
              /\ RunChunks(runChunk', r, e) = {[c EXCEPT !.run = r] : c \in RunChunks(runChunk, src, e)}
              /\ ItemSum(RunChunks(runChunk', r, e)) = ItemSum(RunChunks(runChunk, src, e))
  <2>1. RunChunks(runChunk, src, e) \in SUBSET RunChunkRow /\ IsFiniteSet(RunChunks(runChunk, src, e))
    BY RunChunksFacts DEF LedgerInv
  <2>2. \A c \in RunChunks(runChunk, src, e) : c.run = src
    BY DEF RunChunks
  <2>3. ItemSum({[c EXCEPT !.run = r] : c \in RunChunks(runChunk, src, e)})
           = ItemSum(RunChunks(runChunk, src, e))
    BY <2>1, <2>2, SumMoves
  <2> QED
    BY <1>8, <2>1, <2>3
<1>13. CounterInv'
  <2> SUFFICES ASSUME NEW s \in RunId, Running(s)', NEW e \in DOMAIN run'[s].manifest
               PROVE  runDump'[s][e].processed = ItemSum(RunChunks(runChunk', s, e))
    BY DEF CounterInv
  <2>1. CASE s = r
    BY <1>1, <1>2, <1>3, <1>12, <2>1
  <2>2. CASE s # r
    <3>1. Running(s) /\ s # src /\ e \in DOMAIN run[s].manifest
      BY <1>9, <2>2
    <3>2. RunChunks(runChunk', s, e) = RunChunks(runChunk, s, e)
      BY <1>8, <2>2, <3>1
    <3> QED
      BY <1>3, <2>2, <3>1, <3>2 DEF LedgerInv, CounterInv
  <2> QED
    BY <2>1, <2>2
<1>14. CoverInv'
  <2> SUFFICES ASSUME NEW s \in RunId, NEW e \in DOMAIN run'[s].manifest, runDump'[s][e].total # Null
               PROVE  /\ runDump'[s][e].processed = DumpItems[run'[s].manifest[e]]
                      /\ Tiled(RunChunks(runChunk', s, e), DumpItems[run'[s].manifest[e]])
    BY DEF CoverInv
  <2>1. CASE s = r
    <3>1. /\ runDump[src][e].processed = DumpItems[run[src].manifest[e]]
          /\ Tiled(RunChunks(runChunk, src, e), DumpItems[run[src].manifest[e]])
      BY <1>1, <1>2, <1>3, <2>1 DEF LedgerInv, CoverInv
    <3>2. \A c \in RunChunks(runChunk, src, e) : Items([c EXCEPT !.run = r]) = Items(c)
      BY <1>12 DEF Items, RunChunkRow
    <3>3. UNION {Items(k) : k \in RunChunks(runChunk', s, e)}
             = UNION {Items(c) : c \in RunChunks(runChunk, src, e)}
      <4>1. PICK C : C = RunChunks(runChunk, src, e)
        OBVIOUS
      <4>2. RunChunks(runChunk', s, e) = {[c EXCEPT !.run = r] : c \in C}
        BY <1>12, <2>1, <4>1
      <4>3. \A c \in C : Items([c EXCEPT !.run = r]) = Items(c)
        BY <3>2, <4>1
      <4>4. UNION {Items(k) : k \in {[c EXCEPT !.run = r] : c \in C}}
               = UNION {Items([c EXCEPT !.run = r]) : c \in C}
        OBVIOUS
      <4>5. UNION {Items([c EXCEPT !.run = r]) : c \in C} = UNION {Items(c) : c \in C}
        BY <4>3
      <4> QED
        BY <4>1, <4>2, <4>4, <4>5
    <3>4. RunChunks(runChunk, src, e) = {} => RunChunks(runChunk', s, e) = {}
      BY <1>12, <2>1
    <3> QED
      BY <1>1, <1>2, <1>3, <2>1, <3>1, <3>3, <3>4 DEF Tiled
  <2>2. CASE s = src
    <3>1. RunChunks(runChunk', s, e) = {}
      BY <1>5, <1>8, <2>2
    <3>2. runDump'[s][e] = runDump[s][e] /\ run'[s].manifest = run[s].manifest
      BY <1>3, <1>5, <1>9, <2>2
    <3> QED
      BY <3>1, <3>2 DEF LedgerInv, CoverInv, Tiled
  <2>3. CASE s # r /\ s # src
    <3>1. RunChunks(runChunk', s, e) = RunChunks(runChunk, s, e)
      BY <1>8, <2>3
    <3> QED
      BY <1>3, <1>9, <2>3, <3>1 DEF LedgerInv, CoverInv
  <2> QED
    BY <2>1, <2>2, <2>3
<1> QED
  BY <1>10, <1>11, <1>13, <1>14 DEF LedgerInv

\* Every step keeps the ledger and the counters in agreement.
LEMMA LedgerStep ==
    ASSUME TypeOK, ProcessInv, ClockInv, InflightInv, LedgerInv, [Next]_vars
    PROVE  LedgerInv'
<1>1. CASE UNCHANGED tables
  BY <1>1, LedgerFrame DEF tables, Running
<1>2. ASSUME NEW p \in Importer, SkipExact(p) PROVE LedgerInv'
  <2>1. UNCHANGED <<run, runChunk, runDump, runSeq>>
    BY <1>2, SatisfiedMarksNothing DEF SkipExact
  <2> QED
    BY <2>1, LedgerFrame DEF Running
<1>3. ASSUME NEW p \in Importer, SkipConsolidated(p) PROVE LedgerInv'
  BY <1>3, ConsolidatedLedger
<1>4. ASSUME NEW p \in Importer, Admit(p) PROVE LedgerInv'
  BY <1>4, FreshLedger, ResumedLedger
<1>5. ASSUME NEW p \in Importer, NEW c \in inflight[p], CommitChunk(p, c) PROVE LedgerInv'
  BY <1>5, CommitLedger
<1>6. ASSUME NEW p \in Importer, CompleteEntity(p) PROVE LedgerInv'
  BY <1>6, CompleteLedger
<1>7. ASSUME NEW p \in Importer, CompleteSuccess(p) PROVE LedgerInv'
  BY <1>7, SuccessLedger
<1>8. ASSUME NEW p \in Importer, CompleteFailure(p) PROVE LedgerInv'
  <2>1. PICK r \in RunId :
           /\ Running(r) /\ run'[r].manifest = run[r].manifest
           /\ \A s \in RunId : s # r => run'[s] = run[s]
    BY <1>8, CompletedRun
  <2>2. UNCHANGED <<runChunk, runDump, runSeq>>
    BY <1>8 DEF CompleteFailure
  <2>3. \A s \in RunId : run'[s].manifest = run[s].manifest /\ (Running(s)' => Running(s))
    BY <2>1 DEF Running
  <2> QED
    BY <2>2, <2>3, LedgerFrame
<1> QED
  BY <1>1, <1>2, <1>3, <1>4, <1>5, <1>6, <1>7, <1>8, TableSteps

\* The agreement gives what the runs check: the windows of two indexes are disjoint, and a
\* running run's complete entity still has its chunks, or its dump is empty.
LEMMA LedgerMatches ==
    ASSUME TypeOK, LedgerInv
    PROVE  LedgerMatchesCounters
<1> SUFFICES ASSUME NEW r \in RunId, Running(r), NEW e \in DOMAIN run[r].manifest
             PROVE  /\ runDump[r][e].processed = ItemSum(RunChunks(runChunk, r, e))
                    /\ \A c, d \in RunChunks(runChunk, r, e) : c # d => Items(c) \cap Items(d) = {}
                    /\ runDump[r][e].total # Null =>
                          UNION {Items(c) : c \in RunChunks(runChunk, r, e)}
                             = 0..(DumpItems[run[r].manifest[e]] - 1)
  BY DEF LedgerMatchesCounters
<1>1. runDump[r][e].processed = ItemSum(RunChunks(runChunk, r, e))
  BY DEF LedgerInv, CounterInv
<1>2. ASSUME NEW c \in RunChunks(runChunk, r, e), NEW d \in RunChunks(runChunk, r, e), c # d
      PROVE  Items(c) \cap Items(d) = {}
  <2>1. /\ c \in runChunk /\ c.run = r /\ c.entity = e
        /\ d \in runChunk /\ d.run = r /\ d.entity = e
    BY DEF RunChunks
  <2>2. c.index # d.index
    BY <1>2, <2>1 DEF LedgerInv, KeyInv
  <2>3. /\ c.index \in Nat /\ c.count \in Nat \ {0}
        /\ d.index \in Nat /\ d.count \in Nat \ {0}
    BY RunChunksFacts DEF LedgerInv
  <2>4. PICK size : /\ size = runDump[r][e].size
                    /\ c.first = c.index * size /\ c.count <= size
                    /\ d.first = d.index * size /\ d.count <= size
    BY <2>1 DEF LedgerInv, WindowInv
  <2>5. size \in Nat \ {0}
    <3>1. e \in EntityType
      BY ManifestFacts DEF TypeOK, RunRow
    <3>2. size \in Nat
      BY <2>4, <3>1 DEF TypeOK, RunDumpRow
    <3> QED
      BY <2>3, <2>4, <3>2
  <2>6. (c.index * size)..(c.index * size + c.count - 1)
           \cap (d.index * size)..(d.index * size + d.count - 1) = {}
    BY <2>2, <2>3, <2>4, <2>5, WindowsAreDisjoint
  <2> QED
    BY <2>4, <2>6 DEF Items
<1>3. ASSUME runDump[r][e].total # Null
      PROVE  UNION {Items(c) : c \in RunChunks(runChunk, r, e)} = 0..(DumpItems[run[r].manifest[e]] - 1)
  <2>1. /\ runDump[r][e].processed = DumpItems[run[r].manifest[e]]
        /\ Tiled(RunChunks(runChunk, r, e), DumpItems[run[r].manifest[e]])
    BY <1>3 DEF LedgerInv, CoverInv
  <2>2. CASE RunChunks(runChunk, r, e) = {}
    <3>1. DumpItems[run[r].manifest[e]] = 0
      BY <1>1, <2>1, <2>2, SumPick
    <3>2. UNION {Items(c) : c \in RunChunks(runChunk, r, e)} = {}
      BY <2>2
    <3>3. 0..(0 - 1) = {}
      OBVIOUS
    <3> QED
      BY <3>1, <3>2, <3>3
  <2>3. CASE RunChunks(runChunk, r, e) # {}
    BY <2>1, <2>3 DEF Tiled
  <2> QED
    BY <2>2, <2>3
<1> QED
  BY <1>1, <1>2, <1>3

LEMMA LedgerAlways == Spec => []LedgerInv
<1>1. Init => InflightInv
  BY DEF Init, InflightInv
<1>2. Init => LedgerInv
  <2> SUFFICES ASSUME Init PROVE LedgerInv
    OBVIOUS
  <2>1. /\ runChunk = {}
        /\ \A r \in RunId : run[r].status = "absent" /\ DOMAIN run[r].manifest = {}
    BY DEF Init, NoRunRow
  <2>2. KeyInv /\ WindowInv
    BY <2>1, FS_EmptySet DEF KeyInv, WindowInv
  <2>3. CounterInv /\ CoverInv
    BY <2>1 DEF CounterInv, CoverInv, Running
  <2> QED
    BY <2>2, <2>3 DEF LedgerInv
<1>3. TypeOK /\ ProcessInv /\ InflightInv /\ [Next]_vars => InflightInv'
  BY InflightStep
<1>4. TypeOK /\ ProcessInv /\ ClockInv /\ InflightInv /\ LedgerInv /\ [Next]_vars => LedgerInv'
  BY LedgerStep
<1> QED
  BY <1>1, <1>2, <1>3, <1>4, TypeCorrect, ProcessCorrect, ClockAlways, PTL DEF Spec

\* The counter of a running run is the sum of its ledger, the ledger's chunks do not overlap,
\* and those of a complete entity tile its dump.
THEOREM LedgersMatch == Spec => []LedgerMatchesCounters
<1>1. TypeOK /\ LedgerInv => LedgerMatchesCounters
  BY LedgerMatches
<1> QED
  BY <1>1, TypeCorrect, LedgerAlways, PTL

-----------------------------------------------------------------------------
(***************************************************************************)
(* Chains of resumptions.  ChainRoot follows `from' back to the first run  *)
(* of a chain; a run resumes an earlier one, so this ends.                 *)
(***************************************************************************)
\* ChainRoot's recursion, on the run table T.
RootStep(g, T, r) == IF T[r].from \in 1..(r - 1) THEN g[T[r].from] ELSE r
IsRoot(f, T) == f = [r \in RunId |-> RootStep(f, T, r)]
RootsOf(T) == CHOOSE f : IsRoot(f, T)

LEMMA ChainRootIs == ChainRoot = RootsOf(run)
BY DEF ChainRoot, RootsOf, IsRoot, RootStep

\* The recursion has a solution.
LEMMA RootsExist ==
    ASSUME NEW T
    PROVE  IsRoot(RootsOf(T), T)
<1> DEFINE Upto(n) == \E g : \A r \in RunId : r <= n => g[r] = RootStep(g, T, r)
           Bad == {n \in Nat : ~Upto(n)}
<1>1. RunId \subseteq Nat \ {0}
  BY ConstantsAssumption DEF RunId
<1>2. Upto(0)
  BY <1>1
<1>3. ASSUME NEW n \in Nat, Upto(n) PROVE Upto(n + 1)
  <2>1. PICK g : \A r \in RunId : r <= n => g[r] = RootStep(g, T, r)
    BY <1>3
  <2> DEFINE h == [r \in RunId |-> RootStep(g, T, r)]
  <2>2. ASSUME NEW r \in RunId, r <= n + 1 PROVE h[r] = RootStep(h, T, r)
    <3>1. CASE T[r].from \in 1..(r - 1)
      <4> DEFINE s == T[r].from
      <4>1. s \in RunId /\ s <= n
        BY <1>1, <2>2, <3>1, ConstantsAssumption DEF RunId
      <4>2. h[s] = g[s]
        BY <2>1, <4>1
      <4>3. h[r] = g[s]
        BY <3>1 DEF RootStep
      <4> QED
        BY <3>1, <4>2, <4>3 DEF RootStep
    <3>2. CASE T[r].from \notin 1..(r - 1)
      BY <3>2 DEF RootStep
    <3> QED
      BY <3>1, <3>2
  <2> HIDE DEF h
  <2> QED
    BY <2>2
<1> HIDE DEF Upto
<1>4. Bad = {}
  <2> SUFFICES ASSUME Bad # {} PROVE FALSE
    OBVIOUS
  <2>1. PICK n \in Bad : \A m \in Bad : n <= m
    <3>1. Bad \in SUBSET Nat
      OBVIOUS
    <3> HIDE DEF Bad
    <3> QED
      BY <3>1, LeastNatural
  <2>2. n # 0 /\ n - 1 \in Nat /\ n - 1 \notin Bad
    BY <1>2, <2>1
  <2>3. Upto(n - 1)
    BY <2>2
  <2>4. Upto((n - 1) + 1)
    BY <1>3, <2>2, <2>3
  <2>5. (n - 1) + 1 = n
    BY <2>1
  <2> QED
    BY <2>1, <2>4, <2>5
<1>5. PICK g : \A r \in RunId : r <= MaxRuns => g[r] = RootStep(g, T, r)
  BY <1>4, ConstantsAssumption DEF Upto
<1> DEFINE f == [r \in RunId |-> g[r]]
<1>6. ASSUME NEW r \in RunId PROVE f[r] = RootStep(f, T, r)
  <2>1. g[r] = RootStep(g, T, r)
    BY <1>5, ConstantsAssumption DEF RunId
  <2>2. T[r].from \in 1..(r - 1) => T[r].from \in RunId
    BY ConstantsAssumption DEF RunId
  <2> QED
    BY <2>1, <2>2 DEF RootStep
<1>7. IsRoot(f, T)
  BY <1>6 DEF IsRoot
<1> HIDE DEF f
<1> QED
  BY <1>7 DEF RootsOf

LEMMA RootsUnfold ==
    ASSUME NEW T, NEW r \in RunId
    PROVE  RootsOf(T)[r] = IF T[r].from \in 1..(r - 1) THEN RootsOf(T)[T[r].from] ELSE r
<1> DEFINE f == RootsOf(T)
<1>1. f = [x \in RunId |-> RootStep(f, T, x)]
  BY RootsExist DEF IsRoot
<1> HIDE DEF f
<1>2. f[r] = RootStep(f, T, r)
  BY <1>1
<1> QED
  BY <1>2 DEF f, RootStep

\* A chain begins at its end or before.
LEMMA RootsBounded ==
    ASSUME NEW T, NEW r \in RunId
    PROVE  RootsOf(T)[r] \in 1..r
<1> DEFINE Bad == {x \in RunId : RootsOf(T)[x] \notin 1..x}
<1>1. Bad = {}
  <2> SUFFICES ASSUME Bad # {} PROVE FALSE
    OBVIOUS
  <2>1. PICK x \in Bad : \A y \in Bad : x <= y
    <3>1. Bad \in SUBSET Nat
      BY ConstantsAssumption DEF RunId
    <3> HIDE DEF Bad
    <3> QED
      BY <3>1, LeastNatural
  <2>2. x \in RunId /\ x \in Nat \ {0} /\ x <= MaxRuns /\ MaxRuns \in Nat
    BY ConstantsAssumption DEF RunId
  <2>3. CASE T[x].from \in 1..(x - 1)
    <3>1. PICK y : y = T[x].from
      OBVIOUS
    <3>2. y \in RunId /\ y < x /\ y \in Nat
      BY <2>2, <2>3, <3>1 DEF RunId
    <3>3. RootsOf(T)[y] \in 1..y
      BY <2>1, <2>2, <3>2
    <3>4. RootsOf(T)[x] = RootsOf(T)[y]
      BY <2>2, <2>3, <3>1, RootsUnfold
    <3> QED
      BY <2>1, <2>2, <3>2, <3>3, <3>4
  <2>4. CASE T[x].from \notin 1..(x - 1)
    BY <2>1, <2>2, <2>4, RootsUnfold
  <2> QED
    BY <2>3, <2>4
<1> QED
  BY <1>1

\* The chains of recorded runs stay when runs are added behind them.
LEMMA RootsAgree ==
    ASSUME NEW T, NEW U, NEW m \in Nat,
           \A r \in RunId : r <= m => U[r].from = T[r].from
    PROVE  \A r \in RunId : r <= m => RootsOf(U)[r] = RootsOf(T)[r]
<1> DEFINE Bad == {x \in RunId : x <= m /\ RootsOf(U)[x] # RootsOf(T)[x]}
<1>1. Bad = {}
  <2> SUFFICES ASSUME Bad # {} PROVE FALSE
    OBVIOUS
  <2>1. PICK x \in Bad : \A y \in Bad : x <= y
    <3>1. Bad \in SUBSET Nat
      BY ConstantsAssumption DEF RunId
    <3> HIDE DEF Bad
    <3> QED
      BY <3>1, LeastNatural
  <2>2. x \in RunId /\ x \in Nat \ {0} /\ x <= m /\ x <= MaxRuns /\ MaxRuns \in Nat
    BY ConstantsAssumption DEF RunId
  <2>3. U[x].from = T[x].from
    BY <2>2
  <2>4. CASE T[x].from \in 1..(x - 1)
    <3>1. PICK y : y = T[x].from
      OBVIOUS
    <3>2. y \in RunId /\ y < x /\ y \in Nat /\ y <= m
      BY <2>2, <2>4, <3>1 DEF RunId
    <3>3. RootsOf(U)[y] = RootsOf(T)[y]
      BY <2>1, <2>2, <3>2
    <3> QED
      BY <2>1, <2>2, <2>3, <2>4, <3>1, <3>3, RootsUnfold
  <2>5. CASE T[x].from \notin 1..(x - 1)
    BY <2>1, <2>2, <2>3, <2>5, RootsUnfold
  <2> QED
    BY <2>4, <2>5
<1> QED
  BY <1>1

-----------------------------------------------------------------------------
(***************************************************************************)
(* Why rows may differ from what a run wrote.  The three excuses are       *)
(* stated of a run table T, since an admission grows the table.            *)
(***************************************************************************)
\* A foreign failure within the run's chain of resumptions.
Interrupted(T, r, e) ==
    \E s \in RunId :
        /\ RootsOf(T)[r] < s /\ s < r
        /\ T[s].status = "failed"
        /\ Selects(T, s, e)
        /\ Version(T, s, e) # Version(T, r, e)

\* The run's version was once imported over a foreign failure.
Tainted(T, r, e) ==
    \E q \in Successes(T, e) : Version(T, q, e) = Version(T, r, e) /\ Interrupted(T, q, e)

\* A later run imports another version.
Overrun(T, r, e) ==
    \E s \in RunId : s > r /\ Selects(T, s, e) /\ Version(T, s, e) # Version(T, r, e)

Excused(T, r, e) == Interrupted(T, r, e) \/ Tainted(T, r, e) \/ Overrun(T, r, e)

\* Table U is T with runs added behind m, and runs settled.
Grown(T, U, m) ==
    \A s \in RunId : s <= m =>
        /\ U[s].manifest = T[s].manifest /\ U[s].rev = T[s].rev /\ U[s].from = T[s].from
        /\ T[s].status \in {"success", "failed"} => U[s].status = T[s].status

LEMMA InterruptedKept ==
    ASSUME NEW T, NEW U, NEW m \in Nat, Grown(T, U, m), NEW e, NEW r \in RunId, r <= m,
           Interrupted(T, r, e)
    PROVE  Interrupted(U, r, e)
<1>1. PICK s \in RunId :
         /\ RootsOf(T)[r] < s /\ s < r
         /\ T[s].status = "failed"
         /\ Selects(T, s, e)
         /\ Version(T, s, e) # Version(T, r, e)
  BY DEF Interrupted
<1>2. s <= m
  BY <1>1, ConstantsAssumption DEF RunId
<1>3. RootsOf(U)[r] = RootsOf(T)[r]
  BY RootsAgree DEF Grown
<1>4. U[s].status = "failed" /\ Selects(U, s, e)
  BY <1>1, <1>2 DEF Grown, Selects
<1>5. Version(U, s, e) = Version(T, s, e) /\ Version(U, r, e) = Version(T, r, e)
  BY <1>2 DEF Grown, Version
<1> QED
  BY <1>1, <1>3, <1>4, <1>5 DEF Interrupted

\* A run that was excused stays excused.
LEMMA ExcuseKept ==
    ASSUME NEW T, NEW U, NEW m \in Nat, Grown(T, U, m), NEW e,
           \A s \in RunId : Selects(T, s, e) => s <= m,
           NEW r \in RunId, r <= m, Excused(T, r, e)
    PROVE  Excused(U, r, e)
<1>1. \A s \in RunId : s <= m =>
         Version(U, s, e) = Version(T, s, e) /\ (Selects(T, s, e) => Selects(U, s, e))
  BY DEF Grown, Version, Selects
<1>2. CASE Interrupted(T, r, e)
  BY <1>2, InterruptedKept DEF Excused
<1>3. CASE Tainted(T, r, e)
  <2>1. PICK q \in Successes(T, e) : Version(T, q, e) = Version(T, r, e) /\ Interrupted(T, q, e)
    BY <1>3 DEF Tainted
  <2>2. q \in RunId /\ q <= m /\ T[q].status = "success" /\ Selects(T, q, e)
    BY DEF Successes
  <2>3. Interrupted(U, q, e)
    BY <2>1, <2>2, InterruptedKept
  <2>4. q \in Successes(U, e)
    BY <1>1, <2>2 DEF Successes, Grown
  <2>5. Version(U, q, e) = Version(U, r, e)
    BY <1>1, <2>1, <2>2
  <2> QED
    BY <2>3, <2>4, <2>5 DEF Excused, Tainted
<1>4. CASE Overrun(T, r, e)
  <2>1. PICK s \in RunId : s > r /\ Selects(T, s, e) /\ Version(T, s, e) # Version(T, r, e)
    BY <1>4 DEF Overrun
  <2> QED
    BY <1>1, <2>1 DEF Excused, Overrun
<1> QED
  BY <1>2, <1>3, <1>4 DEF Excused

-----------------------------------------------------------------------------
(***************************************************************************)
(* The order of runs.  Two runs of one entity do not overlap: the later    *)
(* one's admission settled the earlier one.                                *)
(***************************************************************************)
\* A run that was not recorded selects nothing.
AbsentInv == \A r \in RunId : run[r].status = "absent" => DOMAIN run[r].manifest = {}

Ordered(T, x, y, e) ==
    x < y /\ Selects(T, x, e) /\ Selects(T, y, e) =>
        /\ T[x].status \in {"success", "failed"}
        /\ T[y].status # "running" => T[x].at < T[y].at

OrderInv == AbsentInv /\ \A e \in EntityType : \A x, y \in RunId : Ordered(run, x, y, e)

\* Whoever selects an entity has been recorded.
LEMMA SelectorsRecorded ==
    ASSUME TypeOK, ProcessInv, AbsentInv
    PROVE  /\ runSeq \in Nat
           /\ \A r \in RunId : \A e : Selects(run, r, e) =>
                 r <= runSeq /\ run[r].status \in {"running", "success", "failed"}
<1>1. runSeq \in Nat /\ \A r \in RunId : r \in Nat
  BY ConstantsAssumption DEF TypeOK, RunId
<1>2. ASSUME NEW r \in RunId, NEW e, Selects(run, r, e)
      PROVE  r <= runSeq /\ run[r].status \in {"running", "success", "failed"}
  <2>1. run[r].status # "absent"
    BY <1>2 DEF AbsentInv, Selects
  <2>2. run[r].status \in {"absent", "running", "success", "failed"}
    BY DEF TypeOK, RunRow
  <2>3. ~(r > runSeq)
    BY <2>1 DEF ProcessInv, UnusedRunsAbsent
  <2> QED
    BY <1>1, <2>1, <2>2, <2>3
<1> QED
  BY <1>1, <1>2

\* Rows of recorded runs keep what they import, and settled runs stay settled.
LEMMA TableGrows ==
    ASSUME TypeOK, ProcessInv, ClockInv, [Next]_vars
    PROVE  Grown(run, run', runSeq)
<1> SUFFICES ASSUME NEW s \in RunId, s <= runSeq
             PROVE  /\ run'[s].manifest = run[s].manifest /\ run'[s].rev = run[s].rev
                    /\ run'[s].from = run[s].from
                    /\ run[s].status \in {"success", "failed"} => run'[s].status = run[s].status
  BY DEF Grown
<1>0. runSeq \in Nat /\ s \in Nat /\ s # runSeq + 1
  BY ConstantsAssumption DEF TypeOK, RunId
<1>1. CASE UNCHANGED <<run, clock, runSeq>>
  BY <1>1
<1>2. ASSUME NEW p \in Importer, Admit(p)
      PROVE  /\ run'[s].manifest = run[s].manifest /\ run'[s].rev = run[s].rev
             /\ run'[s].from = run[s].from
             /\ run[s].status \in {"success", "failed"} => run'[s].status = run[s].status
  <2>1. run'[s] = Marked(p)[s]
    BY <1>0, <1>2, AdmittedRun
  <2>2. CASE Marked(p)[s] = run[s]
    BY <2>1, <2>2
  <2>3. CASE Marked(p)[s] # run[s]
    <3>1. /\ Running(s)
          /\ Marked(p)[s].manifest = run[s].manifest /\ Marked(p)[s].rev = run[s].rev
          /\ Marked(p)[s].from = run[s].from
      BY <2>3, MarkedRun
    <3> QED
      BY <2>1, <3>1 DEF Running
  <2> QED
    BY <2>2, <2>3
<1>3. ASSUME NEW p \in Importer, SkipConsolidated(p) PROVE run'[s] = run[s]
  BY <1>0, <1>3, ConsolidatedRun
<1>4. ASSUME NEW p \in Importer, CompleteSuccess(p) \/ CompleteFailure(p)
      PROVE  /\ run'[s].manifest = run[s].manifest /\ run'[s].rev = run[s].rev
             /\ run'[s].from = run[s].from
             /\ run[s].status \in {"success", "failed"} => run'[s].status = run[s].status
  <2>1. PICK r \in RunId :
           /\ Running(r)
           /\ run'[r].manifest = run[r].manifest /\ run'[r].rev = run[r].rev
           /\ run'[r].from = run[r].from
           /\ \A x \in RunId : x # r => run'[x] = run[x]
    BY <1>4, CompletedRun
  <2> QED
    BY <2>1 DEF Running
<1> QED
  BY <1>1, <1>2, <1>3, <1>4, RunSteps

\* After an admission, or under a plan that is satisfied, no other run of its entities is running.
LEMMA MarkedSettles ==
    ASSUME TypeOK, ProcessInv, AbsentInv, NEW p \in Importer,
           NEW e \in DOMAIN req[p].manifest, NEW s \in RunId, Selects(run, s, e)
    PROVE  Marked(p)[s].status \in {"success", "failed"}
<1>1. run[s].status \in {"running", "success", "failed"}
  BY SelectorsRecorded
<1>2. DOMAIN run[s].manifest \cap DOMAIN req[p].manifest # {}
  BY DEF Selects
<1>3. CASE Running(s)
  <2>1. Marked(p)[s].status = "failed"
    BY <1>2, <1>3, MarkedRun
  <2> QED
    BY <2>1
<1>4. CASE ~Running(s)
  <2>1. Marked(p)[s] = run[s]
    BY <1>4, MarkedRun
  <2> QED
    BY <1>1, <1>4, <2>1 DEF Running
<1> QED
  BY <1>3, <1>4

\* Marking keeps the order.
LEMMA MarkedOrdered ==
    ASSUME TypeOK, ClockInv, OrderInv, NEW p \in Importer, NEW e \in EntityType,
           NEW x \in RunId, NEW y \in RunId
    PROVE  Ordered(Marked(p), x, y, e)
<1>1. SUFFICES ASSUME x < y, Selects(Marked(p), x, e), Selects(Marked(p), y, e)
               PROVE  /\ Marked(p)[x].status \in {"success", "failed"}
                      /\ Marked(p)[y].status # "running" => Marked(p)[x].at < Marked(p)[y].at
  BY DEF Ordered
<1>2. Selects(run, x, e) /\ Selects(run, y, e)
  BY <1>1, AbandonFacts DEF Marked, TypeOK, Selects
<1>3. run[x].status \in {"success", "failed"} /\ (~Running(y) => run[x].at < run[y].at)
  BY <1>1, <1>2 DEF OrderInv, Ordered, Running
<1>4. Marked(p)[x] = run[x]
  BY <1>3, MarkedRun DEF Running
<1>5. CASE Marked(p)[y] = run[y]
  BY <1>3, <1>4, <1>5 DEF Running
<1>6. CASE Marked(p)[y] # run[y]
  <2>1. Marked(p)[y].at = clock
    BY <1>6, MarkedRun
  <2> QED
    BY <1>3, <1>4, <2>1 DEF ClockInv
<1> QED
  BY <1>5, <1>6

\* A run that is added, with its entities' other runs settled before now, comes last.
LEMMA OrderAdded ==
    ASSUME TypeOK, ProcessInv, AbsentInv, NEW T, NEW n \in RunId, n = runSeq + 1,
           \A s \in RunId : s # n => run'[s] = T[s],
           \A s \in RunId : T[s].manifest = run[s].manifest,
           NEW e, \A x \in RunId : \A y \in RunId : Ordered(T, x, y, e),
           Selects(run', n, e) => \A s \in RunId : Selects(run, s, e) =>
               T[s].status \in {"success", "failed"}
                  /\ (run'[n].status # "running" => T[s].at < run'[n].at)
    PROVE  \A x, y \in RunId : Ordered(run', x, y, e)
<1> SUFFICES ASSUME NEW x \in RunId, NEW y \in RunId,
                    x < y, Selects(run', x, e), Selects(run', y, e)
             PROVE  /\ run'[x].status \in {"success", "failed"}
                    /\ run'[y].status # "running" => run'[x].at < run'[y].at
  BY DEF Ordered
<1>1. \A s \in RunId : s # n => (Selects(run', s, e) <=> Selects(T, s, e))
                                 /\ (Selects(run', s, e) <=> Selects(run, s, e))
  BY DEF Selects
<1>2. \A s \in RunId : s \in Nat
  BY ConstantsAssumption DEF RunId
<1>3. x # n
  <2>1. CASE y = n
    BY <1>2, <2>1
  <2>2. CASE y # n
    <3>1. y <= runSeq /\ runSeq \in Nat
      BY <1>1, <2>2, SelectorsRecorded
    <3> QED
      BY <1>2, <3>1
  <2> QED
    BY <2>1, <2>2
<1>4. CASE y = n
  BY <1>1, <1>3, <1>4
<1>5. CASE y # n
  BY <1>1, <1>3, <1>5 DEF Ordered
<1> QED
  BY <1>4, <1>5

\* A run that ends is the last one of its entities.
LEMMA OrderEnded ==
    ASSUME TypeOK, ClockInv, OrderInv, NEW r \in RunId, Running(r),
           run'[r].status \in {"success", "failed"}, run'[r].at = clock,
           run'[r].manifest = run[r].manifest,
           \A s \in RunId : s # r => run'[s] = run[s],
           NEW e \in EntityType
    PROVE  \A x, y \in RunId : Ordered(run', x, y, e)
<1> SUFFICES ASSUME NEW x \in RunId, NEW y \in RunId,
                    x < y, Selects(run', x, e), Selects(run', y, e)
             PROVE  /\ run'[x].status \in {"success", "failed"}
                    /\ run'[y].status # "running" => run'[x].at < run'[y].at
  BY DEF Ordered
<1>1. Selects(run, x, e) /\ Selects(run, y, e)
  BY DEF Selects
<1>2. run[x].status \in {"success", "failed"} /\ (~Running(y) => run[x].at < run[y].at)
  BY <1>1 DEF OrderInv, Ordered, Running
<1>3. x # r /\ run'[x] = run[x]
  BY <1>2 DEF Running
<1>4. CASE y = r
  BY <1>2, <1>3, <1>4 DEF ClockInv
<1>5. CASE y # r
  BY <1>2, <1>3, <1>5 DEF Running
<1> QED
  BY <1>4, <1>5

LEMMA OrderStep ==
    ASSUME TypeOK, ProcessInv, ClockInv, OrderInv, [Next]_vars
    PROVE  OrderInv'
<1>1. CASE UNCHANGED <<run, clock, runSeq>>
  BY <1>1 DEF OrderInv, AbsentInv, Ordered, Selects
<1>2. ASSUME NEW p \in Importer, Admit(p) PROVE OrderInv'
  <2>1. PICK n \in RunId :
           /\ n = runSeq + 1 /\ run'[n].status = "running" /\ run'[n].manifest = req[p].manifest
           /\ \A s \in RunId : s # n => run'[s] = Marked(p)[s]
    BY <1>2, AdmittedRun
  <2>2. AbsentInv'
    <3> SUFFICES ASSUME NEW s \in RunId, run'[s].status = "absent"
                 PROVE  DOMAIN run'[s].manifest = {}
      BY DEF AbsentInv
    <3>1. s # n /\ run'[s] = Marked(p)[s]
      BY <2>1
    <3>2. Marked(p)[s] = run[s]
      BY <3>1, MarkedRun
    <3> QED
      BY <3>1, <3>2 DEF OrderInv, AbsentInv
  <2>3. ASSUME NEW e \in EntityType PROVE \A x, y \in RunId : Ordered(run', x, y, e)
    <3>1. \A s \in RunId : Marked(p)[s].manifest = run[s].manifest
      BY AbandonFacts DEF Marked, TypeOK
    <3>2. Selects(run', n, e) => \A s \in RunId : Selects(run, s, e) =>
             Marked(p)[s].status \in {"success", "failed"}
      BY <2>1, MarkedSettles DEF OrderInv, Selects
    <3>3. \A x \in RunId : \A y \in RunId : Ordered(Marked(p), x, y, e)
      BY <2>3, MarkedOrdered
    <3> QED
      BY <2>1, <3>1, <3>2, <3>3, OrderAdded DEF OrderInv
  <2> QED
    BY <2>2, <2>3 DEF OrderInv
<1>3. ASSUME NEW p \in Importer, SkipConsolidated(p) PROVE OrderInv'
  <2>1. PICK n \in RunId :
           /\ n = runSeq + 1 /\ run'[n].status = "success" /\ run'[n].manifest = req[p].manifest
           /\ run'[n].at = clock /\ Marked(p) = run
           /\ \A s \in RunId : s # n => run'[s] = run[s]
    BY <1>3, ConsolidatedRun
  <2>2. AbsentInv'
    BY <2>1 DEF OrderInv, AbsentInv
  <2>3. ASSUME NEW e \in EntityType PROVE \A x, y \in RunId : Ordered(run', x, y, e)
    <3>1. Selects(run', n, e) => \A s \in RunId : Selects(run, s, e) =>
             run[s].status \in {"success", "failed"} /\ run[s].at < run'[n].at
      BY <2>1, MarkedSettles DEF OrderInv, Selects, ClockInv
    <3>2. \A x \in RunId : \A y \in RunId : Ordered(run, x, y, e)
      BY <2>3 DEF OrderInv
    <3> QED
      BY <2>1, <3>1, <3>2, OrderAdded DEF OrderInv
  <2> QED
    BY <2>2, <2>3 DEF OrderInv
<1>4. ASSUME NEW p \in Importer, CompleteSuccess(p) \/ CompleteFailure(p) PROVE OrderInv'
  <2>1. PICK r \in RunId :
           /\ Running(r) /\ run'[r].status \in {"success", "failed"} /\ run'[r].at = clock
           /\ run'[r].manifest = run[r].manifest
           /\ \A s \in RunId : s # r => run'[s] = run[s]
    BY <1>4, CompletedRun
  <2>2. AbsentInv'
    BY <2>1 DEF OrderInv, AbsentInv
  <2>3. ASSUME NEW e \in EntityType PROVE \A x, y \in RunId : Ordered(run', x, y, e)
    BY <2>1, <2>3, OrderEnded
  <2> QED
    BY <2>2, <2>3 DEF OrderInv
<1> QED
  BY <1>1, <1>2, <1>3, <1>4, RunSteps

LEMMA OrderAlways == Spec => []OrderInv
<1>1. Init => OrderInv
  BY DEF Init, OrderInv, AbsentInv, Ordered, Selects, NoRunRow
<1>2. TypeOK /\ ProcessInv /\ ClockInv /\ OrderInv /\ [Next]_vars => OrderInv'
  BY OrderStep
<1> QED
  BY <1>1, <1>2, TypeCorrect, ProcessCorrect, ClockAlways, PTL DEF Spec

-----------------------------------------------------------------------------
(***************************************************************************)
(* Rows.  Every item of a recorded chunk, and every item of a checkpoint's *)
(* dump, is what the run wrote, unless there is an excuse.                 *)
(***************************************************************************)
Whole(T, r, e) == 0..(DumpItems[T[r].manifest[e]] - 1)
HoldsItem(T, R, r, e, i) == R[e][i] = Version(T, r, e) \/ Excused(T, r, e)

ChunkRows ==
    \A c \in runChunk : \A i \in Items(c) \cap Whole(run, c.run, c.entity) :
        HoldsItem(run, rows, c.run, c.entity, i)
CheckpointRows ==
    \A e \in EntityType : Checkpoint(run, e) # NoRun =>
        \A i \in Whole(run, Checkpoint(run, e), e) :
            HoldsItem(run, rows, Checkpoint(run, e), e, i)

RowsInv == ChunkRows /\ CheckpointRows

\* What a run holds, it holds after a step that leaves the item alone.
LEMMA HeldKept ==
    ASSUME TypeOK, ProcessInv, ClockInv, AbsentInv, [Next]_vars,
           NEW r \in RunId, NEW e, Selects(run, r, e)
    PROVE  /\ Version(run', r, e) = Version(run, r, e)
           /\ Whole(run', r, e) = Whole(run, r, e)
           /\ Selects(run', r, e)
           /\ \A i : rows'[e][i] = rows[e][i] /\ HoldsItem(run, rows, r, e, i)
                        => HoldsItem(run', rows', r, e, i)
<1>1. Grown(run, run', runSeq)
  BY TableGrows
<1>2. runSeq \in Nat /\ r <= runSeq /\ \A s \in RunId : Selects(run, s, e) => s <= runSeq
  BY SelectorsRecorded
<1>3. run'[r].manifest = run[r].manifest /\ run'[r].rev = run[r].rev
  BY <1>1, <1>2 DEF Grown
<1>4. Version(run', r, e) = Version(run, r, e) /\ Whole(run', r, e) = Whole(run, r, e)
      /\ Selects(run', r, e)
  BY <1>3 DEF Version, Whole, Selects
<1>5. Excused(run, r, e) => Excused(run', r, e)
  BY <1>1, <1>2, ExcuseKept
<1> QED
  BY <1>4, <1>5 DEF HoldsItem

\* Chunks belong to recorded runs of their entity.
LEMMA ChunkOwner ==
    ASSUME TypeOK, LedgerInv, NEW c \in runChunk
    PROVE  c.run \in RunId /\ c.entity \in EntityType /\ Selects(run, c.run, c.entity)
BY DEF TypeOK, RunChunkRow, LedgerInv, KeyInv

\* A chunk that stays in the ledger holds its items through a step that writes no row.
LEMMA ChunkRowsKept ==
    ASSUME TypeOK, ProcessInv, ClockInv, AbsentInv, LedgerInv, ChunkRows, [Next]_vars,
           rows' = rows, NEW c \in runChunk,
           NEW i \in Items(c), i \in Whole(run', c.run, c.entity)
    PROVE  HoldsItem(run', rows', c.run, c.entity, i)
<1>1. c.run \in RunId /\ Selects(run, c.run, c.entity)
  BY ChunkOwner
<1>2. i \in Whole(run, c.run, c.entity)
  BY <1>1, HeldKept
<1>3. HoldsItem(run, rows, c.run, c.entity, i)
  BY <1>2 DEF ChunkRows
<1> QED
  BY <1>1, <1>3, HeldKept

\* So does a checkpoint that stays.
LEMMA CheckpointRowsKept ==
    ASSUME TypeOK, ProcessInv, ClockInv, AbsentInv, CheckpointRows, [Next]_vars,
           rows' = rows, NEW e \in EntityType,
           Checkpoint(run', e) = Checkpoint(run, e), Checkpoint(run, e) # NoRun,
           NEW i \in Whole(run', Checkpoint(run, e), e)
    PROVE  HoldsItem(run', rows', Checkpoint(run, e), e, i)
<1>1. PICK c : c = Checkpoint(run, e)
  OBVIOUS
<1>2. c \in RunId /\ Selects(run, c, e)
  BY <1>1, CheckpointFacts DEF TypeOK, Successes
<1>3. i \in Whole(run, c, e)
  BY <1>1, <1>2, HeldKept
<1>4. HoldsItem(run, rows, c, e, i)
  BY <1>1, <1>3 DEF CheckpointRows
<1> QED
  BY <1>1, <1>2, <1>4, HeldKept

\* A running run is the last one of its entities.
LEMMA RunningIsLast ==
    ASSUME OrderInv, NEW r \in RunId, Running(r), NEW e \in EntityType, Selects(run, r, e),
           NEW s \in RunId, Selects(run, s, e), s # r
    PROVE  s < r
<1>1. ~(r < s)
  BY DEF OrderInv, Ordered, Running
<1> QED
  BY <1>1, ConstantsAssumption DEF RunId

\* Nobody selects an entity after the checkpoint that satisfies a plan.
LEMMA SatisfiedIsLast ==
    ASSUME TypeOK, ProcessInv, ClockInv, OrderInv, NEW p \in Importer,
           pc[p] = "admission", FullySatisfied(p), NEW e \in DOMAIN req[p].manifest,
           NEW s \in RunId, s > Checkpoint(run, e)
    PROVE  ~Selects(run, s, e)
<1> SUFFICES ASSUME Selects(run, s, e) PROVE FALSE
  OBVIOUS
<1>1. PICK c : c = Checkpoint(run, e)
  OBVIOUS
<1>2. /\ Marked(p) = run /\ c \in Successes(run, e) /\ ~Dirtied(run, e, c)
  BY <1>1, SatisfiedMarksNothing
<1>3. c \in RunId /\ Selects(run, c, e)
  BY <1>2 DEF Successes
<1>4. run[s].status \in {"success", "failed"}
  BY <1>2, MarkedSettles DEF OrderInv
<1>5. e \in EntityType
  BY RequestFacts
<1>6. c < s
  BY <1>1, <1>3, ConstantsAssumption DEF RunId
<1>7. run[c].at < run[s].at /\ run[c].at \in Nat /\ run[s].at \in Nat
  BY <1>3, <1>4, <1>5, <1>6, TimesAreNat DEF OrderInv, Ordered
<1>8. CASE run[s].status = "failed"
  <2>1. Later(run, s, c)
    BY <1>7 DEF Later
  <2> QED
    BY <1>2, <1>8, <2>1 DEF Dirtied
<1>9. CASE run[s].status = "success"
  <2>1. s \in Successes(run, e) /\ s # c
    BY <1>6, <1>9, <1>3, ConstantsAssumption DEF Successes, RunId
  <2>2. Later(run, c, s)
    BY <1>1, <2>1, TimesAreNat, CheckpointIsLast
  <2> QED
    BY <1>7, <2>2 DEF Later
<1> QED
  BY <1>4, <1>8, <1>9

\* A commit writes the version of the last run of the entity, which excuses all others.
LEMMA CommitRows ==
    ASSUME TypeOK, ProcessInv, ClockInv, OrderInv, LedgerInv, RowsInv,
           NEW p \in Importer, NEW c \in inflight[p], CommitChunk(p, c)
    PROVE  RowsInv'
<1>1. PICK r \in RunId : r = cur[p]
  BY CommitterFacts
<1>2. PICK e \in EntityType : e = Entity(p)
  BY CommitterFacts
<1>3. Running(r) /\ Selects(run, r, e)
  <2>1. pc[p] \in Working /\ left[p] # {}
    BY DEF CommitChunk, ProcessInv, ImporterInv, Working
  <2> QED
    BY <1>1, <1>2, <2>1, CommitterFacts, EntityFacts DEF Selects
<1>4. /\ rows' = [rows EXCEPT ![e] =
                     [i \in Item |-> IF i \in Items(c) THEN Version(run, r, e) ELSE rows[e][i]]]
      /\ runChunk' = runChunk \cup {Row(r, e, c)}
      /\ run' = run
  BY <1>1, <1>2 DEF CommitChunk, TypeOK
<1>5. /\ \A f \in EntityType : f # e => rows'[f] = rows[f]
      /\ \A i \in Item : rows'[e][i] = IF i \in Items(c) THEN Version(run, r, e) ELSE rows[e][i]
  BY <1>4 DEF TypeOK
<1>6. ASSUME NEW x \in RunId, NEW f \in EntityType, Selects(run, x, f)
      PROVE  \A i \in Whole(run, x, f) : i \in Item
  <2>1. run[x].manifest[f] \in Dump
    BY <1>6, ManifestFacts DEF TypeOK, RunRow, Selects
  <2>2. DumpItems[run[x].manifest[f]] \in 0..MaxItems /\ MaxItems \in Nat
    BY <2>1, ConstantsAssumption
  <2> QED
    BY <2>2 DEF Whole, Item
<1>7. ASSUME NEW x \in RunId, NEW f \in EntityType, Selects(run, x, f),
             NEW i \in Whole(run, x, f), HoldsItem(run, rows, x, f, i)
      PROVE  HoldsItem(run, rows', x, f, i)
  <2>1. CASE rows'[f][i] = rows[f][i]
    BY <1>7, <2>1 DEF HoldsItem
  <2>2. CASE rows'[f][i] # rows[f][i]
    <3>1. f = e /\ rows'[f][i] = Version(run, r, e)
      BY <1>5, <1>6, <1>7, <2>2
    <3>2. CASE Version(run, x, f) = Version(run, r, e)
      BY <3>1, <3>2 DEF HoldsItem
    <3>3. CASE Version(run, x, f) # Version(run, r, e)
      <4>1. x # r
        BY <3>1, <3>3
      <4>2. x < r
        BY <1>3, <1>7, <3>1, <4>1, RunningIsLast
      <4>3. r > x
        BY <4>2, ConstantsAssumption DEF RunId
      <4> QED
        BY <1>3, <3>1, <3>3, <4>3 DEF HoldsItem, Excused, Overrun
    <3> QED
      BY <3>2, <3>3
  <2> QED
    BY <2>1, <2>2
<1>8. ChunkRows'
  <2> SUFFICES ASSUME NEW k \in runChunk', NEW i \in Items(k), i \in Whole(run, k.run, k.entity)
               PROVE  HoldsItem(run, rows', k.run, k.entity, i)
    BY <1>4 DEF ChunkRows, Items
  <2>1. CASE k \in runChunk
    <3>1. k.run \in RunId /\ k.entity \in EntityType /\ Selects(run, k.run, k.entity)
      BY <2>1, ChunkOwner
    <3>2. HoldsItem(run, rows, k.run, k.entity, i)
      BY <2>1 DEF RowsInv, ChunkRows
    <3> QED
      BY <1>7, <3>1, <3>2
  <2>2. CASE k = Row(r, e, c)
    <3>1. k.run = r /\ k.entity = e /\ k.first = c.first /\ k.count = c.count
      BY <2>2 DEF Row
    <3>2. i \in Items(c)
      BY <3>1 DEF Items
    <3>3. i \in Item
      BY <1>3, <1>6, <3>1
    <3> QED
      BY <1>5, <3>1, <3>2, <3>3 DEF HoldsItem
  <2> QED
    BY <1>4, <2>1, <2>2
<1>9. CheckpointRows'
  <2> SUFFICES ASSUME NEW f \in EntityType, Checkpoint(run, f) # NoRun,
                      NEW i \in Whole(run, Checkpoint(run, f), f)
               PROVE  HoldsItem(run, rows', Checkpoint(run, f), f, i)
    BY <1>4 DEF CheckpointRows
  <2>1. Checkpoint(run, f) \in RunId /\ Selects(run, Checkpoint(run, f), f)
    BY CheckpointFacts DEF TypeOK, Successes
  <2>2. HoldsItem(run, rows, Checkpoint(run, f), f, i)
    BY DEF RowsInv, CheckpointRows
  <2> QED
    BY <1>7, <2>1, <2>2
<1> QED
  BY <1>8, <1>9 DEF RowsInv

\* A taint passes to every run of the version, in every later table.
LEMMA TaintMoves ==
    ASSUME NEW T, NEW U, NEW m \in Nat, Grown(T, U, m), NEW e,
           \A s \in RunId : Selects(T, s, e) => s <= m,
           NEW r \in RunId, r <= m,
           Tainted(T, r, e) \/ (Interrupted(T, r, e) /\ r \in Successes(T, e)),
           NEW n \in RunId, Version(U, n, e) = Version(T, r, e)
    PROVE  Tainted(U, n, e)
<1>1. PICK q \in Successes(T, e) : Version(T, q, e) = Version(T, r, e) /\ Interrupted(T, q, e)
  BY DEF Tainted
<1>2. q \in RunId /\ q <= m /\ T[q].status = "success" /\ Selects(T, q, e)
  BY DEF Successes
<1>3. Interrupted(U, q, e)
  BY <1>1, <1>2, InterruptedKept
<1>4. q \in Successes(U, e) /\ Version(U, q, e) = Version(T, q, e)
  BY <1>2 DEF Successes, Grown, Selects, Version
<1> QED
  BY <1>1, <1>3, <1>4 DEF Tainted

\* A consolidated run holds what the checkpoints hold, which nobody has overrun.
LEMMA ConsolidatedRows ==
    ASSUME TypeOK, TypeOK', ProcessInv, ClockInv, OrderInv, LedgerInv, RowsInv, [Next]_vars,
           NEW p \in Importer, SkipConsolidated(p)
    PROVE  RowsInv'
<1>1. rows' = rows /\ runChunk' = runChunk
  BY DEF SkipConsolidated
<1>2. PICK n \in RunId :
         /\ run[n].status = "absent" /\ run'[n].status = "success" /\ run'[n].at = clock
         /\ run'[n].manifest = req[p].manifest /\ run'[n].rev = req[p].rev
         /\ \A s \in RunId : s # n => run'[s] = run[s]
  BY ConsolidatedRun
<1>3. ChunkRows'
  BY <1>1, ChunkRowsKept DEF RowsInv, ChunkRows, OrderInv, Items
<1>4. CheckpointRows'
  <2> SUFFICES ASSUME NEW e \in EntityType, Checkpoint(run', e) # NoRun,
                      NEW i \in Whole(run', Checkpoint(run', e), e)
               PROVE  HoldsItem(run', rows', Checkpoint(run', e), e, i)
    BY DEF CheckpointRows
  <2>1. CASE e \notin DOMAIN req[p].manifest
    <3>1. ~Selects(run', n, e)
      BY <1>2, <2>1 DEF Selects
    <3>2. Checkpoint(run', e) = Checkpoint(run, e)
      BY <1>2, <3>1, SameCheckpoint
    <3> QED
      BY <1>1, <3>2, CheckpointRowsKept DEF RowsInv, OrderInv
  <2>2. CASE e \in DOMAIN req[p].manifest
    <3>1. Checkpoint(run', e) = n
      BY <1>2, <2>2, SuccessIsCheckpoint DEF Selects
    <3>2. PICK c : c = Checkpoint(run, e)
      OBVIOUS
    <3>3. /\ c # NoRun /\ c \in Successes(run, e)
          /\ run[c].manifest[e] = req[p].manifest[e] /\ run[c].rev[e] = req[p].rev[e]
      BY <2>2, <3>2, SatisfiedMarksNothing DEF SkipConsolidated
    <3>4. Version(run', n, e) = Version(run, c, e) /\ Whole(run', n, e) = Whole(run, c, e)
      BY <1>2, <3>3 DEF Version, Whole
    <3>5. HoldsItem(run, rows, c, e, i)
      BY <3>1, <3>2, <3>3, <3>4 DEF RowsInv, CheckpointRows
    <3>6. c \in RunId /\ Selects(run, c, e)
      BY <3>3 DEF Successes
    <3>7. ~Overrun(run, c, e)
      BY <2>2, <3>2, SatisfiedIsLast DEF SkipConsolidated, Overrun
    <3>8. CASE rows[e][i] = Version(run, c, e)
      BY <1>1, <3>1, <3>4, <3>8 DEF HoldsItem
    <3>9. CASE Interrupted(run, c, e) \/ Tainted(run, c, e)
      <4>1. Grown(run, run', runSeq)
        BY TableGrows
      <4>2. runSeq \in Nat /\ c <= runSeq /\ \A s \in RunId : Selects(run, s, e) => s <= runSeq
        BY <3>6, SelectorsRecorded DEF OrderInv
      <4>3. Tainted(run', n, e)
        BY <3>3, <3>4, <3>6, <3>9, <4>1, <4>2, TaintMoves
      <4> QED
        BY <3>1, <4>3 DEF HoldsItem, Excused
    <3> QED
      BY <3>5, <3>7, <3>8, <3>9 DEF HoldsItem, Excused
  <2> QED
    BY <2>1, <2>2
<1> QED
  BY <1>3, <1>4 DEF RowsInv

\* A run that succeeds has a chunk for every item.
LEMMA SuccessRows ==
    ASSUME TypeOK, TypeOK', ProcessInv, ClockInv, OrderInv, LedgerInv, RowsInv, [Next]_vars,
           NEW p \in Importer, CompleteSuccess(p)
    PROVE  RowsInv'
<1>1. /\ rows' = rows /\ runChunk' \subseteq runChunk
      /\ \A e \in DOMAIN run[cur[p]].manifest : ~EntityIncomplete(cur[p], e)
  BY DEF CompleteSuccess
<1>2. PICK r \in RunId :
         /\ r = cur[p] /\ Running(r) /\ run'[r].at = clock
         /\ run'[r].manifest = run[r].manifest /\ run'[r].rev = run[r].rev
         /\ \A s \in RunId : s # r => run'[s] = run[s]
  BY CompletedRun
<1>3. run'[r].status = "success"
  BY <1>2 DEF CompleteSuccess, TypeOK, RunRow
<1>4. ChunkRows'
  BY <1>1, ChunkRowsKept DEF RowsInv, ChunkRows, OrderInv, Items
<1>5. CheckpointRows'
  <2> SUFFICES ASSUME NEW e \in EntityType, Checkpoint(run', e) # NoRun,
                      NEW i \in Whole(run', Checkpoint(run', e), e)
               PROVE  HoldsItem(run', rows', Checkpoint(run', e), e, i)
    BY DEF CheckpointRows
  <2>1. CASE ~Selects(run, r, e)
    <3>1. ~Selects(run', r, e) /\ run[r].status # "success"
      BY <1>2, <2>1 DEF Selects, Running
    <3>2. Checkpoint(run', e) = Checkpoint(run, e)
      BY <1>2, <3>1, SameCheckpoint
    <3> QED
      BY <1>1, <3>2, CheckpointRowsKept DEF RowsInv, OrderInv
  <2>2. CASE Selects(run, r, e)
    <3>1. Checkpoint(run', e) = r
      BY <1>2, <1>3, <2>2, SuccessIsCheckpoint DEF Selects
    <3>2. i \in Whole(run, r, e)
      BY <2>2, <3>1, HeldKept DEF OrderInv
    <3>3. runDump[r][e].total # Null
      BY <1>1, <1>2, <2>2 DEF EntityIncomplete, Selects
    <3>4. UNION {Items(c) : c \in RunChunks(runChunk, r, e)} = Whole(run, r, e)
      BY <1>2, <2>2, <3>3, LedgerMatches DEF LedgerMatchesCounters, Selects, Whole
    <3>5. PICK c \in RunChunks(runChunk, r, e) : i \in Items(c)
      BY <3>2, <3>4
    <3>6. c \in runChunk /\ c.run = r /\ c.entity = e
      BY DEF RunChunks
    <3>7. HoldsItem(run, rows, r, e, i)
      BY <3>2, <3>5, <3>6 DEF RowsInv, ChunkRows
    <3>8. HoldsItem(run', rows', r, e, i)
      BY <1>1, <2>2, <3>7, HeldKept DEF OrderInv
    <3> QED
      BY <3>1, <3>8
  <2> QED
    BY <2>1, <2>2
<1> QED
  BY <1>4, <1>5 DEF RowsInv

\* What a resumption knows: the source failed, imports the same version of the entity, and is
\* not overwritten; everybody else of the entity is settled, in the order of their ids.
LEMMA ResumptionFacts ==
    ASSUME TypeOK, ProcessInv, ClockInv, OrderInv, NEW p \in Importer, Admit(p),
           NEW src, src = ResumeSource(Marked(p), req[p]), src # NoRun, NEW e, Selects(run, src, e)
    PROVE  /\ src \in RunId /\ e \in EntityType /\ e \in DOMAIN req[p].manifest
           /\ run[src].manifest[e] = req[p].manifest[e] /\ run[src].rev[e] = req[p].rev[e]
           /\ Marked(p)[src].status = "failed"
           /\ ~Overwritten(Marked(p), src, e)
           /\ \A s \in RunId : /\ Marked(p)[s].manifest = run[s].manifest
                               /\ Marked(p)[s].rev = run[s].rev
                               /\ Marked(p)[s].at \in Nat
           /\ \A x, y \in RunId : x < y /\ Selects(run, x, e) /\ Selects(run, y, e)
                 => Marked(p)[x].at < Marked(p)[y].at
<1>1. Marked(p) \in [RunId -> RunRow] /\ \A s \in RunId : Marked(p)[s].manifest = run[s].manifest
  BY AbandonFacts DEF Marked, TypeOK
<1>2. src \in Resumable(Marked(p), req[p])
  BY <1>1, ResumeSourceFacts
<1>3. /\ src \in RunId /\ Marked(p)[src].status = "failed" /\ run[src].manifest = req[p].manifest
      /\ \A f \in DOMAIN req[p].manifest :
            Marked(p)[src].rev[f] = req[p].rev[f] /\ ~Overwritten(Marked(p), src, f)
  BY <1>1, <1>2 DEF Resumable
<1>4. \A s \in RunId : Marked(p)[s].rev = run[s].rev
  BY MarkedRun
<1>5. e \in DOMAIN req[p].manifest
  BY <1>3 DEF Selects
<1>6. e \in EntityType
  BY <1>5, RequestFacts DEF Admit
<1>7. ASSUME NEW x \in RunId, NEW y \in RunId, x < y, Selects(run, x, e), Selects(run, y, e)
      PROVE  Marked(p)[x].at < Marked(p)[y].at
  <2>1. Marked(p)[y].status # "running"
    BY <1>5, <1>7, MarkedSettles DEF OrderInv
  <2>2. Selects(Marked(p), x, e) /\ Selects(Marked(p), y, e)
    BY <1>1, <1>7 DEF Selects
  <2>3. Ordered(Marked(p), x, y, e)
    BY <1>6, MarkedOrdered
  <2> QED
    BY <1>7, <2>1, <2>2, <2>3 DEF Ordered
<1>8. \A s \in RunId : Marked(p)[s].at \in Nat
  BY <1>1 DEF RunRow
<1> QED
  BY <1>1, <1>3, <1>4, <1>5, <1>6, <1>7, <1>8

\* A foreign run that failed after the source lies in the new run's chain.
LEMMA FailureBehindSource ==
    ASSUME TypeOK, ProcessInv, ClockInv, OrderInv, [Next]_vars,
           NEW src \in RunId, NEW n \in RunId, n = runSeq + 1, run'[n].from = src,
           NEW e, Selects(run, src, e), Version(run', n, e) = Version(run, src, e),
           NEW s \in RunId, s > src, Selects(run, s, e), run'[s].status = "failed",
           Version(run, s, e) # Version(run, src, e)
    PROVE  Interrupted(run', n, e)
<1>1. src <= runSeq /\ s <= runSeq /\ runSeq \in Nat /\ src \in Nat \ {0} /\ s \in Nat
  BY SelectorsRecorded, ConstantsAssumption DEF OrderInv, RunId
<1>2. RootsOf(run')[n] = RootsOf(run')[src]
  BY <1>1, RootsUnfold
<1>3. RootsOf(run')[src] \in 1..src
  BY RootsBounded
<1>4. RootsOf(run')[n] < s /\ s < n
  BY <1>1, <1>2, <1>3
<1>5. Selects(run', s, e) /\ Version(run', s, e) = Version(run, s, e)
  BY HeldKept DEF OrderInv
<1> QED
  BY <1>4, <1>5 DEF Interrupted

\* The runs after the checkpoint that superseded the source failed.
LEMMA FailuresAfterCheckpoint ==
    ASSUME TypeOK, ProcessInv, ClockInv, OrderInv, NEW p \in Importer, Admit(p),
           NEW src, src = ResumeSource(Marked(p), req[p]), src # NoRun, NEW e, Selects(run, src, e),
           NEW c, c = Checkpoint(run, e), c # NoRun, Later(Marked(p), c, src),
           NEW s \in RunId, s > c, Selects(run, s, e)
    PROVE  s > src /\ Marked(p)[s].status = "failed"
<1>1. c \in Successes(run, e) /\ c \in RunId /\ Selects(run, c, e) /\ run[c].status = "success"
  BY CheckpointFacts DEF TypeOK, Successes
<1>2. /\ src \in RunId /\ Marked(p)[src].status = "failed"
      /\ e \in DOMAIN req[p].manifest
      /\ \A x \in RunId : Marked(p)[x].at \in Nat
      /\ \A x, y \in RunId : x < y /\ Selects(run, x, e) /\ Selects(run, y, e)
            => Marked(p)[x].at < Marked(p)[y].at
  BY ResumptionFacts
<1>3. c \in Nat /\ s \in Nat /\ src \in Nat
  BY <1>1, <1>2, ConstantsAssumption DEF RunId
<1>4. Marked(p)[c] = run[c]
  BY <1>1, AbandonKeepsSettled
<1>5. ~(c < src)
  BY <1>1, <1>2 DEF Later
<1>6. s > src
  BY <1>3, <1>5
<1>7. Marked(p)[s].status # "success"
  <2> SUFFICES ASSUME Marked(p)[s].status = "success" PROVE FALSE
    OBVIOUS
  <2>1. run[s].status = "success"
    BY MarkedRun
  <2>2. s \in Successes(run, e) /\ s # c
    BY <1>3, <2>1 DEF Successes
  <2>3. Later(run, c, s)
    BY <2>2, TimesAreNat, CheckpointIsLast
  <2>4. Marked(p)[s] = run[s]
    BY <2>1, AbandonKeepsSettled
  <2>5. Marked(p)[c].at < Marked(p)[s].at
    BY <1>1, <1>2, <1>3
  <2> QED
    BY <1>1, <1>2, <1>4, <2>3, <2>4, <2>5 DEF Later
<1> QED
  BY <1>2, <1>6, <1>7, MarkedSettles DEF OrderInv

\* What the source of a resumption held, the new run holds: a later run of another version
\* failed, and interrupts the chain, or succeeded, and was followed by the source's version.
LEMMA ResumedItem ==
    ASSUME TypeOK, ProcessInv, ClockInv, OrderInv, CheckpointRows, [Next]_vars,
           NEW p \in Importer, Admit(p),
           NEW src, src = ResumeSource(Marked(p), req[p]), src # NoRun,
           NEW n \in RunId, n = runSeq + 1,
           NEW e, Selects(run, src, e), NEW i \in Whole(run, src, e),
           HoldsItem(run, rows, src, e, i)
    PROVE  HoldsItem(run', rows', n, e, i)
<1>1. /\ src \in RunId /\ e \in EntityType /\ e \in DOMAIN req[p].manifest
      /\ run[src].manifest[e] = req[p].manifest[e] /\ run[src].rev[e] = req[p].rev[e]
      /\ Marked(p)[src].status = "failed" /\ ~Overwritten(Marked(p), src, e)
      /\ \A s \in RunId : /\ Marked(p)[s].manifest = run[s].manifest
                          /\ Marked(p)[s].rev = run[s].rev
                          /\ Marked(p)[s].at \in Nat
      /\ \A x, y \in RunId : x < y /\ Selects(run, x, e) /\ Selects(run, y, e)
            => Marked(p)[x].at < Marked(p)[y].at
  BY ResumptionFacts
<1>2. /\ run'[n].manifest = req[p].manifest /\ run'[n].rev = req[p].rev /\ run'[n].from = src
      /\ \A s \in RunId : s # n => run'[s] = Marked(p)[s]
  BY AdmittedRun
<1>3. Version(run', n, e) = Version(run, src, e)
  BY <1>1, <1>2 DEF Version
<1>4. rows' = rows
  BY DEF Admit
<1>5. /\ Grown(run, run', runSeq) /\ runSeq \in Nat /\ src <= runSeq
      /\ \A s \in RunId : Selects(run, s, e) => s <= runSeq /\ s # n
  BY <1>1, TableGrows, SelectorsRecorded DEF OrderInv
<1>6. ASSUME NEW s \in RunId, s > src, Selects(run, s, e), Marked(p)[s].status = "failed",
             Version(run, s, e) # Version(run, src, e)
      PROVE  HoldsItem(run', rows', n, e, i)
  <2>1. run'[s].status = "failed"
    BY <1>2, <1>5, <1>6
  <2>2. Interrupted(run', n, e)
    BY <1>1, <1>2, <1>3, <1>6, <2>1, FailureBehindSource
  <2> QED
    BY <2>2 DEF HoldsItem, Excused
<1>7. ASSUME NEW c \in RunId, c <= runSeq, Version(run, c, e) = Version(run, src, e),
             \/ Tainted(run, c, e)
             \/ Interrupted(run, c, e) /\ c \in Successes(run, e)
      PROVE  HoldsItem(run', rows', n, e, i)
  <2>1. Tainted(run', n, e)
    BY <1>3, <1>5, <1>7, TaintMoves
  <2> QED
    BY <2>1 DEF HoldsItem, Excused
<1>8. CASE rows[e][i] = Version(run, src, e)
  BY <1>3, <1>4, <1>8 DEF HoldsItem
<1>9. CASE Interrupted(run, src, e)
  <2>1. PICK s \in RunId : /\ RootsOf(run)[src] < s /\ s < src /\ run[s].status = "failed"
                           /\ Selects(run, s, e) /\ Version(run, s, e) # Version(run, src, e)
    BY <1>9 DEF Interrupted
  <2>2. RootsOf(run')[src] = RootsOf(run)[src]
    BY <1>1, <1>5, RootsAgree DEF Grown
  <2>3. src \in 1..(n - 1) /\ s \in Nat /\ n \in Nat
    BY <1>1, <1>5, ConstantsAssumption DEF RunId
  <2>4. RootsOf(run')[n] = RootsOf(run')[src]
    BY <1>2, <2>3, RootsUnfold
  <2>5. RootsOf(run')[n] < s /\ s < n
    BY <2>1, <2>2, <2>3, <2>4
  <2>6. /\ run'[s].status = "failed" /\ Selects(run', s, e)
        /\ Version(run', s, e) = Version(run, s, e)
    BY <1>5, <2>1 DEF Grown, Selects, Version
  <2>7. Interrupted(run', n, e)
    BY <1>3, <2>1, <2>5, <2>6 DEF Interrupted
  <2> QED
    BY <2>7 DEF HoldsItem, Excused
<1>10. CASE Tainted(run, src, e)
  BY <1>1, <1>5, <1>7, <1>10
<1>11. CASE Overrun(run, src, e)
  <2>1. PICK s \in RunId : s > src /\ Selects(run, s, e) /\ Version(run, s, e) # Version(run, src, e)
    BY <1>11 DEF Overrun
  <2>2. Marked(p)[s].status \in {"success", "failed"}
    BY <1>1, <2>1, MarkedSettles DEF OrderInv
  <2>3. CASE Marked(p)[s].status = "failed"
    BY <1>6, <2>1, <2>3
  <2>4. CASE Marked(p)[s].status = "success"
    <3>1. Marked(p)[s] = run[s] /\ s \in Successes(run, e)
      <4>1. Marked(p)[s] = run[s]
        BY <2>4, MarkedRun
      <4> QED
        BY <2>1, <2>4, <4>1 DEF Successes
    <3>2. PICK c : c = Checkpoint(run, e)
      OBVIOUS
    <3>3. c \in Successes(run, e) /\ c # NoRun /\ (s # c => Later(run, c, s))
      BY <3>1, <3>2, TimesAreNat, CheckpointIsLast
    <3>4. c \in RunId /\ Selects(run, c, e) /\ run[c].status = "success"
      BY <3>3 DEF Successes
    <3>5. Marked(p)[c] = run[c] /\ Checkpoint(Marked(p), e) = c
      BY <3>2, <3>4, AbandonKeepsSettled, MarkedSuccesses
    <3>6. Marked(p)[src].at < Marked(p)[s].at
      BY <1>1, <2>1, ConstantsAssumption DEF RunId
    <3>7. Marked(p)[src].at < Marked(p)[c].at
      <4>1. s # c => run[c].at >= run[s].at
        BY <3>1, <3>3, <3>4, TimesAreNat DEF Later
      <4> QED
        BY <1>1, <3>1, <3>4, <3>5, <3>6, <4>1
    <3>8. Later(Marked(p), c, src)
      BY <1>1, <3>4, <3>7 DEF Later
    <3>9. Version(run, c, e) = Version(run, src, e)
      <4>1. Version(Marked(p), c, e) = Version(Marked(p), src, e)
        BY <1>1, <3>3, <3>5, <3>8 DEF Overwritten, Supersedes
      <4> QED
        BY <1>1, <3>4, <4>1 DEF Version
    <3>10. HoldsItem(run, rows, c, e, i)
      <4>1. run[c].manifest[e] = run[src].manifest[e]
        BY <3>9 DEF Version
      <4>2. i \in Whole(run, c, e)
        BY <4>1 DEF Whole
      <4> QED
        BY <1>1, <3>2, <3>3, <4>2 DEF CheckpointRows
    <3>11. CASE rows[e][i] = Version(run, c, e)
      BY <1>8, <3>9, <3>11
    <3>12. CASE Interrupted(run, c, e) \/ Tainted(run, c, e)
      BY <1>5, <1>7, <3>3, <3>4, <3>9, <3>12
    <3>13. CASE Overrun(run, c, e)
      <4>1. PICK x \in RunId : x > c /\ Selects(run, x, e) /\ Version(run, x, e) # Version(run, c, e)
        BY <3>13 DEF Overrun
      <4>2. x > src /\ Marked(p)[x].status = "failed"
        BY <3>2, <3>3, <3>8, <4>1, FailuresAfterCheckpoint
      <4> QED
        BY <1>6, <3>9, <4>1, <4>2
    <3> QED
      BY <3>10, <3>11, <3>12, <3>13 DEF HoldsItem, Excused
  <2> QED
    BY <2>2, <2>3, <2>4
<1> QED
  BY <1>8, <1>9, <1>10, <1>11 DEF HoldsItem, Excused

LEMMA AdmittedRows ==
    ASSUME TypeOK, TypeOK', ProcessInv, ClockInv, OrderInv, LedgerInv, RowsInv, [Next]_vars,
           NEW p \in Importer, Admit(p)
    PROVE  RowsInv'
<1>1. rows' = rows
  BY DEF Admit
<1>2. PICK n \in RunId :
         /\ n = runSeq + 1 /\ run[n].status = "absent" /\ run'[n].status = "running"
         /\ run'[n].manifest = req[p].manifest
         /\ \A s \in RunId : s # n => run'[s] = Marked(p)[s]
  BY AdmittedRun
<1>3. PICK src : src = ResumeSource(Marked(p), req[p])
  OBVIOUS
<1>4. ChunkRows'
  <2>1. CASE src = NoRun
    <3>1. runChunk' = runChunk
      BY <1>2, <1>3, <2>1, AdmittedLedger
    <3> QED
      BY <1>1, <3>1, ChunkRowsKept DEF RowsInv, ChunkRows, OrderInv, Items
  <2>2. CASE src # NoRun
    <3>1. runChunk' = TransferChunks(runChunk, src, n)
      BY <1>2, <1>3, <2>2, AdmittedLedger
    <3>2. src \in RunId /\ Marked(p)[src].status = "failed" /\ run[src].manifest = req[p].manifest
      BY <1>3, <2>2, ResumedSource
    <3>3. src # n
      <4>1. Marked(p)[n].status = "absent"
        BY <1>2, MarkedRun DEF Running
      <4> QED
        BY <3>2, <4>1
    <3>4. runSeq \in Nat /\ \A c \in runChunk : c.run # n
      BY <1>2, ConstantsAssumption DEF TypeOK, RunChunkRow, RunId, LedgerInv, KeyInv
    <3>5. runChunk \in SUBSET RunChunkRow /\ IsFiniteSet(runChunk)
      BY DEF TypeOK, LedgerInv, KeyInv
    <3>6. \A k \in runChunk' : \E c \in runChunk :
             /\ k = IF c.run = src THEN [c EXCEPT !.run = n] ELSE c
             /\ k.run = IF c.run = src THEN n ELSE c.run
             /\ k.entity = c.entity /\ k.first = c.first /\ k.count = c.count
      BY <3>1, <3>2, <3>3, <3>4, <3>5, TransferFacts
    <3> SUFFICES ASSUME NEW k \in runChunk', NEW i \in Items(k), i \in Whole(run', k.run, k.entity)
                 PROVE  HoldsItem(run', rows', k.run, k.entity, i)
      BY DEF ChunkRows, Items
    <3>7. PICK c \in runChunk :
             /\ k = IF c.run = src THEN [c EXCEPT !.run = n] ELSE c
             /\ k.run = IF c.run = src THEN n ELSE c.run
             /\ k.entity = c.entity /\ k.first = c.first /\ k.count = c.count
      BY <3>6
    <3>8. CASE c.run # src
      BY <1>1, <3>7, <3>8, ChunkRowsKept DEF RowsInv, OrderInv
    <3>9. CASE c.run = src
      <4>1. Selects(run, src, c.entity)
        BY <3>9, ChunkOwner
      <4>2. i \in Items(c)
        BY <3>7 DEF Items
      <4>3. i \in Whole(run, src, c.entity)
        BY <1>2, <3>2, <3>7, <3>9 DEF Whole
      <4>4. HoldsItem(run, rows, src, c.entity, i)
        BY <3>9, <4>2, <4>3 DEF RowsInv, ChunkRows
      <4>5. HoldsItem(run', rows', n, c.entity, i)
        BY <1>2, <1>3, <2>2, <4>1, <4>3, <4>4, ResumedItem DEF RowsInv
      <4> QED
        BY <3>7, <3>9, <4>5
    <3> QED
      BY <3>8, <3>9
  <2> QED
    BY <2>1, <2>2
<1>5. CheckpointRows'
  <2> SUFFICES ASSUME NEW e \in EntityType, Checkpoint(run', e) # NoRun,
                      NEW i \in Whole(run', Checkpoint(run', e), e)
               PROVE  HoldsItem(run', rows', Checkpoint(run', e), e, i)
    BY DEF CheckpointRows
  <2>1. ASSUME NEW s \in RunId, s # n, run'[s] # run[s]
        PROVE  run[s].status # "success" /\ run'[s].status # "success"
    <3>1. run'[s] = Marked(p)[s]
      BY <1>2, <2>1
    <3>2. Running(s) /\ Marked(p)[s].status = "failed"
      BY <2>1, <3>1, MarkedRun
    <3> QED
      BY <3>1, <3>2 DEF Running
  <2>2. Checkpoint(run', e) = Checkpoint(run, e)
    BY <1>2, <2>1, SameCheckpoint
  <2> QED
    BY <1>1, <2>2, CheckpointRowsKept DEF RowsInv, OrderInv
<1> QED
  BY <1>4, <1>5 DEF RowsInv

LEMMA RowsStep ==
    ASSUME TypeOK, TypeOK', ProcessInv, ClockInv, OrderInv, LedgerInv, RowsInv, [Next]_vars
    PROVE  RowsInv'
<1>1. ASSUME UNCHANGED <<run, runChunk, rows>> PROVE RowsInv'
  BY <1>1 DEF RowsInv, ChunkRows, CheckpointRows, Items
<1>2. CASE UNCHANGED tables
  BY <1>1, <1>2 DEF tables
<1>3. ASSUME NEW p \in Importer, SkipExact(p) PROVE RowsInv'
  <2>1. UNCHANGED <<run, runChunk, rows>>
    BY <1>3, SatisfiedMarksNothing DEF SkipExact
  <2> QED
    BY <1>1, <2>1
<1>4. ASSUME NEW p \in Importer, SkipConsolidated(p) PROVE RowsInv'
  BY <1>4, ConsolidatedRows
<1>5. ASSUME NEW p \in Importer, Admit(p) PROVE RowsInv'
  BY <1>5, AdmittedRows
<1>6. ASSUME NEW p \in Importer, NEW c \in inflight[p], CommitChunk(p, c) PROVE RowsInv'
  BY <1>6, CommitRows
<1>7. ASSUME NEW p \in Importer, CompleteEntity(p) PROVE RowsInv'
  BY <1>1, <1>7 DEF CompleteEntity
<1>8. ASSUME NEW p \in Importer, CompleteSuccess(p) PROVE RowsInv'
  BY <1>8, SuccessRows
<1>9. ASSUME NEW p \in Importer, CompleteFailure(p) PROVE RowsInv'
  <2>1. runChunk' = runChunk /\ rows' = rows
    BY <1>9 DEF CompleteFailure
  <2>2. PICK r \in RunId :
           /\ r = cur[p] /\ Running(r) /\ \A s \in RunId : s # r => run'[s] = run[s]
    BY <1>9, CompletedRun
  <2>3. run[r].status # "success" /\ run'[r].status = "failed"
    BY <1>9, <2>2 DEF CompleteFailure, TypeOK, RunRow, Running
  <2>4. ChunkRows'
    BY <2>1, ChunkRowsKept DEF RowsInv, ChunkRows, OrderInv, Items
  <2>5. \A e \in EntityType : Checkpoint(run', e) = Checkpoint(run, e)
    BY <2>2, <2>3, SameCheckpoint
  <2>6. CheckpointRows'
    BY <2>1, <2>5, CheckpointRowsKept DEF RowsInv, CheckpointRows, OrderInv
  <2> QED
    BY <2>4, <2>6 DEF RowsInv
<1> QED
  BY <1>2, <1>3, <1>4, <1>5, <1>6, <1>7, <1>8, <1>9, TableSteps

-----------------------------------------------------------------------------
(***************************************************************************)
(* Ready entities.  The state's run has the checkpoint's version, and no   *)
(* run has selected the entity since: admission makes it importing.        *)
(***************************************************************************)
ReadyState(e) ==
    entityState[e].status = "ready" =>
        /\ entityState[e].last \in Successes(run, e)
        /\ Version(run, entityState[e].last, e) = Version(run, Checkpoint(run, e), e)
        /\ \A s \in RunId : s > Checkpoint(run, e) => ~Selects(run, s, e)

ReadyInv == \A e \in EntityType : ReadyState(e)

\* A state stays good while nobody new selects the entity and its checkpoint stays.
LEMMA ReadyKept ==
    ASSUME TypeOK, ProcessInv, ClockInv, AbsentInv, [Next]_vars,
           NEW e \in EntityType, ReadyState(e), entityState'[e] = entityState[e],
           Checkpoint(run', e) = Checkpoint(run, e),
           \A s \in RunId : Selects(run', s, e) => Selects(run, s, e)
    PROVE  ReadyState(e)'
<1> SUFFICES ASSUME entityState[e].status = "ready"
             PROVE  /\ entityState[e].last \in Successes(run', e)
                    /\ Version(run', entityState[e].last, e) = Version(run', Checkpoint(run, e), e)
                    /\ \A s \in RunId : s > Checkpoint(run, e) => ~Selects(run', s, e)
  BY DEF ReadyState
<1>1. PICK l : l = entityState[e].last
  OBVIOUS
<1>2. PICK c : c = Checkpoint(run, e)
  OBVIOUS
<1>3. /\ l \in Successes(run, e) /\ Version(run, l, e) = Version(run, c, e)
      /\ \A s \in RunId : s > c => ~Selects(run, s, e)
  BY <1>1, <1>2 DEF ReadyState
<1>4. c \in Successes(run, e)
  BY <1>2, <1>3, TimesAreNat, CheckpointIsLast
<1>5. /\ l \in RunId /\ Selects(run, l, e) /\ run[l].status = "success"
      /\ c \in RunId /\ Selects(run, c, e)
  BY <1>3, <1>4 DEF Successes
<1>6. Version(run', l, e) = Version(run, l, e) /\ Version(run', c, e) = Version(run, c, e)
  BY <1>5, HeldKept
<1>7. run'[l] = run[l]
  BY <1>5, SettledStep
<1>8. l \in Successes(run', e)
  BY <1>5, <1>7 DEF Successes, Selects
<1> QED
  BY <1>1, <1>2, <1>3, <1>6, <1>8

LEMMA ReadyStep ==
    ASSUME TypeOK, TypeOK', ProcessInv, ClockInv, OrderInv, ReadyInv, [Next]_vars
    PROVE  ReadyInv'
<1>1. ASSUME UNCHANGED <<run, entityState>> PROVE ReadyInv'
  BY <1>1 DEF ReadyInv, ReadyState
<1>2. CASE UNCHANGED tables
  BY <1>1, <1>2 DEF tables
<1>3. ASSUME NEW p \in Importer, SkipExact(p) PROVE ReadyInv'
  <2>1. Marked(p) = run /\ run' = run /\ FullySatisfied(p) /\ pc[p] = "admission"
    BY <1>3, SatisfiedMarksNothing DEF SkipExact
  <2>2. PICK r : r = ExactRun(run, req[p])
    OBVIOUS
  <2>3. r # NoRun /\ entityState' = StatesReady(r, DOMAIN req[p].manifest)
    BY <1>3, <2>1, <2>2 DEF SkipExact
  <2>4. DOMAIN req[p].manifest # {}
    BY <2>1, RequestFacts
  <2>5. Candidates(run, req[p]) # {}
    BY <2>1, <2>4 DEF FullySatisfied, CompatibleEntities
  <2>6. r \in Candidates(run, req[p])
    BY <2>2, <2>3, <2>5, ExactRunFacts DEF TypeOK
  <2>7. r \in RunId /\ run[r].status = "success" /\ run[r].manifest = req[p].manifest
    BY <2>6 DEF Candidates
  <2>8. \A e \in DOMAIN req[p].manifest : run[r].rev[e] = req[p].rev[e]
    BY <2>2, <2>3 DEF ExactRun
  <2> SUFFICES ASSUME NEW e \in EntityType PROVE ReadyState(e)'
    BY DEF ReadyInv
  <2>9. CASE e \notin DOMAIN req[p].manifest
    <3>1. entityState'[e] = entityState[e]
      BY <2>3, <2>9 DEF StatesReady
    <3> QED
      BY <2>1, <3>1 DEF ReadyInv, ReadyState
  <2>10. CASE e \in DOMAIN req[p].manifest
    <3>1. entityState'[e].last = r
      BY <2>3, <2>10 DEF StatesReady
    <3>2. /\ run[Checkpoint(run, e)].manifest[e] = req[p].manifest[e]
          /\ run[Checkpoint(run, e)].rev[e] = req[p].rev[e]
      BY <2>1, <2>10, SatisfiedMarksNothing
    <3>3. Version(run, r, e) = Version(run, Checkpoint(run, e), e)
      BY <2>7, <2>8, <2>10, <3>2 DEF Version
    <3>4. r \in Successes(run, e)
      BY <2>7, <2>10 DEF Successes, Selects
    <3>5. \A s \in RunId : s > Checkpoint(run, e) => ~Selects(run, s, e)
      BY <2>1, <2>10, SatisfiedIsLast
    <3> QED
      BY <2>1, <3>1, <3>3, <3>4, <3>5 DEF ReadyState
  <2> QED
    BY <2>9, <2>10
<1>4. ASSUME NEW p \in Importer, SkipConsolidated(p) PROVE ReadyInv'
  <2>1. PICK n \in RunId :
           /\ n = runSeq + 1 /\ run[n].status = "absent"
           /\ run'[n].status = "success" /\ run'[n].manifest = req[p].manifest
           /\ run'[n].at = clock /\ \A s \in RunId : s # n => run'[s] = run[s]
           /\ entityState' = StatesReady(n, DOMAIN req[p].manifest)
    BY <1>4, ConsolidatedRun
  <2> SUFFICES ASSUME NEW e \in EntityType PROVE ReadyState(e)'
    BY DEF ReadyInv
  <2>2. CASE e \notin DOMAIN req[p].manifest
    <3>1. entityState'[e] = entityState[e]
      BY <2>1, <2>2 DEF StatesReady
    <3>2. ~Selects(run', n, e)
      BY <2>1, <2>2 DEF Selects
    <3>3. \A s \in RunId : Selects(run', s, e) => Selects(run, s, e)
      BY <2>1, <3>2 DEF Selects
    <3>4. Checkpoint(run', e) = Checkpoint(run, e)
      BY <2>1, <3>2, SameCheckpoint
    <3> QED
      BY <3>1, <3>3, <3>4, ReadyKept DEF ReadyInv, OrderInv
  <2>3. CASE e \in DOMAIN req[p].manifest
    <3>1. entityState'[e].last = n
      BY <2>1, <2>3 DEF StatesReady
    <3>2. Checkpoint(run', e) = n
      BY <2>1, <2>3, SuccessIsCheckpoint DEF Selects
    <3>3. n \in Successes(run', e)
      BY <2>1, <2>3 DEF Successes, Selects
    <3>4. ASSUME NEW s \in RunId, s > n PROVE ~Selects(run', s, e)
      <4>1. run'[s] = run[s] /\ ~(s <= runSeq)
        BY <2>1, <3>4, ConstantsAssumption DEF TypeOK, RunId
      <4>2. ~Selects(run, s, e)
        BY <4>1, SelectorsRecorded DEF OrderInv
      <4> QED
        BY <4>1, <4>2 DEF Selects
    <3> QED
      BY <3>1, <3>2, <3>3, <3>4 DEF ReadyState
  <2> QED
    BY <2>2, <2>3
<1>5. ASSUME NEW p \in Importer, Admit(p) PROVE ReadyInv'
  <2>1. PICK n \in RunId :
           /\ run[n].status = "absent" /\ run'[n].status = "running"
           /\ run'[n].manifest = req[p].manifest
           /\ \A s \in RunId : s # n => run'[s] = Marked(p)[s]
           /\ entityState' = StatesImporting(n, DOMAIN req[p].manifest)
    BY <1>5, AdmittedRun
  <2> SUFFICES ASSUME NEW e \in EntityType PROVE ReadyState(e)'
    BY DEF ReadyInv
  <2>2. CASE e \in DOMAIN req[p].manifest
    <3>1. entityState[e] \in EntityStateRow
      BY DEF TypeOK
    <3>2. \E op : entityState'[e] = [entityState[e] EXCEPT !.status = "importing", !.active = n,
                                                         !.operation = op]
      BY <2>1, <2>2 DEF StatesImporting
    <3>3. entityState'[e].status = "importing"
      BY <3>1, <3>2 DEF EntityStateRow
    <3> QED
      BY <3>3 DEF ReadyState
  <2>3. CASE e \notin DOMAIN req[p].manifest
    <3>1. entityState'[e] = entityState[e]
      BY <2>1, <2>3 DEF StatesImporting
    <3>2. \A s \in RunId : Marked(p)[s].manifest = run[s].manifest
      BY AbandonFacts DEF Marked, TypeOK
    <3>3. \A s \in RunId : Selects(run', s, e) => Selects(run, s, e)
      BY <2>1, <2>3, <3>2 DEF Selects
    <3>4. ASSUME NEW s \in RunId, s # n, run'[s] # run[s]
          PROVE  run[s].status # "success" /\ run'[s].status # "success"
      <4>1. run'[s] = Marked(p)[s]
        BY <2>1, <3>4
      <4>2. Running(s) /\ Marked(p)[s].status = "failed"
        BY <3>4, <4>1, MarkedRun
      <4> QED
        BY <4>1, <4>2 DEF Running
    <3>5. Checkpoint(run', e) = Checkpoint(run, e)
      BY <2>1, <3>4, SameCheckpoint
    <3> QED
      BY <3>1, <3>3, <3>5, ReadyKept DEF ReadyInv, OrderInv
  <2> QED
    BY <2>2, <2>3
<1>6. ASSUME NEW p \in Importer, NEW c \in inflight[p], CommitChunk(p, c) PROVE ReadyInv'
  BY <1>1, <1>6 DEF CommitChunk
<1>7. ASSUME NEW p \in Importer, CompleteEntity(p) PROVE ReadyInv'
  BY <1>1, <1>7 DEF CompleteEntity
<1>8. ASSUME NEW p \in Importer, CompleteSuccess(p) \/ CompleteFailure(p) PROVE ReadyInv'
  <2>1. PICK r \in RunId :
           /\ Running(r) /\ run'[r].at = clock
           /\ \/ /\ run'[r].status = "success"
                 /\ entityState' = StatesReady(r, DOMAIN run[r].manifest)
              \/ /\ run'[r].status = "failed"
                 /\ entityState' = StatesFailed(DOMAIN run[r].manifest)
           /\ run'[r].manifest = run[r].manifest
           /\ \A s \in RunId : s # r => run'[s] = run[s]
    BY <1>8, CompletedRun
  <2> SUFFICES ASSUME NEW e \in EntityType PROVE ReadyState(e)'
    BY DEF ReadyInv
  <2>2. \A s \in RunId : Selects(run', s, e) <=> Selects(run, s, e)
    BY <2>1 DEF Selects
  <2>3. CASE e \notin DOMAIN run[r].manifest
    <3>1. entityState'[e] = entityState[e]
      BY <2>1, <2>3 DEF StatesReady, StatesFailed
    <3>2. ~Selects(run', r, e) /\ run[r].status # "success"
      BY <2>1, <2>3 DEF Selects, Running
    <3>3. Checkpoint(run', e) = Checkpoint(run, e)
      BY <2>1, <3>2, SameCheckpoint
    <3> QED
      BY <2>2, <3>1, <3>3, ReadyKept DEF ReadyInv, OrderInv
  <2>4. CASE e \in DOMAIN run[r].manifest /\ run'[r].status = "failed"
    <3>1. entityState' = StatesFailed(DOMAIN run[r].manifest)
      BY <2>1, <2>4
    <3>2. entityState'[e] = [entityState[e] EXCEPT !.status = "failed", !.active = NoRun]
      BY <2>4, <3>1 DEF StatesFailed
    <3>3. entityState[e] \in EntityStateRow
      BY DEF TypeOK
    <3>4. entityState'[e].status = "failed"
      BY <3>2, <3>3 DEF EntityStateRow
    <3> QED
      BY <3>4 DEF ReadyState
  <2>5. CASE e \in DOMAIN run[r].manifest /\ run'[r].status = "success"
    <3>1. entityState' = StatesReady(r, DOMAIN run[r].manifest)
      BY <2>1, <2>5
    <3>2. entityState'[e].last = r
      BY <2>5, <3>1 DEF StatesReady
    <3>3. Selects(run, r, e) /\ Selects(run', r, e)
      BY <2>2, <2>5 DEF Selects
    <3>4. Checkpoint(run', e) = r
      BY <2>1, <2>5, <3>3, SuccessIsCheckpoint
    <3>5. r \in Successes(run', e)
      BY <2>5, <3>3 DEF Successes
    <3>6. ASSUME NEW s \in RunId, s > r PROVE ~Selects(run', s, e)
      <4>1. ~(s < r) /\ s # r
        BY <3>6, ConstantsAssumption DEF RunId
      <4> QED
        BY <2>1, <2>2, <3>3, <4>1, RunningIsLast
    <3> QED
      BY <3>2, <3>4, <3>5, <3>6 DEF ReadyState
  <2> QED
    BY <2>1, <2>3, <2>4, <2>5
<1> QED
  BY <1>2, <1>3, <1>4, <1>5, <1>6, <1>7, <1>8, TableSteps

\* Where no import of the checkpoint's version was resumed over a foreign failure, a ready
\* entity's rows have no excuse.
LEMMA ReadyRowsMatch ==
    ASSUME TypeOK, RowsInv, ReadyInv
    PROVE  UninterruptedReadyRowsMatch
<1> SUFFICES ASSUME NEW e \in EntityType, entityState[e].status = "ready",
                    ~ImportedOverForeignFailure(e)
             PROVE  HoldsRun(e, entityState[e].last)
  BY DEF UninterruptedReadyRowsMatch
<1>1. PICK l : l = entityState[e].last
  OBVIOUS
<1>2. PICK c : c = Checkpoint(run, e)
  OBVIOUS
<1>3. /\ l \in Successes(run, e) /\ Version(run, l, e) = Version(run, c, e)
      /\ \A s \in RunId : s > c => ~Selects(run, s, e)
  BY <1>1, <1>2 DEF ReadyInv, ReadyState
<1>4. c \in Successes(run, e) /\ c # NoRun
  BY <1>2, <1>3, TimesAreNat, CheckpointIsLast
<1>5. ~Overrun(run, c, e)
  BY <1>3 DEF Overrun
<1>6. \A q \in Successes(run, e) : Version(run, q, e) = Version(run, c, e) => ~Interrupted(run, q, e)
  BY <1>2, ChainRootIs DEF ImportedOverForeignFailure, ForeignFailureInChain, Interrupted
<1>7. ~Excused(run, c, e)
  BY <1>4, <1>5, <1>6 DEF Excused, Tainted
<1>8. \A i \in Whole(run, c, e) : rows[e][i] = Version(run, c, e)
  BY <1>2, <1>4, <1>7 DEF RowsInv, CheckpointRows, HoldsItem
<1>9. Whole(run, c, e) = 0..(DumpItems[run[l].manifest[e]] - 1)
  BY <1>3 DEF Whole, Version
<1> QED
  BY <1>1, <1>3, <1>8, <1>9 DEF HoldsRun

\* A ready entity holds the dump of its last run, every item of it and in that run's revision,
\* unless a run of that version was resumed over a failed run of another.
THEOREM ReadyRowsHold == Spec => []UninterruptedReadyRowsMatch
<1>1. Init => RowsInv
  <2> SUFFICES ASSUME Init PROVE RowsInv
    OBVIOUS
  <2>1. runChunk = {} /\ \A r \in RunId : run[r].status = "absent"
    BY DEF Init, NoRunRow
  <2>2. \A e : Successes(run, e) = {}
    BY <2>1 DEF Successes
  <2> QED
    BY <2>1, <2>2 DEF RowsInv, ChunkRows, CheckpointRows, Checkpoint
<1>2. Init => ReadyInv
  BY DEF Init, ReadyInv, ReadyState
<1>3. TypeOK /\ TypeOK' /\ ProcessInv /\ ClockInv /\ OrderInv /\ LedgerInv /\ RowsInv /\ [Next]_vars
         => RowsInv'
  BY RowsStep
<1>4. TypeOK /\ TypeOK' /\ ProcessInv /\ ClockInv /\ OrderInv /\ ReadyInv /\ [Next]_vars => ReadyInv'
  BY ReadyStep
<1>5. TypeOK /\ RowsInv /\ ReadyInv => UninterruptedReadyRowsMatch
  BY ReadyRowsMatch
<1> QED
  BY <1>1, <1>2, <1>3, <1>4, <1>5, TypeCorrect, ProcessCorrect, ClockAlways, OrderAlways,
     LedgerAlways, PTL DEF Spec
=============================================================================

----------------------- MODULE SchemaMigrationProofs -----------------------
(* Proofs about SchemaMigration, for any invocations, builds, entity types and histories. *)
EXTENDS SchemaMigration, TLAPS, FiniteSetTheorems, SequenceTheorems

-----------------------------------------------------------------------------
(***************************************************************************)
(* The invariant.  MigratorIsAlone is not inductive: that nobody else is   *)
(* at work follows from the import locks a migrator keeps until it has     *)
(* released the Liquibase row, and that Liquibase is not from the row.     *)
(***************************************************************************)
\* From its last lock to the release of the row a migrator holds every import lock; an
\* import holds at least one.
LocksKept ==
    \A p \in Process : session[p] =>
        /\ pc[p] \in Migrating \cup {"reserving", "releasing"} => Held(p) = EntityType
        /\ pc[p] = "importing" => Held(p) # {}

\* The row belongs to whoever is at work under it.
RowOwned ==
    /\ \A p \in Process : Holding(p) => changeLock = "go"
    /\ legacyLive => changeLock = "java"

SchemaInv == SchemaTypeOK /\ LocksKept /\ RowOwned

\* Two invocations with live sessions cannot both hold all import locks, nor one all and the
\* other any.
LEMMA AllLocksExclude ==
    ASSUME NEW p \in Process, NEW q \in Process, Held(p) = EntityType, Held(q) # {}
    PROVE  p = q
BY DEF Held

\* The invariant gives the property.
LEMMA InvImpliesAlone == SchemaInv => MigratorIsAlone
<1> SUFFICES ASSUME SchemaInv,
                    NEW p \in Process, session[p], pc[p] \in Migrating
             PROVE  /\ changeLock = "go" /\ ~legacyLive
                    /\ \A q \in Process \ {p} :
                        session[q] => pc[q] \notin Migrating \cup {"reserving", "importing"}
  BY DEF MigratorIsAlone
<1>1. changeLock = "go" /\ ~legacyLive
  BY DEF SchemaInv, RowOwned, Holding
<1>2. ASSUME NEW q \in Process \ {p}, session[q],
             pc[q] \in Migrating \cup {"reserving", "importing"}
      PROVE  FALSE
  <2>1. Held(p) = EntityType
    BY DEF SchemaInv, LocksKept
  <2>2. Held(q) # {}
    BY <1>2, ConstantsAssumption DEF SchemaInv, LocksKept
  <2> QED
    BY <2>1, <2>2, AllLocksExclude
<1> QED
  BY <1>1, <1>2

-----------------------------------------------------------------------------
(* Types. *)

\* The rows of a prefix of a sequence are rows of the sequence.
LEMMA PrefixRows ==
    ASSUME NEW S, NEW s \in Seq(S), NEW n \in 0..Len(s)
    PROVE  /\ Rows(Prefix(s, n)) \subseteq Rows(s)
           /\ Rows(s) \subseteq S
<1>1. Prefix(s, n) \in Seq(S) /\ Len(Prefix(s, n)) = n
      /\ \A i \in 1..n : Prefix(s, n)[i] = s[i]
  BY SubSeqProperties DEF Prefix
<1> QED
  BY <1>1, LenProperties, ElementOfSeq DEF Rows

LEMMA InitInv == Init => SchemaInv
<1> SUFFICES ASSUME Init
             PROVE  SchemaInv
  OBVIOUS
<1>1. history \in Seq(HistoryKind) /\ Len(history) <= Len(Legacy)
  <2>1. PICK n \in 0..Len(Legacy) : history \in [1..n -> HistoryKind]
    BY DEF Init
  <2>2. n \in Nat
    BY <2>1, ConstantsAssumption
  <2>3. history \in Seq(HistoryKind) /\ Len(history) = n
    BY <2>1, <2>2, IsASeq, LenProperties
  <2> QED
    BY <2>1, <2>3, ConstantsAssumption
<1>2. \A p \in Process : Held(p) = {}
  BY ConstantsAssumption DEF Init, Held
<1>3. SchemaTypeOK
  <2>1. DatabaseTypeOK
    BY <1>1 DEF Init, DatabaseTypeOK
  <2>2. ProcessTypeOK
    BY DEF Init, ProcessTypeOK, Phase
  <2> QED
    BY <1>2, <2>1, <2>2 DEF Init, SchemaTypeOK
<1> QED
  BY <1>3 DEF Init, SchemaInv, LocksKept, RowOwned, Holding, Migrating

\* The rows of the artifact that a step reads.
LEMMA ArtifactRows ==
    ASSUME NEW j \in Job
    PROVE  /\ Artifact[j.build] \in Seq(Migration)
           /\ \A i, k \in DOMAIN Artifact[j.build] :
                  Artifact[j.build][i].version = Artifact[j.build][k].version => i = k
<1> DEFINE A == Artifact[j.build]
<1>1. A \in Seq(Migration) /\ Migration \subseteq [version : Nat, checksum : Nat]
      /\ \A i, k \in DOMAIN A : i < k => A[i].version < A[k].version
  BY ConstantsAssumption DEF Job
<1>2. \A i \in DOMAIN A : i \in Nat /\ A[i].version \in Nat
  BY <1>1, LenProperties, ElementOfSeq
<1>3. ASSUME NEW i \in DOMAIN A, NEW k \in DOMAIN A, A[i].version = A[k].version
      PROVE  i = k
  <2>1. ~(i < k) /\ ~(k < i)
    BY <1>1, <1>2, <1>3
  <2> QED
    BY <1>2, <2>1
<1> QED
  BY <1>1, <1>3

-----------------------------------------------------------------------------
(* Steps. *)

\* The database keeps its types.
LEMMA DatabaseStep == SchemaInv /\ [Next]_vars => DatabaseTypeOK'
<1> SUFFICES ASSUME SchemaInv, [Next]_vars
             PROVE  DatabaseTypeOK'
  OBVIOUS
<1> USE DEF SchemaInv, SchemaTypeOK, DatabaseTypeOK
<1>1. CASE UNCHANGED <<ledger, history, changeLock, legacyLive>>
  BY <1>1
<1>2. ASSUME NEW p \in Process, Reserve(p) \/ ReleaseRow(p)
      PROVE  DatabaseTypeOK'
  BY <1>2 DEF Reserve, ReleaseRow, database
<1>3. ASSUME NEW p \in Process, Adopt(p), ledger' # ledger
      PROVE  DatabaseTypeOK'
  <2> DEFINE n == Len(history)
             A == Artifact[job[p].build]
  <2>1. Trusted(A) /\ ledger' = Rows(Prefix(Legacy, n))
        /\ UNCHANGED <<history, changeLock, legacyLive>>
    BY <1>3 DEF Adopt
  <2>2. job[p] \in Job
    BY <1>3 DEF Adopt, ProcessTypeOK
  <2>3. n \in 0..Len(Legacy) /\ n \in 0..Len(A) /\ A \in Seq(Migration)
    <3>1. n \in Nat /\ Len(Legacy) \in Nat
      BY LenProperties, ConstantsAssumption
    <3>2. A \in Seq(Migration)
      BY <2>2, ArtifactRows
    <3>3. Len(A) \in Nat
      BY <3>2, LenProperties
    <3> QED
      BY <2>1, <3>1, <3>2, <3>3 DEF Trusted
  <2>4. Len(Prefix(Legacy, n)) = n /\ \A i \in 1..n : Prefix(Legacy, n)[i] = A[i]
    BY <2>1, <2>3, SubSeqProperties, ConstantsAssumption DEF Prefix, Trusted
  <2>5. \A m \in ledger' : \E i \in 1..n : m = A[i]
    <3>1. Prefix(Legacy, n) \in Seq(Migration)
      BY <2>3, SubSeqProperties, ConstantsAssumption DEF Prefix
    <3>2. DOMAIN Prefix(Legacy, n) = 1..n
      BY <3>1, <2>4, LenProperties
    <3> QED
      BY <2>1, <2>4, <3>2 DEF Rows
  <2>6. \A i \in 1..n : i \in DOMAIN A /\ A[i] \in Migration
    BY <2>3, ElementOfSeq, LenProperties
  <2>7. ledger' \subseteq Migration /\ \A m, k \in ledger' : m.version = k.version => m = k
    <3>1. \A i, k \in DOMAIN A : A[i].version = A[k].version => i = k
      BY <2>2, ArtifactRows
    <3>2. ASSUME NEW m \in ledger', NEW k \in ledger', m.version = k.version
          PROVE  m = k
      <4>1. PICK i \in 1..n : m = A[i]
        BY <2>5
      <4>2. PICK l \in 1..n : k = A[l]
        BY <2>5
      <4> QED
        BY <2>6, <3>1, <3>2, <4>1, <4>2
    <3>3. ledger' \subseteq Migration
      BY <2>5, <2>6
    <3> QED
      BY <3>2, <3>3
  <2> QED
    BY <2>1, <2>7
<1>4. ASSUME NEW p \in Process, Apply(p), ledger' # ledger
      PROVE  DatabaseTypeOK'
  <2> DEFINE A == Artifact[job[p].build]
             m == A[next[p]]
  <2>1. /\ m.version \notin Versions(ledger) /\ ledger' = ledger \cup {m}
        /\ next[p] <= Len(A)
        /\ UNCHANGED <<history, changeLock, legacyLive>>
    BY <1>4 DEF Apply
  <2>2. m \in Migration
    <3>1. job[p] \in Job /\ next[p] \in Nat \ {0}
      BY <1>4 DEF Apply, ProcessTypeOK
    <3>2. A \in Seq(Migration)
      BY <3>1, ArtifactRows
    <3>3. next[p] \in 1..Len(A)
      BY <2>1, <3>1, <3>2, LenProperties
    <3> QED
      BY <3>2, <3>3, ElementOfSeq
  <2> QED
    BY <2>1, <2>2 DEF Versions
<1>5. ASSUME ClearStaleLock \/ LegacyLock \/ LegacyUnlock
      PROVE  DatabaseTypeOK'
  BY <1>5 DEF ClearStaleLock, LegacyLock, LegacyUnlock, database
<1>6. ASSUME LegacyApply
      PROVE  DatabaseTypeOK'
  <2>1. Len(history) \in Nat /\ Len(Legacy) \in Nat
    BY LenProperties, ConstantsAssumption
  <2>2. history' \in Seq(HistoryKind) /\ Len(history') = Len(history) + 1
    BY <1>6, AppendProperties DEF LegacyApply, HistoryKind
  <2> QED
    BY <1>6, <2>1, <2>2 DEF LegacyApply
<1> QED
  BY <1>1, <1>2, <1>3, <1>4, <1>5, <1>6
  DEF Next, vars, database, Start, TryLock, LockRefused, Bootstrap, Validate, Applied, StatementFails,
      ReleaseRowFails, Unlock, Return, ReturnError, Admit, EndImport, LoseSession, Crash, Adopt, Apply

\* Invocations keep their types.
LEMMA ProcessStep == SchemaInv /\ [Next]_vars => ProcessTypeOK'
<1> SUFFICES ASSUME SchemaInv, [Next]_vars
             PROVE  ProcessTypeOK'
  OBVIOUS
<1>0. ProcessTypeOK
  BY DEF SchemaInv, SchemaTypeOK
<1> USE DEF ProcessTypeOK, Phase, Reserved, Migrating, Goto, Abort
<1>1. ASSUME NEW p \in Process, NEW b \in Build, NEW e \in EntityType, Start(p, b, e)
      PROVE  ProcessTypeOK'
  BY <1>0, <1>1 DEF Start, Job
<1>2. ASSUME NEW p \in Process, TryLock(p) \/ LockRefused(p)
      PROVE  ProcessTypeOK'
  BY <1>0, <1>2 DEF TryLock, LockRefused
<1>3. ASSUME NEW p \in Process, Reserve(p) \/ Bootstrap(p)
      PROVE  ProcessTypeOK'
  BY <1>0, <1>3 DEF Reserve, Bootstrap
<1>4. ASSUME NEW p \in Process, Adopt(p)
      PROVE  ProcessTypeOK'
  BY <1>0, <1>4 DEF Adopt
<1>5. ASSUME NEW p \in Process, Validate(p) \/ Applied(p)
      PROVE  ProcessTypeOK'
  BY <1>0, <1>5 DEF Validate, Applied
<1>6. ASSUME NEW p \in Process, Apply(p)
      PROVE  ProcessTypeOK'
  <2>1. next' = next \/ next' = [next EXCEPT ![p] = @ + 1]
    BY <1>6 DEF Apply
  <2>2. next' \in [Process -> Nat \ {0}]
    BY <1>0, <2>1
  <2>3. UNCHANGED <<lockHolder, job, session>> /\ (UNCHANGED <<pc, failed>> \/ Abort(p, "releasing"))
    BY <1>6 DEF Apply
  <2> QED
    BY <1>0, <2>2, <2>3
<1>7. ASSUME NEW p \in Process, StatementFails(p) \/ ReleaseRow(p) \/ ReleaseRowFails(p)
      PROVE  ProcessTypeOK'
  BY <1>0, <1>7 DEF StatementFails, ReleaseRow, ReleaseRowFails
<1>8. ASSUME NEW p \in Process, Unlock(p) \/ Return(p) \/ Admit(p)
      PROVE  ProcessTypeOK'
  BY <1>0, <1>8 DEF Unlock, Return, MayImport, Admit
<1>9. ASSUME NEW p \in Process, Leave(p)
      PROVE  ProcessTypeOK'
  BY <1>0, <1>9 DEF Leave, LocksWithout
<1>10. ASSUME NEW p \in Process, LoseSession(p)
       PROVE  ProcessTypeOK'
  BY <1>0, <1>10 DEF LoseSession, LocksWithout
<1>11. CASE UNCHANGED <<lockHolder, pc, job, session, next, failed>>
  BY <1>0, <1>11
<1> QED
  BY <1>1, <1>2, <1>3, <1>4, <1>5, <1>6, <1>7, <1>8, <1>9, <1>10, <1>11
  DEF Next, vars, database, ReturnError, EndImport, Crash, ClearStaleLock, LegacyLock, LegacyApply,
      LegacyUnlock

\* Import locks belong to live sessions, and an invocation at work has a build.
LEMMA SessionStep ==
    SchemaInv /\ [Next]_vars =>
        \A p \in Process :
            /\ job'[p] = None => pc'[p] = "idle"
            /\ Held(p)' # {} => session'[p] /\ pc'[p] \in Reserved
<1> SUFFICES ASSUME SchemaInv, [Next]_vars, NEW q \in Process
             PROVE  /\ job'[q] = None => pc'[q] = "idle"
                    /\ Held(q)' # {} => session'[q] /\ pc'[q] \in Reserved
  OBVIOUS
<1> DEFINE Goal == /\ job'[q] = None => pc'[q] = "idle"
                   /\ Held(q)' # {} => session'[q] /\ pc'[q] \in Reserved
<1>0. /\ ProcessTypeOK
      /\ job[q] = None => pc[q] = "idle"
      /\ Held(q) # {} => session[q] /\ pc[q] \in Reserved
      /\ None \notin Process \cup Job
  BY ConstantsAssumption DEF SchemaInv, SchemaTypeOK
<1> USE DEF ProcessTypeOK, Reserved, Migrating, Goto, Abort, Held
<1>1. ASSUME NEW p \in Process, NEW b \in Build, NEW e \in EntityType, Start(p, b, e)
      PROVE  Goal
  BY <1>0, <1>1 DEF Start, Job
<1>2. ASSUME NEW p \in Process, TryLock(p)
      PROVE  Goal
  BY <1>0, <1>2 DEF TryLock
<1>3. ASSUME NEW p \in Process, LockRefused(p) \/ Reserve(p) \/ Bootstrap(p)
      PROVE  Goal
  BY <1>0, <1>3 DEF LockRefused, Reserve, Bootstrap
<1>4. ASSUME NEW p \in Process, Adopt(p)
      PROVE  Goal
  BY <1>0, <1>4 DEF Adopt
<1>5. ASSUME NEW p \in Process, Validate(p) \/ Applied(p)
      PROVE  Goal
  BY <1>0, <1>5 DEF Validate, Applied
<1>6. ASSUME NEW p \in Process, Apply(p)
      PROVE  Goal
  <2>1. /\ pc[p] = "applying" /\ UNCHANGED <<lockHolder, job, session>>
        /\ UNCHANGED pc \/ pc' = [pc EXCEPT ![p] = "releasing"]
    BY <1>6 DEF Apply
  <2> QED
    BY <1>0, <2>1
<1>7. ASSUME NEW p \in Process, StatementFails(p) \/ ReleaseRow(p) \/ ReleaseRowFails(p)
      PROVE  Goal
  BY <1>0, <1>7 DEF StatementFails, ReleaseRow, ReleaseRowFails
<1>8. ASSUME NEW p \in Process, Unlock(p) \/ Return(p) \/ Admit(p)
      PROVE  Goal
  BY <1>0, <1>8 DEF Unlock, Return, MayImport, Admit
<1>9. ASSUME NEW p \in Process, Leave(p)
      PROVE  Goal
  BY <1>0, <1>9 DEF Leave, LocksWithout
<1>10. ASSUME NEW p \in Process, LoseSession(p)
       PROVE  Goal
  BY <1>0, <1>10 DEF LoseSession, LocksWithout
<1>11. CASE UNCHANGED <<lockHolder, pc, job, session>>
  BY <1>0, <1>11
<1> QED
  BY <1>1, <1>2, <1>3, <1>4, <1>5, <1>6, <1>7, <1>8, <1>9, <1>10, <1>11
  DEF Next, vars, database, ReturnError, EndImport, Crash, ClearStaleLock, LegacyLock, LegacyApply,
      LegacyUnlock

\* A migrator keeps all its locks, an import at least one.
LEMMA LocksKeptStep == SchemaInv /\ [Next]_vars => LocksKept'
<1> SUFFICES ASSUME SchemaInv, [Next]_vars, NEW q \in Process, session'[q]
             PROVE  /\ pc'[q] \in Migrating \cup {"reserving", "releasing"} => Held(q)' = EntityType
                    /\ pc'[q] = "importing" => Held(q)' # {}
  BY DEF LocksKept
<1> DEFINE Goal == /\ pc'[q] \in Migrating \cup {"reserving", "releasing"} => Held(q)' = EntityType
                   /\ pc'[q] = "importing" => Held(q)' # {}
<1>0. /\ ProcessTypeOK
      /\ session[q] =>
            /\ pc[q] \in Migrating \cup {"reserving", "releasing"} => Held(q) = EntityType
            /\ pc[q] = "importing" => Held(q) # {}
      /\ None \notin Process
  BY ConstantsAssumption DEF SchemaInv, SchemaTypeOK, LocksKept
<1> USE DEF ProcessTypeOK, Migrating, Goto, Abort
<1>1. ASSUME NEW p \in Process, NEW b \in Build, NEW e \in EntityType, Start(p, b, e)
      PROVE  Goal
  BY <1>0, <1>1 DEF Start, Held
<1>2. ASSUME NEW p \in Process, TryLock(p)
      PROVE  Goal
  <2> DEFINE e == Lowest(Wanted(p) \ Held(p))
  <2>1. /\ session[p] /\ lockHolder[e] = None /\ lockHolder' = [lockHolder EXCEPT ![e] = p]
        /\ UNCHANGED session
    BY <1>2 DEF TryLock
  <2>2. Held(q) \subseteq Held(q)'
    BY <1>0, <2>1 DEF Held
  <2>3. CASE UNCHANGED pc
    BY <1>0, <2>1, <2>2, <2>3 DEF Held
  <2>4. CASE Wanted(p) = Held(p) \cup {e} /\ ~UNCHANGED pc
    <3>1. job[p] \in Job
      BY <1>2 DEF TryLock, SchemaInv, SchemaTypeOK
    <3>2. Wanted(p) \subseteq EntityType /\ Wanted(p) # {}
          /\ (pc[p] = "locking" => Wanted(p) = EntityType)
      BY <3>1, ConstantsAssumption DEF Wanted, Job
    <3>3. Held(p)' = Wanted(p)
      BY <1>0, <2>1, <2>4, <3>2 DEF Held
    <3>4. CASE q = p
      BY <1>0, <1>2, <2>4, <3>2, <3>3, <3>4 DEF TryLock
    <3>5. CASE q # p
      <4>1. pc'[q] = pc[q]
        BY <1>0, <1>2, <3>5 DEF TryLock
      <4> QED
        BY <1>0, <2>1, <2>2, <4>1 DEF Held
    <3> QED
      BY <3>4, <3>5
  <2> QED
    BY <1>2, <2>3, <2>4 DEF TryLock
<1>3. ASSUME NEW p \in Process, LockRefused(p) \/ Reserve(p) \/ Bootstrap(p)
      PROVE  Goal
  BY <1>0, <1>3 DEF LockRefused, Reserve, Bootstrap, Held
<1>4. ASSUME NEW p \in Process, Adopt(p)
      PROVE  Goal
  BY <1>0, <1>4 DEF Adopt, Held
<1>5. ASSUME NEW p \in Process, Validate(p) \/ Applied(p)
      PROVE  Goal
  BY <1>0, <1>5 DEF Validate, Applied, Held
<1>6. ASSUME NEW p \in Process, Apply(p)
      PROVE  Goal
  <2>1. /\ pc[p] = "applying" /\ UNCHANGED <<lockHolder, session>>
        /\ UNCHANGED pc \/ pc' = [pc EXCEPT ![p] = "releasing"]
    BY <1>6 DEF Apply
  <2> QED
    BY <1>0, <2>1 DEF Held
<1>7. ASSUME NEW p \in Process, StatementFails(p) \/ ReleaseRow(p) \/ ReleaseRowFails(p)
      PROVE  Goal
  BY <1>0, <1>7 DEF StatementFails, ReleaseRow, ReleaseRowFails, Held
<1>8. ASSUME NEW p \in Process, Unlock(p)
      PROVE  Goal
  BY <1>0, <1>8 DEF Unlock, Held
<1>9. ASSUME NEW p \in Process, Return(p) \/ Admit(p)
      PROVE  Goal
  BY <1>0, <1>9 DEF Return, MayImport, Admit, Held
<1>10. ASSUME NEW p \in Process, Leave(p) \/ LoseSession(p)
       PROVE  Goal
  <2>1. CASE q = p
    BY <1>0, <1>10, <2>1 DEF Leave, LoseSession
  <2>2. CASE q # p
    BY <1>0, <1>10, <2>2 DEF Leave, LoseSession, LocksWithout, Held
  <2> QED
    BY <2>1, <2>2
<1>11. CASE UNCHANGED <<lockHolder, pc, session>>
  BY <1>0, <1>11 DEF Held
<1> QED
  BY <1>1, <1>2, <1>3, <1>4, <1>5, <1>6, <1>7, <1>8, <1>9, <1>10, <1>11
  DEF Next, vars, database, ReturnError, EndImport, Crash, ClearStaleLock, LegacyLock, LegacyApply,
      LegacyUnlock

\* The Liquibase row has one owner: a second one would hold the same import locks.
LEMMA RowOwnedStep == SchemaInv /\ [Next]_vars => RowOwned'
<1> SUFFICES ASSUME SchemaInv, [Next]_vars
             PROVE  RowOwned'
  OBVIOUS
<1>0. /\ ProcessTypeOK
      /\ \A p \in Process : Holding(p) => changeLock = "go"
      /\ legacyLive => changeLock = "java"
  BY DEF SchemaInv, SchemaTypeOK, RowOwned
<1> USE DEF ProcessTypeOK, RowOwned, Holding, Migrating, Goto, Abort
<1>1. ASSUME NEW p \in Process, NEW b \in Build, NEW e \in EntityType, Start(p, b, e)
      PROVE  RowOwned'
  BY <1>0, <1>1 DEF Start
<1>2. ASSUME NEW p \in Process, TryLock(p) \/ LockRefused(p)
      PROVE  RowOwned'
  BY <1>0, <1>2 DEF TryLock, LockRefused
<1>3. ASSUME NEW p \in Process, Reserve(p)
      PROVE  RowOwned'
  <2>1. CASE RowIsFree
    BY <1>0, <1>3, <2>1 DEF Reserve, RowIsFree
  <2>2. CASE ~RowIsFree
    BY <1>0, <1>3, <2>2 DEF Reserve
  <2> QED
    BY <2>1, <2>2
<1>4. ASSUME NEW p \in Process, Bootstrap(p) \/ Validate(p) \/ Applied(p)
      PROVE  RowOwned'
  BY <1>0, <1>4 DEF Bootstrap, Validate, Applied
<1>5. ASSUME NEW p \in Process, Adopt(p)
      PROVE  RowOwned'
  BY <1>0, <1>5 DEF Adopt
<1>6. ASSUME NEW p \in Process, Apply(p)
      PROVE  RowOwned'
  <2>1. /\ pc[p] = "applying" /\ UNCHANGED <<changeLock, legacyLive, session>>
        /\ UNCHANGED pc \/ pc' = [pc EXCEPT ![p] = "releasing"]
    BY <1>6 DEF Apply
  <2> QED
    BY <1>0, <2>1
<1>7. ASSUME NEW p \in Process, StatementFails(p) \/ ReleaseRowFails(p)
      PROVE  RowOwned'
  BY <1>0, <1>7 DEF StatementFails, ReleaseRowFails
<1>8. ASSUME NEW p \in Process, ReleaseRow(p)
      PROVE  RowOwned'
  <2>1. \A q \in Process : Holding(q) => q = p
    <3>1. \A q \in Process : Holding(q) => Held(q) = EntityType
      BY DEF SchemaInv, LocksKept
    <3>2. Holding(p)
      BY <1>8 DEF ReleaseRow
    <3> QED
      BY <3>1, <3>2, AllLocksExclude, ConstantsAssumption
  <2> QED
    BY <1>0, <1>8, <2>1 DEF ReleaseRow
<1>9. ASSUME NEW p \in Process, Unlock(p) \/ Return(p) \/ Admit(p)
      PROVE  RowOwned'
  BY <1>0, <1>9 DEF Unlock, Return, MayImport, Admit
<1>10. ASSUME NEW p \in Process, Leave(p) \/ LoseSession(p), UNCHANGED <<changeLock, legacyLive>>
       PROVE  RowOwned'
  BY <1>0, <1>10 DEF Leave, LoseSession
<1>11. ASSUME ClearStaleLock \/ LegacyLock \/ LegacyApply \/ LegacyUnlock
       PROVE  RowOwned'
  BY <1>0, <1>11 DEF ClearStaleLock, LegacyLock, LegacyApply, LegacyUnlock
<1>12. CASE UNCHANGED vars
  BY <1>0, <1>12 DEF vars
<1> QED
  BY <1>1, <1>2, <1>3, <1>4, <1>5, <1>6, <1>7, <1>8, <1>9, <1>10, <1>11, <1>12
  DEF Next, ReturnError, EndImport, Crash, LoseSession

-----------------------------------------------------------------------------
(* Theorems. *)

LEMMA NextInv == SchemaInv /\ [Next]_vars => SchemaInv'
<1> SUFFICES ASSUME SchemaInv, [Next]_vars
             PROVE  SchemaInv'
  OBVIOUS
<1>1. SchemaTypeOK'
  BY DatabaseStep, ProcessStep, SessionStep DEF SchemaTypeOK
<1> QED
  BY <1>1, LocksKeptStep, RowOwnedStep DEF SchemaInv

\* Database and invocations keep their types in every reachable state: one ledger row per
\* version, and import locks only in the hands of live sessions (ddl.go, legacy_migration.go).
THEOREM SchemaTypeCorrect == Spec => []SchemaTypeOK
<1>1. SchemaInv => SchemaTypeOK
  BY DEF SchemaInv
<1> QED
  BY InitInv, NextInv, <1>1, PTL DEF Spec

\* However many builds are invoked, however their sessions, locks and rows get lost, a migrator
\* that can execute a statement excludes other migrators, Liquibase and lock-holding imports.
THEOREM MigratorAlone == Spec => []MigratorIsAlone
BY InitInv, NextInv, InvImpliesAlone, PTL DEF Spec

-----------------------------------------------------------------------------
(***************************************************************************)
(* The ledger, the schema and the builds.                                  *)
(***************************************************************************)
Change == [version : Nat, checksum : Nat]

\* The first migrations of a sequence.
First(s, k) == {s[i] : i \in 1..k}

\* The sequences a ledger can be the beginning of.
Lines == {Legacy} \cup {Artifact[b] : b \in Build}

\* What was executed, and what history and ledger say of it.
CatalogInv ==
    /\ catalog \in Seq(Change)
    /\ \A j, k \in DOMAIN catalog : catalog[j].version = catalog[k].version => j = k
    /\ ledger \subseteq Rows(catalog)
    /\ \A i \in DOMAIN history : history[i] = "executed" => Legacy[i] \in Rows(catalog)
    /\ ledger = {} => \A m \in Rows(catalog) :
                          \E i \in DOMAIN history : m = Legacy[i] \/ history[i] = "untrusted"
    /\ ledger # {} /\ Len(history) <= Cardinality(ledger) => Rows(catalog) = ledger

LedgerInv == \E s \in Lines : \E k \in 0..Len(s) : ledger = First(s, k)

\* What an invocation knows of them at its stage.
StageInv(p) ==
    LET A == Artifact[job[p].build]
    IN  /\ pc[p] \in {"idle", "locking", "reserving", "bootstrapping", "adopting", "validating"}
              => next[p] = 1
        /\ session[p] /\ pc[p] \in {"validating", "applying"} => Rows(catalog) = ledger
        /\ session[p] /\ pc[p] = "applying" =>
              \E k \in 0..Len(A) : ledger = First(A, k) /\ next[p] <= k + 1
        /\ session[p] /\ pc[p] = "releasing" /\ ~failed[p] =>
              ledger = Rows(A) /\ Rows(catalog) = ledger
        /\ pc[p] \in {"releasing", "unlocking"} /\ ~failed[p] => Rows(A) \subseteq ledger
        /\ pc[p] \in {"migrated", "admitting", "importing"} => Rows(A) \subseteq ledger

LedgerWorks == CatalogInv /\ LedgerInv /\ \A p \in Process : StageInv(p)

\* A sequence of migrations whose versions grow: its beginnings and their sizes.
LEMMA LineFacts ==
    ASSUME NEW s \in Lines
    PROVE  /\ s \in Seq(Migration) /\ Len(s) \in Nat /\ DOMAIN s = 1..Len(s)
           /\ \A i \in 1..Len(s) : s[i] \in Migration /\ s[i].version \in Nat
           /\ \A i, k \in 1..Len(s) : s[i].version = s[k].version => i = k
           /\ \A i \in 1..Len(s) \cap DOMAIN Legacy : s[i].version = Legacy[i].version
<1>1. s \in Seq(Migration)
  BY ConstantsAssumption DEF Lines
<1>2. Len(s) \in Nat /\ DOMAIN s = 1..Len(s)
  BY <1>1, LenProperties
<1>3. \A i \in 1..Len(s) : s[i] \in Migration
  BY <1>1, ElementOfSeq
<1>4. \A i \in 1..Len(s) : s[i].version \in Nat
  BY <1>3, ConstantsAssumption
<1>5. \A i, k \in 1..Len(s) : i < k => s[i].version < s[k].version
  <2>1. CASE s = Legacy
    BY <1>2, <2>1, ReleasesAssumption
  <2>2. CASE s # Legacy
    <3>1. PICK b \in Build : s = Artifact[b]
      BY <2>2 DEF Lines
    <3> QED
      BY <1>2, <3>1, ConstantsAssumption
  <2> QED
    BY <2>1, <2>2
<1>6. \A i, k \in 1..Len(s) : s[i].version = s[k].version => i = k
  <2> SUFFICES ASSUME NEW i \in 1..Len(s), NEW k \in 1..Len(s), s[i].version = s[k].version
               PROVE i = k
    OBVIOUS
  <2>1. ~(i < k) /\ ~(k < i)
    BY <1>4, <1>5
  <2> QED
    BY <1>2, <2>1
<1>7. \A i \in 1..Len(s) \cap DOMAIN Legacy : s[i].version = Legacy[i].version
  BY <1>2, ReleasesAssumption DEF Lines
<1> QED
  BY <1>1, <1>2, <1>3, <1>4, <1>6, <1>7

LEMMA FirstFacts ==
    ASSUME NEW s \in Lines, NEW k \in 0..Len(s)
    PROVE  /\ Rows(Prefix(s, k)) = First(s, k)
           /\ Rows(s) = First(s, Len(s))
           /\ Cardinality(First(s, k)) = k
<1>1. k \in Nat /\ \A i \in 1..k : i \in 1..Len(s)
  BY LineFacts
<1>2. Rows(Prefix(s, k)) = First(s, k)
  <2>1. /\ Prefix(s, k) \in Seq(Migration) /\ Len(Prefix(s, k)) = k
        /\ \A i \in 1..k : Prefix(s, k)[i] = s[i]
    BY <1>1, LineFacts, SubSeqProperties DEF Prefix
  <2>2. DOMAIN Prefix(s, k) = 1..k
    BY <2>1, LenProperties
  <2> QED
    BY <2>1, <2>2 DEF Rows, First
<1>3. Cardinality(First(s, k)) = k
  <2> DEFINE f == [i \in 1..k |-> s[i]]
  <2>1. f \in Bijection(1..k, First(s, k))
    <3>1. f \in [1..k -> First(s, k)]
      BY DEF First
    <3>2. \A i, j \in 1..k : f[i] = f[j] => i = j
      BY <1>1, LineFacts
    <3>3. \A m \in First(s, k) : \E i \in 1..k : f[i] = m
      BY DEF First
    <3>4. f \in Injection(1..k, First(s, k))
      BY <3>1, <3>2 DEF Injection, IsInjective
    <3>5. f \in Surjection(1..k, First(s, k))
      BY <3>1, <3>3 DEF Surjection
    <3> QED
      BY <3>4, <3>5 DEF Bijection
  <2>2. ExistsBijection(1..k, First(s, k))
    BY <2>1 DEF ExistsBijection
  <2> QED
    BY <1>1, <2>2, FS_CountingElements
<1> QED
  BY <1>2, <1>3, LineFacts DEF Rows, First

LEMMA HistoryFacts ==
    ASSUME SchemaInv
    PROVE  /\ Len(history) \in Nat /\ DOMAIN history = 1..Len(history)
           /\ Len(Legacy) \in Nat /\ DOMAIN Legacy = 1..Len(Legacy)
           /\ Len(history) <= Len(Legacy)
           /\ Legacy \in Lines
           /\ \A i \in DOMAIN Legacy : Legacy[i] \in Change
<1>1. \A i \in DOMAIN Legacy : Legacy[i] \in Migration
  BY LineFacts DEF Lines
<1> QED
  BY <1>1, LenProperties, ConstantsAssumption DEF SchemaInv, SchemaTypeOK, DatabaseTypeOK, Lines, Change

\* A database is empty or carries what its change sets left.
LEMMA WorksInit ==
    ASSUME Init
    PROVE  LedgerWorks
<1>0. SchemaInv
  BY InitInv
<1>1a. PICK n \in 0..Len(Legacy) :
          /\ history \in [1..n -> HistoryKind]
          /\ \E missing \in SUBSET (1..n) :
                /\ \A i \in missing : history[i] = "marked"
                /\ catalog \in LegacyCatalog(history, missing)
  <2>1. PICK n \in 0..Len(Legacy) : \E kinds \in [1..n -> HistoryKind] :
           \E missing \in SUBSET {i \in 1..n : kinds[i] = "marked"} :
               history = kinds /\ catalog \in LegacyCatalog(kinds, missing)
    BY DEF Init
  <2> QED
    BY <2>1
<1>1. PICK missing \in SUBSET (1..n) :
         /\ \A i \in missing : history[i] = "marked"
         /\ catalog \in LegacyCatalog(history, missing)
  BY <1>1a
<1> DEFINE ran == DOMAIN history \ missing
           Left(i) == IF history[i] = "untrusted"
                      THEN [version |-> Legacy[i].version, checksum |-> 0]
                      ELSE Legacy[i]
<1>2. n \in Nat /\ DOMAIN history = 1..n /\ ran \subseteq 1..n /\ ran \subseteq DOMAIN Legacy
  BY <1>0, <1>1a, HistoryFacts
<1>3. Cardinality(ran) \in Nat
  <2>1. IsFiniteSet(ran)
    BY <1>2, FS_Interval, FS_Subset
  <2> QED
    BY <2>1, FS_CardinalityType
<1>4. PICK o \in [1..Cardinality(ran) -> ran] :
         /\ {o[k] : k \in DOMAIN o} = ran
         /\ \A j, k \in DOMAIN o : j < k => o[j] < o[k]
         /\ catalog = [k \in DOMAIN o |-> Left(o[k])]
  BY <1>1 DEF LegacyCatalog
<1>5. \A i \in ran : Left(i) \in Change /\ Left(i).version = Legacy[i].version
  BY <1>0, <1>2, HistoryFacts DEF Change
<1> DEFINE N == Cardinality(ran)
<1>6. DOMAIN o = 1..N /\ DOMAIN catalog = 1..N /\ \A k \in 1..N : o[k] \in ran /\ catalog[k] = Left(o[k])
  BY <1>4
<1> HIDE DEF ran, Left, N
<1>7. Rows(catalog) = {Left(i) : i \in ran}
  <2>1. Rows(catalog) = {catalog[k] : k \in 1..N}
    BY <1>6 DEF Rows
  <2>2. \A i \in ran : \E k \in 1..N : o[k] = i
    BY <1>4, <1>6
  <2> QED
    BY <1>6, <2>1, <2>2
<1>8. catalog \in Seq(Change)
  <2>1. N \in Nat
    BY <1>3 DEF N
  <2>2. catalog \in [1..N -> Change]
    BY <1>4, <1>5, <1>6
  <2> QED
    BY <2>1, <2>2, SeqDef
<1>9. \A j, k \in DOMAIN catalog : catalog[j].version = catalog[k].version => j = k
  <2> SUFFICES ASSUME NEW j \in 1..N, NEW k \in 1..N, catalog[j].version = catalog[k].version
               PROVE j = k
    BY <1>6
  <2>1. Legacy[o[j]].version = Legacy[o[k]].version /\ o[j] \in 1..Len(Legacy) /\ o[k] \in 1..Len(Legacy)
    BY <1>0, <1>2, <1>5, <1>6, HistoryFacts
  <2>2. o[j] = o[k]
    BY <1>0, <2>1, HistoryFacts, LineFacts
  <2>3. o[j] \in Nat /\ o[k] \in Nat /\ j \in Nat /\ k \in Nat
    <3>1. N \in Nat
      BY <1>3 DEF N
    <3>2. o[j] \in 1..n /\ o[k] \in 1..n
      BY <1>2, <1>6
    <3> QED
      BY <1>2, <3>1, <3>2
  <2>4. ~(j < k) /\ ~(k < j)
    BY <1>4, <1>6, <2>2, <2>3
  <2> QED
    BY <2>3, <2>4
<1>10. \A i \in DOMAIN history : history[i] = "executed" => Legacy[i] \in Rows(catalog)
  <2> SUFFICES ASSUME NEW i \in DOMAIN history, history[i] = "executed"
               PROVE Legacy[i] \in Rows(catalog)
    OBVIOUS
  <2>1. i \in ran
    BY <1>1 DEF ran
  <2>2. Left(i) = Legacy[i]
    BY DEF Left
  <2> QED
    BY <1>7, <2>1, <2>2
<1>11. \A m \in Rows(catalog) : \E i \in DOMAIN history : m = Legacy[i] \/ history[i] = "untrusted"
  <2>1. \A i \in ran : i \in DOMAIN history
    BY DEF ran
  <2> QED
    BY <1>7, <2>1 DEF Left
<1>12. CatalogInv
  BY <1>8, <1>9, <1>10, <1>11 DEF CatalogInv, Init
<1>13. LedgerInv
  <2>1. ledger = First(Legacy, 0) /\ 0 \in 0..Len(Legacy) /\ Legacy \in Lines
    BY <1>0, HistoryFacts DEF Init, First
  <2> QED
    BY <2>1 DEF LedgerInv
<1> QED
  BY <1>12, <1>13 DEF LedgerWorks, StageInv, Init

\* Only a migrator writes the ledger, and with its statements; only it and Liquibase the schema.
LEMMA DatabaseSteps ==
    ASSUME [Next]_vars
    PROVE  \/ \E p \in Process : Apply(p) \/ Adopt(p)
           \/ LegacyApply
           \/ UNCHANGED database
<1>1. ASSUME NEW p \in Process, NEW b \in Build, NEW e \in EntityType, Start(p, b, e)
      PROVE UNCHANGED database
  BY <1>1 DEF Start
<1> QED
  BY <1>1
  DEF Next, vars, TryLock, LockRefused, Reserve, Bootstrap, Validate, Applied, StatementFails,
      ReleaseRow, ReleaseRowFails, Unlock, Return, ReturnError, Admit, EndImport, LoseSession, Crash,
      ClearStaleLock, LegacyLock, LegacyUnlock

\* A change set of Liquibase: one beyond the ledger makes the history longer than it.
LEMMA LegacyApplyStep ==
    ASSUME SchemaInv, CatalogInv, LedgerInv, LegacyApply
    PROVE  /\ CatalogInv' /\ UNCHANGED ledger
           /\ Rows(catalog) \subseteq Rows(catalog')
<1> DEFINE n == Len(history)
           m == Legacy[n + 1]
<1>1. /\ n \in Nat /\ DOMAIN history = 1..n /\ n + 1 \in 1..Len(Legacy) /\ n + 1 \in DOMAIN Legacy
      /\ m \in Change /\ Legacy \in Lines
  BY HistoryFacts DEF LegacyApply
<1>2. /\ UNCHANGED ledger
      /\ \/ m \in Rows(catalog) /\ UNCHANGED catalog /\ history' = Append(history, "marked")
         \/ /\ m.version \notin Versions(Rows(catalog)) /\ catalog' = Append(catalog, m)
            /\ history' = Append(history, "executed")
  BY DEF LegacyApply
<1>3. /\ Len(history') = n + 1 /\ DOMAIN history' = 1..(n + 1)
      /\ \A i \in 1..n : history'[i] = history[i]
      /\ history'[n + 1] \in {"marked", "executed"}
      /\ history'[n + 1] = "executed" => m.version \notin Versions(Rows(catalog)) /\ catalog' = Append(catalog, m)
  <2>1. history \in Seq(HistoryKind)
    BY DEF SchemaInv, SchemaTypeOK, DatabaseTypeOK
  <2>2. PICK k \in {"marked", "executed"} :
           /\ history' = Append(history, k)
           /\ k = "executed" => m.version \notin Versions(Rows(catalog)) /\ catalog' = Append(catalog, m)
    BY <1>2
  <2>3. k \in HistoryKind
    BY <2>2 DEF HistoryKind
  <2> HIDE DEF n, m
  <2>4. /\ Len(history') = Len(history) + 1
        /\ history'[Len(history) + 1] = k
        /\ \A i \in 1..Len(history) : history'[i] = history[i]
        /\ history' \in Seq(HistoryKind)
    BY <2>1, <2>2, <2>3, AppendProperties
  <2>5. DOMAIN history' = 1..Len(history')
    BY <2>4, LenProperties
  <2> QED
    BY <2>2, <2>4, <2>5 DEF n
<1>4. /\ catalog' \in Seq(Change)
      /\ Rows(catalog') = Rows(catalog) \cup {m}
      /\ \A j, k \in DOMAIN catalog' : catalog'[j].version = catalog'[k].version => j = k
  <2>1. CASE UNCHANGED catalog /\ m \in Rows(catalog)
    BY <2>1 DEF CatalogInv
  <2>2. CASE m.version \notin Versions(Rows(catalog)) /\ catalog' = Append(catalog, m)
    <3> DEFINE N == Len(catalog)
    <3>1. N \in Nat /\ DOMAIN catalog = 1..N /\ catalog \in Seq(Change)
      BY LenProperties DEF CatalogInv
    <3>2. /\ catalog' \in Seq(Change) /\ DOMAIN catalog' = 1..(N + 1)
          /\ \A k \in 1..N : catalog'[k] = catalog[k]
          /\ catalog'[N + 1] = m
      BY <1>1, <2>2, <3>1, AppendProperties
    <3>3. \A k \in 1..N : catalog[k].version # m.version
      BY <2>2, <3>1 DEF Rows, Versions
    <3>4. \A j, k \in 1..N : catalog[j].version = catalog[k].version => j = k
      BY <3>1 DEF CatalogInv
    <3> HIDE DEF N, m
    <3>5. Rows(catalog') = Rows(catalog) \cup {m}
      BY <3>1, <3>2 DEF Rows
    <3>6. \A j, k \in 1..(N + 1) : catalog'[j].version = catalog'[k].version => j = k
      BY <3>1, <3>2, <3>3, <3>4
    <3> QED
      BY <3>2, <3>5, <3>6
  <2> QED
    BY <1>2, <2>1, <2>2
<1>5. \A i \in DOMAIN history' : history'[i] = "executed" => Legacy[i] \in Rows(catalog')
  BY <1>1, <1>3, <1>4 DEF CatalogInv
<1>6. ledger = {} => \A x \in Rows(catalog') :
          \E i \in DOMAIN history' : x = Legacy[i] \/ history'[i] = "untrusted"
  <2> SUFFICES ASSUME ledger = {}, NEW x \in Rows(catalog')
               PROVE \E i \in DOMAIN history' : x = Legacy[i] \/ history'[i] = "untrusted"
    OBVIOUS
  <2>1. CASE x = m
    BY <1>1, <1>3, <2>1
  <2>2. CASE x \in Rows(catalog)
    <3>1. PICK i \in 1..n : x = Legacy[i] \/ history[i] = "untrusted"
      BY <1>1, <2>2 DEF CatalogInv
    <3>2. i \in DOMAIN history' /\ history'[i] = history[i]
      BY <1>1, <1>3
    <3> QED
      BY <3>1, <3>2
  <2> QED
    BY <1>4, <2>1, <2>2
<1>7. ledger # {} /\ n + 1 <= Cardinality(ledger) => Rows(catalog') = ledger
  <2> SUFFICES ASSUME ledger # {}, n + 1 <= Cardinality(ledger)
               PROVE Rows(catalog') = ledger
    OBVIOUS
  <2>0. PICK s \in Lines : \E k \in 0..Len(s) : ledger = First(s, k)
    BY DEF LedgerInv
  <2>1. PICK k \in 0..Len(s) : ledger = First(s, k)
    BY <2>0
  <2>2. Cardinality(ledger) = k /\ Len(s) \in Nat
    BY <2>1, FirstFacts, LineFacts
  <2>3. n + 1 \in 1..k /\ n + 1 \in 1..Len(s) \cap DOMAIN Legacy /\ n <= Cardinality(ledger)
    BY <1>1, <2>2
  <2>4. Rows(catalog) = ledger
    BY <2>3 DEF CatalogInv
  <2>5. s[n + 1] \in ledger /\ s[n + 1].version = m.version
    BY <2>1, <2>3, LineFacts DEF First
  <2>6. m.version \in Versions(Rows(catalog))
    BY <2>4, <2>5 DEF Versions
  <2> QED
    BY <1>2, <2>4, <2>6
<1> QED
  BY <1>2, <1>3, <1>4, <1>5, <1>6, <1>7 DEF CatalogInv

\* Adoption: the change sets it vouches for are those that were executed.
LEMMA AdoptStep ==
    ASSUME SchemaInv, CatalogInv, LedgerInv, NEW p \in Process, Adopt(p)
    PROVE  /\ CatalogInv' /\ LedgerInv'
           /\ UNCHANGED catalog /\ ledger \subseteq ledger'
           /\ pc'[p] = "validating" => Rows(catalog') = ledger'
<1> DEFINE n == Len(history)
           A == Artifact[job[p].build]
<1>1. UNCHANGED <<catalog, history>>
  BY DEF Adopt
<1>2. /\ n \in Nat /\ DOMAIN history = 1..n /\ n \in 0..Len(Legacy) /\ Legacy \in Lines
      /\ \A i \in 1..n : history[i] \in HistoryKind
  <2>1. history \in Seq(HistoryKind)
    BY DEF SchemaInv, SchemaTypeOK, DatabaseTypeOK
  <2> QED
    BY <2>1, HistoryFacts, ElementOfSeq
<1>3. CASE /\ n = 0 \/ (ledger # {} /\ n <= Cardinality(ledger))
           /\ UNCHANGED ledger
  <2>1. CatalogInv' /\ LedgerInv'
    BY <1>1, <1>3 DEF CatalogInv, LedgerInv
  <2>2. Cardinality(ledger) \in Nat
    <3>0. PICK s \in Lines : \E k \in 0..Len(s) : ledger = First(s, k)
      BY DEF LedgerInv
    <3>1. PICK k \in 0..Len(s) : ledger = First(s, k)
      BY <3>0
    <3> QED
      BY <3>1, FirstFacts
  <2>3. CASE ledger # {}
    BY <1>1, <1>2, <1>3, <2>1, <2>2, <2>3 DEF CatalogInv
  <2>4. CASE ledger = {}
    <3>1. DOMAIN history = {}
      BY <1>2, <1>3, <2>4
    <3> QED
      BY <1>1, <1>3, <2>1, <2>4, <3>1 DEF CatalogInv
  <2> QED
    BY <2>3, <2>4
<1>4. CASE n > 0 /\ ledger = {} /\ Trusted(A) /\ ledger' = Rows(Prefix(Legacy, n))
  <2>1. ledger' = First(Legacy, n) /\ Rows(Prefix(Legacy, n)) = First(Legacy, n)
    BY <1>2, <1>4, FirstFacts
  <2>2. Rows(catalog) = First(Legacy, n)
    <3>1. CASE \E i \in 1..n : history[i] = "marked"
      BY <1>4, <2>1, <3>1 DEF Trusted, SchemaProven
    <3>2. CASE ~\E i \in 1..n : history[i] = "marked"
      <4>1. \A i \in 1..n : history[i] = "executed"
        BY <1>2, <1>4, <3>2 DEF Trusted, HistoryKind
      <4>2. First(Legacy, n) \subseteq Rows(catalog)
        BY <1>2, <4>1 DEF CatalogInv, First
      <4>3. Rows(catalog) \subseteq First(Legacy, n)
        BY <1>2, <1>4, <4>1 DEF CatalogInv, First
      <4> QED
        BY <4>2, <4>3
    <3> QED
      BY <3>1, <3>2
  <2>3. ledger' # {}
    <3>1. 1 \in 1..n
      BY <1>2, <1>4
    <3>2. Legacy[1] \in First(Legacy, n)
      BY <3>1 DEF First
    <3> QED
      BY <2>1, <3>2
  <2>4. Rows(catalog') = ledger'
    BY <1>1, <2>1, <2>2
  <2>5. CatalogInv'
    BY <1>1, <2>3, <2>4 DEF CatalogInv
  <2>6. LedgerInv'
    BY <1>2, <2>1 DEF LedgerInv
  <2> QED
    BY <1>1, <1>4, <2>4, <2>5, <2>6
<1>5. CASE UNCHANGED ledger /\ pc'[p] = "releasing"
  BY <1>1, <1>5 DEF CatalogInv, LedgerInv
<1>6. Abort(p, "releasing") => pc'[p] = "releasing"
  BY DEF Abort, Goto, SchemaInv, SchemaTypeOK, ProcessTypeOK
<1> QED
  BY <1>3, <1>4, <1>5, <1>6 DEF Adopt

\* The build of an invocation at work.
LEMMA BuildLine ==
    ASSUME SchemaInv, NEW p \in Process, pc[p] # "idle"
    PROVE  Artifact[job[p].build] \in Lines
<1>1. job[p] \in Job
  BY DEF SchemaInv, SchemaTypeOK, ProcessTypeOK
<1>2. job[p].build \in Build
  BY <1>1 DEF Job
<1> QED
  BY <1>2 DEF Lines

\* The loop finds the next migration in the ledger, or right behind its end.
LEMMA ApplyStep ==
    ASSUME SchemaInv, CatalogInv, LedgerInv, NEW p \in Process, StageInv(p), Apply(p)
    PROVE  /\ CatalogInv' /\ LedgerInv'
           /\ ledger \subseteq ledger'
           /\ Rows(catalog') = ledger'
           /\ LET A == Artifact[job[p].build]
              IN  \E k \in 0..Len(A) : ledger' = First(A, k) /\ next'[p] <= k + 1
<1> DEFINE A == Artifact[job[p].build]
           m == A[next[p]]
<1>1. /\ A \in Lines /\ A \in Seq(Migration) /\ Len(A) \in Nat /\ DOMAIN A = 1..Len(A)
      /\ next[p] \in 1..Len(A) /\ m \in Migration /\ m \in Change
      /\ next \in [Process -> Nat \ {0}]
  <2>1. A \in Lines
    BY BuildLine DEF Apply
  <2>2. next \in [Process -> Nat \ {0}]
    BY DEF SchemaInv, SchemaTypeOK, ProcessTypeOK
  <2>3. Len(A) \in Nat /\ next[p] <= Len(A)
    BY <2>1, LineFacts DEF Apply
  <2>4. next[p] \in 1..Len(A)
    BY <2>2, <2>3
  <2> QED
    BY <2>1, <2>2, <2>4, LineFacts, ConstantsAssumption DEF Change
<1>2. Rows(catalog) = ledger /\ session[p] /\ pc[p] = "applying"
  BY DEF Apply, StageInv
<1>3. PICK k \in 0..Len(A) : ledger = First(A, k) /\ next[p] <= k + 1
  BY <1>2 DEF StageInv
<1>4. UNCHANGED history
  BY DEF Apply
<1>5. CASE m \in ledger /\ next' = [next EXCEPT ![p] = @ + 1] /\ UNCHANGED <<catalog, ledger>>
  <2>1. next[p] <= k
    <3>1. PICK i \in 1..k : m = A[i]
      BY <1>3, <1>5 DEF First
    <3>2. i = next[p]
      <4>1. i \in 1..Len(A)
        BY <1>1, <1>3
      <4> QED
        BY <1>1, <3>1, <4>1, LineFacts
    <3> QED
      BY <3>2
  <2>2. next'[p] <= k + 1
    BY <1>1, <1>3, <1>5, <2>1
  <2> QED
    BY <1>2, <1>3, <1>4, <1>5, <2>2 DEF CatalogInv, LedgerInv
<1>6. CASE /\ m.version \notin Versions(ledger) /\ catalog' = Append(catalog, m)
           /\ ledger' = ledger \cup {m} /\ next' = [next EXCEPT ![p] = @ + 1]
  <2>1. next[p] = k + 1
    <3>1. ~(next[p] <= k)
      <4> SUFFICES ASSUME next[p] <= k PROVE FALSE
        OBVIOUS
      <4>1. next[p] \in 1..k
        BY <1>1, <1>3
      <4>2. m \in ledger
        BY <1>3, <4>1 DEF First
      <4> QED
        BY <1>6, <4>2 DEF Versions
    <3> QED
      BY <1>1, <1>3, <3>1
  <2>2. k \in Nat /\ k + 1 \in 0..Len(A) /\ k + 1 \in 1..Len(A) /\ next'[p] = k + 2
    BY <1>1, <1>3, <1>6, <2>1
  <2>3. ledger' = First(A, k + 1)
    <3>1. 1..(k + 1) = (1..k) \cup {k + 1}
      BY <2>2
    <3>2. ledger' = {A[i] : i \in 1..k} \cup {A[k + 1]}
      BY <1>3, <1>6, <2>1 DEF First
    <3> QED
      BY <3>1, <3>2 DEF First
  <2> DEFINE N == Len(catalog)
  <2>4. N \in Nat /\ DOMAIN catalog = 1..N /\ catalog \in Seq(Change)
    BY LenProperties DEF CatalogInv
  <2>5. /\ catalog' \in Seq(Change) /\ DOMAIN catalog' = 1..(N + 1)
        /\ \A j \in 1..N : catalog'[j] = catalog[j]
        /\ catalog'[N + 1] = m
    BY <1>1, <1>6, <2>4, AppendProperties
  <2>6. \A j \in 1..N : catalog[j].version # m.version
    BY <1>2, <1>6, <2>4 DEF Rows, Versions
  <2>7. \A i, j \in 1..N : catalog[i].version = catalog[j].version => i = j
    BY <2>4 DEF CatalogInv
  <2> HIDE DEF N, m
  <2>8. Rows(catalog') = ledger'
    <3>1. Rows(catalog') = Rows(catalog) \cup {m}
      BY <2>4, <2>5 DEF Rows
    <3> QED
      BY <1>2, <1>6, <3>1
  <2>9. \A i, j \in 1..(N + 1) : catalog'[i].version = catalog'[j].version => i = j
    BY <2>4, <2>5, <2>6, <2>7
  <2>10. ledger' # {} /\ Rows(catalog) \subseteq Rows(catalog')
    BY <1>2, <1>6, <2>8
  <2>11. CatalogInv'
    BY <1>4, <2>5, <2>8, <2>9, <2>10 DEF CatalogInv
  <2>12. LedgerInv'
    BY <1>1, <2>2, <2>3 DEF LedgerInv
  <2>13. next'[p] <= k + 1 + 1
    BY <2>2
  <2> QED
    BY <1>6, <2>2, <2>3, <2>8, <2>11, <2>12, <2>13
<1>7. CASE m.version \in Versions(ledger) /\ m \notin ledger /\ UNCHANGED <<catalog, ledger, next>>
  BY <1>2, <1>3, <1>4, <1>7 DEF CatalogInv, LedgerInv
<1> QED
  BY <1>5, <1>6, <1>7 DEF Apply

\* What a step of an invocation leaves of another one.
Stays(q) == /\ pc'[q] = pc[q] /\ job'[q] = job[q] /\ session'[q] = session[q]
            /\ next'[q] = next[q] /\ failed'[q] = failed[q]

\* An invocation at rest keeps what it knows, unless the database changes under it.
LEMMA RestingStage ==
    ASSUME NEW q \in Process, StageInv(q), Stays(q), ledger \subseteq ledger',
           session[q] /\ pc[q] \in {"validating", "applying", "releasing"} =>
               UNCHANGED <<ledger, catalog>>
    PROVE  StageInv(q)'
<1> DEFINE A == Artifact[job[q].build]
<1>1. A' = A
  BY DEF Stays
<1>2. pc[q] \in {"idle", "locking", "reserving", "bootstrapping", "adopting", "validating"}
          => next'[q] = 1
  BY DEF StageInv, Stays
<1>3. CASE session[q] /\ pc[q] \in {"validating", "applying", "releasing"}
  <2>1. UNCHANGED <<ledger, catalog>>
    BY <1>3
  <2> QED
    BY <1>1, <1>3, <2>1 DEF StageInv, Stays
<1>4. CASE ~(session[q] /\ pc[q] \in {"validating", "applying", "releasing"})
  BY <1>1, <1>2, <1>4 DEF StageInv, Stays
<1> QED
  BY <1>3, <1>4

\* A step of an invocation is its own.
LEMMA OthersStay ==
    ASSUME ProcessTypeOK, NEW p \in Process, NEW q \in Process \ {p},
           \/ \E b \in Build, e \in EntityType : Start(p, b, e)
           \/ TryLock(p) \/ LockRefused(p)
           \/ Reserve(p) \/ Bootstrap(p) \/ Adopt(p) \/ Validate(p) \/ Apply(p) \/ Applied(p)
           \/ StatementFails(p)
           \/ ReleaseRow(p) \/ ReleaseRowFails(p)
           \/ Unlock(p) \/ Return(p) \/ ReturnError(p)
           \/ Admit(p) \/ EndImport(p)
           \/ LoseSession(p) \/ Crash(p)
    PROVE  Stays(q)
<1> USE DEF ProcessTypeOK, Stays, Goto, Abort
<1>1. ASSUME NEW b \in Build, NEW e \in EntityType, Start(p, b, e) PROVE Stays(q)
  BY <1>1 DEF Start
<1>2. ASSUME TryLock(p) \/ LockRefused(p) \/ Reserve(p) \/ Bootstrap(p) PROVE Stays(q)
  BY <1>2 DEF TryLock, LockRefused, Reserve, Bootstrap
<1>3. ASSUME Adopt(p) PROVE Stays(q)
  BY <1>3 DEF Adopt
<1>4. ASSUME Apply(p) PROVE Stays(q)
  BY <1>4 DEF Apply
<1>5. ASSUME Validate(p) \/ Applied(p) \/ StatementFails(p) PROVE Stays(q)
  BY <1>5 DEF Validate, Applied, StatementFails
<1>6. ASSUME ReleaseRow(p) \/ ReleaseRowFails(p) \/ Unlock(p) \/ Return(p) PROVE Stays(q)
  BY <1>6 DEF ReleaseRow, ReleaseRowFails, Unlock, Return
<1>7. ASSUME ReturnError(p) \/ EndImport(p) \/ Crash(p) PROVE Stays(q)
  BY <1>7 DEF ReturnError, EndImport, Crash, Leave
<1>8. ASSUME Admit(p) \/ LoseSession(p) PROVE Stays(q)
  BY <1>8 DEF Admit, LoseSession
<1> QED
  BY <1>1, <1>2, <1>3, <1>4, <1>5, <1>6, <1>7, <1>8

\* The database does not change under a migrator that can still execute a statement.
LEMMA NobodyElseWrites ==
    ASSUME SchemaInv, NEW q \in Process,
           session[q], pc[q] \in {"validating", "applying", "releasing"}
    PROVE  /\ ~LegacyApply
           /\ \A p \in Process \ {q} : ~Apply(p) /\ ~Adopt(p)
<1>1. Held(q) = EntityType /\ changeLock = "go"
  BY DEF SchemaInv, LocksKept, RowOwned, Holding, Migrating
<1>2. ~LegacyApply
  BY <1>1 DEF SchemaInv, RowOwned, LegacyApply
<1>3. ASSUME NEW p \in Process \ {q}, Apply(p) \/ Adopt(p)
      PROVE  FALSE
  <2>1. Held(p) = EntityType
    BY <1>3 DEF SchemaInv, LocksKept, Migrating, Apply, Adopt
  <2>2. EntityType # {}
    BY ConstantsAssumption
  <2> QED
    BY <1>1, <2>1, <2>2, AllLocksExclude
<1> QED
  BY <1>2, <1>3

\* What an invocation knows after a step of its own.
LEMMA OwnStage ==
    ASSUME SchemaInv, LedgerWorks, NEW p \in Process,
           \/ \E b \in Build, e \in EntityType : Start(p, b, e)
           \/ TryLock(p) \/ LockRefused(p)
           \/ Reserve(p) \/ Bootstrap(p) \/ Adopt(p) \/ Validate(p) \/ Apply(p) \/ Applied(p)
           \/ StatementFails(p)
           \/ ReleaseRow(p) \/ ReleaseRowFails(p)
           \/ Unlock(p) \/ Return(p) \/ ReturnError(p)
           \/ Admit(p) \/ EndImport(p)
           \/ LoseSession(p) \/ Crash(p)
    PROVE  StageInv(p)'
<1> USE DEF Goto, Abort
<1>0. ProcessTypeOK /\ StageInv(p) /\ CatalogInv /\ LedgerInv
  BY DEF SchemaInv, SchemaTypeOK, LedgerWorks
<1>1. ASSUME NEW b \in Build, NEW e \in EntityType, Start(p, b, e) PROVE StageInv(p)'
  BY <1>0, <1>1 DEF Start, ProcessTypeOK, StageInv
<1>2. ASSUME TryLock(p) PROVE StageInv(p)'
  <2>1. /\ UNCHANGED <<ledger, catalog, job, session, next, failed>>
        /\ pc'[p] = pc[p] \/ (pc[p] = "locking" /\ pc'[p] = "reserving")
                          \/ (pc[p] = "admitting" /\ pc'[p] = "importing")
    BY <1>0, <1>2 DEF TryLock, ProcessTypeOK, database
  <2> QED
    BY <1>0, <2>1 DEF StageInv
<1>3. ASSUME LockRefused(p) PROVE StageInv(p)'
  BY <1>0, <1>3 DEF LockRefused, ProcessTypeOK, StageInv
<1>4. ASSUME Reserve(p) \/ Bootstrap(p) PROVE StageInv(p)'
  BY <1>0, <1>4 DEF Reserve, Bootstrap, ProcessTypeOK, StageInv
<1>5. ASSUME Adopt(p) PROVE StageInv(p)'
  <2>1. /\ UNCHANGED <<job, session, next>> /\ pc[p] = "adopting"
        /\ pc'[p] = "validating" \/ (pc'[p] = "releasing" /\ failed'[p])
    BY <1>0, <1>5 DEF Adopt, ProcessTypeOK
  <2>2. pc'[p] = "validating" => Rows(catalog') = ledger'
    BY <1>0, <1>5, AdoptStep
  <2> QED
    BY <1>0, <2>1, <2>2 DEF StageInv
<1>6. ASSUME Validate(p) PROVE StageInv(p)'
  <2> DEFINE A == Artifact[job[p].build]
  <2>1. /\ UNCHANGED <<ledger, catalog, job, session, next>> /\ pc[p] = "validating" /\ session[p]
        /\ (pc'[p] = "applying" /\ Canonical(A)) \/ (pc'[p] = "releasing" /\ failed'[p])
    BY <1>0, <1>6 DEF Validate, ProcessTypeOK, database
  <2>2. A \in Lines /\ Len(A) \in Nat
    BY <2>1, BuildLine, LineFacts
  <2>3. Canonical(A) => \E k \in 0..Len(A) : ledger = First(A, k) /\ 1 <= k + 1
    BY <2>2, FirstFacts DEF Canonical
  <2>4. next'[p] = 1 /\ Rows(catalog) = ledger
    BY <1>0, <2>1 DEF StageInv
  <2> QED
    BY <2>1, <2>3, <2>4 DEF StageInv
<1>7. ASSUME Apply(p) PROVE StageInv(p)'
  <2>1. /\ UNCHANGED <<job, session>>
        /\ pc'[p] = "applying" \/ (pc'[p] = "releasing" /\ failed'[p])
    BY <1>0, <1>7 DEF Apply, ProcessTypeOK
  <2>2. /\ Rows(catalog') = ledger'
        /\ \E k \in 0..Len(Artifact[job[p].build]) :
               ledger' = First(Artifact[job[p].build], k) /\ next'[p] <= k + 1
    BY <1>0, <1>7, ApplyStep
  <2> QED
    BY <2>1, <2>2 DEF StageInv
<1>8. ASSUME Applied(p) PROVE StageInv(p)'
  <2> DEFINE A == Artifact[job[p].build]
  <2>1. /\ UNCHANGED <<ledger, catalog, job, session, failed>> /\ pc[p] = "applying" /\ session[p]
        /\ pc'[p] = "releasing" /\ next[p] > Len(A)
    BY <1>0, <1>8 DEF Applied, ProcessTypeOK, database
  <2>2. A \in Lines /\ Len(A) \in Nat
    BY <2>1, BuildLine, LineFacts
  <2>3. PICK k \in 0..Len(A) : ledger = First(A, k) /\ next[p] <= k + 1
    BY <1>0, <2>1 DEF StageInv
  <2>4. k = Len(A)
    BY <1>0, <2>1, <2>2, <2>3 DEF ProcessTypeOK
  <2>5. ledger = Rows(A) /\ Rows(catalog) = ledger
    BY <1>0, <2>1, <2>2, <2>3, <2>4, FirstFacts DEF StageInv
  <2> QED
    BY <2>1, <2>5 DEF StageInv
<1>9. ASSUME StatementFails(p) PROVE StageInv(p)'
  BY <1>0, <1>9 DEF StatementFails, ProcessTypeOK, StageInv, Migrating
<1>10. ASSUME ReleaseRow(p) \/ ReleaseRowFails(p) PROVE StageInv(p)'
  BY <1>0, <1>10 DEF ReleaseRow, ReleaseRowFails, ProcessTypeOK, StageInv, database
<1>11. ASSUME Unlock(p) PROVE StageInv(p)'
  BY <1>0, <1>11 DEF Unlock, StageInv, database
<1>12. ASSUME Return(p) PROVE StageInv(p)'
  BY <1>0, <1>12 DEF Return, MayImport, ProcessTypeOK, StageInv, database
<1>13. ASSUME ReturnError(p) \/ EndImport(p) \/ Crash(p) PROVE StageInv(p)'
  BY <1>0, <1>13 DEF ReturnError, EndImport, Crash, Leave, ProcessTypeOK, StageInv
<1>14. ASSUME Admit(p) PROVE StageInv(p)'
  BY <1>0, <1>14 DEF Admit, ProcessTypeOK, StageInv, database
<1>15. ASSUME LoseSession(p) PROVE StageInv(p)'
  BY <1>0, <1>15 DEF LoseSession, ProcessTypeOK, StageInv, database
<1> QED
  BY <1>1, <1>2, <1>3, <1>4, <1>5, <1>6, <1>7, <1>8, <1>9, <1>10, <1>11, <1>12, <1>13, <1>14, <1>15

\* Every step keeps what ledger, schema and invocations say of each other.
LEMMA WorksNext == SchemaInv /\ LedgerWorks /\ [Next]_vars => LedgerWorks'
<1> SUFFICES ASSUME SchemaInv, LedgerWorks, [Next]_vars
             PROVE  LedgerWorks'
  OBVIOUS
<1>1. CatalogInv /\ LedgerInv /\ (\A p \in Process : StageInv(p)) /\ ProcessTypeOK
  BY DEF LedgerWorks, SchemaInv, SchemaTypeOK
<1>2. CatalogInv' /\ LedgerInv' /\ ledger \subseteq ledger'
  <2>1. ASSUME NEW p \in Process, Apply(p)
        PROVE  CatalogInv' /\ LedgerInv' /\ ledger \subseteq ledger'
    BY <1>1, <2>1, ApplyStep
  <2>2. ASSUME NEW p \in Process, Adopt(p)
        PROVE  CatalogInv' /\ LedgerInv' /\ ledger \subseteq ledger'
    BY <1>1, <2>2, AdoptStep
  <2>3. CASE LegacyApply
    BY <1>1, <2>3, LegacyApplyStep DEF LedgerInv
  <2>4. CASE UNCHANGED database
    BY <1>1, <2>4 DEF database, CatalogInv, LedgerInv
  <2> QED
    BY <2>1, <2>2, <2>3, <2>4, DatabaseSteps
<1>3. ASSUME NEW q \in Process, Stays(q),
             \/ \E p \in Process \ {q} : Apply(p) \/ Adopt(p)
             \/ LegacyApply
             \/ UNCHANGED database
      PROVE  StageInv(q)'
  <2>1. session[q] /\ pc[q] \in {"validating", "applying", "releasing"} =>
            UNCHANGED <<ledger, catalog>>
    BY <1>3, NobodyElseWrites DEF database
  <2> QED
    BY <1>1, <1>2, <1>3, <2>1, RestingStage
<1>4. ASSUME NEW q \in Process
      PROVE  StageInv(q)'
  <2>1. ASSUME NEW p \in Process,
               \/ \E b \in Build, e \in EntityType : Start(p, b, e)
               \/ TryLock(p) \/ LockRefused(p)
               \/ Reserve(p) \/ Bootstrap(p) \/ Adopt(p) \/ Validate(p) \/ Apply(p) \/ Applied(p)
               \/ StatementFails(p)
               \/ ReleaseRow(p) \/ ReleaseRowFails(p)
               \/ Unlock(p) \/ Return(p) \/ ReturnError(p)
               \/ Admit(p) \/ EndImport(p)
               \/ LoseSession(p) \/ Crash(p)
        PROVE  StageInv(q)'
    <3>1. CASE p = q
      BY <2>1, <3>1, OwnStage
    <3>2. CASE p # q
      <4>1. q \in Process \ {p} /\ p \in Process \ {q}
        BY <3>2
      <4>2. Stays(q)
        BY <1>1, <2>1, <4>1, OthersStay
      <4>3. Apply(p) \/ Adopt(p) \/ UNCHANGED database
        <5>1. ASSUME NEW b \in Build, NEW e \in EntityType, Start(p, b, e)
              PROVE UNCHANGED database
          BY <5>1 DEF Start
        <5> QED
          BY <2>1, <5>1
          DEF TryLock, LockRefused, Reserve, Bootstrap, Validate, Applied, StatementFails,
              ReleaseRow, ReleaseRowFails, Unlock, Return, ReturnError, Admit, EndImport,
              LoseSession, Crash
      <4> QED
        BY <1>3, <4>1, <4>2, <4>3
    <3> QED
      BY <3>1, <3>2
  <2>2. CASE ClearStaleLock \/ LegacyLock \/ LegacyApply \/ LegacyUnlock \/ UNCHANGED vars
    <3>1. Stays(q)
      BY <2>2 DEF ClearStaleLock, LegacyLock, LegacyApply, LegacyUnlock, vars, Stays
    <3>2. LegacyApply \/ UNCHANGED database
      BY <2>2 DEF ClearStaleLock, LegacyLock, LegacyUnlock, vars
    <3> QED
      BY <1>3, <3>1, <3>2
  <2> QED
    BY <2>1, <2>2 DEF Next
<1> QED
  BY <1>2, <1>4 DEF LedgerWorks

\* They hold in every reachable state.
LEMMA LedgerStands == Spec => [](SchemaInv /\ LedgerWorks)
BY InitInv, NextInv, WorksInit, WorksNext, PTL DEF Spec

\* The ledger, once it has rows, is what was executed, for histories of any length: the
\* migrator's transactions and adoption's contract against Liquibase's own change sets.
THEOREM LedgerIsCatalog == Spec => []LedgerMatchesCatalog
<1>1. LedgerWorks => LedgerMatchesCatalog
  BY DEF LedgerWorks, CatalogInv, LedgerMatchesCatalog, IsInjective
<1> QED
  BY <1>1, LedgerStands, PTL

\* RunDDL succeeds only with the ledger and the schema of its own build, for any builds that
\* append to the same line of versions, and any number of them in the same database.
THEOREM SuccessIsArtifact == Spec => []SuccessMeansArtifact
<1>1. LedgerWorks => SuccessMeansArtifact
  BY DEF LedgerWorks, StageInv, SuccessMeansArtifact
<1> QED
  BY <1>1, LedgerStands, PTL

\* An invocation imports into a schema that has all its migrations: rows are never taken back.
THEOREM ImportersFind == Spec => []ImportersFindTheirMigrations
<1>1. LedgerWorks => ImportersFindTheirMigrations
  BY DEF LedgerWorks, StageInv, CatalogInv, ImportersFindTheirMigrations
<1> QED
  BY <1>1, LedgerStands, PTL
=============================================================================

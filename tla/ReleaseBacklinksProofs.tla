----------------------- MODULE ReleaseBacklinksProofs -----------------------
(***************************************************************************)
(* Proofs about master.main_release_id: for any masters, releases, dumps   *)
(* and invocations, ready backlinks are the derived ones, and none dangles *)
(* after the bootstrap.                                                    *)
(***************************************************************************)
EXTENDS ReleaseBacklinks, TLAPS, FiniteSetTheorems, WellFoundedInduction

-----------------------------------------------------------------------------
(***************************************************************************)
(* The inductive invariant.                                                *)
(***************************************************************************)
Row == [master : Master \cup {Null}, main : BOOLEAN, modified : Nat]

TypeInv ==
    /\ item \in [Release -> Row \cup {Absent}]
    /\ link \in [Master -> Release \cup {Null, Absent}]
    /\ observed \in [Release -> Nat]
    /\ clock \in 1..MaxClock
    /\ runs \in 0..MaxRuns
    /\ status \in {"bootstrap_pending", "importing", "ready", "failed"}
    /\ refreshed \in BOOLEAN
    /\ straggler \in BOOLEAN
    /\ pc \in {"idle", "masters", "releases", "finalizing", "completing"}
    /\ pc # "idle" => plan \in [dump : Dump, masters : BOOLEAN, releases : BOOLEAN]
    /\ todo \subseteq Master \cup Release

\* A release refers to a master that has a row and is not stamped later than it was seen.
RowInv ==
    \A r \in Release :
        /\ observed[r] <= clock
        /\ item[r] # Absent =>
             /\ item[r].master \in MasterRows \cup {Null}
             /\ 1 <= item[r].modified /\ item[r].modified <= observed[r]

\* What the invocation has left to write, and that nobody else changes the state of the
\* releases while it imports them.
PlanInv ==
    /\ pc = "masters" =>
         /\ plan.masters
         /\ todo \subseteq ListedMasters(plan.dump)
         /\ ListedMasters(plan.dump) \ todo \subseteq MasterRows
    /\ pc \in {"releases", "finalizing", "completing"} =>
         /\ plan.releases
         /\ plan.masters => ListedMasters(plan.dump) \subseteq MasterRows
    /\ pc = "releases" => todo \subseteq ListedReleases(plan.dump)
    /\ pc # "idle" /\ plan.releases => status = "importing"

\* Every master names the main release that the table designates, or none.
Derived ==
    \A m \in MasterRows : link[m] = IF MainReleases(m) = {} THEN Null ELSE Desired(m)

DerivedInv == status = "ready" \/ pc = "completing" => Derived

DangleInv ==
    refreshed => \A m \in MasterRows : link[m] # Null => item[link[m]] # Absent

IInv == TypeInv /\ RowInv /\ PlanInv /\ DerivedInv /\ DangleInv

-----------------------------------------------------------------------------
(***************************************************************************)
(* The main release that a table designates exists.                        *)
(***************************************************************************)
\* A nonempty set of naturals has a least element.
LEMMA LeastNatural ==
    ASSUME NEW S \in SUBSET Nat, S # {}
    PROVE  \E n \in S : \A m \in S : n <= m
<1>1. \E n \in S : \A m \in S : ~(<<m, n>> \in OpToRel(<, Nat))
    BY WFMin, NatLessThanWellFounded
<1>2. PICK n \in S : \A m \in S : ~(<<m, n>> \in OpToRel(<, Nat))
    BY <1>1
<1>3. \A m \in S : ~(m < n)
    BY <1>2, Zenon DEF OpToRel
<1>4. \A m \in S : n <= m
    BY <1>3
<1> QED
    BY <1>4

LEMMA AbsentIsNothing ==
    /\ Absent # Null
    /\ Absent \notin Release
    /\ Null \notin Release
    /\ Absent \notin Row
<1>1. Release \subseteq Nat \ {0} /\ Master \subseteq Nat \ {0} /\ Absent \notin Nat
      /\ Absent \notin [master : Nat, main : BOOLEAN, modified : Nat]
    BY ConstantsAssumption
<1>2. Null \in Nat /\ Null = 0
    BY DEF Null
<1>3. Master \cup {Null} \subseteq Nat
    BY <1>1, <1>2
<1>4. Row \subseteq [master : Nat, main : BOOLEAN, modified : Nat]
    BY <1>3 DEF Row
<1> QED
    BY <1>1, <1>2, <1>4

\* Of finitely many rows one is last.
LEMMA LastExists ==
    ASSUME NEW T \in SUBSET Release, T # {},
           \A r \in T : item[r].modified \in Nat
    PROVE  \E r \in T : \A s \in T : NotBefore(r, s)
<1> DEFINE HasLast(R) == \E r \in R : \A s \in R : NotBefore(r, s)
           Bad == {n \in Nat : \E R \in SUBSET T : R # {} /\ Cardinality(R) = n /\ ~HasLast(R)}
<1>1. \A R \in SUBSET T : IsFiniteSet(R)
    BY FS_Subset, ConstantsAssumption
<1>2. Bad = {}
    <2> SUFFICES ASSUME Bad # {} PROVE FALSE
        OBVIOUS
    <2>1. PICK n \in Bad : \A m \in Bad : n <= m
        BY LeastNatural
    <2>2. PICK R \in SUBSET T : R # {} /\ Cardinality(R) = n /\ ~HasLast(R)
        BY <2>1
    <2>3. PICK x \in R : TRUE
        BY <2>2
    <2>4. IsFiniteSet(R \ {x}) /\ Cardinality(R \ {x}) = n - 1 /\ n - 1 \in Nat
        BY <1>1, <2>2, FS_RemoveElement, FS_CardinalityType
    <2>5. n - 1 \notin Bad
        BY <2>1, <2>4, SMT
    <2>6. R \ {x} = {} \/ HasLast(R \ {x})
        BY <2>4, <2>5 DEF Bad
    <2>7. \A r, s \in T : item[r].modified \in Nat /\ item[s].modified \in Nat /\ r \in Nat
        BY ConstantsAssumption
    <2>8. \A r, s \in T : NotBefore(r, s) \/ NotBefore(s, r)
        <3> SUFFICES ASSUME NEW r \in T, NEW s \in T PROVE NotBefore(r, s) \/ NotBefore(s, r)
            OBVIOUS
        <3>1. item[r].modified \in Nat /\ item[s].modified \in Nat /\ r \in Nat /\ s \in Nat
            BY <2>7
        <3> QED
            BY <3>1, SMT DEF NotBefore
    <2>9. \A r, s, t \in T : NotBefore(r, s) /\ NotBefore(s, t) => NotBefore(r, t)
        <3> SUFFICES ASSUME NEW r \in T, NEW s \in T, NEW t \in T,
                            NotBefore(r, s), NotBefore(s, t)
                     PROVE  NotBefore(r, t)
            OBVIOUS
        <3>1. /\ item[r].modified \in Nat /\ r \in Nat
              /\ item[s].modified \in Nat /\ s \in Nat
              /\ item[t].modified \in Nat /\ t \in Nat
            BY <2>7
        <3> QED
            BY <3>1, SMT DEF NotBefore
    <2>10. CASE R \ {x} = {}
        <3>1. R = {x} /\ NotBefore(x, x)
            BY <2>3, <2>8, <2>10
        <3> QED
            BY <2>2, <3>1 DEF HasLast
    <2>11. CASE HasLast(R \ {x})
        <3>1. PICK y \in R \ {x} : \A s \in R \ {x} : NotBefore(y, s)
            BY <2>11 DEF HasLast
        <3>2. CASE NotBefore(y, x)
            BY <2>2, <3>1, <3>2 DEF HasLast
        <3>3. CASE NotBefore(x, y)
            <4>1. \A s \in R : NotBefore(x, s)
                BY <2>8, <2>9, <3>1, <3>3
            <4> QED
                BY <2>2, <4>1 DEF HasLast
        <3> QED
            BY <2>8, <3>1, <3>2, <3>3
    <2> QED
        BY <2>6, <2>10, <2>11
<1>3. Cardinality(T) \in Nat
    BY <1>1, FS_CardinalityType
<1> HIDE DEF HasLast
<1>4. HasLast(T)
    BY <1>2, <1>3 DEF Bad
<1> QED
    BY <1>4 DEF HasLast

LEMMA DesiredIsMain ==
    ASSUME TypeInv, NEW m \in Master, MainReleases(m) # {}
    PROVE  Desired(m) \in MainReleases(m)
<1>1. MainReleases(m) \in SUBSET Release
    BY DEF MainReleases
<1>2. \A r \in MainReleases(m) : item[r].modified \in Nat
    BY DEF MainReleases, TypeInv, Row
<1>3. \E r \in MainReleases(m) : \A s \in MainReleases(m) : NotBefore(r, s)
    BY <1>1, <1>2, LastExists
<1> QED
    BY <1>3 DEF Desired

-----------------------------------------------------------------------------
(***************************************************************************)
(* The finalizer's statements.                                             *)
(***************************************************************************)
LEMMA ReconciledTyped ==
    ASSUME TypeInv
    PROVE  /\ Reconciled \in [Master -> Release \cup {Null, Absent}]
           /\ \A m \in Master : Reconciled[m] # Absent <=> link[m] # Absent
           /\ \A m \in Master : Reconciled[m] \notin {Absent, Null} =>
                  Reconciled[m] \in MainReleases(m)
           /\ \A m \in MasterRows :
                  Reconciled[m] = IF MainReleases(m) = {} THEN Null ELSE Desired(m)
<1>1. Absent # Null /\ Absent \notin Release /\ Null \notin Release
    BY AbsentIsNothing
<1>2. \A m \in Master : MainReleases(m) \subseteq Release
    BY DEF MainReleases
<1>3. \A m \in Master :
          Clear[m] = IF link[m] \notin {Absent, Null} /\ link[m] \notin MainReleases(m)
                     THEN Null ELSE link[m]
    BY DEF Clear
<1>4. \A m \in Master :
          Reconciled[m] = IF Clear[m] # Absent /\ MainReleases(m) # {}
                          THEN Desired(m) ELSE Clear[m]
    BY DEF Reconciled
<1>5. \A m \in Master : MainReleases(m) # {} => Desired(m) \in MainReleases(m)
    BY DesiredIsMain
<1>6. ASSUME NEW m \in Master
      PROVE  /\ Reconciled[m] \in Release \cup {Null, Absent}
             /\ Reconciled[m] # Absent <=> link[m] # Absent
             /\ Reconciled[m] \notin {Absent, Null} => Reconciled[m] \in MainReleases(m)
             /\ link[m] # Absent =>
                  Reconciled[m] = IF MainReleases(m) = {} THEN Null ELSE Desired(m)
    <2>1. link[m] \in Release \cup {Null, Absent}
        BY DEF TypeInv
    <2>2. CASE link[m] = Absent
        BY <1>1, <1>3, <1>4, <2>2
    <2>3. CASE link[m] # Absent /\ MainReleases(m) # {}
        BY <1>1, <1>2, <1>3, <1>4, <1>5, <2>3
    <2>4. CASE link[m] # Absent /\ MainReleases(m) = {}
        BY <1>1, <1>3, <1>4, <2>4
    <2> QED
        BY <2>2, <2>3, <2>4
<1>7. Reconciled = [m \in Master |-> Reconciled[m]]
    BY DEF Reconciled
<1> QED
    BY <1>6, <1>7 DEF MasterRows

\* After the finalizer the links are derived and none dangles, whatever they were.
LEMMA ReconcileKeeps ==
    ASSUME TypeInv, RowInv, link' = Reconciled,
           UNCHANGED <<item, observed, clock>>
    PROVE  /\ link' \in [Master -> Release \cup {Null, Absent}]
           /\ MasterRows' = MasterRows
           /\ RowInv'
           /\ Derived'
           /\ DangleInv'
<1>1. MasterRows' = MasterRows
    BY ReconciledTyped DEF MasterRows
<1>2. \A m : MainReleases(m)' = MainReleases(m) /\ Desired(m)' = Desired(m)
    BY DEF MainReleases, Desired, NotBefore
<1>3. Derived'
    BY <1>1, <1>2, ReconciledTyped DEF Derived
<1>4. DangleInv'
    <2> SUFFICES ASSUME NEW m \in MasterRows, Reconciled[m] # Null
                 PROVE  item[Reconciled[m]] # Absent
        BY <1>1 DEF DangleInv
    <2>1. m \in Master /\ Reconciled[m] # Absent
        BY ReconciledTyped DEF MasterRows
    <2>2. Reconciled[m] \in MainReleases(m)
        BY <2>1, ReconciledTyped
    <2> QED
        BY <2>2 DEF MainReleases
<1> QED
    BY <1>1, <1>3, <1>4, ReconciledTyped DEF RowInv

-----------------------------------------------------------------------------
(***************************************************************************)
(* The steps.                                                              *)
(***************************************************************************)
LEMMA InitHolds == Init => IInv
<1> SUFFICES ASSUME Init PROVE IInv
    OBVIOUS
<1>1. TypeInv
    <2>1. runs = 0 /\ clock = 1 /\ MaxRuns \in Nat /\ MaxClock \in Nat \ {0}
        BY ConstantsAssumption DEF Init
    <2>2. runs \in 0..MaxRuns /\ clock \in 1..MaxClock
        BY <2>1, SMT
    <2>3. /\ item \in [Release -> Row \cup {Absent}]
          /\ link \in [Master -> Release \cup {Null, Absent}]
          /\ observed \in [Release -> Nat]
        BY DEF Init
    <2> QED
        BY <2>2, <2>3 DEF Init, TypeInv
<1>2. MasterRows = {}
    BY DEF Init, MasterRows
<1>3. RowInv
    BY ConstantsAssumption DEF Init, RowInv
<1> QED
    BY <1>1, <1>2, <1>3 DEF Init, IInv, PlanInv, DerivedInv, DangleInv

\* Rows and links stay: a step of the control state.
LEMMA TablesFrame ==
    ASSUME RowInv, DangleInv, UNCHANGED <<item, link, observed>>, clock <= clock',
           clock \in Nat, clock' \in Nat, observed \in [Release -> Nat],
           refreshed' => refreshed
    PROVE  /\ MasterRows' = MasterRows
           /\ RowInv'
           /\ DangleInv'
           /\ Derived => Derived'
<1>1. MasterRows' = MasterRows
    BY DEF MasterRows
<1>2. \A m : MainReleases(m)' = MainReleases(m) /\ Desired(m)' = Desired(m)
    BY DEF MainReleases, Desired, NotBefore
<1>3. RowInv'
    <2>1. \A r \in Release : observed[r] <= clock'
        BY SMT DEF RowInv
    <2> QED
        BY <1>1, <2>1 DEF RowInv
<1> QED
    BY <1>1, <1>2, <1>3 DEF DangleInv, Derived

LEMMA StartKeeps ==
    ASSUME IInv, NEW d \in Dump, NEW masters \in BOOLEAN, NEW releases \in BOOLEAN,
           Start(d, masters, releases)
    PROVE  IInv'
<1>1. /\ UNCHANGED <<item, link, observed, clock, refreshed, straggler>>
      /\ plan' = [dump |-> d, masters |-> masters, releases |-> releases]
      /\ runs' = runs + 1 /\ runs < MaxRuns
      /\ status' = IF releases THEN "importing" ELSE status
      /\ pc' = IF masters THEN "masters" ELSE "releases"
      /\ todo' = IF masters THEN ListedMasters(d) ELSE ListedReleases(d)
      /\ masters \/ releases
    BY DEF Start
<1>2. clock \in Nat /\ observed \in [Release -> Nat]
    BY ConstantsAssumption DEF IInv, TypeInv
<1>3. MasterRows' = MasterRows /\ RowInv' /\ DangleInv' /\ (Derived => Derived')
    BY <1>1, <1>2, TablesFrame DEF IInv
<1>4. TypeInv'
    <2>1. runs' \in 0..MaxRuns
        BY <1>1, ConstantsAssumption, SMT DEF IInv, TypeInv
    <2>2. todo' \subseteq Master \cup Release
        BY <1>1 DEF ListedMasters, ListedReleases
    <2>3. plan' \in [dump : Dump, masters : BOOLEAN, releases : BOOLEAN]
        BY <1>1
    <2>4. status' \in {"bootstrap_pending", "importing", "ready", "failed"}
          /\ pc' \in {"masters", "releases"}
        BY <1>1 DEF IInv, TypeInv
    <2> QED
        BY <1>1, <2>1, <2>2, <2>3, <2>4 DEF IInv, TypeInv
<1>5. PlanInv'
    <2>1. plan'.dump = d /\ plan'.masters = masters /\ plan'.releases = releases
        BY <1>1
    <2>2. CASE masters
        <3>1. pc' = "masters" /\ todo' = ListedMasters(d)
            BY <1>1, <2>2
        <3>2. ListedMasters(plan.dump)' = ListedMasters(d)
            BY <2>1 DEF ListedMasters
        <3> QED
            BY <1>1, <2>1, <2>2, <3>1, <3>2 DEF PlanInv
    <2>3. CASE ~masters
        <3>1. pc' = "releases" /\ todo' = ListedReleases(d) /\ releases
            BY <1>1, <2>3
        <3>2. ListedReleases(plan.dump)' = ListedReleases(d)
            BY <2>1 DEF ListedReleases
        <3> QED
            BY <1>1, <2>1, <2>3, <3>1, <3>2 DEF PlanInv
    <2> QED
        BY <2>2, <2>3
<1>6. DerivedInv'
    BY <1>1, <1>3 DEF IInv, DerivedInv
<1> QED
    BY <1>3, <1>4, <1>5, <1>6 DEF IInv

LEMMA WriteMasterKeeps ==
    ASSUME IInv, NEW m \in Master, WriteMaster(m)
    PROVE  IInv'
<1> DEFINE new == IF Seed THEN ListedMaster[plan.dump][m] ELSE Null
<1>1. /\ pc = "masters" /\ m \in todo /\ todo' = todo \ {m}
      /\ link' = IF link[m] # Absent THEN link ELSE [link EXCEPT ![m] = new]
      /\ UNCHANGED <<item, observed, clock, runs, status, refreshed, pc, plan, straggler>>
    BY DEF WriteMaster
<1>2. plan.dump \in Dump /\ m \in ListedMasters(plan.dump)
    BY <1>1 DEF IInv, TypeInv, PlanInv
<1>3. new \in Release \cup {Null}
    BY <1>2, ConstantsAssumption DEF ListedMasters
<1>4. new # Absent
    BY <1>3, AbsentIsNothing
<1>5. link \in [Master -> Release \cup {Null, Absent}]
    BY DEF IInv, TypeInv
<1>6. link' \in [Master -> Release \cup {Null, Absent}]
    BY <1>1, <1>3, <1>5
<1>7. /\ \A n \in Master \ {m} : link'[n] = link[n]
      /\ link'[m] # Absent
      /\ link[m] # Absent => link' = link
    BY <1>1, <1>4, <1>5
<1>8. MasterRows' = MasterRows \cup {m}
    BY <1>7 DEF MasterRows
<1>9. TypeInv'
    BY <1>1, <1>6 DEF IInv, TypeInv
<1>10. RowInv'
    BY <1>1, <1>8 DEF IInv, RowInv
<1>11. PlanInv'
    <2>1. ListedMasters(plan.dump)' = ListedMasters(plan.dump)
        BY <1>1 DEF ListedMasters
    <2> QED
        BY <1>1, <1>8, <2>1 DEF IInv, PlanInv
<1>12. DerivedInv'
    <2> SUFFICES ASSUME status = "ready" PROVE Derived'
        BY <1>1 DEF DerivedInv
    <2>1. Derived /\ ~Seed
        BY DEF IInv, DerivedInv, Seed
    <2>2. \A n : MainReleases(n)' = MainReleases(n) /\ Desired(n)' = Desired(n)
        BY <1>1 DEF MainReleases, Desired, NotBefore
    <2>3. CASE link[m] # Absent
        <3>1. link' = link /\ MasterRows' = MasterRows
            BY <1>7, <2>3 DEF MasterRows
        <3> QED
            BY <2>1, <2>2, <3>1 DEF Derived
    <2>4. CASE link[m] = Absent
        <3>1. link'[m] = Null
            BY <1>1, <1>5, <2>1, <2>4
        <3>2. MainReleases(m) = {}
            <4>1. m \notin MasterRows /\ m # Null
                BY <2>4, ConstantsAssumption DEF MasterRows, Null
            <4> QED
                BY <4>1 DEF IInv, RowInv, MainReleases
        <3>3. \A n \in MasterRows : n # m /\ n \in Master
            BY <2>4 DEF MasterRows
        <3> QED
            BY <1>7, <1>8, <2>1, <2>2, <3>1, <3>2, <3>3 DEF Derived
    <2> QED
        BY <2>3, <2>4
<1>13. DangleInv'
    <2> SUFFICES ASSUME refreshed, NEW n \in MasterRows', link'[n] # Null
                 PROVE  item[link'[n]] # Absent
        BY <1>1 DEF DangleInv
    <2>1. CASE link[m] # Absent
        <3>1. link' = link /\ MasterRows' = MasterRows
            BY <1>7, <2>1 DEF MasterRows
        <3> QED
            BY <3>1 DEF IInv, DangleInv
    <2>2. CASE link[m] = Absent
        <3>1. link'[m] = Null
            BY <1>1, <1>5, <2>2 DEF Seed
        <3>2. n # m /\ n \in MasterRows
            BY <1>8, <3>1
        <3>3. link'[n] = link[n]
            BY <1>7, <3>2 DEF MasterRows
        <3> QED
            BY <3>2, <3>3 DEF IInv, DangleInv
    <2> QED
        BY <2>1, <2>2
<1> QED
    BY <1>9, <1>10, <1>11, <1>12, <1>13 DEF IInv

\* The steps that change neither rows nor links.
LEMMA ControlKeeps ==
    ASSUME IInv, EndMasters \/ EndReleases \/ Fail \/ Tick
    PROVE  IInv'
<1>1. /\ UNCHANGED <<item, link, observed, runs, refreshed>>
      /\ clock' = clock \/ (Tick /\ clock' = clock + 1)
    BY DEF EndMasters, EndReleases, Fail, Tick
<1>2. clock \in Nat /\ clock' \in Nat /\ clock <= clock' /\ clock' \in 1..MaxClock
      /\ observed \in [Release -> Nat]
    BY <1>1, ConstantsAssumption, SMT DEF IInv, TypeInv, Tick
<1>3. MasterRows' = MasterRows /\ RowInv' /\ DangleInv' /\ (Derived => Derived')
    BY <1>1, <1>2, TablesFrame DEF IInv
<1>4. CASE EndMasters
    <2>1. pc = "masters" /\ todo = {} /\ UNCHANGED <<status, straggler, clock>>
        BY <1>4 DEF EndMasters
    <2>2. CASE plan.releases
        <3>1. pc' = "releases" /\ todo' = ListedReleases(plan.dump) /\ plan' = plan
            BY <1>4, <2>2 DEF EndMasters
        <3>2. TypeInv'
            BY <1>1, <1>2, <2>1, <3>1 DEF IInv, TypeInv, ListedReleases
        <3>3. PlanInv'
            <4>1. ListedReleases(plan.dump)' = ListedReleases(plan.dump)
                  /\ ListedMasters(plan.dump)' = ListedMasters(plan.dump)
                BY <3>1 DEF ListedReleases, ListedMasters
            <4> QED
                BY <1>3, <2>1, <2>2, <3>1, <4>1 DEF IInv, PlanInv
        <3>4. DerivedInv'
            BY <1>3, <2>1, <3>1 DEF IInv, DerivedInv
        <3> QED
            BY <1>3, <3>2, <3>3, <3>4 DEF IInv
    <2>3. CASE ~plan.releases
        <3>1. pc' = "idle" /\ todo' = {}
            BY <1>4, <2>3 DEF EndMasters
        <3>2. TypeInv'
            BY <1>1, <1>2, <2>1, <3>1 DEF IInv, TypeInv
        <3> QED
            BY <1>3, <2>1, <3>1, <3>2 DEF IInv, PlanInv, DerivedInv
    <2> QED
        BY <2>2, <2>3
<1>5. CASE EndReleases
    <2>1. pc = "releases" /\ pc' = "finalizing"
          /\ UNCHANGED <<status, straggler, clock, plan, todo>>
        BY <1>5 DEF EndReleases
    <2>2. TypeInv'
        BY <1>1, <1>2, <2>1 DEF IInv, TypeInv
    <2>3. PlanInv'
        <3>1. ListedMasters(plan.dump)' = ListedMasters(plan.dump)
            BY <2>1 DEF ListedMasters
        <3> QED
            BY <1>3, <2>1, <3>1 DEF IInv, PlanInv
    <2> QED
        BY <1>3, <2>1, <2>2, <2>3 DEF IInv, DerivedInv
<1>6. CASE Fail
    <2>1. pc' = "idle" /\ todo' = {} /\ clock' = clock
          /\ status' = (IF plan.releases THEN "failed" ELSE status)
        BY <1>6 DEF Fail
    <2>2. straggler' \in BOOLEAN
        BY <1>6 DEF Fail, IInv, TypeInv
    <2>3. TypeInv'
        BY <1>1, <2>1, <2>2 DEF IInv, TypeInv
    <2> QED
        BY <1>3, <2>1, <2>3 DEF IInv, PlanInv, DerivedInv
<1>7. CASE Tick
    <2>1. UNCHANGED <<status, straggler, plan, todo, pc>>
        BY <1>7 DEF Tick
    <2>2. TypeInv'
        BY <1>1, <1>2, <2>1 DEF IInv, TypeInv
    <2>3. PlanInv'
        <3>1. ListedMasters(plan.dump)' = ListedMasters(plan.dump)
              /\ ListedReleases(plan.dump)' = ListedReleases(plan.dump)
            BY <2>1 DEF ListedMasters, ListedReleases
        <3> QED
            BY <1>3, <2>1, <3>1 DEF IInv, PlanInv
    <2> QED
        BY <1>3, <2>1, <2>2, <2>3 DEF IInv, DerivedInv
<1> QED
    BY <1>4, <1>5, <1>6, <1>7

LEMMA WriteReleaseKeeps ==
    ASSUME IInv, NEW r \in Release, WriteRelease(r)
    PROVE  IInv'
<1>1. /\ pc = "releases" /\ r \in todo /\ todo' = todo \ {r}
      /\ item' = [item EXCEPT ![r] = Upsert(r)]
      /\ observed' = [observed EXCEPT ![r] = clock]
      /\ UNCHANGED <<link, clock, runs, status, refreshed, pc, plan, straggler>>
    BY DEF WriteRelease
<1>2. /\ plan.dump \in Dump /\ r \in ListedReleases(plan.dump)
      /\ plan.masters => ListedMasters(plan.dump) \subseteq MasterRows
      /\ status = "importing"
    BY <1>1 DEF IInv, TypeInv, PlanInv
<1>3. clock \in Nat /\ clock >= 1 /\ MasterRows \subseteq Master /\ MasterRows' = MasterRows
    BY <1>1, ConstantsAssumption, SMT DEF IInv, TypeInv, MasterRows
<1>4. item \in [Release -> Row \cup {Absent}] /\ observed \in [Release -> Nat]
    BY DEF IInv, TypeInv
<1>5. Incoming(r).master \in MasterRows \cup {Null} /\ Incoming(r).main \in BOOLEAN
    <2>1. ListedRelease[plan.dump][r] \in [master : Master \cup {Null}, main : BOOLEAN]
        BY <1>2, ConstantsAssumption DEF ListedReleases
    <2>2. Incoming(r).main = ListedRelease[plan.dump][r].main
        BY DEF Incoming
    <2>3. Incoming(r).master = Null \/ Incoming(r).master \in MasterRows
        BY <1>2 DEF Incoming
    <2> QED
        BY <2>1, <2>2, <2>3
<1>6. /\ Upsert(r) \in Row
      /\ Upsert(r).master \in MasterRows \cup {Null}
      /\ 1 <= Upsert(r).modified /\ Upsert(r).modified <= clock
    <2>1. CASE item[r] # Absent /\ Business(item[r]) = Incoming(r)
        <3>1. Upsert(r) = item[r] /\ item[r] \in Row
            BY <1>4, <2>1 DEF Upsert
        <3>2. item[r].master \in MasterRows \cup {Null}
              /\ 1 <= item[r].modified /\ item[r].modified <= observed[r] /\ observed[r] <= clock
            BY <2>1 DEF IInv, RowInv
        <3>3. item[r].modified \in Nat /\ observed[r] \in Nat
            BY <1>4, <3>1 DEF Row
        <3> QED
            BY <1>3, <3>1, <3>2, <3>3, SMT
    <2>2. CASE ~(item[r] # Absent /\ Business(item[r]) = Incoming(r))
        <3>1. Upsert(r) = [master |-> Incoming(r).master, main |-> Incoming(r).main,
                           modified |-> clock]
            BY <2>2 DEF Upsert
        <3> QED
            BY <1>3, <1>5, <3>1 DEF Row
    <2> QED
        BY <2>1, <2>2
<1>7. Absent \notin Row
    BY AbsentIsNothing
<1>8. /\ item'[r] = Upsert(r) /\ observed'[r] = clock
      /\ \A s \in Release \ {r} : item'[s] = item[s] /\ observed'[s] = observed[s]
    BY <1>1, <1>4
<1>9. TypeInv'
    <2>1. item' \in [Release -> Row \cup {Absent}] /\ observed' \in [Release -> Nat]
        BY <1>1, <1>3, <1>4, <1>6
    <2> QED
        BY <1>1, <2>1 DEF IInv, TypeInv
<1>10. RowInv'
    BY <1>1, <1>3, <1>6, <1>8 DEF IInv, RowInv
<1>11. PlanInv'
    <2>1. ListedMasters(plan.dump)' = ListedMasters(plan.dump)
          /\ ListedReleases(plan.dump)' = ListedReleases(plan.dump)
        BY <1>1 DEF ListedMasters, ListedReleases
    <2> QED
        BY <1>1, <1>3, <2>1 DEF IInv, PlanInv
<1>12. DerivedInv'
    BY <1>1, <1>2 DEF DerivedInv
<1>13. DangleInv'
    <2>1. \A s \in Release : item[s] # Absent => item'[s] # Absent
        BY <1>6, <1>7, <1>8
    <2>2. \A m \in MasterRows : link[m] # Null => link[m] \in Release
        BY DEF IInv, TypeInv, MasterRows
    <2> QED
        BY <1>1, <1>3, <2>1, <2>2 DEF IInv, DangleInv
<1> QED
    BY <1>9, <1>10, <1>11, <1>12, <1>13 DEF IInv

LEMMA FinalizerKeeps ==
    ASSUME IInv, Finalize \/ LateFinalize
    PROVE  IInv'
<1>1. /\ link' = Reconciled
      /\ UNCHANGED <<item, observed, clock, runs, status, refreshed, plan, todo>>
      /\ straggler' \in BOOLEAN
      /\ \/ pc = "finalizing" /\ pc' = "completing"
         \/ pc' = pc
    BY DEF Finalize, LateFinalize, IInv, TypeInv
<1>2. /\ link' \in [Master -> Release \cup {Null, Absent}]
      /\ MasterRows' = MasterRows
      /\ RowInv' /\ Derived' /\ DangleInv'
    BY <1>1, ReconcileKeeps DEF IInv
<1>3. TypeInv'
    BY <1>1, <1>2 DEF IInv, TypeInv
<1>4. PlanInv'
    <2>1. ListedMasters(plan.dump)' = ListedMasters(plan.dump)
          /\ ListedReleases(plan.dump)' = ListedReleases(plan.dump)
        BY <1>1 DEF ListedMasters, ListedReleases
    <2> QED
        BY <1>1, <1>2, <2>1 DEF IInv, PlanInv
<1> QED
    BY <1>2, <1>3, <1>4 DEF IInv, DerivedInv

LEMMA CompleteKeeps ==
    ASSUME IInv, Complete
    PROVE  IInv'
<1>1. /\ pc = "completing" /\ pc' = "idle" /\ status' = "ready" /\ refreshed' = TRUE
      /\ UNCHANGED <<item, link, observed, clock, runs, todo, straggler>>
    BY DEF Complete
<1>2. Derived /\ MasterRows' = MasterRows
    BY <1>1 DEF IInv, DerivedInv, MasterRows
<1>3. \A m : MainReleases(m)' = MainReleases(m) /\ Desired(m)' = Desired(m)
    BY <1>1 DEF MainReleases, Desired, NotBefore
<1>4. Derived'
    BY <1>1, <1>2, <1>3 DEF Derived
<1>5. DangleInv'
    <2> SUFFICES ASSUME NEW m \in MasterRows, link[m] # Null PROVE item[link[m]] # Absent
        BY <1>1, <1>2 DEF DangleInv
    <2>1. m \in Master
        BY DEF MasterRows
    <2>2. MainReleases(m) # {} /\ link[m] = Desired(m)
        BY <1>2 DEF Derived
    <2>3. link[m] \in MainReleases(m)
        BY <2>1, <2>2, DesiredIsMain DEF IInv
    <2> QED
        BY <2>3 DEF MainReleases
<1>6. TypeInv'
    BY <1>1 DEF IInv, TypeInv
<1>7. RowInv'
    BY <1>1, <1>2 DEF IInv, RowInv
<1>8. PlanInv'
    BY <1>1 DEF PlanInv
<1> QED
    BY <1>4, <1>5, <1>6, <1>7, <1>8 DEF IInv, DerivedInv

LEMMA StutterKeeps ==
    ASSUME IInv, UNCHANGED vars
    PROVE  IInv'
<1>1. UNCHANGED <<item, link, observed, clock, runs, status, refreshed, pc, plan, todo, straggler>>
    BY DEF vars
<1>2. MasterRows' = MasterRows
    BY <1>1 DEF MasterRows
<1>3. \A m : MainReleases(m)' = MainReleases(m) /\ Desired(m)' = Desired(m)
    BY <1>1 DEF MainReleases, Desired, NotBefore
<1>4. ListedMasters(plan.dump)' = ListedMasters(plan.dump)
      /\ ListedReleases(plan.dump)' = ListedReleases(plan.dump)
    BY <1>1 DEF ListedMasters, ListedReleases
<1>5. TypeInv' /\ RowInv'
    BY <1>1, <1>2 DEF IInv, TypeInv, RowInv
<1>6. PlanInv'
    BY <1>1, <1>2, <1>4 DEF IInv, PlanInv
<1>7. DerivedInv' /\ DangleInv'
    BY <1>1, <1>2, <1>3 DEF IInv, DerivedInv, Derived, DangleInv
<1> QED
    BY <1>5, <1>6, <1>7 DEF IInv

-----------------------------------------------------------------------------
(***************************************************************************)
(* The theorems.                                                           *)
(***************************************************************************)
LEMMA IInvHolds == Spec => []IInv
<1>1. IInv /\ [Next]_vars => IInv'
    <2> SUFFICES ASSUME IInv, [Next]_vars PROVE IInv'
        OBVIOUS
    <2> QED
        BY StartKeeps, WriteMasterKeeps, ControlKeeps, WriteReleaseKeeps, FinalizerKeeps,
           CompleteKeeps, StutterKeeps DEF Next
<1> QED
    BY <1>1, InitHolds, PTL DEF Spec

\* Rows hold values of their columns, and a release refers only to masters that have a row.
THEOREM BacklinkTypeCorrect == Spec => []BacklinkTypeOK
<1>1. IInv => BacklinkTypeOK
    <2> SUFFICES ASSUME IInv PROVE BacklinkTypeOK
        OBVIOUS
    <2>1. ASSUME NEW r \in Release, item[r] # Absent
          PROVE  /\ item[r].master \in MasterRows \cup {Null}
                 /\ item[r].main \in BOOLEAN
                 /\ item[r].modified \in 1..observed[r]
        <3>1. item[r] \in Row /\ observed[r] \in Nat
            BY <2>1 DEF IInv, TypeInv
        <3> QED
            BY <2>1, <3>1 DEF IInv, RowInv, Row
    <2>2. observed \in [Release -> 0..clock]
        BY ConstantsAssumption DEF IInv, TypeInv, RowInv
    <2>3. {refreshed, straggler} \subseteq BOOLEAN
        BY DEF IInv, TypeInv
    <2> QED
        BY <2>1, <2>2, <2>3 DEF IInv, TypeInv, BacklinkTypeOK
<1> QED
    BY <1>1, IInvHolds, PTL

\* While the releases are ready the links are those reconcileMasterMainReleases derives,
\* through later imports of masters, failed imports and finalizers of abandoned ones.
THEOREM BacklinksDerived == Spec => []ReadyBacklinksDerived
<1>1. IInv => ReadyBacklinksDerived
    BY DEF IInv, DerivedInv, Derived, ReadyBacklinksDerived
<1> QED
    BY <1>1, IInvHolds, PTL

\* After a release import has succeeded no master names a release without a row.
THEOREM BacklinksNeverDangle == Spec => []BacklinksNeverDangleAfterBootstrap
<1>1. IInv => BacklinksNeverDangleAfterBootstrap
    BY DEF IInv, DangleInv, BacklinksNeverDangleAfterBootstrap
<1> QED
    BY <1>1, IInvHolds, PTL
=============================================================================

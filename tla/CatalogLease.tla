---------------------------- MODULE CatalogLease ----------------------------
(***************************************************************************)
(* What the import coordinator promises about the catalog.  A run leases   *)
(* the entity types it imports all at once and for one edition of each.    *)
(* Its leases end together, when the run ends or when a later run takes    *)
(* over one of them, and an ended run leases nothing again.  Only the      *)
(* holder of a lease writes rows of the entity type, in its edition.       *)
(***************************************************************************)
EXTENDS Integers

CONSTANTS
    EntityType,  \* artist, label, master, release
    Item,        \* catalog rows of an entity type
    Edition,     \* what a run imports: a dump as some contract reads it
    None         \* a row that was never written

VARIABLES
    lease,     \* entity type -> run and edition that may write it
    sequence,  \* last run number handed out
    rows       \* entity type -> the edition that last wrote each row

vars == <<lease, sequence, rows>>

NoLease == [run |-> 0, edition |-> None]

Init ==
    /\ lease = [e \in EntityType |-> NoLease]
    /\ sequence = 0
    /\ rows = [e \in EntityType |-> [i \in Item |-> None]]

\* Do the leases of the run that holds e concern one of S?
HolderConcerns(e, S) ==
    /\ lease[e] # NoLease
    /\ \E f \in S : lease[f].run = lease[e].run

Without(S) == [e \in EntityType |-> IF HolderConcerns(e, S) THEN NoLease ELSE lease[e]]

\* Runs that hold one of S lose all their leases.  (A run recorded as successful without
\* importing uses up a number.)
Revoke(S) ==
    /\ lease' = Without(S)
    /\ sequence' \in {sequence, sequence + 1}
    /\ UNCHANGED rows

\* A new run takes over S.
Grant(S, edition) ==
    /\ sequence' = sequence + 1
    /\ lease' = [e \in EntityType |->
                    IF e \in S THEN [run |-> sequence + 1, edition |-> edition[e]]
                    ELSE Without(S)[e]]
    /\ UNCHANGED rows

\* The holder writes some rows.
Write(e, I) ==
    /\ lease[e] # NoLease
    /\ rows' = [rows EXCEPT ![e] = [i \in Item |-> IF i \in I THEN lease[e].edition ELSE @[i]]]
    /\ UNCHANGED <<lease, sequence>>

Next ==
    \/ \E S \in SUBSET EntityType :
          Revoke(S) \/ \E edition \in [S -> Edition] : Grant(S, edition)
    \/ \E e \in EntityType, I \in SUBSET Item : Write(e, I)

Spec == Init /\ [][Next]_vars
=============================================================================

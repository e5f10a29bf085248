------------------------- MODULE DependencyPreflight -------------------------
(***************************************************************************)
(* dependency_preflight.go: a partial import is admitted only when every   *)
(* entity type it refers to without selecting it has a completed           *)
(* checkpoint that is not older than the catalog knows it should be.       *)
(***************************************************************************)
EXTENDS DumpCatalog

CONSTANTS
    RequiredTypes  \* entity -> entity types an import of it needs, itself included

ASSUME RequirementAssumption ==
    /\ RequiredTypes \in [EntityType -> SUBSET EntityType]
    /\ \A e \in EntityType : e \in RequiredTypes[e]

\* importDependencyRequirements: the types that are needed and not selected.
Dependencies(plan) == (UNION {RequiredTypes[e] : e \in DOMAIN plan}) \ DOMAIN plan

\* The month whose end is the horizon of a requirement: the latest among its requirers.
Horizon(plan, t) ==
    Max({MonthOf[plan[e].date] : e \in {f \in DOMAIN plan : t \in RequiredTypes[f]}})

\* Rows of the catalog before the horizon.
ExpectedRows(plan, t) ==
    {k \in DOMAIN catalog[t] : MonthOf[catalog[t][k].date] <= Horizon(plan, t)}

\* validateDependencyCheckpoint: a checkpoint past the horizon is accepted; otherwise it
\* must be neither older than the newest catalog row before the horizon nor another issue
\* of the same date.
CheckpointAccepted(plan, t, checkpoint) ==
    \/ MonthOf[checkpoint.date] > Horizon(plan, t)
    \/ /\ ExpectedRows(plan, t) # {}
       /\ LET expected == catalog[t][NewestRow(t, ExpectedRows(plan, t))]
          IN  /\ checkpoint.date >= expected.date
              /\ checkpoint.date = expected.date => checkpoint.issue = expected.issue
=============================================================================

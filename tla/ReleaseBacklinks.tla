-------------------------- MODULE ReleaseBacklinks --------------------------
(***************************************************************************)
(* master.main_release_id: seeded by the master chunks of a bootstrap,     *)
(* left alone by release chunks, and derived from release_item by the      *)
(* finalizer of a release import.                                          *)
(*                                                                         *)
(* Invocations follow one another (module ImportLedger keeps importers of  *)
(* masters and releases apart), but the finalizer is not fenced: one whose *)
(* run was abandoned may still run it later.  Root rows are never deleted. *)
(***************************************************************************)
EXTENDS Integers, FiniteSets

CONSTANTS
    Master, Release,  \* identifiers, positive integers
    Dump,             \* dumps of a month
    ListedMaster,     \* dump -> master -> its main release, or Absent
    ListedRelease,    \* dump -> release -> [master, main], or Absent
    Absent,
    MaxRuns,          \* bound: invocations
    MaxClock          \* bound: ticks of the clock

Null == 0

ASSUME ConstantsAssumption ==
    /\ Master \subseteq Nat \ {0}
    /\ Release \subseteq Nat \ {0}
    /\ IsFiniteSet(Release)
    /\ Absent \notin Nat
    /\ Absent \notin [master : Nat, main : BOOLEAN, modified : Nat]
    /\ ListedMaster \in [Dump -> [Master -> Release \cup {Null, Absent}]]
    /\ ListedRelease \in
         [Dump -> [Release -> [master : Master \cup {Null}, main : BOOLEAN] \cup {Absent}]]
    /\ MaxRuns \in Nat
    /\ MaxClock \in Nat \ {0}

VARIABLES
    item,       \* release_item rows
    link,       \* main_release_id of each master row, Absent if there is no row
    observed,   \* when a release was last in an imported chunk (history)
    clock,
    runs,       \* invocations so far
    status,     \* status of the release entity's catalog state
    refreshed,  \* has a release import ever succeeded?
    pc, plan,   \* the invocation: [dump, masters, releases]
    todo,       \* root rows not yet written in this step
    straggler   \* may an abandoned invocation still run its finalizer?

vars == <<item, link, observed, clock, runs, status, refreshed, pc, plan, todo, straggler>>

NoPlan == [dump |-> Absent, masters |-> FALSE, releases |-> FALSE]

Init ==
    /\ item = [r \in Release |-> Absent]
    /\ link = [m \in Master |-> Absent]
    /\ observed = [r \in Release |-> 0]
    /\ clock = 1
    /\ runs = 0
    /\ status = "bootstrap_pending"
    /\ refreshed = FALSE
    /\ pc = "idle"
    /\ plan = NoPlan
    /\ todo = {}
    /\ straggler = FALSE

MasterRows == {m \in Master : link[m] # Absent}
ListedMasters(d)  == {m \in Master : ListedMaster[d][m] # Absent}
ListedReleases(d) == {r \in Release : ListedRelease[d][r] # Absent}

-----------------------------------------------------------------------------
(***************************************************************************)
(* Steps of an invocation.                                                 *)
(***************************************************************************)
\* Admission: the release entity's state is "importing"; a release import without the
\* masters needs their earlier import.
Start(d, masters, releases) ==
    /\ pc = "idle"
    /\ runs < MaxRuns
    /\ masters \/ releases
    /\ masters \/ MasterRows # {}
    /\ plan' = [dump |-> d, masters |-> masters, releases |-> releases]
    /\ runs' = runs + 1
    /\ status' = IF releases THEN "importing" ELSE status
    /\ pc' = IF masters THEN "masters" ELSE "releases"
    /\ todo' = IF masters THEN ListedMasters(d) ELSE ListedReleases(d)
    /\ UNCHANGED <<item, link, observed, clock, refreshed, straggler>>

\* Mutation: main releases are always seeded.
SeedAlways == TRUE

\* shouldSeedMasterMainReleases: this run bootstraps the releases as well.
Seed == plan.releases /\ status = "importing" /\ ~refreshed

\* A master root is upserted: main_release_id is no column of the conflict update.
WriteMaster(m) ==
    /\ pc = "masters"
    /\ m \in todo
    /\ link' = IF link[m] # Absent THEN link
               ELSE [link EXCEPT ![m] = IF Seed THEN ListedMaster[plan.dump][m] ELSE Null]
    /\ todo' = todo \ {m}
    /\ UNCHANGED <<item, observed, clock, runs, status, refreshed, pc, plan, straggler>>

EndMasters ==
    /\ pc = "masters"
    /\ todo = {}
    /\ pc' = IF plan.releases THEN "releases" ELSE "idle"
    /\ todo' = IF plan.releases THEN ListedReleases(plan.dump) ELSE {}
    /\ plan' = IF plan.releases THEN plan ELSE NoPlan
    /\ UNCHANGED <<item, link, observed, clock, runs, status, refreshed, straggler>>

\* Mutation: the master of a release is taken as listed.
IncomingAsListed(r) == ListedRelease[plan.dump][r]

\* The release's row: a master that is not known to the import is dropped from it.
Incoming(r) ==
    LET l == ListedRelease[plan.dump][r]
        known == IF plan.masters THEN ListedMasters(plan.dump) ELSE MasterRows
    IN  [master |-> IF l.master \in known THEN l.master ELSE Null, main |-> l.main]

Business(row) == [master |-> row.master, main |-> row.main]

\* updateWhenChanged: an identical row is not touched, nor is its last_modified_at.
Upsert(r) ==
    IF item[r] # Absent /\ Business(item[r]) = Incoming(r)
    THEN item[r]
    ELSE [master |-> Incoming(r).master, main |-> Incoming(r).main, modified |-> clock]

\* A release chunk commits a root row (its chunk's timestamp is now).
WriteRelease(r) ==
    /\ pc = "releases"
    /\ r \in todo
    /\ item' = [item EXCEPT ![r] = Upsert(r)]
    /\ observed' = [observed EXCEPT ![r] = clock]
    /\ todo' = todo \ {r}
    /\ UNCHANGED <<link, clock, runs, status, refreshed, pc, plan, straggler>>

EndReleases ==
    /\ pc = "releases"
    /\ todo = {}
    /\ pc' = "finalizing"
    /\ UNCHANGED <<item, link, observed, clock, runs, status, refreshed, plan, todo, straggler>>

-----------------------------------------------------------------------------
(***************************************************************************)
(* The finalizer.                                                          *)
(***************************************************************************)
MainReleases(m) == {r \in Release : item[r] # Absent /\ item[r].main /\ item[r].master = m}

\* Mutation: a link is stale only when its release is gone.
ClearDangling ==
    [m \in Master |->
        IF link[m] \notin {Absent, Null} /\ item[link[m]] = Absent THEN Null ELSE link[m]]

\* releaseMainReleaseClearSQL.
Clear ==
    [m \in Master |->
        IF link[m] \notin {Absent, Null} /\ link[m] \notin MainReleases(m) THEN Null
        ELSE link[m]]

\* The order of its DISTINCT ON: last_modified_at, then id.
NotBefore(r, s) ==
    \/ item[r].modified > item[s].modified
    \/ item[r].modified = item[s].modified /\ r >= s

\* releaseMainReleaseSetSQL: the last modified main release, the greatest id on a tie.
Desired(m) ==
    CHOOSE r \in MainReleases(m) : \A s \in MainReleases(m) : NotBefore(r, s)

\* reconcileMasterMainReleases: both statements in one transaction.
Reconciled ==
    [m \in Master |->
        IF Clear[m] # Absent /\ MainReleases(m) # {} THEN Desired(m) ELSE Clear[m]]

Finalize ==
    /\ pc = "finalizing"
    /\ link' = Reconciled
    /\ pc' = "completing"
    /\ UNCHANGED <<item, observed, clock, runs, status, refreshed, plan, todo, straggler>>

\* The entity is completed, and the run succeeds.
Complete ==
    /\ pc = "completing"
    /\ status' = "ready"
    /\ refreshed' = TRUE
    /\ pc' = "idle"
    /\ plan' = NoPlan
    /\ UNCHANGED <<item, link, observed, clock, runs, todo, straggler>>

\* The invocation fails, or is abandoned; what was committed stays.  If only its lock
\* session died it may reach its finalizer after that.
Fail ==
    /\ pc # "idle"
    /\ status' = IF plan.releases THEN "failed" ELSE status
    /\ straggler' \in {straggler, straggler \/ pc \in {"releases", "finalizing"}}
    /\ pc' = "idle"
    /\ plan' = NoPlan
    /\ todo' = {}
    /\ UNCHANGED <<item, link, observed, clock, runs, refreshed>>

\* The unfenced finalizer of an abandoned invocation; its completion is refused.
LateFinalize ==
    /\ straggler
    /\ link' = Reconciled
    /\ straggler' = FALSE
    /\ UNCHANGED <<item, observed, clock, runs, status, refreshed, pc, plan, todo>>

Tick ==
    /\ clock < MaxClock
    /\ clock' = clock + 1
    /\ UNCHANGED <<item, link, observed, runs, status, refreshed, pc, plan, todo, straggler>>

Next ==
    \/ \E d \in Dump, masters, releases \in BOOLEAN : Start(d, masters, releases)
    \/ \E m \in Master : WriteMaster(m)
    \/ EndMasters
    \/ \E r \in Release : WriteRelease(r)
    \/ EndReleases
    \/ Finalize
    \/ Complete
    \/ Fail
    \/ LateFinalize
    \/ Tick

Spec == Init /\ [][Next]_vars
-----------------------------------------------------------------------------
(***************************************************************************)
(* Properties.                                                             *)
(***************************************************************************)
\* Rows hold values of their columns: a release refers to a master that has a row, and is not
\* stamped later than it was last seen.
BacklinkTypeOK ==
    /\ \A r \in Release :
         \/ item[r] = Absent
         \/ /\ item[r].master \in MasterRows \cup {Null}
            /\ item[r].main \in BOOLEAN
            /\ item[r].modified \in 1..observed[r]
    /\ link \in [Master -> Release \cup {Null, Absent}]
    /\ observed \in [Release -> 0..clock]
    /\ clock \in 1..MaxClock
    /\ runs \in 0..MaxRuns
    /\ status \in {"bootstrap_pending", "importing", "ready", "failed"}
    /\ {refreshed, straggler} \subseteq BOOLEAN
    /\ pc \in {"idle", "masters", "releases", "finalizing", "completing"}
    /\ todo \subseteq Master \cup Release

\* While the releases are ready, every master names the main release that the table
\* designates, or none: also after later imports of masters alone, after failed release
\* imports and after a straggler's finalizer.
ReadyBacklinksDerived ==
    status = "ready" =>
        \A m \in MasterRows :
            link[m] = IF MainReleases(m) = {} THEN Null ELSE Desired(m)

\* Once a release import has succeeded no master ever names a release without a row, not
\* even in the middle of a later import: main releases are seeded in a bootstrap only.
BacklinksNeverDangleAfterBootstrap ==
    refreshed => \A m \in MasterRows : link[m] # Null => item[link[m]] # Absent

\* While the releases are ready, a master's main release is one of those that were observed
\* last among its main releases.
NewestObservedMainReleaseWins ==
    status = "ready" =>
        \A m \in MasterRows : \A r \in MainReleases(m) :
            link[m] # Null /\ observed[link[m]] >= observed[r]
=============================================================================

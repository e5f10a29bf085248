----------------------------- MODULE DumpCatalog -----------------------------
(***************************************************************************)
(* The dump catalog of src/data.  The download site publishes dump files   *)
(* and, per dump date, a checksum document; it may reissue a file, and the *)
(* document follows later.  An invocation reads the listing and the        *)
(* documents, adds what it found to discogs_dump, and chooses its dumps    *)
(* from that table: the newest ones, or those of a pinned month.           *)
(***************************************************************************)
EXTENDS Naturals, Sequences, FiniteSets, FiniteSetsExt, SequencesExt

CONSTANTS
    EntityType,  \* artist, label, master, release
    Date,        \* publication dates
    MonthOf,     \* date -> its month
    YearOf,      \* date -> its year
    DirectDate,  \* month -> the date its checksum document is expected at; None before 2021
    Issue,       \* SHA-256 identities of the successive files of one name
    AtStart,     \* files the site serves, and documents, at first
    Reissuable,  \* bound: files the site may replace
    None         \* nothing published, no month

Months == {MonthOf[d] : d \in Date}

ASSUME CatalogAssumption ==
    /\ Date \subseteq Nat /\ Date # {}
    /\ MonthOf \in [Date -> Nat]
    /\ YearOf \in [Date -> Nat]
    /\ \A d, f \in Date : d <= f => MonthOf[d] <= MonthOf[f] /\ YearOf[d] <= YearOf[f]
    /\ Issue \subseteq Nat /\ Issue # {}
    /\ None \notin Issue
    /\ None \notin Nat
    /\ DirectDate \in [Months -> Date \cup {None}]
    /\ \A m \in Months : DirectDate[m] # None => MonthOf[DirectDate[m]] = m
    /\ EntityType \X {Min(Date)} \subseteq AtStart
    /\ AtStart \subseteq EntityType \X Date
    /\ Reissuable \subseteq EntityType \X Date

VARIABLES
    served,    \* entity -> date -> the issue the site serves under that name
    document,  \* date -> entity -> the issue the checksum document names
    catalog    \* entity -> rows of discogs_dump in the order of their ids

site == <<served, document>>

SiteInit ==
    /\ served = [e \in EntityType |-> [d \in Date |->
                    IF <<e, d>> \in AtStart THEN Min(Issue) ELSE None]]
    /\ document = [d \in Date |-> [e \in EntityType |-> served[e][d]]]

Published == {x \in EntityType \X Date : served[x[1]][x[2]] # None}

(***************************************************************************)
(* The site.                                                               *)
(***************************************************************************)
Publish(e, d) ==
    /\ served[e][d] = None
    /\ served' = [served EXCEPT ![e][d] = Min(Issue)]
    /\ UNCHANGED document

\* A file is replaced by a later issue under the same name.
Reissue(e, d) ==
    /\ served[e][d] # None
    /\ <<e, d>> \in Reissuable
    /\ \E i \in Issue :
          /\ i > served[e][d]
          /\ served' = [served EXCEPT ![e][d] = i]
    /\ UNCHANGED document

\* The checksum document of a date is brought up to date.
Document(d) ==
    /\ document[d] # [e \in EntityType |-> served[e][d]]
    /\ document' = [document EXCEPT ![d] = [e \in EntityType |-> served[e][d]]]
    /\ UNCHANGED served

SiteStep ==
    \/ \E e \in EntityType, d \in Date : Publish(e, d) \/ Reissue(e, d)
    \/ \E d \in Date : Document(d)

(***************************************************************************)
(* Refreshing.                                                             *)
(***************************************************************************)
\* fetchCatalogData: files of the pinned month's year, or of the latest year listed.
ListedYear(month) ==
    IF month # None
    THEN YearOf[CHOOSE d \in Date : MonthOf[d] = month]
    ELSE Max({YearOf[x[2]] : x \in Published})

Listing(month) ==
    IF month = None /\ Published = {} THEN {}
    ELSE {x \in Published : YearOf[x[2]] = ListedYear(month)}

\* selectRefreshCandidates: the newest listed file of each selected entity, in the month.
Candidates(entities, month) ==
    {x \in Listing(month) :
        /\ x[1] \in entities
        /\ month = None \/ MonthOf[x[2]] = month
        /\ \A y \in Listing(month) :
              y[1] = x[1] /\ (month = None \/ MonthOf[y[2]] = month) => y[2] <= x[2]}

\* fetchPinnedChecksumData: the month's document names every selected entity.
DirectCandidates(entities, month) == {<<e, DirectDate[month]>> : e \in entities}

RefreshCandidates(entities, month) ==
    IF month # None /\ DirectDate[month] # None
    THEN DirectCandidates(entities, month)
    ELSE Candidates(entities, month)

\* Mutation: a candidate that no document names yet is taken as well.
ListedIsEnough(entities, month) ==
    (month = None \/ DirectDate[month] = None) => Listing(month) # {}

\* UpdateSelectedData before its insert: it fails when the listing has no file, or when a
\* candidate's checksum is not documented; entities the listing lacks are passed over.
Refreshable(entities, month) ==
    /\ (month = None \/ DirectDate[month] = None) => Listing(month) # {}
    /\ \A x \in RefreshCandidates(entities, month) : document[x[2]][x[1]] # None

\* What the refresh found: entity -> dump.
Refreshed(entities, month) ==
    LET found == RefreshCandidates(entities, month)
    IN  [e \in {x[1] : x \in found} |->
            LET d == (CHOOSE x \in found : x[1] = e)[2]
            IN  [date |-> d, issue |-> document[d][e]]]

\* BatchInsert's row for one entity: on conflict (date, entity, checksum) do nothing.
InsertDump(rows, dump) == IF dump \in ToSet(rows) THEN rows ELSE Append(rows, dump)

BatchInsert(found) ==
    [e \in EntityType |->
        IF e \in DOMAIN found THEN InsertDump(catalog[e], found[e]) ELSE catalog[e]]

(***************************************************************************)
(* Choosing.                                                               *)
(***************************************************************************)
\* Rows of an entity, of the month if there is one.
Eligible(e, month) ==
    {k \in DOMAIN catalog[e] : month = None \/ MonthOf[catalog[e][k].date] = month}

\* The first of S by dump_date desc, id desc.
NewestRow(e, S) ==
    CHOOSE k \in S :
        \A j \in S : \/ catalog[e][j].date < catalog[e][k].date
                     \/ catalog[e][j].date = catalog[e][k].date /\ j <= k

\* FindLatestByType, FindByYearMonthType.
FindDump(e, month) == catalog[e][NewestRow(e, Eligible(e, month))]

\* ResolveImportPlan: all selected entities have a row, or it fails.
Resolvable(entities, month) == \A e \in entities : Eligible(e, month) # {}
ResolveImportPlan(entities, month) == [e \in entities |-> FindDump(e, month)]
=============================================================================

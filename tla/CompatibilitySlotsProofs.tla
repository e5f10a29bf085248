---------------------- MODULE CompatibilitySlotsProofs ----------------------
(* Proofs about CompatibilitySlots, for every hash function, generator and source. *)
EXTENDS CompatibilitySlots, TLAPS, FiniteSetTheorems

-----------------------------------------------------------------------------
(* Least elements. *)

\* A nonempty set of natural numbers has a least element, which Min returns.
LEMMA MinInSet ==
    ASSUME NEW S \in SUBSET Nat, S # {}
    PROVE  Min(S) \in S /\ \A k \in S : Min(S) <= k
<1>1. \E n \in S : \A m \in S : ~(<<m, n>> \in OpToRel(<, Nat))
  BY WFMin, NatLessThanWellFounded
<1>2. PICK n \in S : \A m \in S : ~(<<m, n>> \in OpToRel(<, Nat))
  BY <1>1
<1>3. \A m \in S : ~(m < n)
  BY <1>2, Zenon DEF OpToRel
<1>4. \A m \in S : n <= m
  BY <1>3
<1> QED
  BY <1>4 DEF Min

-----------------------------------------------------------------------------
(***************************************************************************)
(* The invariant.  SlotsAreUnique is not inductive: that the slot taken    *)
(* next is free follows from what the queues say of the slots already      *)
(* given, which are no hash of a later group, and of the identities that   *)
(* have one, which are in no queue.                                        *)
(***************************************************************************)
\* Before the assignment nothing is assigned or queued.
NothingAssignedYet ==
    pc # "assign" => hashes = {} /\ collided = {} /\ slotOf = {}

\* The hash of a later group is nobody's slot.
LaterHashesAreFree == \A r \in slotOf : r.slot \notin hashes

\* An identity with a slot, or in the current group, is in no later one, and has a slot only
\* once it has left the group.
QueuesAreDisjoint ==
    /\ \A r \in slotOf : legacyHash[r.digest] \notin hashes /\ r.digest \notin collided
    /\ \A d \in collided : legacyHash[d] \notin hashes

\* Groups of one have their slot.
UnsharedAssigned ==
    \A d \in Digests(ToSet(rows)) :
        pc = "assign" /\ legacyHash[d] \notin hashes /\ Group(legacyHash[d]) = {d}
            => Row(legacyHash[d], d) \in slotOf

SlotsInv ==
    /\ SlotsTypeOK
    /\ NothingAssignedYet
    /\ LaterHashesAreFree
    /\ QueuesAreDisjoint
    /\ SlotsAreUnique
    /\ UnsharedAssigned

-----------------------------------------------------------------------------
(* Steps. *)

\* The rows read have digests of the model.
LEMMA RowDigests ==
    ASSUME SlotsTypeOK
    PROVE  Digests(ToSet(rows)) \subseteq Digest
<1> DEFINE Item == [digest : Digest, payload : Payload]
<1>1. rows \in Seq(Item)
  BY DEF SlotsTypeOK
<1>2. \A i \in DOMAIN rows : rows[i] \in Item
  <2> HIDE DEF Item
  <2> QED
    BY <1>1
<1>3. ToSet(rows) \subseteq Item
  BY <1>2 DEF ToSet
<1> QED
  BY <1>3 DEF Digests

\* A nonempty set of reserved hashes has a least one.
LEMMA LeastHash ==
    ASSUME SlotsTypeOK, hashes # {}
    PROVE  Min(hashes) \in hashes /\ hashes \subseteq Slot
<1>1. hashes \subseteq Slot
  <2>1. legacyHash \in [Digest -> Slot] /\ hashes \subseteq Reserved
    BY ConstantsAssumption DEF SlotsTypeOK
  <2>2. Reserved \subseteq Slot
    BY <2>1, RowDigests DEF Reserved
  <2> QED
    BY <2>1, <2>2
<1>2. hashes \in SUBSET Nat
  BY <1>1, ConstantsAssumption
<1> QED
  BY <1>1, <1>2, MinInSet

\* A nonempty set of digests of rows has a least one.
LEMMA LeastDigest ==
    ASSUME SlotsTypeOK, NEW S \in SUBSET Digests(ToSet(rows)), S # {}
    PROVE  Min(S) \in S
<1>1. S \in SUBSET Nat
  BY RowDigests, ConstantsAssumption
<1> QED
  BY <1>1, MinInSet

\* The end of an import leaves nothing assigned or queued.
LEMMA EndImportStep ==
    ASSUME SlotsInv, EndImport, table' \subseteq [slot : Slot, digest : Digest \cup {Null}]
    PROVE  SlotsInv'
<1>1. SlotsTypeOK'
  BY ConstantsAssumption DEF SlotsInv, SlotsTypeOK, EndImport
<1> QED
  BY <1>1 DEF EndImport, SlotsInv, NothingAssignedYet, LaterHashesAreFree, QueuesAreDisjoint,
              SlotsAreUnique, UnsharedAssigned

\* The initial states satisfy the invariant.
LEMMA SlotsInit ==
    ASSUME Init
    PROVE  SlotsInv
<1>1. SlotsTypeOK
  BY ConstantsAssumption DEF Init, SlotsTypeOK, Row
<1> QED
  BY <1>1 DEF Init, SlotsInv, NothingAssignedYet, LaterHashesAreFree, QueuesAreDisjoint,
              SlotsAreUnique, UnsharedAssigned

\* A group starts: its hash was no slot yet, and its first identity had none.
LEMMA StartGroupStep ==
    ASSUME SlotsInv, StartGroup
    PROVE  SlotsInv'
<1> DEFINE h == Min(hashes)
           d == First(Group(h))
<1> USE DEF SlotsInv
<1>1. h \in hashes /\ h \in Slot
  BY LeastHash DEF StartGroup
<1>2. Group(h) \subseteq Digests(ToSet(rows)) /\ Group(h) # {}
  BY <1>1 DEF SlotsTypeOK, Reserved, Group
<1>3. d \in Group(h)
  BY <1>2, LeastDigest DEF First
<1> HIDE DEF h, d
<1>4. d \in Digests(ToSet(rows)) /\ legacyHash[d] = h
  BY <1>3 DEF Group
<1>5. slotOf' = slotOf \cup {Row(h, d)} /\ collided' = Group(h) \ {d} /\ hashes' = hashes \ {h}
      /\ rows' = rows /\ legacyHash' = legacyHash /\ pc' = pc /\ pc = "assign"
  BY DEF StartGroup, h, d
<1>6. SlotsTypeOK'
  BY <1>1, <1>2, <1>4, <1>5 DEF StartGroup, SlotsTypeOK, Reserved, Row
<1>7. LaterHashesAreFree'
  BY <1>5 DEF LaterHashesAreFree, Row
<1>8. QueuesAreDisjoint'
  BY <1>1, <1>4, <1>5 DEF QueuesAreDisjoint, Row, Group
<1>9. SlotsAreUnique'
  <2>1. \A r \in slotOf : r.slot # h /\ r.digest # d
    BY <1>1, <1>4 DEF LaterHashesAreFree, QueuesAreDisjoint
  <2> QED
    BY <1>5, <2>1 DEF SlotsAreUnique, Row
<1>10. UnsharedAssigned'
  <2> SUFFICES ASSUME NEW e \in Digests(ToSet(rows)), legacyHash[e] \notin hashes \ {h},
                      Group(legacyHash[e]) = {e}
               PROVE  Row(legacyHash[e], e) \in slotOf \cup {Row(h, d)}
    BY <1>5 DEF UnsharedAssigned, Group
  <2>1. CASE legacyHash[e] = h
    BY <1>3, <2>1
  <2>2. CASE legacyHash[e] \notin hashes
    BY <1>5, <2>2 DEF UnsharedAssigned
  <2> QED
    BY <2>1, <2>2
<1> QED
  BY <1>5, <1>6, <1>7, <1>8, <1>9, <1>10 DEF NothingAssignedYet

\* A candidate is taken only if it is neither reserved nor assigned.
LEMMA TryCandidateStep ==
    ASSUME SlotsInv, TryCandidate
    PROVE  SlotsInv'
<1> DEFINE d == Min(collided)
           c == generator[d][attempt]
<1> USE DEF SlotsInv
<1>1. d \in collided /\ d \in Digests(ToSet(rows))
  BY LeastDigest DEF TryCandidate, SlotsTypeOK
<1>2. c \in Slot
  <2>1. d \in Digest
    BY <1>1, RowDigests
  <2>2. generator \in [Digest -> [0..(Attempts - 1) -> Slot]]
    BY ConstantsAssumption DEF SlotsTypeOK
  <2>3. attempt \in 0..(Attempts - 1)
    BY ConstantsAssumption DEF TryCandidate, SlotsTypeOK
  <2> HIDE DEF d
  <2>4. generator[d] \in [0..(Attempts - 1) -> Slot]
    BY <2>1, <2>2
  <2> QED
    BY <2>3, <2>4
<1> HIDE DEF d, c
<1>3. rows' = rows /\ legacyHash' = legacyHash /\ pc' = pc /\ pc = "assign" /\ hashes' = hashes
  BY DEF TryCandidate
<1>4. \/ slotOf' = slotOf /\ collided' = collided
      \/ slotOf' = slotOf \cup {Row(c, d)} /\ collided' = collided \ {d} /\ Available(c)
  BY DEF TryCandidate, d, c
<1>5. SlotsTypeOK'
  <2>1. attempt' \in 0..Attempts
    BY ConstantsAssumption DEF TryCandidate, SlotsTypeOK
  <2> QED
    BY <1>1, <1>2, <1>3, <1>4, <2>1 DEF TryCandidate, SlotsTypeOK, Reserved, Row
<1>6. CASE slotOf' = slotOf /\ collided' = collided
  BY <1>3, <1>5, <1>6 DEF NothingAssignedYet, LaterHashesAreFree, QueuesAreDisjoint,
                          SlotsAreUnique, UnsharedAssigned, Group
<1>7. CASE slotOf' = slotOf \cup {Row(c, d)} /\ collided' = collided \ {d} /\ Available(c)
  <2>1. LaterHashesAreFree'
    BY <1>3, <1>7 DEF LaterHashesAreFree, Row, Available, SlotsTypeOK
  <2>2. QueuesAreDisjoint'
    BY <1>1, <1>3, <1>7 DEF QueuesAreDisjoint, Row
  <2>3. SlotsAreUnique'
    <3>1. \A r \in slotOf : r.slot # c /\ r.digest # d
      BY <1>1, <1>7 DEF Available, SlotsIn, QueuesAreDisjoint
    <3> QED
      BY <1>7, <3>1 DEF SlotsAreUnique, Row
  <2>4. UnsharedAssigned'
    BY <1>3, <1>7 DEF UnsharedAssigned, Group
  <2> QED
    BY <1>3, <1>5, <2>1, <2>2, <2>3, <2>4 DEF NothingAssignedYet
<1> QED
  BY <1>4, <1>6, <1>7

\* The transaction makes the table what was assigned: what is kept is assigned, and no
\* other kept row has an assigned slot.
LEMMA PersistReplaces ==
    ASSUME SlotsInv, Persist
    PROVE  table' = slotOf
<1>1. table' = Kept(slotOf) \cup {r \in slotOf : r.slot \notin SlotsIn(Kept(slotOf))}
  BY DEF Persist
<1>2. \A r \in slotOf : r.slot \in SlotsIn(Kept(slotOf)) => r \in Kept(slotOf)
  BY DEF SlotsInv, SlotsAreUnique, SlotsIn, Kept
<1> QED
  BY <1>1, <1>2 DEF Kept

\* Every step preserves the invariant.
LEMMA SlotsNext ==
    ASSUME SlotsInv, [Next]_vars
    PROVE  SlotsInv'
<1>1. ASSUME NEW s \in Inputs, Read(s) PROVE SlotsInv'
  <2>1. SlotsTypeOK'
    <3>1. imports' \in 0..MaxImports
      BY <1>1, ConstantsAssumption DEF Read, SlotsInv, SlotsTypeOK
    <3>2. source' \in Seq([digest : Digest, payload : Payload])
      BY <1>1, ConstantsAssumption DEF Read
    <3> QED
      BY <1>1, <3>1, <3>2 DEF Read, SlotsInv, SlotsTypeOK, Reserved
  <2> QED
    BY <1>1, <2>1 DEF Read, SlotsInv, NothingAssignedYet, LaterHashesAreFree,
                      QueuesAreDisjoint, SlotsAreUnique, UnsharedAssigned
<1>2. CASE Deduplicate
  <2>1. hashes = {} /\ collided = {} /\ slotOf = {} /\ hashes' = {} /\ collided' = {}
        /\ slotOf' = {} /\ pc' = "deduplicate"
    BY <1>2 DEF Deduplicate, SlotsInv, NothingAssignedYet
  <2>2. rows' \in Seq([digest : Digest, payload : Payload])
        /\ source' \in Seq([digest : Digest, payload : Payload])
    BY <1>2 DEF Deduplicate, SlotsInv, SlotsTypeOK
  <2>3. SlotsTypeOK'
    BY <1>2, <2>1, <2>2 DEF Deduplicate, SlotsInv, SlotsTypeOK
  <2> QED
    BY <2>1, <2>3 DEF SlotsInv, NothingAssignedYet, LaterHashesAreFree, QueuesAreDisjoint,
                      SlotsAreUnique, UnsharedAssigned
<1>3. CASE ConflictingPayloads
  BY <1>3, EndImportStep DEF ConflictingPayloads, SlotsInv, SlotsTypeOK
<1>4. CASE EndDeduplicate
  <2>1. collided' = {} /\ slotOf' = {} /\ hashes' = Reserved /\ rows' = rows
        /\ legacyHash' = legacyHash /\ pc' = "assign"
    BY <1>4 DEF EndDeduplicate, SlotsInv, NothingAssignedYet
  <2>2. SlotsTypeOK'
    BY <1>4, <2>1 DEF EndDeduplicate, SlotsInv, SlotsTypeOK, Reserved
  <2>3. UnsharedAssigned'
    BY <2>1 DEF UnsharedAssigned, Reserved
  <2> QED
    BY <2>1, <2>2, <2>3 DEF SlotsInv, NothingAssignedYet, LaterHashesAreFree,
                            QueuesAreDisjoint, SlotsAreUnique
<1>5. CASE StartGroup
  BY <1>5, StartGroupStep
<1>6. CASE TryCandidate
  BY <1>6, TryCandidateStep
<1>7. CASE Exhausted
  BY <1>7, EndImportStep DEF Exhausted, SlotsInv, SlotsTypeOK
<1>8. CASE Persist
  <2>1. slotOf \subseteq [slot : Slot, digest : Digest \cup {Null}]
    BY RowDigests DEF SlotsInv, SlotsTypeOK
  <2> QED
    BY <1>8, <2>1, PersistReplaces, EndImportStep DEF Persist
<1>9. CASE UNCHANGED vars
  BY <1>9 DEF vars, SlotsInv, SlotsTypeOK, Reserved, NothingAssignedYet, LaterHashesAreFree,
              QueuesAreDisjoint, SlotsAreUnique, UnsharedAssigned, Group
<1> QED
  BY <1>1, <1>2, <1>3, <1>4, <1>5, <1>6, <1>7, <1>8, <1>9 DEF Next

\* The invariant holds in every reachable state.
THEOREM SlotsInvariant == Spec => []SlotsInv
<1> QED
  BY SlotsInit, SlotsNext, PTL DEF Spec

-----------------------------------------------------------------------------
(* Theorems. *)

\* Every variable keeps its type, and only identities that were read are queued or have slots.
THEOREM SlotsTypeCorrect == Spec => []SlotsTypeOK
<1>1. SlotsInv => SlotsTypeOK
  BY DEF SlotsInv
<1> QED
  BY <1>1, SlotsInvariant, PTL

\* assignRelationCompatibilitySlotsWith gives no slot twice and no identity two slots.
THEOREM SlotsUnique == Spec => []SlotsAreUnique
<1>1. SlotsInv => SlotsAreUnique
  BY DEF SlotsInv
<1> QED
  BY <1>1, SlotsInvariant, PTL

\* An identity that shares its legacy hash with no other row of its root is stored under it.
THEOREM UnsharedHashStays == Spec => UnsharedHashIsSlot
<1>1. SlotsInv /\ Persist =>
        \A d \in Digests(ToSet(rows)) :
            Group(legacyHash[d]) = {d} => Row(legacyHash[d], d) \in table'
  BY PersistReplaces DEF Persist, SlotsInv, UnsharedAssigned
<1> QED
  BY <1>1, SlotsInvariant, PTL DEF Spec, UnsharedHashIsSlot

-----------------------------------------------------------------------------
(***************************************************************************)
(* What an import leaves.  The invariant says of the identities read that  *)
(* each is a row of its own, and in a queue until it has a slot.           *)
(***************************************************************************)
\* One row per identity.
RowsAreDistinct ==
    \A i, j \in DOMAIN rows : rows[i].digest = rows[j].digest => i = j

\* No identity is forgotten between the queues.
NobodyIsForgotten ==
    pc = "assign" => \A d \in Digests(ToSet(rows)) :
        legacyHash[d] \in hashes \/ d \in collided \/ d \in Digests(slotOf)

CompleteInv == RowsAreDistinct /\ NobodyIsForgotten

\* The identities of a set of rows with one more.
LEMMA DigestsAdd ==
    ASSUME NEW R, NEW s, NEW d
    PROVE  Digests(R \cup {Row(s, d)}) = Digests(R) \cup {d}
<1>1. Row(s, d).digest = d
  BY DEF Row
<1> QED
  BY <1>1 DEF Digests

\* An import that is over has read and queued nothing.
LEMMA CompleteEnd ==
    ASSUME EndImport
    PROVE  CompleteInv'
BY DEF EndImport, CompleteInv, RowsAreDistinct, NobodyIsForgotten

\* A row is appended only when no row read so far has its digest.
LEMMA CompleteDeduplicate ==
    ASSUME SlotsInv, CompleteInv, Deduplicate
    PROVE  CompleteInv'
<1> DEFINE item == Head(source)
           Item == [digest : Digest, payload : Payload]
<1>0. rows \in Seq(Item) /\ source \in Seq(Item) /\ source # <<>>
  BY DEF Deduplicate, SlotsInv, SlotsTypeOK
<1>1. /\ rows \in Seq(Item) /\ item \in Item
      /\ \A r \in ToSet(rows) : r.digest = item.digest => r = item
      /\ rows' = IF item \in ToSet(rows) THEN rows ELSE Append(rows, item)
      /\ pc' # "assign"
  <2>1. item \in Item
    <3> HIDE DEF Item
    <3> QED
      BY <1>0
  <2> QED
    BY <1>0, <2>1 DEF Deduplicate
<1> HIDE DEF item, Item
<1>2. CASE item \in ToSet(rows)
  BY <1>1, <1>2 DEF CompleteInv, RowsAreDistinct, NobodyIsForgotten
<1>3. CASE item \notin ToSet(rows)
  <2>1. /\ Len(rows) \in Nat /\ DOMAIN rows = 1..Len(rows)
        /\ DOMAIN rows' = 1..(Len(rows) + 1)
        /\ \A i \in 1..Len(rows) : rows'[i] = rows[i]
        /\ rows'[Len(rows) + 1] = item
    BY <1>1, <1>3
  <2>2. \A i \in 1..Len(rows) : rows[i].digest # item.digest
    BY <1>1, <1>3, <2>1 DEF ToSet
  <2>3. \A i, j \in 1..Len(rows) : rows[i].digest = rows[j].digest => i = j
    BY <2>1 DEF CompleteInv, RowsAreDistinct
  <2>4. RowsAreDistinct'
    BY <2>1, <2>2, <2>3 DEF RowsAreDistinct
  <2> QED
    BY <1>1, <2>4 DEF CompleteInv, NobodyIsForgotten
<1> QED
  BY <1>2, <1>3

\* Every step keeps rows and queues complete.
LEMMA CompleteNext ==
    ASSUME SlotsInv, CompleteInv, [Next]_vars
    PROVE  CompleteInv'
<1>1. CASE \E s \in Inputs : Read(s)
  BY <1>1 DEF Read, CompleteInv, RowsAreDistinct, NobodyIsForgotten
<1>2. CASE Deduplicate
  BY <1>2, CompleteDeduplicate
<1>3. CASE ConflictingPayloads \/ Exhausted \/ Persist
  BY <1>3, CompleteEnd DEF ConflictingPayloads, Exhausted, Persist
<1>4. CASE EndDeduplicate
  BY <1>4 DEF EndDeduplicate, CompleteInv, RowsAreDistinct, NobodyIsForgotten, Reserved
<1>5. CASE StartGroup
  <2> DEFINE h == Min(hashes)
             d == First(Group(h))
  <2>1. /\ rows' = rows /\ legacyHash' = legacyHash /\ pc = "assign" /\ collided = {}
        /\ slotOf' = slotOf \cup {Row(h, d)} /\ collided' = Group(h) \ {d} /\ hashes' = hashes \ {h}
    BY <1>5 DEF StartGroup
  <2> HIDE DEF h, d
  <2>2. Digests(slotOf') = Digests(slotOf) \cup {d}
    BY <2>1, DigestsAdd
  <2>3. ASSUME NEW e \in Digests(ToSet(rows))
        PROVE  legacyHash[e] \in hashes' \/ e \in collided' \/ e \in Digests(slotOf')
    BY <2>1, <2>2 DEF CompleteInv, NobodyIsForgotten, Group
  <2> QED
    BY <2>1, <2>3 DEF CompleteInv, RowsAreDistinct, NobodyIsForgotten
<1>6. CASE TryCandidate
  <2> DEFINE d == Min(collided)
             c == generator[d][attempt]
  <2>1. /\ rows' = rows /\ legacyHash' = legacyHash /\ hashes' = hashes /\ pc = "assign"
        /\ \/ slotOf' = slotOf /\ collided' = collided
           \/ slotOf' = slotOf \cup {Row(c, d)} /\ collided' = collided \ {d}
    BY <1>6 DEF TryCandidate
  <2> HIDE DEF d, c
  <2>2. slotOf' = slotOf \cup {Row(c, d)} => Digests(slotOf') = Digests(slotOf) \cup {d}
    BY DigestsAdd
  <2>3. ASSUME NEW e \in Digests(ToSet(rows))
        PROVE  legacyHash[e] \in hashes' \/ e \in collided' \/ e \in Digests(slotOf')
    BY <2>1, <2>2 DEF CompleteInv, NobodyIsForgotten
  <2> QED
    BY <2>1, <2>3 DEF CompleteInv, RowsAreDistinct, NobodyIsForgotten
<1>7. CASE UNCHANGED vars
  BY <1>7 DEF vars, CompleteInv, RowsAreDistinct, NobodyIsForgotten
<1> QED
  BY <1>1, <1>2, <1>3, <1>4, <1>5, <1>6, <1>7 DEF Next

\* When the queues are empty, the rows read and the slots given are in bijection.
LEMMA PersistIsExact ==
    ASSUME SlotsInv, CompleteInv, Persist
    PROVE  /\ Digests(table') = Digests(ToSet(rows))
           /\ Cardinality(table') = Len(rows)
<1>1. table' = slotOf
  BY PersistReplaces
<1>2. Digests(slotOf) = Digests(ToSet(rows))
  <2>1. Digests(slotOf) \subseteq Digests(ToSet(rows))
    BY DEF SlotsInv, SlotsTypeOK, Digests
  <2>2. Digests(ToSet(rows)) \subseteq Digests(slotOf)
    BY DEF Persist, CompleteInv, NobodyIsForgotten
  <2> QED
    BY <2>1, <2>2
<1>3. Len(rows) \in Nat /\ DOMAIN rows = 1..Len(rows)
  BY DEF SlotsInv, SlotsTypeOK
<1>4. \A i \in 1..Len(rows) : \E r \in slotOf : r.digest = rows[i].digest
  BY <1>2, <1>3 DEF Digests, ToSet
<1> DEFINE f == [i \in 1..Len(rows) |-> CHOOSE r \in slotOf : r.digest = rows[i].digest]
<1>5. \A i \in 1..Len(rows) : f[i] \in slotOf /\ f[i].digest = rows[i].digest
  BY <1>4
<1>6. f \in [1..Len(rows) -> slotOf]
  BY <1>5
<1> HIDE DEF f
<1>7. \A i, j \in 1..Len(rows) : f[i] = f[j] => i = j
  BY <1>3, <1>5 DEF CompleteInv, RowsAreDistinct
<1>8. \A r \in slotOf : \E i \in 1..Len(rows) : f[i] = r
  <2> SUFFICES ASSUME NEW r \in slotOf
               PROVE  \E i \in 1..Len(rows) : f[i] = r
    OBVIOUS
  <2>1. r.digest \in Digests(ToSet(rows))
    BY <1>2 DEF Digests
  <2>2. PICK i \in 1..Len(rows) : rows[i].digest = r.digest
    BY <1>3, <2>1 DEF Digests, ToSet
  <2>3. f[i] = r
    BY <1>5, <2>2 DEF SlotsInv, SlotsAreUnique
  <2> QED
    BY <2>3
<1>9. ExistsBijection(1..Len(rows), slotOf)
  <2>1. f \in Injection(1..Len(rows), slotOf)
    BY <1>6, <1>7 DEF Injection, IsInjective
  <2>2. f \in Surjection(1..Len(rows), slotOf)
    BY <1>6, <1>8 DEF Surjection
  <2>3. f \in Bijection(1..Len(rows), slotOf)
    BY <2>1, <2>2 DEF Bijection
  <2> QED
    BY <2>3 DEF ExistsBijection
<1>10. Cardinality(slotOf) = Len(rows)
  BY <1>3, <1>9, FS_CountingElements
<1> QED
  BY <1>1, <1>2, <1>10

\* deduplicateHashedRows and reconcileDigestIntegerRelation together: after an import the
\* table has one row for each identity of the source, and no other.
THEOREM ImportIsExact == Spec => ImportedExactly
<1>1. Init => CompleteInv
  BY DEF Init, CompleteInv, RowsAreDistinct, NobodyIsForgotten
<1>2. SlotsInv /\ CompleteInv /\ [Next]_vars => CompleteInv'
  BY CompleteNext
<1>3. SlotsInv /\ CompleteInv /\ Persist =>
        /\ Digests(table') = Digests(ToSet(rows))
        /\ Cardinality(table') = Len(rows)
  BY PersistIsExact
<1> QED
  BY <1>1, <1>2, <1>3, SlotsInvariant, PTL DEF Spec, ImportedExactly

-----------------------------------------------------------------------------
(***************************************************************************)
(* Why the order of the source does not matter.  An assignment is          *)
(* canonical when each identity has the slot that the hashes, the          *)
(* generator and the identities before it give it; there is one canonical  *)
(* assignment of a set of identities, the queues build it, and it is what  *)
(* the table holds.                                                        *)
(***************************************************************************)
\* The order in which identities get their slots: by hash, then by digest.
Before(e, d) ==
    legacyHash[e] < legacyHash[d] \/ (legacyHash[e] = legacyHash[d] /\ e < d)

\* The first of its group.
Heads(D, d) == \A e \in D : legacyHash[e] = legacyHash[d] => d <= e

\* A slot that no hash of D and no earlier row of R has.
Open(R, D, d, c) ==
    /\ \A e \in D : legacyHash[e] # c
    /\ \A q \in R : Before(q.digest, d) => q.slot # c

\* The slot of r is the one its identity must get.
Chosen(R, D, r) ==
    IF Heads(D, r.digest)
    THEN r.slot = legacyHash[r.digest]
    ELSE \E a \in 0..(Attempts - 1) :
            /\ r.slot = generator[r.digest][a]
            /\ Open(R, D, r.digest, r.slot)
            /\ \A b \in 0..(a - 1) : ~Open(R, D, r.digest, generator[r.digest][b])

Canonical(R, D) ==
    /\ Digests(R) = D
    /\ D \subseteq Digest
    /\ \A r \in R : r = Row(r.slot, r.digest)
    /\ \A r, q \in R : r.digest = q.digest => r = q
    /\ \A r \in R : Chosen(R, D, r)

\* The hashes of digests are natural numbers.
LEMMA HashTypes ==
    ASSUME SlotsTypeOK
    PROVE  /\ legacyHash \in [Digest -> Slot] /\ Slot \subseteq Nat /\ Digest \subseteq Nat
           /\ \A d \in Digest : legacyHash[d] \in Nat /\ d \in Nat
BY ConstantsAssumption DEF SlotsTypeOK

\* A nonempty set of identities has a first one.
LEMMA FirstBefore ==
    ASSUME SlotsTypeOK, NEW S \in SUBSET Digest, S # {}
    PROVE  \E d \in S : \A e \in S : ~Before(e, d)
<1> DEFINE H == {legacyHash[d] : d \in S}
<1>1. H \in SUBSET Nat /\ H # {}
  BY HashTypes
<1>2. Min(H) \in H /\ \A h \in H : Min(H) <= h
  BY <1>1, MinInSet
<1> DEFINE m == Min(H)
           G == {d \in S : legacyHash[d] = m}
<1>3. G \in SUBSET Nat /\ G # {}
  BY <1>2, HashTypes
<1>4. Min(G) \in G /\ \A d \in G : Min(G) <= d
  BY <1>3, MinInSet
<1> DEFINE x == Min(G)
<1>5. x \in S /\ legacyHash[x] = m
  BY <1>4
<1>6. ASSUME NEW e \in S
      PROVE  ~Before(e, x)
  <2>1. m <= legacyHash[e] /\ legacyHash[e] \in Nat /\ e \in Nat /\ m \in Nat /\ x \in Nat
    BY <1>1, <1>2, <1>5, HashTypes
  <2>2. legacyHash[e] = m => x <= e
    BY <1>4
  <2> HIDE DEF x, m
  <2> QED
    BY <1>5, <2>1, <2>2 DEF Before
<1> QED
  BY <1>5, <1>6

\* There is one canonical assignment of a set of identities.
LEMMA CanonicalIsUnique ==
    ASSUME SlotsTypeOK, NEW D, NEW R, NEW Q, Canonical(R, D), Canonical(Q, D)
    PROVE  R \subseteq Q
<1> SUFFICES ASSUME NEW r0 \in R, r0 \notin Q
             PROVE  FALSE
  OBVIOUS
<1> DEFINE S == {d \in D : \E r \in R : r.digest = d /\ r \notin Q}
<1>1. S \in SUBSET Digest /\ S # {}
  BY DEF Canonical, Digests
<1>2. PICK d \in S : \A e \in S : ~Before(e, d)
  BY <1>1, FirstBefore
<1>3. PICK r \in R : r.digest = d /\ r \notin Q
  BY <1>2
<1>4. PICK q \in Q : q.digest = d
  BY <1>2 DEF Canonical, Digests
<1>5. \A x \in R : Before(x.digest, d) => x \in Q
  BY <1>2 DEF Canonical, Digests
<1>6. \A x \in Q : Before(x.digest, d) => x \in R
  <2> SUFFICES ASSUME NEW x \in Q, Before(x.digest, d)
               PROVE  x \in R
    OBVIOUS
  <2>1. PICK y \in R : y.digest = x.digest
    BY DEF Canonical, Digests
  <2>2. y \in Q
    BY <1>5, <2>1
  <2> QED
    BY <2>1, <2>2 DEF Canonical
<1>7. \A c : Open(R, D, d, c) <=> Open(Q, D, d, c)
  BY <1>5, <1>6 DEF Open
<1>8. Chosen(R, D, r) /\ Chosen(Q, D, q)
  BY DEF Canonical
<1>9. r.slot = q.slot
  <2>1. CASE Heads(D, d)
    BY <1>3, <1>4, <1>8, <2>1 DEF Chosen
  <2>2. CASE ~Heads(D, d)
    <3>1. PICK a \in 0..(Attempts - 1) :
             /\ r.slot = generator[d][a] /\ Open(R, D, d, r.slot)
             /\ \A b \in 0..(a - 1) : ~Open(R, D, d, generator[d][b])
      BY <1>3, <1>8, <2>2 DEF Chosen
    <3>2. PICK b \in 0..(Attempts - 1) :
             /\ q.slot = generator[d][b] /\ Open(Q, D, d, q.slot)
             /\ \A i \in 0..(b - 1) : ~Open(Q, D, d, generator[d][i])
      BY <1>4, <1>8, <2>2 DEF Chosen
    <3>3. a \in Nat /\ b \in Nat
      BY ConstantsAssumption
    <3>4. ~(a < b)
      <4>1. a < b => a \in 0..(b - 1)
        BY <3>3
      <4> QED
        BY <1>7, <3>1, <3>2, <4>1
    <3>5. ~(b < a)
      <4>1. b < a => b \in 0..(a - 1)
        BY <3>3
      <4> QED
        BY <1>7, <3>1, <3>2, <4>1
    <3>6. a = b
      BY <3>3, <3>4, <3>5
    <3> QED
      BY <3>1, <3>2, <3>6
  <2> QED
    BY <2>1, <2>2
<1>10. r = Row(r.slot, r.digest) /\ q = Row(q.slot, q.digest)
  BY DEF Canonical
<1> QED
  BY <1>3, <1>4, <1>9, <1>10

\* A row that gets its slot after those of R leaves theirs what they must be.
LEMMA ChosenStays ==
    ASSUME NEW R, NEW D, NEW q, NEW r \in R, ~Before(q.digest, r.digest), Chosen(R, D, r)
    PROVE  Chosen(R \cup {q}, D, r)
<1>1. \A c : Open(R \cup {q}, D, r.digest, c) <=> Open(R, D, r.digest, c)
  BY DEF Open
<1> QED
  BY <1>1 DEF Chosen

\* What is chosen depends on the hashes and the generator, which never change.
LEMMA ChosenFrame ==
    ASSUME UNCHANGED <<legacyHash, generator>>, NEW R, NEW D, NEW r, Chosen(R, D, r)
    PROVE  Chosen(R, D, r)'
<1>1. Heads(D, r.digest)' <=> Heads(D, r.digest)
  BY DEF Heads
<1>2. \A d : Before(d, r.digest)' <=> Before(d, r.digest)
  BY DEF Before
<1>3. \A c : Open(R, D, r.digest, c)' <=> Open(R, D, r.digest, c)
  BY <1>2 DEF Open
<1>4. CASE Heads(D, r.digest)
  BY <1>1, <1>4 DEF Chosen
<1>5. CASE ~Heads(D, r.digest)
  <2>1. PICK a \in 0..(Attempts - 1) :
           /\ r.slot = generator[r.digest][a]
           /\ Open(R, D, r.digest, r.slot)
           /\ \A b \in 0..(a - 1) : ~Open(R, D, r.digest, generator[r.digest][b])
    BY <1>5 DEF Chosen
  <2>2. /\ r.slot = generator'[r.digest][a]
        /\ Open(R, D, r.digest, r.slot)'
        /\ \A b \in 0..(a - 1) : ~Open(R, D, r.digest, generator[r.digest][b])'
    BY <1>3, <2>1
  <2> QED
    BY <1>1, <1>5, <2>2 DEF Chosen
<1> QED
  BY <1>4, <1>5

-----------------------------------------------------------------------------
(* The queues build the canonical assignment. *)

\* The identities with a slot come before those of the current group, and these before those
\* of the hashes still queued.
SlotOrder ==
    /\ \A r \in slotOf : \A h \in hashes : legacyHash[r.digest] < h
    /\ \A r \in slotOf : \A d \in collided : Before(r.digest, d)
    /\ \A d \in collided : \A h \in hashes : legacyHash[d] < h
    /\ \A d, e \in collided : legacyHash[d] = legacyHash[e]
    /\ \A d \in collided : ~Heads(Digests(ToSet(rows)), d)

\* The attempts made for the first identity of the group found no available slot.
AttemptInv ==
    /\ collided = {} => attempt = 0
    /\ collided # {} => \A b \in 0..(attempt - 1) : ~Available(generator[Min(collided)][b])

\* The slots given so far are the ones their identities must get.
ChosenInv ==
    /\ \A r \in slotOf : r = Row(r.slot, r.digest)
    /\ \A r \in slotOf : Chosen(slotOf, Digests(ToSet(rows)), r)

\* The table was written without identities, or is the canonical assignment of its own.
TableInv ==
    (\A r \in table : r.digest = Null) \/ Canonical(table, Digests(table))

OrderInv == SlotOrder /\ AttemptInv /\ ChosenInv

\* No slot is left of an import that is over.
LEMMA OrderEnd ==
    ASSUME EndImport
    PROVE  OrderInv'
BY DEF EndImport, OrderInv, SlotOrder, AttemptInv, ChosenInv

\* Before slots are assigned the queues are empty.
LEMMA OrderBefore ==
    ASSUME SlotsInv, pc # "assign", UNCHANGED <<hashes, collided, slotOf, attempt>>, OrderInv
    PROVE  OrderInv'
BY DEF SlotsInv, NothingAssignedYet, OrderInv, SlotOrder, AttemptInv, ChosenInv

\* A group starts: its first identity comes after all that have a slot, and gets the hash.
LEMMA OrderStartGroup ==
    ASSUME SlotsInv, OrderInv, StartGroup
    PROVE  OrderInv'
<1> DEFINE D == Digests(ToSet(rows))
           h == Min(hashes)
           d == First(Group(h))
           q == Row(h, d)
<1>1. /\ pc = "assign" /\ collided = {} /\ attempt = 0 /\ attempt' = attempt /\ hashes # {}
      /\ slotOf' = slotOf \cup {q} /\ collided' = Group(h) \ {d} /\ hashes' = hashes \ {h}
      /\ legacyHash' = legacyHash /\ rows' = rows /\ generator' = generator
  BY DEF StartGroup, OrderInv, AttemptInv
<1>2. h \in hashes /\ \A k \in hashes : h <= k /\ k \in Nat
  <2>1. hashes \in SUBSET Nat
    BY <1>1, LeastHash, ConstantsAssumption DEF SlotsInv
  <2> QED
    BY <1>1, <2>1, MinInSet
<1>3. Group(h) \subseteq D /\ Group(h) # {} /\ \A e \in Group(h) : legacyHash[e] = h /\ e \in Nat
  <2>1. h \in Reserved
    BY <1>2 DEF SlotsInv, SlotsTypeOK
  <2>2. D \subseteq Nat
    BY RowDigests, ConstantsAssumption DEF SlotsInv
  <2> QED
    BY <2>1, <2>2 DEF Group, Reserved
<1>4. d \in Group(h) /\ \A e \in Group(h) : d <= e
  <2>1. Group(h) \in SUBSET Nat
    BY <1>3
  <2> QED
    BY <1>3, <2>1, MinInSet DEF First
<1>5. q.slot = h /\ q.digest = d /\ q = Row(q.slot, q.digest)
  BY DEF Row
<1>6. /\ \A r \in slotOf : r.digest \in D /\ legacyHash[r.digest] < h /\ legacyHash[r.digest] \in Nat
      /\ h \in Nat /\ d \in Nat /\ d \in D /\ legacyHash[d] = h
  <2>1. \A r \in slotOf : r.digest \in D
    BY DEF SlotsInv, SlotsTypeOK
  <2>2. \A r \in slotOf : legacyHash[r.digest] \in Nat
    BY <2>1, HashTypes, RowDigests DEF SlotsInv
  <2> QED
    BY <1>2, <1>3, <1>4, <2>1, <2>2 DEF OrderInv, SlotOrder
<1>7. D' = D
  BY <1>1
<1>8. \A e \in Group(h) : Heads(D, e) <=> e = d
  <2>1. \A e \in D : legacyHash[e] = h => e \in Group(h)
    BY DEF Group
  <2>2. Heads(D, d)
    BY <1>4, <1>6, <2>1 DEF Heads
  <2>3. ASSUME NEW e \in Group(h), Heads(D, e) PROVE e = d
    <3>1. e <= d
      BY <1>3, <1>6, <2>3 DEF Heads
    <3>2. d <= e /\ e \in Nat
      BY <1>3, <1>4
    <3> QED
      BY <1>6, <3>1, <3>2
  <2> QED
    BY <2>2, <2>3
<1> HIDE DEF D, h, d, q
<1>9. SlotOrder'
  <2>1. \A r \in slotOf' : \A k \in hashes' : legacyHash'[r.digest] < k
    <3>1. \A k \in hashes' : h < k /\ k \in Nat
      BY <1>1, <1>2, <1>6
    <3>2. \A r \in slotOf' : legacyHash[r.digest] <= h /\ legacyHash[r.digest] \in Nat
      BY <1>1, <1>5, <1>6
    <3> QED
      BY <1>1, <1>6, <3>1, <3>2
  <2>2. \A r \in slotOf' : \A e \in collided' : Before(r.digest, e)'
    <3> SUFFICES ASSUME NEW r \in slotOf', NEW e \in collided' PROVE Before(r.digest, e)
      BY <1>1 DEF Before
    <3>1. legacyHash[e] = h /\ e \in Nat /\ d <= e /\ e # d
      BY <1>1, <1>3, <1>4
    <3>2. CASE r \in slotOf
      BY <1>6, <3>1, <3>2 DEF Before
    <3>3. CASE r = q
      <4>1. d < e
        BY <1>6, <3>1
      <4> QED
        BY <1>5, <1>6, <3>1, <3>3, <4>1 DEF Before
    <3> QED
      BY <1>1, <3>2, <3>3
  <2>3. \A e \in collided' : \A k \in hashes' : legacyHash'[e] < k
    <3>1. \A k \in hashes' : h < k /\ k \in Nat
      BY <1>1, <1>2, <1>6
    <3> QED
      BY <1>1, <1>3, <3>1
  <2>4. \A e, f \in collided' : legacyHash'[e] = legacyHash'[f]
    BY <1>1, <1>3
  <2>5. \A e \in collided' : ~Heads(D, e)
    BY <1>1, <1>8
  <2>6. \A e \in collided' : ~Heads(Digests(ToSet(rows)), e)'
    BY <1>1, <2>5 DEF Heads, D
  <2> QED
    BY <2>1, <2>2, <2>3, <2>4, <2>6 DEF SlotOrder
<1>10. AttemptInv'
  <2>1. attempt' = 0
    BY <1>1
  <2> QED
    BY <2>1 DEF AttemptInv
<1>11. ChosenInv'
  <2>1. \A r \in slotOf : Chosen(slotOf \cup {q}, D, r)
    <3> SUFFICES ASSUME NEW r \in slotOf PROVE Chosen(slotOf \cup {q}, D, r)
      OBVIOUS
    <3>1. ~Before(q.digest, r.digest)
      BY <1>5, <1>6 DEF Before
    <3>2. Chosen(slotOf, D, r)
      BY DEF OrderInv, ChosenInv, D
    <3> QED
      BY <3>1, <3>2, ChosenStays
  <2>2. Chosen(slotOf \cup {q}, D, q)
    BY <1>4, <1>5, <1>6, <1>8 DEF Chosen
  <2>3. \A r \in slotOf' : Chosen(slotOf', D, r)
    BY <1>1, <2>1, <2>2
  <2>4. (\A r \in slotOf : Chosen(slotOf, Digests(ToSet(rows)), r))'
    BY <1>1, <2>3, ChosenFrame DEF D
  <2>5. \A r \in slotOf' : r = Row(r.slot, r.digest)
    BY <1>1, <1>5 DEF OrderInv, ChosenInv
  <2> QED
    BY <2>4, <2>5 DEF ChosenInv
<1> QED
  BY <1>9, <1>10, <1>11 DEF OrderInv

\* An identity of a group gets the first available slot of its generator.
LEMMA OrderTryCandidate ==
    ASSUME SlotsInv, OrderInv, TryCandidate
    PROVE  OrderInv'
<1> DEFINE D == Digests(ToSet(rows))
           d == Min(collided)
           c == generator[d][attempt]
           q == Row(c, d)
<1>1. /\ pc = "assign" /\ collided # {} /\ attempt < Attempts /\ attempt \in Nat /\ Attempts \in Nat
      /\ hashes' = hashes /\ legacyHash' = legacyHash /\ rows' = rows /\ generator' = generator
  BY ConstantsAssumption DEF TryCandidate, SlotsInv, SlotsTypeOK
<1>2. collided \subseteq D /\ d \in collided /\ d \in Nat /\ \A e \in collided : d <= e /\ e \in Nat
  <2>1. collided \subseteq D
    BY DEF SlotsInv, SlotsTypeOK
  <2>2. collided \in SUBSET Nat
    BY <2>1, RowDigests, ConstantsAssumption DEF SlotsInv
  <2> QED
    BY <1>1, <2>1, <2>2, MinInSet
<1>3. CASE ~Available(c)
  <2>1. slotOf' = slotOf /\ collided' = collided /\ attempt' = attempt + 1
    BY <1>3 DEF TryCandidate
  <2>2. \A b \in 0..attempt : ~Available(generator[d][b])
    <3>1. \A b \in 0..attempt : b \in 0..(attempt - 1) \/ b = attempt
      BY <1>1
    <3>2. \A b \in 0..(attempt - 1) : ~Available(generator[d][b])
      BY <1>1 DEF OrderInv, AttemptInv
    <3> QED
      BY <1>3, <3>1, <3>2
  <2>3. (attempt + 1) - 1 = attempt
    BY <1>1
  <2>4. AttemptInv'
    BY <1>1, <2>1, <2>2, <2>3 DEF AttemptInv, Available, Reserved
  <2> QED
    BY <1>1, <2>1, <2>4 DEF OrderInv, SlotOrder, Before, Heads, ChosenInv, Chosen, Open
<1>4. CASE Available(c)
  <2>1. slotOf' = slotOf \cup {q} /\ collided' = collided \ {d} /\ attempt' = 0
    BY <1>4 DEF TryCandidate
  <2>2. q.slot = c /\ q.digest = d /\ q = Row(q.slot, q.digest)
    BY DEF Row
  <2>3. /\ \A r \in slotOf : /\ Before(r.digest, d)
                             /\ legacyHash[r.digest] \in Nat /\ r.digest \in Nat
        /\ legacyHash[d] \in Nat /\ ~Heads(D, d)
        /\ \A e \in collided : legacyHash[e] = legacyHash[d]
    <3>1. \A r \in slotOf : r.digest \in Digest /\ d \in Digest
      BY <1>2, RowDigests DEF SlotsInv, SlotsTypeOK
    <3>2. \A r \in slotOf : legacyHash[r.digest] \in Nat /\ r.digest \in Nat
      BY <3>1, HashTypes DEF SlotsInv
    <3>3. legacyHash[d] \in Nat
      BY <1>2, RowDigests, HashTypes DEF SlotsInv
    <3> QED
      BY <1>2, <3>2, <3>3 DEF OrderInv, SlotOrder
  <2>4. \A k : Open(slotOf, D, d, k) <=> Available(k)
    BY <2>3 DEF Open, Available, Reserved, SlotsIn
  <2>5. \A b \in 0..(attempt - 1) : ~Open(slotOf, D, d, generator[d][b])
    BY <1>1, <2>4 DEF OrderInv, AttemptInv
  <2> HIDE DEF d, c, q, D
  <2>6. ~Before(d, d) /\ \A r \in slotOf : ~Before(d, r.digest)
    BY <1>2, <2>3 DEF Before
  <2>7. Chosen(slotOf \cup {q}, D, q)
    <3>1. \A k : Open(slotOf \cup {q}, D, d, k) <=> Open(slotOf, D, d, k)
      BY <2>2, <2>6 DEF Open
    <3>2. c = generator[d][attempt] /\ attempt \in 0..(Attempts - 1)
      BY <1>1 DEF c
    <3>3. /\ q.slot = generator[q.digest][attempt]
          /\ Open(slotOf \cup {q}, D, q.digest, q.slot)
          /\ \A b \in 0..(attempt - 1) : ~Open(slotOf \cup {q}, D, q.digest, generator[q.digest][b])
      BY <1>4, <2>2, <2>4, <2>5, <3>1, <3>2
    <3> QED
      BY <2>2, <2>3, <3>2, <3>3 DEF Chosen
  <2>8. ChosenInv'
    <3>1. \A r \in slotOf : Chosen(slotOf \cup {q}, D, r)
      <4> SUFFICES ASSUME NEW r \in slotOf PROVE Chosen(slotOf \cup {q}, D, r)
        OBVIOUS
      <4>1. ~Before(q.digest, r.digest)
        BY <2>2, <2>6
      <4>2. Chosen(slotOf, D, r)
        BY DEF OrderInv, ChosenInv, D
      <4> QED
        BY <4>1, <4>2, ChosenStays
    <3>2. \A r \in slotOf' : Chosen(slotOf', D, r)
      BY <2>1, <2>7, <3>1
    <3>3. (\A r \in slotOf : Chosen(slotOf, Digests(ToSet(rows)), r))'
      BY <1>1, <3>2, ChosenFrame DEF D
    <3>4. \A r \in slotOf' : r = Row(r.slot, r.digest)
      BY <2>1, <2>2 DEF OrderInv, ChosenInv
    <3> QED
      BY <3>3, <3>4 DEF ChosenInv
  <2>9. SlotOrder'
    <3>1. \A r \in slotOf' : \A k \in hashes' : legacyHash'[r.digest] < k
      BY <1>1, <1>2, <2>1, <2>2 DEF OrderInv, SlotOrder
    <3>2. \A r \in slotOf' : \A e \in collided' : Before(r.digest, e)'
      <4> SUFFICES ASSUME NEW r \in slotOf', NEW e \in collided' PROVE Before(r.digest, e)
        BY <1>1 DEF Before
      <4>1. CASE r \in slotOf
        BY <2>1, <4>1 DEF OrderInv, SlotOrder
      <4>2. CASE r = q
        <5>1. d <= e /\ e # d /\ e \in Nat /\ legacyHash[e] = legacyHash[d]
          BY <1>2, <2>1, <2>3
        <5>2. d < e
          BY <1>2, <5>1
        <5> QED
          BY <2>2, <4>2, <5>1, <5>2 DEF Before
      <4> QED
        BY <2>1, <4>1, <4>2
    <3>3. /\ \A e \in collided' : \A k \in hashes' : legacyHash'[e] < k
          /\ \A e, f \in collided' : legacyHash'[e] = legacyHash'[f]
      BY <1>1, <2>1 DEF OrderInv, SlotOrder
    <3>4. \A e \in collided' : ~Heads(Digests(ToSet(rows)), e)'
      BY <1>1, <2>1 DEF OrderInv, SlotOrder, Heads
    <3> QED
      BY <3>1, <3>2, <3>3, <3>4 DEF SlotOrder
  <2>10. AttemptInv'
    <3>1. attempt' = 0
      BY <2>1
    <3> QED
      BY <3>1 DEF AttemptInv
  <2> QED
    BY <2>8, <2>9, <2>10 DEF OrderInv
<1> QED
  BY <1>3, <1>4

\* Every step keeps the slots what they must be.
LEMMA OrderNext ==
    ASSUME SlotsInv, OrderInv, [Next]_vars
    PROVE  OrderInv'
<1>1. CASE \E s \in Inputs : Read(s)
  BY <1>1, OrderBefore DEF Read
<1>2. CASE Deduplicate
  BY <1>2, OrderBefore DEF Deduplicate
<1>3. CASE ConflictingPayloads \/ Exhausted \/ Persist
  BY <1>3, OrderEnd DEF ConflictingPayloads, Exhausted, Persist
<1>4. CASE EndDeduplicate
  BY <1>4 DEF EndDeduplicate, SlotsInv, NothingAssignedYet, OrderInv, SlotOrder, AttemptInv, ChosenInv
<1>5. CASE StartGroup
  BY <1>5, OrderStartGroup
<1>6. CASE TryCandidate
  BY <1>6, OrderTryCandidate
<1>7. CASE UNCHANGED vars
  <2>1. UNCHANGED Reserved
    BY <1>7 DEF vars, Reserved
  <2> QED
    BY <1>7, <2>1
       DEF vars, OrderInv, SlotOrder, Before, Heads, AttemptInv, Available, ChosenInv, Chosen, Open
<1> QED
  BY <1>1, <1>2, <1>3, <1>4, <1>5, <1>6, <1>7 DEF Next

\* What an import writes is the canonical assignment of the identities it read.
LEMMA PersistIsCanonical ==
    ASSUME SlotsInv, CompleteInv, OrderInv, Persist
    PROVE  Canonical(slotOf, Digests(ToSet(rows)))
<1>1. Digests(slotOf) = Digests(ToSet(rows))
  <2>1. Digests(slotOf) \subseteq Digests(ToSet(rows))
    BY DEF SlotsInv, SlotsTypeOK, Digests
  <2>2. Digests(ToSet(rows)) \subseteq Digests(slotOf)
    BY DEF Persist, CompleteInv, NobodyIsForgotten
  <2> QED
    BY <2>1, <2>2
<1>2. Digests(ToSet(rows)) \subseteq Digest
  BY RowDigests DEF SlotsInv
<1>3. \A r, q \in slotOf : r.digest = q.digest => r = q
  BY DEF SlotsInv, SlotsAreUnique
<1> QED
  BY <1>1, <1>2, <1>3 DEF Canonical, OrderInv, ChosenInv

\* The table is always what it was before identities were stored, or canonical.
LEMMA TableNext ==
    ASSUME SlotsInv, CompleteInv, OrderInv, TableInv, [Next]_vars
    PROVE  TableInv'
<1>1. UNCHANGED <<legacyHash, generator>>
  BY DEF Next, vars, Read, Deduplicate, ConflictingPayloads, EndDeduplicate, StartGroup,
         TryCandidate, Exhausted, Persist, EndImport
<1>2. CASE Persist
  <2>1. table' = slotOf
    BY <1>2, PersistReplaces
  <2>2. Canonical(slotOf, Digests(slotOf))
    BY <1>2, PersistIsCanonical DEF Canonical
  <2>3. Canonical(table, Digests(table))'
    BY <1>1, <2>1, <2>2, ChosenFrame DEF Canonical, Digests
  <2> QED
    BY <2>3 DEF TableInv
<1>3. CASE UNCHANGED table
  BY <1>1, <1>3, ChosenFrame DEF TableInv, Canonical
<1>4. Persist \/ UNCHANGED table
  BY DEF Next, vars, Read, Deduplicate, ConflictingPayloads, EndDeduplicate, StartGroup,
         TryCandidate, Exhausted
<1> QED
  BY <1>2, <1>3, <1>4

\* Two canonical assignments of the same identities are one.
LEMMA PersistIsStable ==
    ASSUME SlotsInv, CompleteInv, OrderInv, TableInv, Persist,
           Digests(ToSet(rows)) = Digests(table)
    PROVE  table' = table
<1> DEFINE D == Digests(ToSet(rows))
<1>1. table' = slotOf
  BY PersistReplaces
<1>2. Canonical(slotOf, D)
  BY PersistIsCanonical
<1>3. CASE Canonical(table, Digests(table))
  <2>1. Canonical(table, D)
    BY <1>3
  <2> HIDE DEF D
  <2>2. slotOf \subseteq table /\ table \subseteq slotOf
    BY <1>2, <2>1, CanonicalIsUnique DEF SlotsInv
  <2> QED
    BY <1>1, <2>2
<1>4. CASE \A r \in table : r.digest = Null
  <2>1. Null \notin D
    BY <1>2, ConstantsAssumption DEF Canonical
  <2>2. table = {}
    BY <1>4, <2>1 DEF Digests
  <2>3. D = {}
    BY <2>2 DEF Digests
  <2>4. slotOf = {}
    BY <1>2, <2>3 DEF Canonical, Digests
  <2> QED
    BY <1>1, <2>2, <2>4
<1> QED
  BY <1>3, <1>4 DEF TableInv

\* The slots depend on the identities alone: an import of what the table holds, in whatever
\* order its source lists it, for every hash and every generator, changes no row.
THEOREM ReimportIsStable == Spec => ReimportChangesNothing
<1>1. Init => CompleteInv /\ OrderInv /\ TableInv
  BY DEF Init, CompleteInv, RowsAreDistinct, NobodyIsForgotten, OrderInv, SlotOrder, AttemptInv,
         ChosenInv, TableInv, Row
<1>2. SlotsInv /\ CompleteInv /\ [Next]_vars => CompleteInv'
  BY CompleteNext
<1>3. SlotsInv /\ OrderInv /\ [Next]_vars => OrderInv'
  BY OrderNext
<1>4. SlotsInv /\ CompleteInv /\ OrderInv /\ TableInv /\ [Next]_vars => TableInv'
  BY TableNext
<1>5. SlotsInv /\ CompleteInv /\ OrderInv /\ TableInv =>
        (Persist /\ Digests(ToSet(rows)) = Digests(table) => table' = table)
  BY PersistIsStable
<1> QED
  BY <1>1, <1>2, <1>3, <1>4, <1>5, SlotsInvariant, PTL DEF Spec, ReimportChangesNothing
=============================================================================

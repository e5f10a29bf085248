------------------------- MODULE CompatibilitySlots -------------------------
(***************************************************************************)
(* The relation rows of one root in a table keyed by a signed 32-bit slot. *)
(* A row's identity is the digest of its payload; its slot is the legacy   *)
(* hash of the payload, which distinct payloads may share, so all but one  *)
(* of those that do receive a generated slot.  An import deduplicates the  *)
(* rows of its source, assigns slots and reconciles the table with them.   *)
(*                                                                         *)
(* Digests are numbers in their byte order.  The hash and the generator of *)
(* slots are any functions: a behaviour picks one of each.                 *)
(***************************************************************************)
EXTENDS Integers, Sequences, FiniteSets, FiniteSetsExt, SequencesExt

CONSTANTS
    Digest,        \* SHA-256 identities
    Payload,       \* payloads with the same digest
    Slot,          \* signed 32-bit slots, counted from the least
    LegacyHashes,  \* hash functions, Digest -> Slot
    Generators,    \* generators of slots, Digest -> attempt -> Slot
    Attempts,      \* bound: attempts of the generator (2^32 in the code)
    Inputs,        \* sources: sequences of [digest, payload]
    MaxImports     \* bound: imports

Null == 0  \* the identity of a row written before identities were stored

ASSUME ConstantsAssumption ==
    /\ Digest \subseteq Nat \ {Null}
    /\ Slot \subseteq Nat
    /\ LegacyHashes \subseteq [Digest -> Slot]
    /\ Attempts \in Nat
    /\ Generators \subseteq [Digest -> [0..(Attempts - 1) -> Slot]]
    /\ Inputs \subseteq Seq([digest : Digest, payload : Payload])
    /\ MaxImports \in Nat

VARIABLES
    legacyHash,  \* the hash function of this behaviour
    generator,   \* its generator
    table,       \* rows: [slot, digest]
    imports,     \* imports so far
    pc,
    source,      \* rows not deduplicated yet
    rows,        \* deduplicated rows, in the order of the source
    hashes,      \* legacy hashes whose group has no slots yet
    collided,    \* rows of the current group that still need a slot
    attempt,     \* attempts made for the first of them
    slotOf       \* slots assigned: a set of [slot, digest]

vars == <<legacyHash, generator, table, imports, pc, source, rows, hashes, collided, attempt,
          slotOf>>

\* A row, and the columns of a set of rows.
Row(s, d) == [slot |-> s, digest |-> d]
Digests(R) == {r.digest : r \in R}
SlotsIn(R) == {r.slot : r \in R}

\* A table is empty or was filled by an importer that stored no identities.
Init ==
    /\ legacyHash \in LegacyHashes
    /\ generator \in Generators
    /\ table \in {{Row(s, Null) : s \in S} : S \in SUBSET Slot}
    /\ imports = 0
    /\ pc = "idle"
    /\ source = <<>>
    /\ rows = <<>>
    /\ hashes = {}
    /\ collided = {}
    /\ attempt = 0
    /\ slotOf = {}

\* The rows of a root are collected from the source.
Read(s) ==
    /\ pc = "idle"
    /\ imports < MaxImports
    /\ imports' = imports + 1
    /\ pc' = "deduplicate"
    /\ source' = s
    /\ UNCHANGED <<legacyHash, generator, table, rows, hashes, collided, attempt, slotOf>>

\* The step ends, with an error or after the write.
EndImport ==
    /\ pc' = "idle"
    /\ source' = <<>>
    /\ rows' = <<>>
    /\ hashes' = {}
    /\ collided' = {}
    /\ attempt' = 0
    /\ slotOf' = {}
    /\ UNCHANGED <<legacyHash, generator, imports>>

-----------------------------------------------------------------------------
(***************************************************************************)
(* deduplicateHashedRowsWithAllocator.                                     *)
(***************************************************************************)
\* The first row of an identity is kept, an equal one skipped.
Deduplicate ==
    /\ pc = "deduplicate"
    /\ source # <<>>
    /\ LET item == Head(source)
       IN  /\ \A r \in ToSet(rows) : r.digest = item.digest => r = item
           /\ rows' = IF item \in ToSet(rows) THEN rows ELSE Append(rows, item)
    /\ source' = Tail(source)
    /\ UNCHANGED <<legacyHash, generator, table, imports, pc, hashes, collided, attempt, slotOf>>

\* Another payload with the same digest is an error.
ConflictingPayloads ==
    /\ pc = "deduplicate"
    /\ source # <<>>
    /\ \E r \in ToSet(rows) : r.digest = Head(source).digest /\ r # Head(source)
    /\ EndImport
    /\ UNCHANGED table

\* The hashes of all rows are reserved before any slot is generated.
Reserved == {legacyHash[d] : d \in Digests(ToSet(rows))}

EndDeduplicate ==
    /\ pc = "deduplicate"
    /\ source = <<>>
    /\ hashes' = Reserved
    /\ pc' = "assign"
    /\ UNCHANGED <<legacyHash, generator, table, imports, source, rows, collided, attempt, slotOf>>

-----------------------------------------------------------------------------
(***************************************************************************)
(* assignRelationCompatibilitySlotsWith.                                   *)
(***************************************************************************)
\* Mutation: the groups of earlier roots are not dropped.
GroupOfAll(h) == {d \in Digest : legacyHash[d] = h}

Group(h) == {d \in Digests(ToSet(rows)) : legacyHash[d] = h}

\* Mutation: a group keeps the order of the source.
FirstRead(G) == rows[Min({i \in DOMAIN rows : rows[i].digest \in G})].digest

First(G) == Min(G)

\* The next hash goes to the first identity of its group.
StartGroup ==
    /\ pc = "assign"
    /\ collided = {}
    /\ hashes # {}
    /\ LET h == Min(hashes)
           d == First(Group(h))
       IN  /\ slotOf' = slotOf \cup {Row(h, d)}
           /\ collided' = Group(h) \ {d}
           /\ hashes' = hashes \ {h}
    /\ UNCHANGED <<legacyHash, generator, table, imports, pc, source, rows, attempt>>

\* Mutation: slots of later groups are not reserved.
AvailableUnassigned(c) == c \notin SlotsIn(slotOf)

Available(c) == c \notin Reserved /\ c \notin SlotsIn(slotOf)

\* Another identity of the group takes the first available slot its digest generates.
TryCandidate ==
    /\ pc = "assign"
    /\ collided # {}
    /\ attempt < Attempts
    /\ LET d == Min(collided)
           c == generator[d][attempt]
       IN  IF Available(c)
           THEN /\ slotOf' = slotOf \cup {Row(c, d)}
                /\ collided' = collided \ {d}
                /\ attempt' = 0
           ELSE /\ attempt' = attempt + 1
                /\ UNCHANGED <<slotOf, collided>>
    /\ UNCHANGED <<legacyHash, generator, table, imports, pc, source, rows, hashes>>

\* "signed 32-bit slot space exhausted".
Exhausted ==
    /\ pc = "assign"
    /\ collided # {}
    /\ attempt = Attempts
    /\ EndImport
    /\ UNCHANGED table

-----------------------------------------------------------------------------
\* Mutation: rows are compared by their slots alone.
KeptBySlot(incoming) == {r \in table : r.slot \in SlotsIn(incoming)}

\* The rows that reconcileDigestIntegerRelation does not delete: slot and identity are both
\* incoming.  (A null identity equals none.)
Kept(incoming) == table \cap incoming

\* One transaction deletes the other rows and inserts, on conflict do nothing.
Persist ==
    /\ pc = "assign"
    /\ hashes = {}
    /\ collided = {}
    /\ table' = Kept(slotOf) \cup {r \in slotOf : r.slot \notin SlotsIn(Kept(slotOf))}
    /\ EndImport

Next ==
    \/ \E s \in Inputs : Read(s)
    \/ Deduplicate
    \/ ConflictingPayloads
    \/ EndDeduplicate
    \/ StartGroup
    \/ TryCandidate
    \/ Exhausted
    \/ Persist

Spec == Init /\ [][Next]_vars
-----------------------------------------------------------------------------
(***************************************************************************)
(* Properties.                                                             *)
(***************************************************************************)
\* Rows, slots and queues are of their types, and what is queued was read.
SlotsTypeOK ==
    /\ legacyHash \in LegacyHashes
    /\ generator \in Generators
    /\ table \subseteq [slot : Slot, digest : Digest \cup {Null}]
    /\ imports \in 0..MaxImports
    /\ pc \in {"idle", "deduplicate", "assign"}
    /\ source \in Seq([digest : Digest, payload : Payload])
    /\ rows \in Seq([digest : Digest, payload : Payload])
    /\ hashes \subseteq Reserved
    /\ collided \subseteq Digests(ToSet(rows))
    /\ attempt \in 0..Attempts
    /\ slotOf \subseteq [slot : Slot, digest : Digests(ToSet(rows))]

\* No slot is given to two identities and no identity gets two slots, however hashes and
\* generated slots collide: no insert of the relation can lose a row to the other.
SlotsAreUnique ==
    \A r, q \in slotOf : r.slot = q.slot \/ r.digest = q.digest => r = q

\* An identity that shares its legacy hash with no other keeps the hash as its slot: rows
\* written before identities existed keep their keys, whatever the other rows generate.
UnsharedHashIsSlot ==
    [][ Persist =>
          \A d \in Digests(ToSet(rows)) :
              Group(legacyHash[d]) = {d} => Row(legacyHash[d], d) \in table' ]_vars

\* After an import the table holds every identity of its source once and nothing else, no
\* row of an older source and none without an identity.
ImportedExactly ==
    [][ Persist =>
          /\ Digests(table') = Digests(ToSet(rows))
          /\ Cardinality(table') = Len(rows) ]_vars

\* An import of the identities that the table holds changes no row, in whatever order its
\* source lists them.
ReimportChangesNothing ==
    [][ Persist /\ Digests(ToSet(rows)) = Digests(table) => table' = table ]_vars
=============================================================================

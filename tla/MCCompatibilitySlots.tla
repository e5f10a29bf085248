------------------------ MODULE MCCompatibilitySlots ------------------------
(* Three identities and three slots for CompatibilitySlots, every hash function and every    *)
(* generator of two attempts.                                                                *)
EXTENDS CompatibilitySlots

Item(d) == [digest |-> d, payload |-> "p"]

MCLegacyHashes == [1..3 -> 1..3]

\* Identity 1 is the first of its group and never asks the generator.
MCGenerators ==
    {g \in [1..3 -> [0..1 -> 1..3]] : g[1] = [k \in 0..1 |-> 1]}

\* Every order of every set of identities, a duplicate and a forged one.
MCInputs ==
    {[i \in DOMAIN s |-> Item(s[i])] :
        s \in UNION {SetToSeqs(S) : S \in SUBSET (1..3)} \cup {<<2, 1, 2>>}}
    \cup {<<Item(1), [digest |-> 1, payload |-> "q"]>>}
=============================================================================

---------------------------- MODULE MCFactStore ----------------------------
(* An instance of FactStore for TLC: two texts about ann that are near      *)
(* duplicates, one about bob and the blank one.                             *)
EXTENDS FactStore, TLC

CONSTANTS ann, bob, a1, a2, b1, blank

MCText == {a1, a2, b1, blank}
MCEntity == {ann, bob}
MCEntities == (a1 :> {ann}) @@ (a2 :> {ann}) @@ (b1 :> {bob}) @@ (blank :> {})
MCNearDup == {<<a1, a2>>}

Symmetry == Permutations(FactId) \cup Permutations(Task)
============================================================================

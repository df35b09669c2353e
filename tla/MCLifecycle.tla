---------------------------- MODULE MCLifecycle ----------------------------
(* An instance of Lifecycle for TLC: a text and a derived one opposed to    *)
(* it, a user (trust 3) and an untrusted source (trust 1).  At most Seeds   *)
(* rows exist at the start, a core memory a of the user.                    *)
EXTENDS LifecycleAlone, TLC

CONSTANTS a, b, Seeds

MCOpposed == {<<a, b>>, <<b, a>>}

Symmetry == Permutations(FactId) \cup Permutations(Task)

MCInit == /\ AloneInit /\ Cardinality(Present) <= Seeds
          /\ \A i \in Present : text[i] = a /\ belief[i] = Core /\ trust[i] = 3 /\ ~prot[i]
MCSpec == MCInit /\ [][AloneNext]_<<vars, alone, found>>
============================================================================

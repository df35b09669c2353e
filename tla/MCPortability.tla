--------------------------- MODULE MCPortability ---------------------------
(* The instance of Portability for TLC: an intention and checks of its cue, *)
(* an edge and its node, and a playbook among the facts.                    *)
EXTENDS Portability, TLC

CONSTANTS node, edge, skill

MCEnds == [e \in {edge} |-> {node}]

Symmetric == Permutations(Check)
=============================================================================

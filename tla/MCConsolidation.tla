--------------------------- MODULE MCConsolidation ---------------------------
(* An instance of Consolidation for TLC: a percept worth keeping and two    *)
(* episodes that make one batch, the older of them there from the start.    *)
EXTENDS Consolidation

CONSTANTS old, young

MCInit == Init /\ episode[old] = "aged" /\ episode[young] = "free"
MCSpec == MCInit /\ [][Next]_vars /\ Fairness
=============================================================================

--------------------------- MODULE LifecycleAlone ---------------------------
(* Lifecycle with two history variables, which tell the requests during     *)
(* which nothing else moved and what their search found opposed: what an    *)
(* operation of the fact lifecycle promises by itself.                      *)
EXTENDS Lifecycle

VARIABLES
    alone, \* alone[t]: only the request of t moved since it began
    found  \* found[t]: the opposed candidates of its search

Track ==
    /\ alone' = [t \in Task |-> \/ "idle" \in {pc[t], pc'[t]}
                                \/ alone[t] /\ <<pc'[t], loc'[t]>> # <<pc[t], loc[t]>>]
    /\ found' = [t \in Task |->
                    IF pc'[t] = "idle" THEN {}
                    ELSE IF pc[t] = "search" THEN loc'[t].foes ELSE found[t]]

AloneInit == Init /\ alone = [t \in Task |-> TRUE] /\ found = [t \in Task |-> {}]
AloneNext == Next /\ Track
AloneSpec == AloneInit /\ [][AloneNext]_<<vars, alone, found>>
-----------------------------------------------------------------------------
(* A remember that ran alone and without an error superseded every fact its *)
(* search found opposed to the new one (the loop of engine.py lines 196 to  *)
(* 217).                                                                    *)
OpposedSuperseded ==
    [][\A t \in Task :
          pc[t] = "quarantine" /\ pc'[t] = "idle" /\ alone[t] /\ faults' = 0
             => \A c \in found[t] : <<loc[t].new, c>> \in settled' /\ c \notin Active']_<<vars, alone, found>>

(* Neither the sweep nor the evolution of neighbours touches a protected    *)
(* row, when nothing else runs meanwhile ("protected core is never          *)
(* rewritten", consolidation.py line 226; forgetting.py line 116).          *)
ProtectedSpared ==
    [][\A t \in Task :
          pc[t] \in {"sweep", "rewrite"} /\ alone[t] /\ loc'[t] # loc[t]
             => \A i \in FactId : prot[i] => text'[i] = text[i] /\ active'[i] = active[i]]_<<vars, alone, found>>
=============================================================================

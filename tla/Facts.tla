-------------------------------- MODULE Facts --------------------------------
(***************************************************************************)
(* What the store of atomic facts promises to the callers of insert_fact,  *)
(* update_memory, delete_memory and delete_all, whatever steps a request   *)
(* takes inside: facts are remembered one at a time under an id never used *)
(* before, a fact is retired for good, what it said never changes, and a   *)
(* caller is answered with a fact the store knows or with an error.        *)
(* FactStore implements this (Refines there, Implements in FactStoreProofs).*)
(***************************************************************************)
CONSTANTS FactId, Text, Task, NoFact, Failed

VARIABLES
    kept,   \* the facts the store remembers
    gone,   \* the facts it remembered and retired
    says,   \* says[i]: the text of fact i
    answer  \* answer[t]: what the last request of task t was told

vars == <<kept, gone, says, answer>>

Known == kept \cup gone

Init ==
    /\ kept = {}
    /\ gone = {}
    /\ says \in [FactId -> Text]
    /\ answer = [t \in Task |-> NoFact]

(* A new fact: nothing the store knows is touched.                          *)
Remember(t, i, x) ==
    /\ i \notin Known
    /\ kept' = kept \cup {i}
    /\ says' = [says EXCEPT ![i] = x]
    /\ answer' = [answer EXCEPT ![t] = i]
    /\ UNCHANGED gone

(* One fact is superseded, updated or deleted.                              *)
Retire(i) ==
    /\ i \in kept
    /\ kept' = kept \ {i}
    /\ gone' = gone \cup {i}
    /\ UNCHANGED <<says, answer>>

(* All of them are.                                                         *)
Clear ==
    /\ kept' = {}
    /\ gone' = Known
    /\ UNCHANGED <<says, answer>>

(* A request ends without storing anything.                                 *)
Reply(t, r) ==
    /\ r \in Known \cup {Failed}
    /\ answer' = [answer EXCEPT ![t] = r]
    /\ UNCHANGED <<kept, gone, says>>

Next ==
    \/ \E t \in Task, i \in FactId, x \in Text : Remember(t, i, x)
    \/ \E i \in FactId : Retire(i)
    \/ Clear
    \/ \E t \in Task, r \in FactId \cup {Failed} : Reply(t, r)

Spec == Init /\ [][Next]_vars
=============================================================================

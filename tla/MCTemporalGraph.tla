--------------------------- MODULE MCTemporalGraph ---------------------------
(* An instance of TemporalGraph for TLC: New York written with and without  *)
(* a space, which owns Al in one text and Bob in another.  Resolution takes *)
(* Al for a prefix of Ann; the embeddings of New York and Bob are near.     *)
EXTENDS TemporalGraph, TLC

CONSTANTS spaced, joined, ann, al, bob, r, n1, n2, n3, e1, e2, f

MCName == {spaced, joined, ann, al, bob}
MCNormal == [x \in MCName |-> x]
MCKey == [x \in MCName |-> IF x = joined THEN spaced ELSE x]
MCClose == {<<al, ann>>}
MCSimilar == {<<spaced, bob>>}
MCTriple == {<<spaced, r, al>>, <<joined, r, bob>>}

Symmetry == Permutations(Task)

(* What two requests that raced left: New York owns Ann, perhaps no longer, *)
(* and also Bob.                                                            *)
Left == \E u, w \in Task :
    /\ u # w
    /\ name = [n \in NodeId |-> CASE n = n1 -> spaced [] n = n2 -> ann [] n = n3 -> bob
                                   [] OTHER -> NoName]
    /\ mention = [n \in NodeId |-> IF n \in {n1, n2} THEN {f} ELSE {}]
    /\ maker = [n \in NodeId |-> CASE n \in {n1, n2} -> u [] n = n3 -> w
                                    [] OTHER -> NoTask]
    /\ \E end \in {0, Open} :
          edge = [e \in EdgeId |->
             CASE e = e1 -> [src |-> n1, tgt |-> n2, rel |-> r, from |-> 0, to |-> end,
                             fact |-> f, writer |-> u]
               [] e = e2 -> [src |-> n1, tgt |-> n3, rel |-> r, from |-> 0, to |-> Open,
                             fact |-> NoFact, writer |-> w]
               [] OTHER -> NoEdge]
    /\ deleted = {} /\ now = 0
    /\ pc = [t \in Task |-> "idle"] /\ loc = [t \in Task |-> NoLocals]
    /\ requests = 0 /\ faults = 0

MCSpec == (Init \/ Left) /\ [][Next]_vars
============================================================================

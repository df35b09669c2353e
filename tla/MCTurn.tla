------------------------------- MODULE MCTurn -------------------------------
(* An instance of Turn for TLC: two requests in one session, which may not  *)
(* have a row yet, and the shortest window that shows an answer before.     *)
EXTENDS Turn

CONSTANTS first, second, session

MCSessionOf == [r \in {first, second} |-> session]
=============================================================================

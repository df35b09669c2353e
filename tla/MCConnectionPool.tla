-------------------------- MODULE MCConnectionPool --------------------------
(* An instance of ConnectionPool for TLC, with the smallest pool that its   *)
(* two writers and its dream cycle cannot exhaust while they wait.          *)
EXTENDS ConnectionPool, TLC

Symmetric == Permutations(Writer)
=============================================================================

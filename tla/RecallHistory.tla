---------------------------- MODULE RecallHistory ----------------------------
(* Recall with history variables for what the search found, where the walk  *)
(* began and which facts were active and which edges open while the request *)
(* ran, and what can be said of an answer in terms of them.                 *)
EXTENDS Recall

VARIABLES
    vec,    \* what search_facts found
    seeds,  \* where the walk began
    seen,   \* the facts active at some moment of the request
    steady, \* those active and linked at every moment of it
    ever,   \* the edges open at some moment of it
    always  \* those open at every moment of it

history == <<vec, seeds, seen, steady, ever, always>>

Fixed == Active \cap linked

(* What is so now and was at every moment, or at some, since the request    *)
(* began.                                                                   *)
Throughout(kept, now, new) == (IF pc = "idle" THEN now ELSE kept) \cap new
Sometime(kept, now, new) == (IF pc = "idle" THEN now ELSE kept) \cup new

Track ==
    IF pc' = "idle"
    THEN vec' = {} /\ seeds' = {} /\ seen' = {} /\ steady' = {} /\ ever' = {} /\ always' = {}
    ELSE /\ vec' = IF pc = "search" THEN hits' ELSE vec
         /\ seeds' = IF pc \in {"walkResolve", "walkBridge"} THEN todo' ELSE seeds
         /\ seen' = Sometime(seen, Active, Active')
         /\ steady' = Throughout(steady, Fixed, Fixed')
         /\ ever' = Sometime(ever, live, live')
         /\ always' = Throughout(always, live, live')

HistoryInit == /\ Init
               /\ vec = {} /\ seeds = {} /\ seen = {} /\ steady = {} /\ ever = {} /\ always = {}
HistoryNext == Next /\ Track
HistorySpec == HistoryInit /\ [][HistoryNext]_<<vars, history>>
-----------------------------------------------------------------------------
(* The expansion only adds: whatever the walk found and however it failed,  *)
(* an answer holds every hit of search_facts (engine.py lines 382-447,      *)
(* "best-effort").                                                          *)
VectorHitsKept ==
    verdict = "ok" => vec \subseteq hits

(* A recall over search and graph answers with a row that was never active  *)
(* while it ran only where _facts_for_entity falls back (lines 47-50): some *)
(* entity of the row had no fact that stayed active and linked.             *)
InactiveOnlyAsFallback ==
    verdict = "ok" /\ ~dated /\ q.kind # "at" =>
        \A f \in hits \ seen :
            \E e \in Mentions[f] : \A g \in steady : e \notin Mentions[g]

(* The rows _facts_for_entity chooses from for e in a store that does not   *)
(* move, before its LIMIT.                                                  *)
FactsOf(e) ==
    LET rows == IF e \in nodes THEN {f \in linked \cap Stored : e \in Mentions[f]} ELSE {}
    IN  IF rows = {} THEN {f \in Active : e \in Mentions[f]} ELSE Preferred(rows)

(* Without writers the walk is complete and breadth-first: of every entity  *)
(* n - 1 < MaxHops edges away at most from where it began it has collected, *)
(* by hop n, all the facts that the LIMIT lets through, and nothing else    *)
(* at hop n (multihop.py lines 96-124).                                     *)
WalkComplete ==
    pc = "merge" /\ changes = 0 =>
        \A n \in 1..MaxHops :
            /\ \A e \in Ball(live, seeds, n - 1) :
                  \E F \in Fetch(FactsOf(e), FactLimit) : \A f \in F : depth[f] \in 1..n
            /\ \A f \in Fact : depth[f] = n =>
                  \E e \in Ball(live, seeds, n - 1) : f \in FactsOf(e)

(* All the facts of e that stayed active and linked were collected by hop   *)
(* n, or as many facts of e as the LIMIT allows.                            *)
Served(e, n) ==
    LET mine == {f \in Fact : e \in Mentions[f] /\ depth[f] \in 1..n}
    IN  \/ {f \in steady : e \in Mentions[f]} \subseteq mine
        \/ \E F \in SUBSET mine : Cardinality(F) = FactLimit

(* Beside writers the walk still reaches every entity that edges joined at  *)
(* every moment of the request to where it began, in as many hops as there  *)
(* are edges; and what it collected at a hop is about an entity that edges, *)
(* each open at some moment, join to it in so many (multihop.py lines       *)
(* 101-122: every entity of a frontier is read by three statements).        *)
WalkReaches ==
    pc = "merge" =>
        \A n \in 1..MaxHops :
            /\ \A e \in Ball(always, seeds, n - 1) : Served(e, n)
            /\ \A f \in Fact : depth[f] = n => Ball(ever, seeds, n - 1) \cap Mentions[f] # {}
=============================================================================

--------------------------- MODULE ConnectionPool ---------------------------
(***************************************************************************)
(* The connections that the requests of a process hold.  DatabasePool is a *)
(* pool of DB_POOL_MAX_SIZE connections; acquire() waits, without a time   *)
(* limit, until one is free.  Most operations hold one connection at a     *)
(* time, but insert_fact searches and deactivates, each with a connection  *)
(* of its own, while it holds its first, and the dream cycle holds one     *)
(* through everything it does, insertions included.                        *)
(***************************************************************************)
EXTENDS Integers, FiniteSets

CONSTANTS
    Simple,     \* tasks of requests that hold one connection at a time
    Writer,     \* tasks of requests that insert facts
    Dream,      \* tasks of dream cycles
    PoolSize    \* DB_POOL_MAX_SIZE

ASSUME PoolAssumption ==
    /\ IsFiniteSet(Simple) /\ IsFiniteSet(Writer) /\ IsFiniteSet(Dream)
    /\ Simple \cap Writer = {} /\ Simple \cap Dream = {} /\ Writer \cap Dream = {}
    /\ PoolSize \in Nat \ {0}

Task == Simple \cup Writer \cup Dream

VARIABLES
    place,     \* place[t]: what the task does next; it waits for a connection at Wants
    held,   \* held[t]: how many connections it holds
    free    \* how many are in the pool

poolVars == <<place, held, free>>

Wants == {"simple", "dream", "part", "insert", "search", "retire", "store"}
Works == {"reading", "dreaming", "updating", "hash", "searching", "decide", "retiring", "leave", "storing"}

(* The places of insert_fact, which a dream cycle enters with a connection. *)
Inserting == {"insert", "hash", "search", "searching", "decide", "retire", "retiring", "leave",
              "store", "storing"}

PoolTypeOK ==
    /\ place \in [Task -> {"idle"} \cup Wants \cup Works]
    /\ held \in [Task -> 0..3]
    /\ free \in 0..PoolSize
    /\ \A t \in Simple : place[t] \in {"idle", "simple", "reading"}
    /\ \A t \in Writer : place[t] \in {"idle"} \cup Inserting
    /\ \A t \in Dream : place[t] \in {"idle", "dream", "dreaming", "part", "updating"} \cup Inserting

PoolInit ==
    /\ place = [t \in Task |-> "idle"]
    /\ held = [t \in Task |-> 0]
    /\ free = PoolSize
-----------------------------------------------------------------------------
GoTo(t, where) == place' = [place EXCEPT ![t] = where]
Acquire(t) == free > 0 /\ free' = free - 1 /\ held' = [held EXCEPT ![t] = @ + 1]
Release(t, n) == free' = free + n /\ held' = [held EXCEPT ![t] = @ - n]

(* Where a task goes on after an insertion.                                 *)
Home(t) == IF t \in Dream THEN "dreaming" ELSE "idle"

Begin(t) ==
    /\ place[t] = "idle"
    /\ GoTo(t, IF t \in Simple THEN "simple" ELSE IF t \in Writer THEN "insert" ELSE "dream")
    /\ UNCHANGED <<held, free>>

(* async with DatabasePool.acquire(): the wait is over.                     *)
Connect(t) ==
    /\ place[t] \in Wants
    /\ Acquire(t)
    /\ GoTo(t, CASE place[t] = "simple" -> "reading"
                 [] place[t] = "dream" -> "dreaming"
                 [] place[t] = "part" -> "updating"
                 [] place[t] = "insert" -> "hash"
                 [] place[t] = "search" -> "searching"
                 [] place[t] = "retire" -> "retiring"
                 [] place[t] = "store" -> "storing")

Read(t) ==
    /\ place[t] = "reading"
    /\ Release(t, 1) /\ GoTo(t, "idle")
-----------------------------------------------------------------------------
(* insert_fact.  A known text is the answer; any other is searched.         *)
HashCheck(t) ==
    /\ place[t] = "hash"
    /\ \/ Release(t, 1) /\ GoTo(t, Home(t))
       \/ UNCHANGED <<held, free>> /\ GoTo(t, "search")

(* Faulty variant: the connection of the search is kept.                    *)
SearchedKeeping(t) ==
    /\ place[t] = "searching"
    /\ UNCHANGED <<held, free>> /\ GoTo(t, "decide")

Searched(t) ==
    /\ place[t] = "searching"
    /\ Release(t, 1) /\ GoTo(t, "decide")

(* The LLM decides, with the connection held: NO_CHANGE, a fact to retire,  *)
(* or ADD.                                                                  *)
Decide(t) ==
    /\ place[t] = "decide"
    /\ \/ Release(t, 1) /\ GoTo(t, Home(t))
       \/ UNCHANGED <<held, free>> /\ GoTo(t, "retire")
       \/ UNCHANGED <<held, free>> /\ GoTo(t, "leave")

Retired(t) ==
    /\ place[t] = "retiring"
    /\ Release(t, 1) /\ GoTo(t, "leave")

(* The end of the first block; the text is embedded without a connection.   *)
Leave(t) ==
    /\ place[t] = "leave"
    /\ Release(t, 1) /\ GoTo(t, "store")

Stored(t) ==
    /\ place[t] = "storing"
    /\ Release(t, 1) /\ GoTo(t, Home(t))
-----------------------------------------------------------------------------
(* run_dream_cycle: blocks, nodes, edges, embeddings (one connection at a   *)
(* time besides its own) and insertions, until it ends.                     *)
DreamOn(t) ==
    /\ place[t] = "dreaming"
    /\ \/ GoTo(t, "part") /\ UNCHANGED <<held, free>>
       \/ GoTo(t, "insert") /\ UNCHANGED <<held, free>>
       \/ Release(t, 1) /\ GoTo(t, "idle")

Updated(t) ==
    /\ place[t] = "updating"
    /\ Release(t, 1) /\ GoTo(t, "dreaming")

(* Faulty variant: only the innermost block gives its connection back.      *)
RaiseInner(t) ==
    /\ place[t] # "idle"
    /\ Release(t, IF held[t] > 0 THEN 1 ELSE 0) /\ GoTo(t, "idle")

(* An error, or the cancellation of the task, leaves every block that was   *)
(* entered, and ends the request ...                                        *)
Raise(t) ==
    /\ place[t] # "idle"
    /\ Release(t, held[t]) /\ GoTo(t, "idle")

(* Faulty variant: it gives back the connection of the cycle as well.       *)
HandledAll(t) ==
    /\ t \in Dream /\ place[t] \in Inserting \cup {"part", "updating"}
    /\ Release(t, held[t]) /\ GoTo(t, "dreaming")

(* ... unless a phase of the dream cycle handles it.                        *)
Handled(t) ==
    /\ t \in Dream /\ place[t] \in Inserting \cup {"part", "updating"}
    /\ Release(t, held[t] - 1) /\ GoTo(t, "dreaming")

Step(t) ==
    \/ Begin(t) \/ Connect(t) \/ Read(t)
    \/ HashCheck(t) \/ Searched(t) \/ Decide(t) \/ Retired(t) \/ Leave(t) \/ Stored(t)
    \/ DreamOn(t) \/ Updated(t)
    \/ Raise(t) \/ Handled(t)

PoolNext == \E t \in Task : Step(t)

PoolSpec == PoolInit /\ [][PoolNext]_poolVars
-----------------------------------------------------------------------------
(* How many blocks of acquire() a task is in, by where it is.               *)
DepthAt(t, where) ==
    (IF t \in Dream /\ where \notin {"idle", "dream"} THEN 1 ELSE 0)
    + (IF where \in {"reading", "updating", "hash", "search", "searching", "decide", "retire",
                     "retiring", "leave", "storing"} THEN 1 ELSE 0)
    + (IF where \in {"searching", "retiring"} THEN 1 ELSE 0)

Depth(t) == DepthAt(t, place[t])

Holding(n) == {t \in Task : held[t] >= n}

(* Every connection is in the pool or in the hands of a task that is inside *)
(* a block of acquire(): errors, cancellations and early returns leak none  *)
(* (connection.py lines 64-73).                                             *)
Accounted ==
    /\ \A t \in Task : held[t] = Depth(t)
    /\ free + Cardinality(Holding(1)) + Cardinality(Holding(2)) + Cardinality(Holding(3)) = PoolSize

(* A request that waits does so for another that goes on, if the pool is    *)
(* larger than what the requests may hold while they wait: one for each     *)
(* insertion, two for each dream cycle.  Nothing in the code bounds the     *)
(* number of requests, and the wait has no time limit: with as many         *)
(* insertions as connections all of them wait for ever.                     *)
CanGo(t) == place[t] # "idle" /\ (place[t] \in Wants => free > 0)

NoStall ==
    Cardinality(Writer) + 2 * Cardinality(Dream) < PoolSize =>
        \/ \A t \in Task : place[t] = "idle"
        \/ \E t \in Task : CanGo(t)
=============================================================================

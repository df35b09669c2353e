---------------------------- MODULE Consolidation ----------------------------
(***************************************************************************)
(* The background work on the memory of one user: the consolidation        *)
(* scheduler, the cycle that it and the API run (run_consolidation), and   *)
(* the two tables the cycle empties, percept_buffer and episodes.          *)
(*                                                                         *)
(* A cycle is a sequence of SQL statements, LLM calls and insertions of    *)
(* facts with an await at each, and several cycles of one user may run at  *)
(* a time.  stop() cancels the one of the scheduler at whatever await it   *)
(* has reached, and the process may crash.                                 *)
(***************************************************************************)
EXTENDS Naturals, FiniteSets

CONSTANTS
    Percept,    \* ids of rows of percept_buffer
    Worthy,     \* the percepts that attention_filter lets through
    Episode,    \* ids of rows of episodes
    MinBatch,   \* MIN_EPISODES_TO_COMPRESS
    BatchLimit, \* how many episodes one compression takes at most (25)
    Caller,     \* the tasks that serve POST /consolidate for this user
    Loop,       \* the tasks that start() may create
    NoLoop,     \* no such task
    NoPercept,  \* no percept
    MaxGists,   \* how many gists an LLM answer holds at most
    MaxEvents   \* how many calls of the API and of stop(), database, embedder
                \* or LLM errors, and crashes a behaviour may have together

ASSUME ConsolidationAssumption ==
    /\ Worthy \subseteq Percept
    /\ IsFiniteSet(Caller) /\ IsFiniteSet(Loop) /\ IsFiniteSet(Episode)
    /\ Caller \cap Loop = {}
    /\ NoLoop \notin Loop /\ NoPercept \notin Percept
    /\ MinBatch \in Nat /\ BatchLimit \in Nat
    /\ 0 < MinBatch /\ MinBatch <= BatchLimit
    /\ MaxGists \in Nat /\ MaxEvents \in Nat

Worker == Caller \cup Loop

VARIABLES
    percept,    \* percept[p]: "free" (no row yet), "live", "expired", "dropped" by a promotion or "gone"
    episode,    \* episode[e]: "free" until it is EPISODE_AGE_DAYS old, "aged", "forgotten"
    compressed, \* episodes.compressed
    gist,       \* gist[e]: gist_fact_id is set
    eligible,   \* the user has an active fact of the last 30 days and is idle
    running,    \* _running of the scheduler
    handle,     \* _task of the scheduler
    stopping,   \* the loop that a call of stop() awaits
    pc,         \* pc[w]: where the cycle of w stands
    loc,        \* loc[w]: its local variables
    stored,     \* the percepts that insert_fact accepted
    gists,      \* gists[e]: how many compressions stored gists of e
    cuts,       \* the compressions that ended between their gists and their marks
    restarted,  \* start() ran while a stop() was waiting
    failed,     \* a statement, an LLM call or an embedding raised
    events      \* calls of the API and of stop(), errors and crashes so far

tableVars == <<percept, episode, compressed, gist, stored, gists>>
schedulerVars == <<running, handle, stopping, restarted>>
boundVars == <<failed, events>>
vars == <<tableVars, eligible, schedulerVars, pc, loc, cuts, boundVars>>

Live == {p \in Percept : percept[p] = "live"}
Backlog == {e \in Episode : episode[e] = "aged" /\ ~compressed[e]}

(* todo: the percepts selected and not handled yet; cur: the one at hand;   *)
(* batch: the episodes selected; left: the gists to insert; made: some are. *)
Locals == [todo : SUBSET Percept, cur : Percept \cup {NoPercept},
           batch : SUBSET Episode, left : 0..MaxGists, made : BOOLEAN]

NoLocals == [todo |-> {}, cur |-> NoPercept, batch |-> {}, left |-> 0, made |-> FALSE]

Outside == {"none", "top", "sleep"}
Cycle == {"percepts", "promote", "drop", "episodes", "distil", "gist", "point",
          "rest"}

Alive(l) == pc[l] \in (Outside \cup Cycle) \ {"none"}
Born(l) == Alive(l) \/ pc[l] = "ended"

TypeOK ==
    /\ percept \in [Percept -> {"free", "live", "expired", "dropped", "gone"}]
    /\ episode \in [Episode -> {"free", "aged", "forgotten"}]
    /\ compressed \in [Episode -> BOOLEAN]
    /\ gist \in [Episode -> BOOLEAN]
    /\ eligible \in BOOLEAN
    /\ running \in BOOLEAN /\ restarted \in BOOLEAN
    /\ handle \in Loop \cup {NoLoop} /\ stopping \in Loop \cup {NoLoop}
    /\ pc \in [Worker -> Outside \cup Cycle \cup {"ended"}]
    /\ \A c \in Caller : pc[c] \in {"none"} \cup Cycle
    /\ loc \in [Worker -> Locals]
    /\ stored \subseteq Worthy
    /\ gists \in [Episode -> Nat]
    /\ cuts \in Nat
    /\ failed \in BOOLEAN /\ events \in 0..MaxEvents

Init ==
    /\ percept = [p \in Percept |-> "free"]
    /\ episode \in [Episode -> {"free", "aged"}]
    /\ compressed = [e \in Episode |-> FALSE]
    /\ gist = [e \in Episode |-> FALSE]
    /\ eligible = FALSE
    /\ running = FALSE /\ handle = NoLoop /\ stopping = NoLoop /\ restarted = FALSE
    /\ pc = [w \in Worker |-> "none"]
    /\ loc = [w \in Worker |-> NoLocals]
    /\ stored = {} /\ gists = [e \in Episode |-> 0] /\ cuts = 0
    /\ failed = FALSE /\ events = 0
-----------------------------------------------------------------------------
Go(w, where, l) ==
    /\ pc' = [pc EXCEPT ![w] = where]
    /\ loc' = [loc EXCEPT ![w] = l]

(* What a step of a cycle leaves alone besides the tables.                  *)
CycleOnly == UNCHANGED <<eligible, schedulerVars, cuts, boundVars>>

Dropped(s) == percept' = [p \in Percept |-> IF p \in s /\ percept[p] \in {"live", "expired"}
                                            THEN "dropped" ELSE percept[p]]

(* Faulty variant: the rows selected are deleted at once.                   *)
SelectAndDelete(w) ==
    /\ pc[w] = "percepts"
    /\ Go(w, "promote", [loc[w] EXCEPT !.todo = Live])
    /\ Dropped(Live)
    /\ UNCHANGED <<episode, compressed, gist, stored, gists>> /\ CycleOnly

(* promote_percepts: the SELECT of the unexpired rows (at most 20, which is *)
(* more than the instance has).                                             *)
SelectPercepts(w) ==
    /\ pc[w] = "percepts"
    /\ Go(w, "promote", [loc[w] EXCEPT !.todo = Live])
    /\ UNCHANGED tableVars /\ CycleOnly

(* One round of its loop: insert_fact, unless the filter rejects the        *)
(* percept ...                                                              *)
Promote(w) ==
    /\ pc[w] = "promote"
    /\ \E p \in loc[w].todo :
          /\ Go(w, "drop", [loc[w] EXCEPT !.todo = @ \ {p}, !.cur = p])
          /\ stored' = stored \cup ({p} \cap Worthy)
    /\ UNCHANGED <<percept, episode, compressed, gist, gists>> /\ CycleOnly

(* ... and the DELETE of its row.                                           *)
Drop(w) ==
    /\ pc[w] = "drop"
    /\ Dropped({loc[w].cur})
    /\ Go(w, "promote", [loc[w] EXCEPT !.cur = NoPercept])
    /\ UNCHANGED <<episode, compressed, gist, stored, gists>> /\ CycleOnly

(* sweep_expired.                                                           *)
SweepExpired(w) ==
    /\ pc[w] = "promote" /\ loc[w].todo = {}
    /\ percept' = [p \in Percept |-> IF percept[p] = "expired" THEN "gone" ELSE percept[p]]
    /\ Go(w, "episodes", loc[w])
    /\ UNCHANGED <<episode, compressed, gist, stored, gists>> /\ CycleOnly
-----------------------------------------------------------------------------
(* Faulty variant: the episodes that are compressed are selected again.     *)
SelectAllEpisodes(w) ==
    /\ pc[w] = "episodes"
    /\ LET aged == {e \in Episode : episode[e] = "aged"} IN
       IF Cardinality(aged) < MinBatch THEN Go(w, "rest", loc[w])
       ELSE Go(w, "distil", [loc[w] EXCEPT !.batch = aged])
    /\ UNCHANGED tableVars /\ CycleOnly

(* compress_episodes: the oldest aged episodes, if there are enough.  Which *)
(* of them are the oldest is left open.                                     *)
SelectEpisodes(w) ==
    /\ pc[w] = "episodes"
    /\ IF Cardinality(Backlog) < MinBatch THEN Go(w, "rest", loc[w])
       ELSE \E b \in SUBSET Backlog :
               /\ Cardinality(b) <= BatchLimit
               /\ b = Backlog \/ Cardinality(b) = BatchLimit
               /\ Go(w, "distil", [loc[w] EXCEPT !.batch = b])
    /\ UNCHANGED tableVars /\ CycleOnly

(* The LLM answers.  An answer that is not JSON counts as one without gists.*)
Distil(w) ==
    /\ pc[w] = "distil"
    /\ \E n \in 0..MaxGists : Go(w, "gist", [loc[w] EXCEPT !.left = n])
    /\ UNCHANGED tableVars /\ CycleOnly

(* insert_fact stores a gist.                                               *)
InsertGist(w) ==
    /\ pc[w] = "gist" /\ loc[w].left > 0
    /\ gists' = [e \in Episode |-> IF e \in loc[w].batch /\ ~loc[w].made
                                   THEN gists[e] + 1 ELSE gists[e]]
    /\ Go(w, "gist", [loc[w] EXCEPT !.left = @ - 1, !.made = TRUE])
    /\ UNCHANGED <<percept, episode, compressed, gist, stored>> /\ CycleOnly

(* The two UPDATEs of episodes: compressed, then gist_fact_id if there is a *)
(* gist.                                                                    *)
Rows(w) == {e \in loc[w].batch : episode[e] = "aged"}

(* Faulty variant: episodes are marked only if they gave a gist.            *)
MarkIfMade(w) ==
    /\ pc[w] = "gist" /\ loc[w].left = 0
    /\ compressed' = [e \in Episode |-> compressed[e] \/ (loc[w].made /\ e \in Rows(w))]
    /\ IF loc[w].made THEN Go(w, "point", loc[w]) ELSE Go(w, "rest", NoLocals)
    /\ UNCHANGED <<percept, episode, gist, stored, gists>> /\ CycleOnly

MarkCompressed(w) ==
    /\ pc[w] = "gist" /\ loc[w].left = 0
    /\ compressed' = [e \in Episode |-> compressed[e] \/ e \in Rows(w)]
    /\ IF loc[w].made THEN Go(w, "point", loc[w]) ELSE Go(w, "rest", NoLocals)
    /\ UNCHANGED <<percept, episode, gist, stored, gists>> /\ CycleOnly

PointToGist(w) ==
    /\ pc[w] = "point"
    /\ gist' = [e \in Episode |-> gist[e] \/ e \in Rows(w)]
    /\ Go(w, "rest", NoLocals)
    /\ UNCHANGED <<percept, episode, compressed, stored, gists>> /\ CycleOnly
-----------------------------------------------------------------------------
(* Faulty variant: a call of the API goes on like the loop.                 *)
RestAndLoop(w) ==
    /\ pc[w] = "rest"
    /\ Go(w, "top", loc[w])
    /\ UNCHANGED tableVars /\ CycleOnly

(* The rest of a cycle, which leaves the tables of this module alone: the   *)
(* playbooks of induce_skills are in WorkingMemory, protection and sweep in *)
(* Lifecycle, and the insertions, blocks and edges of the dream cycle and   *)
(* of the rehearsal are operations of FactStore, WorkingMemory and          *)
(* TemporalGraph.  Then a caller answers and a loop goes round.             *)
Rest(w) ==
    /\ pc[w] = "rest"
    /\ Go(w, IF w \in Loop THEN "top" ELSE "none", loc[w])
    /\ UNCHANGED tableVars /\ CycleOnly

CycleStep(w) ==
    \/ SelectPercepts(w) \/ Promote(w) \/ Drop(w) \/ SweepExpired(w)
    \/ SelectEpisodes(w) \/ Distil(w) \/ InsertGist(w) \/ MarkCompressed(w) \/ PointToGist(w)
    \/ Rest(w)

Event == events < MaxEvents /\ events' = events + 1

(* POST /consolidate, engine.consolidate, run_once(user).                   *)
Consolidate(c) ==
    /\ pc[c] = "none"
    /\ Event
    /\ Go(c, "percepts", NoLocals)
    /\ UNCHANGED <<tableVars, eligible, schedulerVars, cuts, failed>>
-----------------------------------------------------------------------------
(* Faulty variant: start() does not look at _running.                       *)
StartAgain ==
    /\ running' = TRUE
    /\ restarted' = (restarted \/ stopping # NoLoop)
    /\ \E l \in Loop : /\ pc[l] = "none"
                       /\ handle' = l
                       /\ Go(l, "top", NoLocals)
    /\ UNCHANGED <<tableVars, eligible, stopping, cuts, boundVars>>

(* start() of a scheduler that runs does nothing.                           *)
Start ==
    /\ ~running
    /\ running' = TRUE
    /\ restarted' = (restarted \/ stopping # NoLoop)
    /\ \E l \in Loop : /\ pc[l] = "none"
                       /\ handle' = l
                       /\ Go(l, "top", NoLocals)
    /\ UNCHANGED <<tableVars, eligible, stopping, cuts, boundVars>>

(* The workers whose compression would end after its gists and before its   *)
(* marks if it ended now.                                                   *)
HalfWay == {w \in Worker : pc[w] \in {"gist", "point"} /\ loc[w].made}
Cut(s) == cuts' = cuts + Cardinality(s \cap HalfWay)

(* stop(): the loop is cancelled, which ends it at the await it has reached *)
(* whatever runs before it is resumed (no handler on the way catches        *)
(* CancelledError), and stop() awaits it.  One call at a time.              *)
Stop ==
    /\ stopping = NoLoop
    /\ Event
    /\ running' = FALSE
    /\ stopping' = handle
    /\ IF handle = NoLoop THEN UNCHANGED <<pc, loc, cuts>>
       ELSE Go(handle, "ended", NoLocals) /\ Cut({handle})
    /\ UNCHANGED <<tableVars, eligible, handle, restarted, failed>>

(* The rest of stop(), when the task it awaited has ended.                  *)
Stopped ==
    /\ stopping # NoLoop
    /\ stopping' = NoLoop
    /\ handle' = NoLoop
    /\ UNCHANGED <<tableVars, eligible, running, restarted, pc, loc, cuts, boundVars>>

(* Faulty variant: the loop never looks at _running.                        *)
AlwaysLoop(l) ==
    /\ pc[l] = "top"
    /\ Go(l, "sleep", NoLocals)
    /\ UNCHANGED tableVars /\ CycleOnly

(* _loop: while self._running.                                              *)
CheckRunning(l) ==
    /\ pc[l] = "top"
    /\ Go(l, IF running THEN "sleep" ELSE "ended", NoLocals)
    /\ UNCHANGED tableVars /\ CycleOnly

(* It wakes and calls run_once: the user is consolidated if _active_users   *)
(* finds it (among no more than 50 users) and is_idle.                      *)
SelectUsers(l) ==
    /\ pc[l] = "sleep"
    /\ Go(l, IF eligible THEN "percepts" ELSE "top", NoLocals)
    /\ UNCHANGED tableVars /\ CycleOnly

LoopStep(l) == CheckRunning(l) \/ SelectUsers(l) \/ CycleStep(l)
-----------------------------------------------------------------------------
(* A statement, an LLM call or an embedding raises.  The error of a phase   *)
(* ends that phase: promotion goes on to the sweep, which reports 0, the    *)
(* compression to the skills; a percept whose insertion raised is dropped.  *)
Fail(w) ==
    /\ Event /\ failed' = TRUE
    /\ CASE pc[w] = "sleep" -> Go(w, "top", loc[w])
         [] pc[w] = "percepts" -> Go(w, "promote", loc[w])
         [] pc[w] = "promote" /\ loc[w].todo = {} -> Go(w, "episodes", loc[w])
         [] pc[w] = "promote" /\ loc[w].todo # {} ->
               \E p \in loc[w].todo \cap Worthy :
                  Go(w, "drop", [loc[w] EXCEPT !.todo = @ \ {p}, !.cur = p])
         [] pc[w] = "drop" -> Go(w, "promote", NoLocals)
         [] pc[w] \in {"episodes", "distil", "gist", "point"} -> Go(w, "rest", NoLocals)
         [] OTHER -> FALSE
    /\ Cut({w})
    /\ UNCHANGED <<tableVars, eligible, schedulerVars>>

(* The process dies and is started again, with a new scheduler.             *)
Crash ==
    /\ Event
    /\ pc' = [w \in Worker |-> IF w \in Caller THEN "none"
                               ELSE IF Born(w) THEN "ended" ELSE "none"]
    /\ loc' = [w \in Worker |-> NoLocals]
    /\ running' = FALSE /\ handle' = NoLoop /\ stopping' = NoLoop
    /\ Cut(Worker)
    /\ UNCHANGED <<tableVars, eligible, restarted, failed>>

(* What happens around: percepts arrive and expire, episodes get old.       *)
Quiet == UNCHANGED <<schedulerVars, pc, loc, cuts, boundVars>>

BufferPercept(p) ==
    /\ percept[p] = "free"
    /\ percept' = [percept EXCEPT ![p] = "live"]
    /\ UNCHANGED <<episode, compressed, gist, stored, gists, eligible>> /\ Quiet

Expire(p) ==
    /\ percept[p] = "live"
    /\ percept' = [percept EXCEPT ![p] = "expired"]
    /\ UNCHANGED <<episode, compressed, gist, stored, gists, eligible>> /\ Quiet

Age(e) ==
    /\ episode[e] = "free"
    /\ episode' = [episode EXCEPT ![e] = "aged"]
    /\ UNCHANGED <<percept, compressed, gist, stored, gists, eligible>> /\ Quiet

(* touch(user), idle_seconds without one, facts stored and facts retired    *)
(* (reset_user and purge_user_memories leave these two tables alone).       *)
Eligibility ==
    /\ eligible' = ~eligible
    /\ UNCHANGED tableVars /\ Quiet

Forgotten(P, E) ==
    /\ percept' = [p \in Percept |-> IF p \in P /\ percept[p] \in {"live", "expired"}
                                     THEN "gone" ELSE percept[p]]
    /\ episode' = [e \in Episode |-> IF e \in E /\ episode[e] = "aged"
                                     THEN "forgotten" ELSE episode[e]]
    /\ compressed' = [e \in Episode |-> compressed[e] /\ e \notin E]
    /\ gist' = [e \in Episode |-> gist[e] /\ e \notin E]
    /\ UNCHANGED <<stored, gists>> /\ Quiet

(* forget(user) deletes the rows of all tables in one transaction ...       *)
ForgetUser == Forgotten(Percept, Episode) /\ eligible' = FALSE

(* ... and forget(user, scope) the episodes that hold the scope, and facts. *)
ForgetScope(E) == Forgotten({}, E) /\ eligible' \in {eligible, FALSE}

Environment ==
    \/ \E p \in Percept : BufferPercept(p) \/ Expire(p)
    \/ \E e \in Episode : Age(e)
    \/ Eligibility
    \/ ForgetUser
    \/ \E e \in Episode : ForgetScope({e})

Next ==
    \/ \E w \in Worker : CycleStep(w) \/ Fail(w)
    \/ \E l \in Loop : CheckRunning(l) \/ SelectUsers(l)
    \/ \E c \in Caller : Consolidate(c)
    \/ Start \/ Stop \/ Stopped
    \/ Crash
    \/ Environment

Spec == Init /\ [][Next]_vars

(* The event loop resumes a task whose await has ended, and every await of  *)
(* the background loop ends: the sleep, statements (command_timeout), LLM   *)
(* calls (the timeouts of their clients), and the wait for a connection as  *)
(* long as the others give theirs back.                                     *)
Fairness == \A l \in Loop : WF_vars(LoopStep(l))

FairSpec == Spec /\ Fairness
-----------------------------------------------------------------------------
(* A percept that attention lets through leaves the buffer by promotion     *)
(* only when it is stored, as long as no statement raised: whatever is      *)
(* cancelled, crashes or overlaps ("what survives an attention filter is    *)
(* promoted", sensory.py lines 3-6).                                        *)
PerceptsKept ==
    ~failed => \A p \in Worthy : percept[p] = "dropped" => p \in stored

(* Gists of one episode are stored once for each cycle that may run at the  *)
(* same time, and once more for each compression that was cut short; a      *)
(* compressed episode is not distilled again (compress_episodes has no      *)
(* lock and marks the episodes last, consolidation.py lines 64-108).  And   *)
(* unless one was cut, a compressed episode whose gists were stored points  *)
(* to one of them ("links gist -> source episode",                          *)
(* docs/AGI_MEMORY_ROADMAP.md line 74), or a cycle is about to do it.       *)
GistsBounded ==
    \A e \in Episode :
        /\ gists[e] <= Cardinality(Worker) + cuts
        /\ cuts = 0 /\ compressed[e] /\ episode[e] = "aged" /\ gists[e] > 0
              => gist[e] \/ \E w \in HalfWay : e \in loc[w].batch

(* At most one loop runs, the one that stop() can cancel, unless start()    *)
(* was called while a stop() had not returned (scheduler.py lines 48-63).   *)
OneLoop ==
    ~restarted => \A l \in Loop : Alive(l) => l = handle /\ running

(* "so the erased content cannot resurface through a summary" (security.py  *)
(* lines 159-160): no gist of a forgotten episode is stored.                *)
NoResurfacing ==
    [][\A e \in Episode : episode[e] = "forgotten" => gists'[e] = gists[e]]_vars

(* While the scheduler runs, the user has recent facts and is idle, every   *)
(* percept leaves the buffer and the aged episodes are compressed to less   *)
(* than a batch ("overnight job consolidates a user's day",                 *)
(* docs/AGI_MEMORY_ROADMAP.md E7).                                          *)
Consolidated ==
    <>[](running /\ eligible) =>
        <>[](/\ Cardinality(Backlog) < MinBatch
             /\ \A p \in Percept : percept[p] \notin {"live", "expired"})

(* A scheduler that stays stopped has no loop left, even one that start()   *)
(* made during a stop() and whose task nobody holds any more.               *)
LoopsEnd == <>[]~running => <>[](\A l \in Loop : ~Alive(l))
=============================================================================

# Medhas: specifications and proofs

This directory holds a TLA+ model of Medhas, the memory engine under
`src/medhas/`: modules of its components, TLC configurations that check them on
small instances, and TLAPS proofs of what holds for every instance.

* [The system](#the-system): components, state, operations, interaction
* [The hard behaviours](#the-hard-behaviours)
* [Modules](#modules): which module models what, and how it maps to the code
* [Runs](#runs): what each one checks, its bounds, its limits
* [Proofs](#proofs)
* [Where the code and its documentation disagree](#where-the-code-and-its-documentation-disagree)
* [What is not modelled](#what-is-not-modelled)
* [Plan](#plan)

## The system

Medhas is one asyncio process (or several) in front of a PostgreSQL database.
All durable state is in tables of that database; a process keeps little besides
a connection pool, the idle times of its scheduler, and the rate limiter.  Every
coroutine is a sequence of SQL statements and calls of an LLM or an embedder,
with an await at each.  Two things make this interesting:

* nearly every statement commits by itself (READ COMMITTED, autocommit); only
  `forget`, `update_bayesian_belief` and `import_user_memory` open a transaction;
* the tables have few constraints.  There is none on `(user_id, content_hash)`
  of a fact and none on active edges, so what the code checks in one statement
  it may no longer rely on in the next.

The action of every module is therefore one statement, or one answer of a
service, and requests of different tasks interleave between any two of them.

| component (`src/medhas/...`) | state | operations | what makes it correct |
|---|---|---|---|
| atomic facts (`memory/atomic`) | rows of `atomic_facts`: text, hash, `is_active` | `insert_fact` (hash check, search, LLM decision, supersede, insert), `update_memory`, `delete_memory`, `delete_all` | duplicates are bounded by who races; superseding never loses a subject; rows only retire; answers are rows that exist |
| search and recall (`engine.recall`, `memory/atomic/search_facts.py`, `reranker.py`, `extraction/anaphora.py`, `temporal.py`, `multihop.py`, `metamemory/metacognitive.py`) | none | `search_facts`, resolution of references, the multi-hop walk, before/after, rank, abstain | the expansion never loses a hit; an inactive row is a last resort; the walk ends and finds all there is in its hops, up to its limits; the fact with the verb leads |
| working memory (`memory/working`) | one JSONB column per user: labelled blocks, skill playbooks | `get_blocks`, `update_block`, `create/append/delete_memory_block`, render and audit | a request alone does what it says to the registry; nothing else in the column is lost; read-only blocks stay |
| procedural memory (`memory/procedural`) | a key of the same column | `store_skill_playbook`, `execute_playbook` | playbooks stay retrievable |
| eviction, interference (`memory/control/interference.py`, `memory/archival.py`) | `archival_memory` | `evict_working_memory`, `resolve_interference`, `recognize` | an eviction takes no text away that it has not archived |
| fact lifecycle (`engine.py`, `platform/security.py`, `memory/control/admission.py`, `memory/graph/bitemporal.py`) | belief, trust, `valid_to`, `contradicted_by`, `invalidated_by`, quarantine, protection | `remember`, `recall`, `invalidate_fact`, `mark_contradiction`, `revise_fact_belief`, `check_poisoning`, `quarantine_fact`, `release`, `forget` | contradictions are recorded both ways and superseded; history only grows; quarantine keeps what is suspect out |
| forgetting (`memory/operations/forgetting.py`) | the same rows | `run_forgetting_sweep`, `protect_memory`, reconsolidation, review schedule | protected rows are spared |
| consolidation (`memory/operations/consolidation.py`, `memory/episodes.py`) | facts, `episodes` | `compress_episodes`, `induce_skills`, `evolve_memory_network` | gists of an episode are bounded and linked; protected texts are not rewritten |
| temporal graph (`memory/graph`, `extraction/graph_build.py`) | `graph_nodes`, `graph_edges` with `valid_from`/`valid_to` | `upsert_node`, `canonicalize_node`, `update_edge`, links, `build_graph_for_fact`, deletions | one current edge per source and relationship; one node per entity; closed edges stay closed; an edge can be found from its fact |
| graph queries (`memory/graph`) | none | subgraph of an entity, traversal, spreading activation, communities, export, snapshots | terminate; find exactly what the edges say |
| turn pipeline (`pipeline`) | sessions, messages, the task of the extractor | `execute_turn`, `async_extractor`, `hot_path` | every logged turn is extracted at most once, failures fall back |
| sensory buffer (`platform/sensory.py`) | `percept_buffer` | buffer, attend, promote, sweep | a percept leaves the buffer only when it is stored |
| prospective memory (`memory/control/prospective.py`) | `prospective_memory` | add, check cues, complete | an intention fires once, and eventually |
| scheduler (`memory/control/scheduler.py`) | the idle times, `_running`, `_task` | `touch`, `start`, `stop`, the loop | one loop runs, which `stop` can end; an idle user is consolidated |
| connection pool (`storage/connection.py`) | connections in use | `acquire` | somebody can always proceed |
| import and export (`platform/export.py`) | all tables of a user | `export_user_memory`, `import_user_memory` | a round trip keeps the rows |
| API, keys, limits (`platform/api.py`, `auth.py`) | API keys, token buckets | handlers | limits hold |
| cognition, meta-memory, user model | rows computed from other rows | reasoning, generalisation, schema evolution, calibration | numeric or prompt work |
| LLM gateway, providers, embedders | none durable | completion, embedding | external: any answer or an error |

Who calls whom.  The HTTP handlers, the agent's tools and `MemoryEngine` call
the operations above directly.  `remember` calls admission, the poisoning check,
`insert_fact`, the bitemporal operations, the graph builder, the neighbour
evolution and the quarantine in that order, on rows that every other operation
may change meanwhile.  A chat turn starts the extractor as a background task,
which calls `insert_fact` and `update_edge`.  The scheduler runs consolidation,
forgetting and the sensory sweep when nobody has been active for a while.  They
share the tables only; there are no messages between them, no locks in the
process except the ones of the pool, and no ordering of background tasks.

## The hard behaviours

`PROJECT.json` lists every hazard at its line.  In short:

* check then act over an await: the content hash, the active edge, the node
  lookup, the whole-column read of the working memory, the protection flag;
* limits of reads that cut before the code looks at what it got;
* two or more statements that belong together: retire and insert, contradict
  and deactivate and close and point, archive and shrink, node and edge,
  promote and delete;
* a decision made by a slow LLM call on rows that have changed since;
* errors that are swallowed half-way, and errors that are not;
* background work (extractor, sweep, consolidation, dream cycle, erasure) over
  the rows of a request in flight;
* edges and facts with timestamps from texts, which arrive out of order;
* conversions of the working-memory column, which hold what they know;
* turns of one session that overlap, and extractions that overlap the next turns
  or die with the process;
* reads of many statements (a recall, an activation, an export) while others write
  what they read, with errors that only some of the steps survive;
* nested acquisition of pooled connections.

## Modules

Each specification module holds the state and the actions of one component and
its properties; the `MC` module beside it gives the constants and is what TLC runs.
`WorkingMemoryAlone` and `LifecycleAlone` extend the module of that name with history
variables, which tell when a request was alone, and with the properties that need
them; `RecallHistory` extends `Recall` with what a search found, where a walk began and
which facts were active and which edges open meanwhile.  Definitions headed
"Faulty variant" are plausible bugs of the definition that follows them: replacing
it by its variant must violate the property that `PROJECT.json` names, which
shows that the property depends on that code.

| module | code | state | one action per |
|---|---|---|---|
| `Facts` | the contract of the fact store, no code of its own | facts kept and retired, texts, answers | fact remembered, fact retired, all retired, request refused |
| `FactStore` | `insert_fact.py`, `deactivate_fact.py`, `decision_matrix.py`, `memory_crud.py` | rows (status, text), locals of each request | statement of `insert_fact`/`update_memory`; one-statement requests |
| `WorkingMemory` | `memory/working/*`, `store_playbook.py`, eviction in `interference.py`, `archive_memory` | the JSONB column, the archive, the copy each request holds | read and write of the column |
| `Lifecycle` | `engine.remember`, `security.py`, `bitemporal.py`, `admission.py`, `forgetting.py`, `evolve_memory_network` | the columns of a fact that these change, locals of each request | statement of the pipeline and of what runs against it |
| `Consolidation` | `scheduler.py`, `run_consolidation` and `compress_episodes`, `sensory.py`, `episodes.py`, `forget` of their rows | `percept_buffer`, `episodes`, the scheduler, where each cycle stands | statement or LLM call of a cycle; `start`, `stop`, one round of the loop; crash |
| `Turn` | `agent_graph.py`, `async_extractor.py`, `hot_path.py`, `metacognition.py`, `memory/session/*`, `purge_memory.py`, the fallbacks of `gateway.py` | sessions, the log, the prompt of each turn, where each request and its background extraction stand | statement or LLM call of a turn; of an extraction; purge; crash |
| `ConnectionPool` | `connection.py`, the acquisitions of `insert_fact`, `search_facts`, `deactivate_fact` and the dream cycle | free connections, what each task holds and waits for | wait that ends, block that is left, error |
| `Portability` | `prospective.py`, `export.py`, `forget` of their rows | intentions, the other rows of a user, the bundle being exported and the one the user has, locals of each check | statement of a check; table of an export; import (one transaction) |
| `GraphReads` | `spreading_activation.py`, `export_graph.py`, `community.py`, and the statements that write what they read | nodes, open and closed edges, where the reader stands, what it found | statement of a reader; statement of a writer; error |
| `Recall` (extends `GraphReads`) | `engine.recall`, `multihop.py`, `anaphora.py`, `temporal.py`, `query_subgraph.py`, `facts_valid_at`, `recognize`, `route_query`, `feeling_of_knowing`, `should_abstain` | rows and their links to nodes, the question, the hits, where the walk stands | statement or LLM call of a recall; statement of a writer; error |
| `TemporalGraph` | `memory/graph/*`, `extraction/graph_build.py`, the graph part of the extractor, erasure | nodes, edges with validity, a clock, locals of each request | statement that reads or writes a node or an edge |

A request is a program counter `pc[t]` and locals of the task that serves it.
The value of `pc[t]` names what the request does next; what it read stays in its
locals and may be stale when used, as in the code.  An error (`Fail`) can happen
at any statement; it goes where the code's `except` goes: out of the request
with the committed statements left committed, or on to the next step where the
code swallows it.

How the modules fit together: components meet in the tables only, so a module contains
what other components write into its tables, as far as one of its properties could tell
(erasure is in three of them, the insertions of the extractor in `TemporalGraph`,
`store_skill_playbook` in `WorkingMemory`).  Not every writer is in every module: `FactStore`
has no `evolve_memory_network`, which rewrites the text of a row in place, and no
quarantine or sweep, which are in `Lifecycle`; `Turn` and `Consolidation` have the calls of
`insert_fact` and `update_edge` and not the rows.  The insertions that `Lifecycle` and `Consolidation` make are
those of `FactStore`, reduced there to what their tables see of them.

Abstractions that every module shares:

* Ids are unused elements of a finite set.  A request starts only while there is
  an id left for it, which bounds the instance (uuids do not run out).
* A text is an element of a set.  What the code computes from texts (normal
  form, entities, cosine above a threshold, opposition, canonical key) is a
  constant relation on that set, with the assumptions that the code justifies.
* A search returns any subset of the active rows.  An LLM answers anything that
  passes the guardrails of the code that parses its answer.
* Scores are kept only as the bands that the code compares them with (belief:
  below 0.85, from 0.85, from 0.90; trust: its rank).

### FactStore

`insert_fact` is `HashCheck` (a hit ends the request), `Search`, one of the four
`Decide...` actions, `RetireTarget` and `Write`.  The decision uses the texts of
the candidates, which do not change; it does not look again whether they are
active.  `DecideSupersede` contains the subject guard of lines 115-136.
`DecideTargetless` is the path on which the model names no target.  `promised`
is a history variable: the entities callers stored something about and did not
delete.

`Facts` says what callers may rely on, without hashes, candidates, decisions or
program counters: a fact is remembered under an id never used before, at once
with the answer that names it; a fact is retired for good, alone or with all the
others; what it says never changes; any other answer is a fact the store knows
or an error.  `FactStore` implements it under the mapping kept = the active
rows, gone = the inactive ones, says = the texts; the steps that only read or
decide are stutters.

### WorkingMemory

`get_blocks`, `to_block_map`, `from_block_map` and the write-back are modelled by
what they keep: `Column` fills in missing canonical blocks and drops the key of
the playbooks.  The eviction is a loop of `ArchiveBlock` and a nested
`update_block`, with the lengths the loop counts in its own locals.  `ArchiveBlock` is the
INSERT of the archive with the computation up to the SELECT of `update_block`, which is
`Load`; the write of the block is a third step, so others run between any two of the
statements.  `EvictionsKeep` compares what a reader would see of each block before and after
every step of an eviction; `touched` is history and says which blocks others have
changed since it began: what they wrote there is overwritten and not archived, a
finding below.

### Lifecycle

`remember` runs `Search`, or `Drop` where admission refuses the text, `PoisonCheck`, the insertion (known
row, superseding, or new), `AttachMeta`, then for each opposed candidate `Mark`,
`MarkBack`, `ReadBelief`, `LowerBelief`, `DeactivateFoe`, `CloseFoe`, `PointFoe`,
then any number of revisions of neighbours, then `Quarantine`.  The statements
inside `insert_fact` are those of `FactStore`, folded here into a decision and an
insertion.  `settled` is a history variable: the contradictions that went all the
way.

### TemporalGraph

A request resolves two names (`Resolve`, `Merge`, `Upsert` for each), tells both
nodes of the fact or revises a belief, and shifts the relation (`Shift`, then
`Reuse`, or `CloseOthers` and `InsertEdge`).  `writer` and `maker` are history:
which task wrote an edge or made a node.  `Fresh` picks one unused id, since
which one it is makes no difference.

### Consolidation

A worker is the task of an API call or the loop that `start()` created.  Both go
through the same cycle: `SelectPercepts`, then `Promote` and `Drop` for each
percept, `SweepExpired`, `SelectEpisodes`, `Distil`, `InsertGist`,
`MarkCompressed`, `PointToGist`, and `Rest` for the phases that touch other
tables.  `Fail` goes where the `except` of each phase goes, and ends no cycle.
`Stop` cancels the loop at whatever await it has reached; a second half,
`Stopped`, runs when the task has ended, and a `Start` may come in between.
`percept[p]`, `gists`, `stored`, `cuts`, `restarted` and `failed` are history.

### Turn

`execute_turn` is `EnsureSession`, `LogUser`, `EvaluateMode`, then the playbook as
the answer, or `AssembleContext`, `Complete`, a `CallTool` for each tool call with
`CompleteAgain`, `LogAssistant` and `Spawn`; `capture` shares the first two and
`Spawn`, and with `background=False` waits for the extraction (`Ingested`).  The
extraction (`AnchorEpisode`, `Ask`, then `StoreRaw`, or `StoreFact` for each fact and
`StoreEdges`) has a program counter of its own, `bg[r]`, because the request does
not wait for it.  What the tools and the extraction write into other tables are
requests of `WorkingMemory`, `FactStore` and `TemporalGraph`.  The two ways to build
a prompt treat the transcript in the same way (`Assembled`).  `earlier` and `purged`
are history: which requests were answered before this one began, and whether a
purge has run, after which the log promises nothing about older turns.

### ConnectionPool

The program counter of a task is the place it has reached between two changes of
what it holds: a place in `Wants` waits in `acquire`, any other works.  `Connect` is
the end of a wait.  An insertion keeps its first connection from the hash check to
`Leave` and takes another for the search and another for the deactivation; the
dream cycle goes through the same places with one connection more.  `Raise` leaves
every block at once, as an exception or a cancellation does through `async with`;
`Handled` stops at a phase of the dream cycle that catches it.  `Depth` says how many
blocks enclose a place; it is stated from the code and not kept by the actions.

### Portability

A check is `BeginCheck` (the SELECT, and which of the rows it hears: any), a `Fire`
for each of them (the UPDATE by id, and the row in the answer), and `EndCheck` or
`FailCheck`, which may come before or after the server has run the statement.  An
export reads its tables in the order of the code, one statement each, so that
anything may commit in between; `Accepted` says which bundles the one transaction
of the import takes, and `Merged` what its `ON CONFLICT DO NOTHING` leaves.
`cued`, `before` and `restored` are history: what a check selected, which checks
were over when it began, and what an import brought back.

### GraphReads and Recall

The readers write nothing that another reader reads, so the model has one reader,
and all writers of the tables it reads as single statements (`WriteGraph`,
`WriteFacts`), each of them a statement of `TemporalGraph`, `FactStore` or
`Lifecycle`.  `Activate` is one node of the frontier, in any order, because the
statement has no ORDER BY; `ExportNodes` and `ExportLinks` are the two statements of
the export; `DetectCommunities` is one statement and the search over what it returned.

A recall is `Recognize`, then `Snapshot` (`valid_at`), or `Anchor` and `Lattice`
(before/after), or `Search`.  After a search come the resolution (`Resolve`, a
`Bridge` for each entity of the question, `EndResolve`, and `FindSalient` for a
pronoun), and, when that makes the question relational, the resolution once more by
the walk (`BeginWalk`), the walk itself (`ReadNode`, `ReadOut`, `ReadIn`, `ReadIds`,
`ReadRows` or `ReadNamed` for each entity, `EndHop` for each frontier) and `Merge`.
`Rank` and `Judge` end every recall of this kind.  `Fault` is an error at any of
these statements and leads where the `except` around it leads.  An entity stands for
its name; an answer is the set of its facts and the one that leads it; a score is
kept only as what it decides (`Leads` for `rank_for_query`, whose verb bonus of 1.0
exceeds all the rest together; `Supports` for the feeling of knowing).

The reads of the walk keep their LIMITs: `_facts_for_entity` returns `FactLimit` rows, the
active ones before the others (`Preferred`, `Fetch`), and `_graph_neighbors` the ends of
`BridgeLimit` edges (`Bridges`); which rows come first is left open.  The word a question
asks with is computed as in the code (`Asking`): the first word of the question that is neither in
`Skip` nor the name of an entity that the resolution returned, so that it depends on
what the LLM answered and on the fallback that took its place.  `main` is what the
asker means and no action reads it.  `pronoun` and `person` are the two lists of pronouns, of
`anaphora.py` and of the engine.

## Runs

| run | tasks | instance | what it shows |
|---|---|---|---|
| `FactStore` | 2 | 3 ids, two near-duplicate texts of one entity, one of another, a blank one, 1 error | at most two active rows carry one text; a stored subject is never left without an active or pending row unless something raised; the statements implement `Facts` |
| `WorkingMemory` | 2 | two canonical labels and a custom one, notes of one length, a budget that forces an eviction, 3 requests, 1 error | every request that runs alone does what it says to blocks and playbooks or, when it raises, nothing; read-only blocks refuse `update_block`; over all its rounds, and after an error, an eviction has taken away no text that others left alone unless the archive has it |
| `WorkingMemory_playbooks` | 1 | the same, no error | counterexample, see below |
| `Lifecycle` | 2 | a text and a derived one opposed to it, a trusted and an untrusted source, a core memory from an earlier session, 2 requests, 1 error | contradictions end settled both ways and stay so; opposed facts are superseded; protected rows are spared |
| `Lifecycle_quarantine` | 1 | the same, no error | counterexample |
| `TemporalGraph` | 2 | five names, of which two share a key, two are prefixes and two are embedded near; two relations; two instants; 2 requests, 1 error; started empty or from what an earlier race left | two active edges, or two nodes of one key, have different writers; edges are grounded in mentions; closed edges are final |
| `Consolidation` | a loop, its successor and an API call | one percept, two episodes that make a batch, one gist for each answer, 2 events among API calls, stops, errors and crashes; user activity, expiry and erasure at any time | a percept leaves by promotion only when stored; gists of an episode are bounded by the cycles that can overlap and the ones cut short; compressed episodes point to their gist; one loop runs; an idle user is consolidated; no loop outlives its scheduler |
| `Consolidation_forget` | the same | the same | counterexample |
| `Turn` | two requests, each a turn or a capture, and their extractions | one session with or without a row, a window of 2 messages, 1 tool call, 1 fact, one event among errors, purges and crashes | the messages of a turn are in order and complete when it is answered; an episode is never ahead of the log; the LLM sees the message to answer and the answers its caller had; every finished request is extracted, if the process lives |
| `Recall` | one reader, any writers | three entities on a cycle, three facts (active, deactivated, closed; linked or not yet), all about one entity and more than its limit of two, and an entity with more edges than the limit of one; five questions (named, pronoun, before, after, at a time), a walk and an activation of two hops; one statement of a writer or one error | an answer keeps every hit of the search; an inactive row answers only for an entity without a steady active one; walk and activation are exact breadth-first searches when nothing moves, up to the limit; beside a writer the walk still serves what stayed joined to its seeds; a fact with the verb leads where the question asks with it; communities are components; every read ends |
| `Portability` | two checks, an export, an import | one intention, an edge and its node, a playbook; one export, imported any number of times; one error or crash; erasure at any time | two checks tell of an intention only if they overlap or a bundle brought it back; a check without errors tells of all it heard and leaves none of it waiting |
| `ConnectionPool` | one reader, two insertions, one dream cycle | 5 connections, one more than the four that these may hold while they wait; errors and cancellations at any point | connections are neither lost nor given back twice; some request can always go on |

Why these bounds are enough.  The races of this code are between one check and
one write of two requests, so two tasks show each of them, and two requests in
flight are two requests: the ones that came before are in the initial states
(`Left` of `MCTemporalGraph`, `Seeds` of `MCLifecycle`) or in a third id or
request.  One error is enough because no handler retries: after the first, a
request has left the path on which a second could combine with it.  Sets of
texts and names contain one pair for each relation that the code tells apart.
The theorems below do not depend on any of these bounds.  `MaxEvents` of
`Consolidation` is one bound for four kinds of event, so that every pair of them
occurs (two stops, a crash and an error, a call and a stop, ...) in an instance
that TLC can check with liveness.  In `Turn` one event is enough: an error ends the
request or the extraction it meets, a crash ends all of them, and what a purge
leaves is the empty log from which the other requests go on.  A window of two
messages is the shortest in which an answer of another turn can stand before the
message of this one, and the shortest that other messages can push it out of.  One
intention is enough for `Portability`: no action relates two of them, and an error
may come before its UPDATE or after.  In `Recall` a writer or an error meets
each statement of a read once: what a second could change is read by a statement
that has not run yet, and the initial states contain what earlier writers left.
A cycle of edges and two hops are the smallest graph on which a walk comes back to
where it began and on which the order of visits could matter.  With
4 connections instead of 5 the instance of `ConnectionPool` does stall: the bound of
`NoStall` is tight.

`alone[t]` says that no other task moved since the request of
`t` began.  A property with this hypothesis states what the operation promises by
itself; the ones without it hold under every interleaving.  `found` keeps what a
request saw first (the column, the opposed facts), to compare with its end.

Fairness is assumed in `Consolidation`, `Turn` and `Recall`: weak fairness of the steps of each
loop of the scheduler, in `Turn` of the steps of each request and of each
extraction, and in `Recall` of the steps of the reader, not of writers, errors or new questions.  The event loop resumes a task whose await has ended, and every await
of these tasks does end: the sleep, a statement (`command_timeout`, 60 s), an LLM
call (the timeout of its client), and the wait for a connection as long as the
others give theirs back.  The pool has no timeout of its own for that wait;
`ConnectionPool` says when the assumption is justified: while the pool is larger
than what insertions and dream cycles hold as they wait.  `ReadsEnd` needs no more: a walk ends by its hops and not
because writers pause.  Nothing is assumed of
API calls, of `start`, `stop`, of user activity, or that a request begins:
`Consolidated` is about behaviours in which the scheduler stays on and the user
stays idle, with recent facts, and `Extracted` about requests that have come to
their end.  The other modules have safety properties only.

`CHECK_DEADLOCK FALSE` stands in the configurations of `Lifecycle`,
`TemporalGraph`, `Turn`, `Portability` and `Recall` only: there a behaviour really ends when the
bound `MaxRequests`, the set of requests or ids, or the events of a `Recall`, are used up.
In the others something remains possible for ever (one-statement requests, user
activity), and deadlock is checked.

## Proofs

`tlapm` checks every obligation of the eight `...Proofs` modules, each of which extends
the module of its component; those about `ConnectionPool` are in `ConsolidationProofs`, with
the cycles whose nested acquisitions decide its bound.  That is why its names differ from those of
the other modules (`PoolInit`, `PoolNext`, `PoolTypeOK`, `place`, `GoTo`).  The theorems hold for every
number of tasks, ids, texts, names, requests and errors, under the named assumptions of those
modules only:

* `FactStoreAssumption`, `LifecycleAssumption`, `TemporalGraphAssumption`,
  `WorkingMemoryAssumption`, `SentinelAssumption`, `ConsolidationAssumption`: sentinels (`NoFact`,
  `NoNode`, `NoEviction`, `Absent`, `NoRow`, ...) are no ids and no records, constant relations relate texts or names,
  bounds are naturals;
* `TemporalGraphAssumption`: names equal in lower case have one key, as `canonicalize_node`
  computes them;
* `PoolAssumption`, `ConsolidationAssumption`: there are finitely many tasks, of one kind each, a
  caller of the API is no loop, and a batch is at least one episode and no more than the LIMIT
  (`compress_episodes` has 3 and 25);
* `WorkingMemoryAssumption`: the labels of a row are finitely many, and `persona` is canonical;
* `PortabilityAssumption`: every edge has ends, and rows of different tables are
  different things, so that a bundle has a row in one table;
* `TurnAssumption`: every request has one session;
* `GraphReadsAssumption`, `RecallAssumption`: there are finitely many entities, an edge has ends,
  and finitely many rows, the hops of an activation and of a walk are at least one and the limits of the
  reads too, an activation has at most 15 hops (beyond which energies fall below its threshold and are
  dropped; the code uses 2 or 3), a row mentions entities and is valid from some time before now, there is a
  question with at least one word, which is its main verb, and `NoFact` is no row.

TLC evaluates all of them on the instances.  Each invariant below that strengthens a property was checked
by TLC on the instance of its run before it was proved.

| theorem | statement | argument |
|---|---|---|
| `FactStoreProofs!TypeCorrect` | `Spec => []TypeOK` | inductive as it stands |
| `DuplicatesBounded` | `Spec => []WritersBoundDuplicates` | `DupInv`: the active rows with a text *and the tasks past the hash check with it* are together at most as many as the tasks.  The rows alone are not inductive: a write adds one.  A task enters the second set only when the first is empty |
| `OnlyRetire` | `Spec => RowsOnlyRetire` | per action, from the type invariant |
| `Implements` | `Spec => Refines` | a step maps to a step of `Facts` or to a stutter (`StepRefines`): `Write` to `Remember`, since the id it takes is free, `FinishReplies` and `DeactivateRetires` for the endings and the deactivations; the candidates a request answers with are rows (`CandInv`), so its answer is known |
| `SubjectsAreKept` | `Spec => []SubjectsKept` | `CandInv` (candidates are rows, not free ids) and `TargetInv` (the row about to be superseded shares an entity with the new text), then per action: where an exclusive entity loses its row, the task that took it is about to write one |
| `TemporalGraphProofs!TypeCorrect` | `Spec => []TypeOK` | `Held` inside `TypeOK` says what the locals hold at each point of a request; without it the type of a row that `InsertEdge` writes does not follow |
| `OneActiveEdge` | `Spec => []OneEdgePerWriter` | `EdgeInv`: before `CloseOthers` no active edge that is the same is the task's own, and before `InsertEdge` no active edge of the source and relationship is.  Others may insert in between, but under their own name |
| `ClosedStays` | `Spec => ClosedForGood` | per action: only `CloseOthers`, `RemoveLink` and `Reset` write `to`, of active edges only |
| `GroundedEdges` | `Spec => []EdgesGrounded` | `GroundInv`: the nodes a request for a fact works on exist or were deleted, and past the statement that links a node each that is still there mentions the fact.  The property alone says nothing of a request before its edge; that ids are not used again (`Grows`) is what keeps a merge or a deletion from giving it a node that never heard of the fact |
| `OneNode` | `Spec => []OneNodePerWriter` | `NodeInv`: a row that does not exist has no maker, and what a task is about to upsert is the name of a node, or none of the nodes that it made has the key.  Others may make one meanwhile, but under their own name |
| `WorkingMemoryProofs!TypeCorrect` | `Spec => []TypeOK` | with `Staged`: a task that serves nothing is in no eviction, and an eviction lists blocks that exist; without it the block that `ArchiveBlock` shrinks need not be one |
| `EvictionsAreKept` | `AloneSpec => EvictionsKeep` | `EvictionInv`: of a block that nobody else changed, the loop knows the text as it is now, through the blocks it has shrunk itself; between `ArchiveBlock` and the write the archive has the text of the block to be shrunk, and the copy read after it is still right for every such block (`Known`).  A default that is inserted by the loop itself, and a block that has become read-only, change nothing a reader sees (`OwnStepKeeps`); whoever else writes only adds to `touched` (`OthersSpare`) |
| `RequestsActAtOnce` | `AloneSpec => ActsAtOnce` | `AloneInv`: while a request is alone, what a reader would see of the column is what it found, and its copy is the column as `get_blocks` returns it.  A registry that has every canonical block (`Full`) survives a round trip of the column unchanged (`SeenColumn`), so the write leaves what the request says (`SeenWrite`, `SeenErase`).  Only one request moves in a step (`MoverSteps`); any other ends the solitude of those it overlaps |
| `TurnProofs!TypeCorrect` | `Spec => []TypeOK` | with `Staged`: no extraction before the request hands over, a tool call only while tools are left.  The length of the prompt follows from `RecentType`, which says what the window of a log is |
| `TurnsLogged` | `Spec => []TurnLogged` | `LogInv` says for each place of a request what the log holds of it: nothing before `LogUser`, no answer until `LogAssistant`, all of it from there on, as `spawn` is reached only then.  Appending by another request moves no message (`Own` of the others is unchanged) |
| `PromptsRemember` | `Spec => []PromptRemembers` | `PromptInv`: those whose answers a request has seen stay answered, so they log nothing after its prompt was taken; whoever else appends only pushes messages out of the window, which weakens the conclusion |
| `PortabilityProofs!TypeCorrect` | `Spec => []TypeOK` | with `Progress` and the ids that bundles know being ids given out (`Known`) |
| `IntentionsFireOnce` | `Spec => []FiresOnce` | `Silent` (what a check told of does not wait, unless a bundle brought it back) and `Later` (a check that began after another was over selected nothing of what that one told).  Both speak of all checks at once: the property alone does not say what a check still in flight has selected |
| `ConsolidationProofs!TypeCorrect` | `Spec => []TypeOK` | inductive as it stands, part by part |
| `PerceptsAreKept` | `Spec => []PerceptsKept` | `Promoted`: between `Promote` and `Drop` the percept is stored.  A cut there leaves it in the buffer; a second cycle at the same percept has stored it too |
| `OneLoopRuns` | `Spec => []OneLoop` | `Held`: while a `stop` waits, the scheduler is off, so that the handle it clears is of the loop it cancelled |
| `GistsAreBounded` | `Spec => []GistsBounded` | `GistInv`, by counting sets of workers (`FiniteSetTheorems`): while an episode may be selected, its gists are at most the compressions that are *half way* with it and those that were cut; once it is marked or erased, its gists and the compressions *that may still store some* are together at most all workers and those cut.  The bound itself is not inductive: a worker that has selected the episode before it was marked adds a gist after |
| `LifecycleProofs!TypeCorrect` | `Spec => []TypeOK` | with what a request holds at each point (`Holds`): the text until it is inserted, the row `insert_fact` returned after that |
| `ContradictionsStay` | `Spec => []ContradictionsSettled` | `SettledInv`: rows that requests and contradictions speak of exist or were erased, and each part of a contradiction under way that its request is past has stayed done.  Every step keeps this of all rows at once (`Endures`): ids are not used again, contradictions are not removed, and no row that is inactive or closed becomes active or open |
| `ProtectedAreSpared` | `AloneSpec => ProtectedSpared` | `Spared`: what a lone sweep or rewriting is about to change was read unprotected, and still is: `Protect` would be a step of another request |
| `OpposedAreSuperseded` | `AloneSpec => OpposedSuperseded` | `Handled`: without errors, each opposed fact that a lone `remember` found is still to be treated, the one being treated, or settled (`Treated`); none is left to treat at its end.  That a settled one is no longer active is `SettledInv` of the theorem before |
| `PoolTypeCorrect`, `NothingLost` | `PoolSpec => []PoolTypeOK`, `PoolSpec => []Accounted` | one inductive invariant, `PoolInv == PoolTypeOK /\ Accounted`: neither is inductive alone.  Every step moves one task to a place of its own kind and leaves it with the depth of that place (`StepMoves`); the pool changes by the difference, and so does the number of connections in hands, counted as the holders of a first, of a second and of a third (`HoldersShift`) |
| `NeverStalls` | `PoolSpec => []NoStall` | from `PoolInv`: if all wait and the pool is empty, an insertion holds at most one connection and a dream cycle at most two, so `PoolSize` is at most `|Writer| + 2 |Dream|` |
| `RecallProofs!TypeCorrect` | `Spec => []TypeOK` | `Typed` adds what the reader holds at each place: nothing at rest (`Fresh`), cold entities in no frontier, a leading fact only once it is chosen, a hop of the walk between 1 and `MaxHops` |
| `VerbsLead` | `Spec => []VerbLeads` | `Informed`: on every way through the resolution, with or without the LLM, the graph, a pronoun or an error, the names of the question are among those resolved, from the place where they are read to the ranking.  So the words skipped before the verb are skipped by the code, and the asking word is the verb (`AsksMain`); `RankLeads` and `VerbLed` carry this from the ranking to the answer.  A pronoun beside a name is excluded: there the salient person takes the place of the names when the graph has no entity |
| `CommunitiesAreExact` | `Spec => []CommunitiesExact` | `Grouped`: until a writer moves, the groups are those of the edges there are.  The search is the ball around its start (`VisitedIsBall`), as many rounds as there are entities exhaust it (`BallExhausts`: a round that adds nothing is the last, and each other adds an entity), and a component is the ball of any of its members (`ComponentOfMember`) |
| `ActivationIsExact` | `Spec => []ActivationExact` | `Activating`, in a graph that does not move: `Warmth` (an energy is the distance, as far as the hops went; the next frontier is what was first met in this hop), `Spent` (whoever was visited has met its edges and its neighbours), `FoundNear` (an edge was met at the hop of its nearer end).  Nothing depends on the order within a frontier; `HopReached` is where a hop ends |
| `HitsAreKept` | `HistorySpec => []VectorHitsKept` | `Kept`: from the search on, what it found is among the hits; every later step, the errors included, only adds to these |
| `InactiveAsFallback` | `HistorySpec => []InactiveOnlyAsFallback` | `Excused`: a fact that has stayed active and linked is among the rows read of each entity it mentions (`ReadsSteady`), so a row that was never active is collected only of an entity that has none (`WalkExcused`), and stays excused when it becomes a hit (`HitsExcused`).  What is steady only shrinks and what was seen only grows, so writers undo no excuse (`Passing`) |
| `WalkIsComplete` | `HistorySpec => []WalkComplete` | `Walked`, in a store that does not move: what stands in the frontier is less than `hop` edges away (`Frontiers`), all within that distance either wait there or have their neighbours in the next one (`Opened`) and as many of their facts collected as the limit allows (`Gathered`, `Full`), each row collected at hop n is of an entity n - 1 edges away (`Justified`).  `BallStable`: when a frontier is empty before the last hop, the ball has stopped growing, so the early end of the walk misses nothing |
| `WalkReachesBesideWriters` | `HistorySpec => []WalkReaches` | `Reaching`, whatever writers do: `Trail`, what the edges that stayed open lead to, is in the frontier or has its neighbours in the next one (`Followed`) and its steady facts collected or as many as the limit (`Fed`); the frontiers are within `Reach`, over edges that were open at some moment (`Sought`).  What stays open shrinks and what was open grows while the walk runs, so a writer weakens what is left to show (`MovingStill`) |

The definitions that the searches are compared with speak of paths (`Ball`), and the code goes by
frontiers.  `BallExtends` and `BallLast` take a path apart at its last edge, which gives
the ball one round at a time (`BallRound`); what then needs an induction over the number of rounds
is stated as a set of naturals made by comprehension, to which `SetInduction` (0 is in it, and n + 1
with n) applies.  It rests on `NatLessThanWellFounded` and `WFMin` of the library.
What `ActivationExact`, `CommunitiesExact` and `WalkComplete` say is of a graph that does not move
meanwhile, as they state; `WalkReaches` is what is left of the last of them beside writers.

Only model-checked:

* Liveness under fairness, which is out of the prover's reach as is `ENABLED`: `Consolidated`,
  `LoopsEnd`, `Extracted`, `ReadsEnd`.
* The three counterexamples below, which are traces.

Every invariant and every other action property that a run checks is a theorem.  Induction theorems with an
operator parameter cannot be used here; where an induction was needed, it is the one over sets just described.

## Where the code and its documentation disagree

Three runs end in a counterexample.  Each checks one sentence of the repository:

* `WorkingMemory_playbooks`.  Any block operation rewrites the column without the
  playbooks; `execute_playbook` looks "across all saved playbooks".
* `Lifecycle_quarantine`.  `remember` retires the facts opposed to a claim before it
  acts on the verdict that the claim is suspect; "never silently merged".
* `Consolidation_forget`.  A compression that has read its episodes stores their
  gists after a `forget` has erased them; "the erased content cannot resurface
  through a summary".

Two sentences hold in part, and a property states the part that holds:

* An eviction archives and shortens the texts it read when it began; a note that another request
  added since is overwritten and is in no archive entry, in spite of "archiving evicted content
  instead of losing it".  `EvictionsKeep`: it loses nothing that others left alone.
* "where", "how", "when" and most pronouns are not among the skipped words, so such a question
  asks with that word, and a fact with its main verb need not lead, in spite of "it MUST
  lead".  `VerbLeads`: a question that comes to its verb first, but for skipped words and its own names,
  is led by a fact that has it.

More are listed in `PROJECT.json` without a run, because the model states
what the code does there: a decision of the model without a target that meets a
near duplicate becomes `NO_CHANGE` after the branch that returns on `NO_CHANGE`, and the
text is inserted (`DecideTargetless`; the comment says "do NOT silently insert a
duplicate"); `update_edge` closes every other target of the
relationship although its comment spares "multi-valued relationships", and closes
them at the start of the new edge, which may lie before theirs; the guard
against self-loops compares names before resolution; `update_memory` retires the
old row before the new text is accepted; and a `NO_CHANGE` whose row is among the
opposed candidates contradicts itself; episodes whose distillation gave no
readable answer are marked compressed; a percept whose insertion raised is
deleted; `create_memory_block` and `delete_memory_block` change blocks that "agent
tools cannot edit"; a prompt may hold the message of its turn twice, and tool
messages without the call they answer; an answer of the extraction model that is
not JSON stores nothing; most bundles cannot be imported again (edges come before
their nodes, playbooks have no table, profiles no id); a purge leaves episodes and intentions; with as many
insertions as connections the pool stalls; a recall can be "ok" without a result; one with
`valid_at` abstains unless told not to, and any other ignores its `limit`; deactivated rows answer
before/after questions; closed edges still bridge and make salient; memories are
reconsolidated although the recall abstains; and a `start` during a waiting `stop` leaves a loop that nobody can
cancel (`LoopsEnd` shows that it ends by itself once `_running` is off for good).

## What is not modelled

* Numbers: scores, decay, embeddings, calibration, token buckets.  Where a score
  decides, the model lets it decide either way.
* Texts: prompts, parsing of answers, formatting, logs.
* `forward_chain` and `abduce`, `traverse_graph` (the search of the activation without
  energies), the ranking of communities, point-in-time queries (one statement).
* Services: LLM providers and embedders may answer anything or raise.
* HTTP handlers, keys, the user interface, benchmarks: I/O around operations
  that are modelled.
* In the modelled components: ranking of searches, beyond what leads an answer; the
  time between two requests that a decayed similarity depends on; the counters of reconsolidation and meta-memory that a recall writes; the links between facts that
  `evolve_memory_network` adds; the posterior in a node's belief; importance,
  affect and review dates of facts; filters on type and source of a link.

## Plan

In order; each step is a module, its instance, its run and its mutants, then its
proofs.

1. Done: `FactStore`, `WorkingMemory`, `Lifecycle`, `TemporalGraph` and
   `Consolidation` with their proofs.
2. Done: `ConnectionPool` and `Turn` with their proofs.
3. Done: `Portability` with its proofs.  Left of it: what a `forget` or a purge leaves of a text
   while a turn is in flight.
4. Done: `Facts`, the refinement by `FactStore`, as a PROPERTY and as a theorem.
5. Done: `GraphReads` and `Recall` with their proofs.  Left of them: `traverse_graph`, the provenance of
   a fact, and `forward_chain` and `abduce` against reference definitions.
6. The writes of meta-memory and of the user profile (`metamemory.py`,
   `usermodel.py`): read a row, compute, upsert.
7. Done: a proof of every safety invariant and action property of all modules.

A step that adds runs or properties replaces the plainest of those there are, so
that each that is kept still says something of its own.

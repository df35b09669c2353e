---------------------------- MODULE TemporalGraph ----------------------------
(***************************************************************************)
(* The knowledge graph of one user: the tables graph_nodes and graph_edges *)
(* and the requests that write them.  build_fact_graph and the extraction  *)
(* of a turn resolve two entity names to nodes and then shift a relation   *)
(* between them; each awaits one autocommitted SQL statement after the     *)
(* other, so the requests of different tasks interleave between any two.   *)
(*                                                                         *)
(* A request handles one relation: the lists of relations that the code    *)
(* loops over are requests of one task that follow each other.             *)
(***************************************************************************)
EXTENDS Naturals, FiniteSets

CONSTANTS
    NodeId, EdgeId, \* the ids gen_random_uuid() can give to rows
    Name,      \* entity names, as stripped strings
    Normal,    \* Normal[x]: normalize_entity_name(x), without Inc, LLC ...
    Lower,     \* Lower[x]: x in lower case
    Key,       \* Key[x]: x in lower case and without spaces
    Close,     \* pairs of names that are prefixes of each other or 2 edits apart
    Similar,   \* pairs of names whose cosine reaches SEMANTIC_MERGE_THRESHOLD
    Rel,       \* relationships
    Triple,    \* the relations <<name, relationship, name>> that texts hold
    Fact,      \* ids of the facts that graphs are built from
    Task,      \* the tasks that serve requests of this user at the same time
    NoName, NoNode, NoEdge, NoFact, NoTask, \* the absence of one
    MaxTime,     \* the last instant
    MaxRequests, \* how many requests a behaviour may have
    MaxFaults    \* how many database or embedder errors a behaviour may have

Time == 0..MaxTime
Open == MaxTime + 1   \* valid_to IS NULL

ASSUME TemporalGraphAssumption ==
    /\ Normal \in [Name -> Name]
    /\ Triple \subseteq Name \X Rel \X Name /\ Rel # {}
    /\ \A x, y \in Name : Lower[x] = Lower[y] => Key[x] = Key[y]
    /\ NoName \notin Name /\ NoNode \notin NodeId /\ NoEdge \notin EdgeId
    /\ NoFact \notin Fact /\ NoTask \notin Task
    /\ MaxTime \in Nat /\ MaxRequests \in Nat /\ MaxFaults \in Nat

VARIABLES
    name,     \* name[n]: the name of node n, NoName when there is no such row
    mention,  \* mention[n]: the column fact_ids
    maker,    \* maker[n]: the task whose upsert_node made n, NoTask if none did
    edge,     \* edge[e]: the row e, or NoEdge
    deleted,  \* the ids of rows that were deleted
    now,      \* the clock
    pc,       \* pc[t]: where the request of task t stands
    loc,      \* loc[t]: its local variables
    requests, faults \* the requests and the errors so far

nodeVars == <<name, mention, maker>>
taskVars == <<pc, loc>>
vars == <<nodeVars, edge, deleted, now, taskVars, requests, faults>>

(* The writer of an edge is remembered to state who wrote it.               *)
Row == [src : NodeId, tgt : NodeId, rel : Rel, from : Time, to : Time \cup {Open},
        fact : Fact \cup {NoFact}, writer : Task]

(* src and tgt: the names of a relation; known: what resolving one of them  *)
(* found; snode and tnode: their nodes; at: valid_from.                     *)
Locals == [op : {"fact", "turn", "link", "none"}, src : Name \cup {NoName},
           tgt : Name \cup {NoName}, known : Name \cup {NoName},
           snode : NodeId \cup {NoNode}, tnode : NodeId \cup {NoNode},
           rel : Rel, at : Time \cup {Open}, fact : Fact \cup {NoFact},
           hit : EdgeId \cup {NoEdge}]

NoLocals == [op |-> "none", src |-> NoName, tgt |-> NoName, known |-> NoName,
             snode |-> NoNode, tnode |-> NoNode, rel |-> CHOOSE r \in Rel : TRUE,
             at |-> Open, fact |-> NoFact, hit |-> NoEdge]

Node == {n \in NodeId : name[n] # NoName}
Edge == {e \in EdgeId : edge[e] # NoEdge}
Active == {e \in Edge : edge[e].to = Open}
ActiveOf(s, r) == {e \in Active : edge[e].src = s /\ edge[e].rel = r}

Point == {"idle", "resolve", "merge", "upsert", "mention", "mentionTgt", "believe",
          "shift", "reuse", "close", "insert", "purge"}

(* What the locals l hold when a request stands at p.                       *)
Held(p, l) ==
    /\ p \in {"resolve", "merge", "upsert"} => {l.src, l.tgt} \subseteq Name
    /\ p \in {"merge", "upsert", "believe"} => l.known \in Name
    /\ p \in {"mention", "mentionTgt"} => l.op = "fact"
    /\ p \in {"close", "insert"} => l.at \in Time
    /\ l.op = "fact" => l.fact \in Fact

TypeOK ==
    /\ name \in [NodeId -> Name \cup {NoName}]
    /\ mention \in [NodeId -> SUBSET Fact]
    /\ maker \in [NodeId -> Task \cup {NoTask}]
    /\ edge \in [EdgeId -> Row \cup {NoEdge}]
    /\ deleted \subseteq NodeId \cup EdgeId
    /\ now \in Time
    /\ pc \in [Task -> Point]
    /\ loc \in [Task -> Locals]
    /\ \A t \in Task : Held(pc[t], loc[t])
    /\ requests \in 0..MaxRequests
    /\ faults \in 0..MaxFaults

Init ==
    /\ name = [n \in NodeId |-> NoName]
    /\ mention = [n \in NodeId |-> {}]
    /\ maker = [n \in NodeId |-> NoTask]
    /\ edge = [e \in EdgeId |-> NoEdge]
    /\ deleted = {}
    /\ now = 0
    /\ pc = [t \in Task |-> "idle"]
    /\ loc = [t \in Task |-> NoLocals]
    /\ requests = 0
    /\ faults = 0
-----------------------------------------------------------------------------
Go(t, where, l) ==
    /\ pc' = [pc EXCEPT ![t] = where]
    /\ loc' = [loc EXCEPT ![t] = l]

Finish(t) == Go(t, "idle", NoLocals)

Begin(t, where, l) ==
    /\ pc[t] = "idle" /\ requests < MaxRequests
    /\ requests' = requests + 1
    /\ Go(t, where, l)
    /\ UNCHANGED <<nodeVars, edge, deleted, now, faults>>

(* The id of a new row.  Which unused one it is makes no difference; the    *)
(* instance has enough of them for MaxRequests requests.                    *)
Fresh(ids, rows) ==
    LET free == ids \ (rows \cup deleted) IN
    IF free = {} THEN {} ELSE {CHOOSE i \in free : TRUE}

(* build_fact_graph: a relation between names that are equal in lower case  *)
(* is skipped.                                                              *)
BeginFact(t, k, f) ==
    /\ Lower[k[1]] # Lower[k[3]]
    /\ Begin(t, "resolve", [NoLocals EXCEPT !.op = "fact", !.src = k[1], !.rel = k[2],
                                            !.tgt = k[3], !.fact = f])

(* An edge the LLM extracts from a turn (or the dream cycle from the facts):*)
(* with its timestamp v in the past, or without one (Open).                 *)
BeginTurn(t, k, v) ==
    Begin(t, "resolve", [NoLocals EXCEPT !.op = "turn", !.src = k[1], !.rel = k[2],
                                         !.tgt = k[3], !.at = v])

(* create_link between two nodes the caller knows, which may be gone.       *)
BeginLink(t, a, r, b) ==
    /\ {a, b} \subseteq Node \cup deleted
    /\ Begin(t, "shift", [NoLocals EXCEPT !.op = "link", !.snode = a, !.tnode = b, !.rel = r])
-----------------------------------------------------------------------------
(* upsert_node works on the source first, then on the target.               *)
Named(t) == IF loc[t].snode = NoNode THEN loc[t].src ELSE loc[t].tgt

Alike(R, x, y) == <<x, y>> \in R \/ <<y, x>> \in R
Names == {name[n] : n \in Node}
SameKey(x) == {y \in Names : Key[y] = Key[Normal[x]]}
CloseTo(x) == {y \in Names : Alike(Close, y, Normal[x])}

(* Faulty variant: the exact match is on the string.                        *)
ResolveExact(t) ==
    /\ pc[t] = "resolve"
    /\ LET x == Named(t) IN
       \E y \in IF x \in Names THEN {x}
                ELSE IF CloseTo(x) # {} THEN CloseTo(x) ELSE {Normal[x]} :
          Go(t, IF y = x THEN "merge" ELSE "upsert", [loc[t] EXCEPT !.known = y])
    /\ UNCHANGED <<nodeVars, edge, deleted, now, requests, faults>>

(* resolve_canonical_node_name: a node of the same key, else one with a     *)
(* prefix or a small edit distance, else the normalised name.               *)
Resolve(t) ==
    /\ pc[t] = "resolve"
    /\ LET x == Named(t) IN
       \E y \in IF SameKey(x) # {} THEN SameKey(x)
                ELSE IF CloseTo(x) # {} THEN CloseTo(x) ELSE {Normal[x]} :
          Go(t, IF y = x THEN "merge" ELSE "upsert", [loc[t] EXCEPT !.known = y])
    /\ UNCHANGED <<nodeVars, edge, deleted, now, requests, faults>>

(* _semantic_match_node, only when resolution gave back the name itself:    *)
(* the nearest node with an embedding, if there is one near enough.  The    *)
(* nodes that update_bayesian_belief makes have no embedding.               *)
Embedded == {name[n] : n \in {m \in Node : maker[m] # NoTask}}

Merge(t) ==
    /\ pc[t] = "merge"
    /\ LET x == Named(t)
           near == {y \in Embedded : Alike(Similar, x, y)} IN
       \E y \in IF x \in Embedded \/ near = {} THEN {x} ELSE near :
          Go(t, "upsert", [loc[t] EXCEPT !.known = y])
    /\ UNCHANGED <<nodeVars, edge, deleted, now, requests, faults>>

After(t) ==
    IF loc[t].snode = NoNode THEN "resolve"
    ELSE IF loc[t].op = "fact" THEN "mention" ELSE "believe"

Found(t, n) ==
    Go(t, After(t), IF loc[t].snode = NoNode
                    THEN [loc[t] EXCEPT !.known = NoName, !.snode = n]
                    ELSE [loc[t] EXCEPT !.tnode = n])

(* INSERT ... ON CONFLICT (user_id, name) DO UPDATE ... RETURNING.          *)
Upsert(t) ==
    /\ pc[t] = "upsert"
    /\ \/ /\ \E n \in Node : name[n] = loc[t].known /\ Found(t, n)
          /\ UNCHANGED nodeVars
       \/ /\ loc[t].known \notin Names
          /\ \E n \in Fresh(NodeId, Node) :
                /\ name' = [name EXCEPT ![n] = loc[t].known]
                /\ maker' = [maker EXCEPT ![n] = t]
                /\ Found(t, n)
          /\ UNCHANGED mention
    /\ UNCHANGED <<edge, deleted, now, requests, faults>>

Mentioned(n, f) ==
    mention' = IF n \in Node THEN [mention EXCEPT ![n] = @ \cup {f}] ELSE mention

(* Faulty variant: the target is not told about the fact.                   *)
MentionNothing(t) ==
    /\ pc[t] = "mentionTgt"
    /\ Go(t, "shift", loc[t])
    /\ UNCHANGED <<nodeVars, edge, deleted, now, requests, faults>>

(* _link_fact_to_node, for the source and then for the target.              *)
MentionSource(t) ==
    /\ pc[t] = "mention"
    /\ Mentioned(loc[t].snode, loc[t].fact)
    /\ Go(t, "mentionTgt", loc[t])
    /\ UNCHANGED <<name, maker, edge, deleted, now, requests, faults>>

MentionTarget(t) ==
    /\ pc[t] = "mentionTgt"
    /\ Mentioned(loc[t].tnode, loc[t].fact)
    /\ Go(t, "shift", loc[t])
    /\ UNCHANGED <<name, maker, edge, deleted, now, requests, faults>>

(* The transaction of update_bayesian_belief, as far as rows go: it creates *)
(* the node under the name it was given if no node has that name in some    *)
(* case.  The posterior it stores is not modelled.                          *)
Believed(x) ==
    IF \E y \in Names : Lower[y] = Lower[x] THEN UNCHANGED name
    ELSE \E n \in Fresh(NodeId, Node) : name' = [name EXCEPT ![n] = x]

(* The extraction revises the belief in the target it found.                *)
Believe(t) ==
    /\ pc[t] = "believe"
    /\ Believed(loc[t].known)
    /\ Go(t, "shift", loc[t])
    /\ UNCHANGED <<mention, maker, edge, deleted, now, requests, faults>>
-----------------------------------------------------------------------------
(* Where update_edge starts: valid_from is the time it was given, or now.   *)
From(t) == IF loc[t].at = Open THEN now ELSE loc[t].at

SameAs(t, e) == /\ edge[e].src = loc[t].snode /\ edge[e].tgt = loc[t].tnode
                /\ edge[e].rel = loc[t].rel

(* Faulty variant: valid_from stays empty when it was not given.            *)
ShiftUntimed(t) ==
    /\ pc[t] = "shift"
    /\ \/ \E e \in Active : SameAs(t, e) /\ Go(t, "reuse", [loc[t] EXCEPT !.hit = e])
       \/ (\A e \in Active : ~SameAs(t, e)) /\ Go(t, "close", loc[t])
    /\ UNCHANGED <<nodeVars, edge, deleted, now, requests, faults>>

(* update_edge, the search for an active edge that is the same.             *)
Shift(t) ==
    /\ pc[t] = "shift"
    /\ \/ \E e \in Active : SameAs(t, e) /\ Go(t, "reuse", [loc[t] EXCEPT !.hit = e])
       \/ /\ \A e \in Active : ~SameAs(t, e)
          /\ Go(t, "close", [loc[t] EXCEPT !.at = From(t)])
    /\ UNCHANGED <<nodeVars, edge, deleted, now, requests, faults>>

(* The row is read again by its id and returned; when it was deleted, the   *)
(* request raises.                                                          *)
Reuse(t) ==
    /\ pc[t] = "reuse"
    /\ Finish(t)
    /\ UNCHANGED <<nodeVars, edge, deleted, now, requests, faults>>

ClosedAt(s, v) ==
    edge' = [e \in EdgeId |-> IF e \in s THEN [edge[e] EXCEPT !.to = v] ELSE edge[e]]

Others(t) == {e \in Edge : /\ edge[e].src = loc[t].snode /\ edge[e].rel = loc[t].rel
                           /\ edge[e].tgt # loc[t].tnode}

(* Faulty variant: the old edge of the relation is left as it is.           *)
CloseNothing(t) ==
    /\ pc[t] = "close"
    /\ Go(t, "insert", loc[t])
    /\ UNCHANGED <<nodeVars, edge, deleted, now, requests, faults>>

(* Faulty variant: edges that are closed already are closed again.          *)
CloseAgain(t) ==
    /\ pc[t] = "close"
    /\ ClosedAt(Others(t), loc[t].at)
    /\ Go(t, "insert", loc[t])
    /\ UNCHANGED <<nodeVars, deleted, now, requests, faults>>

(* The other active edges of the same source and relationship are closed.   *)
CloseOthers(t) ==
    /\ pc[t] = "close"
    /\ ClosedAt(Others(t) \cap Active, loc[t].at)
    /\ Go(t, "insert", loc[t])
    /\ UNCHANGED <<nodeVars, deleted, now, requests, faults>>

(* INSERT: the foreign keys raise when an endpoint was deleted.             *)
InsertEdge(t) ==
    /\ pc[t] = "insert"
    /\ IF {loc[t].snode, loc[t].tnode} \subseteq Node
       THEN \E e \in Fresh(EdgeId, Edge) :
               /\ edge' = [edge EXCEPT ![e] =
                     [src |-> loc[t].snode, tgt |-> loc[t].tnode, rel |-> loc[t].rel,
                      from |-> loc[t].at, to |-> Open, fact |-> loc[t].fact, writer |-> t]]
       ELSE UNCHANGED edge
    /\ Finish(t)
    /\ UNCHANGED <<nodeVars, deleted, now, requests, faults>>
-----------------------------------------------------------------------------
(* Requests of one statement or one transaction.                            *)
OneStatement ==
    /\ requests < MaxRequests
    /\ requests' = requests + 1
    /\ UNCHANGED <<now, taskVars, faults>>

(* remove_link, with a relationship or without.  Its filters on link_type   *)
(* and link_source are left out.                                            *)
RemoveLink(a, b, R) ==
    /\ OneStatement
    /\ ClosedAt({e \in Active : edge[e].src = a /\ edge[e].tgt = b /\ edge[e].rel \in R}, now)
    /\ UNCHANGED <<nodeVars, deleted>>

(* The statement of reset_user on the graph.                                *)
Reset ==
    /\ OneStatement
    /\ ClosedAt(Active, now)
    /\ UNCHANGED <<nodeVars, deleted>>

(* update_bayesian_belief called from outside.                              *)
ReviseBelief(x) ==
    /\ OneStatement
    /\ Believed(x)
    /\ UNCHANGED <<mention, maker, edge, deleted>>

(* Deleting the nodes deletes their edges (ON DELETE CASCADE).              *)
DropNodes ==
    /\ deleted' = deleted \cup Node \cup Edge
    /\ name' = [n \in NodeId |-> NoName]
    /\ mention' = [n \in NodeId |-> {}]
    /\ maker' = [n \in NodeId |-> NoTask]
    /\ edge' = [e \in EdgeId |-> NoEdge]

(* forget deletes edges and nodes in one transaction ...                    *)
Forget == OneStatement /\ DropNodes

(* ... purge_user_memories in two statements.                               *)
PurgeEdges(t) ==
    /\ pc[t] = "idle" /\ requests < MaxRequests
    /\ requests' = requests + 1
    /\ deleted' = deleted \cup Edge
    /\ edge' = [e \in EdgeId |-> NoEdge]
    /\ Go(t, "purge", NoLocals)
    /\ UNCHANGED <<nodeVars, now, faults>>

PurgeNodes(t) ==
    /\ pc[t] = "purge"
    /\ DropNodes
    /\ Finish(t)
    /\ UNCHANGED <<now, requests, faults>>

Tick ==
    /\ now < MaxTime
    /\ now' = now + 1
    /\ UNCHANGED <<nodeVars, edge, deleted, taskVars, requests, faults>>

(* A statement or an embedding raises: resolution falls back on the         *)
(* normalised name, the semantic match on the name, a mention and a belief  *)
(* are skipped; anything else ends the request.                             *)
Fail(t) ==
    /\ pc[t] # "idle"
    /\ faults < MaxFaults
    /\ faults' = faults + 1
    /\ CASE pc[t] = "resolve" ->
              Go(t, IF Normal[Named(t)] = Named(t) THEN "merge" ELSE "upsert",
                 [loc[t] EXCEPT !.known = Normal[Named(t)]])
         [] pc[t] = "merge" -> Go(t, "upsert", loc[t])
         [] pc[t] = "mention" -> Go(t, "mentionTgt", loc[t])
         [] pc[t] \in {"mentionTgt", "believe"} -> Go(t, "shift", loc[t])
         [] OTHER -> Finish(t)
    /\ UNCHANGED <<nodeVars, edge, deleted, now, requests>>

Step(t) ==
    \/ Resolve(t) \/ Merge(t) \/ Upsert(t) \/ MentionSource(t) \/ MentionTarget(t)
    \/ Believe(t) \/ Shift(t) \/ Reuse(t) \/ CloseOthers(t) \/ InsertEdge(t) \/ PurgeNodes(t)

Request(t) ==
    \/ \E k \in Triple, f \in Fact : BeginFact(t, k, f)
    \/ \E k \in Triple, v \in 0..now \cup {Open} : BeginTurn(t, k, v)
    \/ \E a, b \in NodeId, r \in Rel : BeginLink(t, a, r, b)
    \/ PurgeEdges(t)

Next ==
    \/ \E t \in Task : Step(t) \/ Request(t) \/ Fail(t)
    \/ \E a, b \in Node, R \in {Rel} \cup {{r} : r \in Rel} : RemoveLink(a, b, R)
    \/ \E x \in Name : ReviseBelief(x)
    \/ Reset \/ Forget \/ Tick

Spec == Init /\ [][Next]_vars
-----------------------------------------------------------------------------
(* Two active edges of one source and relationship were written by          *)
(* different tasks: without concurrency a relationship has one current      *)
(* target ("no duplicate active edges", tests/test_memory.py lines 211-240),*)
(* and with it no more than there are tasks (update_edge has no             *)
(* transaction and graph_edges no constraint).                              *)
OneEdgePerWriter ==
    \A e, f \in Active :
        /\ e # f
        /\ edge[e].src = edge[f].src /\ edge[e].rel = edge[f].rel
        => edge[e].writer # edge[f].writer

(* Two nodes of one key were made by upsert_node of different tasks, as     *)
(* long as nothing raised: without concurrency an entity written with or    *)
(* without spaces stays one node (canonicalize_node.py lines 28-33).  Nodes *)
(* that update_bayesian_belief makes do not count: it only compares names   *)
(* in lower case.                                                           *)
OneNodePerWriter ==
    faults = 0 =>
        \A m, n \in Node :
            m # n /\ Key[name[m]] = Key[name[n]] /\ maker[m] # NoTask
                => maker[m] # maker[n]

(* An edge that a fact gave rise to can be reached from both its endpoints: *)
(* both mention the fact, as long as nothing raised (graph_build.py lines   *)
(* 54-57, "so multi-hop recall can resolve facts via the graph").           *)
EdgesGrounded ==
    faults = 0 =>
        \A e \in Edge : edge[e].fact # NoFact =>
            edge[e].fact \in mention[edge[e].src] \cap mention[edge[e].tgt]

(* The record of an edge is final: its validity starts when it was said to  *)
(* and ends once ("point-in-time history is preserved", links.py lines 8-9).*)
ClosedForGood ==
    [][\A e \in Edge \cap Edge' :
          /\ edge'[e].from = edge[e].from
          /\ e \notin Active => edge'[e] = edge[e]]_edge
=============================================================================

------------------------------ MODULE GraphReads ------------------------------
(***************************************************************************)
(* The reads of the entity graph that take several steps: the spreading    *)
(* activation, the export and the communities.  Each statement sees the    *)
(* tables as they are when it runs, and writers of the same user commit    *)
(* between any two of them.  Readers write nothing another reader reads,   *)
(* so one reader at a time shows all they can meet.                        *)
(*                                                                         *)
(* An entity stands for its name (names are compared without case), an     *)
(* edge for the pair of its ends, and an activation energy for the number  *)
(* of attenuations behind it: 1.0 * 0.85^n is n.                           *)
(***************************************************************************)
EXTENDS Naturals, FiniteSets

CONSTANTS
    Entity,      \* the names of entities
    Claim,       \* the edges writers may assert: pairs <<source, target>>
    ActHops,     \* max_hops of the activation; within 15 hops no energy is
                 \* below the threshold of 0.1
    MaxChanges,  \* how many statements of writers the reads may meet
    MaxFaults    \* how many errors they may meet

ASSUME GraphReadsAssumption ==
    /\ IsFiniteSet(Entity)
    /\ Claim \subseteq Entity \X Entity
    /\ ActHops \in 1..15
    /\ MaxChanges \in Nat
    /\ MaxFaults \in Nat

VARIABLES
    nodes,    \* the entities that have a row in graph_nodes
    live,     \* the edges with valid_to and expired_at NULL
    past,     \* the edges that were closed
    pc,       \* where the reader stands
    hop,      \* the hop its walk is in
    todo,     \* what is left of the frontier
    next,     \* the frontier of the next hop
    energy,   \* energy[e]: attenuations behind the energy of e, or Cold
    reached,  \* reached[c]: those behind an edge the activation found, or Cold
    shown,    \* the nodes and the links an export read, or the communities
    changes,  \* how many statements of writers met a read
    faults    \* how many errors did

graphVars == <<nodes, live, past>>
walkVars  == <<hop, todo, next>>
showVars  == <<energy, reached, shown>>

Cold == ActHops + 1
Nothing == [nodes |-> {}, links |-> {}, groups |-> {}]

Ends(c) == {c[1], c[2]}
Touching(E, e) == {c \in E : e \in Ends(c)}
Neighbours(E, e) == (UNION {Ends(c) : c \in Touching(E, e)}) \ {e}

(* The foreign keys of graph_edges.                                         *)
GraphOK == /\ nodes \subseteq Entity
           /\ live \subseteq Claim /\ past \subseteq Claim
           /\ \A c \in live \cup past : Ends(c) \subseteq nodes

GraphTypeOK ==
    /\ GraphOK
    /\ hop \in Nat
    /\ todo \subseteq Entity /\ next \subseteq Entity
    /\ energy \in [Entity -> 0..Cold]
    /\ reached \in [Claim -> 1..Cold]
    /\ shown.nodes \subseteq Entity
    /\ shown.links \subseteq Claim
    /\ shown.groups \subseteq SUBSET Entity
    /\ changes \in 0..MaxChanges
    /\ faults \in 0..MaxFaults

GraphInit ==
    /\ nodes \in SUBSET Entity
    /\ live \in SUBSET {c \in Claim : Ends(c) \subseteq nodes}
    /\ past \in SUBSET {c \in Claim : Ends(c) \subseteq nodes}
    /\ pc = "idle" /\ hop = 0 /\ todo = {} /\ next = {}
    /\ energy = [e \in Entity |-> Cold]
    /\ reached = [c \in Claim |-> Cold]
    /\ shown = Nothing
    /\ changes = 0 /\ faults = 0
-----------------------------------------------------------------------------
(* The statements of writers: upsert_node, the two of update_edge, and the  *)
(* deletion of the graph by reset_user, whose foreign keys cascade.         *)
Changes == pc # "idle" /\ changes < MaxChanges /\ changes' = changes + 1

AddNode(e) == nodes' = nodes \cup {e} /\ UNCHANGED <<live, past>>

AddEdge(c) ==
    /\ Ends(c) \subseteq nodes
    /\ live' = live \cup {c}
    /\ UNCHANGED <<nodes, past>>

CloseEdge(c) ==
    /\ c \in live
    /\ live' = live \ {c}
    /\ past' = past \cup {c}
    /\ UNCHANGED nodes

DropGraph == nodes' = {} /\ live' = {} /\ past' = {}

WriteGraph ==
    /\ Changes
    /\ \/ \E e \in Entity \ nodes : AddNode(e)
       \/ \E c \in Claim \ live : AddEdge(c)
       \/ \E c \in Claim : CloseEdge(c)
       \/ nodes # {} /\ DropGraph
    /\ UNCHANGED <<pc, walkVars, showVars, faults>>
-----------------------------------------------------------------------------
(* run_spreading_activation: the seeds have the full energy.                *)
BeginActivation(S) ==
    /\ pc = "idle"
    /\ pc' = "activate"
    /\ todo' = S
    /\ energy' = [e \in Entity |-> IF e \in S THEN 0 ELSE Cold]
    /\ UNCHANGED <<graphVars, hop, next, reached, shown, changes, faults>>

(* Faulty variant: an edge met again takes the energy of the later visit.   *)
ActivateLast(e) ==
    /\ pc = "activate"
    /\ e \in todo
    /\ todo' = todo \ {e}
    /\ LET spread == energy[e] + 1
           warmed == {m \in Neighbours(live, e) : energy[m] > spread}
       IN  /\ reached' = [c \in Claim |-> IF c \in Touching(live, e) THEN spread
                                          ELSE reached[c]]
           /\ energy' = [m \in Entity |-> IF m \in warmed THEN spread ELSE energy[m]]
           /\ next' = next \cup warmed
    /\ UNCHANGED <<graphVars, pc, hop, shown, changes, faults>>

(* One node of the frontier: its open edges are read; those not seen before *)
(* take the attenuated energy, and so do the neighbours that had less.      *)
Activate(e) ==
    /\ pc = "activate"
    /\ e \in todo
    /\ todo' = todo \ {e}
    /\ LET spread == energy[e] + 1
           fresh  == {c \in Touching(live, e) : reached[c] = Cold}
           warmed == {m \in Neighbours(live, e) : energy[m] > spread}
       IN  /\ reached' = [c \in Claim |-> IF c \in fresh THEN spread ELSE reached[c]]
           /\ energy' = [m \in Entity |-> IF m \in warmed THEN spread ELSE energy[m]]
           /\ next' = next \cup warmed
    /\ UNCHANGED <<graphVars, pc, hop, shown, changes, faults>>

EndActivationHop ==
    /\ pc = "activate"
    /\ todo = {}
    /\ IF hop + 1 < ActHops
       THEN pc' = pc /\ hop' = hop + 1 /\ todo' = next /\ next' = {}
       ELSE pc' = "activated" /\ UNCHANGED <<hop, todo, next>>
    /\ UNCHANGED <<graphVars, showVars, changes, faults>>

(* export_knowledge_graph: the nodes, then the open edges; an edge one end  *)
(* of which was not among the nodes is left out.                            *)
ExportNodes ==
    /\ pc = "idle"
    /\ pc' = "export"
    /\ shown' = [Nothing EXCEPT !.nodes = nodes]
    /\ UNCHANGED <<graphVars, walkVars, energy, reached, changes, faults>>

ExportLinks ==
    /\ pc = "export"
    /\ pc' = "exported"
    /\ shown' = [shown EXCEPT !.links = {c \in live : Ends(c) \subseteq shown.nodes}]
    /\ UNCHANGED <<graphVars, walkVars, energy, reached, changes, faults>>

(* What the stack of detect_communities has visited from S after n rounds.  *)
Visited(E, S, n) ==
    LET v[i \in 0..n] ==
          IF i = 0 THEN S ELSE v[i-1] \cup UNION {Neighbours(E, e) : e \in v[i-1]}
    IN  v[n]

(* Faulty variant: edges are followed from source to target only.           *)
DirectedCommunities(E) ==
    LET v[i \in 0..Cardinality(Entity), S \in SUBSET Entity] ==
          IF i = 0 THEN S ELSE v[i-1, S \cup {c[2] : c \in {d \in E : d[1] \in S}}]
    IN  {v[Cardinality(Entity), {e}] : e \in UNION {Ends(c) : c \in E}}

(* detect_communities: for each end of an open edge, all that the stack     *)
(* reaches from it over neighbours.                                         *)
Communities(E) ==
    {Visited(E, {e}, Cardinality(Entity)) : e \in UNION {Ends(c) : c \in E}}

DetectCommunities ==
    /\ pc = "idle"
    /\ pc' = "grouped"
    /\ shown' = [Nothing EXCEPT !.groups = Communities(live)]
    /\ UNCHANGED <<graphVars, walkVars, energy, reached, changes, faults>>

(* An error of a statement is logged and the reader answers with nothing.   *)
GraphFault ==
    /\ pc \in {"activate", "export"}
    /\ faults < MaxFaults
    /\ faults' = faults + 1
    /\ pc' = "empty"
    /\ reached' = [c \in Claim |-> Cold]
    /\ shown' = Nothing
    /\ UNCHANGED <<graphVars, walkVars, energy, changes>>

Rest ==
    /\ pc' = "idle" /\ hop' = 0 /\ todo' = {} /\ next' = {}
    /\ energy' = [e \in Entity |-> Cold]
    /\ reached' = [c \in Claim |-> Cold]
    /\ shown' = Nothing
    /\ UNCHANGED <<graphVars, changes, faults>>

GraphReturn == pc \in {"activated", "exported", "grouped", "empty"} /\ Rest

GraphStep ==
    \/ \E e \in Entity : Activate(e)
    \/ EndActivationHop \/ ExportLinks \/ GraphReturn

GraphNext ==
    \/ GraphStep \/ GraphFault \/ WriteGraph
    \/ \E S \in (SUBSET Entity) \ {{}} : BeginActivation(S)
    \/ ExportNodes \/ DetectCommunities
-----------------------------------------------------------------------------
(* The entities at most n edges of E away from S.                           *)
Ball(E, S, n) ==
    {e \in Entity : \E m \in 0..n : \E p \in [0..m -> Entity] :
        /\ p[0] \in S /\ p[m] = e
        /\ \A i \in 1..m : \E c \in E : Ends(c) = {p[i-1], p[i]}}

(* The activation is a breadth-first search whatever order the nodes are    *)
(* visited in: when no writer moved it has found exactly the edges that     *)
(* touch an entity less than ActHops edges away from a seed, each with one  *)
(* attenuation more than the distance of its nearer end (lines 36-71).      *)
ActivationExact ==
    pc = "activated" /\ changes = 0 =>
        \A c \in Claim :
            LET seeds == {e \in Entity : energy[e] = 0}
                near(n) == c \in live /\ Ends(c) \cap Ball(live, seeds, n) # {}
            IN  \A n \in 1..ActHops : reached[c] <= n <=> near(n - 1)

(* Communities are the connected components of the open edges, taken        *)
(* without direction: no entity is in two of them, and one holds another    *)
(* exactly when some path of open edges joins them.                         *)
CommunitiesExact ==
    pc = "grouped" /\ changes = 0 =>
        \A e \in UNION {Ends(c) : c \in live} :
            {g \in shown.groups : e \in g} = {Ball(live, {e}, Cardinality(Entity))}
=============================================================================

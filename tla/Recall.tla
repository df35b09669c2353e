-------------------------------- MODULE Recall --------------------------------
(***************************************************************************)
(* engine.recall: what is read, in which order, to answer one question     *)
(* about the memories of a user, and when the engine abstains.  A request  *)
(* recognises the question, searches the rows or the valid-time lattice,   *)
(* resolves the entities the question is about, walks the entity graph     *)
(* from them and leads the answer with the facts that hold the verb of the *)
(* question.  Writers move between any two statements; the errors that the *)
(* code swallows are Fault.                                                *)
(*                                                                         *)
(* The order of an answer is kept as its first fact; the scores behind the *)
(* rest of it, the reranker and the working set of tools are left out, and *)
(* so are the counters that reconsolidation and meta-memory write, which   *)
(* no step of a recall reads.                                              *)
(***************************************************************************)
EXTENDS GraphReads, Sequences

CONSTANTS
    Fact,      \* ids of rows of atomic_facts
    Mentions,  \* Mentions[f]: the entities named in its text
    When,      \* When[f]: its valid_from
    Now,       \* the time at which rows are closed, after every valid_from
    Person,    \* the entities of type PERSON
    Word,      \* words of questions, some of them names of entities
    Skip,      \* the words of _SKIP and those of at most two letters
    Says,      \* Says[f]: the words that the text of f holds, or a form of them
    Question,  \* what callers ask, see QuestionOK
    Answers,   \* the sets of names the LLM resolves a question to, {} when it fails
    MaxHops,   \* hops of the walk
    Thin,      \* fewer hits than this are expanded over the graph
    FactLimit, \* the LIMIT of _facts_for_entity
    BridgeLimit, \* the LIMIT of _graph_neighbors
    NoFact     \* "None"

(* A question: the entities it names, its words and its main verb, whether  *)
(* it asks about before or after an entity or about a time, whether it has  *)
(* a pronoun of anaphora.py (he, she, they, it) or of the engine (he, she,  *)
(* they, his, her, their), the facts whose text it is, and how many facts   *)
(* routing takes.                                                           *)
QuestionOK(q) ==
    /\ q.names \subseteq Entity /\ q.anchor \in Entity
    /\ q.words \in Seq(Word) /\ \E i \in DOMAIN q.words : q.words[i] = q.main
    /\ q.kind \in {"plain", "before", "after", "at"} /\ q.time \in Nat
    /\ q.pronoun \in BOOLEAN /\ q.person \in BOOLEAN /\ q.enforce \in BOOLEAN
    /\ q.same \subseteq Fact
    /\ q.top \in Nat \ {0} /\ q.limit \in Nat \ {0}

ASSUME RecallAssumption ==
    /\ IsFiniteSet(Fact) /\ Mentions \in [Fact -> SUBSET Entity]
    /\ When \in [Fact -> Nat \ {0}]
    /\ Now \in Nat /\ \A f \in Fact : When[f] < Now
    /\ Person \subseteq Entity
    /\ Says \in [Fact -> SUBSET Word]
    /\ Question # {} /\ \A q \in Question : QuestionOK(q)
    /\ Answers \subseteq SUBSET Entity
    /\ MaxHops \in Nat \ {0} /\ Thin \in Nat
    /\ FactLimit \in Nat \ {0} /\ BridgeLimit \in Nat \ {0}
    /\ NoFact \notin Fact

VARIABLES
    st,       \* st[f]: "none", "active", "inactive" or "closed" (inactive and
              \* with a valid_to)
    linked,   \* the facts whose id is in fact_ids of the nodes they mention
    q,        \* the question
    topk,     \* routing.top_k
    hits,     \* the facts found so far
    lead,     \* the first of the answer, once it is ranked
    names,    \* the entities the engine resolved
    cur,      \* the entity whose facts are being read, the entities to bridge
    ids,      \* fact_ids of its node
    depth,    \* depth[f]: the hop at which the walk collected f, or 0
    extra,    \* what the walk returned
    dated,    \* whether the answer came from before/after
    verdict   \* "none", "ok", "abstained" or "failed"

factVars == <<st, linked>>
askVars  == <<q, topk>>
hitVars  == <<hits, lead>>
nameVars == <<names, cur, ids, depth, extra, dated>>
vars == <<graphVars, pc, walkVars, showVars, changes, faults,
          factVars, askVars, hitVars, nameVars, verdict>>

Active == {f \in Fact : st[f] = "active"}
Stored == {f \in Fact : st[f] # "none"}
ValidAt(t) == {f \in Stored : When[f] <= t /\ (st[f] = "closed" => t < Now)}
Fetch(S, n) == {h \in SUBSET S : Cardinality(h) = IF Cardinality(S) < n
                                                  THEN Cardinality(S) ELSE n}

TypeOK ==
    /\ GraphTypeOK
    /\ st \in [Fact -> {"none", "active", "inactive", "closed"}]
    /\ linked \subseteq Fact
    /\ q \in Question /\ topk \in {1, q.top}
    /\ hits \subseteq Fact
    /\ lead \in hits \cup {NoFact}
    /\ names \subseteq Entity /\ cur \subseteq Entity /\ ids \subseteq Fact
    /\ depth \in [Fact -> 0..MaxHops] /\ extra \subseteq hits
    /\ dated \in BOOLEAN
    /\ verdict \in {"none", "ok", "abstained", "failed"}
    /\ verdict # "none" <=> pc = "answered"

NoQuestion == CHOOSE x \in Question : TRUE

Fresh ==
    /\ hits = {} /\ lead = NoFact
    /\ names = {} /\ cur = {} /\ ids = {} /\ extra = {}
    /\ depth = [f \in Fact |-> 0]
    /\ dated = FALSE /\ verdict = "none"

Init ==
    /\ GraphInit
    /\ st \in [Fact -> {"none", "active", "inactive", "closed"}]
    /\ linked \in SUBSET Fact
    /\ q = NoQuestion /\ topk = q.top
    /\ Fresh
-----------------------------------------------------------------------------
(* Statements of writers: the INSERT of insert_fact, the link to the nodes  *)
(* (link_fact_to_node), deactivate_fact, invalidate_fact, DELETE.           *)
Store(f) == st[f] = "none" /\ f \notin linked /\ st' = [st EXCEPT ![f] = "active"]
            /\ UNCHANGED linked
Link(f) == f \in Stored /\ linked' = linked \cup {f} /\ UNCHANGED st
Deactivate(f) == st[f] = "active" /\ st' = [st EXCEPT ![f] = "inactive"]
                 /\ UNCHANGED linked
Invalidate(f) == f \in Stored /\ st' = [st EXCEPT ![f] = "closed"] /\ UNCHANGED linked
Erase(f) == f \in Stored /\ st' = [st EXCEPT ![f] = "none"] /\ UNCHANGED linked

WriteFacts ==
    /\ Changes
    /\ \E f \in Fact : Store(f) \/ Link(f) \/ Deactivate(f) \/ Invalidate(f) \/ Erase(f)
    /\ UNCHANGED <<graphVars, pc, walkVars, showVars, faults, askVars, hitVars,
                   nameVars, verdict>>
-----------------------------------------------------------------------------
Reading == UNCHANGED <<graphVars, showVars, factVars, q, changes, faults, verdict>>

Ask(x) ==
    /\ pc = "idle"
    /\ pc' = "recognize"
    /\ q' = x /\ topk' = x.top
    /\ UNCHANGED <<graphVars, walkVars, showVars, changes, faults, factVars, hitVars,
                   nameVars, verdict>>

(* route_query: a question that was recognised takes one fact.              *)
Routed(known) == IF known THEN 1 ELSE q.top

(* The branch of the engine on valid_at and on before/after.                *)
Branch == CASE q.kind = "at"    -> "snapshot"
            [] q.kind = "plain" -> "search"
            [] OTHER            -> "anchor"

(* recognize: the question is the text of an active row.                    *)
Recognize ==
    /\ pc = "recognize"
    /\ topk' = Routed(q.same \cap Active # {})
    /\ pc' = Branch
    /\ Reading /\ UNCHANGED <<walkVars, hitVars, nameVars>>

(* facts_valid_at(valid_at): rows without a similarity, active or not.      *)
Snapshot ==
    /\ pc = "snapshot"
    /\ hits' \in Fetch(ValidAt(q.time), q.limit)
    /\ pc' = "judge"
    /\ Reading /\ UNCHANGED <<walkVars, topk, lead, nameVars>>

(* recall_before_after: the latest row that mentions the anchor, active or  *)
(* not, then the rows valid one second before or after it without itself.   *)
Anchors == {f \in Stored : q.anchor \in Mentions[f]}
Anchor ==
    /\ pc = "anchor"
    /\ \/ /\ Anchors = {}
          /\ pc' = "search" /\ UNCHANGED ids
       \/ /\ \E f \in Anchors : /\ \A g \in Anchors : When[g] <= When[f]
                                /\ ids' = {f}
          /\ pc' = "lattice"
    /\ Reading
    /\ UNCHANGED <<walkVars, topk, hitVars, names, cur, depth, extra, dated>>

Lattice ==
    /\ pc = "lattice"
    /\ \E f \in ids :
       \E h \in Fetch(ValidAt(IF q.kind = "before" THEN When[f] - 1 ELSE When[f] + 1),
                      topk) :
          /\ hits' = h \ ids
          /\ dated' = (hits' # {})
          /\ pc' = IF dated' THEN "judge" ELSE "search"
    /\ ids' = {}
    /\ Reading /\ UNCHANGED <<walkVars, topk, lead, names, cur, depth, extra>>

(* search_facts: some of the active rows.                                   *)
Search ==
    /\ pc = "search"
    /\ \E h \in SUBSET Active : Cardinality(h) <= topk /\ hits' = h
    /\ pc' = "resolve"
    /\ Reading /\ UNCHANGED <<walkVars, topk, lead, nameVars>>
-----------------------------------------------------------------------------
(* _nearest_entities_by_embedding and _known_entities: with less than a     *)
(* dozen nodes, all of them.                                                *)
Known == nodes

(* The entities whose names occur in the question, capitalised or not.      *)
Mentioned == q.names \cup {e \in Entity : \E i \in DOMAIN q.words : q.words[i] = e}

(* Faulty variant: what the LLM answers is taken as it is.                  *)
UnderstoodAlone == {IF llm = {} THEN Known \cap Mentioned ELSE llm : llm \in Answers}

(* resolve_entities_open: what the LLM answers, the known names that occur  *)
(* when it does not; the caller adds the names of the question.             *)
Understood == {(IF llm = {} THEN Known \cap Mentioned ELSE llm) \cup q.names : llm \in Answers}

(* resolve_query_entities, which the engine calls and the walk calls again: *)
(* it asks the LLM when the graph has any node.                             *)
Resolve ==
    /\ pc \in {"resolve", "walkResolve"}
    /\ next' \in IF Known = {} THEN {{}} ELSE Understood
    /\ cur' = Mentioned \cap Known
    /\ pc' = IF pc = "resolve" THEN "bridge" ELSE "walkBridge"
    /\ Reading
    /\ UNCHANGED <<hop, todo, topk, hitVars, names, ids, depth, extra, dated>>

(* _most_salient_person: the person with most edges, closed ones included.  *)
Degree(e) == Cardinality(Touching(live, e)) + Cardinality(Touching(past, e))
Salient == {e \in Person \cap nodes : \A o \in Person \cap nodes : Degree(o) <= Degree(e)}

(* _graph_neighbors of one entity of the question, over closed edges too:   *)
(* the ends of the first rows, one row for an edge.                         *)
Bridges(e) ==
    LET E == Touching(live \cup past, e)
    IN  IF Degree(e) <= BridgeLimit THEN {E}
        ELSE {F \in SUBSET E : Cardinality(F) \in 1..BridgeLimit}

Bridge(e) ==
    /\ pc \in {"bridge", "walkBridge"}
    /\ e \in cur
    /\ cur' = cur \ {e}
    /\ \E E \in Bridges(e) : next' = next \cup Neighbours(E, e)
    /\ Reading
    /\ UNCHANGED <<pc, hop, todo, topk, hitVars, names, ids, depth, extra, dated>>

(* What it returns: the names, for a pronoun the salient person, else the   *)
(* plain names of the question.                                             *)
Resolved == IF next # {} THEN {next}
            ELSE IF q.pronoun /\ Salient # {} THEN {{e} : e \in Salient}
            ELSE {q.names}

Relational(found) == Cardinality(hits) < Thin \/ Cardinality(found) > Cardinality(q.names)

AfterNames(found) ==
    /\ names' = found
    /\ pc' = IF found = {} /\ q.person THEN "salient"
             ELSE IF Relational(found) THEN "walkResolve" ELSE "rank"

EndResolve ==
    /\ pc = "bridge" /\ cur = {}
    /\ \E found \in Resolved : AfterNames(found)
    /\ next' = {}
    /\ Reading
    /\ UNCHANGED <<hop, todo, topk, hitVars, cur, ids, depth, extra, dated>>

(* The fallback of the engine when nothing was resolved.                    *)
FindSalient ==
    /\ pc = "salient"
    /\ \/ \E e \in Salient : names' = {e} /\ pc' = "walkResolve"
       \/ /\ Salient = {}
          /\ pc' = IF Relational({}) THEN "walkResolve" ELSE "rank"
          /\ UNCHANGED names
    /\ Reading
    /\ UNCHANGED <<walkVars, topk, hitVars, cur, ids, depth, extra, dated>>

(* multihop_recall begins: the frontier is what the second call resolved.   *)
StartWalk(found) ==
    /\ todo' = found /\ next' = {}
    /\ IF found = {} THEN pc' = "rank" /\ hop' = 0 ELSE pc' = "walk" /\ hop' = 1

BeginWalk ==
    /\ pc = "walkBridge" /\ cur = {}
    /\ \E found \in Resolved : StartWalk(found)
    /\ Reading
    /\ UNCHANGED <<topk, hitVars, nameVars>>
-----------------------------------------------------------------------------
Walking == Reading /\ UNCHANGED <<topk, hitVars, names, extra, dated>>

(* query_subgraph of one entity of the frontier: its node, then the open    *)
(* edges that leave it, then those that enter it.                           *)
ReadNode(e) ==
    /\ pc = "walk"
    /\ e \in todo
    /\ todo' = todo \ {e} /\ cur' = {e}
    /\ pc' = IF e \in nodes THEN "out" ELSE "facts"
    /\ Walking /\ UNCHANGED <<hop, next, ids, depth>>

(* Faulty variant: closed edges are followed too.                           *)
ReadOutClosed ==
    /\ pc = "out" /\ pc' = "in"
    /\ next' = next \cup {c[2] : c \in {d \in live \cup past : d[1] \in cur}}
    /\ Walking /\ UNCHANGED <<hop, todo, cur, ids, depth>>

ReadOut ==
    /\ pc = "out" /\ pc' = "in"
    /\ next' = next \cup {c[2] : c \in {d \in live : d[1] \in cur}}
    /\ Walking /\ UNCHANGED <<hop, todo, cur, ids, depth>>

(* Faulty variant: of an incoming edge the target is taken, the entity itself. *)
ReadInTarget ==
    /\ pc = "in" /\ pc' = "facts"
    /\ next' = next \cup {c[2] : c \in {d \in live : d[2] \in cur}}
    /\ Walking /\ UNCHANGED <<hop, todo, cur, ids, depth>>

ReadIn ==
    /\ pc = "in" /\ pc' = "facts"
    /\ next' = next \cup {c[1] : c \in {d \in live : d[2] \in cur}}
    /\ Walking /\ UNCHANGED <<hop, todo, cur, ids, depth>>

(* _facts_for_entity: the fact_ids of the node.                             *)
ReadIds ==
    /\ pc = "facts"
    /\ ids' = IF cur \subseteq nodes THEN {f \in linked : cur \subseteq Mentions[f]} ELSE {}
    /\ pc' = IF ids' = {} THEN "names" ELSE "rows"
    /\ Walking /\ UNCHANGED <<walkVars, cur, depth>>

(* Collected rows keep the hop at which they were first seen.               *)
Collect(F) == depth' = [f \in Fact |-> IF f \in F /\ depth[f] = 0 THEN hop ELSE depth[f]]

(* Faulty variant: the rows of the node are taken as they are.              *)
ReadRowsAnyStatus ==
    /\ pc = "rows"
    /\ \E h \in Fetch(ids \cap Stored, FactLimit) : Collect(h)
    /\ pc' = IF ids \cap Stored = {} THEN "names" ELSE "walk"
    /\ ids' = {} /\ cur' = IF pc' = "walk" THEN {} ELSE cur
    /\ Walking /\ UNCHANGED walkVars

(* Its rows: the active ones, which the ORDER BY puts before the LIMIT, or  *)
(* the others when none of them is.  Which of them come first, by belief    *)
(* and date, is left open.                                                  *)
Preferred(rows) == IF rows \cap Active # {} THEN rows \cap Active ELSE rows

ReadRows ==
    /\ pc = "rows"
    /\ \E h \in Fetch(Preferred(ids \cap Stored), FactLimit) : Collect(h)
    /\ pc' = IF ids \cap Stored = {} THEN "names" ELSE "walk"
    /\ ids' = {} /\ cur' = IF pc' = "walk" THEN {} ELSE cur
    /\ Walking /\ UNCHANGED walkVars

(* Without rows, the active ones whose text mentions the entity.            *)
ReadNamed ==
    /\ pc = "names" /\ pc' = "walk"
    /\ \E h \in Fetch({f \in Active : cur \subseteq Mentions[f]}, FactLimit) : Collect(h)
    /\ cur' = {}
    /\ Walking /\ UNCHANGED <<walkVars, ids>>

(* Faulty variant: the hops are not counted.                                *)
EndHopUncounted ==
    /\ pc = "walk" /\ todo = {}
    /\ IF next # {}
       THEN pc' = pc /\ hop' = hop /\ todo' = next /\ next' = {}
       ELSE pc' = "merge" /\ UNCHANGED walkVars
    /\ Walking /\ UNCHANGED <<cur, ids, depth>>

(* Faulty variant: one hop too many.                                         *)
EndHopOneMore ==
    /\ pc = "walk" /\ todo = {}
    /\ IF hop <= MaxHops /\ next # {}
       THEN pc' = pc /\ hop' = hop + 1 /\ todo' = next /\ next' = {}
       ELSE pc' = "merge" /\ UNCHANGED walkVars
    /\ Walking /\ UNCHANGED <<cur, ids, depth>>

(* The frontier is exhausted: the neighbours are the next, MaxHops at most. *)
EndHop ==
    /\ pc = "walk" /\ todo = {}
    /\ IF hop < MaxHops /\ next # {}
       THEN pc' = pc /\ hop' = hop + 1 /\ todo' = next /\ next' = {}
       ELSE pc' = "merge" /\ UNCHANGED walkVars
    /\ Walking /\ UNCHANGED <<cur, ids, depth>>
-----------------------------------------------------------------------------
Collected == {f \in Fact : depth[f] > 0}

(* The first max_facts collected go before the hits of search; a fact in    *)
(* both is listed once.                                                     *)
Cuts == {x \in Fetch(Collected, topk) :
            \A f \in x, g \in Collected \ x : depth[f] <= depth[g]}

(* Faulty variant: the facts of the graph take the place of the hits.       *)
MergeReplace ==
    /\ pc = "merge" /\ pc' = "rank"
    /\ extra' \in Cuts
    /\ hits' = IF extra' = {} THEN hits ELSE extra'
    /\ hop' = 0 /\ next' = {} /\ depth' = [f \in Fact |-> 0]
    /\ Reading /\ UNCHANGED <<todo, topk, lead, names, cur, ids, dated>>

Merge ==
    /\ pc = "merge" /\ pc' = "rank"
    /\ extra' \in Cuts
    /\ hits' = hits \cup extra'
    /\ hop' = 0 /\ next' = {} /\ depth' = [f \in Fact |-> 0]
    /\ Reading /\ UNCHANGED <<todo, topk, lead, names, cur, ids, dated>>

(* The asking word: the first that is neither skipped nor the name of an    *)
(* entity that was resolved; {} if there is none.                           *)
Asking(known) ==
    LET skipped(i) == q.words[i] \in Skip \cup known
    IN  {q.words[i] : i \in {j \in DOMAIN q.words :
                                ~skipped(j) /\ \A k \in 1..(j - 1) : skipped(k)}}

(* What may stand first of the facts F: what the walk returned is before    *)
(* the hits.                                                                *)
Foremost(F) == IF F \cap extra # {} THEN F \cap extra ELSE F

(* rank_for_query: the first fact that holds the asking word leads, else    *)
(* the first stays the first.                                               *)
Having(F) == {f \in F : Asking(names) \cap Says[f] # {}}
Leads == IF hits = {} THEN {NoFact}
         ELSE Foremost(IF Having(hits) # {} THEN Having(hits) ELSE hits)

(* The promotion that runs whatever became of the expansion.                *)
Rank ==
    /\ pc = "rank" /\ pc' = "judge"
    /\ lead' \in Leads
    /\ Reading /\ UNCHANGED <<walkVars, topk, hits, nameVars>>

(* A question that was expanded, by dates, by the graph or by more names    *)
(* than it holds, is answered.                                              *)
Expanded == dated \/ extra # {} \/ Cardinality(names) > Cardinality(q.names)

(* feeling_of_knowing: whether the best hit supports an answer (similarity  *)
(* of 0.55, a quarter of the words, enough belief), which rows without a    *)
(* similarity cannot.                                                       *)
Supports == IF hits = {} \/ q.kind = "at" THEN {FALSE} ELSE BOOLEAN

(* should_abstain, asked for what was not expanded.                         *)
Abstains(supported) == q.enforce /\ ~Expanded /\ ~supported

Judge ==
    /\ pc = "judge" /\ pc' = "answered"
    /\ \E supported \in Supports :
          verdict' = IF Abstains(supported) THEN "abstained" ELSE "ok"
    /\ UNCHANGED <<graphVars, walkVars, showVars, factVars, askVars, changes, faults,
                   hitVars, nameVars>>

Return ==
    /\ pc = "answered" /\ Rest
    /\ hits' = {} /\ lead' = NoFact
    /\ names' = {} /\ cur' = {} /\ ids' = {} /\ extra' = {}
    /\ depth' = [f \in Fact |-> 0]
    /\ dated' = FALSE /\ verdict' = "none"
    /\ q' = NoQuestion /\ topk' = q'.top
    /\ UNCHANGED factVars
-----------------------------------------------------------------------------
(* Where an error of a statement or of the LLM leads: only search_facts     *)
(* raises to the caller.  A failed resolution is the names of the question, *)
(* a failed walk collects nothing, a failed dated read falls to the search. *)
Fault ==
    /\ faults < MaxFaults /\ faults' = faults + 1
    /\ \/ /\ pc = "recognize" /\ pc' = Branch
          /\ UNCHANGED <<walkVars, names, cur, ids, depth, verdict>>
       \/ /\ pc = "snapshot" /\ pc' = "judge"
          /\ UNCHANGED <<walkVars, names, cur, ids, depth, verdict>>
       \/ /\ pc \in {"anchor", "lattice"} /\ pc' = "search" /\ ids' = {}
          /\ UNCHANGED <<walkVars, names, cur, depth, verdict>>
       \/ /\ pc = "search" /\ pc' = "answered" /\ verdict' = "failed"
          /\ UNCHANGED <<walkVars, names, cur, ids, depth>>
       \/ /\ pc \in {"resolve", "bridge"} /\ AfterNames(q.names)
          /\ next' = {} /\ cur' = {}
          /\ UNCHANGED <<hop, todo, ids, depth, verdict>>
       \/ /\ pc \in {"walkResolve", "walkBridge"} /\ StartWalk(q.names)
          /\ cur' = {}
          /\ UNCHANGED <<names, ids, depth, verdict>>
       \/ /\ pc = "salient"
          /\ pc' = IF Relational({}) THEN "walkResolve" ELSE "rank"
          /\ UNCHANGED <<walkVars, names, cur, ids, depth, verdict>>
       \/ /\ pc \in {"walk", "out", "in", "facts", "rows", "names"} /\ pc' = "rank"
          /\ hop' = 0 /\ todo' = {} /\ next' = {} /\ cur' = {} /\ ids' = {}
          /\ depth' = [f \in Fact |-> 0]
          /\ UNCHANGED <<names, verdict>>
    /\ UNCHANGED <<graphVars, showVars, changes, factVars, askVars, hitVars, extra, dated>>

RecallStep ==
    \/ Recognize \/ Snapshot \/ Anchor \/ Lattice \/ Search
    \/ Resolve \/ EndResolve \/ FindSalient \/ BeginWalk
    \/ \E e \in Entity : Bridge(e) \/ ReadNode(e)
    \/ ReadOut \/ ReadIn \/ ReadIds \/ ReadRows \/ ReadNamed \/ EndHop
    \/ Merge \/ Rank \/ Judge \/ Return

Elsewhere == UNCHANGED <<factVars, askVars, hitVars, nameVars, verdict>>

Step == RecallStep \/ (GraphStep /\ Elsewhere)

Next ==
    \/ Step
    \/ Fault \/ WriteFacts
    \/ \E x \in Question : Ask(x)
    \/ Elsewhere /\ (GraphFault \/ WriteGraph \/ ExportNodes \/ DetectCommunities
                      \/ \E S \in (SUBSET Entity) \ {{}} : BeginActivation(S))

Spec == Init /\ [][Next]_vars /\ WF_vars(Step)
-----------------------------------------------------------------------------
(* Every read is answered: the walk over a graph that writers extend, and   *)
(* that may be cyclic, ends after MaxHops hops (multihop.py line 101), and  *)
(* each error the reads swallow leads on to an answer.                      *)
ReadsEnd == pc # "idle" ~> pc = "idle"

(* "When a fact contains the question's main verb ... it MUST lead"         *)
(* (multihop.py lines 274-277): if the search was asked and the answer      *)
(* holds a fact with the verb, its first fact has it.  The code keeps this  *)
(* for Direct questions only: "where" or "how" is taken for the verb.       *)
MainVerbLeads ==
    verdict = "ok" /\ ~dated /\ q.kind # "at" /\ (\E f \in hits : q.main \in Says[f])
        => q.main \in Says[lead]

(* The verb of the question is the first word that is neither skipped nor   *)
(* one of its names.                                                        *)
Direct == \E i \in DOMAIN q.words :
              /\ q.words[i] = q.main /\ q.main \notin Skip \cup Entity
              /\ \A k \in 1..(i - 1) : q.words[k] \in Skip \cup q.names

(* A question that asks with its verb is led by a fact that holds the verb, *)
(* if the answer has one, also when the resolution or the walk raised       *)
(* (engine.py lines 424-429): whatever the LLM answers and whichever way    *)
(* the resolution went, the names of the question are among those it knows. *)
VerbLeads == Direct /\ (q.pronoun => q.names = {}) => MainVerbLeads
=============================================================================

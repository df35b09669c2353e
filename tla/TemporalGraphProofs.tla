------------------------- MODULE TemporalGraphProofs -------------------------
(* Proofs about TemporalGraph, for every set of ids, names and tasks, every *)
(* relation between names and every bound on time, requests and errors.     *)
EXTENDS TemporalGraph, TLAPS

(* A fresh id is unused.                                                    *)
LEMMA FreshIds ==
    ASSUME NEW ids, NEW rows, NEW i \in Fresh(ids, rows)
    PROVE  i \in ids /\ i \notin rows /\ i \notin deleted
<1> DEFINE free == ids \ (rows \cup deleted)
<1>1. free # {} /\ i = CHOOSE j \in free : TRUE
  BY DEF Fresh
<1>2. \E j \in free : TRUE
  BY <1>1
<1>3. i \in free
  BY <1>1, <1>2
<1> QED
  BY <1>3

LEMMA LocalsType == NoLocals \in Locals /\ Time \subseteq Nat /\ 0 \in Time
<1>1. (CHOOSE r \in Rel : TRUE) \in Rel
  BY TemporalGraphAssumption
<1> QED
  BY <1>1, TemporalGraphAssumption DEF NoLocals, Locals, Time, Open

(* What a step of one task leaves well typed when it moves to where with    *)
(* the locals l.                                                            *)
LEMMA GoType ==
    ASSUME TypeOK, NEW t \in Task, NEW l \in Locals, NEW where \in Point,
           Held(where, l), Go(t, where, l)
    PROVE  /\ pc' \in [Task -> Point]
           /\ loc' \in [Task -> Locals]
           /\ \A u \in Task : Held(pc'[u], loc'[u])
<1>1. /\ pc' \in [Task -> Point]
      /\ loc' \in [Task -> Locals]
  BY DEF Go, TypeOK
<1>2. \A u \in Task : Held(pc'[u], loc'[u])
  <2> SUFFICES ASSUME NEW u \in Task PROVE Held(pc'[u], loc'[u])
    OBVIOUS
  <2>1. Held(pc[u], loc[u])
    BY DEF TypeOK
  <2>2. CASE u = t
    BY <2>2 DEF Go, TypeOK
  <2>3. CASE u # t
    BY <2>1, <2>3 DEF Go, TypeOK
  <2> QED
    BY <2>2, <2>3
<1> QED
  BY <1>1, <1>2

LEMMA FinishType ==
    ASSUME TypeOK, NEW t \in Task, Finish(t)
    PROVE  /\ pc' \in [Task -> Point]
           /\ loc' \in [Task -> Locals]
           /\ \A u \in Task : Held(pc'[u], loc'[u])
<1>1. Held("idle", NoLocals)
  BY DEF Held, NoLocals
<1> QED
  BY <1>1, LocalsType, GoType DEF Finish, Point

(* The rows of the graph stay well typed when edges are closed.             *)
LEMMA ClosedType ==
    ASSUME TypeOK, NEW s, s \subseteq Edge, NEW v \in Time, ClosedAt(s, v)
    PROVE  edge' \in [EdgeId -> Row \cup {NoEdge}]
<1> SUFFICES ASSUME NEW e \in EdgeId, e \in s
             PROVE  [edge[e] EXCEPT !.to = v] \in Row
  BY DEF ClosedAt, TypeOK
<1>1. edge[e] \in Row
  BY DEF Edge, TypeOK
<1> QED
  BY <1>1 DEF Row

(* The graph stays well typed when its nodes are dropped.                   *)
LEMMA DropType ==
    ASSUME TypeOK, DropNodes
    PROVE  /\ name' \in [NodeId -> Name \cup {NoName}]
           /\ mention' \in [NodeId -> SUBSET Fact]
           /\ maker' \in [NodeId -> Task \cup {NoTask}]
           /\ edge' \in [EdgeId -> Row \cup {NoEdge}]
           /\ deleted' \subseteq NodeId \cup EdgeId
  BY DEF DropNodes, TypeOK, Node, Edge

LEMMA BelievedType ==
    ASSUME TypeOK, NEW x \in Name, Believed(x)
    PROVE  name' \in [NodeId -> Name \cup {NoName}]
  BY FreshIds DEF Believed, TypeOK

(* Every action keeps the type invariant.                                   *)
LEMMA TypeStep == TypeOK /\ [Next]_vars => TypeOK'
<1> SUFFICES ASSUME TypeOK, [Next]_vars PROVE TypeOK'
  OBVIOUS
<1> USE TemporalGraphAssumption, LocalsType
<1>0. now \in Time /\ requests \in 0..MaxRequests /\ faults \in 0..MaxFaults
  BY DEF TypeOK
<1>1. CASE UNCHANGED vars
  BY <1>1 DEF TypeOK, vars, nodeVars, taskVars
<1>2. ASSUME NEW t \in Task, Step(t) PROVE TypeOK'
  <2>0. /\ loc[t] \in Locals /\ Held(pc[t], loc[t])
        /\ Names \subseteq Name
    BY DEF TypeOK, Names, Node
  <2>1. CASE Resolve(t)
    <3>1. PICK y : /\ y \in IF SameKey(Named(t)) # {} THEN SameKey(Named(t))
                            ELSE IF CloseTo(Named(t)) # {} THEN CloseTo(Named(t))
                            ELSE {Normal[Named(t)]}
                   /\ Go(t, IF y = Named(t) THEN "merge" ELSE "upsert",
                         [loc[t] EXCEPT !.known = y])
      BY <2>1 DEF Resolve
    <3>2. y \in Name
      BY <2>0, <2>1, <3>1 DEF Held, Named, Resolve, SameKey, CloseTo
    <3>3. /\ [loc[t] EXCEPT !.known = y] \in Locals
          /\ Held("merge", [loc[t] EXCEPT !.known = y])
          /\ Held("upsert", [loc[t] EXCEPT !.known = y])
      BY <2>0, <2>1, <3>2 DEF Locals, Held, Resolve
    <3>4. /\ pc' \in [Task -> Point]
          /\ loc' \in [Task -> Locals]
          /\ \A u \in Task : Held(pc'[u], loc'[u])
      BY <3>1, <3>3, GoType DEF Point
    <3> QED
      BY <2>1, <3>4 DEF Resolve, TypeOK, nodeVars
  <2>2. CASE Merge(t)
    <3>1. PICK y \in Names \cup {Named(t)} : Go(t, "upsert", [loc[t] EXCEPT !.known = y])
      BY <2>2 DEF Merge, Embedded, Names
    <3>2. y \in Name
      BY <2>0, <2>2, <3>1 DEF Held, Named, Merge
    <3>3. /\ [loc[t] EXCEPT !.known = y] \in Locals
          /\ Held("upsert", [loc[t] EXCEPT !.known = y])
      BY <2>0, <2>2, <3>2 DEF Locals, Held, Merge
    <3>4. /\ pc' \in [Task -> Point]
          /\ loc' \in [Task -> Locals]
          /\ \A u \in Task : Held(pc'[u], loc'[u])
      BY <3>1, <3>3, GoType DEF Point
    <3> QED
      BY <2>2, <3>4 DEF Merge, TypeOK, nodeVars
  <2>3. CASE Upsert(t)
    <3>1. ASSUME NEW n \in NodeId, Found(t, n)
          PROVE  /\ pc' \in [Task -> Point]
                 /\ loc' \in [Task -> Locals]
                 /\ \A u \in Task : Held(pc'[u], loc'[u])
      <4> DEFINE l == IF loc[t].snode = NoNode
                      THEN [loc[t] EXCEPT !.known = NoName, !.snode = n]
                      ELSE [loc[t] EXCEPT !.tnode = n]
      <4>1. l \in Locals
        <5>1. loc[t] \in Locals
          BY <2>0
        <5>2. CASE loc[t].snode = NoNode
          <6>1. l = [loc[t] EXCEPT !.known = NoName, !.snode = n]
            BY <5>2
          <6>2. l = [op |-> loc[t].op, src |-> loc[t].src, tgt |-> loc[t].tgt,
                     known |-> NoName, snode |-> n, tnode |-> loc[t].tnode,
                     rel |-> loc[t].rel, at |-> loc[t].at, fact |-> loc[t].fact,
                     hit |-> loc[t].hit]
            BY <5>1, <6>1 DEF Locals
          <6> HIDE DEF l
          <6> QED
            BY <5>1, <6>2 DEF Locals
        <5>3. CASE loc[t].snode # NoNode
          BY <5>1, <5>3 DEF Locals
        <5> QED
          BY <5>2, <5>3
      <4>2. After(t) \in Point
        BY DEF After, Point
      <4>3. Held(After(t), l)
        BY <2>0, <2>3 DEF After, Upsert, Held, Locals
      <4>4. Go(t, After(t), l)
        BY <3>1 DEF Found
      <4> HIDE DEF l
      <4> QED
        BY <4>1, <4>2, <4>3, <4>4, GoType
    <3>2. loc[t].known \in Name
      BY <2>0, <2>3 DEF Upsert, Held
    <3>3. CASE \E n \in Node : name[n] = loc[t].known /\ Found(t, n) /\ UNCHANGED nodeVars
      BY <2>3, <3>1, <3>3 DEF Upsert, TypeOK, Node, nodeVars
    <3>4. CASE /\ UNCHANGED mention
               /\ \E n \in Fresh(NodeId, Node) :
                     /\ name' = [name EXCEPT ![n] = loc[t].known]
                     /\ maker' = [maker EXCEPT ![n] = t]
                     /\ Found(t, n)
      <4>1. PICK n \in NodeId : /\ name' = [name EXCEPT ![n] = loc[t].known]
                                /\ maker' = [maker EXCEPT ![n] = t]
                                /\ Found(t, n)
        BY <3>4, FreshIds
      <4> QED
        BY <2>3, <3>1, <3>2, <3>4, <4>1 DEF Upsert, TypeOK
    <3> QED
      BY <2>3, <3>3, <3>4 DEF Upsert
  <2>4. CASE MentionSource(t)
    <3>1. loc[t].fact \in Fact /\ Held("mentionTgt", loc[t])
      BY <2>0, <2>4 DEF MentionSource, Held
    <3>2. mention' \in [NodeId -> SUBSET Fact]
      BY <2>4, <3>1 DEF MentionSource, Mentioned, TypeOK
    <3> QED
      BY <2>0, <2>4, <3>1, <3>2, GoType DEF MentionSource, TypeOK, Point
  <2>5. CASE MentionTarget(t)
    <3>1. loc[t].fact \in Fact /\ Held("shift", loc[t])
      BY <2>0, <2>5 DEF MentionTarget, Held
    <3>2. mention' \in [NodeId -> SUBSET Fact]
      BY <2>5, <3>1 DEF MentionTarget, Mentioned, TypeOK
    <3> QED
      BY <2>0, <2>5, <3>1, <3>2, GoType DEF MentionTarget, TypeOK, Point
  <2>6. CASE Believe(t)
    <3>1. loc[t].known \in Name /\ Held("shift", loc[t])
      BY <2>0, <2>6 DEF Believe, Held
    <3>2. name' \in [NodeId -> Name \cup {NoName}]
      BY <2>6, <3>1, BelievedType DEF Believe
    <3> QED
      BY <2>0, <2>6, <3>1, <3>2, GoType DEF Believe, TypeOK, Point
  <2>7. CASE Shift(t)
    <3>1. CASE \E e \in Active : Go(t, "reuse", [loc[t] EXCEPT !.hit = e])
      <4>1. PICK e \in EdgeId : Go(t, "reuse", [loc[t] EXCEPT !.hit = e])
        BY <3>1 DEF Active, Edge
      <4>2. [loc[t] EXCEPT !.hit = e] \in Locals /\ Held("reuse", [loc[t] EXCEPT !.hit = e])
        BY <2>0 DEF Locals, Held
      <4> QED
        BY <2>7, <4>1, <4>2, GoType DEF Shift, TypeOK, nodeVars, Point
    <3>2. CASE Go(t, "close", [loc[t] EXCEPT !.at = From(t)])
      <4>1. From(t) \in Time
        BY <1>0, <2>0 DEF From, Locals
      <4>2. /\ [loc[t] EXCEPT !.at = From(t)] \in Locals
            /\ Held("close", [loc[t] EXCEPT !.at = From(t)])
        BY <2>0, <4>1 DEF Locals, Held
      <4> QED
        BY <2>7, <3>2, <4>2, GoType DEF Shift, TypeOK, nodeVars, Point
    <3> QED
      BY <2>7, <3>1, <3>2 DEF Shift
  <2>8. CASE Reuse(t)
    BY <2>8, FinishType DEF Reuse, TypeOK, nodeVars
  <2>9. CASE CloseOthers(t)
    <3>1. loc[t].at \in Time /\ Held("insert", loc[t])
      BY <2>0, <2>9 DEF CloseOthers, Held
    <3>2. edge' \in [EdgeId -> Row \cup {NoEdge}]
      BY <2>9, <3>1, ClosedType DEF CloseOthers, Others
    <3> QED
      BY <2>0, <2>9, <3>1, <3>2, GoType DEF CloseOthers, TypeOK, nodeVars, Point
  <2>10. CASE InsertEdge(t)
    <3>1. edge' \in [EdgeId -> Row \cup {NoEdge}]
      <4>1. CASE {loc[t].snode, loc[t].tnode} \subseteq Node
        <5>1. loc[t].at \in Time
          BY <2>0, <2>10 DEF InsertEdge, Held
        <5>2. [src |-> loc[t].snode, tgt |-> loc[t].tnode, rel |-> loc[t].rel,
               from |-> loc[t].at, to |-> Open, fact |-> loc[t].fact, writer |-> t] \in Row
          BY <2>0, <4>1, <5>1 DEF Row, Locals, Node
        <5> QED
          BY <2>10, <4>1, <5>2, FreshIds DEF InsertEdge, TypeOK
      <4>2. CASE ~({loc[t].snode, loc[t].tnode} \subseteq Node)
        BY <2>10, <4>2 DEF InsertEdge, TypeOK
      <4> QED
        BY <4>1, <4>2
    <3> QED
      BY <2>10, <3>1, FinishType DEF InsertEdge, TypeOK, nodeVars
  <2>11. CASE PurgeNodes(t)
    BY <2>11, DropType, FinishType DEF PurgeNodes, TypeOK
  <2> QED
    BY <1>2, <2>1, <2>2, <2>3, <2>4, <2>5, <2>6, <2>7, <2>8, <2>9, <2>10, <2>11 DEF Step
<1>3. ASSUME NEW t \in Task, Request(t) PROVE TypeOK'
  <2>1. ASSUME NEW where \in Point, NEW l \in Locals, Held(where, l), Begin(t, where, l)
        PROVE  TypeOK'
    BY <2>1, GoType DEF Begin, TypeOK, nodeVars
  <2>2. ASSUME NEW k \in Triple, NEW f \in Fact, BeginFact(t, k, f) PROVE TypeOK'
    <3> DEFINE l == [NoLocals EXCEPT !.op = "fact", !.src = k[1], !.rel = k[2],
                                     !.tgt = k[3], !.fact = f]
    <3>0. k[1] \in Name /\ k[2] \in Rel /\ k[3] \in Name
      BY <1>0 DEF Time
    <3>1. l \in Locals
      BY <3>0, LocalsType DEF Locals
    <3>2. Held("resolve", l)
      BY <3>0, LocalsType DEF Held, Locals
    <3> HIDE DEF l
    <3>3. Begin(t, "resolve", l)
      BY <2>2 DEF BeginFact, l
    <3> QED
      BY <2>1, <3>1, <3>2, <3>3 DEF Point
  <2>3. ASSUME NEW k \in Triple, NEW v \in 0..now \cup {Open}, BeginTurn(t, k, v) PROVE TypeOK'
    <3> DEFINE l == [NoLocals EXCEPT !.op = "turn", !.src = k[1], !.rel = k[2],
                                     !.tgt = k[3], !.at = v]
    <3>0. v \in Time \cup {Open} /\ k[1] \in Name /\ k[2] \in Rel /\ k[3] \in Name
      BY <1>0 DEF Time
    <3>1. l \in Locals
      BY <3>0, LocalsType DEF Locals
    <3>2. Held("resolve", l)
      BY <3>0, LocalsType DEF Held, Locals
    <3> HIDE DEF l
    <3>3. Begin(t, "resolve", l)
      BY <2>3 DEF BeginTurn, l
    <3> QED
      BY <2>1, <3>1, <3>2, <3>3 DEF Point
  <2>4. ASSUME NEW a \in NodeId, NEW b \in NodeId, NEW r \in Rel, BeginLink(t, a, r, b)
        PROVE  TypeOK'
    <3> DEFINE l == [NoLocals EXCEPT !.op = "link", !.snode = a, !.tnode = b, !.rel = r]
    <3>1. l \in Locals /\ Held("shift", l)
      BY DEF Locals, Held
    <3>2. Begin(t, "shift", l)
      BY <2>4 DEF BeginLink
    <3> HIDE DEF l
    <3> QED
      BY <2>1, <3>1, <3>2 DEF Point
  <2>5. CASE PurgeEdges(t)
    <3>1. Held("purge", NoLocals)
      BY DEF Held, NoLocals
    <3> QED
      BY <2>5, <3>1, GoType DEF PurgeEdges, TypeOK, nodeVars, Point, Edge
  <2> QED
    BY <1>3, <2>2, <2>3, <2>4, <2>5 DEF Request
<1>4. ASSUME NEW t \in Task, Fail(t) PROVE TypeOK'
  <2>0. loc[t] \in Locals /\ Held(pc[t], loc[t])
    BY DEF TypeOK
  <2> SUFFICES /\ pc' \in [Task -> Point]
               /\ loc' \in [Task -> Locals]
               /\ \A u \in Task : Held(pc'[u], loc'[u])
    BY <1>0, <1>4 DEF Fail, TypeOK, nodeVars
  <2>1. CASE pc[t] = "resolve"
    <3> DEFINE l == [loc[t] EXCEPT !.known = Normal[Named(t)]]
    <3>1. Normal[Named(t)] \in Name
      BY <2>0, <2>1 DEF Held, Named
    <3>2. l \in Locals /\ Held("merge", l) /\ Held("upsert", l)
      BY <2>0, <2>1, <3>1 DEF Locals, Held
    <3>3. Go(t, IF Normal[Named(t)] = Named(t) THEN "merge" ELSE "upsert", l)
      BY <1>4, <2>1 DEF Fail
    <3> HIDE DEF l
    <3> QED
      BY <3>2, <3>3, GoType DEF Point
  <2>2. CASE pc[t] = "merge"
    <3>1. Go(t, "upsert", loc[t])
      BY <1>4, <2>2 DEF Fail
    <3>2. Held("upsert", loc[t])
      BY <2>0, <2>2 DEF Held
    <3> QED
      BY <2>0, <3>1, <3>2, GoType DEF Point
  <2>3. CASE pc[t] = "mention"
    <3>1. Go(t, "mentionTgt", loc[t])
      BY <1>4, <2>3 DEF Fail
    <3>2. Held("mentionTgt", loc[t])
      BY <2>0, <2>3 DEF Held
    <3> QED
      BY <2>0, <3>1, <3>2, GoType DEF Point
  <2>4. CASE pc[t] \in {"mentionTgt", "believe"}
    <3>1. Go(t, "shift", loc[t])
      BY <1>4, <2>4 DEF Fail
    <3>2. Held("shift", loc[t])
      BY <2>0, <2>4 DEF Held
    <3> QED
      BY <2>0, <3>1, <3>2, GoType DEF Point
  <2>5. CASE pc[t] \notin {"resolve", "merge", "mention", "mentionTgt", "believe"}
    <3>1. Finish(t)
      BY <1>4, <2>5 DEF Fail
    <3> QED
      BY <3>1, FinishType
  <2> QED
    BY <2>1, <2>2, <2>3, <2>4, <2>5
<1>5. ASSUME NEW a, NEW b, NEW R, RemoveLink(a, b, R) PROVE TypeOK'
  <2>1. edge' \in [EdgeId -> Row \cup {NoEdge}]
    BY <1>0, <1>5, ClosedType DEF RemoveLink, Active
  <2> QED
    BY <1>5, <2>1 DEF RemoveLink, OneStatement, TypeOK, taskVars, nodeVars
<1>6. ASSUME NEW x \in Name, ReviseBelief(x) PROVE TypeOK'
  <2>1. name' \in [NodeId -> Name \cup {NoName}]
    BY <1>6, BelievedType DEF ReviseBelief
  <2> QED
    BY <1>6, <2>1 DEF ReviseBelief, OneStatement, TypeOK, taskVars
<1>7. CASE Reset
  <2>1. edge' \in [EdgeId -> Row \cup {NoEdge}]
    BY <1>0, <1>7, ClosedType DEF Reset, Active
  <2> QED
    BY <1>7, <2>1 DEF Reset, OneStatement, TypeOK, taskVars, nodeVars
<1>8. CASE Forget
  BY <1>8, DropType DEF Forget, OneStatement, TypeOK, taskVars
<1>9. CASE Tick
  BY <1>9 DEF Tick, TypeOK, Time, nodeVars, taskVars
<1> QED
  BY <1>1, <1>2, <1>3, <1>4, <1>5, <1>6, <1>7, <1>8, <1>9 DEF Next

(* Every state of the graph and of the requests on it is well typed.        *)
THEOREM TypeCorrect == Spec => []TypeOK
<1>1. Init => TypeOK
  <2>1. Held("idle", NoLocals)
    BY DEF Held, NoLocals
  <2>2. "idle" \in Point /\ 0 \in 0..MaxRequests /\ 0 \in 0..MaxFaults
    BY TemporalGraphAssumption DEF Point
  <2> QED
    BY <2>1, <2>2, LocalsType DEF Init, TypeOK
<1> QED
  BY <1>1, TypeStep, PTL DEF Spec
-----------------------------------------------------------------------------
(* The strengthening that makes OneEdgePerWriter inductive: a task that is  *)
(* about to close the other edges has no active edge of the same relation,  *)
(* and one that is about to insert has none of that source and relationship.*)
AboutToClose(t) == pc[t] = "close" => \A e \in Active : SameAs(t, e) => edge[e].writer # t

AboutToInsert(t) ==
    pc[t] = "insert" =>
        \A e \in ActiveOf(loc[t].snode, loc[t].rel) : edge[e].writer # t

EdgeInv ==
    /\ OneEdgePerWriter
    /\ \A t \in Task : AboutToClose(t) /\ AboutToInsert(t)

(* No step breaks it that makes no edge active and brings no task to these  *)
(* points.                                                                  *)
LEMMA QuietStep ==
    ASSUME EdgeInv,
           \A e \in Active' : e \in Active /\ edge'[e] = edge[e],
           \A u \in Task : pc'[u] \in {"close", "insert"} =>
                               pc'[u] = pc[u] /\ loc'[u] = loc[u]
    PROVE  EdgeInv'
<1>1. OneEdgePerWriter'
  BY DEF EdgeInv, OneEdgePerWriter
<1>2. ASSUME NEW u \in Task PROVE AboutToClose(u)'
  BY DEF EdgeInv, AboutToClose, SameAs
<1>3. ASSUME NEW u \in Task PROVE AboutToInsert(u)'
  BY DEF EdgeInv, AboutToInsert, ActiveOf
<1> QED
  BY <1>1, <1>2, <1>3 DEF EdgeInv

(* What moving one task to where does to the others.                        *)
LEMMA OneMoves ==
    ASSUME TypeOK, NEW t \in Task, NEW where, NEW l, Go(t, where, l)
    PROVE  /\ pc'[t] = where /\ loc'[t] = l
           /\ \A u \in Task \ {t} : pc'[u] = pc[u] /\ loc'[u] = loc[u]
  BY DEF Go, TypeOK

(* Closing edges, or deleting all, makes none active.                       *)
LEMMA ClosingIsQuiet ==
    ASSUME TypeOK, NEW s, s \subseteq Edge, NEW v \in Time, ClosedAt(s, v)
    PROVE  /\ \A e \in Active' : e \in Active /\ edge'[e] = edge[e]
           /\ Active' \cap s = {}
<1>1. ASSUME NEW e \in Active' PROVE e \in Active /\ edge'[e] = edge[e] /\ e \notin s
  <2>1. e \in EdgeId /\ edge'[e] # NoEdge /\ edge'[e].to = Open
    BY <1>1 DEF Active, Edge
  <2>2. CASE e \in s
    <3>1. edge[e] \in Row
      BY <2>2 DEF TypeOK, Edge
    <3>2. edge'[e].to = v
      BY <2>1, <2>2, <3>1 DEF ClosedAt, Row
    <3> QED
      BY <2>1, <3>2, TemporalGraphAssumption DEF Time, Open
  <2>3. CASE e \notin s
    BY <2>1, <2>3 DEF ClosedAt, Active, Edge
  <2> QED
    BY <2>2, <2>3
<1> QED
  BY <1>1

LEMMA DroppingIsQuiet ==
    ASSUME edge' = [e \in EdgeId |-> NoEdge] PROVE Active' = {}
  BY DEF Active, Edge

LEMMA EdgeStep == TypeOK /\ EdgeInv /\ [Next]_vars => EdgeInv'
<1> SUFFICES ASSUME TypeOK, EdgeInv, [Next]_vars PROVE EdgeInv'
  OBVIOUS
<1>0. now \in Time
  BY DEF TypeOK
<1>a. ASSUME edge' = edge PROVE \A e \in Active' : e \in Active /\ edge'[e] = edge[e]
  BY <1>a DEF Active, Edge
<1>1. CASE UNCHANGED vars
  BY <1>1, <1>a, QuietStep DEF vars, taskVars
<1>2. ASSUME NEW t \in Task, NEW where, NEW l, Go(t, where, l),
             where \notin {"close", "insert"},
             \A e \in Active' : e \in Active /\ edge'[e] = edge[e]
      PROVE  EdgeInv'
  BY <1>2, OneMoves, QuietStep
<1>3. ASSUME NEW t \in Task, Step(t) PROVE EdgeInv'
  <2>1. CASE Resolve(t)
    BY <2>1, <1>a, <1>2 DEF Resolve
  <2>2. CASE Merge(t)
    BY <2>2, <1>a, <1>2 DEF Merge
  <2>3. CASE Upsert(t)
    <3>1. PICK n : Found(t, n)
      BY <2>3 DEF Upsert
    <3>2. After(t) \notin {"close", "insert"}
      BY DEF After
    <3> QED
      BY <2>3, <3>1, <3>2, <1>a, <1>2 DEF Upsert, Found
  <2>4. CASE MentionSource(t)
    BY <2>4, <1>a, <1>2 DEF MentionSource
  <2>5. CASE MentionTarget(t)
    BY <2>5, <1>a, <1>2 DEF MentionTarget
  <2>6. CASE Believe(t)
    BY <2>6, <1>a, <1>2 DEF Believe
  <2>7. CASE Shift(t)
    <3>1. CASE \E e \in Active : Go(t, "reuse", [loc[t] EXCEPT !.hit = e])
      BY <2>7, <3>1, <1>a, <1>2 DEF Shift
    <3>2. CASE /\ \A e \in Active : ~SameAs(t, e)
               /\ Go(t, "close", [loc[t] EXCEPT !.at = From(t)])
      <4>1. /\ pc'[t] = "close" /\ loc'[t] = [loc[t] EXCEPT !.at = From(t)]
            /\ \A u \in Task \ {t} : pc'[u] = pc[u] /\ loc'[u] = loc[u]
        BY <3>2, OneMoves
      <4>2. edge' = edge /\ Active' = Active
        BY <2>7 DEF Shift, Active, Edge
      <4>3. /\ loc'[t].snode = loc[t].snode /\ loc'[t].tnode = loc[t].tnode
            /\ loc'[t].rel = loc[t].rel
        BY <4>1 DEF TypeOK, Locals
      <4>4. OneEdgePerWriter'
        BY <4>2 DEF EdgeInv, OneEdgePerWriter
      <4>5. AboutToClose(t)'
        BY <3>2, <4>2, <4>3 DEF AboutToClose, SameAs
      <4>6. ASSUME NEW u \in Task, u # t PROVE AboutToClose(u)'
        BY <4>1, <4>2, <4>6 DEF EdgeInv, AboutToClose, SameAs
      <4>7. ASSUME NEW u \in Task PROVE AboutToInsert(u)'
        BY <4>1, <4>2, <4>7 DEF EdgeInv, AboutToInsert, ActiveOf
      <4> QED
        BY <4>4, <4>5, <4>6, <4>7 DEF EdgeInv
    <3> QED
      BY <2>7, <3>1, <3>2 DEF Shift
  <2>8. CASE Reuse(t)
    BY <2>8, <1>a, <1>2 DEF Reuse, Finish
  <2>9. CASE CloseOthers(t)
    <3>1. /\ pc[t] = "close" /\ pc'[t] = "insert" /\ loc'[t] = loc[t]
          /\ \A u \in Task \ {t} : pc'[u] = pc[u] /\ loc'[u] = loc[u]
      BY <2>9, OneMoves DEF CloseOthers
    <3>2. loc[t].at \in Time
      BY <3>1 DEF TypeOK, Held
    <3>3. /\ \A e \in Active' : e \in Active /\ edge'[e] = edge[e]
          /\ Active' \cap (Others(t) \cap Active) = {}
      BY <2>9, <3>2, ClosingIsQuiet DEF CloseOthers, Others
    <3>4. OneEdgePerWriter'
      BY <3>3 DEF EdgeInv, OneEdgePerWriter
    <3>5. ASSUME NEW u \in Task PROVE AboutToClose(u)'
      BY <3>1, <3>3, <3>5 DEF EdgeInv, AboutToClose, SameAs
    <3>6. AboutToInsert(t)'
      <4>1. ASSUME NEW e \in ActiveOf(loc[t].snode, loc[t].rel)' PROVE edge[e].writer # t
        <5>1. e \in Active /\ edge[e].src = loc[t].snode /\ edge[e].rel = loc[t].rel
          BY <3>1, <3>3, <4>1 DEF ActiveOf
        <5>2. SameAs(t, e)
          BY <3>3, <4>1, <5>1 DEF SameAs, Others, Active, ActiveOf
        <5> QED
          BY <3>1, <5>1, <5>2 DEF EdgeInv, AboutToClose
      <4> QED
        BY <3>1, <3>3, <4>1 DEF AboutToInsert, ActiveOf
    <3>7. ASSUME NEW u \in Task, u # t PROVE AboutToInsert(u)'
      BY <3>1, <3>3, <3>7 DEF EdgeInv, AboutToInsert, ActiveOf
    <3> QED
      BY <3>4, <3>5, <3>6, <3>7 DEF EdgeInv
  <2>10. CASE InsertEdge(t)
    <3>1. /\ pc[t] = "insert" /\ pc'[t] = "idle"
          /\ \A u \in Task \ {t} : pc'[u] = pc[u] /\ loc'[u] = loc[u]
      BY <2>10, OneMoves DEF InsertEdge, Finish
    <3>2. CASE edge' = edge
      BY <2>10, <3>2, <1>a, <1>2 DEF InsertEdge, Finish
    <3>3. CASE edge' # edge
      <4>1. PICK new \in EdgeId \ Edge : edge' = [edge EXCEPT ![new] =
                [src |-> loc[t].snode, tgt |-> loc[t].tnode, rel |-> loc[t].rel,
                 from |-> loc[t].at, to |-> Open, fact |-> loc[t].fact, writer |-> t]]
        BY <2>10, <3>3, FreshIds DEF InsertEdge
      <4>2. /\ edge'[new].writer = t /\ edge'[new].src = loc[t].snode
            /\ edge'[new].rel = loc[t].rel
            /\ \A e \in Active' \ {new} : e \in Active /\ edge'[e] = edge[e]
        BY <4>1 DEF TypeOK, Active, Edge
      <4>3. \A e \in Active' \ {new} :
               edge'[e].src = loc[t].snode /\ edge'[e].rel = loc[t].rel => edge'[e].writer # t
        BY <3>1, <4>2 DEF EdgeInv, AboutToInsert, ActiveOf
      <4>4. OneEdgePerWriter'
        BY <4>2, <4>3 DEF EdgeInv, OneEdgePerWriter
      <4>5. ASSUME NEW u \in Task PROVE AboutToClose(u)'
        BY <3>1, <4>2, <4>5 DEF EdgeInv, AboutToClose, SameAs
      <4>6. ASSUME NEW u \in Task PROVE AboutToInsert(u)'
        BY <3>1, <4>2, <4>6 DEF EdgeInv, AboutToInsert, ActiveOf
      <4> QED
        BY <4>4, <4>5, <4>6 DEF EdgeInv
    <3> QED
      BY <3>2, <3>3
  <2>11. CASE PurgeNodes(t)
    BY <2>11, <1>2, DroppingIsQuiet DEF PurgeNodes, Finish, DropNodes
  <2> QED
    BY <1>3, <2>1, <2>2, <2>3, <2>4, <2>5, <2>6, <2>7, <2>8, <2>9, <2>10, <2>11 DEF Step
<1>4. ASSUME NEW t \in Task, Request(t) PROVE EdgeInv'
  <2>1. ASSUME NEW where, NEW l, Begin(t, where, l), where \in {"resolve", "shift"}
        PROVE  EdgeInv'
    BY <2>1, <1>a, <1>2 DEF Begin
  <2>2. CASE PurgeEdges(t)
    BY <2>2, <1>2, DroppingIsQuiet DEF PurgeEdges
  <2> QED
    BY <1>4, <2>1, <2>2 DEF Request, BeginFact, BeginTurn, BeginLink
<1>5. ASSUME NEW t \in Task, Fail(t) PROVE EdgeInv'
  <2>1. PICK where, l : Go(t, where, l) /\ where \notin {"close", "insert"}
    BY <1>5 DEF Fail, Finish
  <2> QED
    BY <1>5, <2>1, <1>a, <1>2 DEF Fail
<1>6. ASSUME UNCHANGED taskVars, NEW s, s \subseteq Edge, ClosedAt(s, now) PROVE EdgeInv'
  BY <1>0, <1>6, ClosingIsQuiet, QuietStep DEF taskVars
<1>7. ASSUME NEW a, NEW b, NEW R, RemoveLink(a, b, R) PROVE EdgeInv'
  BY <1>6, <1>7 DEF RemoveLink, OneStatement, Active
<1>8. ASSUME NEW x \in Name, ReviseBelief(x) PROVE EdgeInv'
  BY <1>8, <1>a, QuietStep DEF ReviseBelief, OneStatement, taskVars
<1>9. CASE Reset
  BY <1>6, <1>9 DEF Reset, OneStatement, Active
<1>10. CASE Forget
  BY <1>10, DroppingIsQuiet, QuietStep DEF Forget, OneStatement, DropNodes, taskVars
<1>11. CASE Tick
  BY <1>11, <1>a, QuietStep DEF Tick, taskVars
<1> QED
  BY <1>1, <1>3, <1>4, <1>5, <1>7, <1>8, <1>9, <1>10, <1>11 DEF Next

(* update_edge leaves a relationship of a node no more active edges than    *)
(* there are tasks that write it at the same time.                          *)
THEOREM OneActiveEdge == Spec => []OneEdgePerWriter
<1>1. Init => EdgeInv
  BY DEF Init, EdgeInv, OneEdgePerWriter, AboutToClose, AboutToInsert, Active, Edge, ActiveOf
<1>2. EdgeInv => OneEdgePerWriter
  BY DEF EdgeInv
<1> QED
  BY <1>1, <1>2, EdgeStep, TypeStep, TypeCorrect, PTL DEF Spec
-----------------------------------------------------------------------------
(* What closing does to the rows: only active ones end, from stays.         *)
Final == \A e \in Edge \cap Edge' :
    /\ edge'[e].from = edge[e].from
    /\ e \notin Active => edge'[e] = edge[e]

LEMMA ClosingIsFinal ==
    ASSUME TypeOK, NEW s, s \subseteq Active, NEW v, ClosedAt(s, v)
    PROVE  Final
<1> SUFFICES ASSUME NEW e \in Edge \cap Edge'
             PROVE  /\ edge'[e].from = edge[e].from
                    /\ e \notin Active => edge'[e] = edge[e]
  BY DEF Final
<1>1. e \in EdgeId /\ edge[e] \in Row
  BY DEF Edge, TypeOK
<1>2. CASE e \in s
  BY <1>1, <1>2 DEF ClosedAt, Row
<1>3. CASE e \notin s
  BY <1>1, <1>3 DEF ClosedAt
<1> QED
  BY <1>2, <1>3

LEMMA FinalStep == TypeOK /\ [Next]_vars => [Final]_edge
<1> SUFFICES ASSUME TypeOK, [Next]_vars, edge' # edge PROVE Final
  OBVIOUS
<1>1. ASSUME edge' = [e \in EdgeId |-> NoEdge] PROVE Final
  BY <1>1 DEF Final, Edge
<1>2. ASSUME NEW t \in Task, Step(t) PROVE Final
  <2>1. CASE CloseOthers(t)
    BY <2>1, ClosingIsFinal DEF CloseOthers
  <2>2. CASE InsertEdge(t)
    <3>1. \E new \in EdgeId \ Edge : \E row : edge' = [edge EXCEPT ![new] = row]
      BY <1>2, <2>2, FreshIds DEF InsertEdge
    <3> QED
      BY <3>1 DEF Final, Edge, TypeOK
  <2>3. CASE PurgeNodes(t)
    BY <2>3, <1>1 DEF PurgeNodes, DropNodes
  <2> QED
    BY <1>2, <2>1, <2>2, <2>3
       DEF Step, Resolve, Merge, Upsert, MentionSource, MentionTarget, Believe, Shift, Reuse
<1>3. ASSUME NEW t \in Task, Request(t) PROVE Final
  BY <1>3, <1>1 DEF Request, BeginFact, BeginTurn, BeginLink, Begin, PurgeEdges
<1>4. ASSUME NEW t \in Task, Fail(t) PROVE Final
  BY <1>4 DEF Fail
<1>5. ASSUME NEW a, NEW b, NEW R, RemoveLink(a, b, R) PROVE Final
  BY <1>5, ClosingIsFinal DEF RemoveLink
<1>6. ASSUME NEW x \in Name, ReviseBelief(x) PROVE Final
  BY <1>6 DEF ReviseBelief
<1>7. CASE Reset
  BY <1>7, ClosingIsFinal DEF Reset
<1>8. CASE Forget
  BY <1>8, <1>1 DEF Forget, DropNodes
<1>9. CASE Tick
  BY <1>9 DEF Tick
<1>10. CASE UNCHANGED vars
  BY <1>10 DEF vars
<1> QED
  BY <1>2, <1>3, <1>4, <1>5, <1>6, <1>7, <1>8, <1>9, <1>10 DEF Next

(* The record of an edge keeps its start, and its end once it has one.      *)
THEOREM ClosedStays == Spec => ClosedForGood
  BY FinalStep, TypeCorrect, PTL DEF Spec, ClosedForGood, Final
-----------------------------------------------------------------------------
(* Ids are not used again: a node stays what it is, with what it mentions,  *)
(* until it is deleted, and a deleted one does not come back.               *)
Grows ==
    \A n \in Node \cup deleted :
        /\ n \in (Node \cup deleted)'
        /\ n \in Node' => n \in Node /\ name'[n] = name[n] /\ mention[n] \subseteq mention'[n]

LEMMA MentionedGrows ==
    ASSUME TypeOK, NEW n, NEW f, Mentioned(n, f), name' = name, deleted' = deleted
    PROVE  Grows /\ Node' = Node /\ (n \in Node => f \in mention'[n])
  BY DEF Grows, Mentioned, Node, TypeOK

LEMMA BelievedGrows ==
    ASSUME TypeOK, NEW x, Believed(x), mention' = mention, deleted' = deleted
    PROVE  Grows
<1>1. CASE name' = name
  BY <1>1 DEF Grows, Node
<1>2. CASE name' # name
  <2>1. PICK n \in NodeId : /\ name' = [name EXCEPT ![n] = x]
                            /\ n \notin Node /\ n \notin deleted
    BY <1>2, FreshIds DEF Believed
  <2> QED
    BY <2>1 DEF Grows, Node, TypeOK
<1> QED
  BY <1>1, <1>2

LEMMA SameGrows ==
    ASSUME name' = name, mention' = mention, deleted \subseteq deleted'
    PROVE  Grows
  BY DEF Grows, Node

LEMMA DropGrows ==
    ASSUME DropNodes PROVE Grows /\ Node' = {} /\ Edge' = {}
  BY DEF DropNodes, Grows, Node, Edge

(* What Upsert does to the nodes.                                           *)
LEMMA UpsertGrows ==
    ASSUME TypeOK, NEW t \in Task, Upsert(t)
    PROVE  /\ Grows
           /\ \E n \in Node' : Found(t, n) /\ name'[n] = loc[t].known
<1>0. mention' = mention /\ deleted' = deleted
  BY DEF Upsert, nodeVars
<1>1. CASE \E n \in Node : name[n] = loc[t].known /\ Found(t, n) /\ UNCHANGED nodeVars
  BY <1>0, <1>1, SameGrows DEF nodeVars, Node
<1>2. CASE \E n \in Fresh(NodeId, Node) : /\ name' = [name EXCEPT ![n] = loc[t].known]
                                          /\ Found(t, n)
  <2>1. PICK n \in Fresh(NodeId, Node) : /\ name' = [name EXCEPT ![n] = loc[t].known]
                                         /\ Found(t, n)
    BY <1>2
  <2>a. n \in NodeId /\ n \notin Node /\ n \notin deleted
    BY FreshIds
  <2>2. loc[t].known \in Name /\ loc[t].known # NoName
    <3>1. Held(pc[t], loc[t]) /\ pc[t] = "upsert"
      BY DEF TypeOK, Upsert
    <3> QED
      BY <3>1, TemporalGraphAssumption DEF Held
  <2>3. n \in Node' /\ name'[n] = loc[t].known
    BY <2>1, <2>a, <2>2 DEF Node, TypeOK
  <2>4. Grows
    BY <1>0, <2>1, <2>a DEF Grows, Node, TypeOK
  <2> QED
    BY <2>1, <2>3, <2>4
<1> QED
  BY <1>1, <1>2 DEF Upsert

(* Errors are counted.                                                      *)
LEMMA NoFaultBefore == TypeOK /\ [Next]_vars /\ faults' = 0 => faults = 0
<1> SUFFICES ASSUME TypeOK, [Next]_vars, faults' = 0 PROVE faults = 0
  OBVIOUS
<1>1. ASSUME NEW t \in Task, Step(t) PROVE faults = 0
  BY <1>1 DEF Step, Resolve, Merge, Upsert, MentionSource, MentionTarget, Believe,
              Shift, Reuse, CloseOthers, InsertEdge, PurgeNodes
<1>2. ASSUME NEW t \in Task, Request(t) PROVE faults = 0
  BY <1>2 DEF Request, BeginFact, BeginTurn, BeginLink, Begin, PurgeEdges
<1>3. ASSUME NEW t \in Task, Fail(t) PROVE faults = 0
  BY <1>3 DEF Fail, TypeOK
<1>4. CASE \/ \E a, b \in Node, R \in {Rel} \cup {{r} : r \in Rel} : RemoveLink(a, b, R)
           \/ \E x \in Name : ReviseBelief(x)
           \/ Reset \/ Forget \/ Tick
  BY <1>4 DEF RemoveLink, ReviseBelief, Reset, Forget, Tick, OneStatement
<1>5. CASE UNCHANGED vars
  BY <1>5 DEF vars
<1> QED
  BY <1>1, <1>2, <1>3, <1>4, <1>5 DEF Next

LEMMA GrowsStep == TypeOK /\ [Next]_vars => Grows
<1> SUFFICES ASSUME TypeOK, [Next]_vars PROVE Grows
  OBVIOUS
<1>1. ASSUME NEW t \in Task, Step(t) PROVE Grows
  <2>1. CASE MentionSource(t) \/ MentionTarget(t)
    BY <2>1, MentionedGrows DEF MentionSource, MentionTarget
  <2>2. CASE Believe(t)
    BY <2>2, BelievedGrows DEF Believe
  <2>3. CASE Upsert(t)
    BY <2>3, UpsertGrows
  <2>4. CASE PurgeNodes(t)
    BY <2>4, DropGrows DEF PurgeNodes
  <2> QED
    BY <1>1, <2>1, <2>2, <2>3, <2>4, SameGrows
       DEF Step, Resolve, Merge, Shift, Reuse, CloseOthers, InsertEdge, nodeVars
<1>2. ASSUME NEW t \in Task, Request(t) PROVE Grows
  BY <1>2, SameGrows
     DEF Request, BeginFact, BeginTurn, BeginLink, Begin, PurgeEdges, nodeVars
<1>3. ASSUME NEW t \in Task, Fail(t) PROVE Grows
  BY <1>3, SameGrows DEF Fail, nodeVars
<1>4. ASSUME NEW a, NEW b, NEW R, RemoveLink(a, b, R) PROVE Grows
  BY <1>4, SameGrows DEF RemoveLink, nodeVars
<1>5. ASSUME NEW x \in Name, ReviseBelief(x) PROVE Grows
  BY <1>5, BelievedGrows DEF ReviseBelief
<1>6. CASE Reset
  BY <1>6, SameGrows DEF Reset, nodeVars
<1>7. CASE Forget
  BY <1>7, DropGrows DEF Forget
<1>8. CASE Tick
  BY <1>8, SameGrows DEF Tick, nodeVars
<1>9. CASE UNCHANGED vars
  BY <1>9, SameGrows DEF vars, nodeVars
<1> QED
  BY <1>1, <1>2, <1>3, <1>4, <1>5, <1>6, <1>7, <1>8, <1>9 DEF Next
-----------------------------------------------------------------------------
(* The strengthening that makes EdgesGrounded inductive.  A request for a   *)
(* fact works on nodes that exist or were deleted, so that no later node    *)
(* takes their ids; past _link_fact_to_node each of them that is still      *)
(* there mentions the fact.                                                 *)
Told(n, f) == n \in Node => f \in mention[n]

Grounded(p, l) ==
    /\ l.op # "fact" => l.fact = NoFact
    /\ p = "believe" => l.op # "fact"
    /\ {l.snode, l.tnode} \subseteq Node \cup deleted \cup {NoNode}
    /\ l.fact # NoFact =>
        /\ p \in {"mentionTgt", "shift", "close", "insert"} => Told(l.snode, l.fact)
        /\ p \in {"shift", "close", "insert"} => Told(l.tnode, l.fact)

GroundInv == EdgesGrounded /\ (faults = 0 => \A t \in Task : Grounded(pc[t], loc[t]))

(* What the other tasks do leaves a request grounded.                       *)
LEMMA StaysGrounded ==
    ASSUME Grows, NEW p, NEW l, Grounded(p, l)
    PROVE  Grounded(p, l)'
<1>1. NoNode \notin Node'
  BY TemporalGraphAssumption DEF Node
<1>2. ASSUME NEW n \in Node \cup deleted \cup {NoNode}, NEW f, Told(n, f) PROVE Told(n, f)'
  BY <1>1, <1>2 DEF Told, Grows
<1> QED
  BY <1>2 DEF Grounded, Grows

Requests == \A u \in Task : Grounded(pc[u], loc[u])

(* A request that moves is grounded if it is at the new point.              *)
LEMMA GroundedMove ==
    ASSUME TypeOK, Grows, Requests, NEW t \in Task, NEW q, NEW k, Go(t, q, k),
           Grounded(q, k)'
    PROVE  Requests'
<1>1. /\ pc'[t] = q /\ loc'[t] = k
      /\ \A u \in Task \ {t} : pc'[u] = pc[u] /\ loc'[u] = loc[u]
  BY OneMoves
<1>2. \A u \in Task \ {t} : \A p, l : p = pc[u] /\ l = loc[u] => Grounded(p, l)'
  BY StaysGrounded DEF Requests
<1>3. ASSUME NEW u \in Task PROVE Grounded(pc[u], loc[u])'
  <2>1. CASE u = t
    BY <1>1, <2>1 DEF Grounded, Told
  <2>2. CASE u # t
    <3>1. PICK p, l : p = pc[u] /\ l = loc[u]
      OBVIOUS
    <3>2. Grounded(p, l)'
      BY <1>2, <2>2, <3>1
    <3> QED
      BY <1>1, <2>2, <3>1, <3>2 DEF Grounded, Told
  <2> QED
    BY <2>1, <2>2
<1> QED
  BY <1>3 DEF Requests

(* The points of which less is asked.                                       *)
Early == {"idle", "resolve", "merge", "upsert", "mention", "reuse", "purge"}
Late == {"shift", "close", "insert"}

LEMMA GroundedOn ==
    ASSUME TypeOK, Grows, Requests, NEW t \in Task, NEW q, NEW k, Go(t, q, k),
           k.op = loc[t].op, k.fact = loc[t].fact,
           k.snode = loc[t].snode, k.tnode = loc[t].tnode,
           q \in Early \/ {pc[t], q} \subseteq Late
    PROVE  Requests'
<1>1. Grounded(q, k)
  BY DEF Requests, Grounded, Early, Late
<1> QED
  BY <1>1, StaysGrounded, GroundedMove

LEMMA GroundedIdle ==
    ASSUME TypeOK, Grows, Requests, NEW t \in Task, NEW q, Go(t, q, NoLocals)
    PROVE  Requests'
<1>1. Grounded(q, NoLocals)
  BY DEF Grounded, NoLocals
<1> QED
  BY <1>1, StaysGrounded, GroundedMove

LEMMA GroundedOthers ==
    ASSUME Grows, Requests, UNCHANGED taskVars PROVE Requests'
<1>1. \A u \in Task : \A p, l : p = pc[u] /\ l = loc[u] => Grounded(p, l)'
  BY StaysGrounded DEF Requests
<1>2. ASSUME NEW u \in Task PROVE Grounded(pc[u], loc[u])'
  <2>1. PICK p, l : p = pc[u] /\ l = loc[u]
    OBVIOUS
  <2> QED
    BY <1>1, <2>1 DEF Grounded, Told, taskVars
<1> QED
  BY <1>2 DEF Requests

LEMMA RequestsStep == TypeOK /\ Requests /\ [Next]_vars /\ faults' = 0 => Requests'
<1> SUFFICES ASSUME TypeOK, Requests, [Next]_vars, faults' = 0 PROVE Requests'
  OBVIOUS
<1>0. Grows
  BY GrowsStep
<1>1. CASE UNCHANGED taskVars
  BY <1>0, <1>1, GroundedOthers
<1>2. ASSUME NEW t \in Task, Step(t) PROVE Requests'
  <2>0. loc[t] \in Locals /\ Held(pc[t], loc[t]) /\ Grounded(pc[t], loc[t])
    BY DEF TypeOK, Requests
  <2>1. CASE Resolve(t)
    <3>1. PICK y, q : Go(t, q, [loc[t] EXCEPT !.known = y]) /\ q \in {"merge", "upsert"}
      BY <2>1 DEF Resolve
    <3> QED
      BY <1>0, <2>0, <3>1, GroundedOn DEF Locals, Early
  <2>2. CASE Merge(t)
    <3>1. PICK y : Go(t, "upsert", [loc[t] EXCEPT !.known = y])
      BY <2>2 DEF Merge
    <3> QED
      BY <1>0, <2>0, <3>1, GroundedOn DEF Locals, Early
  <2>3. CASE Upsert(t)
    <3>1. PICK n \in Node' : Found(t, n)
      BY <2>3, UpsertGrows
    <3>2. PICK k \in {[loc[t] EXCEPT !.known = NoName, !.snode = n],
                      [loc[t] EXCEPT !.tnode = n]} : Go(t, After(t), k)
      BY <3>1 DEF Found
    <3>3. /\ k.op = loc[t].op /\ k.fact = loc[t].fact
          /\ k.snode \in {n, loc[t].snode} /\ k.tnode \in {n, loc[t].tnode}
      BY <2>0, <3>2 DEF Locals
    <3>4. PICK q : /\ Go(t, q, k) /\ q \in Early \cup {"believe"}
                   /\ q = "believe" => k.op # "fact"
      BY <3>2, <3>3 DEF After, Early
    <3>5. /\ k.op # "fact" => k.fact = NoFact
          /\ {k.snode, k.tnode} \subseteq (Node \cup deleted \cup {NoNode})'
      BY <1>0, <2>0, <3>1, <3>3 DEF Grounded, Grows
    <3>6. Grounded(q, k)'
      BY <3>5, <3>4 DEF Grounded, Early
    <3> QED
      BY <1>0, <3>4, <3>6, GroundedMove
  <2>4. CASE MentionSource(t)
    <3>1. PICK k : k = loc[t]
      OBVIOUS
    <3>2. Go(t, "mentionTgt", k) /\ Mentioned(k.snode, k.fact)
      BY <2>4, <3>1 DEF MentionSource
    <3>3. Node' = Node /\ deleted' = deleted /\ (k.snode \in Node => k.fact \in mention'[k.snode])
      BY <2>4, <3>2, MentionedGrows DEF MentionSource
    <3>4. Grounded("mentionTgt", k)'
      BY <2>0, <3>1, <3>3 DEF Grounded, Told
    <3> QED
      BY <1>0, <3>2, <3>4, GroundedMove
  <2>5. CASE MentionTarget(t)
    <3>1. PICK k : k = loc[t]
      OBVIOUS
    <3>2. Go(t, "shift", k) /\ Mentioned(k.tnode, k.fact) /\ pc[t] = "mentionTgt"
      BY <2>5, <3>1 DEF MentionTarget
    <3>3. Node' = Node /\ deleted' = deleted /\ (k.tnode \in Node => k.fact \in mention'[k.tnode])
      BY <2>5, <3>2, MentionedGrows DEF MentionTarget
    <3>4. Grounded("mentionTgt", k)'
      BY <1>0, <2>0, <3>1, <3>2, StaysGrounded
    <3>5. Grounded("shift", k)'
      BY <3>3, <3>4 DEF Grounded, Told
    <3> QED
      BY <1>0, <3>2, <3>5, GroundedMove
  <2>6. CASE Believe(t)
    <3>1. PICK k : k = loc[t]
      OBVIOUS
    <3>2. Go(t, "shift", k) /\ pc[t] = "believe"
      BY <2>6, <3>1 DEF Believe
    <3>3. Grounded("believe", k)'
      BY <1>0, <2>0, <3>1, <3>2, StaysGrounded
    <3>4. k.fact = NoFact
      BY <2>0, <3>1, <3>2 DEF Grounded
    <3>5. Grounded("shift", k)'
      BY <3>3, <3>4 DEF Grounded
    <3> QED
      BY <1>0, <3>2, <3>5, GroundedMove
  <2>7. CASE Shift(t)
    <3>1. pc[t] = "shift"
      BY <2>7 DEF Shift
    <3>2. CASE \E e \in Active : Go(t, "reuse", [loc[t] EXCEPT !.hit = e])
      BY <1>0, <2>0, <3>2, GroundedOn DEF Locals, Early
    <3>3. CASE Go(t, "close", [loc[t] EXCEPT !.at = From(t)])
      BY <1>0, <2>0, <3>1, <3>3, GroundedOn DEF Locals, Late
    <3> QED
      BY <2>7, <3>2, <3>3 DEF Shift
  <2>8. CASE Reuse(t)
    BY <1>0, <2>8, GroundedIdle DEF Reuse, Finish
  <2>9. CASE CloseOthers(t)
    BY <1>0, <2>9, GroundedOn DEF CloseOthers, Late
  <2>10. CASE InsertEdge(t)
    BY <1>0, <2>10, GroundedIdle DEF InsertEdge, Finish
  <2>11. CASE PurgeNodes(t)
    BY <1>0, <2>11, GroundedIdle DEF PurgeNodes, Finish
  <2> QED
    BY <1>2, <2>1, <2>2, <2>3, <2>4, <2>5, <2>6, <2>7, <2>8, <2>9, <2>10, <2>11 DEF Step
<1>3. ASSUME NEW t \in Task, Request(t) PROVE Requests'
  <2>1. ASSUME NEW q, NEW k, Grounded(q, k), Begin(t, q, k) PROVE Requests'
    BY <1>0, <2>1, StaysGrounded, GroundedMove DEF Begin
  <2>2. ASSUME NEW k \in Triple, NEW f \in Fact, BeginFact(t, k, f) PROVE Requests'
    <3>1. Grounded("resolve", [NoLocals EXCEPT !.op = "fact", !.src = k[1], !.rel = k[2],
                                               !.tgt = k[3], !.fact = f])
      BY DEF Grounded, NoLocals
    <3> QED
      BY <2>1, <2>2, <3>1 DEF BeginFact
  <2>3. ASSUME NEW k \in Triple, NEW v, BeginTurn(t, k, v) PROVE Requests'
    <3>1. Grounded("resolve", [NoLocals EXCEPT !.op = "turn", !.src = k[1], !.rel = k[2],
                                               !.tgt = k[3], !.at = v])
      BY DEF Grounded, NoLocals
    <3> QED
      BY <2>1, <2>3, <3>1 DEF BeginTurn
  <2>4. ASSUME NEW a, NEW b, NEW r, BeginLink(t, a, r, b) PROVE Requests'
    <3>1. Grounded("shift", [NoLocals EXCEPT !.op = "link", !.snode = a, !.tnode = b,
                                             !.rel = r])
      BY <2>4 DEF BeginLink, Grounded, NoLocals
    <3> QED
      BY <2>1, <2>4, <3>1 DEF BeginLink
  <2>5. CASE PurgeEdges(t)
    BY <1>0, <2>5, GroundedIdle DEF PurgeEdges
  <2> QED
    BY <1>3, <2>2, <2>3, <2>4, <2>5 DEF Request
<1>4. ASSUME NEW t \in Task, Fail(t) PROVE FALSE
  BY <1>4 DEF Fail, TypeOK
<1>5. CASE \/ \E a, b \in Node, R \in {Rel} \cup {{r} : r \in Rel} : RemoveLink(a, b, R)
           \/ \E x \in Name : ReviseBelief(x)
           \/ Reset \/ Forget \/ Tick
  BY <1>1, <1>5 DEF RemoveLink, ReviseBelief, Reset, Forget, Tick, OneStatement
<1>6. CASE UNCHANGED vars
  BY <1>1, <1>6 DEF vars
<1> QED
  BY <1>2, <1>3, <1>4, <1>5, <1>6 DEF Next

(* The edges stay grounded: what nodes mention grows until all are deleted, *)
(* and no edge outlives the nodes.                                          *)
LEMMA GroundKept ==
    ASSUME TypeOK, EdgesGrounded, faults = 0, \A n \in NodeId : mention[n] \subseteq mention'[n],
           \A e \in Edge' : /\ e \in Edge /\ edge'[e].fact = edge[e].fact
                            /\ edge'[e].src = edge[e].src /\ edge'[e].tgt = edge[e].tgt
    PROVE  EdgesGrounded'
<1> SUFFICES ASSUME NEW e \in Edge', edge'[e].fact # NoFact
             PROVE  edge'[e].fact \in mention'[edge'[e].src] \cap mention'[edge'[e].tgt]
  BY DEF EdgesGrounded
<1>1. e \in Edge /\ edge[e].src \in NodeId /\ edge[e].tgt \in NodeId
  BY DEF TypeOK, Edge, Row
<1> QED
  BY <1>1 DEF EdgesGrounded

LEMMA ClosedKeeps ==
    ASSUME TypeOK, NEW s, s \subseteq Edge, NEW v, ClosedAt(s, v)
    PROVE  \A e \in Edge' : /\ e \in Edge /\ edge'[e].fact = edge[e].fact
                            /\ edge'[e].src = edge[e].src /\ edge'[e].tgt = edge[e].tgt
<1> SUFFICES ASSUME NEW e \in Edge'
             PROVE  /\ e \in Edge /\ edge'[e].fact = edge[e].fact
                    /\ edge'[e].src = edge[e].src /\ edge'[e].tgt = edge[e].tgt
  OBVIOUS
<1>1. e \in EdgeId /\ edge'[e] # NoEdge
  BY DEF Edge
<1>2. CASE e \in s
  <2>1. e \in Edge /\ edge[e] \in Row
    BY <1>2 DEF TypeOK, Edge
  <2> QED
    BY <1>1, <1>2, <2>1 DEF ClosedAt, Row
<1>3. CASE e \notin s
  BY <1>1, <1>3 DEF ClosedAt, Edge
<1> QED
  BY <1>2, <1>3

LEMMA GroundedStep == TypeOK /\ GroundInv /\ [Next]_vars => EdgesGrounded'
<1> SUFFICES ASSUME TypeOK, GroundInv, [Next]_vars, faults' = 0 PROVE EdgesGrounded'
  BY DEF EdgesGrounded
<1>0. faults = 0
  BY NoFaultBefore
<1>a. EdgesGrounded /\ Requests
  BY <1>0 DEF GroundInv, Requests
<1>b. ASSUME Edge' = {} PROVE EdgesGrounded'
  BY <1>b DEF EdgesGrounded
<1>c. ASSUME edge' = edge, mention' = mention PROVE EdgesGrounded'
  BY <1>0, <1>a, <1>c, GroundKept DEF Edge
<1>d. ASSUME NEW s, s \subseteq Edge, NEW v, ClosedAt(s, v), mention' = mention
      PROVE  EdgesGrounded'
  BY <1>0, <1>a, <1>d, ClosedKeeps, GroundKept
<1>1. ASSUME NEW t \in Task, Step(t) PROVE EdgesGrounded'
  <2>1. CASE MentionSource(t) \/ MentionTarget(t)
    <3>1. edge' = edge /\ \A n \in NodeId : mention[n] \subseteq mention'[n]
      BY <2>1 DEF MentionSource, MentionTarget, Mentioned, TypeOK
    <3> QED
      BY <1>0, <1>a, <3>1, GroundKept DEF Edge
  <2>2. CASE CloseOthers(t)
    BY <2>2, <1>d DEF CloseOthers, Others, nodeVars
  <2>3. CASE InsertEdge(t)
    <3>0. pc[t] = "insert" /\ mention' = mention
      BY <2>3 DEF InsertEdge, nodeVars
    <3>1. CASE edge' = edge
      BY <1>c, <3>0, <3>1
    <3>2. CASE edge' # edge
      <4>1. PICK new \in EdgeId : edge' = [edge EXCEPT ![new] =
                [src |-> loc[t].snode, tgt |-> loc[t].tnode, rel |-> loc[t].rel,
                 from |-> loc[t].at, to |-> Open, fact |-> loc[t].fact, writer |-> t]]
        BY <2>3, <3>2, FreshIds DEF InsertEdge
      <4>2. {loc[t].snode, loc[t].tnode} \subseteq Node
        BY <2>3, <3>2 DEF InsertEdge
      <4>3. loc[t].fact # NoFact =>
               loc[t].fact \in mention[loc[t].snode] \cap mention[loc[t].tnode]
        BY <1>a, <3>0, <4>2 DEF Requests, Grounded, Told
      <4>4. ASSUME NEW e \in Edge', edge'[e].fact # NoFact
            PROVE  edge'[e].fact \in mention'[edge'[e].src] \cap mention'[edge'[e].tgt]
        <5>1. CASE e = new
          BY <3>0, <4>1, <4>3, <4>4, <5>1 DEF TypeOK
        <5>2. CASE e # new
          <6>1. e \in Edge /\ edge'[e] = edge[e]
            BY <4>1, <5>2 DEF Edge, TypeOK
          <6> QED
            BY <1>0, <1>a, <3>0, <4>4, <6>1 DEF EdgesGrounded
        <5> QED
          BY <5>1, <5>2
      <4> QED
        BY <4>4 DEF EdgesGrounded
    <3> QED
      BY <3>1, <3>2
  <2>4. CASE PurgeNodes(t)
    BY <2>4, <1>b, DropGrows DEF PurgeNodes
  <2> QED
    BY <1>1, <1>c, <2>1, <2>2, <2>3, <2>4
       DEF Step, Resolve, Merge, Upsert, Believe, Shift, Reuse, nodeVars
<1>2. ASSUME NEW t \in Task, Request(t) PROVE EdgesGrounded'
  <2>1. CASE PurgeEdges(t)
    BY <2>1, <1>b DEF PurgeEdges, Edge
  <2> QED
    BY <1>2, <1>c, <2>1 DEF Request, BeginFact, BeginTurn, BeginLink, Begin, nodeVars
<1>3. ASSUME NEW t \in Task, Fail(t) PROVE EdgesGrounded'
  BY <1>3, <1>c DEF Fail, nodeVars
<1>4. ASSUME NEW a, NEW b, NEW R, RemoveLink(a, b, R) PROVE EdgesGrounded'
  BY <1>4, <1>d DEF RemoveLink, Active, nodeVars
<1>5. ASSUME NEW x \in Name, ReviseBelief(x) PROVE EdgesGrounded'
  BY <1>5, <1>c DEF ReviseBelief
<1>6. CASE Reset
  BY <1>6, <1>d DEF Reset, Active, nodeVars
<1>7. CASE Forget
  BY <1>7, <1>b, DropGrows DEF Forget
<1>8. CASE Tick \/ UNCHANGED vars
  BY <1>8, <1>c DEF Tick, vars, nodeVars
<1> QED
  BY <1>1, <1>2, <1>3, <1>4, <1>5, <1>6, <1>7, <1>8 DEF Next

(* build_fact_graph leaves no edge of a fact that its endpoints do not      *)
(* mention, whatever resets, deletions and other writers come in between.   *)
THEOREM GroundedEdges == Spec => []EdgesGrounded
<1>1. Init => GroundInv
  <2>1. \A p : Grounded(p, NoLocals)
    BY DEF Grounded, NoLocals
  <2> QED
    BY <2>1 DEF Init, GroundInv, EdgesGrounded, Edge
<1>2. TypeOK /\ GroundInv /\ [Next]_vars => GroundInv'
  <2> SUFFICES ASSUME TypeOK, GroundInv, [Next]_vars PROVE GroundInv'
    OBVIOUS
  <2>1. EdgesGrounded'
    BY GroundedStep
  <2>2. ASSUME faults' = 0 PROVE Requests'
    <3>1. faults = 0
      BY <2>2, NoFaultBefore
    <3>2. Requests
      BY <3>1 DEF GroundInv, Requests
    <3> QED
      BY <2>2, <3>2, RequestsStep
  <2> QED
    BY <2>1, <2>2 DEF GroundInv, Requests
<1>3. GroundInv => EdgesGrounded
  BY DEF GroundInv
<1> QED
  BY <1>1, <1>2, <1>3, TypeCorrect, PTL DEF Spec
-----------------------------------------------------------------------------
(* The strengthening that makes OneNodePerWriter inductive: rows that do    *)
(* not exist have no maker, and what a request is about to upsert is the    *)
(* name of a node, or none of the nodes its task made has the same key.     *)
Apart(t) ==
    \A m, n \in Node : m # n /\ maker[m] = t /\ maker[n] = t => Key[name[m]] # Key[name[n]]

Resolved(t, p, l) ==
    /\ p = "merge" => l.known = (IF l.snode = NoNode THEN l.src ELSE l.tgt)
    /\ p \in {"merge", "upsert"} /\ l.known \notin Names =>
          \A m \in Node : maker[m] = t => Key[name[m]] # Key[l.known]

Unmade == \A n \in NodeId \ Node : maker[n] = NoTask

NodeInv ==
    /\ Unmade
    /\ faults = 0 => \A t \in Task : Apart(t) /\ Resolved(t, pc[t], loc[t])

(* Task t makes no node, and no name gets lost unless all do.               *)
MakesNone(t) ==
    \/ Node' = {}
    \/ /\ Names \subseteq Names'
       /\ \A m \in Node' : maker'[m] = t => m \in Node /\ maker[m] = t /\ name'[m] = name[m]

LEMMA StaysApart == ASSUME NEW t \in Task, MakesNone(t), Apart(t) PROVE Apart(t)'
  BY DEF MakesNone, Apart

LEMMA StaysResolved ==
    ASSUME NEW t \in Task, MakesNone(t), NEW p, NEW l, Resolved(t, p, l)
    PROVE  Resolved(t, p, l)'
<1>1. p = "merge" => l.known = (IF l.snode = NoNode THEN l.src ELSE l.tgt)
  BY DEF Resolved
<1>2. ASSUME p \in {"merge", "upsert"}, l.known \notin Names', NEW m \in Node', maker'[m] = t
      PROVE  Key[name'[m]] # Key[l.known]
  BY <1>2 DEF MakesNone, Resolved
<1> QED
  BY <1>1, <1>2 DEF Resolved

LEMMA SameMakesNone == ASSUME nodeVars' = nodeVars PROVE \A t : MakesNone(t)
  BY DEF nodeVars, MakesNone, Node, Names

LEMMA BelievedMakesNone ==
    ASSUME TypeOK, Unmade, NEW x, Believed(x), maker' = maker
    PROVE  Unmade' /\ \A t \in Task : MakesNone(t)
<1>1. CASE name' = name
  BY <1>1 DEF MakesNone, Unmade, Node, Names
<1>2. CASE name' # name
  <2>1. PICK i \in Fresh(NodeId, Node) : name' = [name EXCEPT ![i] = x]
    BY <1>2 DEF Believed
  <2>2. i \in NodeId /\ i \notin Node
    BY FreshIds
  <2>3. /\ name'[i] = x /\ maker'[i] = NoTask
        /\ \A n \in NodeId \ {i} : name'[n] = name[n] /\ maker'[n] = maker[n]
    BY <2>1, <2>2 DEF Unmade, TypeOK
  <2>4. Unmade'
    BY <2>3 DEF Unmade, Node
  <2>5. Names \subseteq Names'
    BY <2>2, <2>3 DEF Names, Node
  <2>6. ASSUME NEW t \in Task, NEW m \in Node', maker'[m] = t
        PROVE  m \in Node /\ maker[m] = t /\ name'[m] = name[m]
    BY <2>3, <2>6, TemporalGraphAssumption DEF Node
  <2> QED
    BY <2>4, <2>5, <2>6 DEF MakesNone
<1> QED
  BY <1>1, <1>2

(* Upsert makes a node under a new name, or none.                           *)
LEMMA UpsertMakes ==
    ASSUME TypeOK, Unmade, NEW t \in Task, Upsert(t)
    PROVE  /\ Unmade'
           /\ \A u \in Task \ {t} : MakesNone(u)
           /\ \/ MakesNone(t)
              \/ /\ loc[t].known \notin Names
                 /\ \E i : \A m \in Node' :
                       \/ m = i /\ name'[m] = loc[t].known
                       \/ m \in Node /\ maker'[m] = maker[m] /\ name'[m] = name[m]
<1>1. CASE UNCHANGED nodeVars
  BY <1>1, SameMakesNone DEF Unmade, nodeVars, Node
<1>2. CASE /\ loc[t].known \notin Names
           /\ \E n \in Fresh(NodeId, Node) : /\ name' = [name EXCEPT ![n] = loc[t].known]
                                             /\ maker' = [maker EXCEPT ![n] = t]
  <2>1. PICK i \in Fresh(NodeId, Node) : /\ name' = [name EXCEPT ![i] = loc[t].known]
                                         /\ maker' = [maker EXCEPT ![i] = t]
    BY <1>2
  <2>2. i \in NodeId /\ i \notin Node
    BY FreshIds
  <2>3. /\ name'[i] = loc[t].known /\ maker'[i] = t
        /\ \A n \in NodeId \ {i} : name'[n] = name[n] /\ maker'[n] = maker[n]
    BY <2>1, <2>2 DEF TypeOK
  <2>4. loc[t].known # NoName
    <3>1. Held(pc[t], loc[t]) /\ pc[t] = "upsert"
      BY DEF TypeOK, Upsert
    <3> QED
      BY <3>1, TemporalGraphAssumption DEF Held
  <2>5. Unmade'
    BY <2>3, <2>4 DEF Unmade, Node
  <2>6. Names \subseteq Names'
    BY <2>2, <2>3 DEF Names, Node
  <2>7. \A u \in Task \ {t} : MakesNone(u)
    BY <2>3, <2>6 DEF MakesNone, Node
  <2>8. \A m \in Node' : \/ m = i /\ name'[m] = loc[t].known
                         \/ m \in Node /\ maker'[m] = maker[m] /\ name'[m] = name[m]
    BY <2>3 DEF Node
  <2> QED
    BY <1>2, <2>5, <2>7, <2>8
<1> QED
  BY <1>1, <1>2 DEF Upsert

LEMMA MakersStep ==
    ASSUME TypeOK, Unmade, [Next]_vars
    PROVE  /\ Unmade'
           /\ \A u \in Task : MakesNone(u) \/ Upsert(u)
<1>a. ASSUME nodeVars' = nodeVars PROVE Unmade' /\ \A u \in Task : MakesNone(u)
  BY <1>a, SameMakesNone DEF nodeVars, Unmade, Node
<1>b. ASSUME DropNodes PROVE Unmade' /\ \A u \in Task : MakesNone(u)
  BY <1>b, DropGrows DEF DropNodes, Unmade, MakesNone
<1>1. ASSUME NEW t \in Task, Step(t)
      PROVE  Unmade' /\ \A u \in Task : MakesNone(u) \/ Upsert(u)
  <2>1. CASE Upsert(t)
    BY <2>1, UpsertMakes
  <2>2. CASE Believe(t)
    BY <2>2, BelievedMakesNone DEF Believe
  <2>3. CASE PurgeNodes(t)
    BY <2>3, <1>b DEF PurgeNodes
  <2>4. CASE MentionSource(t) \/ MentionTarget(t)
    <3>1. name' = name /\ maker' = maker
      BY <2>4 DEF MentionSource, MentionTarget
    <3> QED
      BY <3>1 DEF Unmade, MakesNone, Node, Names
  <2> QED
    BY <1>1, <1>a, <2>1, <2>2, <2>3, <2>4
       DEF Step, Resolve, Merge, Shift, Reuse, CloseOthers, InsertEdge
<1>2. ASSUME NEW t \in Task, Request(t) PROVE nodeVars' = nodeVars
  BY <1>2 DEF Request, BeginFact, BeginTurn, BeginLink, Begin, PurgeEdges
<1>3. ASSUME NEW t \in Task, Fail(t) PROVE nodeVars' = nodeVars
  BY <1>3 DEF Fail
<1>4. ASSUME NEW a, NEW b, NEW R, RemoveLink(a, b, R) PROVE nodeVars' = nodeVars
  BY <1>4 DEF RemoveLink
<1>5. CASE \E x \in Name : ReviseBelief(x)
  BY <1>5, BelievedMakesNone DEF ReviseBelief
<1>6. CASE Reset \/ Tick \/ UNCHANGED vars
  BY <1>6, <1>a DEF Reset, Tick, vars
<1>7. CASE Forget
  BY <1>7, <1>b DEF Forget
<1> QED
  BY <1>a, <1>1, <1>2, <1>3, <1>4, <1>5, <1>6, <1>7 DEF Next

(* Only Resolve and Merge bring a request to the points that follow them.   *)
LEMMA ResolvingMoves ==
    ASSUME TypeOK, [Next]_vars, faults' = 0, NEW u \in Task, pc'[u] \in {"merge", "upsert"}
    PROVE  Resolve(u) \/ Merge(u) \/ (pc'[u] = pc[u] /\ loc'[u] = loc[u])
<1>a. ASSUME NEW t \in Task, NEW q, NEW k, Go(t, q, k), q \notin {"merge", "upsert"}
      PROVE  pc'[u] = pc[u] /\ loc'[u] = loc[u]
  BY <1>a, OneMoves
<1>1. ASSUME NEW t \in Task, Step(t)
      PROVE  Resolve(u) \/ Merge(u) \/ (pc'[u] = pc[u] /\ loc'[u] = loc[u])
  <2>1. CASE Resolve(t) \/ Merge(t)
    <3>1. PICK q, k : Go(t, q, k)
      BY <2>1 DEF Resolve, Merge
    <3> QED
      BY <2>1, <3>1, OneMoves
  <2>2. CASE Upsert(t)
    <3>1. PICK n : Found(t, n)
      BY <2>2 DEF Upsert
    <3> QED
      BY <3>1, <1>a DEF Found, After
  <2>3. CASE Shift(t)
    <3>1. PICK q, k : Go(t, q, k) /\ q \in {"reuse", "close"}
      BY <2>3 DEF Shift
    <3> QED
      BY <3>1, <1>a
  <2> QED
    BY <1>1, <1>a, <2>1, <2>2, <2>3
       DEF Step, MentionSource, MentionTarget, Believe, Reuse, CloseOthers, InsertEdge,
           PurgeNodes, Finish
<1>2. ASSUME NEW t \in Task, Request(t) PROVE pc'[u] = pc[u] /\ loc'[u] = loc[u]
  <2>1. PICK q, k : Go(t, q, k) /\ q \in {"resolve", "shift", "purge"}
    BY <1>2 DEF Request, BeginFact, BeginTurn, BeginLink, Begin, PurgeEdges
  <2> QED
    BY <2>1, <1>a
<1>3. ASSUME NEW t \in Task, Fail(t) PROVE FALSE
  BY <1>3 DEF Fail, TypeOK
<1>4. CASE \/ \E a, b \in Node, R \in {Rel} \cup {{r} : r \in Rel} : RemoveLink(a, b, R)
           \/ \E x \in Name : ReviseBelief(x)
           \/ Reset \/ Forget \/ Tick
  BY <1>4 DEF RemoveLink, ReviseBelief, Reset, Forget, Tick, OneStatement, taskVars
<1>5. CASE UNCHANGED vars
  BY <1>5 DEF vars, taskVars
<1> QED
  BY <1>1, <1>2, <1>3, <1>4, <1>5 DEF Next

LEMMA NodeStep == TypeOK /\ NodeInv /\ [Next]_vars => NodeInv'
<1> SUFFICES ASSUME TypeOK, NodeInv, [Next]_vars PROVE NodeInv'
  OBVIOUS
<1>1. Unmade' /\ \A u \in Task : MakesNone(u) \/ Upsert(u)
  BY MakersStep DEF NodeInv
<1> SUFFICES ASSUME faults' = 0, NEW t \in Task
             PROVE  Apart(t)' /\ Resolved(t, pc[t], loc[t])'
  BY <1>1 DEF NodeInv
<1>2. faults = 0
  BY NoFaultBefore
<1>3. Apart(t) /\ Resolved(t, pc[t], loc[t]) /\ loc[t] \in Locals
  BY <1>2 DEF NodeInv, TypeOK
<1>4. Apart(t)'
  <2>1. CASE MakesNone(t)
    BY <1>3, <2>1, StaysApart
  <2>2. CASE ~MakesNone(t)
    <3>1. Upsert(t)
      BY <1>1, <2>2
    <3>2. PICK i : \A m \in Node' : \/ m = i /\ name'[m] = loc[t].known
                                    \/ m \in Node /\ maker'[m] = maker[m] /\ name'[m] = name[m]
      BY <2>2, <3>1, UpsertMakes DEF NodeInv
    <3>3. loc[t].known \notin Names /\ pc[t] = "upsert"
      BY <2>2, <3>1, UpsertMakes DEF NodeInv, Upsert
    <3>4. \A m \in Node : maker[m] = t => Key[name[m]] # Key[loc[t].known]
      BY <1>3, <3>3 DEF Resolved
    <3> QED
      BY <1>3, <3>2, <3>4 DEF Apart
  <2> QED
    BY <2>1, <2>2
<1>5. Resolved(t, pc[t], loc[t])'
  <2>1. CASE pc'[t] \notin {"merge", "upsert"}
    BY <2>1 DEF Resolved
  <2>2. CASE pc'[t] \in {"merge", "upsert"} /\ pc'[t] = pc[t] /\ loc'[t] = loc[t]
    <3>1. MakesNone(t)
      <4>1. CASE Upsert(t)
        <5>1. PICK n : Found(t, n)
          BY <4>1 DEF Upsert
        <5>2. pc'[t] = After(t)
          BY <5>1, OneMoves DEF Found
        <5> QED
          BY <2>2, <5>2 DEF After
      <4> QED
        BY <1>1, <4>1
    <3>2. PICK p, l : p = pc[t] /\ l = loc[t]
      OBVIOUS
    <3>3. Resolved(t, p, l)'
      BY <1>3, <3>1, <3>2, StaysResolved
    <3> QED
      BY <2>2, <3>2, <3>3 DEF Resolved
  <2>3. CASE Resolve(t)
    <3>1. PICK y : /\ y \in IF SameKey(Named(t)) # {} THEN SameKey(Named(t))
                            ELSE IF CloseTo(Named(t)) # {} THEN CloseTo(Named(t))
                            ELSE {Normal[Named(t)]}
                   /\ Go(t, IF y = Named(t) THEN "merge" ELSE "upsert",
                         [loc[t] EXCEPT !.known = y])
      BY <2>3 DEF Resolve
    <3>2. y \in Names \/ \A m \in Node : Key[name[m]] # Key[y]
      BY <3>1 DEF SameKey, CloseTo, Names
    <3>3. /\ pc'[t] = IF y = Named(t) THEN "merge" ELSE "upsert"
          /\ loc'[t] = [loc[t] EXCEPT !.known = y]
      BY <3>1, OneMoves
    <3>4. /\ loc'[t].known = y /\ loc'[t].snode = loc[t].snode
          /\ loc'[t].src = loc[t].src /\ loc'[t].tgt = loc[t].tgt
      BY <1>3, <3>3 DEF Locals
    <3>5. Node' = Node /\ Names' = Names /\ name' = name
      BY <2>3 DEF Resolve, nodeVars, Node, Names
    <3> QED
      BY <3>2, <3>3, <3>4, <3>5 DEF Resolved, Named
  <2>4. CASE Merge(t)
    <3>1. PICK y : y \in Names \cup {Named(t)} /\ Go(t, "upsert", [loc[t] EXCEPT !.known = y])
      BY <2>4 DEF Merge, Embedded, Names
    <3>2. loc[t].known = Named(t) /\ pc[t] = "merge"
      BY <1>3, <2>4 DEF Merge, Resolved, Named
    <3>3. /\ pc'[t] = "upsert" /\ loc'[t].known = y
      BY <1>3, <3>1, OneMoves DEF Locals
    <3>4. Node' = Node /\ Names' = Names /\ name' = name /\ maker' = maker
      BY <2>4 DEF Merge, nodeVars, Node, Names
    <3> QED
      BY <1>3, <3>1, <3>2, <3>3, <3>4 DEF Resolved
  <2> QED
    BY <2>1, <2>2, <2>3, <2>4, ResolvingMoves
<1> QED
  BY <1>4, <1>5

(* An entity that one task writes at a time stays one node, whatever the    *)
(* spellings, deletions and revisions of beliefs in between.                *)
THEOREM OneNode == Spec => []OneNodePerWriter
<1>1. Init => NodeInv
  BY DEF Init, NodeInv, Unmade, Node, Apart, Resolved
<1>2. TypeOK /\ NodeInv => OneNodePerWriter
  BY DEF NodeInv, OneNodePerWriter, Apart, TypeOK, Node
<1> QED
  BY <1>1, <1>2, NodeStep, TypeCorrect, PTL DEF Spec
=============================================================================

---------------------------- MODULE LifecycleProofs ----------------------------
(* Proofs about Lifecycle, for every set of ids, texts, sources and tasks,  *)
(* every opposition between texts and every bound on requests and errors.   *)
EXTENDS LifecycleAlone, TLAPS

(* The parts of the type invariant, and what a request holds when it stands *)
(* at a point: the text it stores until it is inserted, the row insert_fact *)
(* returned after that, the row it works on.                                *)
RowsType ==
    /\ text \in [FactId -> Text \cup {NoText}]
    /\ hash \in [FactId -> Text \cup {NoText}]
    /\ erased \subseteq FactId

FlagsType ==
    /\ active \in [FactId -> BOOLEAN] /\ closed \in [FactId -> BOOLEAN]
    /\ quar \in [FactId -> BOOLEAN] /\ prot \in [FactId -> BOOLEAN]

PointersType ==
    /\ by \in [FactId -> FactId \cup {NoFact}]
    /\ contra \in [FactId -> SUBSET FactId]

ScoresType == belief \in [FactId -> Belief] /\ trust \in [FactId -> Trust]

Storing == {"search", "poison", "insert", "write"}
Settling == {"markBack", "believe", "believed", "deactivate", "close", "point"}
Stored == Settling \cup {"meta", "contra", "check", "rewrite", "quarantine"}
Places == Storing \cup Stored \cup {"idle", "sweep", "pointOnly"}

Holds(p, l) ==
    /\ p \in Storing => l.text \in Text
    /\ p \in Storing \cup {"meta"} => l.trust \in Trust
    /\ p \in Stored \cup {"pointOnly"} => l.new \in FactId
    /\ p \in Settling \cup {"check", "rewrite", "pointOnly"} => l.cur \in FactId
    /\ p \in {"check", "rewrite"} => l.draft \in Text

TasksType ==
    /\ pc \in [Task -> Places]
    /\ loc \in [Task -> Locals]
    /\ \A t \in Task : Holds(pc[t], loc[t])

CountsType ==
    /\ settled \subseteq FactId \X FactId
    /\ requests \in 0..MaxRequests
    /\ faults \in 0..MaxFaults

Typed == RowsType /\ FlagsType /\ PointersType /\ ScoresType /\ TasksType /\ CountsType

(* The strengthening that makes ContradictionsSettled inductive: requests   *)
(* and contradictions are about rows that exist or were erased, whose ids   *)
(* no later row takes, and what the loop of remember did to the two rows    *)
(* so far has stayed done to those that still exist.                        *)
Known == Present \cup erased

Linked(i, j) == i \in Present => j \in contra[i]
Retired(i) == i \in Present => ~active[i]
Shut(i) == i \in Present => closed[i] /\ by[i] # NoFact

OnRows(l) == l.cands \cup l.foes \cup {l.new, l.cur} \subseteq Known \cup {NoFact}

Underway(p, l) ==
    /\ p \in Settling => Linked(l.new, l.cur)
    /\ p \in Settling \ {"markBack"} => Linked(l.cur, l.new)
    /\ p \in {"close", "point"} => Retired(l.cur)
    /\ p = "point" => Shut(l.cur)

Settled(p) ==
    /\ p[1] \in Known /\ p[2] \in Known
    /\ Linked(p[1], p[2]) /\ Linked(p[2], p[1]) /\ Retired(p[2]) /\ Shut(p[2])

SettledInv ==
    faults = 0 =>
        /\ \A t \in Task : OnRows(loc[t]) /\ Underway(pc[t], loc[t])
        /\ \A p \in settled : Settled(p)
-----------------------------------------------------------------------------
LEMMA NoLocalsType == NoLocals \in Locals
  BY LifecycleAssumption DEF NoLocals, Locals, Belief

(* What the record of locals is after the changes the actions make to it.   *)
LEMMA Took ==
    ASSUME NEW l \in Locals, NEW c \in FactId, NEW k,
           k \in {[l EXCEPT !.foes = @ \ {c}, !.cur = c]}
    PROVE  /\ k \in Locals /\ k.cands = l.cands /\ k.foes = l.foes \ {c} /\ k.cur = c
           /\ k.new = l.new
  BY DEF Locals

LEMMA Ended ==
    ASSUME NEW l \in Locals, NEW k,
           k \in {[l EXCEPT !.cur = NoFact, !.draft = NoText],
                  [l EXCEPT !.cur = NoFact, !.read = Plain],
                  [l EXCEPT !.cur = NoFact, !.draft = NoText, !.read = Plain]}
    PROVE  /\ k \in Locals /\ k.cands = l.cands /\ k.foes = l.foes /\ k.cur = NoFact
           /\ k.new = l.new
<1>1. CASE k = [l EXCEPT !.cur = NoFact, !.draft = NoText]
  BY <1>1 DEF Locals
<1>2. CASE k = [l EXCEPT !.cur = NoFact, !.read = Plain]
  BY <1>2 DEF Locals, Belief
<1>3. CASE k = [l EXCEPT !.cur = NoFact, !.draft = NoText, !.read = Plain]
  BY <1>3 DEF Locals, Belief
<1> QED
  BY <1>1, <1>2, <1>3
-----------------------------------------------------------------------------
(* A request that moves leaves the requests well typed if it is.            *)
LEMMA Moves ==
    ASSUME TasksType, NEW t \in Task, NEW q, NEW k, pc' = [pc EXCEPT ![t] = q],
           loc' = [loc EXCEPT ![t] = k]
    PROVE  /\ pc'[t] = q /\ loc'[t] = k
           /\ \A u \in Task \ {t} : pc'[u] = pc[u] /\ loc'[u] = loc[u]
  BY DEF TasksType

LEMMA TaskMoves ==
    ASSUME TasksType, NEW t \in Task, NEW q \in Places, NEW k \in Locals, Holds(q, k),
           Go(t, q), Local(t, k)
    PROVE  TasksType'
<1>1. /\ pc'[t] = q /\ loc'[t] = k
      /\ \A u \in Task \ {t} : pc'[u] = pc[u] /\ loc'[u] = loc[u]
  BY Moves DEF Go, Local
<1>2. pc' \in [Task -> Places] /\ loc' \in [Task -> Locals]
  BY DEF Go, Local, TasksType
<1>3. \A u \in Task : Holds(pc'[u], loc'[u])
  BY <1>1 DEF TasksType
<1> QED
  BY <1>2, <1>3 DEF TasksType

LEMMA TaskGoes ==
    ASSUME TasksType, NEW t \in Task, NEW q \in Places, Holds(q, loc[t]),
           Go(t, q), loc' = loc
    PROVE  TasksType'
<1>1. Local(t, loc[t])
  BY DEF Local, TasksType
<1>2. loc[t] \in Locals
  BY DEF TasksType
<1> QED
  BY <1>1, <1>2, TaskMoves

LEMMA TaskEnds == ASSUME TasksType, NEW t \in Task, Finish(t) PROVE TasksType'
<1>1. Holds("idle", NoLocals) /\ "idle" \in Places
  BY DEF Holds, Places, Storing, Stored, Settling
<1> QED
  BY <1>1, NoLocalsType, TaskMoves DEF Finish

LEMMA RowsStep == Typed /\ [Next]_vars => RowsType'
<1> SUFFICES ASSUME Typed, [Next]_vars PROVE RowsType'
  OBVIOUS
<1>0. RowsType /\ TasksType
  BY DEF Typed
<1>a. ASSUME UNCHANGED <<text, hash, erased>> PROVE RowsType'
  BY <1>0, <1>a DEF RowsType
<1>1. ASSUME NEW t \in Task, Step(t) PROVE RowsType'
  <2>1. CASE Insert(t)
    <3>1. loc[t].text \in Text \cup {NoText}
      BY <1>0 DEF TasksType, Locals
    <3> QED
      BY <1>0, <2>1, <3>1 DEF Insert, RowsType
  <2>2. CASE Rewrite(t)
    <3>1. loc[t].draft \in Text \cup {NoText}
      BY <1>0 DEF TasksType, Locals
    <3> QED
      BY <1>0, <2>2, <3>1 DEF Rewrite, RowsType
  <2> QED
    BY <1>1, <1>a, <2>1, <2>2
       DEF Step, rowVars, Search, Drop, PoisonCheck, InsertKnown, InsertSupersede, AttachMeta,
           Mark, MarkBack, ReadBelief, LowerBelief, DeactivateFoe, CloseFoe, PointFoe, Evolve,
           CheckProtected, Quarantine, SweepRow, PointOnly
<1>2. ASSUME NEW t \in Task, Request(t) PROVE RowsType'
  BY <1>2, <1>a DEF Request, BeginRemember, BeginSweep, Begin, Invalidate, rowVars
<1>3. ASSUME NEW t \in Task, Fail(t) PROVE RowsType'
  BY <1>3, <1>a DEF Fail, rowVars
<1>4. ASSUME NEW s, Erase(s) PROVE RowsType'
  BY <1>0, <1>4 DEF Erase, RowsType, Present
<1>5. ASSUME NEW s, Deactivate(s) PROVE RowsType'
  BY <1>5, <1>a DEF Deactivate
<1>6. ASSUME NEW i, ReviseBelief(i) \/ Release(i) PROVE RowsType'
  BY <1>6, <1>a DEF ReviseBelief, Release
<1>7. CASE Protect \/ UNCHANGED vars
  BY <1>7, <1>a DEF Protect, vars, rowVars
<1> QED
  BY <1>1, <1>2, <1>3, <1>4, <1>5, <1>6, <1>7 DEF Next

LEMMA ClosesType ==
    ASSUME FlagsType, PointersType, NEW i, NEW j \in FactId \cup {NoFact}, Close(i, j)
    PROVE  /\ closed' \in [FactId -> BOOLEAN]
           /\ by' \in [FactId -> FactId \cup {NoFact}]
  BY DEF Close, FlagsType, PointersType

LEMMA FlagsStep == Typed /\ [Next]_vars => FlagsType'
<1> SUFFICES ASSUME Typed, [Next]_vars PROVE FlagsType'
  OBVIOUS
<1>0. FlagsType /\ PointersType /\ TasksType
  BY DEF Typed
<1>a. ASSUME UNCHANGED <<active, closed, quar, prot>> PROVE FlagsType'
  BY <1>0, <1>a DEF FlagsType
<1>1. ASSUME NEW t \in Task, Step(t) PROVE FlagsType'
  <2>0. loc[t].new \in FactId \cup {NoFact}
    BY <1>0 DEF TasksType, Locals
  <2>1. CASE Insert(t) \/ InsertSupersede(t) \/ DeactivateFoe(t)
    BY <1>0, <2>1 DEF Insert, InsertSupersede, DeactivateFoe, FlagsType
  <2>2. CASE CloseFoe(t)
    BY <1>0, <2>0, <2>2, ClosesType DEF CloseFoe, FlagsType
  <2>3. CASE SweepRow(t)
    <3>1. UNCHANGED <<quar, prot>>
      BY <2>3 DEF SweepRow
    <3>2. CASE UNCHANGED <<active, closed>>
      BY <1>a, <3>1, <3>2
    <3>3. CASE \E i \in loc[t].foes : active' = [active EXCEPT ![i] = FALSE] /\ Close(i, NoFact)
      BY <1>0, <3>1, <3>3, ClosesType DEF FlagsType
    <3> QED
      BY <2>3, <3>2, <3>3 DEF SweepRow
  <2>4. CASE Quarantine(t)
    BY <1>0, <2>4 DEF Quarantine, FlagsType
  <2> QED
    BY <1>1, <1>a, <2>1, <2>2, <2>3, <2>4
       DEF Step, rowVars, Search, Drop, PoisonCheck, InsertKnown, AttachMeta,
           Mark, MarkBack, ReadBelief, LowerBelief, PointFoe, Evolve,
           CheckProtected, Rewrite, PointOnly
<1>2. ASSUME NEW t \in Task, Request(t) PROVE FlagsType'
  <2>1. ASSUME NEW i, NEW w \in Present \cup {NoFact}, Invalidate(t, i, w) PROVE FlagsType'
    BY <1>0, <2>1, ClosesType DEF Invalidate, FlagsType, Present
  <2> QED
    BY <1>2, <1>a, <2>1 DEF Request, BeginRemember, BeginSweep, Begin, rowVars
<1>3. ASSUME NEW t \in Task, Fail(t) PROVE FlagsType'
  BY <1>3, <1>a DEF Fail, rowVars
<1>4. ASSUME NEW s, Erase(s) PROVE FlagsType'
  BY <1>0, <1>4 DEF Erase, FlagsType
<1>5. ASSUME NEW s, Deactivate(s) PROVE FlagsType'
  BY <1>0, <1>5 DEF Deactivate, FlagsType
<1>6. ASSUME NEW i, ReviseBelief(i) \/ Release(i) PROVE FlagsType'
  BY <1>0, <1>6 DEF ReviseBelief, Release, FlagsType
<1>7. CASE Protect
  BY <1>0, <1>7 DEF Protect, FlagsType
<1>8. CASE UNCHANGED vars
  BY <1>8, <1>a DEF vars, rowVars
<1> QED
  BY <1>1, <1>2, <1>3, <1>4, <1>5, <1>6, <1>7, <1>8 DEF Next

LEMMA PointsType ==
    ASSUME PointersType, NEW i, NEW j \in FactId, Point(i, j)
    PROVE  contra' \in [FactId -> SUBSET FactId]
  BY DEF Point, PointersType

LEMMA PointersStep == Typed /\ [Next]_vars => PointersType'
<1> SUFFICES ASSUME Typed, [Next]_vars PROVE PointersType'
  OBVIOUS
<1>0. FlagsType /\ PointersType /\ TasksType
  BY DEF Typed
<1>a. ASSUME UNCHANGED <<by, contra>> PROVE PointersType'
  BY <1>0, <1>a DEF PointersType
<1>1. ASSUME NEW t \in Task, Step(t) PROVE PointersType'
  <2>0. loc[t] \in Locals /\ Holds(pc[t], loc[t])
    BY <1>0 DEF TasksType
  <2>1. CASE Mark(t)
    <3>1. PICK c \in FactId : Point(loc[t].new, c)
      BY <2>0, <2>1 DEF Mark, Locals
    <3> QED
      BY <1>0, <2>1, <3>1, PointsType DEF Mark, PointersType
  <2>2. CASE MarkBack(t) \/ PointFoe(t) \/ PointOnly(t)
    <3>1. loc[t].new \in FactId /\ Point(loc[t].cur, loc[t].new)
      BY <2>0, <2>2 DEF MarkBack, PointFoe, PointOnly, Holds, Stored, Settling
    <3> QED
      BY <1>0, <2>2, <3>1, PointsType DEF MarkBack, PointFoe, PointOnly, PointersType
  <2>3. CASE CloseFoe(t)
    BY <1>0, <2>0, <2>3, ClosesType DEF CloseFoe, PointersType, Locals
  <2>4. CASE SweepRow(t)
    <3>1. contra' = contra
      BY <2>4 DEF SweepRow
    <3> QED
      BY <1>0, <1>a, <2>4, <3>1, ClosesType DEF SweepRow, PointersType
  <2> QED
    BY <1>1, <1>a, <2>1, <2>2, <2>3, <2>4
       DEF Step, rowVars, Search, Drop, PoisonCheck, InsertKnown, InsertSupersede, Insert,
           AttachMeta, ReadBelief, LowerBelief, DeactivateFoe, Evolve,
           CheckProtected, Rewrite, Quarantine
<1>2. ASSUME NEW t \in Task, Request(t) PROVE PointersType'
  <2>1. ASSUME NEW i, NEW w \in Present \cup {NoFact}, Invalidate(t, i, w)
        PROVE  PointersType'
    BY <1>0, <2>1, ClosesType DEF Invalidate, PointersType, Present
  <2> QED
    BY <1>2, <1>a, <2>1 DEF Request, BeginRemember, BeginSweep, Begin, rowVars
<1>3. ASSUME NEW t \in Task, Fail(t) PROVE PointersType'
  BY <1>3, <1>a DEF Fail, rowVars
<1>4. ASSUME NEW s, Erase(s) PROVE PointersType'
  BY <1>0, <1>4 DEF Erase, PointersType
<1>5. ASSUME NEW s, Deactivate(s) PROVE PointersType'
  BY <1>5, <1>a DEF Deactivate
<1>6. ASSUME NEW i, ReviseBelief(i) \/ Release(i) PROVE PointersType'
  BY <1>6, <1>a DEF ReviseBelief, Release
<1>7. CASE Protect \/ UNCHANGED vars
  BY <1>7, <1>a DEF Protect, vars, rowVars
<1> QED
  BY <1>1, <1>2, <1>3, <1>4, <1>5, <1>6, <1>7 DEF Next

LEMMA ScoresStep == Typed /\ [Next]_vars => ScoresType'
<1> SUFFICES ASSUME Typed, [Next]_vars PROVE ScoresType'
  OBVIOUS
<1>0. ScoresType /\ TasksType
  BY DEF Typed
<1>a. ASSUME UNCHANGED <<belief, trust>> PROVE ScoresType'
  BY <1>0, <1>a DEF ScoresType
<1>1. ASSUME NEW t \in Task, Step(t) PROVE ScoresType'
  <2>1. CASE AttachMeta(t)
    <3>1. loc[t].trust \in Trust
      BY <1>0, <2>1 DEF AttachMeta, TasksType, Holds
    <3> QED
      BY <1>0, <2>1, <3>1 DEF AttachMeta, ScoresType
  <2>2. CASE LowerBelief(t)
    BY <1>0, <2>2 DEF LowerBelief, SetBelief, ScoresType
  <2> QED
    BY <1>1, <1>a, <2>1, <2>2
       DEF Step, rowVars, Search, Drop, PoisonCheck, InsertKnown, InsertSupersede, Insert,
           Mark, MarkBack, ReadBelief, DeactivateFoe, CloseFoe, PointFoe, Evolve,
           CheckProtected, Rewrite, Quarantine, SweepRow, PointOnly
<1>2. ASSUME NEW t \in Task, Request(t) PROVE ScoresType'
  BY <1>2, <1>a DEF Request, BeginRemember, BeginSweep, Begin, Invalidate, rowVars
<1>3. ASSUME NEW t \in Task, Fail(t) PROVE ScoresType'
  BY <1>3, <1>a DEF Fail, rowVars
<1>4. ASSUME NEW s, Erase(s) PROVE ScoresType'
  BY <1>0, <1>4, LifecycleAssumption DEF Erase, ScoresType, Belief
<1>5. ASSUME NEW s, Deactivate(s) PROVE ScoresType'
  BY <1>5, <1>a DEF Deactivate
<1>6. ASSUME NEW i, ReviseBelief(i) \/ Release(i) PROVE ScoresType'
  BY <1>0, <1>6 DEF ReviseBelief, SetBelief, Release, ScoresType
<1>7. CASE Protect \/ UNCHANGED vars
  BY <1>7, <1>a DEF Protect, vars, rowVars
<1> QED
  BY <1>1, <1>2, <1>3, <1>4, <1>5, <1>6, <1>7 DEF Next

LEMMA TasksStep == Typed /\ [Next]_vars => TasksType'
<1> SUFFICES ASSUME Typed, [Next]_vars PROVE TasksType'
  OBVIOUS
<1>0. TasksType /\ ScoresType
  BY DEF Typed
<1>p. Places = {"idle", "search", "poison", "insert", "write", "meta", "contra", "markBack",
                "believe", "believed", "deactivate", "close", "point", "check", "rewrite",
                "quarantine", "sweep", "pointOnly"}
  BY DEF Places, Storing, Stored, Settling
<1>a. ASSUME UNCHANGED taskVars PROVE TasksType'
  BY <1>0, <1>a DEF TasksType, taskVars
<1>1. ASSUME NEW t \in Task, Step(t) PROVE TasksType'
  <2>0. loc[t] \in Locals /\ Holds(pc[t], loc[t])
    BY <1>0 DEF TasksType
  <2>a. ASSUME NEW p, pc[t] = p PROVE Holds(p, loc[t])
    BY <2>0, <2>a
  <2>1. CASE Search(t)
    <3>1. PICK c \in SUBSET FactId, s \in SUBSET FactId :
             Local(t, [loc[t] EXCEPT !.cands = c, !.foes = s])
      BY <2>1 DEF Search, Hits, Active, Present
    <3>2. PICK k : k = [loc[t] EXCEPT !.cands = c, !.foes = s]
      OBVIOUS
    <3>3. k \in Locals /\ k.text = loc[t].text /\ k.trust = loc[t].trust
      <4>1. PICK l \in Locals : l = loc[t]
        BY <2>0
      <4>2. k = [l EXCEPT !.cands = c, !.foes = s]
        BY <3>2, <4>1
      <4>3. k \in Locals /\ k.text = l.text /\ k.trust = l.trust
        BY <4>2 DEF Locals
      <4> QED
        BY <4>1, <4>3
    <3>4. Holds("poison", k)
      BY <2>0, <2>1, <3>3 DEF Search, Holds, Storing, Stored, Settling
    <3>5. Go(t, "poison") /\ Local(t, k)
      BY <2>1, <3>1, <3>2 DEF Search
    <3> QED
      BY <1>0, <1>p, <3>3, <3>4, <3>5, TaskMoves
  <2>2. CASE Drop(t)
    BY <1>0, <2>2, TaskEnds DEF Drop
  <2>3. CASE PoisonCheck(t)
    <3>1. PICK b \in BOOLEAN : Local(t, [loc[t] EXCEPT !.flagged = b])
      BY <2>3 DEF PoisonCheck
    <3>2. /\ [loc[t] EXCEPT !.flagged = b] \in Locals
          /\ Holds("insert", [loc[t] EXCEPT !.flagged = b])
      BY <2>0, <2>3 DEF PoisonCheck, Locals, Holds, Storing, Stored, Settling
    <3> QED
      BY <1>0, <1>p, <2>3, <3>1, <3>2, TaskMoves DEF PoisonCheck
  <2>4. CASE InsertKnown(t) \/ Insert(t)
    <3>1. PICK i \in FactId : Local(t, [loc[t] EXCEPT !.new = i])
      BY <2>4 DEF InsertKnown, Insert, Active, Present
    <3>2. pc[t] \in {"insert", "write"} /\ Go(t, "meta")
      BY <2>4 DEF InsertKnown, Insert
    <3>3. /\ [loc[t] EXCEPT !.new = i] \in Locals
          /\ Holds("meta", [loc[t] EXCEPT !.new = i])
      BY <2>0, <3>2 DEF Locals, Holds, Storing, Stored, Settling
    <3> QED
      BY <1>0, <1>p, <3>1, <3>2, <3>3, TaskMoves
  <2>5. CASE InsertSupersede(t)
    <3>1. Holds("write", loc[t]) /\ Go(t, "write") /\ loc' = loc
      BY <2>0, <2>5 DEF InsertSupersede, Holds, Storing, Stored, Settling
    <3> QED
      BY <1>0, <1>p, <3>1, TaskGoes
  <2>6. CASE AttachMeta(t)
    <3>1. Holds("contra", loc[t]) /\ Go(t, "contra") /\ loc' = loc
      BY <2>0, <2>6 DEF AttachMeta, Holds, Storing, Stored, Settling
    <3> QED
      BY <1>0, <1>p, <3>1, TaskGoes
  <2>7. CASE Mark(t)
    <3>1. PICK c \in FactId : Local(t, [loc[t] EXCEPT !.foes = @ \ {c}, !.cur = c])
      BY <2>0, <2>7 DEF Mark, Locals
    <3>2. PICK k : k = [loc[t] EXCEPT !.foes = @ \ {c}, !.cur = c]
      OBVIOUS
    <3>3. k \in Locals /\ k.cur = c /\ k.new = loc[t].new
      BY <2>0, <3>2, Took
    <3>4. Holds("markBack", k)
      BY <2>0, <2>7, <3>3 DEF Mark, Holds, Storing, Stored, Settling
    <3>5. Go(t, "markBack") /\ Local(t, k)
      BY <2>7, <3>1, <3>2 DEF Mark
    <3> QED
      BY <1>0, <1>p, <3>3, <3>4, <3>5, TaskMoves
  <2>8. CASE MarkBack(t)
    <3>1. Holds("believe", loc[t]) /\ Go(t, "believe") /\ loc' = loc
      BY <2>0, <2>8 DEF MarkBack, Holds, Storing, Stored, Settling
    <3> QED
      BY <1>0, <1>p, <3>1, TaskGoes
  <2>9. CASE ReadBelief(t)
    <3>1. loc[t].cur \in FactId
      BY <2>0, <2>9 DEF ReadBelief, Holds, Settling
    <3>2. PICK b \in Belief : b = belief[loc[t].cur]
      BY <1>0, <3>1 DEF ScoresType
    <3>3. /\ [loc[t] EXCEPT !.read = b] \in Locals
          /\ Holds("believed", [loc[t] EXCEPT !.read = b])
      BY <2>0, <2>9 DEF ReadBelief, Locals, Holds, Storing, Stored, Settling
    <3> QED
      BY <1>0, <1>p, <2>9, <3>2, <3>3, TaskMoves DEF ReadBelief
  <2>10. CASE LowerBelief(t)
    <3>1. Holds("deactivate", loc[t]) /\ Go(t, "deactivate") /\ loc' = loc
      BY <2>0, <2>10 DEF LowerBelief, Holds, Storing, Stored, Settling
    <3> QED
      BY <1>0, <1>p, <3>1, TaskGoes
  <2>11. CASE DeactivateFoe(t)
    <3>1. Holds("close", loc[t]) /\ Go(t, "close") /\ loc' = loc
      BY <2>0, <2>11 DEF DeactivateFoe, Holds, Storing, Stored, Settling
    <3> QED
      BY <1>0, <1>p, <3>1, TaskGoes
  <2>12. CASE CloseFoe(t)
    <3>1. Holds("point", loc[t]) /\ Go(t, "point") /\ loc' = loc
      BY <2>0, <2>12 DEF CloseFoe, Holds, Storing, Stored, Settling
    <3> QED
      BY <1>0, <1>p, <3>1, TaskGoes
  <2>13. CASE PointFoe(t)
    <3>1. PICK k : k = [loc[t] EXCEPT !.cur = NoFact, !.read = Plain]
      OBVIOUS
    <3>2. k \in Locals /\ k.new = loc[t].new
      BY <2>0, <3>1, Ended
    <3>3. Holds("contra", k)
      BY <2>0, <2>13, <3>2 DEF PointFoe, Holds, Storing, Stored, Settling
    <3>4. Go(t, "contra") /\ Local(t, k)
      BY <2>13, <3>1 DEF PointFoe
    <3> QED
      BY <1>0, <1>p, <3>2, <3>3, <3>4, TaskMoves
  <2>14. CASE Evolve(t)
    <3>1. CASE Go(t, "quarantine") /\ loc' = loc
      <4>1. Holds("quarantine", loc[t])
        BY <2>0, <2>14 DEF Evolve, Holds, Storing, Stored, Settling
      <4> QED
        BY <1>0, <1>p, <3>1, <4>1, TaskGoes
    <3>2. CASE \E i \in Neighbours(t), y \in Text :
                  /\ Local(t, [loc[t] EXCEPT !.cands = Neighbours(t), !.cur = i, !.draft = y])
                  /\ Go(t, "check")
      <4>1. Neighbours(t) \subseteq FactId
        BY <2>0 DEF Neighbours, Active, Present, Locals
      <4>2. PICK i \in FactId, y \in Text :
               /\ Local(t, [loc[t] EXCEPT !.cands = Neighbours(t), !.cur = i, !.draft = y])
               /\ Go(t, "check")
        BY <3>2, <4>1
      <4>a. PICK c \in SUBSET FactId : c = Neighbours(t)
        BY <4>1
      <4>3. PICK k : k = [loc[t] EXCEPT !.cands = c, !.cur = i, !.draft = y]
        OBVIOUS
      <4>4. k \in Locals /\ k.cur = i /\ k.new = loc[t].new /\ k.draft = y
        <5>1. PICK l \in Locals : l = loc[t]
          BY <2>0
        <5>2. k = [l EXCEPT !.cands = c, !.cur = i, !.draft = y]
          BY <4>3, <5>1
        <5>3. k \in Locals /\ k.cur = i /\ k.new = l.new /\ k.draft = y
          BY <5>2 DEF Locals
        <5> QED
          BY <5>1, <5>3
      <4>5. Holds("check", k)
        BY <2>0, <2>14, <4>4 DEF Evolve, Holds, Storing, Stored, Settling
      <4> QED
        BY <1>0, <1>p, <4>2, <4>a, <4>3, <4>4, <4>5, TaskMoves
    <3> QED
      BY <2>14, <3>1, <3>2 DEF Evolve
  <2>b. ASSUME pc[t] \in {"check", "rewrite"}, EndRevision(t) PROVE TasksType'
    <3>1. PICK k : k = [loc[t] EXCEPT !.cur = NoFact, !.draft = NoText]
      OBVIOUS
    <3>2. k \in Locals /\ k.new = loc[t].new
      BY <2>0, <3>1, Ended
    <3>3. Holds("contra", k)
      BY <2>0, <2>b, <3>2 DEF Holds, Storing, Stored, Settling
    <3>4. Go(t, "contra") /\ Local(t, k)
      BY <2>b, <3>1 DEF EndRevision
    <3> QED
      BY <1>0, <1>p, <3>2, <3>3, <3>4, TaskMoves
  <2>15. CASE CheckProtected(t)
    <3>1. CASE EndRevision(t)
      BY <2>b, <2>15, <3>1 DEF CheckProtected
    <3>2. CASE Go(t, "rewrite") /\ loc' = loc
      <4>1. Holds("rewrite", loc[t])
        BY <2>0, <2>15 DEF CheckProtected, Holds, Storing, Stored, Settling
      <4> QED
        BY <1>0, <1>p, <3>2, <4>1, TaskGoes
    <3> QED
      BY <2>15, <3>1, <3>2 DEF CheckProtected
  <2>16. CASE Rewrite(t)
    BY <2>b, <2>16 DEF Rewrite
  <2>17. CASE Quarantine(t)
    BY <1>0, <2>17, TaskEnds DEF Quarantine
  <2>18. CASE SweepRow(t)
    <3>1. CASE Go(t, "idle") /\ loc' = loc
      <4>1. Holds("idle", loc[t])
        BY DEF Holds, Storing, Stored, Settling
      <4> QED
        BY <1>0, <1>p, <3>1, <4>1, TaskGoes
    <3>2. CASE pc' = pc /\ \E i \in loc[t].foes : Local(t, [loc[t] EXCEPT !.foes = @ \ {i}])
      <4>1. PICK i : Local(t, [loc[t] EXCEPT !.foes = @ \ {i}])
        BY <3>2
      <4>2. Go(t, "sweep")
        BY <1>0, <2>18, <3>2 DEF SweepRow, Go, TasksType
      <4>3. [loc[t] EXCEPT !.foes = @ \ {i}] \in Locals
        BY <2>0 DEF Locals
      <4>4. Holds("sweep", [loc[t] EXCEPT !.foes = @ \ {i}])
        BY DEF Holds, Storing, Stored, Settling
      <4> QED
        BY <1>0, <1>p, <4>1, <4>2, <4>3, <4>4, TaskMoves
    <3> QED
      BY <2>18, <3>1, <3>2 DEF SweepRow
  <2>19. CASE PointOnly(t)
    BY <1>0, <2>19, TaskEnds DEF PointOnly, Finish
  <2> QED
    BY <1>1, <2>1, <2>2, <2>3, <2>4, <2>5, <2>6, <2>7, <2>8, <2>9, <2>10, <2>11, <2>12, <2>13,
       <2>14, <2>15, <2>16, <2>17, <2>18, <2>19 DEF Step
<1>2. ASSUME NEW t \in Task, Request(t) PROVE TasksType'
  <2>1. ASSUME NEW x \in Text, NEW k \in Source, BeginRemember(t, x, k) PROVE TasksType'
    <3>1. /\ [NoLocals EXCEPT !.text = x, !.trust = k] \in Locals
          /\ Holds("search", [NoLocals EXCEPT !.text = x, !.trust = k])
      BY LifecycleAssumption
         DEF NoLocals, Locals, Belief, Holds, Storing, Stored, Settling
    <3> QED
      BY <1>0, <1>p, <2>1, <3>1, TaskMoves DEF BeginRemember, Begin
  <2>2. CASE BeginSweep(t)
    <3>1. PICK s \in SUBSET FactId : Begin(t, "sweep", [NoLocals EXCEPT !.foes = s])
      BY <2>2 DEF BeginSweep, Faded, Active, Present
    <3>2. /\ [NoLocals EXCEPT !.foes = s] \in Locals
          /\ Holds("sweep", [NoLocals EXCEPT !.foes = s])
      BY NoLocalsType DEF NoLocals, Locals, Holds, Storing, Stored, Settling
    <3> QED
      BY <1>0, <1>p, <3>1, <3>2, TaskMoves DEF Begin
  <2>3. ASSUME NEW i \in FactId, NEW w \in Present \cup {NoFact}, Invalidate(t, i, w)
        PROVE  TasksType'
    <3>1. CASE w = NoFact
      BY <1>a, <2>3, <3>1 DEF Invalidate, taskVars
    <3>2. CASE w # NoFact
      <4>1. w \in FactId
        BY <3>2 DEF Present
      <4>2. /\ [NoLocals EXCEPT !.cur = i, !.new = w] \in Locals
            /\ Holds("pointOnly", [NoLocals EXCEPT !.cur = i, !.new = w])
        BY <4>1, NoLocalsType DEF NoLocals, Locals, Holds, Storing, Stored, Settling
      <4> QED
        BY <1>0, <1>p, <2>3, <3>2, <4>2, TaskMoves DEF Invalidate
    <3> QED
      BY <3>1, <3>2
  <2> QED
    BY <1>2, <2>1, <2>2, <2>3 DEF Request
<1>3. ASSUME NEW t \in Task, Fail(t) PROVE TasksType'
  <2>0. loc[t] \in Locals /\ Holds(pc[t], loc[t]) /\ pc[t] \in Places
    BY <1>0 DEF TasksType
  <2>q. Go(t, AfterError(t))
    BY <1>3 DEF Fail
  <2>r. pc[t] = "contra" /\ loc[t].foes # {} => AfterError(t) = "believe"
    BY DEF AfterError
  <2>1. CASE AfterError(t) = "idle"
    <3>1. Local(t, NoLocals)
      BY <1>3, <2>r, <2>1 DEF Fail
    <3> QED
      BY <1>0, <2>1, <2>q, <3>1, TaskEnds DEF Finish
  <2>2. CASE pc[t] = "contra" /\ loc[t].foes # {}
    <3>1. AfterError(t) = "believe"
      BY <2>2, <2>r
    <3>2. PICK c \in FactId : Local(t, [loc[t] EXCEPT !.foes = @ \ {c}, !.cur = c])
      BY <1>3, <2>0, <2>2, <3>1 DEF Fail, Locals
    <3>3. PICK k : k = [loc[t] EXCEPT !.foes = @ \ {c}, !.cur = c]
      OBVIOUS
    <3>4. k \in Locals /\ k.cur = c /\ k.new = loc[t].new
      BY <2>0, <3>3, Took
    <3>5. Holds("believe", k)
      BY <2>0, <2>2, <3>4 DEF Holds, Storing, Stored, Settling
    <3> QED
      BY <1>0, <1>p, <2>q, <3>1, <3>2, <3>3, <3>4, <3>5, TaskMoves
  <2>3. CASE AfterError(t) \in {"contra", "quarantine"} /\ ~(pc[t] = "contra" /\ loc[t].foes # {})
    <3>1. PICK k : k = [loc[t] EXCEPT !.cur = NoFact, !.draft = NoText, !.read = Plain]
      OBVIOUS
    <3>2. Local(t, k)
      BY <1>3, <2>3, <3>1 DEF Fail
    <3>3. k \in Locals /\ k.new = loc[t].new
      BY <2>0, <3>1, Ended
    <3>4. loc[t].new \in FactId
      BY <1>p, <2>0, <2>3 DEF AfterError, Holds, Storing, Stored, Settling
    <3>5. Holds(AfterError(t), k)
      BY <2>3, <3>3, <3>4 DEF Holds, Storing, Stored, Settling
    <3> QED
      BY <1>0, <1>p, <2>3, <2>q, <3>2, <3>3, <3>5, TaskMoves
  <2>4. CASE AfterError(t) \notin {"idle", "contra", "quarantine"} /\ ~(pc[t] = "contra" /\ loc[t].foes # {})
    <3>1. loc' = loc
      BY <1>3, <2>4 DEF Fail
    <3>2. AfterError(t) \in Places /\ Holds(AfterError(t), loc[t])
      BY <1>p, <2>0, <2>4 DEF AfterError, Holds, Storing, Stored, Settling
    <3> QED
      BY <1>0, <2>q, <3>1, <3>2, TaskGoes
  <2> QED
    BY <2>1, <2>2, <2>3, <2>4
<1>4. CASE \/ Protect
           \/ \E i \in FactId : ReviseBelief(i) \/ Release(i) \/ Deactivate({i})
           \/ Deactivate(FactId)
           \/ \E x \in Text \ Derived : Deactivate({i \in FactId : text[i] = x})
           \/ \E x \in Text : Erase({i \in FactId : text[i] = x})
           \/ Erase(Present)
  BY <1>4, <1>a DEF Protect, ReviseBelief, Release, Deactivate, Erase, OneStatement
<1>5. CASE UNCHANGED vars
  BY <1>5, <1>a DEF vars
<1> QED
  BY <1>1, <1>2, <1>3, <1>4, <1>5 DEF Next

LEMMA CountsStep == Typed /\ [Next]_vars => CountsType'
<1> SUFFICES ASSUME Typed, [Next]_vars PROVE CountsType'
  OBVIOUS
<1>0. CountsType /\ TasksType /\ MaxRequests \in Nat /\ MaxFaults \in Nat
  BY LifecycleAssumption DEF Typed
<1>a. ASSUME UNCHANGED <<settled, requests, faults>> PROVE CountsType'
  BY <1>0, <1>a DEF CountsType
<1>b. ASSUME UNCHANGED <<settled, faults>>, requests < MaxRequests, requests' = requests + 1
      PROVE  CountsType'
  BY <1>0, <1>b DEF CountsType
<1>1. ASSUME NEW t \in Task, Step(t) PROVE CountsType'
  <2>1. CASE PointFoe(t)
    <3>1. loc[t].new \in FactId /\ loc[t].cur \in FactId
      BY <1>0, <2>1 DEF PointFoe, TasksType, Holds, Stored, Settling
    <3> QED
      BY <1>0, <2>1, <3>1 DEF PointFoe, CountsType
  <2> QED
    BY <1>1, <1>a, <2>1
       DEF Step, Search, Drop, PoisonCheck, InsertKnown, InsertSupersede, Insert, AttachMeta,
           Mark, MarkBack, ReadBelief, LowerBelief, DeactivateFoe, CloseFoe, Evolve,
           CheckProtected, Rewrite, Quarantine, SweepRow, PointOnly
<1>2. ASSUME NEW t \in Task, Request(t) PROVE CountsType'
  BY <1>2, <1>b DEF Request, BeginRemember, BeginSweep, Begin, Invalidate
<1>3. ASSUME NEW t \in Task, Fail(t) PROVE CountsType'
  <2>1. /\ faults < MaxFaults /\ faults' = faults + 1
        /\ settled' = settled /\ requests' = requests
    BY <1>3 DEF Fail
  <2> QED
    BY <1>0, <2>1 DEF CountsType
<1>4. CASE \/ Protect
           \/ \E i \in FactId : ReviseBelief(i) \/ Release(i) \/ Deactivate({i})
           \/ Deactivate(FactId)
           \/ \E x \in Text \ Derived : Deactivate({i \in FactId : text[i] = x})
           \/ \E x \in Text : Erase({i \in FactId : text[i] = x})
           \/ Erase(Present)
  BY <1>4, <1>b DEF Protect, ReviseBelief, Release, Deactivate, Erase, OneStatement
<1>5. CASE UNCHANGED vars
  BY <1>5, <1>a DEF vars
<1> QED
  BY <1>1, <1>2, <1>3, <1>4, <1>5 DEF Next

LEMMA TypedStep == Typed /\ [Next]_vars => Typed'
  BY RowsStep, FlagsStep, PointersStep, ScoresStep, TasksStep, CountsStep DEF Typed

LEMMA TypedInit == Init => Typed
<1> SUFFICES ASSUME Init PROVE Typed
  OBVIOUS
<1> USE LifecycleAssumption DEF Init
<1>1. RowsType /\ FlagsType /\ ScoresType
  BY DEF RowsType, FlagsType, ScoresType
<1>2. PointersType
  BY DEF PointersType
<1>3. TasksType
  BY NoLocalsType DEF TasksType, Places, Storing, Stored, Settling, Holds
<1>4. CountsType
  BY DEF CountsType
<1> QED
  BY <1>1, <1>2, <1>3, <1>4 DEF Typed

LEMMA Typing == Spec => []Typed
  BY TypedInit, TypedStep, PTL DEF Spec

(* Every fact row and every request on it is well typed.                    *)
THEOREM TypeCorrect == Spec => []TypeOK
<1>1. Typed => TypeOK
  BY DEF Typed, TypeOK, RowsType, FlagsType, PointersType, ScoresType, TasksType, CountsType,
         Places, Storing, Stored, Settling
<1> QED
  BY <1>1, Typing, PTL
-----------------------------------------------------------------------------
(* A row lives under its id until it is erased, and then for good; while it *)
(* lives it loses no contradiction, is not activated again and not reopened.*)
Endures ==
    \A i \in Known :
        /\ i \in Known'
        /\ i \in Present' =>
              /\ i \in Present /\ contra[i] \subseteq contra'[i]
              /\ active'[i] => active[i]
              /\ closed[i] => closed'[i]
              /\ by[i] # NoFact => by'[i] # NoFact

LEMMA RowsEndure ==
    ASSUME text' = text, erased' = erased,
           \A i \in Present : /\ contra[i] \subseteq contra'[i]
                              /\ active'[i] => active[i]
                              /\ closed[i] => closed'[i]
                              /\ by[i] # NoFact => by'[i] # NoFact
    PROVE  Endures /\ Present' = Present
  BY DEF Endures, Known, Present

LEMMA PointEndures ==
    ASSUME PointersType, NEW i, NEW j, Point(i, j),
           UNCHANGED <<text, erased, active, closed, by>>
    PROVE  Endures /\ Present' = Present /\ (i \in Present => j \in contra'[i])
<1>1. \A n \in Present : contra[n] \subseteq contra'[n]
  BY DEF Point, PointersType, Present
<1>2. i \in Present => j \in contra'[i]
  BY DEF Point, PointersType, Present
<1>3. Endures /\ Present' = Present
  BY <1>1, RowsEndure
<1> QED
  BY <1>2, <1>3

LEMMA CloseEndures ==
    ASSUME FlagsType, PointersType, NEW i, NEW j \in FactId \cup {NoFact}, Close(i, j),
           UNCHANGED <<text, erased, contra>>, \A n \in Present : active'[n] => active[n]
    PROVE  /\ Endures /\ Present' = Present
           /\ i \in Present => closed'[i] /\ (j # NoFact => by'[i] = j)
<1>1. \A n \in Present : closed[n] => closed'[n]
  BY DEF Close, FlagsType, Present
<1>2. \A n \in Present : by[n] # NoFact => by'[n] # NoFact
  BY DEF Close, PointersType, Present
<1>3. Endures /\ Present' = Present
  BY <1>1, <1>2, RowsEndure
<1>4. i \in Present => closed'[i] /\ (j # NoFact => by'[i] = j)
  BY DEF Close, FlagsType, PointersType, Present
<1> QED
  BY <1>3, <1>4

LEMMA InsertEndures ==
    ASSUME Typed, NEW t \in Task, Insert(t)
    PROVE  /\ Endures
           /\ \E i \in Present' : Local(t, [loc[t] EXCEPT !.new = i])
<1>1. PICK i \in FactId \ (Present \cup erased) :
         /\ text' = [text EXCEPT ![i] = loc[t].text]
         /\ active' = [active EXCEPT ![i] = TRUE]
         /\ Local(t, [loc[t] EXCEPT !.new = i])
  BY DEF Insert
<1>2. loc[t].text \in Text
  BY DEF Insert, Typed, TasksType, Holds, Storing
<1>3. UNCHANGED <<contra, closed, by, erased>>
  BY DEF Insert
<1>4. i \in Present'
  BY <1>1, <1>2, LifecycleAssumption DEF Typed, RowsType, Present
<1>5. \A n \in FactId \ {i} : text'[n] = text[n] /\ active'[n] = active[n]
  BY <1>1 DEF Typed, RowsType, FlagsType
<1>6. Endures
  BY <1>1, <1>3, <1>5 DEF Endures, Known, Present, Typed, RowsType
<1> QED
  BY <1>1, <1>4, <1>6

LEMMA RewriteEndures ==
    ASSUME Typed, NEW t \in Task, Rewrite(t)
    PROVE  Endures
<1>1. loc[t].draft \in Text
  BY DEF Rewrite, Typed, TasksType, Holds
<1>2. Present' = Present
  BY <1>1, LifecycleAssumption DEF Rewrite, Typed, RowsType, Present
<1> QED
  BY <1>2 DEF Rewrite, Endures, Known

LEMMA EraseEndures ==
    ASSUME FlagsType, PointersType, NEW s, Erase(s)
    PROVE  Endures
<1>1. Present' = Present \ s /\ erased' = erased \cup s
  BY DEF Erase, Present
<1>2. \A i \in Present \ s : /\ contra'[i] = contra[i] /\ by'[i] = by[i]
                             /\ active'[i] => active[i]
                             /\ closed[i] => closed'[i]
  BY DEF Erase, Present
<1> QED
  BY <1>1, <1>2 DEF Endures, Known

LEMMA EnduresStep == Typed /\ [Next]_vars => Endures
<1> SUFFICES ASSUME Typed, [Next]_vars PROVE Endures
  OBVIOUS
<1>0. FlagsType /\ PointersType /\ TasksType
  BY DEF Typed
<1>a. ASSUME UNCHANGED <<text, erased, contra, closed, by>>,
             \A i \in Present : active'[i] => active[i]
      PROVE  Endures
  BY <1>a, RowsEndure
<1>b. ASSUME UNCHANGED <<text, erased, contra, closed, by, active>> PROVE Endures
  BY <1>a, <1>b
<1>1. ASSUME NEW t \in Task, Step(t) PROVE Endures
  <2>1. CASE Insert(t)
    BY <2>1, InsertEndures
  <2>2. CASE InsertSupersede(t) \/ DeactivateFoe(t)
    <3>1. \A i \in Present : active'[i] => active[i]
      BY <1>0, <2>2 DEF InsertSupersede, DeactivateFoe, FlagsType, Present
    <3> QED
      BY <1>a, <2>2, <3>1 DEF InsertSupersede, DeactivateFoe
  <2>3. CASE Mark(t)
    <3>1. PICK i, j : Point(i, j)
      BY <2>3 DEF Mark
    <3> QED
      BY <1>0, <2>3, <3>1, PointEndures DEF Mark
  <2>4. CASE MarkBack(t) \/ PointFoe(t) \/ PointOnly(t)
    BY <1>0, <2>4, PointEndures DEF MarkBack, PointFoe, PointOnly
  <2>5. CASE CloseFoe(t)
    <3>1. loc[t].new \in FactId \cup {NoFact}
      BY <1>0 DEF TasksType, Locals
    <3> QED
      BY <1>0, <2>5, <3>1, CloseEndures DEF CloseFoe
  <2>6. CASE SweepRow(t)
    <3>1. UNCHANGED <<text, erased, contra>>
      BY <2>6 DEF SweepRow
    <3>2. CASE UNCHANGED <<active, closed, by>>
      BY <1>b, <3>1, <3>2
    <3>3. CASE \E i \in loc[t].foes : active' = [active EXCEPT ![i] = FALSE] /\ Close(i, NoFact)
      <4>1. \A n \in Present : active'[n] => active[n]
        BY <1>0, <3>3 DEF FlagsType, Present
      <4> QED
        BY <1>0, <3>1, <3>3, <4>1, CloseEndures
    <3> QED
      BY <2>6, <3>2, <3>3 DEF SweepRow
  <2>7. CASE Rewrite(t)
    BY <2>7, RewriteEndures
  <2> QED
    BY <1>1, <1>b, <2>1, <2>2, <2>3, <2>4, <2>5, <2>6, <2>7
       DEF Step, rowVars, Search, Drop, PoisonCheck, InsertKnown, AttachMeta, ReadBelief,
           LowerBelief, Evolve, CheckProtected, Quarantine
<1>2. ASSUME NEW t \in Task, Request(t) PROVE Endures
  <2>1. ASSUME NEW i, NEW w \in Present \cup {NoFact}, Invalidate(t, i, w) PROVE Endures
    BY <1>0, <2>1, CloseEndures DEF Invalidate, Present
  <2> QED
    BY <1>2, <1>b, <2>1 DEF Request, BeginRemember, BeginSweep, Begin, rowVars
<1>3. ASSUME NEW t \in Task, Fail(t) PROVE Endures
  BY <1>3, <1>b DEF Fail, rowVars
<1>4. ASSUME NEW s, Erase(s) PROVE Endures
  BY <1>0, <1>4, EraseEndures
<1>5. ASSUME NEW s, Deactivate(s) PROVE Endures
  BY <1>5, <1>a DEF Deactivate, Present
<1>6. ASSUME NEW i, ReviseBelief(i) \/ Release(i) PROVE Endures
  BY <1>6, <1>b DEF ReviseBelief, Release
<1>7. CASE Protect \/ UNCHANGED vars
  BY <1>7, <1>b DEF Protect, vars, rowVars
<1> QED
  BY <1>1, <1>2, <1>3, <1>4, <1>5, <1>6, <1>7 DEF Next
-----------------------------------------------------------------------------
(* Whatever runs, what was done to rows stays done.                         *)
LEMMA StaysDone ==
    ASSUME Endures, NEW i \in Known \cup {NoFact}, NEW j
    PROVE  /\ i \in (Known \cup {NoFact})'
           /\ Linked(i, j) => Linked(i, j)'
           /\ Retired(i) => Retired(i)'
           /\ Shut(i) => Shut(i)'
<1>1. NoFact \notin Present'
  BY LifecycleAssumption DEF Present
<1> QED
  BY <1>1 DEF Endures, Linked, Retired, Shut

LEMMA StaysSettled == ASSUME Endures, NEW p, Settled(p) PROVE Settled(p)'
<1>1. p[1] \in Known' /\ p[2] \in Known'
  BY DEF Endures, Settled
<1>2. Linked(p[1], p[2])'
  BY StaysDone DEF Settled
<1>3. Linked(p[2], p[1])' /\ Retired(p[2])' /\ Shut(p[2])'
  BY StaysDone DEF Settled
<1> QED
  BY <1>1, <1>2, <1>3 DEF Settled

Fine(p, l) == OnRows(l) /\ Underway(p, l)

LEMMA StaysFine == ASSUME Endures, NEW p, NEW l, Fine(p, l) PROVE Fine(p, l)'
<1>1. OnRows(l)'
  BY DEF Fine, OnRows, Endures
<1>2. l.new \in Known \cup {NoFact} /\ l.cur \in Known \cup {NoFact}
  BY DEF Fine, OnRows
<1>3. p \in Settling => Linked(l.new, l.cur)'
  BY <1>2, StaysDone DEF Fine, Underway
<1>4. p \in Settling \ {"markBack"} => Linked(l.cur, l.new)'
  BY <1>2, StaysDone DEF Fine, Underway
<1>5. p \in {"close", "point"} => Retired(l.cur)'
  BY <1>2, StaysDone DEF Fine, Underway
<1>6. p = "point" => Shut(l.cur)'
  BY <1>2, StaysDone DEF Fine, Underway
<1> QED
  BY <1>1, <1>3, <1>4, <1>5, <1>6 DEF Fine, Underway

Requests == \A u \in Task : Fine(pc[u], loc[u])

LEMMA FineMoves ==
    ASSUME TasksType, Endures, Requests, NEW t \in Task, NEW q, NEW k,
           Go(t, q), Local(t, k), Fine(q, k)'
    PROVE  Requests'
<1>1. /\ pc'[t] = q /\ loc'[t] = k
      /\ \A u \in Task \ {t} : pc'[u] = pc[u] /\ loc'[u] = loc[u]
  BY Moves DEF Go, Local
<1>2. ASSUME NEW u \in Task PROVE \E p, l : pc'[u] = p /\ loc'[u] = l /\ Fine(p, l)'
  <2>1. CASE u = t
    BY <1>1, <2>1
  <2>2. CASE u # t
    BY <1>1, <2>2, StaysFine DEF Requests
  <2> QED
    BY <2>1, <2>2
<1>3. ASSUME NEW u \in Task PROVE Fine(pc[u], loc[u])'
  <2>1. PICK p, l : pc'[u] = p /\ loc'[u] = l /\ Fine(p, l)'
    BY <1>2
  <2> QED
    BY <2>1 DEF Fine, OnRows, Underway, Linked, Retired, Shut
<1> QED
  BY <1>3 DEF Requests

LEMMA FineGoes ==
    ASSUME TasksType, Endures, Requests, NEW t \in Task, NEW q, NEW k,
           Go(t, q), loc' = loc, k = loc[t], Fine(q, k)'
    PROVE  Requests'
<1>1. Local(t, k)
  BY DEF Local, TasksType
<1> QED
  BY <1>1, FineMoves

LEMMA FineEnds ==
    ASSUME TasksType, Endures, Requests, NEW t \in Task, Finish(t) PROVE Requests'
<1>1. Fine("idle", NoLocals)
  BY DEF Fine, OnRows, Underway, NoLocals, Settling
<1> QED
  BY <1>1, StaysFine, FineMoves DEF Finish

LEMMA FineStays ==
    ASSUME Endures, Requests, UNCHANGED taskVars PROVE Requests'
<1>1. ASSUME NEW u \in Task PROVE \E p, l : pc'[u] = p /\ loc'[u] = l /\ Fine(p, l)'
  BY StaysFine DEF Requests, taskVars
<1>2. ASSUME NEW u \in Task PROVE Fine(pc[u], loc[u])'
  <2>1. PICK p, l : pc'[u] = p /\ loc'[u] = l /\ Fine(p, l)'
    BY <1>1
  <2> QED
    BY <2>1 DEF Fine, OnRows, Underway, Linked, Retired, Shut
<1> QED
  BY <1>2 DEF Requests

(* Points before which nothing of a contradiction needs to be done.         *)
LEMMA FineOutside ==
    ASSUME NEW q, q \notin Settling, NEW k, OnRows(k) PROVE Fine(q, k)
  BY DEF Fine, Underway, Settling

LEMMA OutsideMoves ==
    ASSUME TasksType, Endures, Requests, NEW t \in Task, NEW q, q \notin Settling, NEW k,
           Go(t, q), Local(t, k), OnRows(k)
    PROVE  Requests'
  BY FineOutside, StaysFine, FineMoves

LEMMA RequestsStep == Typed /\ Requests /\ [Next]_vars /\ faults' = faults => Requests'
<1> SUFFICES ASSUME Typed, Requests, [Next]_vars, faults' = faults PROVE Requests'
  OBVIOUS
<1>0. TasksType /\ FlagsType /\ PointersType /\ Endures
  BY EnduresStep DEF Typed
<1>p. Settling = {"markBack", "believe", "believed", "deactivate", "close", "point"}
  BY DEF Settling
<1>r. Active \subseteq Known /\ Present \subseteq Known
  BY DEF Active, Known
<1>1. ASSUME NEW t \in Task, Step(t) PROVE Requests'
  <2>0. loc[t] \in Locals /\ Fine(pc[t], loc[t]) /\ Holds(pc[t], loc[t])
    BY <1>0 DEF TasksType, Requests
  <2>1. CASE Search(t)
    <3>1. PICK c, s : /\ c \subseteq Active /\ s \subseteq Active
                      /\ Local(t, [loc[t] EXCEPT !.cands = c, !.foes = s])
      BY <2>1 DEF Search, Hits
    <3>2. PICK l \in Locals : l = loc[t]
      BY <2>0
    <3>3. PICK k : k = [l EXCEPT !.cands = c, !.foes = s]
      OBVIOUS
    <3>4. k.cands = c /\ k.foes = s /\ k.new = l.new /\ k.cur = l.cur
      BY <3>3 DEF Locals
    <3>5. OnRows(k)
      BY <1>r, <2>0, <3>1, <3>2, <3>4 DEF Fine, OnRows
    <3>6. Go(t, "poison") /\ Local(t, k)
      BY <2>1, <3>1, <3>2, <3>3 DEF Search
    <3> QED
      BY <1>0, <1>p, <3>5, <3>6, OutsideMoves
  <2>2. CASE Drop(t)
    BY <1>0, <2>2, FineEnds DEF Drop
  <2>3. CASE PoisonCheck(t)
    <3>1. PICK b : Local(t, [loc[t] EXCEPT !.flagged = b]) /\ Go(t, "insert")
      BY <2>3 DEF PoisonCheck
    <3>2. OnRows([loc[t] EXCEPT !.flagged = b])
      BY <2>0 DEF Locals, Fine, OnRows
    <3> QED
      BY <1>0, <1>p, <3>1, <3>2, OutsideMoves
  <2>4. CASE InsertKnown(t)
    <3>1. PICK i \in Active : Local(t, [loc[t] EXCEPT !.new = i]) /\ Go(t, "meta")
      BY <2>4 DEF InsertKnown
    <3>2. OnRows([loc[t] EXCEPT !.new = i])
      BY <1>r, <2>0 DEF Locals, Fine, OnRows
    <3> QED
      BY <1>0, <1>p, <3>1, <3>2, OutsideMoves
  <2>5. CASE InsertSupersede(t)
    <3>1. PICK k : k = loc[t]
      OBVIOUS
    <3>2. Go(t, "write") /\ loc' = loc /\ Fine("write", k)
      BY <1>p, <2>0, <2>5, <3>1, FineOutside DEF InsertSupersede, Fine
    <3> QED
      BY <1>0, <3>1, <3>2, StaysFine, FineGoes
  <2>6. CASE Insert(t)
    <3>1. PICK i \in Present' : Local(t, [loc[t] EXCEPT !.new = i])
      BY <2>6, InsertEndures
    <3>2. PICK k : k = [loc[t] EXCEPT !.new = i]
      OBVIOUS
    <3>3. k.cands = loc[t].cands /\ k.foes = loc[t].foes /\ k.new = i /\ k.cur = loc[t].cur
      BY <2>0, <3>2 DEF Locals
    <3>4. k.cands \cup k.foes \cup {k.new, k.cur} \subseteq (Known \cup {NoFact})'
      BY <1>0, <2>0, <3>1, <3>3 DEF Fine, OnRows, Endures, Known
    <3>5. Fine("meta", k)'
      BY <1>p, <3>4 DEF Fine, OnRows, Underway
    <3>6. Go(t, "meta") /\ Local(t, k)
      BY <2>6, <3>1, <3>2 DEF Insert
    <3> QED
      BY <1>0, <3>5, <3>6, FineMoves
  <2>7. CASE AttachMeta(t)
    <3>1. PICK k : k = loc[t]
      OBVIOUS
    <3>2. Go(t, "contra") /\ loc' = loc /\ Fine("contra", k)
      BY <1>p, <2>0, <2>7, <3>1, FineOutside DEF AttachMeta, Fine
    <3> QED
      BY <1>0, <3>1, <3>2, StaysFine, FineGoes
  <2>8. CASE Mark(t)
    <3>1. PICK c \in loc[t].foes : /\ Local(t, [loc[t] EXCEPT !.foes = @ \ {c}, !.cur = c])
                                   /\ Point(loc[t].new, c)
      BY <2>8 DEF Mark
    <3>2. PICK k : k = [loc[t] EXCEPT !.foes = @ \ {c}, !.cur = c]
      OBVIOUS
    <3>3. c \in FactId
      BY <2>0 DEF Locals
    <3>4. /\ k.cands = loc[t].cands /\ k.foes = loc[t].foes \ {c} /\ k.cur = c
          /\ k.new = loc[t].new
      BY <2>0, <3>2, <3>3, Took
    <3>5. OnRows(k)
      BY <2>0, <3>4 DEF Fine, OnRows
    <3>6. OnRows(k)'
      BY <1>0, <3>5 DEF OnRows, Endures
    <3>7. Linked(k.new, k.cur)'
      <4>1. Present' = Present /\ (loc[t].new \in Present => c \in contra'[loc[t].new])
        BY <1>0, <2>8, <3>1, PointEndures DEF Mark
      <4> QED
        BY <3>4, <4>1 DEF Linked
    <3>8. Fine("markBack", k)'
      BY <3>6, <3>7 DEF Fine, Underway
    <3>9. Go(t, "markBack") /\ Local(t, k)
      BY <2>8, <3>1, <3>2 DEF Mark
    <3> QED
      BY <1>0, <3>8, <3>9, FineMoves
  <2>9. CASE MarkBack(t)
    <3>1. PICK k : k = loc[t]
      OBVIOUS
    <3>2. /\ Go(t, "believe") /\ loc' = loc /\ pc[t] = "markBack"
          /\ Point(k.cur, k.new)
      BY <2>9, <3>1 DEF MarkBack
    <3>3. Fine("markBack", k)'
      BY <1>0, <2>0, <3>1, <3>2, StaysFine
    <3>4. Present' = Present /\ (k.cur \in Present => k.new \in contra'[k.cur])
      BY <1>0, <2>9, <3>2, PointEndures DEF MarkBack
    <3>5. Fine("believe", k)'
      BY <1>p, <3>3, <3>4 DEF Fine, Underway, Linked
    <3> QED
      BY <1>0, <3>1, <3>2, <3>5, FineGoes
  <2>10. CASE ReadBelief(t)
    <3>1. PICK b : b = belief[loc[t].cur]
      OBVIOUS
    <3>2. PICK k : k = [loc[t] EXCEPT !.read = b]
      OBVIOUS
    <3>3. /\ k.cands = loc[t].cands /\ k.foes = loc[t].foes /\ k.new = loc[t].new
          /\ k.cur = loc[t].cur
      BY <2>0, <3>2 DEF Locals
    <3>4. Go(t, "believed") /\ Local(t, k) /\ pc[t] = "believe"
      BY <2>10, <3>1, <3>2 DEF ReadBelief
    <3>5. Fine("believed", k)
      BY <1>p, <2>0, <3>3, <3>4 DEF Fine, OnRows, Underway
    <3> QED
      BY <1>0, <3>4, <3>5, StaysFine, FineMoves
  <2>11. CASE LowerBelief(t)
    <3>1. PICK k : k = loc[t]
      OBVIOUS
    <3>2. Go(t, "deactivate") /\ loc' = loc /\ pc[t] = "believed"
      BY <2>11 DEF LowerBelief
    <3>3. Fine("deactivate", k)
      BY <1>p, <2>0, <3>1, <3>2 DEF Fine, Underway
    <3> QED
      BY <1>0, <3>1, <3>2, <3>3, StaysFine, FineGoes
  <2>12. CASE DeactivateFoe(t)
    <3>1. PICK k : k = loc[t]
      OBVIOUS
    <3>2. /\ Go(t, "close") /\ loc' = loc /\ pc[t] = "deactivate"
          /\ active' = [active EXCEPT ![k.cur] = FALSE] /\ text' = text
      BY <2>12, <3>1 DEF DeactivateFoe
    <3>3. Fine("deactivate", k)'
      BY <1>0, <2>0, <3>1, <3>2, StaysFine
    <3>4. Retired(k.cur)'
      BY <1>0, <3>2 DEF Retired, FlagsType, Present
    <3>5. Fine("close", k)'
      BY <1>p, <3>3, <3>4 DEF Fine, Underway
    <3> QED
      BY <1>0, <3>1, <3>2, <3>5, FineGoes
  <2>13. CASE CloseFoe(t)
    <3>1. PICK k : k = loc[t]
      OBVIOUS
    <3>2. /\ Go(t, "point") /\ loc' = loc /\ pc[t] = "close"
          /\ Close(k.cur, k.new)
      BY <2>13, <3>1 DEF CloseFoe
    <3>3. Fine("close", k)'
      BY <1>0, <2>0, <3>1, <3>2, StaysFine
    <3>4. k.new \in FactId /\ k.new # NoFact
      BY <2>0, <3>1, <3>2, LifecycleAssumption DEF Holds, Stored, Settling
    <3>5. /\ Present' = Present
          /\ k.cur \in Present => closed'[k.cur] /\ by'[k.cur] = k.new
      BY <1>0, <2>13, <3>2, <3>4, CloseEndures DEF CloseFoe
    <3>6. Shut(k.cur)'
      BY <3>4, <3>5 DEF Shut
    <3>7. Fine("point", k)'
      BY <1>p, <3>3, <3>6 DEF Fine, Underway
    <3> QED
      BY <1>0, <3>1, <3>2, <3>7, FineGoes
  <2>a. ASSUME NEW q, q \notin Settling, NEW k, Go(t, q), Local(t, k),
               k \in {[loc[t] EXCEPT !.cur = NoFact, !.draft = NoText],
                      [loc[t] EXCEPT !.cur = NoFact, !.read = Plain]}
        PROVE  Requests'
    <3>1. /\ k.cands = loc[t].cands /\ k.foes = loc[t].foes /\ k.cur = NoFact
          /\ k.new = loc[t].new
      BY <2>0, <2>a, Ended
    <3>2. OnRows(k)
      BY <2>0, <3>1 DEF Fine, OnRows
    <3> QED
      BY <1>0, <2>a, <3>2, OutsideMoves
  <2>14. CASE PointFoe(t)
    BY <1>p, <2>a, <2>14 DEF PointFoe
  <2>15. CASE Evolve(t)
    <3>1. CASE Go(t, "quarantine") /\ loc' = loc
      <4>1. PICK k : k = loc[t]
        OBVIOUS
      <4>2. Fine("quarantine", k)
        BY <1>p, <2>0, <4>1, FineOutside DEF Fine
      <4> QED
        BY <1>0, <3>1, <4>1, <4>2, StaysFine, FineGoes
    <3>2. CASE \E i \in Neighbours(t), y \in Text :
                  /\ Local(t, [loc[t] EXCEPT !.cands = Neighbours(t), !.cur = i, !.draft = y])
                  /\ Go(t, "check")
      <4>1. PICK c : c = Neighbours(t)
        OBVIOUS
      <4>2. PICK i, y : /\ i \in c
                       /\ Local(t, [loc[t] EXCEPT !.cands = c, !.cur = i, !.draft = y])
                       /\ Go(t, "check")
        BY <3>2, <4>1
      <4>3. PICK l \in Locals : l = loc[t]
        BY <2>0
      <4>4. PICK k : k = [l EXCEPT !.cands = c, !.cur = i, !.draft = y]
        OBVIOUS
      <4>5. k.cands = c /\ k.foes = l.foes /\ k.cur = i /\ k.new = l.new
        BY <4>4 DEF Locals
      <4>6. c \subseteq Known \cup {NoFact}
        BY <1>r, <2>0, <4>1 DEF Neighbours, Fine, OnRows
      <4>7. OnRows(k)
        BY <2>0, <4>2, <4>3, <4>5, <4>6 DEF Fine, OnRows
      <4>8. Go(t, "check") /\ Local(t, k)
        BY <4>2, <4>3, <4>4
      <4> QED
        BY <1>0, <1>p, <4>7, <4>8, OutsideMoves
    <3> QED
      BY <2>15, <3>1, <3>2 DEF Evolve
  <2>16. CASE CheckProtected(t)
    <3>1. CASE EndRevision(t)
      BY <1>p, <2>a, <3>1 DEF EndRevision
    <3>2. CASE Go(t, "rewrite") /\ loc' = loc
      <4>1. PICK k : k = loc[t]
        OBVIOUS
      <4>2. Fine("rewrite", k)
        BY <1>p, <2>0, <4>1, FineOutside DEF Fine
      <4> QED
        BY <1>0, <3>2, <4>1, <4>2, StaysFine, FineGoes
    <3> QED
      BY <2>16, <3>1, <3>2 DEF CheckProtected
  <2>17. CASE Rewrite(t)
    BY <1>p, <2>a, <2>17 DEF Rewrite, EndRevision
  <2>18. CASE Quarantine(t)
    BY <1>0, <2>18, FineEnds DEF Quarantine
  <2>19. CASE SweepRow(t)
    <3>1. CASE Go(t, "idle") /\ loc' = loc
      <4>1. PICK k : k = loc[t]
        OBVIOUS
      <4>2. Fine("idle", k)
        BY <1>p, <2>0, <4>1, FineOutside DEF Fine
      <4> QED
        BY <1>0, <3>1, <4>1, <4>2, StaysFine, FineGoes
    <3>2. CASE pc' = pc /\ \E i : Local(t, [loc[t] EXCEPT !.foes = @ \ {i}])
      <4>1. PICK i : Local(t, [loc[t] EXCEPT !.foes = @ \ {i}])
        BY <3>2
      <4>2. Go(t, "sweep")
        BY <1>0, <2>19, <3>2 DEF SweepRow, Go, TasksType
      <4>3. OnRows([loc[t] EXCEPT !.foes = @ \ {i}])
        BY <2>0 DEF Locals, Fine, OnRows
      <4> QED
        BY <1>0, <1>p, <4>1, <4>2, <4>3, OutsideMoves
    <3> QED
      BY <2>19, <3>1, <3>2 DEF SweepRow
  <2>20. CASE PointOnly(t)
    BY <1>0, <2>20, FineEnds DEF PointOnly, Finish
  <2> QED
    BY <1>1, <2>1, <2>2, <2>3, <2>4, <2>5, <2>6, <2>7, <2>8, <2>9, <2>10, <2>11, <2>12, <2>13,
       <2>14, <2>15, <2>16, <2>17, <2>18, <2>19, <2>20 DEF Step
<1>2. ASSUME NEW t \in Task, Request(t) PROVE Requests'
  <2>1. ASSUME NEW x, NEW k, BeginRemember(t, x, k) PROVE Requests'
    <3>1. OnRows([NoLocals EXCEPT !.text = x, !.trust = k])
      BY DEF OnRows, NoLocals
    <3> QED
      BY <1>0, <1>p, <2>1, <3>1, OutsideMoves DEF BeginRemember, Begin
  <2>2. CASE BeginSweep(t)
    <3>1. PICK s \in SUBSET Active : Begin(t, "sweep", [NoLocals EXCEPT !.foes = s])
      BY <2>2 DEF BeginSweep, Faded
    <3>2. OnRows([NoLocals EXCEPT !.foes = s])
      BY <1>r DEF OnRows, NoLocals
    <3> QED
      BY <1>0, <1>p, <3>1, <3>2, OutsideMoves DEF Begin
  <2>3. ASSUME NEW i, NEW w \in Present \cup {NoFact}, Invalidate(t, i, w) PROVE Requests'
    <3>1. CASE w = NoFact
      BY <1>0, <2>3, <3>1, FineStays DEF Invalidate, taskVars
    <3>2. CASE w # NoFact
      <4>1. OnRows([NoLocals EXCEPT !.cur = i, !.new = w])
        BY <1>r, <2>3 DEF Invalidate, OnRows, NoLocals
      <4> QED
        BY <1>0, <1>p, <2>3, <3>2, <4>1, OutsideMoves DEF Invalidate
    <3> QED
      BY <3>1, <3>2
  <2> QED
    BY <1>2, <2>1, <2>2, <2>3 DEF Request
<1>3. ASSUME NEW t \in Task, Fail(t) PROVE FALSE
  <2>1. faults' = faults + 1
    BY <1>3 DEF Fail
  <2>2. faults \in Nat
    BY LifecycleAssumption DEF Typed, CountsType
  <2> QED
    BY <2>1, <2>2
<1>4. CASE \/ Protect
           \/ \E i \in FactId : ReviseBelief(i) \/ Release(i) \/ Deactivate({i})
           \/ Deactivate(FactId)
           \/ \E x \in Text \ Derived : Deactivate({i \in FactId : text[i] = x})
           \/ \E x \in Text : Erase({i \in FactId : text[i] = x})
           \/ Erase(Present)
  BY <1>0, <1>4, FineStays DEF Protect, ReviseBelief, Release, Deactivate, Erase, OneStatement
<1>5. CASE UNCHANGED vars
  BY <1>0, <1>5, FineStays DEF vars
<1> QED
  BY <1>1, <1>2, <1>3, <1>4, <1>5 DEF Next

(* A remember adds a contradiction when it has gone through it.             *)
LEMMA SettledStep ==
    ASSUME Typed, Requests, \A p \in settled : Settled(p), [Next]_vars
    PROVE  \A p \in settled' : Settled(p)'
<1>0. Endures /\ TasksType /\ PointersType
  BY EnduresStep DEF Typed
<1>1. \A p \in settled : Settled(p)'
  BY <1>0, StaysSettled
<1>2. ASSUME NEW t \in Task, PointFoe(t) PROVE \A p \in settled' : Settled(p)'
  <2>1. PICK k : k = loc[t]
    OBVIOUS
  <2>2. pc[t] = "point" /\ settled' = settled \cup {<<k.new, k.cur>>}
    BY <1>2, <2>1 DEF PointFoe
  <2>3. Fine("point", k)'
    BY <1>0, <2>1, <2>2, StaysFine DEF Requests
  <2>4. k.new \in FactId /\ k.cur \in FactId
    BY <1>0, <2>1, <2>2 DEF TasksType, Holds, Stored, Settling
  <2>5. Settled(<<k.new, k.cur>>)'
    BY <2>3, <2>4, LifecycleAssumption DEF Fine, OnRows, Underway, Settled, Settling
  <2> QED
    BY <1>1, <2>2, <2>5
<1>3. ASSUME NEW t \in Task, Step(t), ~PointFoe(t) PROVE settled' = settled
  BY <1>3 DEF Step, Search, Drop, PoisonCheck, InsertKnown, InsertSupersede, Insert, AttachMeta,
              Mark, MarkBack, ReadBelief, LowerBelief, DeactivateFoe, CloseFoe, Evolve,
              CheckProtected, Rewrite, Quarantine, SweepRow, PointOnly
<1>4. ASSUME NEW t \in Task, Request(t) \/ Fail(t) PROVE settled' = settled
  BY <1>4 DEF Request, BeginRemember, BeginSweep, Begin, Invalidate, Fail
<1>5. CASE \/ Protect
           \/ \E i \in FactId : ReviseBelief(i) \/ Release(i) \/ Deactivate({i})
           \/ Deactivate(FactId)
           \/ \E x \in Text \ Derived : Deactivate({i \in FactId : text[i] = x})
           \/ \E x \in Text : Erase({i \in FactId : text[i] = x})
           \/ Erase(Present)
  BY <1>1, <1>5 DEF Protect, ReviseBelief, Release, Deactivate, Erase, OneStatement
<1>6. CASE UNCHANGED vars
  BY <1>1, <1>6 DEF vars
<1> QED
  BY <1>1, <1>2, <1>3, <1>4, <1>5, <1>6 DEF Next

(* Errors are counted.                                                      *)
LEMMA NoFaultBefore == Typed /\ [Next]_vars /\ faults' = 0 => faults = 0
<1> SUFFICES ASSUME Typed, [Next]_vars, faults' = 0 PROVE faults = 0
  OBVIOUS
<1>1. ASSUME NEW t \in Task, Step(t) PROVE faults' = faults
  BY <1>1 DEF Step, Search, Drop, PoisonCheck, InsertKnown, InsertSupersede, Insert, AttachMeta,
              Mark, MarkBack, ReadBelief, LowerBelief, DeactivateFoe, CloseFoe, PointFoe, Evolve,
              CheckProtected, Rewrite, Quarantine, SweepRow, PointOnly
<1>2. ASSUME NEW t \in Task, Request(t) PROVE faults' = faults
  BY <1>2 DEF Request, BeginRemember, BeginSweep, Begin, Invalidate
<1>3. ASSUME NEW t \in Task, Fail(t) PROVE faults = 0
  <2>1. faults' = faults + 1
    BY <1>3 DEF Fail
  <2>2. faults \in Nat
    BY LifecycleAssumption DEF Typed, CountsType
  <2> QED
    BY <2>1, <2>2
<1>4. CASE \/ Protect
           \/ \E i \in FactId : ReviseBelief(i) \/ Release(i) \/ Deactivate({i})
           \/ Deactivate(FactId)
           \/ \E x \in Text \ Derived : Deactivate({i \in FactId : text[i] = x})
           \/ \E x \in Text : Erase({i \in FactId : text[i] = x})
           \/ Erase(Present)
  BY <1>4 DEF Protect, ReviseBelief, Release, Deactivate, Erase, OneStatement
<1>5. CASE UNCHANGED vars
  BY <1>5 DEF vars
<1> QED
  BY <1>1, <1>2, <1>3, <1>4, <1>5 DEF Next

LEMMA SettledInit == Init => SettledInv
<1> SUFFICES ASSUME Init PROVE SettledInv
  OBVIOUS
<1>1. OnRows(NoLocals) /\ Underway("idle", NoLocals)
  BY DEF OnRows, Underway, NoLocals, Settling
<1> QED
  BY <1>1 DEF Init, SettledInv

LEMMA SettledInvStep == Typed /\ SettledInv /\ [Next]_vars => SettledInv'
<1> SUFFICES ASSUME Typed, SettledInv, [Next]_vars, faults' = 0
             PROVE  Requests' /\ \A p \in settled' : Settled(p)'
  BY DEF SettledInv, Requests, Fine
<1>1. faults = 0
  BY NoFaultBefore
<1>2. Requests /\ \A p \in settled : Settled(p)
  BY <1>1 DEF SettledInv, Requests, Fine
<1> QED
  BY <1>1, <1>2, RequestsStep, SettledStep

(* A contradiction that a remember went through without an error stays      *)
(* recorded on both rows and the older one stays superseded, for any number *)
(* of requests at the same time and later.                                  *)
THEOREM ContradictionsStay == Spec => []ContradictionsSettled
<1>1. SettledInv => ContradictionsSettled
  BY DEF SettledInv, Settled, Linked, Retired, Shut, ContradictionsSettled
<1> QED
  BY <1>1, SettledInit, SettledInvStep, Typing, PTL DEF Spec
-----------------------------------------------------------------------------
(* The steps of a request by itself, with the history of LifecycleAlone.    *)
(* A step moves one task only, so a request that ran alone has taken every  *)
(* step since it began.                                                     *)
LEMMA OneMoves ==
    ASSUME Typed, NEW u \in Task, Step(u) \/ Request(u) \/ Fail(u), NEW t \in Task \ {u}
    PROVE  pc'[t] = pc[t] /\ loc'[t] = loc[t]
<1>0. pc \in [Task -> Places] /\ loc \in [Task -> Locals]
  BY DEF Typed, TasksType
<1>1. ASSUME NEW q, Go(u, q) PROVE pc'[t] = pc[t]
  BY <1>0, <1>1 DEF Go
<1>2. ASSUME NEW l, Local(u, l) PROVE loc'[t] = loc[t]
  BY <1>0, <1>2 DEF Local
<1>3. CASE Step(u)
  BY <1>1, <1>2, <1>3
     DEF Step, Search, Drop, PoisonCheck, InsertKnown, InsertSupersede, Insert, AttachMeta,
         Mark, MarkBack, ReadBelief, LowerBelief, DeactivateFoe, CloseFoe, PointFoe, Evolve,
         EndRevision, CheckProtected, Rewrite, Quarantine, SweepRow, PointOnly, Finish
<1>4. CASE Request(u)
  BY <1>1, <1>2, <1>4 DEF Request, BeginRemember, BeginSweep, Begin, Invalidate
<1>5. CASE Fail(u)
  BY <1>1, <1>2, <1>5 DEF Fail
<1> QED
  BY <1>3, <1>4, <1>5

LEMMA MoverSteps ==
    ASSUME Typed, Next, NEW t \in Task, pc'[t] # pc[t] \/ loc'[t] # loc[t]
    PROVE  Step(t) \/ Request(t) \/ Fail(t)
<1>1. CASE \E u \in Task : Step(u) \/ Request(u) \/ Fail(u)
  BY <1>1, OneMoves
<1>2. CASE UNCHANGED taskVars
  BY <1>2 DEF taskVars
<1>3. CASE \/ Protect
           \/ \E i \in FactId : ReviseBelief(i) \/ Release(i) \/ Deactivate({i})
           \/ Deactivate(FactId)
           \/ \E x \in Text \ Derived : Deactivate({i \in FactId : text[i] = x})
           \/ \E x \in Text : Erase({i \in FactId : text[i] = x})
           \/ Erase(Present)
  BY <1>2, <1>3 DEF Protect, ReviseBelief, Release, Deactivate, Erase, OneStatement
<1> QED
  BY <1>1, <1>3 DEF Next

LEMMA AloneMoves ==
    ASSUME Typed, AloneNext, NEW t \in Task, alone'[t],
           pc[t] # "idle", pc'[t] # "idle"
    PROVE  alone[t] /\ (Step(t) \/ Fail(t))
<1>1. alone[t] /\ <<pc'[t], loc'[t]>> # <<pc[t], loc[t]>>
  BY DEF AloneNext, Track
<1>2. Step(t) \/ Request(t) \/ Fail(t)
  BY <1>1, MoverSteps DEF AloneNext
<1> QED
  BY <1>1, <1>2 DEF Request, BeginRemember, BeginSweep, Begin, Invalidate

(* A request that ran alone works on rows that are still unprotected: it    *)
(* read that they are, and only Protect, which moves no task, protects.     *)
SparedAt(t) ==
    /\ pc[t] = "rewrite" => ~prot[loc[t].cur]
    /\ pc[t] = "sweep" => \A i \in loc[t].foes : ~prot[i]

Spared == \A t \in Task : alone[t] => SparedAt(t)

LEMMA SweepSpares ==
    ASSUME Typed, NEW t \in Task, BeginSweep(t), pc'[t] = "sweep"
    PROVE  SparedAt(t)'
<1>1. PICK s \in SUBSET Active : /\ \A i \in s : ~prot[i]
                                 /\ Local(t, [NoLocals EXCEPT !.foes = s]) /\ prot' = prot
  BY DEF BeginSweep, Begin, Faded, rowVars
<1>2. loc'[t] = [NoLocals EXCEPT !.foes = s]
  BY <1>1 DEF Local, Typed, TasksType
<1>3. loc'[t].foes = s
  BY <1>2 DEF NoLocals
<1> QED
  BY <1>1, <1>3 DEF SparedAt

LEMMA RowSpares ==
    ASSUME Typed, NEW t \in Task, SweepRow(t), SparedAt(t)
    PROVE  SparedAt(t)'
<1>0. pc[t] = "sweep" /\ prot' = prot /\ \A i \in loc[t].foes : ~prot[i]
  BY DEF SweepRow, SparedAt
<1>1. CASE Go(t, "idle")
  BY <1>1 DEF Go, Typed, TasksType, SparedAt
<1>2. CASE pc' = pc /\ \E i \in loc[t].foes : Local(t, [loc[t] EXCEPT !.foes = @ \ {i}])
  <2>1. PICK i \in loc[t].foes : Local(t, [loc[t] EXCEPT !.foes = @ \ {i}])
    BY <1>2
  <2>2. loc'[t] = [loc[t] EXCEPT !.foes = @ \ {i}]
    BY <2>1 DEF Local, Typed, TasksType
  <2>3. PICK l \in Locals : l = loc[t]
    BY DEF Typed, TasksType
  <2>4. loc'[t].foes \subseteq loc[t].foes
    BY <2>2, <2>3 DEF Locals
  <2> QED
    BY <1>0, <1>2, <2>4 DEF SparedAt
<1> QED
  BY <1>1, <1>2 DEF SweepRow

LEMMA StepSpares ==
    ASSUME Typed, NEW t \in Task, Step(t) \/ Fail(t), SparedAt(t)
    PROVE  SparedAt(t)'
<1>0. pc \in [Task -> Places]
  BY DEF Typed, TasksType
<1>1. CASE SweepRow(t)
  BY <1>1, RowSpares
<1>2. CASE CheckProtected(t)
  <2>1. CASE EndRevision(t)
    BY <1>0, <2>1 DEF EndRevision, Go, SparedAt
  <2>2. CASE ~prot[loc[t].cur] /\ Go(t, "rewrite") /\ loc' = loc
    <3>1. pc'[t] = "rewrite" /\ prot' = prot
      BY <1>0, <1>2, <2>2 DEF Go, CheckProtected, rowVars
    <3> QED
      BY <2>2, <3>1 DEF SparedAt
  <2> QED
    BY <1>2, <2>1, <2>2 DEF CheckProtected
<1>3. ASSUME NEW q, q \notin {"rewrite", "sweep"}, Go(t, q) PROVE SparedAt(t)'
  BY <1>0, <1>3 DEF Go, SparedAt
<1>4. CASE Fail(t)
  BY <1>3, <1>4 DEF Fail, AfterError
<1>5. CASE Step(t) /\ ~SweepRow(t) /\ ~CheckProtected(t)
  BY <1>3, <1>5
     DEF Step, Search, Drop, PoisonCheck, InsertKnown, InsertSupersede, Insert, AttachMeta,
         Mark, MarkBack, ReadBelief, LowerBelief, DeactivateFoe, CloseFoe, PointFoe, Evolve,
         EndRevision, Rewrite, Quarantine, PointOnly, Finish
<1> QED
  BY <1>1, <1>2, <1>4, <1>5

(* A request begins with a search, a sweep or an invalidation.              *)
LEMMA BeginsAt ==
    ASSUME Typed, Next, NEW t \in Task, pc[t] = "idle"
    PROVE  pc'[t] \in {"idle", "search", "sweep", "pointOnly"} /\ (pc'[t] = "sweep" => BeginSweep(t))
<1>0. pc \in [Task -> Places]
  BY DEF Typed, TasksType
<1>1. CASE pc'[t] = pc[t]
  BY <1>1
<1>2. CASE Step(t) \/ Fail(t)
  BY <1>2 DEF Step, Search, Drop, PoisonCheck, InsertKnown, InsertSupersede, Insert, AttachMeta,
         Mark, MarkBack, ReadBelief, LowerBelief, DeactivateFoe, CloseFoe, PointFoe, Evolve,
         CheckProtected, Rewrite, Quarantine, SweepRow, PointOnly, Fail
<1>3. CASE Request(t)
  BY <1>0, <1>3 DEF Request, BeginRemember, BeginSweep, Begin, Invalidate, Go
<1> QED
  BY <1>1, <1>2, <1>3, MoverSteps

LEMMA SparedStep == Typed /\ Spared /\ [AloneNext]_<<vars, alone, found>> => Spared'
<1> SUFFICES ASSUME Typed, Spared, [AloneNext]_<<vars, alone, found>>, NEW t \in Task, alone'[t]
             PROVE  SparedAt(t)'
  BY DEF Spared
<1>1. CASE UNCHANGED <<vars, alone, found>>
  BY <1>1 DEF Spared, SparedAt, vars, rowVars, taskVars
<1>2. CASE AloneNext /\ pc'[t] = "idle"
  BY <1>2 DEF SparedAt
<1>3. CASE AloneNext /\ pc[t] = "idle"
  <2>1. pc'[t] \in {"idle", "search", "sweep", "pointOnly"} /\ (pc'[t] = "sweep" => BeginSweep(t))
    BY <1>3, BeginsAt DEF AloneNext
  <2>2. CASE pc'[t] = "sweep"
    BY <2>1, <2>2, SweepSpares
  <2> QED
    BY <2>1, <2>2 DEF SparedAt
<1>4. CASE AloneNext /\ pc[t] # "idle" /\ pc'[t] # "idle"
  BY <1>4, AloneMoves, StepSpares DEF Spared
<1> QED
  BY <1>1, <1>2, <1>3, <1>4

LEMMA SpareStep ==
    ASSUME Typed, Spared, AloneNext, NEW t \in Task, pc[t] \in {"sweep", "rewrite"}, alone[t],
           loc'[t] # loc[t], NEW i \in FactId, prot[i]
    PROVE  text'[i] = text[i] /\ active'[i] = active[i]
<1>1. (pc[t] = "sweep" /\ SweepRow(t)) \/ (pc[t] = "rewrite" /\ Rewrite(t)) \/ Fail(t)
  BY MoverSteps
     DEF AloneNext, Step, Search, Drop, PoisonCheck, InsertKnown, InsertSupersede, Insert,
         AttachMeta, Mark, MarkBack, ReadBelief, LowerBelief, DeactivateFoe, CloseFoe, PointFoe,
         Evolve, CheckProtected, Rewrite, Quarantine, SweepRow, PointOnly, Request,
         BeginRemember, BeginSweep, Begin, Invalidate
<1>2. SparedAt(t)
  BY DEF Spared
<1>3. text \in [FactId -> Text \cup {NoText}] /\ active \in [FactId -> BOOLEAN]
  BY DEF Typed, RowsType, FlagsType
<1>4. CASE Fail(t)
  BY <1>4 DEF Fail, rowVars
<1>5. CASE pc[t] = "sweep" /\ SweepRow(t)
  BY <1>2, <1>3, <1>5 DEF SweepRow, SparedAt
<1>6. CASE pc[t] = "rewrite" /\ Rewrite(t)
  BY <1>2, <1>3, <1>6 DEF Rewrite, SparedAt
<1> QED
  BY <1>1, <1>4, <1>5, <1>6

LEMMA AloneTyping == AloneSpec => []Typed
<1>1. AloneInit => Typed
  BY TypedInit DEF AloneInit
<1>2. Typed /\ [AloneNext]_<<vars, alone, found>> => Typed'
  BY TypedStep DEF AloneNext, vars, rowVars, taskVars
<1> QED
  BY <1>1, <1>2, PTL DEF AloneSpec

(* A sweep, or a rewriting of neighbours, during which nothing else moves   *)
(* changes no protected row.                                                *)
THEOREM ProtectedAreSpared == AloneSpec => ProtectedSpared
<1>1. AloneInit => Spared
  BY DEF AloneInit, Init, Spared, SparedAt
<1>2. Typed /\ Spared /\ [AloneNext]_<<vars, alone, found>>
        => [\A t \in Task :
              pc[t] \in {"sweep", "rewrite"} /\ alone[t] /\ loc'[t] # loc[t]
                => \A i \in FactId : prot[i] => text'[i] = text[i] /\ active'[i] = active[i]]_<<vars, alone, found>>
  BY SpareStep
<1> QED
  BY <1>1, <1>2, SparedStep, AloneTyping, PTL DEF AloneSpec, ProtectedSpared
-----------------------------------------------------------------------------
(* What a remember that ran alone has done with the opposed facts that its  *)
(* search found: nothing before it has a row; then each is still to be      *)
(* handled, being handled, or settled.                                      *)
Treated(p, l, S, F) ==
    /\ p \in {"poison", "insert", "write", "meta"} => F \subseteq l.foes
    /\ p \in Stored => \A c \in F : \/ c \in l.foes
                                    \/ p \in Settling /\ c = l.cur
                                    \/ <<l.new, c>> \in S
    /\ p \in {"check", "rewrite", "quarantine"} => l.foes = {}

Handled == faults = 0 => \A t \in Task : alone[t] => Treated(pc[t], loc[t], settled, found[t])

LEMMA StepTreats ==
    ASSUME Typed, Track, NEW t \in Task, Step(t), pc[t] # "idle", pc'[t] # "idle",
           Treated(pc[t], loc[t], settled, found[t])
    PROVE  Treated(pc'[t], loc'[t], settled', found'[t])
<1>0. TasksType /\ pc \in [Task -> Places] /\ loc \in [Task -> Locals]
  BY DEF Typed, TasksType
<1>p. /\ Settling = {"markBack", "believe", "believed", "deactivate", "close", "point"}
      /\ Stored = Settling \cup {"meta", "contra", "check", "rewrite", "quarantine"}
  BY DEF Settling, Stored
<1>f. found'[t] = IF pc[t] = "search" THEN loc'[t].foes ELSE found[t]
  BY DEF Track
<1>l. PICK l \in Locals : l = loc[t]
  BY <1>0
<1>F. PICK F : F = found[t]
  OBVIOUS
<1>T. Treated(pc[t], l, settled, F)
  BY <1>l, <1>F
<1>m. ASSUME NEW q, NEW k, Go(t, q), Local(t, k) PROVE pc'[t] = q /\ loc'[t] = k
  BY <1>0, <1>m, Moves DEF Go, Local
<1>g. ASSUME NEW q, Go(t, q), loc' = loc PROVE pc'[t] = q /\ loc'[t] = l
  BY <1>0, <1>g, <1>l DEF Go
<1>1. CASE Search(t)
  <2>1. pc'[t] = "poison" /\ found'[t] = loc'[t].foes
    BY <1>0, <1>1, <1>f DEF Search, Go
  <2> QED
    BY <2>1, <1>p DEF Treated
<1>2. CASE PoisonCheck(t)
  <2>1. PICK b : Local(t, [l EXCEPT !.flagged = b])
    BY <1>2, <1>l DEF PoisonCheck
  <2>2. pc'[t] = "insert" /\ loc'[t] = [l EXCEPT !.flagged = b]
    BY <1>2, <1>m, <2>1 DEF PoisonCheck
  <2>3. loc'[t].foes = l.foes /\ pc[t] = "poison"
    BY <1>2, <2>2 DEF Locals, PoisonCheck
  <2> QED
    BY <1>T, <1>F, <1>f, <1>p, <2>2, <2>3 DEF Treated
<1>3. CASE InsertKnown(t) \/ Insert(t)
  <2>1. PICK i : Local(t, [l EXCEPT !.new = i])
    BY <1>3, <1>l DEF InsertKnown, Insert
  <2>2. Go(t, "meta") /\ pc[t] \in {"insert", "write"}
    BY <1>3 DEF InsertKnown, Insert
  <2>3. pc'[t] = "meta" /\ loc'[t] = [l EXCEPT !.new = i]
    BY <1>m, <2>1, <2>2
  <2>4. loc'[t].foes = l.foes
    BY <2>3 DEF Locals
  <2> QED
    BY <1>T, <1>F, <1>f, <1>p, <2>2, <2>3, <2>4 DEF Treated
<1>4. CASE InsertSupersede(t)
  <2>1. pc'[t] = "write" /\ loc'[t] = l /\ pc[t] = "insert"
    BY <1>4, <1>g DEF InsertSupersede
  <2> QED
    BY <1>T, <1>F, <1>f, <1>p, <2>1 DEF Treated
<1>5. CASE AttachMeta(t)
  <2>1. pc'[t] = "contra" /\ loc'[t] = l /\ pc[t] = "meta" /\ settled' = settled
    BY <1>5, <1>g DEF AttachMeta
  <2> QED
    BY <1>T, <1>F, <1>f, <1>p, <2>1 DEF Treated
<1>6. CASE Mark(t)
  <2>1. PICK c \in l.foes : Local(t, [l EXCEPT !.foes = @ \ {c}, !.cur = c])
    BY <1>6, <1>l DEF Mark
  <2>2. pc'[t] = "markBack" /\ pc[t] = "contra" /\ settled' = settled
    BY <1>0, <1>6 DEF Mark, Go
  <2>3. loc'[t] = [l EXCEPT !.foes = @ \ {c}, !.cur = c] /\ c \in FactId
    BY <1>0, <2>1 DEF Local, Locals
  <2>4. loc'[t].foes = l.foes \ {c} /\ loc'[t].cur = c /\ loc'[t].new = l.new
    BY <2>3 DEF Locals
  <2> QED
    BY <1>T, <1>F, <1>f, <1>p, <2>2, <2>4 DEF Treated
<1>7. ASSUME pc[t] \in Settling, NEW q \in Settling, Go(t, q), settled' = settled,
             loc'[t].foes = l.foes, loc'[t].cur = l.cur, loc'[t].new = l.new
      PROVE  Treated(pc'[t], loc'[t], settled', found'[t])
  <2>1. pc'[t] = q
    BY <1>0, <1>7 DEF Go
  <2> QED
    BY <1>T, <1>F, <1>f, <1>p, <1>7, <2>1 DEF Treated
<1>8. CASE MarkBack(t) \/ LowerBelief(t) \/ DeactivateFoe(t) \/ CloseFoe(t)
  <2>1. PICK q \in Settling : Go(t, q)
    BY <1>8, <1>p DEF MarkBack, LowerBelief, DeactivateFoe, CloseFoe
  <2>2. pc[t] \in Settling /\ settled' = settled /\ loc' = loc
    BY <1>8, <1>p DEF MarkBack, LowerBelief, DeactivateFoe, CloseFoe
  <2> QED
    BY <1>7, <1>l, <2>1, <2>2
<1>9. CASE ReadBelief(t)
  <2>1. PICK b : Local(t, [l EXCEPT !.read = b])
    BY <1>9, <1>l DEF ReadBelief
  <2>2. loc'[t] = [l EXCEPT !.read = b]
    BY <1>0, <2>1 DEF Local
  <2>3. loc'[t].foes = l.foes /\ loc'[t].cur = l.cur /\ loc'[t].new = l.new
    BY <2>2 DEF Locals
  <2>4. pc[t] \in Settling /\ Go(t, "believed") /\ settled' = settled /\ "believed" \in Settling
    BY <1>9, <1>p DEF ReadBelief
  <2> QED
    BY <1>7, <2>3, <2>4
<1>10. CASE PointFoe(t)
  <2>1. /\ pc[t] = "point" /\ Go(t, "contra")
        /\ Local(t, [l EXCEPT !.cur = NoFact, !.read = Plain])
        /\ settled' = settled \cup {<<l.new, l.cur>>}
    BY <1>10, <1>l DEF PointFoe
  <2>2. pc'[t] = "contra" /\ loc'[t] = [l EXCEPT !.cur = NoFact, !.read = Plain]
    BY <1>m, <2>1
  <2>3. loc'[t].foes = l.foes /\ loc'[t].new = l.new
    BY <2>2, Ended
  <2> QED
    BY <1>T, <1>F, <1>f, <1>p, <2>1, <2>2, <2>3 DEF Treated
<1>11. CASE Evolve(t)
  <2>1. pc[t] = "contra" /\ l.foes = {} /\ settled' = settled
    BY <1>11, <1>l DEF Evolve
  <2>2. CASE Go(t, "quarantine") /\ loc' = loc
    <3>1. pc'[t] = "quarantine" /\ loc'[t] = l
      BY <1>g, <2>2
    <3> QED
      BY <1>T, <1>F, <1>f, <1>p, <2>1, <3>1 DEF Treated
  <2>3. CASE \E i \in Neighbours(t), y \in Text :
                /\ Local(t, [loc[t] EXCEPT !.cands = Neighbours(t), !.cur = i, !.draft = y])
                /\ Go(t, "check")
    <3>1. PICK c, i, y : Local(t, [l EXCEPT !.cands = c, !.cur = i, !.draft = y])
      BY <1>l, <2>3
    <3>2. pc'[t] = "check"
      BY <1>0, <2>3 DEF Go
    <3>3. loc'[t] = [l EXCEPT !.cands = c, !.cur = i, !.draft = y]
      BY <1>0, <3>1 DEF Local
    <3>4. loc'[t].foes = l.foes /\ loc'[t].new = l.new
      BY <3>3 DEF Locals
    <3> QED
      BY <1>T, <1>F, <1>f, <1>p, <2>1, <3>2, <3>4 DEF Treated
  <2> QED
    BY <1>11, <2>2, <2>3 DEF Evolve
<1>12. ASSUME EndRevision(t), pc[t] \in {"check", "rewrite"}, settled' = settled
       PROVE  Treated(pc'[t], loc'[t], settled', found'[t])
  <2>1. pc'[t] = "contra" /\ loc'[t] = [l EXCEPT !.cur = NoFact, !.draft = NoText]
    BY <1>12, <1>l, <1>m DEF EndRevision
  <2>2. loc'[t].foes = l.foes /\ loc'[t].new = l.new
    BY <2>1, Ended
  <2> QED
    BY <1>T, <1>F, <1>f, <1>p, <1>12, <2>1, <2>2 DEF Treated
<1>13. CASE CheckProtected(t)
  <2>1. pc[t] = "check" /\ settled' = settled
    BY <1>13 DEF CheckProtected
  <2>2. CASE Go(t, "rewrite") /\ loc' = loc
    <3>1. pc'[t] = "rewrite" /\ loc'[t] = l
      BY <1>g, <2>2
    <3> QED
      BY <1>T, <1>F, <1>f, <1>p, <2>1, <3>1 DEF Treated
  <2> QED
    BY <1>12, <1>13, <2>1, <2>2 DEF CheckProtected
<1>14. CASE Rewrite(t)
  BY <1>12, <1>14 DEF Rewrite
<1>15. CASE SweepRow(t)
  <2>1. pc[t] = "sweep" /\ pc'[t] \in {"sweep", "idle"}
    BY <1>0, <1>15 DEF SweepRow, Go
  <2> QED
    BY <1>p, <2>1 DEF Treated
<1>16. CASE Drop(t) \/ Quarantine(t) \/ PointOnly(t)
  BY <1>0, <1>16 DEF Drop, Quarantine, PointOnly, Finish, Go
<1> QED
  BY <1>1, <1>2, <1>3, <1>4, <1>5, <1>6, <1>8, <1>9, <1>10, <1>11, <1>13, <1>14, <1>15, <1>16
     DEF Step

LEMMA HandledStep == Typed /\ Handled /\ [AloneNext]_<<vars, alone, found>> => Handled'
<1> SUFFICES ASSUME Typed, Handled, [AloneNext]_<<vars, alone, found>>, faults' = 0,
                    NEW t \in Task, alone'[t]
             PROVE  Treated(pc'[t], loc'[t], settled', found'[t])
  BY DEF Handled
<1>p. Stored = {"markBack", "believe", "believed", "deactivate", "close", "point",
                "meta", "contra", "check", "rewrite", "quarantine"}
  BY DEF Settling, Stored
<1>0. faults = 0
  BY NoFaultBefore DEF AloneNext, vars
<1>1. CASE UNCHANGED <<vars, alone, found>>
  BY <1>0, <1>1 DEF Handled, vars, taskVars
<1>2. CASE AloneNext /\ pc'[t] = "idle"
  BY <1>2, <1>p DEF Treated
<1>3. CASE AloneNext /\ pc[t] = "idle"
  <2>1. pc'[t] \in {"idle", "search", "sweep", "pointOnly"}
    BY <1>3, BeginsAt DEF AloneNext
  <2> QED
    BY <1>p, <2>1 DEF Treated
<1>4. CASE AloneNext /\ pc[t] # "idle" /\ pc'[t] # "idle"
  <2>1. alone[t] /\ (Step(t) \/ Fail(t))
    BY <1>4, AloneMoves
  <2>2. ~Fail(t)
    BY <1>0 DEF Fail, Typed, CountsType
  <2> QED
    BY <1>0, <1>4, <2>1, <2>2, StepTreats DEF Handled, AloneNext
<1> QED
  BY <1>1, <1>2, <1>3, <1>4

LEMMA EndSettles ==
    ASSUME Typed, SettledInv, SettledInv', Handled, AloneNext, NEW t \in Task,
           pc[t] = "quarantine", pc'[t] = "idle", alone[t], faults' = 0, NEW c \in found[t]
    PROVE  <<loc[t].new, c>> \in settled' /\ c \notin Active'
<1>1. faults = 0
  BY NoFaultBefore DEF AloneNext
<1>2. <<loc[t].new, c>> \in settled
  BY <1>1 DEF Handled, Treated, Stored, Settling
<1>3. settled' = settled
  <2>1. Step(t) \/ Request(t) \/ Fail(t)
    BY MoverSteps DEF AloneNext
  <2>2. ~Request(t)
    BY DEF Request, BeginRemember, BeginSweep, Begin, Invalidate
  <2>3. ~PointFoe(t)
    BY DEF PointFoe
  <2> QED
    BY <2>1, <2>2, <2>3
       DEF Step, Search, Drop, PoisonCheck, InsertKnown, InsertSupersede, Insert, AttachMeta,
           Mark, MarkBack, ReadBelief, LowerBelief, DeactivateFoe, CloseFoe, Evolve,
           CheckProtected, Rewrite, Quarantine, SweepRow, PointOnly, Fail
<1>4. Retired(c)'
  <2>1. PICK p \in settled' : p = <<loc[t].new, c>>
    BY <1>2, <1>3
  <2>2. Settled(p)'
    BY DEF SettledInv
  <2> QED
    BY <2>1, <2>2 DEF Settled
<1> QED
  BY <1>2, <1>3, <1>4 DEF Retired, Active

(* A remember during which nothing else moves and nothing fails has         *)
(* superseded, when it ends, every opposed fact that its search found.      *)
THEOREM OpposedAreSuperseded == AloneSpec => OpposedSuperseded
<1>1. AloneInit => Handled /\ SettledInv
  BY SettledInit DEF AloneInit, Init, Handled, Treated, Stored, Settling
<1>2. Typed /\ SettledInv /\ [AloneNext]_<<vars, alone, found>> => SettledInv'
  BY SettledInvStep DEF AloneNext, vars
<1>3. Typed /\ SettledInv /\ SettledInv' /\ Handled /\ [AloneNext]_<<vars, alone, found>>
        => [\A t \in Task :
              pc[t] = "quarantine" /\ pc'[t] = "idle" /\ alone[t] /\ faults' = 0
                => \A c \in found[t] : <<loc[t].new, c>> \in settled' /\ c \notin Active']_<<vars, alone, found>>
  BY EndSettles
<1> QED
  BY <1>1, <1>2, <1>3, HandledStep, AloneTyping, PTL DEF AloneSpec, OpposedSuperseded
=============================================================================

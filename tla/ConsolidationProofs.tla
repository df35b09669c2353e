------------------------- MODULE ConsolidationProofs -------------------------
(* Proofs about Consolidation, for every set of percepts, episodes, callers *)
(* and loops, every batch and any number of gists, errors and crashes; and  *)
(* about the connections that its cycles share with the requests.           *)
EXTENDS Consolidation, ConnectionPool, FiniteSetTheorems, TLAPS

Stage == Outside \cup Cycle \cup {"ended"}

(* The type invariant, part by part, is inductive as it stands.             *)
TablesType ==
    /\ percept \in [Percept -> {"free", "live", "expired", "dropped", "gone"}]
    /\ episode \in [Episode -> {"free", "aged", "forgotten"}]
    /\ compressed \in [Episode -> BOOLEAN] /\ gist \in [Episode -> BOOLEAN]
    /\ stored \subseteq Worthy /\ gists \in [Episode -> Nat]

SchedulerType ==
    /\ eligible \in BOOLEAN /\ running \in BOOLEAN /\ restarted \in BOOLEAN
    /\ handle \in Loop \cup {NoLoop} /\ stopping \in Loop \cup {NoLoop}

WorkersType ==
    /\ pc \in [Worker -> Stage] /\ \A c \in Caller : pc[c] \in {"none"} \cup Cycle
    /\ loc \in [Worker -> Locals]

CountsType == cuts \in Nat /\ failed \in BOOLEAN /\ events \in 0..MaxEvents

Typed == TablesType /\ SchedulerType /\ WorkersType /\ CountsType

LEMMA TypedIsTypeOK == Typed <=> TypeOK
  BY DEF Typed, TablesType, SchedulerType, WorkersType, CountsType, TypeOK, Stage

LEMMA Constants ==
    /\ Worthy \subseteq Percept /\ NoPercept \notin Percept /\ NoLoop \notin Loop
    /\ IsFiniteSet(Worker) /\ Loop \subseteq Worker /\ Caller \subseteq Worker
    /\ Loop \cap Caller = {}
    /\ MaxGists \in Nat /\ MaxEvents \in Nat
<1>1. IsFiniteSet(Worker)
  BY ConsolidationAssumption, FS_Union DEF Worker
<1> QED
  BY <1>1, ConsolidationAssumption DEF Worker

LEMMA NoLocalsType == NoLocals \in Locals
  BY Constants DEF NoLocals, Locals

LEMMA CutNat ==
    ASSUME cuts \in Nat, NEW S, Cut(S)
    PROVE  /\ cuts' \in Nat /\ cuts <= cuts'
           /\ Cardinality(S \cap HalfWay) \in Nat /\ cuts' = cuts + Cardinality(S \cap HalfWay)
           /\ S \cap HalfWay # {} => cuts < cuts'
<1>1. HalfWay \subseteq Worker /\ S \cap HalfWay \subseteq Worker
  BY DEF HalfWay
<1>2. IsFiniteSet(S \cap HalfWay)
  BY <1>1, Constants, FS_Subset
<1>3. Cardinality(S \cap HalfWay) \in Nat
  BY <1>2, FS_CardinalityType
<1>4. S \cap HalfWay # {} => Cardinality(S \cap HalfWay) # 0
  BY <1>2, FS_EmptySet
<1> QED
  BY <1>3, <1>4 DEF Cut

LEMMA GoType ==
    ASSUME WorkersType, NEW w \in Worker, NEW where \in Stage, NEW l \in Locals, Go(w, where, l),
           w \in Caller => where \in {"none"} \cup Cycle
    PROVE  WorkersType'
  BY DEF WorkersType, Go

(* What a step of a cycle does to the place and the locals of its worker.   *)
LEMMA CycleGoes ==
    ASSUME WorkersType, NEW w \in Worker, CycleStep(w)
    PROVE  /\ pc[w] \in Cycle
           /\ \E where \in Stage, l \in Locals :
                 Go(w, where, l) /\ (where \in Cycle \/ where = IF w \in Loop THEN "top" ELSE "none")
<1>0. loc[w] \in Locals
  BY DEF WorkersType
<1>1. CASE SelectPercepts(w)
  <2>1. [loc[w] EXCEPT !.todo = Live] \in Locals
    BY <1>0 DEF Locals, Live
  <2> QED
    BY <1>1, <2>1 DEF SelectPercepts, Stage, Cycle
<1>2. CASE Promote(w)
  <2>1. ASSUME NEW p \in loc[w].todo PROVE [loc[w] EXCEPT !.todo = @ \ {p}, !.cur = p] \in Locals
    BY <1>0 DEF Locals
  <2> QED
    BY <1>2, <2>1 DEF Promote, Stage, Cycle
<1>3. CASE Drop(w)
  <2>1. [loc[w] EXCEPT !.cur = NoPercept] \in Locals
    BY <1>0 DEF Locals
  <2> QED
    BY <1>3, <2>1 DEF Drop, Stage, Cycle
<1>4. CASE SweepExpired(w)
  BY <1>0, <1>4 DEF SweepExpired, Stage, Cycle
<1>5. CASE SelectEpisodes(w)
  <2>1. ASSUME NEW b \in SUBSET Backlog PROVE [loc[w] EXCEPT !.batch = b] \in Locals
    BY <1>0 DEF Locals, Backlog
  <2>2. Go(w, "rest", loc[w]) \/ \E b \in SUBSET Backlog : Go(w, "distil", [loc[w] EXCEPT !.batch = b])
    BY <1>5 DEF SelectEpisodes
  <2> QED
    BY <1>0, <1>5, <2>1, <2>2 DEF SelectEpisodes, Stage, Cycle
<1>6. CASE Distil(w)
  <2>1. ASSUME NEW n \in 0..MaxGists PROVE [loc[w] EXCEPT !.left = n] \in Locals
    BY <1>0 DEF Locals
  <2> QED
    BY <1>6, <2>1 DEF Distil, Stage, Cycle
<1>7. CASE InsertGist(w)
  <2>1. loc[w].left \in 0..MaxGists /\ loc[w].left > 0
    BY <1>0, <1>7 DEF InsertGist, Locals
  <2>2. loc[w].left - 1 \in 0..MaxGists
    BY <2>1, Constants
  <2>3. [loc[w] EXCEPT !.left = @ - 1, !.made = TRUE] \in Locals
    BY <1>0, <2>2 DEF Locals
  <2> QED
    BY <1>7, <2>3 DEF InsertGist, Stage, Cycle
<1>8. CASE MarkCompressed(w)
  <2>1. pc[w] = "gist" /\ (Go(w, "point", loc[w]) \/ Go(w, "rest", NoLocals))
    BY <1>8 DEF MarkCompressed
  <2> QED
    BY <1>0, <2>1, NoLocalsType DEF Stage, Cycle
<1>9. CASE PointToGist(w)
  BY <1>0, <1>9, NoLocalsType DEF PointToGist, Stage, Cycle
<1>10. CASE Rest(w)
  BY <1>0, <1>10 DEF Rest, Stage, Outside, Cycle
<1> QED
  BY <1>1, <1>2, <1>3, <1>4, <1>5, <1>6, <1>7, <1>8, <1>9, <1>10 DEF CycleStep

(* An error sends the worker somewhere else in its cycle or its loop.       *)
LEMMA FailGoes ==
    ASSUME WorkersType, NEW w \in Worker, Fail(w)
    PROVE  /\ pc[w] \in Cycle \cup {"sleep"}
           /\ \E where \in Stage, l \in Locals :
                 Go(w, where, l) /\ (where \in Cycle \/ (where = "top" /\ pc[w] = "sleep"))
<1>0. loc[w] \in Locals /\ pc[w] \in Stage
  BY DEF WorkersType
<1>1. ASSUME NEW p \in loc[w].todo \cap Worthy
      PROVE  [loc[w] EXCEPT !.todo = @ \ {p}, !.cur = p] \in Locals
  BY <1>0 DEF Locals
<1>2. \/ pc[w] = "sleep" /\ Go(w, "top", loc[w])
      \/ pc[w] = "percepts" /\ Go(w, "promote", loc[w])
      \/ pc[w] = "promote" /\ Go(w, "episodes", loc[w])
      \/ /\ pc[w] = "promote"
         /\ \E p \in loc[w].todo \cap Worthy :
               Go(w, "drop", [loc[w] EXCEPT !.todo = @ \ {p}, !.cur = p])
      \/ pc[w] = "drop" /\ Go(w, "promote", NoLocals)
      \/ pc[w] \in {"episodes", "distil", "gist", "point"} /\ Go(w, "rest", NoLocals)
  BY DEF Fail
<1> QED
  BY <1>0, <1>1, <1>2, NoLocalsType DEF Stage, Outside, Cycle
LEMMA TablesStep == Typed /\ [Next]_vars => TablesType'
<1> SUFFICES ASSUME Typed, [Next]_vars PROVE TablesType'
  OBVIOUS
<1> USE DEF tableVars
<1>0. /\ \A S : Dropped(S) => percept' \in [Percept -> {"free", "live", "expired", "dropped", "gone"}]
  BY DEF Dropped, Typed, TablesType
<1>1. CASE UNCHANGED tableVars
  BY <1>1 DEF Typed, TablesType
<1>2. ASSUME NEW w \in Worker, CycleStep(w) PROVE TablesType'
  <2>1. CASE Promote(w)
    BY <2>1 DEF Promote, Typed, TablesType
  <2>2. CASE Drop(w)
    BY <1>0, <2>2 DEF Drop, Typed, TablesType
  <2>3. CASE SweepExpired(w)
    BY <2>3 DEF SweepExpired, Typed, TablesType
  <2>4. CASE InsertGist(w)
    BY <2>4 DEF InsertGist, Typed, TablesType
  <2>5. CASE MarkCompressed(w)
    <3>1. compressed' = [e \in Episode |-> compressed[e] \/ e \in Rows(w)]
      BY <2>5 DEF MarkCompressed
    <3>2. compressed' \in [Episode -> BOOLEAN]
      BY <3>1 DEF Typed, TablesType
    <3> QED
      BY <2>5, <3>2 DEF MarkCompressed, Typed, TablesType
  <2>6. CASE PointToGist(w)
    <3>1. gist' = [e \in Episode |-> gist[e] \/ e \in Rows(w)]
      BY <2>6 DEF PointToGist
    <3>2. gist' \in [Episode -> BOOLEAN]
      BY <3>1 DEF Typed, TablesType
    <3> QED
      BY <2>6, <3>2 DEF PointToGist, Typed, TablesType
  <2> QED
    BY <1>1, <1>2, <2>1, <2>2, <2>3, <2>4, <2>5, <2>6
    DEF CycleStep, SelectPercepts, SelectEpisodes, Distil, Rest
<1>3. ASSUME NEW P, NEW E, Forgotten(P, E) PROVE TablesType'
  <2>1. /\ compressed' \in [Episode -> BOOLEAN] /\ gist' \in [Episode -> BOOLEAN]
    BY <1>3 DEF Forgotten, Typed, TablesType
  <2> QED
    BY <1>3, <2>1 DEF Forgotten, Typed, TablesType
<1>4. CASE Environment
  <2>1. ASSUME NEW p \in Percept, BufferPercept(p) \/ Expire(p) PROVE TablesType'
    BY <2>1 DEF BufferPercept, Expire, Typed, TablesType
  <2>2. ASSUME NEW e \in Episode, Age(e) PROVE TablesType'
    BY <2>2 DEF Age, Typed, TablesType
  <2> QED
    BY <1>1, <1>3, <1>4, <2>1, <2>2 DEF Environment, Eligibility, ForgetUser, ForgetScope
<1> QED
  BY <1>1, <1>2, <1>4 DEF Next, vars, Fail, CheckRunning, SelectUsers, Consolidate, Start, Stop,
                          Stopped, Crash

LEMMA WorkersStep == Typed /\ [Next]_vars => WorkersType'
<1> SUFFICES ASSUME Typed, [Next]_vars PROVE WorkersType'
  OBVIOUS
<1>0. WorkersType /\ SchedulerType
  BY DEF Typed
<1>1. CASE UNCHANGED <<pc, loc>>
  BY <1>0, <1>1 DEF WorkersType
<1>2. ASSUME NEW w \in Worker, CycleStep(w) \/ Fail(w) PROVE WorkersType'
  <2>1. PICK where \in Stage, l \in Locals :
           Go(w, where, l) /\ (w \in Caller => where \in {"none"} \cup Cycle)
    <3>1. CASE CycleStep(w)
      BY <1>0, <3>1, CycleGoes, Constants
    <3>2. CASE Fail(w)
      BY <1>0, <3>2, FailGoes DEF WorkersType, Cycle
    <3> QED
      BY <1>2, <3>1, <3>2
  <2> QED
    BY <1>0, <2>1, GoType
<1>3. ASSUME NEW l \in Loop, CheckRunning(l) \/ SelectUsers(l) PROVE WorkersType'
  <2>1. PICK where \in Stage : Go(l, where, NoLocals)
    BY <1>3 DEF CheckRunning, SelectUsers, Stage, Outside, Cycle
  <2> QED
    BY <1>0, <2>1, GoType, NoLocalsType, Constants
<1>4. ASSUME NEW c \in Caller, Consolidate(c) PROVE WorkersType'
  BY <1>0, <1>4, GoType, NoLocalsType, Constants DEF Consolidate, Stage, Cycle
<1>5. CASE Start
  BY <1>0, <1>5, GoType, NoLocalsType, Constants DEF Start, Stage, Outside
<1>6. CASE Stop
  <2>1. \/ UNCHANGED <<pc, loc>>
        \/ handle \in Loop /\ Go(handle, "ended", NoLocals)
    BY <1>0, <1>6 DEF Stop, SchedulerType
  <2>2. CASE handle \in Loop /\ Go(handle, "ended", NoLocals)
    BY <1>0, <2>2, GoType, NoLocalsType, Constants DEF Stage
  <2> QED
    BY <1>1, <2>1, <2>2
<1>7. CASE Crash
  <2>1. pc' \in [Worker -> Stage] /\ \A c \in Caller : pc'[c] = "none"
    BY <1>7, Constants DEF Crash, Stage, Outside
  <2> QED
    BY <1>7, <2>1, NoLocalsType DEF Crash, WorkersType
<1> QED
  BY <1>1, <1>2, <1>3, <1>4, <1>5, <1>6, <1>7
  DEF Next, vars, Stopped, Environment, BufferPercept, Expire, Age, Eligibility, ForgetUser,
      ForgetScope, Forgotten, Quiet

LEMMA SchedulerStep == Typed /\ [Next]_vars => SchedulerType'
<1> SUFFICES ASSUME Typed, [Next]_vars PROVE SchedulerType'
  OBVIOUS
<1> USE DEF schedulerVars
<1>0. SchedulerType
  BY DEF Typed
<1>1. CASE UNCHANGED <<eligible, schedulerVars>>
  BY <1>0, <1>1 DEF SchedulerType
<1>2. CASE Start
  BY <1>0, <1>2 DEF Start, SchedulerType
<1>3. CASE Stop \/ Stopped \/ Crash
  BY <1>0, <1>3 DEF Stop, Stopped, Crash, SchedulerType
<1>4. CASE Environment
  BY <1>0, <1>4 DEF Environment, BufferPercept, Expire, Age, Eligibility, ForgetUser, ForgetScope,
                    Forgotten, Quiet, SchedulerType
<1> QED
  BY <1>1, <1>2, <1>3, <1>4
  DEF Next, vars, CycleStep, SelectPercepts, Promote, Drop, SweepExpired, SelectEpisodes, Distil,
      InsertGist, MarkCompressed, PointToGist, Rest, CycleOnly, Fail, CheckRunning, SelectUsers,
      Consolidate

LEMMA CountsStep == Typed /\ [Next]_vars => CountsType'
<1> SUFFICES ASSUME Typed, [Next]_vars PROVE CountsType'
  OBVIOUS
<1> USE DEF boundVars
<1>0. cuts \in Nat /\ failed \in BOOLEAN /\ events \in 0..MaxEvents
  BY DEF Typed, CountsType
<1>1. CASE UNCHANGED <<cuts, boundVars>>
  BY <1>0, <1>1 DEF CountsType
<1>2. CASE Event /\ (UNCHANGED cuts \/ \E S : Cut(S)) /\ failed' \in {failed, TRUE}
  <2>1. events' \in 0..MaxEvents
    BY <1>0, <1>2, Constants DEF Event
  <2> QED
    BY <1>0, <1>2, <2>1, CutNat DEF CountsType
<1>3. \/ UNCHANGED <<cuts, boundVars>>
      \/ Event /\ (UNCHANGED cuts \/ \E S : Cut(S)) /\ failed' \in {failed, TRUE}
  BY DEF Next, vars, CycleStep, SelectPercepts, Promote, Drop, SweepExpired, SelectEpisodes, Distil,
      InsertGist, MarkCompressed, PointToGist, Rest, CycleOnly, Fail, CheckRunning, SelectUsers,
      Consolidate, Start, Stop, Stopped, Crash, Environment, BufferPercept, Expire, Age,
      Eligibility, ForgetUser, ForgetScope, Forgotten, Quiet
<1> QED
  BY <1>1, <1>2, <1>3

LEMMA TypedStep == Typed /\ [Next]_vars => Typed'
  BY TablesStep, WorkersStep, SchedulerStep, CountsStep DEF Typed

LEMMA InitTyped == Init => Typed
<1> SUFFICES ASSUME Init PROVE Typed
  OBVIOUS
<1>1. TablesType /\ SchedulerType
  BY DEF Init, TablesType, SchedulerType
<1>2. WorkersType
  BY NoLocalsType, Constants DEF Init, WorkersType, Stage, Outside
<1>3. CountsType
  <2>1. 0 \in 0..MaxEvents
    BY Constants
  <2> QED
    BY <2>1 DEF Init, CountsType
<1> QED
  BY <1>1, <1>2, <1>3 DEF Typed

(* Every state of the buffer, the episodes, the scheduler and the cycles is *)
(* well typed: only a percept that attention lets through is ever stored,   *)
(* and a call of the API never goes on like the loop.                       *)
THEOREM TypeCorrect == Spec => []TypeOK
  BY InitTyped, TypedStep, TypedIsTypeOK, PTL DEF Spec
-----------------------------------------------------------------------------
(* A promotion that is about to delete a percept has stored it, if          *)
(* attention lets it through: this is what keeps the percept when the       *)
(* promotion is cut between the two statements or done twice.               *)
Promoted ==
    ~failed => /\ \A w \in Worker : pc[w] = "drop" /\ loc[w].cur \in Worthy => loc[w].cur \in stored
               /\ PerceptsKept

LEMMA PromotedStep == Typed /\ Promoted /\ [Next]_vars => Promoted'
<1> SUFFICES ASSUME Typed, Promoted, [Next]_vars, ~failed' PROVE Promoted'
  BY DEF Promoted
<1>0. ~failed
  BY DEF Next, vars, boundVars, CycleStep, SelectPercepts, Promote, Drop, SweepExpired,
         SelectEpisodes, Distil, InsertGist, MarkCompressed, PointToGist, Rest, CycleOnly, Fail,
         CheckRunning, SelectUsers, Consolidate, Start, Stop, Stopped, Crash, Environment,
         BufferPercept, Expire, Age, Eligibility, ForgetUser, ForgetScope, Forgotten, Quiet
<1>m. stored \subseteq stored'
  BY DEF Next, vars, tableVars, CycleStep, SelectPercepts, Promote, Drop, SweepExpired,
         SelectEpisodes, Distil, InsertGist, MarkCompressed, PointToGist, Rest, CycleOnly, Fail,
         CheckRunning, SelectUsers, Consolidate, Start, Stop, Stopped, Crash, Environment,
         BufferPercept, Expire, Age, Eligibility, ForgetUser, ForgetScope, Forgotten, Quiet
<1>a. /\ \A w \in Worker : pc[w] = "drop" /\ loc[w].cur \in Worthy => loc[w].cur \in stored
      /\ \A p \in Worthy : percept[p] = "dropped" => p \in stored
  BY <1>0 DEF Promoted, PerceptsKept
<1>b. WorkersType /\ TablesType
  BY DEF Typed
<1>c. ASSUME \A w \in Worker : pc'[w] = "drop" => pc[w] = "drop" /\ loc'[w] = loc[w],
             \A p \in Worthy : percept'[p] = "dropped" => percept[p] = "dropped"
      PROVE  Promoted'
  BY <1>m, <1>a, <1>c DEF Promoted, PerceptsKept
<1>d. ASSUME NEW w \in Worker, NEW where, NEW l, Go(w, where, l), where # "drop",
             \A p \in Worthy : percept'[p] = "dropped" => percept[p] = "dropped"
      PROVE  Promoted'
  BY <1>b, <1>c, <1>d DEF WorkersType, Go
<1>1. CASE UNCHANGED <<pc, loc, percept>>
  BY <1>1, <1>c
<1>2. ASSUME NEW w \in Worker, CycleStep(w) PROVE Promoted'
  <2>1. CASE Promote(w)
    <3>1. PICK p \in loc[w].todo :
             /\ pc' = [pc EXCEPT ![w] = "drop"]
             /\ loc' = [loc EXCEPT ![w] = [loc[w] EXCEPT !.todo = @ \ {p}, !.cur = p]]
             /\ stored' = stored \cup ({p} \cap Worthy)
      BY <2>1 DEF Promote, Go
    <3>2. loc[w] \in Locals /\ loc'[w].cur = p
      BY <1>b, <3>1 DEF WorkersType, Locals
    <3>3. \A x \in Worker \ {w} : pc'[x] = pc[x] /\ loc'[x] = loc[x]
      BY <1>b, <3>1 DEF WorkersType
    <3>4. UNCHANGED percept
      BY <2>1 DEF Promote
    <3>5. \A x \in Worker : pc'[x] = "drop" /\ loc'[x].cur \in Worthy => loc'[x].cur \in stored'
      BY <1>a, <3>1, <3>2, <3>3
    <3> QED
      BY <1>m, <1>a, <3>4, <3>5 DEF Promoted, PerceptsKept
  <2>2. CASE Drop(w)
    <3>1. /\ pc[w] = "drop" /\ Dropped({loc[w].cur}) /\ UNCHANGED stored
          /\ \A x \in Worker : pc'[x] = "drop" => pc[x] = "drop" /\ loc'[x] = loc[x]
      BY <1>b, <2>2 DEF Drop, Go, WorkersType
    <3>2. \A p \in Worthy : percept'[p] = "dropped" => percept[p] = "dropped" \/ p = loc[w].cur
      BY <3>1, Constants DEF Dropped
    <3> QED
      BY <1>m, <1>a, <3>1, <3>2 DEF Promoted, PerceptsKept
  <2>3. CASE SweepExpired(w)
    <3>1. Go(w, "episodes", loc[w]) /\ \A p \in Worthy : percept'[p] = "dropped" => percept[p] = "dropped"
      BY <2>3, Constants DEF SweepExpired
    <3> QED
      BY <1>d, <3>1
  <2>4. CASE SelectEpisodes(w)
    <3>1. \E where \in {"rest", "distil"}, l \in {loc[w]} \cup {[loc[w] EXCEPT !.batch = b] : b \in SUBSET Backlog} :
             Go(w, where, l)
      BY <2>4 DEF SelectEpisodes
    <3> QED
      BY <1>d, <2>4, <3>1 DEF SelectEpisodes, tableVars
  <2>5. CASE Rest(w)
    BY <1>d, <2>5 DEF Rest, tableVars
  <2>6. CASE MarkCompressed(w)
    BY <1>d, <2>6 DEF MarkCompressed
  <2> QED
    BY <1>d, <1>2, <2>1, <2>2, <2>3, <2>4, <2>5, <2>6
    DEF CycleStep, SelectPercepts, Distil, InsertGist, PointToGist, tableVars
<1>3. ASSUME NEW w \in Worker, CheckRunning(w) \/ SelectUsers(w) \/ Consolidate(w) PROVE Promoted'
  BY <1>d, <1>3 DEF CheckRunning, SelectUsers, Consolidate, tableVars
<1>4. ASSUME NEW w \in Worker, Fail(w) PROVE FALSE
  BY <1>4 DEF Fail
<1>5. CASE Start
  <2>1. PICK l \in Loop : Go(l, "top", NoLocals)
    BY <1>5 DEF Start
  <2> QED
    BY <1>5, <1>d, <2>1, Constants DEF Start, tableVars
<1>6. CASE Stop
  <2>1. UNCHANGED percept /\ (UNCHANGED <<pc, loc>> \/ (handle \in Loop /\ Go(handle, "ended", NoLocals)))
    BY <1>6 DEF Stop, tableVars, Typed, SchedulerType
  <2> QED
    BY <1>1, <1>d, <2>1, Constants
<1>7. CASE Crash
  BY <1>7, <1>c DEF Crash, tableVars
<1>8. CASE Environment
  <2>1. UNCHANGED <<pc, loc>>
    BY <1>8 DEF Environment, BufferPercept, Expire, Age, Eligibility, ForgetUser, ForgetScope,
                Forgotten, Quiet
  <2>2. ASSUME NEW p \in Percept, BufferPercept(p) \/ Expire(p)
        PROVE  \A q \in Worthy : percept'[q] = "dropped" => percept[q] = "dropped"
    BY <1>b, <2>2, Constants DEF BufferPercept, Expire, TablesType
  <2>3. ASSUME NEW P, NEW E, Forgotten(P, E)
        PROVE  \A q \in Worthy : percept'[q] = "dropped" => percept[q] = "dropped"
    BY <2>3, Constants DEF Forgotten
  <2>4. \A q \in Worthy : percept'[q] = "dropped" => percept[q] = "dropped"
    BY <1>8, <2>2, <2>3 DEF Environment, Age, Eligibility, ForgetUser, ForgetScope, tableVars
  <2> QED
    BY <1>c, <2>1, <2>4
<1> QED
  BY <1>1, <1>2, <1>3, <1>4, <1>5, <1>6, <1>7, <1>8, Constants DEF Next, vars, Stopped, tableVars

(* Whatever is cancelled, crashes or overlaps, a percept that attention     *)
(* lets through is dropped by a promotion only when it is stored.           *)
THEOREM PerceptsAreKept == Spec => []PerceptsKept
<1>1. Init => Promoted
  BY Constants DEF Init, Promoted, PerceptsKept
<1>2. Promoted => PerceptsKept
  BY DEF Promoted, PerceptsKept
<1> QED
  BY <1>1, <1>2, InitTyped, TypedStep, PromotedStep, PTL DEF Spec
-----------------------------------------------------------------------------
(* The scheduler has its loop by the handle, unless start() ran during a    *)
(* stop(): then stop() clears the handle of the new loop.                   *)
Held ==
    ~restarted => /\ OneLoop
                  /\ stopping # NoLoop => ~running

LEMMA HeldStep == Typed /\ Held /\ [Next]_vars => Held'
<1> SUFFICES ASSUME Typed, Held, [Next]_vars, ~restarted' PROVE Held'
  BY DEF Held
<1>0. ~restarted
  BY DEF Next, vars, schedulerVars, CycleStep, SelectPercepts, Promote, Drop, SweepExpired,
         SelectEpisodes, Distil, InsertGist, MarkCompressed, PointToGist, Rest, CycleOnly, Fail,
         CheckRunning, SelectUsers, Consolidate, Start, Stop, Stopped, Crash, Environment,
         BufferPercept, Expire, Age, Eligibility, ForgetUser, ForgetScope, Forgotten, Quiet
<1>a. /\ \A l \in Loop : Alive(l) => l = handle /\ running
      /\ stopping # NoLoop => ~running
  BY <1>0 DEF Held, OneLoop
<1>b. WorkersType /\ SchedulerType
  BY DEF Typed
<1>c. ASSUME UNCHANGED schedulerVars, \A l \in Loop : Alive(l)' => Alive(l) PROVE Held'
  BY <1>a, <1>c DEF Held, OneLoop, schedulerVars
<1>1. CASE UNCHANGED <<pc, schedulerVars>>
  BY <1>1, <1>c DEF Alive
<1>2. ASSUME NEW w \in Worker, CycleStep(w) \/ Fail(w) PROVE Held'
  <2>1. PICK where, l : Go(w, where, l) /\ (pc[w] \in Cycle \cup {"sleep"})
    BY <1>2, <1>b, CycleGoes, FailGoes
  <2>2. \A x \in Loop : Alive(x)' => Alive(x)
    BY <1>b, <2>1, Constants DEF Go, Alive, WorkersType, Outside, Cycle
  <2>3. UNCHANGED schedulerVars
    BY <1>2 DEF CycleStep, SelectPercepts, Promote, Drop, SweepExpired, SelectEpisodes, Distil,
        InsertGist, MarkCompressed, PointToGist, Rest, CycleOnly, Fail
  <2> QED
    BY <1>c, <2>2, <2>3
<1>3. ASSUME NEW l \in Loop, CheckRunning(l) \/ SelectUsers(l) PROVE Held'
  <2>1. PICK where : Go(l, where, NoLocals) /\ pc[l] \in {"top", "sleep"}
    BY <1>3 DEF CheckRunning, SelectUsers
  <2>2. \A x \in Loop : Alive(x)' => Alive(x)
    BY <1>b, <2>1, Constants DEF Go, Alive, WorkersType, Outside, Cycle
  <2> QED
    BY <1>3, <1>c, <2>2 DEF CheckRunning, SelectUsers, CycleOnly
<1>4. ASSUME NEW c \in Caller, Consolidate(c) PROVE Held'
  <2>1. \A x \in Loop : pc'[x] = pc[x]
    BY <1>b, <1>4, Constants DEF Consolidate, Go, WorkersType
  <2> QED
    BY <1>4, <1>c, <2>1 DEF Consolidate, Alive
<1>5. CASE Start
  <2>1. PICK l \in Loop : handle' = l /\ Go(l, "top", NoLocals)
    BY <1>5 DEF Start
  <2>2. ~running /\ running' = TRUE /\ stopping = NoLoop /\ stopping' = stopping
    BY <1>5 DEF Start
  <2>3. \A x \in Loop : Alive(x)' => x = l
    BY <1>a, <1>b, <2>1, <2>2, Constants DEF Go, Alive, WorkersType
  <2> QED
    BY <2>1, <2>2, <2>3 DEF Held, OneLoop
<1>6. CASE Stop
  <2>1. \A x \in Loop : ~Alive(x)'
    <3>1. CASE handle = NoLoop
      BY <1>6, <1>a, <3>1, Constants DEF Stop, Alive
    <3>2. CASE handle # NoLoop
      <4>1. handle \in Loop /\ Go(handle, "ended", NoLocals)
        BY <1>6, <1>b, <3>2 DEF Stop, SchedulerType
      <4> QED
        BY <1>a, <1>b, <4>1, Constants DEF Go, Alive, WorkersType, Outside, Cycle
    <3> QED
      BY <3>1, <3>2
  <2> QED
    BY <1>6, <2>1 DEF Stop, Held, OneLoop
<1>7. CASE Stopped
  <2>1. \A x \in Loop : ~Alive(x)' /\ UNCHANGED running
    BY <1>7, <1>a DEF Stopped, Alive
  <2> QED
    BY <1>7, <2>1 DEF Stopped, Held, OneLoop
<1>8. CASE Crash
  <2>1. \A x \in Loop : ~Alive(x)'
    BY <1>8, Constants DEF Crash, Alive, Outside, Cycle
  <2> QED
    BY <1>8, <2>1 DEF Crash, Held, OneLoop
<1> QED
  BY <1>1, <1>2, <1>3, <1>4, <1>5, <1>6, <1>7, <1>8
  DEF Next, vars, Environment, BufferPercept, Expire, Age, Eligibility, ForgetUser, ForgetScope,
      Forgotten, Quiet

(* At most one loop of the scheduler runs, the one stop() can cancel, as    *)
(* long as start() is not called during a stop().                           *)
THEOREM OneLoopRuns == Spec => []OneLoop
<1>1. Init => Held
  BY Constants DEF Init, Held, OneLoop, Alive, Outside, Cycle
<1>2. Held => OneLoop
  BY DEF Held, OneLoop
<1> QED
  BY <1>1, <1>2, InitTyped, TypedStep, HeldStep, PTL DEF Spec
-----------------------------------------------------------------------------
(* The compressions that have stored gists of an episode and are not over,  *)
(* and those that may still store some.                                     *)
Half(e) == {w \in HalfWay : e \in loc[w].batch}
Pending(e) == {w \in Worker : pc[w] \in {"distil", "gist"} /\ e \in loc[w].batch /\ ~loc[w].made}

(* No compression selects it any more.                                      *)
Closed(e) == compressed[e] \/ episode[e] = "forgotten"

Batches ==
    \A w \in Worker :
        /\ pc[w] \notin {"gist", "point"} => ~loc[w].made
        /\ pc[w] = "point" => loc[w].made /\ \A e \in loc[w].batch : Closed(e)
        /\ pc[w] \in {"distil", "gist", "point"} => \A e \in loc[w].batch : episode[e] # "free"

Seen == \A e \in Episode : compressed[e] \/ gists[e] > 0 => episode[e] # "free"

(* Before an episode is marked, whoever stored gists of it is still half    *)
(* way or was cut; after it, those that are pending are the last.           *)
CountedAt(e) ==
    /\ ~Closed(e) => gists[e] <= Cardinality(Half(e)) + cuts
    /\ Closed(e) => gists[e] + Cardinality(Pending(e)) <= Cardinality(Worker) + cuts

PointedAt(e) == cuts = 0 /\ episode[e] = "aged" /\ gists[e] > 0 => gist[e] \/ Half(e) # {}

GistInv == Batches /\ Seen /\ \A e \in Episode : CountedAt(e) /\ PointedAt(e)

LEMMA WorkerCard ==
    ASSUME NEW S \in SUBSET Worker, NEW T \in SUBSET Worker, NEW w \in Worker
    PROVE  /\ IsFiniteSet(S) /\ Cardinality(S) \in Nat
           /\ S \subseteq T => Cardinality(S) <= Cardinality(T)
           /\ S \subseteq T \ {w} /\ w \in T => Cardinality(S) + 1 <= Cardinality(T)
           /\ S \subseteq T \cup {w} => Cardinality(S) <= Cardinality(T) + 1
           /\ S \cap T = {} => Cardinality(S) + Cardinality(T) <= Cardinality(Worker)
<1>1. /\ IsFiniteSet(S) /\ IsFiniteSet(T) /\ IsFiniteSet(T \ {w}) /\ IsFiniteSet(T \cup {w})
      /\ IsFiniteSet(Worker) /\ IsFiniteSet(S \cup T)
  BY Constants, FS_Subset
<1>2. /\ Cardinality(S) \in Nat /\ Cardinality(T) \in Nat /\ Cardinality(S \cup T) \in Nat
      /\ Cardinality(T \ {w}) \in Nat /\ Cardinality(T \cup {w}) \in Nat /\ Cardinality(Worker) \in Nat
  BY <1>1, FS_CardinalityType
<1>3. S \subseteq T => Cardinality(S) <= Cardinality(T)
  BY <1>1, FS_Subset
<1>4. S \subseteq T \ {w} => Cardinality(S) <= Cardinality(T \ {w})
  BY <1>1, FS_Subset
<1>5. w \in T => Cardinality(T \ {w}) = Cardinality(T) - 1
  BY <1>1, FS_RemoveElement
<1>6. S \subseteq T \cup {w} => Cardinality(S) <= Cardinality(T \cup {w})
  BY <1>1, FS_Subset
<1>7. Cardinality(T \cup {w}) <= Cardinality(T) + 1
  BY <1>1, <1>2, FS_AddElement
<1>8. S \cap T = {} => Cardinality(S \cup T) = Cardinality(S) + Cardinality(T)
  <2>1. Cardinality({}) = 0
    BY FS_EmptySet
  <2>2. Cardinality(S \cup T) = Cardinality(S) + Cardinality(T) - Cardinality(S \cap T)
    BY <1>1, FS_Union
  <2> QED
    BY <1>2, <2>1, <2>2
<1>9. Cardinality(S \cup T) <= Cardinality(Worker)
  BY <1>1, FS_Subset
<1> QED
  BY <1>1, <1>2, <1>3, <1>4, <1>5, <1>6, <1>7, <1>8, <1>9

LEMMA HalfType ==
    ASSUME NEW e
    PROVE  /\ HalfWay \subseteq Worker
           /\ Half(e) \subseteq Worker /\ Pending(e) \subseteq Worker
           /\ Half(e) \cap Pending(e) = {}
  BY DEF HalfWay, Half, Pending

LEMMA GoMoves ==
    ASSUME WorkersType, NEW w \in Worker, NEW where, NEW l, Go(w, where, l)
    PROVE  /\ pc'[w] = where /\ loc'[w] = l
           /\ \A x \in Worker \ {w} : pc'[x] = pc[x] /\ loc'[x] = loc[x]
  BY DEF WorkersType, Go

(* The invariant gives the property: of those that stored gists nobody is   *)
(* counted twice.                                                           *)
LEMMA GistInvBounds == Typed /\ GistInv => GistsBounded
<1> SUFFICES ASSUME Typed, GistInv, NEW e \in Episode
             PROVE  /\ gists[e] <= Cardinality(Worker) + cuts
                    /\ cuts = 0 /\ compressed[e] /\ episode[e] = "aged" /\ gists[e] > 0
                          => gist[e] \/ \E w \in HalfWay : e \in loc[w].batch
  BY DEF GistsBounded
<1>1. CountedAt(e) /\ PointedAt(e) /\ gists[e] \in Nat /\ cuts \in Nat
  BY DEF GistInv, Typed, TablesType, CountsType
<1>2. /\ Cardinality(Half(e)) \in Nat /\ Cardinality(Pending(e)) \in Nat
      /\ Cardinality(Worker) \in Nat /\ Cardinality(Half(e)) <= Cardinality(Worker)
  <2>1. Half(e) \in SUBSET Worker /\ Pending(e) \in SUBSET Worker /\ Worker \in SUBSET Worker
    BY HalfType
  <2>2. /\ Cardinality(Half(e)) \in Nat /\ Cardinality(Pending(e)) \in Nat
        /\ Cardinality(Worker) \in Nat
    BY <2>1, Constants, FS_Subset, FS_CardinalityType
  <2> QED
    BY <2>1, <2>2, Constants, FS_Subset
<1>3. gists[e] <= Cardinality(Worker) + cuts
  BY <1>1, <1>2 DEF CountedAt
<1> QED
  BY <1>1, <1>3 DEF PointedAt, Half

(* A step that stores no gist keeps the count if it cuts whoever it takes   *)
(* out of those half way, or the episode is closed.                         *)
LEMMA CountedFrame ==
    ASSUME Typed, Typed', NEW e \in Episode, CountedAt(e), gists'[e] = gists[e], cuts <= cuts',
           Closed(e) => Closed(e)' /\ Pending(e)' \subseteq Pending(e),
           Half(e) \cap Pending(e)' = {},
           \/ Half(e) \subseteq Half(e)' \/ Closed(e)'
           \/ cuts' = cuts + 1 /\ \E w \in Worker : Half(e) \subseteq Half(e)' \cup {w}
           \/ cuts' >= cuts + Cardinality(Half(e))
    PROVE  CountedAt(e)'
<1>0. gists[e] \in Nat /\ cuts \in Nat /\ cuts' \in Nat
  BY DEF Typed, TablesType, CountsType
<1>1. /\ Half(e) \in SUBSET Worker /\ Half(e)' \in SUBSET Worker
      /\ Pending(e) \in SUBSET Worker /\ Pending(e)' \in SUBSET Worker
  BY DEF Half, HalfWay, Pending
<1>2. PICK h, h1, p, p1, n \in Nat :
         /\ h = Cardinality(Half(e)) /\ h1 = Cardinality(Half(e)')
         /\ p = Cardinality(Pending(e)) /\ p1 = Cardinality(Pending(e)')
         /\ n = Cardinality(Worker)
  BY <1>1, Constants, FS_Subset, FS_CardinalityType
<1>3. h + p1 <= n
  BY <1>1, <1>2, WorkerCard
<1>4. Closed(e) => p1 <= p
  BY <1>1, <1>2, WorkerCard
<1>5. \/ Closed(e)' \/ h + cuts <= h1 + cuts'
  <2>1. CASE Half(e) \subseteq Half(e)'
    <3>1. IsFiniteSet(Half(e)')
      BY <1>1, Constants, FS_Subset
    <3>2. h <= h1
      BY <1>2, <2>1, <3>1, FS_Subset
    <3> QED
      BY <1>0, <1>2, <3>2
  <2>2. CASE cuts' = cuts + 1 /\ \E w \in Worker : Half(e) \subseteq Half(e)' \cup {w}
    <3>1. PICK w \in Worker : Half(e) \subseteq Half(e)' \cup {w}
      BY <2>2
    <3>2. h <= h1 + 1
      BY <1>1, <1>2, <3>1, WorkerCard
    <3> QED
      BY <1>0, <1>2, <2>2, <3>2
  <2>3. CASE cuts' >= cuts + Cardinality(Half(e))
    BY <1>0, <1>2, <2>3
  <2> QED
    BY <2>1, <2>2, <2>3
<1>6. CountedAt(e)' <=> /\ ~Closed(e)' => gists[e] <= h1 + cuts'
                        /\ Closed(e)' => gists[e] + p1 <= n + cuts'
  BY <1>2 DEF CountedAt
<1>7. CountedAt(e) <=> /\ ~Closed(e) => gists[e] <= h + cuts
                       /\ Closed(e) => gists[e] + p <= n + cuts
  BY <1>2 DEF CountedAt
<1> QED
  BY <1>0, <1>2, <1>3, <1>4, <1>5, <1>6, <1>7
(* A step of a worker that leaves the episodes alone and has stored no gist *)
(* when it is done: it was not half way, or it is cut; and it takes up only *)
(* episodes that are aged and not compressed.                               *)
LEMMA OtherStep ==
    ASSUME Typed, Typed', GistInv, UNCHANGED <<episode, compressed, gist, gists>>,
           NEW w \in Worker, NEW where \in Stage, NEW l \in Locals, Go(w, where, l),
           cuts' = cuts + (IF w \in HalfWay THEN 1 ELSE 0),
           ~l.made, where # "point",
           where \in {"distil", "gist"} => w \notin HalfWay /\
              \A e \in l.batch : episode[e] # "free" /\ (Closed(e) => w \in Pending(e))
    PROVE  GistInv'
<1>0. WorkersType /\ WorkersType' /\ cuts \in Nat /\ gists \in [Episode -> Nat]
  BY DEF Typed, CountsType, TablesType
<1>1. /\ pc'[w] = where /\ loc'[w] = l
      /\ \A x \in Worker \ {w} : pc'[x] = pc[x] /\ loc'[x] = loc[x]
  BY <1>0, GoMoves
<1>2. Batches'
  <2>1. ASSUME NEW x \in Worker, x # w
        PROVE  /\ pc'[x] \notin {"gist", "point"} => ~loc'[x].made
               /\ pc'[x] = "point" => loc'[x].made /\ \A e \in loc'[x].batch : Closed(e)'
               /\ pc'[x] \in {"distil", "gist", "point"} => \A e \in loc'[x].batch : episode'[e] # "free"
    BY <1>1, <2>1 DEF GistInv, Batches, Closed
  <2>2. /\ pc'[w] \notin {"gist", "point"} => ~loc'[w].made
        /\ pc'[w] # "point"
        /\ pc'[w] \in {"distil", "gist", "point"} => \A e \in loc'[w].batch : episode'[e] # "free"
    BY <1>1
  <2> QED
    BY <2>1, <2>2 DEF Batches
<1>3. Seen'
  BY DEF GistInv, Seen
<1>4. ASSUME NEW e \in Episode PROVE CountedAt(e)' /\ PointedAt(e)'
  <2>1. CountedAt(e) /\ PointedAt(e) /\ (Closed(e) <=> Closed(e)')
    BY DEF GistInv, Closed
  <2>2. Half(e) \subseteq Half(e)' \cup {w} /\ (w \notin HalfWay => Half(e) \subseteq Half(e)')
    BY <1>1 DEF Half, HalfWay
  <2>3. Half(e) \cap Pending(e)' = {}
    BY <1>1 DEF Half, HalfWay, Pending
  <2>4. Closed(e) => Pending(e)' \subseteq Pending(e)
    BY <1>1 DEF Pending
  <2>5. /\ gists'[e] = gists[e] /\ cuts <= cuts' /\ (w \in HalfWay => cuts' = cuts + 1)
    BY <1>0
  <2>6. CountedAt(e)'
    BY <2>1, <2>2, <2>3, <2>4, <2>5, CountedFrame
  <2>7. PointedAt(e)'
    BY <1>0, <2>1, <2>2 DEF PointedAt
  <2> QED
    BY <2>6, <2>7
<1> QED
  BY <1>2, <1>3, <1>4 DEF GistInv

(* What happens to episodes around the cycles: nothing that is closed opens.*)
LEMMA AroundStep ==
    ASSUME Typed, Typed', GistInv, UNCHANGED <<pc, loc, cuts, gists>>,
           \A e \in Episode :
              /\ Closed(e) => Closed(e)'
              /\ episode'[e] = "free" => episode[e] = "free" /\ ~compressed'[e]
              /\ episode'[e] = "aged" => (gist[e] => gist'[e])
              /\ gists[e] > 0 /\ episode'[e] = "aged" => episode[e] = "aged"
    PROVE  GistInv'
<1>0. WorkersType
  BY DEF Typed
<1>1. Batches'
  <2>1. \A w \in Worker : loc[w].batch \subseteq Episode
    BY <1>0 DEF WorkersType, Locals
  <2> QED
    BY <2>1 DEF GistInv, Batches
<1>2. Seen'
  BY DEF GistInv, Seen
<1>3. ASSUME NEW e \in Episode PROVE CountedAt(e)' /\ PointedAt(e)'
  <2>1. CountedAt(e) /\ PointedAt(e) /\ cuts <= cuts'
    BY DEF GistInv, Typed, CountsType
  <2>2. Half(e)' = Half(e) /\ Pending(e)' = Pending(e) /\ Half(e) \cap Pending(e) = {}
    BY DEF Half, HalfWay, Pending
  <2>3. CountedAt(e)'
    BY <2>1, <2>2, CountedFrame
  <2>4. PointedAt(e)'
    BY <2>1, <2>2 DEF PointedAt
  <2> QED
    BY <2>3, <2>4
<1> QED
  BY <1>1, <1>2, <1>3 DEF GistInv
(* insert_fact stores a gist: the first one counts for the episodes of the  *)
(* batch, and the worker is half way from now on.                           *)
LEMMA InsertStep ==
    ASSUME Typed, Typed', GistInv, NEW w \in Worker, InsertGist(w)
    PROVE  GistInv'
<1>0. WorkersType /\ TablesType /\ cuts \in Nat
  BY DEF Typed, CountsType
<1>1. /\ pc[w] = "gist" /\ pc'[w] = "gist"
      /\ loc'[w] = [loc[w] EXCEPT !.left = @ - 1, !.made = TRUE]
      /\ \A x \in Worker \ {w} : pc'[x] = pc[x] /\ loc'[x] = loc[x]
      /\ UNCHANGED <<episode, compressed, gist, cuts>>
  BY <1>0, GoMoves DEF InsertGist, CycleOnly
<1>2. loc'[w].batch = loc[w].batch /\ loc'[w].made /\ loc[w] \in Locals
  BY <1>0, <1>1 DEF WorkersType, Locals
<1>3. \A e \in Episode : gists'[e] = IF e \in loc[w].batch /\ ~loc[w].made THEN gists[e] + 1 ELSE gists[e]
  BY DEF InsertGist
<1>4. Batches'
  <2>1. ASSUME NEW x \in Worker, x # w
        PROVE  /\ pc'[x] \notin {"gist", "point"} => ~loc'[x].made
               /\ pc'[x] = "point" => loc'[x].made /\ \A e \in loc'[x].batch : Closed(e)'
               /\ pc'[x] \in {"distil", "gist", "point"} => \A e \in loc'[x].batch : episode'[e] # "free"
    BY <1>1, <2>1 DEF GistInv, Batches, Closed
  <2>2. /\ pc'[w] \notin {"gist", "point"} => ~loc'[w].made
        /\ pc'[w] # "point"
        /\ pc'[w] \in {"distil", "gist", "point"} => \A e \in loc'[w].batch : episode'[e] # "free"
    BY <1>1, <1>2 DEF GistInv, Batches
  <2> QED
    BY <2>1, <2>2 DEF Batches
<1>5. Seen'
  BY <1>1, <1>3 DEF GistInv, Batches, Seen
<1>6. ASSUME NEW e \in Episode PROVE CountedAt(e)' /\ PointedAt(e)'
  <2>0. CountedAt(e) /\ PointedAt(e) /\ (Closed(e)' <=> Closed(e)) /\ gists[e] \in Nat
    BY <1>0, <1>1 DEF GistInv, Closed, TablesType
  <2>1. CASE e \in loc[w].batch /\ ~loc[w].made
    <3>1. /\ Half(e)' = Half(e) \cup {w} /\ w \notin Half(e)
          /\ Pending(e)' = Pending(e) \ {w} /\ w \in Pending(e)
      BY <1>1, <1>2, <2>1 DEF Half, HalfWay, Pending
    <3>2. IsFiniteSet(Half(e)) /\ IsFiniteSet(Pending(e))
      BY HalfType, Constants, FS_Subset
    <3>3. PICK h, p, n \in Nat : h = Cardinality(Half(e)) /\ p = Cardinality(Pending(e)) /\ n = Cardinality(Worker)
      <4>1. /\ Cardinality(Half(e)) \in Nat /\ Cardinality(Pending(e)) \in Nat
            /\ Cardinality(Worker) \in Nat
        BY <3>2, Constants, FS_CardinalityType
      <4> QED
        BY <4>1
    <3>4. Cardinality(Half(e)') = h + 1 /\ Cardinality(Pending(e)') = p - 1
      <4>1. Cardinality(Half(e) \cup {w}) = Cardinality(Half(e)) + 1
        BY <3>1, <3>2, FS_AddElement
      <4>2. Cardinality(Pending(e) \ {w}) = Cardinality(Pending(e)) - 1
        BY <3>1, <3>2, FS_RemoveElement
      <4> QED
        BY <3>1, <3>3, <4>1, <4>2
    <3>5. CountedAt(e)'
      <4>1. gists'[e] = gists[e] + 1 /\ cuts' = cuts
        BY <1>1, <1>3, <2>1
      <4> QED
        BY <1>0, <2>0, <3>3, <3>4, <4>1 DEF CountedAt
    <3> QED
      BY <3>1, <3>5 DEF PointedAt
  <2>2. CASE ~(e \in loc[w].batch /\ ~loc[w].made)
    <3>1. Half(e)' = Half(e) /\ Pending(e)' = Pending(e) /\ Half(e) \cap Pending(e) = {}
      BY <1>1, <1>2, <2>2 DEF Half, HalfWay, Pending
    <3>2. gists'[e] = gists[e] /\ cuts <= cuts'
      BY <1>0, <1>1, <1>3, <2>2
    <3>3. CountedAt(e)'
      BY <2>0, <3>1, <3>2, CountedFrame
    <3> QED
      BY <1>1, <2>0, <3>1, <3>2, <3>3 DEF PointedAt
  <2> QED
    BY <2>1, <2>2
<1> QED
  BY <1>4, <1>5, <1>6 DEF GistInv

(* The marks close the batch, whatever of it was forgotten meanwhile: who   *)
(* is pending then has still to count, and nobody else will.                *)
LEMMA MarkStep ==
    ASSUME Typed, Typed', GistInv, NEW w \in Worker, MarkCompressed(w) \/ PointToGist(w)
    PROVE  GistInv'
<1>0. WorkersType /\ TablesType /\ cuts \in Nat
  BY DEF Typed, CountsType
<1>1. /\ pc[w] \in {"gist", "point"} /\ loc[w] \in Locals
      /\ \A x \in Worker \ {w} : pc'[x] = pc[x] /\ loc'[x] = loc[x]
      /\ UNCHANGED <<episode, gists, cuts>>
      /\ \/ pc[w] = "gist" /\ loc[w].made /\ pc'[w] = "point" /\ loc'[w] = loc[w]
         \/ pc[w] = "gist" /\ ~loc[w].made /\ pc'[w] = "rest" /\ loc'[w] = NoLocals
         \/ pc[w] = "point" /\ pc'[w] = "rest" /\ loc'[w] = NoLocals
  <2>1. CASE MarkCompressed(w)
    <3>1. PICK where, l : /\ Go(w, where, l)
                          /\ \/ loc[w].made /\ where = "point" /\ l = loc[w]
                             \/ ~loc[w].made /\ where = "rest" /\ l = NoLocals
      BY <2>1 DEF MarkCompressed
    <3> QED
      BY <1>0, <2>1, <3>1, GoMoves DEF MarkCompressed, CycleOnly, WorkersType
  <2>2. CASE PointToGist(w)
    BY <1>0, <2>2, GoMoves DEF PointToGist, CycleOnly, WorkersType
  <2> QED
    BY <2>1, <2>2
<1>2. \A e \in Episode : /\ Closed(e) => Closed(e)'
                         /\ gist[e] => gist'[e]
                         /\ compressed'[e] => compressed[e] \/ episode[e] = "aged"
  BY <1>0 DEF MarkCompressed, PointToGist, Rows, Closed, TablesType
<1>3. \A e \in loc[w].batch : episode[e] \in {"aged", "forgotten"} /\ e \in Episode
  BY <1>0, <1>1 DEF GistInv, Batches, TablesType, Locals
<1>4. pc[w] = "gist" => \A e \in loc[w].batch : Closed(e)'
  BY <1>1, <1>3 DEF MarkCompressed, PointToGist, Rows, Closed
<1>5. pc[w] = "point" => \A e \in loc[w].batch : Closed(e)' /\ (episode'[e] = "aged" => gist'[e])
  BY <1>1, <1>2, <1>3 DEF MarkCompressed, PointToGist, Rows, GistInv, Batches
<1>6. Batches'
  <2>1. ASSUME NEW x \in Worker, x # w
        PROVE  /\ pc'[x] \notin {"gist", "point"} => ~loc'[x].made
               /\ pc'[x] = "point" => loc'[x].made /\ \A e \in loc'[x].batch : Closed(e)'
               /\ pc'[x] \in {"distil", "gist", "point"} => \A e \in loc'[x].batch : episode'[e] # "free"
    <3>1. loc[x].batch \subseteq Episode
      BY <1>0 DEF WorkersType, Locals
    <3> QED
      BY <1>1, <1>2, <2>1, <3>1 DEF GistInv, Batches
  <2>2. /\ pc'[w] \notin {"gist", "point"} => ~loc'[w].made
        /\ pc'[w] = "point" => loc'[w].made /\ \A e \in loc'[w].batch : Closed(e)'
        /\ pc'[w] \in {"distil", "gist", "point"} => \A e \in loc'[w].batch : episode'[e] # "free"
    BY <1>1, <1>3, <1>4 DEF NoLocals
  <2> QED
    BY <2>1, <2>2 DEF Batches
<1>7. Seen'
  BY <1>1, <1>2 DEF GistInv, Seen
<1>8. ASSUME NEW e \in Episode PROVE CountedAt(e)' /\ PointedAt(e)'
  <2>1. CountedAt(e) /\ PointedAt(e) /\ cuts <= cuts' /\ gists'[e] = gists[e]
    BY <1>0, <1>1 DEF GistInv
  <2>2. /\ Half(e) \cap Pending(e)' = {} /\ Pending(e)' \subseteq Pending(e)
        /\ Half(e) \ {w} \subseteq Half(e)'
        /\ w \in Half(e) => w \in Half(e)' \/ (pc[w] = "point" /\ e \in loc[w].batch)
    BY <1>1 DEF Half, HalfWay, Pending
  <2>3. CountedAt(e)'
    BY <1>2, <1>5, <2>1, <2>2, CountedFrame
  <2>4. PointedAt(e)'
    BY <1>1, <1>2, <1>5, <2>1, <2>2 DEF PointedAt
  <2> QED
    BY <2>3, <2>4
<1> QED
  BY <1>6, <1>7, <1>8 DEF GistInv
LEMMA GistStep == Typed /\ Typed' /\ GistInv /\ [Next]_vars => GistInv'
<1> SUFFICES ASSUME Typed, Typed', GistInv, [Next]_vars PROVE GistInv'
  OBVIOUS
<1> USE DEF tableVars
<1>0. WorkersType /\ TablesType /\ SchedulerType /\ cuts \in Nat
  BY DEF Typed, CountsType
<1>a. \A w \in Worker : loc[w] \in Locals
  BY <1>0 DEF WorkersType
<1>1. CASE UNCHANGED <<episode, compressed, gist, gists, pc, loc, cuts>>
  <2>1. \A e \in Episode : (Closed(e) <=> Closed(e)')
    BY <1>1 DEF Closed
  <2> QED
    BY <1>1, <2>1, AroundStep DEF GistInv, Seen
<1>2. ASSUME NEW w \in Worker, CycleStep(w) PROVE GistInv'
  <2>0. ASSUME NEW where \in (Cycle \ {"distil", "gist", "point"}) \cup {"top", "none"}, NEW l \in Locals,
               Go(w, where, l), ~l.made, UNCHANGED <<episode, compressed, gist, gists, cuts>>,
               pc[w] \notin {"gist", "point"}
        PROVE  GistInv'
    <3>1. where \in Stage /\ w \notin HalfWay /\ cuts' = cuts + 0
      BY <1>0, <2>0 DEF Stage, Outside, Cycle, HalfWay
    <3> QED
      BY <2>0, <3>1, OtherStep
  <2>1. pc[w] \notin {"gist", "point"} => ~loc[w].made
    BY DEF GistInv, Batches
  <2>2. CASE SelectPercepts(w)
    <3>1. [loc[w] EXCEPT !.todo = Live] \in Locals /\ ~[loc[w] EXCEPT !.todo = Live].made
      BY <1>a, <2>1, <2>2 DEF SelectPercepts, Locals, Live
    <3> QED
      BY <2>0, <2>2, <3>1 DEF SelectPercepts, CycleOnly, Cycle
  <2>3. CASE Promote(w)
    <3>1. PICK p \in loc[w].todo : Go(w, "drop", [loc[w] EXCEPT !.todo = @ \ {p}, !.cur = p])
      BY <2>3 DEF Promote
    <3>2. /\ [loc[w] EXCEPT !.todo = @ \ {p}, !.cur = p] \in Locals
          /\ ~[loc[w] EXCEPT !.todo = @ \ {p}, !.cur = p].made
      BY <1>a, <2>1, <2>3 DEF Promote, Locals
    <3> QED
      BY <2>0, <2>3, <3>1, <3>2 DEF Promote, CycleOnly, Cycle
  <2>4. CASE Drop(w)
    <3>1. [loc[w] EXCEPT !.cur = NoPercept] \in Locals /\ ~[loc[w] EXCEPT !.cur = NoPercept].made
      BY <1>a, <2>1, <2>4 DEF Drop, Locals
    <3> QED
      BY <2>0, <2>4, <3>1 DEF Drop, CycleOnly, Cycle
  <2>5. CASE SweepExpired(w)
    BY <1>a, <2>0, <2>1, <2>5 DEF SweepExpired, CycleOnly, Cycle
  <2>6. CASE SelectEpisodes(w)
    <3>1. CASE Go(w, "rest", loc[w])
      BY <1>a, <2>0, <2>1, <2>6, <3>1 DEF SelectEpisodes, CycleOnly, Cycle
    <3>2. CASE \E b \in SUBSET Backlog : Go(w, "distil", [loc[w] EXCEPT !.batch = b])
      <4>1. PICK b \in SUBSET Backlog : Go(w, "distil", [loc[w] EXCEPT !.batch = b])
        BY <3>2
      <4>2. PICK l \in Locals : l = [loc[w] EXCEPT !.batch = b] /\ l.batch = b /\ ~l.made
        <5> DEFINE l == [loc[w] EXCEPT !.batch = b]
        <5>1. l \in Locals /\ l.batch = b /\ ~l.made
          BY <1>a, <2>1, <2>6 DEF SelectEpisodes, Locals, Backlog
        <5> QED
          BY <5>1
      <4>3. \A e \in b : episode[e] # "free" /\ ~Closed(e)
        BY DEF Backlog, Closed
      <4>4. w \notin HalfWay /\ cuts' = cuts + 0 /\ UNCHANGED <<episode, compressed, gist, gists>>
        BY <1>0, <2>6 DEF SelectEpisodes, HalfWay, CycleOnly
      <4> QED
        BY <4>1, <4>2, <4>3, <4>4, OtherStep DEF Stage, Cycle
    <3> QED
      BY <2>6, <3>1, <3>2 DEF SelectEpisodes
  <2>7. CASE Distil(w)
    <3>1. PICK n \in 0..MaxGists : Go(w, "gist", [loc[w] EXCEPT !.left = n])
      BY <2>7 DEF Distil
    <3>2. PICK l \in Locals : l = [loc[w] EXCEPT !.left = n] /\ l.batch = loc[w].batch /\ ~l.made
      <4> DEFINE l == [loc[w] EXCEPT !.left = n]
      <4>1. l \in Locals /\ l.batch = loc[w].batch /\ ~l.made
        BY <1>a, <2>1, <2>7 DEF Distil, Locals
      <4> QED
        BY <4>1
    <3>3. \A e \in loc[w].batch : episode[e] # "free" /\ w \in Pending(e)
      BY <2>1, <2>7 DEF Distil, GistInv, Batches, Pending
    <3>4. w \notin HalfWay /\ cuts' = cuts + 0 /\ UNCHANGED <<episode, compressed, gist, gists>>
      BY <1>0, <2>7 DEF Distil, HalfWay, CycleOnly
    <3> QED
      BY <3>1, <3>2, <3>3, <3>4, OtherStep DEF Stage, Cycle
  <2>8. CASE Rest(w)
    <3>1. PICK where \in {"top", "none"} : Go(w, where, loc[w])
      BY <2>8 DEF Rest
    <3> QED
      BY <1>a, <2>0, <2>1, <2>8, <3>1 DEF Rest, CycleOnly, Cycle
  <2> QED
    BY <1>2, <2>2, <2>3, <2>4, <2>5, <2>6, <2>7, <2>8, InsertStep, MarkStep DEF CycleStep
<1>3. ASSUME NEW w \in Worker, Fail(w) PROVE GistInv'
  <2>1. PICK where \in (Cycle \ {"distil", "gist", "point"}) \cup {"top"}, l \in Locals : Go(w, where, l) /\ ~l.made
    <3>1. pc[w] \notin {"gist", "point"} => ~loc[w].made
      BY DEF GistInv, Batches
    <3>2. \/ /\ pc[w] \notin {"gist", "point"}
             /\ \E where \in {"top", "promote", "episodes"} : Go(w, where, loc[w])
          \/ /\ pc[w] \notin {"gist", "point"}
             /\ \E p \in loc[w].todo \cap Worthy :
                   Go(w, "drop", [loc[w] EXCEPT !.todo = @ \ {p}, !.cur = p])
          \/ \E where \in {"promote", "rest"} : Go(w, where, NoLocals)
      BY <1>3 DEF Fail
    <3>3. ASSUME NEW p \in loc[w].todo \cap Worthy, ~loc[w].made
          PROVE  /\ [loc[w] EXCEPT !.todo = @ \ {p}, !.cur = p] \in Locals
                 /\ ~[loc[w] EXCEPT !.todo = @ \ {p}, !.cur = p].made
      BY <1>a, <3>3 DEF Locals
    <3>4. NoLocals \in Locals /\ ~NoLocals.made
      BY NoLocalsType DEF NoLocals
    <3>5. {"top", "promote", "episodes", "drop", "rest"}
             \subseteq (Cycle \ {"distil", "gist", "point"}) \cup {"top"}
      BY DEF Cycle
    <3>6. CASE pc[w] \notin {"gist", "point"} /\ \E where \in {"top", "promote", "episodes"} : Go(w, where, loc[w])
      BY <1>a, <3>1, <3>5, <3>6
    <3>7. CASE /\ pc[w] \notin {"gist", "point"}
               /\ \E p \in loc[w].todo \cap Worthy :
                     Go(w, "drop", [loc[w] EXCEPT !.todo = @ \ {p}, !.cur = p])
      BY <3>1, <3>3, <3>5, <3>7
    <3>8. CASE \E where \in {"promote", "rest"} : Go(w, where, NoLocals)
      BY <3>4, <3>5, <3>8
    <3> QED
      BY <3>2, <3>6, <3>7, <3>8
  <2>2. cuts' = cuts + (IF w \in HalfWay THEN 1 ELSE 0)
    <3>1. {w} \cap HalfWay = IF w \in HalfWay THEN {w} ELSE {}
      OBVIOUS
    <3>2. Cardinality({w}) = 1 /\ Cardinality({}) = 0
      BY FS_Singleton, FS_EmptySet
    <3>3. cuts' = cuts + Cardinality({w} \cap HalfWay)
      BY <1>3 DEF Fail, Cut
    <3> QED
      BY <3>1, <3>2, <3>3
  <2>3. UNCHANGED <<episode, compressed, gist, gists>> /\ where \in Stage /\ where # "point"
    BY <1>3, <2>1 DEF Fail, Stage, Outside, Cycle
  <2> QED
    BY <2>1, <2>2, <2>3, OtherStep
<1>b. ASSUME NEW w \in Worker, pc[w] \notin {"gist", "point"},
             NEW where \in Outside \cup {"percepts", "ended"}, Go(w, where, NoLocals),
             UNCHANGED <<episode, compressed, gist, gists, cuts>>
      PROVE  GistInv'
  <2>1. w \notin HalfWay /\ cuts' = cuts + 0 /\ ~NoLocals.made /\ where \in Stage
        /\ where \notin {"distil", "gist", "point"}
    BY <1>0, <1>b DEF HalfWay, NoLocals, Stage, Outside, Cycle
  <2> QED
    BY <1>b, <2>1, OtherStep, NoLocalsType
<1>4. ASSUME NEW l \in Loop, CheckRunning(l) \/ SelectUsers(l) PROVE GistInv'
  <2>1. PICK where \in Outside \cup {"percepts", "ended"} : Go(l, where, NoLocals)
    BY <1>4 DEF CheckRunning, SelectUsers, Outside
  <2> QED
    BY <1>4, <1>b, <2>1, Constants DEF CheckRunning, SelectUsers, CycleOnly
<1>5. ASSUME NEW c \in Caller, Consolidate(c) PROVE GistInv'
  BY <1>5, <1>b, Constants DEF Consolidate
<1>6. CASE Start
  BY <1>6, <1>b, Constants DEF Start, Outside
<1>7. CASE Stop
  <2>1. CASE handle = NoLoop
    BY <1>1, <1>7, <2>1 DEF Stop
  <2>2. CASE handle # NoLoop
    <3>1. /\ handle \in Worker /\ Go(handle, "ended", NoLocals) /\ Cut({handle})
          /\ UNCHANGED <<episode, compressed, gist, gists>>
      BY <1>0, <1>7, <2>2, Constants DEF Stop, SchedulerType
    <3>2. PICK w \in Worker : w = handle
      BY <3>1
    <3>3. cuts' = cuts + (IF w \in HalfWay THEN 1 ELSE 0)
      <4>1. {w} \cap HalfWay = IF w \in HalfWay THEN {w} ELSE {}
        OBVIOUS
      <4>2. Cardinality({w}) = 1 /\ Cardinality({}) = 0
        BY FS_Singleton, FS_EmptySet
      <4>3. cuts' = cuts + Cardinality({w} \cap HalfWay)
        BY <3>1, <3>2 DEF Cut
      <4> QED
        BY <4>1, <4>2, <4>3
    <3>4. ~NoLocals.made /\ "ended" \in Stage
      BY DEF NoLocals, Stage
    <3> QED
      BY <3>1, <3>2, <3>3, <3>4, OtherStep, NoLocalsType
  <2> QED
    BY <2>1, <2>2
<1>8. CASE Crash
  <2>1. /\ \A w \in Worker : pc'[w] \in {"none", "ended"} /\ loc'[w] = NoLocals
        /\ UNCHANGED <<episode, compressed, gist, gists>>
        /\ cuts' = cuts + Cardinality(HalfWay)
    <3>1. Worker \cap HalfWay = HalfWay
      BY DEF HalfWay
    <3> QED
      BY <1>8, <3>1 DEF Crash, Cut
  <2>2. Batches'
    BY <2>1 DEF Batches, NoLocals
  <2>3. Seen'
    BY <2>1 DEF GistInv, Seen
  <2>4. ASSUME NEW e \in Episode PROVE CountedAt(e)' /\ PointedAt(e)'
    <3>1. CountedAt(e) /\ PointedAt(e) /\ gists'[e] = gists[e] /\ (Closed(e) <=> Closed(e)')
      BY <2>1 DEF GistInv, Closed
    <3>2. Pending(e)' = {}
      BY <2>1 DEF Pending
    <3>3. IsFiniteSet(HalfWay) /\ Half(e) \subseteq HalfWay
      BY HalfType, Constants, FS_Subset DEF Half
    <3>4. /\ Cardinality(HalfWay) \in Nat /\ Cardinality(Half(e)) \in Nat
          /\ Cardinality(Half(e)) <= Cardinality(HalfWay)
          /\ Half(e) # {} => Cardinality(Half(e)) # 0
      BY <3>3, FS_Subset, FS_CardinalityType, FS_EmptySet
    <3>5. cuts <= cuts' /\ cuts' >= cuts + Cardinality(Half(e)) /\ (cuts' = 0 => cuts = 0 /\ Half(e) = {})
      BY <1>0, <2>1, <3>4
    <3>6. CountedAt(e)'
      BY <3>1, <3>2, <3>5, CountedFrame
    <3>7. PointedAt(e)'
      BY <2>1, <3>1, <3>5 DEF PointedAt
    <3> QED
      BY <3>6, <3>7
  <2> QED
    BY <2>2, <2>3, <2>4 DEF GistInv
<1>9. CASE Environment
  <2>1. ASSUME NEW p \in Percept, BufferPercept(p) \/ Expire(p) PROVE GistInv'
    BY <1>1, <2>1 DEF BufferPercept, Expire, Quiet
  <2>2. ASSUME NEW x \in Episode, Age(x) PROVE GistInv'
    <3>1. /\ episode[x] = "free" /\ episode' = [episode EXCEPT ![x] = "aged"]
          /\ UNCHANGED <<compressed, gist, gists, pc, loc, cuts>>
      BY <2>2 DEF Age, Quiet
    <3>2. ~compressed[x] /\ ~(gists[x] > 0)
      BY <3>1 DEF GistInv, Seen
    <3>3. \A e \in Episode : /\ Closed(e) => Closed(e)'
                             /\ episode'[e] = "free" => episode[e] = "free" /\ ~compressed'[e]
                             /\ episode'[e] = "aged" => (gist[e] => gist'[e])
                             /\ gists[e] > 0 /\ episode'[e] = "aged" => episode[e] = "aged"
      BY <1>0, <3>1, <3>2 DEF Closed, GistInv, Seen, TablesType
    <3> QED
      BY <3>1, <3>3, AroundStep
  <2>3. ASSUME NEW P, NEW E, Forgotten(P, E) PROVE GistInv'
    <3>1. /\ \A e \in Episode :
                /\ episode'[e] = IF e \in E /\ episode[e] = "aged" THEN "forgotten" ELSE episode[e]
                /\ compressed'[e] <=> compressed[e] /\ e \notin E
                /\ gist'[e] <=> gist[e] /\ e \notin E
          /\ UNCHANGED <<gists, pc, loc, cuts>>
      BY <2>3 DEF Forgotten, Quiet
    <3>2. \A e \in Episode : /\ compressed[e] \in BOOLEAN /\ compressed'[e] \in BOOLEAN
                             /\ gist[e] \in BOOLEAN /\ gist'[e] \in BOOLEAN
                             /\ episode[e] \in {"free", "aged", "forgotten"}
      BY <1>0 DEF Typed, TablesType
    <3>3. ASSUME NEW e \in Episode
          PROVE  /\ Closed(e) => Closed(e)'
                 /\ episode'[e] = "free" => episode[e] = "free" /\ ~compressed'[e]
                 /\ episode'[e] = "aged" => (gist[e] => gist'[e])
                 /\ gists[e] > 0 /\ episode'[e] = "aged" => episode[e] = "aged"
      <4>1. compressed[e] => episode[e] # "free"
        BY DEF GistInv, Seen
      <4> QED
        BY <3>1, <3>2, <4>1 DEF Closed
    <3> QED
      BY <3>1, <3>3, AroundStep
  <2> QED
    BY <1>1, <1>9, <2>1, <2>2, <2>3 DEF Environment, Eligibility, ForgetUser, ForgetScope, Quiet
<1> QED
  BY <1>1, <1>2, <1>3, <1>4, <1>5, <1>6, <1>7, <1>8, <1>9 DEF Next, vars, Stopped

(* However many cycles overlap, are cancelled or fail, an episode gives     *)
(* gists no more than once for each of them and once for each cut, and      *)
(* points to a gist if none was cut.                                        *)
THEOREM GistsAreBounded == Spec => []GistsBounded
<1>1. Init => GistInv
  <2> SUFFICES ASSUME Init PROVE GistInv
    OBVIOUS
  <2>1. Batches /\ Seen
    BY DEF Init, Batches, Seen, NoLocals
  <2>2. ASSUME NEW e \in Episode PROVE CountedAt(e) /\ PointedAt(e)
    <3>1. gists[e] = 0 /\ cuts = 0 /\ ~Closed(e)
      BY <2>2 DEF Init, Closed
    <3>2. Cardinality(Half(e)) \in Nat
      BY HalfType, Constants, FS_Subset, FS_CardinalityType
    <3> QED
      BY <3>1, <3>2 DEF CountedAt, PointedAt
  <2> QED
    BY <2>1, <2>2 DEF GistInv
<1> QED
  BY <1>1, InitTyped, TypedStep, GistStep, GistInvBounds, PTL DEF Spec
-----------------------------------------------------------------------------
(***************************************************************************)
(* The connections, which the cycles share with the requests of a process: *)
(* for any number of tasks and any pool none is lost, and a pool larger    *)
(* than what waiting requests hold never stalls.                           *)
(*                                                                         *)
(* The inductive invariant is PoolTypeOK /\ Accounted.  A step changes     *)
(* what one task holds to the depth of its new place, and the pool by the  *)
(* difference (StepMoves); counting the holders of a first, a second and a *)
(* third connection then shows that nothing is lost (HoldersShift).        *)
(***************************************************************************)

(* The tasks that hold n connections or more under h; one if it is one.     *)
Above(h, n) == {t \in Task : h[t] >= n}
One(h, t, n) == IF h[t] >= n THEN 1 ELSE 0

LEMMA TaskFinite == IsFiniteSet(Task)
  BY PoolAssumption, FS_Union DEF Task

(* Above(h, n) is a finite set, so its cardinality is a number.             *)
LEMMA AboveFinite ==
  ASSUME NEW h, NEW n
  PROVE  IsFiniteSet(Above(h, n)) /\ Cardinality(Above(h, n)) \in Nat
  BY TaskFinite, FS_Subset, FS_CardinalityType DEF Above

(* Changing what one task holds changes each set of holders by that task.   *)
LEMMA AboveShift ==
  ASSUME NEW h \in [Task -> 0..3], NEW t \in Task, NEW k \in 0..3, NEW n \in 1..3
  PROVE  Cardinality(Above([h EXCEPT ![t] = k], n))
           = Cardinality(Above(h, n)) - One(h, t, n) + (IF k >= n THEN 1 ELSE 0)
<1> DEFINE g == [h EXCEPT ![t] = k]
           rest == {u \in Task \ {t} : h[u] >= n}
<1>1. IsFiniteSet(rest) /\ Cardinality(rest) \in Nat /\ t \notin rest
  <2>1. rest \subseteq Task
    OBVIOUS
  <2> QED BY <2>1, TaskFinite, FS_Subset, FS_CardinalityType
<1>2. Cardinality(rest \cup {t}) = Cardinality(rest) + 1
  BY <1>1, FS_AddElement
<1>3. Above(h, n) = IF h[t] >= n THEN rest \cup {t} ELSE rest
  BY DEF Above
<1>4. Above(g, n) = IF k >= n THEN rest \cup {t} ELSE rest
  BY DEF Above
<1> QED BY <1>1, <1>2, <1>3, <1>4 DEF One

(* The number of connections held changes by as much as the task's share.   *)
LEMMA HoldersShift ==
  ASSUME NEW h \in [Task -> 0..3], NEW t \in Task, NEW k \in 0..3
  PROVE  LET g == [h EXCEPT ![t] = k] IN
         Cardinality(Above(g, 1)) + Cardinality(Above(g, 2)) + Cardinality(Above(g, 3)) + h[t]
           = Cardinality(Above(h, 1)) + Cardinality(Above(h, 2)) + Cardinality(Above(h, 3)) + k
<1> DEFINE g == [h EXCEPT ![t] = k]
           In(n) == IF k >= n THEN 1 ELSE 0
<1>1. \A n \in 1..3 : Cardinality(Above(g, n)) = Cardinality(Above(h, n)) - One(h, t, n) + In(n)
  BY AboveShift
<1>2. One(h, t, 1) + One(h, t, 2) + One(h, t, 3) = h[t]
  <2>1. h[t] \in 0..3
    OBVIOUS
  <2> QED BY <2>1 DEF One
<1>3. In(1) + In(2) + In(3) = k
  OBVIOUS
<1>4. /\ Cardinality(Above(h, 1)) \in Nat /\ Cardinality(Above(h, 2)) \in Nat
      /\ Cardinality(Above(h, 3)) \in Nat
  BY AboveFinite
<1>5. /\ One(h, t, 1) \in 0..1 /\ One(h, t, 2) \in 0..1 /\ One(h, t, 3) \in 0..1
      /\ In(1) \in 0..1 /\ In(2) \in 0..1 /\ In(3) \in 0..1
  BY DEF One
<1>6. /\ Cardinality(Above(g, 1)) = Cardinality(Above(h, 1)) - One(h, t, 1) + In(1)
      /\ Cardinality(Above(g, 2)) = Cardinality(Above(h, 2)) - One(h, t, 2) + In(2)
      /\ Cardinality(Above(g, 3)) = Cardinality(Above(h, 3)) - One(h, t, 3) + In(3)
  BY <1>1
<1>7. h[t] \in 0..3
  OBVIOUS
<1> HIDE DEF g, In
<1> QED BY <1>2, <1>3, <1>4, <1>5, <1>6, <1>7 DEF g
-----------------------------------------------------------------------------
PoolInv == PoolTypeOK /\ Accounted

(* What a task holds is at most three connections.                          *)
LEMMA DepthType == ASSUME NEW t, NEW w PROVE DepthAt(t, w) \in 0..3
  BY DEF DepthAt

LEMMA InitPoolInv == PoolInit => PoolInv
<1> SUFFICES ASSUME PoolInit PROVE PoolInv
  OBVIOUS
<1>1. PoolTypeOK
  BY PoolAssumption DEF PoolInit, PoolTypeOK, Task
<1>2. \A t \in Task : held[t] = Depth(t)
  BY DEF PoolInit, Depth, DepthAt
<1>3. Holding(1) = {} /\ Holding(2) = {} /\ Holding(3) = {}
  BY DEF PoolInit, Holding
<1>4. free = PoolSize /\ PoolSize \in Nat
  BY PoolAssumption DEF PoolInit
<1>5. Accounted
  BY <1>2, <1>3, <1>4, FS_EmptySet DEF Accounted
<1> QED BY <1>1, <1>5 DEF PoolInv

(* A step moves one task to a place, and it holds what the place requires.  *)
Moved(t, w) ==
    /\ place' = [place EXCEPT ![t] = w]
    /\ held' = [held EXCEPT ![t] = DepthAt(t, w)]
    /\ free' = free + held[t] - DepthAt(t, w) /\ free' \in Nat

(* A step that leaves the connections alone moves a task if the places are  *)
(* equally deep.                                                            *)
LEMMA StayMoved ==
  ASSUME PoolInv, NEW t \in Task, NEW w, GoTo(t, w), UNCHANGED <<held, free>>,
         DepthAt(t, w) = DepthAt(t, place[t])
  PROVE  Moved(t, w)
<1>1. held[t] = DepthAt(t, w) /\ held \in [Task -> 0..3] /\ free \in Nat /\ DepthAt(t, w) \in 0..3
  BY DepthType DEF PoolInv, PoolTypeOK, Accounted, Depth
<1>2. held' = [held EXCEPT ![t] = DepthAt(t, w)]
  BY <1>1
<1>3. free' = free + held[t] - DepthAt(t, w) /\ free' \in Nat
  BY <1>1
<1> QED BY <1>2, <1>3 DEF Moved, GoTo

(* One that gives n connections back moves it if the place is n less deep.  *)
LEMMA ReleaseMoved ==
  ASSUME PoolInv, NEW t \in Task, NEW w, GoTo(t, w), NEW n \in Nat, Release(t, n),
         DepthAt(t, w) = DepthAt(t, place[t]) - n
  PROVE  Moved(t, w)
<1>1. held[t] = DepthAt(t, place[t]) /\ held \in [Task -> 0..3] /\ free \in Nat
  BY DEF PoolInv, PoolTypeOK, Accounted, Depth
<1>2. held[t] \in 0..3 /\ held[t] - n = DepthAt(t, w)
  BY <1>1
<1>3. held' = [held EXCEPT ![t] = DepthAt(t, w)]
  BY <1>1, <1>2 DEF Release
<1>4. free' = free + n /\ free' \in Nat /\ n = held[t] - DepthAt(t, w)
  BY <1>1, <1>2 DEF Release
<1> QED BY <1>1, <1>2, <1>3, <1>4 DEF Moved, GoTo

(* One that takes a connection moves it if the place is one deeper.         *)
LEMMA AcquireMoved ==
  ASSUME PoolInv, NEW t \in Task, NEW w, GoTo(t, w), Acquire(t),
         DepthAt(t, w) = DepthAt(t, place[t]) + 1
  PROVE  Moved(t, w)
<1>1. held[t] = DepthAt(t, place[t]) /\ held \in [Task -> 0..3] /\ free \in Nat
  BY DEF PoolInv, PoolTypeOK, Accounted, Depth
<1>2. held[t] \in 0..3 /\ held[t] + 1 = DepthAt(t, w)
  BY <1>1
<1>3. held' = [held EXCEPT ![t] = DepthAt(t, w)]
  BY <1>1, <1>2 DEF Acquire
<1>4. free' = free + held[t] - DepthAt(t, w) /\ free' \in Nat
  BY <1>1, <1>2 DEF Acquire
<1> QED BY <1>3, <1>4 DEF Moved, GoTo

(* The places a task may be at.                                             *)
PlacesOf(t) ==
    IF t \in Simple THEN {"idle", "simple", "reading"}
    ELSE IF t \in Writer THEN {"idle"} \cup Inserting
    ELSE {"idle", "dream", "dreaming", "part", "updating"} \cup Inserting

LEMMA AtItsPlace == ASSUME PoolInv, NEW t \in Task PROVE place[t] \in PlacesOf(t)
  BY PoolAssumption DEF PoolInv, PoolTypeOK, PlacesOf, Task

LEMMA StepMoves ==
  ASSUME PoolInv, NEW t \in Task, Step(t)
  PROVE  \E w \in PlacesOf(t) : Moved(t, w)
<1>0. place[t] \in PlacesOf(t)
  BY AtItsPlace
<1>1. CASE Begin(t)
  <2> DEFINE w == IF t \in Simple THEN "simple" ELSE IF t \in Writer THEN "insert" ELSE "dream"
  <2>1. w \in PlacesOf(t)
    BY DEF PlacesOf, Inserting
  <2>2. DepthAt(t, w) = DepthAt(t, place[t])
    BY <1>1, PoolAssumption DEF Begin, DepthAt, Task
  <2>3. GoTo(t, w) /\ UNCHANGED <<held, free>>
    BY <1>1 DEF Begin
  <2> HIDE DEF w
  <2> QED BY <2>1, <2>2, <2>3, StayMoved
<1>2. CASE Connect(t)
  <2> DEFINE w == CASE place[t] = "simple" -> "reading"
                    [] place[t] = "dream" -> "dreaming"
                    [] place[t] = "part" -> "updating"
                    [] place[t] = "insert" -> "hash"
                    [] place[t] = "search" -> "searching"
                    [] place[t] = "retire" -> "retiring"
                    [] place[t] = "store" -> "storing"
  <2>1. w \in PlacesOf(t)
    BY <1>0, <1>2 DEF Connect, Wants, PlacesOf, Inserting
  <2>2. DepthAt(t, w) = DepthAt(t, place[t]) + 1
    BY <1>0, <1>2, PoolAssumption DEF Connect, Wants, PlacesOf, Inserting, DepthAt, Task
  <2>3. GoTo(t, w) /\ Acquire(t)
    BY <1>2 DEF Connect
  <2> HIDE DEF w
  <2> QED BY <2>1, <2>2, <2>3, AcquireMoved
<1>3. CASE Read(t)
  <2>1. "idle" \in PlacesOf(t) /\ DepthAt(t, "idle") = DepthAt(t, place[t]) - 1
    BY <1>0, <1>3, PoolAssumption DEF Read, PlacesOf, Inserting, DepthAt, Task
  <2>2. GoTo(t, "idle") /\ Release(t, 1)
    BY <1>3 DEF Read
  <2> QED BY <2>1, <2>2, ReleaseMoved
<1>4. CASE HashCheck(t)
  <2>1. CASE Release(t, 1) /\ GoTo(t, Home(t))
    <3>1. Home(t) \in PlacesOf(t) /\ DepthAt(t, Home(t)) = DepthAt(t, place[t]) - 1
      BY <1>0, <1>4, PoolAssumption DEF HashCheck, Home, PlacesOf, Inserting, DepthAt, Task
    <3> QED BY <2>1, <3>1, ReleaseMoved
  <2>2. CASE UNCHANGED <<held, free>> /\ GoTo(t, "search")
    <3>1. "search" \in PlacesOf(t) /\ DepthAt(t, "search") = DepthAt(t, place[t])
      BY <1>0, <1>4 DEF HashCheck, PlacesOf, Inserting, DepthAt
    <3> QED BY <2>2, <3>1, StayMoved
  <2> QED BY <1>4, <2>1, <2>2 DEF HashCheck
<1>5. CASE Searched(t)
  <2>1. "decide" \in PlacesOf(t) /\ DepthAt(t, "decide") = DepthAt(t, place[t]) - 1
    BY <1>0, <1>5, PoolAssumption DEF Searched, PlacesOf, Inserting, DepthAt, Task
  <2>2. GoTo(t, "decide") /\ Release(t, 1)
    BY <1>5 DEF Searched
  <2> QED BY <2>1, <2>2, ReleaseMoved
<1>6. CASE Decide(t)
  <2>1. CASE Release(t, 1) /\ GoTo(t, Home(t))
    <3>1. Home(t) \in PlacesOf(t) /\ DepthAt(t, Home(t)) = DepthAt(t, place[t]) - 1
      BY <1>0, <1>6, PoolAssumption DEF Decide, Home, PlacesOf, Inserting, DepthAt, Task
    <3> QED BY <2>1, <3>1, ReleaseMoved
  <2>2. ASSUME NEW w \in {"retire", "leave"}, UNCHANGED <<held, free>> /\ GoTo(t, w)
        PROVE  \E v \in PlacesOf(t) : Moved(t, v)
    <3>1. w \in PlacesOf(t) /\ DepthAt(t, w) = DepthAt(t, place[t])
      BY <1>0, <1>6 DEF Decide, PlacesOf, Inserting, DepthAt
    <3> QED BY <2>2, <3>1, StayMoved
  <2> QED BY <1>6, <2>1, <2>2 DEF Decide
<1>7. CASE Retired(t)
  <2>1. "leave" \in PlacesOf(t) /\ DepthAt(t, "leave") = DepthAt(t, place[t]) - 1
    BY <1>0, <1>7, PoolAssumption DEF Retired, PlacesOf, Inserting, DepthAt, Task
  <2>2. GoTo(t, "leave") /\ Release(t, 1)
    BY <1>7 DEF Retired
  <2> QED BY <2>1, <2>2, ReleaseMoved
<1>8. CASE Leave(t)
  <2>1. "store" \in PlacesOf(t) /\ DepthAt(t, "store") = DepthAt(t, place[t]) - 1
    BY <1>0, <1>8, PoolAssumption DEF Leave, PlacesOf, Inserting, DepthAt, Task
  <2>2. GoTo(t, "store") /\ Release(t, 1)
    BY <1>8 DEF Leave
  <2> QED BY <2>1, <2>2, ReleaseMoved
<1>9. CASE Stored(t)
  <2>1. Home(t) \in PlacesOf(t) /\ DepthAt(t, Home(t)) = DepthAt(t, place[t]) - 1
    BY <1>0, <1>9, PoolAssumption DEF Stored, Home, PlacesOf, Inserting, DepthAt, Task
  <2>2. GoTo(t, Home(t)) /\ Release(t, 1)
    BY <1>9 DEF Stored
  <2> QED BY <2>1, <2>2, ReleaseMoved
<1>10. CASE DreamOn(t)
  <2>1. ASSUME NEW w \in {"part", "insert"}, UNCHANGED <<held, free>> /\ GoTo(t, w)
        PROVE  \E v \in PlacesOf(t) : Moved(t, v)
    <3>1. w \in PlacesOf(t) /\ DepthAt(t, w) = DepthAt(t, place[t])
      BY <1>0, <1>10 DEF DreamOn, PlacesOf, Inserting, DepthAt
    <3> QED BY <2>1, <3>1, StayMoved
  <2>2. CASE Release(t, 1) /\ GoTo(t, "idle")
    <3>1. "idle" \in PlacesOf(t) /\ DepthAt(t, "idle") = DepthAt(t, place[t]) - 1
      BY <1>0, <1>10, PoolAssumption DEF DreamOn, PlacesOf, Inserting, DepthAt, Task
    <3> QED BY <2>2, <3>1, ReleaseMoved
  <2> QED BY <1>10, <2>1, <2>2 DEF DreamOn
<1>11. CASE Updated(t)
  <2>1. "dreaming" \in PlacesOf(t) /\ DepthAt(t, "dreaming") = DepthAt(t, place[t]) - 1
    BY <1>0, <1>11, PoolAssumption DEF Updated, PlacesOf, Inserting, DepthAt, Task
  <2>2. GoTo(t, "dreaming") /\ Release(t, 1)
    BY <1>11 DEF Updated
  <2> QED BY <2>1, <2>2, ReleaseMoved
<1>12. CASE Raise(t)
  <2>1. held[t] = DepthAt(t, place[t]) /\ held[t] \in Nat
    BY DepthType DEF PoolInv, Accounted, Depth
  <2>2. "idle" \in PlacesOf(t) /\ DepthAt(t, "idle") = 0
    BY DEF PlacesOf, DepthAt
  <2>3. GoTo(t, "idle") /\ Release(t, held[t])
    BY <1>12 DEF Raise
  <2> QED BY <2>1, <2>2, <2>3, ReleaseMoved
<1>13. CASE Handled(t)
  <2>1. held[t] = DepthAt(t, place[t]) /\ held[t] \in Nat /\ held[t] - 1 \in Nat
    BY <1>13, DepthType, PoolAssumption DEF Handled, Inserting, PoolInv, Accounted, Depth, DepthAt
  <2>2. "dreaming" \in PlacesOf(t) /\ DepthAt(t, "dreaming") = 1
    BY <1>13, PoolAssumption DEF Handled, PlacesOf, DepthAt
  <2>3. GoTo(t, "dreaming") /\ Release(t, held[t] - 1)
    BY <1>13 DEF Handled
  <2> QED BY <2>1, <2>2, <2>3, ReleaseMoved
<1> QED BY <1>1, <1>2, <1>3, <1>4, <1>5, <1>6, <1>7, <1>8, <1>9, <1>10, <1>11, <1>12, <1>13 DEF Step
-----------------------------------------------------------------------------
(* A move keeps every task at its depth, and counts every connection.       *)
LEMMA MovedAccounted ==
  ASSUME PoolInv, NEW t \in Task, NEW w \in PlacesOf(t), Moved(t, w)
  PROVE  Accounted'
<1>1. /\ held \in [Task -> 0..3] /\ held[t] \in 0..3 /\ free \in Nat /\ PoolSize \in Nat
      /\ DOMAIN place = Task
  BY PoolAssumption DEF PoolInv, PoolTypeOK
<1>2. DepthAt(t, w) \in 0..3
  BY DepthType
<1>3. \A u \in Task : held'[u] = Depth(u)'
  BY <1>1, <1>2 DEF Moved, PoolInv, Accounted, Depth, DepthAt
<1>4. Cardinality(Holding(1))' + Cardinality(Holding(2))' + Cardinality(Holding(3))' + held[t]
        = Cardinality(Holding(1)) + Cardinality(Holding(2)) + Cardinality(Holding(3)) + DepthAt(t, w)
  <2>1. held' = [held EXCEPT ![t] = DepthAt(t, w)]
    BY DEF Moved
  <2>2. Cardinality(Above(held', 1)) + Cardinality(Above(held', 2)) + Cardinality(Above(held', 3))
          + held[t]
        = Cardinality(Above(held, 1)) + Cardinality(Above(held, 2)) + Cardinality(Above(held, 3))
          + DepthAt(t, w)
    BY <1>1, <1>2, <2>1, HoldersShift
  <2> QED BY <2>2 DEF Holding, Above
<1>5. /\ Cardinality(Holding(1)) \in Nat /\ Cardinality(Holding(2)) \in Nat
      /\ Cardinality(Holding(3)) \in Nat
      /\ Cardinality(Holding(1))' \in Nat /\ Cardinality(Holding(2))' \in Nat
      /\ Cardinality(Holding(3))' \in Nat
  BY AboveFinite DEF Holding, Above
<1>6. free + Cardinality(Holding(1)) + Cardinality(Holding(2)) + Cardinality(Holding(3)) = PoolSize
  BY DEF PoolInv, Accounted
<1>7. free' = free + held[t] - DepthAt(t, w) /\ free' \in Nat
  BY DEF Moved
<1>8. free' + Cardinality(Holding(1))' + Cardinality(Holding(2))' + Cardinality(Holding(3))' = PoolSize
  BY <1>1, <1>2, <1>4, <1>5, <1>6, <1>7
<1> QED BY <1>3, <1>8 DEF Accounted

(* It keeps the task at one of its places and the pool within its size.     *)
LEMMA MovedTypeOK ==
  ASSUME PoolInv, NEW t \in Task, NEW w \in PlacesOf(t), Moved(t, w), Accounted'
  PROVE  PoolTypeOK'
<1>1. PlacesOf(t) \subseteq {"idle"} \cup Wants \cup Works
  BY DEF PlacesOf, Inserting, Wants, Works
<1>2. place' \in [Task -> {"idle"} \cup Wants \cup Works]
  BY <1>1 DEF Moved, PoolInv, PoolTypeOK, Wants, Works
<1>3. held' \in [Task -> 0..3]
  BY DepthType DEF Moved, PoolInv, PoolTypeOK
<1>4. free' \in 0..PoolSize
  <2>1. /\ Cardinality(Holding(1))' \in Nat /\ Cardinality(Holding(2))' \in Nat
        /\ Cardinality(Holding(3))' \in Nat
    BY AboveFinite DEF Holding, Above
  <2>2. free' + Cardinality(Holding(1))' + Cardinality(Holding(2))' + Cardinality(Holding(3))' = PoolSize
    BY DEF Accounted
  <2>3. free' \in Nat /\ PoolSize \in Nat
    BY PoolAssumption DEF Moved
  <2> QED BY <2>1, <2>2, <2>3
<1>5. \A u \in Task : place'[u] \in PlacesOf(u)
  <2> TAKE u \in Task
  <2>1. place[u] \in PlacesOf(u)
    BY AtItsPlace
  <2> QED BY <2>1 DEF Moved, PoolInv, PoolTypeOK
<1>6. /\ \A u \in Simple : place'[u] \in {"idle", "simple", "reading"}
      /\ \A u \in Writer : place'[u] \in {"idle"} \cup Inserting
      /\ \A u \in Dream : place'[u] \in {"idle", "dream", "dreaming", "part", "updating"} \cup Inserting
  BY <1>5, PoolAssumption DEF PlacesOf, Task
<1> QED BY <1>2, <1>3, <1>4, <1>6 DEF PoolTypeOK, Wants, Works, Inserting

LEMMA NextPoolInv == PoolInv /\ [PoolNext]_poolVars => PoolInv'
<1> SUFFICES ASSUME PoolInv, [PoolNext]_poolVars PROVE PoolInv'
  OBVIOUS
<1>1. CASE PoolNext
  <2>1. PICK t \in Task : Step(t)
    BY <1>1 DEF PoolNext
  <2>2. PICK w \in PlacesOf(t) : Moved(t, w)
    BY <2>1, StepMoves
  <2>3. Accounted'
    BY <2>2, MovedAccounted
  <2> QED BY <2>2, <2>3, MovedTypeOK DEF PoolInv
<1>2. CASE UNCHANGED poolVars
  BY <1>2 DEF poolVars, PoolInv, PoolTypeOK, Accounted, Depth, DepthAt, Holding, Wants, Works, Inserting
<1> QED BY <1>1, <1>2

THEOREM PoolInvariance == PoolSpec => []PoolInv
  BY InitPoolInv, NextPoolInv, PTL DEF PoolSpec

(* Every task is at a place of its kind of request and holds at most three  *)
(* connections; the pool is never over its size.                            *)
THEOREM PoolTypeCorrect == PoolSpec => []PoolTypeOK
<1>1. PoolInv => PoolTypeOK
  BY DEF PoolInv
<1> QED BY PoolInvariance, <1>1, PTL

(* Whatever raises, is cancelled or returns early, every connection is in   *)
(* the pool or in the hands of a task inside a block of acquire().          *)
THEOREM NothingLost == PoolSpec => []Accounted
<1>1. PoolInv => Accounted
  BY DEF PoolInv
<1> QED BY PoolInvariance, <1>1, PTL
-----------------------------------------------------------------------------
(* When all that are not idle wait and the pool is empty, an insertion      *)
(* holds one connection and a dream cycle two, at most.                     *)
LEMMA PoolInvNoStall == PoolInv => NoStall
<1> SUFFICES ASSUME PoolInv, Cardinality(Writer) + 2 * Cardinality(Dream) < PoolSize,
                    \A t \in Task : ~CanGo(t)
             PROVE  \A t \in Task : place[t] = "idle"
  BY DEF NoStall
<1>1. CASE free > 0
  BY <1>1 DEF CanGo
<1>2. CASE ~(free > 0)
  <2>1. free = 0 /\ PoolSize \in Nat
    BY <1>2, PoolAssumption DEF PoolInv, PoolTypeOK
  <2>2. \A t \in Task : place[t] \in {"idle"} \cup Wants
    BY DEF CanGo
  <2>3. \A t \in Task : held[t] = DepthAt(t, place[t])
    BY DEF PoolInv, Accounted, Depth
  <2>4. \A t \in Task : /\ held[t] < 3
                        /\ held[t] >= 2 => t \in Dream
                        /\ held[t] >= 1 => t \in Writer \cup Dream
    <3> TAKE t \in Task
    <3>1. place[t] \in PlacesOf(t) /\ place[t] \in {"idle"} \cup Wants /\ held[t] = DepthAt(t, place[t])
      BY <2>2, <2>3, AtItsPlace
    <3> QED BY <3>1, PoolAssumption DEF PlacesOf, Inserting, Wants, DepthAt, Task
  <2>5. Holding(3) = {} /\ Holding(2) \subseteq Dream /\ Holding(1) \subseteq Writer \cup Dream
    <3>1. \A t \in Task : held[t] \in 0..3
      BY DEF PoolInv, PoolTypeOK
    <3> QED BY <2>4, <3>1 DEF Holding
  <2>6. /\ IsFiniteSet(Writer) /\ IsFiniteSet(Dream) /\ IsFiniteSet(Writer \cup Dream)
        /\ Cardinality(Writer) \in Nat /\ Cardinality(Dream) \in Nat
    BY PoolAssumption, FS_Union, FS_CardinalityType
  <2>7. Cardinality(Writer \cup Dream) = Cardinality(Writer) + Cardinality(Dream)
    <3>1. Cardinality(Writer \cap Dream) = 0
      BY PoolAssumption, FS_EmptySet
    <3>2. Cardinality(Writer \cup Dream)
            = Cardinality(Writer) + Cardinality(Dream) - Cardinality(Writer \cap Dream)
      BY <2>6, FS_Union
    <3> QED BY <2>6, <3>1, <3>2
  <2>8. /\ Cardinality(Holding(1)) <= Cardinality(Writer \cup Dream)
        /\ Cardinality(Holding(2)) <= Cardinality(Dream)
        /\ Cardinality(Holding(3)) = 0
        /\ Cardinality(Holding(1)) \in Nat /\ Cardinality(Holding(2)) \in Nat
    BY <2>5, <2>6, FS_Subset, FS_CardinalityType, FS_EmptySet
  <2>9. free + Cardinality(Holding(1)) + Cardinality(Holding(2)) + Cardinality(Holding(3)) = PoolSize
    BY DEF PoolInv, Accounted
  <2> QED BY <2>1, <2>6, <2>7, <2>8, <2>9
<1> QED BY <1>1, <1>2

(* A pool larger than one connection for each insertion and two for each    *)
(* dream cycle always lets some request go on.                              *)
THEOREM NeverStalls == PoolSpec => []NoStall
  BY PoolInvariance, PoolInvNoStall, PTL
=============================================================================

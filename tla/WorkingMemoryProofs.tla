------------------------ MODULE WorkingMemoryProofs ------------------------
(* Proofs about WorkingMemory, for every set of labels, notes, playbooks    *)
(* and tasks, and for texts of every length.                                *)
EXTENDS WorkingMemoryAlone, TLAPS

(* What a request is, by its operation.                                     *)
LEMMA RequestFields ==
    ASSUME NEW r \in Request
    PROVE  /\ r.op \in {"update", "create", "append", "delete", "playbook", "evict", "read"}
           /\ r.op \in {"update", "create", "append", "delete"} => r.label \in Label
           /\ r.op \in {"update", "create"} => r.value \in Text
           /\ r.op = "create" => r.ro \in BOOLEAN
           /\ r.op = "append" => r.note \in Note
           /\ r.op = "playbook" => r.book \in Book
  BY DEF Request

LEMMA DefaultType == DefaultBlock \in Block
  BY DEF DefaultBlock, Block, Text

(* The round trip of a column through get_blocks keeps its shape.           *)
LEMMA ColumnType ==
    ASSUME NEW blocks \in Registry
    PROVE  BlockMap(blocks) \in Registry /\ Column(blocks) \in Columns
  BY DefaultType DEF BlockMap, Column, Registry, Columns

LEMMA EmptyType == Empty \in Columns /\ Empty.blocks \in Registry
  BY DEF Empty, Columns, Registry

(* The beginning of a text is a text.                                       *)
LEMMA Text600Type ==
    ASSUME NEW v \in Text
    PROVE  Text600(v) \in Text
  BY WorkingMemoryAssumption DEF Text600, Text

LEMMA AppendType ==
    ASSUME NEW v \in Text, NEW x \in Note
    PROVE  Append(v, x) \in Text
  BY DEF Text

(* A block put under a label leaves a registry.                             *)
LEMMA PutType ==
    ASSUME NEW blocks \in Registry, NEW l \in Label, NEW b \in Block \cup {Absent}
    PROVE  [blocks EXCEPT ![l] = b] \in Registry
  BY DEF Registry
-----------------------------------------------------------------------------
(* The strengthening that makes the type invariant inductive: a task that   *)
(* serves nothing is in no eviction, one that serves something knows what,  *)
(* and an eviction has only blocks that exist on its list.                  *)
Serving(p, r, v) ==
    /\ p = "idle" => v = NoEviction
    /\ p # "idle" => r \in Request
    /\ p = "evict" => v # NoEviction
    /\ v # NoEviction => \A l \in v.todo : v.base[l] # Absent

Staged == \A t \in Task : Serving(pc[t], req[t], evict[t])

TaskTypes ==
    /\ pc \in [Task -> {"idle", "load", "default", "write", "evict"}]
    /\ req \in [Task -> Request \cup {NoRequest}]
    /\ snap \in [Task -> Columns]
    /\ evict \in [Task -> Eviction \cup {NoEviction}]
    /\ answer \in [Task -> {"none", "done", "error"}]

LEMMA TaskTyped == TypeOK => TaskTypes
  BY DEF TypeOK, TaskTypes

(* A request ends and leaves nothing behind.                                *)
LEMMA FinishType ==
    ASSUME TaskTypes, Staged, NEW t \in Task, NEW a \in {"done", "error"}, Finish(t, a)
    PROVE  TaskTypes' /\ Staged'
<1>1. TaskTypes'
  BY EmptyType DEF TaskTypes, Finish
<1>2. Serving("idle", NoRequest, NoEviction)
  BY DEF Serving
<1>3. ASSUME NEW u \in Task PROVE Serving(pc[u], req[u], evict[u])'
  BY <1>2 DEF Finish, TaskTypes, Staged
<1> QED
  BY <1>1, <1>3 DEF Staged

LEMMA ReturnType ==
    ASSUME TaskTypes, Staged, NEW t \in Task, Return(t)
    PROVE  TaskTypes' /\ Staged'
<1>1. CASE evict[t] = NoEviction
  BY <1>1, FinishType DEF Return
<1>2. CASE evict[t] # NoEviction
  <2>1. [op |-> "evict"] \in Request
    BY DEF Request
  <2>2. TaskTypes'
    BY <1>2, <2>1 DEF Return, TaskTypes
  <2>3. Serving("evict", [op |-> "evict"], evict[t])
    BY <1>2, <2>1 DEF Serving, Staged
  <2>4. ASSUME NEW u \in Task PROVE Serving(pc[u], req[u], evict[u])'
    BY <1>2, <2>3 DEF Return, TaskTypes, Staged
  <2> QED
    BY <2>2, <2>4 DEF Staged
<1> QED
  BY <1>1, <1>2

LEMMA StartEvictionType ==
    ASSUME NEW blocks \in Registry
    PROVE  /\ StartEviction(blocks) \in Eviction
           /\ \A l \in StartEviction(blocks).todo : StartEviction(blocks).base[l] # Absent
  BY DEF StartEviction, Eviction

LEMMA LoadedType ==
    ASSUME TaskTypes, Staged, NEW t \in Task, pc[t] # "idle",
           NEW column \in Columns, Loaded(t, column), UNCHANGED <<req, answer>>
    PROVE  TaskTypes' /\ Staged'
<1>1. StartEviction(column.blocks) \in Eviction
  BY StartEvictionType DEF Columns
<1>2. CASE req[t].op = "evict"
  <2>1. TaskTypes'
    BY <1>1, <1>2 DEF Loaded, TaskTypes
  <2>2. Serving("evict", req[t], StartEviction(column.blocks))
    BY <1>1, StartEvictionType, SentinelAssumption DEF Serving, Staged, Columns
  <2>3. ASSUME NEW u \in Task PROVE Serving(pc[u], req[u], evict[u])'
    BY <1>2, <2>2 DEF Loaded, TaskTypes, Staged
  <2> QED
    BY <2>1, <2>3 DEF Staged
<1>3. CASE req[t].op # "evict"
  <2>1. TaskTypes'
    BY <1>3 DEF Loaded, TaskTypes
  <2>2. Serving("write", req[t], evict[t])
    BY DEF Serving, Staged
  <2>3. ASSUME NEW u \in Task PROVE Serving(pc[u], req[u], evict[u])'
    BY <1>3, <2>2 DEF Loaded, TaskTypes, Staged
  <2> QED
    BY <2>1, <2>3 DEF Staged
<1> QED
  BY <1>2, <1>3

(* Every action keeps the type invariant and its strengthening.             *)
LEMMA TypeStep == TypeOK /\ Staged /\ [Next(Request)]_vars => TypeOK' /\ Staged'
<1> SUFFICES ASSUME TypeOK, Staged, [Next(Request)]_vars PROVE TypeOK' /\ Staged'
  OBVIOUS
<1>0. TaskTypes
  BY TaskTyped
<1>a. ASSUME TaskTypes', row' \in Columns \cup {NoRow}, archive' \subseteq Label \X Text,
             requests' \in 0..MaxRequests, faults' \in 0..MaxFaults
      PROVE  TypeOK'
  BY <1>a DEF TaskTypes, TypeOK
<1>b. /\ row \in Columns \cup {NoRow} /\ archive \subseteq Label \X Text
      /\ requests \in 0..MaxRequests /\ faults \in 0..MaxFaults
      /\ \A t \in Task : snap[t] \in Columns /\ Held(t) \in Registry
  BY DEF TypeOK, Held, Columns
<1>1. CASE UNCHANGED vars
  <2>1. TaskTypes' /\ Staged'
    BY <1>0, <1>1 DEF TaskTypes, Staged, vars, taskVars
  <2> QED
    BY <1>a, <1>b, <1>1, <2>1 DEF vars
<1>2. ASSUME NEW t \in Task, Step(t) PROVE TypeOK' /\ Staged'
  <2>0. pc[t] # "idle" => /\ req[t] \in Request
                          /\ req[t].op \in {"update", "create", "append", "delete"}
                                => req[t].label \in Label
                          /\ req[t].op \in {"update", "create"} => req[t].value \in Text
                          /\ req[t].op = "create" => req[t].ro \in BOOLEAN
                          /\ req[t].op = "append" => req[t].note \in Note
                          /\ req[t].op = "playbook" => req[t].book \in Book
    BY RequestFields DEF Staged, Serving
  <2>1. CASE Load(t)
    <3>1. CASE req[t].op = "playbook"
      <4>1. pc[t] = "load" /\ UNCHANGED <<row, archive, req, answer, requests, faults>>
            /\ snap' = [snap EXCEPT ![t] = IF row = NoRow THEN Empty ELSE row]
            /\ pc' = [pc EXCEPT ![t] = "write"] /\ evict' = evict
        BY <2>1, <3>1 DEF Load
      <4>2. TaskTypes'
        BY <1>0, <1>b, <4>1, EmptyType DEF TaskTypes
      <4>3. Serving("write", req[t], evict[t])
        BY <4>1 DEF Staged, Serving
      <4>4. Staged'
        BY <1>0, <4>1, <4>3 DEF Staged, TaskTypes
      <4> QED
        BY <1>a, <1>b, <4>1, <4>2, <4>4
    <3>2. CASE req[t].op # "playbook" /\ row # NoRow
      <4>1. Column(row.blocks) \in Columns
        BY <1>b, <3>2, ColumnType DEF Columns
      <4>2. TaskTypes' /\ Staged'
        BY <1>0, <2>1, <3>2, <4>1, LoadedType DEF Load
      <4> QED
        BY <1>a, <1>b, <2>1, <4>2 DEF Load
    <3>3. CASE req[t].op # "playbook" /\ row = NoRow
      <4>1. pc[t] = "load" /\ UNCHANGED <<row, archive, req, answer, requests, faults>>
            /\ pc' = [pc EXCEPT ![t] = "default"] /\ UNCHANGED <<snap, evict>>
        BY <2>1, <3>3 DEF Load
      <4>2. TaskTypes'
        BY <1>0, <4>1 DEF TaskTypes
      <4>3. Serving("default", req[t], evict[t])
        BY <4>1 DEF Staged, Serving
      <4>4. Staged'
        BY <1>0, <4>1, <4>3 DEF Staged, TaskTypes
      <4> QED
        BY <1>a, <1>b, <4>1, <4>2, <4>4
    <3> QED
      BY <3>1, <3>2, <3>3
  <2>2. CASE InsertDefault(t)
    <3>1. CASE row = NoRow
      <4>1. row' \in Columns
        BY <2>2, <3>1, EmptyType, ColumnType DEF InsertDefault
      <4>2. TaskTypes' /\ Staged'
        BY <1>0, <2>2, <3>1, <4>1, LoadedType DEF InsertDefault
      <4> QED
        BY <1>a, <1>b, <2>2, <4>1, <4>2 DEF InsertDefault
    <3>2. CASE row # NoRow
      BY <1>0, <1>a, <1>b, <2>2, <3>2, FinishType DEF InsertDefault
    <3> QED
      BY <3>1, <3>2
  <2>3. CASE UpdateBlock(t)
    <3>1. CASE ~Editable(t, req[t].label)
      BY <1>0, <1>a, <1>b, <2>3, <3>1, FinishType DEF UpdateBlock
    <3>2. CASE Editable(t, req[t].label)
      <4> DEFINE l == req[t].label
                 b == [Held(t)[l] EXCEPT !.value = req[t].value]
      <4>1. req[t].label \in Label /\ req[t].value \in Text
        BY <2>0, <2>3 DEF UpdateBlock, At
      <4>2. b \in Block
        BY <1>b, <3>2, <4>1 DEF Editable, Registry, Block
      <4>3. row' = Column([Held(t) EXCEPT ![l] = b]) /\ Return(t)
        BY <2>3, <3>2 DEF UpdateBlock, Upsert
      <4> HIDE DEF b, l
      <4>4. row' \in Columns
        BY <1>b, <4>1, <4>2, <4>3, PutType, ColumnType DEF l
      <4> QED
        BY <1>0, <1>a, <1>b, <2>3, <4>3, <4>4, ReturnType DEF UpdateBlock
    <3> QED
      BY <3>1, <3>2
  <2>4. CASE CreateBlock(t)
    <3>1. req[t].label \in Label /\ [value |-> req[t].value, ro |-> req[t].ro] \in Block
      BY <2>0, <2>4 DEF CreateBlock, At, Block
    <3>2. row' \in Columns
      BY <1>b, <2>4, <3>1, PutType, ColumnType DEF CreateBlock, Upsert
    <3> QED
      BY <1>0, <1>a, <1>b, <2>4, <3>2, FinishType DEF CreateBlock
  <2>5. CASE AppendToBlock(t)
    <3> DEFINE b == Held(t)[req[t].label]
               old == IF b = Absent THEN [value |-> <<>>, ro |-> FALSE] ELSE b
               new == [old EXCEPT !.value = Append(@, req[t].note)]
    <3>1. req[t].label \in Label /\ req[t].note \in Note
      BY <2>0, <2>5 DEF AppendToBlock, At
    <3>2. old \in Block
      BY <1>b, <3>1 DEF Registry, Block, Text
    <3>3. new \in Block
      BY <3>1, <3>2, AppendType DEF Block
    <3>4. row' \in {NoRow, Column([Held(t) EXCEPT ![req[t].label] = new])}
      BY <2>5 DEF AppendToBlock, UpdateOnly
    <3> HIDE DEF new, old, b
    <3>5. row' \in Columns \cup {NoRow}
      BY <1>b, <3>1, <3>3, <3>4, PutType, ColumnType
    <3> QED
      BY <1>0, <1>a, <1>b, <2>5, <3>5, FinishType DEF AppendToBlock
  <2>6. CASE DeleteBlock(t)
    <3>1. req[t].label \in Label
      BY <2>0, <2>6 DEF DeleteBlock, At
    <3>2. [Held(t) EXCEPT ![req[t].label] = Absent] \in Registry
      BY <1>b, <3>1, PutType
    <3>3. row' \in Columns \cup {NoRow}
      BY <1>b, <2>6, <3>2, ColumnType DEF DeleteBlock, UpdateOnly
    <3> QED
      BY <1>0, <1>a, <1>b, <2>6, <3>3, FinishType DEF DeleteBlock
  <2>7. CASE AnswerRead(t)
    BY <1>0, <1>a, <1>b, <2>7, FinishType DEF AnswerRead
  <2>8. CASE StorePlaybook(t)
    <3>1. req[t].book \in Book
      BY <2>0, <2>8 DEF StorePlaybook, At
    <3>2. row' \in Columns
      BY <1>b, <2>8, <3>1 DEF StorePlaybook, Columns
    <3> QED
      BY <1>0, <1>a, <1>b, <2>8, <3>2, FinishType DEF StorePlaybook
  <2>9. CASE EndEviction(t)
    BY <1>0, <1>a, <1>b, <2>9, FinishType DEF EndEviction
  <2>10. CASE ArchiveBlock(t)
    <3>1. PICK l \in evict[t].todo :
             LET v == evict[t].base[l].value IN
             /\ archive' = Archived(l, v)
             /\ req' = [req EXCEPT ![t] = [op |-> "update", label |-> l, value |-> Text600(v)]]
             /\ evict' = [evict EXCEPT ![t] = Shrunk(@, l)]
      BY <2>10 DEF ArchiveBlock
    <3> DEFINE v == evict[t].base[l].value
               r == [op |-> "update", label |-> l, value |-> Text600(v)]
               b == [evict[t].base[l] EXCEPT !.value = Text600(v)]
               base == [evict[t].base EXCEPT ![l] = b]
               e == [base |-> base, todo |-> evict[t].todo \ {l}]
    <3>2. evict[t] \in Eviction /\ \A k \in evict[t].todo : evict[t].base[k] # Absent
      BY <1>0, <2>10 DEF ArchiveBlock, Staged, Serving, TaskTypes
    <3>3. l \in Label /\ evict[t].base \in Registry /\ evict[t].base[l] \in Block
      BY <3>1, <3>2 DEF Eviction, Registry
    <3>4. v \in Text /\ Text600(v) \in Text
      BY <3>3, Text600Type DEF Block
    <3>5. r \in Request
      BY <3>3, <3>4 DEF Request
    <3>6. b \in Block
      BY <3>3, <3>4 DEF Block
    <3>7. base \in Registry /\ \A k \in evict[t].todo \ {l} : base[k] # Absent
      BY <3>2, <3>3, <3>6 DEF Registry
    <3>8. e \in Eviction /\ \A k \in e.todo : e.base[k] # Absent
      BY <3>2, <3>7 DEF Eviction
    <3>a. Shrunk(evict[t], l) = e /\ evict' = [evict EXCEPT ![t] = e]
      BY <3>1 DEF Shrunk
    <3>9. /\ archive' = archive \cup {<<l, v>>} /\ req' = [req EXCEPT ![t] = r]
          /\ evict' = [evict EXCEPT ![t] = e] /\ pc' = [pc EXCEPT ![t] = "load"]
          /\ UNCHANGED <<row, snap, answer, requests, faults>>
      BY <2>10, <3>1, <3>a DEF ArchiveBlock, Archived
    <3> HIDE DEF v, r, b, base, e
    <3>10. TaskTypes'
      BY <1>0, <3>5, <3>8, <3>9 DEF TaskTypes
    <3>11. Serving("load", r, e)
      BY <3>5, <3>8, SentinelAssumption DEF Serving
    <3>12. Staged'
      BY <1>0, <3>9, <3>11 DEF Staged, TaskTypes
    <3> QED
      BY <1>a, <1>b, <3>3, <3>4, <3>9, <3>10, <3>12
  <2> QED
    BY <1>2, <2>1, <2>2, <2>3, <2>4, <2>5, <2>6, <2>7, <2>8, <2>9, <2>10 DEF Step
<1>3. ASSUME NEW t \in Task, Serve(t, Request) PROVE TypeOK' /\ Staged'
  <2>1. PICK r \in Request : Begin(t, r)
    BY <1>3 DEF Serve
  <2>2. TaskTypes'
    BY <1>0, <2>1 DEF Begin, TaskTypes
  <2>3. Serving("load", r, evict[t])
    BY <2>1 DEF Begin, Serving, Staged
  <2>4. Staged'
    BY <1>0, <2>1, <2>3 DEF Begin, Staged, TaskTypes
  <2>5. requests' \in 0..MaxRequests
    BY <1>b, <2>1, WorkingMemoryAssumption DEF Begin
  <2> QED
    BY <1>a, <1>b, <2>1, <2>2, <2>4, <2>5 DEF Begin
<1>4. ASSUME NEW t \in Task, Fail(t) PROVE TypeOK' /\ Staged'
  <2>1. faults' \in 0..MaxFaults
    BY <1>b, <1>4, WorkingMemoryAssumption DEF Fail
  <2> QED
    BY <1>0, <1>a, <1>b, <1>4, <2>1, FinishType DEF Fail
<1>5. CASE ResetBlocks \/ PurgeRow
  <2>1. TaskTypes' /\ Staged'
    BY <1>0, <1>5 DEF ResetBlocks, PurgeRow, TaskTypes, Staged, taskVars
  <2> QED
    BY <1>a, <1>b, <1>5, <2>1, EmptyType DEF ResetBlocks, PurgeRow
<1> QED
  BY <1>1, <1>2, <1>3, <1>4, <1>5 DEF Next

(* Every state of the row, of the archive and of the requests is well typed,*)
(* however the requests of several tasks interleave.                        *)
THEOREM TypeCorrect == Spec => []TypeOK
<1>1. Init => TypeOK /\ Staged
  BY EmptyType, WorkingMemoryAssumption DEF Init, TypeOK, Staged, Serving
<1> QED
  BY <1>1, TypeStep, PTL DEF Spec
-----------------------------------------------------------------------------
(* The registry that get_blocks shows has a block under every canonical     *)
(* label, and the round trip of such a registry changes nothing.            *)
Full(blocks) == \A l \in Canonical : blocks[l] # Absent

LEMMA MapFills ==
    ASSUME NEW blocks \in Registry
    PROVE  BlockMap(blocks) \in Registry /\ Full(BlockMap(blocks))
  BY DefaultType, ColumnType, SentinelAssumption, WorkingMemoryAssumption DEF BlockMap, Full

LEMMA FullMap ==
    ASSUME NEW blocks \in Registry, Full(blocks)
    PROVE  BlockMap(blocks) = blocks
  BY DEF BlockMap, Full, Registry

LEMMA SeenColumn ==
    ASSUME NEW blocks \in Registry
    PROVE  Seen(Column(blocks)) = Column(blocks)
<1>1. Column(blocks) \in Columns /\ Column(blocks) # NoRow
  BY ColumnType, SentinelAssumption
<1>2. BlockMap(BlockMap(blocks)) = BlockMap(blocks)
  BY MapFills, FullMap
<1> QED
  BY <1>1, <1>2 DEF Seen, Column

LEMMA SeenType ==
    ASSUME NEW r \in Columns \cup {NoRow}
    PROVE  /\ Seen(r) \in Columns /\ Full(Seen(r).blocks)
           /\ r # NoRow => Seen(r).blocks = BlockMap(r.blocks) /\ Seen(r).books = r.books
           /\ r = NoRow => Seen(r) = Column(Empty.blocks)
<1>1. CASE r = NoRow
  BY <1>1, EmptyType, ColumnType, MapFills DEF Seen, Column
<1>2. CASE r # NoRow
  <2>1. r \in Columns /\ r.blocks \in Registry
    BY <1>2 DEF Columns
  <2>2. Seen(r) = [r EXCEPT !.blocks = BlockMap(r.blocks)]
    BY <1>2 DEF Seen
  <2>3. BlockMap(r.blocks) \in Registry /\ Full(BlockMap(r.blocks))
    BY <2>1, MapFills
  <2>4. Seen(r).blocks = BlockMap(r.blocks) /\ Seen(r).books = r.books /\ Seen(r) \in Columns
    BY <2>1, <2>2, <2>3 DEF Columns
  <2> QED
    BY <1>2, <2>3, <2>4
<1> QED
  BY <1>1, <1>2

(* While a request runs alone and outside an eviction, the column is what   *)
(* it was when the request began, and so is the copy the request holds once *)
(* it has one: with the defaults, or for a playbook as it stands.           *)
CopyOf(r, p) ==
    IF p = "playbook" THEN IF r = NoRow THEN Empty ELSE r ELSE Column(r.blocks)

Undisturbed(t) ==
    pc[t] # "idle" /\ evict[t] = NoEviction =>
        /\ Seen(row) = found[t]
        /\ pc[t] = "write" => /\ req[t].op # "playbook" => row # NoRow
                              /\ snap[t] = CopyOf(row, req[t].op)

AloneInv == \A t \in Task : alone[t] => Undisturbed(t)

LEMMA OneMoves ==
    ASSUME TypeOK, NEW u \in Task, Step(u) \/ Serve(u, Request) \/ Fail(u), NEW t \in Task \ {u}
    PROVE  pc'[t] = pc[t]
  BY DEF TypeOK, Step, Load, Loaded, InsertDefault, UpdateBlock, Return, CreateBlock, AppendToBlock,
         DeleteBlock, AnswerRead, StorePlaybook, EndEviction, ArchiveBlock, Finish, Serve, Begin,
         Fail

LEMMA MoverSteps ==
    ASSUME TypeOK, Next(Request), NEW t \in Task, pc'[t] # pc[t]
    PROVE  Step(t) \/ Serve(t, Request) \/ Fail(t)
<1>1. CASE \E u \in Task : Step(u) \/ Serve(u, Request) \/ Fail(u)
  BY <1>1, OneMoves
<1>2. CASE ResetBlocks \/ PurgeRow
  BY <1>2 DEF ResetBlocks, PurgeRow, taskVars
<1> QED
  BY <1>1, <1>2 DEF Next

LEMMA ShrunkType ==
    ASSUME NEW v \in Eviction, NEW l \in v.todo, v.base[l] # Absent
    PROVE  Shrunk(v, l) \in Eviction
<1> DEFINE b == [v.base[l] EXCEPT !.value = Text600(v.base[l].value)]
           base == [v.base EXCEPT ![l] = b]
<1>1. l \in Label /\ v.base \in Registry /\ v.base[l] \in Block
  BY DEF Eviction, Registry
<1>2. b \in Block
  BY <1>1, Text600Type DEF Block
<1>3. base \in Registry
  BY <1>1, <1>2, PutType
<1>4. Shrunk(v, l) = [base |-> base, todo |-> v.todo \ {l}]
  BY DEF Shrunk
<1> HIDE DEF base
<1> QED
  BY <1>3, <1>4 DEF Eviction

(* A step of a request that goes on.                                        *)
LEMMA StepUndisturbed ==
    ASSUME TypeOK, Staged, Track, NEW t \in Task, Step(t), pc[t] # "idle", pc'[t] # "idle",
           Undisturbed(t)
    PROVE  Undisturbed(t)'
<1> SUFFICES ASSUME evict'[t] = NoEviction
             PROVE  /\ Seen(row') = found[t]
                    /\ pc'[t] = "write" => /\ req'[t].op # "playbook" => row' # NoRow
                                           /\ snap'[t] = CopyOf(row', req'[t].op)
  BY DEF Undisturbed, Track
<1>0. TaskTypes /\ row \in Columns \cup {NoRow}
  BY DEF TypeOK, TaskTypes
<1>a. evict[t] = NoEviction => Seen(row) = found[t]
  BY DEF Undisturbed
<1>b. ASSUME NEW column \in Columns, Loaded(t, column)
      PROVE  /\ evict[t] = NoEviction /\ snap'[t] = column /\ pc'[t] = "write"
  <2>1. req[t].op # "evict"
    <3> SUFFICES ASSUME req[t].op = "evict" PROVE FALSE
      OBVIOUS
    <3>1. evict'[t] = StartEviction(column.blocks)
      BY <1>0, <1>b DEF Loaded, TaskTypes
    <3>2. StartEviction(column.blocks) \in Eviction
      BY StartEvictionType DEF Columns
    <3> QED
      BY <3>1, <3>2, SentinelAssumption
  <2> QED
    BY <1>0, <1>b, <2>1 DEF Loaded, TaskTypes
<1>c. ASSUME NEW a, Finish(t, a) PROVE FALSE
  BY <1>0, <1>c DEF Finish, TaskTypes
<1>1. CASE Load(t)
  <2>0. row' = row /\ req' = req
    BY <1>1 DEF Load
  <2>1. CASE req[t].op = "playbook"
    <3>1. snap'[t] = (IF row = NoRow THEN Empty ELSE row) /\ evict' = evict
      BY <1>0, <1>1, <2>1 DEF Load, TaskTypes
    <3> QED
      BY <1>a, <2>0, <2>1, <3>1 DEF CopyOf
  <2>2. CASE req[t].op # "playbook" /\ row # NoRow
    <3>1. Column(row.blocks) \in Columns /\ Loaded(t, Column(row.blocks))
      BY <1>0, <1>1, <2>2, ColumnType DEF Load, Columns
    <3>2. evict[t] = NoEviction /\ snap'[t] = Column(row.blocks)
      BY <1>b, <3>1
    <3> QED
      BY <1>a, <2>0, <2>2, <3>2 DEF CopyOf
  <2>3. CASE req[t].op # "playbook" /\ row = NoRow
    <3>1. pc'[t] = "default" /\ evict' = evict
      BY <1>0, <1>1, <2>3 DEF Load, TaskTypes
    <3> QED
      BY <1>a, <2>0, <3>1
  <2> QED
    BY <2>1, <2>2, <2>3
<1>2. CASE InsertDefault(t)
  <2>1. row = NoRow /\ row' = Column(Empty.blocks) /\ Loaded(t, row') /\ req' = req
    BY <1>2, <1>c DEF InsertDefault
  <2>2. row' \in Columns /\ row' # NoRow
    BY <2>1, EmptyType, ColumnType, SentinelAssumption
  <2>3. evict[t] = NoEviction /\ snap'[t] = row'
    BY <1>b, <2>1, <2>2
  <2>4. Seen(row') = found[t]
    BY <1>0, <1>a, <2>1, <2>3, SeenColumn, SeenType, EmptyType
  <2>5. Column(row'.blocks) = row'
    <3>1. BlockMap(BlockMap(Empty.blocks)) = BlockMap(Empty.blocks)
      BY EmptyType, MapFills, FullMap
    <3> QED
      BY <2>1, <3>1 DEF Column
  <2> QED
    BY <2>2, <2>3, <2>4, <2>5 DEF CopyOf
<1>3. CASE UpdateBlock(t)
  <2>1. Return(t) /\ evict[t] # NoEviction
    BY <1>3, <1>c DEF UpdateBlock, Return
  <2> QED
    BY <2>1 DEF Return
<1>4. CASE ArchiveBlock(t)
  <2>1. PICK l \in evict[t].todo : evict' = [evict EXCEPT ![t] = Shrunk(@, l)]
    BY <1>4 DEF ArchiveBlock
  <2>2. evict[t] \in Eviction /\ evict[t].base[l] # Absent
    BY <1>0, <1>4 DEF ArchiveBlock, Staged, Serving, TaskTypes
  <2>3. evict'[t] = Shrunk(evict[t], l)
    BY <1>0, <2>1 DEF TaskTypes
  <2> QED
    BY <2>2, <2>3, ShrunkType, SentinelAssumption
<1>5. CASE CreateBlock(t) \/ AppendToBlock(t) \/ DeleteBlock(t) \/ AnswerRead(t)
           \/ StorePlaybook(t) \/ EndEviction(t)
  BY <1>5, <1>c
     DEF CreateBlock, AppendToBlock, DeleteBlock, AnswerRead, StorePlaybook, EndEviction
<1> QED
  BY <1>1, <1>2, <1>3, <1>4, <1>5 DEF Step

LEMMA AloneStep ==
    TypeOK /\ Staged /\ AloneInv /\ [AloneNext(Request)]_<<vars, history>> => AloneInv'
<1> SUFFICES ASSUME TypeOK, Staged, AloneInv, [AloneNext(Request)]_<<vars, history>>,
                    NEW t \in Task, alone'[t]
             PROVE  Undisturbed(t)'
  BY DEF AloneInv
<1>1. CASE UNCHANGED <<vars, history>>
  BY <1>1 DEF AloneInv, Undisturbed, vars, history, taskVars, Seen, CopyOf
<1>2. CASE AloneNext(Request) /\ pc'[t] = "idle"
  BY <1>2 DEF Undisturbed
<1>3. CASE AloneNext(Request) /\ pc[t] = "idle" /\ pc'[t] # "idle"
  <2>1. Step(t) \/ Serve(t, Request) \/ Fail(t)
    BY <1>3, MoverSteps DEF AloneNext
  <2>2. Serve(t, Request)
    BY <1>3, <2>1
       DEF Step, Load, InsertDefault, UpdateBlock, CreateBlock, AppendToBlock, DeleteBlock,
           AnswerRead, StorePlaybook, EndEviction, ArchiveBlock, At, Fail
  <2>3. pc'[t] = "load" /\ row' = row
    BY <2>2 DEF Serve, Begin, TypeOK
  <2>4. found'[t] = Seen(row)
    BY <1>3 DEF AloneNext, Track
  <2> QED
    BY <2>3, <2>4 DEF Undisturbed, Seen
<1>4. CASE AloneNext(Request) /\ pc[t] # "idle" /\ pc'[t] # "idle"
  <2>1. alone[t] /\ pc'[t] # pc[t]
    BY <1>4 DEF AloneNext, Track
  <2>2. Step(t) \/ Serve(t, Request) \/ Fail(t)
    BY <1>4, <2>1, MoverSteps DEF AloneNext
  <2>3. Step(t)
    BY <1>4, <2>2 DEF Serve, Begin, Fail, Finish, TypeOK
  <2> QED
    BY <1>4, <2>1, <2>3, StepUndisturbed DEF AloneInv, AloneNext
<1> QED
  BY <1>1, <1>2, <1>3, <1>4

(* What a write of the column leaves to see: the blocks that were written,  *)
(* and the default of a canonical label that the write leaves without.      *)
LEMMA SeenWrite ==
    ASSUME NEW b \in Registry, Full(b), NEW l \in Label, NEW x \in Block,
           NEW c, c = [b EXCEPT ![l] = x], row' = Column(c)
    PROVE  Seen(row').blocks = c
<1>1. c \in Registry /\ x # Absent
  BY SentinelAssumption DEF Registry
<1>2. Seen(row').blocks = BlockMap(c)
  BY <1>1, SeenColumn DEF Column
<1>3. \A m \in Label : ~(c[m] = Absent /\ m \in Canonical)
  BY <1>1 DEF Full, Registry
<1>4. BlockMap(c) = [m \in Label |-> c[m]]
  BY <1>3 DEF BlockMap
<1> QED
  BY <1>1, <1>2, <1>4 DEF Registry

LEMMA SeenErase ==
    ASSUME NEW b \in Registry, Full(b), NEW l \in Label,
           NEW c, c = [b EXCEPT ![l] = Absent], row' = Column(c),
           NEW d, d = [b EXCEPT ![l] = IF l \in Canonical THEN DefaultBlock ELSE Absent]
    PROVE  Seen(row').blocks = d
<1>1. c \in Registry /\ DOMAIN d = Label /\ d = [m \in Label |-> d[m]]
  BY DEF Registry
<1>2. Seen(row').blocks = BlockMap(c)
  BY <1>1, SeenColumn DEF Column
<1>3. \A m \in Label : d[m] = IF c[m] = Absent /\ m \in Canonical THEN DefaultBlock ELSE c[m]
  BY DEF Full, Registry
<1>4. BlockMap(c) = [m \in Label |-> d[m]]
  BY <1>3 DEF BlockMap
<1> QED
  BY <1>1, <1>2, <1>4

(* What ActsAtOnce says of the end of the request of t.                     *)
Acted(t) ==
    /\ answer'[t] = "error" => Seen(row').blocks = found[t].blocks
    /\ answer'[t] = "done" /\ faults' = faults =>
          Seen(row').blocks = Effect(req[t], found[t].blocks)
    /\ answer'[t] = "done" /\ req[t].op = "update" => ~found[t].blocks[req[t].label].ro
    /\ answer'[t] = "done" /\ req[t].op = "playbook" /\ faults' = faults =>
          row'.books = found[t].books \cup {req[t].book}

LEMMA StepActs ==
    ASSUME TypeOK, Staged, NEW t \in Task, Step(t), pc[t] # "idle", pc'[t] = "idle",
           evict[t] = NoEviction, Undisturbed(t)
    PROVE  Acted(t)
<1>0. TaskTypes /\ row \in Columns \cup {NoRow}
  BY DEF TypeOK, TaskTypes
<1>r. /\ req[t].op \in {"update", "create", "append", "delete"} => req[t].label \in Label
      /\ req[t].op \in {"update", "create"} => req[t].value \in Text
      /\ req[t].op = "create" => req[t].ro \in BOOLEAN
      /\ req[t].op = "append" => req[t].note \in Note
  BY RequestFields DEF Staged, Serving
<1>f. Seen(row) = found[t]
  BY DEF Undisturbed
<1>b. PICK b : b = found[t].blocks
  OBVIOUS
<1>c. b \in Registry /\ Full(b)
  BY <1>0, <1>f, <1>b, SeenType DEF Columns
<1>w. ASSUME pc[t] = "write", req[t].op # "playbook" PROVE row # NoRow /\ Held(t) = b
  <2>1. row # NoRow /\ snap[t] = Column(row.blocks)
    BY <1>w DEF Undisturbed, CopyOf
  <2>2. Seen(row).blocks = BlockMap(row.blocks)
    BY <1>0, <2>1, SeenType
  <2> QED
    BY <1>b, <1>f, <2>1, <2>2 DEF Held, Column
<1>a. ASSUME NEW x, Finish(t, x) PROVE answer'[t] = x
  BY <1>0, <1>a DEF Finish, TaskTypes
<1>1. CASE Load(t)
  BY <1>0, <1>1 DEF Load, Loaded, TaskTypes
<1>2. CASE InsertDefault(t)
  <2>1. Finish(t, "error") /\ row' = row
    BY <1>0, <1>2 DEF InsertDefault, Loaded, TaskTypes
  <2> QED
    BY <1>a, <1>f, <2>1 DEF Acted
<1>3. CASE UpdateBlock(t)
  <2> DEFINE l == req[t].label
  <2>0. l \in Label /\ req[t].value \in Text /\ Held(t) = b /\ req[t].op = "update"
    BY <1>3, <1>r, <1>w DEF UpdateBlock, At
  <2>1. CASE ~Editable(t, l)
    <3>1. Finish(t, "error") /\ row' = row
      BY <1>3, <2>1 DEF UpdateBlock
    <3> QED
      BY <1>a, <1>f, <3>1 DEF Acted
  <2>2. CASE Editable(t, l)
    <3> DEFINE x == [b[l] EXCEPT !.value = req[t].value]
    <3>0. PICK c : c = [b EXCEPT ![l] = x]
      OBVIOUS
    <3>1. row' = Column([b EXCEPT ![l] = x]) /\ Finish(t, "done")
      BY <1>3, <2>0, <2>2 DEF UpdateBlock, Upsert, Return
    <3>2. x \in Block /\ ~b[l].ro /\ x # Absent
      BY <1>c, <2>0, <2>2, SentinelAssumption DEF Editable, Registry, Block
    <3>4. Effect(req[t], b) = c
      BY <2>0, <3>0 DEF Effect
    <3> HIDE DEF x, l
    <3>6. row' = Column(c)
      BY <3>0, <3>1
    <3>3. Seen(row').blocks = c
      BY <1>c, <2>0, <3>0, <3>2, <3>6, SeenWrite
    <3>5. answer'[t] = "done"
      BY <1>a, <3>1
    <3> QED
      BY <1>b, <2>0, <3>2, <3>3, <3>4, <3>5 DEF Acted, l
  <2> QED
    BY <2>1, <2>2
<1>4. CASE CreateBlock(t)
  <2> DEFINE l == req[t].label
             x == [value |-> req[t].value, ro |-> req[t].ro]
  <2>0. /\ l \in Label /\ Held(t) = b /\ req[t].op = "create" /\ x \in Block /\ x # Absent
    BY <1>4, <1>r, <1>w, SentinelAssumption DEF CreateBlock, At, Block
  <2>1. row' = Column([b EXCEPT ![l] = x]) /\ Finish(t, "done")
    BY <1>4, <2>0 DEF CreateBlock, Upsert
  <2>2. PICK c : c = [b EXCEPT ![l] = x]
    OBVIOUS
  <2>3. Effect(req[t], b) = c
    BY <2>0, <2>2 DEF Effect
  <2> HIDE DEF x, l
  <2>4. row' = Column(c)
    BY <2>1, <2>2
  <2>5. Seen(row').blocks = c
    BY <1>c, <2>0, <2>2, <2>4, SeenWrite
  <2> QED
    BY <1>a, <1>b, <2>0, <2>1, <2>3, <2>5 DEF Acted
<1>5. CASE AppendToBlock(t)
  <2> DEFINE l == req[t].label
             old == IF b[l] = Absent THEN [value |-> <<>>, ro |-> FALSE] ELSE b[l]
             x == [old EXCEPT !.value = Append(@, req[t].note)]
  <2>0. l \in Label /\ req[t].note \in Note /\ Held(t) = b /\ row # NoRow /\ req[t].op = "append"
    BY <1>5, <1>r, <1>w DEF AppendToBlock, At
  <2>1. row' = Column([b EXCEPT ![l] = x]) /\ Finish(t, "done")
    BY <1>5, <2>0 DEF AppendToBlock, UpdateOnly
  <2>2. old \in Block
    BY <1>c, <2>0 DEF Registry, Block, Text
  <2>3. x \in Block
    <3>1. PICK o \in Block : o = old
      BY <2>2
    <3>2. Append(o.value, req[t].note) \in Text
      BY <2>0, AppendType DEF Block
    <3>3. [o EXCEPT !.value = Append(@, req[t].note)] \in Block
      BY <3>2 DEF Block
    <3> QED
      BY <3>1, <3>3
  <2>4. PICK c : c = [b EXCEPT ![l] = x]
    OBVIOUS
  <2>5. Effect(req[t], b) = c
    <3>1. PICK y : y = Noted(b[l], req[t].note)
      OBVIOUS
    <3>2. Effect(req[t], b) = [b EXCEPT ![l] = y]
      BY <2>0, <3>1 DEF Effect
    <3>3. x = y
      <4>1. Append(<<>>, req[t].note) = <<req[t].note>>
        OBVIOUS
      <4>2. CASE b[l] = Absent
        <5>0. PICK e, f : e = <<>> /\ f = FALSE
          OBVIOUS
        <5>1. old = [value |-> e, ro |-> f]
          BY <4>2, <5>0
        <5>2. PICK w : w = Append(e, req[t].note)
          OBVIOUS
        <5> HIDE DEF old
        <5>3. x = [[value |-> e, ro |-> f] EXCEPT !.value = w]
          BY <5>1, <5>2, Zenon
        <5>4. x = [value |-> w, ro |-> f]
          BY <5>3
        <5>5. y = [value |-> w, ro |-> f]
          BY <3>1, <4>1, <4>2, <5>0, <5>2 DEF Noted
        <5> QED
          BY <5>4, <5>5
      <4>3. CASE b[l] # Absent
        BY <3>1, <4>3 DEF Noted
      <4> QED
        BY <4>2, <4>3
    <3> HIDE DEF x
    <3> QED
      BY <2>4, <3>2, <3>3
  <2> HIDE DEF x, l, old
  <2>6. row' = Column(c)
    BY <2>1, <2>4
  <2>7. Seen(row').blocks = c
    BY <1>c, <2>0, <2>3, <2>4, <2>6, SeenWrite
  <2> QED
    BY <1>a, <1>b, <2>0, <2>1, <2>5, <2>7 DEF Acted
<1>6. CASE DeleteBlock(t)
  <2> DEFINE l == req[t].label
  <2>0. l \in Label /\ Held(t) = b /\ row # NoRow /\ req[t].op = "delete"
    BY <1>6, <1>r, <1>w DEF DeleteBlock, At
  <2>1. CASE Finish(t, "error") /\ row' = row
    BY <1>a, <1>f, <2>1 DEF Acted
  <2>2. CASE Finish(t, "done") /\ row' = Column([b EXCEPT ![l] = Absent])
    <3>0. PICK c, d : /\ c = [b EXCEPT ![l] = Absent]
                      /\ d = [b EXCEPT ![l] = IF l \in Canonical THEN DefaultBlock ELSE Absent]
      OBVIOUS
    <3>2. Effect(req[t], b) = d
      BY <2>0, <3>0 DEF Effect
    <3> HIDE DEF l
    <3>3. row' = Column(c)
      BY <2>2, <3>0
    <3>1. Seen(row').blocks = d
      BY <1>c, <2>0, <3>0, <3>3, SeenErase
    <3> QED
      BY <1>a, <1>b, <2>0, <2>2, <3>1, <3>2 DEF Acted
  <2> QED
    BY <1>6, <2>0, <2>1, <2>2 DEF DeleteBlock, UpdateOnly
<1>7. CASE AnswerRead(t)
  <2>1. Finish(t, "done") /\ row' = row /\ req[t].op = "read"
    BY <1>7 DEF AnswerRead, At
  <2>2. Effect(req[t], found[t].blocks) = found[t].blocks
    BY <2>1 DEF Effect
  <2> QED
    BY <1>a, <1>f, <2>1, <2>2 DEF Acted
<1>8. CASE StorePlaybook(t)
  <2>0. req[t].op = "playbook" /\ Finish(t, "done")
    BY <1>8 DEF StorePlaybook, At
  <2>1. PICK c \in Columns : /\ c = snap[t] /\ row' = [c EXCEPT !.books = @ \cup {req[t].book}]
                             /\ c = IF row = NoRow THEN Empty ELSE row
    BY <1>0, <1>8 DEF StorePlaybook, At, Undisturbed, CopyOf, TaskTypes
  <2>2. c.blocks \in Registry /\ BlockMap(c.blocks) = b /\ c.books = found[t].books
    BY <1>0, <1>b, <1>f, <2>1, SeenType, EmptyType DEF Column, Columns, Empty
  <2>3. row'.blocks = c.blocks /\ row'.books = c.books \cup {req[t].book}
    BY <2>1 DEF Columns
  <2>4. row' \in Columns
    <3>1. req[t].book \in Book
      BY <2>0, RequestFields DEF Staged, Serving
    <3> QED
      BY <2>1, <3>1 DEF Columns
  <2>5. Effect(req[t], found[t].blocks) = b
    BY <1>b, <2>0 DEF Effect
  <2>6. Seen(row').blocks = b
    BY <2>2, <2>3, <2>4, SeenType, SentinelAssumption
  <2> QED
    BY <1>a, <2>0, <2>2, <2>3, <2>5, <2>6 DEF Acted
<1>9. CASE EndEviction(t) \/ ArchiveBlock(t)
  BY <1>9 DEF EndEviction, ArchiveBlock, Staged, Serving
<1> QED
  BY <1>1, <1>2, <1>3, <1>4, <1>5, <1>6, <1>7, <1>8, <1>9 DEF Step

LEMMA EndActs ==
    ASSUME TypeOK, Staged, AloneInv, AloneNext(Request), NEW t \in Task,
           pc[t] # "idle", pc'[t] = "idle", alone[t], evict[t] = NoEviction
    PROVE  Acted(t)
<1>1. Step(t) \/ Serve(t, Request) \/ Fail(t)
  BY MoverSteps DEF AloneNext
<1>2. Undisturbed(t)
  BY DEF AloneInv
<1>3. CASE Step(t)
  BY <1>2, <1>3, StepActs
<1>4. CASE Fail(t)
  <2>1. Seen(row') = found[t] /\ faults' # faults
    <3>1. row' = row /\ faults' = faults + 1 /\ faults \in Nat
      BY <1>4, WorkingMemoryAssumption DEF Fail, TypeOK
    <3> QED
      BY <1>2, <3>1 DEF Undisturbed
  <2>2. req[t].op = "update" => answer'[t] = "error"
    BY <1>4 DEF Fail, Finish, TypeOK
  <2> QED
    BY <2>1, <2>2 DEF Acted
<1> QED
  BY <1>1, <1>3, <1>4 DEF Serve, Begin

(* A request that runs alone does at once what it says to the blocks and    *)
(* the playbooks, or raises and leaves the blocks alone, for any labels,    *)
(* texts and playbooks.                                                     *)
THEOREM RequestsActAtOnce == AloneSpec => ActsAtOnce
<1>1. AloneInit => TypeOK /\ Staged /\ AloneInv
  BY EmptyType, WorkingMemoryAssumption
     DEF AloneInit, Init, TypeOK, Staged, Serving, AloneInv, Undisturbed
<1>2. TypeOK /\ Staged /\ [AloneNext(Request)]_<<vars, history>> => TypeOK' /\ Staged'
  BY TypeStep DEF AloneNext, vars, taskVars
<1>3. TypeOK /\ Staged /\ AloneInv /\ [AloneNext(Request)]_<<vars, history>>
        => [\A t \in Task :
              pc[t] # "idle" /\ pc'[t] = "idle" /\ alone[t] /\ evict[t] = NoEviction =>
                  /\ answer'[t] = "error" => Seen(row').blocks = found[t].blocks
                  /\ answer'[t] = "done" /\ faults' = faults =>
                        Seen(row').blocks = Effect(req[t], found[t].blocks)
                  /\ answer'[t] = "done" /\ req[t].op = "update" =>
                        ~found[t].blocks[req[t].label].ro
                  /\ answer'[t] = "done" /\ req[t].op = "playbook" /\ faults' = faults =>
                        row'.books = found[t].books \cup {req[t].book}]_<<vars, history>>
  BY EndActs DEF Acted
<1> QED
  BY <1>1, <1>2, <1>3, AloneStep, PTL DEF AloneSpec, ActsAtOnce
-----------------------------------------------------------------------------
(* The copy, the request and the eviction of a task are its own.            *)
LEMMA OthersStay ==
    ASSUME TypeOK, NEW u \in Task, Step(u) \/ Serve(u, Request) \/ Fail(u), NEW t \in Task \ {u}
    PROVE  pc'[t] = pc[t] /\ req'[t] = req[t] /\ snap'[t] = snap[t] /\ evict'[t] = evict[t]
<1>0. TaskTypes
  BY TaskTyped
<1>p. pc'[t] = pc[t]
  BY OneMoves
<1>a. ASSUME NEW a, Finish(u, a) PROVE req'[t] = req[t] /\ snap'[t] = snap[t] /\ evict'[t] = evict[t]
  BY <1>0, <1>a DEF Finish, TaskTypes
<1>b. ASSUME NEW c, Loaded(u, c) PROVE snap'[t] = snap[t] /\ evict'[t] = evict[t]
  BY <1>0, <1>b DEF Loaded, TaskTypes
<1>1. CASE Load(u)
  BY <1>0, <1>p, <1>1, <1>b DEF Load, TaskTypes
<1>2. CASE InsertDefault(u)
  BY <1>0, <1>p, <1>2, <1>a, <1>b DEF InsertDefault
<1>3. CASE UpdateBlock(u)
  BY <1>0, <1>p, <1>3, <1>a DEF UpdateBlock, Return, TaskTypes
<1>4. CASE ArchiveBlock(u)
  BY <1>0, <1>p, <1>4 DEF ArchiveBlock, TaskTypes
<1>5. CASE CreateBlock(u) \/ AppendToBlock(u) \/ DeleteBlock(u) \/ AnswerRead(u)
           \/ StorePlaybook(u) \/ EndEviction(u) \/ Fail(u)
  BY <1>p, <1>5, <1>a
     DEF CreateBlock, AppendToBlock, DeleteBlock, AnswerRead, StorePlaybook, EndEviction, Fail
<1>6. CASE Serve(u, Request)
  BY <1>0, <1>p, <1>6 DEF Serve, Begin, TaskTypes
<1> QED
  BY <1>1, <1>2, <1>3, <1>4, <1>5, <1>6 DEF Step

(* A step of a request moves it, so that whatever leaves it in its place is *)
(* a step of others.                                                        *)
LEMMA OwnStepMoves ==
    ASSUME TypeOK, NEW t \in Task, Step(t) \/ Serve(t, Request) \/ Fail(t)
    PROVE  pc'[t] # pc[t]
  BY TaskTyped
     DEF TaskTypes, Step, Load, Loaded, InsertDefault, UpdateBlock, Return, CreateBlock,
         AppendToBlock, DeleteBlock, AnswerRead, StorePlaybook, EndEviction, ArchiveBlock,
         Finish, Serve, Begin, Fail, At

LEMMA ArchiveGrows ==
    ASSUME [Next(Request)]_vars
    PROVE  archive \subseteq archive'
  BY DEF Next, Step, Load, InsertDefault, UpdateBlock, CreateBlock, AppendToBlock, DeleteBlock,
         AnswerRead, StorePlaybook, EndEviction, ArchiveBlock, Archived, Serve, Begin, Fail,
         ResetBlocks, PurgeRow, vars

(* What an eviction knows of a block that others left alone: it is as the   *)
(* eviction counts it, but for the one that is about to be shrunk, whose    *)
(* text is in the archive; and the copy to be written back has it as it is. *)
Known(t, l) ==
    LET old == Seen(row).blocks[l]
        b == evict[t].base[l]
    IN  /\ pc[t] = "write" => Held(t)[l] = old
        /\ pc[t] # "evict" /\ l = req[t].label =>
              /\ <<l, old.value>> \in archive
              /\ req[t].value = Text600(old.value)
              /\ b = [old EXCEPT !.value = Text600(@)]
        /\ pc[t] = "evict" \/ l # req[t].label => b = old

Evicting(t) ==
    evict[t] # NoEviction =>
        /\ pc[t] # "evict" => req[t].op = "update"
        /\ \A l \in Label \ touched[t] : Known(t, l)

EvictionInv == \A t \in Task : Evicting(t)

(* A step of others: a block they changed is touched.                       *)
LEMMA OthersSpare ==
    ASSUME TypeOK, NEW t \in Task, Evicting(t), AloneNext(Request), pc'[t] = pc[t]
    PROVE  Evicting(t)'
<1>1. req'[t] = req[t] /\ snap'[t] = snap[t] /\ evict'[t] = evict[t]
  <2>1. CASE \E u \in Task : Step(u) \/ Serve(u, Request) \/ Fail(u)
    BY <2>1, OwnStepMoves, OthersStay
  <2>2. CASE ResetBlocks \/ PurgeRow
    BY <2>2 DEF ResetBlocks, PurgeRow, taskVars
  <2> QED
    BY <2>1, <2>2 DEF AloneNext, Next
<1> SUFFICES ASSUME evict[t] # NoEviction, NEW l \in Label \ touched'[t]
             PROVE  Known(t, l)'
  BY <1>1 DEF Evicting
<1>2. touched'[t] = touched[t] \cup Changed
  BY <1>1 DEF AloneNext, Track
<1>3. Known(t, l) /\ Seen(row').blocks[l] = Seen(row).blocks[l]
  BY <1>2 DEF Evicting, Changed
<1>4. archive \subseteq archive'
  BY ArchiveGrows DEF AloneNext
<1> QED
  BY <1>1, <1>3, <1>4 DEF Known, Held, Text600

(* What one step of an eviction does to the blocks.                         *)
Kept(t) ==
    \A l \in Label \ touched[t] :
        LET old == Seen(row).blocks[l]
            new == Seen(row').blocks[l]
        IN  \/ new = old
            \/ <<l, old.value>> \in archive /\ new = [old EXCEPT !.value = Text600(@)]

LEMMA OwnStepKeeps ==
    ASSUME TypeOK, Staged, NEW t \in Task, Evicting(t), AloneNext(Request), pc'[t] # pc[t]
    PROVE  Evicting(t)' /\ (evict[t] # NoEviction => Kept(t))
<1>0. TaskTypes /\ row \in Columns \cup {NoRow}
  BY DEF TypeOK, TaskTypes
<1>1. Step(t) \/ Serve(t, Request) \/ Fail(t)
  BY MoverSteps DEF AloneNext
<1>2. evict'[t] # NoEviction => touched'[t] = touched[t]
  BY DEF AloneNext, Track
<1>a. ASSUME NEW a, Finish(t, a) PROVE evict'[t] = NoEviction
  BY <1>0, <1>a DEF Finish, TaskTypes
<1>b. row' = row => Kept(t)
  BY DEF Kept
<1>e. evict[t] # NoEviction => /\ pc[t] # "evict" => req[t].op = "update"
                               /\ \A l \in Label \ touched[t] : Known(t, l)
  BY DEF Evicting
<1>s. Seen(row) \in Columns /\ Full(Seen(row).blocks) /\ Seen(row).blocks \in Registry
  BY <1>0, SeenType DEF Columns
<1>l. ASSUME NEW column \in Columns, Loaded(t, column), UNCHANGED <<req, archive>>,
             column = Seen(row) \/ column.blocks = Seen(row).blocks,
             Seen(row').blocks = Seen(row).blocks, pc[t] # "evict"
      PROVE  Evicting(t)'
  <2>1. CASE req[t].op = "evict"
    <3>1. evict[t] = NoEviction
      BY <1>e, <1>l, <2>1
    <3>2. pc'[t] = "evict" /\ evict'[t] = StartEviction(column.blocks)
      BY <1>0, <1>l, <2>1 DEF Loaded, TaskTypes
    <3>3. evict'[t].base = Seen(row').blocks
      BY <1>l, <3>2 DEF StartEviction
    <3> QED
      BY <3>2, <3>3 DEF Evicting, Known
  <2>2. CASE req[t].op # "evict"
    <3>1. pc'[t] = "write" /\ evict' = evict /\ snap'[t] = column
      BY <1>0, <1>l, <2>2 DEF Loaded, TaskTypes
    <3> SUFFICES ASSUME evict[t] # NoEviction, NEW l \in Label \ touched[t]
                 PROVE  Known(t, l)'
      BY <1>2, <1>e, <1>l, <3>1 DEF Evicting
    <3>2. Held(t)'[l] = Seen(row').blocks[l]
      BY <1>l, <3>1 DEF Held
    <3> QED
      BY <1>e, <1>l, <3>1, <3>2 DEF Known, Text600
  <2> QED
    BY <2>1, <2>2
<1>3. CASE Load(t)
  <2>0. pc[t] = "load" /\ row' = row /\ UNCHANGED <<req, archive>>
    BY <1>3 DEF Load
  <2>1. CASE req[t].op = "playbook"
    <3>1. evict[t] = NoEviction /\ evict' = evict
      BY <1>3, <1>e, <2>0, <2>1 DEF Load
    <3> QED
      BY <3>1 DEF Evicting
  <2>2. CASE req[t].op # "playbook" /\ row # NoRow
    <3>1. Column(row.blocks) \in Columns /\ Loaded(t, Column(row.blocks))
      BY <1>0, <1>3, <2>2, ColumnType DEF Load, Columns
    <3>2. Column(row.blocks).blocks = Seen(row).blocks
      BY <1>0, <2>2, SeenType DEF Column
    <3> QED
      BY <1>b, <1>l, <2>0, <3>1, <3>2
  <2>3. CASE req[t].op # "playbook" /\ row = NoRow
    <3>1. pc'[t] = "default" /\ evict' = evict
      BY <1>0, <1>3, <2>3 DEF Load, TaskTypes
    <3> SUFFICES ASSUME evict[t] # NoEviction, NEW l \in Label \ touched[t]
                 PROVE  Known(t, l)'
      BY <1>2, <1>b, <1>e, <2>0, <3>1 DEF Evicting
    <3> QED
      BY <1>e, <2>0, <3>1 DEF Known, Text600
  <2> QED
    BY <1>b, <2>0, <2>1, <2>2, <2>3
<1>4. CASE InsertDefault(t)
  <2>1. CASE row = NoRow
    <3>1. row' = Column(Empty.blocks) /\ row' \in Columns /\ Loaded(t, row')
          /\ UNCHANGED <<req, archive>> /\ pc[t] = "default"
      BY <1>4, <2>1, EmptyType, ColumnType, SentinelAssumption DEF InsertDefault
    <3>2. Seen(row') = row' /\ Seen(row) = row'
      BY <2>1, <3>1, EmptyType, SeenColumn DEF Seen
    <3>3. Kept(t)
      BY <3>2 DEF Kept
    <3>4. row' = Seen(row) /\ Seen(row').blocks = Seen(row).blocks
      BY <3>2
    <3>5. PICK column \in Columns : column = row'
      BY <3>1
    <3>6. Evicting(t)'
      BY <1>l, <3>1, <3>4, <3>5
    <3> QED
      BY <3>3, <3>6
  <2>2. CASE row # NoRow
    BY <1>4, <1>a, <1>b, <2>2 DEF InsertDefault, Evicting
  <2> QED
    BY <2>1, <2>2
<1>5. CASE UpdateBlock(t)
  <2> DEFINE k == req[t].label
  <2>1. CASE ~Editable(t, k)
    BY <1>5, <1>a, <1>b, <2>1 DEF UpdateBlock, Evicting
  <2>2. CASE Editable(t, k) /\ evict[t] = NoEviction
    BY <1>5, <1>a, <2>2 DEF UpdateBlock, Return, Evicting
  <2>3. CASE Editable(t, k) /\ evict[t] # NoEviction
    <3>1. k \in Label /\ req[t].value \in Text /\ Held(t) \in Registry /\ pc[t] = "write"
      BY <1>0, <1>5, RequestFields DEF UpdateBlock, At, Staged, Serving, TaskTypes, Held, Columns
    <3> DEFINE x == [Held(t)[k] EXCEPT !.value = req[t].value]
    <3>2. Held(t)[k] \in Block /\ x \in Block
      BY <2>3, <3>1 DEF Editable, Registry, Block
    <3>3. row' = Column([Held(t) EXCEPT ![k] = x]) /\ evict' = evict /\ pc'[t] = "evict"
          /\ archive' = archive
      BY <1>0, <1>5, <2>3 DEF UpdateBlock, Upsert, Return, TaskTypes
    <3> HIDE DEF x
    <3>4. PICK c \in Registry : c = [Held(t) EXCEPT ![k] = x]
      BY <3>1, <3>2, PutType
    <3>5. Seen(row').blocks = BlockMap(c)
      BY <3>3, <3>4, SeenColumn DEF Column
    <3>6. ASSUME NEW l \in Label \ touched[t], l # k
          PROVE  Seen(row').blocks[l] = Seen(row).blocks[l] /\ evict[t].base[l] = Seen(row).blocks[l]
      <4>1. Held(t)[l] = Seen(row).blocks[l] /\ evict[t].base[l] = Seen(row).blocks[l]
        BY <1>e, <2>3, <3>1, <3>6 DEF Known
      <4>2. c[l] = Seen(row).blocks[l]
        BY <3>1, <3>4, <3>6, <4>1 DEF Registry
      <4>3. ~(c[l] = Absent /\ l \in Canonical)
        BY <1>s, <4>2 DEF Full
      <4> QED
        BY <3>5, <4>1, <4>2, <4>3 DEF BlockMap
    <3>7. ASSUME k \notin touched[t]
          PROVE  /\ <<k, Seen(row).blocks[k].value>> \in archive
                 /\ Seen(row').blocks[k] = [Seen(row).blocks[k] EXCEPT !.value = Text600(@)]
                 /\ Seen(row').blocks[k] = evict[t].base[k]
      <4>1. /\ Held(t)[k] = Seen(row).blocks[k]
            /\ <<k, Seen(row).blocks[k].value>> \in archive
            /\ req[t].value = Text600(Seen(row).blocks[k].value)
            /\ evict[t].base[k] = [Seen(row).blocks[k] EXCEPT !.value = Text600(@)]
        BY <1>e, <2>3, <3>1, <3>7 DEF Known
      <4>2. c[k] = x /\ x # Absent
        BY <3>1, <3>2, <3>4, SentinelAssumption DEF Registry
      <4>3. Seen(row').blocks[k] = x
        BY <3>1, <3>5, <4>2 DEF BlockMap
      <4>4. x = [Seen(row).blocks[k] EXCEPT !.value = Text600(@)]
        BY <4>1 DEF x
      <4> QED
        BY <4>1, <4>3, <4>4
    <3>8. Kept(t)
      BY <3>6, <3>7 DEF Kept
    <3>9. ASSUME NEW l \in Label \ touched[t] PROVE Known(t, l)'
      BY <3>3, <3>6, <3>7, <3>9 DEF Known
    <3> QED
      BY <1>2, <3>3, <3>8, <3>9 DEF Evicting
  <2> QED
    BY <2>1, <2>2, <2>3
<1>6. CASE ArchiveBlock(t)
  <2>1. PICK k \in evict[t].todo :
           LET v == evict[t].base[k].value IN
           /\ archive' = Archived(k, v)
           /\ req' = [req EXCEPT ![t] = [op |-> "update", label |-> k, value |-> Text600(v)]]
           /\ evict' = [evict EXCEPT ![t] = Shrunk(@, k)]
    BY <1>6 DEF ArchiveBlock
  <2>2. evict[t] \in Eviction /\ evict[t].base[k] # Absent /\ pc[t] = "evict"
        /\ evict[t] # NoEviction
    BY <1>0, <1>6 DEF ArchiveBlock, Staged, Serving, TaskTypes
  <2>3. k \in Label /\ evict[t].base \in Registry
    BY <2>1, <2>2 DEF Eviction
  <2>4. evict'[t] = Shrunk(evict[t], k) /\ pc'[t] = "load" /\ row' = row
        /\ req'[t] = [op |-> "update", label |-> k, value |-> Text600(evict[t].base[k].value)]
    BY <1>0, <1>6, <2>1 DEF ArchiveBlock, TaskTypes
  <2>5. /\ evict'[t].base[k] = [evict[t].base[k] EXCEPT !.value = Text600(@)]
        /\ \A l \in Label \ {k} : evict'[t].base[l] = evict[t].base[l]
    BY <2>3, <2>4 DEF Shrunk, Registry
  <2>6. req'[t].op = "update" /\ req'[t].label = k
        /\ req'[t].value = Text600(evict[t].base[k].value)
    BY <2>4
  <2>7. <<k, evict[t].base[k].value>> \in archive'
    BY <2>1 DEF Archived
  <2>8. ASSUME NEW l \in Label \ touched[t] PROVE Known(t, l)'
    <3>1. evict[t].base[l] = Seen(row).blocks[l]
      BY <1>e, <2>2 DEF Known
    <3>2. pc'[t] = "load" /\ Seen(row').blocks[l] = Seen(row).blocks[l]
      BY <2>4 DEF Seen
    <3>3. CASE l = k
      <4>1. /\ <<l, Seen(row').blocks[l].value>> \in archive'
            /\ req'[t].value = Text600(Seen(row').blocks[l].value)
            /\ evict'[t].base[l] = [Seen(row').blocks[l] EXCEPT !.value = Text600(@)]
        BY <2>5, <2>6, <2>7, <3>1, <3>2, <3>3
      <4> QED
        BY <2>6, <3>2, <3>3, <4>1 DEF Known, Text600
    <3>4. CASE l # k
      <4>1. evict'[t].base[l] = Seen(row').blocks[l] /\ l # req'[t].label
        BY <2>5, <2>6, <3>1, <3>2, <3>4
      <4> QED
        BY <3>2, <4>1 DEF Known
    <3> QED
      BY <3>3, <3>4
  <2> QED
    BY <1>2, <1>b, <2>4, <2>6, <2>8 DEF Evicting
<1>7. CASE CreateBlock(t) \/ AppendToBlock(t) \/ DeleteBlock(t) \/ AnswerRead(t)
           \/ StorePlaybook(t)
  <2>1. evict[t] = NoEviction
    BY <1>7, <1>e DEF CreateBlock, AppendToBlock, DeleteBlock, AnswerRead, StorePlaybook, At
  <2> QED
    BY <1>7, <1>a, <2>1
       DEF CreateBlock, AppendToBlock, DeleteBlock, AnswerRead, StorePlaybook, Evicting
<1>8. CASE EndEviction(t) \/ Fail(t)
  BY <1>8, <1>a, <1>b DEF EndEviction, Fail, Evicting
<1>9. CASE Serve(t, Request)
  <2>1. evict[t] = NoEviction /\ evict' = evict
    BY <1>9 DEF Serve, Begin, Staged, Serving
  <2> QED
    BY <2>1 DEF Evicting
<1> QED
  BY <1>1, <1>3, <1>4, <1>5, <1>6, <1>7, <1>8, <1>9 DEF Step

LEMMA EvictionStep ==
    TypeOK /\ Staged /\ EvictionInv /\ [AloneNext(Request)]_<<vars, history>> => EvictionInv'
<1>1. ASSUME EvictionInv, UNCHANGED <<vars, history>> PROVE EvictionInv'
  BY <1>1 DEF EvictionInv, Evicting, Known, Held, Seen, Text600, vars, taskVars, history
<1> QED
  BY <1>1, OthersSpare, OwnStepKeeps DEF EvictionInv

(* An eviction takes no text out of a block that others left alone since it *)
(* read the blocks, unless it archived that text, for any labels and texts, *)
(* any number of rounds and whatever fails or runs beside it.               *)
THEOREM EvictionsAreKept == AloneSpec => EvictionsKeep
<1>1. AloneInit => TypeOK /\ Staged /\ EvictionInv
  BY EmptyType, WorkingMemoryAssumption
     DEF AloneInit, Init, TypeOK, Staged, Serving, EvictionInv, Evicting
<1>2. TypeOK /\ Staged /\ [AloneNext(Request)]_<<vars, history>> => TypeOK' /\ Staged'
  BY TypeStep DEF AloneNext, vars, taskVars
<1>3. TypeOK /\ Staged /\ EvictionInv /\ [AloneNext(Request)]_<<vars, history>>
        => [\A t \in Task : evict[t] # NoEviction /\ pc'[t] # pc[t] =>
              \A l \in Label \ touched[t] :
                  LET old == Seen(row).blocks[l]
                      new == Seen(row').blocks[l]
                  IN  \/ new = old
                      \/ /\ <<l, old.value>> \in archive
                         /\ new = [old EXCEPT !.value = Text600(@)]]_<<vars, history>>
  BY OwnStepKeeps DEF EvictionInv, Kept
<1> QED
  BY <1>1, <1>2, <1>3, EvictionStep, PTL DEF AloneSpec, EvictionsKeep
=============================================================================

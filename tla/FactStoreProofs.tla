--------------------------- MODULE FactStoreProofs ---------------------------
(* Proofs about FactStore, for every set of ids, texts, entities and tasks. *)
EXTENDS FactStore, FiniteSetTheorems, TLAPS

(* Every action keeps the type invariant.                                   *)
LEMMA TypeStep == TypeOK /\ [Next]_vars => TypeOK'
<1> SUFFICES ASSUME TypeOK, [Next]_vars PROVE TypeOK'
  OBVIOUS
<1> USE FactStoreAssumption
<1>1. ASSUME NEW t \in Task, NEW r \in FactId \cup {NoFact, Failed}, Finish(t, r)
      PROVE  /\ pc' \in [Task -> {"idle", "get", "retireOld", "hash", "search",
                                  "decide", "retire", "write"}]
             /\ op' \in [Task -> {"insert", "update"}]
             /\ new' \in [Task -> Text]
             /\ old' \in [Task -> FactId \cup {NoFact}]
             /\ cands' \in [Task -> SUBSET FactId]
             /\ target' \in [Task -> FactId \cup {NoFact}]
             /\ action' \in [Task -> {"ADD", "UPDATE", "NO_CHANGE"}]
             /\ answer' \in [Task -> FactId \cup {NoFact, Failed}]
  BY <1>1 DEF TypeOK, Finish
<1>2. CASE UNCHANGED vars
  BY <1>2 DEF TypeOK, vars, rowVars, taskVars
<1>3. ASSUME NEW t \in Task, Step(t)
      PROVE  TypeOK'
  <2>1. CASE GetOld(t)
    BY <1>1, <2>1 DEF GetOld, TypeOK, rowVars
  <2>2. CASE RetireOld(t)
    BY <2>2 DEF RetireOld, Deactivate, TypeOK
  <2>3. CASE RejectBlank(t)
    BY <1>1, <2>3 DEF RejectBlank, TypeOK, rowVars
  <2>4. CASE HashCheck(t)
    BY <1>1, <2>4 DEF HashCheck, ActiveWith, Active, TypeOK, rowVars
  <2>5. CASE Search(t)
    BY <2>5 DEF Search, Active, TypeOK, rowVars
  <2>6. CASE DecideAdd(t)
    BY <2>6 DEF DecideAdd, Go, TypeOK, rowVars
  <2>7. CASE DecideNoChange(t)
    BY <1>1, <2>7 DEF DecideNoChange, TypeOK, rowVars
  <2>8. CASE DecideSupersede(t)
    BY <2>8 DEF DecideSupersede, Go, TypeOK, rowVars
  <2>9. CASE DecideTargetless(t)
    BY <2>9 DEF DecideTargetless, NearCands, Go, TypeOK, rowVars
  <2>10. CASE RetireTarget(t)
    BY <2>10 DEF RetireTarget, Deactivate, TypeOK
  <2>11. CASE Write(t)
    BY <1>1, <2>11 DEF Write, TypeOK
  <2> QED
    BY <1>3, <2>1, <2>2, <2>3, <2>4, <2>5, <2>6, <2>7, <2>8, <2>9, <2>10, <2>11
       DEF Step
<1>4. ASSUME NEW t \in Task, Request(t)
      PROVE  TypeOK'
  <2>1. ASSUME NEW x \in Text, BeginInsert(t, x) PROVE TypeOK'
    BY <2>1 DEF BeginInsert, TypeOK, rowVars
  <2>2. ASSUME NEW i \in FactId, NEW x \in Text, BeginUpdate(t, i, x) PROVE TypeOK'
    BY <2>2 DEF BeginUpdate, TypeOK, rowVars
  <2>3. ASSUME NEW i \in FactId, DeleteMemory(t, i) PROVE TypeOK'
    BY <2>3 DEF DeleteMemory, Deactivate, TypeOK, taskVars
  <2>4. CASE DeleteAll(t)
    BY <2>4 DEF DeleteAll, TypeOK, taskVars
  <2> QED
    BY <1>4, <2>1, <2>2, <2>3, <2>4 DEF Request
<1>5. ASSUME NEW t \in Task, Fail(t)
      PROVE  TypeOK'
  BY <1>1, <1>5 DEF Fail, TypeOK, rowVars
<1> QED
  BY <1>2, <1>3, <1>4, <1>5 DEF Next

(* The type invariant holds of every behaviour.                             *)
THEOREM TypeCorrect == Spec => []TypeOK
<1>1. Init => TypeOK
  BY FactStoreAssumption DEF Init, TypeOK
<1> QED
  BY <1>1, TypeStep, PTL DEF Spec
-----------------------------------------------------------------------------
(* How many active rows can carry the text x: those there are and those the *)
(* tasks that saw none are about to write.                                  *)
Writers(x) == {t \in Task : /\ pc[t] \in {"search", "decide", "retire", "write"}
                            /\ new[t] = x}

DupInv ==
    \A x \in Text : /\ IsFiniteSet(ActiveWith(x))
                    /\ Cardinality(ActiveWith(x)) + Cardinality(Writers(x))
                          <= Cardinality(Task)

(* Two sets that only shrink keep the bound.                                *)
LEMMA ShrinkKeepsBound ==
    ASSUME NEW A, NEW B, NEW C, NEW D, NEW n \in Nat,
           IsFiniteSet(A), IsFiniteSet(B), C \subseteq A, D \subseteq B,
           Cardinality(A) + Cardinality(B) <= n
    PROVE  IsFiniteSet(C) /\ Cardinality(C) + Cardinality(D) <= n
<1>1. /\ IsFiniteSet(C) /\ Cardinality(C) <= Cardinality(A)
      /\ IsFiniteSet(D) /\ Cardinality(D) <= Cardinality(B)
  BY FS_Subset
<1> QED
  BY <1>1, FS_CardinalityType

LEMMA WritersFinite ==
    ASSUME NEW x
    PROVE  /\ IsFiniteSet(Writers(x))
           /\ Cardinality(Writers(x)) \in Nat
           /\ Cardinality(Writers(x)) <= Cardinality(Task)
           /\ Cardinality(Task) \in Nat
<1>1. Writers(x) \subseteq Task
  BY DEF Writers
<1> QED
  BY <1>1, FactStoreAssumption, FS_Subset, FS_CardinalityType

(* Any step but a successful hash check and an insertion only removes       *)
(* active rows and writers of x.                                            *)
LEMMA DupStep == TypeOK /\ DupInv /\ [Next]_vars => DupInv'
<1> SUFFICES ASSUME TypeOK, DupInv, [Next]_vars, NEW x \in Text
             PROVE  /\ IsFiniteSet(ActiveWith(x)')
                    /\ Cardinality(ActiveWith(x)') + Cardinality(Writers(x)')
                          <= Cardinality(Task)
  BY DEF DupInv
<1> USE FactStoreAssumption
<1> DEFINE Small == /\ IsFiniteSet(ActiveWith(x)')
                    /\ Cardinality(ActiveWith(x)') + Cardinality(Writers(x)')
                          <= Cardinality(Task)
<1>0. /\ IsFiniteSet(ActiveWith(x))
      /\ Cardinality(ActiveWith(x)) \in Nat
      /\ Cardinality(ActiveWith(x)) + Cardinality(Writers(x)) <= Cardinality(Task)
  BY FS_CardinalityType DEF DupInv
<1>1. ASSUME ActiveWith(x)' \subseteq ActiveWith(x), Writers(x)' \subseteq Writers(x)
      PROVE  Small
  BY <1>0, <1>1, WritersFinite, ShrinkKeepsBound
<1>2. ASSUME NEW t \in Task, NEW r, Finish(t, r)
      PROVE  Writers(x)' = Writers(x) \ {t}
  BY <1>2 DEF Finish, Writers, TypeOK
<1>3. CASE UNCHANGED vars
  BY <1>1, <1>3 DEF vars, rowVars, taskVars, ActiveWith, Active, Writers
<1>4. ASSUME NEW t \in Task, Step(t)
      PROVE  Small
  <2>1. CASE GetOld(t)
    BY <1>1, <1>2, <2>1 DEF GetOld, rowVars, ActiveWith, Active, Writers, TypeOK
  <2>2. CASE RetireOld(t)
    BY <1>1, <2>2 DEF RetireOld, Deactivate, ActiveWith, Active, Writers, TypeOK
  <2>3. CASE RejectBlank(t)
    BY <1>1, <1>2, <2>3 DEF RejectBlank, rowVars, ActiveWith, Active
  <2>4. CASE HashCheck(t)
    <3>1. ActiveWith(x)' = ActiveWith(x)
      BY <2>4 DEF HashCheck, rowVars, ActiveWith, Active
    <3>2. CASE \E i \in ActiveWith(new[t]) : Finish(t, i)
      BY <1>1, <1>2, <3>1, <3>2
    <3>3. CASE ActiveWith(new[t]) = {} /\ pc' = [pc EXCEPT ![t] = "search"]
                                       /\ new' = new
      <4>1. CASE new[t] = x
        <5>1. Cardinality(ActiveWith(x)') = 0
          BY <3>1, <3>3, <4>1, FS_EmptySet
        <5>2. /\ IsFiniteSet(Writers(x)') /\ Cardinality(Writers(x)') \in Nat
              /\ Cardinality(Writers(x)') <= Cardinality(Task)
          <6>1. Writers(x)' \subseteq Task
            BY DEF Writers
          <6> QED
            BY <6>1, FS_Subset, FS_CardinalityType
        <5> QED
          BY <1>0, <3>1, <5>1, <5>2
      <4>2. CASE new[t] # x
        <5>1. Writers(x)' \subseteq Writers(x)
          BY <3>3, <4>2 DEF Writers, TypeOK
        <5> QED
          BY <1>1, <3>1, <5>1
      <4> QED
        BY <4>1, <4>2
    <3> QED
      BY <2>4, <3>2, <3>3 DEF HashCheck
  <2>5. CASE Search(t)
    BY <1>1, <2>5 DEF Search, rowVars, ActiveWith, Active, Writers, TypeOK
  <2>6. CASE DecideAdd(t)
    BY <1>1, <2>6 DEF DecideAdd, Go, rowVars, ActiveWith, Active, Writers, TypeOK
  <2>7. CASE DecideNoChange(t)
    BY <1>1, <1>2, <2>7 DEF DecideNoChange, rowVars, ActiveWith, Active
  <2>8. CASE DecideSupersede(t)
    BY <1>1, <2>8 DEF DecideSupersede, Go, rowVars, ActiveWith, Active, Writers, TypeOK
  <2>9. CASE DecideTargetless(t)
    BY <1>1, <2>9 DEF DecideTargetless, Go, rowVars, ActiveWith, Active, Writers, TypeOK
  <2>10. CASE RetireTarget(t)
    BY <1>1, <2>10 DEF RetireTarget, Deactivate, ActiveWith, Active, Writers, TypeOK
  <2>11. CASE Write(t)
    <3>1. PICK i \in FactId : /\ status[i] = "free"
                              /\ status' = [status EXCEPT ![i] = "active"]
                              /\ text' = [text EXCEPT ![i] = new[t]]
                              /\ Finish(t, i)
      BY <2>11 DEF Write
    <3>2. Writers(x)' = Writers(x) \ {t}
      BY <1>2, <3>1
    <3>3. CASE new[t] = x
      <4>1. ActiveWith(x)' = ActiveWith(x) \cup {i} /\ i \notin ActiveWith(x)
        BY <3>1, <3>3 DEF ActiveWith, Active, TypeOK
      <4>2. t \in Writers(x)
        BY <2>11, <3>3 DEF Write, Writers
      <4>3. /\ IsFiniteSet(ActiveWith(x)')
            /\ Cardinality(ActiveWith(x)') = Cardinality(ActiveWith(x)) + 1
        BY <1>0, <4>1, FS_AddElement
      <4>4. Cardinality(Writers(x)') = Cardinality(Writers(x)) - 1
        BY <3>2, <4>2, WritersFinite, FS_RemoveElement
      <4> QED
        BY <1>0, <4>3, <4>4, WritersFinite
    <3>4. CASE new[t] # x
      BY <1>1, <3>1, <3>2, <3>4 DEF ActiveWith, Active, TypeOK
    <3> QED
      BY <3>3, <3>4
  <2> QED
    BY <1>4, <2>1, <2>2, <2>3, <2>4, <2>5, <2>6, <2>7, <2>8, <2>9, <2>10, <2>11
       DEF Step
<1>5. ASSUME NEW t \in Task, Request(t)
      PROVE  Small
  <2>1. ASSUME NEW y \in Text, BeginInsert(t, y) PROVE Small
    BY <1>1, <2>1 DEF BeginInsert, rowVars, ActiveWith, Active, Writers, TypeOK
  <2>2. ASSUME NEW i \in FactId, NEW y \in Text, BeginUpdate(t, i, y) PROVE Small
    BY <1>1, <2>2 DEF BeginUpdate, rowVars, ActiveWith, Active, Writers, TypeOK
  <2>3. ASSUME NEW i \in FactId, DeleteMemory(t, i) PROVE Small
    BY <1>1, <2>3
       DEF DeleteMemory, Deactivate, taskVars, ActiveWith, Active, Writers, TypeOK
  <2>4. CASE DeleteAll(t)
    BY <1>1, <2>4 DEF DeleteAll, taskVars, ActiveWith, Active, Writers, TypeOK
  <2> QED
    BY <1>5, <2>1, <2>2, <2>3, <2>4 DEF Request
<1>6. ASSUME NEW t \in Task, Fail(t)
      PROVE  Small
  BY <1>1, <1>2, <1>6 DEF Fail, rowVars, ActiveWith, Active
<1> QED
  BY <1>3, <1>4, <1>5, <1>6 DEF Next

(* However many tasks write at once, each text has at most one active row   *)
(* per task; a single task keeps the hash of active rows unique.            *)
THEOREM DuplicatesBounded == Spec => []WritersBoundDuplicates
<1>1. Init => DupInv
  <2> SUFFICES ASSUME Init, NEW x \in Text
               PROVE  /\ IsFiniteSet(ActiveWith(x))
                      /\ Cardinality(ActiveWith(x)) + Cardinality(Writers(x))
                            <= Cardinality(Task)
    BY DEF DupInv
  <2>1. ActiveWith(x) = {}
    BY DEF Init, ActiveWith, Active
  <2> QED
    BY <2>1, WritersFinite, FS_EmptySet
<1>2. DupInv => WritersBoundDuplicates
  <2> SUFFICES ASSUME DupInv, NEW x \in Text
               PROVE  Cardinality(ActiveWith(x)) <= Cardinality(Task)
    BY DEF WritersBoundDuplicates
  <2> QED
    BY WritersFinite, FS_CardinalityType DEF DupInv
<1> QED
  BY <1>1, <1>2, DupStep, TypeCorrect, PTL DEF Spec
-----------------------------------------------------------------------------
(* No step brings an inactive row back or rewrites one.                     *)
THEOREM OnlyRetire == Spec => RowsOnlyRetire
<1> DEFINE Keeps ==
      \A i \in FactId :
         /\ status[i] = "inactive" => status'[i] = "inactive"
         /\ status[i] = "active" => status'[i] # "free"
         /\ status[i] # "free" => text'[i] = text[i]
<1>1. TypeOK /\ [Next]_vars => [Keeps]_rowVars
  <2> SUFFICES ASSUME TypeOK, Next PROVE Keeps \/ UNCHANGED rowVars
    BY DEF vars
  <2>1. PICK t \in Task : Step(t) \/ Request(t) \/ Fail(t)
    BY DEF Next
  <2>2. CASE Write(t)
    BY <2>2 DEF Write, TypeOK
  <2>3. CASE RetireOld(t) \/ RetireTarget(t)
    BY <2>3 DEF RetireOld, RetireTarget, Deactivate, TypeOK
  <2>4. ASSUME NEW i \in FactId, DeleteMemory(t, i) PROVE Keeps
    BY <2>4 DEF DeleteMemory, Deactivate, TypeOK
  <2>5. CASE DeleteAll(t)
    BY <2>5 DEF DeleteAll, TypeOK
  <2>6. CASE Fail(t) \/ GetOld(t) \/ RejectBlank(t) \/ HashCheck(t) \/ Search(t)
             \/ DecideAdd(t) \/ DecideNoChange(t) \/ DecideSupersede(t)
             \/ DecideTargetless(t)
             \/ (\E x \in Text : BeginInsert(t, x))
             \/ (\E i \in FactId, x \in Text : BeginUpdate(t, i, x))
    BY <2>6 DEF Fail, GetOld, RejectBlank, HashCheck, Search, DecideAdd, DecideNoChange,
                DecideSupersede, DecideTargetless, BeginInsert, BeginUpdate
  <2> QED
    BY <2>1, <2>2, <2>3, <2>4, <2>5, <2>6 DEF Step, Request
<1> QED
  BY <1>1, TypeCorrect, PTL DEF Spec, RowsOnlyRetire
-----------------------------------------------------------------------------
(* A task that is about to retire a target decided so because the target    *)
(* mentions an entity of the text it is about to write.                     *)
TargetInv ==
    \A t \in Task : pc[t] = "retire" =>
        /\ target[t] \in FactId
        /\ status[target[t]] # "free"
        /\ Entities[new[t]] \cap Entities[text[target[t]]] # {}

CandInv ==
    \A t \in Task : \A i \in cands[t] : status[i] # "free"

(* Rows a task refers to exist, and keep their text as long as they do.     *)
LEMMA TargetStep ==
    TypeOK /\ CandInv /\ TargetInv /\ [Next]_vars => CandInv' /\ TargetInv'
<1> SUFFICES ASSUME TypeOK, CandInv, TargetInv, [Next]_vars PROVE CandInv' /\ TargetInv'
  OBVIOUS
<1> USE FactStoreAssumption DEF CandInv, TargetInv
<1>1. CASE UNCHANGED vars
  BY <1>1 DEF vars, rowVars, taskVars
<1>2. ASSUME NEW t \in Task, NEW r, Finish(t, r),
             \A i \in FactId : status[i] # "free" => status'[i] # "free" /\ text'[i] = text[i]
      PROVE  CandInv' /\ TargetInv'
  BY <1>2 DEF Finish, TypeOK
<1>3. ASSUME NEW t \in Task, Step(t) PROVE CandInv' /\ TargetInv'
  <2>1. CASE GetOld(t)
    BY <1>2, <2>1 DEF GetOld, rowVars, TypeOK
  <2>2. CASE RetireOld(t)
    BY <2>2 DEF RetireOld, Deactivate, TypeOK
  <2>3. CASE RejectBlank(t)
    BY <1>2, <2>3 DEF RejectBlank, rowVars
  <2>4. CASE HashCheck(t)
    BY <1>2, <2>4 DEF HashCheck, rowVars, TypeOK
  <2>5. CASE Search(t)
    BY <2>5 DEF Search, Active, rowVars, TypeOK
  <2>6. CASE DecideAdd(t)
    BY <2>6 DEF DecideAdd, Go, rowVars, TypeOK
  <2>7. CASE DecideNoChange(t)
    BY <1>2, <2>7 DEF DecideNoChange, rowVars
  <2>8. CASE DecideSupersede(t)
    BY <2>8 DEF DecideSupersede, SharesEntity, Go, rowVars, TypeOK
  <2>9. CASE DecideTargetless(t)
    BY <2>9 DEF DecideTargetless, Go, rowVars, TypeOK
  <2>10. CASE RetireTarget(t)
    BY <2>10 DEF RetireTarget, Deactivate, TypeOK
  <2>11. CASE Write(t)
    BY <1>2, <2>11 DEF Write, TypeOK
  <2> QED
    BY <1>3, <2>1, <2>2, <2>3, <2>4, <2>5, <2>6, <2>7, <2>8, <2>9, <2>10, <2>11
       DEF Step
<1>4. ASSUME NEW t \in Task, Request(t) PROVE CandInv' /\ TargetInv'
  <2>1. ASSUME NEW x \in Text, BeginInsert(t, x) PROVE CandInv' /\ TargetInv'
    BY <2>1 DEF BeginInsert, Idle, rowVars, TypeOK
  <2>2. ASSUME NEW i \in FactId, NEW x \in Text, BeginUpdate(t, i, x)
        PROVE  CandInv' /\ TargetInv'
    BY <2>2 DEF BeginUpdate, Idle, rowVars, TypeOK
  <2>3. ASSUME NEW i \in FactId, DeleteMemory(t, i) PROVE CandInv' /\ TargetInv'
    BY <2>3 DEF DeleteMemory, Deactivate, taskVars, TypeOK
  <2>4. CASE DeleteAll(t)
    BY <2>4 DEF DeleteAll, taskVars, TypeOK
  <2> QED
    BY <1>4, <2>1, <2>2, <2>3, <2>4 DEF Request
<1>5. ASSUME NEW t \in Task, Fail(t) PROVE CandInv' /\ TargetInv'
  BY <1>2, <1>5 DEF Fail, rowVars
<1> QED
  BY <1>1, <1>3, <1>4, <1>5 DEF Next

Represented(e) ==
    \/ \E i \in Active : e \in Entities[text[i]]
    \/ \E t \in Task : pc[t] = "write" /\ e \in Entities[new[t]]

LEMMA SubjectStep ==
    TypeOK /\ TargetInv /\ SubjectsKept /\ [Next]_vars => SubjectsKept'
<1> SUFFICES ASSUME TypeOK, TargetInv, SubjectsKept, [Next]_vars,
                    faults' = 0, NEW e \in promised', Exclusive(e)
             PROVE  Represented(e)'
  BY DEF SubjectsKept, Represented, Exclusive
<1> USE FactStoreAssumption
<1>1. e \in promised /\ faults = 0 => Represented(e)
  BY DEF SubjectsKept, Represented
<1>2. ASSUME NEW t \in Task, pc[t] # "write", faults' = faults, promised' = promised,
             UNCHANGED rowVars,
             \A u \in Task \ {t} : pc'[u] = pc[u] /\ new'[u] = new[u]
      PROVE  Represented(e)'
  BY <1>1, <1>2 DEF Represented, Active, rowVars
<1>3. CASE UNCHANGED vars
  BY <1>1, <1>3 DEF vars, rowVars, taskVars, Represented, Active
<1>4. ASSUME NEW t \in Task, Step(t) PROVE Represented(e)'
  <2>1. CASE GetOld(t)
    BY <1>2, <2>1 DEF GetOld, Finish, TypeOK
  <2>2. CASE RetireOld(t)
    <3>1. e \in promised /\ e \notin Entities[text[old[t]]] /\ faults = 0
      BY <2>2 DEF RetireOld
    <3>2. ASSUME NEW i \in Active, e \in Entities[text[i]] PROVE i \in Active'
      BY <2>2, <3>1, <3>2 DEF RetireOld, Deactivate, Active, TypeOK
    <3> QED
      BY <1>1, <2>2, <3>1, <3>2 DEF RetireOld, Represented, TypeOK
  <2>3. CASE RejectBlank(t)
    BY <1>2, <2>3 DEF RejectBlank, Finish, TypeOK
  <2>4. CASE HashCheck(t)
    BY <1>2, <2>4 DEF HashCheck, Finish, TypeOK
  <2>5. CASE Search(t)
    BY <1>2, <2>5 DEF Search, TypeOK
  <2>6. CASE DecideAdd(t)
    BY <1>2, <2>6 DEF DecideAdd, Go, TypeOK
  <2>7. CASE DecideNoChange(t)
    BY <1>2, <2>7 DEF DecideNoChange, Finish, TypeOK
  <2>8. CASE DecideSupersede(t)
    BY <1>2, <2>8 DEF DecideSupersede, Go, TypeOK
  <2>9. CASE DecideTargetless(t)
    BY <1>2, <2>9 DEF DecideTargetless, Go, TypeOK
  <2>10. CASE RetireTarget(t)
    <3>1. /\ e \in promised /\ faults = 0 /\ pc[t] = "retire" /\ target[t] \in FactId
          /\ Entities[new[t]] \cap Entities[text[target[t]]] # {}
      BY <2>10 DEF RetireTarget, TargetInv
    <3>2. CASE e \in Entities[text[target[t]]]
      <4>1. Entities[text[target[t]]] = {e}
        BY <3>1, <3>2 DEF Exclusive, TypeOK
      <4>2. e \in Entities[new'[t]] /\ pc'[t] = "write"
        BY <2>10, <3>1, <4>1 DEF RetireTarget, TypeOK
      <4> QED
        BY <4>2 DEF Represented
    <3>3. CASE e \notin Entities[text[target[t]]]
      <4>1. ASSUME NEW i \in Active, e \in Entities[text[i]] PROVE i \in Active'
        BY <2>10, <3>3, <4>1 DEF RetireTarget, Deactivate, Active, TypeOK
      <4> QED
        BY <1>1, <2>10, <3>1, <4>1 DEF RetireTarget, Represented, TypeOK
    <3> QED
      BY <3>2, <3>3
  <2>11. CASE Write(t)
    <3>1. PICK i \in FactId : /\ status[i] = "free"
                              /\ status' = [status EXCEPT ![i] = "active"]
                              /\ text' = [text EXCEPT ![i] = new[t]]
                              /\ Finish(t, i)
      BY <2>11 DEF Write
    <3>2. i \in Active' /\ text'[i] = new[t]
      BY <3>1 DEF Active, TypeOK
    <3>3. CASE e \in Entities[new[t]]
      BY <3>2, <3>3 DEF Represented
    <3>4. CASE e \notin Entities[new[t]]
      <4>1. e \in promised /\ faults = 0
        BY <2>11, <3>4 DEF Write
      <4>2. ASSUME NEW j \in Active, e \in Entities[text[j]]
            PROVE  j \in Active' /\ e \in Entities[text'[j]]
        BY <3>1, <4>2 DEF Active, TypeOK
      <4>3. ASSUME NEW u \in Task, pc[u] = "write", e \in Entities[new[u]]
            PROVE  pc'[u] = "write" /\ new'[u] = new[u]
        BY <3>1, <3>4, <4>3 DEF Finish, TypeOK
      <4> QED
        BY <1>1, <4>1, <4>2, <4>3 DEF Represented
    <3> QED
      BY <3>3, <3>4
  <2> QED
    BY <1>4, <2>1, <2>2, <2>3, <2>4, <2>5, <2>6, <2>7, <2>8, <2>9, <2>10, <2>11
       DEF Step
<1>5. ASSUME NEW t \in Task, Request(t) PROVE Represented(e)'
  <2>1. ASSUME NEW x \in Text, BeginInsert(t, x) PROVE Represented(e)'
    BY <1>2, <2>1 DEF BeginInsert, Idle, TypeOK
  <2>2. ASSUME NEW i \in FactId, NEW x \in Text, BeginUpdate(t, i, x)
        PROVE  Represented(e)'
    BY <1>2, <2>2 DEF BeginUpdate, Idle, TypeOK
  <2>3. ASSUME NEW i \in FactId, DeleteMemory(t, i) PROVE Represented(e)'
    <3>1. e \in promised /\ e \notin Entities[text[i]] /\ faults = 0
      BY <2>3 DEF DeleteMemory
    <3>2. ASSUME NEW j \in Active, e \in Entities[text[j]] PROVE j \in Active'
      BY <2>3, <3>1, <3>2 DEF DeleteMemory, Deactivate, Active, TypeOK
    <3> QED
      BY <1>1, <2>3, <3>1, <3>2 DEF DeleteMemory, taskVars, Represented
  <2>4. CASE DeleteAll(t)
    BY <2>4 DEF DeleteAll
  <2> QED
    BY <1>5, <2>1, <2>2, <2>3, <2>4 DEF Request
<1>6. ASSUME NEW t \in Task, Fail(t) PROVE FALSE
  BY <1>6 DEF Fail, TypeOK
<1> QED
  BY <1>3, <1>4, <1>5, <1>6 DEF Next

(* Superseding never loses an exclusive entity: whatever the decision       *)
(* matrix answers and however requests interleave, what was stored about it *)
(* and not deleted is represented, until a request raises.                  *)
THEOREM SubjectsAreKept == Spec => []SubjectsKept
<1>1. Init => CandInv /\ TargetInv /\ SubjectsKept
  BY DEF Init, CandInv, TargetInv, SubjectsKept
<1> QED
  BY <1>1, TypeCorrect, TargetStep, SubjectStep, PTL DEF Spec
-----------------------------------------------------------------------------
(* Each step of a request is a step of the abstract store or leaves what it *)
(* promises alone.  An id that a request answers with came from a candidate *)
(* list, and candidates are rows that exist (CandInv).                      *)
LEMMA FinishReplies ==
    ASSUME NEW t \in Task, NEW r \in F!Known \cup {Failed}, Finish(t, r),
           UNCHANGED rowVars
    PROVE  F!Reply(t, r)
BY DEF Finish, rowVars, F!Reply, Active, Retired

LEMMA DeactivateRetires ==
    ASSUME TypeOK, NEW i, Deactivate(i), UNCHANGED <<text, answer>>
    PROVE  (i \in FactId /\ F!Retire(i)) \/ UNCHANGED F!vars
<1>1. CASE i \in Active
  <2>1. Active' = Active \ {i} /\ Retired' = Retired \cup {i}
    BY <1>1 DEF Active, Retired, Deactivate, TypeOK
  <2> QED
    BY <1>1, <2>1 DEF F!Retire, Active
<1>2. CASE i \notin Active
  <2>1. status' = status
    BY <1>2 DEF Active, Deactivate, TypeOK
  <2> QED
    BY <2>1 DEF F!vars, Active, Retired
<1> QED
  BY <1>1, <1>2

LEMMA StepRefines == TypeOK /\ CandInv /\ [Next]_vars => [F!Next]_(F!vars)
<1> SUFFICES ASSUME TypeOK, CandInv, [Next]_vars PROVE F!Next \/ UNCHANGED F!vars
  OBVIOUS
<1>1. CASE UNCHANGED vars
  BY <1>1 DEF vars, rowVars, taskVars, F!vars, Active, Retired
<1>2. ASSUME NEW t \in Task, NEW r \in FactId \cup {Failed}, F!Reply(t, r) PROVE F!Next
  BY <1>2 DEF F!Next
<1>3. F!Known \subseteq FactId
  BY DEF F!Known, Active, Retired
<1>4. ASSUME UNCHANGED <<status, text, answer>> PROVE UNCHANGED F!vars
  BY <1>4 DEF F!vars, Active, Retired
<1>5. ASSUME NEW i, F!Retire(i), i \in FactId PROVE F!Next
  BY <1>5 DEF F!Next
<1>6. ASSUME NEW t \in Task, Step(t) PROVE F!Next \/ UNCHANGED F!vars
  <2>1. CASE GetOld(t)
    BY <1>2, <1>4, <2>1, FinishReplies DEF GetOld, rowVars
  <2>2. CASE RetireOld(t)
    BY <1>5, <2>2, DeactivateRetires DEF RetireOld
  <2>3. CASE RejectBlank(t)
    BY <1>2, <2>3, FinishReplies DEF RejectBlank
  <2>4. CASE HashCheck(t)
    <3>1. \/ \E i \in ActiveWith(new[t]) : Finish(t, i)
          \/ UNCHANGED <<status, text, answer>>
      BY <2>4 DEF HashCheck, rowVars
    <3>2. ActiveWith(new[t]) \subseteq F!Known
      BY DEF ActiveWith, Active, F!Known
    <3>3. UNCHANGED rowVars
      BY <2>4 DEF HashCheck
    <3> QED
      BY <1>2, <1>3, <1>4, <3>1, <3>2, <3>3, FinishReplies
  <2>5. CASE Search(t)
    BY <1>4, <2>5 DEF Search, rowVars
  <2>6. CASE DecideAdd(t)
    BY <1>4, <2>6 DEF DecideAdd, Go, rowVars
  <2>7. CASE DecideNoChange(t)
    <3>1. PICK i \in cands[t] : Finish(t, i)
      BY <2>7 DEF DecideNoChange
    <3>2. i \in F!Known
      BY <3>1 DEF CandInv, TypeOK, F!Known, Active, Retired
    <3>3. UNCHANGED rowVars
      BY <2>7 DEF DecideNoChange
    <3> QED
      BY <1>2, <1>3, <3>1, <3>2, <3>3, FinishReplies
  <2>8. CASE DecideSupersede(t)
    BY <1>4, <2>8 DEF DecideSupersede, Go, rowVars
  <2>9. CASE DecideTargetless(t)
    BY <1>4, <2>9 DEF DecideTargetless, Go, rowVars
  <2>10. CASE RetireTarget(t)
    BY <1>5, <2>10, DeactivateRetires DEF RetireTarget
  <2>11. CASE Write(t)
    <3>1. PICK i \in FactId : /\ status[i] = "free"
                              /\ status' = [status EXCEPT ![i] = "active"]
                              /\ text' = [text EXCEPT ![i] = new[t]]
                              /\ Finish(t, i)
      BY <2>11 DEF Write
    <3>2. /\ i \notin F!Known
          /\ Active' = Active \cup {i}
          /\ Retired' = Retired
      BY <3>1 DEF Active, Retired, F!Known, TypeOK
    <3>3. new[t] \in Text
      BY DEF TypeOK
    <3>4. F!Remember(t, i, new[t])
      BY <3>1, <3>2 DEF F!Remember, Finish
    <3> QED
      BY <3>3, <3>4 DEF F!Next
  <2> QED
    BY <1>6, <2>1, <2>2, <2>3, <2>4, <2>5, <2>6, <2>7, <2>8, <2>9, <2>10, <2>11
       DEF Step
<1>7. ASSUME NEW t \in Task, Request(t) PROVE F!Next \/ UNCHANGED F!vars
  <2>1. ASSUME NEW x \in Text, BeginInsert(t, x) PROVE UNCHANGED F!vars
    BY <1>4, <2>1 DEF BeginInsert, rowVars
  <2>2. ASSUME NEW i \in FactId, NEW x \in Text, BeginUpdate(t, i, x)
        PROVE  UNCHANGED F!vars
    BY <1>4, <2>2 DEF BeginUpdate, rowVars
  <2>3. ASSUME NEW i \in FactId, DeleteMemory(t, i) PROVE F!Next \/ UNCHANGED F!vars
    BY <1>5, <2>3, DeactivateRetires DEF DeleteMemory, taskVars
  <2>4. CASE DeleteAll(t)
    <3>1. Active' = {} /\ Retired' = Active \cup Retired
      BY <2>4 DEF DeleteAll, Active, Retired, TypeOK
    <3> QED
      BY <2>4, <3>1 DEF DeleteAll, taskVars, F!Next, F!Clear, F!Known
  <2> QED
    BY <1>7, <2>1, <2>2, <2>3, <2>4 DEF Request
<1>8. ASSUME NEW t \in Task, Fail(t) PROVE F!Next
  BY <1>2, <1>8, FinishReplies DEF Fail
<1> QED
  BY <1>1, <1>6, <1>7, <1>8 DEF Next

(* The interleaved requests of insert_fact, update_memory and the deletes   *)
(* implement the store that Facts describes.                                *)
THEOREM Implements == Spec => Refines
<1>1. Init => CandInv /\ TargetInv /\ F!Init
  BY FactStoreAssumption DEF Init, CandInv, TargetInv, F!Init, Active, Retired
<1> QED
  BY <1>1, TypeCorrect, TargetStep, StepRefines, PTL DEF Spec, Refines, F!Spec
=============================================================================

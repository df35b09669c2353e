------------------------------ MODULE FactStore ------------------------------
(***************************************************************************)
(* The atomic-fact layer: rows of the table atomic_facts of one user, and  *)
(* the requests that write them.  insert_fact and update_memory are        *)
(* coroutines that run one autocommitted SQL statement (or one LLM call)   *)
(* between two awaits, so each of them is a sequence of actions here and   *)
(* the requests of different tasks interleave between any two of them.     *)
(*                                                                         *)
(* A text stands for its normalised form (strip, lower case), which is     *)
(* what content_hash digests: two texts have the same hash exactly when    *)
(* they are the same element of Text.                                      *)
(***************************************************************************)
EXTENDS Naturals, FiniteSets

CONSTANTS
    FactId,    \* the ids gen_random_uuid() can give to a row
    Text,      \* the texts callers submit, Blank included
    Blank,     \* a text that is empty once stripped
    Entity,    \* names that texts mention
    Entities,  \* Entities[x]: the entities query_entities() finds in x
    NearDup,   \* pairs of texts whose cosine reaches FACT_SEMANTIC_DUP_THRESHOLD
    Task,      \* the tasks that serve requests of this user at the same time
    NoFact,    \* "None" where a fact id is expected
    Failed,    \* the outcome of a request that raised
    MaxFaults  \* how many database, embedder or LLM errors a behaviour may have

ASSUME FactStoreAssumption ==
    /\ Blank \in Text
    /\ Entities \in [Text -> SUBSET Entity]
    /\ NearDup \subseteq Text \X Text
    /\ IsFiniteSet(Task)
    /\ NoFact \notin FactId
    /\ Failed \notin FactId
    /\ Failed # NoFact
    /\ MaxFaults \in Nat

VARIABLES
    status,   \* status[i]: "free" (no such row), "active" or "inactive"
    text,     \* text[i]: fact_text of row i
    pc,       \* pc[t]: where the request of task t stands
    op,       \* op[t]: "insert" or "update"
    new,      \* new[t]: the text task t stores
    old,      \* old[t]: the row an update_memory replaces
    cands,    \* cands[t]: the candidates its search returned
    target,   \* target[t]: the row the decision matrix chose to supersede
    action,   \* action[t]: what insert_fact decided to do
    answer,   \* answer[t]: the id its last request returned, or Failed
    promised, \* the entities some caller stored a fact about and did not delete
    faults    \* the errors so far

rowVars  == <<status, text>>
taskVars == <<pc, op, new, old, cands, target, action, answer>>
vars     == <<rowVars, taskVars, promised, faults>>

Active == {i \in FactId : status[i] = "active"}
ActiveWith(x) == {i \in Active : text[i] = x}
Near(x, y) == x = y \/ <<x, y>> \in NearDup \/ <<y, x>> \in NearDup

Idle(t) == pc[t] = "idle"

TypeOK ==
    /\ status \in [FactId -> {"free", "active", "inactive"}]
    /\ text \in [FactId -> Text]
    /\ pc \in [Task -> {"idle", "get", "retireOld", "hash", "search",
                        "decide", "retire", "write"}]
    /\ op \in [Task -> {"insert", "update"}]
    /\ new \in [Task -> Text]
    /\ old \in [Task -> FactId \cup {NoFact}]
    /\ cands \in [Task -> SUBSET FactId]
    /\ target \in [Task -> FactId \cup {NoFact}]
    /\ action \in [Task -> {"ADD", "UPDATE", "NO_CHANGE"}]
    /\ answer \in [Task -> FactId \cup {NoFact, Failed}]
    /\ promised \in SUBSET Entity
    /\ faults \in 0..MaxFaults

Init ==
    /\ status = [i \in FactId |-> "free"]
    /\ text = [i \in FactId |-> Blank]
    /\ pc = [t \in Task |-> "idle"]
    /\ op = [t \in Task |-> "insert"]
    /\ new = [t \in Task |-> Blank]
    /\ old = [t \in Task |-> NoFact]
    /\ cands = [t \in Task |-> {}]
    /\ target = [t \in Task |-> NoFact]
    /\ action = [t \in Task |-> "ADD"]
    /\ answer = [t \in Task |-> NoFact]
    /\ promised = {}
    /\ faults = 0

-----------------------------------------------------------------------------
(* The end of a request: its locals are dropped and its answer is kept.     *)
Finish(t, result) ==
    /\ pc' = [pc EXCEPT ![t] = "idle"]
    /\ op' = [op EXCEPT ![t] = "insert"]
    /\ new' = [new EXCEPT ![t] = Blank]
    /\ old' = [old EXCEPT ![t] = NoFact]
    /\ cands' = [cands EXCEPT ![t] = {}]
    /\ target' = [target EXCEPT ![t] = NoFact]
    /\ action' = [action EXCEPT ![t] = "ADD"]
    /\ answer' = [answer EXCEPT ![t] = result]

(* A request starts only while an id is left for every request in flight:   *)
(* the bound of the model, uuids do not run out.                            *)
IdLeft == Cardinality({i \in FactId : status[i] = "free"})
            > Cardinality({t \in Task : ~Idle(t)})

BeginInsert(t, x) ==
    /\ Idle(t) /\ IdLeft
    /\ pc' = [pc EXCEPT ![t] = "hash"]
    /\ new' = [new EXCEPT ![t] = x]
    /\ UNCHANGED <<rowVars, op, old, cands, target, action, answer,
                   promised, faults>>

BeginUpdate(t, i, x) ==
    /\ Idle(t) /\ IdLeft
    /\ status[i] # "free"
    /\ pc' = [pc EXCEPT ![t] = "get"]
    /\ op' = [op EXCEPT ![t] = "update"]
    /\ new' = [new EXCEPT ![t] = x]
    /\ old' = [old EXCEPT ![t] = i]
    /\ UNCHANGED <<rowVars, cands, target, action, answer, promised, faults>>

(* get_memory: only an active row is found, otherwise the update raises.    *)
GetOld(t) ==
    /\ pc[t] = "get"
    /\ \/ /\ status[old[t]] = "active"
          /\ pc' = [pc EXCEPT ![t] = "retireOld"]
          /\ UNCHANGED <<op, new, old, cands, target, action, answer>>
       \/ /\ status[old[t]] # "active"
          /\ Finish(t, Failed)
    /\ UNCHANGED <<rowVars, promised, faults>>

(* deactivate_fact: UPDATE ... WHERE id = i AND is_active = TRUE.           *)
Deactivate(i) ==
    status' = IF status[i] = "active" THEN [status EXCEPT ![i] = "inactive"]
              ELSE status

(* The caller of an update withdraws what the old text promised.            *)
RetireOld(t) ==
    /\ pc[t] = "retireOld"
    /\ Deactivate(old[t])
    /\ promised' = promised \ Entities[text[old[t]]]
    /\ pc' = [pc EXCEPT ![t] = "hash"]
    /\ UNCHANGED <<text, op, new, old, cands, target, action, answer, faults>>
-----------------------------------------------------------------------------
(* insert_fact raises on a text that is empty once stripped.                *)
RejectBlank(t) ==
    /\ pc[t] = "hash"
    /\ new[t] = Blank
    /\ Finish(t, Failed)
    /\ UNCHANGED <<rowVars, promised, faults>>

(* Faulty variant: a hit of the hash check does not end the request.        *)
HashCheckIgnored(t) ==
    /\ pc[t] = "hash"
    /\ new[t] # Blank
    /\ pc' = [pc EXCEPT ![t] = "search"]
    /\ UNCHANGED <<rowVars, op, new, old, cands, target, action, answer,
                   promised, faults>>

(* Step 1: the SELECT on content_hash.  A hit ends the request.             *)
HashCheck(t) ==
    /\ pc[t] = "hash"
    /\ new[t] # Blank
    /\ \/ /\ \E i \in ActiveWith(new[t]) : Finish(t, i)
       \/ /\ ActiveWith(new[t]) = {}
          /\ pc' = [pc EXCEPT ![t] = "search"]
          /\ UNCHANGED <<op, new, old, cands, target, action, answer>>
    /\ UNCHANGED <<rowVars, promised, faults>>

(* Step 2: search_facts returns some of the active rows.                    *)
Search(t) ==
    /\ pc[t] = "search"
    /\ \E c \in SUBSET Active : cands' = [cands EXCEPT ![t] = c]
    /\ pc' = [pc EXCEPT ![t] = "decide"]
    /\ UNCHANGED <<rowVars, op, new, old, target, action, answer,
                   promised, faults>>

(* Step 3: the answer of the decision matrix, after the guardrails.  It is  *)
(* computed from the candidates as they were at Step 2.                     *)
NearCands(t) == {i \in cands[t] : Near(new[t], text[i])}
SharesEntity(t, i) == Entities[new[t]] \cap Entities[text[i]] # {}

Go(t, where, act, tgt) ==
    /\ pc' = [pc EXCEPT ![t] = where]
    /\ action' = [action EXCEPT ![t] = act]
    /\ target' = [target EXCEPT ![t] = tgt]
    /\ UNCHANGED <<op, new, old, cands, answer>>

(* ADD, with no near duplicate among the candidates.                        *)
DecideAdd(t) ==
    /\ pc[t] = "decide"
    /\ NearCands(t) = {}
    /\ Go(t, "write", "ADD", NoFact)
    /\ UNCHANGED <<rowVars, promised, faults>>

(* Faulty variant: the candidates are returned in place of one of them.      *)
DecideNoChangeList(t) ==
    /\ pc[t] = "decide"
    /\ cands[t] # {}
    /\ Finish(t, cands[t])
    /\ UNCHANGED <<rowVars, promised, faults>>

(* NO_CHANGE, from the model or forced on an ADD by a near duplicate.  The  *)
(* row returned is the target or the first candidate.                       *)
DecideNoChange(t) ==
    /\ pc[t] = "decide"
    /\ \E i \in cands[t] : Finish(t, i)
    /\ UNCHANGED <<rowVars, promised, faults>>

(* Faulty variant: no subject guard.                                        *)
DecideSupersedeUnguarded(t) ==
    /\ pc[t] = "decide"
    /\ \E i \in cands[t] : Go(t, "retire", "UPDATE", i)
    /\ UNCHANGED <<rowVars, promised, faults>>

(* UPDATE or DELETE of a candidate: it is superseded only when it mentions  *)
(* an entity of the new text, otherwise both are kept.                      *)
DecideSupersede(t) ==
    /\ pc[t] = "decide"
    /\ \E i \in cands[t] :
          IF SharesEntity(t, i) THEN Go(t, "retire", "UPDATE", i)
                                ELSE Go(t, "write", "ADD", NoFact)
    /\ UNCHANGED <<rowVars, promised, faults>>

(* UPDATE or DELETE that names no target.                                   *)
DecideTargetless(t) ==
    /\ pc[t] = "decide"
    /\ cands[t] # {}
    /\ IF NearCands(t) = {} THEN Go(t, "write", "ADD", NoFact)
       ELSE \E i \in NearCands(t) : Go(t, "write", "NO_CHANGE", i)
    /\ UNCHANGED <<rowVars, promised, faults>>

RetireTarget(t) ==
    /\ pc[t] = "retire"
    /\ Deactivate(target[t])
    /\ pc' = [pc EXCEPT ![t] = "write"]
    /\ UNCHANGED <<text, op, new, old, cands, target, action, answer,
                   promised, faults>>

(* Faulty variant: the insertion overwrites an inactive row.                *)
WriteOverInactive(t) ==
    /\ pc[t] = "write"
    /\ \E i \in FactId \ Active :
          /\ status' = [status EXCEPT ![i] = "active"]
          /\ text' = [text EXCEPT ![i] = new[t]]
          /\ Finish(t, i)
    /\ promised' = promised \cup Entities[new[t]]
    /\ UNCHANGED faults

(* Step 4: INSERT ... RETURNING id.                                         *)
Write(t) ==
    /\ pc[t] = "write"
    /\ \E i \in FactId :
          /\ status[i] = "free"
          /\ status' = [status EXCEPT ![i] = "active"]
          /\ text' = [text EXCEPT ![i] = new[t]]
          /\ Finish(t, i)
    /\ promised' = promised \cup Entities[new[t]]
    /\ UNCHANGED faults

(* Any statement, embedding or search of the request raises; the request    *)
(* answers with an error and what it already committed stays committed.     *)
Fail(t) ==
    /\ ~Idle(t)
    /\ faults < MaxFaults
    /\ faults' = faults + 1
    /\ Finish(t, Failed)
    /\ UNCHANGED <<rowVars, promised>>
-----------------------------------------------------------------------------
(* delete_memory: get_memory raises unless the row is active, then          *)
(* deactivate_fact.                                                         *)
DeleteMemory(t, i) ==
    /\ Idle(t)
    /\ status[i] = "active"
    /\ Deactivate(i)
    /\ promised' = promised \ Entities[text[i]]
    /\ UNCHANGED <<text, taskVars, faults>>

(* delete_all (and the fact part of reset_user): one UPDATE over all rows.  *)
DeleteAll(t) ==
    /\ Idle(t)
    /\ status' = [i \in FactId |-> IF status[i] = "active" THEN "inactive"
                                   ELSE status[i]]
    /\ promised' = {}
    /\ UNCHANGED <<text, taskVars, faults>>

Step(t) ==
    \/ GetOld(t)    \/ RetireOld(t)
    \/ RejectBlank(t) \/ HashCheck(t) \/ Search(t)
    \/ DecideAdd(t) \/ DecideNoChange(t) \/ DecideSupersede(t) \/ DecideTargetless(t)
    \/ RetireTarget(t) \/ Write(t)

Request(t) ==
    \/ \E x \in Text : BeginInsert(t, x)
    \/ \E i \in FactId, x \in Text : BeginUpdate(t, i, x)
    \/ \E i \in FactId : DeleteMemory(t, i)
    \/ DeleteAll(t)

Next == \E t \in Task : Step(t) \/ Request(t) \/ Fail(t)

Spec == Init /\ [][Next]_vars
-----------------------------------------------------------------------------
(* At most as many active rows carry one text as there are tasks: a task    *)
(* writes a text only after it saw no active row with it.  With one task    *)
(* this is the hash deduplication of insert_fact (step 1) and of            *)
(* settings.FACT_HASH_DEDUP.                                                *)
WritersBoundDuplicates ==
    \A x \in Text : Cardinality(ActiveWith(x)) <= Cardinality(Task)

(* An entity that texts never mention together with another one.            *)
Exclusive(e) == \A x \in Text : e \in Entities[x] => Entities[x] = {e}

(* A stored memory is superseded only by one on the same entity: what was   *)
(* stored about an exclusive entity and not deleted stays represented by an *)
(* active row, or by the row a task is about to insert in place of it (the  *)
(* guard of insert_fact lines 115-136), as long as nothing raised.          *)
SubjectsKept ==
    faults = 0 =>
        \A e \in promised : Exclusive(e) =>
            \/ \E i \in Active : e \in Entities[text[i]]
            \/ \E t \in Task : pc[t] = "write" /\ e \in Entities[new[t]]

(* The soft delete is final and rows are immutable here: no request brings  *)
(* an inactive row back or rewrites the text of a row.                      *)
RowsOnlyRetire ==
    [][\A i \in FactId :
          /\ status[i] = "inactive" => status'[i] = "inactive"
          /\ status[i] = "active" => status'[i] # "free"
          /\ status[i] # "free" => text'[i] = text[i]]_rowVars

(* Refinement: the rows, the decision of the model and the steps of a       *)
(* request hidden, this is the store that Facts describes.                  *)
Retired == {i \in FactId : status[i] = "inactive"}

F == INSTANCE Facts WITH kept <- Active, gone <- Retired, says <- text

(* Requests that interleave between their statements, supersede rows chosen *)
(* from stale candidates and fail half way still behave as the store Facts  *)
(* promises: each step adds one row under a fresh id, retires one row or    *)
(* all of them, or only answers, and the answer is an error or a row that   *)
(* was stored (insert_fact, update_memory, delete_memory, delete_all).      *)
Refines == F!Spec

=============================================================================

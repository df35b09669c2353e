---------------------------- MODULE WorkingMemory ----------------------------
(***************************************************************************)
(* The working memory of one user: one row of the table working_memory     *)
(* whose JSONB column holds every labelled block and the skill playbooks.  *)
(* A request reads the whole column, changes its copy and writes the whole *)
(* column back in a second statement, so the requests of different tasks   *)
(* interleave between the two.                                             *)
(*                                                                         *)
(* The text of a block is a sequence of notes; its length stands for its   *)
(* number of characters.                                                   *)
(***************************************************************************)
EXTENDS Naturals, Sequences, FiniteSets, Functions

CONSTANTS
    Label,       \* labels of blocks, lower-cased and stripped
    Canonical,   \* the labels of DEFAULT_BLOCKS
    Persona,     \* the canonical label that eviction skips
    Note,        \* the pieces of text callers write
    Stock,       \* the text of a default block
    Book,        \* the skill playbooks, by task pattern
    Task,        \* the tasks that serve requests of this user at the same time
    Absent,      \* no block under a label
    NoRow,       \* the user has no row yet
    NoRequest,   \* the task serves nothing
    NoEviction,  \* the task is not inside evict_working_memory
    Budget,      \* max_total_chars of an eviction
    Keep,        \* the notes that eviction leaves in a block (600 characters)
    MaxRequests, \* how many requests a behaviour may have
    MaxFaults    \* how many database or embedder errors

ASSUME WorkingMemoryAssumption ==
    /\ IsFiniteSet(Label)
    /\ Canonical \subseteq Label
    /\ Persona \in Canonical
    /\ Budget \in Nat /\ Keep \in Nat
    /\ MaxRequests \in Nat /\ MaxFaults \in Nat

VARIABLES
    row,      \* the row of working_memory, or NoRow
    archive,  \* the rows <<label, text>> that eviction added to archival_memory
    pc,       \* pc[t]: where the request of task t stands
    req,      \* req[t]: the request of task t
    snap,     \* snap[t]: its copy of the column
    evict,    \* evict[t]: the loop of evict_working_memory, or NoEviction
    answer,   \* answer[t]: how its last request ended
    requests, \* the requests so far
    faults    \* the errors so far

taskVars == <<pc, req, snap, evict, answer>>
vars == <<row, archive, taskVars, requests, faults>>

Text == Seq(Note \cup {Stock})
Block == [value : Text, ro : BOOLEAN]
Registry == [Label -> Block \cup {Absent}]
Columns == [blocks : Registry, books : SUBSET Book]

Request ==
    [op : {"update"}, label : Label, value : Text]
      \cup [op : {"create"}, label : Label, value : Text, ro : BOOLEAN]
      \cup [op : {"append"}, label : Label, note : Note]
      \cup [op : {"delete"}, label : Label]
      \cup [op : {"playbook"}, book : Book]
      \cup [op : {"evict", "read"}]

Eviction == [base : Registry, todo : SUBSET Label]

ASSUME SentinelAssumption ==
    NoEviction \notin Eviction /\ Absent \notin Block /\ NoRow \notin Columns

TypeOK ==
    /\ row \in Columns \cup {NoRow}
    /\ archive \subseteq Label \X Text
    /\ pc \in [Task -> {"idle", "load", "default", "write", "evict"}]
    /\ req \in [Task -> Request \cup {NoRequest}]
    /\ snap \in [Task -> Columns]
    /\ evict \in [Task -> Eviction \cup {NoEviction}]
    /\ answer \in [Task -> {"none", "done", "error"}]
    /\ requests \in 0..MaxRequests
    /\ faults \in 0..MaxFaults

Empty == [blocks |-> [l \in Label |-> Absent], books |-> {}]

Init ==
    /\ row = NoRow
    /\ archive = {}
    /\ pc = [t \in Task |-> "idle"]
    /\ req = [t \in Task |-> NoRequest]
    /\ snap = [t \in Task |-> Empty]
    /\ evict = [t \in Task |-> NoEviction]
    /\ answer = [t \in Task |-> "none"]
    /\ requests = 0
    /\ faults = 0
-----------------------------------------------------------------------------
(* Faulty variant: the default is the bare text of the block.               *)
BareDefault == [value |-> Stock, ro |-> FALSE]

DefaultBlock == [value |-> <<Stock>>, ro |-> FALSE]

(* get_blocks and to_block_map: a canonical label that the column does not  *)
(* hold has its default text.                                               *)
BlockMap(blocks) ==
    [l \in Label |-> IF blocks[l] = Absent /\ l \in Canonical THEN DefaultBlock
                     ELSE blocks[l]]

(* Faulty variant: only the canonical fields of the schema are kept.        *)
CanonicalColumn(blocks) ==
    [blocks |-> [l \in Label |-> IF l \in Canonical THEN BlockMap(blocks)[l] ELSE Absent],
     books |-> {}]

(* The column that get_blocks returns, and that from_block_map and          *)
(* model_dump_json write back.  Playbooks are no blocks and are left out.   *)
Column(blocks) == [blocks |-> BlockMap(blocks), books |-> {}]

Text600(v) == SubSeq(v, 1, IF Len(v) < Keep THEN Len(v) ELSE Keep)
TotalLength(blocks) ==
    FoldFunction(LAMBDA b, n : (IF b = Absent THEN 0 ELSE Len(b.value)) + n, 0, blocks)

Finish(t, result) ==
    /\ pc' = [pc EXCEPT ![t] = "idle"]
    /\ req' = [req EXCEPT ![t] = NoRequest]
    /\ snap' = [snap EXCEPT ![t] = Empty]
    /\ evict' = [evict EXCEPT ![t] = NoEviction]
    /\ answer' = [answer EXCEPT ![t] = result]

(* The end of update_block: back to the eviction that called it, if any.    *)
Return(t) ==
    IF evict[t] = NoEviction THEN Finish(t, "done")
    ELSE /\ pc' = [pc EXCEPT ![t] = "evict"]
         /\ req' = [req EXCEPT ![t] = [op |-> "evict"]]
         /\ UNCHANGED <<snap, evict, answer>>

Begin(t, r) ==
    /\ pc[t] = "idle"
    /\ requests < MaxRequests
    /\ requests' = requests + 1
    /\ pc' = [pc EXCEPT ![t] = "load"]
    /\ req' = [req EXCEPT ![t] = r]
    /\ UNCHANGED <<row, archive, snap, evict, answer, faults>>

(* The locals of evict_working_memory: the lengths it counts with, and the  *)
(* blocks it may shrink (not empty, not persona, not read-only).  Their     *)
(* order depends on the query and is left open.                             *)
StartEviction(blocks) ==
    [base |-> blocks,
     todo |-> {l \in Label \ {Persona} :
                  blocks[l] # Absent /\ blocks[l].value # <<>> /\ ~blocks[l].ro}]

Loaded(t, column) ==
    /\ snap' = [snap EXCEPT ![t] = column]
    /\ pc' = [pc EXCEPT ![t] = IF req[t].op = "evict" THEN "evict" ELSE "write"]
    /\ evict' = IF req[t].op = "evict"
                THEN [evict EXCEPT ![t] = StartEviction(column.blocks)] ELSE evict

(* The SELECT of get_blocks, or of store_skill_playbook, which takes the    *)
(* column as it is and no default row.                                      *)
Load(t) ==
    /\ pc[t] = "load"
    /\ \/ /\ req[t].op = "playbook"
          /\ snap' = [snap EXCEPT ![t] = IF row = NoRow THEN Empty ELSE row]
          /\ pc' = [pc EXCEPT ![t] = "write"]
          /\ evict' = evict
       \/ /\ req[t].op # "playbook" /\ row # NoRow
          /\ Loaded(t, Column(row.blocks))
       \/ /\ req[t].op # "playbook" /\ row = NoRow
          /\ pc' = [pc EXCEPT ![t] = "default"]
          /\ UNCHANGED <<snap, evict>>
    /\ UNCHANGED <<row, archive, req, answer, requests, faults>>

(* The INSERT of get_blocks.  It has no ON CONFLICT: when another request   *)
(* inserted the row since the SELECT, the primary key refuses this one.     *)
InsertDefault(t) ==
    /\ pc[t] = "default"
    /\ \/ /\ row = NoRow
          /\ row' = Column(Empty.blocks)
          /\ Loaded(t, row')
          /\ UNCHANGED <<req, answer>>
       \/ /\ row # NoRow
          /\ Finish(t, "error")
          /\ UNCHANGED row
    /\ UNCHANGED <<archive, requests, faults>>
-----------------------------------------------------------------------------
Held(t) == snap[t].blocks

Upsert(blocks) == row' = Column(blocks)
UpdateOnly(blocks) == row' = IF row = NoRow THEN NoRow ELSE Column(blocks)

At(t, op) == pc[t] = "write" /\ req[t].op = op

Editable(t, l) == Held(t)[l] # Absent /\ ~Held(t)[l].ro

(* The rest of update_block: the two checks and the upsert.                 *)
UpdateBlock(t) ==
    /\ At(t, "update")
    /\ LET l == req[t].label IN
       \/ /\ ~Editable(t, l)
          /\ Finish(t, "error")
          /\ UNCHANGED row
       \/ /\ Editable(t, l)
          /\ Upsert([Held(t) EXCEPT ![l] = [@ EXCEPT !.value = req[t].value]])
          /\ Return(t)
    /\ UNCHANGED <<archive, requests, faults>>

(* create_memory_block: replaces whatever block the label had.              *)
CreateBlock(t) ==
    /\ At(t, "create")
    /\ Upsert([Held(t) EXCEPT ![req[t].label] =
                  [value |-> req[t].value, ro |-> req[t].ro]])
    /\ Finish(t, "done")
    /\ UNCHANGED <<archive, requests, faults>>

(* append_to_memory_block: creates the block if there is none.              *)
AppendToBlock(t) ==
    /\ At(t, "append")
    /\ LET b == Held(t)[req[t].label]
           old == IF b = Absent THEN [value |-> <<>>, ro |-> FALSE] ELSE b
       IN UpdateOnly([Held(t) EXCEPT ![req[t].label] =
                         [old EXCEPT !.value = Append(@, req[t].note)]])
    /\ Finish(t, "done")
    /\ UNCHANGED <<archive, requests, faults>>

(* delete_memory_block.                                                     *)
DeleteBlock(t) ==
    /\ At(t, "delete")
    /\ LET l == req[t].label IN
       \/ /\ Held(t)[l] = Absent
          /\ Finish(t, "error")
          /\ UNCHANGED row
       \/ /\ Held(t)[l] # Absent
          /\ UpdateOnly([Held(t) EXCEPT ![l] = Absent])
          /\ Finish(t, "done")
    /\ UNCHANGED <<archive, requests, faults>>

(* render_prompt, audit_memory_doctor and auto_archive_context_window only  *)
(* read what get_blocks returned.                                           *)
AnswerRead(t) ==
    /\ At(t, "read")
    /\ Finish(t, "done")
    /\ UNCHANGED <<row, archive, requests, faults>>

(* store_skill_playbook writes its copy of the column back, blocks included.*)
StorePlaybook(t) ==
    /\ At(t, "playbook")
    /\ row' = [snap[t] EXCEPT !.books = @ \cup {req[t].book}]
    /\ Finish(t, "done")
    /\ UNCHANGED <<archive, requests, faults>>
-----------------------------------------------------------------------------
WithinBudget(t) == TotalLength(evict[t].base) <= Budget

(* The loop of evict_working_memory ends: within budget, or nothing left.   *)
EndEviction(t) ==
    /\ pc[t] = "evict"
    /\ WithinBudget(t) \/ evict[t].todo = {}
    /\ Finish(t, "done")
    /\ UNCHANGED <<row, archive, requests, faults>>

(* archive_memory inserts a row, and changes none that is there; how many   *)
(* copies of a text there are is not kept.                                  *)
Archived(l, v) == archive \cup {<<l, v>>}

(* The locals after a round on the block l.                                 *)
Shrunk(v, l) == [base |-> [v.base EXCEPT ![l].value = Text600(@)], todo |-> v.todo \ {l}]

(* Faulty variant: the block is shrunk without being archived.              *)
ShrinkUnarchived(t) ==
    /\ pc[t] = "evict"
    /\ ~WithinBudget(t)
    /\ \E l \in evict[t].todo :
          LET v == evict[t].base[l].value IN
          /\ req' = [req EXCEPT ![t] = [op |-> "update", label |-> l, value |-> Text600(v)]]
          /\ evict' = [evict EXCEPT ![t] = Shrunk(@, l)]
    /\ pc' = [pc EXCEPT ![t] = "load"]
    /\ UNCHANGED <<row, archive, snap, answer, requests, faults>>

(* One round of it: archive_memory, then update_block with the beginning of *)
(* the text as it was when the eviction began.                              *)
ArchiveBlock(t) ==
    /\ pc[t] = "evict"
    /\ ~WithinBudget(t)
    /\ \E l \in evict[t].todo :
          LET v == evict[t].base[l].value IN
          /\ archive' = Archived(l, v)
          /\ req' = [req EXCEPT ![t] = [op |-> "update", label |-> l, value |-> Text600(v)]]
          /\ evict' = [evict EXCEPT ![t] = Shrunk(@, l)]
    /\ pc' = [pc EXCEPT ![t] = "load"]
    /\ UNCHANGED <<row, snap, answer, requests, faults>>

(* A statement or an embedding raises.  store_skill_playbook swallows the   *)
(* error and answers as if it had stored the playbook.                      *)
Fail(t) ==
    /\ pc[t] # "idle"
    /\ faults < MaxFaults
    /\ faults' = faults + 1
    /\ Finish(t, IF req[t].op = "playbook" THEN "done" ELSE "error")
    /\ UNCHANGED <<row, archive, requests>>

(* The statement of reset_user and of forget on this table.                 *)
ResetBlocks ==
    /\ row # NoRow
    /\ row' = Empty
    /\ UNCHANGED <<archive, taskVars, requests, faults>>

(* The statement of purge_user_memories on this table.                      *)
PurgeRow ==
    /\ row' = NoRow
    /\ UNCHANGED <<archive, taskVars, requests, faults>>

Step(t) ==
    \/ Load(t) \/ InsertDefault(t)
    \/ UpdateBlock(t) \/ CreateBlock(t) \/ AppendToBlock(t) \/ DeleteBlock(t)
    \/ AnswerRead(t) \/ StorePlaybook(t)
    \/ EndEviction(t) \/ ArchiveBlock(t)

Serve(t, Requests) == \E r \in Requests : Begin(t, r)

Next(Requests) ==
    \/ \E t \in Task : Step(t) \/ Serve(t, Requests) \/ Fail(t)
    \/ ResetBlocks
    \/ PurgeRow

Spec == Init /\ [][Next(Request)]_vars
-----------------------------------------------------------------------------
(* The playbooks that were stored stay retrievable ("across all saved       *)
(* playbooks", execute_playbook.py line 9) when a request writes the row.   *)
PlaybooksKept ==
    [][\A t \in Task :
          pc[t] = "write" /\ pc'[t] # "write" /\ row # NoRow /\ row' # NoRow
             => row.books \subseteq row'.books]_vars
=============================================================================

------------------------- MODULE WorkingMemoryAlone -------------------------
(* WorkingMemory with history variables: the requests during which nothing  *)
(* else moved and the registry they found, for what an operation promises   *)
(* by itself; the blocks that others changed while an eviction ran, for     *)
(* what it promises beside others.                                          *)
EXTENDS WorkingMemory

VARIABLES
    alone,   \* alone[t]: only the request of t moved since it began
    found,   \* found[t]: the column when it began, with the defaults
    touched  \* touched[t]: the labels others changed since its eviction began

history == <<alone, found, touched>>

Seen(r) == IF r = NoRow THEN Column(Empty.blocks)
           ELSE [r EXCEPT !.blocks = BlockMap(@)]

Changed == {l \in Label : Seen(row').blocks[l] # Seen(row).blocks[l]}

(* A step of the request of t changes pc[t]; any other is of others.        *)
Track ==
    /\ alone' = [t \in Task |-> \/ "idle" \in {pc[t], pc'[t]}
                                \/ alone[t] /\ pc'[t] # pc[t]]
    /\ found' = [t \in Task |->
                    IF pc'[t] = "idle" THEN Empty
                    ELSE IF pc[t] = "idle" THEN Seen(row) ELSE found[t]]
    /\ touched' = [t \in Task |->
                      IF evict'[t] = NoEviction THEN {}
                      ELSE IF pc'[t] # pc[t] THEN touched[t] ELSE touched[t] \cup Changed]

AloneInit == /\ Init
             /\ alone = [t \in Task |-> TRUE]
             /\ found = [t \in Task |-> Empty]
             /\ touched = [t \in Task |-> {}]
AloneNext(Requests) == Next(Requests) /\ Track
AloneSpec == AloneInit /\ [][AloneNext(Request)]_<<vars, history>>
-----------------------------------------------------------------------------
(* A block after a note was appended to it.                                 *)
Noted(b, n) == IF b = Absent THEN [value |-> <<n>>, ro |-> FALSE]
               ELSE [b EXCEPT !.value = Append(@, n)]

(* The registry after request r took effect at once on the registry b.      *)
Effect(r, b) ==
    CASE r.op = "update" -> [b EXCEPT ![r.label].value = r.value]
      [] r.op = "create" -> [b EXCEPT ![r.label] = [value |-> r.value, ro |-> r.ro]]
      [] r.op = "append" -> [b EXCEPT ![r.label] = Noted(@, r.note)]
      [] r.op = "delete" -> [b EXCEPT ![r.label] =
                                IF r.label \in Canonical THEN DefaultBlock ELSE Absent]
      [] OTHER -> b

(* A request that ran alone took effect at once or not at all.  When it     *)
(* succeeded it did to the blocks and the playbooks what it says, a block   *)
(* that update_block changed was not read-only, and no round trip of the    *)
(* column through get_blocks and from_block_map dropped a custom block or   *)
(* brought one back (working_schema.py lines 48-52); when it raised, it     *)
(* left the blocks as they were.                                            *)
ActsAtOnce ==
    [][\A t \in Task :
          pc[t] # "idle" /\ pc'[t] = "idle" /\ alone[t] /\ evict[t] = NoEviction =>
              /\ answer'[t] = "error" => Seen(row').blocks = found[t].blocks
              /\ answer'[t] = "done" /\ faults' = faults =>
                    Seen(row').blocks = Effect(req[t], found[t].blocks)
              /\ answer'[t] = "done" /\ req[t].op = "update" =>
                    ~found[t].blocks[req[t].label].ro
              /\ answer'[t] = "done" /\ req[t].op = "playbook" /\ faults' = faults =>
                    row'.books = found[t].books \cup {req[t].book}]_<<vars, history>>

(* No step of an eviction takes a text out of a block that nobody else      *)
(* changed since it read the blocks, unless the archive has that text and   *)
(* the block keeps its beginning: whatever fails, however many rounds it    *)
(* takes and although each round writes every block again, from a copy read *)
(* after it archived (interference.py lines 132-151).                       *)
EvictionsKeep ==
    [][\A t \in Task : evict[t] # NoEviction /\ pc'[t] # pc[t] =>
          \A l \in Label \ touched[t] :
              LET old == Seen(row).blocks[l]
                  new == Seen(row').blocks[l]
              IN  \/ new = old
                  \/ /\ <<l, old.value>> \in archive
                     /\ new = [old EXCEPT !.value = Text600(@)]]_<<vars, history>>
=============================================================================

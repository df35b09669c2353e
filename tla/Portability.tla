---------------------------- MODULE Portability ----------------------------
(***************************************************************************)
(* Prospective memory and the portable copy of a memory: intentions, the   *)
(* check_cues calls that fire them, erasure, and the bundle that a user    *)
(* exports and imports again.                                              *)
(*                                                                         *)
(* A check selects the intentions that wait and marks those whose cue it   *)
(* heard one by one; two checks, an erasure or an import may run in        *)
(* between.  An export reads one table after the other, each in a          *)
(* statement of its own; an import is one transaction.                     *)
(***************************************************************************)
EXTENDS Naturals, FiniteSets

CONSTANTS
    Intention,
    Check,      \* calls of check_cues, each made once
    Fact, Node, Edge, Profile,  \* ids of the rows of other tables of the user
    Ends,       \* Ends[e]: the nodes of an edge
    Procedural, \* the facts of memory_type procedural
    MaxExports, \* how many exports a behaviour has
    MaxFaults   \* how many errors and crashes it has together

ASSUME PortabilityAssumption ==
    /\ Ends \in [Edge -> SUBSET Node]
    /\ Procedural \subseteq Fact
    /\ Fact \cap Node = {}
    /\ MaxExports \in Nat /\ MaxFaults \in Nat

Row == Fact \cup Node \cup Edge \cup Profile

(* The tables in the order of the queries of export_user_memory.            *)
Table == 1..6
Facts == 1  Edges == 2  Nodes == 3  Intentions == 4  Profiles == 5  Playbooks == 6

VARIABLES
    db,         \* the rows of the other tables
    intent,     \* intent[i]: whether the row of an intention waits or has fired
    done,       \* done[i]: is_done
    pc,         \* pc[c]: where a check stands
    todo,       \* todo[c]: what it selected, whose cue it heard, and has not marked
    told,       \* told[c]: what it returns
    draft,      \* the bundle that is exported, and the table to read next
    bundle,     \* the bundle the user has
    exports, faults,
    cued,       \* cued[c]: todo[c] when it was selected
    before,     \* before[c]: the checks that had returned when c began
    restored,   \* the intentions an import has brought back
    made,       \* the ids that were given out
    failed      \* the checks that met an error

checkVars == <<pc, todo, told, cued, before, failed>>
bundleVars == <<draft, bundle, exports>>
vars == <<db, intent, done, checkVars, bundleVars, faults, restored, made>>

States == {"none", "waiting", "fired"}
Bundle == [rows : SUBSET Row, intent : [Intention -> States], done : [Intention -> BOOLEAN],
           books : SUBSET Procedural]
NoIntention == [i \in Intention |-> "none"]
NotDone == [i \in Intention |-> FALSE]
NoBundle == [rows |-> {}, intent |-> NoIntention, done |-> NotDone, books |-> {}]

TypeOK ==
    /\ db \subseteq Row /\ \A e \in db \cap Edge : Ends[e] \subseteq db
    /\ intent \in [Intention -> States] /\ done \in [Intention -> BOOLEAN]
    /\ pc \in [Check -> {"new", "open", "over", "dead"}]
    /\ \A c \in Check : /\ todo[c] \cup told[c] \subseteq Intention /\ todo[c] \cap told[c] = {}
                        /\ todo[c] \cup told[c] = cued[c]
                        /\ before[c] \subseteq Check
    /\ draft.bundle \in Bundle /\ draft.next \in Table \cup {0}
    /\ bundle \in Bundle
    /\ exports \in 0..MaxExports /\ faults \in 0..MaxFaults
    /\ restored \cup {i \in Intention : intent[i] # "none"} \subseteq made
    /\ made \subseteq Row \cup Intention /\ failed \subseteq Check

Init ==
    /\ db = {} /\ made = {}
    /\ intent = NoIntention /\ done = NotDone
    /\ pc = [c \in Check |-> "new"]
    /\ todo = [c \in Check |-> {}] /\ told = [c \in Check |-> {}]
    /\ cued = [c \in Check |-> {}] /\ before = [c \in Check |-> {}]
    /\ draft = [bundle |-> NoBundle, next |-> 0] /\ bundle = NoBundle
    /\ exports = 0 /\ faults = 0
    /\ restored = {} /\ failed = {}
-----------------------------------------------------------------------------
AddIntention(i) ==
    /\ i \notin made
    /\ made' = made \cup {i}
    /\ intent' = [intent EXCEPT ![i] = "waiting"]
    /\ UNCHANGED <<db, done, checkVars, bundleVars, faults, restored>>

(* complete_intention, of an id that may be gone or may not have fired.     *)
CompleteIntention(i) ==
    /\ intent[i] # "none"
    /\ done' = [done EXCEPT ![i] = TRUE]
    /\ UNCHANGED <<db, intent, checkVars, bundleVars, faults, restored, made>>

(* The WHERE clause of check_cues.                                          *)
Waiting == {i \in Intention : intent[i] = "waiting" /\ ~done[i]}

(* check_cues selects; of these rows it heard any.                          *)
BeginCheck(c) ==
    /\ pc[c] = "new"
    /\ pc' = [pc EXCEPT ![c] = "open"]
    /\ \E hits \in SUBSET Waiting :
          todo' = [todo EXCEPT ![c] = hits] /\ cued' = [cued EXCEPT ![c] = hits]
    /\ before' = [before EXCEPT ![c] = {d \in Check : pc[d] = "over"}]
    /\ UNCHANGED <<db, intent, done, told, failed, bundleVars, faults, restored, made>>

(* The row is marked, by its id alone, if it is still there, and added to   *)
(* the answer whether it is or not.                                         *)
Fire(c) ==
    /\ pc[c] = "open"
    /\ \E i \in todo[c] :
          /\ intent' = IF intent[i] = "none" THEN intent ELSE [intent EXCEPT ![i] = "fired"]
          /\ todo' = [todo EXCEPT ![c] = @ \ {i}]
          /\ told' = [told EXCEPT ![c] = @ \cup {i}]
    /\ UNCHANGED <<db, done, pc, cued, before, failed, bundleVars, faults, restored, made>>

EndCheck(c) ==
    /\ pc[c] = "open" /\ todo[c] = {}
    /\ pc' = [pc EXCEPT ![c] = "over"]
    /\ UNCHANGED <<db, intent, done, todo, told, cued, before, failed, bundleVars, faults,
                   restored, made>>

(* Faulty variant: an error answers with nothing.                           *)
FailCheckEmpty(c) ==
    /\ pc[c] = "open" /\ faults < MaxFaults /\ faults' = faults + 1
    /\ pc' = [pc EXCEPT ![c] = "over"] /\ failed' = failed \cup {c}
    /\ told' = [told EXCEPT ![c] = {}]
    /\ UNCHANGED <<db, intent, done, todo, cued, before, bundleVars, restored, made>>

(* A statement raises, before or after the server has done it: what was     *)
(* marked and told until then is the answer.                                *)
FailCheck(c) ==
    /\ pc[c] = "open" /\ faults < MaxFaults /\ faults' = faults + 1
    /\ pc' = [pc EXCEPT ![c] = "over"] /\ failed' = failed \cup {c}
    /\ \/ UNCHANGED intent
       \/ \E i \in todo[c] : intent[i] = "waiting" /\ intent' = [intent EXCEPT ![i] = "fired"]
    /\ UNCHANGED <<db, done, todo, told, cued, before, bundleVars, restored, made>>
-----------------------------------------------------------------------------
(* Other components add a row; an edge needs its nodes.                     *)
Put(r) ==
    /\ r \notin made
    /\ r \in Edge => Ends[r] \subseteq db
    /\ db' = db \cup {r} /\ made' = made \cup {r}
    /\ UNCHANGED <<intent, done, checkVars, bundleVars, faults, restored>>

(* forget without a scope: every row of the user, in one transaction.       *)
Forget ==
    /\ db # {} \/ intent # NoIntention
    /\ db' = {} /\ intent' = NoIntention /\ done' = NotDone
    /\ UNCHANGED <<checkVars, bundleVars, faults, restored, made>>

(* forget with one: the facts and intentions that match it.                 *)
ForgetScope ==
    /\ \E gone \in SUBSET {i \in Intention : intent[i] # "none"}, f \in SUBSET (db \cap Fact) :
          /\ gone \cup f # {}
          /\ db' = db \ f
          /\ intent' = [i \in Intention |-> IF i \in gone THEN "none" ELSE intent[i]]
          /\ done' = [i \in Intention |-> done[i] /\ i \notin gone]
    /\ UNCHANGED <<checkVars, bundleVars, faults, restored, made>>
-----------------------------------------------------------------------------
BeginExport ==
    /\ draft.next = 0 /\ exports < MaxExports
    /\ exports' = exports + 1
    /\ draft' = [bundle |-> NoBundle, next |-> Facts]
    /\ UNCHANGED <<db, intent, done, checkVars, bundle, faults, restored, made>>

(* One SELECT of export_user_memory.                                        *)
Read(b, table) ==
    CASE table = Facts -> [b EXCEPT !.rows = @ \cup (db \cap Fact)]
      [] table = Edges -> [b EXCEPT !.rows = @ \cup (db \cap Edge)]
      [] table = Nodes -> [b EXCEPT !.rows = @ \cup (db \cap Node)]
      [] table = Intentions -> [b EXCEPT !.intent = intent, !.done = done]
      [] table = Profiles -> [b EXCEPT !.rows = @ \cup (db \cap Profile)]
      [] table = Playbooks -> [b EXCEPT !.books = db \cap Procedural]

ReadTable ==
    /\ draft.next # 0
    /\ LET b == Read(draft.bundle, draft.next) IN
       IF draft.next = Playbooks
       THEN bundle' = b /\ draft' = [bundle |-> NoBundle, next |-> 0]
       ELSE draft' = [bundle |-> b, next |-> draft.next + 1] /\ UNCHANGED bundle
    /\ UNCHANGED <<db, intent, done, checkVars, exports, faults, restored, made>>

(* Whether every INSERT of an import is accepted: there is no table         *)
(* "procedural_playbooks" and no column id in user_profile, and the edges   *)
(* come before the nodes they refer to.                                     *)
Accepted ==
    /\ bundle.books = {}
    /\ bundle.rows \cap Profile = {}
    /\ \A e \in (bundle.rows \cap Edge) \ db : Ends[e] \subseteq db

(* Faulty variant: ON CONFLICT (id) DO UPDATE.                              *)
Overwritten(mine, theirs) ==
    [i \in Intention |-> IF theirs[i] = "none" THEN mine[i] ELSE theirs[i]]

(* ON CONFLICT (id) DO NOTHING: a row that is there stays as it is.         *)
Merged(mine, theirs) ==
    [i \in Intention |-> IF mine[i] = "none" THEN theirs[i] ELSE mine[i]]

(* One transaction: a row that is not accepted undoes it all.               *)
Import ==
    /\ bundle # NoBundle /\ Accepted
    /\ db' = db \cup bundle.rows
    /\ intent' = Merged(intent, bundle.intent)
    /\ done' = [i \in Intention |-> IF intent[i] = "none" THEN bundle.done[i] ELSE done[i]]
    /\ restored' = restored \cup {i \in Intention : intent[i] = "none" /\ bundle.intent[i] # "none"}
    /\ UNCHANGED <<checkVars, bundleVars, faults, made>>

(* The process stops, with its checks and its export.                       *)
Crash ==
    /\ faults < MaxFaults /\ faults' = faults + 1
    /\ LET Lost(f) == [c \in Check |-> IF pc[c] = "open" THEN {} ELSE f[c]] IN
       /\ todo' = Lost(todo) /\ told' = Lost(told)
       /\ cued' = Lost(cued) /\ before' = Lost(before)
    /\ pc' = [c \in Check |-> IF pc[c] = "open" THEN "dead" ELSE pc[c]]
    /\ draft' = [bundle |-> NoBundle, next |-> 0]
    /\ UNCHANGED <<db, intent, done, failed, bundle, exports, restored, made>>

Next ==
    \/ \E i \in Intention : AddIntention(i) \/ CompleteIntention(i)
    \/ \E c \in Check : BeginCheck(c) \/ Fire(c) \/ EndCheck(c) \/ FailCheck(c)
    \/ \E r \in Row : Put(r)
    \/ Forget \/ ForgetScope
    \/ BeginExport \/ ReadTable \/ Import
    \/ Crash

Spec == Init /\ [][Next]_vars
-----------------------------------------------------------------------------
(* An intention "must fire exactly when its cue occurs" (prospective.py     *)
(* line 5): two checks tell of it only if they overlapped, or if a bundle   *)
(* from before brought it back after it was erased; and a check without     *)
(* errors tells of all that waited and whose cue it heard, and leaves none  *)
(* of them waiting for the next.                                            *)
FiresOnce ==
    \A c \in Check :
        /\ \A d \in before[c] : told[c] \cap told[d] \subseteq restored
        /\ pc[c] = "over" /\ c \notin failed =>
              /\ cued[c] \subseteq told[c]
              /\ {i \in cued[c] : intent[i] = "waiting"} \subseteq restored
=============================================================================

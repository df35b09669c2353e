------------------------------ MODULE Lifecycle ------------------------------
(***************************************************************************)
(* The life of an atomic fact above insert_fact: the pipeline of           *)
(* MemoryEngine.remember (admission, poisoning check, insertion, trust,    *)
(* contradictions, evolution of the neighbours, quarantine) and the        *)
(* operations that change the same rows meanwhile: belief revision,        *)
(* invalidation, protection, the forgetting sweep, release from            *)
(* quarantine, deactivation and erasure.                                   *)
(*                                                                         *)
(* Every action is one SQL statement (or one LLM call).  The statements    *)
(* inside insert_fact are those of module FactStore; here it decides in    *)
(* one action and inserts in another.                                      *)
(***************************************************************************)
EXTENDS Integers, FiniteSets

CONSTANTS
    FactId,      \* the ids gen_random_uuid() can give to a row
    Text,        \* the texts of facts
    Opposed,     \* the pairs of texts that _contradicts_semantic finds opposed
    Derived,     \* the texts that begin with [Reflection], [Pattern] or [Gist]
    Trust,       \* trust of rows, by rank
    Source,      \* the trust of the sources that call remember
    Ceiling,     \* QUARANTINE_TRUST_CEILING, by rank
    ColumnTrust, \* the default of the column source_trust, by rank
    Task,        \* the tasks that serve requests of this user at the same time
    NoFact,      \* no fact id
    NoText,      \* the text of no row
    MaxRequests, \* how many requests a behaviour may have
    MaxFaults    \* how many database, embedder or LLM errors

(* Belief by bands: below CORE_BELIEF_FLOOR (0.85), from there on, and from *)
(* PROTECT_BELIEF (0.90) on.                                                *)
Plain == 0
Core == 1
Frozen == 2
Belief == {Plain, Core, Frozen}

ASSUME LifecycleAssumption ==
    /\ Opposed \subseteq Text \X Text
    /\ Derived \subseteq Text
    /\ Trust \subseteq Nat /\ Source \subseteq Trust /\ ColumnTrust \in Trust /\ Ceiling \in Nat
    /\ NoFact \notin FactId /\ NoText \notin Text
    /\ MaxRequests \in Nat /\ MaxFaults \in Nat

VARIABLES
    text,     \* text[i]: fact_text, NoText when there is no row i
    hash,     \* hash[i]: the text that content_hash digests
    active,   \* is_active
    closed,   \* valid_to is set
    by,       \* invalidated_by
    contra,   \* contradicted_by
    belief,   \* belief_confidence
    trust,    \* source_trust
    quar,     \* is_quarantined
    prot,     \* is_protected
    erased,   \* the ids whose row was deleted
    pc,       \* pc[t]: where the request of task t stands
    loc,      \* loc[t]: its local variables
    settled,  \* the contradictions <<new, old>> that a remember went through
    requests, \* the requests so far
    faults    \* the errors so far

rowVars == <<text, hash, active, closed, by, contra, belief, trust, quar, prot, erased>>
taskVars == <<pc, loc>>
vars == <<rowVars, taskVars, settled, requests, faults>>

Present == {i \in FactId : text[i] # NoText}
Active == {i \in Present : active[i]}

(* The locals of a request: the text and trust it was given, the candidates *)
(* its search returned, those among them it finds opposed and did not       *)
(* handle yet, the verdict of the poisoning check, the id insert_fact       *)
(* returned, the row it works on, the belief it read and a text to write.   *)
Locals == [text : Text \cup {NoText}, trust : Trust \cup {0}, cands : SUBSET FactId,
           foes : SUBSET FactId, flagged : BOOLEAN, new : FactId \cup {NoFact},
           cur : FactId \cup {NoFact}, read : Belief, draft : Text \cup {NoText}]

NoLocals == [text |-> NoText, trust |-> 0, cands |-> {}, foes |-> {}, flagged |-> FALSE,
             new |-> NoFact, cur |-> NoFact, read |-> Plain, draft |-> NoText]

TypeOK ==
    /\ text \in [FactId -> Text \cup {NoText}]
    /\ hash \in [FactId -> Text \cup {NoText}]
    /\ active \in [FactId -> BOOLEAN] /\ closed \in [FactId -> BOOLEAN]
    /\ quar \in [FactId -> BOOLEAN] /\ prot \in [FactId -> BOOLEAN]
    /\ by \in [FactId -> FactId \cup {NoFact}]
    /\ contra \in [FactId -> SUBSET FactId]
    /\ belief \in [FactId -> Belief]
    /\ trust \in [FactId -> Trust]
    /\ erased \subseteq FactId
    /\ pc \in [Task -> {"idle", "search", "poison", "insert", "write", "meta", "contra",
                        "markBack", "believe", "believed", "deactivate", "close",
                        "point", "check", "rewrite", "quarantine",
                        "sweep", "pointOnly"}]
    /\ loc \in [Task -> Locals]
    /\ settled \subseteq FactId \X FactId
    /\ requests \in 0..MaxRequests
    /\ faults \in 0..MaxFaults

(* What earlier sessions left: rows nothing has closed or contradicted yet, *)
(* of any belief, some of them protected.                                   *)
Init ==
    /\ text \in [FactId -> Text \cup {NoText}]
    /\ hash = text
    /\ active = [i \in FactId |-> text[i] # NoText]
    /\ closed = [i \in FactId |-> FALSE]
    /\ by = [i \in FactId |-> NoFact]
    /\ contra = [i \in FactId |-> {}]
    /\ belief \in [FactId -> Belief]
    /\ trust \in [FactId -> Trust]
    /\ quar = [i \in FactId |-> FALSE]
    /\ prot \in [FactId -> BOOLEAN]
    /\ erased = {}
    /\ \A i \in FactId \ Present : belief[i] = Plain /\ trust[i] = ColumnTrust /\ ~prot[i]
    /\ pc = [t \in Task |-> "idle"]
    /\ loc = [t \in Task |-> NoLocals]
    /\ settled = {}
    /\ requests = 0
    /\ faults = 0
-----------------------------------------------------------------------------
Go(t, where) == pc' = [pc EXCEPT ![t] = where]
Local(t, l) == loc' = [loc EXCEPT ![t] = l]
Finish(t) == Go(t, "idle") /\ Local(t, NoLocals)

Begin(t, where, l) ==
    /\ pc[t] = "idle" /\ requests < MaxRequests
    /\ requests' = requests + 1
    /\ Go(t, where) /\ Local(t, l)
    /\ UNCHANGED <<rowVars, settled, faults>>

(* remember(user, text, source).  It starts only while an id is left for    *)
(* every request in flight: the bound of the model, uuids do not run out.   *)
BeginRemember(t, x, k) ==
    /\ Cardinality(FactId \ (Present \cup erased))
          > Cardinality({u \in Task : pc[u] # "idle"})
    /\ Begin(t, "search", [NoLocals EXCEPT !.text = x, !.trust = k])

(* What search_facts may answer: similarity, rank fusion, the reranker and  *)
(* the slot it keeps for a temporal query choose among the active rows.     *)
Hits == SUBSET Active

(* search_facts, and a text that evaluate_admission stores or merges.  What *)
(* of the candidates is opposed is decided on their texts as found.         *)
Search(t) ==
    /\ pc[t] = "search"
    /\ \E c \in Hits :
          Local(t, [loc[t] EXCEPT
              !.cands = c,
              !.foes = {i \in c : <<loc[t].text, text[i]>> \in Opposed}])
    /\ Go(t, "poison")
    /\ UNCHANGED <<rowVars, settled, requests, faults>>

(* evaluate_admission drops the text: its score, of novelty, importance and *)
(* credibility, may fall below the threshold with any candidates.           *)
Drop(t) ==
    /\ pc[t] = "search"
    /\ Finish(t)
    /\ UNCHANGED <<rowVars, settled, requests, faults>>

(* check_poisoning re-reads the candidates; a source above the ceiling is   *)
(* not checked.                                                             *)
PoisonCheck(t) ==
    /\ pc[t] = "poison"
    /\ Local(t, [loc[t] EXCEPT !.flagged =
           /\ loc[t].trust <= Ceiling
           /\ \E i \in loc[t].cands \cap Active :
                 belief[i] >= Core /\ trust[i] > loc[t].trust /\ text[i] # loc[t].text])
    /\ Go(t, "insert")
    /\ UNCHANGED <<rowVars, settled, requests, faults>>

(* insert_fact answers with a row it found: the one with the same text, or  *)
(* any row its search returned when it decides NO_CHANGE.                   *)
InsertKnown(t) ==
    /\ pc[t] = "insert"
    /\ \E i \in Active : Local(t, [loc[t] EXCEPT !.new = i])
    /\ Go(t, "meta")
    /\ UNCHANGED <<rowVars, settled, requests, faults>>

NoHashHit(t) == \A i \in Active : hash[i] # loc[t].text

(* insert_fact decides UPDATE: it deactivates a row, then inserts.          *)
InsertSupersede(t) ==
    /\ pc[t] = "insert" /\ NoHashHit(t)
    /\ \E i \in Active : active' = [active EXCEPT ![i] = FALSE]
    /\ Go(t, "write")
    /\ UNCHANGED <<text, hash, closed, by, contra, belief, trust, quar, prot, erased,
                   loc, settled, requests, faults>>

(* insert_fact decides ADD, or continues after UPDATE.  A new row has the   *)
(* defaults of the columns.                                                 *)
Insert(t) ==
    /\ pc[t] = "write" \/ (pc[t] = "insert" /\ NoHashHit(t))
    /\ \E i \in FactId \ (Present \cup erased) :
          /\ text' = [text EXCEPT ![i] = loc[t].text]
          /\ hash' = [hash EXCEPT ![i] = loc[t].text]
          /\ active' = [active EXCEPT ![i] = TRUE]
          /\ Local(t, [loc[t] EXCEPT !.new = i])
    /\ Go(t, "meta")
    /\ UNCHANGED <<closed, by, contra, belief, trust, quar, prot, erased,
                   settled, requests, faults>>

(* _attach_agi_meta: the trust of this source, on whatever row came back.   *)
AttachMeta(t) ==
    /\ pc[t] = "meta"
    /\ trust' = IF loc[t].new \in Present
                THEN [trust EXCEPT ![loc[t].new] = loc[t].trust] ELSE trust
    /\ Go(t, "contra")
    /\ UNCHANGED <<text, hash, active, closed, by, contra, belief, quar, prot, erased,
                   loc, settled, requests, faults>>
-----------------------------------------------------------------------------
(* array_append of b to the column contradicted_by of row a, if it exists.  *)
Point(a, b) ==
    contra' = IF a \in Present THEN [contra EXCEPT ![a] = @ \cup {b}] ELSE contra

(* Faulty variant: only the old fact points to the new one.                 *)
MarkOneWay(t) ==
    /\ pc[t] = "contra"
    /\ \E c \in loc[t].foes : Local(t, [loc[t] EXCEPT !.foes = @ \ {c}, !.cur = c])
    /\ Go(t, "markBack")
    /\ UNCHANGED <<rowVars, settled, requests, faults>>

(* The loop over the candidates that contradict the new text takes one of   *)
(* them.  mark_contradiction has one statement for each direction.          *)
Mark(t) ==
    /\ pc[t] = "contra"
    /\ \E c \in loc[t].foes :
          /\ Local(t, [loc[t] EXCEPT !.foes = @ \ {c}, !.cur = c])
          /\ Point(loc[t].new, c)
    /\ Go(t, "markBack")
    /\ UNCHANGED <<text, hash, active, closed, by, belief, trust, quar, prot, erased,
                   settled, requests, faults>>

MarkBack(t) ==
    /\ pc[t] = "markBack"
    /\ Point(loc[t].cur, loc[t].new)
    /\ Go(t, "believe")
    /\ UNCHANGED <<text, hash, active, closed, by, belief, trust, quar, prot, erased,
                   loc, settled, requests, faults>>

(* revise_fact_belief reads, then writes what it computed; here supports is *)
(* False, so the belief does not rise (bayesian_update).                    *)
ReadBelief(t) ==
    /\ pc[t] = "believe"
    /\ Local(t, [loc[t] EXCEPT !.read = belief[loc[t].cur]])
    /\ Go(t, "believed")
    /\ UNCHANGED <<rowVars, settled, requests, faults>>

SetBelief(i, b) == belief' = IF i \in Present THEN [belief EXCEPT ![i] = b] ELSE belief

(* Faulty variant: the posterior is not kept above MIN_BELIEF.              *)
LowerBeliefUnclamped(t) ==
    /\ pc[t] = "believed"
    /\ SetBelief(loc[t].cur, loc[t].read - 1)
    /\ Go(t, "deactivate")
    /\ UNCHANGED <<text, hash, active, closed, by, contra, trust, quar, prot, erased,
                   loc, settled, requests, faults>>

LowerBelief(t) ==
    /\ pc[t] = "believed"
    /\ \E b \in Belief : b <= loc[t].read /\ SetBelief(loc[t].cur, b)
    /\ Go(t, "deactivate")
    /\ UNCHANGED <<text, hash, active, closed, by, contra, trust, quar, prot, erased,
                   loc, settled, requests, faults>>

(* Faulty variant: a protected row is not deactivated.                      *)
DeactivateUnprotected(t) ==
    /\ pc[t] = "deactivate"
    /\ active' = [active EXCEPT ![loc[t].cur] = @ /\ prot[loc[t].cur]]
    /\ Go(t, "close")
    /\ UNCHANGED <<text, hash, closed, by, contra, belief, trust, quar, prot, erased,
                   loc, settled, requests, faults>>

DeactivateFoe(t) ==
    /\ pc[t] = "deactivate"
    /\ active' = [active EXCEPT ![loc[t].cur] = FALSE]
    /\ Go(t, "close")
    /\ UNCHANGED <<text, hash, closed, by, contra, belief, trust, quar, prot, erased,
                   loc, settled, requests, faults>>

(* invalidate_fact: valid_to is written once, invalidated_by is overwritten.*)
Close(i, who) ==
    IF i \in Present
    THEN /\ closed' = [closed EXCEPT ![i] = TRUE]
         /\ by' = [by EXCEPT ![i] = IF who = NoFact THEN @ ELSE who]
    ELSE UNCHANGED <<closed, by>>

CloseFoe(t) ==
    /\ pc[t] = "close"
    /\ Close(loc[t].cur, loc[t].new)
    /\ Go(t, "point")
    /\ UNCHANGED <<text, hash, active, contra, belief, trust, quar, prot, erased,
                   loc, settled, requests, faults>>

PointFoe(t) ==
    /\ pc[t] = "point"
    /\ Point(loc[t].cur, loc[t].new)
    /\ settled' = settled \cup {<<loc[t].new, loc[t].cur>>}
    /\ Local(t, [loc[t] EXCEPT !.cur = NoFact, !.read = Plain])
    /\ Go(t, "contra")
    /\ UNCHANGED <<text, hash, active, closed, by, belief, trust, quar, prot, erased,
                   requests, faults>>
-----------------------------------------------------------------------------
(* evolve_memory_network asks the LLM which neighbours to rewrite, and      *)
(* rewrites them one after the other.  Without candidates it searches for   *)
(* neighbours itself.  The links between facts are not modelled.            *)
Neighbours(t) == (IF loc[t].cands = {} THEN Active ELSE loc[t].cands) \ {loc[t].new}

Evolve(t) ==
    /\ pc[t] = "contra" /\ loc[t].foes = {}
    /\ \/ Go(t, "quarantine") /\ UNCHANGED loc
       \/ \E i \in Neighbours(t), y \in Text :
             /\ Local(t, [loc[t] EXCEPT !.cands = Neighbours(t), !.cur = i, !.draft = y])
             /\ Go(t, "check")
    /\ UNCHANGED <<rowVars, settled, requests, faults>>

EndRevision(t) ==
    Go(t, "contra") /\ Local(t, [loc[t] EXCEPT !.cur = NoFact, !.draft = NoText])

(* Faulty variant: is_protected is not looked at.                           *)
CheckNothing(t) ==
    /\ pc[t] = "check"
    /\ Go(t, "rewrite") /\ UNCHANGED loc
    /\ UNCHANGED <<rowVars, settled, requests, faults>>

CheckProtected(t) ==
    /\ pc[t] = "check"
    /\ IF prot[loc[t].cur] THEN EndRevision(t)
                           ELSE Go(t, "rewrite") /\ UNCHANGED loc
    /\ UNCHANGED <<rowVars, settled, requests, faults>>

(* The content hash (and embedding, and signature) stay those of the old    *)
(* text.                                                                    *)
Rewrite(t) ==
    /\ pc[t] = "rewrite"
    /\ text' = IF loc[t].cur \in Present
               THEN [text EXCEPT ![loc[t].cur] = loc[t].draft] ELSE text
    /\ EndRevision(t)
    /\ UNCHANGED <<hash, active, closed, by, contra, belief, trust, quar, prot, erased,
                   settled, requests, faults>>

(* The end of remember.                                                     *)
Quarantine(t) ==
    /\ pc[t] = "quarantine"
    /\ IF loc[t].flagged
       THEN /\ quar' = IF loc[t].new \in Present
                       THEN [quar EXCEPT ![loc[t].new] = TRUE] ELSE quar
       ELSE quar' = quar
    /\ Finish(t)
    /\ UNCHANGED <<text, hash, active, closed, by, contra, belief, trust, prot, erased,
                   settled, requests, faults>>
-----------------------------------------------------------------------------
(* The rows whose retention, a function of the time since they were last    *)
(* used, may have fallen below the floor.                                   *)
Faded(rows) == SUBSET rows

(* run_forgetting_sweep: one SELECT, then one UPDATE for each faded row that *)
(* was old enough, unprotected and not a derived text.                      *)
BeginSweep(t) ==
    \E s \in Faded({i \in Active : ~prot[i] /\ belief[i] < Frozen /\ text[i] \notin Derived}) :
        Begin(t, "sweep", [NoLocals EXCEPT !.foes = s])

SweepRow(t) ==
    /\ pc[t] = "sweep"
    /\ \/ \E i \in loc[t].foes :
             /\ active' = [active EXCEPT ![i] = FALSE]
             /\ Close(i, NoFact)
             /\ Local(t, [loc[t] EXCEPT !.foes = @ \ {i}])
             /\ UNCHANGED pc
       \/ /\ loc[t].foes = {}
          /\ Go(t, "idle") /\ UNCHANGED <<active, closed, by, loc>>
    /\ UNCHANGED <<text, hash, contra, belief, trust, quar, prot, erased,
                   settled, requests, faults>>

(* A call of invalidate_fact from outside: its two statements.              *)
Invalidate(t, i, who) ==
    /\ pc[t] = "idle" /\ requests < MaxRequests
    /\ i \in Present
    /\ Close(i, who)
    /\ requests' = requests + 1
    /\ IF who = NoFact THEN UNCHANGED <<pc, loc>>
       ELSE /\ Go(t, "pointOnly")
            /\ Local(t, [NoLocals EXCEPT !.cur = i, !.new = who])
    /\ UNCHANGED <<text, hash, active, contra, belief, trust, quar, prot, erased,
                   settled, faults>>

PointOnly(t) ==
    /\ pc[t] = "pointOnly"
    /\ Point(loc[t].cur, loc[t].new)
    /\ Go(t, "idle") /\ Local(t, NoLocals)
    /\ UNCHANGED <<text, hash, active, closed, by, belief, trust, quar, prot, erased,
                   settled, requests, faults>>

(* Requests of one statement.                                               *)
OneStatement ==
    /\ requests < MaxRequests
    /\ requests' = requests + 1
    /\ UNCHANGED <<taskVars, settled, faults>>

(* revise_fact_belief called from outside.  Its SELECT is left out: it may  *)
(* raise or lower the belief, so the UPDATE may write any band.             *)
ReviseBelief(i) ==
    /\ OneStatement
    /\ i \in Present
    /\ \E b \in Belief : SetBelief(i, b)
    /\ UNCHANGED <<text, hash, active, closed, by, contra, trust, quar, prot, erased>>

(* protect_core_memories: by belief, or by an importance that is not        *)
(* modelled.                                                                *)
Protect ==
    /\ OneStatement
    /\ \E s \in SUBSET Active :
          /\ {i \in Active : belief[i] = Frozen} \subseteq s
          /\ prot' = [i \in FactId |-> prot[i] \/ i \in s]
    /\ UNCHANGED <<text, hash, active, closed, by, contra, belief, trust, quar, erased>>

Release(i) ==
    /\ OneStatement
    /\ quar[i]
    /\ quar' = [quar EXCEPT ![i] = FALSE]
    /\ UNCHANGED <<text, hash, active, closed, by, contra, belief, trust, prot, erased>>

(* deactivate_fact, delete_all, reset_user and a soft forget deactivate     *)
(* rows (the derived ones among them, a soft forget deletes) ...            *)
Deactivate(s) ==
    /\ OneStatement
    /\ active' = [i \in FactId |-> active[i] /\ i \notin s]
    /\ UNCHANGED <<text, hash, closed, by, contra, belief, trust, quar, prot, erased>>

(* ... forget and purge_user_memories delete those that hold some text.     *)
Erase(s) ==
    /\ OneStatement
    /\ s \subseteq Present
    /\ erased' = erased \cup s
    /\ text' = [i \in FactId |-> IF i \in s THEN NoText ELSE text[i]]
    /\ hash' = [i \in FactId |-> IF i \in s THEN NoText ELSE hash[i]]
    /\ active' = [i \in FactId |-> active[i] /\ i \notin s]
    /\ closed' = [i \in FactId |-> closed[i] /\ i \notin s]
    /\ by' = [i \in FactId |-> IF i \in s THEN NoFact ELSE by[i]]
    /\ contra' = [i \in FactId |-> IF i \in s THEN {} ELSE contra[i]]
    /\ belief' = [i \in FactId |-> IF i \in s THEN Plain ELSE belief[i]]
    /\ trust' = [i \in FactId |-> IF i \in s THEN ColumnTrust ELSE trust[i]]
    /\ quar' = [i \in FactId |-> quar[i] /\ i \notin s]
    /\ prot' = [i \in FactId |-> prot[i] /\ i \notin s]
-----------------------------------------------------------------------------
(* Where a request goes on after an error: search_facts and insert_fact     *)
(* raise, the later parts of remember swallow their own errors.             *)
AfterError(t) ==
    CASE pc[t] = "poison" -> "insert"
      [] pc[t] = "meta" -> "contra"
      [] pc[t] = "contra" -> IF loc[t].foes = {} THEN "quarantine" ELSE "believe"
      [] pc[t] = "markBack" -> "believe"
      [] pc[t] \in {"believe", "believed"} -> "deactivate"
      [] pc[t] = "deactivate" -> "close"
      [] pc[t] \in {"close", "point"} -> "contra"
      [] pc[t] \in {"check", "rewrite"} -> "quarantine"
      [] OTHER -> "idle"

Fail(t) ==
    /\ pc[t] # "idle"
    /\ faults < MaxFaults
    /\ faults' = faults + 1
    /\ Go(t, AfterError(t))
    /\ CASE AfterError(t) = "idle" -> Local(t, NoLocals)
         [] pc[t] = "contra" /\ loc[t].foes # {} ->
               \E c \in loc[t].foes : Local(t, [loc[t] EXCEPT !.foes = @ \ {c}, !.cur = c])
         [] AfterError(t) \in {"contra", "quarantine"} ->
               Local(t, [loc[t] EXCEPT !.cur = NoFact, !.draft = NoText, !.read = Plain])
         [] OTHER -> UNCHANGED loc
    /\ UNCHANGED <<rowVars, settled, requests>>

Step(t) ==
    \/ Search(t) \/ Drop(t) \/ PoisonCheck(t)
    \/ InsertKnown(t) \/ InsertSupersede(t) \/ Insert(t) \/ AttachMeta(t)
    \/ Mark(t) \/ MarkBack(t) \/ ReadBelief(t) \/ LowerBelief(t)
    \/ DeactivateFoe(t) \/ CloseFoe(t) \/ PointFoe(t)
    \/ Evolve(t) \/ CheckProtected(t) \/ Rewrite(t) \/ Quarantine(t)
    \/ SweepRow(t) \/ PointOnly(t)

Request(t) ==
    \/ \E x \in Text, k \in Source : BeginRemember(t, x, k)
    \/ BeginSweep(t)
    \/ \E i \in FactId, w \in Present \cup {NoFact} : Invalidate(t, i, w)

Next ==
    \/ \E t \in Task : Step(t) \/ Request(t) \/ Fail(t)
    \/ Protect
    \/ \E i \in FactId : ReviseBelief(i) \/ Release(i) \/ Deactivate({i})
    \/ Deactivate(FactId)
    \/ \E x \in Text \ Derived : Deactivate({i \in FactId : text[i] = x})
    \/ \E x \in Text : Erase({i \in FactId : text[i] = x})
    \/ Erase(Present)

Spec == Init /\ [][Next]_vars
-----------------------------------------------------------------------------
(* A contradiction that remember went through without an error stays        *)
(* recorded both ways and the older fact stays superseded: inactive, closed *)
(* and with the fact that replaced it, "coexist, don't delete" (engine.py   *)
(* lines 196-217), whatever runs meanwhile or later; only erasing a row     *)
(* takes its side away.                                                     *)
ContradictionsSettled ==
    faults = 0 =>
        \A p \in settled :
            /\ p[1] \in Present => p[2] \in contra[p[1]]
            /\ p[2] \in Present => /\ p[1] \in contra[p[2]]
                                   /\ ~active[p[2]] /\ closed[p[2]] /\ by[p[2]] # NoFact

(* A claim that the poisoning check flagged takes no fact of a more trusted *)
(* source away ("QUARANTINED, never silently merged", security.py lines     *)
(* 7-8).                                                                    *)
FlaggedNeverMerged ==
    [][\A t \in Task : loc[t].flagged /\ pc'[t] # pc[t] =>
          \A i \in Active : belief[i] >= Core /\ trust[i] > loc[t].trust
              => i \in Active']_vars
=============================================================================

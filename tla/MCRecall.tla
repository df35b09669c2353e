------------------------------- MODULE MCRecall -------------------------------
(* Instances of Recall for TLC: three entities on a cycle of claims and     *)
(* three facts, all about one of the entities.                              *)
EXTENDS RecallHistory, TLC

CONSTANTS a, b, c, f1, f2, f3, who, lives

MCEntity == {a, b, c}
MCClaim == {<<a, b>>, <<b, c>>, <<c, b>>}
MCMentions == (f1 :> {a, b}) @@ (f2 :> {b}) @@ (f3 :> {b})
MCWhen == (f1 :> 1) @@ (f2 :> 3) @@ (f3 :> 2)
MCSays == (f1 :> {a}) @@ (f2 :> {lives}) @@ (f3 :> {lives})
MCAnswers == {{}, {c}}

Asked == [names |-> {}, anchor |-> b, kind |-> "plain", time |-> 0,
          words |-> <<who, lives>>, main |-> lives, pronoun |-> FALSE, person |-> FALSE,
          enforce |-> TRUE, same |-> {}, top |-> 3, limit |-> 5]
WhoLives == [Asked EXCEPT !.names = {a}, !.words = <<who, a, lives>>, !.top = 2]
MCQuestion == {
    [WhoLives EXCEPT !.same = {f1}],
    [Asked EXCEPT !.pronoun = TRUE, !.person = TRUE, !.top = 2],
    [Asked EXCEPT !.names = {b}, !.kind = "before"],
    [Asked EXCEPT !.names = {b}, !.kind = "after", !.enforce = FALSE],
    [Asked EXCEPT !.kind = "at", !.time = 2] }

(* Stores the programs of a user leave: a graph with and without edges, one *)
(* with a closed edge, one without nodes; rows that are active, deactivated *)
(* or closed, and not all of them linked to their nodes (yet).              *)
MCInit ==
    /\ HistoryInit
    /\ st[f1] = "active"
    /\ \/ /\ nodes \in {{}, {a, b}} /\ live = {} /\ past = {}
          /\ st[f2] = "active" /\ st[f3] = "active" /\ linked = Fact
       \/ /\ nodes = MCEntity
          /\ \/ past = {} /\ live \in {{<<a, b>>, <<b, c>>}, {<<b, c>>, <<c, b>>}}
             \/ past = {<<a, b>>} /\ live = {<<c, b>>}
          /\ \/ /\ st[f2] = "active" /\ st[f3] = "active"
                /\ linked = IF <<a, b>> \in live THEN Fact ELSE {f3}
             \/ st[f2] \in {"active", "closed"} /\ st[f3] = "inactive" /\ linked = {f2, f3}

(* The bounds of the run: one statement of a writer or one error in a       *)
(* behaviour, and no read after the one that met it.                        *)
MCNext == /\ HistoryNext
          /\ changes' + faults' <= 1
          /\ pc = "idle" => changes + faults = 0

MCSpec == MCInit /\ [][MCNext]_<<vars, history>> /\ WF_<<vars, history>>(Step /\ Track)
=============================================================================

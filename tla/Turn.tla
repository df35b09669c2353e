-------------------------------- MODULE Turn --------------------------------
(***************************************************************************)
(* Conversation turns: the messages of a session, the request that answers *)
(* a turn (execute_turn) or takes in a text (capture), and the background  *)
(* extraction that the request starts and does not wait for.               *)
(*                                                                         *)
(* Two turns may use one session, the extraction of a turn overlaps the    *)
(* turns that follow, sessions may be purged meanwhile, and the process    *)
(* may stop between any two statements.                                    *)
(***************************************************************************)
EXTENDS Naturals, Sequences, SequencesExt

CONSTANTS
    Request,    \* turns and captures, each made once
    Session,
    SessionOf,  \* the session of a request
    Window,     \* how many messages get_transcript returns
    MaxTools,   \* how many tools the LLM calls in one answer
    MaxFacts,   \* how many facts the extraction finds in one turn
    MaxEvents   \* how many errors, purges and crashes a behaviour may have together

ASSUME TurnAssumption ==
    /\ SessionOf \in [Request -> Session]
    /\ Window \in Nat /\ MaxTools \in Nat /\ MaxFacts \in Nat /\ MaxEvents \in Nat

VARIABLES
    sessions,   \* the rows of sessions
    log,        \* log[s]: the messages of s, oldest first
    pc,         \* pc[r]: what the request does next
    kind,       \* kind[r]: execute_turn, capture, or capture with background=False
    prompt,     \* prompt[r]: the messages the LLM is given besides the system prompt
    tools,      \* tools[r]: the tool calls left
    bg,         \* bg[r]: what the extraction does next
    facts,      \* facts[r]: the facts left to insert
    episodes,   \* episodes[r]: how many episodes were anchored for r
    purge,      \* what purge_user_memories does next
    earlier,    \* earlier[r]: the requests that were answered before r began
    purged,     \* a purge has deleted messages
    events

requestVars == <<pc, kind, prompt, tools, earlier>>
extractVars == <<bg, facts, episodes>>
vars == <<sessions, log, requestVars, extractVars, purge, purged, events>>

Role == {"user", "tool", "assistant"}
Message == [req : Request, role : Role]
Said(r, role) == [req |-> r, role |-> role]

Answered == {"answered", "captured"}
Over == Answered \cup {"idle", "raised", "dead"}
Ended == {"done", "failed", "lost"}

TypeOK ==
    /\ sessions \subseteq Session
    /\ log \in [Session -> Seq(Message)]
    /\ pc \in [Request -> Over \cup {"ensure", "user", "mode", "playbook", "context", "llm",
                                     "tool", "final", "assistant", "spawn", "wait"}]
    /\ kind \in [Request -> {"turn", "capture", "sync"}]
    /\ prompt \in [Request -> Seq(Message)]
    /\ \A r \in Request : Len(prompt[r]) <= Window + 1
    /\ tools \in [Request -> 0..MaxTools]
    /\ bg \in [Request -> {"none", "episode", "extract", "raw", "facts", "edges"} \cup Ended]
    /\ facts \in [Request -> 0..MaxFacts]
    /\ episodes \in [Request -> 0..1]
    /\ purge \in {"no", "sessions"}
    /\ earlier \in [Request -> SUBSET Request]
    /\ purged \in BOOLEAN /\ events \in 0..MaxEvents

Init ==
    /\ sessions \in SUBSET Session
    /\ log = [s \in Session |-> <<>>]
    /\ pc = [r \in Request |-> "idle"]
    /\ kind \in [Request -> {"turn", "capture", "sync"}]
    /\ prompt = [r \in Request |-> <<>>]
    /\ tools = [r \in Request |-> 0]
    /\ bg = [r \in Request |-> "none"]
    /\ facts = [r \in Request |-> 0]
    /\ episodes = [r \in Request |-> 0]
    /\ purge = "no"
    /\ earlier = [r \in Request |-> {}]
    /\ purged = FALSE /\ events = 0
-----------------------------------------------------------------------------
Go(r, where) == pc' = [pc EXCEPT ![r] = where]
RequestOnly == UNCHANGED <<sessions, log, kind, prompt, earlier, extractVars, purge, purged, events>>

Begin(r) ==
    /\ pc[r] = "idle" /\ earlier' = [earlier EXCEPT ![r] = {q \in Request : pc[q] \in Answered}]
    /\ Go(r, "ensure")
    /\ UNCHANGED <<sessions, log, kind, prompt, tools, extractVars, purge, purged, events>>

(* ensure_session_exists.                                                   *)
EnsureSession(r) ==
    /\ pc[r] = "ensure"
    /\ sessions' = sessions \cup {SessionOf[r]}
    /\ Go(r, "user")
    /\ UNCHANGED <<log, kind, prompt, tools, earlier, extractVars, purge, purged, events>>

(* log_message: a message needs the row of its session (the foreign key);   *)
(* without it the statement raises, and so does the request.                *)
LogMessage(r, role, next) ==
    /\ IF SessionOf[r] \in sessions
       THEN log' = [log EXCEPT ![SessionOf[r]] = Append(@, Said(r, role))] /\ Go(r, next)
       ELSE UNCHANGED log /\ Go(r, "raised")
    /\ UNCHANGED <<sessions, kind, prompt, earlier, extractVars, purge, purged, events>>

LogUser(r) ==
    /\ pc[r] = "user"
    /\ LogMessage(r, "user", IF kind[r] = "turn" THEN "mode" ELSE "spawn")
    /\ UNCHANGED tools

(* evaluate_cognitive_mode: whether a playbook matches the message.         *)
EvaluateMode(r) ==
    /\ pc[r] = "mode"
    /\ Go(r, "playbook") \/ Go(r, "context")
    /\ UNCHANGED tools /\ RequestOnly

(* The playbook is the answer.  Nothing is extracted from such a turn.      *)
AnswerByPlaybook(r) ==
    /\ pc[r] = "playbook"
    /\ LogMessage(r, "assistant", "answered")
    /\ UNCHANGED tools

(* Faulty variant: the oldest messages, not the newest.                     *)
Oldest(s) == SubSeq(log[s], 1, IF Len(log[s]) > Window THEN Window ELSE Len(log[s]))

(* get_transcript.                                                          *)
Recent(s) == SubSeq(log[s], 1 + (IF Len(log[s]) > Window THEN Len(log[s]) - Window ELSE 0),
                    Len(log[s]))

(* The messages the LLM gets (assemble_context_and_prompt and agi_context   *)
(* do the same): the recent ones, and that of the turn unless it is last.   *)
Assembled(recent, mine) ==
    IF recent # <<>> /\ Last(recent) = mine THEN recent ELSE Append(recent, mine)

AssembleContext(r) ==
    /\ pc[r] = "context"
    /\ prompt' = [prompt EXCEPT ![r] = Assembled(Recent(SessionOf[r]), Said(r, "user"))]
    /\ Go(r, "llm")
    /\ UNCHANGED <<sessions, log, kind, tools, earlier, extractVars, purge, purged, events>>

(* Faulty variant: an answer without tool calls is not logged.              *)
CompleteUnlogged(r) ==
    /\ pc[r] = "llm"
    /\ \E n \in 0..MaxTools :
          /\ tools' = [tools EXCEPT ![r] = n]
          /\ Go(r, IF n = 0 THEN "spawn" ELSE "tool")
    /\ RequestOnly

(* safe_chat_completion: an answer, some tool calls, or its own text when   *)
(* the LLM cannot be reached.                                               *)
Complete(r) ==
    /\ pc[r] = "llm"
    /\ \E n \in 0..MaxTools :
          /\ tools' = [tools EXCEPT ![r] = n]
          /\ Go(r, IF n = 0 THEN "assistant" ELSE "tool")
    /\ RequestOnly

(* Faulty variant: one call too many.                                       *)
CallToolAgain(r) ==
    /\ pc[r] = "tool"
    /\ tools' = [tools EXCEPT ![r] = @ - 1]
    /\ LogMessage(r, "tool", IF tools[r] = 0 THEN "final" ELSE "tool")

(* execute_tool_call, whose errors are its output, and its message.  The    *)
(* writes of the tools are requests of WorkingMemory.                       *)
CallTool(r) ==
    /\ pc[r] = "tool"
    /\ tools' = [tools EXCEPT ![r] = @ - 1]
    /\ LogMessage(r, "tool", IF tools[r] = 1 THEN "final" ELSE "tool")

(* The second completion, with what the tools said.                         *)
CompleteAgain(r) ==
    /\ pc[r] = "final"
    /\ Go(r, "assistant")
    /\ UNCHANGED tools /\ RequestOnly

LogAssistant(r) ==
    /\ pc[r] = "assistant"
    /\ LogMessage(r, "assistant", "spawn")
    /\ UNCHANGED tools

(* Faulty variant: the request answers and no task is created.              *)
AnswerOnly(r) ==
    /\ pc[r] = "spawn"
    /\ Go(r, IF kind[r] = "sync" THEN "wait" ELSE IF kind[r] = "turn" THEN "answered" ELSE "captured")
    /\ UNCHANGED <<sessions, log, kind, prompt, tools, earlier, extractVars, purge, purged, events>>

(* create_task, and the answer; or the extraction is awaited.               *)
Spawn(r) ==
    /\ pc[r] = "spawn"
    /\ bg' = [bg EXCEPT ![r] = "episode"]
    /\ Go(r, IF kind[r] = "sync" THEN "wait" ELSE IF kind[r] = "turn" THEN "answered" ELSE "captured")
    /\ UNCHANGED <<sessions, log, kind, prompt, tools, earlier, facts, episodes, purge, purged, events>>

(* The extraction handles its errors: a capture that waits is "ingested".   *)
Ingested(r) ==
    /\ pc[r] = "wait" /\ bg[r] \in Ended
    /\ Go(r, "captured")
    /\ UNCHANGED tools /\ RequestOnly

RequestStep(r) ==
    \/ EnsureSession(r) \/ LogUser(r) \/ EvaluateMode(r) \/ AnswerByPlaybook(r)
    \/ AssembleContext(r) \/ Complete(r) \/ CallTool(r) \/ CompleteAgain(r)
    \/ LogAssistant(r) \/ Spawn(r) \/ Ingested(r)
-----------------------------------------------------------------------------
Extract(r, where) == bg' = [bg EXCEPT ![r] = where]
ExtractOnly == UNCHANGED <<sessions, log, requestVars, purge, purged, events>>

(* extract_and_persist_background: the episode ...                          *)
AnchorEpisode(r) ==
    /\ bg[r] = "episode"
    /\ episodes' = [episodes EXCEPT ![r] = @ + 1]
    /\ Extract(r, "extract")
    /\ UNCHANGED facts /\ ExtractOnly

(* ... the LLM: facts, no answer (then the raw turn is stored), or an       *)
(* answer that is not JSON, which ends the extraction ...                   *)
Ask(r) ==
    /\ bg[r] = "extract"
    /\ \/ Extract(r, "raw") /\ UNCHANGED facts
       \/ Extract(r, "failed") /\ UNCHANGED facts
       \/ \E n \in 0..MaxFacts : Extract(r, "facts") /\ facts' = [facts EXCEPT ![r] = n]
    /\ UNCHANGED episodes /\ ExtractOnly

StoreRaw(r) ==
    /\ bg[r] = "raw"
    /\ Extract(r, "done")
    /\ UNCHANGED <<facts, episodes>> /\ ExtractOnly

(* ... an insert_fact for each fact, then the edges (both are requests of   *)
(* other modules).                                                          *)
StoreFact(r) ==
    /\ bg[r] = "facts"
    /\ IF facts[r] = 0 THEN Extract(r, "edges") /\ UNCHANGED facts
       ELSE facts' = [facts EXCEPT ![r] = @ - 1] /\ UNCHANGED bg
    /\ UNCHANGED episodes /\ ExtractOnly

StoreEdges(r) ==
    /\ bg[r] = "edges"
    /\ Extract(r, "done")
    /\ UNCHANGED <<facts, episodes>> /\ ExtractOnly

ExtractStep(r) == AnchorEpisode(r) \/ Ask(r) \/ StoreRaw(r) \/ StoreFact(r) \/ StoreEdges(r)
-----------------------------------------------------------------------------
Event == events < MaxEvents /\ events' = events + 1

(* A statement or a call of a service raises.  ensure_session_exists        *)
(* swallows its error, evaluate_cognitive_mode and the tools theirs;        *)
(* anything else ends the request.                                          *)
FailRequest(r) ==
    /\ Event
    /\ \/ pc[r] = "ensure" /\ Go(r, "user")
       \/ pc[r] \in {"user", "playbook", "context", "llm", "tool", "final", "assistant"} /\ Go(r, "raised")
    /\ UNCHANGED <<sessions, log, kind, prompt, tools, earlier, extractVars, purge, purged>>

(* Any error of the extraction ends it and is logged.                       *)
FailExtract(r) ==
    /\ Event
    /\ bg[r] \in {"episode", "raw", "facts", "edges"} /\ Extract(r, "failed")
    /\ UNCHANGED <<sessions, log, requestVars, facts, episodes, purge, purged>>

(* purge_user_memories: the messages, then the sessions, with the messages  *)
(* that were logged in between (ON DELETE CASCADE).  Episodes stay.         *)
PurgeMessages ==
    /\ purge = "no" /\ Event
    /\ log' = [s \in Session |-> <<>>]
    /\ purge' = "sessions" /\ purged' = TRUE
    /\ UNCHANGED <<sessions, requestVars, extractVars>>

PurgeSessions ==
    /\ purge = "sessions"
    /\ sessions' = {}
    /\ log' = [s \in Session |-> <<>>]
    /\ purge' = "no"
    /\ UNCHANGED <<requestVars, extractVars, purged, events>>

(* The process stops, with its requests and its background tasks, and is    *)
(* started again.                                                           *)
Crash ==
    /\ Event
    /\ pc' = [r \in Request |-> IF pc[r] \in Over THEN pc[r] ELSE "dead"]
    /\ bg' = [r \in Request |-> IF bg[r] \in Ended \cup {"none"} THEN bg[r] ELSE "lost"]
    /\ purge' = "no"
    /\ UNCHANGED <<sessions, log, kind, prompt, tools, earlier, facts, episodes, purged>>

Next ==
    \/ \E r \in Request : Begin(r) \/ RequestStep(r) \/ ExtractStep(r)
    \/ \E r \in Request : FailRequest(r) \/ FailExtract(r)
    \/ PurgeMessages \/ PurgeSessions
    \/ Crash

Spec == Init /\ [][Next]_vars

(* The event loop resumes the tasks it holds, and services answer or raise. *)
Fairness == \A r \in Request : WF_vars(RequestStep(r)) /\ WF_vars(ExtractStep(r))

FairSpec == Spec /\ Fairness
-----------------------------------------------------------------------------
(* The positions of the messages of a request in the log of its session.    *)
RoleAt(r, i) == log[SessionOf[r]][i].role
Own(r) == {i \in 1..Len(log[SessionOf[r]]) : log[SessionOf[r]][i].req = r}

Asked(r) == \E i \in Own(r) : RoleAt(r, i) = "user"
Whole(r) == Asked(r) /\ \E i \in Own(r) : RoleAt(r, i) = "assistant"

(* However turns overlap in a session, and wherever they are cut, the       *)
(* messages of each are in order: the user, the tools, the assistant, and   *)
(* all of them are there when the turn is answered (the "immutable session  *)
(* audit log", log_message.py line 1); memory is never ahead of the log, an *)
(* episode is anchored only for what is in it (agent_graph.py lines 98-105).*)
TurnLogged ==
    ~purged => \A r \in Request :
        /\ Own(r) # {} => Asked(r)
        /\ \A i \in Own(r) : RoleAt(r, i) = "user" => \A j \in Own(r) : i <= j
        /\ \A i \in Own(r) : RoleAt(r, i) = "assistant" => \A j \in Own(r) : j <= i
        /\ pc[r] = "answered" => Whole(r)
        /\ pc[r] = "captured" => Asked(r) /\ \A i \in Own(r) : RoleAt(r, i) = "user"
        /\ episodes[r] > 0 => Asked(r) /\ (kind[r] = "turn" => Whole(r))

(* The LLM is asked to answer the message of the turn, and sees the answers *)
(* its caller had before, unless a whole window of messages followed them   *)
(* (get_transcript: "recent chat history", get_transcript.py line 13).      *)
PromptRemembers ==
    \A r \in Request :
        pc[r] = "llm" =>
            /\ Last(prompt[r]) = Said(r, "user")
            /\ ~purged => \A q \in earlier[r], i \in 1..Len(log[SessionOf[r]]) :
                  /\ log[SessionOf[r]][i] = Said(q, "assistant")
                  /\ Len(log[SessionOf[r]]) - i < Window
                  => Contains(prompt[r], Said(q, "assistant"))

(* A request that comes to its end hands the turn to the extraction, which  *)
(* ends too, if the process lives.                                          *)
Extracted ==
    \A r \in Request : pc[r] = "spawn" ~> (bg[r] \in Ended \/ pc[r] = "dead")
=============================================================================

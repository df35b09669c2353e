----------------------------- MODULE TurnProofs -----------------------------
(* Proofs about Turn, for every set of requests and sessions, every window, *)
(* and any number of tools, facts, errors, purges and crashes.              *)
EXTENDS Turn, TLAPS

Point == Over \cup {"ensure", "user", "mode", "playbook", "context", "llm", "tool", "final",
                    "assistant", "spawn", "wait"}
Stage == {"none", "episode", "extract", "raw", "facts", "edges"} \cup Ended

(* The recent messages are messages of the log, and no more than a window.  *)
LEMMA RecentType ==
    ASSUME TypeOK, NEW s \in Session
    PROVE  /\ Recent(s) \in Seq(Message)
           /\ Len(Recent(s)) <= Window
           /\ \A i \in 1..Len(log[s]) : Len(log[s]) - i < Window =>
                 \E j \in 1..Len(Recent(s)) : Recent(s)[j] = log[s][i]
<1> DEFINE n == Len(log[s])
           k == IF n > Window THEN n - Window ELSE 0
<1>1. log[s] \in Seq(Message) /\ n \in Nat /\ Window \in Nat
  BY TurnAssumption DEF TypeOK
<1>2. Recent(s) = SubSeq(log[s], 1 + k, n) /\ k \in Nat /\ k <= n /\ n - k <= Window
  BY <1>1 DEF Recent
<1>3. /\ Recent(s) \in Seq(Message) /\ Len(Recent(s)) = n - k
      /\ \A j \in 1..(n - k) : Recent(s)[j] = log[s][k + j]
  <2> HIDE DEF n, k
  <2>1. 1 + k \in 1..n+1 /\ n = Len(log[s])
    BY <1>1, <1>2 DEF n
  <2> QED
    BY <1>1, <1>2, <2>1
<1>4. ASSUME NEW i \in 1..n, n - i < Window
      PROVE  i - k \in 1..(n - k) /\ k + (i - k) = i
  BY <1>1, <1>2, <1>4
<1> QED
  BY <1>1, <1>2, <1>3, <1>4

(* The prompt ends with the message of the turn and holds the recent ones.  *)
LEMMA AssembledType ==
    ASSUME NEW recent \in Seq(Message), NEW mine \in Message
    PROVE  /\ Assembled(recent, mine) \in Seq(Message)
           /\ Len(Assembled(recent, mine)) <= Len(recent) + 1
           /\ Last(Assembled(recent, mine)) = mine
           /\ \A j \in 1..Len(recent) : Contains(Assembled(recent, mine), recent[j])
<1>1. CASE recent # <<>> /\ Last(recent) = mine
  BY <1>1 DEF Assembled, Contains
<1>2. CASE ~(recent # <<>> /\ Last(recent) = mine)
  <2>1. Assembled(recent, mine) = Append(recent, mine)
    BY <1>2 DEF Assembled
  <2>2. /\ Append(recent, mine) \in Seq(Message) /\ Len(Append(recent, mine)) = Len(recent) + 1
        /\ Append(recent, mine)[Len(recent) + 1] = mine
        /\ \A j \in 1..Len(recent) : Append(recent, mine)[j] = recent[j]
    OBVIOUS
  <2> QED
    BY <2>1, <2>2 DEF Last, Contains
<1> QED
  BY <1>1, <1>2
-----------------------------------------------------------------------------
(* The strengthening that makes the type invariant inductive: there is a    *)
(* call left for a turn that is about to make one, nothing is extracted     *)
(* before the request hands over, and no episode is anchored twice.         *)
Handed == {"wait", "answered", "captured", "dead"}

StagedAt(r) ==
    /\ pc[r] = "tool" => tools[r] > 0
    /\ pc[r] \notin Handed => bg[r] = "none"
    /\ bg[r] \in {"none", "episode"} => episodes[r] = 0

Staged == \A r \in Request : StagedAt(r)

LEMMA Bounds ==
    /\ MaxTools \in Nat /\ MaxFacts \in Nat /\ MaxEvents \in Nat /\ Window \in Nat
    /\ \A r \in Request : SessionOf[r] \in Session
  BY TurnAssumption

(* The variables that a step of a request or of an extraction changes.      *)
LEMMA StagedFrame ==
    ASSUME Staged, NEW r \in Request, StagedAt(r)',
           \A q \in Request \ {r} : /\ pc'[q] = pc[q] /\ tools'[q] = tools[q]
                                   /\ bg'[q] = bg[q] /\ episodes'[q] = episodes[q]
    PROVE  Staged'
  BY DEF Staged, StagedAt

(* log_message appends to the log or ends the request.                      *)
LEMMA LogType ==
    ASSUME TypeOK, NEW r \in Request, NEW role \in Role, NEW next \in Point,
           LogMessage(r, role, next)
    PROVE  /\ log' \in [Session -> Seq(Message)]
           /\ pc' = [pc EXCEPT ![r] = "raised"] \/ pc' = [pc EXCEPT ![r] = next]
           /\ pc' \in [Request -> Point]
<1>1. Said(r, role) \in Message /\ "raised" \in Point
  BY DEF Said, Message, Point, Over
<1>2. pc \in [Request -> Point] /\ log \in [Session -> Seq(Message)]
  BY DEF TypeOK, Point
<1>3. log' \in [Session -> Seq(Message)]
  <2>1. Append(log[SessionOf[r]], Said(r, role)) \in Seq(Message)
    BY <1>1, <1>2, Bounds
  <2> QED
    BY <1>2, <2>1 DEF LogMessage
<1> QED
  BY <1>1, <1>2, <1>3 DEF LogMessage, Go

LEMMA TypeStep == TypeOK /\ Staged /\ [Next]_vars => TypeOK' /\ Staged'
<1> SUFFICES ASSUME TypeOK, Staged, [Next]_vars PROVE TypeOK' /\ Staged'
  OBVIOUS
<1> USE DEF requestVars, extractVars
<1>0. pc \in [Request -> Point] /\ bg \in [Request -> Stage]
  BY DEF TypeOK, Point, Stage
<1>a. ASSUME /\ sessions' \subseteq Session /\ log' \in [Session -> Seq(Message)]
             /\ pc' \in [Request -> Point] /\ bg' \in [Request -> Stage]
             /\ kind' \in [Request -> {"turn", "capture", "sync"}]
             /\ prompt' \in [Request -> Seq(Message)]
             /\ \A r \in Request : Len(prompt'[r]) <= Window + 1
             /\ tools' \in [Request -> 0..MaxTools] /\ facts' \in [Request -> 0..MaxFacts]
             /\ episodes' \in [Request -> 0..1] /\ earlier' \in [Request -> SUBSET Request]
             /\ purge' \in {"no", "sessions"} /\ purged' \in BOOLEAN
             /\ events' \in 0..MaxEvents
      PROVE  TypeOK'
  BY <1>a DEF TypeOK, Point, Stage
<1>b. /\ sessions \subseteq Session /\ log \in [Session -> Seq(Message)]
      /\ kind \in [Request -> {"turn", "capture", "sync"}]
      /\ prompt \in [Request -> Seq(Message)]
      /\ \A r \in Request : Len(prompt[r]) <= Window + 1
      /\ tools \in [Request -> 0..MaxTools] /\ facts \in [Request -> 0..MaxFacts]
      /\ episodes \in [Request -> 0..1] /\ earlier \in [Request -> SUBSET Request]
      /\ purge \in {"no", "sessions"} /\ purged \in BOOLEAN
      /\ events \in 0..MaxEvents
  BY DEF TypeOK
<1>1. CASE UNCHANGED vars
  <2>1. Staged'
    BY <1>1 DEF vars, Staged, StagedAt
  <2> QED
    BY <1>0, <1>a, <1>b, <1>1, <2>1 DEF vars
<1>2. ASSUME NEW r \in Request, Begin(r) PROVE TypeOK' /\ Staged'
  <2>1. pc' = [pc EXCEPT ![r] = "ensure"] /\ earlier' \in [Request -> SUBSET Request]
    BY <1>b, <1>2 DEF Begin, Go
  <2>2. TypeOK'
    BY <1>0, <1>2, <1>a, <1>b, <2>1 DEF Begin, Point
  <2>3. StagedAt(r)'
    BY <1>0, <1>2, <2>1 DEF Begin, Staged, StagedAt, Handed
  <2> QED
    BY <1>0, <1>2, <2>1, <2>2, <2>3, StagedFrame DEF Begin
<1>3. ASSUME NEW r \in Request, RequestStep(r) PROVE TypeOK' /\ Staged'
  <2>1. ASSUME NEW where \in Point, pc' = [pc EXCEPT ![r] = where],
               UNCHANGED <<tools, bg, episodes>>,
               where # "tool", where \in Handed \/ bg[r] = "none"
        PROVE  pc' \in [Request -> Point] /\ Staged'
    <3>1. StagedAt(r)'
      BY <1>0, <2>1 DEF Staged, StagedAt
    <3> QED
      BY <1>0, <2>1, <3>1, StagedFrame
  <2>2. ASSUME NEW role \in Role, NEW next \in Point, LogMessage(r, role, next), UNCHANGED tools,
               next # "tool", next \in Handed \/ bg[r] = "none", bg[r] = "none"
        PROVE  TypeOK' /\ Staged'
    <3>1. Staged'
      BY <2>1, <2>2, LogType DEF LogMessage, Point, Over
    <3> QED
      BY <1>0, <1>a, <1>b, <2>2, <3>1, LogType DEF LogMessage
  <2>3. CASE EnsureSession(r)
    <3>1. pc' \in [Request -> Point] /\ Staged'
      BY <2>1, <2>3 DEF EnsureSession, Go, Staged, StagedAt, Point, Handed
    <3> QED
      BY <1>0, <1>a, <1>b, <2>3, <3>1, Bounds DEF EnsureSession
  <2>4. CASE LogUser(r)
    BY <2>2, <2>4 DEF LogUser, Role, Point, Staged, StagedAt, Handed
  <2>5. CASE EvaluateMode(r)
    <3>1. pc' \in [Request -> Point] /\ Staged'
      BY <2>1, <2>5 DEF EvaluateMode, RequestOnly, Go, Staged, StagedAt, Point, Handed
    <3> QED
      BY <1>0, <1>a, <1>b, <2>5, <3>1 DEF EvaluateMode, RequestOnly
  <2>6. CASE AnswerByPlaybook(r)
    BY <2>2, <2>6 DEF AnswerByPlaybook, Role, Point, Over, Answered, Staged, StagedAt, Handed
  <2>7. CASE AssembleContext(r)
    <3> DEFINE p == Assembled(Recent(SessionOf[r]), Said(r, "user"))
    <3>1. Said(r, "user") \in Message
      BY DEF Said, Message, Role
    <3>2. p \in Seq(Message) /\ Len(p) <= Window + 1
      <4>1. Recent(SessionOf[r]) \in Seq(Message) /\ Len(Recent(SessionOf[r])) <= Window
        BY RecentType, Bounds
      <4>2. p \in Seq(Message) /\ Len(p) <= Len(Recent(SessionOf[r])) + 1
        BY <3>1, <4>1, AssembledType
      <4>3. Len(p) \in Nat /\ Len(Recent(SessionOf[r])) \in Nat
        BY <4>1, <4>2
      <4> QED
        BY <4>1, <4>2, <4>3, Bounds
    <3>3. prompt' = [prompt EXCEPT ![r] = p]
      BY <2>7 DEF AssembleContext
    <3> HIDE DEF p
    <3>4. prompt' \in [Request -> Seq(Message)] /\ \A q \in Request : Len(prompt'[q]) <= Window + 1
      BY <1>b, <3>2, <3>3
    <3>5. pc' \in [Request -> Point] /\ Staged'
      BY <2>1, <2>7 DEF AssembleContext, Go, Staged, StagedAt, Point, Handed
    <3> QED
      BY <1>0, <1>a, <1>b, <2>7, <3>4, <3>5 DEF AssembleContext
  <2>8. CASE Complete(r)
    <3>1. PICK n \in 0..MaxTools : /\ tools' = [tools EXCEPT ![r] = n]
                                   /\ pc' = [pc EXCEPT ![r] = IF n = 0 THEN "assistant" ELSE "tool"]
      BY <2>8 DEF Complete, Go
    <3>2. StagedAt(r)'
      <4>1. pc[r] = "llm" /\ bg[r] = "none" /\ episodes[r] = 0 /\ UNCHANGED <<bg, episodes>>
        BY <2>8 DEF Complete, RequestOnly, Staged, StagedAt, Handed
      <4>2. tools'[r] = n /\ (pc'[r] = "tool" => n # 0)
        BY <1>0, <1>b, <3>1
      <4> QED
        BY <4>1, <4>2, Bounds DEF StagedAt
    <3>3. Staged'
      BY <1>b, <1>0, <2>8, <3>1, <3>2, StagedFrame DEF Complete, RequestOnly
    <3>4. pc' \in [Request -> Point] /\ tools' \in [Request -> 0..MaxTools]
      BY <1>b, <1>0, <3>1 DEF Point
    <3> QED
      BY <1>0, <1>a, <1>b, <2>8, <3>3, <3>4 DEF Complete, RequestOnly
  <2>9. CASE CallTool(r)
    <3> DEFINE next == IF tools[r] = 1 THEN "final" ELSE "tool"
    <3>1. pc[r] = "tool" /\ tools[r] \in 1..MaxTools /\ tools' = [tools EXCEPT ![r] = tools[r] - 1]
      BY <1>b, <2>9, Bounds DEF CallTool, Staged, StagedAt
    <3>2. next \in Point /\ "tool" \in Role /\ LogMessage(r, "tool", next)
      BY <2>9 DEF CallTool, Point, Role
    <3>3. tools' \in [Request -> 0..MaxTools]
      BY <1>b, <3>1, Bounds
    <3>4. /\ log' \in [Session -> Seq(Message)] /\ pc' \in [Request -> Point]
          /\ pc' = [pc EXCEPT ![r] = "raised"] \/ pc' = [pc EXCEPT ![r] = next]
      BY <3>2, LogType
    <3>5. StagedAt(r)'
      <4>1. bg[r] = "none" /\ episodes[r] = 0 /\ UNCHANGED <<bg, episodes>>
        BY <3>1, <3>2 DEF LogMessage, Staged, StagedAt, Handed
      <4>2. tools'[r] = tools[r] - 1 /\ (pc'[r] = "tool" => tools[r] # 1)
        BY <1>0, <1>b, <3>1, <3>4
      <4> QED
        BY <3>1, <4>1, <4>2, Bounds DEF StagedAt
    <3>6. Staged'
      BY <1>b, <1>0, <3>1, <3>2, <3>4, <3>5, StagedFrame DEF LogMessage
    <3> QED
      BY <1>0, <1>a, <1>b, <3>2, <3>3, <3>4, <3>6 DEF LogMessage
  <2>10. CASE CompleteAgain(r)
    <3>1. pc' \in [Request -> Point] /\ Staged'
      BY <2>1, <2>10 DEF CompleteAgain, RequestOnly, Go, Staged, StagedAt, Point, Handed
    <3> QED
      BY <1>0, <1>a, <1>b, <2>10, <3>1 DEF CompleteAgain, RequestOnly
  <2>11. CASE LogAssistant(r)
    BY <2>2, <2>11 DEF LogAssistant, Role, Point, Staged, StagedAt, Handed
  <2>12. CASE Spawn(r)
    <3>1. /\ bg' = [bg EXCEPT ![r] = "episode"]
          /\ \E p \in {"wait", "answered", "captured"} : pc' = [pc EXCEPT ![r] = p]
      BY <2>12 DEF Spawn, Go
    <3>2. StagedAt(r)'
      BY <1>0, <2>12, <3>1 DEF Spawn, Staged, StagedAt, Handed
    <3>3. Staged'
      BY <1>0, <2>12, <3>1, <3>2, StagedFrame DEF Spawn
    <3>4. pc' \in [Request -> Point] /\ bg' \in [Request -> Stage]
      BY <1>0, <3>1 DEF Point, Over, Answered, Stage
    <3> QED
      BY <1>0, <1>a, <1>b, <2>12, <3>3, <3>4 DEF Spawn
  <2>13. CASE Ingested(r)
    <3>1. pc' \in [Request -> Point] /\ Staged'
      BY <2>1, <2>13 DEF Ingested, RequestOnly, Go, Point, Over, Answered, Handed
    <3> QED
      BY <1>0, <1>a, <1>b, <2>13, <3>1 DEF Ingested, RequestOnly
  <2> QED
    BY <1>3, <2>3, <2>4, <2>5, <2>6, <2>7, <2>8, <2>9, <2>10, <2>11, <2>12, <2>13 DEF RequestStep
<1>4. ASSUME NEW r \in Request, ExtractStep(r) PROVE TypeOK' /\ Staged'
  <2>1. ASSUME NEW b \in Stage \ {"none", "episode"}, bg' = [bg EXCEPT ![r] = b], bg[r] # "none",
               UNCHANGED <<pc, tools>>, \A q \in Request \ {r} : episodes'[q] = episodes[q]
        PROVE  bg' \in [Request -> Stage] /\ Staged'
    <3>1. StagedAt(r)'
      BY <1>0, <2>1 DEF Staged, StagedAt
    <3> QED
      BY <1>0, <2>1, <3>1, StagedFrame
  <2>2. CASE AnchorEpisode(r)
    <3>1. episodes[r] = 0 /\ episodes' = [episodes EXCEPT ![r] = episodes[r] + 1]
      BY <2>2 DEF AnchorEpisode, Staged, StagedAt
    <3>2. episodes' \in [Request -> 0..1] /\ \A q \in Request \ {r} : episodes'[q] = episodes[q]
      BY <1>b, <3>1
    <3>3. bg' \in [Request -> Stage] /\ Staged'
      BY <2>1, <2>2, <3>2 DEF AnchorEpisode, Extract, ExtractOnly, Stage
    <3> QED
      BY <1>0, <1>a, <1>b, <2>2, <3>2, <3>3 DEF AnchorEpisode, ExtractOnly
  <2>3. CASE Ask(r)
    <3>1. PICK b \in {"raw", "failed", "facts"} : bg' = [bg EXCEPT ![r] = b]
      BY <2>3 DEF Ask, Extract
    <3>2. bg' \in [Request -> Stage] /\ Staged'
      BY <2>1, <2>3, <3>1 DEF Ask, ExtractOnly, Stage, Ended
    <3>3. facts' \in [Request -> 0..MaxFacts]
      BY <1>b, <2>3 DEF Ask
    <3> QED
      BY <1>0, <1>a, <1>b, <2>3, <3>2, <3>3 DEF Ask, ExtractOnly
  <2>4. CASE StoreRaw(r)
    <3>1. bg' \in [Request -> Stage] /\ Staged'
      BY <2>1, <2>4 DEF StoreRaw, Extract, ExtractOnly, Stage, Ended
    <3> QED
      BY <1>0, <1>a, <1>b, <2>4, <3>1 DEF StoreRaw, ExtractOnly
  <2>5. CASE StoreFact(r)
    <3>1. CASE facts[r] = 0
      <4>1. bg' \in [Request -> Stage] /\ Staged'
        BY <2>1, <2>5, <3>1 DEF StoreFact, Extract, ExtractOnly, Stage
      <4> QED
        BY <1>0, <1>a, <1>b, <2>5, <3>1, <4>1 DEF StoreFact, ExtractOnly
    <3>2. CASE facts[r] # 0
      <4>1. facts[r] - 1 \in 0..MaxFacts
        BY <1>b, <3>2, Bounds
      <4>2. facts' \in [Request -> 0..MaxFacts] /\ UNCHANGED <<bg, episodes, pc, tools>>
        BY <1>b, <2>5, <3>2, <4>1 DEF StoreFact, ExtractOnly
      <4>3. Staged'
        BY <4>2 DEF Staged, StagedAt
      <4> QED
        BY <1>0, <1>a, <1>b, <2>5, <4>2, <4>3 DEF StoreFact, ExtractOnly
    <3> QED
      BY <3>1, <3>2
  <2>6. CASE StoreEdges(r)
    <3>1. bg' \in [Request -> Stage] /\ Staged'
      BY <2>1, <2>6 DEF StoreEdges, Extract, ExtractOnly, Stage, Ended
    <3> QED
      BY <1>0, <1>a, <1>b, <2>6, <3>1 DEF StoreEdges, ExtractOnly
  <2> QED
    BY <1>4, <2>2, <2>3, <2>4, <2>5, <2>6 DEF ExtractStep
<1>5. ASSUME Event PROVE events' \in 0..MaxEvents
  BY <1>b, <1>5, Bounds DEF Event
<1>6. ASSUME NEW r \in Request, FailRequest(r) PROVE TypeOK' /\ Staged'
  <2>1. PICK p \in {"user", "raised"} : pc' = [pc EXCEPT ![r] = p]
    BY <1>6 DEF FailRequest, Go
  <2>2. StagedAt(r)'
    BY <1>0, <1>6, <2>1 DEF FailRequest, Staged, StagedAt, Handed
  <2>3. Staged' /\ pc' \in [Request -> Point]
    BY <1>0, <1>6, <2>1, <2>2, StagedFrame DEF FailRequest, Point, Over
  <2> QED
    BY <1>5, <1>6, <1>0, <1>a, <1>b, <2>3 DEF FailRequest
<1>7. ASSUME NEW r \in Request, FailExtract(r) PROVE TypeOK' /\ Staged'
  <2>1. bg' = [bg EXCEPT ![r] = "failed"] /\ bg[r] # "none"
    BY <1>7 DEF FailExtract, Extract
  <2>2. StagedAt(r)'
    BY <1>0, <1>7, <2>1 DEF FailExtract, Staged, StagedAt
  <2>3. Staged' /\ bg' \in [Request -> Stage]
    BY <1>0, <1>7, <2>1, <2>2, StagedFrame DEF FailExtract, Stage, Ended
  <2> QED
    BY <1>5, <1>7, <1>0, <1>a, <1>b, <2>3 DEF FailExtract
<1>8. CASE PurgeMessages \/ PurgeSessions
  <2>1. log' \in [Session -> Seq(Message)] /\ sessions' \subseteq Session
    <3>1. <<>> \in Seq(Message)
      OBVIOUS
    <3>2. log' = [s \in Session |-> <<>>] /\ sessions' \in {sessions, {}}
      BY <1>8 DEF PurgeMessages, PurgeSessions
    <3> QED
      BY <1>b, <3>1, <3>2
  <2>2. Staged'
    BY <1>8 DEF PurgeMessages, PurgeSessions, Staged, StagedAt
  <2>3. TypeOK'
    BY <1>5, <1>8, <1>0, <1>a, <1>b, <2>1 DEF PurgeMessages, PurgeSessions
  <2> QED
    BY <2>2, <2>3
<1>9. CASE Crash
  <2>1. /\ pc' = [r \in Request |-> IF pc[r] \in Over THEN pc[r] ELSE "dead"]
        /\ bg' = [r \in Request |-> IF bg[r] \in Ended \cup {"none"} THEN bg[r] ELSE "lost"]
    BY <1>9 DEF Crash
  <2>2. pc' \in [Request -> Point] /\ bg' \in [Request -> Stage]
    BY <1>0, <2>1 DEF Point, Over, Stage, Ended
  <2>3. ASSUME NEW r \in Request PROVE StagedAt(r)'
    BY <1>0, <1>9, <2>1 DEF Crash, Staged, StagedAt, Handed, Over, Answered, Ended
  <2>4. TypeOK'
    BY <1>5, <1>9, <1>0, <1>a, <1>b, <2>2 DEF Crash
  <2> QED
    BY <2>3, <2>4 DEF Staged
<1> QED
  BY <1>1, <1>2, <1>3, <1>4, <1>6, <1>7, <1>8, <1>9 DEF Next

LEMMA InitType == Init => TypeOK /\ Staged
<1> SUFFICES ASSUME Init PROVE TypeOK /\ Staged
  OBVIOUS
<1>1. <<>> \in Seq(Message) /\ Len(<<>>) <= Window + 1
  BY Bounds
<1>2. log \in [Session -> Seq(Message)] /\ prompt \in [Request -> Seq(Message)]
      /\ \A r \in Request : Len(prompt[r]) <= Window + 1
  BY <1>1 DEF Init
<1>3. Staged
  BY DEF Init, Staged, StagedAt
<1>4. /\ tools \in [Request -> 0..MaxTools] /\ facts \in [Request -> 0..MaxFacts]
      /\ episodes \in [Request -> 0..1] /\ earlier \in [Request -> SUBSET Request]
      /\ events \in 0..MaxEvents
  BY Bounds DEF Init
<1> QED
  BY <1>2, <1>3, <1>4 DEF Init, TypeOK, Over

(* Every state of the log, of the requests and of the extractions is well   *)
(* typed: no call of a tool too many, and at most one episode of a turn.    *)
THEOREM TypeCorrect == Spec => []TypeOK
  BY InitType, TypeStep, PTL DEF Spec
-----------------------------------------------------------------------------
(* What the log holds of a request, by where it stands: nothing before its  *)
(* message is logged, no answer until it is, and all of it from the moment  *)
(* the turn is handed to the extraction.                                    *)
Answering == {"mode", "playbook", "context", "llm", "tool", "final", "assistant"}

InOrder(r) ==
    /\ Own(r) # {} => Asked(r)
    /\ \A i \in Own(r) : RoleAt(r, i) = "user" => \A j \in Own(r) : i <= j
    /\ \A i \in Own(r) : RoleAt(r, i) = "assistant" => \A j \in Own(r) : j <= i

Unanswered(r) == \A i \in Own(r) : RoleAt(r, i) # "assistant"
OnlyAsked(r) == \A i \in Own(r) : RoleAt(r, i) = "user"
Told(r) == Asked(r) /\ (kind[r] = "turn" => Whole(r)) /\ (kind[r] # "turn" => OnlyAsked(r))

RecordedAt(r, p, b) ==
    /\ InOrder(r)
    /\ p \in {"idle", "ensure", "user"} => Own(r) = {}
    /\ p \in Answering => Asked(r) /\ Unanswered(r)
    /\ p \in {"spawn", "wait", "answered", "captured"} \/ b # "none" => Told(r)

KindAt(p, k) ==
    /\ p \in Answering \cup {"answered"} => k = "turn"
    /\ p \in {"wait", "captured"} => k # "turn"

Recorded == \A r \in Request : RecordedAt(r, pc[r], bg[r])

LogInv ==
    /\ purge = "sessions" => purged
    /\ \A r \in Request : KindAt(pc[r], kind[r])
    /\ ~purged => Recorded

LEMMA LogInvLogs == TypeOK /\ Staged /\ LogInv => TurnLogged
<1> SUFFICES ASSUME TypeOK, Staged, LogInv, ~purged, NEW r \in Request
             PROVE  /\ Own(r) # {} => Asked(r)
                    /\ \A i \in Own(r) : RoleAt(r, i) = "user" => \A j \in Own(r) : i <= j
                    /\ \A i \in Own(r) : RoleAt(r, i) = "assistant" => \A j \in Own(r) : j <= i
                    /\ pc[r] = "answered" => Whole(r)
                    /\ pc[r] = "captured" => Asked(r) /\ \A i \in Own(r) : RoleAt(r, i) = "user"
                    /\ episodes[r] > 0 => Asked(r) /\ (kind[r] = "turn" => Whole(r))
  BY DEF TurnLogged
<1>1. RecordedAt(r, pc[r], bg[r]) /\ KindAt(pc[r], kind[r])
  BY DEF LogInv, Recorded
<1>2. episodes[r] > 0 => bg[r] # "none"
  BY DEF Staged, StagedAt
<1> QED
  BY <1>1, <1>2 DEF RecordedAt, InOrder, KindAt, Told, OnlyAsked

(* What a request has in the log does not change with the rest of it.       *)
LEMMA LogKept ==
    ASSUME UNCHANGED <<log, kind>>, NEW r \in Request
    PROVE  /\ Own(r)' = Own(r) /\ Asked(r)' = Asked(r)
           /\ InOrder(r)' = InOrder(r) /\ Unanswered(r)' = Unanswered(r)
           /\ Told(r)' = Told(r)
  BY DEF Own, RoleAt, Asked, Whole, InOrder, Unanswered, OnlyAsked, Told

(* Appending a message of r adds its last position to those of r.           *)
LEMMA Appended ==
    ASSUME TypeOK, NEW r \in Request, NEW role \in Role,
           log' = [log EXCEPT ![SessionOf[r]] = Append(@, Said(r, role))]
    PROVE  /\ \A q \in Request \ {r} :
                 Own(q)' = Own(q) /\ \A i \in Own(q) : RoleAt(q, i)' = RoleAt(q, i)
           /\ \E n \in Nat :
                 /\ Own(r)' = Own(r) \cup {n} /\ RoleAt(r, n)' = role
                 /\ \A i \in Own(r) : i \in Nat /\ i < n /\ RoleAt(r, i)' = RoleAt(r, i)
<1> DEFINE s == SessionOf[r]
<1>0. s \in Session /\ log[s] \in Seq(Message)
  BY Bounds DEF TypeOK
<1>1. PICK n \in Nat \ {0} : n = Len(log[s]) + 1
  BY <1>0
<1>2. /\ log'[s] = Append(log[s], Said(r, role))
      /\ \A u \in Session \ {s} : log'[u] = log[u]
  BY <1>0 DEF TypeOK
<1>3. /\ Len(log'[s]) = n /\ log'[s][n] = Said(r, role)
      /\ \A i \in 1..(n - 1) : log'[s][i] = log[s][i]
  BY <1>0, <1>1, <1>2
<1>4. Said(r, role).req = r /\ Said(r, role).role = role
  BY DEF Said
<1> HIDE DEF s
<1>5. ASSUME NEW q \in Request \ {r}
      PROVE  Own(q)' = Own(q) /\ \A i \in Own(q) : RoleAt(q, i)' = RoleAt(q, i)
  <2>1. CASE SessionOf[q] = s
    <3>1. Len(log[s]) = n - 1
      BY <1>0, <1>1
    <3>2. Own(q) = {i \in 1..(n - 1) : log[s][i].req = q}
      BY <2>1, <3>1 DEF Own
    <3>3. Own(q)' = {i \in 1..n : log'[s][i].req = q}
      BY <1>3, <2>1 DEF Own
    <3>4. Own(q)' = Own(q)
      BY <1>1, <1>3, <1>4, <3>2, <3>3
    <3> QED
      BY <1>3, <2>1, <3>2, <3>4 DEF RoleAt
  <2>2. CASE SessionOf[q] # s
    BY <1>2, <2>2, Bounds DEF Own, RoleAt
  <2> QED
    BY <2>1, <2>2
<1>6. /\ Own(r)' = Own(r) \cup {n} /\ RoleAt(r, n)' = role
      /\ \A i \in Own(r) : i \in Nat /\ i < n /\ RoleAt(r, i)' = RoleAt(r, i)
  <2>1. Own(r) = {i \in 1..(n - 1) : log[s][i].req = r}
    BY <1>0, <1>1 DEF Own, s
  <2>2. Own(r)' = {i \in 1..n : log'[s][i].req = r}
    BY <1>3 DEF Own, s
  <2>3. Own(r)' = Own(r) \cup {n}
    BY <1>1, <1>3, <1>4, <2>1, <2>2
  <2> QED
    BY <1>1, <1>3, <1>4, <2>1, <2>3 DEF RoleAt, s
<1> QED
  BY <1>1, <1>5, <1>6

(* A message of r leaves what the others have in the log as it is ...       *)
LEMMA OthersKept ==
    ASSUME TypeOK, NEW r \in Request, NEW role \in Role, UNCHANGED kind,
           log' = [log EXCEPT ![SessionOf[r]] = Append(@, Said(r, role))],
           NEW q \in Request \ {r}
    PROVE  /\ Own(q)' = Own(q) /\ InOrder(q)' = InOrder(q)
           /\ Asked(q)' = Asked(q) /\ Unanswered(q)' = Unanswered(q) /\ Told(q)' = Told(q)
<1>1. Own(q)' = Own(q) /\ \A i \in Own(q) : RoleAt(q, i)' = RoleAt(q, i)
  BY Appended
<1> QED
  BY <1>1 DEF Asked, Whole, InOrder, Unanswered, OnlyAsked, Told

(* ... and those of r are still in order, if it is the first one, of a tool *)
(* or the answer, after the one of the user.                                *)
LEMMA OwnMessage ==
    ASSUME TypeOK, NEW r \in Request, NEW role \in Role, UNCHANGED kind,
           log' = [log EXCEPT ![SessionOf[r]] = Append(@, Said(r, role))],
           InOrder(r),
           IF role = "user" THEN Own(r) = {} ELSE Asked(r) /\ Unanswered(r)
    PROVE  /\ InOrder(r)' /\ Asked(r)'
           /\ role = "user" => OnlyAsked(r)'
           /\ role # "assistant" => Unanswered(r)'
           /\ role = "assistant" => Whole(r)'
<1>1. PICK n \in Nat :
         /\ Own(r)' = Own(r) \cup {n} /\ RoleAt(r, n)' = role
         /\ \A i \in Own(r) : i \in Nat /\ i < n /\ RoleAt(r, i)' = RoleAt(r, i)
  BY Appended
<1>2. CASE role = "user"
  <2>1. Own(r)' = {n}
    BY <1>1, <1>2
  <2> QED
    BY <1>1, <1>2, <2>1 DEF InOrder, Asked, OnlyAsked, Unanswered
<1>3. CASE role # "user"
  <2>1. Asked(r)'
    BY <1>1, <1>3 DEF Asked
  <2>2. ASSUME NEW i \in Own(r)', NEW j \in Own(r)'
        PROVE  /\ RoleAt(r, i)' = "user" => i <= j
               /\ RoleAt(r, i)' = "assistant" => j <= i
    <3>1. CASE i = n
      BY <1>1, <1>3, <2>2, <3>1
    <3>2. CASE i \in Own(r)
      <4>1. RoleAt(r, i)' = RoleAt(r, i) /\ RoleAt(r, i) # "assistant"
        BY <1>1, <1>3, <3>2 DEF Unanswered
      <4>2. RoleAt(r, i) = "user" => i <= j
        <5>1. j \in Own(r) => (RoleAt(r, i) = "user" => i <= j)
          BY <3>2 DEF InOrder
        <5>2. j = n => i <= j
          BY <1>1, <3>2
        <5> QED
          BY <1>1, <5>1, <5>2
      <4> QED
        BY <4>1, <4>2
    <3> QED
      BY <1>1, <3>1, <3>2
  <2>3. InOrder(r)'
    BY <2>1, <2>2 DEF InOrder
  <2>4. role # "assistant" => Unanswered(r)'
    BY <1>1, <1>3 DEF Unanswered
  <2>5. role = "assistant" => Whole(r)'
    BY <1>1, <2>1 DEF Whole
  <2> QED
    BY <1>3, <2>1, <2>3, <2>4, <2>5
<1> QED
  BY <1>2, <1>3

(* A step that logs nothing keeps what is recorded if the places where the  *)
(* request r and its extraction are after it allow it.                      *)
LEMMA RecordedFrame ==
    ASSUME Recorded, UNCHANGED <<log, kind>>, NEW r \in Request,
           RecordedAt(r, pc[r], bg[r]) => RecordedAt(r, pc'[r], bg'[r]),
           \A q \in Request \ {r} : pc'[q] = pc[q] /\ bg'[q] = bg[q]
    PROVE  Recorded'
<1>1. ASSUME NEW q \in Request, RecordedAt(q, pc'[q], bg'[q])
      PROVE  RecordedAt(q, pc[q], bg[q])'
  BY <1>1, LogKept DEF RecordedAt
<1> QED
  BY <1>1 DEF Recorded

LEMMA LogMessageStep ==
    ASSUME TypeOK, Staged, Recorded, NEW r \in Request, NEW role \in Role, NEW next \in Point,
           LogMessage(r, role, next), bg[r] = "none",
           IF role = "user" THEN Own(r) = {} ELSE Asked(r) /\ Unanswered(r),
           \/ role = "user" /\ next \in Answering
           \/ role = "user" /\ next = "spawn" /\ kind[r] # "turn"
           \/ role = "tool" /\ next \in Answering
           \/ role = "assistant" /\ next \in {"spawn", "answered"} /\ kind[r] = "turn"
    PROVE  Recorded'
<1>0. pc \in [Request -> Point]
  BY DEF TypeOK, Point
<1>1. CASE SessionOf[r] \notin sessions
  <2>1. pc' = [pc EXCEPT ![r] = "raised"] /\ UNCHANGED <<log, kind, bg>>
    BY <1>1 DEF LogMessage, Go, extractVars
  <2>2. RecordedAt(r, pc[r], bg[r]) => RecordedAt(r, pc'[r], bg'[r])
    BY <1>0, <2>1 DEF RecordedAt, Answering
  <2> QED
    BY <1>0, <2>1, <2>2, RecordedFrame
<1>2. CASE SessionOf[r] \in sessions
  <2>1. /\ log' = [log EXCEPT ![SessionOf[r]] = Append(@, Said(r, role))]
        /\ pc' = [pc EXCEPT ![r] = next] /\ UNCHANGED <<kind, bg>>
    BY <1>2 DEF LogMessage, Go, extractVars
  <2>2. ASSUME NEW q \in Request \ {r} PROVE RecordedAt(q, pc[q], bg[q])'
    BY <1>0, <2>1, OthersKept DEF Recorded, RecordedAt
  <2>3. InOrder(r)
    BY DEF Recorded, RecordedAt
  <2>4. /\ InOrder(r)' /\ Asked(r)'
        /\ role = "user" => OnlyAsked(r)'
        /\ role # "assistant" => Unanswered(r)'
        /\ role = "assistant" => Whole(r)'
    BY <2>1, <2>3, OwnMessage
  <2>5. pc'[r] = next /\ bg'[r] = "none" /\ kind'[r] = kind[r]
    BY <1>0, <2>1
  <2>6. RecordedAt(r, pc[r], bg[r])'
    BY <2>4, <2>5 DEF RecordedAt, Told, Answering
  <2> QED
    BY <2>2, <2>6 DEF Recorded
<1> QED
  BY <1>1, <1>2

LEMMA LogStep == TypeOK /\ Staged /\ LogInv /\ [Next]_vars => LogInv'
<1> SUFFICES ASSUME TypeOK, Staged, LogInv, [Next]_vars PROVE LogInv'
  OBVIOUS
<1> USE DEF requestVars, extractVars
<1>0. pc \in [Request -> Point] /\ bg \in [Request -> Stage]
  BY DEF TypeOK, Point, Stage
<1>a. \A q \in Request : KindAt(pc[q], kind[q])
  BY DEF LogInv
<1>b. ~purged => Recorded
  BY DEF LogInv
<1>c. ASSUME NEW r \in Request, NEW where \in Point, Go(r, where), UNCHANGED <<log, kind, purge, purged>>,
             KindAt(where, kind[r]),
             \A q \in Request \ {r} : bg'[q] = bg[q],
             RecordedAt(r, pc[r], bg[r]) => RecordedAt(r, where, bg'[r])
      PROVE  LogInv'
  <2>1. pc'[r] = where /\ \A q \in Request \ {r} : pc'[q] = pc[q]
    BY <1>0, <1>c DEF Go
  <2>2. \A q \in Request : KindAt(pc[q], kind[q])'
    BY <1>a, <1>c, <2>1 DEF KindAt
  <2>3. ~purged' => Recorded'
    BY <1>b, <1>c, <2>1, RecordedFrame
  <2> QED
    BY <1>c, <2>2, <2>3 DEF LogInv
<1>d. ASSUME NEW r \in Request, NEW role \in Role, NEW next \in Point, LogMessage(r, role, next),
             bg[r] = "none", KindAt(next, kind[r]),
             ~purged => IF role = "user" THEN Own(r) = {} ELSE Asked(r) /\ Unanswered(r),
             \/ role = "user" /\ next \in Answering
             \/ role = "user" /\ next = "spawn" /\ kind[r] # "turn"
             \/ role = "tool" /\ next \in Answering
             \/ role = "assistant" /\ next \in {"spawn", "answered"} /\ kind[r] = "turn"
      PROVE  LogInv'
  <2>1. ~purged' => Recorded'
    BY <1>b, <1>d, LogMessageStep DEF LogMessage
  <2>2. /\ pc' = [pc EXCEPT ![r] = "raised"] \/ pc' = [pc EXCEPT ![r] = next]
        /\ UNCHANGED <<kind, purge, purged>>
    BY <1>d, LogType DEF LogMessage
  <2>3. \A q \in Request : KindAt(pc[q], kind[q])'
    BY <1>0, <1>a, <1>d, <2>2 DEF KindAt, Answering
  <2> QED
    BY <2>1, <2>2, <2>3 DEF LogInv
<1>1. CASE UNCHANGED vars
  <2>1. ~purged' => Recorded'
    <3>1. ASSUME NEW q \in Request, RecordedAt(q, pc[q], bg[q]) PROVE RecordedAt(q, pc[q], bg[q])'
      BY <1>1, <3>1, LogKept DEF vars, RecordedAt
    <3> QED
      BY <1>1, <1>b, <3>1 DEF vars, Recorded
  <2> QED
    BY <1>1, <2>1 DEF vars, LogInv, KindAt
<1>2. ASSUME NEW r \in Request, Begin(r) PROVE LogInv'
  BY <1>c, <1>2 DEF Begin, Point, KindAt, Answering, RecordedAt
<1>3. ASSUME NEW r \in Request, RequestStep(r) PROVE LogInv'
  <2>0. ~purged => RecordedAt(r, pc[r], bg[r])
    BY <1>b DEF Recorded
  <2>1. CASE EnsureSession(r)
    BY <1>c, <2>1 DEF EnsureSession, Point, KindAt, Answering, RecordedAt
  <2>2. CASE LogUser(r)
    <3> DEFINE next == IF kind[r] = "turn" THEN "mode" ELSE "spawn"
    <3>1. pc[r] = "user" /\ bg[r] = "none" /\ LogMessage(r, "user", next)
      BY <2>2 DEF LogUser, Staged, StagedAt, Handed
    <3>2. ~purged => Own(r) = {}
      BY <2>0, <3>1 DEF RecordedAt
    <3>3. next \in Point /\ KindAt(next, kind[r]) /\ "user" \in Role
      BY DEF KindAt, Answering, Point, Role
    <3>4. next \in Answering \/ (next = "spawn" /\ kind[r] # "turn")
      BY DEF Answering
    <3> HIDE DEF next
    <3> QED
      BY <1>d, <3>1, <3>2, <3>3, <3>4
  <2>3. CASE EvaluateMode(r)
    <3>1. PICK where \in {"playbook", "context"} : Go(r, where)
      BY <2>3 DEF EvaluateMode
    <3>2. KindAt(where, kind[r]) /\ where \in Point
      BY <1>a, <2>3 DEF EvaluateMode, KindAt, Answering, Point
    <3>3. pc[r] = "mode" /\ UNCHANGED <<log, kind, purge, purged, bg>>
      BY <2>3 DEF EvaluateMode, RequestOnly
    <3> QED
      BY <1>c, <3>1, <3>2, <3>3 DEF RecordedAt, Answering
  <2>4. CASE AnswerByPlaybook(r)
    <3>1. pc[r] = "playbook" /\ bg[r] = "none" /\ LogMessage(r, "assistant", "answered")
      BY <2>4 DEF AnswerByPlaybook, Staged, StagedAt, Handed
    <3>2. kind[r] = "turn" /\ (~purged => Asked(r) /\ Unanswered(r))
      BY <1>a, <2>0, <3>1 DEF RecordedAt, KindAt, Answering
    <3>3. "answered" \in Point /\ "assistant" \in Role /\ KindAt("answered", kind[r])
      BY <3>2 DEF Point, Over, Answered, Role, KindAt
    <3> QED
      BY <1>d, <3>1, <3>2, <3>3
  <2>5. CASE AssembleContext(r)
    BY <1>a, <1>c, <2>5 DEF AssembleContext, Point, KindAt, Answering, RecordedAt
  <2>6. CASE Complete(r)
    <3>1. PICK where \in {"assistant", "tool"} : Go(r, where)
      BY <2>6 DEF Complete
    <3>2. KindAt(where, kind[r]) /\ where \in Point
      BY <1>a, <2>6 DEF Complete, KindAt, Answering, Point
    <3>3. pc[r] = "llm" /\ UNCHANGED <<log, kind, purge, purged, bg>>
      BY <2>6 DEF Complete, RequestOnly
    <3> QED
      BY <1>c, <3>1, <3>2, <3>3 DEF RecordedAt, Answering
  <2>7. CASE CallTool(r)
    <3> DEFINE next == IF tools[r] = 1 THEN "final" ELSE "tool"
    <3>1. pc[r] = "tool" /\ bg[r] = "none" /\ LogMessage(r, "tool", next)
      BY <2>7 DEF CallTool, Staged, StagedAt, Handed
    <3>2. kind[r] = "turn" /\ (~purged => Asked(r) /\ Unanswered(r))
      BY <1>a, <2>0, <3>1 DEF RecordedAt, KindAt, Answering
    <3>3. next \in Point /\ KindAt(next, kind[r]) /\ "tool" \in Role /\ next \in Answering
      BY <3>2 DEF KindAt, Answering, Point, Role
    <3> HIDE DEF next
    <3> QED
      BY <1>d, <3>1, <3>2, <3>3
  <2>8. CASE CompleteAgain(r)
    BY <1>a, <1>c, <2>8 DEF CompleteAgain, RequestOnly, Point, KindAt, Answering, RecordedAt
  <2>9. CASE LogAssistant(r)
    <3>1. pc[r] = "assistant" /\ bg[r] = "none" /\ LogMessage(r, "assistant", "spawn")
      BY <2>9 DEF LogAssistant, Staged, StagedAt, Handed
    <3>2. kind[r] = "turn" /\ (~purged => Asked(r) /\ Unanswered(r))
      BY <1>a, <2>0, <3>1 DEF RecordedAt, KindAt, Answering
    <3>3. "spawn" \in Point /\ "assistant" \in Role /\ KindAt("spawn", kind[r])
      BY DEF Point, Role, KindAt, Answering
    <3> QED
      BY <1>d, <3>1, <3>2, <3>3
  <2>10. CASE Spawn(r)
    <3> DEFINE where == IF kind[r] = "sync" THEN "wait"
                        ELSE IF kind[r] = "turn" THEN "answered" ELSE "captured"
    <3>1. pc[r] = "spawn" /\ Go(r, where) /\ bg' = [bg EXCEPT ![r] = "episode"]
          /\ UNCHANGED <<log, kind, purge, purged>>
      BY <2>10 DEF Spawn
    <3>2. KindAt(where, kind[r]) /\ where \in Point /\ where \in {"wait", "answered", "captured"}
      BY DEF KindAt, Answering, Point, Over, Answered
    <3> HIDE DEF where
    <3>3. RecordedAt(r, pc[r], bg[r]) => RecordedAt(r, where, bg'[r])
      BY <3>1, <3>2 DEF RecordedAt, Answering
    <3> QED
      BY <1>0, <1>c, <3>1, <3>2, <3>3
  <2>11. CASE Ingested(r)
    BY <1>a, <1>c, <2>11 DEF Ingested, RequestOnly, Point, Over, Answered, KindAt, Answering, RecordedAt
  <2> QED
    BY <1>3, <2>1, <2>2, <2>3, <2>4, <2>5, <2>6, <2>7, <2>8, <2>9, <2>10, <2>11 DEF RequestStep
<1>4. ASSUME NEW r \in Request, UNCHANGED <<log, kind, pc, purge, purged>>,
             bg[r] # "none", \A q \in Request \ {r} : bg'[q] = bg[q]
      PROVE  LogInv'
  <2>1. RecordedAt(r, pc[r], bg[r]) => RecordedAt(r, pc'[r], bg'[r])
    BY <1>4 DEF RecordedAt
  <2>2. ~purged' => Recorded'
    BY <1>4, <1>b, <2>1, RecordedFrame
  <2> QED
    BY <1>4, <1>a, <2>2 DEF LogInv, KindAt
<1>5. ASSUME NEW r \in Request, ExtractStep(r) PROVE LogInv'
  <2>1. \A q \in Request \ {r} : bg'[q] = bg[q]
    BY <1>0, <1>5 DEF ExtractStep, AnchorEpisode, Ask, StoreRaw, StoreFact, StoreEdges, Extract
  <2>2. bg[r] # "none" /\ UNCHANGED <<log, kind, pc, purge, purged>>
    BY <1>5 DEF ExtractStep, AnchorEpisode, Ask, StoreRaw, StoreFact, StoreEdges, ExtractOnly
  <2> QED
    BY <1>4, <2>1, <2>2
<1>6. ASSUME NEW r \in Request, FailRequest(r) PROVE LogInv'
  <2>1. \/ pc[r] = "ensure" /\ Go(r, "user")
        \/ pc[r] # "ensure" /\ Go(r, "raised") /\ bg[r] = "none"
    BY <1>6 DEF FailRequest, Staged, StagedAt, Handed
  <2>2. UNCHANGED <<log, kind, bg, purge, purged>>
    BY <1>6 DEF FailRequest
  <2> QED
    BY <1>c, <2>1, <2>2 DEF Point, Over, KindAt, Answering, RecordedAt
<1>7. ASSUME NEW r \in Request, FailExtract(r) PROVE LogInv'
  <2>1. \A q \in Request \ {r} : bg'[q] = bg[q]
    BY <1>0, <1>7 DEF FailExtract, Extract
  <2> QED
    BY <1>4, <1>7, <2>1 DEF FailExtract
<1>8. CASE PurgeMessages \/ PurgeSessions
  BY <1>8, <1>a DEF PurgeMessages, PurgeSessions, LogInv, KindAt
<1>9. CASE Crash
  <2>1. ASSUME NEW q \in Request
        PROVE  /\ pc'[q] \in {pc[q], "dead"} /\ (bg'[q] # "none" <=> bg[q] # "none")
               /\ kind'[q] = kind[q]
    BY <1>0, <1>9 DEF Crash, Ended
  <2>2. ASSUME NEW q \in Request, RecordedAt(q, pc[q], bg[q]) PROVE RecordedAt(q, pc[q], bg[q])'
    BY <1>9, <2>1, <2>2, LogKept DEF Crash, RecordedAt, Answering
  <2>3. ~purged' => Recorded'
    BY <1>9, <1>b, <2>2 DEF Crash, Recorded
  <2>4. \A q \in Request : KindAt(pc[q], kind[q])'
    BY <1>a, <2>1 DEF KindAt, Answering
  <2> QED
    BY <1>9, <2>3, <2>4 DEF Crash, LogInv
<1> QED
  BY <1>1, <1>2, <1>3, <1>5, <1>6, <1>7, <1>8, <1>9 DEF Next

(* However turns overlap, fail and are cut, and whatever the log held, the  *)
(* messages of each are in order, and complete once it is answered.         *)
THEOREM TurnsLogged == Spec => []TurnLogged
<1>1. Init => LogInv
  <2> SUFFICES ASSUME Init PROVE LogInv
    OBVIOUS
  <2>1. ASSUME NEW r \in Request PROVE Own(r) = {}
    BY Bounds DEF Init, Own
  <2> QED
    BY <2>1 DEF Init, LogInv, KindAt, Answering, Recorded, RecordedAt, InOrder, Asked
<1> QED
  BY <1>1, InitType, TypeStep, LogStep, LogInvLogs, PTL DEF Spec
-----------------------------------------------------------------------------
(* What the prompt of a turn holds: those whose answers it has seen stay    *)
(* answered, so they log nothing that the prompt could miss.                *)
Remembers(r) ==
    \A q \in earlier[r], i \in 1..Len(log[SessionOf[r]]) :
        /\ log[SessionOf[r]][i] = Said(q, "assistant")
        /\ Len(log[SessionOf[r]]) - i < Window
        => Contains(prompt[r], Said(q, "assistant"))

PromptInv ==
    /\ purge = "sessions" => purged
    /\ \A r \in Request : \A q \in earlier[r] : pc[q] \in Answered
    /\ \A r \in Request : pc[r] = "llm" => Last(prompt[r]) = Said(r, "user")
    /\ \A r \in Request : pc[r] = "llm" /\ ~purged => Remembers(r)

LEMMA PromptInvRemembers == PromptInv => PromptRemembers
  BY DEF PromptInv, PromptRemembers, Remembers

(* Steps that leave log and prompts alone: nothing that was answered is     *)
(* undone, and no request comes to the LLM but with its prompt.             *)
LEMMA PromptFrame ==
    ASSUME TypeOK, PromptInv, UNCHANGED <<log, prompt, earlier, purged>>,
           purge' = "sessions" => purge = "sessions",
           \A q \in Request : /\ pc[q] \in Answered => pc'[q] = pc[q]
                              /\ pc'[q] = "llm" => pc[q] = "llm"
    PROVE  PromptInv'
<1>1. \A r \in Request : \A q \in earlier'[r] : pc'[q] \in Answered
  <2>1. earlier \in [Request -> SUBSET Request]
    BY DEF TypeOK
  <2> QED
    BY <2>1 DEF PromptInv
<1>2. \A r \in Request : Remembers(r)' = Remembers(r)
  BY DEF Remembers
<1> QED
  BY <1>1, <1>2 DEF PromptInv

(* A message of a turn that is not answered yet is none that another one    *)
(* has seen, and it only moves the window on.                               *)
LEMMA RemembersAppend ==
    ASSUME TypeOK, NEW r \in Request, Remembers(r), NEW x \in Request, NEW role \in Role,
           log' = [log EXCEPT ![SessionOf[x]] = Append(@, Said(x, role))],
           x \notin earlier[r], UNCHANGED <<prompt, earlier>>
    PROVE  Remembers(r)'
<1> DEFINE s == SessionOf[r]
<1>0. s \in Session /\ log[s] \in Seq(Message) /\ Window \in Nat
  BY Bounds DEF TypeOK
<1>1. CASE SessionOf[x] # s
  BY <1>0, <1>1 DEF TypeOK, Remembers
<1>2. CASE SessionOf[x] = s
  <2>1. PICK n \in Nat : n = Len(log[s])
    BY <1>0
  <2>2. log'[s] = Append(log[s], Said(x, role))
    BY <1>0, <1>2 DEF TypeOK
  <2>3. /\ Len(log'[s]) = n + 1 /\ log'[s][n + 1] = Said(x, role)
        /\ \A i \in 1..n : log'[s][i] = log[s][i]
    BY <1>0, <2>1, <2>2
  <2>4. ASSUME NEW q \in earlier[r], NEW i \in 1..(n + 1),
               log'[s][i] = Said(q, "assistant"), n + 1 - i < Window
        PROVE  Contains(prompt[r], Said(q, "assistant"))
    <3>1. i # n + 1
      BY <2>3, <2>4 DEF Said
    <3>2. i \in 1..n /\ n - i < Window
      BY <1>0, <2>4, <3>1
    <3>3. log[s][i] = Said(q, "assistant")
      BY <2>3, <2>4, <3>2
    <3> QED
      BY <2>1, <3>2, <3>3 DEF Remembers
  <2> HIDE DEF s
  <2>5. Remembers(r)' <=> \A q \in earlier[r], i \in 1..Len(log'[s]) :
           /\ log'[s][i] = Said(q, "assistant") /\ Len(log'[s]) - i < Window
           => Contains(prompt[r], Said(q, "assistant"))
    BY DEF Remembers, Said, s
  <2> QED
    BY <2>3, <2>4, <2>5
<1> QED
  BY <1>1, <1>2

(* The prompt as it is assembled.                                           *)
LEMMA AssembledRemembers ==
    ASSUME TypeOK, NEW r \in Request, UNCHANGED <<log, earlier>>,
           prompt'[r] = Assembled(Recent(SessionOf[r]), Said(r, "user"))
    PROVE  Last(prompt'[r]) = Said(r, "user") /\ Remembers(r)'
<1> DEFINE s == SessionOf[r]
           recent == Recent(s)
<1>0. s \in Session /\ Said(r, "user") \in Message
  BY Bounds DEF Said, Message, Role
<1>1. /\ recent \in Seq(Message)
      /\ \A i \in 1..Len(log[s]) : Len(log[s]) - i < Window =>
            \E j \in 1..Len(recent) : recent[j] = log[s][i]
  BY <1>0, RecentType
<1> HIDE DEF recent
<1>2. /\ Last(prompt'[r]) = Said(r, "user")
      /\ \A j \in 1..Len(recent) : Contains(prompt'[r], recent[j])
  BY <1>0, <1>1, AssembledType DEF recent
<1>3. ASSUME NEW q \in earlier[r], NEW i \in 1..Len(log[s]),
             log[s][i] = Said(q, "assistant"), Len(log[s]) - i < Window
      PROVE  Contains(prompt'[r], Said(q, "assistant"))
  BY <1>1, <1>2, <1>3
<1>4. Remembers(r)'
  BY <1>3 DEF Remembers, Said
<1> QED
  BY <1>2, <1>4

LEMMA PromptLogStep ==
    ASSUME TypeOK, PromptInv, NEW r \in Request, NEW role \in Role, NEW next \in Point \ {"llm"},
           LogMessage(r, role, next), pc[r] \notin Answered
    PROVE  PromptInv'
<1>0. pc \in [Request -> Point] /\ earlier \in [Request -> SUBSET Request]
  BY DEF TypeOK, Point
<1>1. /\ UNCHANGED <<prompt, earlier, purge, purged>>
      /\ pc' = [pc EXCEPT ![r] = "raised"] \/ pc' = [pc EXCEPT ![r] = next]
  BY LogType DEF LogMessage
<1>2. \A q \in Request : /\ pc[q] \in Answered => pc'[q] = pc[q]
                         /\ pc'[q] = "llm" => pc[q] = "llm"
  BY <1>0, <1>1
<1>3. CASE UNCHANGED log
  BY <1>1, <1>2, <1>3, PromptFrame
<1>4. CASE log' = [log EXCEPT ![SessionOf[r]] = Append(@, Said(r, role))]
  <2>1. ASSUME NEW q \in Request, Remembers(q) PROVE Remembers(q)'
    <3>1. r \notin earlier[q]
      BY DEF PromptInv
    <3> QED
      BY <1>1, <1>4, <2>1, <3>1, RemembersAppend
  <2>2. \A x \in Request : \A q \in earlier'[x] : pc'[q] \in Answered
    BY <1>0, <1>1, <1>2 DEF PromptInv
  <2> QED
    BY <1>1, <1>2, <2>1, <2>2 DEF PromptInv
<1> QED
  BY <1>3, <1>4 DEF LogMessage

LEMMA PromptStep == TypeOK /\ PromptInv /\ [Next]_vars => PromptInv'
<1> SUFFICES ASSUME TypeOK, PromptInv, [Next]_vars PROVE PromptInv'
  OBVIOUS
<1> USE DEF requestVars, extractVars
<1>0. pc \in [Request -> Point] /\ earlier \in [Request -> SUBSET Request]
      /\ prompt \in [Request -> Seq(Message)]
  BY DEF TypeOK, Point
<1>a. ASSUME NEW r \in Request, NEW where \in Point \ {"llm"}, Go(r, where), pc[r] \notin Answered,
             UNCHANGED <<log, prompt, earlier, purge, purged>>
      PROVE  PromptInv'
  BY <1>0, <1>a, PromptFrame DEF Go
<1>b. ASSUME UNCHANGED <<pc, log, prompt, earlier, purge, purged>> PROVE PromptInv'
  BY <1>b, PromptFrame
<1>1. CASE UNCHANGED vars
  BY <1>1, <1>b DEF vars
<1>2. ASSUME NEW r \in Request, Begin(r) PROVE PromptInv'
  <2>1. /\ pc[r] = "idle" /\ pc' = [pc EXCEPT ![r] = "ensure"]
        /\ earlier' = [earlier EXCEPT ![r] = {q \in Request : pc[q] \in Answered}]
        /\ UNCHANGED <<log, prompt, purge, purged>>
    BY <1>2 DEF Begin, Go
  <2>2. \A q \in Request : /\ pc[q] \in Answered => pc'[q] = pc[q]
                           /\ pc'[q] = "llm" => pc[q] = "llm" /\ q # r
    BY <1>0, <2>1 DEF Answered
  <2>3. \A x \in Request : \A q \in earlier'[x] : pc'[q] \in Answered
    BY <1>0, <2>1, <2>2 DEF PromptInv
  <2>4. ASSUME NEW q \in Request, q # r PROVE Remembers(q)' = Remembers(q)
    <3>1. earlier'[q] = earlier[q]
      BY <1>0, <2>1, <2>4
    <3> QED
      BY <2>1, <3>1 DEF Remembers
  <2> QED
    BY <2>1, <2>2, <2>3, <2>4 DEF PromptInv
<1>3. ASSUME NEW r \in Request, RequestStep(r) PROVE PromptInv'
  <2>1. CASE EnsureSession(r)
    BY <1>a, <2>1 DEF EnsureSession, Point, Answered
  <2>2. CASE LogUser(r)
    BY <2>2, PromptLogStep DEF LogUser, Point, Role, Answered
  <2>3. CASE EvaluateMode(r)
    BY <1>a, <2>3 DEF EvaluateMode, RequestOnly, Point, Answered
  <2>4. CASE AnswerByPlaybook(r)
    BY <2>4, PromptLogStep DEF AnswerByPlaybook, Point, Over, Role, Answered
  <2>5. CASE AssembleContext(r)
    <3> DEFINE p == Assembled(Recent(SessionOf[r]), Said(r, "user"))
    <3>1. /\ pc[r] = "context" /\ pc' = [pc EXCEPT ![r] = "llm"]
          /\ UNCHANGED <<log, earlier, purge, purged>>
          /\ prompt' = [prompt EXCEPT ![r] = p]
      BY <2>5 DEF AssembleContext, Go
    <3>2. prompt'[r] = p /\ \A q \in Request \ {r} : prompt'[q] = prompt[q]
      BY <1>0, <3>1
    <3>3. Last(prompt'[r]) = Said(r, "user") /\ Remembers(r)'
      BY <3>1, <3>2, AssembledRemembers
    <3>4. \A q \in Request \ {r} : Remembers(q)' = Remembers(q)
      BY <3>1, <3>2 DEF Remembers
    <3>5. \A q \in Request : /\ pc[q] \in Answered => pc'[q] = pc[q]
                             /\ pc'[q] = "llm" => pc[q] = "llm" \/ q = r
      BY <1>0, <3>1 DEF Answered
    <3>6. \A x \in Request : \A q \in earlier'[x] : pc'[q] \in Answered
      BY <1>0, <3>1, <3>5 DEF PromptInv
    <3> QED
      BY <3>1, <3>2, <3>3, <3>4, <3>5, <3>6 DEF PromptInv, Said
  <2>6. CASE Complete(r)
    <3>1. PICK where \in {"assistant", "tool"} : Go(r, where)
      BY <2>6 DEF Complete
    <3> QED
      BY <1>a, <2>6, <3>1 DEF Complete, RequestOnly, Point, Answered
  <2>7. CASE CallTool(r)
    BY <2>7, PromptLogStep DEF CallTool, Point, Role, Answered
  <2>8. CASE CompleteAgain(r)
    BY <1>a, <2>8 DEF CompleteAgain, RequestOnly, Point, Answered
  <2>9. CASE LogAssistant(r)
    BY <2>9, PromptLogStep DEF LogAssistant, Point, Role, Answered
  <2>10. CASE Spawn(r)
    <3>1. PICK where \in {"wait", "answered", "captured"} : Go(r, where)
      BY <2>10 DEF Spawn
    <3> QED
      BY <1>a, <2>10, <3>1 DEF Spawn, Point, Over, Answered
  <2>11. CASE Ingested(r)
    BY <1>a, <2>11 DEF Ingested, RequestOnly, Point, Over, Answered
  <2> QED
    BY <1>3, <2>1, <2>2, <2>3, <2>4, <2>5, <2>6, <2>7, <2>8, <2>9, <2>10, <2>11 DEF RequestStep
<1>4. ASSUME NEW r \in Request, ExtractStep(r) \/ FailExtract(r) PROVE PromptInv'
  BY <1>b, <1>4 DEF ExtractStep, AnchorEpisode, Ask, StoreRaw, StoreFact, StoreEdges, ExtractOnly,
                    FailExtract
<1>5. ASSUME NEW r \in Request, FailRequest(r) PROVE PromptInv'
  BY <1>a, <1>5 DEF FailRequest, Point, Over, Answered
<1>6. CASE PurgeMessages
  BY <1>6 DEF PurgeMessages, PromptInv
<1>7. CASE PurgeSessions
  BY <1>7 DEF PurgeSessions, PromptInv
<1>8. CASE Crash
  <2>1. \A q \in Request : /\ pc[q] \in Answered => pc'[q] = pc[q]
                           /\ pc'[q] = "llm" => pc[q] = "llm"
    BY <1>0, <1>8 DEF Crash, Over, Answered
  <2> QED
    BY <1>8, <2>1, PromptFrame DEF Crash
<1> QED
  BY <1>1, <1>2, <1>3, <1>4, <1>5, <1>6, <1>7, <1>8 DEF Next

(* The LLM is asked to answer the message of the turn, with the answers its *)
(* caller had before, whatever other turns of the session log meanwhile.    *)
THEOREM PromptsRemember == Spec => []PromptRemembers
<1>1. Init => PromptInv
  BY DEF Init, PromptInv
<1> QED
  BY <1>1, InitType, TypeStep, PromptStep, PromptInvRemembers, PTL DEF Spec
=============================================================================

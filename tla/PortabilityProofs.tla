-------------------------- MODULE PortabilityProofs --------------------------
(* Proofs about Portability, for every set of intentions, checks and rows,  *)
(* and any number of exports, errors and crashes.                           *)
EXTENDS Portability, TLAPS

(* What makes the type invariant inductive: an id that an export has seen   *)
(* was given out, and so was every one that a check selected.               *)
Known(b) == {i \in Intention : b.intent[i] # "none"} \subseteq made

(* Where a check stands: what it selected and has not told of yet, ...      *)
Progress ==
    \A c \in Check :
        /\ cued[c] \subseteq made
        /\ pc[c] = "new" => cued[c] = {}
        /\ pc[c] = "over" /\ c \notin failed => todo[c] = {}

(* ... that nothing a check told of waits again, unless it was brought back *)
(* from a bundle, and that one that began later selected nothing of it.     *)
Silent == \A c \in Check : \A i \in told[c] : intent[i] = "waiting" => i \in restored
Later ==
    \A c \in Check : \A d \in before[c] : pc[d] = "over" /\ cued[c] \cap told[d] \subseteq restored

CheckInv == Progress /\ Silent /\ Later

LEMMA CheckInvFires == TypeOK /\ CheckInv => FiresOnce
<1> SUFFICES ASSUME TypeOK, CheckInv, NEW c \in Check
             PROVE  /\ \A d \in before[c] : told[c] \cap told[d] \subseteq restored
                    /\ pc[c] = "over" /\ c \notin failed =>
                          /\ cued[c] \subseteq told[c]
                          /\ {i \in cued[c] : intent[i] = "waiting"} \subseteq restored
  BY DEF FiresOnce
<1>1. todo[c] \cup told[c] = cued[c]
  BY DEF TypeOK
<1>2. \A d \in before[c] : told[c] \cap told[d] \subseteq restored
  BY <1>1 DEF CheckInv, Later
<1>3. ASSUME pc[c] = "over", c \notin failed
      PROVE  cued[c] \subseteq told[c] /\ {i \in cued[c] : intent[i] = "waiting"} \subseteq restored
  <2>1. cued[c] = told[c]
    BY <1>1, <1>3 DEF CheckInv, Progress
  <2> QED
    BY <2>1 DEF CheckInv, Silent
<1> QED
  BY <1>2, <1>3

LEMMA Constants ==
    /\ \A e \in Edge : Ends[e] \subseteq Node
    /\ Procedural \subseteq Fact /\ Fact \cap Node = {}
    /\ MaxExports \in Nat /\ MaxFaults \in Nat
  BY PortabilityAssumption

LEMMA NoBundleType == NoBundle \in Bundle /\ Known(NoBundle)
  BY DEF NoBundle, NoIntention, NotDone, Bundle, States, Known

LEMMA ReadType ==
    ASSUME TypeOK, NEW b \in Bundle, Known(b), NEW table \in Table
    PROVE  Read(b, table) \in Bundle /\ Known(Read(b, table))
<1>1. /\ db \subseteq Row /\ intent \in [Intention -> States] /\ done \in [Intention -> BOOLEAN]
      /\ {i \in Intention : intent[i] # "none"} \subseteq made
  BY DEF TypeOK
<1>2. CASE table \in {Facts, Edges, Nodes, Profiles}
  <2>1. PICK S \in SUBSET Row : Read(b, table) = [b EXCEPT !.rows = @ \cup S]
    <3>1. \/ Read(b, table) = [b EXCEPT !.rows = @ \cup (db \cap Fact)]
          \/ Read(b, table) = [b EXCEPT !.rows = @ \cup (db \cap Edge)]
          \/ Read(b, table) = [b EXCEPT !.rows = @ \cup (db \cap Node)]
          \/ Read(b, table) = [b EXCEPT !.rows = @ \cup (db \cap Profile)]
      BY <1>2 DEF Read, Facts, Edges, Nodes, Intentions, Profiles, Playbooks
    <3> QED
      BY <1>1, <3>1
  <2> QED
    BY <2>1 DEF Bundle, Known
<1>3. CASE table = Intentions
  <2>1. Read(b, table) = [b EXCEPT !.intent = intent, !.done = done]
    BY <1>3 DEF Read, Facts, Edges, Nodes, Intentions, Profiles, Playbooks
  <2> QED
    BY <1>1, <2>1 DEF Bundle, Known
<1>4. CASE table = Playbooks
  <2>1. Read(b, table) = [b EXCEPT !.books = db \cap Procedural]
    BY <1>4 DEF Read, Facts, Edges, Nodes, Intentions, Profiles, Playbooks
  <2> QED
    BY <1>1, <2>1 DEF Bundle, Known
<1> QED
  BY <1>2, <1>3, <1>4 DEF Table, Facts, Edges, Nodes, Intentions, Profiles, Playbooks

(* The rows, the checks and the bundles one by one.                         *)
RowsType ==
    /\ db \subseteq Row /\ \A e \in db \cap Edge : Ends[e] \subseteq db
    /\ intent \in [Intention -> States] /\ done \in [Intention -> BOOLEAN]
    /\ restored \cup {i \in Intention : intent[i] # "none"} \subseteq made
    /\ made \subseteq Row \cup Intention

ChecksType ==
    /\ pc \in [Check -> {"new", "open", "over", "dead"}] /\ failed \subseteq Check
    /\ todo \in [Check -> SUBSET Intention] /\ told \in [Check -> SUBSET Intention]
    /\ cued \in [Check -> SUBSET Intention] /\ before \in [Check -> SUBSET Check]
    /\ \A c \in Check : todo[c] \cap told[c] = {} /\ todo[c] \cup told[c] = cued[c]

BundlesType ==
    /\ draft \in [bundle : Bundle, next : Table \cup {0}] /\ bundle \in Bundle
    /\ exports \in 0..MaxExports
    /\ Known(draft.bundle) /\ Known(bundle)

Typed == RowsType /\ ChecksType /\ BundlesType /\ faults \in 0..MaxFaults

LEMMA TypedIsTypeOK == Typed => TypeOK
  BY DEF Typed, RowsType, ChecksType, BundlesType, TypeOK

LEMMA RowsStep == Typed /\ [Next]_vars => RowsType'
<1> SUFFICES ASSUME Typed, [Next]_vars PROVE RowsType'
  OBVIOUS
<1>1. CASE UNCHANGED <<db, intent, done, restored, made>>
  BY <1>1 DEF Typed, RowsType
<1>2. ASSUME NEW i \in Intention, AddIntention(i) PROVE RowsType'
  BY <1>2 DEF AddIntention, Typed, RowsType, States
<1>3. ASSUME NEW i \in Intention, CompleteIntention(i) PROVE RowsType'
  BY <1>3 DEF CompleteIntention, Typed, RowsType
<1>4. ASSUME NEW c \in Check, Fire(c) \/ FailCheck(c) PROVE RowsType'
  <2>1. \/ UNCHANGED intent
        \/ \E i \in Intention : intent[i] # "none" /\ intent' = [intent EXCEPT ![i] = "fired"]
    BY <1>4 DEF Fire, FailCheck, Typed, ChecksType
  <2>2. UNCHANGED <<db, done, restored, made>>
    BY <1>4 DEF Fire, FailCheck
  <2> QED
    BY <2>1, <2>2 DEF Typed, RowsType, States
<1>5. ASSUME NEW r \in Row, Put(r) PROVE RowsType'
  BY <1>5 DEF Put, Typed, RowsType
<1>6. CASE Forget
  BY <1>6 DEF Forget, Typed, RowsType, NoIntention, NotDone, States
<1>7. CASE ForgetScope
  <2>1. PICK gone \in SUBSET Intention, f \in SUBSET Fact :
           /\ db' = db \ f
           /\ intent' = [i \in Intention |-> IF i \in gone THEN "none" ELSE intent[i]]
           /\ done' = [i \in Intention |-> done[i] /\ i \notin gone]
    BY <1>7 DEF ForgetScope
  <2>2. db' \subseteq Row /\ \A e \in db' \cap Edge : Ends[e] \subseteq db'
    BY <2>1, Constants DEF Typed, RowsType
  <2>3. /\ intent' \in [Intention -> States] /\ done' \in [Intention -> BOOLEAN]
        /\ \A i \in Intention : intent'[i] # "none" => intent[i] # "none"
    BY <2>1 DEF Typed, RowsType, States
  <2> QED
    BY <1>7, <2>2, <2>3 DEF ForgetScope, Typed, RowsType
<1>8. CASE Import
  <2>1. bundle \in Bundle /\ Known(bundle)
    BY DEF Typed, BundlesType
  <2>2. /\ bundle.rows \subseteq Row /\ bundle.intent \in [Intention -> States]
        /\ bundle.done \in [Intention -> BOOLEAN]
        /\ {i \in Intention : bundle.intent[i] # "none"} \subseteq made
    BY <2>1 DEF Bundle, Known
  <2>3. db' \subseteq Row /\ \A e \in db' \cap Edge : Ends[e] \subseteq db'
    BY <1>8, <2>2 DEF Import, Accepted, Typed, RowsType
  <2>4. /\ intent' \in [Intention -> States] /\ done' \in [Intention -> BOOLEAN]
        /\ \A i \in Intention : intent'[i] # "none" => intent[i] # "none" \/ bundle.intent[i] # "none"
    BY <1>8, <2>2 DEF Import, Merged, Typed, RowsType
  <2> QED
    BY <1>8, <2>2, <2>3, <2>4 DEF Import, Typed, RowsType
<1> QED
  BY <1>1, <1>2, <1>3, <1>4, <1>5, <1>6, <1>7, <1>8
  DEF Next, vars, BeginCheck, EndCheck, BeginExport, ReadTable, Crash

LEMMA ChecksStep == Typed /\ Progress /\ [Next]_vars => ChecksType'
<1> SUFFICES ASSUME Typed, Progress, [Next]_vars PROVE ChecksType'
  OBVIOUS
<1> USE DEF checkVars
<1>1. CASE UNCHANGED checkVars
  BY <1>1 DEF Typed, ChecksType
<1>2. ASSUME NEW c \in Check, BeginCheck(c) PROVE ChecksType'
  <2>1. PICK hits \in SUBSET Intention :
           todo' = [todo EXCEPT ![c] = hits] /\ cued' = [cued EXCEPT ![c] = hits]
    BY <1>2 DEF BeginCheck, Waiting
  <2>2. told[c] = {}
    BY <1>2 DEF BeginCheck, Typed, ChecksType, Progress
  <2> QED
    BY <1>2, <2>1, <2>2 DEF BeginCheck, Typed, ChecksType
<1>3. ASSUME NEW c \in Check, Fire(c) PROVE ChecksType'
  <2>1. PICK i \in todo[c] : /\ todo' = [todo EXCEPT ![c] = @ \ {i}]
                             /\ told' = [told EXCEPT ![c] = @ \cup {i}]
    BY <1>3 DEF Fire
  <2> QED
    BY <1>3, <2>1 DEF Fire, Typed, ChecksType
<1>4. ASSUME NEW c \in Check, EndCheck(c) \/ FailCheck(c) PROVE ChecksType'
  BY <1>4 DEF EndCheck, FailCheck, Typed, ChecksType
<1>5. CASE Crash
  BY <1>5 DEF Crash, Typed, ChecksType
<1> QED
  BY <1>1, <1>2, <1>3, <1>4, <1>5
  DEF Next, vars, AddIntention, CompleteIntention, Put, Forget, ForgetScope,
      BeginExport, ReadTable, Import

LEMMA BundlesStep == Typed /\ [Next]_vars => BundlesType'
<1> SUFFICES ASSUME Typed, [Next]_vars PROVE BundlesType'
  OBVIOUS
<1>0. made \subseteq made'
  BY DEF Next, vars, AddIntention, CompleteIntention, BeginCheck, Fire, EndCheck, FailCheck,
         Put, Forget, ForgetScope, BeginExport, ReadTable, Import, Crash
<1>a. ASSUME NEW b, Known(b), \A i \in Intention : b.intent[i] # "none" => i \in made' PROVE Known(b)'
  BY <1>a DEF Known
<1>1. CASE UNCHANGED bundleVars
  BY <1>0, <1>1 DEF Typed, BundlesType, bundleVars, Known
<1>2. CASE BeginExport
  <2>1. draft' = [bundle |-> NoBundle, next |-> 1] /\ exports' = exports + 1 /\ UNCHANGED <<bundle, made>>
        /\ exports < MaxExports
    BY <1>2 DEF BeginExport, Facts
  <2>2. exports' \in 0..MaxExports
    BY <2>1, Constants DEF Typed, BundlesType
  <2> QED
    BY <2>1, <2>2, NoBundleType DEF Typed, BundlesType, Known, Table
<1>3. CASE ReadTable
  <2> DEFINE b == Read(draft.bundle, draft.next)
  <2>1. /\ draft.bundle \in Bundle /\ Known(draft.bundle) /\ draft.next \in Table
        /\ UNCHANGED <<exports, made>>
    BY <1>3 DEF ReadTable, Typed, BundlesType
  <2>2. b \in Bundle /\ Known(b)
    BY <2>1, TypedIsTypeOK, ReadType
  <2>3. \/ bundle' = b /\ draft' = [bundle |-> NoBundle, next |-> 0]
        \/ draft' = [bundle |-> b, next |-> draft.next + 1] /\ draft.next # 6 /\ UNCHANGED bundle
    BY <1>3 DEF ReadTable, Playbooks
  <2> HIDE DEF b
  <2> QED
    BY <2>1, <2>2, <2>3, NoBundleType DEF Typed, BundlesType, Known, Table
<1>4. CASE Crash
  <2>1. draft' = [bundle |-> NoBundle, next |-> 0] /\ UNCHANGED <<bundle, made, exports>>
    BY <1>4 DEF Crash
  <2> QED
    BY <2>1, NoBundleType DEF Typed, BundlesType, Known, Table
<1> QED
  BY <1>1, <1>2, <1>3, <1>4
  DEF Next, vars, AddIntention, CompleteIntention, BeginCheck, Fire, EndCheck, FailCheck,
      Put, Forget, ForgetScope, Import

LEMMA FaultsStep == faults \in 0..MaxFaults /\ [Next]_vars => faults' \in 0..MaxFaults
  BY Constants
  DEF Next, vars, AddIntention, CompleteIntention, BeginCheck, Fire, EndCheck, FailCheck,
      Put, Forget, ForgetScope, BeginExport, ReadTable, Import, Crash
-----------------------------------------------------------------------------
(* What a check selected waited, so its id was given out; ids are not       *)
(* given out again.                                                         *)
LEMMA ProgressStep == Typed /\ Progress /\ [Next]_vars => Progress'
<1> SUFFICES ASSUME Typed, Progress, [Next]_vars PROVE Progress'
  OBVIOUS
<1>0. made \subseteq made'
  BY DEF Next, vars, AddIntention, CompleteIntention, BeginCheck, Fire, EndCheck, FailCheck,
         Put, Forget, ForgetScope, BeginExport, ReadTable, Import, Crash
<1>1. CASE UNCHANGED checkVars
  BY <1>0, <1>1 DEF Progress, checkVars
<1>2. ASSUME NEW c \in Check, BeginCheck(c) PROVE Progress'
  <2>1. PICK hits \in SUBSET Waiting :
           todo' = [todo EXCEPT ![c] = hits] /\ cued' = [cued EXCEPT ![c] = hits]
    BY <1>2 DEF BeginCheck
  <2>2. hits \subseteq made
    BY DEF Waiting, Typed, RowsType
  <2>3. pc' = [pc EXCEPT ![c] = "open"] /\ UNCHANGED <<failed, made>>
    BY <1>2 DEF BeginCheck
  <2> QED
    BY <2>1, <2>2, <2>3 DEF Typed, ChecksType, Progress
<1>3. ASSUME NEW c \in Check, Fire(c) PROVE Progress'
  <2>1. PICK i \in todo[c] : todo' = [todo EXCEPT ![c] = @ \ {i}]
    BY <1>3 DEF Fire
  <2> QED
    BY <1>3, <2>1 DEF Fire, Typed, ChecksType, Progress
<1>4. ASSUME NEW c \in Check, EndCheck(c) \/ FailCheck(c) PROVE Progress'
  BY <1>4 DEF EndCheck, FailCheck, Typed, ChecksType, Progress
<1>5. CASE Crash
  BY <1>5 DEF Crash, Typed, ChecksType, Progress
<1> QED
  BY <1>1, <1>2, <1>3, <1>4, <1>5
  DEF Next, vars, AddIntention, CompleteIntention, Put, Forget, ForgetScope,
      BeginExport, ReadTable, Import

LEMMA TypedStep == Typed /\ Progress /\ [Next]_vars => Typed' /\ Progress'
  BY RowsStep, ChecksStep, BundlesStep, FaultsStep, ProgressStep DEF Typed

LEMMA InitTyped == Init => Typed /\ Progress
<1> SUFFICES ASSUME Init PROVE Typed /\ Progress
  OBVIOUS
<1>1. RowsType /\ ChecksType
  BY DEF Init, RowsType, ChecksType, NoIntention, NotDone, States
<1>2. BundlesType
  BY NoBundleType, Constants DEF Init, BundlesType, Table
<1> QED
  BY <1>1, <1>2, Constants DEF Init, Typed, Progress

(* The rows, the checks and the bundles are well typed: an edge never       *)
(* outlives its nodes, whatever is erased and imported, and what is read    *)
(* back from a bundle had been given out.                                   *)
THEOREM TypeCorrect == Spec => []TypeOK
  BY InitTyped, TypedStep, TypedIsTypeOK, PTL DEF Spec
-----------------------------------------------------------------------------
LEMMA SilentStep == Typed /\ Progress /\ Silent /\ [Next]_vars => Silent'
<1> SUFFICES ASSUME Typed, Progress, Silent, [Next]_vars PROVE Silent'
  OBVIOUS
<1>a. ASSUME \A c \in Check : told'[c] \subseteq told[c], restored \subseteq restored',
             \A i \in Intention : intent'[i] = "waiting" =>
                intent[i] = "waiting" \/ i \in restored' \/ (i \notin made /\ i \in made')
      PROVE  Silent'
  <2> SUFFICES ASSUME NEW c \in Check, NEW i \in told'[c], intent'[i] = "waiting"
               PROVE  i \in restored'
    BY DEF Silent
  <2>1. i \in told[c] /\ i \in Intention /\ i \in made
    BY <1>a DEF Typed, ChecksType, Progress
  <2> QED
    BY <1>a, <2>1 DEF Silent
<1>1. CASE UNCHANGED <<intent, told, restored>>
  BY <1>1 DEF Silent
<1>2. ASSUME NEW i \in Intention, AddIntention(i) PROVE Silent'
  BY <1>2, <1>a DEF AddIntention, checkVars, Typed, RowsType
<1>3. ASSUME NEW c \in Check, Fire(c) PROVE Silent'
  <2>1. PICK i \in Intention :
           /\ intent' = IF intent[i] = "none" THEN intent ELSE [intent EXCEPT ![i] = "fired"]
           /\ told' = [told EXCEPT ![c] = @ \cup {i}]
    BY <1>3 DEF Fire, Typed, ChecksType
  <2>2. intent'[i] # "waiting" /\ \A j \in Intention : intent'[j] = "waiting" => intent[j] = "waiting"
    BY <2>1 DEF Typed, RowsType
  <2> QED
    BY <1>3, <2>1, <2>2 DEF Fire, Typed, ChecksType, Silent
<1>4. ASSUME NEW c \in Check, FailCheck(c) PROVE Silent'
  BY <1>4, <1>a DEF FailCheck, Typed, RowsType, ChecksType
<1>5. CASE Forget \/ ForgetScope
  <2>1. UNCHANGED <<told, restored>>
    BY <1>5 DEF Forget, ForgetScope, checkVars
  <2>2. \A i \in Intention : intent'[i] = "waiting" => intent[i] = "waiting"
    BY <1>5 DEF Forget, ForgetScope, NoIntention
  <2> QED
    BY <1>a, <2>1, <2>2
<1>6. CASE Import
  <2>1. UNCHANGED told /\ restored \subseteq restored'
    BY <1>6 DEF Import, checkVars
  <2>2. \A i \in Intention : intent'[i] = "waiting" => intent[i] = "waiting" \/ i \in restored'
    BY <1>6 DEF Import, Merged
  <2> QED
    BY <1>a, <2>1, <2>2
<1>7. CASE Crash
  BY <1>7, <1>a DEF Crash, Typed, ChecksType
<1> QED
  BY <1>1, <1>2, <1>3, <1>4, <1>5, <1>6, <1>7
  DEF Next, vars, checkVars, CompleteIntention, BeginCheck, EndCheck, Put, BeginExport, ReadTable

LEMMA LaterStep == Typed /\ Progress /\ Silent /\ Later /\ [Next]_vars => Later'
<1> SUFFICES ASSUME Typed, Progress, Silent, Later, [Next]_vars PROVE Later'
  OBVIOUS
<1>0. restored \subseteq restored'
  BY DEF Next, vars, AddIntention, CompleteIntention, BeginCheck, Fire, EndCheck, FailCheck,
         Put, Forget, ForgetScope, BeginExport, ReadTable, Import, Crash
<1>a. ASSUME \A c \in Check : /\ before'[c] \subseteq before[c] /\ cued'[c] \subseteq cued[c]
                              /\ pc[c] = "over" => pc'[c] = "over" /\ told'[c] = told[c]
      PROVE  Later'
  <2> SUFFICES ASSUME NEW c \in Check, NEW d \in before'[c]
               PROVE  pc'[d] = "over" /\ cued'[c] \cap told'[d] \subseteq restored'
    BY DEF Later
  <2>1. d \in Check /\ pc[d] = "over" /\ cued[c] \cap told[d] \subseteq restored
    BY <1>a DEF Typed, ChecksType, Later
  <2> QED
    BY <1>0, <1>a, <2>1
<1>1. CASE UNCHANGED checkVars
  BY <1>1, <1>a DEF checkVars
<1>2. ASSUME NEW c \in Check, BeginCheck(c) PROVE Later'
  <2>1. PICK hits \in SUBSET Waiting : cued' = [cued EXCEPT ![c] = hits]
    BY <1>2 DEF BeginCheck
  <2>2. /\ pc[c] = "new" /\ pc' = [pc EXCEPT ![c] = "open"] /\ UNCHANGED <<told, restored>>
        /\ before' = [before EXCEPT ![c] = {d \in Check : pc[d] = "over"}]
    BY <1>2 DEF BeginCheck
  <2> SUFFICES ASSUME NEW x \in Check, NEW d \in before'[x]
               PROVE  pc'[d] = "over" /\ cued'[x] \cap told'[d] \subseteq restored'
    BY DEF Later
  <2>3. CASE x = c
    <3>1. d \in Check /\ pc[d] = "over" /\ cued'[c] = hits
      BY <2>1, <2>2, <2>3 DEF Typed, ChecksType
    <3>2. hits \cap told[d] \subseteq restored
      BY <3>1 DEF Waiting, Silent
    <3> QED
      BY <2>2, <2>3, <3>1, <3>2 DEF Typed, ChecksType
  <2>4. CASE x # c
    <3>1. d \in before[x] /\ d \in Check /\ cued'[x] = cued[x]
      BY <2>1, <2>2, <2>4 DEF Typed, ChecksType
    <3> QED
      BY <2>2, <3>1 DEF Typed, ChecksType, Later
  <2> QED
    BY <2>3, <2>4
<1>3. ASSUME NEW c \in Check, Fire(c) \/ EndCheck(c) \/ FailCheck(c) PROVE Later'
  <2>1. \A x \in Check \ {c} : told'[x] = told[x] /\ pc'[x] = pc[x]
    BY <1>3 DEF Fire, EndCheck, FailCheck, Typed, ChecksType
  <2>2. pc[c] # "over" /\ UNCHANGED <<before, cued>>
    BY <1>3 DEF Fire, EndCheck, FailCheck
  <2> QED
    BY <1>a, <2>1, <2>2
<1>4. CASE Crash
  BY <1>4, <1>a DEF Crash, Typed, ChecksType
<1> QED
  BY <1>1, <1>2, <1>3, <1>4
  DEF Next, vars, AddIntention, CompleteIntention, Put, Forget, ForgetScope,
      BeginExport, ReadTable, Import

(* Of two checks that did not overlap only one tells of an intention,       *)
(* unless a bundle brought it back, and a check without errors tells of     *)
(* all whose cue it heard, whatever fires, erases or imports meanwhile.     *)
THEOREM IntentionsFireOnce == Spec => []FiresOnce
<1>1. Init => Silent /\ Later
  BY DEF Init, Silent, Later
<1>2. Typed /\ Progress /\ Silent /\ Later => FiresOnce
  BY TypedIsTypeOK, CheckInvFires DEF CheckInv
<1> QED
  BY <1>1, <1>2, InitTyped, TypedStep, SilentStep, LaterStep, PTL DEF Spec
=============================================================================

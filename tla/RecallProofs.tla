---------------------------- MODULE RecallProofs ----------------------------
(***************************************************************************)
(* Proofs about Recall and the reads of the graph, for any graph, any rows *)
(* and any questions: type correctness, what an answer holds and leads     *)
(* with, and that the searches over the graph find what the reference      *)
(* definition Ball says, a path to each entity, no more and no less.       *)
(***************************************************************************)
EXTENDS RecallHistory, FiniteSetTheorems, TLAPS

(* Induction over the naturals for a set: the property to prove is made one *)
(* by comprehension.                                                        *)
Less == {p \in Nat \X Nat : p[1] < p[2]}

LEMMA LessWellFounded == IsWellFoundedOn(Less, Nat)
  BY NatLessThanWellFounded, Zenon DEF OpToRel, Less

LEMMA SetInduction ==
    ASSUME NEW S, 0 \in S, \A n \in Nat : n \in S => n + 1 \in S
    PROVE  Nat \subseteq S
<1> DEFINE T == Nat \ S
<1>1. SUFFICES ASSUME T # {} PROVE FALSE
  OBVIOUS
<1>2. PICK x \in T : \A y \in T : <<y, x>> \notin Less
  BY <1>1, LessWellFounded, WFMin
<1>3. x # 0 /\ x - 1 \in T /\ x - 1 < x
  OBVIOUS
<1>4. <<x - 1, x>> \in Less
  BY <1>3 DEF Less
<1> QED
  BY <1>2, <1>3, <1>4
-----------------------------------------------------------------------------
(* The entities within n edges, by the last edge of the path.               *)
Joined(E, d, e) == \E c \in E : Ends(c) = {d, e}

LEMMA JoinedSymmetric ==
    ASSUME NEW E, NEW d, NEW e, Joined(E, d, e)
    PROVE  Joined(E, e, d)
  BY DEF Joined

LEMMA BallZero ==
    ASSUME NEW E, NEW S \in SUBSET Entity
    PROVE  Ball(E, S, 0) = S
<1>1. ASSUME NEW e \in S PROVE e \in Ball(E, S, 0)
  <2> DEFINE p == [i \in 0..0 |-> e]
  <2>1. p \in [0..0 -> Entity] /\ p[0] = e /\ 0 \in 0..0 /\ 1..0 = {}
    OBVIOUS
  <2> QED
    BY <2>1 DEF Ball
<1>2. ASSUME NEW e \in Ball(E, S, 0) PROVE e \in S
  BY <1>2 DEF Ball
<1> QED
  BY <1>1, <1>2

LEMMA BallEntities ==
    ASSUME NEW E, NEW S, NEW n
    PROVE  Ball(E, S, n) \subseteq Entity
  BY DEF Ball

LEMMA BallGrows ==
    ASSUME NEW E, NEW S, NEW n \in Nat, NEW m \in 0..n
    PROVE  Ball(E, S, m) \subseteq Ball(E, S, n)
<1>1. 0..m \subseteq 0..n
  OBVIOUS
<1> QED
  BY <1>1 DEF Ball

LEMMA BallExtends ==
    ASSUME NEW E, NEW S, NEW n \in Nat, NEW d \in Ball(E, S, n), NEW e \in Entity, Joined(E, d, e)
    PROVE  e \in Ball(E, S, n + 1)
<1>0. PICK m \in 0..n : \E p \in [0..m -> Entity] :
          p[0] \in S /\ p[m] = d /\ \A i \in 1..m : \E c \in E : Ends(c) = {p[i-1], p[i]}
  BY DEF Ball
<1>1. PICK p \in [0..m -> Entity] :
          p[0] \in S /\ p[m] = d /\ \A i \in 1..m : Joined(E, p[i-1], p[i])
  BY <1>0 DEF Joined
<1> DEFINE r == [i \in 0..(m + 1) |-> IF i = m + 1 THEN e ELSE p[i]]
<1>2. m \in Nat /\ m + 1 \in 0..(n + 1) /\ m + 1 # 0
  OBVIOUS
<1>3. r \in [0..(m + 1) -> Entity] /\ r[0] = p[0] /\ r[m + 1] = e
  BY <1>2
<1>4. ASSUME NEW i \in 1..(m + 1) PROVE Joined(E, r[i-1], r[i])
  <2>1. CASE i = m + 1
    <3>1. r[i - 1] = p[m] /\ r[i] = e
      BY <1>2, <2>1
    <3> QED
      BY <1>1, <3>1
  <2>2. CASE i # m + 1
    <3>1. i \in 1..m /\ r[i - 1] = p[i - 1] /\ r[i] = p[i]
      BY <1>2, <2>2
    <3> QED
      BY <1>1, <3>1
  <2> QED
    BY <2>1, <2>2
<1> HIDE DEF r
<1> QED
  BY <1>1, <1>2, <1>3, <1>4 DEF Ball, Joined

LEMMA BallLast ==
    ASSUME NEW E, NEW S, NEW n \in Nat, NEW e \in Ball(E, S, n + 1)
    PROVE  e \in Ball(E, S, n) \/ \E d \in Ball(E, S, n) : Joined(E, d, e)
<1>0. PICK m \in 0..(n + 1) : \E p \in [0..m -> Entity] :
          p[0] \in S /\ p[m] = e /\ \A i \in 1..m : \E c \in E : Ends(c) = {p[i-1], p[i]}
  BY DEF Ball
<1>1. PICK p \in [0..m -> Entity] :
          p[0] \in S /\ p[m] = e /\ \A i \in 1..m : Joined(E, p[i-1], p[i])
  BY <1>0 DEF Joined
<1>2. CASE m \in 0..n
  BY <1>1, <1>2 DEF Ball, Joined
<1>3. CASE m = n + 1
  <2> DEFINE r == [i \in 0..n |-> p[i]]
  <2>1. r \in [0..n -> Entity] /\ r[0] = p[0] /\ r[n] = p[n] /\ n \in 0..n
    BY <1>3
  <2>2. ASSUME NEW i \in 1..n PROVE Joined(E, r[i-1], r[i])
    <3>1. i \in 1..m /\ r[i - 1] = p[i - 1] /\ r[i] = p[i]
      BY <1>3
    <3> QED
      BY <1>1, <3>1
  <2> HIDE DEF r
  <2>3. p[n] \in Ball(E, S, n)
    BY <1>1, <2>1, <2>2 DEF Ball, Joined
  <2>4. Joined(E, p[n], e)
    <3>1. n + 1 \in 1..m /\ (n + 1) - 1 = n /\ p[n + 1] = e
      BY <1>1, <1>3
    <3> QED
      BY <1>1, <3>1
  <2> QED
    BY <2>3, <2>4
<1> QED
  BY <1>2, <1>3

(* Once a ball holds all that its members are joined to, it is the largest. *)
LEMMA BallStable ==
    ASSUME NEW E, NEW S, NEW k \in Nat, Ball(E, S, k + 1) \subseteq Ball(E, S, k),
           NEW n \in Nat, n >= k
    PROVE  Ball(E, S, n) = Ball(E, S, k)
<1> DEFINE T == {i \in Nat : Ball(E, S, k + i) \subseteq Ball(E, S, k)}
<1>1. 0 \in T
  OBVIOUS
<1>2. ASSUME NEW i \in Nat, i \in T PROVE i + 1 \in T
  <2>1. ASSUME NEW e \in Ball(E, S, (k + i) + 1) PROVE e \in Ball(E, S, k)
    <3>1. CASE e \in Ball(E, S, k + i)
      BY <1>2, <3>1
    <3>2. CASE \E d \in Ball(E, S, k + i) : Joined(E, d, e)
      <4>1. e \in Entity
        BY BallEntities
      <4>2. PICK d \in Ball(E, S, k) : Joined(E, d, e)
        BY <1>2, <3>2
      <4> QED
        BY <4>1, <4>2, BallExtends
    <3> QED
      BY <3>1, <3>2, BallLast
  <2>2. (k + i) + 1 = k + (i + 1)
    OBVIOUS
  <2> QED
    BY <2>1, <2>2
<1>3. n - k \in T
  <2> HIDE DEF T
  <2> QED
    BY <1>1, <1>2, SetInduction
<1>4. k + (n - k) = n /\ k \in 0..n
  OBVIOUS
<1> QED
  BY <1>3, <1>4, BallGrows

(* With as many steps as there are entities a ball is the largest: until it *)
(* is, each step adds one.                                                  *)
Everything == Cardinality(Entity)

LEMMA BallFinite ==
    ASSUME NEW E, NEW S, NEW n
    PROVE  /\ IsFiniteSet(Ball(E, S, n)) /\ Cardinality(Ball(E, S, n)) \in Nat
           /\ Cardinality(Ball(E, S, n)) <= Everything /\ Everything \in Nat
  BY BallEntities, GraphReadsAssumption, FS_Subset, FS_CardinalityType DEF Everything

LEMMA BallExhausts ==
    ASSUME NEW E, NEW e \in Entity
    PROVE  Ball(E, {e}, Everything + 1) \subseteq Ball(E, {e}, Everything)
<1> DEFINE B(n) == Ball(E, {e}, n)
           T == {n \in Nat : Cardinality(B(n)) >= n + 1 \/ B(n + 1) \subseteq B(n)}
<1>1. 0 \in T
  <2>1. B(0) = {e}
    BY BallZero
  <2> QED
    BY <2>1, FS_Singleton
<1>2. ASSUME NEW n \in Nat, n \in T PROVE n + 1 \in T
  <2>1. CASE B(n + 1) \subseteq B(n)
    <3>1. B((n + 1) + 1) = B(n) /\ B(n + 1) = B(n)
      BY <2>1, BallStable
    <3> QED
      BY <3>1
  <2>2. CASE ~(B(n + 1) \subseteq B(n))
    <3>1. B(n) \subseteq B(n + 1) /\ B(n) # B(n + 1)
      BY <2>2, BallGrows
    <3>2. Cardinality(B(n)) < Cardinality(B(n + 1))
      <4>1. /\ IsFiniteSet(B(n + 1)) /\ Cardinality(B(n)) \in Nat /\ Cardinality(B(n + 1)) \in Nat
        BY BallFinite
      <4>2. /\ Cardinality(B(n)) <= Cardinality(B(n + 1))
            /\ Cardinality(B(n + 1)) = Cardinality(B(n)) => B(n + 1) = B(n)
        BY <3>1, <4>1, FS_Subset
      <4> HIDE DEF B
      <4> QED
        BY <3>1, <4>1, <4>2
    <3>3. Cardinality(B(n)) >= n + 1 /\ Cardinality(B(n)) \in Nat /\ Cardinality(B(n + 1)) \in Nat
      BY <1>2, <2>2, BallFinite
    <3> HIDE DEF B
    <3> QED
      BY <3>2, <3>3
  <2> QED
    BY <2>1, <2>2
<1>3. Everything \in T
  <2> HIDE DEF T
  <2> QED
    BY <1>1, <1>2, SetInduction, BallFinite
<1>4. Cardinality(B(Everything)) <= Everything /\ Cardinality(B(Everything)) \in Nat /\ Everything \in Nat
  BY BallFinite
<1>5. Cardinality(B(Everything)) >= Everything + 1 \/ B(Everything + 1) \subseteq B(Everything)
  BY <1>3
<1> HIDE DEF B
<1>6. B(Everything + 1) \subseteq B(Everything)
  BY <1>4, <1>5
<1> QED
  BY <1>6 DEF B

Closed(E, X) == \A d \in X, m \in Entity : Joined(E, d, m) => m \in X

LEMMA BallInClosed ==
    ASSUME NEW E, NEW S \in SUBSET Entity, NEW X, S \subseteq X, Closed(E, X), NEW n \in Nat
    PROVE  Ball(E, S, n) \subseteq X
<1> DEFINE T == {i \in Nat : Ball(E, S, i) \subseteq X}
<1>1. 0 \in T
  BY BallZero
<1>2. ASSUME NEW i \in Nat, i \in T PROVE i + 1 \in T
  <2>1. ASSUME NEW e \in Ball(E, S, i + 1) PROVE e \in X
    BY <1>2, BallLast, BallEntities DEF Closed
  <2> QED
    BY <2>1
<1> HIDE DEF T
<1>3. n \in T
  BY <1>1, <1>2, SetInduction
<1> QED
  BY <1>3 DEF T

(* The connected component of an entity.                                    *)
Component(E, e) == Ball(E, {e}, Everything)

LEMMA ComponentClosed ==
    ASSUME NEW E, NEW e \in Entity
    PROVE  e \in Component(E, e) /\ Component(E, e) \subseteq Entity /\ Closed(E, Component(E, e))
<1>1. Everything \in Nat
  BY BallFinite
<1>2. e \in Component(E, e)
  <2>1. e \in Ball(E, {e}, 0)
    BY BallZero
  <2> QED
    BY <1>1, <2>1, BallGrows DEF Component
<1>3. Closed(E, Component(E, e))
  BY <1>1, BallExtends, BallExhausts DEF Component, Closed
<1> QED
  BY <1>2, <1>3, BallEntities DEF Component

LEMMA ComponentOfMember ==
    ASSUME NEW E, NEW e \in Entity, NEW d \in Component(E, e)
    PROVE  Component(E, d) = Component(E, e)
<1>0. Everything \in Nat
  BY BallFinite
<1>1. ASSUME NEW x \in Entity, NEW y \in Component(E, x)
      PROVE  Component(E, y) \subseteq Component(E, x)
  <2>1. y \in Entity /\ Closed(E, Component(E, x))
    BY <1>1, ComponentClosed
  <2> QED
    BY <1>0, <1>1, <2>1, BallInClosed DEF Component
<1> DEFINE X == {x \in Entity : e \in Component(E, x)}
<1>2. e \in X
  BY ComponentClosed
<1>3. Closed(E, X)
  <2> SUFFICES ASSUME NEW x \in X, NEW m \in Entity, Joined(E, x, m)
               PROVE  m \in X
    BY DEF Closed
  <2>1. Joined(E, m, x) /\ m \in Component(E, m)
    BY JoinedSymmetric, ComponentClosed
  <2>2. x \in Component(E, m)
    BY <2>1, ComponentClosed DEF Closed
  <2> QED
    BY <1>1, <2>2
<1> HIDE DEF X
<1>4. d \in X
  BY <1>0, <1>2, <1>3, BallInClosed DEF Component
<1>5. d \in Entity /\ e \in Component(E, d)
  BY <1>4 DEF X
<1> QED
  BY <1>1, <1>5
-----------------------------------------------------------------------------
(* detect_communities: what the stack has visited is a ball.                *)
LEMMA NeighboursJoined ==
    ASSUME NEW E \in SUBSET Claim, NEW d, NEW e
    PROVE  e \in Neighbours(E, d) <=> e # d /\ Joined(E, d, e)
<1>1. e \in Neighbours(E, d) <=> e # d /\ \E c \in E : d \in Ends(c) /\ e \in Ends(c)
  BY DEF Neighbours, Touching
<1>2. ASSUME e # d, NEW c \in E, d \in Ends(c), e \in Ends(c) PROVE Ends(c) = {d, e}
  BY <1>2 DEF Ends
<1>3. ASSUME NEW c \in E, Ends(c) = {d, e} PROVE d \in Ends(c) /\ e \in Ends(c)
  BY <1>3
<1> QED
  BY <1>1, <1>2, <1>3 DEF Joined

LEMMA EndsAreEntities ==
    ASSUME NEW E \in SUBSET Claim, NEW c \in E
    PROVE  Ends(c) \subseteq Entity
  BY GraphReadsAssumption DEF Ends

LEMMA BallRound ==
    ASSUME NEW E \in SUBSET Claim, NEW S \in SUBSET Entity, NEW n \in Nat
    PROVE  Ball(E, S, n + 1)
             = Ball(E, S, n) \cup UNION {Neighbours(E, e) : e \in Ball(E, S, n)}
<1>1. ASSUME NEW e \in Ball(E, S, n + 1)
      PROVE  e \in Ball(E, S, n) \/ \E d \in Ball(E, S, n) : e \in Neighbours(E, d)
  BY <1>1, BallLast, NeighboursJoined
<1>2. ASSUME NEW d \in Ball(E, S, n), NEW e \in Neighbours(E, d)
      PROVE  e \in Ball(E, S, n + 1)
  <2>1. Joined(E, d, e) /\ e \in Entity
    BY <1>2, NeighboursJoined, EndsAreEntities DEF Neighbours, Touching
  <2> QED
    BY <2>1, BallExtends
<1>3. Ball(E, S, n) \subseteq Ball(E, S, n + 1)
  BY BallGrows
<1> QED
  BY <1>1, <1>2, <1>3

LEMMA VisitedIsBall ==
    ASSUME NEW E \in SUBSET Claim, NEW S \in SUBSET Entity, NEW n \in Nat
    PROVE  Visited(E, S, n) = Ball(E, S, n)
<1> DEFINE Round(X) == X \cup UNION {Neighbours(E, e) : e \in X}
           IsVisit(v) == v = [i \in 0..n |-> IF i = 0 THEN S ELSE Round(v[i-1])]
           w == [i \in 0..n |-> Ball(E, S, i)]
           u == CHOOSE v : IsVisit(v)
<1>1. IsVisit(w)
  <2>1. ASSUME NEW i \in 0..n PROVE w[i] = IF i = 0 THEN S ELSE Round(w[i-1])
    <3>1. CASE i = 0
      BY <3>1, BallZero
    <3>2. CASE i # 0
      <4>1. i - 1 \in 0..n /\ (i - 1) + 1 = i /\ i - 1 \in Nat
        BY <3>2
      <4>2. Ball(E, S, i) = Round(Ball(E, S, i - 1))
        BY <4>1, BallRound
      <4> QED
        BY <3>2, <4>1, <4>2
    <3> QED
      BY <3>1, <3>2
  <2> QED
    BY <2>1
<1>2. IsVisit(u)
  <2> HIDE DEF IsVisit
  <2> QED
    BY <1>1
<1>3. Visited(E, S, n) = u[n]
  BY DEF Visited
<1> HIDE DEF u
<1> DEFINE T == {i \in Nat : i \in 0..n => u[i] = Ball(E, S, i)}
<1>4. 0 \in T
  BY <1>2, BallZero
<1>5. ASSUME NEW i \in Nat, i \in T PROVE i + 1 \in T
  <2>1. SUFFICES ASSUME i + 1 \in 0..n PROVE u[i + 1] = Ball(E, S, i + 1)
    OBVIOUS
  <2>2. i \in 0..n /\ i + 1 # 0 /\ (i + 1) - 1 = i
    BY <2>1
  <2>3. u[i + 1] = Round(u[i])
    BY <1>2, <2>1, <2>2
  <2>4. u[i] = Ball(E, S, i)
    BY <1>5, <2>2
  <2> QED
    BY <2>3, <2>4, BallRound
<1> HIDE DEF T
<1>6. n \in T
  BY <1>4, <1>5, SetInduction
<1> QED
  BY <1>3, <1>6 DEF T

LEMMA CommunitiesAreComponents ==
    ASSUME NEW E \in SUBSET Claim, NEW e \in UNION {Ends(c) : c \in E}
    PROVE  {g \in Communities(E) : e \in g} = {Component(E, e)}
<1>0. Everything \in Nat
  BY BallFinite
<1>1. UNION {Ends(c) : c \in E} \subseteq Entity
  BY EndsAreEntities
<1>2. Communities(E) = {Component(E, d) : d \in UNION {Ends(c) : c \in E}}
  <2>1. \A d \in Entity : Visited(E, {d}, Everything) = Component(E, d)
    BY <1>0, VisitedIsBall DEF Component
  <2> QED
    BY <1>1, <2>1 DEF Communities, Everything
<1>3. e \in Entity /\ e \in Component(E, e)
  BY <1>1, ComponentClosed
<1>4. ASSUME NEW d \in Entity, e \in Component(E, d) PROVE Component(E, d) = Component(E, e)
  BY <1>4, ComponentOfMember
<1> QED
  BY <1>1, <1>2, <1>3, <1>4
-----------------------------------------------------------------------------
(* The types, with the places of the reader they depend on: the answer is   *)
(* empty while nothing was asked, its first fact is chosen last, what the   *)
(* walk returned is merged first, and the hops are counted.                 *)
GraphPlaces == {"idle", "activate", "activated", "export", "exported", "grouped", "empty"}
WalkPlaces == {"walk", "out", "in", "facts", "rows", "names", "merge"}
RecallPlaces == {"recognize", "snapshot", "anchor", "lattice", "search", "resolve", "bridge",
                 "salient", "walkResolve", "walkBridge", "rank", "judge", "answered"}
                \cup WalkPlaces

Typed ==
    /\ TypeOK
    /\ pc \in GraphPlaces \cup RecallPlaces
    /\ shown \in [nodes : SUBSET Entity, links : SUBSET Claim, groups : SUBSET SUBSET Entity]
    /\ pc \in GraphPlaces => Fresh
    /\ pc = "idle" => hop = 0 /\ next = {} /\ reached = [c \in Claim |-> Cold]
    /\ pc = "activate" => \A e \in todo \cup next : energy[e] < Cold
    /\ lead # NoFact => pc \in {"judge", "answered"}
    /\ extra # {} => pc \in {"rank", "judge", "answered"}
    /\ pc \in WalkPlaces => hop \in 1..MaxHops

LEMMA Numbers ==
    /\ ActHops \in Nat \ {0} /\ Cold \in Nat /\ Cold = ActHops + 1
    /\ MaxChanges \in Nat /\ MaxFaults \in Nat /\ MaxHops \in Nat \ {0}
  BY GraphReadsAssumption, RecallAssumption DEF Cold

LEMMA NeighbourEntities ==
    ASSUME NEW E \in SUBSET Claim, NEW e
    PROVE  Neighbours(E, e) \subseteq Entity
  BY EndsAreEntities DEF Neighbours, Touching

LEMMA CommunitiesTyped ==
    ASSUME NEW E \in SUBSET Claim
    PROVE  Communities(E) \in SUBSET SUBSET Entity
<1>1. UNION {Ends(c) : c \in E} \subseteq Entity
  BY EndsAreEntities
<1>2. \A d \in Entity : Visited(E, {d}, Everything) \subseteq Entity
  BY VisitedIsBall, BallFinite, BallEntities
<1> QED
  BY <1>1, <1>2 DEF Communities, Everything

LEMMA NothingTyped ==
    /\ Nothing \in [nodes : SUBSET Entity, links : SUBSET Claim, groups : SUBSET SUBSET Entity]
    /\ Nothing.nodes = {} /\ Nothing.links = {} /\ Nothing.groups = {}
  BY DEF Nothing

LEMMA Questions ==
    ASSUME NEW x \in Question
    PROVE  /\ x.names \subseteq Entity /\ x.anchor \in Entity
           /\ x.kind \in {"plain", "before", "after", "at"} /\ x.time \in Nat
           /\ x.words \in Seq(Word) /\ x.top \in Nat \ {0} /\ x.limit \in Nat \ {0}
  BY RecallAssumption DEF QuestionOK

LEMMA SomeQuestion == NoQuestion \in Question
  BY RecallAssumption DEF NoQuestion

LEMMA Fetched ==
    ASSUME NEW S \in SUBSET Fact, NEW n, NEW h \in Fetch(S, n)
    PROVE  h \subseteq S
  BY DEF Fetch

(* Steps of a recall stay among the places of a recall or end at rest, and  *)
(* leave the graph, the rows and the counters alone.                        *)
LEMMA RecallStays ==
    ASSUME Typed, RecallStep
    PROVE  /\ pc \in RecallPlaces /\ pc' \in RecallPlaces \cup {"idle"}
           /\ UNCHANGED <<graphVars, factVars, changes, faults>>
           /\ pc' = "idle" => Return
           /\ ~Return => UNCHANGED <<q, showVars>>
<1> USE DEF RecallPlaces, WalkPlaces, Reading, Walking, graphVars, factVars, showVars
<1>1. CASE Recognize
  BY <1>1 DEF Recognize, Branch
<1>2. CASE Snapshot
  BY <1>2 DEF Snapshot
<1>3. CASE Anchor
  BY <1>3 DEF Anchor
<1>4. CASE Lattice
  BY <1>4 DEF Lattice
<1>5. CASE Search
  BY <1>5 DEF Search
<1>6. CASE Resolve
  BY <1>6 DEF Resolve
<1>7. CASE EndResolve
  BY <1>7 DEF EndResolve, AfterNames
<1>8. CASE FindSalient
  BY <1>8 DEF FindSalient
<1>9. CASE BeginWalk
  BY <1>9 DEF BeginWalk, StartWalk
<1>10. CASE ReadOut
  BY <1>10 DEF ReadOut
<1>11. CASE ReadIn
  BY <1>11 DEF ReadIn
<1>12. CASE ReadIds
  BY <1>12 DEF ReadIds
<1>13. CASE ReadRows
  BY <1>13 DEF ReadRows
<1>14. CASE ReadNamed
  BY <1>14 DEF ReadNamed
<1>15. CASE EndHop
  BY <1>15 DEF EndHop
<1>16. CASE Merge
  BY <1>16 DEF Merge
<1>17. CASE Rank
  BY <1>17 DEF Rank
<1>18. CASE Judge
  BY <1>18 DEF Judge, askVars
<1>19. CASE Return
  BY <1>19 DEF Return, Rest
<1>20. ASSUME NEW e \in Entity, Bridge(e) 
      PROVE  /\ pc \in RecallPlaces /\ pc' \in RecallPlaces
             /\ UNCHANGED <<graphVars, factVars, changes, faults>>
             /\ UNCHANGED <<q, showVars>>
  BY <1>20 DEF Bridge
<1>21. ASSUME NEW e \in Entity, ReadNode(e) 
      PROVE  /\ pc \in RecallPlaces /\ pc' \in RecallPlaces
             /\ UNCHANGED <<graphVars, factVars, changes, faults>>
             /\ UNCHANGED <<q, showVars>>
  BY <1>21 DEF ReadNode
<1> QED
  BY <1>1, <1>2, <1>3, <1>4, <1>5, <1>6, <1>7, <1>8, <1>9, <1>10, <1>11, <1>12, <1>13, <1>14, <1>15, <1>16, <1>17, <1>18, <1>19, <1>20, <1>21 DEF RecallStep

LEMMA FaultStays ==
    ASSUME Typed, Fault
    PROVE  /\ pc \in RecallPlaces /\ pc' \in RecallPlaces
           /\ UNCHANGED <<graphVars, showVars, changes, factVars, askVars, hitVars, extra, dated>>
  BY DEF Fault, Branch, AfterNames, StartWalk, RecallPlaces, WalkPlaces

(* What the types of a step on the graph, and of one of a recall, rest on.  *)
LEMMA GraphWritten ==
    ASSUME GraphOK, WriteGraph
    PROVE  GraphOK'
<1>0. Claim \subseteq Entity \X Entity
  BY GraphReadsAssumption
<1>1. ASSUME NEW e \in Entity \ nodes, AddNode(e) PROVE GraphOK'
  BY <1>1 DEF AddNode, GraphOK
<1>2. ASSUME NEW c \in Claim \ live, AddEdge(c) PROVE GraphOK'
  BY <1>2 DEF AddEdge, GraphOK
<1>3. ASSUME NEW c \in Claim, CloseEdge(c) PROVE GraphOK'
  BY <1>3 DEF CloseEdge, GraphOK
<1>4. CASE DropGraph
  BY <1>4 DEF DropGraph, GraphOK
<1> QED
  BY <1>1, <1>2, <1>3, <1>4 DEF WriteGraph

LEMMA ActivateTyped ==
    ASSUME Typed, NEW e \in Entity, Activate(e)
    PROVE  /\ energy' \in [Entity -> 0..Cold] /\ reached' \in [Claim -> 1..Cold]
           /\ todo' \subseteq Entity /\ next' \subseteq Entity
           /\ \A m \in todo' \cup next' : energy'[m] < Cold
<1> DEFINE spread == energy[e] + 1
           fresh  == {c \in Touching(live, e) : reached[c] = Cold}
           warmed == {m \in Neighbours(live, e) : energy[m] > spread}
<1>1. /\ energy \in [Entity -> 0..Cold] /\ reached \in [Claim -> 1..Cold]
      /\ todo \subseteq Entity /\ next \subseteq Entity /\ e \in todo
      /\ \A m \in todo \cup next : energy[m] < Cold
  BY DEF Typed, TypeOK, GraphTypeOK, Activate
<1>2. spread \in 1..Cold
  BY <1>1, Numbers
<1>3. /\ reached' = [c \in Claim |-> IF c \in fresh THEN spread ELSE reached[c]]
      /\ energy' = [m \in Entity |-> IF m \in warmed THEN spread ELSE energy[m]]
      /\ next' = next \cup warmed
      /\ todo' = todo \ {e}
  BY DEF Activate
<1>4. warmed \subseteq Entity /\ \A m \in warmed : spread < energy[m] /\ spread < Cold
  <2>1. warmed \subseteq Entity
    BY NeighbourEntities DEF Typed, TypeOK, GraphTypeOK, GraphOK
  <2> QED
    BY <1>1, <1>2, <2>1, Numbers
<1> HIDE DEF spread, fresh, warmed
<1> QED
  BY <1>1, <1>2, <1>3, <1>4

LEMMA GraphKept ==
    ASSUME Typed, Elsewhere,
           \/ GraphStep \/ GraphFault \/ WriteGraph \/ ExportNodes \/ DetectCommunities
           \/ \E S \in (SUBSET Entity) \ {{}} : BeginActivation(S)
    PROVE  Typed'
<1> DEFINE Rows == /\ st' = st /\ linked' = linked /\ q' = q /\ topk' = topk
                   /\ hits' = hits /\ lead' = lead /\ names' = names /\ cur' = cur
                   /\ ids' = ids /\ depth' = depth /\ extra' = extra /\ dated' = dated
                   /\ verdict' = verdict
<1>0. Rows
  BY DEF Elsewhere, factVars, askVars, hitVars, nameVars
<1> USE Numbers DEF Typed, TypeOK, GraphTypeOK, Fresh, GraphPlaces, RecallPlaces, WalkPlaces
<1>1. ASSUME NEW e \in Entity, Activate(e) PROVE Typed'
  <2>1. pc = "activate" /\ UNCHANGED <<nodes, live, past, pc, hop, shown, changes, faults>>
    BY <1>1 DEF Activate, graphVars
  <2> QED
    BY <1>0, <1>1, <2>1, ActivateTyped DEF GraphOK
<1>2. CASE EndActivationHop
  BY <1>0, <1>2 DEF EndActivationHop, graphVars, showVars, GraphOK
<1>3. CASE ExportLinks
  BY <1>0, <1>3 DEF ExportLinks, graphVars, walkVars, GraphOK
<1>4. CASE GraphReturn
  BY <1>0, <1>4, NothingTyped DEF GraphReturn, Rest, graphVars, GraphOK
<1>5. CASE GraphFault
  BY <1>0, <1>5, NothingTyped DEF GraphFault, graphVars, walkVars, GraphOK
<1>6. CASE WriteGraph
  BY <1>0, <1>6, GraphWritten DEF WriteGraph, Changes, walkVars, showVars
<1>7. CASE ExportNodes
  BY <1>0, <1>7, NothingTyped DEF ExportNodes, Nothing, graphVars, walkVars, GraphOK
<1>8. CASE DetectCommunities
  BY <1>0, <1>8, NothingTyped, CommunitiesTyped DEF DetectCommunities, Nothing, graphVars, walkVars, GraphOK
<1>9. ASSUME NEW S \in (SUBSET Entity) \ {{}}, BeginActivation(S) PROVE Typed'
  BY <1>0, <1>9 DEF BeginActivation, graphVars, GraphOK
<1> QED
  BY <1>1, <1>2, <1>3, <1>4, <1>5, <1>6, <1>7, <1>8, <1>9 DEF GraphStep

(* The types that a step of a recall can disturb: it leaves the graph, the  *)
(* rows and, unless it returns, what the reads of the graph show.           *)
RecallTyped ==
    /\ hop \in Nat /\ todo \subseteq Entity /\ next \subseteq Entity
    /\ topk \in {1, q.top}
    /\ hits \subseteq Fact /\ lead \in hits \cup {NoFact}
    /\ names \subseteq Entity /\ cur \subseteq Entity /\ ids \subseteq Fact
    /\ depth \in [Fact -> 0..MaxHops] /\ extra \subseteq hits
    /\ dated \in BOOLEAN
    /\ verdict \in {"none", "ok", "abstained", "failed"}
    /\ verdict # "none" <=> pc = "answered"
    /\ lead # NoFact => pc \in {"judge", "answered"}
    /\ extra # {} => pc \in {"rank", "judge", "answered"}
    /\ pc \in WalkPlaces => hop \in 1..MaxHops

LEMMA RecallIsTyped == Typed => RecallTyped
  BY DEF Typed, TypeOK, GraphTypeOK, RecallTyped

LEMMA RecallFrame ==
    ASSUME Typed, RecallTyped', pc' \in RecallPlaces,
           UNCHANGED <<graphVars, factVars, changes, faults, q, showVars>>
    PROVE  Typed'
<1>1. /\ nodes' = nodes /\ live' = live /\ past' = past
      /\ st' = st /\ linked' = linked /\ q' = q /\ changes' = changes /\ faults' = faults
      /\ energy' = energy /\ reached' = reached /\ shown' = shown
  BY DEF graphVars, factVars, showVars
<1>2. pc' \notin GraphPlaces
  BY DEF RecallPlaces, WalkPlaces, GraphPlaces
<1>3. pc' # "idle" /\ pc' # "activate"
  BY <1>2 DEF GraphPlaces
<1>4. GraphOK'
  BY <1>1 DEF Typed, TypeOK, GraphTypeOK, GraphOK
<1> QED
  BY <1>1, <1>2, <1>3, <1>4 DEF Typed, TypeOK, GraphTypeOK, RecallTyped

LEMMA CollectTyped ==
    ASSUME RecallTyped, pc \in WalkPlaces, NEW F, Collect(F)
    PROVE  depth' \in [Fact -> 0..MaxHops]
  BY Numbers DEF RecallTyped, Collect

LEMMA BridgeTyped ==
    ASSUME Typed, NEW e \in Entity, NEW E \in Bridges(e)
    PROVE  E \subseteq live \cup past /\ Neighbours(E, e) \subseteq Entity
<1>1. E \subseteq live \cup past
  BY DEF Bridges, Touching
<1>2. E \in SUBSET Claim
  BY <1>1 DEF Typed, TypeOK, GraphTypeOK, GraphOK
<1> QED
  BY <1>1, <1>2, NeighbourEntities

LEMMA LeadsTyped ==
    ASSUME RecallTyped, NEW f \in Leads
    PROVE  f \in hits \cup {NoFact}
<1>1. ASSUME NEW F \in SUBSET hits PROVE Foremost(F) \subseteq hits
  BY DEF Foremost
<1>2. Having(hits) \subseteq hits
  BY DEF Having
<1> QED
  BY <1>1, <1>2 DEF Leads

LEMMA RecallKept ==
    ASSUME Typed, RecallStep
    PROVE  Typed'
<1>0. /\ live \subseteq Claim /\ past \subseteq Claim /\ nodes \subseteq Entity
      /\ Claim \subseteq Entity \X Entity
      /\ st \in [Fact -> {"none", "active", "inactive", "closed"}] /\ linked \subseteq Fact
      /\ q \in Question
  BY GraphReadsAssumption DEF Typed, TypeOK, GraphTypeOK, GraphOK
<1>q. /\ q.names \subseteq Entity /\ q.top \in Nat \ {0}
      /\ \A x \in Answers : x \subseteq Entity
      /\ Person \subseteq Entity
  BY <1>0, Questions, RecallAssumption
<1>r. RecallTyped
  BY RecallIsTyped
<1>p. ~Return => pc' \in RecallPlaces /\ UNCHANGED <<graphVars, factVars, changes, faults, q, showVars>>
  BY RecallStays DEF showVars
<1>1. ASSUME Recognize PROVE RecallTyped'
  BY <1>1, <1>0, <1>q, <1>r, Numbers DEF RecallTyped, WalkPlaces, Reading, Recognize, Branch, Routed, walkVars, hitVars, nameVars
<1>2. ASSUME Snapshot PROVE RecallTyped'
  BY <1>2, <1>0, <1>q, <1>r, Numbers, Fetched DEF RecallTyped, WalkPlaces, Reading, Snapshot, walkVars, nameVars, ValidAt, Stored
<1>3. ASSUME Anchor PROVE RecallTyped'
  BY <1>3, <1>0, <1>q, <1>r, Numbers DEF RecallTyped, WalkPlaces, Reading, Anchor, Anchors, Stored, walkVars, hitVars
<1>4. ASSUME Lattice PROVE RecallTyped'
  BY <1>4, <1>0, <1>q, <1>r, Numbers, Fetched DEF RecallTyped, WalkPlaces, Reading, Lattice, ValidAt, Stored, walkVars
<1>5. ASSUME Search PROVE RecallTyped'
  BY <1>5, <1>0, <1>q, <1>r, Numbers DEF RecallTyped, WalkPlaces, Reading, Search, Active, walkVars, nameVars
<1>6. ASSUME Resolve PROVE RecallTyped'
  BY <1>6, <1>0, <1>q, <1>r, Numbers DEF RecallTyped, WalkPlaces, Reading, Resolve, Understood, Mentioned, Known, hitVars
<1>7. ASSUME EndResolve PROVE RecallTyped'
  <2>1. PICK found \in Resolved : AfterNames(found)
    BY <1>7 DEF EndResolve
  <2>2. found \subseteq Entity
    BY <1>0, <1>q, <1>r DEF Resolved, Salient, RecallTyped
  <2>3. names' \subseteq Entity /\ pc' \in {"salient", "walkResolve", "rank"} /\ pc = "bridge"
    BY <1>7, <2>1, <2>2 DEF AfterNames, EndResolve
  <2> QED
    BY <1>7, <1>r, <2>3 DEF RecallTyped, WalkPlaces, Reading, EndResolve, hitVars
<1>8. ASSUME FindSalient PROVE RecallTyped'
  BY <1>8, <1>0, <1>q, <1>r, Numbers DEF RecallTyped, WalkPlaces, Reading, FindSalient, Salient, walkVars, hitVars
<1>9. ASSUME BeginWalk PROVE RecallTyped'
  BY <1>9, <1>0, <1>q, <1>r, Numbers DEF RecallTyped, WalkPlaces, Reading, BeginWalk, StartWalk, Resolved, Salient, hitVars, nameVars
<1>10. ASSUME ReadOut PROVE RecallTyped'
  BY <1>10, <1>0, <1>q, <1>r, Numbers DEF RecallTyped, WalkPlaces, Reading, ReadOut, Walking, hitVars
<1>11. ASSUME ReadIn PROVE RecallTyped'
  BY <1>11, <1>0, <1>q, <1>r, Numbers DEF RecallTyped, WalkPlaces, Reading, ReadIn, Walking, hitVars
<1>12. ASSUME ReadIds PROVE RecallTyped'
  BY <1>12, <1>0, <1>q, <1>r, Numbers DEF RecallTyped, WalkPlaces, Reading, ReadIds, Walking, walkVars, hitVars
<1>13. ASSUME ReadRows PROVE RecallTyped'
  BY <1>13, <1>0, <1>q, <1>r, Numbers, CollectTyped DEF RecallTyped, WalkPlaces, Reading, ReadRows, Walking, walkVars, hitVars
<1>14. ASSUME ReadNamed PROVE RecallTyped'
  BY <1>14, <1>0, <1>q, <1>r, Numbers, CollectTyped DEF RecallTyped, WalkPlaces, Reading, ReadNamed, Walking, walkVars, hitVars
<1>15. ASSUME EndHop PROVE RecallTyped'
  BY <1>15, <1>0, <1>q, <1>r, Numbers DEF RecallTyped, WalkPlaces, Reading, EndHop, Walking, walkVars, hitVars
<1>16. ASSUME Merge PROVE RecallTyped'
  BY <1>16, <1>0, <1>q, <1>r, Numbers, Fetched DEF RecallTyped, WalkPlaces, Reading, Merge, Cuts, Collected
<1>17. ASSUME Rank PROVE RecallTyped'
  BY <1>17, <1>0, <1>q, <1>r, Numbers, LeadsTyped DEF RecallTyped, WalkPlaces, Reading, Rank, walkVars, nameVars
<1>18. ASSUME Judge PROVE RecallTyped'
  BY <1>18, <1>0, <1>q, <1>r, Numbers DEF RecallTyped, WalkPlaces, Reading, Judge, walkVars, askVars, hitVars, nameVars, Supports
<1>19. ASSUME NEW e \in Entity, Bridge(e) PROVE RecallTyped'
  BY <1>19, <1>0, <1>q, <1>r, Numbers, BridgeTyped DEF RecallTyped, WalkPlaces, Reading, Bridge, hitVars
<1>20. ASSUME NEW e \in Entity, ReadNode(e) PROVE RecallTyped'
  BY <1>20, <1>0, <1>q, <1>r, Numbers DEF RecallTyped, WalkPlaces, Reading, Walking, ReadNode, hitVars
<1>21. CASE Return
  <2>1. /\ pc' = "idle" /\ hop' = 0 /\ todo' = {} /\ next' = {} /\ shown' = Nothing
        /\ energy' = [e \in Entity |-> Cold] /\ reached' = [c \in Claim |-> Cold]
        /\ nodes' = nodes /\ live' = live /\ past' = past /\ st' = st /\ linked' = linked
        /\ changes' = changes /\ faults' = faults
    BY <1>21 DEF Return, Rest, graphVars, factVars
  <2>2. Fresh'
    BY <1>21 DEF Return, Fresh
  <2>3. q' \in Question /\ topk' = q'.top
    BY <1>21, SomeQuestion DEF Return
  <2>4. GraphTypeOK'
    <3>1. Cold \in 0..Cold /\ Cold \in 1..Cold /\ 0 \in Nat
      BY Numbers
    <3> QED
      BY <1>0, <2>1, <3>1, NothingTyped DEF Typed, TypeOK, GraphTypeOK, GraphOK
  <2>5. TypeOK'
    <3>1. 0 \in 0..MaxHops
      BY Numbers
    <3> QED
      BY <2>1, <2>2, <2>3, <2>4, <3>1 DEF Typed, TypeOK, Fresh
  <2> QED
    BY <2>1, <2>2, <2>5, NothingTyped DEF Typed, Fresh, GraphPlaces, WalkPlaces
<1>22. CASE ~Return
  <2>1. RecallTyped'
    BY <1>22, <1>1, <1>2, <1>3, <1>4, <1>5, <1>6, <1>7, <1>8, <1>9, <1>10, <1>11, <1>12, <1>13, <1>14, <1>15, <1>16, <1>17, <1>18, <1>19, <1>20 DEF RecallStep
  <2> QED
    BY <1>22, <1>p, <2>1, RecallFrame
<1> QED
  BY <1>21, <1>22

LEMMA FaultKept ==
    ASSUME Typed, Fault
    PROVE  Typed'
<1>1. RecallTyped /\ q \in Question
  BY RecallIsTyped DEF Typed, TypeOK
<1>2. pc' \in RecallPlaces /\ UNCHANGED <<graphVars, showVars, changes, factVars, askVars, hitVars, extra, dated>>
  BY FaultStays
<1>3. q.names \subseteq Entity
  BY <1>1, Questions
<1>4. RecallTyped'
  BY <1>1, <1>2, <1>3, Numbers
     DEF Fault, RecallTyped, Branch, AfterNames, StartWalk, walkVars, askVars, hitVars, WalkPlaces
<1>5. faults' \in 0..MaxFaults
  BY Numbers DEF Fault, Typed, TypeOK, GraphTypeOK
<1> QED
  BY <1>1, <1>2, <1>4, <1>5, Numbers
     DEF Typed, TypeOK, GraphTypeOK, GraphOK, RecallTyped, graphVars, showVars, factVars, askVars,
         GraphPlaces, RecallPlaces, WalkPlaces

LEMMA OthersKept ==
    ASSUME Typed, WriteFacts \/ \E x \in Question : Ask(x)
    PROVE  Typed'
<1> USE DEF Typed, TypeOK, GraphTypeOK, GraphOK, GraphPlaces, RecallPlaces, WalkPlaces
<1>1. CASE WriteFacts
  <2>1. /\ st' \in [Fact -> {"none", "active", "inactive", "closed"}] /\ linked' \subseteq Fact
        /\ changes' \in 0..MaxChanges
    BY <1>1, Numbers DEF WriteFacts, Changes, Store, Link, Deactivate, Invalidate, Erase, Stored
  <2>2. UNCHANGED <<graphVars, pc, walkVars, showVars, faults, askVars, hitVars, nameVars, verdict>>
    BY <1>1 DEF WriteFacts
  <2> QED
    BY <2>1, <2>2 DEF Fresh, graphVars, walkVars, showVars, askVars, hitVars, nameVars
<1>2. ASSUME NEW x \in Question, Ask(x) PROVE Typed'
  BY <1>2, Questions DEF Ask, Fresh, graphVars, walkVars, showVars, factVars, hitVars, nameVars
<1> QED
  BY <1>1, <1>2

LEMMA TypedKept ==
    ASSUME Typed, [Next]_vars
    PROVE  Typed'
<1>1. CASE UNCHANGED vars
  BY <1>1 DEF vars, graphVars, walkVars, showVars, factVars, askVars, hitVars, nameVars,
              Typed, TypeOK, GraphTypeOK, GraphOK, Fresh
<1>2. CASE Next
  BY <1>2, GraphKept, RecallKept, FaultKept, OthersKept DEF Next, Step
<1> QED
  BY <1>1, <1>2

LEMMA InitTyped == Init => Typed
<1> SUFFICES ASSUME Init PROVE Typed
  OBVIOUS
<1>1. GraphTypeOK
  <2>1. Cold \in 0..Cold /\ Cold \in 1..Cold /\ 0 \in Nat /\ 0 \in 0..MaxChanges /\ 0 \in 0..MaxFaults
    BY Numbers
  <2> QED
    BY <2>1, NothingTyped DEF Init, GraphInit, GraphTypeOK, GraphOK
<1>2. q \in Question /\ topk = q.top
  BY SomeQuestion DEF Init
<1>3. 0 \in 0..MaxHops
  BY Numbers
<1>4. pc = "idle" /\ hop = 0 /\ next = {} /\ reached = [c \in Claim |-> Cold] /\ shown = Nothing
  BY DEF Init, GraphInit
<1> QED
  BY <1>1, <1>2, <1>3, <1>4, NothingTyped DEF Init, Fresh, Typed, TypeOK, GraphPlaces, WalkPlaces

(* Whatever writers and errors do, the state stays within its types: the    *)
(* foreign keys hold, no walk goes beyond MaxHops and no energy below the   *)
(* last attenuation, and an answer leads with one of its facts.             *)
THEOREM TypeCorrect == Spec => []TypeOK
<1>1. Typed /\ [Next]_vars => Typed'
  BY TypedKept
<1>2. Typed => TypeOK
  BY DEF Typed
<1> QED
  BY <1>1, <1>2, InitTyped, PTL DEF Spec
-----------------------------------------------------------------------------
(* What stands at each place of a recall: which questions lead there, the   *)
(* entity that is being read, and that only the walk collects.              *)
Placed ==
    /\ pc = "snapshot" => q.kind = "at"
    /\ pc \in {"anchor", "lattice"} => q.kind \notin {"at", "plain"}
    /\ pc \in {"out", "in", "facts", "rows", "names"} => \E e \in Entity : cur = {e}
    /\ pc \in {"walk", "merge"} => cur = {}
    /\ pc \notin WalkPlaces => depth = [f \in Fact |-> 0]

(* A step on the graph leads to its own places or back to rest.             *)
LEMMA GraphStays ==
    ASSUME Typed,
           \/ GraphStep \/ GraphFault \/ WriteGraph \/ ExportNodes \/ DetectCommunities
           \/ \E S \in (SUBSET Entity) \ {{}} : BeginActivation(S)
    PROVE  pc' = pc \/ (pc \in GraphPlaces /\ pc' \in GraphPlaces)
  BY DEF GraphStep, Activate, EndActivationHop, ExportLinks, GraphReturn, Rest, GraphFault,
         WriteGraph, ExportNodes, DetectCommunities, BeginActivation, GraphPlaces

GraphMoves ==
    /\ Elsewhere
    /\ \/ GraphStep \/ GraphFault \/ WriteGraph \/ ExportNodes \/ DetectCommunities
       \/ \E S \in (SUBSET Entity) \ {{}} : BeginActivation(S)

LEMMA NextCases ==
    ASSUME [Next]_vars
    PROVE  \/ UNCHANGED vars \/ GraphMoves \/ RecallStep \/ Fault \/ WriteFacts
           \/ \E x \in Question : Ask(x)
  BY DEF Next, Step, GraphMoves

LEMMA PlacedKept ==
    ASSUME Typed, Placed, [Next]_vars
    PROVE  Placed'
<1> USE DEF Placed, WalkPlaces
<1>1. CASE UNCHANGED vars
  BY <1>1 DEF vars, askVars, nameVars
<1>2. CASE GraphMoves
  <2>1. q' = q /\ cur' = cur /\ depth' = depth
    BY <1>2 DEF GraphMoves, Elsewhere, askVars, nameVars
  <2>2. pc' = pc \/ (pc \in GraphPlaces /\ pc' \in GraphPlaces)
    BY <1>2, GraphStays DEF GraphMoves
  <2> QED
    BY <2>1, <2>2 DEF GraphPlaces, Typed, Fresh
<1>3. CASE RecallStep
  <2>q. q \in Question /\ q.kind \in {"plain", "before", "after", "at"}
    BY Questions DEF Typed, TypeOK
  <2> USE DEF Reading
  <2>1. CASE Recognize
    BY <2>1, <2>q DEF Recognize, Branch, Routed, walkVars, hitVars, nameVars
  <2>2. CASE Snapshot
    BY <2>2 DEF Snapshot, walkVars, nameVars
  <2>3. CASE Anchor
    BY <2>3 DEF Anchor, walkVars, hitVars
  <2>4. CASE Lattice
    BY <2>4 DEF Lattice, walkVars
  <2>5. CASE Search
    BY <2>5 DEF Search, walkVars, nameVars
  <2>6. CASE Resolve
    BY <2>6 DEF Resolve, hitVars
  <2>7. CASE EndResolve
    BY <2>7 DEF EndResolve, AfterNames, hitVars
  <2>8. CASE FindSalient
    BY <2>8 DEF FindSalient, walkVars, hitVars
  <2>9. CASE BeginWalk
    BY <2>9 DEF BeginWalk, StartWalk, hitVars, nameVars
  <2>10. CASE ReadOut
    BY <2>10 DEF ReadOut, Walking, hitVars
  <2>11. CASE ReadIn
    BY <2>11 DEF ReadIn, Walking, hitVars
  <2>12. CASE ReadIds
    BY <2>12 DEF ReadIds, Walking, walkVars, hitVars
  <2>13. CASE ReadRows
    BY <2>13 DEF ReadRows, Walking, Collect, walkVars, hitVars
  <2>14. CASE ReadNamed
    BY <2>14 DEF ReadNamed, Walking, Collect, walkVars, hitVars
  <2>15. CASE EndHop
    BY <2>15 DEF EndHop, Walking, walkVars, hitVars
  <2>16. CASE Merge
    BY <2>16 DEF Merge
  <2>17. CASE Rank
    BY <2>17 DEF Rank, walkVars, nameVars
  <2>18. CASE Judge
    BY <2>18 DEF Judge, walkVars, askVars, hitVars, nameVars
  <2>19. CASE Return
    BY <2>19 DEF Return, Rest
  <2>20. ASSUME NEW e \in Entity, Bridge(e) PROVE Placed'
    BY <2>20 DEF Bridge, hitVars
  <2>21. ASSUME NEW e \in Entity, ReadNode(e) PROVE Placed'
    BY <2>21 DEF ReadNode, Walking, hitVars
  <2> QED
    BY <1>3, <2>1, <2>2, <2>3, <2>4, <2>5, <2>6, <2>7, <2>8, <2>9, <2>10, <2>11, <2>12, <2>13, <2>14, <2>15, <2>16, <2>17, <2>18, <2>19, <2>20, <2>21 DEF RecallStep
<1>4. CASE Fault
  <2>q. q \in Question /\ q.kind \in {"plain", "before", "after", "at"}
    BY Questions DEF Typed, TypeOK
  <2> QED
    BY <1>4, <2>q DEF Fault, Branch, AfterNames, StartWalk, walkVars, askVars, hitVars
<1>5. CASE WriteFacts
  BY <1>5 DEF WriteFacts, askVars, nameVars
<1>6. ASSUME NEW x \in Question, Ask(x) PROVE Placed'
  BY <1>6 DEF Ask, nameVars
<1> QED
  BY <1>1, <1>2, <1>3, <1>4, <1>5, <1>6, NextCases

LEMMA InitPlaced == Init => Placed
  BY DEF Init, GraphInit, Fresh, Placed, WalkPlaces
-----------------------------------------------------------------------------
(* What the engine knows of a question whose pronoun is not beside a name:  *)
(* once the names are resolved, those of the question are among them.       *)
Plain == q.pronoun => q.names = {}

Informed ==
    Plain =>
        /\ pc = "bridge" => q.names \subseteq next \/ (next = {} /\ cur = {})
        /\ pc = "salient" => names = {}
        /\ pc \in {"salient", "walkResolve", "walkBridge", "rank"} \cup WalkPlaces =>
               q.names \subseteq names

LEMMA NamesInformed ==
    ASSUME Plain, NEW found, AfterNames(found), q.names \subseteq found, q' = q
    PROVE  Informed'
  BY DEF AfterNames, Informed, Plain, WalkPlaces

LEMMA InformedKept ==
    ASSUME Typed, Informed, [Next]_vars
    PROVE  Informed'
<1>1. CASE UNCHANGED vars
  BY <1>1 DEF vars, walkVars, askVars, nameVars, Informed, Plain
<1>2. CASE GraphMoves
  <2>1. q' = q /\ names' = names /\ cur' = cur
    BY <1>2 DEF GraphMoves, Elsewhere, askVars, nameVars
  <2>2. pc' \in GraphPlaces \/ (pc' = pc /\ (pc \notin GraphPlaces => next' = next))
    BY <1>2 DEF GraphMoves, GraphStep, Activate, EndActivationHop, ExportLinks, GraphReturn, Rest,
         GraphFault, WriteGraph, ExportNodes, DetectCommunities, BeginActivation, GraphPlaces, walkVars
  <2> QED
    BY <2>1, <2>2 DEF GraphPlaces, Informed, Plain, WalkPlaces
<1>3. CASE RecallStep
  <2> USE DEF Informed, Plain, WalkPlaces, Reading, Walking
  <2>1. CASE Recognize \/ Snapshot \/ Anchor \/ Lattice \/ Search
    BY <2>1 DEF Recognize, Branch, Snapshot, Anchor, Lattice, Search
  <2>2. CASE Resolve
    BY <2>2 DEF Resolve, Understood, hitVars
  <2>3. CASE EndResolve
    <3>1. SUFFICES ASSUME Plain PROVE Informed'
      BY <2>3 DEF EndResolve
    <3>2. PICK found \in Resolved : AfterNames(found)
      BY <2>3 DEF EndResolve
    <3>3. q.names \subseteq found
      BY <2>3, <3>1, <3>2 DEF EndResolve, Resolved
    <3> QED
      BY <2>3, <3>1, <3>2, <3>3, NamesInformed DEF EndResolve
  <2>4. CASE FindSalient
    BY <2>4 DEF FindSalient, walkVars, hitVars
  <2>5. CASE BeginWalk
    BY <2>5 DEF BeginWalk, StartWalk, nameVars
  <2>6. CASE ReadOut \/ ReadIn \/ ReadIds \/ ReadRows \/ ReadNamed \/ EndHop
    BY <2>6 DEF ReadOut, ReadIn, ReadIds, ReadRows, ReadNamed, EndHop
  <2>7. CASE Merge \/ Rank
    BY <2>7 DEF Merge, Rank
  <2>8. CASE Judge \/ Return
    BY <2>8 DEF Judge, Return, Rest
  <2>9. ASSUME NEW e \in Entity, Bridge(e) PROVE Informed'
    BY <2>9 DEF Bridge
  <2>10. ASSUME NEW e \in Entity, ReadNode(e) PROVE Informed'
    BY <2>10 DEF ReadNode
  <2> QED
    BY <1>3, <2>1, <2>2, <2>3, <2>4, <2>5, <2>6, <2>7, <2>8, <2>9, <2>10 DEF RecallStep
<1>4. CASE Fault
  <2>0. q' = q
    BY <1>4 DEF Fault, askVars
  <2>1. ASSUME Plain, AfterNames(q.names) PROVE Informed'
    BY <2>0, <2>1, NamesInformed
  <2>2. CASE ~AfterNames(q.names)
    BY <1>4, <2>0, <2>2 DEF Fault, Branch, StartWalk, Informed, Plain, WalkPlaces, walkVars
  <2> QED
    BY <2>0, <2>1, <2>2 DEF Informed, Plain
<1>5. CASE WriteFacts
  BY <1>5 DEF WriteFacts, walkVars, askVars, nameVars, Informed, Plain
<1>6. ASSUME NEW x \in Question, Ask(x) PROVE Informed'
  BY <1>6 DEF Ask, Informed, WalkPlaces
<1> QED
  BY <1>1, <1>2, <1>3, <1>4, <1>5, <1>6, NextCases

(* The asking word of a direct question is its main verb as soon as its own *)
(* names are known, whatever else is.                                       *)
LEMMA AsksMain ==
    ASSUME q \in Question, Direct, NEW known \in SUBSET Entity, q.names \subseteq known
    PROVE  Asking(known) = {q.main}
<1> DEFINE skipped(i) == q.words[i] \in Skip \cup known
           First == {j \in DOMAIN q.words : ~skipped(j) /\ \A k \in 1..(j - 1) : skipped(k)}
<1>1. PICK i \in DOMAIN q.words : /\ q.words[i] = q.main /\ q.main \notin Skip \cup Entity
                                  /\ \A k \in 1..(i - 1) : q.words[k] \in Skip \cup q.names
  BY DEF Direct
<1>2. DOMAIN q.words \subseteq Nat /\ \A j, k \in Nat : k >= 1 /\ k < j => k \in 1..(j - 1)
  BY Questions
<1>3. i \in First
  BY <1>1
<1>4. ASSUME NEW j \in First PROVE j = i
  <2>1. i \in Nat /\ j \in Nat /\ i >= 1 /\ j >= 1
    BY <1>1, Questions
  <2>2. ~(i < j)
    BY <1>1, <1>2, <2>1
  <2>3. ~(j < i)
    <3>1. SUFFICES ASSUME j < i PROVE FALSE
      OBVIOUS
    <3>2. j \in 1..(i - 1)
      BY <1>2, <2>1, <3>1
    <3> QED
      BY <1>1, <3>2
  <2> QED
    BY <2>1, <2>2, <2>3
<1>5. Asking(known) = {q.words[j] : j \in First}
  BY DEF Asking
<1> HIDE DEF First
<1> QED
  BY <1>1, <1>3, <1>4, <1>5

(* The fact that leads, from the moment it is chosen.                       *)
VerbLed ==
    /\ pc \in {"judge", "answered"} /\ verdict # "failed" /\ ~dated /\ q.kind # "at"
    /\ Direct /\ Plain /\ (\E f \in hits : q.main \in Says[f])
    => q.main \in Says[lead]

LEMMA RankLeads ==
    ASSUME Typed, Informed, Direct, Plain, Rank, \E f \in hits : q.main \in Says[f]
    PROVE  q.main \in Says[lead']
<1>1. Asking(names) = {q.main}
  BY AsksMain DEF Informed, Rank, Typed, TypeOK
<1>2. Having(hits) # {} /\ \A f \in Having(hits) : q.main \in Says[f]
  BY <1>1 DEF Having
<1>3. lead' \in Foremost(Having(hits))
  BY <1>2 DEF Rank, Leads
<1> QED
  BY <1>2, <1>3 DEF Foremost

LEMMA VerbLedKept ==
    ASSUME Typed, Placed, Informed, VerbLed, [Next]_vars
    PROVE  VerbLed'
<1>0. q' = q => (Direct' <=> Direct) /\ (Plain' <=> Plain)
  BY DEF Direct, Plain
<1>1. CASE UNCHANGED vars
  BY <1>0, <1>1 DEF vars, askVars, hitVars, nameVars, VerbLed
<1>2. CASE GraphMoves
  <2>1. q' = q /\ hits' = hits /\ lead' = lead /\ dated' = dated /\ verdict' = verdict
    BY <1>2 DEF GraphMoves, Elsewhere, askVars, hitVars, nameVars
  <2>2. pc' = pc \/ pc' \in GraphPlaces
    BY <1>2, GraphStays DEF GraphMoves
  <2> QED
    BY <1>0, <2>1, <2>2 DEF VerbLed, GraphPlaces
<1>3. CASE RecallStep
  <2>1. pc' \in {"judge", "answered"} => Snapshot \/ Lattice \/ Rank \/ Judge
    BY <1>3 DEF RecallStep, Recognize, Branch, Anchor, Search, Resolve, EndResolve, AfterNames,
                FindSalient, BeginWalk, StartWalk, Bridge, ReadNode, ReadOut, ReadIn, ReadIds,
                ReadRows, ReadNamed, EndHop, Merge, Return, Rest
  <2>2. CASE Snapshot
    BY <2>2 DEF Placed, VerbLed, Snapshot, Reading
  <2>3. CASE Lattice
    BY <2>3 DEF VerbLed, Lattice
  <2>4. CASE Rank
    <3>1. q' = q /\ hits' = hits
      BY <2>4 DEF Rank, Reading
    <3> QED
      BY <1>0, <2>4, <3>1, RankLeads DEF VerbLed
  <2>5. CASE Judge
    <3>1. q' = q /\ hits' = hits /\ lead' = lead /\ dated' = dated /\ pc = "judge" /\ verdict = "none"
      BY <2>5 DEF Judge, askVars, hitVars, nameVars, Typed, TypeOK
    <3> QED
      BY <1>0, <3>1 DEF VerbLed
  <2> QED
    BY <2>1, <2>2, <2>3, <2>4, <2>5 DEF VerbLed
<1>4. CASE Fault
  <2>1. pc' \in {"judge", "answered"} =>
            \/ pc = "snapshot" \/ pc = "recognize" \/ verdict' = "failed"
    BY <1>4 DEF Fault, AfterNames, StartWalk
  <2>2. pc = "recognize" => pc' \notin {"judge", "answered"}
    BY <1>4 DEF Fault, Branch
  <2>3. q' = q
    BY <1>4 DEF Fault, askVars
  <2> QED
    BY <2>1, <2>2, <2>3 DEF VerbLed, Placed
<1>5. CASE WriteFacts
  BY <1>0, <1>5 DEF WriteFacts, askVars, hitVars, nameVars, VerbLed
<1>6. ASSUME NEW x \in Question, Ask(x) PROVE VerbLed'
  BY <1>6 DEF Ask, VerbLed
<1> QED
  BY <1>1, <1>2, <1>3, <1>4, <1>5, <1>6, NextCases

(* Whatever the LLM resolved, whatever a walk over a moving graph returned, *)
(* and also when either raised, the answer to a question that asks with its *)
(* main verb leads with a fact that holds the verb, if it has one: the      *)
(* names of the question are always among those the ranking skips           *)
(* (resolve_query_entities, multihop.rank_for_query).                       *)
THEOREM VerbsLead == Spec => []VerbLeads
<1>1. Init => Typed /\ Placed /\ Informed /\ VerbLed
  BY InitTyped, InitPlaced DEF Init, GraphInit, Informed, VerbLed, WalkPlaces
<1>2. Typed /\ Placed /\ Informed /\ VerbLed /\ [Next]_vars
        => Typed' /\ Placed' /\ Informed' /\ VerbLed'
  BY TypedKept, PlacedKept, InformedKept, VerbLedKept
<1>3. Typed /\ VerbLed => VerbLeads
  BY DEF Typed, TypeOK, VerbLed, VerbLeads, MainVerbLeads, Plain
<1> QED
  BY <1>1, <1>2, <1>3, PTL DEF Spec
-----------------------------------------------------------------------------
(* The communities on show are those of the graph until a writer moves.     *)
Grouped == pc = "grouped" /\ changes = 0 => shown.groups = Communities(live)

LEMMA GroupedKept ==
    ASSUME Typed, Grouped, [Next]_vars
    PROVE  Grouped'
<1>1. CASE UNCHANGED vars
  BY <1>1 DEF vars, showVars, graphVars, Grouped
<1>2. CASE GraphMoves
  <2>1. CASE DetectCommunities
    <3>1. shown' = [Nothing EXCEPT !.groups = Communities(live)] /\ live' = live
      BY <2>1 DEF DetectCommunities, graphVars
    <3>2. shown'.groups = Communities(live)
      BY <3>1, NothingTyped
    <3> QED
      BY <3>1, <3>2 DEF Grouped
  <2>2. CASE WriteGraph
    <3>1. changes' = changes + 1 /\ changes \in Nat
      BY <2>2, Numbers DEF WriteGraph, Changes, Typed, TypeOK, GraphTypeOK
    <3> QED
      BY <3>1 DEF Grouped
  <2>3. CASE ~DetectCommunities /\ ~WriteGraph
    <3>1. pc' # "grouped"
      BY <1>2, <2>3 DEF GraphMoves, GraphStep, Activate, EndActivationHop, GraphReturn, Rest,
            GraphFault, ExportLinks, ExportNodes, BeginActivation
    <3> QED
      BY <3>1 DEF Grouped
  <2> QED
    BY <2>1, <2>2, <2>3
<1>3. CASE RecallStep \/ Fault
  <2>1. pc' \in RecallPlaces \cup {"idle"}
    BY <1>3, RecallStays, FaultStays
  <2> QED
    BY <2>1 DEF RecallPlaces, WalkPlaces, Grouped
<1>4. CASE WriteFacts
  <2>1. changes' = changes + 1 /\ changes \in Nat
    BY <1>4, Numbers DEF WriteFacts, Changes, Typed, TypeOK, GraphTypeOK
  <2> QED
    BY <2>1 DEF Grouped
<1>5. ASSUME NEW x \in Question, Ask(x) PROVE Grouped'
  BY <1>5 DEF Ask, Grouped
<1> QED
  BY <1>1, <1>2, <1>3, <1>4, <1>5, NextCases

(* The communities are the connected components of the open edges: each end *)
(* of one is in exactly one community, which holds all that a path of open  *)
(* edges joins to it and nothing else (detect_communities).                 *)
THEOREM CommunitiesAreExact == Spec => []CommunitiesExact
<1>1. Init => Typed /\ Grouped
  BY InitTyped DEF Init, GraphInit, Grouped
<1>2. Typed /\ Grouped => CommunitiesExact
  BY CommunitiesAreComponents
     DEF Grouped, CommunitiesExact, Component, Everything, Typed, TypeOK, GraphTypeOK, GraphOK
<1> QED
  BY <1>1, <1>2, TypedKept, GroupedKept, PTL DEF Spec
-----------------------------------------------------------------------------
(* The activation: the energies are the distances from the seeds as far as  *)
(* the hops went, and what was visited has found its edges and neighbours.  *)
Origin == {e \in Entity : energy[e] = 0}
Near(n) == Ball(live, Origin, n)

Warmth ==
    /\ \A n \in 0..hop : \A e \in Entity : energy[e] <= n <=> e \in Near(n)
    /\ \A e \in Entity : /\ energy[e] <= hop + 1 \/ energy[e] = Cold
                         /\ energy[e] = hop + 1 => e \in Near(hop + 1)
    /\ pc = "activate" => next = {e \in Entity : energy[e] = hop + 1}
    /\ \A e \in todo : energy[e] = hop

Spent == \A e \in Near(hop) \ todo : \A c \in Touching(live, e) :
            reached[c] <= hop + 1 /\ \A m \in Ends(c) : energy[m] <= hop + 1

FoundNear ==
    /\ \A c \in Claim : reached[c] <= hop + 1 \/ reached[c] = Cold
    /\ \A c \in Claim : reached[c] <= hop + 1 => c \in live /\ Ends(c) \cap Near(hop) # {}
    /\ \A c \in Claim : \A n \in 1..hop :
          reached[c] <= n <=> c \in live /\ Ends(c) \cap Near(n - 1) # {}

Activating ==
    pc \in {"activate", "activated"} /\ changes = 0 =>
        /\ hop < ActHops
        /\ Warmth /\ Spent /\ FoundNear
        /\ pc = "activated" => todo = {} /\ hop + 1 = ActHops

LEMMA BeginActivating ==
    ASSUME Typed, NEW S \in (SUBSET Entity) \ {{}}, BeginActivation(S)
    PROVE  Activating'
<1>1. /\ hop' = 0 /\ next' = {} /\ todo' = S /\ pc' = "activate" /\ live' = live
      /\ energy' = [e \in Entity |-> IF e \in S THEN 0 ELSE Cold]
      /\ reached' = [c \in Claim |-> Cold]
  BY DEF BeginActivation, Typed, graphVars
<1>2. Origin' = S
  BY <1>1, Numbers DEF Origin
<1>3. Near(0)' = S
  BY <1>1, <1>2, BallZero DEF Near
<1>4. Warmth'
  <2>1. \A e \in Entity : energy'[e] = (IF e \in S THEN 0 ELSE Cold)
    BY <1>1
  <2>2. ASSUME NEW n \in 0..0, NEW e \in Entity PROVE energy'[e] <= n <=> e \in Near(n)'
    BY <1>3, <2>1, Numbers
  <2> QED
    BY <1>1, <2>1, <2>2, Numbers DEF Warmth
<1>5. Spent'
  BY <1>1, <1>3 DEF Spent
<1>6. FoundNear'
  BY <1>1, Numbers DEF FoundNear
<1> QED
  BY <1>1, <1>4, <1>5, <1>6, Numbers DEF Activating

LEMMA ActivateActivating ==
    ASSUME Typed, Activating, changes = 0, NEW e \in Entity, Activate(e)
    PROVE  Activating'
<1> DEFINE spread == energy[e] + 1
           fresh  == {c \in Touching(live, e) : reached[c] = Cold}
           warmed == {m \in Neighbours(live, e) : energy[m] > spread}
<1>1. /\ hop < ActHops /\ Warmth /\ Spent /\ FoundNear /\ pc = "activate" /\ e \in todo
  BY DEF Activating, Activate
<1>2. /\ hop \in Nat /\ energy \in [Entity -> 0..Cold] /\ reached \in [Claim -> 1..Cold]
      /\ live \subseteq Claim /\ todo \subseteq Entity
  BY DEF Typed, TypeOK, GraphTypeOK, GraphOK
<1>3. energy[e] = hop /\ spread = hop + 1 /\ hop + 1 < Cold /\ spread \in Nat
  BY <1>1, <1>2, Numbers DEF Warmth
<1>4. /\ reached' = [c \in Claim |-> IF c \in fresh THEN spread ELSE reached[c]]
      /\ energy' = [m \in Entity |-> IF m \in warmed THEN spread ELSE energy[m]]
      /\ next' = next \cup warmed /\ todo' = todo \ {e}
      /\ live' = live /\ hop' = hop /\ pc' = pc
  BY DEF Activate, graphVars
<1>5. warmed \subseteq Entity /\ \A m \in warmed : energy[m] > spread
  BY <1>2, NeighbourEntities
<1>6. fresh \subseteq Claim /\ \A c \in fresh : reached[c] = Cold /\ c \in live /\ e \in Ends(c)
  BY <1>2 DEF Touching
<1>7. e \in Near(hop)
  <2>1. hop \in 0..hop
    BY <1>2
  <2> QED
    BY <1>1, <1>2, <1>3, <2>1 DEF Warmth
<1>8. \A m \in warmed : m \in Near(hop + 1)
  <2>1. \A m \in warmed : Joined(live, e, m)
    BY <1>2, NeighboursJoined
  <2> QED
    BY <1>2, <1>5, <1>7, <2>1, BallExtends DEF Near
<1>9. \A c \in Touching(live, e) : \A m \in Ends(c) : m = e \/ m \in Neighbours(live, e)
  BY DEF Neighbours
<1>10. \A c \in Touching(live, e) : c \in Claim /\ Ends(c) \subseteq Entity
  BY <1>2, EndsAreEntities DEF Touching
<1>a. \A m \in Neighbours(live, e) : m \in warmed \/ energy[m] <= hop + 1
  BY <1>2, <1>3, Numbers, NeighbourEntities
<1>b. \A c \in Touching(live, e) : c \in fresh \/ reached[c] <= hop + 1
  BY <1>1, <1>10 DEF FoundNear
<1> HIDE DEF fresh, warmed, spread
<1>c. \A m \in Entity : /\ m \in warmed => energy'[m] = hop + 1 /\ energy[m] > hop + 1
                        /\ m \notin warmed => energy'[m] = energy[m]
  BY <1>3, <1>4, <1>5
<1>d. \A x \in Claim : /\ x \in fresh => reached'[x] = hop + 1 /\ reached[x] = Cold
                       /\ x \notin fresh => reached'[x] = reached[x]
  BY <1>3, <1>4, <1>6
<1>11. Origin' = Origin
  BY <1>2, <1>c DEF Origin
<1>12. \A n : Near(n)' = Near(n)
  BY <1>4, <1>11 DEF Near
<1>13. Warmth'
  <2>1. ASSUME NEW n \in 0..hop, NEW m \in Entity PROVE energy'[m] <= n <=> m \in Near(n)
    <3>1. energy'[m] <= n <=> energy[m] <= n
      BY <1>2, <1>c
    <3> QED
      BY <1>1, <3>1 DEF Warmth
  <2>2. ASSUME NEW m \in Entity
        PROVE  /\ energy'[m] <= hop + 1 \/ energy'[m] = Cold
               /\ energy'[m] = hop + 1 => m \in Near(hop + 1)
    BY <1>1, <1>2, <1>8, <1>c DEF Warmth
  <2>3. next' = {m \in Entity : energy'[m] = hop + 1}
    <3>1. next = {m \in Entity : energy[m] = hop + 1}
      BY <1>1 DEF Warmth
    <3> QED
      BY <1>2, <1>4, <1>5, <1>c, <3>1
  <2>4. ASSUME NEW m \in todo' PROVE energy'[m] = hop
    <3>1. energy[m] = hop /\ m \in Entity
      BY <1>1, <1>2, <1>4 DEF Warmth
    <3> QED
      BY <1>2, <1>c, <3>1
  <2> QED
    BY <1>4, <1>12, <2>1, <2>2, <2>3, <2>4 DEF Warmth
<1>14. Spent'
  <2> SUFFICES ASSUME NEW d \in Near(hop) \ (todo \ {e}), NEW c \in Touching(live, d)
               PROVE  reached'[c] <= hop + 1 /\ \A m \in Ends(c) : energy'[m] <= hop + 1
    <3>1. Near(hop)' = Near(hop)
      BY <1>4, <1>12 DEF Near
    <3> QED
      BY <1>4, <3>1 DEF Spent, Touching
  <2>0. c \in Claim /\ Ends(c) \subseteq Entity
    BY <1>2, EndsAreEntities DEF Touching
  <2>1. CASE d = e
    BY <1>2, <1>3, <1>9, <1>a, <1>b, <1>c, <1>d, <2>0, <2>1
  <2>2. CASE d # e
    <3>1. reached[c] <= hop + 1 /\ \A m \in Ends(c) : energy[m] <= hop + 1
      BY <1>1, <2>2 DEF Spent
    <3> QED
      BY <1>2, <1>c, <1>d, <2>0, <3>1
  <2> QED
    BY <2>1, <2>2
<1>15. FoundNear'
  <2>1. ASSUME NEW c \in Claim
        PROVE  /\ reached'[c] <= hop + 1 \/ reached'[c] = Cold
               /\ reached'[c] <= hop + 1 => c \in live /\ Ends(c) \cap Near(hop) # {}
    BY <1>1, <1>2, <1>6, <1>7, <1>d DEF FoundNear
  <2>2. ASSUME NEW c \in Claim, NEW n \in 1..hop
        PROVE  reached'[c] <= n <=> c \in live /\ Ends(c) \cap Near(n - 1) # {}
    <3>1. reached'[c] <= n <=> reached[c] <= n
      BY <1>2, <1>3, <1>d, Numbers
    <3> QED
      BY <1>1, <3>1 DEF FoundNear
  <2> QED
    BY <1>4, <1>12, <2>1, <2>2 DEF FoundNear
<1> QED
  BY <1>1, <1>4, <1>13, <1>14, <1>15 DEF Activating

(* When its frontier is exhausted a hop has reached all that is one edge    *)
(* farther.                                                                 *)
LEMMA HopReached ==
    ASSUME Typed, Warmth, Spent, FoundNear, todo = {}
    PROVE  /\ \A e \in Entity : energy[e] <= hop + 1 <=> e \in Near(hop + 1)
           /\ \A c \in Claim : reached[c] <= hop + 1 <=> c \in live /\ Ends(c) \cap Near(hop) # {}
<1>1. /\ hop \in Nat /\ energy \in [Entity -> 0..Cold] /\ reached \in [Claim -> 1..Cold]
      /\ hop \in 0..hop /\ Cold \in Nat
  BY Numbers DEF Typed, TypeOK, GraphTypeOK
<1>2. Near(hop) \subseteq Near(hop + 1)
  BY <1>1, BallGrows DEF Near
<1>3. ASSUME NEW e \in Entity, energy[e] <= hop + 1 PROVE e \in Near(hop + 1)
  <2>1. energy[e] <= hop \/ energy[e] = hop + 1
    BY <1>1, <1>3
  <2> QED
    BY <1>1, <1>2, <2>1 DEF Warmth
<1>4. ASSUME NEW e \in Near(hop + 1) PROVE energy[e] <= hop + 1
  <2>1. CASE e \in Near(hop)
    <3>1. energy[e] <= hop /\ e \in Entity
      BY <1>1, <2>1, BallEntities DEF Warmth, Near
    <3> QED
      BY <1>1, <3>1
  <2>2. CASE \E d \in Near(hop) : Joined(live, d, e)
    <3>1. PICK d \in Near(hop) : Joined(live, d, e)
      BY <2>2
    <3>2. PICK c \in live : Ends(c) = {d, e}
      BY <3>1 DEF Joined
    <3>3. c \in Touching(live, d) /\ e \in Ends(c)
      BY <3>2 DEF Touching
    <3> QED
      BY <3>1, <3>3 DEF Spent
  <2> QED
    BY <1>1, <2>1, <2>2, BallLast DEF Near
<1>5. ASSUME NEW c \in live, Ends(c) \cap Near(hop) # {} PROVE reached[c] <= hop + 1
  BY <1>5 DEF Spent, Touching
<1> QED
  BY <1>3, <1>4, <1>5 DEF FoundNear

LEMMA EndHopActivating ==
    ASSUME Typed, Activating, changes = 0, EndActivationHop
    PROVE  Activating'
<1>1. /\ hop < ActHops /\ Warmth /\ Spent /\ FoundNear /\ pc = "activate" /\ todo = {}
  BY DEF Activating, EndActivationHop
<1>2. /\ hop \in Nat /\ energy \in [Entity -> 0..Cold] /\ reached \in [Claim -> 1..Cold]
  BY DEF Typed, TypeOK, GraphTypeOK
<1>3. live' = live /\ energy' = energy /\ reached' = reached /\ changes' = changes
  BY DEF EndActivationHop, graphVars, showVars
<1>4. Origin' = Origin /\ \A n : Near(n)' = Near(n)
  BY <1>3 DEF Origin, Near
<1>5. CASE hop + 1 < ActHops
  <2>1. pc' = "activate" /\ hop' = hop + 1 /\ todo' = next /\ next' = {}
    BY <1>1, <1>5 DEF EndActivationHop
  <2>2. next = {e \in Entity : energy[e] = hop + 1}
    BY <1>1 DEF Warmth
  <2>3. Warmth'
    <3>1. ASSUME NEW n \in 0..(hop + 1), NEW e \in Entity PROVE energy[e] <= n <=> e \in Near(n)
      <4>1. CASE n = hop + 1
        BY <1>1, <4>1, HopReached
      <4>2. CASE n # hop + 1
        <5>1. n \in 0..hop
          BY <1>2, <4>2
        <5> QED
          BY <1>1, <5>1 DEF Warmth
      <4> QED
        BY <4>1, <4>2
    <3>2. ASSUME NEW e \in Entity
          PROVE  /\ energy[e] <= (hop + 1) + 1 \/ energy[e] = Cold
                 /\ energy[e] # (hop + 1) + 1
      <4>1. energy[e] <= hop + 1 \/ energy[e] = Cold
        BY <1>1 DEF Warmth
      <4> QED
        BY <1>2, <1>5, <4>1, Numbers
    <3> QED
      BY <1>3, <1>4, <2>1, <2>2, <3>1, <3>2 DEF Warmth
  <2>4. Spent'
    <3> SUFFICES ASSUME NEW d \in Near(hop + 1) \ next, NEW c \in Touching(live, d)
                 PROVE  /\ reached[c] <= (hop + 1) + 1
                        /\ \A m \in Ends(c) : energy[m] <= (hop + 1) + 1
      BY <1>3, <1>4, <2>1 DEF Spent, Touching
    <3>1. d \in Entity
      BY BallEntities DEF Near
    <3>2. energy[d] <= hop + 1
      BY <1>1, <3>1, HopReached
    <3>3. energy[d] <= hop
      BY <1>2, <2>2, <3>1, <3>2
    <3>4. d \in Near(hop)
      <4>1. hop \in 0..hop
        BY <1>2
      <4> QED
        BY <1>1, <3>1, <3>3, <4>1 DEF Warmth
    <3>5. reached[c] <= hop + 1 /\ \A m \in Ends(c) : energy[m] <= hop + 1
      BY <1>1, <3>4 DEF Spent
    <3>6. c \in Claim /\ Ends(c) \subseteq Entity
      BY EndsAreEntities DEF Touching, Typed, TypeOK, GraphTypeOK, GraphOK
    <3> QED
      BY <1>2, <3>5, <3>6
  <2>5. FoundNear'
    <3>1. ASSUME NEW c \in Claim
          PROVE  /\ reached[c] <= (hop + 1) + 1 \/ reached[c] = Cold
                 /\ reached[c] <= (hop + 1) + 1 =>
                       c \in live /\ Ends(c) \cap Near(hop + 1) # {}
      <4>1. reached[c] <= hop + 1 \/ reached[c] = Cold
        BY <1>1 DEF FoundNear
      <4>2. Near(hop) \subseteq Near(hop + 1)
        <5>1. hop + 1 \in Nat /\ hop \in 0..(hop + 1)
          BY <1>2
        <5> QED
          BY <5>1, BallGrows DEF Near
      <4>3. reached[c] <= hop + 1 => c \in live /\ Ends(c) \cap Near(hop) # {}
        BY <1>1 DEF FoundNear
      <4>4. reached[c] <= (hop + 1) + 1 => reached[c] <= hop + 1
        BY <1>2, <1>5, <4>1, Numbers
      <4>5. reached[c] <= hop + 1 => reached[c] <= (hop + 1) + 1
        BY <1>2
      <4> QED
        BY <4>1, <4>2, <4>3, <4>4, <4>5
    <3>2. ASSUME NEW c \in Claim, NEW n \in 1..(hop + 1)
          PROVE  reached[c] <= n <=> c \in live /\ Ends(c) \cap Near(n - 1) # {}
      <4>1. CASE n = hop + 1
        <5>1. n - 1 = hop
          BY <1>2, <4>1
        <5> QED
          BY <1>1, <4>1, <5>1, HopReached
      <4>2. CASE n # hop + 1
        <5>1. n \in 1..hop
          BY <1>2, <4>2
        <5> QED
          BY <1>1, <5>1 DEF FoundNear
      <4> QED
        BY <4>1, <4>2
    <3> QED
      BY <1>3, <1>4, <2>1, <3>1, <3>2 DEF FoundNear
  <2> QED
    BY <1>5, <2>1, <2>3, <2>4, <2>5 DEF Activating
<1>6. CASE ~(hop + 1 < ActHops)
  <2>1. pc' = "activated" /\ hop' = hop /\ todo' = todo /\ next' = next
    BY <1>1, <1>6 DEF EndActivationHop
  <2>2. hop + 1 = ActHops
    BY <1>1, <1>2, <1>6, Numbers
  <2>3. Warmth'
    BY <1>1, <1>3, <1>4, <2>1 DEF Warmth
  <2>4. Spent'
    BY <1>1, <1>3, <1>4, <2>1 DEF Spent, Touching
  <2>5. FoundNear'
    BY <1>1, <1>3, <1>4, <2>1 DEF FoundNear
  <2> QED
    BY <1>1, <2>1, <2>2, <2>3, <2>4, <2>5 DEF Activating
<1> QED
  BY <1>5, <1>6

LEMMA ActivatingKept ==
    ASSUME Typed, Activating, [Next]_vars
    PROVE  Activating'
<1>0. changes \in Nat
  BY Numbers DEF Typed, TypeOK, GraphTypeOK
<1>1. CASE UNCHANGED vars
  <2>1. UNCHANGED <<live, pc, hop, todo, next, energy, reached, changes>>
    BY <1>1 DEF vars, graphVars, walkVars, showVars
  <2>2. Origin' = Origin /\ \A n : Near(n)' = Near(n)
    BY <2>1 DEF Origin, Near
  <2> QED
    BY <2>1, <2>2 DEF Activating, Warmth, Spent, FoundNear, Touching
<1>2. CASE GraphMoves
  <2>1. ASSUME NEW e \in Entity, Activate(e) PROVE Activating'
    <3>1. changes' = changes
      BY <2>1 DEF Activate
    <3> QED
      BY <2>1, <3>1, ActivateActivating DEF Activating
  <2>2. CASE EndActivationHop
    <3>1. changes' = changes
      BY <2>2 DEF EndActivationHop
    <3> QED
      BY <2>2, <3>1, EndHopActivating DEF Activating
  <2>3. ASSUME NEW S \in (SUBSET Entity) \ {{}}, BeginActivation(S) PROVE Activating'
    BY <2>3, BeginActivating
  <2>4. CASE WriteGraph
    <3>1. changes' # 0
      BY <1>0, <2>4 DEF WriteGraph, Changes
    <3> QED
      BY <3>1 DEF Activating
  <2>5. CASE ExportLinks \/ GraphReturn \/ GraphFault \/ ExportNodes \/ DetectCommunities
    <3>1. pc' \notin {"activate", "activated"}
      BY <2>5 DEF ExportLinks, GraphReturn, Rest, GraphFault, ExportNodes, DetectCommunities
    <3> QED
      BY <3>1 DEF Activating
  <2> QED
    BY <1>2, <2>1, <2>2, <2>3, <2>4, <2>5 DEF GraphMoves, GraphStep
<1>3. CASE RecallStep \/ Fault
  <2>1. pc' \in RecallPlaces \cup {"idle"}
    BY <1>3, RecallStays, FaultStays
  <2> QED
    BY <2>1 DEF RecallPlaces, WalkPlaces, Activating
<1>4. CASE WriteFacts
  <2>1. changes' # 0
    BY <1>0, <1>4 DEF WriteFacts, Changes
  <2> QED
    BY <2>1 DEF Activating
<1>5. ASSUME NEW x \in Question, Ask(x) PROVE Activating'
  BY <1>5 DEF Ask, Activating
<1> QED
  BY <1>1, <1>2, <1>3, <1>4, <1>5, NextCases

LEMMA ActivatingExact == Typed /\ Activating => ActivationExact
<1> SUFFICES ASSUME Typed, Activating, pc = "activated", changes = 0,
                    NEW c \in Claim, NEW n \in 1..ActHops
             PROVE  reached[c] <= n <=> c \in live /\ Ends(c) \cap Near(n - 1) # {}
  BY DEF ActivationExact, Near, Origin
<1>1. Warmth /\ Spent /\ FoundNear /\ todo = {} /\ hop + 1 = ActHops
  BY DEF Activating
<1>2. hop \in Nat
  BY DEF Typed, TypeOK, GraphTypeOK
<1>3. CASE n = hop + 1
  <2>1. n - 1 = hop
    BY <1>2, <1>3
  <2> QED
    BY <1>1, <1>3, <2>1, HopReached
<1>4. CASE n # hop + 1
  <2>1. n \in 1..hop
    BY <1>1, <1>2, <1>4
  <2> QED
    BY <1>1, <2>1 DEF FoundNear
<1> QED
  BY <1>3, <1>4

(* The spreading activation finds, in whatever order it visits the nodes of *)
(* a hop, exactly the open edges less than ActHops edges from a seed, each  *)
(* with the attenuation of its distance (run_spreading_activation).         *)
THEOREM ActivationIsExact == Spec => []ActivationExact
<1>1. Init => Typed /\ Activating
  BY InitTyped DEF Init, GraphInit, Activating
<1> QED
  BY <1>1, TypedKept, ActivatingKept, ActivatingExact, PTL DEF Spec
-----------------------------------------------------------------------------
(* With the history variables.  They are only written, so the invariants of *)
(* the states above hold of a history too.                                  *)
HistoryTyped ==
    Typed /\ Placed

LEMMA HistoryTypedKept ==
    ASSUME HistoryTyped, [HistoryNext]_<<vars, history>>
    PROVE  HistoryTyped' /\ [Next]_vars
<1>1. [Next]_vars
  BY DEF HistoryNext
<1> QED
  BY <1>1, TypedKept, PlacedKept DEF HistoryTyped

LEMMA InitHistoryTyped == HistoryInit => HistoryTyped
  BY InitTyped, InitPlaced DEF HistoryInit, HistoryTyped

(* What the search found is kept from there on.                             *)
Kept ==
    /\ vec \subseteq hits
    /\ vec # {} => pc \in RecallPlaces \ {"recognize", "snapshot", "anchor", "lattice"}

LEMMA KeptKept ==
    ASSUME HistoryTyped, Kept, [HistoryNext]_<<vars, history>>
    PROVE  Kept'
<1>0. Typed /\ Placed
  BY DEF HistoryTyped
<1>1. CASE UNCHANGED <<vars, history>>
  BY <1>1 DEF vars, hitVars, history, Kept
<1>2. CASE HistoryNext
  <2>0. vec' = IF pc' = "idle" THEN {} ELSE IF pc = "search" THEN hits' ELSE vec
    BY <1>2 DEF HistoryNext, Track
  <2>1. CASE pc' = "idle"
    BY <2>0, <2>1 DEF Kept
  <2>2. CASE pc' # "idle" /\ pc = "search"
    <3>1. pc' \in {"search", "resolve", "answered"}
      BY <1>0, <1>2, <2>2, NextCases, GraphStays
         DEF HistoryNext, GraphMoves, GraphPlaces, RecallStep, Recognize, Snapshot, Anchor, Lattice,
             Search, Resolve, EndResolve, FindSalient, BeginWalk, Bridge, ReadNode, ReadOut, ReadIn,
             ReadIds, ReadRows, ReadNamed, EndHop, Merge, Rank, Judge, Return, Fault, WriteFacts,
             Ask, vars
    <3> QED
      BY <2>0, <2>2, <3>1 DEF Kept, RecallPlaces, WalkPlaces
  <2>3. CASE pc' # "idle" /\ pc # "search" /\ vec = {}
    BY <2>0, <2>3 DEF Kept
  <2>4. CASE pc' # "idle" /\ pc # "search" /\ vec # {}
    <3>0. vec' = vec /\ pc \in RecallPlaces \ {"recognize", "snapshot", "anchor", "lattice", "search"}
      BY <2>0, <2>4 DEF Kept
    <3>1. hits \subseteq hits' /\ pc' \in RecallPlaces \ {"recognize", "snapshot", "anchor", "lattice"}
      <4>1. CASE GraphMoves
        BY <1>0, <3>0, <4>1, GraphStays
           DEF GraphMoves, Elsewhere, hitVars, GraphPlaces, RecallPlaces, WalkPlaces
      <4>2. CASE RecallStep
        <5>0. pc \notin {"recognize", "snapshot", "anchor", "lattice", "search"} /\ pc' # "idle"
          BY <2>4, <3>0
        <5>1. pc' \in RecallPlaces
          BY <1>0, <4>2, <5>0, RecallStays
        <5>2. CASE Recognize \/ Snapshot \/ Anchor \/ Lattice \/ Search \/ Return
          BY <5>0, <5>2 DEF Recognize, Snapshot, Anchor, Lattice, Search, Return, Rest
        <5>3. CASE Resolve \/ EndResolve \/ FindSalient \/ BeginWalk
          BY <5>1, <5>3 DEF Resolve, EndResolve, AfterNames, FindSalient, BeginWalk, StartWalk, hitVars
        <5>4. ASSUME NEW e \in Entity, Bridge(e) \/ ReadNode(e)
              PROVE  hits' = hits /\ pc' \notin {"recognize", "snapshot", "anchor", "lattice"}
          BY <5>0, <5>4 DEF Bridge, ReadNode, Walking, hitVars
        <5>5. CASE ReadOut \/ ReadIn \/ ReadIds \/ ReadRows \/ ReadNamed \/ EndHop
          BY <5>1, <5>5 DEF ReadOut, ReadIn, ReadIds, ReadRows, ReadNamed, EndHop, Walking, hitVars
        <5>6. CASE Merge \/ Rank \/ Judge
          BY <5>1, <5>6 DEF Merge, Rank, Judge, hitVars
        <5> QED
          BY <4>2, <5>1, <5>2, <5>3, <5>4, <5>5, <5>6 DEF RecallStep
      <4>3. CASE Fault
        BY <3>0, <4>3
           DEF RecallPlaces, WalkPlaces, Fault, AfterNames, StartWalk, hitVars
      <4>4. CASE WriteFacts \/ UNCHANGED vars
        BY <3>0, <4>4 DEF WriteFacts, vars, hitVars
      <4>5. ASSUME NEW x \in Question, Ask(x) PROVE FALSE
        BY <3>0, <4>5 DEF Ask, RecallPlaces, WalkPlaces
      <4> QED
        BY <1>2, <4>1, <4>2, <4>3, <4>4, <4>5, NextCases DEF HistoryNext
    <3> QED
      BY <3>0, <3>1 DEF Kept
  <2> QED
    BY <2>1, <2>2, <2>3, <2>4
<1> QED
  BY <1>1, <1>2

(* Whatever the walk found and wherever it failed, an answer holds each hit *)
(* of the search (engine.recall).                                           *)
THEOREM HitsAreKept == HistorySpec => []VectorHitsKept
<1>1. HistoryInit => HistoryTyped /\ Kept
  BY InitHistoryTyped DEF HistoryInit, Kept
<1>2. Kept => VectorHitsKept
  BY DEF Kept, VectorHitsKept
<1> QED
  BY <1>1, <1>2, HistoryTypedKept, KeptKept, PTL DEF HistorySpec
-----------------------------------------------------------------------------
(* Rows that were never active: the walk takes one only for an entity of it *)
(* without a steady fact, because a steady fact is among the rows it reads  *)
(* of each entity it mentions, and active when they are read.               *)
FallsBack(f) == \E e \in Mentions[f] : \A g \in steady : e \notin Mentions[g]

Watched == pc # "idle" => steady \subseteq Fixed /\ Active \subseteq seen
ReadsSteady ==
    pc = "rows" => /\ \A f \in ids : cur \subseteq Mentions[f]
                   /\ \A g \in steady : cur \subseteq Mentions[g] => g \in ids
WalkExcused == \A f \in Fact : depth[f] > 0 /\ f \notin seen => FallsBack(f)
HitsExcused == ~dated /\ q.kind # "at" => \A f \in hits \ seen : FallsBack(f)

Excused == Watched /\ ReadsSteady /\ WalkExcused /\ HitsExcused

(* What Track writes while a request runs.                                  *)
Passing == /\ pc # "idle" /\ pc' # "idle"
           /\ steady' \subseteq steady /\ seen \subseteq seen'
           /\ steady' \subseteq Fixed' /\ Active' \subseteq seen'

LEMMA TrackPasses ==
    ASSUME Track, pc # "idle", pc' # "idle"
    PROVE  Passing
<1>1. steady' = steady \cap Fixed' /\ seen' = seen \cup Active'
  BY DEF Track, Throughout, Sometime
<1> QED
  BY <1>1 DEF Passing

LEMMA FallsBackStill ==
    ASSUME steady' \subseteq steady, NEW f, FallsBack(f)
    PROVE  FallsBack(f)'
  BY DEF FallsBack

LEMMA WatchedStill == ASSUME Passing PROVE Watched'
  BY DEF Passing, Watched

LEMMA WalkStillExcused ==
    ASSUME Passing, WalkExcused, \A f \in Fact : depth'[f] = depth[f] \/ depth'[f] = 0
    PROVE  WalkExcused'
  BY FallsBackStill DEF Passing, WalkExcused

LEMMA HitsStillExcused ==
    ASSUME Passing, HitsExcused, hits' = hits, dated' = dated, q' = q
    PROVE  HitsExcused'
  BY FallsBackStill DEF Passing, HitsExcused

LEMMA QuietStep ==
    ASSUME Passing, Excused, hits' = hits, dated' = dated, q' = q, pc' # "rows",
           \A f \in Fact : depth'[f] = depth[f] \/ depth'[f] = 0
    PROVE  Excused'
  BY WatchedStill, WalkStillExcused, HitsStillExcused DEF Excused, ReadsSteady

(* A row of the entity that is read is a fallback unless an active one was  *)
(* collected instead.                                                       *)
LEMMA RowsExcused ==
    ASSUME Passing, HistoryTyped, Excused, ReadRows
    PROVE  WalkExcused'
<1>1. PICK e \in Entity : cur = {e}
  BY DEF ReadRows, HistoryTyped, Placed
<1> DEFINE rows == ids \cap Stored
<1>0. Preferred(rows) \in SUBSET Fact
  BY DEF Preferred, Stored
<1>2. PICK taken \in Fetch(Preferred(rows), FactLimit) :
          depth' = [f \in Fact |-> IF f \in taken /\ depth[f] = 0 THEN hop ELSE depth[f]]
  BY DEF ReadRows, Collect
<1>t. taken \subseteq Preferred(rows)
  BY <1>0, Fetched
<1>3. st' = st /\ linked' = linked /\ pc = "rows"
  BY DEF ReadRows, Walking, Reading, factVars
<1>4. Active \subseteq seen /\ steady \subseteq Active /\ Active \subseteq Stored
  BY <1>3 DEF Excused, Watched, Fixed, Active, Stored
<1>5. /\ \A f \in ids : e \in Mentions[f]
      /\ \A g \in steady : e \in Mentions[g] => g \in ids
  BY <1>1, <1>3 DEF Excused, ReadsSteady
<1>6. ASSUME NEW f \in taken, f \notin seen PROVE FallsBack(f)
  <2>1. rows \cap Active = {} /\ e \in Mentions[f]
    BY <1>4, <1>5, <1>6, <1>t DEF Preferred
  <2>2. \A g \in steady : e \notin Mentions[g]
    BY <1>4, <1>5, <2>1
  <2> QED
    BY <2>1, <2>2 DEF FallsBack
<1>7. ASSUME NEW f \in Fact, depth'[f] > 0, f \notin seen' PROVE FallsBack(f)
  <2>1. f \notin seen
    BY <1>7 DEF Passing
  <2>2. CASE f \in taken
    BY <1>6, <2>1, <2>2
  <2>3. CASE f \notin taken
    <3>1. depth'[f] = depth[f]
      BY <1>2, <2>3
    <3> QED
      BY <1>7, <2>1, <3>1 DEF Excused, WalkExcused
  <2> QED
    BY <2>2, <2>3
<1> QED
  BY <1>7, FallsBackStill DEF Passing, WalkExcused

LEMMA NamedExcused ==
    ASSUME Passing, Excused, ReadNamed
    PROVE  WalkExcused'
<1>0. {f \in Active : cur \subseteq Mentions[f]} \in SUBSET Fact
  BY DEF Active
<1>1. PICK taken \in Fetch({f \in Active : cur \subseteq Mentions[f]}, FactLimit) :
          depth' = [f \in Fact |-> IF f \in taken /\ depth[f] = 0 THEN hop ELSE depth[f]]
  BY DEF ReadNamed, Collect
<1>2. taken \subseteq seen
  BY <1>0, Fetched DEF Passing, Excused, Watched
<1>3. ASSUME NEW f \in Fact, depth'[f] > 0, f \notin seen' PROVE FallsBack(f)
  <2>1. f \notin seen
    BY <1>3 DEF Passing
  <2>2. depth'[f] = depth[f]
    BY <1>1, <1>2, <2>1
  <2> QED
    BY <1>3, <2>1, <2>2 DEF Excused, WalkExcused
<1> QED
  BY <1>3, FallsBackStill DEF Passing, WalkExcused

LEMMA RecallExcused ==
    ASSUME HistoryTyped, Excused, Passing, RecallStep
    PROVE  Excused'
<1>0. Watched'
  BY WatchedStill
<1>1. CASE Snapshot
  <2>1. q' = q /\ q.kind = "at" /\ pc' # "rows" /\ depth' = depth
    BY <1>1 DEF Snapshot, Reading, nameVars, HistoryTyped, Placed
  <2> QED
    BY <1>0, <2>1, WalkStillExcused DEF Excused, HitsExcused, ReadsSteady
<1>2. CASE Lattice
  <2>1. (dated' \/ hits' = {}) /\ pc' # "rows" /\ depth' = depth
    BY <1>2 DEF Lattice
  <2> QED
    BY <1>0, <2>1, WalkStillExcused DEF Excused, HitsExcused, ReadsSteady
<1>3. CASE Search
  <2>1. hits' \subseteq seen' /\ pc' # "rows" /\ depth' = depth
    BY <1>3 DEF Search, nameVars, Excused, Watched, Passing
  <2> QED
    BY <1>0, <2>1, WalkStillExcused DEF Excused, HitsExcused, ReadsSteady
<1>4. CASE ReadIds
  <2>1. /\ depth' = depth /\ hits' = hits /\ dated' = dated /\ q' = q
        /\ cur' = cur /\ linked' = linked
        /\ ids' = IF cur \subseteq nodes THEN {f \in linked : cur \subseteq Mentions[f]} ELSE {}
        /\ pc' = IF ids' = {} THEN "names" ELSE "rows"
    BY <1>4 DEF ReadIds, Walking, Reading, hitVars, factVars
  <2>2. ReadsSteady'
    BY <2>1 DEF ReadsSteady, Passing, Fixed
  <2> QED
    BY <1>0, <2>1, <2>2, WalkStillExcused, HitsStillExcused DEF Excused
<1>5. CASE ReadRows
  <2>1. hits' = hits /\ dated' = dated /\ q' = q /\ pc' # "rows"
    BY <1>5 DEF ReadRows, Walking, Reading, hitVars
  <2> QED
    BY <1>0, <1>5, <2>1, RowsExcused, HitsStillExcused DEF Excused, ReadsSteady
<1>6. CASE ReadNamed
  <2>1. hits' = hits /\ dated' = dated /\ q' = q /\ pc' # "rows"
    BY <1>6 DEF ReadNamed, Walking, Reading, hitVars
  <2> QED
    BY <1>0, <1>6, <2>1, NamedExcused, HitsStillExcused DEF Excused, ReadsSteady
<1>7. CASE Merge
  <2>1. /\ hits' = hits \cup extra' /\ extra' \subseteq Collected /\ pc' # "rows"
        /\ dated' = dated /\ q' = q /\ depth' = [f \in Fact |-> 0]
    BY <1>7, Fetched DEF Merge, Cuts, Reading, Collected
  <2>2. HitsExcused'
    <3> SUFFICES ASSUME ~dated, q.kind # "at", NEW f \in hits \cup extra', f \notin seen'
                 PROVE  FallsBack(f)
      BY <2>1, FallsBackStill DEF HitsExcused, Passing
    <3>1. f \notin seen
      BY DEF Passing
    <3> QED
      BY <2>1, <3>1 DEF Collected, Excused, HitsExcused, WalkExcused
  <2>3. WalkExcused'
    BY <2>1 DEF WalkExcused
  <2> QED
    BY <1>0, <2>1, <2>2, <2>3 DEF Excused, ReadsSteady
<1>8. CASE Recognize \/ Anchor \/ Resolve \/ EndResolve \/ FindSalient \/ BeginWalk
  <2>1. hits' = hits /\ dated' = dated /\ q' = q /\ pc' # "rows" /\ depth' = depth
    BY <1>8 DEF Recognize, Branch, Anchor, Resolve, EndResolve, AfterNames, FindSalient, BeginWalk,
                StartWalk, Reading, hitVars, nameVars
  <2> QED
    BY <2>1, QuietStep
<1>9. CASE ReadOut \/ ReadIn \/ EndHop \/ Rank \/ Judge
  <2>1. hits' = hits /\ dated' = dated /\ q' = q /\ pc' # "rows" /\ depth' = depth
    BY <1>9 DEF ReadOut, ReadIn, EndHop, Rank, Judge, Walking, Reading, hitVars, nameVars, askVars
  <2> QED
    BY <2>1, QuietStep
<1>10. ASSUME NEW e \in Entity, Bridge(e) \/ ReadNode(e) PROVE Excused'
  <2>1. hits' = hits /\ dated' = dated /\ q' = q /\ pc' # "rows" /\ depth' = depth
    BY <1>10 DEF Bridge, ReadNode, Walking, Reading, hitVars
  <2> QED
    BY <2>1, QuietStep
<1>11. ~Return
  BY DEF Return, Rest, Passing
<1> QED
  BY <1>1, <1>2, <1>3, <1>4, <1>5, <1>6, <1>7, <1>8, <1>9, <1>10, <1>11 DEF RecallStep

LEMMA ExcusedKept ==
    ASSUME HistoryTyped, Excused, [HistoryNext]_<<vars, history>>
    PROVE  Excused'
<1>0. Typed /\ Typed'
  BY HistoryTypedKept DEF HistoryTyped
<1>1. CASE UNCHANGED <<vars, history>>
  BY <1>1 DEF vars, factVars, askVars, hitVars, nameVars, history, Excused, Watched, ReadsSteady,
       WalkExcused, HitsExcused, FallsBack, Fixed, Active
<1>2. CASE HistoryNext /\ pc' = "idle"
  <2>1. hits' = {} /\ depth' = [f \in Fact |-> 0]
    BY <1>0, <1>2 DEF Typed, Fresh, GraphPlaces
  <2> QED
    BY <1>2, <2>1 DEF Excused, Watched, ReadsSteady, WalkExcused, HitsExcused
<1>3. CASE HistoryNext /\ pc = "idle" /\ pc' # "idle"
  <2>1. hits = {} /\ depth = [f \in Fact |-> 0]
    BY <1>0, <1>3 DEF Typed, Fresh, GraphPlaces
  <2>2. ~RecallStep /\ ~Fault /\ ~WriteFacts
    BY <1>0, <1>3, RecallStays, FaultStays DEF RecallPlaces, WalkPlaces, WriteFacts, Changes
  <2>3. hits' = hits /\ depth' = depth /\ pc' # "rows"
    BY <1>0, <1>3, <2>2, NextCases, GraphStays
       DEF HistoryNext, GraphMoves, Elsewhere, Ask, vars, hitVars, nameVars, GraphPlaces
  <2>4. seen' = Active \cup Active' /\ steady' = Fixed \cap Fixed'
    BY <1>3 DEF HistoryNext, Track, Throughout, Sometime
  <2> QED
    BY <2>1, <2>3, <2>4 DEF Excused, Watched, ReadsSteady, WalkExcused, HitsExcused
<1>4. CASE HistoryNext /\ pc # "idle" /\ pc' # "idle"
  <2>0. Passing /\ Next
    BY <1>4, TrackPasses DEF HistoryNext
  <2>1. CASE RecallStep
    BY <2>0, <2>1, RecallExcused
  <2>2. CASE Fault
    <3>1. pc' # "rows" /\ hits' = hits /\ dated' = dated /\ q' = q
      BY <2>2 DEF Fault, Branch, AfterNames, StartWalk, hitVars, askVars
    <3>2. depth' = depth \/ depth' = [f \in Fact |-> 0]
      BY <2>2, Zenon DEF Fault
    <3>3. \A f \in Fact : depth'[f] = depth[f] \/ depth'[f] = 0
      BY <3>2
    <3> QED
      BY <2>0, <3>1, <3>3, QuietStep
  <2>3. CASE GraphMoves \/ WriteFacts
    <3>1. /\ hits' = hits /\ dated' = dated /\ q' = q /\ depth' = depth /\ cur' = cur /\ ids' = ids
          /\ pc' = pc \/ pc' \in GraphPlaces
      BY <1>0, <2>3, GraphStays DEF GraphMoves, Elsewhere, WriteFacts, askVars, hitVars, nameVars
    <3>2. ReadsSteady'
      BY <2>0, <3>1 DEF Excused, ReadsSteady, Passing, GraphPlaces
    <3> QED
      BY <2>0, <3>1, <3>2, WatchedStill, WalkStillExcused, HitsStillExcused DEF Excused
  <2>4. CASE \E x \in Question : Ask(x)
    BY <1>4, <2>4 DEF Ask
  <2> QED
    BY <2>0, <2>1, <2>2, <2>3, <2>4 DEF Next, Step, GraphMoves
<1> QED
  BY <1>1, <1>2, <1>3, <1>4

(* A row that was never active while a recall over search and graph ran is  *)
(* in its answer only where _facts_for_entity falls back: some entity of it *)
(* had no fact that stayed active and linked.                               *)
THEOREM InactiveAsFallback == HistorySpec => []InactiveOnlyAsFallback
<1>1. HistoryInit => HistoryTyped /\ Excused
  BY InitHistoryTyped
     DEF HistoryInit, Init, GraphInit, Fresh, Excused, Watched, ReadsSteady, WalkExcused, HitsExcused
<1>2. Excused => InactiveOnlyAsFallback
  BY DEF Excused, HitsExcused, InactiveOnlyAsFallback, FallsBack
<1> QED
  BY <1>1, <1>2, HistoryTypedKept, ExcusedKept, PTL DEF HistorySpec
-----------------------------------------------------------------------------
(* The walk, in a store that does not move: what stands in the frontier is  *)
(* at most hop - 1 edges away, what was read of it has its neighbours in    *)
(* the next one and those of its facts collected that the LIMIT lets        *)
(* through, and nothing else was collected.                                 *)
Around(n) == Ball(live, seeds, n)
LinkedTo(e) == IF e \in nodes THEN {f \in linked \cap Stored : e \in Mentions[f]} ELSE {}

Frontiers ==
    /\ seeds \subseteq Entity
    /\ todo \cup cur \subseteq Around(hop - 1)
    /\ next \subseteq Around(hop)

Opened ==
    /\ \A e \in Around(hop - 1) :
          e \in todo \cup cur \/ Neighbours(live, e) \subseteq next \cup Around(hop - 1)
    /\ pc = "in" => \A c \in live : c[1] \in cur => c[2] \in next
    /\ pc \in {"facts", "rows", "names"} =>
          \A e \in cur : Neighbours(live, e) \subseteq next \cup Around(hop - 1)

Full(e, n) == \E F \in Fetch(FactsOf(e), FactLimit) : \A f \in F : depth[f] \in 1..n

Gathered ==
    /\ \A e \in Around(hop - 1) : e \in todo \cup cur \/ Full(e, hop)
    /\ \A n \in 1..(hop - 1) : \A e \in Around(n - 1) : Full(e, n)

Justified ==
    /\ \A f \in Fact : depth[f] <= hop
    /\ \A f \in Fact : depth[f] > 0 => \E e \in Around(depth[f] - 1) : f \in FactsOf(e)

Rows ==
    /\ pc = "rows" => cur \subseteq nodes /\ ids = {f \in linked : cur \subseteq Mentions[f]}
    /\ pc = "names" => \A e \in cur : LinkedTo(e) = {}

Walks ==
    /\ Frontiers /\ Opened /\ Gathered /\ Justified /\ Rows
    /\ pc = "merge" => todo = {} /\ (hop = MaxHops \/ next = {})

Walked == pc \in WalkPlaces /\ changes = 0 => Walks

Settled == UNCHANGED <<nodes, live, st, linked, seeds>>

LEMMA WalkStill ==
    ASSUME Settled
    PROVE  /\ \A n : Around(n)' = Around(n)
           /\ \A e : FactsOf(e)' = FactsOf(e)
           /\ \A e : LinkedTo(e)' = LinkedTo(e)
           /\ depth' = depth => \A e, n : Full(e, n)' = Full(e, n)
<1>1. \A n : Around(n)' = Around(n)
  BY DEF Settled, Around
<1>2. Active' = Active /\ Stored' = Stored
  BY DEF Settled, Active, Stored
<1>3. \A e : FactsOf(e)' = FactsOf(e) /\ LinkedTo(e)' = LinkedTo(e)
  BY <1>2 DEF Settled, FactsOf, LinkedTo, Preferred
<1> QED
  BY <1>1, <1>3 DEF Full

LEMMA WalkSettled ==
    ASSUME Walking, seeds' = seeds
    PROVE  Settled
  BY DEF Walking, Reading, Settled, graphVars, factVars

LEMMA FactsFromRows ==
    ASSUME NEW e
    PROVE  FactsOf(e) = IF LinkedTo(e) = {} THEN {f \in Active : e \in Mentions[f]}
                        ELSE Preferred(LinkedTo(e))
  BY DEF FactsOf, LinkedTo

LEMMA NodeWalks ==
    ASSUME Typed, Placed, Walks, seeds' = seeds, NEW e \in Entity, ReadNode(e)
    PROVE  Walks'
<1>1. Settled
  BY WalkSettled DEF ReadNode
<1>2. /\ pc = "walk" /\ e \in todo /\ todo' = todo \ {e} /\ cur' = {e} /\ cur = {}
      /\ pc' = IF e \in nodes THEN "out" ELSE "facts"
      /\ hop' = hop /\ next' = next /\ depth' = depth /\ live' = live
  BY <1>1 DEF ReadNode, Placed, Settled
<1>3. todo' \cup cur' = todo \cup cur
  BY <1>2
<1>4. Frontiers'
  BY <1>1, <1>2, <1>3, WalkStill DEF Walks, Frontiers, Settled
<1>5. Opened'
  <2>1. e \notin nodes => Neighbours(live, e) = {}
    BY DEF Neighbours, Touching, Typed, TypeOK, GraphTypeOK, GraphOK
  <2> QED
    BY <1>1, <1>2, <1>3, <2>1, WalkStill DEF Walks, Opened
<1>6. Gathered' /\ Justified'
  BY <1>1, <1>2, <1>3, WalkStill DEF Walks, Gathered, Justified
<1> QED
  BY <1>2, <1>4, <1>5, <1>6 DEF Walks, Rows

LEMMA OutWalks ==
    ASSUME Typed, Placed, Walks, seeds' = seeds, ReadOut
    PROVE  Walks'
<1>1. Settled
  BY WalkSettled DEF ReadOut
<1>2. /\ pc = "out" /\ pc' = "in" /\ next' = next \cup {c[2] : c \in {d \in live : d[1] \in cur}}
      /\ hop' = hop /\ todo' = todo /\ cur' = cur /\ depth' = depth /\ live' = live
      /\ live \subseteq Claim /\ hop \in Nat \ {0}
  BY <1>1 DEF ReadOut, Settled, Typed, TypeOK, GraphTypeOK, GraphOK, WalkPlaces
<1>3. next' \subseteq Around(hop)
  <2>1. ASSUME NEW c \in live, c[1] \in cur PROVE c[2] \in Around(hop)
    <3>1. Joined(live, c[1], c[2]) /\ c[2] \in Entity
      BY <1>2, <2>1, EndsAreEntities DEF Joined, Ends
    <3>2. c[1] \in Around(hop - 1) /\ hop - 1 \in Nat /\ (hop - 1) + 1 = hop
      BY <1>2, <2>1 DEF Walks, Frontiers
    <3> QED
      BY <3>1, <3>2, BallExtends DEF Around
  <2> QED
    BY <1>2, <2>1 DEF Walks, Frontiers
<1>4. Frontiers'
  BY <1>1, <1>2, <1>3, WalkStill DEF Walks, Frontiers, Settled
<1>5. Opened'
  BY <1>1, <1>2, WalkStill DEF Walks, Opened
<1>6. Gathered' /\ Justified'
  BY <1>1, <1>2, WalkStill DEF Walks, Gathered, Justified
<1> QED
  BY <1>2, <1>4, <1>5, <1>6 DEF Walks, Rows

LEMMA InWalks ==
    ASSUME Typed, Placed, Walks, seeds' = seeds, ReadIn
    PROVE  Walks'
<1>1. Settled
  BY WalkSettled DEF ReadIn
<1>2. /\ pc = "in" /\ pc' = "facts" /\ next' = next \cup {c[1] : c \in {d \in live : d[2] \in cur}}
      /\ hop' = hop /\ todo' = todo /\ cur' = cur /\ depth' = depth /\ live' = live
      /\ live \subseteq Claim /\ hop \in Nat \ {0}
  BY <1>1 DEF ReadIn, Settled, Typed, TypeOK, GraphTypeOK, GraphOK, WalkPlaces
<1>3. next' \subseteq Around(hop)
  <2>1. ASSUME NEW c \in live, c[2] \in cur PROVE c[1] \in Around(hop)
    <3>1. Joined(live, c[2], c[1]) /\ c[1] \in Entity
      BY <1>2, <2>1, EndsAreEntities DEF Joined, Ends
    <3>2. c[2] \in Around(hop - 1) /\ hop - 1 \in Nat /\ (hop - 1) + 1 = hop
      BY <1>2, <2>1 DEF Walks, Frontiers
    <3> QED
      BY <3>1, <3>2, BallExtends DEF Around
  <2> QED
    BY <1>2, <2>1 DEF Walks, Frontiers
<1>4. Frontiers'
  BY <1>1, <1>2, <1>3, WalkStill DEF Walks, Frontiers, Settled
<1>5. ASSUME NEW e \in cur, NEW m \in Neighbours(live, e) PROVE m \in next'
  <2>1. PICK c \in live : e \in Ends(c) /\ m \in Ends(c) /\ m # e
    BY DEF Neighbours, Touching
  <2>2. (c[1] = e /\ c[2] = m) \/ (c[2] = e /\ c[1] = m)
    BY <2>1 DEF Ends
  <2> QED
    BY <1>2, <2>2 DEF Walks, Opened
<1>6. Opened'
  BY <1>1, <1>2, <1>5, WalkStill DEF Walks, Opened
<1>7. Gathered' /\ Justified'
  BY <1>1, <1>2, WalkStill DEF Walks, Gathered, Justified
<1> QED
  BY <1>2, <1>4, <1>6, <1>7 DEF Walks, Rows

LEMMA IdsWalks ==
    ASSUME Typed, Placed, Walks, seeds' = seeds, ReadIds
    PROVE  Walks'
<1>1. Settled
  BY WalkSettled DEF ReadIds
<1>2. /\ pc = "facts" /\ pc' = IF ids' = {} THEN "names" ELSE "rows"
      /\ ids' = IF cur \subseteq nodes THEN {f \in linked : cur \subseteq Mentions[f]} ELSE {}
      /\ hop' = hop /\ todo' = todo /\ next' = next /\ cur' = cur /\ depth' = depth
      /\ live' = live /\ nodes' = nodes /\ linked' = linked
  BY <1>1 DEF ReadIds, Settled, walkVars
<1>3. PICK e \in Entity : cur = {e}
  BY <1>2 DEF Placed
<1>4. ids' = {} => LinkedTo(e) = {}
  BY <1>2, <1>3 DEF LinkedTo
<1>5. Rows'
  BY <1>1, <1>2, <1>3, <1>4, WalkStill DEF Rows
<1>6. Frontiers'
  BY <1>1, <1>2, WalkStill DEF Walks, Frontiers, Settled
<1>7. Opened'
  BY <1>1, <1>2, WalkStill DEF Walks, Opened
<1>8. Gathered' /\ Justified'
  BY <1>1, <1>2, WalkStill DEF Walks, Gathered, Justified
<1> QED
  BY <1>2, <1>5, <1>6, <1>7, <1>8 DEF Walks

LEMMA FullStill ==
    ASSUME Settled, \A f \in Fact : depth[f] > 0 => depth'[f] = depth[f], NEW e, NEW n \in Nat, Full(e, n)
    PROVE  Full(e, n)'
<1>1. FactsOf(e) \in SUBSET Fact
  BY DEF FactsOf, Active, Stored, Preferred
<1>2. PICK F \in Fetch(FactsOf(e), FactLimit) : \A f \in F : depth[f] \in 1..n
  BY DEF Full
<1>3. \A f \in F : depth'[f] \in 1..n
  BY <1>1, <1>2, Fetched
<1> QED
  BY <1>3, WalkStill DEF Full

(* The rows of one entity of the frontier are its facts, within the LIMIT.  *)
LEMMA CollectWalks ==
    ASSUME Typed, Walks, Settled, NEW e \in Entity, cur = {e}, pc \in {"rows", "names"},
           NEW h \in Fetch(FactsOf(e), FactLimit), Collect(h),
           UNCHANGED walkVars, pc' = "walk", cur' = {}
    PROVE  Walks'
<1>1. hop \in Nat \ {0} /\ depth \in [Fact -> Nat]
  BY DEF Typed, TypeOK, WalkPlaces
<1>0. FactsOf(e) \in SUBSET Fact /\ h \subseteq FactsOf(e)
  <2>1. FactsOf(e) \in SUBSET Fact
    BY DEF FactsOf, Active, Stored, Preferred
  <2> QED
    BY <2>1, Fetched
<1>2. depth' = [f \in Fact |-> IF f \in h /\ depth[f] = 0 THEN hop ELSE depth[f]]
  BY DEF Collect
<1>3. hop' = hop /\ todo' = todo /\ next' = next /\ live' = live
  BY DEF walkVars, Settled
<1>4. \A f \in Fact : depth[f] \in 0..hop
  BY <1>1 DEF Walks, Justified
<1>5. \A f \in h : depth'[f] \in 1..hop
  BY <1>0, <1>1, <1>2, <1>4
<1>6. \A f \in Fact : depth[f] > 0 => depth'[f] = depth[f]
  BY <1>1, <1>2
<1>8. Frontiers'
  BY <1>3, WalkStill DEF Walks, Frontiers, Settled
<1>9. Opened'
  <2>1. \A d \in Around(hop - 1) :
          d \in todo \/ Neighbours(live, d) \subseteq next \cup Around(hop - 1)
    BY DEF Walks, Opened
  <2> QED
    BY <1>3, <2>1, WalkStill DEF Opened
<1>10. Gathered'
  <2>1. ASSUME NEW d \in Around(hop - 1), d \notin todo PROVE Full(d, hop)'
    <3>1. CASE d = e
      <4>1. FactsOf(e)' = FactsOf(e)
        BY WalkStill
      <4> QED
        BY <1>3, <1>5, <3>1, <4>1 DEF Full
    <3>2. CASE d # e
      <4>1. Full(d, hop)
        BY <2>1, <3>2 DEF Walks, Gathered
      <4>2. PICK n \in Nat : n = hop
        BY <1>1
      <4>3. Full(d, n)'
        BY <1>6, <4>1, <4>2, FullStill
      <4> QED
        BY <1>3, <4>2, <4>3
    <3> QED
      BY <3>1, <3>2
  <2>2. ASSUME NEW n \in 1..(hop - 1), NEW d \in Around(n - 1) PROVE Full(d, n)'
    BY <1>1, <1>6, <2>2, FullStill DEF Walks, Gathered
  <2>3. \A n : Full(e, n)' = Full(e, n)' /\ Around(n)' = Around(n)
    BY WalkStill
  <2> QED
    BY <1>3, <2>1, <2>2, <2>3 DEF Gathered
<1>11. Justified'
  <2>1. ASSUME NEW f \in Fact
        PROVE  depth'[f] <= hop /\ (depth'[f] > 0 => \E d \in Around(depth'[f] - 1) : f \in FactsOf(d))
    <3>1. CASE f \in h /\ depth[f] = 0
      <4>1. depth'[f] = hop /\ e \in Around(hop - 1)
        BY <1>2, <3>1 DEF Walks, Frontiers
      <4> QED
        BY <1>0, <1>1, <3>1, <4>1
    <3>2. CASE ~(f \in h /\ depth[f] = 0)
      <4>1. depth'[f] = depth[f]
        BY <1>2, <3>2
      <4> QED
        BY <4>1 DEF Walks, Justified
    <3> QED
      BY <3>1, <3>2
  <2> QED
    BY <1>3, <2>1, WalkStill DEF Justified
<1> QED
  BY <1>8, <1>9, <1>10, <1>11 DEF Walks, Rows

LEMMA RowsWalks ==
    ASSUME Typed, Placed, Walks, seeds' = seeds, ReadRows
    PROVE  Walks'
<1>1. Settled
  BY WalkSettled DEF ReadRows
<1>2. PICK e \in Entity : cur = {e}
  BY DEF ReadRows, Placed
<1>3. pc = "rows" /\ UNCHANGED walkVars
  BY DEF ReadRows
<1>4. ids \cap Stored = LinkedTo(e)
  BY <1>2, <1>3 DEF Walks, Rows, LinkedTo
<1>5. CASE LinkedTo(e) = {}
  <2>1. pc' = "names" /\ cur' = cur
    BY <1>4, <1>5 DEF ReadRows
  <2>2. depth' = depth
    <3>0. PICK h \in Fetch({}, FactLimit) : Collect(h)
      BY <1>4, <1>5 DEF ReadRows, Preferred
    <3>1. depth' = [f \in Fact |-> depth[f]]
      BY <3>0, Fetched DEF Collect
    <3> QED
      BY <3>1 DEF Typed, TypeOK
  <2>3. Rows'
    BY <1>1, <1>2, <1>5, <2>1, WalkStill DEF Rows
  <2>4. hop' = hop /\ todo' = todo /\ next' = next /\ live' = live
    BY <1>1, <1>3 DEF walkVars, Settled
  <2>5. Frontiers'
    BY <1>1, <2>1, <2>4, WalkStill DEF Walks, Frontiers, Settled
  <2>6. Opened'
    BY <1>1, <1>3, <2>1, <2>4, WalkStill DEF Walks, Opened
  <2>7. Gathered' /\ Justified'
    BY <1>1, <2>1, <2>2, <2>4, WalkStill DEF Walks, Gathered, Justified
  <2> QED
    BY <2>1, <2>3, <2>5, <2>6, <2>7 DEF Walks
<1>6. CASE LinkedTo(e) # {}
  <2>1. pc' = "walk" /\ cur' = {}
    BY <1>4, <1>6 DEF ReadRows
  <2>2. \E h \in Fetch(FactsOf(e), FactLimit) : Collect(h)
    BY <1>4, <1>6, FactsFromRows DEF ReadRows
  <2> QED
    BY <1>1, <1>2, <1>3, <2>1, <2>2, CollectWalks
<1> QED
  BY <1>5, <1>6

LEMMA NamesWalks ==
    ASSUME Typed, Placed, Walks, seeds' = seeds, ReadNamed
    PROVE  Walks'
<1>1. Settled
  BY WalkSettled DEF ReadNamed
<1>2. PICK e \in Entity : cur = {e}
  BY DEF ReadNamed, Placed
<1>3. pc = "names" /\ pc' = "walk" /\ cur' = {} /\ UNCHANGED walkVars
  BY DEF ReadNamed
<1>4. FactsOf(e) = {f \in Active : e \in Mentions[f]}
  BY <1>2, <1>3, FactsFromRows DEF Walks, Rows
<1>5. {f \in Active : cur \subseteq Mentions[f]} = FactsOf(e)
  BY <1>2, <1>4
<1>6. \E h \in Fetch(FactsOf(e), FactLimit) : Collect(h)
  BY <1>5 DEF ReadNamed
<1> QED
  BY <1>1, <1>2, <1>3, <1>6, CollectWalks

(* At the end of a hop the next frontier completes the larger ball.         *)
LEMMA HopComplete ==
    ASSUME Typed, Walks, pc = "walk", cur = {}, todo = {}
    PROVE  Around(hop) \subseteq next \cup Around(hop - 1)
<1>1. hop - 1 \in Nat /\ (hop - 1) + 1 = hop /\ seeds \in SUBSET Entity /\ live \in SUBSET Claim
  BY DEF Typed, TypeOK, GraphTypeOK, GraphOK, WalkPlaces, Walks, Frontiers
<1>2. Around(hop) = Around(hop - 1) \cup UNION {Neighbours(live, e) : e \in Around(hop - 1)}
  BY <1>1, BallRound DEF Around
<1> QED
  BY <1>2 DEF Walks, Opened

LEMMA EndHopWalks ==
    ASSUME Typed, Placed, Walks, seeds' = seeds, EndHop
    PROVE  Walks'
<1>1. Settled
  BY WalkSettled DEF EndHop
<1>2. pc = "walk" /\ todo = {} /\ cur = {} /\ cur' = cur /\ depth' = depth /\ live' = live
  BY <1>1 DEF EndHop, Placed, Settled
<1>3. hop \in 1..MaxHops /\ hop \in Nat
  BY <1>2, Numbers DEF Typed, WalkPlaces
<1>4. CASE hop < MaxHops /\ next # {}
  <2>1. pc' = "walk" /\ hop' = hop + 1 /\ todo' = next /\ next' = {}
    BY <1>2, <1>4 DEF EndHop
  <2>2. (hop + 1) - 1 = hop /\ hop \in Nat /\ hop - 1 \in Nat /\ (hop - 1) + 1 = hop
    BY <1>3
  <2>3. Around(hop) \subseteq next \cup Around(hop - 1)
    BY <1>2, HopComplete
  <2>4. Frontiers'
    BY <1>1, <1>2, <2>1, <2>2, WalkStill DEF Walks, Frontiers, Settled
  <2>5. Opened'
    <3>1. ASSUME NEW e \in Around(hop), e \notin next PROVE Neighbours(live, e) \subseteq Around(hop)
      <4>1. e \in Around(hop - 1)
        BY <2>3, <3>1
      <4>2. \A m \in Neighbours(live, e) : m \in Entity /\ Joined(live, e, m)
        BY NeighbourEntities, NeighboursJoined DEF Typed, TypeOK, GraphTypeOK, GraphOK
      <4> QED
        BY <2>2, <4>1, <4>2, BallExtends DEF Around
    <3> QED
      BY <1>1, <1>2, <2>1, <2>2, <3>1, WalkStill DEF Opened
  <2>6. Gathered'
    <3>1. ASSUME NEW e \in Around(hop), e \notin next PROVE Full(e, hop + 1)
      <4>1. Full(e, hop)
        BY <1>2, <2>3, <3>1 DEF Walks, Gathered
      <4>2. 1..hop \subseteq 1..(hop + 1)
        BY <1>3
      <4> QED
        BY <4>1, <4>2 DEF Full
    <3>2. ASSUME NEW n \in 1..hop, NEW e \in Around(n - 1) PROVE Full(e, n)
      <4>1. CASE n = hop
        BY <1>2, <4>1 DEF Walks, Gathered
      <4>2. CASE n # hop
        <5>1. n \in 1..(hop - 1)
          BY <1>3, <4>2
        <5> QED
          BY <5>1 DEF Walks, Gathered
      <4> QED
        BY <4>1, <4>2
    <3> QED
      BY <1>1, <1>2, <2>1, <2>2, <3>1, <3>2, WalkStill DEF Gathered
  <2>7. Justified'
    <3>1. \A f \in Fact : depth[f] <= hop + 1
      BY <1>3 DEF Walks, Justified, Typed, TypeOK
    <3> QED
      BY <1>1, <1>2, <2>1, <3>1, WalkStill DEF Walks, Justified
  <2> QED
    BY <2>1, <2>4, <2>5, <2>6, <2>7 DEF Walks, Rows
<1>5. CASE ~(hop < MaxHops /\ next # {})
  <2>1. pc' = "merge" /\ hop' = hop /\ todo' = todo /\ next' = next
    BY <1>2, <1>5 DEF EndHop, walkVars
  <2>2. hop = MaxHops \/ next = {}
    BY <1>3, <1>5, Numbers
  <2>3. Frontiers'
    BY <1>1, <1>2, <2>1, WalkStill DEF Walks, Frontiers, Settled
  <2>4. Opened'
    BY <1>1, <1>2, <2>1, WalkStill DEF Walks, Opened
  <2>5. Gathered' /\ Justified'
    BY <1>1, <1>2, <2>1, WalkStill DEF Walks, Gathered, Justified
  <2> QED
    BY <1>2, <2>1, <2>2, <2>3, <2>4, <2>5 DEF Walks, Rows
<1> QED
  BY <1>4, <1>5

(* Where a walk begins.                                                     *)
LEMMA StartWalks ==
    ASSUME Typed', seeds' = todo', NEW found, StartWalk(found), pc' = "walk", cur' = {},
           depth' = [f \in Fact |-> 0]
    PROVE  Walks'
<1>1. hop' = 1 /\ next' = {} /\ todo' = found /\ todo' \subseteq Entity
  BY DEF StartWalk, Typed, TypeOK, GraphTypeOK
<1>2. Around(0)' = todo' /\ 1 - 1 = 0 /\ 1..0 = {}
  BY <1>1, BallZero DEF Around
<1>3. Frontiers' /\ Opened'
  BY <1>1, <1>2 DEF Frontiers, Opened
<1>4. Gathered' /\ Justified'
  BY <1>1, <1>2 DEF Gathered, Justified
<1> QED
  BY <1>3, <1>4 DEF Walks, Rows

LEMMA WalkBegins ==
    ASSUME Placed, Track, RecallStep, pc \notin WalkPlaces, pc' \in WalkPlaces
    PROVE  \E found : /\ StartWalk(found) /\ pc' = "walk" /\ cur' = {} /\ seeds' = todo'
                      /\ depth' = [f \in Fact |-> 0]
<1>1. BeginWalk
  <2>1. ~(ReadOut \/ ReadIn \/ ReadIds \/ ReadRows \/ ReadNamed \/ EndHop \/ Merge)
    BY DEF ReadOut, ReadIn, ReadIds, ReadRows, ReadNamed, EndHop, Merge, WalkPlaces
  <2>2. ~(Recognize \/ Snapshot \/ Anchor \/ Lattice \/ Search \/ Resolve \/ EndResolve
          \/ FindSalient \/ Rank \/ Judge \/ Return)
    BY DEF Recognize, Branch, Snapshot, Anchor, Lattice, Search, Resolve, EndResolve, AfterNames,
           FindSalient, Rank, Judge, Return, Rest, WalkPlaces
  <2>3. \A e \in Entity : ~Bridge(e) /\ ~ReadNode(e)
    BY DEF Bridge, ReadNode, WalkPlaces
  <2> QED
    BY <2>1, <2>2, <2>3 DEF RecallStep
<1>2. PICK found \in Resolved : StartWalk(found)
  BY <1>1 DEF BeginWalk
<1>3. pc' = "walk" /\ cur' = {} /\ depth' = depth /\ pc = "walkBridge"
  BY <1>1, <1>2 DEF BeginWalk, StartWalk, WalkPlaces, nameVars
<1>4. seeds' = todo' /\ depth' = [f \in Fact |-> 0]
  BY <1>3 DEF Track, Placed
<1> QED
  BY <1>2, <1>3, <1>4

LEMMA FaultBegins ==
    ASSUME HistoryTyped, Track, Fault, pc' \in WalkPlaces
    PROVE  \E found : /\ StartWalk(found) /\ pc' = "walk" /\ cur' = {} /\ seeds' = todo'
                      /\ depth' = [f \in Fact |-> 0]
<1>1. /\ pc \in {"walkResolve", "walkBridge"} /\ StartWalk(q.names) /\ cur' = {} /\ depth' = depth
  BY DEF Fault, Branch, AfterNames, WalkPlaces
<1>2. pc' = "walk"
  BY <1>1 DEF StartWalk, WalkPlaces
<1>3. seeds' = todo' /\ depth' = [f \in Fact |-> 0]
  BY <1>1, <1>2 DEF Track, HistoryTyped, Placed, WalkPlaces
<1> QED
  BY <1>1, <1>2, <1>3

LEMMA RecallWalked ==
    ASSUME HistoryTyped, HistoryTyped', Walked, Track, RecallStep, changes = 0, pc' \in WalkPlaces
    PROVE  Walks'
<1>0. Typed /\ Placed /\ Typed' /\ Placed'
  BY DEF HistoryTyped
<1>1. CASE pc \in WalkPlaces
  <2>1. Walks /\ seeds' = seeds
    BY <1>1 DEF Walked, Track, WalkPlaces
  <2>2. ASSUME NEW e \in Entity, ReadNode(e) PROVE Walks'
    BY <1>0, <2>1, <2>2, NodeWalks
  <2>3. ASSUME NEW e \in Entity, Bridge(e) PROVE Walks'
    BY <1>1, <2>3 DEF Bridge, WalkPlaces
  <2>4. CASE ReadOut \/ ReadIn \/ ReadIds \/ ReadRows \/ ReadNamed \/ EndHop
    BY <1>0, <2>1, <2>4, OutWalks, InWalks, IdsWalks, RowsWalks, NamesWalks, EndHopWalks
  <2>5. ~(\/ Recognize \/ Snapshot \/ Anchor \/ Lattice \/ Search \/ Resolve \/ EndResolve
          \/ FindSalient \/ BeginWalk \/ Merge \/ Rank \/ Judge \/ Return)
    BY <1>1 DEF Recognize, Snapshot, Anchor, Lattice, Search, Resolve, EndResolve, FindSalient,
                BeginWalk, Merge, Rank, Judge, Return, WalkPlaces
  <2> QED
    BY <2>2, <2>3, <2>4, <2>5 DEF RecallStep
<1>2. CASE pc \notin WalkPlaces
  <2>1. PICK found : StartWalk(found) /\ pc' = "walk" /\ cur' = {} /\ seeds' = todo'
                     /\ depth' = [f \in Fact |-> 0]
    BY <1>0, <1>2, WalkBegins
  <2> QED
    BY <1>0, <2>1, StartWalks
<1> QED
  BY <1>1, <1>2

LEMMA FaultWalked ==
    ASSUME HistoryTyped, HistoryTyped', Track, Fault, pc' \in WalkPlaces
    PROVE  Walks'
<1>1. PICK found : StartWalk(found) /\ pc' = "walk" /\ cur' = {} /\ seeds' = todo'
                   /\ depth' = [f \in Fact |-> 0]
  BY FaultBegins
<1> QED
  BY <1>1, StartWalks DEF HistoryTyped

LEMMA WalkedKept ==
    ASSUME HistoryTyped, Walked, [HistoryNext]_<<vars, history>>
    PROVE  Walked'
<1>0. HistoryTyped' /\ Typed /\ changes \in Nat
  BY HistoryTypedKept, Numbers DEF HistoryTyped, Typed, TypeOK, GraphTypeOK
<1>1. CASE UNCHANGED <<vars, history>>
  <2>1. UNCHANGED <<pc, changes, hop, todo, next, cur, ids, depth>> /\ Settled /\ live' = live
    BY <1>1 DEF vars, graphVars, walkVars, factVars, nameVars, history, Settled
  <2>2. Settled /\ linked' = linked /\ nodes' = nodes /\ seeds' = seeds
    BY <2>1 DEF Settled
  <2> QED
    BY <2>1, <2>2, WalkStill DEF Walked, Walks, Frontiers, Opened, Gathered, Justified, Rows
<1>2. CASE HistoryNext
  <2>0. Track /\ Next
    BY <1>2 DEF HistoryNext
  <2> SUFFICES ASSUME pc' \in WalkPlaces, changes' = 0 PROVE Walks'
    BY DEF Walked
  <2>1. CASE RecallStep
    BY <1>0, <2>0, <2>1, RecallStays, RecallWalked
  <2>2. CASE Fault
    BY <1>0, <2>0, <2>2, FaultWalked
  <2>3. CASE WriteFacts \/ WriteGraph
    BY <1>0, <2>3 DEF WriteFacts, WriteGraph, Changes
  <2>4. CASE \E x \in Question : Ask(x)
    BY <2>4 DEF Ask, WalkPlaces
  <2>5. CASE GraphMoves /\ ~WriteGraph
    BY <1>0, <2>5 DEF GraphMoves, GraphStep, Activate, EndActivationHop, ExportLinks, GraphReturn,
         Rest, GraphFault, ExportNodes, DetectCommunities, BeginActivation, WalkPlaces
  <2> QED
    BY <2>0, <2>1, <2>2, <2>3, <2>4, <2>5 DEF Next, Step, GraphMoves
<1> QED
  BY <1>1, <1>2

LEMMA WalkedComplete == HistoryTyped /\ Walked => WalkComplete
<1> SUFFICES ASSUME HistoryTyped, Walked, pc = "merge", changes = 0, NEW n \in 1..MaxHops
             PROVE  /\ \A e \in Around(n - 1) : Full(e, n)
                    /\ \A f \in Fact : depth[f] = n => \E e \in Around(n - 1) : f \in FactsOf(e)
  BY DEF WalkComplete, Around, Full
<1>1. Walks /\ cur = {} /\ todo = {} /\ (hop = MaxHops \/ next = {})
  BY DEF Walked, Walks, WalkPlaces, HistoryTyped, Placed
<1>2. hop \in 1..MaxHops /\ MaxHops \in Nat /\ hop - 1 \in Nat /\ n - 1 \in Nat
  BY Numbers DEF HistoryTyped, Typed, WalkPlaces
<1>3. ASSUME NEW f \in Fact, depth[f] = n PROVE \E e \in Around(n - 1) : f \in FactsOf(e)
  BY <1>1, <1>2, <1>3 DEF Walks, Justified
<1>4. ASSUME NEW e \in Around(n - 1) PROVE Full(e, n)
  <2>1. CASE n < hop
    <3>1. n \in 1..(hop - 1)
      BY <1>2, <2>1
    <3> QED
      BY <1>1, <1>4, <3>1 DEF Walks, Gathered
  <2>2. CASE n >= hop
    <3>1. e \in Around(hop - 1)
      <4>1. CASE n = hop
        BY <1>4, <4>1
      <4>2. CASE n # hop
        <5>1. next = {} /\ n - 1 >= hop - 1
          BY <1>1, <1>2, <2>2, <4>2
        <5>2. (hop - 1) + 1 = hop /\ seeds \in SUBSET Entity /\ live \in SUBSET Claim
          BY <1>1, <1>2 DEF Walks, Frontiers, HistoryTyped, Typed, TypeOK, GraphTypeOK, GraphOK
        <5>3. \A d \in Around(hop - 1) : Neighbours(live, d) \subseteq Around(hop - 1)
          BY <1>1, <5>1 DEF Walks, Opened
        <5>4. Ball(live, seeds, (hop - 1) + 1) \subseteq Ball(live, seeds, hop - 1)
          BY <1>2, <5>2, <5>3, BallRound DEF Around
        <5> QED
          BY <1>2, <1>4, <5>1, <5>4, BallStable DEF Around
      <4> QED
        BY <4>1, <4>2
    <3>2. Full(e, hop) /\ 1..hop \subseteq 1..n
      BY <1>1, <1>2, <2>2, <3>1 DEF Walks, Gathered
    <3> QED
      BY <3>2 DEF Full
  <2> QED
    BY <1>2, <2>1, <2>2
<1> QED
  BY <1>3, <1>4

(* Without writers the walk collects, of exactly the entities less than     *)
(* MaxHops edges from where it began, the facts that _facts_for_entity      *)
(* lets through its LIMIT, those of an entity by the hop that is one more   *)
(* than its distance, in whatever order it took the entities of a frontier  *)
(* and wherever it began (multihop_recall).                                 *)
THEOREM WalkIsComplete == HistorySpec => []WalkComplete
<1>1. HistoryInit => HistoryTyped /\ Walked
  BY InitHistoryTyped DEF HistoryInit, Init, GraphInit, Walked, WalkPlaces
<1> QED
  BY <1>1, HistoryTypedKept, WalkedKept, WalkedComplete, PTL DEF HistorySpec
-----------------------------------------------------------------------------
(* The walk beside writers.  The entities at the end of m edges in a row:   *)
(* the frontier of a hop holds them all, however often they were met.       *)
Steps(E, S, m) ==
    {e \in Entity : \E p \in [0..m -> Entity] :
        p[0] \in S /\ p[m] = e /\ \A i \in 1..m : Joined(E, p[i-1], p[i])}

LEMMA BallSteps ==
    ASSUME NEW E, NEW S, NEW n, NEW e \in Ball(E, S, n)
    PROVE  \E m \in 0..n : e \in Steps(E, S, m)
  BY DEF Ball, Steps, Joined

LEMMA StepsZero ==
    ASSUME NEW E, NEW S
    PROVE  Steps(E, S, 0) \subseteq S
  BY DEF Steps

LEMMA StepsLast ==
    ASSUME NEW E, NEW S, NEW m \in Nat, NEW e \in Steps(E, S, m + 1)
    PROVE  \E d \in Steps(E, S, m) : Joined(E, d, e)
<1>1. PICK p \in [0..(m + 1) -> Entity] :
          p[0] \in S /\ p[m + 1] = e /\ \A i \in 1..(m + 1) : Joined(E, p[i-1], p[i])
  BY DEF Steps
<1> DEFINE r == [i \in 0..m |-> p[i]]
<1>2. r \in [0..m -> Entity] /\ r[0] = p[0] /\ r[m] = p[m]
  OBVIOUS
<1>3. ASSUME NEW i \in 1..m PROVE Joined(E, r[i-1], r[i])
  <2>1. i \in 1..(m + 1) /\ r[i - 1] = p[i - 1] /\ r[i] = p[i]
    OBVIOUS
  <2> QED
    BY <1>1, <2>1
<1>4. Joined(E, p[m], e)
  <2>1. m + 1 \in 1..(m + 1) /\ (m + 1) - 1 = m
    OBVIOUS
  <2> QED
    BY <1>1, <2>1
<1>5. p[m] \in Entity
  BY m \in 0..(m + 1)
<1> HIDE DEF r
<1> QED
  BY <1>1, <1>2, <1>3, <1>4, <1>5 DEF Steps

LEMMA StepsShrink ==
    ASSUME NEW E, NEW F \in SUBSET E, NEW S, NEW n
    PROVE  Steps(F, S, n) \subseteq Steps(E, S, n) /\ Ball(F, S, n) \subseteq Ball(E, S, n)
<1>1. \A d, e : Joined(F, d, e) => Joined(E, d, e)
  BY DEF Joined
<1>2. Steps(F, S, n) \subseteq Steps(E, S, n)
  BY <1>1 DEF Steps
<1>3. ASSUME NEW e \in Ball(F, S, n) PROVE e \in Ball(E, S, n)
  <2>1. PICK m \in 0..n : e \in Steps(F, S, m)
    BY BallSteps
  <2>2. PICK p \in [0..m -> Entity] :
            p[0] \in S /\ p[m] = e /\ \A i \in 1..m : Joined(E, p[i-1], p[i])
    BY <1>1, <2>1 DEF Steps
  <2> QED
    BY <2>2, BallEntities DEF Ball, Joined
<1> QED
  BY <1>2, <1>3

LEMMA StepsEnd ==
    ASSUME NEW E, NEW S, NEW k \in Nat, Steps(E, S, k) = {}, NEW n \in Nat, n >= k
    PROVE  Steps(E, S, n) = {}
<1> DEFINE T == {i \in Nat : Steps(E, S, k + i) = {}}
<1>1. 0 \in T
  OBVIOUS
<1>2. ASSUME NEW i \in Nat, i \in T PROVE i + 1 \in T
  <2>1. Steps(E, S, (k + i) + 1) = {} /\ (k + i) + 1 = k + (i + 1)
    BY <1>2, StepsLast
  <2> QED
    BY <2>1
<1> HIDE DEF T
<1>3. n - k \in T /\ k + (n - k) = n
  BY <1>1, <1>2, SetInduction
<1> QED
  BY <1>3 DEF T

(* What was collected of an entity stays so, while fewer facts are steady.  *)
LEMMA ServedStill ==
    ASSUME steady' \subseteq steady, \A f \in Fact : depth[f] > 0 => depth'[f] = depth[f],
           NEW e, NEW n \in Nat, Served(e, n)
    PROVE  Served(e, n)'
<1> DEFINE mine == {f \in Fact : e \in Mentions[f] /\ depth[f] \in 1..n}
<1>1. mine \subseteq mine'
  OBVIOUS
<1>2. CASE {f \in steady : e \in Mentions[f]} \subseteq mine
  <2>1. {f \in steady' : e \in Mentions[f]} \subseteq mine'
    BY <1>1, <1>2
  <2> QED
    BY <2>1 DEF Served
<1>3. CASE \E F \in SUBSET mine : Cardinality(F) = FactLimit
  <2>1. \E F \in SUBSET mine' : Cardinality(F) = FactLimit
    BY <1>1, <1>3
  <2> QED
    BY <2>1 DEF Served
<1> QED
  BY <1>2, <1>3 DEF Served

LEMMA ServedLater ==
    ASSUME NEW e, NEW n \in Nat, NEW m \in Nat, n <= m, Served(e, n)
    PROVE  Served(e, m)
<1>1. 1..n \subseteq 1..m
  OBVIOUS
<1> QED
  BY <1>1 DEF Served

(* An entity is served by rows of it that hold all its steady facts.        *)
LEMMA CollectServes ==
    ASSUME NEW e, NEW S \in SUBSET Fact, \A f \in S : e \in Mentions[f],
           {f \in steady : e \in Mentions[f]} \subseteq S, steady' \subseteq steady,
           NEW h \in Fetch(S, FactLimit), Collect(h),
           NEW n \in Nat \ {0}, hop = n, \A f \in Fact : depth[f] \in 0..n
    PROVE  Served(e, n)'
<1> DEFINE mine == {f \in Fact : e \in Mentions[f] /\ depth'[f] \in 1..n}
<1>1. h \subseteq S
  BY Fetched
<1>2. h \subseteq mine
  BY <1>1 DEF Collect
<1>3. CASE Cardinality(h) = FactLimit
  BY <1>2, <1>3 DEF Served
<1>4. CASE Cardinality(h) = Cardinality(S)
  <2>1. h = S
    BY <1>1, <1>4, RecallAssumption, FS_Subset
  <2> QED
    BY <1>2, <2>1 DEF Served
<1> QED
  BY <1>3, <1>4 DEF Fetch
-----------------------------------------------------------------------------
(* Around the trails of edges that stayed open, the frontiers hold what     *)
(* they lead to and what was read of it was served; and the frontiers are   *)
(* within reach over edges that were open at some moment.                   *)
Trail(n) == Steps(always, seeds, n)
Reach(n) == Ball(ever, seeds, n)
LeadsOn(e) == \A m : Joined(always, e, m) => m \in next

EdgesWatched == pc # "idle" => always \subseteq live /\ live \subseteq ever

Sought ==
    /\ todo \cup cur \subseteq Reach(hop - 1)
    /\ next \subseteq Reach(hop)

Followed ==
    /\ \A e \in Trail(hop - 1) : e \in todo \cup cur \/ LeadsOn(e)
    /\ pc = "in" => \A c \in always : c[1] \in cur => c[2] \in next
    /\ pc \in {"facts", "rows", "names"} => \A e \in cur : LeadsOn(e)

Fed ==
    /\ \A e \in Trail(hop - 1) : e \in todo \cup cur \/ Served(e, hop)
    /\ \A n \in 1..(hop - 1) : \A e \in Trail(n - 1) : Served(e, n)

Met == \A f \in Fact : /\ depth[f] <= hop
                       /\ depth[f] > 0 => Reach(depth[f] - 1) \cap Mentions[f] # {}

Reaching ==
    /\ Sought /\ Followed /\ Fed /\ Met
    /\ pc = "merge" => todo = {} /\ (hop = MaxHops \/ next = {})

Reached == EdgesWatched /\ (pc \in WalkPlaces => Reaching)

(* What Track writes while a walk runs.                                     *)
Moving == /\ always' \subseteq always /\ ever \subseteq ever' /\ steady' \subseteq steady
          /\ always \subseteq live /\ live \subseteq ever /\ seeds' = seeds

LEMMA MovingStill ==
    ASSUME Moving
    PROVE  /\ \A n : Trail(n)' \subseteq Trail(n)
           /\ \A n : Reach(n) \subseteq Reach(n)'
           /\ next \subseteq next' => \A e : LeadsOn(e) => LeadsOn(e)'
           /\ depth' = depth => \A e : \A n \in Nat : Served(e, n) => Served(e, n)'
<1>1. \A n : Trail(n)' \subseteq Trail(n)
  BY StepsShrink DEF Moving, Trail
<1>2. \A n : Reach(n) \subseteq Reach(n)'
  BY StepsShrink DEF Moving, Reach
<1>3. next \subseteq next' => \A e : LeadsOn(e) => LeadsOn(e)'
  BY DEF Moving, LeadsOn, Joined
<1>4. depth' = depth => \A e : \A n \in Nat : Served(e, n) => Served(e, n)'
  BY ServedStill DEF Moving
<1> QED
  BY <1>1, <1>2, <1>3, <1>4

(* A step that collects nothing and stays in the hop.                       *)
LEMMA FedStill ==
    ASSUME Moving, Typed, pc \in WalkPlaces, Fed, Met, hop' = hop, depth' = depth,
           todo' \cup cur' = todo \cup cur
    PROVE  Fed' /\ Met'
<1>1. hop \in Nat /\ 1..(hop - 1) \subseteq Nat /\ depth \in [Fact -> Nat]
  BY DEF Typed, TypeOK, WalkPlaces
<1>2. /\ \A n : Trail(n)' \subseteq Trail(n)
      /\ \A e : \A n \in Nat : Served(e, n) => Served(e, n)'
      /\ \A n : Reach(n) \subseteq Reach(n)'
  BY MovingStill
<1>3. PICK n \in Nat : n = hop
  BY <1>1
<1>4. ASSUME NEW e \in Trail(hop - 1)' PROVE e \in todo' \cup cur' \/ Served(e, hop)'
  <2>1. e \in Trail(n - 1)
    BY <1>2, <1>3, <1>4
  <2>2. e \in todo \cup cur \/ Served(e, n)
    BY <1>3, <2>1 DEF Fed
  <2>3. e \in todo' \cup cur' \/ Served(e, n)'
    BY <1>2, <2>2
  <2> QED
    BY <1>3, <2>3
<1>5. ASSUME NEW k \in 1..(n - 1), NEW e \in Trail(k - 1)' PROVE Served(e, k)'
  <2>1. e \in Trail(k - 1)
    BY <1>2, <1>5
  <2>2. Served(e, k) /\ k \in Nat
    BY <1>3, <2>1 DEF Fed
  <2> QED
    BY <1>2, <2>2
<1>6. ASSUME NEW f \in Fact
      PROVE  depth'[f] <= hop /\ (depth'[f] > 0 => Reach(depth[f] - 1)' \cap Mentions[f] # {})
  <2>1. PICK i \in Nat : i = depth[f]
    BY <1>1
  <2>2. Reach(i - 1) \subseteq Reach(i - 1)'
    BY <1>2
  <2> QED
    BY <2>1, <2>2 DEF Met
<1> QED
  BY <1>3, <1>4, <1>5, <1>6 DEF Fed, Met

LEMMA WalkMoves ==
    ASSUME Typed, pc \in WalkPlaces, EdgesWatched, Watched, Track, Walking, pc' # "idle"
    PROVE  Moving /\ live' = live
<1>1. pc # "idle" /\ pc \notin {"walkResolve", "walkBridge"}
  BY DEF WalkPlaces
<1> QED
  BY <1>1 DEF Moving, EdgesWatched, Track, Throughout, Sometime, Walking, Reading, graphVars

LEMMA NodeReaches ==
    ASSUME Typed, Placed, Reaching, Moving, NEW e \in Entity, ReadNode(e)
    PROVE  Reaching'
<1>1. /\ pc = "walk" /\ e \in todo /\ todo' = todo \ {e} /\ cur' = {e} /\ cur = {}
      /\ pc' = IF e \in nodes THEN "out" ELSE "facts"
      /\ hop' = hop /\ next' = next /\ depth' = depth
  BY DEF ReadNode, Placed
<1>2. todo' \cup cur' = todo \cup cur
  BY <1>1
<1>3. Fed' /\ Met'
  BY <1>1, <1>2, FedStill DEF Reaching, WalkPlaces
<1>4. Sought'
  BY <1>1, <1>2, MovingStill DEF Reaching, Sought
<1>5. Followed'
  <2>1. e \notin nodes => LeadsOn(e)'
    BY DEF LeadsOn, Joined, Moving, Typed, TypeOK, GraphTypeOK, GraphOK
  <2> QED
    BY <1>1, <1>2, <2>1, MovingStill DEF Reaching, Followed
<1> QED
  BY <1>1, <1>3, <1>4, <1>5 DEF Reaching

(* The two statements that open the node add the other ends of its edges.   *)
LEMMA EndReached ==
    ASSUME Typed, pc \in WalkPlaces, Reaching, Moving, NEW c \in live,
           NEW d \in cur, NEW e, Ends(c) = {d, e}
    PROVE  e \in Reach(hop)
<1>1. hop - 1 \in Nat /\ (hop - 1) + 1 = hop
  BY DEF Typed, TypeOK, WalkPlaces
<1>2. e \in Entity
  BY EndsAreEntities DEF Typed, TypeOK, GraphTypeOK, GraphOK
<1>3. Joined(ever, d, e) /\ d \in Ball(ever, seeds, hop - 1)
  BY DEF Joined, Moving, Reaching, Sought, Reach
<1> QED
  BY <1>1, <1>2, <1>3, BallExtends DEF Reach

LEMMA OutReaches ==
    ASSUME Typed, Placed, Reaching, Moving, ReadOut
    PROVE  Reaching'
<1>1. /\ pc = "out" /\ pc' = "in" /\ next' = next \cup {c[2] : c \in {d \in live : d[1] \in cur}}
      /\ hop' = hop /\ todo' = todo /\ cur' = cur /\ depth' = depth
  BY DEF ReadOut
<1>2. Fed' /\ Met'
  BY <1>1, FedStill DEF Reaching, WalkPlaces
<1>3. next' \subseteq Reach(hop)
  <2>1. ASSUME NEW c \in live, c[1] \in cur PROVE c[2] \in Reach(hop)
    BY <1>1, <2>1, EndReached DEF Ends, WalkPlaces
  <2> QED
    BY <1>1, <2>1 DEF Reaching, Sought
<1>4. Sought'
  BY <1>1, <1>3, MovingStill DEF Reaching, Sought
<1>5. Followed'
  <2>1. \A c \in always' : c[1] \in cur' => c[2] \in next'
    BY <1>1 DEF Moving
  <2>2. next \subseteq next'
    BY <1>1
  <2> QED
    BY <1>1, <2>1, <2>2, MovingStill DEF Reaching, Followed
<1> QED
  BY <1>1, <1>2, <1>4, <1>5 DEF Reaching

LEMMA InReaches ==
    ASSUME Typed, Placed, Reaching, Moving, ReadIn
    PROVE  Reaching'
<1>1. /\ pc = "in" /\ pc' = "facts" /\ next' = next \cup {c[1] : c \in {d \in live : d[2] \in cur}}
      /\ hop' = hop /\ todo' = todo /\ cur' = cur /\ depth' = depth
  BY DEF ReadIn
<1>2. Fed' /\ Met'
  BY <1>1, FedStill DEF Reaching, WalkPlaces
<1>3. next' \subseteq Reach(hop)
  <2>1. ASSUME NEW c \in live, c[2] \in cur PROVE c[1] \in Reach(hop)
    <3>1. Ends(c) = {c[2], c[1]}
      BY DEF Ends
    <3> QED
      BY <1>1, <2>1, <3>1, EndReached DEF WalkPlaces
  <2> QED
    BY <1>1, <2>1 DEF Reaching, Sought
<1>4. Sought'
  BY <1>1, <1>3, MovingStill DEF Reaching, Sought
<1>5. Followed'
  <2>1. ASSUME NEW e \in cur PROVE LeadsOn(e)'
    <3>1. SUFFICES ASSUME NEW m, NEW c \in always', Ends(c) = {e, m} PROVE m \in next'
      BY DEF LeadsOn, Joined
    <3>2. c \in always /\ c \in live
      BY DEF Moving
    <3>3. (c[1] = e /\ c[2] = m) \/ (c[2] = e /\ c[1] = m)
      BY <3>1 DEF Ends
    <3> QED
      BY <1>1, <2>1, <3>2, <3>3 DEF Reaching, Followed
  <2>2. next \subseteq next'
    BY <1>1
  <2> QED
    BY <1>1, <2>1, <2>2, MovingStill DEF Reaching, Followed
<1> QED
  BY <1>1, <1>2, <1>4, <1>5 DEF Reaching

(* A step of the walk that moves only its place.                            *)
LEMMA PlaceReaches ==
    ASSUME Typed, Reaching, Moving, UNCHANGED <<hop, todo, next, cur, depth>>,
           \/ pc' = pc /\ pc \in WalkPlaces
           \/ {pc, pc'} \subseteq {"facts", "rows", "names"}
    PROVE  Reaching'
<1>1. hop' = hop /\ todo' = todo /\ next' = next /\ cur' = cur /\ depth' = depth /\ pc \in WalkPlaces
  BY DEF WalkPlaces
<1>2. Fed' /\ Met'
  BY <1>1, FedStill DEF Reaching
<1>3. Sought'
  BY <1>1, MovingStill DEF Reaching, Sought
<1>4. Followed'
  BY <1>1, MovingStill DEF Reaching, Followed, Moving
<1> QED
  BY <1>1, <1>2, <1>3, <1>4 DEF Reaching

LEMMA CollectReaches ==
    ASSUME Typed, Placed, Reaching, Moving, NEW e \in Entity, cur = {e}, pc \in {"rows", "names"},
           NEW S \in SUBSET Fact, \A f \in S : e \in Mentions[f],
           {f \in steady : e \in Mentions[f]} \subseteq S,
           NEW h \in Fetch(S, FactLimit), Collect(h), UNCHANGED walkVars, pc' = "walk", cur' = {}
    PROVE  Reaching'
<1>1. /\ hop \in Nat \ {0} /\ depth \in [Fact -> Nat]
      /\ hop' = hop /\ todo' = todo /\ next' = next /\ pc \in WalkPlaces
  BY DEF Typed, TypeOK, WalkPlaces, walkVars
<1>2. depth' = [f \in Fact |-> IF f \in h /\ depth[f] = 0 THEN hop ELSE depth[f]] /\ h \subseteq S
  BY Fetched DEF Collect
<1>3. \A f \in Fact : depth[f] \in 0..hop /\ (depth[f] > 0 => depth'[f] = depth[f])
  BY <1>1, <1>2 DEF Reaching, Met
<1>4. steady' \subseteq steady
  BY DEF Moving
<1>5. PICK n \in Nat \ {0} : n = hop
  BY <1>1
<1>6. Served(e, n)'
  BY <1>3, <1>4, <1>5, CollectServes
<1>7. Fed'
  <2>1. \A d : \A k \in Nat : Served(d, k) => Served(d, k)'
    BY <1>3, <1>4, ServedStill
  <2>2. ASSUME NEW d \in Trail(n - 1)', d \notin todo PROVE Served(d, n)'
    <3>1. d \in Trail(n - 1)
      BY MovingStill
    <3> QED
      BY <1>5, <1>6, <2>1, <2>2, <3>1 DEF Reaching, Fed
  <2>3. ASSUME NEW k \in 1..(n - 1), NEW d \in Trail(k - 1)' PROVE Served(d, k)'
    <3>1. d \in Trail(k - 1)
      BY MovingStill
    <3>2. k \in Nat /\ k \in 1..(hop - 1)
      BY <1>5
    <3> QED
      BY <2>1, <3>1, <3>2 DEF Reaching, Fed
  <2> QED
    BY <1>1, <1>5, <2>2, <2>3 DEF Fed
<1>8. Met'
  <2>1. ASSUME NEW f \in Fact
        PROVE  depth'[f] <= hop /\ (depth'[f] > 0 => Reach(depth'[f] - 1) \cap Mentions[f] # {})
    <3>1. CASE f \in h /\ depth[f] = 0
      <4>1. depth'[f] = hop /\ e \in Reach(hop - 1) /\ e \in Mentions[f]
        BY <1>2, <3>1 DEF Reaching, Sought
      <4> QED
        BY <1>1, <4>1
    <3>2. CASE ~(f \in h /\ depth[f] = 0)
      <4>1. depth'[f] = depth[f]
        BY <1>2, <3>2
      <4> QED
        BY <4>1 DEF Reaching, Met
    <3> QED
      BY <3>1, <3>2
  <2> QED
    BY <1>1, <2>1, MovingStill DEF Met
<1>9. Sought'
  BY <1>1, MovingStill DEF Reaching, Sought
<1>10. Followed'
  <2>1. \A d \in Trail(hop - 1) : d \in todo \/ LeadsOn(d)
    BY DEF Reaching, Followed
  <2> QED
    BY <1>1, <2>1, MovingStill DEF Followed
<1> QED
  BY <1>7, <1>8, <1>9, <1>10 DEF Reaching

LEMMA RowsReach ==
    ASSUME Typed, Placed, Excused, Reaching, Moving, ReadRows
    PROVE  Reaching'
<1>1. PICK e \in Entity : cur = {e}
  BY DEF ReadRows, Placed
<1> DEFINE rows == ids \cap Stored
<1>2. pc = "rows" /\ UNCHANGED walkVars
  BY DEF ReadRows
<1>3. /\ \A f \in ids : e \in Mentions[f]
      /\ \A g \in steady : e \in Mentions[g] => g \in ids
      /\ steady \subseteq Active /\ Active \subseteq Stored /\ Stored \subseteq Fact
  BY <1>1, <1>2 DEF Excused, ReadsSteady, Watched, Fixed, Active, Stored
<1>4. PICK h \in Fetch(Preferred(rows), FactLimit) : Collect(h)
  BY DEF ReadRows
<1>5. CASE rows = {}
  <2>1. pc' = "names" /\ cur' = cur
    BY <1>5 DEF ReadRows
  <2>2. depth' = depth
    <3>1. h \in Fetch({}, FactLimit)
      BY <1>4, <1>5 DEF Preferred
    <3>2. depth' = [f \in Fact |-> depth[f]]
      BY <1>4, <3>1, Fetched DEF Collect
    <3> QED
      BY <3>2 DEF Typed, TypeOK
  <2> QED
    BY <1>2, <2>1, <2>2, PlaceReaches DEF walkVars
<1>6. CASE rows # {}
  <2>1. pc' = "walk" /\ cur' = {}
    BY <1>6 DEF ReadRows
  <2>2. /\ Preferred(rows) \in SUBSET Fact /\ \A f \in Preferred(rows) : e \in Mentions[f]
        /\ {f \in steady : e \in Mentions[f]} \subseteq Preferred(rows)
    BY <1>3 DEF Preferred
  <2> QED
    BY <1>1, <1>2, <1>4, <2>1, <2>2, CollectReaches
<1> QED
  BY <1>5, <1>6

LEMMA NamesReach ==
    ASSUME Typed, Placed, Excused, Reaching, Moving, ReadNamed
    PROVE  Reaching'
<1>1. PICK e \in Entity : cur = {e}
  BY DEF ReadNamed, Placed
<1> DEFINE named == {f \in Active : cur \subseteq Mentions[f]}
<1>2. pc = "names" /\ pc' = "walk" /\ cur' = {} /\ UNCHANGED walkVars
  BY DEF ReadNamed
<1>3. steady \subseteq Active /\ Active \subseteq Fact
  BY <1>2 DEF Excused, Watched, Fixed, Active
<1>4. PICK h \in Fetch(named, FactLimit) : Collect(h)
  BY DEF ReadNamed
<1>5. /\ named \in SUBSET Fact /\ \A f \in named : e \in Mentions[f]
      /\ {f \in steady : e \in Mentions[f]} \subseteq named
  BY <1>1, <1>3
<1> HIDE DEF named
<1> QED
  BY <1>1, <1>2, <1>4, <1>5, CollectReaches

LEMMA EndHopReaches ==
    ASSUME Typed, Placed, Reaching, Moving, EndHop
    PROVE  Reaching'
<1>1. pc = "walk" /\ todo = {} /\ cur = {} /\ cur' = cur /\ depth' = depth
  BY DEF EndHop, Placed
<1>2. hop \in 1..MaxHops /\ hop \in Nat /\ (hop + 1) - 1 = hop /\ (hop - 1) + 1 = hop /\ hop - 1 \in Nat
  BY <1>1, Numbers DEF Typed, WalkPlaces
<1>3. CASE hop < MaxHops /\ next # {}
  <2>1. pc' = "walk" /\ hop' = hop + 1 /\ todo' = next /\ next' = {}
    BY <1>1, <1>3 DEF EndHop
  <2>2. Trail(hop) \subseteq next
    <3>1. ASSUME NEW e \in Trail(hop) PROVE e \in next
      <4>1. PICK d \in Trail(hop - 1) : Joined(always, d, e)
        BY <1>2, StepsLast DEF Trail
      <4> QED
        BY <1>1, <4>1 DEF Reaching, Followed, LeadsOn
    <3> QED
      BY <3>1
  <2>3. PICK n \in Nat \ {0} : n = hop
    BY <1>2
  <2>4. Trail(n)' \subseteq next
    BY <2>2, <2>3, MovingStill
  <2>5. Sought'
    BY <1>1, <1>2, <2>1, MovingStill DEF Reaching, Sought
  <2>6. Followed'
    BY <1>1, <1>2, <2>1, <2>3, <2>4 DEF Followed
  <2>7. Fed'
    <3>1. ASSUME NEW k \in 1..n, NEW e \in Trail(k - 1)' PROVE Served(e, k)'
      <4>1. e \in Trail(k - 1)
        BY MovingStill
      <4>2. Served(e, k)
        <5>1. CASE k = n
          BY <1>1, <2>3, <4>1, <5>1 DEF Reaching, Fed
        <5>2. CASE k # n
          <6>1. k \in 1..(hop - 1)
            BY <2>3, <5>2
          <6> QED
            BY <4>1, <6>1 DEF Reaching, Fed
        <5> QED
          BY <5>1, <5>2
      <4> QED
        BY <1>1, <4>2, MovingStill
    <3> QED
      BY <1>1, <1>2, <2>1, <2>3, <2>4, <3>1 DEF Fed
  <2>8. Met'
    <3>1. \A f \in Fact : depth[f] \in Nat /\ depth[f] <= hop + 1
      BY <1>2 DEF Reaching, Met, Typed, TypeOK
    <3> QED
      BY <1>1, <2>1, <3>1, MovingStill DEF Reaching, Met
  <2> QED
    BY <2>1, <2>5, <2>6, <2>7, <2>8 DEF Reaching
<1>4. CASE ~(hop < MaxHops /\ next # {})
  <2>1. pc' = "merge" /\ hop' = hop /\ todo' = todo /\ next' = next
    BY <1>1, <1>4 DEF EndHop, walkVars
  <2>2. hop = MaxHops \/ next = {}
    BY <1>2, <1>4, Numbers
  <2>3. Fed' /\ Met'
    BY <1>1, <2>1, FedStill DEF Reaching, WalkPlaces
  <2>4. Sought' /\ Followed'
    BY <1>1, <2>1, MovingStill DEF Reaching, Sought, Followed
  <2> QED
    BY <1>1, <2>1, <2>2, <2>3, <2>4 DEF Reaching
<1> QED
  BY <1>3, <1>4

LEMMA StartReaches ==
    ASSUME Typed', seeds' = todo', NEW found, StartWalk(found), pc' = "walk", cur' = {},
           depth' = [f \in Fact |-> 0]
    PROVE  Reaching'
<1>1. hop' = 1 /\ next' = {} /\ todo' \subseteq Entity /\ 1 - 1 = 0 /\ 1..0 = {}
  BY DEF StartWalk, Typed, TypeOK, GraphTypeOK
<1>2. Reach(0)' = todo'
  BY <1>1, BallZero DEF Reach
<1>3. Trail(0)' \subseteq todo'
  BY StepsZero DEF Trail
<1>4. Sought' /\ Followed' /\ Fed' /\ Met'
  BY <1>1, <1>2, <1>3 DEF Sought, Followed, Fed, Met
<1> QED
  BY <1>4 DEF Reaching

LEMMA RecallReaches ==
    ASSUME HistoryTyped, HistoryTyped', Excused, Reached, Track, RecallStep, pc' \in WalkPlaces
    PROVE  Reaching'
<1>0. Typed /\ Placed /\ Typed' /\ Placed' /\ pc' # "idle"
  BY DEF HistoryTyped, WalkPlaces
<1>1. CASE pc \in WalkPlaces
  <2>1. Reaching /\ EdgesWatched /\ Watched
    BY <1>1 DEF Reached, Excused
  <2>2. ASSUME NEW e \in Entity, ReadNode(e) PROVE Reaching'
    BY <1>0, <1>1, <2>1, <2>2, WalkMoves, NodeReaches DEF ReadNode
  <2>3. ASSUME NEW e \in Entity, Bridge(e) PROVE FALSE
    BY <1>1, <2>3 DEF Bridge, WalkPlaces
  <2>4. CASE ReadOut
    BY <1>0, <1>1, <2>1, <2>4, WalkMoves, OutReaches DEF ReadOut
  <2>5. CASE ReadIn
    BY <1>0, <1>1, <2>1, <2>5, WalkMoves, InReaches DEF ReadIn
  <2>6. CASE ReadIds
    <3>1. Moving
      BY <1>0, <1>1, <2>1, <2>6, WalkMoves DEF ReadIds
    <3>2. UNCHANGED <<hop, todo, next, cur, depth>> /\ {pc, pc'} \subseteq {"facts", "rows", "names"}
      BY <2>6 DEF ReadIds, walkVars
    <3> QED
      BY <1>0, <2>1, <3>1, <3>2, PlaceReaches
  <2>7. CASE ReadRows
    BY <1>0, <1>1, <2>1, <2>7, WalkMoves, RowsReach DEF ReadRows
  <2>8. CASE ReadNamed
    BY <1>0, <1>1, <2>1, <2>8, WalkMoves, NamesReach DEF ReadNamed
  <2>9. CASE EndHop
    BY <1>0, <1>1, <2>1, <2>9, WalkMoves, EndHopReaches DEF EndHop
  <2>10. ~(\/ Recognize \/ Snapshot \/ Anchor \/ Lattice \/ Search \/ Resolve \/ EndResolve
           \/ FindSalient \/ BeginWalk \/ Merge \/ Rank \/ Judge \/ Return)
    BY <1>1 DEF Recognize, Snapshot, Anchor, Lattice, Search, Resolve, EndResolve, FindSalient,
                BeginWalk, Merge, Rank, Judge, Return, WalkPlaces
  <2> QED
    BY <2>2, <2>3, <2>4, <2>5, <2>6, <2>7, <2>8, <2>9, <2>10 DEF RecallStep
<1>2. CASE pc \notin WalkPlaces
  <2>1. PICK found : StartWalk(found) /\ pc' = "walk" /\ cur' = {} /\ seeds' = todo'
                     /\ depth' = [f \in Fact |-> 0]
    BY <1>0, <1>2, WalkBegins
  <2> QED
    BY <1>0, <2>1, StartReaches
<1> QED
  BY <1>1, <1>2

LEMMA FaultReaches ==
    ASSUME HistoryTyped, HistoryTyped', Track, Fault, pc' \in WalkPlaces
    PROVE  Reaching'
<1>1. PICK found : StartWalk(found) /\ pc' = "walk" /\ cur' = {} /\ seeds' = todo'
                   /\ depth' = [f \in Fact |-> 0]
  BY FaultBegins
<1> QED
  BY <1>1, StartReaches DEF HistoryTyped

LEMMA ReachedKept ==
    ASSUME HistoryTyped, Excused, Reached, [HistoryNext]_<<vars, history>>
    PROVE  Reached'
<1>0. HistoryTyped' /\ Typed
  BY HistoryTypedKept DEF HistoryTyped
<1>1. CASE UNCHANGED <<vars, history>>
  <2>1. UNCHANGED <<pc, hop, todo, next, cur, depth, live, steady, seeds, ever, always>>
    BY <1>1 DEF vars, graphVars, walkVars, nameVars, history
  <2>2. EdgesWatched'
    BY <2>1 DEF Reached, EdgesWatched
  <2>3. ASSUME pc \in WalkPlaces PROVE Reaching'
    <3>1. Reaching /\ Moving
      BY <2>1, <2>3 DEF Reached, EdgesWatched, Moving, WalkPlaces
    <3> QED
      BY <1>0, <2>1, <2>3, <3>1, PlaceReaches
  <2> QED
    BY <2>1, <2>2, <2>3 DEF Reached
<1>2. CASE HistoryNext
  <2>0. Track /\ Next
    BY <1>2 DEF HistoryNext
  <2>e. EdgesWatched'
    BY <2>0 DEF Track, Throughout, Sometime, EdgesWatched
  <2> SUFFICES ASSUME pc' \in WalkPlaces PROVE Reaching'
    BY <2>e DEF Reached
  <2>1. CASE RecallStep
    BY <1>0, <2>0, <2>1, RecallReaches
  <2>2. CASE Fault
    BY <1>0, <2>0, <2>2, FaultReaches
  <2>3. CASE WriteFacts \/ GraphMoves
    <3>1. pc' = pc
      BY <1>0, <2>3, GraphStays DEF WriteFacts, GraphMoves, GraphPlaces, WalkPlaces
    <3>2. UNCHANGED <<hop, todo, next, cur, depth>>
      BY <2>3, <3>1 DEF WriteFacts, GraphMoves, Elsewhere, GraphStep, Activate, EndActivationHop,
           ExportLinks, GraphReturn, Rest, GraphFault, WriteGraph, ExportNodes, DetectCommunities,
           BeginActivation, WalkPlaces, walkVars, nameVars
    <3>3. Reaching /\ Moving
      BY <2>0, <3>1 DEF Reached, EdgesWatched, Moving, Track, Throughout, Sometime, WalkPlaces
    <3> QED
      BY <1>0, <3>1, <3>2, <3>3, PlaceReaches
  <2>4. CASE \E x \in Question : Ask(x)
    BY <2>4 DEF Ask, WalkPlaces
  <2> QED
    BY <2>0, <2>1, <2>2, <2>3, <2>4, NextCases DEF vars, HistoryNext, Next, Step, GraphMoves
<1> QED
  BY <1>1, <1>2

LEMMA ReachedReaches == HistoryTyped /\ Reached => WalkReaches
<1> SUFFICES ASSUME HistoryTyped, Reached, pc = "merge", NEW n \in 1..MaxHops
             PROVE  /\ \A e \in Ball(always, seeds, n - 1) : Served(e, n)
                    /\ \A f \in Fact : depth[f] = n => Reach(n - 1) \cap Mentions[f] # {}
  BY DEF WalkReaches, Reach
<1>1. Reaching /\ cur = {} /\ todo = {} /\ (hop = MaxHops \/ next = {})
  BY DEF Reached, Reaching, WalkPlaces, HistoryTyped, Placed
<1>2. hop \in 1..MaxHops /\ MaxHops \in Nat /\ hop - 1 \in Nat /\ (hop - 1) + 1 = hop /\ n \in Nat
  BY Numbers DEF HistoryTyped, Typed, WalkPlaces
<1>3. ASSUME NEW f \in Fact, depth[f] = n PROVE Reach(n - 1) \cap Mentions[f] # {}
  BY <1>1, <1>2, <1>3 DEF Reaching, Met
<1>4. ASSUME NEW e \in Ball(always, seeds, n - 1) PROVE Served(e, n)
  <2>1. PICK m \in 0..(n - 1) : e \in Trail(m)
    BY BallSteps DEF Trail
  <2>2. m \in Nat /\ m + 1 \in Nat /\ m + 1 <= n /\ (m + 1) - 1 = m
    BY <1>2, <2>1
  <2>3. CASE m + 1 < hop
    <3>1. m + 1 \in 1..(hop - 1)
      BY <1>2, <2>2, <2>3
    <3>2. Served(e, m + 1)
      BY <1>1, <2>1, <2>2, <3>1 DEF Reaching, Fed
    <3> QED
      BY <1>2, <2>2, <3>2, ServedLater
  <2>4. CASE m + 1 = hop
    <3>1. Served(e, m + 1)
      BY <1>1, <2>1, <2>2, <2>4 DEF Reaching, Fed
    <3> QED
      BY <1>2, <2>2, <3>1, ServedLater
  <2>5. CASE m + 1 > hop
    <3>1. next = {} /\ m >= hop
      BY <1>1, <1>2, <2>2, <2>5
    <3>2. ASSUME NEW d \in Trail(hop) PROVE FALSE
      <4>1. PICK c \in Trail(hop - 1) : Joined(always, c, d)
        BY <1>2, StepsLast DEF Trail
      <4> QED
        BY <1>1, <3>1, <4>1 DEF Reaching, Followed, LeadsOn
    <3>3. Trail(m) = {}
      BY <1>2, <2>2, <3>1, <3>2, StepsEnd DEF Trail
    <3> QED
      BY <2>1, <3>3
  <2> QED
    BY <1>2, <2>2, <2>3, <2>4, <2>5
<1> QED
  BY <1>3, <1>4

(* Beside writers that add and close edges and facts between any two of its *)
(* statements the walk still collects, by hop n, the facts that stay active *)
(* and linked of every entity that less than n edges, each open all along,  *)
(* join to where it began, as far as the LIMIT lets it; and what it takes   *)
(* at a hop is never farther over the edges that were open at some moment   *)
(* (multihop_recall, query_subgraph, _facts_for_entity).                    *)
THEOREM WalkReachesBesideWriters == HistorySpec => []WalkReaches
<1>1. HistoryInit => HistoryTyped /\ Excused /\ Reached
  BY InitHistoryTyped
     DEF HistoryInit, Init, GraphInit, Fresh, Excused, Watched, ReadsSteady, WalkExcused, HitsExcused,
         Reached, EdgesWatched, WalkPlaces
<1> QED
  BY <1>1, HistoryTypedKept, ExcusedKept, ReachedKept, ReachedReaches, PTL DEF HistorySpec
=============================================================================

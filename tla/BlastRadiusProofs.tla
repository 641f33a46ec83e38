-------------------------- MODULE BlastRadiusProofs --------------------------
(***************************************************************************)
(* The search of compute_blast_radius is correct on every dependency map of *)
(* any set of services: what it scores is what transitively depends on the  *)
(* service. The invariant says that it visits only such services and loses  *)
(* none of those its visits lead to.                                        *)
(***************************************************************************)
EXTENDS BlastRadius, FiniteSetTheorems, TLAPS

Reach == TransitiveDependents(service, depMap)

\* Nothing is visited or about to be that does not depend on the service.
Sound == /\ visited \cup left \subseteq Reach
         /\ Queued \subseteq visited \cup {service}

\* The score is taken when nothing is left to do.
Scored == score # NoScore =>
            /\ left = {} /\ queue = <<>>
            /\ score = ScoreFromCount(Cardinality(visited))

IInv == TypeOK /\ Sound /\ NobodyLost /\ Scored

-----------------------------------------------------------------------------
(* Dependency maps *)

\* A direct dependent is a transitive one.
LEMMA DirectIsTransitive ==
  ASSUME NEW s \in Services, NEW map \in DependencyMaps
  PROVE  DirectDependents(s, map) \subseteq TransitiveDependents(s, map)
BY DEF DirectDependents, TransitiveDependents

\* So is every dependent of a transitive dependent.
LEMMA TransitiveIsClosed ==
  ASSUME NEW s \in Services, NEW map \in DependencyMaps
  PROVE  Closed(TransitiveDependents(s, map), map)
<1>1. SUFFICES ASSUME NEW t \in TransitiveDependents(s, map),
                      NEW d \in DirectDependents(t, map),
                      NEW S \in SUBSET Services,
                      DirectDependents(s, map) \subseteq S, Closed(S, map)
               PROVE  d \in S
  BY DEF Closed, TransitiveDependents, DirectDependents
<1>2. t \in S
  BY <1>1 DEF TransitiveDependents
<1> QED BY <1>1, <1>2 DEF Closed

\* And there are no others: any closed set with the direct dependents has them all.
LEMMA TransitiveIsLeast ==
  ASSUME NEW s \in Services, NEW map \in DependencyMaps, NEW S \in SUBSET Services,
         DirectDependents(s, map) \subseteq S, Closed(S, map)
  PROVE  TransitiveDependents(s, map) \subseteq S
BY DEF TransitiveDependents

\* A larger map has more dependents.
LEMMA DependentsGrow ==
  ASSUME NEW s \in Services, NEW m1 \in DependencyMaps, NEW m2 \in DependencyMaps,
         \A t \in Services : m1[t] \subseteq m2[t]
  PROVE  TransitiveDependents(s, m1) \subseteq TransitiveDependents(s, m2)
<1> DEFINE T == TransitiveDependents(s, m2)
<1>1. \A t : DirectDependents(t, m1) \subseteq DirectDependents(t, m2)
  BY DEF DirectDependents
<1>2. DirectDependents(s, m2) \subseteq T /\ Closed(T, m2) /\ T \in SUBSET Services
  BY DirectIsTransitive, TransitiveIsClosed DEF TransitiveDependents
<1>3. DirectDependents(s, m1) \subseteq T /\ Closed(T, m1)
  BY <1>1, <1>2 DEF Closed
<1> HIDE DEF T
<1>4. TransitiveDependents(s, m1) \subseteq T
  BY <1>2, <1>3, TransitiveIsLeast
<1> QED BY <1>4 DEF T

\* Scores from the lowest up.
ScoreRank(label) == CASE label = "low" -> 0 [] label = "medium" -> 1
                      [] label = "high" -> 2 [] OTHER -> 3

\* A dependency that is added, to the annotations or to the platform's file, never
\* lowers the score of any service (_score_from_count of _transitive_dependents).
THEOREM MoreEdgesScoreNoLower ==
  ASSUME NEW s \in Services, NEW m1 \in DependencyMaps, NEW m2 \in DependencyMaps,
         \A t \in Services : m1[t] \subseteq m2[t]
  PROVE  ScoreRank(ScoreOf(s, m1)) <= ScoreRank(ScoreOf(s, m2))
<1> DEFINE T1 == TransitiveDependents(s, m1)
           T2 == TransitiveDependents(s, m2)
           c1 == Cardinality(T1)
           c2 == Cardinality(T2)
<1>1. T1 \subseteq T2 /\ T2 \subseteq Services
  BY DependentsGrow DEF TransitiveDependents
<1> HIDE DEF T1, T2
<1>2. IsFiniteSet(T2)
  BY <1>1, ServicesAssumption, FS_Subset
<1>3. c1 \in Nat /\ c2 \in Nat /\ c1 <= c2
  BY <1>1, <1>2, FS_Subset, FS_CardinalityType
<1> HIDE DEF c1, c2
<1>4. ScoreRank(ScoreFromCount(c1)) <= ScoreRank(ScoreFromCount(c2))
  BY <1>3 DEF ScoreRank, ScoreFromCount
<1> QED BY <1>4 DEF ScoreOf, c1, c2, T1, T2

-----------------------------------------------------------------------------
(* The search *)

LEMMA InitEstablishes == Init => IInv
<1> SUFFICES ASSUME Init PROVE IInv
  OBVIOUS
<1>1. TypeOK
  BY DEF Init, TypeOK, NoScore, Often
<1>2. Queued = {service}
  BY DEF Init, Queued
<1>3. Sound
  BY <1>2 DEF Init, Sound
<1>4. NobodyLost
  BY <1>2 DEF Init, NobodyLost
<1> QED BY <1>1, <1>3, <1>4 DEF Init, IInv, Scored, NoScore

\* Taking the head moves its dependents from the queue's care to left.
LEMMA DequeuePreserves == IInv /\ Dequeue => IInv'
<1> SUFFICES ASSUME IInv, Dequeue PROVE IInv'
  OBVIOUS
<1> USE DEF IInv
<1> DEFINE h == Head(queue)
<1>1. /\ queue \in Seq(Services) /\ queue # <<>>
      /\ service \in Services /\ depMap \in DependencyMaps
  BY DEF TypeOK, Dequeue
<1>2. h \in Services /\ h \in Queued
  <2>1. 1 \in DOMAIN queue /\ h = queue[1]
    BY <1>1
  <2> QED BY <1>1, <2>1 DEF Queued
<1>3. Queued = Queued' \cup {h}
  <2>1. queue' = Tail(queue)
    BY DEF Dequeue
  <2>2. /\ Len(queue) \in Nat \ {0} /\ DOMAIN queue = 1..Len(queue)
        /\ DOMAIN Tail(queue) = 1..(Len(queue) - 1)
        /\ \A i \in 1..(Len(queue) - 1) : Tail(queue)[i] = queue[i + 1]
    BY <1>1
  <2>3. \A x \in Queued : x = h \/ x \in Queued'
    <3>1. TAKE x \in Queued
    <3>2. PICK i \in 1..Len(queue) : x = queue[i]
      BY <2>2 DEF Queued
    <3>3. CASE i = 1
      BY <1>1, <3>2, <3>3
    <3>4. CASE i # 1
      <4>1. i - 1 \in 1..(Len(queue) - 1) /\ Tail(queue)[i - 1] = x
        <5>1. i - 1 \in 1..(Len(queue) - 1) /\ (i - 1) + 1 = i
          BY <2>2, <3>4
        <5> QED BY <2>2, <3>2, <5>1
      <4> QED BY <2>1, <2>2, <4>1 DEF Queued
    <3> QED BY <3>3, <3>4
  <2>4. \A i \in 1..(Len(queue) - 1) : i + 1 \in 1..Len(queue)
    BY <2>2
  <2>5. Queued' \subseteq Queued
    BY <2>1, <2>2, <2>4 DEF Queued
  <2> QED BY <1>2, <2>3, <2>5
<1>4. TypeOK'
  <2>1. queue' \in Seq(Services) /\ left' \subseteq Services
    BY <1>1 DEF Dequeue, DirectDependents
  <2>2. expanded' \in [Services -> 0..Often]
    BY <1>2 DEF TypeOK, Dequeue, Often
  <2> QED BY <1>1, <2>1, <2>2 DEF TypeOK, Dequeue
<1>5. h \in Reach \cup {service}
  BY <1>2 DEF Sound
<1>6. DirectDependents(h, depMap) \subseteq Reach
  <2>1. CASE h = service
    BY <1>1, <2>1, DirectIsTransitive DEF Reach
  <2>2. CASE h \in Reach
    BY <1>1, <2>2, TransitiveIsClosed DEF Reach, Closed
  <2> QED BY <1>5, <2>1, <2>2
<1>7. Reach' = Reach
  BY DEF Dequeue, Reach
<1>8. Sound'
  BY <1>3, <1>6, <1>7 DEF Sound, Dequeue
<1>9. NobodyLost'
  BY <1>3 DEF NobodyLost, Dequeue
<1> QED BY <1>4, <1>8, <1>9 DEF Scored, Dequeue

\* A dependent not seen yet is visited and queued; one already seen is dropped.
LEMMA LookPreserves ==
  ASSUME NEW d \in Services, IInv, Look(d)
  PROVE  IInv'
<1> USE DEF IInv
<1>1. TypeOK'
  <2>1. queue' \in Seq(Services)
    <3>1. queue \in Seq(Services) /\ queue' \in {queue, Append(queue, d)}
      BY DEF TypeOK, Look
    <3>2. Append(queue, d) \in Seq(Services)
      BY <3>1
    <3> QED BY <3>1, <3>2
  <2>2. visited' \subseteq Services /\ left' \subseteq Services
    BY DEF TypeOK, Look
  <2>3. UNCHANGED <<depMap, service, score, expanded>>
    BY DEF Look
  <2> QED BY <2>1, <2>2, <2>3 DEF TypeOK
<1>2. Reach' = Reach
  BY DEF Look, Reach
<1>3. Scored'
  BY DEF Scored, Look
<1>4. CASE d \in visited
  <2>1. Queued' = Queued /\ visited' \cup left' = visited \cup left
    BY <1>4 DEF Look, Queued
  <2> QED BY <1>1, <1>2, <1>3, <1>4, <2>1 DEF Sound, NobodyLost, Look
<1>5. CASE d \notin visited
  <2>1. Queued' = Queued \cup {d}
    <3>1. queue \in Seq(Services) /\ queue' = Append(queue, d)
      BY <1>5 DEF TypeOK, Look
    <3>2. /\ DOMAIN queue = 1..Len(queue) /\ Len(queue) \in Nat
          /\ DOMAIN queue' = 1..(Len(queue) + 1)
          /\ queue'[Len(queue) + 1] = d
          /\ \A i \in 1..Len(queue) : queue'[i] = queue[i]
      BY <3>1
    <3>3. 1..(Len(queue) + 1) = 1..Len(queue) \cup {Len(queue) + 1}
      BY <3>2
    <3> QED BY <3>2, <3>3 DEF Queued
  <2>2. visited' = visited \cup {d} /\ left' = left \ {d} /\ d \in left
    BY <1>5 DEF Look
  <2>3. visited' \cup left' = visited \cup left
    BY <2>2
  <2> QED BY <1>1, <1>2, <1>3, <2>1, <2>2, <2>3 DEF Sound, NobodyLost, Look
<1> QED BY <1>4, <1>5

LEMMA FinishPreserves == IInv /\ Finish => IInv'
<1> SUFFICES ASSUME IInv, Finish PROVE IInv'
  OBVIOUS
<1>1. score' \in Scores
  BY DEF Finish, ScoreFromCount, Scores
<1>2. TypeOK'
  BY <1>1 DEF IInv, TypeOK, Finish
<1> QED BY <1>2 DEF IInv, Sound, NobodyLost, Scored, Queued, Reach, Finish

\* The search visits only dependents and loses none, at every step.
THEOREM SearchInvariant == Spec => []IInv
<1>1. IInv /\ [Next]_vars => IInv'
  <2> SUFFICES ASSUME IInv, [Next]_vars PROVE IInv'
    OBVIOUS
  <2>1. CASE Next
    BY <2>1, DequeuePreserves, LookPreserves, FinishPreserves DEF Next
  <2>2. CASE UNCHANGED vars
    BY <2>2 DEF vars, IInv, TypeOK, Sound, NobodyLost, Scored, Queued, Reach
  <2> QED BY <2>1, <2>2
<1> QED BY InitEstablishes, <1>1, PTL DEF Spec

\* An empty queue with nothing left to look at leaves exactly the dependents visited.
LEMMA DoneReached ==
  ASSUME IInv, score # NoScore
  PROVE  Queued = {} /\ visited = Reach
<1>1. left = {} /\ Queued = {}
  BY DEF IInv, Scored, Queued
<1>2. visited \subseteq Services /\ service \in Services /\ depMap \in DependencyMaps
  BY DEF IInv, TypeOK
<1>3. DirectDependents(service, depMap) \subseteq visited /\ Closed(visited, depMap)
  BY <1>1 DEF IInv, NobodyLost, Closed
<1> QED BY <1>1, <1>2, <1>3, TransitiveIsLeast DEF IInv, Sound, Reach

LEMMA DoneIsReach == IInv => ScoreIsReach
BY DoneReached DEF IInv, Scored, ScoreIsReach, ScoreOf, Reach

-----------------------------------------------------------------------------
(* The queue *)

\* After the first round, what is queued was visited first.
Started == \/ Queued \subseteq visited
           \/ visited = {} /\ left = {} /\ queue = <<service>>

\* No service is queued twice.
NoDuplicates == \A i, j \in DOMAIN queue : i # j => queue[i] # queue[j]

QInv == TypeOK /\ NoDuplicates /\ Started

\* Whoever entered the queue, at the start or when visited, was expanded or is queued.
Awaited(s) == IF s \in Queued THEN 1 ELSE 0
Entries(s) == (IF s = service THEN 1 ELSE 0) + (IF s \in visited THEN 1 ELSE 0)
Expanded == \A s \in Services : expanded[s] + Awaited(s) = Entries(s)

LEMMA DequeueKeepsOrder ==
  ASSUME QInv, Dequeue
  PROVE  NoDuplicates' /\ Started'
<1> USE DEF QInv
<1>1. queue \in Seq(Services) /\ queue # <<>> /\ queue' = Tail(queue)
  BY DEF TypeOK, Dequeue
<1>2. /\ Len(queue) \in Nat \ {0} /\ DOMAIN queue = 1..Len(queue)
      /\ DOMAIN queue' = 1..(Len(queue) - 1)
      /\ \A i \in 1..(Len(queue) - 1) : queue'[i] = queue[i + 1]
  BY <1>1
<1>3. \A i \in 1..(Len(queue) - 1) : i + 1 \in 1..Len(queue)
  BY <1>2
<1>4. NoDuplicates'
  <2>1. SUFFICES ASSUME NEW i \in 1..(Len(queue) - 1), NEW j \in 1..(Len(queue) - 1), i # j
                 PROVE  queue[i + 1] # queue[j + 1]
    BY <1>2 DEF NoDuplicates
  <2>2. i + 1 \in 1..Len(queue) /\ j + 1 \in 1..Len(queue) /\ i + 1 # j + 1
    BY <1>2, <2>1
  <2> QED BY <1>2, <2>2 DEF NoDuplicates
<1>5. CASE Queued \subseteq visited
  <2>1. Queued' \subseteq Queued
    BY <1>2, <1>3 DEF Queued
  <2> QED BY <1>4, <1>5, <2>1 DEF Started, Dequeue
<1>6. CASE queue = <<service>>
  <2>1. queue' = <<>>
    BY <1>1, <1>6
  <2>2. Queued' = {}
    BY <2>1 DEF Queued
  <2> QED BY <1>4, <2>2 DEF Started
<1> QED BY <1>5, <1>6 DEF Started

LEMMA LookKeepsOrder ==
  ASSUME NEW d \in Services, QInv, Look(d)
  PROVE  NoDuplicates' /\ Started'
<1> USE DEF QInv
<1>1. Queued \subseteq visited
  BY DEF Started, Look
<1>2. CASE d \in visited
  BY <1>1, <1>2 DEF Look, NoDuplicates, Started, Queued
<1>3. CASE d \notin visited
  <2>1. queue \in Seq(Services) /\ queue' = Append(queue, d) /\ visited' = visited \cup {d}
    BY <1>3 DEF TypeOK, Look
  <2>2. /\ DOMAIN queue = 1..Len(queue) /\ Len(queue) \in Nat
        /\ DOMAIN queue' = 1..(Len(queue) + 1)
        /\ queue'[Len(queue) + 1] = d
        /\ \A i \in 1..Len(queue) : queue'[i] = queue[i]
    BY <2>1
  <2>3. \A i \in 1..(Len(queue) + 1) : i = Len(queue) + 1 \/ i \in 1..Len(queue)
    BY <2>2
  <2>4. \A i \in 1..Len(queue) : queue[i] \in visited
    BY <1>1, <2>2 DEF Queued
  <2>5. NoDuplicates'
    BY <1>3, <2>2, <2>3, <2>4 DEF NoDuplicates
  <2>6. Queued' \subseteq visited'
    BY <2>1, <2>2, <2>3, <2>4 DEF Queued
  <2> QED BY <2>5, <2>6 DEF Started
<1> QED BY <1>2, <1>3

\* The head leaves the queue, for good until it is visited again.
LEMMA DequeueExpands ==
  ASSUME QInv, Expanded, Dequeue
  PROVE  Expanded'
<1> USE DEF QInv
<1> DEFINE h == Head(queue)
<1>1. queue \in Seq(Services) /\ queue # <<>> /\ queue' = Tail(queue)
  BY DEF TypeOK, Dequeue
<1>2. /\ Len(queue) \in Nat \ {0} /\ DOMAIN queue = 1..Len(queue) /\ h = queue[1]
      /\ DOMAIN queue' = 1..(Len(queue) - 1)
      /\ \A i \in 1..(Len(queue) - 1) : queue'[i] = queue[i + 1]
  BY <1>1
<1>3. h \in Services /\ h \in Queued
  BY <1>1, <1>2 DEF Queued
<1>4. h \notin Queued'
  <2>1. \A i \in 1..(Len(queue) - 1) : i + 1 \in 1..Len(queue) /\ i + 1 # 1
    BY <1>2
  <2>2. 1 \in 1..Len(queue)
    BY <1>2
  <2>3. \A i \in 1..(Len(queue) - 1) : queue[i + 1] # h
    BY <1>2, <2>1, <2>2 DEF NoDuplicates
  <2> QED BY <1>2, <2>3 DEF Queued
<1>5. ASSUME NEW s \in Services, s # h PROVE s \in Queued' <=> s \in Queued
  <2>1. \A i \in 1..(Len(queue) - 1) : i + 1 \in 1..Len(queue)
    BY <1>2
  <2>2. \A i \in 1..Len(queue) : i # 1 => i - 1 \in 1..(Len(queue) - 1) /\ (i - 1) + 1 = i
    BY <1>2
  <2>3. s \in Queued' => s \in Queued
    BY <1>2, <2>1 DEF Queued
  <2>4. s \in Queued => s \in Queued'
    <3>1. SUFFICES ASSUME s \in Queued PROVE s \in Queued'
      OBVIOUS
    <3>2. PICK i \in 1..Len(queue) : queue[i] = s
      BY <1>2, <3>1 DEF Queued
    <3>3. i # 1
      BY <1>2, <1>5, <3>2
    <3>4. i - 1 \in 1..(Len(queue) - 1) /\ (i - 1) + 1 = i
      BY <2>2, <3>3
    <3>5. queue'[i - 1] = s /\ i - 1 \in DOMAIN queue'
      BY <1>2, <3>2, <3>4
    <3> QED BY <3>5 DEF Queued
  <2> QED BY <2>3, <2>4
<1> HIDE DEF h
<1>6. /\ expanded \in [Services -> 0..3] /\ visited' = visited /\ service' = service
      /\ expanded' = [expanded EXCEPT ![h] = IF @ < 3 THEN @ + 1 ELSE @]
  BY DEF TypeOK, Dequeue, Often, h
<1>7. ASSUME NEW s \in Services PROVE expanded'[s] + Awaited(s)' = Entries(s)'
  <2>1. Entries(s)' = Entries(s) /\ Entries(s) \in 0..2
    BY <1>6 DEF Entries
  <2>2. expanded[s] + Awaited(s) = Entries(s) /\ expanded[s] \in 0..3
    BY <1>6 DEF Expanded
  <2>3. CASE s = h
    <3>1. Awaited(s) = 1 /\ Awaited(s)' = 0
      BY <1>3, <1>4, <2>3 DEF Awaited
    <3>2. expanded[s] < 3
      BY <2>1, <2>2, <3>1
    <3>3. expanded'[s] = expanded[s] + 1
      BY <1>3, <1>6, <2>3, <3>2
    <3> QED BY <2>1, <2>2, <3>1, <3>3
  <2>4. CASE s # h
    <3>1. Awaited(s)' = Awaited(s)
      BY <1>5, <2>4 DEF Awaited
    <3>2. expanded'[s] = expanded[s]
      BY <1>6, <2>4
    <3> QED BY <2>1, <2>2, <3>1, <3>2
  <2> QED BY <2>3, <2>4
<1> QED BY <1>7 DEF Expanded

\* Who is visited enters the queue.
LEMMA LookExpands ==
  ASSUME NEW d \in Services, QInv, Expanded, Look(d)
  PROVE  Expanded'
<1> USE DEF QInv
<1>1. /\ Queued \subseteq visited /\ UNCHANGED <<service, expanded>>
      /\ expanded \in [Services -> 0..3]
  BY DEF Started, Look, TypeOK, Often
<1>2. CASE d \in visited
  <2>1. UNCHANGED <<visited, queue>>
    BY <1>2 DEF Look
  <2> QED BY <1>1, <2>1 DEF Expanded, Awaited, Entries, Queued
<1>3. CASE d \notin visited
  <2>1. queue \in Seq(Services) /\ queue' = Append(queue, d) /\ visited' = visited \cup {d}
    BY <1>3 DEF TypeOK, Look
  <2>2. /\ DOMAIN queue = 1..Len(queue) /\ Len(queue) \in Nat
        /\ DOMAIN queue' = 1..(Len(queue) + 1)
        /\ queue'[Len(queue) + 1] = d
        /\ \A i \in 1..Len(queue) : queue'[i] = queue[i]
    BY <2>1
  <2>3. 1..(Len(queue) + 1) = 1..Len(queue) \cup {Len(queue) + 1}
    BY <2>2
  <2>4. Queued' = Queued \cup {d} /\ d \notin Queued
    BY <1>1, <1>3, <2>2, <2>3 DEF Queued
  <2>5. ASSUME NEW s \in Services PROVE expanded'[s] + Awaited(s)' = Entries(s)'
    <3>1. expanded'[s] \in 0..3 /\ expanded'[s] + Awaited(s) = Entries(s)
      BY <1>1 DEF Expanded
    <3>2. CASE s = d
      <4>1. Awaited(s) = 0 /\ Awaited(s)' = 1
        BY <2>4, <3>2 DEF Awaited
      <4>2. Entries(s)' = Entries(s) + 1 /\ Entries(s) \in Nat
        BY <1>1, <1>3, <2>1, <3>2 DEF Entries
      <4> QED BY <3>1, <4>1, <4>2
    <3>3. CASE s # d
      <4>1. Awaited(s)' = Awaited(s) /\ Entries(s)' = Entries(s)
        BY <1>1, <2>1, <2>4, <3>3 DEF Awaited, Entries
      <4> QED BY <3>1, <4>1
    <3> QED BY <3>2, <3>3
  <2> QED BY <2>5 DEF Expanded
<1> QED BY <1>2, <1>3

\* Who enters the queue is visited before, but for the service of the incident.
LEMMA SearchExpands == Spec => [](QInv /\ Expanded)
<1>1. Init => QInv /\ Expanded
  <2> SUFFICES ASSUME Init PROVE QInv /\ Expanded
    OBVIOUS
  <2>1. DOMAIN queue = {1} /\ visited = {} /\ left = {} /\ queue = <<service>>
    BY DEF Init
  <2>2. Queued = {service}
    BY DEF Init, Queued
  <2>3. Expanded
    BY <2>1, <2>2 DEF Init, Expanded, Awaited, Entries
  <2> QED BY <2>1, <2>3, InitEstablishes DEF QInv, IInv, NoDuplicates, Started
<1>2. IInv /\ QInv /\ Expanded /\ [Next]_vars => (QInv /\ Expanded)'
  <2> SUFFICES ASSUME IInv, QInv, Expanded, [Next]_vars PROVE (QInv /\ Expanded)'
    OBVIOUS
  <2>1. CASE Dequeue
    BY <2>1, DequeuePreserves, DequeueKeepsOrder, DequeueExpands DEF QInv, IInv
  <2>2. CASE \E d \in Services : Look(d)
    BY <2>2, LookPreserves, LookKeepsOrder, LookExpands DEF QInv, IInv
  <2>3. CASE Finish
    <3>1. TypeOK'
      BY <2>3, FinishPreserves DEF IInv
    <3> QED BY <2>3, <3>1 DEF QInv, NoDuplicates, Started, Queued, Expanded, Awaited,
                             Entries, Finish
  <2>4. CASE UNCHANGED vars
    BY <2>4 DEF vars, QInv, TypeOK, NoDuplicates, Started, Queued, Expanded, Awaited, Entries
  <2> QED BY <2>1, <2>2, <2>3, <2>4 DEF Next
<1> QED BY <1>1, <1>2, SearchInvariant, PTL DEF Spec

\* The search goes through the dependents of each service it reaches once, and twice
\* through those of the service of the incident if that is on a cycle.
THEOREM EachExpandedOnce == Spec => []ExpandedAsReached
<1>1. ASSUME IInv, Expanded, NEW s \in Services
      PROVE  /\ expanded[s] <= Turns(s)
             /\ score # NoScore => expanded[s] = Turns(s)
  <2>1. /\ expanded[s] \in 0..3 /\ expanded[s] + Awaited(s) = Entries(s)
        /\ Awaited(s) \in {0, 1} /\ Entries(s) \in Nat /\ Turns(s) \in Nat
    BY <1>1 DEF IInv, TypeOK, Expanded, Often, Awaited, Entries, Turns
  <2>2. Entries(s) <= Turns(s)
    BY <1>1 DEF IInv, Sound, Reach, Entries, Turns
  <2>3. ASSUME score # NoScore PROVE Awaited(s) = 0 /\ Entries(s) = Turns(s)
    BY <1>1, <2>3, DoneReached DEF Awaited, Entries, Turns, Reach
  <2> QED BY <2>1, <2>2, <2>3
<1>2. IInv /\ Expanded => ExpandedAsReached
  BY <1>1 DEF ExpandedAsReached
<1> QED BY <1>2, SearchExpands, SearchInvariant, PTL

-----------------------------------------------------------------------------
(* The end of the search *)

\* What remains is counted in numbers.
LEMMA RemainingType ==
  ASSUME TypeOK
  PROVE  /\ Cardinality(Services \ visited) \in Nat /\ IsFiniteSet(Services \ visited)
         /\ Len(queue) \in Nat
         /\ Cardinality(left) \in Nat /\ IsFiniteSet(left)
         /\ DOMAIN Remaining = 1..4 /\ DOMAIN Remaining' = 1..4
         /\ Remaining[1] = Cardinality(Services \ visited) /\ Remaining[2] = Len(queue)
         /\ Remaining[3] = Cardinality(left)
         /\ Remaining[4] = IF score = NoScore THEN 1 ELSE 0
         /\ Remaining'[1] = Cardinality(Services \ visited') /\ Remaining'[2] = Len(queue')
         /\ Remaining'[3] = Cardinality(left')
         /\ Remaining'[4] = IF score' = NoScore THEN 1 ELSE 0
<1>1. IsFiniteSet(Services \ visited) /\ IsFiniteSet(left)
  BY ServicesAssumption, FS_Subset DEF TypeOK
<1> QED BY <1>1, FS_CardinalityType DEF Remaining, TypeOK

LEMMA LookProgresses ==
  ASSUME TypeOK, NEW d \in Services, Look(d)
  PROVE  Precedes(Remaining', Remaining)
<1> DEFINE U == Services \ visited
<1>1. IsFiniteSet(U) /\ IsFiniteSet(left) /\ Cardinality(U) \in Nat /\ Cardinality(left) \in Nat
  BY RemainingType
<1>2. CASE d \in visited
  <2>1. d \in left /\ left' = left \ {d} /\ visited' = visited /\ queue' = queue
    BY <1>2 DEF Look
  <2>2. Cardinality(left') = Cardinality(left) - 1
    BY <1>1, <2>1, FS_RemoveElement
  <2>3. /\ Remaining'[1] = Remaining[1] /\ Remaining'[2] = Remaining[2]
        /\ Remaining'[3] < Remaining[3]
    BY <1>1, <2>1, <2>2, RemainingType
  <2> QED BY <2>3, RemainingType DEF Precedes
<1>3. CASE d \notin visited
  <2>1. Services \ visited' = U \ {d} /\ d \in U
    BY <1>3 DEF Look
  <2>2. Cardinality(Services \ visited') = Cardinality(U) - 1
    BY <1>1, <2>1, FS_RemoveElement
  <2>3. Remaining'[1] < Remaining[1]
    BY <1>1, <2>2, RemainingType
  <2> QED BY <2>3, RemainingType DEF Precedes
<1> QED BY <1>2, <1>3

\* Every step leaves less to do, so the search ends on every finite map: a service
\* is queued when it leaves the services not visited, and expanded once.
THEOREM SearchProgresses == Spec => LessToDo
<1>1. TypeOK /\ [Next]_vars => [Precedes(Remaining', Remaining)]_vars
  <2> SUFFICES ASSUME TypeOK, Next PROVE Precedes(Remaining', Remaining)
    OBVIOUS
  <2>1. CASE Dequeue
    <3>1. visited' = visited /\ queue' = Tail(queue) /\ queue # <<>> /\ queue \in Seq(Services)
      BY <2>1 DEF Dequeue, TypeOK
    <3>2. Len(queue') < Len(queue)
      BY <3>1
    <3>3. Remaining'[1] = Remaining[1] /\ Remaining'[2] < Remaining[2]
      BY <3>1, <3>2, RemainingType
    <3> QED BY <3>3, RemainingType DEF Precedes
  <2>2. CASE \E d \in Services : Look(d)
    BY <2>2, LookProgresses
  <2>3. CASE Finish
    <3>1. UNCHANGED <<visited, queue, left>> /\ score = NoScore /\ score' # NoScore
      BY <2>3 DEF Finish, ScoreFromCount, NoScore
    <3>2. /\ Remaining'[1] = Remaining[1] /\ Remaining'[2] = Remaining[2]
          /\ Remaining'[3] = Remaining[3] /\ Remaining'[4] < Remaining[4]
      BY <3>1, RemainingType
    <3> QED BY <3>2, RemainingType DEF Precedes
  <2> QED BY <2>1, <2>2, <2>3 DEF Next
<1>2. IInv => TypeOK
  BY DEF IInv
<1> QED BY <1>1, <1>2, SearchInvariant, PTL DEF Spec, LessToDo

-----------------------------------------------------------------------------
(* What the invariant says *)

\* The state of the search is well-typed.
THEOREM TypeCorrect == Spec => []TypeOK
<1>1. IInv => TypeOK
  BY DEF IInv
<1> QED BY <1>1, SearchInvariant, PTL

\* Of every service reached, the dependents are reached in the end (the queue and
\* the visited set of _transitive_dependents).
THEOREM SearchLosesNobody == Spec => []NobodyLost
<1>1. IInv => NobodyLost
  BY DEF IInv
<1> QED BY <1>1, SearchInvariant, PTL

\* The score is that of the set of transitive dependents, on every map.
THEOREM ScoreCorrect == Spec => []ScoreIsReach
BY SearchInvariant, DoneIsReach, PTL
=============================================================================

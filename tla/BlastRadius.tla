----------------------------- MODULE BlastRadius -----------------------------
(***************************************************************************)
(* compute_blast_radius of core/blast_radius.py on one dependency map: the  *)
(* breadth-first search of _transitive_dependents through the reverse map,  *)
(* and the score of what it reached. Python iterates over the set of the    *)
(* dependents of a service in any order.                                    *)
(***************************************************************************)
EXTENDS DependencyGraph, Lexicographic, Sequences

VARIABLES depMap,   \* the map _get_dep_map returned
          service,  \* the service of the incident
          visited,
          queue,
          left,     \* dependents of the last service dequeued, not looked at yet
          score,    \* BlastRadiusResult.score, NoScore before the end
          expanded  \* history: how often the dependents of a service were gone through

vars == <<depMap, service, visited, queue, left, score, expanded>>
NoScore == "none"

\* The history counts to three: more often than any service may be expanded.
Often == 3

Init ==
  /\ depMap \in DependencyMaps /\ service \in Services
  /\ visited = {} /\ queue = <<service>> /\ left = {}
  /\ score = NoScore
  /\ expanded = [s \in Services |-> 0]

\* The head of the while loop.
Dequeue ==
  /\ left = {} /\ queue # <<>> /\ score = NoScore
  /\ left' = DirectDependents(Head(queue), depMap)
  /\ queue' = Tail(queue)
  /\ expanded' = [expanded EXCEPT ![Head(queue)] = IF @ < Often THEN @ + 1 ELSE @]
  /\ UNCHANGED <<depMap, service, visited, score>>

\* Mutant of Look: a dependent is noted, its own dependents are not followed.
LookShallow(d) ==
  /\ d \in left
  /\ left' = left \ {d} /\ visited' = visited \cup {d}
  /\ UNCHANGED <<depMap, service, queue, score, expanded>>

\* Mutant of Look: a dependent is skipped while it is queued, not once seen.
LookQueued(d) ==
  /\ d \in left
  /\ left' = left \ {d}
  /\ IF \E i \in DOMAIN queue : queue[i] = d THEN UNCHANGED <<visited, queue>>
     ELSE visited' = visited \cup {d} /\ queue' = Append(queue, d)
  /\ UNCHANGED <<depMap, service, score, expanded>>

\* The body of the for loop.
Look(d) ==
  /\ d \in left
  /\ left' = left \ {d}
  /\ IF d \in visited THEN UNCHANGED <<visited, queue>>
     ELSE visited' = visited \cup {d} /\ queue' = Append(queue, d)
  /\ UNCHANGED <<depMap, service, score, expanded>>

\* Mutant of Finish: only the direct dependents are counted.
FinishDirect ==
  /\ left = {} /\ queue = <<>> /\ score = NoScore
  /\ score' = ScoreFromCount(Cardinality(DirectDependents(service, depMap)))
  /\ UNCHANGED <<depMap, service, visited, queue, left, expanded>>

\* The result, built from the services reached.
Finish ==
  /\ left = {} /\ queue = <<>> /\ score = NoScore
  /\ score' = ScoreFromCount(Cardinality(visited))
  /\ UNCHANGED <<depMap, service, visited, queue, left, expanded>>

Next == Dequeue \/ (\E d \in Services : Look(d)) \/ Finish

Spec == Init /\ [][Next]_vars

\* The function runs to its end.
FairSpec == Spec /\ WF_vars(Next)

-----------------------------------------------------------------------------
TypeOK ==
  /\ depMap \in DependencyMaps /\ service \in Services
  /\ visited \subseteq Services /\ left \subseteq Services
  /\ queue \in Seq(Services)
  /\ score \in Scores \cup {NoScore}
  /\ expanded \in [Services -> 0..Often]

Queued == {queue[i] : i \in DOMAIN queue}

\* The search loses nobody: of every service reached, the dependents are
\* reached, about to be looked at, or the service is still queued.
NobodyLost ==
  \A s \in visited \cup {service} :
    s \in Queued \/ DirectDependents(s, depMap) \subseteq visited \cup left

\* On every map and in every order the search goes through the dependents of each
\* service it reaches once, and of no other. Only the service of the incident, which is
\* not visited when the search starts, has a second turn if it depends on itself,
\* through a cycle or at once (the visited set of _transitive_dependents).
Turns(s) == (IF s = service THEN 1 ELSE 0)
            + (IF s \in TransitiveDependents(service, depMap) THEN 1 ELSE 0)
ExpandedAsReached ==
  \A s \in Services : /\ expanded[s] <= Turns(s)
                      /\ score # NoScore => expanded[s] = Turns(s)

\* The score counts what depends on the service through any number of steps,
\* cycles included, and nothing else.
ScoreIsReach == score # NoScore => score = ScoreOf(service, depMap)

\* Every step of the search leaves less to do: services to visit, then services to
\* expand, then dependents to look at, then the score. On a cyclic map this is
\* what the visited set is for.
Remaining == <<Cardinality(Services \ visited), Len(queue), Cardinality(left),
               IF score = NoScore THEN 1 ELSE 0>>
LessToDo == [][Precedes(Remaining', Remaining)]_vars

\* The search ends on every map, cyclic ones too.
Terminates == <>(score # NoScore)
=============================================================================

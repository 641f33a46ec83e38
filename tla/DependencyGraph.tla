--------------------------- MODULE DependencyGraph ---------------------------
(***************************************************************************)
(* The meaning of a dependency map: what core/blast_radius.py is to compute *)
(* from it. A map gives each service the services it depends on; a service  *)
(* without an entry depends on none.                                        *)
(***************************************************************************)
EXTENDS Naturals, FiniteSets

CONSTANT Services

\* The deployments of a cluster and the services it was told of.
ASSUME ServicesAssumption == IsFiniteSet(Services)

DependencyMaps == [Services -> SUBSET Services]
NoDependencies == [s \in Services |-> {}]

\* _direct_dependents, and the edges of the reverse map.
DirectDependents(service, map) == {s \in Services : service \in map[s]}

\* A set that holds the direct dependents of all its members.
Closed(S, map) == \A s \in S : DirectDependents(s, map) \subseteq S

\* The least closed set with the direct dependents of the service: what depends
\* on it through any number of steps. On a cycle that includes itself.
TransitiveDependents(service, map) ==
  {d \in Services : \A S \in SUBSET Services :
     DirectDependents(service, map) \subseteq S /\ Closed(S, map) => d \in S}

Scores == {"low", "medium", "high", "critical"}

\* Mutant of ScoreFromCount: a label BlastRadiusResult does not have.
ScoreFromCountLabel(count) ==
  CASE count = 0 -> "low"
    [] count \in 1..2 -> "medium"
    [] OTHER -> "severe"

\* _score_from_count
ScoreFromCount(count) ==
  CASE count = 0 -> "low"
    [] count \in 1..2 -> "medium"
    [] count \in 3..5 -> "high"
    [] OTHER -> "critical"

ScoreOf(service, map) == ScoreFromCount(Cardinality(TransitiveDependents(service, map)))
=============================================================================

---------------------------- MODULE Lexicographic ----------------------------
(***************************************************************************)
(* The order of tuples of numbers in which the runs of a loop are compared. *)
(* A program whose every step descends in it, or climbs in it below fixed   *)
(* limits, cannot run forever, whatever makes it take its steps.            *)
(***************************************************************************)
EXTENDS Naturals

\* s comes before t: the first entry in which they differ is smaller in s.
Precedes(s, t) ==
  \E i \in DOMAIN s : s[i] < t[i] /\ \A j \in DOMAIN s : j < i => s[j] = t[j]
=============================================================================

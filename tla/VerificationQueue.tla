-------------------------- MODULE VerificationQueue --------------------------
(***************************************************************************)
(* What the verification machinery promises, without pods, leases, claims   *)
(* or time (the header of core/impact.py): a job that was submitted stays   *)
(* queued until the incident it names has been updated with an outcome.     *)
(* A second verification of the same incident may overwrite the outcome; no *)
(* step ever takes one away.                                                *)
(***************************************************************************)
CONSTANTS Jobs,       \* the incident_ids verification jobs are keyed by
          Documented  \* those under which an incident document exists

VARIABLES submitted,  \* jobs handed to schedule_verification
          queued,     \* jobs whose document is in the verifications index
          incident    \* the outcome part of each incident document

Outcomes == {"resolved", "partial", "unresolved"}

Init == /\ submitted = {}
        /\ queued = {}
        /\ incident = [j \in Jobs |-> IF j \in Documented THEN "executing" ELSE "absent"]

Submit(j) == /\ j \notin submitted
             /\ submitted' = submitted \cup {j}
             /\ queued' = queued \cup {j}
             /\ UNCHANGED incident

\* An outcome can only be written to a document that exists.
Record(j, o) == /\ j \in submitted \cap Documented
                /\ incident' = [incident EXCEPT ![j] = o]
                /\ UNCHANGED <<submitted, queued>>

Retire(j) == /\ j \in queued
             /\ j \in Documented => incident[j] \in Outcomes
             /\ queued' = queued \ {j}
             /\ UNCHANGED <<submitted, incident>>

Next == \E j \in Jobs : \/ Submit(j)
                        \/ \E o \in Outcomes : Record(j, o)
                        \/ Retire(j)

Spec == Init /\ [][Next]_<<submitted, queued, incident>>
=============================================================================

------------------------- MODULE VerificationSweeper -------------------------
(***************************************************************************)
(* The verification job queue of core/impact.py over the verifications,     *)
(* leases and incidents indices of services/memory_store.py, run by the     *)
(* replicas of the agent backend that the HPA keeps.  Every pod runs one    *)
(* sweeper task; an await on Elasticsearch is the end of an atomic step.    *)
(*                                                                          *)
(* Instants are kept as countdowns that saturate: only the comparisons the  *)
(* code makes with "now" can be observed, so no clock bound is needed.      *)
(* The outcome verify_resolution reads is unconstrained, so it is chosen    *)
(* where it is written.                                                     *)
(***************************************************************************)
EXTENDS Integers, FiniteSets

CONSTANTS Pods, Jobs,
          NoPod, NoJob,   \* "none" values outside Pods and Jobs
          Documented,     \* jobs whose incident_id names an incident document
          ClaimLimit,     \* claim_due_verifications(limit=...)
          LeaseTTL,       \* policy lease_ttl_seconds
          OrphanAge,      \* recover_orphaned_leases(older_than_seconds=...)
          VerifyDelay,    \* schedule_verification(delay_seconds=...)
          SweepInterval,  \* _SWEEP_INTERVAL_SECONDS
          StoreMayFail,   \* whether requests to Elasticsearch may fail
          MaxFaults       \* bound on crashes, shutdowns and failed requests

ASSUME SweeperAssumption ==
  /\ NoPod \notin Pods /\ NoJob \notin Jobs
  /\ Documented \subseteq Jobs /\ IsFiniteSet(Jobs)
  /\ {ClaimLimit, LeaseTTL, OrphanAge, VerifyDelay, SweepInterval, MaxFaults} \subseteq Nat
  /\ StoreMayFail \in BOOLEAN

VARIABLES submitted,  \* jobs handed to schedule_verification
          rank,       \* the order of verify_after_unix among submitted jobs
          due,        \* time left until verify_after_unix
          queued,     \* jobs with a document in the verifications index
          lease,      \* the document verify:<job> of the leases index
          incident,   \* outcome part of the incident document
          pc,         \* where each pod's sweeper task is
          todo,       \* the jobs of the current sweep not yet finished
          job,        \* the job being processed
          granted,    \* whether its lease document was created (not fail-open)
          nap,        \* time left of the sweeper's sleep
          stopping,   \* pods whose stop_event is set
          memory,     \* jobs in the in-memory fallback tasks of each pod
          faults,     \* faults so far
          evicted     \* history: pods whose lease another pod's recovery deleted

store == <<submitted, rank, due, queued, incident>>
tasks == <<pc, todo, job, granted, nap>>
vars == <<store, lease, tasks, stopping, memory, faults, evicted>>

NoLease == [owner |-> NoPod, left |-> 0]
Outcomes == {"resolved", "partial", "unresolved"}
LeaseRecords == [owner : Pods, left : -(OrphanAge + 1)..LeaseTTL] \cup {NoLease}

Working(p) == pc[p] \in {"verifying", "deleting", "releasing"}
Serving(p) == pc[p] \notin {"down", "starting"} /\ p \notin stopping

TypeOK ==
  /\ submitted \subseteq Jobs
  /\ rank \in [Jobs -> Nat]
  /\ due \in [Jobs -> 0..VerifyDelay]
  /\ queued \subseteq Jobs
  /\ lease \in [Jobs -> LeaseRecords]
  /\ incident \in [Jobs -> Outcomes \cup {"absent", "executing"}]
  /\ pc \in [Pods -> {"down", "starting", "sleeping", "claimed", "verifying",
                      "deleting", "releasing"}]
  /\ todo \in [Pods -> SUBSET Jobs]
  /\ job \in [Pods -> Jobs \cup {NoJob}]
  /\ \A p \in Pods : Working(p) => job[p] \in Jobs
  /\ granted \in [Pods -> BOOLEAN]
  /\ nap \in [Pods -> 0..SweepInterval]
  /\ stopping \subseteq Pods
  /\ memory \in [Pods -> SUBSET Jobs]
  /\ faults \in 0..MaxFaults
  /\ evicted \subseteq Pods

Init ==
  /\ submitted = {}
  /\ rank = [j \in Jobs |-> 0]
  /\ due = [j \in Jobs |-> 0]
  /\ queued = {}
  /\ lease = [j \in Jobs |-> NoLease]
  /\ incident = [j \in Jobs |-> IF j \in Documented THEN "executing" ELSE "absent"]
  /\ pc = [p \in Pods |-> "starting"]
  /\ todo = [p \in Pods |-> {}]
  /\ job = [p \in Pods |-> NoJob]
  /\ granted = [p \in Pods |-> FALSE]
  /\ nap = [p \in Pods |-> 0]
  /\ stopping = {}
  /\ memory = [p \in Pods |-> {}]
  /\ faults = 0
  /\ evicted = {}

------------------------------------------------------------------------------
(* The two ways a request to the store ends.  A failed request may still    *)
(* have been applied, e.g. when only its response was lost.                 *)

Succeeds == UNCHANGED faults
Fails == StoreMayFail /\ faults < MaxFaults /\ faults' = faults + 1

\* op_type=create: only an absent document is written.
CreateLease(p, j) ==
  lease' = [lease EXCEPT ![j] = [owner |-> p, left |-> LeaseTTL]]

\* Mutant: the release forgets the owner clause of its query.
DropAnyLease(p, j) == lease' = [lease EXCEPT ![j] = NoLease]

\* release_lease deletes by query on id and owner.
DropLease(p, j) ==
  lease' = [lease EXCEPT ![j] = IF @.owner = p THEN NoLease ELSE @]

\* Mutant: a verification that cannot read the logs has no outcome at all.
RecordOutcomeOrNone(j) ==
  \E o \in Outcomes \cup {"none"} :
    incident' = [incident EXCEPT ![j] = IF @ = "absent" THEN @ ELSE o]

\* update_incident returns silently when no document has the id.
RecordOutcome(j) ==
  \E o \in Outcomes :
    incident' = [incident EXCEPT ![j] = IF @ = "absent" THEN @ ELSE o]

\* Mutant: the page the search returns is one short.
OldestShort(S, n) == {j \in S : Cardinality({k \in S : rank[k] < rank[j]}) < n - 1}

\* The n oldest jobs of S by verify_after_unix.
Oldest(S, n) == {j \in S : Cardinality({k \in S : rank[k] < rank[j]}) < n}

------------------------------------------------------------------------------
(* schedule_verification, called by the analysis of an incident on pod p.   *)

Enlist(j) ==
  /\ submitted' = submitted \cup {j}
  /\ rank' = [rank EXCEPT ![j] = Cardinality(submitted)]
  /\ due' = [due EXCEPT ![j] = VerifyDelay]

Schedule(p, j) ==
  /\ Serving(p)
  /\ j \notin submitted
  /\ Enlist(j)
  /\ \/ /\ Succeeds
        /\ queued' = queued \cup {j}
        /\ UNCHANGED memory
     \/ /\ Fails
        /\ \/ queued' = queued \cup {j}
           \/ UNCHANGED queued
        /\ memory' = [memory EXCEPT ![p] = @ \cup {j}]
  /\ UNCHANGED <<incident, lease, tasks, stopping, evicted>>

\* The fallback task wakes after the delay, verifies and updates the incident.
RunFallback(p, j) ==
  /\ j \in memory[p]
  /\ due[j] = 0
  /\ memory' = [memory EXCEPT ![p] = @ \ {j}]
  /\ \/ Succeeds /\ RecordOutcome(j)
     \/ Fails /\ (RecordOutcome(j) \/ UNCHANGED incident)
  /\ UNCHANGED <<submitted, rank, due, queued, lease, tasks, stopping, evicted>>

------------------------------------------------------------------------------
(* run_verification_sweeper and _process_one_verification *)

Goto(p, l) == pc' = [pc EXCEPT ![p] = l]

DueJobs == {j \in queued : due[j] = 0}

\* Mutant: the claim takes its jobs off the queue at once.
ClaimDeleting(p) ==
  /\ pc[p] = "sleeping" /\ nap[p] = 0 /\ p \notin stopping
  /\ Goto(p, "claimed")
  /\ todo' = [todo EXCEPT ![p] = Oldest(DueJobs, ClaimLimit)]
  /\ queued' = queued \ Oldest(DueJobs, ClaimLimit)
  /\ UNCHANGED <<submitted, rank, due, incident, lease, job, granted, nap,
                 stopping, memory, faults, evicted>>

\* The loop head: unless stopping, search the due jobs, oldest first.
Claim(p) ==
  /\ pc[p] = "sleeping" /\ nap[p] = 0 /\ p \notin stopping
  /\ Goto(p, "claimed")
  /\ \/ Succeeds /\ todo' = [todo EXCEPT ![p] = Oldest(DueJobs, ClaimLimit)]
     \/ Fails /\ todo' = [todo EXCEPT ![p] = {}]
  /\ UNCHANGED <<store, lease, job, granted, nap, stopping, memory, evicted>>

\* The for loop takes the next job and tries to create its lease.
Acquire(p, j) ==
  /\ pc[p] = "claimed"
  /\ j \in Oldest(todo[p], 1)
  /\ todo' = [todo EXCEPT ![p] = @ \ {j}]
  /\ \/ /\ Succeeds /\ lease[j] = NoLease
        /\ CreateLease(p, j)
        /\ Goto(p, "verifying")
        /\ job' = [job EXCEPT ![p] = j]
        /\ granted' = [granted EXCEPT ![p] = TRUE]
     \/ /\ Succeeds /\ lease[j] # NoLease          \* 409 conflict: skip the job
        /\ UNCHANGED <<lease, pc, job, granted>>
     \/ /\ Fails                                   \* any other error: fail-open
        /\ \/ UNCHANGED lease
           \/ lease[j] = NoLease /\ CreateLease(p, j)
        /\ Goto(p, "verifying")
        /\ job' = [job EXCEPT ![p] = j]
        /\ UNCHANGED granted
  /\ UNCHANGED <<store, nap, stopping, memory, evicted>>

\* verify_resolution then update_incident, whose errors are swallowed.
Verify(p) ==
  /\ pc[p] = "verifying"
  /\ Goto(p, "deleting")
  /\ \/ Succeeds /\ RecordOutcome(job[p])
     \/ Fails /\ (RecordOutcome(job[p]) \/ UNCHANGED incident)
  /\ UNCHANGED <<submitted, rank, due, queued, lease, todo, job, granted, nap,
                 stopping, memory, evicted>>

\* delete_verification_job, whose errors are swallowed.
Delete(p) ==
  /\ pc[p] = "deleting"
  /\ Goto(p, "releasing")
  /\ \/ Succeeds /\ queued' = queued \ {job[p]}
     \/ Fails /\ (queued' = queued \ {job[p]} \/ UNCHANGED queued)
  /\ UNCHANGED <<submitted, rank, due, incident, lease, todo, job, granted, nap,
                 stopping, memory, evicted>>

\* The sweeper task forgets the job it worked on.
Forget(p) ==
  /\ job' = [job EXCEPT ![p] = NoJob]
  /\ granted' = [granted EXCEPT ![p] = FALSE]
  /\ evicted' = evicted \ {p}

\* The finally block: release_lease, whose errors are swallowed.
Release(p) ==
  /\ pc[p] = "releasing"
  /\ Goto(p, "claimed")
  /\ \/ Succeeds /\ DropLease(p, job[p])
     \/ Fails /\ (DropLease(p, job[p]) \/ UNCHANGED lease)
  /\ Forget(p)
  /\ UNCHANGED <<store, todo, nap, stopping, memory>>

EndSweep(p) ==
  /\ pc[p] = "claimed" /\ todo[p] = {}
  /\ Goto(p, "sleeping")
  /\ nap' = [nap EXCEPT ![p] = SweepInterval]
  /\ UNCHANGED <<store, lease, todo, job, granted, stopping, memory, faults, evicted>>

------------------------------------------------------------------------------
(* The pod's life: lifespan in main.py, crashes, and the passage of time.   *)

\* What recover_orphaned_leases finds: leases expired for OrphanAge.
Orphans == {j \in Jobs : lease[j] # NoLease /\ lease[j].left < -OrphanAge}

\* Startup: recover_orphaned_leases, then the sweeper starts at once.
Start(p) ==
  /\ pc[p] = "starting"
  /\ Goto(p, "sleeping")
  /\ nap' = [nap EXCEPT ![p] = 0]
  /\ LET Recover == /\ lease' = [j \in Jobs |-> IF j \in Orphans THEN NoLease ELSE lease[j]]
                    /\ evicted' = evicted \cup {q \in Pods : Working(q) /\ job[q] \in Orphans}
     IN \/ Succeeds /\ Recover
        \/ Fails /\ (Recover \/ UNCHANGED <<lease, evicted>>)
  /\ UNCHANGED <<store, todo, job, granted, stopping, memory>>

\* Everything the process kept in memory is gone.
Vanish(p) ==
  /\ Goto(p, "down")
  /\ todo' = [todo EXCEPT ![p] = {}]
  /\ nap' = [nap EXCEPT ![p] = 0]
  /\ memory' = [memory EXCEPT ![p] = {}]
  /\ stopping' = stopping \ {p}
  /\ Forget(p)

Crash(p) ==
  /\ pc[p] # "down" /\ faults < MaxFaults
  /\ faults' = faults + 1
  /\ Vanish(p)
  /\ UNCHANGED <<store, lease>>

Restart(p) ==
  /\ pc[p] = "down"
  /\ Goto(p, "starting")
  /\ UNCHANGED <<store, lease, todo, job, granted, nap, stopping, memory, faults, evicted>>

\* Shutdown sets the stop event ...
Stop(p) ==
  /\ Serving(p) /\ faults < MaxFaults
  /\ faults' = faults + 1
  /\ stopping' = stopping \cup {p}
  /\ UNCHANGED <<store, lease, tasks, memory, evicted>>

\* ... the sleeping sweeper returns, and the process exits ...
Exit(p) ==
  /\ p \in stopping /\ pc[p] = "sleeping"
  /\ Vanish(p)
  /\ UNCHANGED <<store, lease, faults>>

\* ... and a sweep still running after five seconds is cancelled: inside the
\* try block the lease is released, while acquiring or releasing it is not.
Cancel(p) ==
  /\ p \in stopping
  /\ todo' = [todo EXCEPT ![p] = {}]
  /\ \/ /\ pc[p] \in {"verifying", "deleting"}
        /\ Goto(p, "releasing")
        /\ UNCHANGED <<lease, job, granted, evicted>>
     \/ /\ pc[p] = "claimed"
        /\ Goto(p, "sleeping")
        /\ \/ UNCHANGED lease
           \/ \E j \in Oldest(todo[p], 1) : lease[j] = NoLease /\ CreateLease(p, j)
        /\ UNCHANGED <<job, granted, evicted>>
     \/ /\ pc[p] = "releasing"
        /\ Goto(p, "sleeping")
        /\ UNCHANGED lease
        /\ Forget(p)
  /\ UNCHANGED <<store, nap, stopping, memory, faults>>

Less(n, floor) == IF n > floor THEN n - 1 ELSE n

Tick ==
  /\ due' = [j \in Jobs |-> Less(due[j], 0)]
  /\ nap' = [p \in Pods |-> Less(nap[p], 0)]
  /\ lease' = [j \in Jobs |-> IF lease[j] = NoLease THEN NoLease
                              ELSE [lease[j] EXCEPT !.left = Less(@, -(OrphanAge + 1))]]
  /\ UNCHANGED <<submitted, rank, queued, incident, pc, todo, job, granted,
                 stopping, memory, faults, evicted>>

------------------------------------------------------------------------------
Sweep(p) == \/ Claim(p) \/ \E j \in Jobs : Acquire(p, j)
            \/ Verify(p) \/ Delete(p) \/ Release(p) \/ EndSweep(p)

PodStep(p) == \/ Sweep(p) \/ Start(p) \/ Restart(p) \/ Exit(p)
              \/ \E j \in Jobs : RunFallback(p, j)

Next == \/ \E p \in Pods : \/ PodStep(p) \/ Crash(p) \/ Stop(p) \/ Cancel(p)
                           \/ \E j \in Jobs : Schedule(p, j)
        \/ Tick

Spec == Init /\ [][Next]_vars

\* The event loop runs every ready task, Kubernetes restarts dead pods, time
\* passes; nothing says that an analysis, a fault or a shutdown ever happens.
Fairness == WF_vars(Tick) /\ \A p \in Pods : WF_vars(PodStep(p))

FairSpec == Spec /\ Fairness

------------------------------------------------------------------------------
(* Safety *)

\* At most one pod works on a job under a lease it created, whatever requests
\* fail and whichever pods restart; the one exception is a worker so slow that
\* a starting pod took its lease for an orphan (try_acquire_lease, the owner
\* clause of release_lease, recover_orphaned_leases).
LeaseExclusive ==
  \A p, q \in Pods :
    /\ p # q /\ Working(p) /\ Working(q) /\ job[p] = job[q]
    /\ granted[p] /\ granted[q]
    => p \in evicted \/ q \in evicted

\* What makes it inductive: a lease created and not taken away is still its
\* creator's when the finally block releases it, and no sweeper carries a
\* grant from one job to the next.
LeaseOwned ==
  \A p \in Pods :
    granted[p] => /\ Working(p)
                  /\ p \notin evicted => lease[job[p]].owner = p

\* A job leaves the queue only when its incident has an outcome: with a store
\* that answers, no crash or cancelled sweep loses a verification
\* (_process_one_verification updates first and deletes last).
RetiredIsRecorded ==
  \A j \in submitted \cap Documented : j \notin queued => incident[j] \in Outcomes

\* Why, when the store answers: the update comes first and the delete last.
RecordedFirst ==
  /\ \A j \in Jobs : incident[j] = "absent" <=> j \notin Documented
  /\ queued \subseteq submitted
  /\ \A p \in Pods : /\ todo[p] \subseteq submitted
                     /\ memory[p] = {}
                     /\ Working(p) => job[p] \in submitted
                     /\ pc[p] = "deleting" /\ job[p] \in Documented
                          => incident[job[p]] \in Outcomes

\* The sweepers implement the verification queue (VerificationQueue): with a
\* store that answers, crashes, cancellations, races for leases and stale pages
\* of jobs amount to submitting, recording and retiring jobs, or to nothing.
Queue == INSTANCE VerificationQueue WITH
           Jobs <- Jobs, Documented <- Documented,
           submitted <- submitted, queued <- queued, incident <- incident
QueueSpec == Queue!Spec

\* A verified incident keeps its outcome: "The lease prevents two pods (e.g.
\* HPA replicas) from double-verifying" (_process_one_verification).
VerifiedOnce ==
  [][\A j \in Jobs : incident[j] \in Outcomes => incident'[j] = incident[j]]_vars

(* Liveness *)

\* Every scheduled verification is eventually carried out and taken off the
\* queue ("the job is persisted in Elasticsearch and survives pod restarts").
Verified(j) == j \notin queued /\ (j \in Documented => incident[j] \in Outcomes)
EveryJobVerified == \A j \in Jobs : j \in submitted ~> Verified(j)

\* A lease that no sweeper works under any more.
Orphaned(j) == lease[j] # NoLease /\ \A p \in Pods : Working(p) => job[p] # j

\* Crashes and shutdowns can only delay a job by leaving a lease behind: a due
\* job is eventually verified, or its lease is an orphan, or orphans with
\* earlier due times fill the page of the search it would be claimed by.
OnlyOrphansBlock ==
  \A j \in Jobs :
    j \in DueJobs ~> \/ Verified(j)
                     \/ Orphaned(j)
                     \/ Cardinality({k \in queued : rank[k] < rank[j] /\ Orphaned(k)})
                          >= ClaimLimit
=============================================================================

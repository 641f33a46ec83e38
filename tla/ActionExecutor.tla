---------------------------- MODULE ActionExecutor ----------------------------
(***************************************************************************)
(* execute_async of core/action_executor.py with the snapshots and the      *)
(* rollback of core/rollback.py, the action leases of                       *)
(* services/memory_store.py, and what the end of run_analysis in            *)
(* core/agent.py records about it: several remediation actions on one       *)
(* deployment, which developers deploy to as well.                          *)
(*                                                                          *)
(* A kubectl call or an await on Elasticsearch ends an atomic step.  Every  *)
(* action runs on a pod of its own: the interleavings of the actions of one *)
(* pod, whose kubectl calls block its event loop, are among those.  Pods    *)
(* of the deployment are not state: each read of it may see any readiness.  *)
(***************************************************************************)
EXTENDS Integers, FiniteSets, Lexicographic

CONSTANTS Actions,      \* action ids (uuid4, so a lease id never conflicts)
          IncidentOf,   \* the incident_id record_analysis gives each action's incident
          Kinds,        \* the kinds of action that are tried
          Images,       \* container images of the deployment
          FirstSpecs,   \* specs the deployment may start with
          MaxReplicas,  \* bound on replicas and on ready pods
          ScaleTo,      \* the replicas of kubectl scale
          PollMax,      \* reads before the poll deadline
          RenewEvery,   \* reads between renewals of the lease
          WaitMax,      \* reads before the rollback deadline
          MaxFaults     \* bound on crashes, evictions and failed calls

SpecType == [image : Images, older : Images, replicas : 0..MaxReplicas]
NoSnapshot == [image |-> "none"]
Incidents == {IncidentOf[x] : x \in Actions}

ASSUME ExecutorAssumption ==
  /\ IsFiniteSet(Actions)
  /\ Kinds \subseteq {"restart_pod", "rollback", "scale_up"}
  /\ FirstSpecs \subseteq SpecType
  /\ ScaleTo \in 0..MaxReplicas
  /\ {MaxReplicas, PollMax, RenewEvery, WaitMax, MaxFaults} \subseteq Nat
  /\ Actions \cap Incidents = {}     \* two uuids
  /\ \A x, y \in Actions : IncidentOf[x] = IncidentOf[y] => x = y

VARIABLES spec,      \* the deployment: image, that of the revision before, replicas
          leases,    \* actions with a document in the leases index
          incident,  \* action_state of the document with each id
          jobs,      \* verification jobs, by the incident_id they carry
          stage,     \* where execute_async and its background task are
          kind,
          snapshot,  \* _SNAPSHOTS
          seen,      \* the last (intended, ready) of the poll
          left,      \* reads left before the current deadline
          since,     \* reads since the lease was renewed
          result,    \* status of the ExecutionResult
          recorded,  \* actions whose analysis has ended
          faults,
          before,    \* history: the spec an action was applied to
          disturbed, \* history: actions since whose snapshot another changed the spec
          restored   \* history: actions whose rollback returned True

cluster == <<spec, disturbed>>
agent == <<incident, jobs, recorded>>
task == <<stage, kind, snapshot, seen, left, since, result>>
history == <<before, restored>>
vars == <<cluster, leases, agent, task, faults, history>>

Critical == "CRITICAL_INTERVENTION_REQUIRED"
Stages == {"idle", "checked", "captured", "applied", "polling", "renewing", "rollback",
           "waiting", "releasing", "over", "lost"}

TypeOK ==
  /\ spec \in SpecType
  /\ leases \subseteq Actions
  /\ incident \in [Actions \cup Incidents -> {"absent", "executing", "verified"}]
  /\ jobs \subseteq Actions
  /\ stage \in [Actions -> Stages]
  /\ kind \in [Actions -> Kinds]
  /\ snapshot \in [Actions -> SpecType \cup {NoSnapshot}]
  /\ seen \in [Actions -> (1..(MaxReplicas + 1)) \X (0..MaxReplicas)]
  /\ left \in [Actions -> 0..(PollMax + WaitMax)]
  /\ since \in [Actions -> 0..RenewEvery]
  /\ result \in [Actions -> {"none", "failed", "success", "partial", Critical}]
  /\ recorded \subseteq Actions
  /\ faults \in 0..MaxFaults
  /\ before \in [Actions -> SpecType \cup {NoSnapshot}]
  /\ disturbed \subseteq Actions /\ restored \subseteq Actions

Init ==
  /\ spec \in FirstSpecs
  /\ leases = {} /\ jobs = {} /\ recorded = {} /\ faults = 0
  /\ incident = [id \in Actions \cup Incidents |-> "absent"]
  /\ stage = [x \in Actions |-> "idle"]
  /\ kind \in [Actions -> Kinds]
  /\ snapshot = [x \in Actions |-> NoSnapshot]
  /\ seen = [x \in Actions |-> <<1, 0>>]
  /\ left = [x \in Actions |-> 0]
  /\ since = [x \in Actions |-> 0]
  /\ result = [x \in Actions |-> "none"]
  /\ before = [x \in Actions |-> NoSnapshot]
  /\ disturbed = {} /\ restored = {}

Succeeds == UNCHANGED faults
Fails == faults < MaxFaults /\ faults' = faults + 1

Goto(x, s) == stage' = [stage EXCEPT ![x] = s]
Finish(x, status) == /\ result' = [result EXCEPT ![x] = status]
                     /\ Goto(x, "releasing")

------------------------------------------------------------------------------
(* The deployment, as kubectl changes it (external) *)

\* rollout undo makes the revision before the newest.
Undone(s) == [s EXCEPT !.image = s.older, !.older = s.image]

\* The command of _build_command; a restart is a revision with the same image (and
\* trigger_retry is the command of restart_pod).
Applied(k, s) ==
  CASE k = "restart_pod" -> [s EXCEPT !.older = s.image]
    [] k = "rollback"    -> Undone(s)
    [] k = "scale_up"    -> [s EXCEPT !.replicas = ScaleTo]

\* Mutant: only the image is pinned again.
PinnedImage(snap, s) ==
  [s EXCEPT !.image = snap.image, !.older = IF snap.image = s.image THEN s.older ELSE s.image]

\* kubectl apply of a snapshot.
Pinned(snap, s) ==
  [image |-> snap.image, replicas |-> snap.replicas,
   older |-> IF snap.image = s.image THEN s.older ELSE s.image]

\* The deployment gets spec s, which is not the doing of any of others.
Change(others, s) ==
  /\ spec' = s
  /\ disturbed' = IF s = spec THEN disturbed ELSE disturbed \cup others

Deploy(image) ==
  /\ image # spec.image
  /\ Change(Actions, [spec EXCEPT !.image = image, !.older = spec.image])
  /\ UNCHANGED <<leases, agent, task, faults, history>>

------------------------------------------------------------------------------
(* execute_async *)

\* The server-side dry run.
DryRun(x) ==
  /\ stage[x] = "idle"
  /\ \/ Succeeds /\ Goto(x, "checked") /\ UNCHANGED result
     \/ Fails /\ Goto(x, "over") /\ result' = [result EXCEPT ![x] = "failed"]
  /\ UNCHANGED <<cluster, leases, agent, kind, snapshot, seen, left, since, history>>

\* capture_snapshot, whose failure is ignored.
Capture(x) ==
  /\ stage[x] = "checked"
  /\ Goto(x, "captured")
  /\ \/ Succeeds /\ snapshot' = [snapshot EXCEPT ![x] = spec]
     \/ Fails /\ UNCHANGED snapshot
  /\ disturbed' = disturbed \ {x}
  /\ UNCHANGED <<spec, leases, agent, kind, seen, left, since, result, history>>

\* A command that fails may have been applied, e.g. when it timed out.
Apply(x) ==
  /\ stage[x] = "captured"
  /\ before' = [before EXCEPT ![x] = spec]
  /\ \/ /\ Succeeds /\ Goto(x, "applied") /\ UNCHANGED result
        /\ Change(Actions \ {x}, Applied(kind[x], spec))
     \/ /\ Fails /\ Goto(x, "over") /\ result' = [result EXCEPT ![x] = "failed"]
        /\ Change(Actions \ {x}, Applied(kind[x], spec)) \/ UNCHANGED cluster
  /\ UNCHANGED <<leases, agent, kind, snapshot, seen, left, since, restored>>

\* try_acquire_lease fails open; the background task then polls.
Acquire(x) ==
  /\ stage[x] = "applied"
  /\ Goto(x, "polling")
  /\ left' = [left EXCEPT ![x] = PollMax]
  /\ \/ Succeeds /\ leases' = leases \cup {x}
     \/ Fails /\ leases' \in {leases, leases \cup {x}}
  /\ UNCHANGED <<cluster, agent, kind, snapshot, seen, since, result, history>>

------------------------------------------------------------------------------
(* _background_poll_and_finalize *)

\* _get_deployment_replicas reads no replicas as one.
Desired == IF spec.replicas = 0 THEN 1 ELSE spec.replicas

TooFew(intended, achieved) == 2 * achieved < intended

\* The poll returned; the incident_id is None, so the incident is not updated.
Judge(x, intended, achieved) ==
  /\ seen' = [seen EXCEPT ![x] = <<1, 0>>]
  /\ since' = [since EXCEPT ![x] = 0]
  /\ IF TooFew(intended, achieved) THEN Goto(x, "rollback") /\ UNCHANGED result
     ELSE Finish(x, IF achieved >= intended THEN "success" ELSE "partial")

\* Mutant: the deadline is one read early.
ExpiredEarly(x) == left[x] <= 1

Expired(x) == left[x] = 0

\* One iteration of _poll_ready, up to its await: ready counts the pods of every
\* revision.  A failed read counts as 0 of 1.
Poll(x) ==
  /\ stage[x] = "polling"
  /\ \E ready \in 0..MaxReplicas, intended \in {Desired, 1} :
       /\ \/ Succeeds /\ intended = Desired
          \/ Fails /\ ready = 0 /\ intended = 1
       /\ IF ready >= intended \/ Expired(x)
          THEN Judge(x, intended, ready) /\ UNCHANGED left
          ELSE /\ seen' = [seen EXCEPT ![x] = <<intended, ready>>]
               /\ IF since[x] >= RenewEvery
                  THEN Goto(x, "renewing") /\ UNCHANGED <<left, since>>
                  ELSE /\ left' = [left EXCEPT ![x] = @ - 1]
                       /\ since' = [since EXCEPT ![x] = @ + 1]
                       /\ UNCHANGED stage
               /\ UNCHANGED result
  /\ UNCHANGED <<cluster, leases, agent, kind, snapshot, history>>

\* Mutant: a renewal starts the deadline again.
RenewedAgain(x) == /\ Goto(x, "polling")
                   /\ left' = [left EXCEPT ![x] = PollMax]
                   /\ since' = [since EXCEPT ![x] = 0]

\* Mutant: a renewal costs two reads.
RenewedTwice(x) == /\ Goto(x, "polling")
                   /\ left' = [left EXCEPT ![x] = @ - 2]
                   /\ since' = [since EXCEPT ![x] = 0]

Renewed(x) == /\ Goto(x, "polling")
              /\ left' = [left EXCEPT ![x] = @ - 1]
              /\ since' = [since EXCEPT ![x] = 0]

\* renew_lease fails open; when the lease is gone the poll ends at once, with the
\* counts it read last.
Renew(x) ==
  /\ stage[x] = "renewing"
  /\ \/ Succeeds /\ x \in leases /\ Renewed(x) /\ UNCHANGED <<seen, result>>
     \/ Fails /\ Renewed(x) /\ UNCHANGED <<seen, result>>
     \/ /\ Succeeds /\ x \notin leases
        /\ Judge(x, seen[x][1], seen[x][2])
        /\ UNCHANGED left
  /\ UNCHANGED <<cluster, leases, agent, kind, snapshot, history>>

\* rollback: apply the snapshot or, without one, rollout undo.
Rollback(x) ==
  LET s == IF snapshot[x] = NoSnapshot THEN Undone(spec) ELSE Pinned(snapshot[x], spec)
  IN /\ stage[x] = "rollback"
     /\ \/ /\ Succeeds /\ Change(Actions \ {x}, s)
           /\ Goto(x, "waiting")
           /\ left' = [left EXCEPT ![x] = WaitMax]
           /\ UNCHANGED result
        \/ /\ Fails /\ (Change(Actions \ {x}, s) \/ UNCHANGED cluster)
           /\ Finish(x, Critical)
           /\ UNCHANGED left
     /\ UNCHANGED <<leases, agent, kind, snapshot, seen, since, history>>

\* _wait_for_running: until the deadline, a failed read is one not ready.
Wait(x) ==
  /\ stage[x] = "waiting"
  /\ \/ /\ Succeeds /\ left[x] > 0
        /\ Finish(x, "partial")
        /\ restored' = restored \cup {x}
        /\ UNCHANGED left
     \/ /\ Succeeds /\ left[x] > 0
        /\ left' = [left EXCEPT ![x] = @ - 1]
        /\ UNCHANGED <<stage, result, restored>>
     \/ /\ Succeeds /\ left[x] = 0
        /\ Finish(x, Critical)
        /\ UNCHANGED <<left, restored>>
  /\ UNCHANGED <<cluster, leases, agent, kind, snapshot, seen, since, before>>

\* The finally block: release_lease, whose errors are swallowed.
Release(x) ==
  /\ stage[x] = "releasing"
  /\ Goto(x, "over")
  /\ \/ Succeeds /\ leases' = leases \ {x}
     \/ Fails /\ leases' \in {leases, leases \ {x}}
  /\ UNCHANGED <<cluster, agent, kind, snapshot, seen, left, since, result, history>>

------------------------------------------------------------------------------
(* The analysis that asked for the action, and its verification *)

Answered(x) == stage[x] \notin {"idle", "checked", "captured", "applied", "lost"}

\* Whatever execute_async returned, run_analysis schedules the verification under
\* the id of the action and saves the incident as "executing".
Record(x) ==
  /\ Answered(x) /\ x \notin recorded
  /\ recorded' = recorded \cup {x}
  /\ jobs' = jobs \cup {x}
  /\ \/ Succeeds /\ incident' = [incident EXCEPT ![IncidentOf[x]] = "executing"]
     \/ Fails /\ UNCHANGED incident
  /\ UNCHANGED <<cluster, leases, task, history>>

\* update_incident returns silently when no document has the id.
UpdateIncident(id, state) ==
  incident' = [incident EXCEPT ![id] = IF @ = "absent" THEN @ ELSE state]

\* The sweeper verifies a job and deletes it (see VerificationSweeper).
Verify(x) ==
  /\ x \in jobs
  /\ jobs' = jobs \ {x}
  /\ UpdateIncident(x, "verified")
  /\ UNCHANGED <<cluster, leases, recorded, task, faults, history>>

\* The pod of x dies; its snapshots and tasks are gone.
Crash(x) ==
  /\ stage[x] \notin {"idle", "over", "lost"} /\ Fails
  /\ Goto(x, "lost")
  /\ snapshot' = [snapshot EXCEPT ![x] = NoSnapshot]
  /\ UNCHANGED <<cluster, leases, agent, kind, seen, left, since, result, history>>

\* A starting pod deletes a lease nobody renewed for long (recover_orphaned_leases):
\* that of a dead pod, or of one whose event loop or store requests hang.
Evict(x) ==
  /\ x \in leases /\ Fails
  /\ leases' = leases \ {x}
  /\ UNCHANGED <<cluster, agent, task, history>>

Execute(x) == DryRun(x) \/ Capture(x) \/ Apply(x) \/ Acquire(x)
Finalize(x) == Poll(x) \/ Renew(x) \/ Rollback(x) \/ Wait(x) \/ Release(x)

Next == \/ \E x \in Actions : \/ Execute(x) \/ Finalize(x) \/ Record(x)
                              \/ Verify(x) \/ Crash(x) \/ Evict(x)
        \/ \E image \in Images : Deploy(image)

Spec == Init /\ [][Next]_vars

\* The event loop runs every ready task, and kubectl calls time out.
FairSpec == Spec /\ \A x \in Actions : WF_vars(Finalize(x))

------------------------------------------------------------------------------
(* What holds *)

SameSpec(s, t) == s.image = t.image /\ s.replicas = t.replicas

\* "Re-pin the exact image and replicas": once the snapshot was applied, and while
\* nobody else has touched the deployment since it was taken, the deployment is
\* what it was before the action (capture_snapshot, rollback).
RestoreExact ==
  \A x \in restored \ disturbed :
    snapshot[x] # NoSnapshot => SameSpec(spec, before[x])

\* Why: a snapshot is only there between Capture and Crash; while nobody else has
\* changed the deployment it is the spec at Capture, the spec the action was applied
\* to, and, once it was applied again, the spec of the deployment.
SnapshotKept ==
  \A x \in Actions :
    /\ stage[x] \in {"idle", "checked", "lost"} => snapshot[x] = NoSnapshot
    /\ x \in restored => stage[x] \in {"releasing", "over", "lost"}
    /\ snapshot[x] # NoSnapshot /\ x \notin disturbed =>
         /\ stage[x] = "captured" => SameSpec(spec, snapshot[x])
         /\ stage[x] # "captured" => SameSpec(snapshot[x], before[x])
         /\ stage[x] = "waiting" \/ x \in restored => SameSpec(spec, snapshot[x])

\* A rollout is only rolled back after the whole time it is given, or when a call
\* failed or the lease was evicted (_poll_ready).
PatientRollback ==
  faults = 0 => \A x \in Actions : stage[x] = "rollback" => left[x] = 0

\* How far an action is: where it stands, then the reads it has used of its deadline,
\* then whether it renews its lease before the next.
Place(x) ==
  CASE stage[x] = "idle" -> 0
    [] stage[x] = "checked" -> 1
    [] stage[x] = "captured" -> 2
    [] stage[x] = "applied" -> 3
    [] stage[x] \in {"polling", "renewing"} -> 4
    [] stage[x] = "rollback" -> 5
    [] stage[x] = "waiting" -> 6
    [] stage[x] = "releasing" -> 7
    [] OTHER -> 8
Course(x) == <<Place(x), PollMax + WaitMax - left[x], IF stage[x] = "renewing" THEN 1 ELSE 0>>
\* Nothing of its state changes, or it is further on than before.
Kept(x) == UNCHANGED <<stage[x], seen[x], left[x], since[x], result[x]>>
MoveOn == \A x \in Actions : Precedes(Course(x), Course(x)') \/ Kept(x)

\* Whatever calls fail, pods die and leases go, and whatever the other actions do, an
\* action only moves on: no deadline starts again, no rollback is repeated, a status
\* once decided stays, and one that ended or died is not resumed.
OnlyMovesOn == [][MoveOn]_vars

\* Every poll ends: an action that was applied is over, unless its pod dies.
PollEnds == \A x \in Actions : stage[x] = "polling" ~> stage[x] \in {"over", "lost"}

------------------------------------------------------------------------------
(* What the repository says and the code does not do *)

\* "If the rollback itself fails ... the system enters CRITICAL_INTERVENTION_REQUIRED
\* and freezes the service" (rollback.py): once the action is over and its incident
\* saved, the incident says so.
FailedRollbackFreezes ==
  \A x \in Actions : /\ stage[x] = "over" /\ result[x] = Critical
                     /\ incident[IncidentOf[x]] # "absent"
                     => incident[IncidentOf[x]] = Critical

\* Verification updates the incident: its outcome is there once the job is done.
OutcomeReachesIncident ==
  \A x \in recorded \ jobs : incident[IncidentOf[x]] \in {"absent", "verified"}
=============================================================================

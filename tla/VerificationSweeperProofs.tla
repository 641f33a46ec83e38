---------------------- MODULE VerificationSweeperProofs ----------------------
(***************************************************************************)
(* Theorems of VerificationSweeper for every number of pods and jobs and    *)
(* every value of the policy's and the sweeper's periods.                   *)
(***************************************************************************)
EXTENDS VerificationSweeper, FiniteSetTheorems, TLAPS

USE SweeperAssumption

\* Only documents the leases index can hold are ever put there.
LEMMA LeaseRecordsClosed ==
  /\ NoLease \in LeaseRecords
  /\ \A p \in Pods : [owner |-> p, left |-> LeaseTTL] \in LeaseRecords
  /\ \A l \in LeaseRecords : l # NoLease =>
       /\ l.owner \in Pods
       /\ [l EXCEPT !.left = Less(@, -(OrphanAge + 1))] \in LeaseRecords
       /\ [l EXCEPT !.left = Less(@, -(OrphanAge + 1))].owner = l.owner
BY DEF LeaseRecords, NoLease, Less

\* The rank of a new job is a number: there are finitely many jobs.
LEMMA RankType == ASSUME submitted \subseteq Jobs
                  PROVE  Cardinality(submitted) \in Nat
BY FS_Subset, FS_CardinalityType

\* A countdown stays within its range.
LEMMA CountdownType == ASSUME NEW n \in Nat, NEW k \in 0..n
                       PROVE  Less(k, 0) \in 0..n
BY DEF Less

\* The page of a search is part of what it searched.
LEMMA OldestSubset == ASSUME NEW S, NEW n PROVE Oldest(S, n) \subseteq S
BY DEF Oldest

\* The initial states are type correct.
LEMMA InitTypeOK == Init => TypeOK
BY LeaseRecordsClosed DEF Init, TypeOK, Working, Outcomes

\* Every step of a pod, the store and the clock keeps the types.
LEMMA NextTypeOK == ASSUME TypeOK, [Next]_vars PROVE TypeOK'
<1> USE DEF TypeOK
<1>1. ASSUME NEW p \in Pods, NEW j \in Jobs, Schedule(p, j) PROVE TypeOK'
  <2>1. Cardinality(submitted) \in Nat BY RankType
  <2> QED BY <1>1, <2>1 DEF Schedule, Enlist, Succeeds, Fails, tasks, Working
<1>2. ASSUME NEW p \in Pods, NEW j \in Jobs, RunFallback(p, j) PROVE TypeOK'
  BY <1>2 DEF RunFallback, RecordOutcome, Succeeds, Fails, tasks, Working
<1>3. ASSUME NEW p \in Pods, Claim(p) PROVE TypeOK'
  <2>1. Oldest(DueJobs, ClaimLimit) \subseteq Jobs BY OldestSubset DEF DueJobs
  <2> QED BY <1>3, <2>1 DEF Claim, Goto, Succeeds, Fails, store, Working
<1>4. ASSUME NEW p \in Pods, NEW j \in Jobs, Acquire(p, j) PROVE TypeOK'
  <2>1. lease' \in [Jobs -> LeaseRecords]
    BY <1>4, LeaseRecordsClosed DEF Acquire, CreateLease
  <2>2. faults' \in 0..MaxFaults
    BY <1>4 DEF Acquire, Succeeds, Fails
  <2>3. \/ UNCHANGED <<pc, job, granted>>
        \/ /\ Goto(p, "verifying") /\ job' = [job EXCEPT ![p] = j]
           /\ granted' = granted \/ granted' = [granted EXCEPT ![p] = TRUE]
    BY <1>4 DEF Acquire
  <2>4. CASE UNCHANGED <<pc, job, granted>>
    BY <1>4, <2>1, <2>2, <2>4 DEF Acquire, store, Working
  <2>5. CASE /\ Goto(p, "verifying") /\ job' = [job EXCEPT ![p] = j]
             /\ granted' = granted \/ granted' = [granted EXCEPT ![p] = TRUE]
    <3>1. granted' \in [Pods -> BOOLEAN] BY <2>5
    <3>2. job' \in [Pods -> Jobs \cup {NoJob}] BY <2>5
    <3>3. pc' \in [Pods -> {"down", "starting", "sleeping", "claimed", "verifying",
                            "deleting", "releasing"}]
      BY <2>5 DEF Goto
    <3>4. \A q \in Pods : Working(q)' => job'[q] \in Jobs
      BY <2>5 DEF Goto, Working
    <3> QED BY <1>4, <2>1, <2>2, <3>1, <3>2, <3>3, <3>4 DEF Acquire, store
  <2> QED BY <2>3, <2>4, <2>5
<1>5. ASSUME NEW p \in Pods, Verify(p) PROVE TypeOK'
  BY <1>5 DEF Verify, RecordOutcome, Goto, Succeeds, Fails, Working
<1>6. ASSUME NEW p \in Pods, Delete(p) PROVE TypeOK'
  BY <1>6 DEF Delete, Goto, Succeeds, Fails, Working
<1>7. ASSUME NEW p \in Pods, Release(p) PROVE TypeOK'
  BY <1>7, LeaseRecordsClosed
     DEF Release, DropLease, Forget, Goto, Succeeds, Fails, store, Working
<1>8. ASSUME NEW p \in Pods, EndSweep(p) PROVE TypeOK'
  BY <1>8 DEF EndSweep, Goto, store, Working
<1>9. ASSUME NEW p \in Pods, Start(p) PROVE TypeOK'
  BY <1>9, LeaseRecordsClosed DEF Start, Orphans, Goto, Succeeds, Fails, store, Working
<1>10. ASSUME NEW p \in Pods, Crash(p) PROVE TypeOK'
  BY <1>10 DEF Crash, Vanish, Forget, Goto, store, Working
<1>11. ASSUME NEW p \in Pods, Restart(p) PROVE TypeOK'
  BY <1>11 DEF Restart, Goto, store, Working
<1>12. ASSUME NEW p \in Pods, Stop(p) PROVE TypeOK'
  BY <1>12 DEF Stop, store, tasks, Working
<1>13. ASSUME NEW p \in Pods, Exit(p) PROVE TypeOK'
  BY <1>13 DEF Exit, Vanish, Forget, Goto, store, Working
<1>14. ASSUME NEW p \in Pods, Cancel(p) PROVE TypeOK'
  <2>1. lease' \in [Jobs -> LeaseRecords]
    BY <1>14, LeaseRecordsClosed, OldestSubset DEF Cancel, CreateLease
  <2>2. \A q \in Pods : Working(q)' => job'[q] \in Jobs
    BY <1>14 DEF Cancel, Goto, Forget, Working
  <2> QED BY <1>14, <2>1, <2>2 DEF Cancel, Goto, Forget, store
<1>15. ASSUME Tick PROVE TypeOK'
  <2>1. due' \in [Jobs -> 0..VerifyDelay]
    BY <1>15, CountdownType DEF Tick
  <2>2. nap' \in [Pods -> 0..SweepInterval]
    BY <1>15, CountdownType DEF Tick
  <2>3. lease' \in [Jobs -> LeaseRecords]
    BY <1>15, LeaseRecordsClosed DEF Tick
  <2> QED BY <1>15, <2>1, <2>2, <2>3 DEF Tick, Working
<1>16. CASE UNCHANGED vars
  BY <1>16 DEF vars, store, tasks, Working
<1> QED
  BY <1>1, <1>2, <1>3, <1>4, <1>5, <1>6, <1>7, <1>8, <1>9, <1>10, <1>11, <1>12,
     <1>13, <1>14, <1>15, <1>16 DEF Next, PodStep, Sweep

\* Type correctness: in particular countdowns stay in range and a sweeper that
\* works has a job (a lease it can release).
THEOREM TypeCorrect == Spec => []TypeOK
BY InitTypeOK, NextTypeOK, PTL DEF Spec

\* Steps that leave the leases, the task states and evictions alone.
LEMMA LeaseOwnedStutter ==
  ASSUME LeaseOwned, UNCHANGED <<lease, tasks, evicted>> PROVE LeaseOwned'
BY DEF LeaseOwned, Working, tasks

\* A granted lease stays its creator's until the finally block or a recovery.
LEMMA NextLeaseOwned == ASSUME TypeOK, LeaseOwned, [Next]_vars PROVE LeaseOwned'
<1> USE DEF LeaseOwned
<1>1. ASSUME NEW p \in Pods, NEW j \in Jobs, Schedule(p, j) \/ RunFallback(p, j)
      PROVE LeaseOwned'
  BY <1>1, LeaseOwnedStutter DEF Schedule, RunFallback
<1>2. ASSUME NEW p \in Pods, Claim(p) PROVE LeaseOwned'
  BY <1>2 DEF Claim, Goto, Working, TypeOK
<1>3. ASSUME NEW p \in Pods, NEW j \in Jobs, Acquire(p, j) PROVE LeaseOwned'
  \* A created lease was absent before, so it is nobody else's.
  <2>1. lease' = lease \/ (lease[j] = NoLease /\ CreateLease(p, j))
    BY <1>3 DEF Acquire
  <2>2. \A q \in Pods : q # p =>
          /\ Working(q)' = Working(q) /\ job'[q] = job[q] /\ granted'[q] = granted[q]
    BY <1>3 DEF Acquire, Goto, Working, TypeOK
  <2>3. \A q \in Pods : q # p /\ Working(q) /\ lease[job[q]].owner = q
                        => lease'[job[q]].owner = q
    BY <2>1 DEF CreateLease, NoLease, TypeOK
  <2>4. granted'[p] => Working(p)' /\ lease'[job'[p]].owner = p
    <3>1. ~granted[p] BY <1>3 DEF Acquire, Working
    <3> QED BY <1>3, <3>1 DEF Acquire, CreateLease, Goto, Working, TypeOK
  <2> QED BY <1>3, <2>2, <2>3, <2>4 DEF Acquire
<1>4. ASSUME NEW p \in Pods, Verify(p) PROVE LeaseOwned'
  BY <1>4 DEF Verify, Goto, Working, TypeOK
<1>5. ASSUME NEW p \in Pods, Delete(p) PROVE LeaseOwned'
  BY <1>5 DEF Delete, Goto, Working, TypeOK
<1>6. ASSUME NEW p \in Pods, Release(p) PROVE LeaseOwned'
  \* Deleting by owner cannot hit another pod's lease.
  <2>1. \A q \in Pods : q # p /\ Working(q) /\ lease[job[q]].owner = q
                        => lease'[job[q]].owner = q
    BY <1>6 DEF Release, DropLease, TypeOK
  <2>2. \A q \in Pods : q # p =>
          /\ Working(q)' = Working(q) /\ job'[q] = job[q] /\ granted'[q] = granted[q]
          /\ (q \in evicted' <=> q \in evicted)
    BY <1>6 DEF Release, Forget, Goto, Working, TypeOK
  <2>3. ~granted'[p]
    BY <1>6 DEF Release, Forget, TypeOK
  <2> QED BY <2>1, <2>2, <2>3
<1>7. ASSUME NEW p \in Pods, EndSweep(p) PROVE LeaseOwned'
  BY <1>7 DEF EndSweep, Goto, Working, TypeOK
<1>8. ASSUME NEW p \in Pods, Start(p) PROVE LeaseOwned'
  \* Whoever works under a lease the recovery deletes is evicted by it.
  <2>1. \A q \in Pods : Working(q)' <=> Working(q)
    BY <1>8 DEF Start, Orphans, Goto, Working, TypeOK
  <2>2. job' = job /\ granted' = granted
    BY <1>8 DEF Start, Orphans
  <2>3. \A q \in Pods : Working(q) /\ q \notin evicted' =>
          q \notin evicted /\ lease'[job[q]] = lease[job[q]]
    BY <1>8 DEF Start, Orphans, TypeOK
  <2> QED BY <2>1, <2>2, <2>3
<1>9. ASSUME NEW p \in Pods, Crash(p) \/ Exit(p) PROVE LeaseOwned'
  BY <1>9 DEF Crash, Exit, Vanish, Forget, Goto, Working, TypeOK
<1>10. ASSUME NEW p \in Pods, Restart(p) PROVE LeaseOwned'
  BY <1>10 DEF Restart, Goto, Working, TypeOK
<1>11. ASSUME NEW p \in Pods, Stop(p) PROVE LeaseOwned'
  BY <1>11, LeaseOwnedStutter DEF Stop
<1>12. ASSUME NEW p \in Pods, Cancel(p) PROVE LeaseOwned'
  <2>1. lease' = lease \/ \E j \in Jobs : lease[j] = NoLease /\ CreateLease(p, j)
    BY <1>12, OldestSubset DEF Cancel, TypeOK
  <2>2. \A q \in Pods : Working(q) /\ lease[job[q]].owner = q => lease'[job[q]].owner = q
    BY <2>1 DEF CreateLease, NoLease, TypeOK
  <2>3. \A q \in Pods : granted'[q] =>
          /\ granted[q] /\ job'[q] = job[q] /\ Working(q)'
          /\ (q \in evicted' <=> q \in evicted)
    BY <1>12 DEF Cancel, Forget, Goto, Working, TypeOK
  <2> QED BY <2>2, <2>3
<1>13. ASSUME Tick PROVE LeaseOwned'
  <2>1. \A j \in Jobs : lease'[j].owner = lease[j].owner
    BY <1>13, LeaseRecordsClosed DEF Tick, TypeOK
  <2> QED BY <1>13, <2>1 DEF Tick, Working, TypeOK
<1>14. CASE UNCHANGED vars
  BY <1>14, LeaseOwnedStutter DEF vars
<1> QED
  BY <1>1, <1>2, <1>3, <1>4, <1>5, <1>6, <1>7, <1>8, <1>9, <1>10, <1>11, <1>12,
     <1>13, <1>14 DEF Next, PodStep, Sweep

\* A lease has one owner, so two owners of one job cannot both be unevicted.
LEMMA OwnedIsExclusive == LeaseOwned => LeaseExclusive
BY DEF LeaseOwned, LeaseExclusive

\* Mutual exclusion of sweepers on a job, with any number of pods, whatever
\* store requests fail and whichever pods crash, stop or are cancelled.
THEOREM LeaseIsExclusive == Spec => []LeaseExclusive
<1>1. Init => LeaseOwned
  BY DEF Init, LeaseOwned
<1>2. TypeOK /\ TypeOK' /\ LeaseOwned /\ [Next]_vars => LeaseOwned'
  BY NextLeaseOwned
<1> QED BY <1>1, <1>2, TypeCorrect, OwnedIsExclusive, PTL DEF Spec

------------------------------------------------------------------------------
(* Refinement of the verification queue when the store answers. *)

\* Nothing is queued, due or worked on at the start.
LEMMA InitRecordedFirst == Init => RecordedFirst
BY DEF Init, RecordedFirst, Working

\* The update comes before the delete in every step, while the store answers.
LEMMA NextRecordedFirst ==
  ASSUME ~StoreMayFail, TypeOK, RecordedFirst, [Next]_vars
  PROVE  RecordedFirst'
<1> USE DEF RecordedFirst, TypeOK
<1> DEFINE Rest == /\ UNCHANGED <<submitted, queued, incident>>
                   /\ \A q \in Pods : /\ todo'[q] \subseteq todo[q]
                                      /\ memory'[q] \subseteq memory[q]
                                      /\ Working(q)' => Working(q) /\ job'[q] = job[q]
                                      /\ pc'[q] = "deleting" => pc[q] = "deleting"
\* The steps that neither touch the queue nor give a sweeper a job.
<1>1. ASSUME Rest PROVE RecordedFirst'
  BY <1>1 DEF Working
<1> HIDE DEF Rest
<1>2. ASSUME NEW p \in Pods, NEW j \in Jobs, Schedule(p, j) PROVE RecordedFirst'
  BY <1>2 DEF Schedule, Enlist, Fails, tasks, Working
<1>3. ASSUME NEW p \in Pods, NEW j \in Jobs, RunFallback(p, j) PROVE FALSE
  BY <1>3 DEF RunFallback
<1>4. ASSUME NEW p \in Pods, Claim(p) PROVE RecordedFirst'
  <2>1. Oldest(DueJobs, ClaimLimit) \subseteq submitted BY OldestSubset DEF DueJobs
  <2> QED BY <1>4, <2>1 DEF Claim, Goto, Fails, store, Working
<1>5. ASSUME NEW p \in Pods, NEW j \in Jobs, Acquire(p, j) PROVE RecordedFirst'
  <2>1. j \in submitted BY <1>5, OldestSubset DEF Acquire
  <2>2. \/ UNCHANGED <<pc, job>>
        \/ Goto(p, "verifying") /\ job' = [job EXCEPT ![p] = j]
    BY <1>5 DEF Acquire
  <2>3. UNCHANGED <<submitted, queued, incident, memory>>
    BY <1>5 DEF Acquire, store
  <2>4. \A q \in Pods : todo'[q] \subseteq todo[q] BY <1>5 DEF Acquire
  <2> QED BY <2>1, <2>2, <2>3, <2>4 DEF Goto, Working
<1>6. ASSUME NEW p \in Pods, Verify(p) PROVE RecordedFirst'
  <2>1. PICK o \in Outcomes :
          incident' = [incident EXCEPT ![job[p]] = IF @ = "absent" THEN @ ELSE o]
    BY <1>6 DEF Verify, RecordOutcome, Fails
  <2>2. job[p] \in Jobs BY <1>6 DEF Verify, Working
  <2>3. \A k \in Jobs : /\ incident'[k] = "absent" <=> incident[k] = "absent"
                        /\ incident[k] \in Outcomes => incident'[k] \in Outcomes
    BY <2>1, <2>2 DEF Outcomes
  <2>4. job[p] \in Documented => incident'[job[p]] \in Outcomes
    BY <2>1, <2>2
  <2> QED BY <1>6, <2>2, <2>3, <2>4 DEF Verify, Goto, Working
<1>7. ASSUME NEW p \in Pods, Delete(p) PROVE RecordedFirst'
  BY <1>7 DEF Delete, Goto, Fails, Working
<1>8. ASSUME NEW p \in Pods, Release(p) PROVE Rest
  BY <1>8 DEF Release, Forget, Goto, store, Working, Rest
<1>9. ASSUME NEW p \in Pods, EndSweep(p) PROVE Rest
  BY <1>9 DEF EndSweep, Goto, store, Working, Rest
<1>10. ASSUME NEW p \in Pods, Start(p) PROVE Rest
  BY <1>10 DEF Start, Orphans, Goto, store, Working, Rest
<1>11. ASSUME NEW p \in Pods, Crash(p) \/ Exit(p) PROVE Rest
  BY <1>11 DEF Crash, Exit, Vanish, Forget, Goto, store, Working, Rest
<1>12. ASSUME NEW p \in Pods, Restart(p) \/ Stop(p) PROVE Rest
  BY <1>12 DEF Restart, Stop, Goto, store, tasks, Working, Rest
<1>13. ASSUME NEW p \in Pods, Cancel(p) PROVE Rest
  BY <1>13 DEF Cancel, Forget, Goto, store, Working, Rest
<1>14. ASSUME Tick PROVE Rest
  BY <1>14 DEF Tick, Working, Rest
<1>15. ASSUME UNCHANGED vars PROVE Rest
  BY <1>15 DEF vars, store, tasks, Working, Rest
<1> QED
  BY <1>1, <1>2, <1>3, <1>4, <1>5, <1>6, <1>7, <1>8, <1>9, <1>10, <1>11, <1>12,
     <1>13, <1>14, <1>15 DEF Next, PodStep, Sweep

\* Every step of the sweepers is a step of the queue, or leaves it alone.
LEMMA StepRefines ==
  ASSUME ~StoreMayFail, TypeOK, RecordedFirst, [Next]_vars
  PROVE  [Queue!Next]_<<submitted, queued, incident>>
<1> DEFINE Idle == UNCHANGED <<submitted, queued, incident>>
<1>1. ASSUME NEW p \in Pods, NEW j \in Jobs, Schedule(p, j) PROVE Queue!Next
  BY <1>1 DEF Schedule, Enlist, Fails, Queue!Submit, Queue!Next
<1>2. ASSUME NEW p \in Pods, NEW j \in Jobs, RunFallback(p, j) PROVE FALSE
  BY <1>2 DEF RunFallback, RecordedFirst
<1>3. ASSUME NEW p \in Pods, Verify(p)
      PROVE  Idle \/ Queue!Next
  <2>1. PICK o \in Outcomes :
          incident' = [incident EXCEPT ![job[p]] = IF @ = "absent" THEN @ ELSE o]
    BY <1>3 DEF Verify, RecordOutcome, Fails
  <2>2. job[p] \in submitted \cap Jobs /\ UNCHANGED <<submitted, queued>>
    BY <1>3 DEF Verify, Working, RecordedFirst, TypeOK
  <2>3. CASE job[p] \in Documented
    <3>1. Queue!Record(job[p], o)
      BY <2>1, <2>2, <2>3 DEF Queue!Record, RecordedFirst
    <3> QED BY <3>1, <2>2 DEF Queue!Next, Outcomes, Queue!Outcomes
  <2>4. CASE job[p] \notin Documented
    BY <2>1, <2>2, <2>4 DEF RecordedFirst, TypeOK
  <2> QED BY <2>3, <2>4
<1>4. ASSUME NEW p \in Pods, Delete(p) PROVE Idle \/ Queue!Next
  <2>1. queued' = queued \ {job[p]} /\ UNCHANGED <<submitted, incident>>
    BY <1>4 DEF Delete, Fails
  <2>2. job[p] \in Documented => incident[job[p]] \in Outcomes
    BY <1>4 DEF Delete, RecordedFirst
  <2>3. CASE job[p] \in queued
    BY <2>1, <2>2, <2>3 DEF Queue!Retire, Queue!Next, Outcomes, Queue!Outcomes, TypeOK,
                            RecordedFirst
  <2>4. CASE job[p] \notin queued
    BY <2>1, <2>4
  <2> QED BY <2>3, <2>4
<1>5. ASSUME NEW p \in Pods,
             \/ Claim(p) \/ (\E j \in Jobs : Acquire(p, j)) \/ Release(p)
             \/ EndSweep(p) \/ Start(p) \/ Crash(p) \/ Exit(p) \/ Restart(p)
             \/ Stop(p) \/ Cancel(p)
      PROVE  Idle
  BY <1>5 DEF Claim, Acquire, Release, EndSweep, Start, Orphans, Crash, Exit, Restart, Stop,
              Cancel, store
<1>6. ASSUME Tick \/ UNCHANGED vars PROVE Idle
  BY <1>6 DEF Tick, vars, store
<1> QED
  BY <1>1, <1>2, <1>3, <1>4, <1>5, <1>6 DEF Next, PodStep, Sweep

\* With a store that answers, the sweepers implement the verification queue: no
\* crash, cancellation, lease race or stale page loses a job or retires it early.
THEOREM SweeperRefinesQueue == ~StoreMayFail => (Spec => QueueSpec)
<1> SUFFICES ASSUME ~StoreMayFail PROVE Spec => QueueSpec
  OBVIOUS
<1>1. Init => Queue!Init
  BY DEF Init, Queue!Init
<1>2. Init => RecordedFirst
  BY InitRecordedFirst
<1>3. TypeOK /\ RecordedFirst /\ [Next]_vars => RecordedFirst'
  BY NextRecordedFirst
<1>4. TypeOK /\ RecordedFirst /\ [Next]_vars => [Queue!Next]_<<submitted, queued, incident>>
  BY StepRefines
<1> QED BY <1>1, <1>2, <1>3, <1>4, TypeCorrect, PTL DEF Spec, QueueSpec, Queue!Spec

\* A step of the queue only takes off a job that is recorded, and overwrites an
\* outcome only by an outcome.
LEMMA QueueKeepsRecorded ==
  ASSUME TypeOK, RetiredIsRecorded, [Queue!Next]_<<submitted, queued, incident>>
  PROVE  RetiredIsRecorded'
<1> USE DEF RetiredIsRecorded, TypeOK
<1>1. ASSUME NEW j \in Jobs, Queue!Submit(j) PROVE RetiredIsRecorded'
  BY <1>1 DEF Queue!Submit
<1>2. ASSUME NEW j \in Jobs, NEW o \in Queue!Outcomes, Queue!Record(j, o)
      PROVE  RetiredIsRecorded'
  BY <1>2 DEF Queue!Record, Queue!Outcomes, Outcomes
<1>3. ASSUME NEW j \in Jobs, Queue!Retire(j) PROVE RetiredIsRecorded'
  BY <1>3 DEF Queue!Retire, Queue!Outcomes, Outcomes
<1>4. ASSUME UNCHANGED <<submitted, queued, incident>> PROVE RetiredIsRecorded'
  BY <1>4
<1> QED BY <1>1, <1>2, <1>3, <1>4 DEF Queue!Next

\* With a store that answers, a job leaves the queue only when its incident has an
\* outcome, whichever pods crash or are cancelled in the middle of a sweep.
THEOREM NothingLost == ~StoreMayFail => (Spec => []RetiredIsRecorded)
<1> SUFFICES ASSUME ~StoreMayFail PROVE Spec => []RetiredIsRecorded
  OBVIOUS
<1>1. Init => RecordedFirst /\ RetiredIsRecorded
  BY InitRecordedFirst DEF Init, RetiredIsRecorded
<1>2. TypeOK /\ RecordedFirst /\ [Next]_vars => RecordedFirst'
  BY NextRecordedFirst
<1>3. TypeOK /\ RecordedFirst /\ RetiredIsRecorded /\ [Next]_vars => RetiredIsRecorded'
  BY StepRefines, QueueKeepsRecorded
<1> QED BY <1>1, <1>2, <1>3, TypeCorrect, PTL DEF Spec

------------------------------------------------------------------------------
(* One sweep at a time *)

Sweeping(p) == pc[p] = "claimed" \/ Working(p)
OneSweep == \A p, q \in Pods : Sweeping(p) /\ Sweeping(q) => p = q

\* A page holds jobs that are queued, and a queued job has no outcome, but for the job
\* a pod has just verified.
Untouched ==
  /\ stopping = {} /\ queued \subseteq submitted
  /\ \A j \in Jobs : incident[j] \in Outcomes => j \in submitted
  /\ \A p \in Pods : /\ memory[p] = {} /\ todo[p] \subseteq queued
                     /\ ~Sweeping(p) => todo[p] = {}
                     /\ Working(p) => job[p] \notin todo[p]
                     /\ pc[p] \in {"verifying", "deleting"} => job[p] \in queued
  /\ \A j \in queued : incident[j] \in Outcomes =>
       \E p \in Pods : pc[p] = "deleting" /\ job[p] = j

LEMMA NextUntouched ==
  ASSUME MaxFaults = 0, TypeOK, Untouched, OneSweep, [Next]_vars
  PROVE  Untouched' /\ \A j \in Jobs : incident[j] \in Outcomes => incident'[j] = incident[j]
<1> DEFINE Kept == \A j \in Jobs : incident[j] \in Outcomes => incident'[j] = incident[j]
           Rest == /\ UNCHANGED <<submitted, queued, incident, stopping, memory>>
                   /\ \A q \in Pods :
                        /\ todo'[q] \subseteq todo[q]
                        /\ ~Sweeping(q)' => todo'[q] = {}
                        /\ Working(q)' => Working(q) /\ job'[q] = job[q]
                        /\ pc'[q] = "verifying" => pc[q] = "verifying"
                        /\ pc'[q] = "deleting" <=> pc[q] = "deleting"
<1>n. ~Fails /\ ~(faults < MaxFaults) BY DEF Fails, TypeOK
<1>t. /\ \A q \in Pods : Working(q) => Sweeping(q)
      /\ \A q \in Pods : pc[q] \in {"verifying", "deleting"} => Working(q)
      /\ \A q \in Pods : pc'[q] \in {"verifying", "deleting"} => Working(q)'
  BY DEF Sweeping, Working
<1>1. ASSUME Rest PROVE Untouched' /\ Kept
  <2>1. \A j \in queued' : incident'[j] \in Outcomes =>
          \E p \in Pods : pc'[p] = "deleting" /\ job'[p] = j
    BY <1>1, <1>t DEF Untouched
  <2> QED BY <1>1, <1>t, <2>1 DEF Untouched
<1> HIDE DEF Rest
<1>2. ASSUME NEW p \in Pods, NEW j \in Jobs, Schedule(p, j) PROVE Untouched' /\ Kept
  <2>1. /\ submitted' = submitted \cup {j} /\ queued' = queued \cup {j} /\ j \notin submitted
        /\ UNCHANGED <<memory, incident, pc, todo, job, stopping>>
    BY <1>2, <1>n DEF Schedule, Enlist, tasks
  <2>2. incident[j] \notin Outcomes BY <2>1 DEF Untouched
  <2> QED BY <2>1, <2>2 DEF Untouched, Sweeping, Working
<1>3. ASSUME NEW p \in Pods, NEW j \in Jobs, RunFallback(p, j) PROVE FALSE
  BY <1>3 DEF RunFallback, Untouched
<1>4. ASSUME NEW p \in Pods, Claim(p) PROVE Untouched' /\ Kept
  <2>1. Oldest(DueJobs, ClaimLimit) \subseteq queued BY OldestSubset DEF DueJobs
  <2>2. /\ pc[p] = "sleeping" /\ pc' = [pc EXCEPT ![p] = "claimed"]
        /\ todo' = [todo EXCEPT ![p] = Oldest(DueJobs, ClaimLimit)]
        /\ UNCHANGED <<submitted, queued, incident, job, stopping, memory>>
    BY <1>4, <1>n DEF Claim, Goto, store
  <2>3. \A q \in Pods : pc'[q] = "deleting" <=> pc[q] = "deleting" BY <2>2 DEF TypeOK
  <2>4. \A j \in queued' : incident'[j] \in Outcomes =>
          \E q \in Pods : pc'[q] = "deleting" /\ job'[q] = j
    BY <2>2, <2>3 DEF Untouched
  <2> QED BY <2>1, <2>2, <2>4 DEF Untouched, Sweeping, Working, TypeOK
<1>5. ASSUME NEW p \in Pods, NEW j \in Jobs, Acquire(p, j) PROVE Untouched' /\ Kept
  <2>1. /\ pc[p] = "claimed" /\ j \in todo[p] /\ todo' = [todo EXCEPT ![p] = @ \ {j}]
        /\ UNCHANGED <<submitted, queued, incident, stopping, memory>>
        /\ \/ UNCHANGED <<pc, job>>
           \/ pc' = [pc EXCEPT ![p] = "verifying"] /\ job' = [job EXCEPT ![p] = j]
    BY <1>5, OldestSubset DEF Acquire, Goto, store
  <2>2. \A q \in Pods : /\ pc'[q] = "deleting" <=> pc[q] = "deleting"
                        /\ pc[q] = "deleting" => job'[q] = job[q]
    BY <2>1 DEF TypeOK
  <2>3. \A k \in queued' : incident'[k] \in Outcomes =>
          \E q \in Pods : pc'[q] = "deleting" /\ job'[q] = k
    BY <2>1, <2>2 DEF Untouched
  <2> QED BY <2>1, <2>3 DEF Untouched, Sweeping, Working, TypeOK
<1>6. ASSUME NEW p \in Pods, Verify(p) PROVE Untouched' /\ Kept
  <2>1. PICK o \in Outcomes :
          incident' = [incident EXCEPT ![job[p]] = IF @ = "absent" THEN @ ELSE o]
    BY <1>6, <1>n DEF Verify, RecordOutcome
  <2>2. /\ pc[p] = "verifying" /\ pc' = [pc EXCEPT ![p] = "deleting"] /\ job[p] \in Jobs
        /\ UNCHANGED <<submitted, queued, todo, job, stopping, memory>>
    BY <1>6 DEF Verify, Goto, Working, TypeOK
  <2>3. job[p] \in queued BY <2>2 DEF Untouched
  <2>4. incident[job[p]] \notin Outcomes
    <3>1. ASSUME NEW q \in Pods, pc[q] = "deleting" PROVE FALSE
      <4>1. q = p BY <2>2, <3>1 DEF OneSweep, Sweeping, Working
      <4> QED BY <2>2, <3>1, <4>1
    <3> QED BY <2>3, <3>1 DEF Untouched
  <2>5. Kept BY <2>1, <2>2, <2>4 DEF TypeOK
  <2>6. \A k \in queued' : incident'[k] \in Outcomes =>
          \E q \in Pods : pc'[q] = "deleting" /\ job'[q] = k
    <3>1. ASSUME NEW k \in queued, incident'[k] \in Outcomes
          PROVE  \E q \in Pods : pc'[q] = "deleting" /\ job'[q] = k
      <4>1. CASE k = job[p]
        <5>1. pc'[p] = "deleting" /\ job'[p] = k BY <2>2, <4>1 DEF TypeOK
        <5> QED BY <5>1
      <4>2. CASE k # job[p]
        <5>1. incident[k] \in Outcomes BY <2>1, <2>2, <3>1, <4>2 DEF TypeOK
        <5>2. PICK q \in Pods : pc[q] = "deleting" /\ job[q] = k
          BY <3>1, <5>1 DEF Untouched
        <5>3. pc'[q] = "deleting" /\ job'[q] = k BY <2>2, <5>2 DEF TypeOK
        <5> QED BY <5>3
      <4> QED BY <4>1, <4>2
    <3> QED BY <2>2, <3>1
  <2>7. \A j \in Jobs : incident'[j] \in Outcomes => j \in submitted'
    BY <2>1, <2>2, <2>3 DEF Untouched, TypeOK
  <2> QED BY <2>2, <2>3, <2>5, <2>6, <2>7 DEF Untouched, Sweeping, Working, TypeOK
<1>7. ASSUME NEW p \in Pods, Delete(p) PROVE Untouched' /\ Kept
  <2>1. /\ pc[p] = "deleting" /\ pc' = [pc EXCEPT ![p] = "releasing"]
        /\ queued' = queued \ {job[p]}
        /\ UNCHANGED <<submitted, incident, todo, job, stopping, memory>>
    BY <1>7, <1>n DEF Delete, Goto
  <2>2. ASSUME NEW q \in Pods, q # p PROVE ~Sweeping(q) /\ todo[q] = {}
    BY <1>t, <2>1, <2>2 DEF OneSweep, Untouched
  <2>3. \A q \in Pods : todo'[q] \subseteq queued'
    BY <1>t, <2>1, <2>2 DEF Untouched
  <2>4. \A k \in queued' : incident'[k] \in Outcomes =>
          \E q \in Pods : pc'[q] = "deleting" /\ job'[q] = k
    <3>1. ASSUME NEW k \in queued, k # job[p], incident[k] \in Outcomes PROVE FALSE
      <4>1. PICK q \in Pods : pc[q] = "deleting" /\ job[q] = k BY <3>1 DEF Untouched
      <4> QED BY <1>t, <2>2, <3>1, <4>1
    <3> QED BY <2>1, <3>1
  <2> QED BY <1>t, <2>1, <2>2, <2>3, <2>4 DEF Untouched, Sweeping, Working, TypeOK
<1>8. ASSUME NEW p \in Pods, Release(p) PROVE Rest
  BY <1>8 DEF Release, Forget, Goto, store, Sweeping, Working, Rest, Untouched, TypeOK
<1>9. ASSUME NEW p \in Pods, EndSweep(p) PROVE Rest
  BY <1>9 DEF EndSweep, Goto, store, Sweeping, Working, Rest, Untouched, TypeOK
<1>10. ASSUME NEW p \in Pods, Start(p) PROVE Rest
  BY <1>10, <1>n DEF Start, Goto, store, Sweeping, Working, Rest, Untouched, TypeOK
<1>11. ASSUME NEW p \in Pods, Crash(p) \/ Exit(p) \/ Stop(p) \/ Cancel(p) PROVE FALSE
  BY <1>11, <1>n DEF Crash, Exit, Stop, Cancel, Untouched
<1>12. ASSUME NEW p \in Pods, Restart(p) PROVE Rest
  BY <1>12 DEF Restart, Goto, store, tasks, Sweeping, Working, Rest, Untouched, TypeOK
<1>13. ASSUME Tick PROVE Rest
  BY <1>13 DEF Tick, Sweeping, Working, Rest, Untouched
<1>14. ASSUME UNCHANGED vars PROVE Rest
  BY <1>14 DEF vars, store, tasks, Sweeping, Working, Rest, Untouched
<1> QED
  BY <1>1, <1>2, <1>3, <1>4, <1>5, <1>6, <1>7, <1>8, <1>9, <1>10, <1>11, <1>12,
     <1>13, <1>14 DEF Next, PodStep, Sweep

\* "The lease prevents two pods from double-verifying", if no two sweeps ever overlap and
\* nothing fails: then an outcome once recorded is never overwritten.  What breaks it is a
\* second sweep with a page read too early, or a fault between the update and the delete.
THEOREM SweptOneAtATime == MaxFaults = 0 => (Spec /\ []OneSweep => VerifiedOnce)
<1> SUFFICES ASSUME MaxFaults = 0 PROVE Spec /\ []OneSweep => VerifiedOnce
  OBVIOUS
<1>1. Init => Untouched
  BY DEF Init, Untouched, Sweeping, Working, Outcomes
<1>2. TypeOK /\ Untouched /\ OneSweep /\ [Next]_vars => Untouched'
  BY NextUntouched
<1>3. TypeOK /\ Untouched /\ OneSweep /\ [Next]_vars =>
        [\A j \in Jobs : incident[j] \in Outcomes => incident'[j] = incident[j]]_vars
  BY NextUntouched
<1> QED BY <1>1, <1>2, <1>3, TypeCorrect, PTL DEF Spec, VerifiedOnce

\* So a deployment of one replica verifies each incident once, as long as nothing fails.
THEOREM SingleReplicaVerifiesOnce ==
  MaxFaults = 0 /\ (\A p, q \in Pods : p = q) => (Spec => VerifiedOnce)
<1> SUFFICES ASSUME MaxFaults = 0, \A p, q \in Pods : p = q PROVE Spec => VerifiedOnce
  OBVIOUS
<1>1. OneSweep BY DEF OneSweep
<1> QED BY <1>1, SweptOneAtATime, PTL
=============================================================================

------------------------- MODULE ActionExecutorProofs -------------------------
(***************************************************************************)
(* Theorems of ActionExecutor for every number of actions, every deployment *)
(* and every value of the deadlines.                                        *)
(***************************************************************************)
EXTENDS ActionExecutor, TLAPS

\* The bounds are numbers.
LEMMA Bounds ==
  /\ MaxReplicas \in Nat /\ PollMax \in Nat /\ RenewEvery \in Nat
  /\ WaitMax \in Nat /\ MaxFaults \in Nat /\ ScaleTo \in 0..MaxReplicas
BY ExecutorAssumption

\* kubectl leaves a deployment a deployment.
LEMMA SpecClosed ==
  /\ \A s \in SpecType, k \in Kinds : Applied(k, s) \in SpecType
  /\ \A s \in SpecType : Undone(s) \in SpecType
  /\ \A s, t \in SpecType : Pinned(t, s) \in SpecType
BY Bounds, ExecutorAssumption DEF SpecType, Applied, Undone, Pinned

\* TypeOK is inductive with the reads a renewal still has left.
RenewLeft == \A x \in Actions : stage[x] = "renewing" => left[x] > 0

\* The invariant holds initially.
LEMMA InitTypeOK == Init => TypeOK /\ RenewLeft
BY Bounds, ExecutorAssumption DEF Init, TypeOK, RenewLeft, Stages

\* The tasks are well typed and the rest is what the step leaves alone.
LEMMA JudgeType ==
  ASSUME TypeOK, RenewLeft, NEW x \in Actions, NEW i \in Int, NEW a \in Int, Judge(x, i, a)
  PROVE  /\ stage' \in [Actions -> Stages]
         /\ \A y \in Actions : stage'[y] = "renewing" => stage[y] = "renewing"
         /\ seen' \in [Actions -> (1..(MaxReplicas + 1)) \X (0..MaxReplicas)]
         /\ since' \in [Actions -> 0..RenewEvery]
         /\ result' \in [Actions -> {"none", "failed", "success", "partial", Critical}]
<1> USE DEF TypeOK, Goto, Finish
<1>1. stage' \in [Actions -> Stages] /\ \A y \in Actions : stage'[y] = "renewing" => stage[y] = "renewing"
  BY DEF Judge, Stages
<1>2. seen' \in [Actions -> (1..(MaxReplicas + 1)) \X (0..MaxReplicas)]
  BY Bounds DEF Judge
<1>3. since' \in [Actions -> 0..RenewEvery]
  BY Bounds DEF Judge
<1>4. result' \in [Actions -> {"none", "failed", "success", "partial", Critical}]
  BY DEF Judge
<1> QED BY <1>1, <1>2, <1>3, <1>4

\* Every step keeps the types.
LEMMA NextTypeOK == ASSUME TypeOK, RenewLeft, [Next]_vars PROVE TypeOK' /\ RenewLeft'
<1> USE Bounds DEF TypeOK, RenewLeft, Stages, Succeeds, Fails, Goto, history, task, agent, cluster
<1>1. ASSUME NEW x \in Actions, DryRun(x) PROVE TypeOK' /\ RenewLeft'
  <2>1. stage' \in [Actions -> Stages] /\ RenewLeft'
    BY <1>1 DEF DryRun
  <2>2. result' \in [Actions -> {"none", "failed", "success", "partial", Critical}]
    BY <1>1 DEF DryRun
  <2>3. faults' \in 0..MaxFaults
    BY <1>1 DEF DryRun
  <2> QED BY <1>1, <2>1, <2>2, <2>3 DEF DryRun
<1>2. ASSUME NEW x \in Actions, Capture(x) PROVE TypeOK' /\ RenewLeft'
  <2>1. stage' \in [Actions -> Stages] /\ RenewLeft'
    BY <1>2 DEF Capture
  <2>2. snapshot' \in [Actions -> SpecType \cup {NoSnapshot}]
    BY <1>2 DEF Capture
  <2>3. faults' \in 0..MaxFaults /\ disturbed' \subseteq Actions
    BY <1>2 DEF Capture
  <2> QED BY <1>2, <2>1, <2>2, <2>3 DEF Capture
<1>3. ASSUME NEW x \in Actions, Apply(x) PROVE TypeOK' /\ RenewLeft'
  <2>1. spec' \in SpecType /\ disturbed' \subseteq Actions
    BY <1>3, SpecClosed DEF Apply, Change
  <2>2. /\ stage' \in [Actions -> Stages] /\ RenewLeft'
        /\ result' \in [Actions -> {"none", "failed", "success", "partial", Critical}]
    BY <1>3 DEF Apply
  <2>3. faults' \in 0..MaxFaults
    BY <1>3 DEF Apply
  <2>4. before' \in [Actions -> SpecType \cup {NoSnapshot}]
    BY <1>3 DEF Apply
  <2> QED BY <1>3, <2>1, <2>2, <2>3, <2>4 DEF Apply
<1>4. ASSUME NEW x \in Actions, Acquire(x) PROVE TypeOK' /\ RenewLeft'
  BY <1>4 DEF Acquire
<1>5. ASSUME NEW x \in Actions, Poll(x) PROVE TypeOK' /\ RenewLeft'
  <2>1. PICK ready \in 0..MaxReplicas, intended \in {Desired, 1} :
          /\ Succeeds \/ Fails
          /\ IF ready >= intended \/ Expired(x)
             THEN Judge(x, intended, ready) /\ UNCHANGED left
             ELSE /\ seen' = [seen EXCEPT ![x] = <<intended, ready>>]
                  /\ IF since[x] >= RenewEvery
                     THEN Goto(x, "renewing") /\ UNCHANGED <<left, since>>
                     ELSE /\ left' = [left EXCEPT ![x] = @ - 1]
                          /\ since' = [since EXCEPT ![x] = @ + 1]
                          /\ UNCHANGED stage
                  /\ UNCHANGED result
    BY <1>5 DEF Poll
  <2>2. intended \in 1..(MaxReplicas + 1)
    BY DEF Desired, SpecType
  <2>3. CASE ready >= intended \/ Expired(x)
    <3>1. intended \in Int /\ ready \in Int BY <2>2
    <3>2. Judge(x, intended, ready) BY <2>1, <2>3
    <3>3. faults' \in 0..MaxFaults BY <2>1
    <3>4. UNCHANGED left BY <2>1, <2>3
    <3> HIDE DEF Goto, Stages
    <3>5. RenewLeft' BY <3>1, <3>2, <3>4, JudgeType
    <3> QED BY <1>5, <3>1, <3>2, <3>3, <3>4, <3>5, JudgeType DEF Poll
  <2>4. CASE ~(ready >= intended \/ Expired(x))
    <3>1. left[x] > 0 BY <2>4 DEF Expired
    <3>2. seen' \in [Actions -> (1..(MaxReplicas + 1)) \X (0..MaxReplicas)]
      BY <2>1, <2>2, <2>4
    <3>3. stage' \in [Actions -> Stages] /\ faults' \in 0..MaxFaults
      BY <2>1, <2>4
    <3>4. since' \in [Actions -> 0..RenewEvery]
      BY <2>1, <2>4
    <3>5. /\ left' \in [Actions -> 0..(PollMax + WaitMax)]
          /\ \A y \in Actions : y # x => left'[y] = left[y] /\ stage'[y] = stage[y]
      BY <2>1, <2>4, <3>1
    <3>6. stage'[x] = "renewing" => left'[x] = left[x]
      BY <1>5, <2>1, <2>4 DEF Poll
    <3>7. RenewLeft' BY <3>1, <3>5, <3>6
    <3> QED BY <1>5, <2>1, <2>4, <3>2, <3>3, <3>4, <3>5, <3>7 DEF Poll
  <2> QED BY <2>3, <2>4
<1>6. ASSUME NEW x \in Actions, Renew(x) PROVE TypeOK' /\ RenewLeft'
  <2>1. CASE Renewed(x) /\ UNCHANGED <<seen, result>> /\ (Succeeds \/ Fails)
    BY <1>6, <2>1 DEF Renew, Renewed
  <2>2. CASE /\ Succeeds /\ UNCHANGED left
             /\ Judge(x, seen[x][1], seen[x][2])
    <3>1. seen[x][1] \in Int /\ seen[x][2] \in Int OBVIOUS
    <3> HIDE DEF Goto, Stages
    <3>2. RenewLeft' BY <2>2, <3>1, JudgeType
    <3>3. faults' \in 0..MaxFaults BY <2>2
    <3> QED BY <1>6, <2>2, <3>1, <3>2, <3>3, JudgeType DEF Renew
  <2> QED BY <1>6, <2>1, <2>2 DEF Renew
<1>7. ASSUME NEW x \in Actions, Rollback(x) PROVE TypeOK' /\ RenewLeft'
  <2>1. spec' \in SpecType /\ disturbed' \subseteq Actions
    BY <1>7, SpecClosed DEF Rollback, Change
  <2>2. stage' \in [Actions -> Stages] /\ RenewLeft'
    BY <1>7 DEF Rollback, Finish
  <2>3. left' \in [Actions -> 0..(PollMax + WaitMax)] /\ faults' \in 0..MaxFaults
    BY <1>7 DEF Rollback
  <2>4. result' \in [Actions -> {"none", "failed", "success", "partial", Critical}]
    BY <1>7 DEF Rollback, Finish
  <2> QED BY <1>7, <2>1, <2>2, <2>3, <2>4 DEF Rollback
<1>8. ASSUME NEW x \in Actions, Wait(x) PROVE TypeOK' /\ RenewLeft'
  <2>1. stage' \in [Actions -> Stages] /\ RenewLeft' /\ restored' \subseteq Actions
    BY <1>8 DEF Wait, Finish
  <2>2. left' \in [Actions -> 0..(PollMax + WaitMax)] /\ faults' \in 0..MaxFaults
    BY <1>8 DEF Wait
  <2>3. result' \in [Actions -> {"none", "failed", "success", "partial", Critical}]
    BY <1>8 DEF Wait, Finish
  <2> QED BY <1>8, <2>1, <2>2, <2>3 DEF Wait
<1>9. ASSUME NEW x \in Actions, Release(x) PROVE TypeOK' /\ RenewLeft'
  BY <1>9 DEF Release
<1>10. ASSUME NEW x \in Actions, Record(x) PROVE TypeOK' /\ RenewLeft'
  BY <1>10 DEF Record, Incidents
<1>11. ASSUME NEW x \in Actions, Verify(x) PROVE TypeOK' /\ RenewLeft'
  BY <1>11 DEF Verify, UpdateIncident, Incidents
<1>12. ASSUME NEW x \in Actions, Crash(x) PROVE TypeOK' /\ RenewLeft'
  BY <1>12 DEF Crash
<1>13. ASSUME NEW x \in Actions, Evict(x) PROVE TypeOK' /\ RenewLeft'
  BY <1>13 DEF Evict
<1>14. ASSUME NEW i \in Images, Deploy(i) PROVE TypeOK' /\ RenewLeft'
  <2>1. spec' \in SpecType /\ disturbed' \subseteq Actions
    BY <1>14 DEF Deploy, Change, SpecType
  <2> QED BY <1>14, <2>1 DEF Deploy
<1>15. CASE UNCHANGED vars
  BY <1>15 DEF vars
<1> QED
  BY <1>1, <1>2, <1>3, <1>4, <1>5, <1>6, <1>7, <1>8, <1>9, <1>10, <1>11, <1>12,
     <1>13, <1>14, <1>15 DEF Next, Execute, Finalize

\* Type correctness; in particular no deadline is overrun.
THEOREM TypeCorrect == Spec => []TypeOK
BY InitTypeOK, NextTypeOK, PTL DEF Spec

\* What a task that does not touch deployment or snapshots does to it.
Quiet(x) ==
  /\ UNCHANGED <<spec, disturbed, snapshot, before, restored>>
  /\ \A y \in Actions : y # x => stage'[y] = stage[y]
  /\ stage[x] \in {"applied", "polling", "renewing", "rollback", "waiting", "releasing"}
  /\ stage'[x] \in {"polling", "renewing", "rollback", "releasing", "over", stage[x]}
  /\ x \in restored => stage'[x] \in {"releasing", "over"}

\* A step that leaves the deployment, the snapshots and the stages alone keeps SnapshotKept.
LEMMA QuietKeeps ==
  ASSUME SnapshotKept, NEW x \in Actions, Quiet(x) PROVE SnapshotKept'
BY DEF SnapshotKept, Quiet, SameSpec

\* A change by another disturbs all it could matter to.
LEMMA ChangeDisturbs ==
  ASSUME NEW x, NEW s, Change(Actions \ {x}, s), NEW y \in Actions, y # x, y \notin disturbed'
  PROVE  spec' = spec /\ y \notin disturbed
BY DEF Change

\* Every step keeps what snapshots are.
LEMMA NextSnapshotKept ==
  ASSUME TypeOK, SnapshotKept, [Next]_vars PROVE SnapshotKept'
<1> USE DEF Succeeds, Fails, Goto, history, task, agent, cluster
<1>1. ASSUME NEW x \in Actions, DryRun(x) PROVE SnapshotKept'
  BY <1>1 DEF DryRun, SnapshotKept, SameSpec, TypeOK
<1>2. ASSUME NEW x \in Actions, Capture(x) PROVE SnapshotKept'
  BY <1>2 DEF Capture, SnapshotKept, SameSpec, TypeOK
<1>3. ASSUME NEW x \in Actions, Apply(x) PROVE SnapshotKept'
  <2>1. /\ stage[x] = "captured" /\ before' = [before EXCEPT ![x] = spec]
        /\ stage'[x] \in {"applied", "over"}
        /\ \A y \in Actions : y # x => stage'[y] = stage[y]
        /\ UNCHANGED <<snapshot, restored>>
        /\ Change(Actions \ {x}, Applied(kind[x], spec)) \/ UNCHANGED cluster
    BY <1>3 DEF Apply, TypeOK
  <2>2. \A y \in Actions : y # x /\ y \notin disturbed' => spec' = spec /\ y \notin disturbed
    BY <2>1, ChangeDisturbs
  <2>3. x \notin restored /\ (x \notin disturbed' => x \notin disturbed)
    BY <2>1 DEF Change, SnapshotKept
  <2> QED BY <2>1, <2>2, <2>3 DEF SnapshotKept, SameSpec, TypeOK
<1>4. ASSUME NEW x \in Actions, Acquire(x) PROVE SnapshotKept'
  BY <1>4, QuietKeeps DEF Acquire, Quiet, TypeOK, SnapshotKept
<1>5. ASSUME NEW x \in Actions, Poll(x) PROVE SnapshotKept'
  <2>1. stage'[x] \in {"polling", "renewing", "rollback", "releasing"}
    BY <1>5 DEF Poll, Judge, Finish, TypeOK
  <2>2. \A y \in Actions : y # x => stage'[y] = stage[y]
    BY <1>5 DEF Poll, Judge, Finish, TypeOK
  <2> QED BY <1>5, <2>1, <2>2, QuietKeeps DEF Poll, Quiet, SnapshotKept
<1>6. ASSUME NEW x \in Actions, Renew(x) PROVE SnapshotKept'
  <2>1. stage'[x] \in {"polling", "rollback", "releasing"}
    BY <1>6 DEF Renew, Renewed, Judge, Finish, TypeOK
  <2>2. \A y \in Actions : y # x => stage'[y] = stage[y]
    BY <1>6 DEF Renew, Renewed, Judge, Finish, TypeOK
  <2> QED BY <1>6, <2>1, <2>2, QuietKeeps DEF Renew, Quiet, SnapshotKept
<1>7. ASSUME NEW x \in Actions, Rollback(x) PROVE SnapshotKept'
  <2> DEFINE s == IF snapshot[x] = NoSnapshot THEN Undone(spec) ELSE Pinned(snapshot[x], spec)
  <2>1. /\ stage[x] = "rollback" /\ stage'[x] \in {"waiting", "releasing"}
        /\ \A y \in Actions : y # x => stage'[y] = stage[y]
        /\ UNCHANGED <<snapshot, before, restored>>
        /\ Change(Actions \ {x}, s) \/ (UNCHANGED cluster /\ stage'[x] = "releasing")
    BY <1>7 DEF Rollback, Finish, TypeOK
  <2>2. \A y \in Actions : y # x /\ y \notin disturbed' => spec' = spec /\ y \notin disturbed
    BY <2>1, ChangeDisturbs
  <2>3. x \notin restored /\ (x \notin disturbed' => x \notin disturbed)
    BY <2>1 DEF Change, SnapshotKept
  <2>4. stage'[x] = "waiting" /\ snapshot[x] # NoSnapshot => SameSpec(spec', snapshot[x])
    BY <2>1 DEF Change, Pinned, SameSpec
  <2> QED BY <2>1, <2>2, <2>3, <2>4 DEF SnapshotKept, SameSpec
<1>8. ASSUME NEW x \in Actions, Wait(x) PROVE SnapshotKept'
  <2>1. /\ stage[x] = "waiting" /\ restored' \in {restored, restored \cup {x}}
        /\ \/ stage' = stage /\ restored' = restored
           \/ stage'[x] = "releasing" /\ \A y \in Actions : y # x => stage'[y] = stage[y]
        /\ UNCHANGED <<spec, disturbed, snapshot, before>>
    BY <1>8 DEF Wait, Finish, TypeOK
  <2> QED BY <2>1 DEF SnapshotKept, SameSpec
<1>9. ASSUME NEW x \in Actions, Release(x) PROVE SnapshotKept'
  BY <1>9, QuietKeeps DEF Release, Quiet, TypeOK, SnapshotKept
<1>10. ASSUME NEW x \in Actions, Record(x) \/ Verify(x) \/ Evict(x) PROVE SnapshotKept'
  BY <1>10 DEF Record, Verify, Evict, SnapshotKept, SameSpec
<1>11. ASSUME NEW x \in Actions, Crash(x) PROVE SnapshotKept'
  BY <1>11 DEF Crash, SnapshotKept, SameSpec, TypeOK
<1>12. ASSUME NEW i \in Images, Deploy(i) PROVE SnapshotKept'
  <2>1. spec' # spec BY <1>12 DEF Deploy, Change, TypeOK, SpecType
  <2>2. \A y \in Actions : y \in disturbed'
    BY <1>12, <2>1 DEF Deploy, Change
  <2> QED BY <1>12, <2>2 DEF Deploy, SnapshotKept
<1>13. CASE UNCHANGED vars
  BY <1>13 DEF vars, SnapshotKept, SameSpec
<1> QED
  BY <1>1, <1>2, <1>3, <1>4, <1>5, <1>6, <1>7, <1>8, <1>9, <1>10, <1>11, <1>12, <1>13
     DEF Next, Execute, Finalize

\* A rollback from a snapshot brings back exactly what was there before the action,
\* whatever else happened, unless another has changed the deployment meanwhile.
THEOREM RestoresExactly == Spec => []RestoreExact
<1>1. Init => SnapshotKept
  BY DEF Init, SnapshotKept
<1>2. TypeOK /\ SnapshotKept => RestoreExact
  BY DEF TypeOK, SnapshotKept, RestoreExact, SameSpec
<1> QED BY <1>1, <1>2, InitTypeOK, NextTypeOK, NextSnapshotKept, PTL DEF Spec

\* Why no rollback is premature without faults: a task that polls holds its lease, so
\* no renewal ends its poll, and a read that found all replicas ready is no failure.
HoldsLease ==
  faults = 0 => \A x \in Actions :
    /\ stage[x] \in {"polling", "renewing"} => x \in leases
    /\ stage[x] = "rollback" => left[x] = 0

\* What a step of x that no fault is part of does to the other actions and to its own.
Alone(x) ==
  /\ \A y \in Actions : y # x => /\ stage'[y] = stage[y] /\ left'[y] = left[y]
                                 /\ y \in leases => y \in leases'
  /\ stage'[x] \in {"polling", "renewing"} => x \in leases'
  /\ stage'[x] = "rollback" => left'[x] = 0

\* A step that cares for its own action keeps HoldsLease.
LEMMA AloneKeeps ==
  ASSUME HoldsLease, faults = 0, NEW x \in Actions, Alone(x) PROVE HoldsLease'
BY DEF HoldsLease, Alone

\* A poll is only judged too short of replicas when its time is up.
LEMMA PollIsPatient ==
  ASSUME TypeOK, HoldsLease, faults = 0, faults' = 0, NEW x \in Actions, Poll(x)
  PROVE  Alone(x)
<1> USE DEF TypeOK, Goto
<1>1. PICK ready \in 0..MaxReplicas, intended \in {Desired, 1} :
        /\ Succeeds \/ Fails
        /\ IF ready >= intended \/ Expired(x)
           THEN Judge(x, intended, ready) /\ UNCHANGED left
           ELSE /\ IF since[x] >= RenewEvery
                   THEN Goto(x, "renewing") /\ UNCHANGED <<left, since>>
                   ELSE left' = [left EXCEPT ![x] = @ - 1] /\ UNCHANGED stage
  BY DEF Poll
<1>2. stage[x] = "polling" /\ leases' = leases /\ x \in leases
  BY DEF Poll, HoldsLease
<1>3. ready \in Nat /\ intended \in Nat /\ intended > 0
  BY Bounds DEF Desired, SpecType
<1>4. CASE ready >= intended \/ Expired(x)
  <2>1. Judge(x, intended, ready) /\ left' = left BY <1>1, <1>4
  <2>2. /\ \A y \in Actions : y # x => stage'[y] = stage[y]
        /\ stage'[x] \in {"rollback", "releasing"}
        /\ stage'[x] = "rollback" => TooFew(intended, ready)
    BY <2>1 DEF Judge, Finish
  <2>3. TooFew(intended, ready) => ~(ready >= intended)
    BY <1>3 DEF TooFew
  <2>4. stage'[x] = "rollback" => left[x] = 0
    BY <1>4, <2>2, <2>3 DEF Expired
  <2> QED BY <1>2, <2>1, <2>2, <2>4 DEF Alone
<1>5. CASE ~(ready >= intended \/ Expired(x))
  BY <1>1, <1>2, <1>5 DEF Alone
<1> QED BY <1>4, <1>5

\* Every step keeps the leases of the tasks that poll.
LEMMA NextHoldsLease ==
  ASSUME TypeOK, HoldsLease, [Next]_vars PROVE HoldsLease'
<1> USE DEF Succeeds, Fails, Goto, history, task, agent, cluster
<1>1. SUFFICES ASSUME faults' = 0 PROVE HoldsLease'
  BY DEF HoldsLease
<1>2. CASE Next
  <2>1. faults \in Nat BY DEF TypeOK
  <2>2. ASSUME NEW x \in Actions, Execute(x) PROVE HoldsLease'
    <3>1. faults = 0
      BY <1>1, <2>1, <2>2 DEF Execute, DryRun, Capture, Apply, Acquire
    <3>2. /\ \A y \in Actions : y # x => stage'[y] = stage[y] /\ left'[y] = left[y]
          /\ \A y \in Actions : y \in leases => y \in leases'
          /\ stage'[x] \in {"checked", "captured", "applied", "over", "polling"}
      BY <2>2 DEF Execute, DryRun, Capture, Apply, Acquire, TypeOK
    <3>3. stage'[x] = "polling" => x \in leases'
      BY <1>1, <2>1, <2>2, <3>1 DEF Execute, DryRun, Capture, Apply, Acquire, TypeOK
    <3> QED BY <3>1, <3>2, <3>3, AloneKeeps DEF Alone
  <2>3. ASSUME NEW x \in Actions, Poll(x) PROVE HoldsLease'
    <3>1. faults = 0 BY <1>1, <2>1, <2>3 DEF Poll
    <3> QED BY <1>1, <2>3, <3>1, PollIsPatient, AloneKeeps
  <2>4. ASSUME NEW x \in Actions, Renew(x) PROVE HoldsLease'
    <3>1. faults = 0 BY <1>1, <2>1, <2>4 DEF Renew
    <3>2. x \in leases BY <2>4, <3>1 DEF Renew, HoldsLease
    <3>3. Renewed(x) /\ leases' = leases BY <2>4, <3>2 DEF Renew
    <3> QED BY <3>1, <3>2, <3>3, AloneKeeps DEF Alone, Renewed, TypeOK
  <2>5. ASSUME NEW x \in Actions, Rollback(x) PROVE HoldsLease'
    <3>1. faults = 0 BY <1>1, <2>1, <2>5 DEF Rollback
    <3> QED BY <2>5, <3>1, AloneKeeps DEF Rollback, Finish, Alone, TypeOK
  <2>6. ASSUME NEW x \in Actions, Wait(x) \/ Release(x) PROVE HoldsLease'
    <3>1. faults = 0 BY <1>1, <2>1, <2>6 DEF Wait, Release
    <3>2. /\ \A y \in Actions : y # x => /\ stage'[y] = stage[y] /\ left'[y] = left[y]
                                         /\ y \in leases => y \in leases'
          /\ stage'[x] \in {"waiting", "releasing", "over"}
      BY <2>6 DEF Wait, Release, Finish, TypeOK
    <3> QED BY <3>1, <3>2, AloneKeeps DEF Alone
  <2>7. ASSUME NEW x \in Actions, Record(x) \/ Verify(x) PROVE HoldsLease'
    <3>1. faults = 0 BY <1>1, <2>1, <2>7 DEF Record, Verify
    <3> QED BY <2>7, <3>1 DEF Record, Verify, HoldsLease
  <2>8. ASSUME NEW x \in Actions, Crash(x) \/ Evict(x) PROVE FALSE
    BY <1>1, <2>1, <2>8 DEF Crash, Evict
  <2>9. ASSUME NEW i \in Images, Deploy(i) PROVE HoldsLease'
    BY <1>1, <2>9 DEF Deploy, HoldsLease
  <2> QED BY <1>2, <2>2, <2>3, <2>4, <2>5, <2>6, <2>7, <2>8, <2>9 DEF Next, Finalize
<1>3. CASE UNCHANGED vars
  BY <1>3 DEF vars, HoldsLease
<1> QED BY <1>2, <1>3

\* While calls succeed, no pod dies and no lease is evicted, a deployment is only
\* rolled back after the whole time the poll is given.
THEOREM RollsBackPatiently == Spec => []PatientRollback
<1>1. Init => HoldsLease
  BY DEF Init, HoldsLease
<1>2. HoldsLease => PatientRollback
  BY DEF HoldsLease, PatientRollback
<1> QED BY <1>1, <1>2, InitTypeOK, NextTypeOK, NextHoldsLease, PTL DEF Spec
-----------------------------------------------------------------------------
(* The course of an action *)

MovesOn(x) == Precedes(Course(x), Course(x)') \/ Kept(x)

\* A later place, or the same place and fewer reads left, or the same and a renewal
\* begun, is further on.
LEMMA FurtherOn ==
  ASSUME TypeOK, TypeOK', NEW x \in Actions,
         \/ Place(x) < Place(x)'
         \/ Place(x) = Place(x)' /\ left'[x] < left[x]
         \/ /\ Place(x) = Place(x)' /\ left'[x] = left[x]
            /\ stage[x] # "renewing" /\ stage'[x] = "renewing"
  PROVE  MovesOn(x)
<1> DEFINE a == PollMax + WaitMax - left[x]
           b == PollMax + WaitMax - left'[x]
           r == IF stage[x] = "renewing" THEN 1 ELSE 0
           s == IF stage'[x] = "renewing" THEN 1 ELSE 0
<1>1. /\ a \in Int /\ b \in Int /\ left[x] \in Int /\ left'[x] \in Int
      /\ (left'[x] < left[x] => a < b) /\ (left'[x] = left[x] => a = b)
  BY Bounds DEF TypeOK
<1>2. /\ DOMAIN Course(x) = 1..3 /\ DOMAIN Course(x)' = 1..3
      /\ Course(x)[1] = Place(x) /\ Course(x)'[1] = Place(x)'
      /\ Course(x)[2] = a /\ Course(x)'[2] = b
      /\ Course(x)[3] = r /\ Course(x)'[3] = s
  BY DEF Course
<1>3. stage[x] # "renewing" /\ stage'[x] = "renewing" => r < s
  OBVIOUS
<1> HIDE DEF a, b, r, s
<1>4. CASE Place(x) < Place(x)'
  BY <1>2, <1>4 DEF Precedes, MovesOn
<1>5. CASE Place(x) = Place(x)' /\ left'[x] < left[x]
  BY <1>1, <1>2, <1>5 DEF Precedes, MovesOn
<1>6. CASE /\ Place(x) = Place(x)' /\ left'[x] = left[x]
           /\ stage[x] # "renewing" /\ stage'[x] = "renewing"
  BY <1>1, <1>2, <1>3, <1>6 DEF Precedes, MovesOn
<1> QED BY <1>4, <1>5, <1>6

\* A judgement is a place further on.
LEMMA JudgedMovesOn ==
  ASSUME TypeOK, TypeOK', NEW x \in Actions, stage[x] \in {"polling", "renewing"},
         NEW i, NEW a, Judge(x, i, a)
  PROVE  MovesOn(x)
<1>1. stage'[x] \in {"rollback", "releasing"}
  BY DEF Judge, Goto, Finish, TypeOK
<1>2. Place(x) = 4 /\ Place(x)' \in {5, 7}
  BY <1>1 DEF Place
<1> QED BY <1>2, FurtherOn

\* The steps of one action move it on.
LEMMA TaskMovesOn ==
  ASSUME TypeOK, TypeOK', RenewLeft, NEW x \in Actions, Execute(x) \/ Finalize(x) \/ Crash(x)
  PROVE  MovesOn(x)
<1> USE DEF Goto
<1>1. CASE DryRun(x)
  <2>1. stage[x] = "idle" /\ stage'[x] \in {"checked", "over"}
    BY <1>1 DEF DryRun, TypeOK
  <2>2. Place(x) = 0 /\ Place(x)' \in {1, 8}
    BY <2>1 DEF Place
  <2> QED BY <2>2, FurtherOn
<1>2. CASE Capture(x)
  <2>1. stage[x] = "checked" /\ stage'[x] = "captured"
    BY <1>2 DEF Capture, TypeOK
  <2>2. Place(x) = 1 /\ Place(x)' = 2
    BY <2>1 DEF Place
  <2> QED BY <2>2, FurtherOn
<1>3. CASE Apply(x)
  <2>1. stage[x] = "captured" /\ stage'[x] \in {"applied", "over"}
    BY <1>3 DEF Apply, TypeOK
  <2>2. Place(x) = 2 /\ Place(x)' \in {3, 8}
    BY <2>1 DEF Place
  <2> QED BY <2>2, FurtherOn
<1>4. CASE Acquire(x)
  <2>1. stage[x] = "applied" /\ stage'[x] = "polling"
    BY <1>4 DEF Acquire, TypeOK
  <2>2. Place(x) = 3 /\ Place(x)' = 4
    BY <2>1 DEF Place
  <2> QED BY <2>2, FurtherOn
<1>5. CASE Poll(x)
  <2>1. stage[x] = "polling"
    BY <1>5 DEF Poll
  <2>2. \/ \E i, a : Judge(x, i, a)
        \/ /\ ~Expired(x)
           /\ \/ stage' = [stage EXCEPT ![x] = "renewing"] /\ UNCHANGED left
              \/ left' = [left EXCEPT ![x] = @ - 1] /\ UNCHANGED stage
    BY <1>5 DEF Poll
  <2>3. CASE \E i, a : Judge(x, i, a)
    BY <2>1, <2>3, JudgedMovesOn
  <2>4. CASE stage' = [stage EXCEPT ![x] = "renewing"] /\ UNCHANGED left
    <3>1. stage'[x] = "renewing" /\ left'[x] = left[x]
      BY <2>4 DEF TypeOK
    <3>2. Place(x) = 4 /\ Place(x)' = 4
      BY <2>1, <3>1 DEF Place
    <3> QED BY <2>1, <3>1, <3>2, FurtherOn
  <2>5. CASE ~Expired(x) /\ left' = [left EXCEPT ![x] = @ - 1] /\ UNCHANGED stage
    <3>1. stage'[x] = stage[x] /\ left'[x] < left[x]
      BY <2>5, Bounds DEF TypeOK
    <3>2. Place(x) = Place(x)'
      BY <3>1 DEF Place
    <3> QED BY <3>1, <3>2, FurtherOn
  <2> QED BY <2>2, <2>3, <2>4, <2>5
<1>6. CASE Renew(x)
  <2>1. stage[x] = "renewing"
    BY <1>6 DEF Renew
  <2>2. CASE \E i, a : Judge(x, i, a)
    BY <2>1, <2>2, JudgedMovesOn
  <2>3. CASE Renewed(x)
    <3>1. stage'[x] = "polling" /\ left'[x] < left[x]
      BY <2>3, Bounds DEF Renewed, TypeOK
    <3>2. Place(x) = 4 /\ Place(x)' = 4
      BY <2>1, <3>1 DEF Place
    <3> QED BY <3>1, <3>2, FurtherOn
  <2> QED BY <1>6, <2>2, <2>3 DEF Renew
<1>7. CASE Rollback(x)
  <2>1. stage[x] = "rollback" /\ stage'[x] \in {"waiting", "releasing"}
    BY <1>7 DEF Rollback, Finish, TypeOK
  <2>2. Place(x) = 5 /\ Place(x)' \in {6, 7}
    BY <2>1 DEF Place
  <2> QED BY <2>2, FurtherOn
<1>8. CASE Wait(x)
  <2>1. stage[x] = "waiting"
    BY <1>8 DEF Wait
  <2>2. \/ \E s : Finish(x, s)
        \/ left' = [left EXCEPT ![x] = @ - 1] /\ UNCHANGED stage
    BY <1>8 DEF Wait
  <2>3. CASE \E s : Finish(x, s)
    <3>1. stage'[x] = "releasing"
      BY <2>3 DEF Finish, TypeOK
    <3>2. Place(x) = 6 /\ Place(x)' = 7
      BY <2>1, <3>1 DEF Place
    <3> QED BY <3>2, FurtherOn
  <2>4. CASE left' = [left EXCEPT ![x] = @ - 1] /\ UNCHANGED stage
    <3>1. stage'[x] = stage[x] /\ left'[x] < left[x]
      BY <2>4, Bounds DEF TypeOK
    <3>2. Place(x) = Place(x)'
      BY <3>1 DEF Place
    <3> QED BY <3>1, <3>2, FurtherOn
  <2> QED BY <2>2, <2>3, <2>4
<1>9. CASE Release(x)
  <2>1. stage[x] = "releasing" /\ stage'[x] = "over"
    BY <1>9 DEF Release, TypeOK
  <2>2. Place(x) = 7 /\ Place(x)' = 8
    BY <2>1 DEF Place
  <2> QED BY <2>2, FurtherOn
<1>10. CASE Crash(x)
  <2>1. stage[x] \in Stages \ {"idle", "over", "lost"} /\ stage'[x] = "lost"
    BY <1>10 DEF Crash, TypeOK
  <2>2. Place(x) \in 1..7 /\ Place(x)' = 8
    BY <2>1 DEF Place, Stages
  <2> QED BY <2>2, FurtherOn
<1> HIDE DEF Goto
<1> QED BY <1>1, <1>2, <1>3, <1>4, <1>5, <1>6, <1>7, <1>8, <1>9, <1>10 DEF Execute, Finalize

\* They leave the other actions where they are.
LEMMA OthersKept ==
  ASSUME TypeOK, NEW x \in Actions, Execute(x) \/ Finalize(x) \/ Crash(x),
         NEW y \in Actions \ {x}
  PROVE  Kept(y)
<1> USE DEF TypeOK, Kept, Goto
<1>1. ASSUME NEW i, NEW a, Judge(x, i, a)
      PROVE  UNCHANGED <<stage[y], seen[y], since[y], result[y]>>
  BY <1>1 DEF Judge, Finish
<1>2. CASE Execute(x) \/ Crash(x)
  BY <1>2 DEF Execute, DryRun, Capture, Apply, Acquire, Crash
<1>3. CASE Poll(x)
  <2>1. UNCHANGED <<stage[y], seen[y], since[y], result[y]>>
    BY <1>1, <1>3 DEF Poll
  <2>2. left'[y] = left[y]
    BY <1>3 DEF Poll
  <2> QED BY <2>1, <2>2
<1>4. CASE Renew(x)
  <2>1. UNCHANGED <<stage[y], seen[y], since[y], result[y]>>
    BY <1>1, <1>4 DEF Renew, Renewed
  <2>2. left'[y] = left[y]
    BY <1>4 DEF Renew, Renewed
  <2> QED BY <2>1, <2>2
<1>5. CASE Rollback(x) \/ Wait(x) \/ Release(x)
  BY <1>5 DEF Rollback, Wait, Release, Finish
<1> QED BY <1>2, <1>3, <1>4, <1>5 DEF Finalize

\* Every action only moves on, whatever fails and whatever the other actions do; the
\* deadlines bound its places and reads, so that it takes finitely many steps, which
\* is why its poll and its rollback end (_poll_ready, _wait_for_running).
THEOREM ActionsOnlyMoveOn == Spec => OnlyMovesOn
<1>1. ASSUME TypeOK, TypeOK', RenewLeft, Next, NEW y \in Actions PROVE MovesOn(y)
  <2>1. CASE \E x \in Actions : Execute(x) \/ Finalize(x) \/ Crash(x)
    BY <1>1, <2>1, TaskMovesOn, OthersKept DEF MovesOn
  <2>2. CASE \/ \E x \in Actions : Record(x) \/ Verify(x) \/ Evict(x)
             \/ \E image \in Images : Deploy(image)
    BY <2>2 DEF Record, Verify, Evict, Deploy, task, MovesOn, Kept
  <2> QED BY <1>1, <2>1, <2>2 DEF Next
<1>2. TypeOK /\ TypeOK' /\ RenewLeft /\ [Next]_vars => [MoveOn]_vars
  BY <1>1 DEF MovesOn, MoveOn
<1> QED BY <1>2, InitTypeOK, NextTypeOK, PTL DEF Spec, OnlyMovesOn
=============================================================================

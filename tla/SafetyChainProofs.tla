-------------------------- MODULE SafetyChainProofs --------------------------
(***************************************************************************)
(* Theorems of SafetyChain for every number of analyses, every policy and   *)
(* every request, bucket, window and threshold.                             *)
(***************************************************************************)
EXTENDS SafetyChain, FiniteSetTheorems, TLAPS

USE ChainAssumption

\* The policy answers with an action type, whatever was proposed.
LEMMA DecideType == ASSUME policy \in Policies, NEW r \in Requests, NEW act \in Actions
                    PROVE  Decide(r, act) \in Actions
<1> DEFINE sig == <<r.error, r.severity, r.confidence>>
<1>1. sig \in Signatures BY DEF RequestType, Signatures
<1>2. policy.first[sig] \in Actions /\ policy.allowed[sig] \subseteq Actions
  BY <1>1 DEF PolicyType
<1>3. "no_action" \in Actions BY DEF Actions, Safe
<1> QED BY <1>2, <1>3 DEF Decide

\* Moving on keeps the types of stage and action.
LEMMA ProceedType ==
  ASSUME TypeOK, NEW a \in Analyses, NEW st \in Stages, NEW act \in Actions,
         Proceed(a, st, act)
  PROVE  stage' \in [Analyses -> Stages] /\ action' \in [Analyses -> Actions]
BY DEF Proceed, TypeOK

\* What the gates that await nothing leave behind: the action they were given,
\* which is then severe and confident enough, or no action.
LEMMA StaticGatesOutcome ==
  ASSUME TypeOK, NEW a \in Analyses, NEW act \in Actions, StaticGates(a, act)
  PROVE  /\ limit' \in [Analyses -> Nat]
         /\ \E st \in {"rate", "budget", "decided"} :
              \/ Proceed(a, st, "no_action")
              \/ Proceed(a, st, act) /\ SeverityGate(req[a], act)
<1>1. policy.limit[act] \in Nat /\ policy.budget \in Nat
  BY DEF TypeOK, PolicyType
<1>2. CASE limit' = limit BY <1>2 DEF StaticGates, Deny, TypeOK
<1>3. CASE limit' = [limit EXCEPT ![a] = IF policy.limit[act] > 0 THEN policy.limit[act]
                                         ELSE policy.budget]
  BY <1>1, <1>3 DEF StaticGates, Deny, TypeOK
<1> QED BY <1>2, <1>3 DEF StaticGates, Deny

\* So those gates keep the types of what they change.
LEMMA StaticGatesType ==
  ASSUME TypeOK, NEW a \in Analyses, NEW act \in Actions, StaticGates(a, act)
  PROVE  /\ limit' \in [Analyses -> Nat]
         /\ stage' \in [Analyses -> Stages] /\ action' \in [Analyses -> Actions]
<1>1. "no_action" \in Actions BY DEF Actions, Safe
<1> QED BY StaticGatesOutcome, ProceedType, <1>1 DEF Stages

\* An answered or failed request keeps the count of faults within its bound.
LEMMA FaultsType == ASSUME TypeOK, Answered \/ Failed PROVE faults' \in 0..MaxFaults
BY DEF TypeOK, Answered, Failed

\* The initial states are type correct.
LEMMA InitTypeOK == Init => TypeOK
BY DEF Init, TypeOK, Stages, Actions, Safe, Never

\* Every step of the chain, the policy and the clock keeps the types.
LEMMA NextTypeOK == ASSUME TypeOK, [Next]_vars PROVE TypeOK'
<1> USE DEF TypeOK
<1>0. {"notify", "no_action"} \subseteq Actions BY DEF Actions, Safe
<1>1. ASSUME NEW a \in Analyses, NEW r \in Requests, Begin(a, r) PROVE TypeOK'
  <2>1. r.proposed \in Actions BY DEF RequestType
  <2>2. Decide(r, r.proposed) \in Actions BY <2>1, DecideType
  <2>3. stage' \in [Analyses -> Stages] /\ action' \in [Analyses -> Actions]
    BY <1>1, <1>0, <2>1, <2>2, ProceedType DEF Begin, Deny, Stages
  <2>4. faults' \in 0..MaxFaults BY <1>1, FaultsType DEF Begin
  <2>5. req' \in [Analyses -> Requests] /\ inForce' \in [Analyses -> SUBSET Policies]
    BY <1>1 DEF Begin
  <2> QED BY <1>1, <2>3, <2>4, <2>5 DEF Begin, shared
<1>2. ASSUME NEW a \in Analyses, Cascade(a) PROVE TypeOK'
  <2>1. \A act \in Actions : Decide(req[a], act) \in Actions BY DecideType
  <2>2. action[a] \in Actions OBVIOUS
  <2>3. stage' \in [Analyses -> Stages] /\ action' \in [Analyses -> Actions]
    BY <1>2, <1>0, <2>1, <2>2, ProceedType DEF Cascade, Stages
  <2>4. faults' \in 0..MaxFaults BY <1>2, FaultsType DEF Cascade
  <2> QED BY <1>2, <2>3, <2>4 DEF Cascade, shared, history
<1>3. ASSUME NEW a \in Analyses, LoopFrozen(a) PROVE TypeOK'
  <2>1. stage' \in [Analyses -> Stages] /\ action' \in [Analyses -> Actions]
    BY <1>3, <1>0, ProceedType DEF LoopFrozen, Deny, Stages
  <2>2. faults' \in 0..MaxFaults BY <1>3, FaultsType DEF LoopFrozen
  <2> QED BY <1>3, <2>1, <2>2 DEF LoopFrozen, shared, history
<1>4. ASSUME NEW a \in Analyses, LoopCount(a) PROVE TypeOK'
  <2>1. PICK act \in {"notify", action[a]} :
          \/ Deny(a) /\ UNCHANGED limit
          \/ StaticGates(a, act)
          \/ Proceed(a, "lock", act) /\ UNCHANGED limit
    BY <1>4 DEF LoopCount
  <2>2. act \in Actions BY <1>0
  <2>3. /\ stage' \in [Analyses -> Stages] /\ action' \in [Analyses -> Actions]
        /\ limit' \in [Analyses -> Nat]
    BY <1>0, <2>1, <2>2, ProceedType, StaticGatesType DEF Deny, Stages
  <2>4. faults' \in 0..MaxFaults BY <1>4, FaultsType DEF LoopCount
  <2> QED BY <1>4, <2>3, <2>4 DEF LoopCount, shared, history
<1>5. ASSUME NEW a \in Analyses, Lock(a) PROVE TypeOK'
  <2>1. action[a] \in Actions /\ req[a].service \in Services BY DEF RequestType
  <2>2. now \div Bucket \in Nat OBVIOUS
  <2>3. LockId(req[a].service, action[a]) \in Services \X Actions \X Nat
    BY <2>1, <2>2 DEF LockId
  <2>4. locks' \subseteq Services \X Actions \X Nat
    BY <1>5, <2>3 DEF Lock, Conflict
  <2>5. lockedAt' \in [Analyses -> Nat \cup {Never}] BY <1>5 DEF Lock, Conflict
  <2>6. /\ stage' \in [Analyses -> Stages] /\ action' \in [Analyses -> Actions]
        /\ limit' \in [Analyses -> Nat]
    BY <1>0, <1>5, <2>1, ProceedType, StaticGatesType DEF Lock, Conflict, Deny, Stages
  <2>7. faults' \in 0..MaxFaults BY <1>5, FaultsType DEF Lock
  <2> QED BY <1>5, <2>4, <2>5, <2>6, <2>7 DEF Lock
<1>6. ASSUME NEW a \in Analyses, RateLimit(a) PROVE TypeOK'
  <2>1. policy.budget \in Nat BY DEF PolicyType
  <2>2. stage' \in [Analyses -> Stages] /\ action' \in [Analyses -> Actions]
    BY <1>6, <1>0, ProceedType DEF RateLimit, Deny, Stages
  <2>3. faults' \in 0..MaxFaults BY <1>6, FaultsType DEF RateLimit
  <2>4. limit' \in [Analyses -> Nat] BY <1>6, <2>1 DEF RateLimit
  <2> QED BY <1>6, <2>2, <2>3, <2>4 DEF RateLimit, shared, history
<1>7. ASSUME NEW a \in Analyses, Budget(a) PROVE TypeOK'
  <2>1. stage' \in [Analyses -> Stages] /\ action' \in [Analyses -> Actions]
    BY <1>7, <1>0, ProceedType DEF Budget, Deny, Stages
  <2>2. faults' \in 0..MaxFaults BY <1>7, FaultsType DEF Budget
  <2> QED BY <1>7, <2>1, <2>2 DEF Budget, shared, history
<1>8. ASSUME NEW a \in Analyses, Act(a) PROVE TypeOK'
  BY <1>8 DEF Act, shared, history, Stages
<1>9. ASSUME NEW a \in Analyses, Audit(a) PROVE TypeOK'
  <2>1. faults' \in 0..MaxFaults BY <1>9, FaultsType DEF Audit
  <2> QED BY <1>9, <2>1 DEF Audit, Stages, history
<1>10. ASSUME Reload PROVE TypeOK' BY <1>10 DEF Reload
<1>11. ASSUME Tick PROVE TypeOK' BY <1>11 DEF Tick, shared, history
<1>12. ASSUME UNCHANGED vars PROVE TypeOK' BY <1>12 DEF vars, shared, history
<1> QED
  BY <1>1, <1>2, <1>3, <1>4, <1>5, <1>6, <1>7, <1>8, <1>9, <1>10, <1>11, <1>12 DEF Next, Step

\* Type correctness of the safety stack.
THEOREM TypeCorrect == Spec => []TypeOK
BY InitTypeOK, NextTypeOK, PTL DEF Spec

------------------------------------------------------------------------------
(* The lock and the evidence behind what runs.  A denied analysis forgets its *)
(* action but keeps its lock, so only a lock with an action still attached is  *)
(* held on behalf of an execution.                                            *)

BeforeLock == {"idle", "cascade", "frozen", "loop", "lock"}
Held(a) == lockedAt[a] # Never /\ action[a] # "no_action"

LockRecorded ==
  \A a \in Analyses :
    /\ stage[a] \in BeforeLock => lockedAt[a] = Never
    /\ Held(a) => <<req[a].service, action[a], lockedAt[a] \div Bucket>> \in locks
LockUnique ==
  \A a, b \in Analyses : /\ a # b /\ Held(a) /\ Held(b)
                         /\ req[a].service = req[b].service /\ action[a] = action[b]
                         => lockedAt[a] \div Bucket # lockedAt[b] \div Bucket
LockTaken ==
  faults = 0 => \A a \in Analyses : stage[a] \notin BeforeLock /\ action[a] \notin Safe
                                    => lockedAt[a] # Never
Evident ==
  \A a \in Analyses : stage[a] \notin BeforeLock => SeverityGate(req[a], action[a])
RanApproved ==
  \A a \in ran : /\ stage[a] \in {"audit", "done"}
                 /\ action[a] \notin Safe
                 /\ ~NeedsApproval(req[a], action[a])

ChainInv == TypeOK /\ LockRecorded /\ LockUnique /\ LockTaken /\ Evident /\ RanApproved

\* A step of a that neither takes the lock nor acts.  Past the lock the action
\* can only be dropped; a step that skips the lock has a safe action.
Quiet(a) ==
  /\ UNCHANGED <<locks, lockedAt, ran>>
  /\ faults' >= faults
  /\ \/ UNCHANGED req
     \/ stage[a] = "idle" /\ \E r \in Requests : req' = [req EXCEPT ![a] = r]
  /\ \E st \in Stages, act \in Actions :
       /\ Proceed(a, st, act)
       /\ st \in BeforeLock => stage[a] \in BeforeLock
       /\ stage[a] \in BeforeLock /\ st \notin BeforeLock => act \in Safe
       /\ stage[a] \notin BeforeLock => act \in {action[a], "no_action"}
       /\ stage[a] \in {"audit", "done"} => act = action[a] /\ st \in {"audit", "done"}

\* A fault is never forgotten.
LEMMA FaultsGrow == ASSUME TypeOK, Answered \/ Failed PROVE faults' >= faults
BY DEF TypeOK, Answered, Failed

\* Every step of an analysis but the lock and the execution is a quiet one.
LEMMA QuietSteps ==
  ASSUME TypeOK, NEW a \in Analyses, Step(a), ~Lock(a), ~Act(a) PROVE Quiet(a)
<1> USE DEF BeforeLock, Stages
<1>0. {"notify", "no_action"} \subseteq Actions /\ {"notify", "no_action"} = Safe
  BY DEF Actions, Safe
<1>t. action[a] \in Actions /\ req[a] \in Requests BY DEF TypeOK
<1>1. ASSUME NEW r \in Requests, Begin(a, r) PROVE Quiet(a)
  <2>1. r.proposed \in Actions BY DEF RequestType
  <2>2. Decide(r, r.proposed) \in Actions BY <2>1, DecideType DEF TypeOK
  <2>3. faults' >= faults BY <1>1, FaultsGrow DEF Begin
  <2> QED BY <1>0, <1>1, <2>1, <2>2, <2>3 DEF Begin, Quiet, Deny, shared
<1>2. CASE Cascade(a)
  <2>1. \A act \in Actions : Decide(req[a], act) \in Actions BY <1>t, DecideType DEF TypeOK
  <2>2. faults' >= faults BY <1>2, FaultsGrow DEF Cascade
  <2> QED BY <1>0, <1>t, <1>2, <2>1, <2>2 DEF Cascade, Quiet, shared, history
<1>3. CASE LoopFrozen(a)
  <2>1. faults' >= faults BY <1>3, FaultsGrow DEF LoopFrozen
  <2> QED BY <1>0, <1>t, <1>3, <2>1 DEF LoopFrozen, Quiet, Deny, shared, history
<1>4. CASE LoopCount(a)
  <2>1. faults' >= faults BY <1>4, FaultsGrow DEF LoopCount
  <2>2. PICK act \in {"notify", action[a]} :
          \/ Deny(a)
          \/ act \in Safe /\ StaticGates(a, act)
          \/ Proceed(a, "lock", act)
    BY <1>4 DEF LoopCount
  <2>3. act \in Actions BY <1>0, <1>t
  <2>4. \/ \E st \in {"rate", "budget", "decided"} : \E x \in Safe : Proceed(a, st, x)
        \/ Proceed(a, "lock", act)
    BY <1>0, <2>2, <2>3, StaticGatesOutcome DEF Deny
  <2> QED BY <1>0, <1>4, <2>1, <2>3, <2>4 DEF LoopCount, Quiet, shared, history
<1>5. CASE RateLimit(a)
  <2>1. faults' >= faults BY <1>5, FaultsGrow DEF RateLimit
  <2> QED BY <1>0, <1>t, <1>5, <2>1 DEF RateLimit, Quiet, Deny, shared, history
<1>6. CASE Budget(a)
  <2>1. faults' >= faults BY <1>6, FaultsGrow DEF Budget
  <2> QED BY <1>0, <1>t, <1>6, <2>1 DEF Budget, Quiet, Deny, shared, history
<1>7. CASE Audit(a)
  <2>1. faults' >= faults BY <1>7, FaultsGrow DEF Audit
  <2>2. Proceed(a, "done", action[a]) BY <1>7 DEF Audit, Proceed, TypeOK
  <2> QED BY <1>t, <1>7, <2>1, <2>2 DEF Audit, Quiet, history
<1> QED BY <1>1, <1>2, <1>3, <1>4, <1>5, <1>6, <1>7 DEF Step

\* Nothing is locked or run at the start.
LEMMA InitChainInv == Init => ChainInv
<1> SUFFICES ASSUME Init PROVE ChainInv OBVIOUS
<1>1. TypeOK BY InitTypeOK
<1>2. /\ stage \in [Analyses -> {"idle", "done"}]
      /\ \A a \in Analyses : action[a] = "no_action" /\ lockedAt[a] = Never
      /\ ran = {} /\ locks = {}
  BY DEF Init
<1>3. LockRecorded /\ LockUnique BY <1>2 DEF LockRecorded, LockUnique, Held
<1>4. LockTaken BY <1>2 DEF LockTaken, Safe
<1>5. Evident BY <1>2 DEF Evident, Destructive, SeverityGate
<1>6. RanApproved BY <1>2 DEF RanApproved
<1> QED BY <1>1, <1>3, <1>4, <1>5, <1>6 DEF ChainInv

\* Quiet steps keep the invariant: no lock is taken and no action changes under one.
LEMMA QuietChainInv ==
  ASSUME ChainInv, TypeOK', NEW a \in Analyses, Quiet(a) PROVE ChainInv'
<1>1. PICK st \in Stages, act \in Actions :
        /\ Proceed(a, st, act)
        /\ st \in BeforeLock => stage[a] \in BeforeLock
        /\ stage[a] \in BeforeLock /\ st \notin BeforeLock => act \in Safe
        /\ stage[a] \notin BeforeLock => act \in {action[a], "no_action"}
        /\ stage[a] \in {"audit", "done"} => act = action[a] /\ st \in {"audit", "done"}
  BY DEF Quiet
<1>2. /\ stage'[a] = st /\ action'[a] = act
      /\ \A b \in Analyses \ {a} : /\ stage'[b] = stage[b] /\ action'[b] = action[b]
                                   /\ req'[b] = req[b]
      /\ stage[a] # "idle" => req'[a] = req[a]
      /\ UNCHANGED <<locks, lockedAt, ran>>
  BY <1>1 DEF Quiet, Proceed, ChainInv, TypeOK
<1>3. \A b \in Analyses : Held(b)' => /\ Held(b) /\ action'[b] = action[b]
                                      /\ req'[b] = req[b]
  BY <1>1, <1>2 DEF ChainInv, LockRecorded, Held, BeforeLock
<1>4. LockRecorded'
  <2>1. \A b \in Analyses : stage'[b] \in BeforeLock => lockedAt'[b] = Never
    BY <1>1, <1>2 DEF ChainInv, LockRecorded
  <2>2. \A b \in Analyses : Held(b)' => <<req'[b].service, action'[b],
                                          lockedAt'[b] \div Bucket>> \in locks'
    BY <1>2, <1>3 DEF ChainInv, LockRecorded
  <2> QED BY <2>1, <2>2 DEF LockRecorded
<1>5. LockUnique' BY <1>2, <1>3 DEF ChainInv, LockUnique
<1>6. LockTaken'
  <2>1. faults' = 0 => faults = 0 BY DEF Quiet, ChainInv, TypeOK
  <2> QED BY <1>1, <1>2, <2>1 DEF ChainInv, LockTaken, BeforeLock, Safe
<1>7. Evident'
  BY <1>1, <1>2 DEF ChainInv, Evident, SeverityGate, BeforeLock, Safe, Destructive
<1>8. RanApproved'
  <2>1. \A b \in ran : /\ b \in Analyses
                       /\ req'[b] = req[b] /\ action'[b] = action[b]
                       /\ stage'[b] \in {"audit", "done"}
    BY <1>1, <1>2 DEF ChainInv, TypeOK, RanApproved
  <2> QED BY <1>2, <2>1 DEF ChainInv, RanApproved, NeedsApproval
<1> QED BY <1>4, <1>5, <1>6, <1>7, <1>8 DEF ChainInv

\* The create of a lock keeps the invariant: its id was free, so nobody holds it.
LEMMA LockChainInv ==
  ASSUME ChainInv, TypeOK', NEW a \in Analyses, Lock(a) PROVE ChainInv'
<1> DEFINE id == LockId(req[a].service, action[a])
<1>t. TypeOK /\ action[a] \in Actions BY DEF ChainInv, TypeOK
<1>1. PICK st \in {"rate", "budget", "decided"}, act \in {action[a], "no_action"} :
        Proceed(a, st, act) /\ SeverityGate(req[a], act)
  <2>1. SeverityGate(req[a], "no_action") BY DEF SeverityGate, Destructive
  <2> QED BY <1>t, <2>1, StaticGatesOutcome DEF Lock, Conflict, Deny
<1>2. /\ stage'[a] = st /\ action'[a] = act
      /\ \A b \in Analyses \ {a} : stage'[b] = stage[b] /\ action'[b] = action[b]
      /\ UNCHANGED <<req, ran>>
  BY <1>t, <1>1 DEF Proceed, TypeOK, Lock
<1>3. locks \subseteq locks' BY DEF Lock, Conflict
<1>4. \/ /\ lockedAt' = [lockedAt EXCEPT ![a] = now]
         /\ id \notin locks /\ id \in locks' /\ faults' = faults
      \/ UNCHANGED lockedAt /\ (faults' = 0 => act = "no_action")
  <2>1. CASE Answered /\ id \in locks /\ Conflict(a)
    <3>1. action'[a] = "no_action" BY <1>t, <2>1 DEF Conflict, Deny, Proceed, TypeOK
    <3> QED BY <1>2, <2>1, <3>1 DEF Conflict
  <2>2. CASE Answered /\ id \notin locks
    BY <1>t, <2>2 DEF Lock, Answered, Failed, TypeOK
  <2>3. CASE Failed /\ UNCHANGED lockedAt BY <1>t, <2>3 DEF Failed, TypeOK
  <2> QED BY <2>1, <2>2, <2>3 DEF Lock
<1>5. stage[a] = "lock" /\ lockedAt[a] = Never
  BY DEF Lock, ChainInv, LockRecorded, BeforeLock
<1>6. \A b \in Analyses \ {a} : /\ lockedAt'[b] = lockedAt[b]
                                /\ Held(b)' <=> Held(b)
  BY <1>2, <1>4, <1>t DEF Held, TypeOK
<1>7. Held(a)' => /\ lockedAt'[a] = now /\ act = action[a]
                  /\ id = <<req[a].service, act, now \div Bucket>>
                  /\ id \notin locks /\ id \in locks'
  BY <1>1, <1>2, <1>4, <1>5, <1>t DEF Held, TypeOK, LockId
<1>8. LockRecorded'
  <2>1. \A b \in Analyses : stage'[b] \in BeforeLock => lockedAt'[b] = Never
    BY <1>2, <1>6 DEF ChainInv, LockRecorded, BeforeLock
  <2>2. \A b \in Analyses \ {a} :
          Held(b)' => <<req'[b].service, action'[b], lockedAt'[b] \div Bucket>> \in locks'
    BY <1>2, <1>3, <1>6 DEF ChainInv, LockRecorded
  <2>3. Held(a)' => <<req'[a].service, action'[a], lockedAt'[a] \div Bucket>> \in locks'
    BY <1>2, <1>7
  <2> QED BY <2>1, <2>2, <2>3 DEF LockRecorded
<1>9. LockUnique'
  <2>1. ASSUME NEW b \in Analyses \ {a}, Held(a)', Held(b)',
               req'[a].service = req'[b].service, action'[a] = action'[b]
        PROVE  lockedAt'[a] \div Bucket # lockedAt'[b] \div Bucket
    <3>1. <<req[b].service, action[b], lockedAt[b] \div Bucket>> \in locks
      BY <1>6, <2>1 DEF ChainInv, LockRecorded
    <3> QED BY <1>2, <1>6, <1>7, <2>1, <3>1
  <2>2. ASSUME NEW b \in Analyses \ {a}, NEW c \in Analyses \ {a}, b # c, Held(b)', Held(c)',
               req'[b].service = req'[c].service, action'[b] = action'[c]
        PROVE  lockedAt'[b] \div Bucket # lockedAt'[c] \div Bucket
    BY <1>2, <1>6, <2>2 DEF ChainInv, LockUnique
  <2> QED BY <2>1, <2>2 DEF LockUnique
<1>10. LockTaken'
  <2>1. faults' = 0 => faults = 0 BY <1>t DEF Lock, Answered, Failed, TypeOK
  <2>2. faults' = 0 /\ action'[a] \notin Safe => lockedAt'[a] # Never
    BY <1>2, <1>4, <1>t DEF Safe, TypeOK, Never
  <2> QED BY <1>2, <1>6, <2>1, <2>2 DEF ChainInv, LockTaken
<1>11. Evident' BY <1>1, <1>2 DEF ChainInv, Evident, SeverityGate
<1>12. RanApproved'
  <2>1. \A b \in ran : b \in Analyses /\ b # a BY <1>5, <1>t DEF ChainInv, TypeOK, RanApproved
  <2> QED BY <1>2, <2>1 DEF ChainInv, RanApproved, NeedsApproval
<1> QED BY <1>8, <1>9, <1>10, <1>11, <1>12 DEF ChainInv

\* Executing keeps the invariant: what the approval rule lets through stays as it was.
LEMMA ActChainInv ==
  ASSUME ChainInv, TypeOK', NEW a \in Analyses, Act(a) PROVE ChainInv'
<1>t. TypeOK BY DEF ChainInv
<1>1. /\ stage[a] = "decided" /\ stage'[a] = "audit"
      /\ \A b \in Analyses \ {a} : stage'[b] = stage[b]
      /\ UNCHANGED <<locks, req, action, lockedAt, faults>>
  BY <1>t DEF Act, TypeOK, shared, history
<1>2. LockRecorded' BY <1>1 DEF ChainInv, LockRecorded, Held, BeforeLock
<1>3. LockUnique' BY <1>1 DEF ChainInv, LockUnique, Held
<1>4. LockTaken' BY <1>1 DEF ChainInv, LockTaken, BeforeLock
<1>5. Evident' BY <1>1 DEF ChainInv, Evident, SeverityGate, BeforeLock
<1>6. RanApproved'
  <2>1. \A b \in ran : b \in Analyses /\ b # a BY <1>1, <1>t DEF ChainInv, RanApproved, TypeOK
  <2>2. \/ ran' = ran
        \/ ran' = ran \cup {a} /\ action[a] \notin Safe /\ ~NeedsApproval(req[a], action[a])
    BY DEF Act
  <2> QED BY <1>1, <2>1, <2>2 DEF ChainInv, RanApproved, NeedsApproval
<1> QED BY <1>2, <1>3, <1>4, <1>5, <1>6 DEF ChainInv

\* The invariant is inductive.
LEMMA NextChainInv == ASSUME ChainInv, [Next]_vars PROVE ChainInv'
<1>1. TypeOK /\ TypeOK' BY NextTypeOK DEF ChainInv
<1>2. ASSUME NEW a \in Analyses, Step(a) PROVE ChainInv'
  BY <1>1, <1>2, QuietSteps, QuietChainInv, LockChainInv, ActChainInv
<1>3. ASSUME Reload \/ Tick \/ UNCHANGED vars PROVE ChainInv'
  <2>1. UNCHANGED <<locks, stage, req, action, lockedAt, faults, ran>>
    BY <1>3 DEF Reload, Tick, vars, shared, history
  <2> QED
    BY <1>1, <2>1 DEF ChainInv, LockRecorded, LockUnique, LockTaken, Evident, RanApproved,
                      Held, SeverityGate, NeedsApproval
<1> QED BY <1>2, <1>3 DEF Next

\* The invariant the three theorems below rest on.
LEMMA ChainInvariant == Spec => []ChainInv
BY InitChainInv, NextChainInv, PTL DEF Spec

\* The lock of gate 4: of two analyses whose lock the store granted, no two run
\* one action type on one service in one bucket.
THEOREM LockIsExclusive == Spec => []OnePerBucket
<1>1. ChainInv => OnePerBucket
  BY DEF ChainInv, TypeOK, RanApproved, LockUnique, Held, OnePerBucket, Safe
<1> QED BY <1>1, ChainInvariant, PTL

\* Nothing runs without its lock while the store answers.
THEOREM RunsAreLocked == Spec => []LockedUnlessFailed
<1>1. ChainInv => LockedUnlessFailed
  BY DEF ChainInv, TypeOK, RanApproved, LockTaken, LockedUnlessFailed, BeforeLock
<1> QED BY <1>1, ChainInvariant, PTL

\* A destructive action only runs on evidence, whatever the policy says, and
\* whatever the store answers or fails to answer.
THEOREM EvidenceIsNeeded == Spec => []DestructiveNeedsEvidence
<1>1. ASSUME ChainInv, NEW a \in ran, action[a] \in Destructive
      PROVE  /\ req[a].severity \in {"high", "critical"}
             /\ req[a].confidence = "high"
             /\ req[a].blast \in {"low", "medium"}
             /\ req[a].service \notin CriticalServices
  <2>1. req[a] \in RequestType /\ a \in Analyses BY <1>1 DEF ChainInv, TypeOK
  <2>2. SeverityGate(req[a], action[a]) /\ ~NeedsApproval(req[a], action[a])
    BY <1>1, <2>1 DEF ChainInv, RanApproved, Evident, BeforeLock
  <2>3. req[a].blast \in Severities BY <2>1 DEF RequestType
  <2> QED BY <1>1, <2>2, <2>3 DEF SeverityGate, NeedsApproval, Severities
<1>2. ChainInv => DestructiveNeedsEvidence BY <1>1 DEF DestructiveNeedsEvidence
<1> QED BY <1>2, ChainInvariant, PTL
------------------------------------------------------------------------------
(* What bounds executions *)

\* An action that got past the lock without one: the request for it failed.
Unlocked(a) == stage[a] \notin BeforeLock /\ action[a] \notin Safe /\ lockedAt[a] = Never
AllUnlocked == {a \in Analyses : Unlocked(a)}

\* Each of them cost a failed request.
PaidFor == IsFiniteSet(AllUnlocked) /\ Cardinality(AllUnlocked) <= faults

BoundInv == ChainInv /\ PaidFor

\* Nothing is added to the unlocked actions but by a lock request that fails.
LEMMA UnlockedGrows ==
  ASSUME ChainInv, TypeOK', [Next]_vars
  PROVE  \/ AllUnlocked' \subseteq AllUnlocked /\ faults' >= faults
         \/ faults' = faults + 1 /\ \E a \in Analyses : AllUnlocked' \subseteq AllUnlocked \cup {a}
<1>t. TypeOK /\ faults \in Nat BY DEF ChainInv, TypeOK
<1>1. ASSUME NEW a \in Analyses, Quiet(a) PROVE AllUnlocked' \subseteq AllUnlocked /\ faults' >= faults
  <2>1. PICK st \in Stages, act \in Actions :
          /\ Proceed(a, st, act)
          /\ st \in BeforeLock => stage[a] \in BeforeLock
          /\ stage[a] \in BeforeLock /\ st \notin BeforeLock => act \in Safe
          /\ stage[a] \notin BeforeLock => act \in {action[a], "no_action"}
    BY <1>1 DEF Quiet
  <2>2. /\ stage'[a] = st /\ action'[a] = act /\ lockedAt' = lockedAt
        /\ \A b \in Analyses \ {a} : stage'[b] = stage[b] /\ action'[b] = action[b]
    BY <1>t, <1>1, <2>1 DEF Quiet, Proceed, TypeOK
  <2>3. \A b \in Analyses : Unlocked(b)' => Unlocked(b)
    BY <2>1, <2>2 DEF Unlocked, Safe
  <2>4. faults' >= faults BY <1>1 DEF Quiet
  <2> QED BY <2>3, <2>4 DEF AllUnlocked
<1>2. ASSUME NEW a \in Analyses, Act(a) PROVE AllUnlocked' \subseteq AllUnlocked /\ faults' >= faults
  <2>1. /\ stage[a] = "decided" /\ UNCHANGED <<action, lockedAt, faults>>
        /\ \A b \in Analyses \ {a} : stage'[b] = stage[b]
    BY <1>t, <1>2 DEF Act, TypeOK, history
  <2>2. \A b \in Analyses : Unlocked(b)' => Unlocked(b) BY <2>1 DEF Unlocked, BeforeLock
  <2> QED BY <1>t, <2>1, <2>2 DEF AllUnlocked
<1>3. ASSUME NEW a \in Analyses, Lock(a)
      PROVE  \/ AllUnlocked' \subseteq AllUnlocked /\ faults' >= faults
             \/ faults' = faults + 1 /\ AllUnlocked' \subseteq AllUnlocked \cup {a}
  <2>0. action[a] \in Actions /\ now \in Nat BY <1>t DEF TypeOK
  <2>1. PICK st \in {"rate", "budget", "decided"}, act \in {action[a], "no_action"} :
          Proceed(a, st, act)
    BY <1>t, <1>3, <2>0, StaticGatesOutcome DEF Lock, Conflict, Deny
  <2>2. \A b \in Analyses \ {a} : stage'[b] = stage[b] /\ action'[b] = action[b]
    BY <1>t, <2>1 DEF Proceed, TypeOK
  <2>3. \A b \in Analyses \ {a} : lockedAt'[b] = lockedAt[b]
    BY <1>t, <1>3 DEF Lock, Conflict, TypeOK
  <2>4. \A b \in Analyses \ {a} : Unlocked(b)' => Unlocked(b) BY <2>2, <2>3 DEF Unlocked
  <2>5. CASE Answered
    <3>1. lockedAt'[a] = now \/ action'[a] = "no_action"
      BY <1>t, <1>3, <2>5 DEF Lock, Conflict, Deny, Proceed, Answered, Failed, TypeOK
    <3>2. ~Unlocked(a)' BY <2>0, <3>1 DEF Unlocked, Never, Safe
    <3> QED BY <1>t, <2>4, <2>5, <3>2 DEF AllUnlocked, Answered
  <2>6. CASE Failed
    BY <2>4, <2>6 DEF Failed, AllUnlocked
  <2> QED BY <1>3, <2>5, <2>6 DEF Lock
<1>4. CASE Reload \/ Tick \/ UNCHANGED vars
  <2>1. UNCHANGED <<stage, action, lockedAt, faults>>
    BY <1>4 DEF Reload, Tick, vars, history
  <2> QED BY <1>t, <2>1 DEF AllUnlocked, Unlocked
<1>5. ASSUME NEW a \in Analyses, Step(a) PROVE Quiet(a) \/ Act(a) \/ Lock(a)
  BY <1>t, <1>5, QuietSteps
<1> QED BY <1>1, <1>2, <1>3, <1>4, <1>5 DEF Next

LEMMA NextPaid == ASSUME BoundInv, [Next]_vars PROVE BoundInv'
<1>1. ChainInv' BY NextChainInv DEF BoundInv
<1>2. /\ ChainInv /\ TypeOK' /\ faults \in Nat /\ faults' \in Nat
      /\ IsFiniteSet(AllUnlocked) /\ Cardinality(AllUnlocked) <= faults
  BY <1>1 DEF BoundInv, PaidFor, ChainInv, TypeOK
<1>3. Cardinality(AllUnlocked) \in Nat BY <1>2, FS_CardinalityType
<1>4. CASE AllUnlocked' \subseteq AllUnlocked /\ faults' >= faults
  <2>1. IsFiniteSet(AllUnlocked') /\ Cardinality(AllUnlocked') <= Cardinality(AllUnlocked)
    BY <1>2, <1>4, FS_Subset
  <2>2. Cardinality(AllUnlocked') \in Nat BY <2>1, FS_CardinalityType
  <2>3. Cardinality(AllUnlocked') <= faults' BY <1>2, <1>3, <1>4, <2>1, <2>2
  <2> QED BY <1>1, <2>1, <2>3 DEF BoundInv, PaidFor
<1>5. ASSUME NEW a \in Analyses, AllUnlocked' \subseteq AllUnlocked \cup {a}, faults' = faults + 1
      PROVE  BoundInv'
  <2>1. /\ IsFiniteSet(AllUnlocked \cup {a})
        /\ Cardinality(AllUnlocked \cup {a}) \in {Cardinality(AllUnlocked), Cardinality(AllUnlocked) + 1}
    BY <1>2, FS_AddElement
  <2>2. /\ IsFiniteSet(AllUnlocked')
        /\ Cardinality(AllUnlocked') <= Cardinality(AllUnlocked \cup {a})
    BY <1>5, <2>1, FS_Subset
  <2>3. Cardinality(AllUnlocked') \in Nat BY <2>2, FS_CardinalityType
  <2>4. Cardinality(AllUnlocked') <= faults' BY <1>2, <1>3, <1>5, <2>1, <2>2, <2>3
  <2> QED BY <1>1, <2>2, <2>4 DEF BoundInv, PaidFor
<1> QED BY <1>2, <1>4, <1>5, UnlockedGrows

\* A later instant is in no earlier bucket.
LEMMA BucketsInOrder ==
  ASSUME NEW from \in Nat, NEW to \in Nat, from <= to
  PROVE  from \div Bucket <= to \div Bucket /\ from \div Bucket \in Nat /\ to \div Bucket \in Nat
<1>1. Bucket \in Nat \ {0} OBVIOUS
<1> QED BY <1>1

\* The executions with a lock: one per bucket that the interval touches.
LEMMA LockedBounded ==
  ASSUME ChainInv, NEW service \in Services, NEW act \in Actions,
         NEW from \in Nat, NEW to \in Nat, from <= to,
         NEW S, S = {a \in ran : /\ req[a].service = service /\ action[a] = act
                                  /\ lockedAt[a] \in from..to}
  PROVE  IsFiniteSet(S) /\ Cardinality(S) <= to \div Bucket - from \div Bucket + 1
<1> DEFINE first == from \div Bucket
           last == to \div Bucket
           f == [a \in S |-> lockedAt[a] \div Bucket]
<1>1. first \in Nat /\ last \in Nat /\ first <= last BY BucketsInOrder
<1>2. ASSUME NEW a \in S PROVE f[a] \in first..last
  <2>1. lockedAt[a] \in Nat /\ from <= lockedAt[a] /\ lockedAt[a] <= to OBVIOUS
  <2>2. /\ first <= lockedAt[a] \div Bucket /\ lockedAt[a] \div Bucket <= last
        /\ lockedAt[a] \div Bucket \in Nat
    BY <2>1, BucketsInOrder
  <2> QED BY <1>1, <2>2
<1>3. ASSUME NEW a \in S, NEW b \in S, a # b PROVE f[a] # f[b]
  <2>1. /\ a \in Analyses /\ b \in Analyses /\ Held(a) /\ Held(b)
        /\ req[a].service = req[b].service /\ action[a] = action[b]
    BY <1>3 DEF ChainInv, TypeOK, RanApproved, Held, Never, Safe
  <2> QED BY <1>3, <2>1 DEF ChainInv, LockUnique
<1> HIDE DEF first, last
<1>4. f \in Injection(S, first..last)
  <2>1. f \in [S -> first..last] BY <1>2
  <2> HIDE DEF f
  <2> QED BY <1>3, <2>1 DEF Injection, IsInjective
<1>5. IsFiniteSet(first..last) /\ Cardinality(first..last) = last - first + 1
  <2>1. first \in Int /\ last \in Int /\ ~(first > last) BY <1>1
  <2>2. /\ IsFiniteSet(first..last)
        /\ Cardinality(first..last) = IF first > last THEN 0 ELSE last - first + 1
    BY <2>1, FS_Interval
  <2> QED BY <2>1, <2>2
<1>6. IsFiniteSet(S) /\ Cardinality(S) <= Cardinality(first..last)
  <2> HIDE DEF f
  <2> QED BY <1>4, <1>5, FS_Injection
<1> QED BY <1>5, <1>6 DEF first, last

\* What limits the executions of an action on a service, whatever the rate limits of the
\* policy say: its lock, once per bucket, and the failures of the store.
THEOREM LockBoundsRuns == Spec => []RunsAreBounded
<1>1. Init => BoundInv
  <2> SUFFICES ASSUME Init PROVE PaidFor BY InitChainInv DEF BoundInv
  <2>1. AllUnlocked = {} BY DEF Init, AllUnlocked, Unlocked, Safe
  <2> QED BY <2>1, FS_EmptySet DEF PaidFor, Init
<1>2. BoundInv /\ [Next]_vars => BoundInv' BY NextPaid
<1>3. ASSUME BoundInv, NEW service \in Services, NEW act \in Actions,
             NEW from \in 0..MaxTime, NEW to \in 0..MaxTime, from <= to
      PROVE  Cardinality({a \in ran : /\ req[a].service = service /\ action[a] = act
                                      /\ lockedAt[a] \in (from..to) \cup {Never}})
               <= faults + (to \div Bucket - from \div Bucket) + 1
  <2> DEFINE Runs == {a \in ran : /\ req[a].service = service /\ action[a] = act
                                  /\ lockedAt[a] \in (from..to) \cup {Never}}
             Locked == {a \in ran : /\ req[a].service = service /\ action[a] = act
                                    /\ lockedAt[a] \in from..to}
             most == to \div Bucket - from \div Bucket + 1
  <2>1. /\ ChainInv /\ IsFiniteSet(AllUnlocked) /\ Cardinality(AllUnlocked) <= faults
        /\ faults \in Nat
    BY <1>3 DEF BoundInv, PaidFor, ChainInv, TypeOK
  <2>2. IsFiniteSet(Locked) /\ Cardinality(Locked) <= most
    <3> HIDE DEF Locked
    <3>1. from \in Nat /\ to \in Nat OBVIOUS
    <3> QED BY <1>3, <2>1, <3>1, LockedBounded DEF Locked
  <2>3. most \in Int
    <3>1. from \in Nat /\ to \in Nat OBVIOUS
    <3> QED BY <1>3, <3>1, BucketsInOrder
  <2>4. Runs \subseteq Locked \cup AllUnlocked
    BY <2>1 DEF ChainInv, TypeOK, RanApproved, AllUnlocked, Unlocked, BeforeLock
  <2> HIDE DEF Runs, Locked, most
  <2>5. /\ IsFiniteSet(Locked \cup AllUnlocked)
        /\ Cardinality(Locked \cup AllUnlocked)
             = Cardinality(Locked) + Cardinality(AllUnlocked) - Cardinality(Locked \cap AllUnlocked)
    BY <2>1, <2>2, FS_Union
  <2>6. IsFiniteSet(Locked \cap AllUnlocked) BY <2>2, FS_Subset
  <2>7. IsFiniteSet(Runs) /\ Cardinality(Runs) <= Cardinality(Locked \cup AllUnlocked)
    BY <2>4, <2>5, FS_Subset
  <2>8. /\ Cardinality(Locked) \in Nat /\ Cardinality(AllUnlocked) \in Nat
        /\ Cardinality(Locked \cap AllUnlocked) \in Nat /\ Cardinality(Runs) \in Nat
        /\ Cardinality(Locked \cup AllUnlocked) \in Nat
    BY <2>1, <2>2, <2>5, <2>6, <2>7, FS_CardinalityType
  <2>9. Cardinality(Runs) <= faults + most BY <2>1, <2>2, <2>3, <2>5, <2>7, <2>8
  <2>10. to \div Bucket \in Nat /\ from \div Bucket \in Nat
    <3>1. from \in Nat /\ to \in Nat OBVIOUS
    <3> QED BY <1>3, <3>1, BucketsInOrder
  <2>11. faults + most = faults + (to \div Bucket - from \div Bucket) + 1
    BY <2>1, <2>10 DEF most
  <2> QED BY <2>9, <2>11 DEF Runs
<1>4. BoundInv => RunsAreBounded BY <1>3 DEF RunsAreBounded
<1> QED BY <1>1, <1>2, <1>4, PTL DEF Spec
=============================================================================

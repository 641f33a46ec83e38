----------------------------- MODULE SafetyChain -----------------------------
(***************************************************************************)
(* The safety stack between a proposed action and Kubernetes, run by many   *)
(* incident analyses at once: validate in core/safety.py with apply_policy, *)
(* check_loop and requires_approval, the lock and incident queries of       *)
(* services/memory_store.py, and the end of run_analysis in core/agent.py,  *)
(* which executes the action and saves the incident.                        *)
(*                                                                          *)
(* An await on Elasticsearch ends an atomic step, so what one analysis read *)
(* may be stale when it acts.  A step is named for the answer it processes. *)
(***************************************************************************)
EXTENDS DecisionPolicy, FiniteSets

CONSTANTS Analyses,       \* one incident each
          Past,           \* those that ended before the model starts
          Requests,       \* what they may be about (see RequestType)
          Policies,       \* the policies SIGHUP and reload-policy may install
          Services, Namespaces,
          AnyService,     \* the literal "*" of the budget query
          Upstream,       \* the dependency map: service -> services
          Frozen,         \* services with a CRITICAL_INTERVENTION_REQUIRED incident
          CriticalServices, \* services annotated criticality=critical
          Bucket,         \* seconds of an action lock bucket
          CascadeWindow, ChainWindow, RateWindow, LoopWindow, BudgetWindow,
          EscalateAt, FreezeAt,     \* the loop detector's thresholds
          ZThreshold,               \* ANOMALY_Z_THRESHOLD
          StoreMayFail, MaxFaults,  \* failing requests and their bound
          MaxTime                   \* bound on the clock

RequestType ==
  [service : Services, error : Errors, severity : Severities,
   confidence : Confidences, proposed : Actions, verified : BOOLEAN, score : Int,
   blast : Severities, namespace : Namespaces]

\* The parts of a policy the chain reads: the decision for each signature as
\* the set of allowed actions and its first element, rate limits, protection.
PolicyType ==
  [allowed : [Signatures -> SUBSET Actions], first : [Signatures -> Actions],
   limit : [Actions -> Nat], budget : Nat \ {0}, protected : SUBSET Namespaces]

ASSUME ChainAssumption ==
  /\ Past \subseteq Analyses /\ IsFiniteSet(Past)
  /\ Requests # {} /\ Requests \subseteq RequestType
  /\ Policies \subseteq PolicyType
  /\ \A p \in Policies, sig \in Signatures :
       p.allowed[sig] # {} => p.first[sig] \in p.allowed[sig]
  /\ AnyService \notin Services
  /\ Upstream \in [Services -> SUBSET Services]
  /\ Frozen \subseteq Services /\ CriticalServices \subseteq Services
  /\ Bucket \in Nat \ {0} /\ MaxTime \in Nat /\ MaxFaults \in Nat
  /\ {CascadeWindow, ChainWindow, RateWindow, LoopWindow, BudgetWindow} \subseteq Nat
  /\ EscalateAt \in Nat \ {0} /\ FreezeAt \in Nat \ {0} /\ ZThreshold \in Nat
  /\ StoreMayFail \in BOOLEAN

VARIABLES now,      \* the clock
          policy,   \* current_policy of the process
          locks,    \* ids in the locks index: service, action type, bucket
          docs,     \* analyses whose incident document is saved
          savedAt,  \* its timestamp
          faults,
          stage,    \* the answer each analysis awaits
          req,      \* what it is about
          action,   \* action_type, and in the end SafetyResult.action
          limit,    \* rate limit or budget, read before the answer was awaited
          ran,      \* analyses whose action was handed to the executor
          lockedAt, \* history: when the store granted an analysis its lock
          inForce   \* history: the policies in force while it was under way

shared == <<policy, locks, docs, savedAt>>
history == <<lockedAt, inForce>>
vars == <<now, shared, faults, stage, req, action, limit, ran, history>>

Never == -1
Stages == {"idle", "cascade", "frozen", "loop", "lock", "rate", "budget", "decided",
           "audit", "done"}

TypeOK ==
  /\ now \in 0..MaxTime
  /\ policy \in Policies
  /\ locks \subseteq Services \X Actions \X Nat
  /\ docs \subseteq Analyses
  /\ savedAt \in [Analyses -> Nat]
  /\ faults \in 0..MaxFaults
  /\ stage \in [Analyses -> Stages]
  /\ req \in [Analyses -> Requests]
  /\ action \in [Analyses -> Actions]
  /\ limit \in [Analyses -> Nat]
  /\ ran \subseteq Analyses
  /\ lockedAt \in [Analyses -> Nat \cup {Never}]
  /\ inForce \in [Analyses -> SUBSET Policies]

Init ==
  /\ now = 0
  /\ policy \in Policies
  /\ locks = {} /\ docs = Past
  /\ savedAt = [a \in Analyses |-> 0]
  /\ faults = 0
  /\ stage = [a \in Analyses |-> IF a \in Past THEN "done" ELSE "idle"]
  /\ \E past \in [Past -> Requests] :
       req = [a \in Analyses |-> IF a \in Past THEN past[a] ELSE CHOOSE r \in Requests : TRUE]
  /\ action = [a \in Analyses |-> "no_action"]
  /\ limit = [a \in Analyses |-> 0]
  /\ ran = {}
  /\ lockedAt = [a \in Analyses |-> Never]
  /\ inForce = [a \in Analyses |-> {}]

------------------------------------------------------------------------------
(* Queries on the incidents index *)

Within(d, window) == d \in docs /\ savedAt[d] >= now - window

\* Mutant: a high blast radius needs nobody.
NeedsApprovalCritical(r, act) ==
  /\ act \in Destructive
  /\ r.service \in CriticalServices \/ act = "rollback" \/ r.blast = "critical" \/ r.confidence # "high"

NeedsApproval(r, act) ==
  /\ act \in Destructive
  /\ \/ r.service \in CriticalServices
     \/ act = "rollback"
     \/ r.blast \in {"high", "critical"}
     \/ r.confidence # "high"

\* action_state of the incident saved by analysis d.
ActionState(d) == IF d \in ran THEN "executing"
                  ELSE IF action[d] \notin Safe /\ NeedsApproval(req[d], action[d])
                       THEN "awaiting_approval" ELSE "pending"

FindRecent(service, act, states, window) ==
  {d \in docs : /\ req[d].service = service /\ action[d] = act
                /\ ActionState(d) \in states /\ Within(d, window)}

\* count_unresolved_actions sends a size to the _count API, which refuses every
\* request with one, and reads the refusal as no incidents at all.
CountUnresolved == 0

------------------------------------------------------------------------------
(* The gates that await nothing *)

Answered == UNCHANGED faults
Failed == StoreMayFail /\ faults < MaxFaults /\ faults' = faults + 1

\* Mutant: a critical incident does not wait for its cause.
CausalityGateUrgent(r) == r.proposed \notin Safe /\ r.severity # "critical" => r.verified

\* Gates 0 and 1 look at the proposed action.
AnomalyGate(r) == r.proposed \in Destructive /\ r.score >= 0 => r.score >= ZThreshold
CausalityGate(r) == r.proposed \notin Safe => r.verified

\* apply_policy: an action outside the row is replaced by the row's first.
Decide(r, act) ==
  LET sig == <<r.error, r.severity, r.confidence>>
  IN IF policy.allowed[sig] = {} THEN "no_action"
     ELSE IF act \in policy.allowed[sig] THEN act ELSE policy.first[sig]

\* Mutant: the namespace gate looks at what was proposed, not at what was decided.
NamespaceGateProposed(r) == r.proposed \in Destructive => r.namespace \notin policy.protected

\* Gates 5, 6 and 6b.
NamespaceGate(r) == r.namespace \notin policy.protected
SeverityGate(r, act) ==
  act \in Destructive => r.severity \in {"high", "critical"} /\ r.confidence # "low"
BlastGate(r, act) ==
  act \in Destructive /\ r.blast \in {"high", "critical"} =>
    /\ r.confidence = "high"
    /\ r.severity \in {"high", "critical"}
    /\ r.blast = "critical" => r.severity = "critical"

\* Move on with action type act; a denial ends the chain with no_action.
Proceed(a, st, act) == /\ stage' = [stage EXCEPT ![a] = st]
                       /\ action' = [action EXCEPT ![a] = act]
DenyBlocked(a) == Proceed(a, "decided", "blocked")   \* Mutant: not an action type.

Deny(a) == Proceed(a, "decided", "no_action")

\* Gates 5 to 6b, then on to the gates that query the store.
StaticGates(a, act) ==
  IF ~(NamespaceGate(req[a]) /\ SeverityGate(req[a], act) /\ BlastGate(req[a], act))
  THEN Deny(a) /\ UNCHANGED limit
  ELSE /\ limit' = [limit EXCEPT ![a] = IF policy.limit[act] > 0 THEN policy.limit[act]
                                        ELSE policy.budget]
       /\ Proceed(a, IF act \notin Destructive THEN "decided"
                     ELSE IF policy.limit[act] > 0 THEN "rate" ELSE "budget", act)

------------------------------------------------------------------------------
(* The chain *)

\* An incident of an upstream service in the window: cascade_depth > 0.
UpstreamIncident(service) ==
  \E d \in docs : req[d].service \in Upstream[service] /\ Within(d, ChainWindow)

\* run_analysis looks for an upstream incident, then validate runs gates 0 and
\* 1; a cascade makes it query the store again before it asks the policy.
Begin(a, r) ==
  /\ stage[a] = "idle"
  /\ req' = [req EXCEPT ![a] = r]
  /\ inForce' = [inForce EXCEPT ![a] = {policy}]
  /\ \E cascade \in BOOLEAN :
       /\ \/ Answered /\ cascade = UpstreamIncident(r.service)
          \/ Failed /\ ~cascade
       /\ IF ~AnomalyGate(r) \/ ~CausalityGate(r) THEN Deny(a)
          ELSE IF cascade /\ r.proposed \notin Safe THEN Proceed(a, "cascade", r.proposed)
          ELSE Proceed(a, "frozen", Decide(r, r.proposed))
  /\ UNCHANGED <<now, shared, limit, ran, lockedAt>>

\* Gate 1b downgrades an action that is already executing; then the policy.
Cascade(a) ==
  /\ stage[a] = "cascade"
  /\ \E busy \in BOOLEAN :
       /\ \/ /\ Answered
             /\ busy = (FindRecent(req[a].service, action[a], {"executing"},
                                   CascadeWindow) # {})
          \/ Failed /\ ~busy
       /\ Proceed(a, "frozen", Decide(req[a], IF busy THEN "notify" ELSE action[a]))
  /\ UNCHANGED <<now, shared, req, limit, ran, history>>

\* Gate 3, is_service_frozen.
LoopFrozen(a) ==
  /\ stage[a] = "frozen"
  /\ \/ Answered /\ req[a].service \in Frozen /\ Deny(a)
     \/ Answered /\ req[a].service \notin Frozen /\ Proceed(a, "loop", action[a])
     \/ Failed /\ Proceed(a, "loop", action[a])
  /\ UNCHANGED <<now, shared, req, limit, ran, history>>

LoopVerdict(n) == IF n >= FreezeAt THEN "freeze"
                  ELSE IF n >= EscalateAt THEN "escalate" ELSE "ok"

\* Gate 3, the count of the last hour; a safe action then skips the lock.
LoopCount(a) ==
  LET verdict == LoopVerdict(CountUnresolved)
      act == IF verdict = "escalate" THEN "notify" ELSE action[a]
  IN /\ stage[a] = "loop"
     /\ Answered \/ Failed
     /\ IF verdict = "freeze" THEN Deny(a) /\ UNCHANGED limit
        ELSE IF act \in Safe THEN StaticGates(a, act)
        ELSE Proceed(a, "lock", act) /\ UNCHANGED limit
     /\ UNCHANGED <<now, shared, req, ran, history>>

\* Mutant: the lock id holds the time instead of the bucket.
LockIdUnbucketed(service, act) == <<service, act, now>>

\* The deterministic document id of _action_lock_id.
LockId(service, act) == <<service, act, now \div Bucket>>

\* Mutant: the 409 of op_type=create fails open like any other error.
ConflictFailsOpen(a) == StaticGates(a, action[a]) /\ UNCHANGED <<locks, lockedAt>>

\* A peer holds the lock.
Conflict(a) == Deny(a) /\ UNCHANGED <<limit, locks, lockedAt>>

\* Gate 4, op_type=create of the lock document.  Nothing ever deletes a lock; a
\* store that fails may have created it.
Lock(a) ==
  LET id == LockId(req[a].service, action[a])
  IN /\ stage[a] = "lock"
     /\ \/ /\ Answered /\ id \notin locks
           /\ locks' = locks \cup {id}
           /\ lockedAt' = [lockedAt EXCEPT ![a] = now]
           /\ StaticGates(a, action[a])
        \/ Answered /\ id \in locks /\ Conflict(a)
        \/ /\ Failed /\ StaticGates(a, action[a])          \* fail-open
           /\ locks' \in {locks, locks \cup {id}}
           /\ UNCHANGED lockedAt
     /\ UNCHANGED <<now, policy, docs, savedAt, req, ran, inForce>>

OverLimit(n, max) == n >= max

\* Gate 7: the count of the last ten minutes.
RateLimit(a) ==
  /\ stage[a] = "rate"
  /\ Answered \/ Failed
  /\ IF OverLimit(CountUnresolved, limit[a]) THEN Deny(a) /\ UNCHANGED limit
     ELSE /\ Proceed(a, "budget", action[a])
          /\ limit' = [limit EXCEPT ![a] = policy.budget]
  /\ UNCHANGED <<now, shared, req, ran, history>>

\* Gate 8: one query per destructive type, all for the service named "*".
Budget(a) ==
  LET used == Cardinality(UNION {FindRecent(AnyService, act, {"completed", "executing"},
                                            BudgetWindow) : act \in Destructive})
  IN /\ stage[a] = "budget"
     /\ \E n \in {used, 0} :
          /\ \/ Answered /\ n = used
             \/ Failed /\ n = 0
          /\ IF OverLimit(n, limit[a]) THEN Deny(a) ELSE Proceed(a, "decided", action[a])
     /\ UNCHANGED <<now, shared, req, limit, ran, history>>

------------------------------------------------------------------------------
(* The end of run_analysis *)

\* execute_async applies the action and schedule_verification is called, unless
\* the action is safe or waits for a human.
Act(a) ==
  /\ stage[a] = "decided"
  /\ stage' = [stage EXCEPT ![a] = "audit"]
  /\ IF action[a] \notin Safe /\ ~NeedsApproval(req[a], action[a])
     THEN ran' = ran \cup {a} ELSE UNCHANGED ran
  /\ UNCHANGED <<now, shared, faults, req, action, limit, history>>

\* record_analysis saves the incident, best effort.
Audit(a) ==
  /\ stage[a] = "audit"
  /\ stage' = [stage EXCEPT ![a] = "done"]
  /\ \/ /\ Answered
        /\ docs' = docs \cup {a}
        /\ savedAt' = [savedAt EXCEPT ![a] = now]
     \/ Failed /\ UNCHANGED <<docs, savedAt>>
  /\ UNCHANGED <<now, policy, locks, req, action, limit, ran, history>>

\* Reading the policy is over when the action is handed on.
Deciding(a) == stage[a] \notin {"idle", "audit", "done"}

Reload == /\ policy' \in Policies
          /\ inForce' = [a \in Analyses |-> IF Deciding(a) THEN inForce[a] \cup {policy'}
                                            ELSE inForce[a]]
          /\ UNCHANGED <<now, locks, docs, savedAt, faults, stage, req, action, limit,
                         ran, lockedAt>>

Tick == /\ now < MaxTime /\ now' = now + 1
        /\ UNCHANGED <<shared, faults, stage, req, action, limit, ran, history>>

Step(a) == \/ \E r \in Requests : Begin(a, r)
           \/ Cascade(a) \/ LoopFrozen(a) \/ LoopCount(a) \/ Lock(a)
           \/ RateLimit(a) \/ Budget(a) \/ Act(a) \/ Audit(a)

Next == (\E a \in Analyses : Step(a)) \/ Reload \/ Tick

Spec == Init /\ [][Next]_vars

------------------------------------------------------------------------------
(* What holds *)

\* "Atomic ES fingerprint lock; only one peer may execute": of the analyses of
\* one service whose lock the store granted, at most one executes an action type
\* in a bucket (gate 4 and _action_lock_id).
OnePerBucket ==
  \A a, b \in ran : /\ a # b /\ Never \notin {lockedAt[a], lockedAt[b]}
                    /\ req[a].service = req[b].service /\ action[a] = action[b]
                    => lockedAt[a] \div Bucket # lockedAt[b] \div Bucket

\* Only a store that failed lets an action run without its lock.
LockedUnlessFailed == faults = 0 => \A a \in ran : lockedAt[a] # Never

\* Whatever the policy overrides, whatever the store answers and whenever the
\* policy is reloaded, a destructive action only runs on a severe, confident
\* signal whose blast radius needs nobody's approval (gates 6, 6b, approval).
DestructiveNeedsEvidence ==
  \A a \in ran : action[a] \in Destructive =>
    /\ req[a].severity \in {"high", "critical"}
    /\ req[a].confidence = "high"
    /\ req[a].blast \in {"low", "medium"}
    /\ req[a].service \notin CriticalServices

Permitted(p, a) == action[a] \in p.allowed[<<req[a].error, req[a].severity, req[a].confidence>>]

\* Reloads may change the policy under a decision, table and protected namespaces
\* alike; yet what runs was allowed by a policy in force after the analysis began, and
\* its namespace was unprotected in one, perhaps another (apply_policy, gate 5).
PermittedMeanwhile ==
  \A a \in ran : /\ \E p \in inForce[a] : Permitted(p, a)
                 /\ \E q \in inForce[a] : req[a].namespace \notin q.protected

\* Policy p puts a's action in the place of one it does not allow.
Overridden(p, a, act) ==
  LET sig == <<req[a].error, req[a].severity, req[a].confidence>>
  IN act \notin p.allowed[sig] /\ p.first[sig] = action[a]

\* The one way round gates 0 and 1: a destructive action has a verified cause and a
\* significant anomaly, unless a policy put it in the place of a harmless proposal,
\* or of the notify a cascade left of it (gates 0 and 1 against apply_policy).
GatedOrOverridden ==
  \A a \in ran : action[a] \in Destructive =>
    \/ req[a].verified /\ (req[a].score >= 0 => req[a].score >= ZThreshold)
    \/ /\ req[a].proposed \notin Destructive
       /\ ~req[a].verified => req[a].proposed \in Safe
       /\ \E p \in Policies, act \in {req[a].proposed, "notify"} : Overridden(p, a, act)

\* What bounds the executions of an action on a service, gates 7 and 8 counting
\* nothing: one per bucket of the lock, and one for every request that failed.
RunsAreBounded ==
  \A service \in Services, act \in Actions, from, to \in 0..MaxTime : from <= to =>
    Cardinality({a \in ran : /\ req[a].service = service /\ action[a] = act
                             /\ lockedAt[a] \in (from..to) \cup {Never}})
      <= faults + (to \div Bucket - from \div Bucket) + 1

------------------------------------------------------------------------------
(* What the repository says and the code does not do *)

\* "unverified causality blocks destructive actions" (header of safety.py).
CausalityHolds == \A a \in ran : action[a] \in Destructive => req[a].verified

\* "an in-flight request sees either the old or new policy, never a partial state"
\* (policy.py): what runs is what one policy permits, in a namespace that it leaves
\* unprotected.
OnePolicyPermits ==
  \A a \in ran : \E p \in Policies : Permitted(p, a) /\ req[a].namespace \notin p.protected

SameKind(a, d) == req[a].service = req[d].service /\ req[a].error = req[d].error

\* "count >= 3 -> loop_detected (escalate to notify)" (loop_detector.py): nothing is
\* restarted on top of EscalateAt incidents of the same kind in the last hour.
LoopBroken ==
  \A a \in ran :
    Cardinality({d \in Past : SameKind(a, d) /\ savedAt[d] >= lockedAt[a] - LoopWindow})
      < EscalateAt

\* At most limit executions of an action per service in the rate window.
RateLimited ==
  \A a \in ran : action[a] \in Destructive =>
    Cardinality({b \in ran : /\ action[b] = action[a] /\ SameKind(a, b)
                             /\ lockedAt[b] \in (lockedAt[a] - RateWindow)..lockedAt[a]})
      <= policy.limit[action[a]]
=============================================================================

-------------------------- MODULE SafetyPolicyProofs --------------------------
(***************************************************************************)
(* Theorems of SafetyChain about the policies behind what runs: which of    *)
(* them permitted it, though reloads replace them at any time, and what a   *)
(* policy may put in the place of what was proposed.                        *)
(***************************************************************************)
EXTENDS SafetyChainProofs

USE ChainAssumption

\* What a step of another analysis leaves alone.
Aside(a) ==
  /\ req'[a] = req[a] /\ stage'[a] = stage[a] /\ action'[a] = action[a]
  /\ inForce'[a] = inForce[a]

\* A step of a leaves the other analyses and the policy alone.
LEMMA OthersAside ==
  ASSUME TypeOK, NEW a \in Analyses, Step(a)
  PROVE  policy' = policy /\ \A b \in Analyses \ {a} : Aside(b)
<1> USE DEF TypeOK, Aside, Proceed, Deny
<1>1. ASSUME NEW r \in Requests, Begin(a, r)
      PROVE  policy' = policy /\ \A b \in Analyses \ {a} : Aside(b)
  BY <1>1 DEF Begin, shared
<1>2. CASE Cascade(a) BY <1>2 DEF Cascade, shared, history
<1>3. CASE LoopFrozen(a) BY <1>3 DEF LoopFrozen, shared, history
<1>4. CASE LoopCount(a) BY <1>4 DEF LoopCount, StaticGates, shared, history
<1>5. CASE Lock(a) BY <1>5 DEF Lock, Conflict, StaticGates
<1>6. CASE RateLimit(a) BY <1>6 DEF RateLimit, shared, history
<1>7. CASE Budget(a) BY <1>7 DEF Budget, shared, history
<1>8. CASE Act(a) BY <1>8 DEF Act, shared, history
<1>9. CASE Audit(a) BY <1>9 DEF Audit, history
<1> QED BY <1>1, <1>2, <1>3, <1>4, <1>5, <1>6, <1>7, <1>8, <1>9 DEF Step

------------------------------------------------------------------------------
(* The policies in force meanwhile *)

\* While an analysis is deciding, the live policy is among those in force since it
\* began. After the decision an action that is not safe is one that such a policy
\* allowed; past the gates that await nothing its namespace was unprotected in one.
Decided(a) ==
  /\ Deciding(a) => policy \in inForce[a]
  /\ stage[a] \notin {"idle", "cascade"} /\ action[a] \notin Safe =>
       /\ \E p \in inForce[a] : Permitted(p, a)
       /\ stage[a] \notin BeforeLock => \E q \in inForce[a] : req[a].namespace \notin q.protected

PermitInv == ChainInv /\ \A a \in Analyses : Decided(a)

\* What the policy decides is safe, or allowed by it.
LEMMA DecideAllowed ==
  ASSUME policy \in Policies, NEW r \in Requests, NEW act \in Actions
  PROVE  \/ Decide(r, act) \in Safe
         \/ Decide(r, act) \in policy.allowed[<<r.error, r.severity, r.confidence>>]
<1>1. <<r.error, r.severity, r.confidence>> \in Signatures BY DEF RequestType, Signatures
<1> QED BY <1>1 DEF Decide, Safe

\* A step that stays before the lock, keeps the policies and leaves an action that is
\* safe or was permitted before.
LEMMA DecidedEarly ==
  ASSUME NEW a \in Analyses, policy' = policy, policy \in inForce'[a],
         stage'[a] \in {"frozen", "loop", "lock", "decided"},
         stage'[a] = "decided" => action'[a] \in Safe,
         action'[a] \in Safe \/ \E p \in inForce'[a] : Permitted(p, a)'
  PROVE  Decided(a)'
BY DEF Decided, BeforeLock

\* The namespace gate lets a namespace through that the live policy leaves unprotected.
LEMMA StaticGatesPermit ==
  ASSUME TypeOK, NEW a \in Analyses, NEW act \in Actions, StaticGates(a, act),
         req' = req, inForce' = inForce, policy' = policy, policy \in inForce[a],
         act \in Safe \/ \E p \in inForce[a] :
           act \in p.allowed[<<req[a].error, req[a].severity, req[a].confidence>>]
  PROVE  Decided(a)'
<1>1. CASE Deny(a) BY <1>1, DecidedEarly DEF Deny, Proceed, Safe, TypeOK
<1>2. CASE NamespaceGate(req[a]) /\ action' = [action EXCEPT ![a] = act]
  <2>1. req[a].namespace \notin policy.protected BY <1>2 DEF NamespaceGate
  <2>2. action'[a] = act BY <1>2 DEF TypeOK
  <2> QED BY <2>1, <2>2 DEF Decided, Permitted
<1> QED BY <1>1, <1>2 DEF StaticGates, Proceed

LEMMA NextDecided ==
  ASSUME ChainInv, NEW a \in Analyses, Step(a), Decided(a) PROVE Decided(a)'
<1>t. TypeOK /\ action[a] \in Actions /\ req[a] \in Requests /\ policy' = policy
  BY OthersAside DEF ChainInv, TypeOK
<1>s. {"notify", "no_action"} \subseteq Actions /\ {"notify", "no_action"} = Safe
  BY DEF Actions, Safe
<1>f. stage[a] \notin {"idle", "audit", "done"} => policy \in inForce[a]
  BY DEF Decided, Deciding
<1> USE <1>t
<1>1. ASSUME NEW r \in Requests, Begin(a, r) PROVE Decided(a)'
  <2>1. r.proposed \in Actions BY DEF RequestType
  <2>2. req'[a] = r /\ inForce'[a] = {policy} BY <1>1 DEF Begin, TypeOK
  <2>3. \/ Deny(a) \/ Proceed(a, "cascade", r.proposed)
        \/ Proceed(a, "frozen", Decide(r, r.proposed))
    BY <1>1 DEF Begin
  <2>4. CASE Deny(a) BY <2>2, <2>4, DecidedEarly DEF Deny, Proceed, Safe, TypeOK
  <2>5. CASE Proceed(a, "cascade", r.proposed)
    BY <2>2, <2>5 DEF Proceed, Decided, Deciding, TypeOK
  <2>6. CASE Proceed(a, "frozen", Decide(r, r.proposed))
    <3>1. stage'[a] = "frozen" /\ action'[a] = Decide(r, r.proposed)
      BY <2>6 DEF Proceed, TypeOK
    <3>2. policy \in Policies BY DEF TypeOK
    <3>3. action'[a] \in Safe \/ Permitted(policy, a)'
      BY <2>1, <2>2, <3>1, <3>2, DecideAllowed DEF Permitted
    <3> QED BY <2>2, <3>1, <3>3, DecidedEarly
  <2> QED BY <2>3, <2>4, <2>5, <2>6
<1>2. CASE Cascade(a)
  <2>1. PICK act \in {"notify", action[a]} : Proceed(a, "frozen", Decide(req[a], act))
    BY <1>2 DEF Cascade
  <2>2. /\ stage'[a] = "frozen" /\ action'[a] = Decide(req[a], act) /\ req' = req
        /\ inForce' = inForce /\ stage[a] = "cascade"
    BY <1>2, <2>1 DEF Cascade, Proceed, TypeOK, history
  <2>3. policy \in Policies /\ act \in Actions BY <1>s DEF TypeOK
  <2>4. action'[a] \in Safe \/ Permitted(policy, a)'
    BY <2>2, <2>3, DecideAllowed DEF Permitted
  <2> QED BY <1>f, <2>2, <2>4, DecidedEarly
<1>3. CASE LoopFrozen(a)
  <2>1. /\ req' = req /\ inForce' = inForce /\ stage[a] = "frozen"
        /\ stage'[a] \in {"loop", "decided"} /\ action'[a] \in {action[a], "no_action"}
        /\ stage'[a] = "decided" => action'[a] = "no_action"
    BY <1>3 DEF LoopFrozen, Deny, Proceed, TypeOK, history
  <2> QED BY <1>f, <1>s, <2>1, DecidedEarly DEF Decided, Permitted
<1>4. CASE LoopCount(a)
  <2>1. PICK act \in {"notify", action[a]} :
          \/ Deny(a)
          \/ act \in Safe /\ StaticGates(a, act)
          \/ act \notin Safe /\ Proceed(a, "lock", act)
    BY <1>4 DEF LoopCount
  <2>2. /\ act \in Actions /\ req' = req /\ inForce' = inForce /\ stage[a] = "loop"
    BY <1>s, <1>4 DEF LoopCount, history
  <2>3. CASE Deny(a) BY <1>f, <2>2, <2>3, DecidedEarly DEF Deny, Proceed, Safe, TypeOK
  <2>4. CASE act \in Safe /\ StaticGates(a, act) BY <1>f, <2>2, <2>4, StaticGatesPermit
  <2>5. CASE act \notin Safe /\ Proceed(a, "lock", act)
    <3>1. act = action[a] /\ stage'[a] = "lock" /\ action'[a] = action[a]
      BY <1>s, <2>5 DEF Proceed, TypeOK
    <3> QED BY <1>f, <2>2, <2>5, <3>1, DecidedEarly DEF Decided, Permitted
  <2> QED BY <2>1, <2>3, <2>4, <2>5
<1>5. CASE Lock(a)
  <2>1. /\ req' = req /\ inForce' = inForce /\ stage[a] = "lock"
        /\ action[a] \in Safe \/ \E p \in inForce[a] : Permitted(p, a)
    BY <1>5 DEF Lock, Decided
  <2>2. CASE Deny(a) BY <1>f, <2>1, <2>2, DecidedEarly DEF Deny, Proceed, Safe, TypeOK
  <2> QED BY <1>5, <1>f, <2>1, <2>2, StaticGatesPermit DEF Lock, Conflict, Permitted
<1>6. CASE RateLimit(a) \/ Budget(a) \/ Act(a) \/ Audit(a)
  <2>1. /\ req' = req /\ inForce' = inForce /\ stage[a] \notin BeforeLock
        /\ stage[a] \in {"audit", "done"} => stage'[a] \in {"audit", "done"}
        /\ action'[a] \in {action[a], "no_action"}
    BY <1>6 DEF RateLimit, Budget, Act, Audit, Deny, Proceed, history, TypeOK, BeforeLock
  <2>2. stage[a] \notin {"idle", "cascade"} BY <2>1 DEF BeforeLock
  <2> QED BY <1>s, <2>1, <2>2 DEF Decided, Deciding, Permitted
<1> QED BY <1>1, <1>2, <1>3, <1>4, <1>5, <1>6 DEF Step

\* A reload adds the new policy to those in force, and forgets none.
LEMMA ReloadDecided ==
  ASSUME TypeOK, NEW a \in Analyses, Reload, Decided(a) PROVE Decided(a)'
<1>1. /\ UNCHANGED <<req, stage, action>> /\ inForce[a] \subseteq inForce'[a]
      /\ Deciding(a) => policy' \in inForce'[a]
  BY DEF Reload, TypeOK
<1>2. Deciding(a)' <=> Deciding(a) BY <1>1 DEF Deciding
<1> QED BY <1>1, <1>2 DEF Decided, Permitted

LEMMA NextPermit == ASSUME PermitInv, [Next]_vars PROVE PermitInv'
<1>1. ChainInv' BY NextChainInv DEF PermitInv
<1>2. ASSUME NEW a \in Analyses PROVE Decided(a)'
  <2>0. ChainInv /\ TypeOK /\ Decided(a) BY DEF PermitInv, ChainInv
  <2>1. CASE Step(a) BY <2>0, <2>1, NextDecided
  <2>2. ASSUME NEW b \in Analyses, b # a, Step(b) PROVE policy' = policy /\ Aside(a)
    BY <2>0, <2>2, OthersAside
  <2>3. CASE Reload BY <2>0, <2>3, ReloadDecided
  <2>4. Tick \/ UNCHANGED vars => UNCHANGED <<policy, req, stage, action, inForce>>
    BY DEF Tick, vars, shared, history
  <2>5. CASE ~Step(a) /\ ~Reload
    <3>1. /\ req'[a] = req[a] /\ stage'[a] = stage[a] /\ action'[a] = action[a]
          /\ inForce'[a] = inForce[a] /\ policy' = policy
      BY <2>2, <2>4, <2>5 DEF Next, Aside
    <3> QED BY <2>0, <3>1 DEF Decided, Deciding, Permitted
  <2> QED BY <2>1, <2>3, <2>5
<1> QED BY <1>1, <1>2 DEF PermitInv

\* Whatever reloads replace, table and protected namespaces alike: what runs was
\* allowed by a policy in force after the analysis began, and its namespace was
\* unprotected in one.
THEOREM OnlyPermittedRuns == Spec => []PermittedMeanwhile
<1>1. Init => PermitInv
  BY InitChainInv DEF Init, PermitInv, Decided, Deciding, Safe
<1>2. PermitInv /\ [Next]_vars => PermitInv' BY NextPermit
<1>3. PermitInv => PermittedMeanwhile
  BY DEF PermitInv, ChainInv, TypeOK, RanApproved, Decided, PermittedMeanwhile, BeforeLock
<1> QED BY <1>1, <1>2, <1>3, PTL DEF Spec

\* All policies protect the same namespaces: what a reload must not change for the
\* decision and the namespace gate to go together.
SameProtection == \A p, q \in Policies : p.protected = q.protected

\* "an in-flight request sees either the old or new policy" holds of reloads that
\* change the decision table only: what runs is what one policy permits, in a namespace
\* that this policy leaves unprotected.
THEOREM OnePolicyIsEnough == SameProtection => (Spec => []OnePolicyPermits)
<1> SUFFICES ASSUME SameProtection PROVE Spec => []OnePolicyPermits OBVIOUS
<1>1. ASSUME TypeOK, PermittedMeanwhile, NEW a \in ran
      PROVE  \E p \in Policies : Permitted(p, a) /\ req[a].namespace \notin p.protected
  <2>1. PICK p \in inForce[a] : Permitted(p, a) BY <1>1 DEF PermittedMeanwhile
  <2>2. PICK q \in inForce[a] : req[a].namespace \notin q.protected
    BY <1>1 DEF PermittedMeanwhile
  <2>3. p \in Policies /\ q \in Policies BY <1>1 DEF TypeOK
  <2> QED BY <2>1, <2>2, <2>3 DEF SameProtection
<1>2. TypeOK /\ PermittedMeanwhile => OnePolicyPermits BY <1>1 DEF OnePolicyPermits
<1> QED BY <1>2, OnlyPermittedRuns, TypeCorrect, PTL

------------------------------------------------------------------------------
(* The way round the gates that look at the proposal *)

SignificantCause(r) == r.verified /\ (r.score >= 0 => r.score >= ZThreshold)

Override(a) ==
  /\ req[a].proposed \notin Destructive
  /\ ~req[a].verified => req[a].proposed \in Safe
  /\ \E p \in Policies, act \in {req[a].proposed, "notify"} : Overridden(p, a, act)

\* From gates 0 and 1 to the end: a cascade only holds up what passed them, and a
\* decision either keeps what passed them or is an override.
Grounded(a) ==
  /\ stage[a] = "cascade" =>
       /\ action[a] = req[a].proposed /\ action[a] \notin Safe
       /\ AnomalyGate(req[a]) /\ CausalityGate(req[a])
  /\ stage[a] \notin {"idle", "cascade"} /\ action[a] \in Destructive =>
       SignificantCause(req[a]) \/ Override(a)

GroundInv == ChainInv /\ \A a \in Analyses : Grounded(a)

\* What the gates let through and the policy then decides is grounded.
LEMMA DecideGrounded ==
  ASSUME TypeOK, NEW a \in Analyses, NEW act \in {req'[a].proposed, "notify"},
         req'[a] \in Requests, AnomalyGate(req'[a]), CausalityGate(req'[a]),
         req'[a].proposed \in Safe => act = req'[a].proposed,
         stage'[a] \notin {"idle", "cascade"}, action'[a] = Decide(req'[a], act)
  PROVE  Grounded(a)'
<1> DEFINE r == req'[a]
           sig == <<r.error, r.severity, r.confidence>>
<1>0. policy \in Policies BY DEF TypeOK
<1>1. CASE r.proposed \in Destructive
  <2>1. r.proposed \notin Safe BY <1>1 DEF Destructive, Safe
  <2> QED BY <1>1, <2>1 DEF Grounded, SignificantCause, AnomalyGate, CausalityGate
<1>2. CASE r.proposed \notin Destructive /\ action'[a] \in Destructive
  <2>1. act \notin Destructive /\ "no_action" \notin Destructive BY <1>2 DEF Destructive
  <2>2. act \notin policy.allowed[sig] /\ policy.first[sig] = action'[a]
    BY <1>2, <2>1 DEF Decide
  <2>3. PICK p \in Policies : act \notin p.allowed[sig] /\ p.first[sig] = action'[a]
    BY <1>0, <2>2
  <2>4. Overridden(p, a, act)' BY <2>3 DEF Overridden
  <2> QED BY <1>2, <2>4 DEF Grounded, Override, CausalityGate
<1> QED BY <1>1, <1>2 DEF Grounded

LEMMA NextGrounded ==
  ASSUME ChainInv, NEW a \in Analyses, Step(a), Grounded(a) PROVE Grounded(a)'
<1>t. TypeOK /\ action[a] \in Actions /\ req[a] \in Requests BY DEF ChainInv, TypeOK
<1>s. "no_action" \notin Destructive /\ "notify" \notin Destructive BY DEF Destructive
<1> USE <1>t
<1>1. ASSUME NEW r \in Requests, Begin(a, r) PROVE Grounded(a)'
  <2>1. req'[a] = r BY <1>1 DEF Begin, TypeOK
  <2>2. CASE Deny(a)
    BY <1>s, <2>2 DEF Deny, Proceed, Grounded, TypeOK
  <2>3. CASE /\ AnomalyGate(r) /\ CausalityGate(r)
             /\ r.proposed \notin Safe /\ Proceed(a, "cascade", r.proposed)
    BY <2>1, <2>3 DEF Proceed, Grounded, TypeOK
  <2>4. CASE /\ AnomalyGate(r) /\ CausalityGate(r)
             /\ Proceed(a, "frozen", Decide(r, r.proposed))
    <3>1. stage'[a] = "frozen" /\ action'[a] = Decide(r, r.proposed)
      BY <2>4 DEF Proceed, TypeOK
    <3> QED BY <2>1, <2>4, <3>1, DecideGrounded
  <2> QED BY <1>1, <2>2, <2>3, <2>4 DEF Begin
<1>2. CASE Cascade(a)
  <2>1. PICK act \in {"notify", action[a]} : Proceed(a, "frozen", Decide(req[a], act))
    BY <1>2 DEF Cascade
  <2>2. /\ stage'[a] = "frozen" /\ action'[a] = Decide(req[a], act) /\ req' = req
        /\ stage[a] = "cascade"
    BY <1>2, <2>1 DEF Cascade, Proceed, TypeOK
  <2>3. /\ act \in {req[a].proposed, "notify"} /\ req[a].proposed \notin Safe
        /\ AnomalyGate(req[a]) /\ CausalityGate(req[a])
    BY <2>2 DEF Grounded
  <2> QED BY <2>2, <2>3, DecideGrounded
<1>3. ASSUME req'[a] = req[a], stage[a] \notin {"idle", "cascade"},
             stage'[a] # "cascade", action'[a] \in {action[a], "notify", "no_action"}
      PROVE  Grounded(a)'
  BY <1>s, <1>3 DEF Grounded, Override, Overridden
<1>4. CASE LoopFrozen(a) \/ LoopCount(a) \/ Lock(a)
  BY <1>3, <1>4 DEF LoopFrozen, LoopCount, Lock, Conflict, StaticGates, Deny, Proceed,
       history, TypeOK
<1>5. CASE RateLimit(a) \/ Budget(a) \/ Act(a) \/ Audit(a)
  BY <1>3, <1>5 DEF RateLimit, Budget, Act, Audit, Deny, Proceed, history, TypeOK
<1> QED BY <1>1, <1>2, <1>4, <1>5 DEF Step

LEMMA NextGround == ASSUME GroundInv, [Next]_vars PROVE GroundInv'
<1>1. ChainInv' BY NextChainInv DEF GroundInv
<1>2. ASSUME NEW a \in Analyses PROVE Grounded(a)'
  <2>0. ChainInv /\ TypeOK /\ Grounded(a) BY DEF GroundInv, ChainInv
  <2>1. CASE Step(a) BY <2>0, <2>1, NextGrounded
  <2>2. ASSUME NEW b \in Analyses, b # a, Step(b) PROVE Aside(a)
    BY <2>0, <2>2, OthersAside
  <2>3. Reload \/ Tick \/ UNCHANGED vars => UNCHANGED <<req, stage, action>>
    BY DEF Reload, Tick, vars, history
  <2>4. CASE ~Step(a)
    <3>1. req'[a] = req[a] /\ stage'[a] = stage[a] /\ action'[a] = action[a]
      BY <2>2, <2>3, <2>4 DEF Next, Aside
    <3> QED BY <2>0, <3>1 DEF Grounded, Override, Overridden
  <2> QED BY <2>1, <2>4
<1> QED BY <1>1, <1>2 DEF GroundInv

\* A destructive action without a verified cause or a significant anomaly is always the
\* work of an override by some policy, whatever is proposed, reloaded and fails.
THEOREM OnlyOverridesPass == Spec => []GatedOrOverridden
<1>1. Init => GroundInv
  BY InitChainInv DEF Init, GroundInv, Grounded, Destructive
<1>2. GroundInv /\ [Next]_vars => GroundInv' BY NextGround
<1>3. GroundInv => GatedOrOverridden
  BY DEF GroundInv, ChainInv, TypeOK, RanApproved, Grounded, SignificantCause, Override,
         GatedOrOverridden
<1> QED BY <1>1, <1>2, <1>3, PTL DEF Spec

\* Where a row's first action is destructive it allows the safe ones too.
RowsKeepSafe ==
  \A p \in Policies, sig \in Signatures :
    p.first[sig] \in Destructive => Safe \subseteq p.allowed[sig]

\* "unverified causality blocks destructive actions", under policies of which no row
\* puts a destructive action in the place of a safe one: what policy.yaml would have to
\* respect, and does not.
THEOREM RepairedCausality == RowsKeepSafe => (Spec => []CausalityHolds)
<1> SUFFICES ASSUME RowsKeepSafe PROVE Spec => []CausalityHolds OBVIOUS
<1>1. ASSUME TypeOK, GatedOrOverridden, NEW a \in ran, action[a] \in Destructive
      PROVE  req[a].verified
  <2> SUFFICES ASSUME ~req[a].verified PROVE FALSE OBVIOUS
  <2>1. req[a] \in RequestType BY <1>1 DEF TypeOK
  <2>2. PICK p \in Policies, act \in {req[a].proposed, "notify"} : Overridden(p, a, act)
    BY <1>1 DEF GatedOrOverridden
  <2>3. act \in Safe BY <1>1 DEF GatedOrOverridden, Safe
  <2>4. <<req[a].error, req[a].severity, req[a].confidence>> \in Signatures
    BY <2>1 DEF RequestType, Signatures
  <2> QED BY <1>1, <2>2, <2>3, <2>4 DEF Overridden, RowsKeepSafe
<1>2. TypeOK /\ GatedOrOverridden => CausalityHolds BY <1>1 DEF CausalityHolds
<1> QED BY <1>2, OnlyOverridesPass, TypeCorrect, PTL
=============================================================================

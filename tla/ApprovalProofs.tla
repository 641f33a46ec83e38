---------------------------- MODULE ApprovalProofs ----------------------------
(***************************************************************************)
(* Theorems of Approval for every number of replicas, analyses and maps and *)
(* every bound: its types, where a pending request is and what may take it  *)
(* away, what is executed unseen, and that the routes implement             *)
(* HumanDecision.                                                           *)
(***************************************************************************)
EXTENDS Approval, TLAPS

USE ApprovalAssumption

\* A pending request is unanswered and with the replica that made it.
Placed == \A r \in Replicas : \A a \in pending[r] :
            home[a] = r /\ expires[a] # Never /\ outcome[a] = "none"

\* There is no request before the gate, and no answer without a request.
Unasked == \A a \in Analyses :
             /\ stage[a] \in {"idle", "scored", "checked"} => expires[a] = Never
             /\ expires[a] = Never => outcome[a] = "none"

RInv == TypeOK /\ Placed /\ Unasked

-----------------------------------------------------------------------------
(* Types *)

LEMMA ScoreType == ASSUME NEW s, NEW m PROVE ScoreOf(s, m) \in Scores
BY DEF ScoreOf, ScoreFromCount, Scores

LEMMA InitRequests == Init => RInv
<1> SUFFICES ASSUME Init PROVE RInv
  OBVIOUS
<1>1. (CHOOSE q \in Requests : TRUE) \in Requests
  OBVIOUS
<1>2. TypeOK
  BY <1>1 DEF Init, TypeOK, NoCache, Never, Scores
<1> QED BY <1>2 DEF Init, RInv, Placed, Unasked, Never

\* What the blast radius of an analysis is made of.
LEMMA BlastType ==
  ASSUME TypeOK, NEW a \in Analyses, NEW r \in Replicas, NEW q \in Requests,
         ComputeBlastRadius(a, r, q)
  PROVE  /\ static' \in [Replicas -> Registries \cup {NoDependencies}]
         /\ cache' \in [Replicas -> [map : Maps \cup {NoDependencies}, until : Nat]]
         /\ score' \in [Analyses -> Scores]
         /\ source' \in [Analyses -> {"unknown", "k8s_annotations", "static_map"}]
         /\ possible' \in [Analyses -> SUBSET Scores]
         /\ faults' \in 0..MaxFaults
<1>1. possible' \in [Analyses -> SUBSET Scores]
  <2>1. {ScoreOf(q.service, m) : m \in InForce} \in SUBSET Scores
    BY ScoreType
  <2> QED BY <2>1 DEF ComputeBlastRadius, TypeOK
<1>2. PICK read \in BOOLEAN :
        /\ static' = [static EXCEPT ![r] = StaticOnRead(r, read)]
        /\ \/ Fresh(r) /\ Answered /\ Scored(a, cache[r].map, "k8s_annotations")
              /\ UNCHANGED cache
           \/ ~Fresh(r) /\ Answered /\ Scored(a, annotated, "k8s_annotations")
              /\ cache' = [cache EXCEPT ![r] = [map |-> annotated, until |-> now + CacheTTL]]
           \/ ~Fresh(r) /\ Failed /\ Scored(a, static'[r], "static_map")
              /\ UNCHANGED cache
  BY DEF ComputeBlastRadius
<1>3. static' \in [Replicas -> Registries \cup {NoDependencies}]
  BY <1>2 DEF StaticOnRead, TypeOK
<1>4. \E map, from : from \in {"k8s_annotations", "static_map"} /\ Scored(a, map, from)
  BY <1>2
<1>5. score' \in [Analyses -> Scores]
      /\ source' \in [Analyses -> {"unknown", "k8s_annotations", "static_map"}]
  BY <1>4, ScoreType DEF Scored, TypeOK
<1>6. cache' \in [Replicas -> [map : Maps \cup {NoDependencies}, until : Nat]]
  <2>1. [map |-> annotated, until |-> now + CacheTTL] \in [map : Maps \cup {NoDependencies}, until : Nat]
    BY DEF TypeOK
  <2> QED BY <1>2, <2>1 DEF TypeOK
<1>7. faults' \in 0..MaxFaults
  BY <1>2 DEF Answered, Failed, TypeOK
<1> QED BY <1>1, <1>3, <1>5, <1>6, <1>7

LEMMA ForgetType ==
  ASSUME TypeOK, NEW r \in Replicas, NEW a \in Analyses, Forget(r, a)
  PROVE  pending' \in [Replicas -> SUBSET Analyses]
BY DEF Forget, TypeOK

LEMMA NextType == ASSUME TypeOK, [Next]_vars PROVE TypeOK'
<1>1. ASSUME NEW a \in Analyses, NEW r \in Replicas, NEW q \in Requests,
             ComputeBlastRadius(a, r, q)
      PROVE  TypeOK'
  <2>1. /\ UNCHANGED <<now, edits, annotated, lastSeen, registry, pending, expires, told,
                       outcome, ran>>
        /\ stage' = [stage EXCEPT ![a] = "scored"]
        /\ home' = [home EXCEPT ![a] = r] /\ req' = [req EXCEPT ![a] = q]
    BY <1>1 DEF ComputeBlastRadius, cluster, answers
  <2> QED BY <1>1, <2>1, BlastType DEF TypeOK
<1>2. ASSUME NEW a \in Analyses, CascadeDepth(a) PROVE TypeOK'
  <2>1. PICK read \in BOOLEAN :
          static' = [static EXCEPT ![home[a]] = StaticOnRead(home[a], read)]
    BY <1>2 DEF CascadeDepth
  <2>2. static' \in [Replicas -> Registries \cup {NoDependencies}]
    BY <2>1 DEF StaticOnRead, TypeOK
  <2> QED BY <1>2, <2>2 DEF CascadeDepth, cluster, analysis, answers, TypeOK
<1>3. ASSUME NEW a \in Analyses, Gate(a) PROVE TypeOK'
  <2>1. faults' \in 0..MaxFaults
    BY <1>3 DEF Gate, Answered, Failed, TypeOK
  <2>2. UNCHANGED <<now, edits, cluster, memory, analysis, answers>>
    BY <1>3 DEF Gate
  <2>3. \/ /\ stage' = [stage EXCEPT ![a] = "asked"]
           /\ pending' = [pending EXCEPT ![home[a]] = @ \cup {a}]
           /\ expires' = [expires EXCEPT ![a] = now + ExpirySeconds]
           /\ ran' = ran
        \/ /\ stage' = [stage EXCEPT ![a] = "done"]
           /\ ran' = ran \cup {a}
           /\ UNCHANGED <<pending, expires>>
    BY <1>3 DEF Gate
  <2>4. /\ stage' \in [Analyses -> {"idle", "scored", "checked", "asked", "done", "lost"}]
        /\ pending' \in [Replicas -> SUBSET Analyses]
        /\ expires' \in [Analyses -> Nat]
        /\ ran' \subseteq Analyses
    <3>1. pending' \in [Replicas -> SUBSET Analyses]
      <4>1. home[a] \in Replicas /\ pending \in [Replicas -> SUBSET Analyses]
        BY DEF TypeOK
      <4>2. [pending EXCEPT ![home[a]] = @ \cup {a}] \in [Replicas -> SUBSET Analyses]
        BY <4>1
      <4> QED BY <2>3, <4>1, <4>2
    <3>2. now + ExpirySeconds \in Nat
      BY DEF TypeOK
    <3>3. expires' \in [Analyses -> Nat]
      BY <2>3, <3>2 DEF TypeOK
    <3> QED BY <2>3, <3>1, <3>3 DEF TypeOK
  <2> QED BY <2>1, <2>2, <2>4 DEF cluster, memory, analysis, answers, TypeOK
<1>4. ASSUME NEW a \in Analyses, Notify(a) PROVE TypeOK'
  BY <1>4 DEF Notify, cluster, memory, analysis, TypeOK
<1>5. ASSUME NEW r \in Replicas, NEW a \in Analyses, NEW token \in Analyses,
             NEW answer \in {"approved", "rejected"}, Answer(r, a, token, answer)
      PROVE  TypeOK'
  <2>1. UNCHANGED <<now, faults, edits, cluster, memory, stage, analysis, expires, told, ran>>
    BY <1>5 DEF Answer
  <2>2. /\ pending' \in [Replicas -> SUBSET Analyses]
        /\ outcome' \in [Analyses -> {"none", "approved", "rejected"}]
    <3>1. \/ pending' = pending \/ Forget(r, a)
      BY <1>5 DEF Answer, Settle, Refuse
    <3>2. \/ outcome' = outcome \/ outcome' = [outcome EXCEPT ![a] = answer]
      BY <1>5 DEF Answer, Settle, Refuse
    <3>3. pending' \in [Replicas -> SUBSET Analyses]
      BY <3>1, ForgetType DEF TypeOK
    <3> QED BY <3>2, <3>3 DEF TypeOK
  <2> QED BY <2>1, <2>2 DEF cluster, memory, analysis, TypeOK
<1>6. ASSUME NEW r \in Replicas, NEW a \in Analyses, GetStatus(r, a) PROVE TypeOK'
  BY <1>6 DEF GetStatus, Forget, cluster, memory, analysis, answers, TypeOK
<1>7. ASSUME NEW m \in Maps, Annotate(m) PROVE TypeOK'
  BY <1>7 DEF Annotate, Edited, memory, analysis, answers, TypeOK
<1>8. ASSUME NEW r \in Replicas, NEW m \in Registries, Reload(r, m) PROVE TypeOK'
  BY <1>8 DEF Reload, Edited, cluster, analysis, answers, TypeOK
<1>9. ASSUME NEW r \in Replicas, Restart(r) PROVE TypeOK'
  BY <1>9 DEF Restart, Failed, NoCache, cluster, analysis, answers, TypeOK
<1>10. CASE Tick
  BY <1>10 DEF Tick, cluster, memory, analysis, answers, TypeOK
<1>11. CASE UNCHANGED vars
  BY <1>11 DEF vars, cluster, memory, analysis, answers, TypeOK
<1> QED BY <1>1, <1>2, <1>3, <1>4, <1>5, <1>6, <1>7, <1>8, <1>9, <1>10, <1>11
        DEF Next, Analyse, Operate

\* The state of the workflow is well-typed; in particular every blast radius is
\* one of the four labels.
THEOREM TypeCorrect == Spec => []TypeOK
<1>1. Init => TypeOK
  BY InitRequests DEF RInv
<1> QED BY <1>1, NextType, PTL DEF Spec

-----------------------------------------------------------------------------
(* Requests *)

\* A request that is taken away leaves the others where they are.
LEMMA ForgetKeeps ==
  ASSUME TypeOK, NEW r \in Replicas, NEW a \in Analyses, Forget(r, a)
  PROVE  \A s \in Replicas : \A b \in Analyses :
           b \in pending'[s] <=> b \in pending[s] /\ ~(s = r /\ b = a)
BY DEF Forget, TypeOK

\* The gate makes a request with the replica of its analysis, or none.
LEMMA GateAsks ==
  ASSUME TypeOK, NEW a \in Analyses, Gate(a)
  PROVE  /\ UNCHANGED <<now, home, outcome>> /\ stage[a] = "checked"
         /\ \/ /\ stage' = [stage EXCEPT ![a] = "done"]
               /\ UNCHANGED <<pending, expires>>
            \/ /\ stage' = [stage EXCEPT ![a] = "asked"]
               /\ \A s \in Replicas : \A b \in Analyses :
                    b \in pending'[s] <=> b \in pending[s] \/ (s = home[a] /\ b = a)
               /\ expires' = [expires EXCEPT ![a] = now + ExpirySeconds]
               /\ now + ExpirySeconds \in Nat \ {0} /\ ~(now > now + ExpirySeconds)
<1>1. UNCHANGED <<now, home, outcome>> /\ stage[a] = "checked"
  BY DEF Gate, analysis, answers
<1>2. now + ExpirySeconds \in Nat \ {0} /\ ~(now > now + ExpirySeconds)
  BY DEF TypeOK
<1>3. CASE /\ stage' = [stage EXCEPT ![a] = "asked"]
           /\ pending' = [pending EXCEPT ![home[a]] = @ \cup {a}]
           /\ expires' = [expires EXCEPT ![a] = now + ExpirySeconds]
  <2>1. \A s \in Replicas : \A b \in Analyses :
          b \in pending'[s] <=> b \in pending[s] \/ (s = home[a] /\ b = a)
    BY <1>3 DEF TypeOK
  <2> QED BY <1>1, <1>2, <1>3, <2>1
<1>4. CASE stage' = [stage EXCEPT ![a] = "done"] /\ UNCHANGED <<pending, expires>>
  BY <1>1, <1>4
<1> QED BY <1>3, <1>4 DEF Gate

\* An answer settles the request where it is, in time, or changes no outcome.
LEMMA AnswerSettles ==
  ASSUME TypeOK, NEW r \in Replicas, NEW a \in Analyses, NEW token \in Analyses,
         NEW answer \in {"approved", "rejected"}, Answer(r, a, token, answer)
  PROVE  /\ UNCHANGED <<now, faults, stage, home, expires>>
         /\ \/ /\ a \in pending[r] /\ ~Expired(a) /\ Forget(r, a)
               /\ outcome' = [outcome EXCEPT ![a] = answer]
            \/ outcome' = outcome /\ Expired(a) /\ Forget(r, a)
            \/ UNCHANGED <<outcome, pending>>
BY DEF Answer, Verified, Settle, Refuse, analysis

LEMMA NextRequests == ASSUME RInv, [Next]_vars PROVE Placed' /\ Unasked'
<1> USE DEF RInv
<1>0. TypeOK'
  BY NextType
<1>1. ASSUME NEW a \in Analyses, NEW r \in Replicas, NEW q \in Requests,
             ComputeBlastRadius(a, r, q)
      PROVE  Placed' /\ Unasked'
  <2>1. /\ UNCHANGED <<pending, expires, outcome>> /\ stage[a] = "idle"
        /\ stage' = [stage EXCEPT ![a] = "scored"] /\ home' = [home EXCEPT ![a] = r]
    BY <1>1 DEF ComputeBlastRadius, answers
  <2>2. \A s \in Replicas : a \notin pending[s]
    BY <2>1 DEF Placed, Unasked
  <2> QED BY <2>1, <2>2 DEF Placed, Unasked, TypeOK
<1>2. ASSUME NEW a \in Analyses, CascadeDepth(a) \/ Notify(a) PROVE Placed' /\ Unasked'
  <2>1. /\ UNCHANGED <<pending, expires, outcome, home>>
        /\ \/ stage[a] = "scored" /\ stage' = [stage EXCEPT ![a] = "checked"]
           \/ stage[a] = "asked" /\ stage' = [stage EXCEPT ![a] = "done"]
    BY <1>2 DEF CascadeDepth, Notify, analysis, answers
  <2> QED BY <2>1 DEF Placed, Unasked, TypeOK
<1>3. ASSUME NEW a \in Analyses, Gate(a) PROVE Placed' /\ Unasked'
  <2>1. outcome[a] = "none" /\ expires[a] = Never
    BY <1>3 DEF Gate, Unasked
  <2>2. Unasked'
    BY <1>3, <2>1, GateAsks DEF Unasked, TypeOK
  <2>3. Placed'
    <3>1. home[a] \in Replicas /\ UNCHANGED <<home, outcome>>
      BY <1>3, GateAsks DEF TypeOK
    <3>2. CASE UNCHANGED expires
      BY <1>3, <2>1, <3>1, <3>2, GateAsks DEF Placed, TypeOK, Never
    <3>3. CASE /\ \A s \in Replicas : \A b \in Analyses :
                    b \in pending'[s] <=> b \in pending[s] \/ (s = home[a] /\ b = a)
               /\ expires' = [expires EXCEPT ![a] = now + ExpirySeconds]
               /\ now + ExpirySeconds \in Nat \ {0}
      <4> SUFFICES ASSUME NEW s \in Replicas, NEW b \in pending'[s]
                   PROVE  home[b] = s /\ expires'[b] # Never /\ outcome[b] = "none"
        BY <3>1 DEF Placed
      <4>1. b \in Analyses
        BY <1>0 DEF TypeOK
      <4>2. CASE b = a
        <5>1. a \notin pending[s]
          BY <2>1 DEF Placed
        <5>2. expires'[a] # Never
          BY <3>3 DEF TypeOK, Never
        <5> QED BY <2>1, <3>3, <4>2, <5>1, <5>2
      <4>3. CASE b # a
        BY <3>3, <4>1, <4>3 DEF Placed, TypeOK
      <4> QED BY <4>2, <4>3
    <3> QED BY <1>3, <3>2, <3>3, GateAsks
  <2> QED BY <2>2, <2>3
<1>4. ASSUME NEW r \in Replicas, NEW a \in Analyses, NEW token \in Analyses,
             NEW answer \in {"approved", "rejected"}, Answer(r, a, token, answer)
      PROVE  Placed' /\ Unasked'
  <2>1. UNCHANGED <<now, faults, stage, home, expires>>
    BY <1>4, AnswerSettles
  <2>2. CASE /\ a \in pending[r] /\ Forget(r, a)
             /\ outcome' = [outcome EXCEPT ![a] = answer]
    <3>1. home[a] = r /\ expires[a] # Never
      BY <2>2 DEF Placed
    <3> QED BY <1>0, <2>1, <2>2, <3>1, ForgetKeeps DEF Placed, Unasked, TypeOK
  <2>3. CASE outcome' = outcome /\ Forget(r, a)
    BY <1>0, <2>1, <2>3, ForgetKeeps DEF Placed, Unasked, TypeOK
  <2>4. CASE UNCHANGED <<outcome, pending>>
    BY <2>1, <2>4 DEF Placed, Unasked
  <2> QED BY <1>4, <2>2, <2>3, <2>4, AnswerSettles
<1>5. ASSUME NEW r \in Replicas, NEW a \in Analyses, GetStatus(r, a) PROVE Placed' /\ Unasked'
  <2>1. UNCHANGED <<stage, home, expires, outcome>> /\ Forget(r, a)
    BY <1>5 DEF GetStatus, analysis, answers
  <2> QED BY <1>0, <2>1, ForgetKeeps DEF Placed, Unasked, TypeOK
<1>6. ASSUME NEW r \in Replicas, Restart(r) PROVE Placed' /\ Unasked'
  <2>1. /\ UNCHANGED <<home, expires, outcome>>
        /\ pending' = [pending EXCEPT ![r] = {}]
        /\ stage' = [a \in Analyses |->
                 IF home[a] = r /\ stage[a] \in {"scored", "checked", "asked"}
                 THEN "lost" ELSE stage[a]]
    BY <1>6 DEF Restart, analysis, answers
  <2>2. Placed'
    BY <2>1 DEF Placed, TypeOK
  <2>3. Unasked'
    BY <2>1 DEF Unasked
  <2> QED BY <2>2, <2>3
<1>7. CASE \/ \E m \in Maps : Annotate(m)
           \/ \E r \in Replicas, m \in Registries : Reload(r, m)
           \/ Tick \/ UNCHANGED vars
  <2>1. UNCHANGED <<pending, stage, home, expires, outcome>>
    BY <1>7 DEF Annotate, Reload, Tick, vars, analysis, answers
  <2> QED BY <2>1 DEF Placed, Unasked
<1> QED BY <1>1, <1>2, <1>3, <1>4, <1>5, <1>6, <1>7 DEF Next, Analyse, Operate

LEMMA RequestInvariant == Spec => []RInv
<1>1. RInv /\ [Next]_vars => RInv'
  BY NextType, NextRequests DEF RInv
<1> QED BY <1>1, InitRequests, PTL DEF Spec

-----------------------------------------------------------------------------
(* What takes a request away *)

LEMMA NextForgets ==
  ASSUME RInv, RInv', OnlyRestartForgets, [Next]_vars PROVE OnlyRestartForgets'
<1> USE DEF RInv
<1>0. faults' = 0 => faults = 0
  BY DEF TypeOK, Next, Analyse, Operate, ComputeBlastRadius, CascadeDepth, Gate, Notify,
         Answer, GetStatus, Annotate, Restart, Reload, Tick, Answered, Failed, vars
<1> SUFFICES ASSUME faults = 0, faults' = 0,
                    NEW b \in Analyses, expires'[b] # Never, outcome'[b] = "none",
                    ~(now' > expires'[b])
             PROVE  b \in pending'[home'[b]]
  BY <1>0 DEF OnlyRestartForgets, Expired
<1> DEFINE Kept == expires[b] # Never /\ outcome[b] = "none" /\ ~(now > expires[b])
<1>1. Kept => b \in pending[home[b]]
  BY DEF OnlyRestartForgets, Expired
<1>2. ASSUME UNCHANGED <<now, outcome, expires, pending>>, home'[b] = home[b] \/ expires[b] = Never
      PROVE  b \in pending'[home'[b]]
  BY <1>1, <1>2
<1>3. ASSUME NEW a \in Analyses, NEW r \in Replicas, NEW q \in Requests,
             ComputeBlastRadius(a, r, q)
      PROVE  b \in pending'[home'[b]]
  <2>1. /\ UNCHANGED <<now, pending, expires, outcome>> /\ stage[a] = "idle"
        /\ home' = [home EXCEPT ![a] = r]
    BY <1>3 DEF ComputeBlastRadius, answers
  <2> QED BY <1>2, <2>1 DEF TypeOK, Unasked
<1>4. ASSUME NEW a \in Analyses, CascadeDepth(a) \/ Notify(a) PROVE b \in pending'[home'[b]]
  BY <1>2, <1>4 DEF CascadeDepth, Notify, analysis, answers
<1>5. ASSUME NEW a \in Analyses, Gate(a) PROVE b \in pending'[home'[b]]
  <2>1. UNCHANGED <<now, home, outcome>>
    BY <1>5, GateAsks
  <2>2. CASE UNCHANGED <<pending, expires>>
    BY <1>2, <2>1, <2>2
  <2>3. CASE /\ \A s \in Replicas : \A c \in Analyses :
                  c \in pending'[s] <=> c \in pending[s] \/ (s = home[a] /\ c = a)
             /\ expires' = [expires EXCEPT ![a] = now + ExpirySeconds]
    <3>1. home[b] \in Replicas /\ home[a] \in Replicas
      BY DEF TypeOK
    <3>2. CASE b = a
      BY <2>1, <2>3, <3>1, <3>2
    <3>3. CASE b # a
      BY <1>1, <2>1, <2>3, <3>1, <3>3 DEF TypeOK
    <3> QED BY <3>2, <3>3
  <2> QED BY <1>5, <2>2, <2>3, GateAsks
<1>6. ASSUME NEW r \in Replicas, NEW a \in Analyses, NEW token \in Analyses,
             NEW answer \in {"approved", "rejected"}, Answer(r, a, token, answer)
      PROVE  b \in pending'[home'[b]]
  <2>1. UNCHANGED <<now, home, expires>> /\ home[b] \in Replicas
    BY <1>6, AnswerSettles DEF TypeOK
  <2>2. CASE Forget(r, a) /\ outcome' = [outcome EXCEPT ![a] = answer]
    <3>1. b # a /\ outcome[b] = "none"
      BY <2>2 DEF TypeOK
    <3> QED BY <1>1, <2>1, <2>2, <3>1, ForgetKeeps
  <2>3. CASE outcome' = outcome /\ Expired(a) /\ Forget(r, a)
    <3>1. b # a
      BY <2>1, <2>3 DEF Expired
    <3> QED BY <1>1, <2>1, <2>3, <3>1, ForgetKeeps
  <2>4. CASE UNCHANGED <<outcome, pending>>
    BY <1>1, <2>1, <2>4
  <2> QED BY <1>6, <2>2, <2>3, <2>4, AnswerSettles
<1>7. ASSUME NEW r \in Replicas, NEW a \in Analyses, GetStatus(r, a)
      PROVE  b \in pending'[home'[b]]
  <2>1. UNCHANGED <<now, home, expires, outcome>> /\ home[b] \in Replicas
        /\ Forget(r, a) /\ Expired(a)
    BY <1>7 DEF GetStatus, analysis, answers, TypeOK
  <2>2. b # a
    BY <2>1 DEF Expired
  <2> QED BY <1>1, <2>1, <2>2, ForgetKeeps
<1>8. ASSUME NEW r \in Replicas, Restart(r) PROVE FALSE
  BY <1>8 DEF Restart, Failed
<1>9. CASE \/ \E m \in Maps : Annotate(m)
           \/ \E r \in Replicas, m \in Registries : Reload(r, m)
           \/ UNCHANGED vars
  <2>1. UNCHANGED <<now, pending, home, expires, outcome>>
    BY <1>9 DEF Annotate, Reload, vars, analysis, answers
  <2> QED BY <1>2, <2>1
<1>10. CASE Tick
  <2>1. UNCHANGED <<pending, home, expires, outcome>> /\ now' = now + 1
    BY <1>10 DEF Tick, analysis, answers
  <2>2. ~(now > expires[b])
    BY <2>1 DEF TypeOK
  <2> QED BY <1>1, <2>1, <2>2
<1> QED BY <1>3, <1>4, <1>5, <1>6, <1>7, <1>8, <1>9, <1>10 DEF Next, Analyse, Operate

\* Wrong tokens, other requests and looks at its state take no request away that
\* is unanswered and in time: only a restart does (approval.py).
THEOREM RequestsStay == Spec => []OnlyRestartForgets
<1>1. Init => OnlyRestartForgets
  BY DEF Init, OnlyRestartForgets
<1>2. RInv /\ RInv' /\ OnlyRestartForgets /\ [Next]_vars => OnlyRestartForgets'
  BY NextForgets
<1> QED BY <1>1, <1>2, RequestInvariant, PTL DEF Spec

-----------------------------------------------------------------------------
(* The routes implement HumanDecision *)

\* Where nobody answers or asks, requests only become void.
LEMMA OnlyVoid ==
  ASSUME \A a \in Analyses : outcome'[a] = outcome[a] /\ expires'[a] = expires[a],
         \A a \in Analyses : Awaiting(a)' => Awaiting(a)
  PROVE  Decision!Void
<1> DEFINE gone == {a \in Analyses : /\ outcome[a] = "none" /\ expires[a] # Never
                                      /\ Awaiting(a) /\ ~Awaiting(a)'}
<1>1. gone \subseteq Analyses
      /\ \A a \in gone : [x \in Analyses |-> StateOf(x)][a] = "awaiting"
  BY DEF StateOf
<1>2. ASSUME NEW a \in Analyses
      PROVE  StateOf(a)' = IF a \in gone THEN "void" ELSE StateOf(a)
  <2>1. outcome'[a] = outcome[a] /\ expires'[a] = expires[a] /\ (Awaiting(a)' => Awaiting(a))
    OBVIOUS
  <2>2. CASE a \in gone
    BY <2>1, <2>2 DEF StateOf, Never
  <2>3. CASE outcome[a] # "none" \/ expires[a] = Never
    BY <2>1, <2>3 DEF StateOf, Never
  <2>4. CASE outcome[a] = "none" /\ expires[a] # Never /\ (Awaiting(a)' <=> Awaiting(a))
    BY <2>1, <2>4 DEF StateOf, Never
  <2> QED BY <2>1, <2>2, <2>3, <2>4
<1> HIDE DEF gone
<1>3. [a \in Analyses |-> StateOf(a)]'
      = [a \in Analyses |-> IF a \in gone THEN "void" ELSE [x \in Analyses |-> StateOf(x)][a]]
  BY <1>2
<1> QED BY <1>1, <1>3 DEF Decision!Void

LEMMA NextDecides ==
  ASSUME RInv, RInv', [Next]_vars
  PROVE  Decision!Next \/ UNCHANGED [a \in Analyses |-> StateOf(a)]
<1> USE DEF RInv
<1> DEFINE state == [a \in Analyses |-> StateOf(a)]
<1>1. ASSUME NEW a \in Analyses, NEW r \in Replicas, NEW q \in Requests,
             ComputeBlastRadius(a, r, q)
      PROVE  UNCHANGED state
  <2>1. /\ UNCHANGED <<now, pending, expires, outcome>> /\ stage[a] = "idle"
        /\ home' = [home EXCEPT ![a] = r]
    BY <1>1 DEF ComputeBlastRadius, answers
  <2>2. ASSUME NEW b \in Analyses PROVE StateOf(b)' = StateOf(b)
    <3>1. home'[b] = home[b] \/ expires[b] = Never
      BY <2>1 DEF TypeOK, Unasked
    <3> QED BY <2>1, <3>1 DEF StateOf, Awaiting, Expired
  <2> QED BY <2>2
<1>2. ASSUME UNCHANGED <<now, pending, home, expires, outcome>> PROVE UNCHANGED state
  BY <1>2 DEF StateOf, Awaiting, Expired
<1>3. ASSUME NEW a \in Analyses, Gate(a) PROVE Decision!Next \/ UNCHANGED state
  <2>1. UNCHANGED <<now, home, outcome>> /\ outcome[a] = "none" /\ expires[a] = Never
        /\ home[a] \in Replicas
    BY <1>3, GateAsks DEF Gate, Unasked, TypeOK
  <2>2. CASE UNCHANGED <<pending, expires>>
    BY <1>2, <2>1, <2>2
  <2>3. CASE /\ \A s \in Replicas : \A b \in Analyses :
                  b \in pending'[s] <=> b \in pending[s] \/ (s = home[a] /\ b = a)
             /\ expires' = [expires EXCEPT ![a] = now + ExpirySeconds]
             /\ now + ExpirySeconds \in Nat \ {0} /\ ~(now > now + ExpirySeconds)
    <3>1. StateOf(a) = "none"
      BY <2>1 DEF StateOf
    <3>2. StateOf(a)' = "awaiting"
      <4>1. expires'[a] = now + ExpirySeconds /\ a \in pending'[home[a]]
        BY <2>1, <2>3 DEF TypeOK
      <4> QED BY <2>1, <2>3, <4>1 DEF StateOf, Awaiting, Expired, Never
    <3>3. ASSUME NEW b \in Analyses, b # a PROVE StateOf(b)' = StateOf(b)
      <4>1. expires'[b] = expires[b] /\ (b \in pending'[home[b]] <=> b \in pending[home[b]])
        BY <2>3, <3>3 DEF TypeOK
      <4> QED BY <2>1, <4>1 DEF StateOf, Awaiting, Expired
    <3>4. state' = [state EXCEPT ![a] = "awaiting"] /\ state[a] = "none"
      BY <3>1, <3>2, <3>3
    <3> QED BY <3>4 DEF Decision!Next, Decision!Ask, Decision!Move
  <2> QED BY <1>3, <2>2, <2>3, GateAsks
<1>4. ASSUME NEW r \in Replicas, NEW a \in Analyses, NEW token \in Analyses,
             NEW answer \in {"approved", "rejected"}, Answer(r, a, token, answer)
      PROVE  Decision!Next \/ UNCHANGED state
  <2>1. UNCHANGED <<now, home, expires>>
    BY <1>4, AnswerSettles
  <2>2. CASE /\ a \in pending[r] /\ ~Expired(a) /\ Forget(r, a)
             /\ outcome' = [outcome EXCEPT ![a] = answer]
    <3>1. home[a] = r /\ expires[a] # Never /\ outcome[a] = "none"
      BY <2>2 DEF Placed
    <3>2. StateOf(a) = "awaiting" /\ StateOf(a)' = answer
      BY <2>2, <3>1 DEF StateOf, Awaiting, TypeOK
    <3>3. ASSUME NEW b \in Analyses, b # a PROVE StateOf(b)' = StateOf(b)
      <4>1. outcome'[b] = outcome[b] /\ home[b] \in Replicas
            /\ (b \in pending'[home[b]] <=> b \in pending[home[b]])
        BY <2>2, <3>3, ForgetKeeps DEF TypeOK
      <4> QED BY <2>1, <4>1 DEF StateOf, Awaiting, Expired
    <3>4. state' = [state EXCEPT ![a] = answer] /\ state[a] = "awaiting"
      BY <3>2, <3>3
    <3> QED BY <3>4 DEF Decision!Next, Decision!Approve, Decision!Reject, Decision!Move
  <2>3. CASE outcome' = outcome /\ Forget(r, a)
    <3>1. \A b \in Analyses : Awaiting(b)' => Awaiting(b)
      BY <2>1, <2>3, ForgetKeeps DEF Awaiting, Expired, TypeOK
    <3> QED BY <2>1, <2>3, <3>1, OnlyVoid DEF Decision!Next
  <2>4. CASE UNCHANGED <<outcome, pending>>
    BY <1>2, <2>1, <2>4
  <2> QED BY <1>4, <2>2, <2>3, <2>4, AnswerSettles
<1>5. ASSUME NEW r \in Replicas, NEW a \in Analyses, GetStatus(r, a) PROVE Decision!Next
  <2>1. UNCHANGED <<now, home, expires, outcome>> /\ Forget(r, a)
    BY <1>5 DEF GetStatus, analysis, answers
  <2>2. \A b \in Analyses : Awaiting(b)' => Awaiting(b)
    BY <2>1, ForgetKeeps DEF Awaiting, Expired, TypeOK
  <2> QED BY <2>1, <2>2, OnlyVoid DEF Decision!Next
<1>6. ASSUME NEW r \in Replicas, Restart(r) PROVE Decision!Next
  <2>1. UNCHANGED <<now, home, expires, outcome>> /\ pending' = [pending EXCEPT ![r] = {}]
    BY <1>6 DEF Restart, analysis, answers
  <2>2. \A b \in Analyses : Awaiting(b)' => Awaiting(b)
    BY <2>1 DEF Awaiting, Expired, TypeOK
  <2> QED BY <2>1, <2>2, OnlyVoid DEF Decision!Next
<1>7. CASE Tick
  <2>1. UNCHANGED <<pending, home, expires, outcome>> /\ now' = now + 1
    BY <1>7 DEF Tick, analysis, answers
  <2>2. \A b \in Analyses : Awaiting(b)' => Awaiting(b)
    BY <2>1 DEF Awaiting, Expired, TypeOK
  <2> QED BY <2>1, <2>2, OnlyVoid DEF Decision!Next
<1>8. CASE \/ \E a \in Analyses : CascadeDepth(a) \/ Notify(a)
           \/ \E m \in Maps : Annotate(m)
           \/ \E r \in Replicas, m \in Registries : Reload(r, m)
           \/ UNCHANGED vars
  BY <1>2, <1>8 DEF CascadeDepth, Notify, Annotate, Reload, vars, analysis, answers
<1> QED BY <1>1, <1>3, <1>4, <1>5, <1>6, <1>7, <1>8 DEF Next, Analyse, Operate

\* Whatever is retried, misdirected, late or lost with a pod, a request is
\* answered at most once, and in time (approve, reject and their routes).
THEOREM ImplementsHumanDecision == Spec => HumanDecides
<1>1. Init => Decision!Init
  BY DEF Init, Decision!Init, StateOf
<1>2. RInv /\ RInv' /\ [Next]_vars => [Decision!Next]_([a \in Analyses |-> StateOf(a)])
  BY NextDecides
<1> QED BY <1>1, <1>2, RequestInvariant, PTL DEF Spec, HumanDecides, Decision!Spec

\* What HumanDecision lets no step change: a state with no way out.
Settled(a) == StateOf(a) \in {"approved", "rejected", "void"}
StaysSettled == \A a \in Analyses : Settled(a) => StateOf(a)' = StateOf(a)

LEMMA DecidedStays ==
  ASSUME [Decision!Next]_([a \in Analyses |-> StateOf(a)])
  PROVE  StaysSettled
<1> DEFINE state == [a \in Analyses |-> StateOf(a)]
<1>1. \A a \in Analyses : state[a] = StateOf(a) /\ state'[a] = StateOf(a)'
  OBVIOUS
<1>2. state = [a \in Analyses |-> StateOf(a)]
  OBVIOUS
<1> HIDE DEF state
<1>3. SUFFICES ASSUME NEW a \in Analyses, state[a] \in {"approved", "rejected", "void"}
               PROVE  state'[a] = state[a]
  BY <1>1 DEF StaysSettled, Settled
<1>4. DOMAIN state = Analyses
  BY DEF state
<1>5. ASSUME NEW r \in Analyses, NEW from, NEW to, state[r] = from, from \in {"none", "awaiting"},
             state' = [state EXCEPT ![r] = to]
      PROVE  state'[a] = state[a]
  BY <1>3, <1>4, <1>5
<1>6. CASE Decision!Void
  <2>1. PICK gone \in SUBSET Analyses :
          /\ \A r \in gone : state[r] = "awaiting"
          /\ state' = [r \in Analyses |-> IF r \in gone THEN "void" ELSE state[r]]
    BY <1>6 DEF Decision!Void, state
  <2> QED BY <1>3, <2>1
<1>7. CASE \E r \in Analyses : Decision!Ask(r) \/ Decision!Approve(r) \/ Decision!Reject(r)
  <2>1. PICK r \in Analyses, from \in {"none", "awaiting"}, to \in {"awaiting", "approved", "rejected"} :
          state[r] = from /\ state' = [state EXCEPT ![r] = to]
    BY <1>7 DEF Decision!Ask, Decision!Approve, Decision!Reject, Decision!Move, state
  <2> QED BY <1>5, <2>1
<1>8. CASE state' = state
  BY <1>8
<1> QED BY <1>6, <1>7, <1>8 DEF Decision!Next, state

\* A decision stands: no click, no other replica, no restart and no expiry turns an
\* approval into a rejection, a rejection into an approval, or revives a request that
\* became void ("terminal" in approval.py).
THEOREM DecisionsStand == Spec => [][StaysSettled]_vars
<1>1. RInv /\ RInv' /\ [Next]_vars => [StaysSettled]_vars
  BY NextDecides, DecidedStays
<1> QED BY <1>1, RequestInvariant, PTL DEF Spec

-----------------------------------------------------------------------------
(* What is executed unseen *)

\* A cache entry is the map of the cluster, or was within its lifetime.
Cached == \A r \in Replicas :
  cache[r].until # 0 =>
    /\ cache[r].map \in Maps
    /\ \/ cache[r].map = annotated /\ cache[r].until <= now + CacheTTL
       \/ /\ lastSeen[cache[r].map] # Never
          /\ cache[r].until <= lastSeen[cache[r].map] + CacheTTL

Seen == \A m \in Maps : lastSeen[m] <= now

\* Between the blast radius and the gate the score is one of those possible.
Judged == \A a \in Analyses :
  stage[a] \in {"scored", "checked"} /\ source[a] = "k8s_annotations" => score[a] \in possible[a]

\* What was executed is not analysed again.
Finished == \A a \in ran : stage[a] = "done"

UInv == TypeOK /\ Cached /\ Seen /\ Judged /\ Finished /\ UnseenIsLocal

\* Steps that leave the analyses alone.
QuietAnalyses == UNCHANGED <<home, req, score, source, possible, ran>>

LEMMA FreshIsInForce ==
  ASSUME TypeOK, Cached, NEW r \in Replicas, Fresh(r) PROVE cache[r].map \in InForce
<1>1. now \in Nat /\ cache[r].until \in Nat /\ now < cache[r].until /\ CacheTTL \in Nat
  BY DEF TypeOK, Fresh
<1>2. cache[r].map \in Maps /\ lastSeen[cache[r].map] \in Nat
      /\ \/ cache[r].map = annotated
         \/ /\ lastSeen[cache[r].map] # Never
            /\ cache[r].until <= lastSeen[cache[r].map] + CacheTTL
  BY <1>1 DEF Cached, TypeOK
<1> QED BY <1>1, <1>2 DEF InForce

LEMMA NextCached == ASSUME UInv, [Next]_vars PROVE Cached' /\ Seen'
<1> USE DEF UInv
<1>0. TypeOK'
  BY NextType
<1>1. ASSUME UNCHANGED <<annotated, lastSeen, cache>>, now' = now \/ now' = now + 1
      PROVE  Cached' /\ Seen'
  BY <1>1 DEF Cached, Seen, TypeOK
<1>2. ASSUME NEW a \in Analyses, NEW r \in Replicas, NEW q \in Requests,
             ComputeBlastRadius(a, r, q)
      PROVE  Cached' /\ Seen'
  <2>1. UNCHANGED <<now, annotated, lastSeen>>
    BY <1>2 DEF ComputeBlastRadius, cluster
  <2>2. CASE UNCHANGED cache
    BY <1>1, <2>1, <2>2
  <2>3. CASE cache' = [cache EXCEPT ![r] = [map |-> annotated, until |-> now + CacheTTL]]
    BY <2>1, <2>3 DEF Cached, Seen, TypeOK
  <2> QED BY <1>2, <2>2, <2>3 DEF ComputeBlastRadius
<1>3. ASSUME NEW m \in Maps, Annotate(m) PROVE Cached' /\ Seen'
  <2>1. UNCHANGED <<now, cache>> /\ annotated' = m
        /\ lastSeen' = [lastSeen EXCEPT ![annotated] = now]
        /\ now \in Nat \ {0} /\ annotated \in Maps /\ lastSeen \in [Maps -> Nat]
    BY <1>3 DEF Annotate, memory, TypeOK
  <2>2. Seen'
    BY <2>1 DEF Seen
  <2>3. Cached'
    <3> SUFFICES ASSUME NEW r \in Replicas, cache[r].until # 0
                 PROVE  /\ cache[r].map \in Maps
                        /\ lastSeen'[cache[r].map] # Never
                        /\ cache[r].until <= lastSeen'[cache[r].map] + CacheTTL
      BY <2>1 DEF Cached
    <3>1. cache[r].until \in Nat /\ cache[r].map \in Maps
      BY DEF Cached, TypeOK
    <3>2. CASE cache[r].map = annotated
      <4>1. lastSeen'[cache[r].map] = now /\ cache[r].until <= now + CacheTTL
        BY <2>1, <3>1, <3>2 DEF Cached, Seen
      <4> QED BY <2>1, <3>1, <4>1 DEF Never
    <3>3. CASE cache[r].map # annotated
      <4>1. lastSeen'[cache[r].map] = lastSeen[cache[r].map]
        BY <2>1, <3>1, <3>3
      <4> QED BY <3>1, <3>3, <4>1 DEF Cached
    <3> QED BY <3>2, <3>3
  <2> QED BY <2>2, <2>3
<1>4. ASSUME NEW r \in Replicas, Restart(r) PROVE Cached' /\ Seen'
  <2>1. UNCHANGED <<now, annotated, lastSeen>> /\ cache' = [cache EXCEPT ![r] = NoCache]
    BY <1>4 DEF Restart, cluster
  <2> QED BY <2>1 DEF Cached, Seen, NoCache, TypeOK
<1>5. CASE \/ \E a \in Analyses : CascadeDepth(a) \/ Gate(a) \/ Notify(a)
           \/ \E r \in Replicas, a \in Analyses : Operate(r, a)
           \/ \E r \in Replicas, m \in Registries : Reload(r, m)
           \/ Tick \/ UNCHANGED vars
  <2>1. UNCHANGED <<annotated, lastSeen, cache>> /\ (now' = now \/ now' = now + 1)
    BY <1>5 DEF CascadeDepth, Gate, Notify, Operate, Answer, GetStatus, Reload, Tick, vars,
                cluster, memory
  <2> QED BY <1>1, <2>1
<1> QED BY <1>2, <1>3, <1>4, <1>5 DEF Next, Analyse

LEMMA NextUnseen == ASSUME UInv, [Next]_vars PROVE Judged' /\ Finished' /\ UnseenIsLocal'
<1> USE DEF UInv
<1>0. TypeOK' /\ (faults' = 0 => faults = 0)
  <2>1. faults' = 0 => faults = 0
    BY DEF TypeOK, Next, Analyse, Operate, ComputeBlastRadius, CascadeDepth, Gate, Notify,
           Answer, GetStatus, Annotate, Restart, Reload, Tick, Answered, Failed, vars
  <2> QED BY <2>1, NextType
<1>1. ASSUME QuietAnalyses,
             \A a \in Analyses : /\ stage'[a] \in {"scored", "checked"} =>
                                      stage[a] \in {"scored", "checked"}
                                 /\ stage[a] = "done" => stage'[a] = "done"
      PROVE  Judged' /\ Finished' /\ UnseenIsLocal'
  BY <1>0, <1>1 DEF QuietAnalyses, Judged, Finished, UnseenIsLocal, TypeOK
<1>2. ASSUME NEW a \in Analyses, NEW r \in Replicas, NEW q \in Requests,
             ComputeBlastRadius(a, r, q)
      PROVE  Judged' /\ Finished' /\ UnseenIsLocal'
  <2>1. /\ stage[a] = "idle" /\ stage' = [stage EXCEPT ![a] = "scored"] /\ ran' = ran
        /\ req' = [req EXCEPT ![a] = q]
        /\ possible' = [possible EXCEPT ![a] = {ScoreOf(q.service, m) : m \in InForce}]
    BY <1>2 DEF ComputeBlastRadius
  <2>2. a \notin ran
    BY <2>1 DEF Finished
  <2>3. PICK map, from :
          /\ Scored(a, map, from)
          /\ from = "k8s_annotations" => map \in InForce
    <3>1. annotated \in InForce
      BY DEF InForce
    <3>2. PICK t \in [Replicas -> Registries \cup {NoDependencies}] :
            \/ Fresh(r) /\ Scored(a, cache[r].map, "k8s_annotations")
            \/ Scored(a, annotated, "k8s_annotations")
            \/ Scored(a, t[r], "static_map")
      BY <1>2, BlastType DEF ComputeBlastRadius
    <3> QED BY <3>1, <3>2, FreshIsInForce
  <2>4. /\ score' = [score EXCEPT ![a] = ScoreOf(q.service, map)]
        /\ source' = [source EXCEPT ![a] = from]
    BY <2>1, <2>3 DEF Scored, TypeOK
  <2>5. Judged'
    <3>1. from = "k8s_annotations" => score'[a] \in possible'[a]
      BY <2>1, <2>3, <2>4 DEF TypeOK
    <3> QED BY <2>1, <2>4, <3>1 DEF Judged, TypeOK
  <2>6. Finished'
    BY <2>1, <2>2 DEF Finished, TypeOK
  <2>7. UnseenIsLocal'
    <3>1. \A b \in ran : /\ req'[b] = req[b] /\ score'[b] = score[b]
                         /\ source'[b] = source[b] /\ possible'[b] = possible[b]
      BY <2>1, <2>2, <2>4 DEF TypeOK
    <3> QED BY <1>0, <2>1, <3>1 DEF UnseenIsLocal
  <2> QED BY <2>5, <2>6, <2>7
<1>3. ASSUME NEW a \in Analyses, Gate(a) PROVE Judged' /\ Finished' /\ UnseenIsLocal'
  <2>1. /\ UNCHANGED <<home, req, score, source, possible>> /\ stage[a] = "checked"
    BY <1>3 DEF Gate, analysis
  <2>2. PICK critical \in BOOLEAN :
          /\ \/ Answered /\ critical = (req[a].service \in CriticalServices)
             \/ Failed /\ ~critical
          /\ IF RequiresApproval(req[a], score[a], critical)
             THEN stage' = [stage EXCEPT ![a] = "asked"] /\ ran' = ran
             ELSE stage' = [stage EXCEPT ![a] = "done"] /\ ran' = ran \cup {a}
    BY <1>3 DEF Gate
  <2>3. CASE RequiresApproval(req[a], score[a], critical)
    BY <1>1, <2>1, <2>2, <2>3 DEF QuietAnalyses, TypeOK
  <2>4. CASE ~RequiresApproval(req[a], score[a], critical)
    <3>1. stage' = [stage EXCEPT ![a] = "done"] /\ ran' = ran \cup {a}
      BY <2>2, <2>4
    <3>2. Judged' /\ Finished'
      BY <2>1, <3>1 DEF Judged, Finished, TypeOK
    <3>3. faults' = 0 => critical = (req[a].service \in CriticalServices)
      BY <2>2 DEF Failed, TypeOK
    <3>4. req[a] \in Requests /\ score[a] \in Scores
      BY DEF TypeOK
    <3>5. req[a].confidence \in Confidences
      BY <3>4
    <3>6. req[a].action \in Destructive =>
            /\ ~critical /\ score[a] \in {"low", "medium"} /\ req[a].confidence = "high"
      BY <2>4, <3>4, <3>5 DEF RequiresApproval, Scores
    <3>7. source[a] = "k8s_annotations" => score[a] \in possible[a]
      BY <2>1 DEF Judged
    <3>8. UnseenIsLocal'
      BY <1>0, <2>1, <3>1, <3>3, <3>6, <3>7 DEF UnseenIsLocal
    <3> QED BY <3>2, <3>8
  <2> QED BY <2>3, <2>4
<1>4. ASSUME NEW a \in Analyses, CascadeDepth(a) \/ Notify(a)
      PROVE  Judged' /\ Finished' /\ UnseenIsLocal'
  <2>1. QuietAnalyses
        /\ \/ stage[a] = "scored" /\ stage' = [stage EXCEPT ![a] = "checked"]
           \/ stage[a] = "asked" /\ stage' = [stage EXCEPT ![a] = "done"]
    BY <1>4 DEF CascadeDepth, Notify, analysis, QuietAnalyses
  <2>2. \A b \in Analyses : /\ stage'[b] \in {"scored", "checked"} =>
                                 stage[b] \in {"scored", "checked"}
                            /\ stage[b] = "done" => stage'[b] = "done"
    BY <2>1 DEF TypeOK
  <2> QED BY <1>1, <2>1, <2>2
<1>5. ASSUME NEW r \in Replicas, Restart(r) PROVE Judged' /\ Finished' /\ UnseenIsLocal'
  <2>1. QuietAnalyses
        /\ stage' = [a \in Analyses |->
                 IF home[a] = r /\ stage[a] \in {"scored", "checked", "asked"}
                 THEN "lost" ELSE stage[a]]
    BY <1>5 DEF Restart, analysis, QuietAnalyses
  <2>2. \A b \in Analyses : /\ stage'[b] \in {"scored", "checked"} =>
                                 stage[b] \in {"scored", "checked"}
                            /\ stage[b] = "done" => stage'[b] = "done"
    BY <2>1
  <2> QED BY <1>1, <2>1, <2>2
<1>6. CASE \/ \E r \in Replicas, a \in Analyses : Operate(r, a)
           \/ \E m \in Maps : Annotate(m)
           \/ \E r \in Replicas, m \in Registries : Reload(r, m)
           \/ Tick \/ UNCHANGED vars
  <2>1. QuietAnalyses /\ stage' = stage
    BY <1>6 DEF Operate, Answer, GetStatus, Annotate, Reload, Tick, vars, analysis, QuietAnalyses
  <2> QED BY <1>1, <2>1
<1> QED BY <1>2, <1>3, <1>4, <1>5, <1>6 DEF Next, Analyse

\* No destructive action runs unseen by a human unless its impact was low by a
\* map the cluster had at most CacheTTL before (cache of _get_dep_map,
\* requires_approval), or by the static map.
THEOREM UnseenActionsAreLocal == Spec => []UnseenIsLocal
<1>1. Init => UInv
  <2>1. Init => TypeOK
    BY InitRequests DEF RInv
  <2> QED BY <2>1 DEF Init, UInv, Cached, Seen, Judged, Finished, UnseenIsLocal, NoCache, Never
<1>2. UInv /\ [Next]_vars => UInv'
  BY NextType, NextCached, NextUnseen DEF UInv
<1>3. UInv => UnseenIsLocal
  BY DEF UInv
<1> QED BY <1>1, <1>2, <1>3, PTL DEF Spec
=============================================================================

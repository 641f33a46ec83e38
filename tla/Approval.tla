------------------------------ MODULE Approval ------------------------------
(***************************************************************************)
(* The human approval gate: the end of run_analysis (core/agent.py) from    *)
(* the blast radius to the execution, the cached dependency map behind it   *)
(* (core/blast_radius.py, the static map of core/causality.py), the pending *)
(* requests of core/approval.py with their routes, and the notification of  *)
(* integrations/slack.py. Each replica of the backend has its own process   *)
(* memory. The safety stack in between is in SafetyChain: here it allows    *)
(* the action of the request.                                               *)
(***************************************************************************)
EXTENDS DependencyGraph, DecisionPolicy

CONSTANTS
  Replicas,          \* processes of the backend, up to maxReplicas
  Analyses,          \* analyses whose action the safety stack allows
  Requests,          \* what they are about: service, action, confidence
  Maps,              \* depends-on annotations the cluster may have
  Registries,        \* dependency maps of the platform files there may be
  CriticalServices,  \* services annotated criticality=critical
  CacheTTL,          \* _CACHE_TTL
  ExpirySeconds,     \* approval_expiry_seconds
  MaxTime,           \* bound on the clock
  MaxFaults,         \* bound on failed calls of the Kubernetes API and restarts
  MaxEdits           \* bound on changes of annotations and platform files

ASSUME ApprovalAssumption ==
  /\ Requests # {} /\ Maps # {} /\ Registries # {}
  /\ Maps \subseteq DependencyMaps /\ Registries \subseteq DependencyMaps
  /\ Requests \subseteq [service : Services, action : Actions \ Safe, confidence : Confidences]
  /\ CriticalServices \subseteq Services
  /\ CacheTTL \in Nat \ {0} /\ ExpirySeconds \in Nat \ {0}
  /\ {MaxTime, MaxFaults, MaxEdits} \subseteq Nat

VARIABLES
  now, faults, edits,
  annotated,  \* the dependency map of the cluster
  lastSeen,   \* when each map was last replaced in the cluster (history)
  registry,   \* per replica: the map of the platform files it has loaded
  static,     \* per replica: what DEPENDENCY_MAP holds between two reads
  cache,      \* per replica: _graph_cache
  pending,    \* per replica: _pending
  stage,      \* where each analysis is: idle, scored, checked, asked, done, lost
  home,       \* the replica that runs it
  req,        \* what it is about
  score,      \* the blast radius it goes by
  source,     \* and where the map came from
  possible,   \* the scores by the maps of the last CacheTTL seconds (history)
  expires,    \* when its request expires; Never, if it made none
  told,       \* requests whose token reached the operators
  outcome,    \* the last answer the API confirmed: none, approved, rejected
  ran         \* analyses whose action was executed

cluster == <<annotated, lastSeen>>
memory == <<registry, static, cache>>
analysis == <<home, req, score, source, possible>>
answers == <<told, outcome>>
vars == <<now, faults, edits, cluster, memory, pending, stage, analysis, expires, answers, ran>>

Never == 0
NoCache == [map |-> NoDependencies, until |-> 0]

Init ==
  /\ now = 1 /\ faults = 0 /\ edits = 0
  /\ annotated \in Maps /\ lastSeen = [m \in Maps |-> Never]
  /\ \E m \in Registries : registry = [r \in Replicas |-> m]
  /\ static = [r \in Replicas |-> NoDependencies]
  /\ cache = [r \in Replicas |-> NoCache]
  /\ pending = [r \in Replicas |-> {}]
  /\ stage = [a \in Analyses |-> "idle"]
  /\ \E r \in Replicas : home = [a \in Analyses |-> r]
  /\ req = [a \in Analyses |-> CHOOSE q \in Requests : TRUE]
  /\ score = [a \in Analyses |-> "low"]
  /\ source = [a \in Analyses |-> "unknown"]
  /\ possible = [a \in Analyses |-> {}]
  /\ expires = [a \in Analyses |-> Never]
  /\ told = {} /\ outcome = [a \in Analyses |-> "none"]
  /\ ran = {}

Answered == UNCHANGED faults
Failed == faults < MaxFaults /\ faults' = faults + 1

-----------------------------------------------------------------------------
(* The blast radius *)

\* Mutant of Fresh: the entry is never too old.
FreshAlways(r) == cache[r].until # 0

\* is_fresh
Fresh(r) == now < cache[r].until

\* DEPENDENCY_MAP as its storage is: only a read by key merges the registry into it.
StaticOnRead(r, read) == IF read THEN registry[r] ELSE static[r]

\* Maps the cluster had within the lifetime of a cache entry.
InForce == {annotated} \cup {m \in Maps : lastSeen[m] # Never /\ now < lastSeen[m] + CacheTTL}

Scored(a, map, from) ==
  /\ score' = [score EXCEPT ![a] = ScoreOf(req'[a].service, map)]
  /\ source' = [source EXCEPT ![a] = from]

\* validate_causality reads the static map if the logs point to a dependency;
\* _get_dep_map takes the cache, the annotations or the storage of the static map.
ComputeBlastRadius(a, r, q) ==
  /\ stage[a] = "idle" /\ stage' = [stage EXCEPT ![a] = "scored"]
  /\ home' = [home EXCEPT ![a] = r] /\ req' = [req EXCEPT ![a] = q]
  /\ possible' = [possible EXCEPT ![a] = {ScoreOf(q.service, m) : m \in InForce}]
  /\ \E read \in BOOLEAN :
       /\ static' = [static EXCEPT ![r] = StaticOnRead(r, read)]
       /\ \/ Fresh(r) /\ Answered /\ Scored(a, cache[r].map, "k8s_annotations")
             /\ UNCHANGED cache
          \/ ~Fresh(r) /\ Answered /\ Scored(a, annotated, "k8s_annotations")
             /\ cache' = [cache EXCEPT ![r] = [map |-> annotated, until |-> now + CacheTTL]]
          \/ ~Fresh(r) /\ Failed /\ Scored(a, static'[r], "static_map")
             /\ UNCHANGED cache
  /\ UNCHANGED <<now, edits, cluster, registry, pending, expires, answers, ran>>

\* run_analysis looks its upstream services up, once the store has answered; the
\* anomaly score, the store and the safety stack are awaited around it.
CascadeDepth(a) ==
  /\ stage[a] = "scored" /\ stage' = [stage EXCEPT ![a] = "checked"]
  /\ \E read \in BOOLEAN :
       static' = [static EXCEPT ![home[a]] = StaticOnRead(home[a], read)]
  /\ UNCHANGED <<now, faults, edits, cluster, registry, cache, pending, analysis, expires,
                 answers, ran>>

-----------------------------------------------------------------------------
(* The gate *)

\* requires_approval
RequiresApproval(q, blast, critical) ==
  /\ q.action \in Destructive
  /\ \/ critical \/ q.action = "rollback"
     \/ blast \in {"high", "critical"}
     \/ q.confidence # "high"

\* service_criticality_from_k8s asks the API each time and takes a failure for no
\* annotation.  Without approval the action is executed at once.
Gate(a) ==
  /\ stage[a] = "checked"
  /\ \E critical \in BOOLEAN :
       /\ \/ Answered /\ critical = (req[a].service \in CriticalServices)
          \/ Failed /\ ~critical
       /\ IF RequiresApproval(req[a], score[a], critical)
          THEN /\ stage' = [stage EXCEPT ![a] = "asked"]
               /\ pending' = [pending EXCEPT ![home[a]] = @ \cup {a}]
               /\ expires' = [expires EXCEPT ![a] = now + ExpirySeconds]
               /\ UNCHANGED ran
          ELSE /\ stage' = [stage EXCEPT ![a] = "done"]
               /\ ran' = ran \cup {a}
               /\ UNCHANGED <<pending, expires>>
  /\ UNCHANGED <<now, edits, cluster, memory, analysis, answers>>

\* notify_approval_required: without a webhook, or if the post fails, nobody
\* learns the token, which no response carries either.
Notify(a) ==
  /\ stage[a] = "asked" /\ stage' = [stage EXCEPT ![a] = "done"]
  /\ told' \in {told, told \cup {a}}
  /\ UNCHANGED <<now, faults, edits, cluster, memory, pending, analysis, expires, outcome, ran>>

-----------------------------------------------------------------------------
(* The routes. A call reaches any replica, with the token of any request. *)

Forget(r, a) == pending' = [pending EXCEPT ![r] = @ \ {a}]

Expired(a) == now > expires[a]

\* verify_token; a token signs one request.
Verified(r, a, token) == a \in pending[r] /\ ~Expired(a) /\ token = a

\* Mutant of Settle: the request is read and stays.
SettleKeeps(r, a, answer) ==
  outcome' = [outcome EXCEPT ![a] = answer] /\ UNCHANGED pending

\* The request is popped; approval and rejection do nothing else.
Settle(r, a, answer) ==
  outcome' = [outcome EXCEPT ![a] = answer] /\ Forget(r, a)

\* Mutant of Refuse: the request was taken out before its token was compared.
RefusePops(r, a) == UNCHANGED outcome /\ Forget(r, a)

\* A request past its time is dropped by the answer that finds it.
Refuse(r, a) ==
  /\ UNCHANGED outcome
  /\ IF Expired(a) THEN Forget(r, a) ELSE UNCHANGED pending

\* approve and reject, and their routes; a refusal is a 403.
Answer(r, a, token, answer) ==
  /\ token \in told
  /\ IF Verified(r, a, token) THEN Settle(r, a, answer) ELSE Refuse(r, a)
  /\ UNCHANGED <<now, faults, edits, cluster, memory, stage, analysis, expires, told, ran>>

\* get_approval_status; the id is in the response of the analysis.
GetStatus(r, a) ==
  /\ a \in pending[r] /\ Expired(a) /\ Forget(r, a)
  /\ UNCHANGED <<now, faults, edits, cluster, memory, stage, analysis, expires, answers, ran>>

-----------------------------------------------------------------------------
(* Around the backend *)

Edited == edits < MaxEdits /\ edits' = edits + 1

\* The annotations of the deployments are changed.
Annotate(m) ==
  /\ m # annotated /\ annotated' = m
  /\ Edited
  /\ lastSeen' = [lastSeen EXCEPT ![annotated] = now]
  /\ UNCHANGED <<now, faults, memory, pending, stage, analysis, expires, answers, ran>>

\* reload_registry, on SIGHUP or by the admin route.
Reload(r, m) ==
  /\ m # registry[r] /\ registry' = [registry EXCEPT ![r] = m]
  /\ Edited
  /\ UNCHANGED <<now, faults, cluster, static, cache, pending, stage, analysis, expires,
                 answers, ran>>

\* A pod is replaced: its memory and its analyses are gone.
Restart(r) ==
  /\ Failed
  /\ static' = [static EXCEPT ![r] = NoDependencies]
  /\ cache' = [cache EXCEPT ![r] = NoCache]
  /\ pending' = [pending EXCEPT ![r] = {}]
  /\ stage' = [a \in Analyses |->
                 IF home[a] = r /\ stage[a] \in {"scored", "checked", "asked"}
                 THEN "lost" ELSE stage[a]]
  /\ UNCHANGED <<now, edits, cluster, registry, analysis, expires, answers, ran>>

Tick == /\ now < MaxTime /\ now' = now + 1
        /\ UNCHANGED <<faults, edits, cluster, memory, pending, stage, analysis, expires, answers, ran>>

Analyse(a) == \/ \E r \in Replicas, q \in Requests : ComputeBlastRadius(a, r, q)
              \/ CascadeDepth(a) \/ Gate(a) \/ Notify(a)

Operate(r, a) == \/ \E token \in Analyses : \/ Answer(r, a, token, "approved")
                                            \/ Answer(r, a, token, "rejected")
                 \/ GetStatus(r, a)

Next == \/ \E a \in Analyses : Analyse(a) \/ \E r \in Replicas : Operate(r, a)
        \/ \E m \in Maps : Annotate(m)
        \/ \E r \in Replicas : Restart(r) \/ \E m \in Registries : Reload(r, m)
        \/ Tick

Spec == Init /\ [][Next]_vars

-----------------------------------------------------------------------------
TypeOK ==
  /\ now \in 1..(MaxTime + 1) /\ faults \in 0..MaxFaults /\ edits \in 0..MaxEdits
  /\ annotated \in Maps /\ lastSeen \in [Maps -> Nat]
  /\ registry \in [Replicas -> Registries]
  /\ static \in [Replicas -> Registries \cup {NoDependencies}]
  /\ cache \in [Replicas -> [map : Maps \cup {NoDependencies}, until : Nat]]
  /\ pending \in [Replicas -> SUBSET Analyses]
  /\ stage \in [Analyses -> {"idle", "scored", "checked", "asked", "done", "lost"}]
  /\ home \in [Analyses -> Replicas] /\ req \in [Analyses -> Requests]
  /\ score \in [Analyses -> Scores]
  /\ source \in [Analyses -> {"unknown", "k8s_annotations", "static_map"}]
  /\ possible \in [Analyses -> SUBSET Scores]
  /\ expires \in [Analyses -> Nat]
  /\ told \subseteq Analyses /\ outcome \in [Analyses -> {"none", "approved", "rejected"}]
  /\ ran \subseteq Analyses

\* The state of a request as its humans see it.
Awaiting(a) == a \in pending[home[a]] /\ ~Expired(a)
StateOf(a) == IF outcome[a] # "none" THEN outcome[a]
              ELSE IF expires[a] = Never THEN "none"
              ELSE IF Awaiting(a) THEN "awaiting" ELSE "void"

Decision == INSTANCE HumanDecision WITH
  Requests <- Analyses,
  state <- [a \in Analyses |-> StateOf(a)]

\* "pending -> awaiting_approval -> approved | rejected (terminal) |
\* approval_expired (terminal)" (header of approval.py): whatever is retried,
\* misdirected, late or lost with a pod, a request is answered once and in time.
HumanDecides == Decision!Spec

\* Only its time or a restart takes an unanswered request away: a wrong token,
\* another request's answer or a look at its state does not.
OnlyRestartForgets ==
  faults = 0 => \A a \in Analyses :
    expires[a] # Never /\ outcome[a] = "none" /\ ~Expired(a) => a \in pending[home[a]]

\* What runs unseen by a human was of low impact by some map the cluster had
\* when its blast radius was computed or within CacheTTL before, or by the
\* static map after the API had failed (cache of _get_dep_map, requires_approval).
UnseenIsLocal ==
  \A a \in ran : req[a].action \in Destructive =>
    /\ score[a] \in {"low", "medium"}
    /\ source[a] = "k8s_annotations" => possible[a] \cap {"low", "medium"} # {}
    /\ req[a].confidence = "high"
    /\ faults = 0 => req[a].service \notin CriticalServices

-----------------------------------------------------------------------------
(* What the repository says and the code does not do *)

\* DEPENDENCY_MAP is a "dict that refreshes from the platform registry on every
\* read" (causality.py): a blast radius by the static map is one by the registry.
StaticIsRegistry ==
  [][\A a \in Analyses :
       stage[a] = "idle" /\ stage'[a] = "scored" /\ source'[a] = "static_map" =>
         score'[a] = ScoreOf(req'[a].service, registry[home'[a]])]_vars
=============================================================================
